SPECIFICATION Spec
CONSTANTS
  t1 = t1
  t2 = t2
  r1 = r1
  r2 = r2
  r3 = r3
  Traders = {t1, t2}
  Releases = {r1, r2, r3}
  First = r1
  EntryGeneration <- Generations
  None = None
  MaxSeq = 5
  MaxProofs = 2
INVARIANTS TypeOK HolderIsBound 
 
SYMMETRY Symmetry
CHECK_DEADLOCK FALSE
