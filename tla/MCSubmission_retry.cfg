SPECIFICATION Spec
CONSTANTS
  Intents = {i1}
  NoIntent = none
  Senders = {s1, s2}
  Importers = {r1}
  MaxRetries = 1
  MayGarble = TRUE
  Qty = 1
SYMMETRY SendersSymmetry
INVARIANTS TypeOK UnsentForGood NoOrphanOrder RejectionIsFinal PostsBounded IInv
PROPERTIES ImplementsOutbox
