-------------------------- MODULE MCEntryAuthority -------------------------
(* r2 is r1 with new code; r3 also has a new request control.              *)
EXTENDS EntryAuthority, TLC

CONSTANTS t1, t2, r1, r2, r3
Generations == (r1 :> 1) @@ (r2 :> 1) @@ (r3 :> 2)
Symmetry == Permutations(Traders)
=============================================================================
