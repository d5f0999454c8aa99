----------------------------- MODULE MCOwnedExit -----------------------------
(* Instances of OwnedExit for TLC: symmetric guardians and lots.            *)
EXTENDS OwnedExit, TLC

Symmetry == Permutations(Guardians) \cup Permutations(Lots)
=============================================================================
