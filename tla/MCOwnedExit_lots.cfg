SPECIFICATION Spec
CONSTANTS
  Lots = {l1, l2}
  NoLot = none
  Qty = 2
  MaxBought = 2
  MaxExits = 2
  MaxSetbacks = 1
  Guardians = {g1, g2}
  Parallels = {TRUE, FALSE}
  MayFail = TRUE
SYMMETRY Symmetry
INVARIANTS NeverOversell OneSeller
