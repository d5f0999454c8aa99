SPECIFICATION FairSpec
CONSTANTS
  Lots = {l1}
  NoLot = none
  Qty = 2
  MaxBought = 2
  MaxExits = 3
  MaxSetbacks = 1
  Guardians = {g1}
  Parallels = {FALSE}
  MayFail = TRUE
INVARIANTS TypeOK NeverOversell
 
