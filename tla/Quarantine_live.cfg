SPECIFICATION FairSpec
CONSTANTS
  Symbols = {a}
  Home = a
  Qty = 1
INVARIANTS TypeOK
PROPERTIES StaleNeverQuarantines QuarantineStands  
