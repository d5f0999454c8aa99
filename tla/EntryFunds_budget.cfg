SPECIFICATION Spec
CONSTANTS
  Entries = {e1, e2}
  Qty = 2
  Cash = 3
  FeesKnown = {e2}
  Guardians = {g1}
INVARIANTS TypeOK NeverOverspend CertifiedIsOneMoment
CHECK_DEADLOCK FALSE
