SPECIFICATION Spec
CONSTANTS
  guardian = guardian
  trader = trader
  Procs = {guardian, trader}
  Posters = {trader}
  Role <- RoleOf
  RoleLimit <- Limits
  TotalLimit = 3
  NonCriticalLimit = 1
  Window = 3
  Skew = 1
  ReportedLimits = {0, 1}
  Delays = {4}
  MaxTime = 4
  MaxCharges = 3
  MaxFaults = 1
INVARIANTS TypeOK RateKept ProtectionReserve
 
CHECK_DEADLOCK FALSE
