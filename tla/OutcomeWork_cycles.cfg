SPECIFICATION FairSpec
CONSTANTS
  Lots = {l1, l2}
  Legacy = {l2}
  Roles = {r1, r2}
  Deployments = {{r1},{r1,r2}}
  Revised = {l1}
  Batch = 1
  MaxCosts = 1
  MaxTime = 3
INVARIANTS TypeOK LearnableIsCurrent
PROPERTIES AcksAreComplete ClosedLotsAreProcessed
