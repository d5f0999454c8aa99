SPECIFICATION Spec
CONSTANTS
  Lots = {l1}
  Legacy = {}
  Roles = {r1, r2}
  Deployments = {{r1, r2}}
  Revised = {l1}
  Batch = 1
  MaxCosts = 1
  MaxTime = 3
PROPERTY OutcomesNeverRollBack
