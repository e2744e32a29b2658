SPECIFICATION Spec
CONSTANTS
  a = a
  b = b
  present = present
  missing = missing
  Jobs = {a, b}
  Keys = {present, missing}
  Objects = {present}
  Slots = {1, 2, 3}
  Permits = 2
  MaxTries = 2
  MaxOverlap = 1
  MaxLosses = 1
  Deployments <- LoneDeployments
CHECK_DEADLOCK FALSE
INVARIANTS
  RetryFindsInput
