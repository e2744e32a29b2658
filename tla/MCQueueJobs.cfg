SPECIFICATION Spec
CONSTANTS
  a = a
  b = b
  present = present
  missing = missing
  Jobs = {a, b}
  Keys = {present, missing}
  Objects = {present}
  Slots = {1, 2, 3}
  Permits = 2
  MaxTries = 2
  MaxOverlap = 2
  MaxLosses = 1
  Deployments <- AllDeployments
CHECK_DEADLOCK FALSE
INVARIANTS
  TypeOK
  MessageNeverLost
  
  GivenUpAfterRetries
  OneRunPerMessage
  
  StatusFollows
