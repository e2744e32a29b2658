SPECIFICATION FairSpec
CONSTANTS
  Jobs = {j1, j2}
  Entries = 2
  Capacities = {1, 2}
  MaxChanges = 1
  MaxErrors = 0
CHECK_DEADLOCK FALSE
INVARIANTS
  TypeOK
  PermitsConserved
  NothingLost
PROPERTY
  JobsEnd
