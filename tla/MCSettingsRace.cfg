SPECIFICATION Spec
CONSTANTS
  Requests = {q1, q2}
  Patches <- MCPatches
  Bases <- InClamp
  Lo = 1
  Hi = 3
  Bad = Bad
  Torn = Torn
  Empty = Empty
  None = None
  MaxStarts = 3
SYMMETRY Symmetric
CHECK_DEADLOCK FALSE
INVARIANT
  OverridesLoadable
