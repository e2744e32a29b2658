SPECIFICATION Spec
CONSTANTS
  Requests = {q1, q2}
  Patches <- MCPatches
  Bases <- MCBases
  Lo = 1
  Hi = 3
  Bad = Bad
  Torn = Torn
  Empty = Empty
  None = None
  MaxStarts = 3
SYMMETRY Symmetric
CHECK_DEADLOCK FALSE
INVARIANTS
  TypeOK
  EffectiveValid
  AnswersSurvive
PROPERTIES
  OkMeansBoth
