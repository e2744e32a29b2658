SPECIFICATION Spec
CONSTANTS
  Workers = {w1, w2}
  MinAccuracy = 2
  Eps = 0
  Accuracies = {1, 2, 3}
  Seeds = {1, 2, 8}
  MinSamples = 2
  MaxRatio = 1
  Holdout = 25
  Crops = {c1, c2, c3}
  MaxNights = 2
  MaxStarts = 2
  Torn = Torn
  None = None
SYMMETRY Symmetric
CHECK_DEADLOCK FALSE
INVARIANTS
  TypeOK
  StateRestorable
  OnlyOldPoolsFail
  ComparedBeforeSwap
PROPERTIES
  CropsAccounted
