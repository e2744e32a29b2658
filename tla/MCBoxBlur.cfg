SPECIFICATION BlurSpec
CONSTANTS
  LineLength = 6
  MaxSample = 5
  Wrap = 64
  Lines <- MCLines
  Radii = {2, 3}
CHECK_DEADLOCK FALSE
INVARIANT SlidingIsExact
