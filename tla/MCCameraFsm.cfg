SPECIFICATION Spec
CONSTANTS
  Cameras = {c1}
  Jobs = {j1, j2}
  Geoms = {g1, g2}
  Shapes = {p1}
  Full = Full
  NULL = NULL
  LearningDays = 1
  WindowDays = 1
  MaxDay = 3
  MaxFrames = 1
SYMMETRY Symmetric
INVARIANTS
  TypeOK
  RowCoherent
  RoiInFrame
  NoEarlyActivation
PROPERTIES
  GeometryFixed
  LearningDataKept
