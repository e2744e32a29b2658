SPECIFICATION Spec
CONSTANTS
  FrameW = 7
  FrameH = 6
  Faces <- MCFaces
  Persons <- MCPersons
  Rois <- MCRois
  IouNum = 9
  IouDen = 20
  HullMargin = 2
  EllipseMargin = 1
  MinSegment = 3
  HeadNum = 3
  HeadDen = 10
  MinHead = 4
  MinCrop = 4
  MaxFaces = 3
  NULL = NULL
CHECK_DEADLOCK FALSE
INVARIANTS
  FacesReplaced
  OnlyFacesReplaced
