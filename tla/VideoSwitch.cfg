\* Three cameras, the narrowest under a name the transport refuses, the middle
\* one at a picture size of its own.  Callbacks may overlap.
SPECIFICATION FairSpec
CONSTANTS
  Narrowest = 2
  Width <- MCWidth
  PixelSize <- MCPixelSize
  Silent = {}
  Refused = {2}
  Asks = {1, 3, 6}
  Serial = FALSE
INVARIANTS
  CropMatchesCamera
  NothingForgotten
  BufferFitsCaps
PROPERTIES
  UnusedCameraStops
  StreamRecovers
