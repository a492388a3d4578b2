\* Two healthy cameras and callbacks one at a time: the kindest case.
SPECIFICATION Spec
CONSTANTS
  Narrowest = 1
  Width <- MCWidth
  PixelSize <- MCPixelSize
  Silent = {}
  Refused = {}
  Asks = {3, 6}
  Serial = TRUE
INVARIANTS
  NeverRunsDry
