SPECIFICATION Spec
CONSTANTS
  p = p
  q = q
  s1 = s1
  s2 = s2
  None = None
  Size = 3
  W = 32
  MaxFiber = 2
  PairedClient = TRUE
  Coord <- MCCoord
  Inputs <- MCChain
  Profiles = {}
PROPERTY RefinesCoproduct
