SPECIFICATION Spec
CONSTANTS
  RawSize = 3
  MaxDamage = 2
  Strict = FALSE
  Raws <- MCRaws
  Noise <- MCNoise
INVARIANTS
  ZeroTrapped
