SPECIFICATION Spec
CONSTANTS
  RawSize = 3
  MaxDamage = 2
  Strict = TRUE
  Raws <- MCRaws
  Noise <- MCNoise
INVARIANTS
  EncoderInBounds
  FrameEncodes
  RoundTrip
  AcceptedIsCanonical
  DecoderInBounds
