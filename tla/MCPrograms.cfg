SPECIFICATION Spec
CONSTANTS
  None = None
  W = 32
  MaxErrors = 3
  Capacity = 6
  FiberRoom = 8
  Spot <- MCSpot
  BootByte = {1, 255}
  Face = {0, 3, 4}
  FieldX = {0, 1, 239, 240}
  FieldY = {0, 3, 4}
  Width = 8
  Base = {2, 7, 10, 16, 58, 64}
  Digit = {0, 1, 3, 9, 15, 57, 63}
  MaxDigits = 3
  Texts = 2
  Hash = {0, 1}
  Effect <- MCEffect
  PatternWitness = {0, 24}
  DiagonalSum = {0, 120}
  Cars <- MCCars
  Cdrs <- MCCdrs
  Profiles <- MCProfiles
INVARIANTS
  ScrubbingKeepsData
  NoSilentLoss
  PrintsGolden
  FrameWhole
  ResolutionNames
  RadixExact
  FrameUnmixed
  GateNamesEffect
  SameProfileRecovers
  RouterLawful
PROPERTIES
  VerdictCounts
  MainIsPairedClient
