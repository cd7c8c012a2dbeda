SPECIFICATION Spec
CONSTANTS
  Fano = {0, 1, 5, 6, 7}
  Role = {0, 1, 2, 3}
  Local = {0, 239, 240}
  Opcode = {0, 15}
  Token = {127, 128}
  Character = {0, 32, 33, 127, 128}
  Byte = 4
  Segments = {0, 1}
  Signature <- MCSignature
  Segment <- MCSegment
  FieldX = {0, 15, 239, 240, 255}
  UnitY = {0, 4, 255}
  StreamByte = {0, 31, 32, 127, 128, 175, 176}
INVARIANTS
  ScribeFollows
  SlotDecodes
  ExportVerdict
  LambdaAgrees
  SurfaceAgrees
