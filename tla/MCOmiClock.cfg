SPECIFICATION Spec
CONSTANTS
  local = local
  remote = remote
  Peer <- MCPeer
  Seed <- MCSeed
  W = 16
  StepModulus = 16
INVARIANTS
  Replay
  LockstepFaithful
  DriftVisible
