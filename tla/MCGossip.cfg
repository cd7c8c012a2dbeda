SPECIFICATION GossipSpec
CONSTANTS
  local = local
  remote = remote
  None = None
  Peer <- MCPeer
  Seed <- MCSeed
  W = 16
  StepModulus = 8
  MaxStep = 2
  MaxWire = 2
SYMMETRY Nodes
INVARIANTS
PROPERTIES
  CommitInSync
  OutOrdered
