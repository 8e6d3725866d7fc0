CONSTANTS
  c1 = c1
  c2 = c2
  Members = {c1, c2}
  Window = 1
  MaxDepth = 2
  HasChain = TRUE
SPECIFICATION MCSpec
INVARIANTS
  AppliedIsTrue
  NobodyLeftAtDefaults
  GivenUpAfterWindow
  PeerDepthIsThePeers
PROPERTIES
  KeepsVerdicts
  SettlementEnds
