SPECIFICATION Spec
SYMMETRY MCThreadSymmetry
CONSTRAINT MCOneAtATime
CONSTANTS
  Threads = {w1, w2}
  publish_every = 2
  KeepAlive = 4
  Falls <- MCFalls
  enabled = TRUE
  MaxQueued = 2
  MaxResets = 2
  MaxTime = 7
INVARIANTS
  TypeOK
  WireMatchesMemory
  OdometryRestartsAtReset
  KeepsAliveUntilReset
