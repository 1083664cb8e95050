SPECIFICATION Spec
SYMMETRY MCThreadSymmetry
CONSTANTS
  Threads = {w1, w2}
  publish_every = 2
  KeepAlive = 4
  Falls <- MCFalls
  enabled = TRUE
  MaxQueued = 1
  MaxResets = 1
  MaxTime = 6
INVARIANT
  KeepsAlive
