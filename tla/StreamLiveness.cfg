SPECIFICATION Spec
CONSTANTS
  Threads = {w1, w2}
  publish_every = 1
  KeepAlive = 1
  Falls <- MCFalls
  enabled = TRUE
  MaxQueued = 1
  MaxResets = 1
  MaxTime = 2
PROPERTIES
  FallStateSettles
