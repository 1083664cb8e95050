SPECIFICATION Spec
CONSTANTS
  Pieces = {1, 2}
  MaxLives = 1
  MaxFrames = 1
INVARIANT
  SceneIsAlive
CHECK_DEADLOCK FALSE
