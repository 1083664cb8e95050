SPECIFICATION Spec
CONSTANTS
  Pieces = {1, 2}
  MaxLives = 2
  MaxFrames = 2
INVARIANTS
  TypeOK
  AcceptedFramesAreWhole
PROPERTIES
  ImplementsFrameFeed
  PoseNeverBlocksForLong
  ShutdownEnds
  NothingIsLeftBehind
CHECK_DEADLOCK FALSE
