SPECIFICATION Spec
CONSTANTS
  NJoints = 2
  HeadJoints = {1}
  Heads = {0, 2}
  HeadLimit = 1
  MaxMotors = 1
  Attitudes <- MCAttitudes
  Requestable = {"DAMPING", "SOCCER", "CUSTOM", "UNKNOWN"}
  MaxSeq = 2
  MaxResets = 1
  Blend = 2
  MaxTime = 2
PROPERTIES
  ImplementsContract
  DownIsReported
  PrepareSettles
  HeadCommandIsKept
