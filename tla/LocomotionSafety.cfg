SPECIFICATION Spec
CONSTANTS
  NJoints = 2
  HeadJoints = {1}
  Heads = {0}
  HeadLimit = 1
  MaxMotors = 2
  Attitudes <- MCAttitudes
  Requestable = {"DAMPING", "SOCCER", "CUSTOM", "UNKNOWN"}
  MaxSeq = 3
  MaxResets = 1
  Blend = 2
  MaxTime = 2
INVARIANTS
  TypeOK
  NoStaleLowCmd
  DeadClientHoldsEntryPose
  FrozenOnlyByClient
  ModeInForce
