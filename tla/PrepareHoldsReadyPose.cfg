SPECIFICATION HistorySpec
CONSTANTS
  NJoints = 2
  HeadJoints = {1}
  Heads = {0}
  HeadLimit = 1
  MaxMotors = 2
  Attitudes <- MCAttitudes
  Requestable = {"SOCCER", "CUSTOM"}
  MaxSeq = 2
  MaxResets = 1
  Blend = 1
  MaxTime = 2
INVARIANT
  PrepareHoldsReadyPose
