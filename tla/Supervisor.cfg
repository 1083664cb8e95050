SPECIFICATION Spec
CONSTANTS
  ByPlace = ByPlace
  ById = ById
  Robots = {ById, ByPlace}
  Config <- MCConfig
  Teams <- MCTeams
  Penalties = {"PICK_UP"}
  ResetBallOn = {"finished", "goal", "half_change"}
  MaxChanges = 3
  MaxWire = 2
INVARIANTS
  TypeOK
  PenalisedRobotsAreOut
  OthersAreIn
  KickoffFromCentre
  BallInPlayIsLeftAlone
  PhysicsSeesWholePackets
PROPERTIES
  PenaltiesAreEnforced
CHECK_DEADLOCK FALSE
