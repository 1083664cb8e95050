SPECIFICATION Spec
CONSTANTS
  Step = 100
  Iterations = 20
  CommandLines <- MCCommandLines
  SimulationYaml <- MCYaml
  Scenes <- MCScenes
  Bodies = {1, 2}
  Buttons = {"left", "right"}
  Dt = 2
  ResyncThreshold = 3
  MinGap = 50
  MaxLag = 9
  MaxResets = 1
INVARIANTS
  TypeOK
  StartIsLegal
  StartIsRestored
  CatchUpIsBounded
  ResetUnpinsDrag
PROPERTIES
  SelectedForceEnds
CHECK_DEADLOCK FALSE
