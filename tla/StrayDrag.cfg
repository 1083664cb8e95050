SPECIFICATION Spec
CONSTANTS
  Step = 100
  Iterations = 20
  CommandLines <- MCWindow
  SimulationYaml <- MCYaml
  Scenes <- MCScenes
  Bodies = {1, 2}
  Buttons = {"left", "right"}
  Dt = 2
  ResyncThreshold = 3
  MinGap = 50
  MaxLag = 9
  MaxResets = 1
PROPERTY
  NoStrayForce
CHECK_DEADLOCK FALSE
