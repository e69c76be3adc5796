SPECIFICATION Spec
CONSTANTS
  Shapes <- MCShapes
  OptionsFor <- MCOptions
  ShapeOptions <- MCShapeOptions
  Registered <- MCRegistered
  MaxShapes = 2
  MaxCalls = 4
  Verbosities = {1, 3}
  MaxLoggers = 4
INVARIANTS GroupsFollowTheMode LevelsFollowTheLayers ConsoleFollowsTheSettings
CHECK_DEADLOCK FALSE
