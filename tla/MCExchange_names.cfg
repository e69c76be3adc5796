SPECIFICATION Spec
CONSTANTS
  Shapes <- MCShapes
  OptionsFor <- MCOptions
  ShapeOptions <- MCShapeOptions
  Registered <- MCRegistered
  MaxShapes = 2
  MaxCalls = 4
  Verbosities = {1, 3}
  MaxLoggers = 4
INVARIANT NamesComeBack
CHECK_DEADLOCK FALSE
