SPECIFICATION Spec
CONSTANTS
  Part <- MCPart
  Height <- MCHeight
  Sources <- MCSources
  Algorithms <- MCAlgorithms
  Tags = {t}
  Targets = {"v"}
  Lives = {1}
  MaxTrees = 3
  MaxEdits = 0
INVARIANT
  EverySubshapeKnowsItsOrigins
