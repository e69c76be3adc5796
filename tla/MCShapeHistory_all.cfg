SPECIFICATION Spec
CONSTANTS
  Part <- MCPart
  Height <- MCHeight
  Sources <- MCSources
  Algorithms <- MCAlgorithms
  Tags = {t}
  Targets = {"a"}
  Lives = {1, 2}
  MaxTrees = 5
  MaxEdits = 1
INVARIANTS
  DescentIsTrue
  DescentIsComplete
  TracksCountSteps
PROPERTY
  ResultsAreTagged
