CONSTANTS
  Width = 4
  Height = 3
  Scenes <- AllScenes
SPECIFICATION Spec
INVARIANTS
  CutIsDifference
  UnitedSolidsAreUnions
  TraitsFollowFaces
