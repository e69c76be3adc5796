SPECIFICATION Spec
CONSTANTS
  Objects <- MCObjects
  Fits <- MCFits
  Functions <- MCFunctions
  Errors = {0, 1, 2}
  MaxIter = 2
  KnotTol = 4
  Programs <- MCPrograms
  One <- MCOne
  Tolerances = {0, 20}
  Segments = {0, 4}
  Skins <- MCSkins
INVARIANTS
  SplinesAreValid
  CurvePassesPoints
  KinksAreWhereAsked
  FitsInterpolate
  FitsClose
  FunctionIsCovered
  ConcatGoesThroughAll
  CommonKnotsAreCommon
  SurfacesFollow
  SurfacePassesCurves
