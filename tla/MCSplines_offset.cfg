SPECIFICATION Spec
CONSTANTS
  Objects <- MCOffsetObjects
  Fits = {}
  Functions = {}
  Errors = {0}
  MaxIter = 1
  KnotTol = 4
  Programs = {}
  One <- MCOne
  Tolerances = {0}
  Segments = {0}
  Skins = {}
INVARIANT CurvePassesPoints
