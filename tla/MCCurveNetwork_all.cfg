SPECIFICATION AllSpec
CONSTANTS
  NProfiles = 3
  NGuides = 3
  Inputs <- AllInputs
  One = 4000
  Networks <- AllNetworks
  Leftovers <- SomeLeftovers
INVARIANTS GridsAreSorted ParametersFollowCurves
           IndicesTellTheDirection
           ParametersMeetTheCurves FirstSurfaceIsOfAClosedNetwork GridsGetASurface
