SPECIFICATION AllSpec
CONSTANTS
  Inputs <- MCInputs
  Iterations = 2
  KnotGap = 1
  Wires <- MCWires
  KinksOf <- MCKinksOf
  Networks <- MCNetworks
  MaxWires = 3
  MaxThrows = 1
  KnotTol = 2
  Unit = 48
INVARIANTS
  JoinedSurfacesMeet
  StripsAreJoined
  SmoothAtLast
  FacesFollowTheProfiles
  PatchesFitTheirFrames
CHECK_DEADLOCK FALSE
