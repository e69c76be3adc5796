SPECIFICATION FairSpec
CONSTANT Networks <- AllNetworks
INVARIANTS CellsAreChains SuccessMeansLoops GridsAreCut
PROPERTY Terminates
