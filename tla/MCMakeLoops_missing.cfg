SPECIFICATION FairSpec
CONSTANT Networks <- NetworksWithAGap
INVARIANT SuccessFillsTheArray
