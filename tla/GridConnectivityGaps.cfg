SPECIFICATION Spec
CONSTANTS
    Ids <- MCIds
    Branches <- MCBranches
INVARIANT ConnectedMeansReachable
CHECK_DEADLOCK FALSE
