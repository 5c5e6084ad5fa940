SPECIFICATION Spec
CONSTANTS
    Ids <- MCIds
    Branches <- MCBranches
INVARIANTS TypeOK ConnectedExact IslandsExact UnobservableExact
CHECK_DEADLOCK FALSE
