SPECIFICATION Spec
CONSTANTS
    c1 = c1
    c2 = c2
    Clients <- MCClients
    EventKinds <- MCEventKinds
    MaxTime = 1
    MaxCalls = 2
    CancelIds <- MCFirstId
    NewTimes <- MCNoTimes
SYMMETRY Symmetry
INVARIANTS TypeOK ExecutesOnce SeriesSequential HistoryTruthful RepetitionsMarked
