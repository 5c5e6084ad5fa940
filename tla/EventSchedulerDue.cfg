SPECIFICATION FairSpec
CONSTANTS
    c1 = c1
    c2 = c2
    Clients <- MCClients
    EventKinds <- MCPlainKinds
    MaxTime = 1
    MaxCalls = 2
    CancelIds <- MCAnyId
    NewTimes <- MCNoTimes
PROPERTY DueEventsOccur
