SPECIFICATION FairSpec
CONSTANTS
    c1 = c1
    c2 = c2
    Clients <- MCOneClient
    EventKinds <- MCEndlessKinds
    MaxTime = 1
    MaxCalls = 2
    CancelIds <- MCNoIds
    NewTimes <- MCNewTimes
PROPERTIES StopReturns DueEventsTaken
