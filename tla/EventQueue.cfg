SPECIFICATION FairSpec
CONSTANTS
    p1 = p1
    p2 = p2
    t1 = t1
    Poppers <- MCPoppers
    TimedPoppers <- MCTimedPoppers
    EventKinds <- MCEventKinds
    MaxSizes <- MCMaxSizes
    MaxEvents = 3
    MaxDropped = 1
INVARIANTS TypeOK NoLostWakeup CountersExact
PROPERTIES
    FIFOWithinClass DeliversOnce
    WaitersServed DisableReleasesWaiters
