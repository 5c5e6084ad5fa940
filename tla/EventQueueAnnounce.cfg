SPECIFICATION Spec
CONSTANTS
    p1 = p1
    p2 = p2
    t1 = t1
    Poppers <- MCPoppers
    TimedPoppers <- MCTimedPoppers
    EventKinds <- MCEventKinds
    MaxSizes <- MCMaxSizes
    MaxEvents = 2
    MaxDropped = 0
INVARIANT EveryPushAnnounced
