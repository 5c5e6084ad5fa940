SPECIFICATION FairSpec
CONSTANTS
    NumFmus = 2
    StopTime = 8
    StepSizes <- MCStepSizes
    MinStep = 1
    MaxStep = 6
    VariableStep = TRUE
    EventKinds <- MCEventKinds
    Capacities <- MCCapacities
    MaxEvents = 2
    MaxDropped = 1
    MaxFailures = 2
    MaxCalls = 3
INVARIANTS TypeOK EventsOnTime InStep
PROPERTIES EndedStay RunEnds
CHECK_DEADLOCK FALSE
