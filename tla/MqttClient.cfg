SPECIFICATION FairSpec
CONSTANTS
    AutoReconnect = TRUE
    MaxRetries <- MCNoLimit
    QoS <- MCQoS
    MaxPacketId = 1
    MaxPublishes = 2
    MaxInbound = 1
    Capacity = 1
INVARIANTS TypeOK StoresExact AnsweredReachCallback
PROPERTIES PublishReturns DisconnectReturns
CHECK_DEADLOCK FALSE
