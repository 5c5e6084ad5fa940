SPECIFICATION FairSpec
CONSTANTS
    Requests <- MCRequests
    Mappings <- MCMappings
    HighBytes <- MCHighBytes
    Lines <- MCLines
    MaxRequests = 2
    MaxConnections = 1
INVARIANTS TypeOK StatisticsAccount BytesSuffice OwnAnswer
PROPERTIES CallsReturn StopReturns
