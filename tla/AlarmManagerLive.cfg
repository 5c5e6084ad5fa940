SPECIFICATION FairSpec
CONSTANTS
    RuleIds <- MCOneRule
    RuleVersions <- MCEager
    Points <- MCPoints
    Values <- MCTwoValues
    MaxQueue = 1
    MaxAbnormal = 2
    SqlResults = {TRUE}
    CallbackTypes = {"VISUAL"}
    MaxDays = 0
    MaxRuleChanges = 1
    MaxOperations = 1
PROPERTIES ShutdownReturns AlarmsShown ClearsEventually
