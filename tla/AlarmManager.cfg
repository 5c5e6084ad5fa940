SPECIFICATION Spec
CONSTANTS
    RuleIds <- MCOneRule
    RuleVersions <- MCBoth
    Points <- MCPoints
    Values <- MCValues
    MaxQueue = 1
    MaxAbnormal = 2
    SqlResults = {TRUE, FALSE}
    CallbackTypes = {}
    MaxDays = 1
    MaxRuleChanges = 2
    MaxOperations = 1
INVARIANTS TypeOK RowsFollow RaisedWhenMet
