CONSTANTS
    temp = temp
    product = product
    Unset = Unset
    Offline = Offline
    NoTag = NoTag
    NoLimits = NoLimits
    NoAlarm = NoAlarm
    Tags = {temp, product}
    Values <- MCValues
    TagConfigs <- MCTagConfigs
    Operators = {o1}
    Views <- MCViews
    MaxOccurrences = 2
    MaxCrashes = 1
    MaxFaults = 1
SPECIFICATION Spec
INVARIANTS
    HistoryComplete
PROPERTIES
    EarlyAckKept
    ImplementsBoard
