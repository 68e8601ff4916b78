CONSTANTS
    k1 = k1
    k2 = k2
    bearing = bearing
    overheat = overheat
    Calls <- MCCalls
    Pairs <- MCPairs
    PairOf <- MCSamePair
    Nothing = Nothing
    Garbled = Garbled
    Nobody = Nobody
    MaxCrashes = 2
SPECIFICATION TrainSpec
INVARIANTS
    AtMostOnce
    FreshAnswer
    RowDescribesModel
PROPERTIES
    RequestTaken
