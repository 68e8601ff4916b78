CONSTANTS
    Sockets = {s1, s2}
    Alarms = {a1}
    Ping = Ping
    MaxConnections = 2
SPECIFICATION FeedSpec
INVARIANTS
    RegisteredWhileServed
    NoGap
PROPERTIES
    Pushed
CHECK_DEADLOCK FALSE
