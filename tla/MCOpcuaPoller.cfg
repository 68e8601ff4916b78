CONSTANTS
    Urls = {port1, port2}
    Intervals = {0, 7200}
    Identities = {a, b}
    NoSession = NoSession
    NoDevices = NoDevices
    NoUrl = NoUrl
    MaxFails = 3
SPECIFICATION Spec
INVARIANTS
    OneSession
    ReadsConfiguredServer
PROPERTIES
    Recovers
