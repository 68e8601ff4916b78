CONSTANTS
    http = http
    https = https
    worker = worker
    other = other
    loop = loop
    Threads <- MCThreads
    Processes <- MCProcesses
    ProcessOf <- MCProcessOf
    Serves <- MCServes
    Requests = {r1, r2}
    Installed = Installed
    Nobody = Nobody
    Nothing = Nothing
    MaxBackups = 1
    MaxSeconds = 1
    MaxFaults = 1
SPECIFICATION Spec
INVARIANTS
    NoLostUpdate
    CacheCoherent
    ServerFollows
PROPERTIES
    BackedUpFirst
SYMMETRY MCSymmetry
CONSTRAINT MCUntroubled
