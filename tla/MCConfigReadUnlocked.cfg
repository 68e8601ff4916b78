CONSTANTS
    http = http
    https = https
    worker = worker
    other = other
    loop = loop
    Threads <- MCThreads
    Processes <- MCProcesses
    ProcessOf <- MCProcessOf
    Serves <- MCEditsServes
    Requests = {r1, r2, r3}
    Installed = Installed
    Nobody = Nobody
    Nothing = Nothing
    MaxBackups = 2
    MaxSeconds = 0
    MaxFaults = 0
SPECIFICATION Spec
INVARIANTS
    EveryEditStays
SYMMETRY MCSymmetry
