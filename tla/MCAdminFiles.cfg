CONSTANTS
    Procs = {http, https}
    MaxInputs = 3
    Addrs = {"a1"}
    MaxAttempts = 2
    Lockout = 1
    MaxTime = 1
    Passwords = {"x", "y"}
    Users = {"admin", "u1"}
    Admin = "admin"
    Jobs = {j1, j2}
    Levels = 2
    Pages = {"b1"}
SYMMETRY MCSymmetry
SPECIFICATION Spec
INVARIANTS
    LockedOut
    OneCredential
    UsersKept
    ScreensKept
CHECK_DEADLOCK FALSE
