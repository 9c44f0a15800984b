SPECIFICATION MCSpec
CONSTANTS
    a1 = a1
    a2 = a2
    c1 = c1
    Attempts = {a1, a2}
    Changes = {c1}
    Doors = {"admin", "account", "web", "folder", "webdav"}
    Edits <- McEdits
    Addresses = {"home", "away"}
    Loopback = "home"
    RecoveryCodes = 1
    MaxFailures = 1
    MaxRecords = 1
    PerScope = 1
    MaxClock = 4
    MaxFaults = 1
    MaxCrashes = 1
    Nobody = Nobody
INVARIANTS
    SessionsAreCurrent
    ProofsAreSpentOnce
    FailuresAreLimited
CHECK_DEADLOCK FALSE
