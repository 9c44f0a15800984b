SPECIFICATION Spec
CONSTANTS
    Ids = {"x"}
    Conns = {c, d}
    None = None
    MaxRetired = 1
    MaxEdits = 2
    MaxSettings = 1
    MaxPasses = 1
    MaxFaults = 1
    MaxCrashes = 1
    MaxDamage = 1
INVARIANTS
    OwedIsKept
    InitialPasswordsStayReadable
    AcceptedChangesStay
CHECK_DEADLOCK FALSE
SYMMETRY ConnSymmetry
