CONSTANTS
    s1 = s1
    s2 = s2
    None = None
    Streams <- MCStreams
    SubjectsOf <- MCSubjectsOf
    Size = 2
    Limits <- MCLimits
    DefaultCycle = 1
    Cycles = {1, 2}
    MaxBatch = 2
    MaxPending = 2
    CompactAt = 2
    MaxClock = 1
    MaxSteps = 1
    MaxEdits = 1
    MaxFaults = 1
    MaxCrashes = 1
SPECIFICATION Spec
INVARIANTS
    ReplayIsExact
    ReleasedIsDurable
    QuotaIsHard
PROPERTIES
    ChargesAreAnswered
CHECK_DEADLOCK FALSE
