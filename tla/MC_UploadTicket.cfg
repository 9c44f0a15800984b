SPECIFICATION Spec
CONSTANTS
    Paths = {a, b}
    Requests = {r1, r2}
    Retirement = {"expiry", "pressure"}
    MaxDrops = 1
    MaxFaults = 2
    MaxCrashes = 1
INVARIANTS
    ExactlyOneExecutor
    ReportsTruth
PROPERTIES
    ResultsAreFinal
SYMMETRY Interchangeable
CHECK_DEADLOCK FALSE
