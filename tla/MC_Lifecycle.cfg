SPECIFICATION FairSpec
CONSTANTS
    r1 = r1
    g1 = g1
    g2 = g2
    Requests <- McOneRequest
    Guards <- McGuards
    NoGuard = NoGuard
    MaxOwners = 1
    Remote = TRUE
    MaxInterruptions = 2
INVARIANTS
    ExclusiveMeansQuiet
    SuccessorAlone
    RunningIsCurrent
PROPERTIES
    AdmissionReopens
