SPECIFICATION MCSpec
CONSTANTS
    Owners = {o1, o2}
    Scanners = {"worker", "sweep", "mover"}
    Limits = {1, NoLimit}
    MaxBytes = 1
    MaxFaults = 1
    NoLimit = NoLimit
    NoLedger = NoLedger
INVARIANTS
    AccurateIsTrue
    LedgerFollows
PROPERTIES
    NoOvercommit
    UncertaintyEnds

