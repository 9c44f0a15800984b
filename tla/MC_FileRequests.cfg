CONSTANTS
    l1 = l1
    l2 = l2
    w1 = w1
    w2 = w2
    r1 = r1
    Packer = Packer
    None = None
    Names = {1, 2, 3}
    Dirs = {3}
    Keys <- MCKeys
    Listers <- MCListers
    Writers <- MCWriters
    Readers <- MCReaders
    Casts <- MCCasts
    Limit = 1
    MaxEntries = 2
    MaxSnapshots = 1
    MaxBytes = 2
    MaxBuilds = 1
    MaxArchive = 4
SPECIFICATION Spec
INVARIANTS
    ListingsAreFresh
    PagesCoverTheDirectory
    ConditionsHold
    BodiesAreOneVersion
    ArchivesAreWhole
PROPERTIES
    ListersAreServed
CHECK_DEADLOCK FALSE
