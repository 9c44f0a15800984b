CONSTANTS
    f = f
    d = d
    p1 = p1
    p2 = p2
    op1 = op1
    op2 = op2
    Void = Void
    Ids <- MCIds
    Originals <- MCOriginals
    Trees <- MCTrees
    Paths <- MCPaths
    Ops <- MCOps
    OpPath <- MCOpPath
    Scenes <- MCScenes
SPECIFICATION Spec
INVARIANTS
    VisibleIsAllowed
    OutcomesAreTrue
    CrashesNeverBlockStartup
    DebtCoversTrash
CHECK_DEADLOCK FALSE
