SPECIFICATION Spec
CONSTANTS
  Ops = {1}
  A = A
  B = B
  Dirs = {A, B}
  Items = {1, 2}
  Present <- Trees
  Kinds = {"copy", "collection", "move", "delete", "mkdir"}
  Every = 1
  Keeps = {TRUE, FALSE}
  Old = Old
  Other = Other
  Rec = Rec
  None = None
  MaxFaults = 2
  MaxCrashes = 1
  MaxOther = 1
INVARIANT NothingIsLost
PROPERTIES AnswersAreTrue RecoveryKeepsResults JournalsEnd
CHECK_DEADLOCK FALSE
