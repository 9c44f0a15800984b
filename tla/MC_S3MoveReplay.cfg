SPECIFICATION Spec
CONSTANTS
  Ops = {1, 2}
  Files = {f, g}
  Asked <- MoveAndBack
  Large = {2}
  Present = {f}
  Keeps = {TRUE, FALSE}
  Old = Old
  Guest = Guest
  Rec = Rec
  None = None
  MaxFaults = 0
  MaxCrashes = 0
  MaxForeign = 0
PROPERTY RecoveryUndoesNoResult
CHECK_DEADLOCK FALSE
