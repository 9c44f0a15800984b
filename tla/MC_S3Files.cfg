SPECIFICATION Spec
CONSTANTS
  Ops = {1, 2}
  Files = {f, g}
  Asked <- Everything
  Large = {2}
  Present = {f}
  Keeps = {TRUE, FALSE}
  Old = Old
  Guest = Guest
  Rec = Rec
  None = None
  MaxFaults = 1
  MaxCrashes = 1
  MaxForeign = 1
INVARIANTS NothingIsOrphaned RefusalsHaveACause
PROPERTIES KeepsContract
CHECK_DEADLOCK FALSE
