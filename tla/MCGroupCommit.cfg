CONSTANTS
  r1 = r1
  r2 = r2
  r3 = r3
  x1 = x1
  x2 = x2
  None = None
  Requests = {r1, r2, r3}
  Readers = {x1}
  MaxEntries = 2
  MaxFaults = 1
  MaxCrashes = 1
  Timeouts = TRUE
SPECIFICATION Spec
SYMMETRY RequestSymmetry
INVARIANTS
  AckedDurable
  AckedVisible
  ReadsSurvive
  OneLeader
  AlwaysAccountedFor
  NoMissedTurn
CHECK_DEADLOCK FALSE
