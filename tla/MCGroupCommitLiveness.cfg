CONSTANTS
  r1 = r1
  r2 = r2
  r3 = r3
  x1 = x1
  x2 = x2
  None = None
  Requests = {r1, r2}
  Readers = {x1}
  MaxEntries = 2
  MaxFaults = 2
  MaxCrashes = 0
  Timeouts = FALSE
SPECIFICATION FairSpec
PROPERTY CommitReturns
CHECK_DEADLOCK FALSE
