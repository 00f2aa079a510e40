CONSTANTS
  None = None
  Readers = {"r1"}
  Policies = {"SyncOnEveryWrite"}
  SoftDebt = 1
  HeadroomDebt = 1
  CapacityDebt = 2
  MaxOperationFailures = 1
  MaxCommits = 2
  MaxGeneration = 3
  MaxDenials = 1
  MaxFaults = 1
  MaxCrashes = 0
  MaxDisturbances = 2
  EmptyGroups = FALSE
  DirectBarrierFaults = FALSE
SPECIFICATION FairSpec
PROPERTIES CallersReturn HandoffAdopted ExplicitEnds
CHECK_DEADLOCK FALSE
