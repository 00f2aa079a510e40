CONSTANTS
  None = None
  Readers = {"r1"}
  Policies = {"SyncOnEveryWrite", "SyncOnCheckpoint"}
  SoftDebt = 1
  HeadroomDebt = 1
  CapacityDebt = 2
  MaxOperationFailures = 1
  MaxCommits = 3
  MaxGeneration = 3
  MaxDenials = 1
  MaxFaults = 1
  MaxCrashes = 1
  MaxDisturbances = 2
  EmptyGroups = TRUE
  DirectBarrierFaults = FALSE
SPECIFICATION Spec
INVARIANT PrivateGenerations
CHECK_DEADLOCK FALSE
