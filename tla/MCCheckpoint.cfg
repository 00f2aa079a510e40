CONSTANTS
  None = None
  Readers = {"r1"}
  Policies = {"SyncOnEveryWrite", "SyncOnCheckpoint"}
  SoftDebt = 1
  HeadroomDebt = 1
  CapacityDebt = 2
  MaxOperationFailures = 1
  MaxCommits = 3
  MaxGeneration = 3
  MaxDenials = 1
  MaxFaults = 1
  MaxCrashes = 1
  MaxDisturbances = 2
  EmptyGroups = FALSE
  DirectBarrierFaults = FALSE
SPECIFICATION Spec
INVARIANTS Ownership Recoverable NothingLeftBehind HandoffAdoptable PinnedReadable PrivateGenerations
PROPERTY CommitsKept
CHECK_DEADLOCK FALSE
