CONSTANTS
  c1 = c1
  c2 = c2
  c3 = c3
  Torn = Torn
  Bad = Bad
  Cut = Cut
  None = None
  Commits = {c1, c2, c3}
  Origins = {TRUE, FALSE}
  Policies = {"SyncOnEveryWrite", "SyncOnCheckpoint"}
  MaxFaults = 1
  MaxCrashes = 2
  MaxPowerLosses = 1
  MaxDamage = 1
SPECIFICATION Spec
SYMMETRY CommitSymmetry
INVARIANTS
  KnownIsStable
  FenceCoversPromise
  CrashReopens
  FenceWithinLog
PROPERTIES
  DiscardsAudited
  ImplementsDurableLog
CHECK_DEADLOCK FALSE
