CONSTANTS
  t1 = t1
  t2 = t2
  t3 = t3
  None = None
  Txns = {t1, t2, t3}
  OneShot = {t3}
  Batches <- SafetyBatches
  EscalationEntries = 1
  MaxEntries = 4
  MaxBytes = 6
  MaxCalls = 4
  LockTimeouts = TRUE
  SpuriousWakeups = TRUE
SPECIFICATION Spec
SYMMETRY TxnSymmetry
INVARIANTS
  MutualExclusion
  SavepointStillHeld
  NoUndetectedDeadlock
  NoLostWakeup
  FinishedHoldsNothing
  BytesAccounted
PROPERTY BlockersOnlyShrink
CHECK_DEADLOCK FALSE
