CONSTANTS
  t1 = t1
  t2 = t2
  t3 = t3
  None = None
  Txns = {t1, t2, t3}
  OneShot = {t3}
  Batches <- PointBatches
  EscalationEntries = 2
  MaxEntries = 6
  MaxBytes = 6
  MaxCalls = 4
  LockTimeouts = FALSE
  SpuriousWakeups = FALSE
SPECIFICATION FairSpec
PROPERTY AcquireReturns
CHECK_DEADLOCK FALSE
