CONSTANTS
  t1 = t1
  t2 = t2
  t3 = t3
  None = None
  Txns = {t1, t2}
  OneShot = {}
  Batches <- BudgetBatches
  EscalationEntries = 2
  MaxEntries = 3
  MaxBytes = 3
  MaxCalls = 4
  LockTimeouts = FALSE
  SpuriousWakeups = FALSE
SPECIFICATION Spec
INVARIANT LockTableBounded
CHECK_DEADLOCK FALSE
