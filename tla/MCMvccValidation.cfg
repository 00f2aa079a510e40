CONSTANTS
  r1 = r1
  r2 = r2
  n1 = n1
  Txns = {t1, t2}
  Rows = {r1, r2}
  Nodes = {}
  MaxStamps = 2
  MaxEpoch = 2
  MaxStatements = 1
  Profiles <- ValidatedProfiles
  Upgrades <- ValidatedUpgrades
  ReadKeys <- ValidatedReads
  Changes <- ValidatedChanges
  SqlRequests <- ValidatedLocks
  AutoScopes <- ValidatedScopes
  LegacyChanges <- UnknownChanges
  AppendKeys <- Appended
  Rewrites = {TRUE, FALSE}
SPECIFICATION Spec
SYMMETRY Symmetry
INVARIANTS
  IndexSound
  HistoryProtected
  NoSpuriousConflict
  ExactReadersPrecise
PROPERTIES
  NoLostUpdate
  SerializableReads
  BroadWritesCurrent
