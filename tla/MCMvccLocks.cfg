CONSTANTS
  r1 = r1
  r2 = r2
  n1 = n1
  Txns = {t1, t2}
  Rows = {r1}
  Nodes = {n1}
  MaxStamps = 2
  MaxEpoch = 2
  MaxStatements = 2
  Profiles <- LockedProfiles
  Upgrades <- None
  ReadKeys <- None
  Changes <- LockedChanges
  SqlRequests <- LockedRequests
  AutoScopes <- LockedScopes
  LegacyChanges <- None
  AppendKeys <- None
  Rewrites <- Never
SPECIFICATION Spec
SYMMETRY Symmetry
INVARIANT GuardedIsCurrent
PROPERTY NoLostUpdate
