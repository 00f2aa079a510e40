-------------------------------- MODULE MCMvcc --------------------------------
(* Instances of Mvcc for model checking. *)
EXTENDS Mvcc, TLC

CONSTANTS r1, r2, n1

None == {}
Never == {FALSE}
SnapshotOptimistic == <<"optimistic", "snapshot">>
SnapshotPessimistic == <<"pessimistic", "snapshot">>
SerializableOptimistic == <<"optimistic", "serializable">>
SerializablePessimistic == <<"pessimistic", "serializable">>

\* The simplified targets and modes of Mvcc follow the rules of LockTargets
LT == INSTANCE LockTargets

Concrete(target) ==
  CASE target = Database -> LT!Database
    [] target = Table -> [kind |-> "table", table |-> 1]
    [] target = Label -> [kind |-> "label", id |-> 1]
    [] target \in Rows ->
         LET key == [type |-> "included", key |-> IF target = r1 THEN 1 ELSE 2]
         IN [kind |-> "range", table |-> 1, columns |-> 1, lower |-> key, upper |-> key]
    [] target \in Nodes -> [kind |-> "node", id |-> 1]

ASSUME TargetsAgree ==
  \A x, y \in Targets :
    /\ Overlap(x, y) <=> LT!TargetsOverlap(Concrete(x), Concrete(y))
    /\ TargetCovers(x, y) <=> LT!TargetCovers(Concrete(x), Concrete(y))
ASSUME ModesAgree ==
  /\ Modes = LT!Modes
  /\ \A m, n \in Modes : /\ ModesConflict(m, n) <=> LT!ModesConflict(m, n)
                         /\ ModeCovers(m, n) <=> LT!ModeCovers(m, n)

\* Validation: optimistic and pessimistic serializable transactions, snapshot
\* workspaces upgraded from a read, readers of one row and of the table, writes
\* of either row, commits of unknown extent (validated, under the lock of a row
\* and, in autocommit, under the table's), append commits, equal rewrites
ValidatedProfiles ==
  {SerializableOptimistic, SerializablePessimistic, SnapshotPessimistic}
ValidatedScopes == {Exclusive(Table)}
ValidatedUpgrades == {0}
ValidatedReads == {r1, TableDomain}
ValidatedChanges == {{r1}, {r2}, {r1, Database}}
ValidatedLocks == {Exclusive(r1)}
UnknownChanges == {{}}
Appended == {AppendTable}

\* Locks instead of validation: SQL under row and table locks, graph statements
\* that replay, autocommit scopes of a label and of the database, beside
\* optimistic transactions that change a row or a node
LockedProfiles == {SnapshotPessimistic, SnapshotOptimistic}
LockedChanges == {{r1}, {n1}}
LockedRequests == {Exclusive(r1), Exclusive(Table)}
LockedScopes == {Exclusive(Label), Shared(Label), Exclusive(Database)}

Symmetry == Permutations(Txns)
=============================================================================
