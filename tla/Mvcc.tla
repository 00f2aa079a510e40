--------------------------------- MODULE Mvcc ---------------------------------
(***************************************************************************)
(* Concurrent transactions over one store: how a transaction's snapshot,   *)
(* its locks and the version index together decide whether it may commit   *)
(* (src/api/concurrent.rs, src/api/concurrent/autocommit.rs and            *)
(* crates/storage/src/store/graph_commit.rs).                              *)
(*                                                                         *)
(* Optimistic transactions take no locks until they commit and are         *)
(* validated against the version index.  Pessimistic ones lock what a      *)
(* statement touches, check or refresh their snapshot once the locks are   *)
(* granted, and then commit WITHOUT validating their writes.  Autocommit   *)
(* statements lock a scope first and take their snapshot afterwards.       *)
(* Serializable transactions also validate what they read.  Exclusive      *)
(* legacy commits publish one broad barrier; append commits take no lock.  *)
(*                                                                         *)
(* A call holds the commit sequencer's lock from its read of the store to  *)
(* its last change of it, so it is one action; waiting for a lock and the  *)
(* time between a grant and the snapshot check are separate steps.  The    *)
(* lock table is LockManager's promise: a batch is granted when it         *)
(* conflicts with nothing another transaction holds.                       *)
(***************************************************************************)
EXTENDS VersionIndex

CONSTANTS
  Txns,          \* transaction slots, each used by one transaction after another
  MaxEpoch,      \* bound: commits of a behaviour
  MaxStatements, \* bound: successful statements of a transaction
  Profiles,      \* modes and isolation levels of explicit transactions
  Upgrades,      \* epochs of read-only snapshots that are upgraded to workspaces
  ReadKeys,      \* what plain reads depend on
  Changes,       \* what mutations change
  SqlRequests,   \* lock requests of SQL statements
  AutoScopes,    \* lock requests of autocommit statements
  LegacyChanges, \* what exclusive legacy mutations change
  AppendKeys,    \* what strict append transactions write
  Rewrites       \* whether commits rewrite rows with equal values

VARIABLES
  epoch,       \* GraphStore::commit_epoch
  index,       \* GraphStore::version_index
  status,      \* how far the transaction of a slot is
  mode,        \* ConcurrentTransactionMode
  isolation,   \* TransactionIsolation
  base,        \* base_commit_epoch: the epoch of its snapshot
  late,        \* its workspace was forked from an old read-only snapshot
  statements,  \* successful_statements
  reads,       \* keys of its read dependencies
  writes,      \* what its staged operations change
  guarded,     \* what its statements read or wrote under locks
  pend,        \* the statement that is acquiring locks
  locks,       \* what LockManager has granted it
  lastWrite,   \* history: the epoch of the last commit that wrote an entity
  lastChange,  \* history: the same, leaving out rows rewritten with equal values
  lastBroad    \* history: the epoch of the last commit of unknown extent

txnVars == <<status, mode, isolation, base, late, statements, reads, writes, guarded, pend, locks>>
storeVars == <<epoch, index, lastWrite, lastChange, lastBroad>>
vars == <<epoch, index, status, mode, isolation, base, late, statements, reads, writes, guarded,
          pend, locks, lastWrite, lastChange, lastBroad>>

-----------------------------------------------------------------------------
(* Locks: the targets of LockTargets that matter here, with its rules.     *)

Table == "RelationalTable"
Label == "GraphLabel"
Targets == Entities \cup {Table, Label, Database}

Modes == {"shared", "exclusive", "optimistic"}

\* modes_conflict, mode_covers
ModesConflict(left, right) == left # right \/ left = "exclusive"
ModeCovers(held, requested) == held = "exclusive" \/ held = requested

Requests == [target : Targets, mode : Modes]
Shared(target) == [target |-> target, mode |-> "shared"]
Exclusive(target) == [target |-> target, mode |-> "exclusive"]

\* A table guard meets the rows of the table, the database lock meets all
Overlap(left, right) ==
  \/ left = right
  \/ Database \in {left, right}
  \/ Table \in {left, right} /\ {left, right} \subseteq Rows \cup {Table}

TargetCovers(held, requested) ==
  held = requested \/ held = Database \/ (held = Table /\ requested \in Rows)

Grantable(t, reqs) ==
  \A u \in Txns \ {t} : \A held \in locks[u], q \in reqs :
    ~ (Overlap(held.target, q.target) /\ ModesConflict(held.mode, q.mode))

\* LockManager::covers_all
CoversAll(t, reqs) ==
  \A q \in reqs : \E held \in locks[t] :
    TargetCovers(held.target, q.target) /\ ModeCovers(held.mode, q.mode)

\* The entities nobody else may change while reqs are held: a changed node
\* needs its label's lock, shared or exclusive, as well as its own
GuardedBy(reqs) ==
  {e \in Entities : \E q \in reqs :
     TargetCovers(q.target, e) \/ (e \in Nodes /\ q = Exclusive(Label))}

WritableUnder(reqs) ==
  {e \in Entities : \E q \in reqs : q.mode = "exclusive" /\ TargetCovers(q.target, e)}

ASSUME TargetsDistinct == Entities \cap {Table, Label} = {}

ASSUME InputsAssumption ==
  /\ MaxEpoch \in Nat
  /\ MaxStatements \in Nat \ {0}
  /\ Profiles \subseteq {"optimistic", "pessimistic"} \X {"snapshot", "serializable"}
  /\ Upgrades \subseteq Nat
  /\ ReadKeys \subseteq Entities \cup ReadSummaries
  /\ Changes \subseteq (SUBSET (Entities \cup {Database, Schema})) \ {{}}
  /\ SqlRequests \subseteq
       {[target |-> x, mode |-> m] : x \in Rows \cup {Table, Database},
                                     m \in {"shared", "exclusive"}}
  /\ AutoScopes \subseteq
       {Exclusive(x) : x \in Rows \cup {Table, Label, Database}} \cup {Shared(Label)}
  /\ LegacyChanges \subseteq SUBSET Nodes
  /\ AppendKeys \subseteq {AppendTable}
  /\ Rewrites \subseteq BOOLEAN

-----------------------------------------------------------------------------
(* Transactions.                                                           *)

NoStatement == [stage |-> "none", reqs |-> {}, all |-> {}, covered |-> FALSE, saved |-> {}]

Statements ==
  [stage : {"none", "granted", "guarded", "fenced", "replay", "footprint"},
   reqs : SUBSET Requests,      \* the batch granted last
   all : SUBSET Requests,       \* every batch of this statement
   covered : BOOLEAN,           \* requests_already_covered
   saved : SUBSET Requests]     \* LockSavepoint

StoreTypes ==
  /\ epoch \in 0 .. MaxEpoch
  /\ index \in Indexes
  /\ lastWrite \in [Entities -> Nat]
  /\ lastChange \in [Entities -> Nat]
  /\ lastBroad \in Nat

PinTypes ==
  /\ status \in [Txns -> {"idle", "scoped", "active", "sealed", "committed"}]
  /\ mode \in [Txns -> {"optimistic", "pessimistic"}]
  /\ isolation \in [Txns -> {"snapshot", "serializable"}]
  /\ base \in [Txns -> Nat]
  /\ late \in [Txns -> BOOLEAN]

WorkTypes ==
  /\ statements \in [Txns -> 0 .. MaxStatements]
  /\ reads \in [Txns -> SUBSET VersionKeys]
  /\ writes \in [Txns -> SUBSET (Entities \cup {Database, Schema})]
  /\ guarded \in [Txns -> SUBSET Entities]
  /\ pend \in [Txns -> Statements]
  /\ locks \in [Txns -> SUBSET Requests]

TypeOK == StoreTypes /\ PinTypes /\ WorkTypes

Init ==
  /\ epoch = 0
  /\ index = EmptyIndex
  /\ status = [t \in Txns |-> "idle"]
  /\ mode = [t \in Txns |-> "pessimistic"]
  /\ isolation = [t \in Txns |-> "snapshot"]
  /\ base = [t \in Txns |-> 0]
  /\ late = [t \in Txns |-> FALSE]
  /\ statements = [t \in Txns |-> 0]
  /\ reads = [t \in Txns |-> {}]
  /\ writes = [t \in Txns |-> {}]
  /\ guarded = [t \in Txns |-> {}]
  /\ pend = [t \in Txns |-> NoStatement]
  /\ locks = [t \in Txns |-> {}]
  /\ lastWrite = [e \in Entities |-> 0]
  /\ lastChange = [e \in Entities |-> 0]
  /\ lastBroad = 0

Live(t) == status[t] \in {"active", "sealed"}
LockCoordinated(t) == mode[t] = "pessimistic" /\ isolation[t] = "snapshot"

\* Owners of a history pin and of a read-dependency lease.  The lock
\* dependencies of a pessimistic transaction go with its handle, after commit.
Pinned == {t \in Txns : Live(t) \/ (status[t] = "committed" /\ LockCoordinated(t))}
TracksReadDependencies ==
  \E t \in Pinned : isolation[t] = "serializable" \/ LockCoordinated(t)
OldestAtLeast(e) == \A t \in Pinned : base[t] >= e

-----------------------------------------------------------------------------
(* Beginning and ending.                                                   *)

\* A fresh transaction of slot t whose snapshot is at epoch e
Start(t, m, i, e, upgraded) ==
  /\ status' = [status EXCEPT ![t] = "active"]
  /\ mode' = [mode EXCEPT ![t] = m]
  /\ isolation' = [isolation EXCEPT ![t] = i]
  /\ base' = [base EXCEPT ![t] = e]
  /\ late' = [late EXCEPT ![t] = upgraded]
  /\ reads' = [reads EXCEPT ![t] = IF i = "serializable" THEN {Schema} ELSE {}]

\* begin_transaction_with_id
Begin(t, m, i) ==
  /\ status[t] = "idle"
  /\ Start(t, m, i, epoch, FALSE)
  /\ UNCHANGED <<storeVars, statements, writes, guarded, pend, locks>>

\* begin_mutation_transaction on a store forked by snapshot_for_read at epoch e
BeginFromReadSnapshot(t, e) ==
  /\ status[t] = "idle"
  /\ e < epoch
  /\ Start(t, "optimistic", "snapshot", e, TRUE)
  /\ UNCHANGED <<storeVars, statements, writes, guarded, pend, locks>>

\* The slot is free again, its locks and pins are gone
Ended(t) ==
  /\ status' = [status EXCEPT ![t] = "idle"]
  /\ statements' = [statements EXCEPT ![t] = 0]
  /\ reads' = [reads EXCEPT ![t] = {}]
  /\ writes' = [writes EXCEPT ![t] = {}]
  /\ guarded' = [guarded EXCEPT ![t] = {}]
  /\ pend' = [pend EXCEPT ![t] = NoStatement]
  /\ locks' = [locks EXCEPT ![t] = {}]
  /\ base' = [base EXCEPT ![t] = 0]
  /\ late' = [late EXCEPT ![t] = FALSE]
  /\ mode' = [mode EXCEPT ![t] = "pessimistic"]
  /\ isolation' = [isolation EXCEPT ![t] = "snapshot"]

\* rollback, a dropped handle, or a lock that timed out or closed a cycle
Abort(t) ==
  /\ status[t] \in {"scoped", "active", "sealed"}
  /\ Ended(t)
  /\ UNCHANGED storeVars

\* The end of commit_with_result, after the sequencer has answered
Release(t) ==
  /\ status[t] = "committed"
  /\ Ended(t)
  /\ UNCHANGED storeVars

-----------------------------------------------------------------------------
(* Statements.  Execution is private: only its effect on the dependencies, *)
(* the staged writes and the guarded set of the transaction is kept.       *)

\* A statement of t succeeded
Succeed(t, changed, read, under) ==
  /\ statements[t] < MaxStatements
  /\ statements' = [statements EXCEPT ![t] = @ + 1]
  /\ writes' = [writes EXCEPT ![t] = @ \cup changed]
  /\ reads' = [reads EXCEPT ![t] = IF isolation[t] = "serializable" THEN @ \cup read ELSE @]
  /\ guarded' = [guarded EXCEPT ![t] = @ \cup GuardedBy(under)]

\* What a mutation records (collect_transaction, collect_cypher)
MutationReads(changed) ==
  (IF changed \cap Nodes # {} THEN {Database} ELSE {})
    \cup (IF changed \cap (Rows \cup {Database}) # {} THEN {TableDomain} ELSE {})

\* A SELECT or MATCH without locking clause reads the snapshot
Read(t, key) ==
  /\ status[t] = "active" /\ pend[t].stage = "none"
  /\ Succeed(t, {}, {key}, {})
  /\ UNCHANGED <<storeVars, status, mode, isolation, base, late, pend, locks>>

\* Any mutation of an optimistic transaction
OptimisticWrite(t, changed) ==
  /\ status[t] = "active" /\ mode[t] = "optimistic"
  /\ Succeed(t, changed, MutationReads(changed), {})
  /\ UNCHANGED <<storeVars, status, mode, isolation, base, late, pend, locks>>

\* acquire_locks up to the grant.  A statement's first batch comes from its
\* text; a second one, after a batch of rows, from the rows it discovered.
SqlLock(t, q) ==
  /\ status[t] = "active" /\ mode[t] = "pessimistic"
  /\ statements[t] < MaxStatements
  /\ \/ pend[t].stage = "none"
     \/ /\ pend[t].stage = "guarded"
        /\ q \notin pend[t].all
        /\ \A p \in pend[t].all : p.target \in Rows
        /\ q.target \in Rows \cup {Table}
  /\ Grantable(t, {q})
  /\ locks' = [locks EXCEPT ![t] = @ \cup {q}]
  /\ pend' = [pend EXCEPT ![t] =
       [stage |-> "granted", reqs |-> {q}, all |-> @.all \cup {q},
        covered |-> CoversAll(t, {q}), saved |-> {}]]
  /\ UNCHANGED <<storeVars, status, mode, isolation, base, late, statements, reads, writes, guarded>>

\* Mutant: only the table's own stamps are compared
LockedSnapshotOfTable(t, reqs) ==
  LET unchanged(k) == index.stamp[k] <= base[t]
  IN /\ unchanged(Database) /\ unchanged(Schema)
     /\ ~ HistoryReclaimedAfter(index, base[t])
     /\ \A q \in reqs :
          \/ q.target \in Rows /\ unchanged(q.target)
          \/ q.target = Table /\ unchanged(ReadBarrier)
          \/ q.target \notin Rows \cup {Table} /\ epoch = base[t]

\* validate_locked_snapshot
LockedSnapshotValid(t, reqs) ==
  LET unchanged(k) == index.stamp[k] <= base[t]
      table == {ReadBarrier, TableDomain} \cup Rows
  IN /\ unchanged(Database) /\ unchanged(Schema)
     /\ ~ HistoryReclaimedAfter(index, base[t])
     /\ \A q \in reqs :
          \/ q.target \in Rows /\ unchanged(q.target)
          \/ q.target = Table /\ \A k \in table : unchanged(k)
          \/ q.target \notin Rows \cup {Table} /\ epoch = base[t]

\* Mutant: locks obtained by the first statement excuse the later ones
OvertakenUncovered(t) ==
  /\ epoch # base[t]
  /\ ~ pend[t].covered /\ statements[t] = 0
  /\ isolation[t] = "snapshot"

\* A statement was overtaken between its snapshot and its locks
Overtaken(t) ==
  /\ epoch # base[t]
  /\ ~ pend[t].covered \/ statements[t] # 0
  /\ isolation[t] = "snapshot"

\* The snapshot check of acquire_locks, under the sequencer's lock
SqlFence(t) ==
  /\ pend[t].stage = "granted"
  /\ Overtaken(t) /\ statements[t] # 0 => LockedSnapshotValid(t, pend[t].reqs)
  /\ Overtaken(t) => statements[t] # 0
  /\ pend' = [pend EXCEPT ![t].stage =
              IF pend[t].reqs = pend[t].all THEN "guarded" ELSE "fenced"]
  /\ UNCHANGED <<storeVars, status, mode, isolation, base, late, statements, reads, writes, guarded,
                 locks>>

\* Nothing has run yet: the whole snapshot is replaced and the statement
\* derives its locks again
SqlRefresh(t) ==
  /\ pend[t].stage = "granted"
  /\ Overtaken(t) /\ statements[t] = 0
  /\ base' = [base EXCEPT ![t] = epoch]
  /\ pend' = [pend EXCEPT ![t] = NoStatement]
  /\ UNCHANGED <<storeVars, status, mode, isolation, late, statements, reads, writes, guarded, locks>>

\* abort_after_lock_failure with SnapshotChanged
SqlSnapshotChanged(t) ==
  /\ pend[t].stage = "granted"
  /\ Overtaken(t) /\ statements[t] # 0 /\ ~ LockedSnapshotValid(t, pend[t].reqs)
  /\ Ended(t)
  /\ UNCHANGED storeVars

\* What a SQL statement may enter in the write set under reqs: rows it may
\* change and, whatever the locks it writes under, a change of unknown extent.
\* collect_relational_version_writes records Database for DDL and cascades, but
\* also for an upsert, a predicate that does not fix the primary key, a table
\* without one and the source of a materialized view.
SqlWritable(reqs) ==
  (WritableUnder(reqs) \cap Rows)
    \cup {k \in {Database} : \E q \in reqs : q.mode = "exclusive"}

\* The statement runs under its locks
SqlExecute(t, changed) ==
  /\ pend[t].stage \in {"guarded", "fenced"}
  /\ changed \subseteq SqlWritable(pend[t].all)
  /\ Succeed(t, changed, {TableDomain}, pend[t].all)
  /\ pend' = [pend EXCEPT ![t] = NoStatement]
  /\ UNCHANGED <<storeVars, status, mode, isolation, base, late, locks>>

\* It fails instead: a SQL statement keeps its locks
SqlFail(t) ==
  /\ pend[t].stage \in {"guarded", "fenced"}
  /\ isolation[t] = "snapshot"
  /\ pend' = [pend EXCEPT ![t] = NoStatement]
  /\ UNCHANGED <<storeVars, status, mode, isolation, base, late, statements, reads, writes, guarded,
                 locks>>

\* graph_lock_requests: the label's lock is exclusive when nodes are created
\* or a unique property changes
Footprint(changed, m) ==
  {[target |-> Label, mode |-> m]} \cup {Exclusive(n) : n \in changed}

\* A graph statement runs under locks it already has
GraphReuse(t, changed, m) ==
  /\ status[t] = "active" /\ mode[t] = "pessimistic" /\ pend[t].stage = "none"
  /\ CoversAll(t, Footprint(changed, m))
  /\ Succeed(t, changed, {Database}, Footprint(changed, m))
  /\ UNCHANGED <<storeVars, status, mode, isolation, base, late, pend, locks>>

\* It runs without: its effects are undone and the locks it needs acquired
GraphLock(t, changed, m) ==
  /\ status[t] = "active" /\ mode[t] = "pessimistic" /\ pend[t].stage = "none"
  /\ statements[t] < MaxStatements
  /\ ~ CoversAll(t, Footprint(changed, m))
  /\ Grantable(t, Footprint(changed, m))
  /\ locks' = [locks EXCEPT ![t] = @ \cup Footprint(changed, m)]
  /\ pend' = [pend EXCEPT ![t] =
       [stage |-> "replay", reqs |-> Footprint(changed, m), all |-> Footprint(changed, m),
        covered |-> FALSE, saved |-> locks[t]]]
  /\ UNCHANGED <<storeVars, status, mode, isolation, base, late, statements, reads, writes, guarded>>

\* acquire_graph_statement_locks after the grant, and the replay
GraphReplay(t) ==
  /\ pend[t].stage = "replay"
  /\ epoch = base[t]
  /\ Succeed(t, WritableUnder(pend[t].reqs), {Database}, pend[t].reqs)
  /\ pend' = [pend EXCEPT ![t] = NoStatement]
  /\ UNCHANGED <<storeVars, status, mode, isolation, base, late, locks>>

\* The replay fails: the locks go back to the statement's savepoint
GraphFail(t) ==
  /\ pend[t].stage = "replay"
  /\ epoch = base[t] /\ isolation[t] = "snapshot"
  /\ locks' = [locks EXCEPT ![t] = pend[t].saved]
  /\ pend' = [pend EXCEPT ![t] = NoStatement]
  /\ UNCHANGED <<storeVars, status, mode, isolation, base, late, statements, reads, writes, guarded>>

GraphSnapshotChanged(t) ==
  /\ pend[t].stage = "replay"
  /\ epoch # base[t]
  /\ Ended(t)
  /\ UNCHANGED storeVars

-----------------------------------------------------------------------------
(* Autocommit mutations: locks first, the snapshot afterwards.             *)

\* mutation_scope and MutationScope::for_plan
AutoScope(t, q) ==
  /\ status[t] = "idle"
  /\ Grantable(t, {q})
  /\ status' = [status EXCEPT ![t] = "scoped"]
  /\ locks' = [locks EXCEPT ![t] = {q}]
  /\ UNCHANGED <<storeVars, mode, isolation, base, late, statements, reads, writes, guarded, pend>>

\* The node an id or a unique key names, once label membership is stable
AutoPoint(t, n) ==
  /\ status[t] = "scoped" /\ locks[t] = {Shared(Label)}
  /\ Grantable(t, {Exclusive(n)})
  /\ locks' = [locks EXCEPT ![t] = @ \cup {Exclusive(n)}]
  /\ UNCHANGED <<storeVars, status, mode, isolation, base, late, statements, reads, writes, guarded,
                 pend>>

\* A graph mutation takes its snapshot and runs; then it asks for the locks of
\* what it changed, with no further check of the epoch
AutoGraph(t, changed, m) ==
  /\ status[t] = "scoped"
  /\ changed \subseteq GuardedBy(locks[t])
  /\ m = "exclusive" => CoversAll(t, {Exclusive(Label)})
  /\ Start(t, "pessimistic", "snapshot", epoch, FALSE)
  /\ writes' = [writes EXCEPT ![t] = changed]
  /\ guarded' = [guarded EXCEPT ![t] = GuardedBy(locks[t])]
  /\ pend' = [pend EXCEPT ![t] =
       [stage |-> "footprint", reqs |-> Footprint(changed, m), all |-> {},
        covered |-> FALSE, saved |-> {}]]
  /\ UNCHANGED <<storeVars, statements, locks>>

AutoFootprint(t) ==
  /\ pend[t].stage = "footprint"
  /\ Grantable(t, pend[t].reqs)
  /\ locks' = [locks EXCEPT ![t] = @ \cup pend[t].reqs]
  /\ statements' = [statements EXCEPT ![t] = 1]
  /\ pend' = [pend EXCEPT ![t] = NoStatement]
  /\ UNCHANGED <<storeVars, status, mode, isolation, base, late, reads, writes, guarded>>

\* INSERT and DELETE run under the table's lock, DDL and tables with foreign
\* keys under the database's
AutoSql(t, changed) ==
  /\ status[t] = "scoped" /\ CoversAll(t, {Exclusive(Table)})
  /\ changed \subseteq SqlWritable(locks[t])
  /\ Start(t, "pessimistic", "snapshot", epoch, FALSE)
  /\ statements' = [statements EXCEPT ![t] = 1]
  /\ writes' = [writes EXCEPT ![t] = changed]
  /\ guarded' = [guarded EXCEPT ![t] = GuardedBy(locks[t])]
  /\ UNCHANGED <<storeVars, pend, locks>>

\* UPDATE goes through acquire_sql_locks like an explicit transaction
AutoSqlUpdate(t) ==
  /\ status[t] = "scoped"
  /\ \E q \in locks[t] : q.target \in Rows \cup {Table, Database}
  /\ Start(t, "pessimistic", "snapshot", epoch, FALSE)
  /\ UNCHANGED <<storeVars, statements, writes, guarded, pend, locks>>

-----------------------------------------------------------------------------
(* Commit.                                                                 *)

\* An optimistic commit first waits for every pessimistic transaction
Seal(t) ==
  /\ status[t] = "active" /\ mode[t] = "optimistic"
  /\ Grantable(t, {[target |-> Database, mode |-> "optimistic"]})
  /\ status' = [status EXCEPT ![t] = "sealed"]
  /\ locks' = [locks EXCEPT ![t] = @ \cup {[target |-> Database, mode |-> "optimistic"]}]
  /\ UNCHANGED <<storeVars, mode, isolation, base, late, statements, reads, writes, guarded, pend>>

ReadyToCommit(t) ==
  \/ status[t] = "sealed"
  \/ status[t] = "active" /\ mode[t] = "pessimistic" /\ pend[t].stage = "none"

\* Mutant: the barrier of the collapsed summaries concerns every reader
ReadsValidBehindBarrier(t) ==
  isolation[t] = "serializable" =>
    /\ Database \in reads[t] => epoch = base[t]
    /\ \A k \in reads[t] \cup {Database, Schema, ReadBarrier} : index.stamp[k] <= base[t]

\* validate_read_dependencies_inner
ReadsValid(t) ==
  isolation[t] = "serializable" =>
    /\ Database \in reads[t] => epoch = base[t]
    /\ \A k \in reads[t] \cup {Database, Schema}
                \cup (IF reads[t] \cap ReadSummaries # {} THEN {ReadBarrier} ELSE {}) :
         index.stamp[k] <= base[t]

\* Mutant: a write of unknown extent stamps nothing else and no barrier
VersionWritesNarrow(changed) ==
  IF Database \in changed THEN changed \ (Rows \cup {Database}) ELSE changed

\* The keys a commit stamps: operations of unknown extent record the whole
\* database instead of their rows (collect_relational_version_writes)
VersionWrites(changed) ==
  IF Database \in changed THEN changed \ Rows ELSE changed

\* Mutant: a write of unknown extent is validated like a key of its own
WritesValidByKey(t) ==
  mode[t] = "optimistic" =>
    /\ ~ FirstConflict(index, VersionWrites(writes[t]), base[t])
    /\ \A k \in {Database, Schema} : index.stamp[k] <= base[t]

\* validate_version_writes; a pessimistic commit is rebased without it
WritesValid(t) ==
  mode[t] = "optimistic" =>
    /\ ~ FirstConflict(index, VersionWrites(writes[t]), base[t])
    /\ \A k \in {Database, Schema} :
         /\ k \in VersionWrites(writes[t]) => epoch <= base[t]
         /\ index.stamp[k] <= base[t]

\* The read-only summaries of a commit; equal values leave the table's alone
Summaries(changed, equal) ==
  IF ~ TracksReadDependencies THEN {}
  ELSE (IF changed \cap Rows # {} /\ Database \notin changed /\ ~ equal THEN {TableDomain} ELSE {})
         \cup (IF changed \cap Nodes # {} THEN {NodeDomain} ELSE {})

\* Mutant: the baseline replaces history that is still pinned
StagingSourceUnpinned(i) == ReadBaseline(epoch)

\* stage_version_index starts from a constant baseline when nobody needs more
StagingSource(i) == IF OldestAtLeast(epoch) THEN ReadBaseline(epoch) ELSE i

\* Mutant: the watermark is the current epoch
WatermarksOfEpoch == {epoch + 1}

\* reclaim_version_history: the oldest pinned epoch, or the next one
Watermarks ==
  IF Pinned = {} THEN {epoch + 1}
  ELSE {base[t] : t \in {u \in Pinned : OldestAtLeast(base[u])}}

Reclaimed(i) ==      \* the stamps share one page, which can be copied or not
  {PruneBefore(i, oldest, kept) : oldest \in Watermarks, kept \in {{}, Stamped(i)}}

\* The index a commit installs: with its summaries, with its summaries after
\* reclaiming history, or with the barrier that replaces them all
StagedIndexes(keys, summaries) ==
  LET fine(i) == {Stage(s, keys \cup summaries, epoch + 1) :
                    s \in {x \in {StagingSource(i)} : Admits(x, keys \cup summaries)}}
      collapsed(i) == {StageWithReadBarrier(s, keys, epoch + 1) :
                         s \in {x \in {StagingSource(i)} : AdmitsCollapsed(x, keys)}}
  IN fine(index) \cup UNION {fine(i) \cup collapsed(i) : i \in Reclaimed(index)}

\* commit_prepared_mutation_ops from the WAL append to the installed index
Publish(changed, equal) ==
  /\ epoch < MaxEpoch
  /\ epoch' = epoch + 1
  /\ index' \in StagedIndexes(VersionWrites(changed), Summaries(changed, equal))
  /\ lastWrite' = [e \in Entities |-> IF e \in changed THEN epoch + 1 ELSE lastWrite[e]]
  /\ lastChange' = [e \in Entities |->
       IF e \in changed /\ ~ (equal /\ e \in Rows) THEN epoch + 1 ELSE lastChange[e]]
  /\ lastBroad' = IF changed \cap {Database, Schema} # {} THEN epoch + 1 ELSE lastBroad

\* take_for_commit: only the handle, with its locks and its pin, is left
Taken(t) ==
  /\ status' = [status EXCEPT ![t] = "committed"]
  /\ statements' = [statements EXCEPT ![t] = 0]
  /\ reads' = [reads EXCEPT ![t] = {}]
  /\ writes' = [writes EXCEPT ![t] = {}]
  /\ guarded' = [guarded EXCEPT ![t] = {}]
  /\ UNCHANGED <<mode, isolation, base, late, pend, locks>>

Commit(t, equal) ==
  /\ ReadyToCommit(t)
  /\ ReadsValid(t)
  /\ writes[t] # {} /\ WritesValid(t)
  /\ Publish(writes[t], equal)
  /\ Taken(t)

\* No operations: nothing is published
CommitReadOnly(t) ==
  /\ ReadyToCommit(t)
  /\ ReadsValid(t)
  /\ writes[t] = {}
  /\ Taken(t)
  /\ UNCHANGED storeVars

\* TransactionConflict
CommitConflict(t) ==
  /\ ReadyToCommit(t)
  /\ ~ ReadsValid(t) \/ (writes[t] # {} /\ ~ WritesValid(t))
  /\ Ended(t)
  /\ UNCHANGED storeVars

\* Neither budget admits the write set, even without summaries: the commit
\* fails before the WAL, but the history it reclaimed stays reclaimed
CommitRefused(t) ==
  /\ ReadyToCommit(t)
  /\ ReadsValid(t)
  /\ writes[t] # {} /\ WritesValid(t)
  /\ index' \in Reclaimed(index)
  /\ Ended(t)
  /\ UNCHANGED <<epoch, lastWrite, lastChange, lastBroad>>

\* finish_non_relational_commit under an exclusive database lease
LegacyCommit(changed) ==
  /\ \A u \in Txns : locks[u] = {}
  /\ epoch < MaxEpoch
  /\ epoch' = epoch + 1
  /\ index' = [floor |-> index.floor,
               stamp |-> [index.stamp EXCEPT ![Database] = epoch + 1]]
  /\ lastWrite' = [e \in Entities |-> IF e \in changed THEN epoch + 1 ELSE lastWrite[e]]
  /\ lastChange' = [e \in Entities |-> IF e \in changed THEN epoch + 1 ELSE lastChange[e]]
  /\ lastBroad' = epoch + 1
  /\ UNCHANGED txnVars

\* append_transaction: sequenced like a commit, but it takes no locks
AppendCommit(key) ==
  /\ Publish({key}, FALSE)
  /\ UNCHANGED txnVars

\* A checkpoint retires history nobody needs
Reclaim ==
  /\ index' \in Reclaimed(index)
  /\ UNCHANGED <<epoch, lastWrite, lastChange, lastBroad, txnVars>>

-----------------------------------------------------------------------------
Step(t) ==
  \/ \E p \in Profiles : Begin(t, p[1], p[2])
  \/ \E e \in Upgrades : BeginFromReadSnapshot(t, e)
  \/ \E key \in ReadKeys : Read(t, key)
  \/ \E changed \in Changes : OptimisticWrite(t, changed)
  \/ \E q \in SqlRequests : SqlLock(t, q)
  \/ SqlFence(t) \/ SqlRefresh(t) \/ SqlSnapshotChanged(t) \/ SqlFail(t)
  \/ \E changed \in Changes \cup {{}} : SqlExecute(t, changed)
  \/ \E changed \in Changes \cap SUBSET Nodes, m \in {"shared", "exclusive"} :
       GraphReuse(t, changed, m) \/ GraphLock(t, changed, m) \/ AutoGraph(t, changed, m)
  \/ GraphReplay(t) \/ GraphFail(t) \/ GraphSnapshotChanged(t)
  \/ \E q \in AutoScopes : AutoScope(t, q)
  \/ \E n \in Nodes : AutoPoint(t, n)
  \/ AutoFootprint(t)
  \/ \E changed \in Changes \cap SUBSET (Rows \cup {Database}) : AutoSql(t, changed)
  \/ AutoSqlUpdate(t)
  \/ Seal(t) \/ CommitReadOnly(t) \/ CommitConflict(t) \/ CommitRefused(t)
  \/ \E equal \in Rewrites : Commit(t, equal)
  \/ Release(t) \/ Abort(t)

Next ==
  \/ \E t \in Txns : Step(t)
  \/ \E changed \in LegacyChanges : LegacyCommit(changed)
  \/ \E key \in AppendKeys : AppendCommit(key)
  \/ Reclaim

Spec == Init /\ [][Next]_vars

-----------------------------------------------------------------------------
(* Properties.                                                             *)

\* Commits that answer for their writes: the others, pessimistic serializable
\* ones, validate what they read, which includes what they write
CommitsWrites(t) ==
  /\ status[t] # "committed" /\ status'[t] = "committed"
  /\ mode[t] = "optimistic" \/ isolation[t] = "snapshot"

\* validate_version_writes and the locks together: when a transaction commits,
\* nothing it wrote was written by a commit its snapshot did not see, although
\* a pessimistic commit validates no writes at all and the history it would
\* need may have been pruned or replaced by a baseline.
NoLostUpdate ==
  [][\A t \in Txns : CommitsWrites(t) =>
       \A e \in writes[t] \cap Entities : lastWrite[e] <= base[t]]_vars

\* What a key of the read dependencies stands for
Covered(key) ==
  CASE key = TableDomain -> Rows
    [] key = NodeDomain -> Nodes
    [] key = Database -> Entities
    [] key = Schema -> {}
    [] OTHER -> {key}

\* validate_read_dependencies: when a serializable transaction commits, even
\* one that only read, nothing it read has changed since its snapshot, whether
\* the change was stamped exactly, summarised, or collapsed into a barrier.
SerializableReads ==
  [][\A t \in Txns :
       /\ status[t] # "committed" /\ status'[t] = "committed"
       /\ isolation[t] = "serializable"
       => \A key \in reads[t] : \A e \in Covered(key) : lastChange[e] <= base[t]]_vars

\* acquire_locks, acquire_graph_statement_locks and autocommit scopes: what a
\* live pessimistic transaction read or wrote under locks is still what its
\* snapshot shows, at every moment until it ends.
GuardedIsCurrent ==
  \A t \in Txns : Live(t) /\ LockCoordinated(t) =>
    \A e \in guarded[t] \cup (writes[t] \cap Entities) : lastWrite[e] <= base[t]

\* version.rs: "Active write/dependency registrations never cross this floor"
HistoryProtected ==
  \A t \in Pinned : ~ late[t] => index.floor <= base[t]

\* stage, stage_with_read_barrier, prune_before, read_baseline and the legacy
\* barrier together: a write younger than the floor is never forgotten, its
\* stamp or the database barrier bears witness to it.
IndexSound ==
  \A e \in Entities : lastWrite[e] > index.floor =>
    index.stamp[e] >= lastWrite[e] \/ index.stamp[Database] >= lastWrite[e]

\* stage_version_index and prune_before keep precision for registered
\* workspaces: validation refuses one only when a commit after its snapshot
\* wrote one of its keys or was of unknown extent, or when it needs the whole
\* database unchanged and the epoch has moved.
NoSpuriousConflict ==
  \A t \in Txns : Live(t) /\ ~ late[t] /\ writes[t] # {} /\ ~ WritesValid(t) =>
    \/ \E e \in writes[t] \cap Entities : lastWrite[e] > base[t]
    \/ lastBroad > base[t]
    \/ writes[t] \cap {Database, Schema} # {} /\ epoch > base[t]

\* read_summary collapse never costs an exact reader: a serializable
\* transaction that depends on single rows or nodes only is refused only when
\* one of them was written or a commit of unknown extent went by.
ExactReadersPrecise ==
  \A t \in Txns : Live(t) /\ reads[t] \subseteq Entities \cup {Schema} /\ ~ ReadsValid(t) =>
    lastBroad > base[t] \/ \E e \in reads[t] \cap Entities : lastWrite[e] > base[t]

\* What a commit of unknown extent may have touched: everything, if it relies on
\* validation; if it relies on locks, what they guard (all of it under the
\* database lock, the table's rows under the table's, the range under a range's)
Reach(t) == IF mode[t] = "optimistic" THEN Entities ELSE GuardedBy(locks[t])

\* validate_version_writes, acquire_locks and autocommit scopes: a commit whose
\* write set does not say what it changed (Database or Schema is in it) is
\* published only over rows and nodes that are, throughout its reach, the very
\* ones its snapshot shows, not merely over unchanged ones it happens to name.
BroadWritesCurrent ==
  [][\A t \in Txns :
       CommitsWrites(t) /\ writes[t] \cap {Database, Schema} # {} =>
         \A e \in Reach(t) : lastWrite[e] <= base[t]]_vars
=============================================================================
