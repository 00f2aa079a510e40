# Verification of HawDB's concurrency and durability core

HawDB is an embedded graph, relational and search database. This directory
holds TLA+ models of the parts of it in which an order of events nobody wrote
a test for could lose, hide or invent data: the logical lock manager, the
commit sequencer with its group commit and read publication, the validation of
commits against the MVCC version index, the write-ahead log with its recovery
fence, replay and tail repair, and the checkpoint generations with the thread
that makes them. TLC checks the models on small instances; TLAPS proves the
central theorems for every value of the constants. Every definition is
translated from the Rust source; `PROJECT.json` maps each one to the lines it
stands for.

Paths below are relative to the repository (`crates/storage/src/...`,
`src/api/...`).

## 1. The system and its parts

A statement of a concurrent transaction (`src/api/concurrent.rs`) first takes
logical locks, runs on a snapshot, and stages its writes. A commit is handed
to the **commit sequencer** (`src/api/concurrent/coordinator.rs`), whose
leader runs a group of commits under the database mutex: each is validated
against the **version index**, appended to the **write-ahead log** and applied
to the in-memory **graph store**; one barrier then makes the group durable,
and the commit guard **publishes** the read view later readers use. An
**automatic checkpoint owner** folds the log into new immutable generations,
the **manifest** (or, with branches, the **branch head**) selects one, and
**reclamation** deletes those nobody pins. **Recovery** replays the log above
the selected generation, bounded by the **recovery fence**, and the **doctor**
repairs a damaged tail. Around this are admission control (**runtime
governor**, tokio adapter, segment cache, descriptor budget), **search
projection consumers** that follow the commits, the plan cache, and the query
stack (parsers, planner, optimizer, executor).

| Part | Code | Model | Status |
| --- | --- | --- | --- |
| Lock targets, modes, conflicts | `transaction_locks.rs` | `LockTargets` | modelled |
| Lock table, wait queue, deadlock detection | `transaction_locks.rs`, `coordinator.rs` | `LockManager` | modelled |
| Concurrent transactions | `api/concurrent.rs`, `api/transactions.rs` | `LockManager`, `Mvcc` | partly |
| Version index, commit validation | `version.rs`, `store/graph_commit.rs` | `VersionIndex`, `Mvcc` | partly |
| Commit sequencer, read publication | `coordinator.rs`, `publication.rs` | `GroupCommit` | partly |
| What the log promises | `store/durable/wal.rs` | `DurableLog` | abstract specification |
| Write-ahead log, fence, replay, tail repair | `store/durable/wal.rs`, `store/wal_fence.rs`, `store/graph_recovery.rs`, `store/doctor.rs` | `Wal` | one generation |
| Checkpoint publication, WAL rotation | `store/durable/checkpoint.rs`, `store/durable.rs`, `store/durable/prepared_checkpoint.rs` | `Checkpoint` | partly |
| Reclamation, reader pins | `store/durable/reclamation.rs` | `Checkpoint` | partly |
| Automatic checkpoint owner, runtime cell | `api/automatic_checkpoint.rs`, `api/runtime_cell.rs` | `Checkpoint` | partly |
| Everything else | | | not modelled, section 5 |

`PROJECT.json` has the complete list with the reason for every part left out,
and the hazards of each part at the line where they bite.

## 2. Modules

```
LockTargets          operators: modes, targets, coverage, overlap, order
  LockManager        table + queue + condition variable + transactions
    MCLockManager    instances: safety, liveness, budget
    LockManagerProofs  coverage and overlap; typing, exclusion, savepoints;
                       wait queue: deadlocks, wakeups, queue order

VersionIndex         operators: stamps, floor, admission, staging, pruning
  Mvcc               transactions, snapshots, locks, commits
    MCMvcc           instances: validation, locks (compares with LockTargets)
    MvccProofs       the index is sound, history protected, conflicts real
      MvccLockProofs locks and validation together lose no update

DurableLog           what a log promises: append, doubt, barrier, poison, reopen
  GroupCommit        the sequencer, written on top of that promise
    MCGroupCommit    instances
    GroupCommitProofs  typing, success means durable, one leader; followers,
                       visibility, reads survive a crash
Wal                  files, fence, repair; implements DurableLog
  MCWal              instances
  WalProofs          implements DurableLog, the fence, repairs, reopening

Checkpoint           generations, manifest, owner, explicit checkpoints, readers
  MCCheckpoint       instances
  CheckpointOwnerProofs      the invariant, and the owner's steps
    CheckpointCallerProofs   callers, readers, explicit checkpoints
      CheckpointProofs       publication, opening, and the theorems
```

The modules meet where the code does. `GroupCommit` extends `DurableLog`, so
its actions can only use the log through those operations (lemma `UsesLog`),
and `Wal` instantiates it with a refinement mapping (`log <- hist`, `durable <-
promised`, ...): `ImplementsDurableLog` says that every step of the file-level
model is a step of the promise or leaves it alone. `Mvcc` uses a few kinds of
lock targets in place of all of `LockTargets`; `MCMvcc` instantiates
`LockTargets` and assumes, and TLC evaluates, that overlap and coverage of
targets (`TargetsAgree`) and conflicts of modes (`ModesAgree`) are the same. `Checkpoint` takes
a commit as the atomic append that `Wal` refines, and adds what `Wal` leaves
out: more than one generation.

### LockTargets, LockManager

`LockTarget` is a record per variant of the enum, with key ranges whose ends
are included, excluded or open. `TargetCovers`, `TargetsOverlap`, `Conflict`
and `AcquisitionLess` are the functions of the same names.

`locks`, `waiters` and the two byte counters are `LockTable` and
`LockWaitQueue`. `owner` is the mutex held across the requests of one
`acquire` call, so one call is several steps (`BeginAcquire`, `SkipCovered`,
`GrantRequest`, `Wait`, ...), while `notify_all`, which the code calls after
dropping the mutex, is a step of its own that any other thread can precede.
`Grant` contains the whole of `LockTable::grant`: normalisation and escalation
of the request, the limit checks, and the replacement of what the new lock
covers. `Restore` is `LockManager::restore` after a failed statement, and
`AfterNotify` follows `acquire_graph_statement_locks`: after a timeout the
transaction stays active, after any other error it aborts. One-shot
transactions stand for optimistic commits and exclusive leases; their failing
acquire leaves without `release`, as `commit_with_result` does.

Abstractions: keys, tables and ids are small numbers; the byte estimate of a
request is a number per kind of target; time is a timeout that may strike at
any moment of a wait.

### VersionIndex, Mvcc

`VersionIndex` has the operators of `crates/storage/src/version.rs`: an index
is its floor and one stamp per key, and `Stage`, `StageWithReadBarrier`,
`PruneBefore`, `ReadBaseline`, `Admits` and `FirstConflict` are the methods of
those names. `Mvcc` has the transactions above it. A slot of `Txns` is used by
one transaction after another; `base` is the epoch of its snapshot, `locks`
what `LockManager` granted, `pend` the statement that is acquiring locks,
`reads` and `writes` what `ReadDependencies` and the staged operations name.
`lastWrite`, `lastChange` and `lastBroad` are history: what really happened,
against which the index is judged.

A call that holds the sequencer's lock is one action (`SqlFence`, `Commit`,
`CommitRefused`, ...); waiting for a lock, and the time between a grant and the
check of the snapshot, are separate steps in which others commit. The actions
follow the paths of `src/api/concurrent.rs` and
`src/api/concurrent/autocommit.rs`: optimistic transactions that seal and are
validated; pessimistic SQL statements that lock, compare or refresh their
snapshot and lock again what they discovered; graph statements that run,
discover their footprint, lock it and replay; autocommit statements that lock a
scope first and take the snapshot afterwards; serializable transactions that
validate their reads; workspaces forked from an old read snapshot; exclusive
legacy commits; append transactions. `Publish` contains the whole staging of
the index: reclaiming, the baseline, the admission and the collapse of the
read summaries into one barrier.

Abstractions: one table, one label; a transaction's operations are the set of
entities they change, with `Database` for an operation of unknown extent
(`SqlWritable`: DDL and cascades, and also upserts, predicates that do not fix
the primary key, tables without one and sources of materialized views, under
whatever locks they run); the stamps of the index weigh the same, so the byte limits are a number of stamps;
the lock table is what `LockManager` promises, without escalation and without
its internal batches. Not modelled: `retry_safe_conflict_noop`, conflicts from
a changed catalog, the refusal of DDL in serializable transactions, failures of
the log (these are in `GroupCommit` and `Wal`), restarts.

### DurableLog

The log of commits, how many of them a completed barrier covers, the record a
failed append may have left behind (`doubt`), and whether the handle is open,
poisoned or closed. A restart (`LogOpen`) keeps the durable commits and an
arbitrary prefix of the others, the doubtful record included.

### GroupCommit

`pc` gives the place of each committing thread in
`execute_grouped_with_admission` and `run_group_commit`. The state mutex is
held across two steps where a follower looks for its result and decides to
lead or to sleep: the leader stores results without that mutex
(`CompleteNext`), so the gap is real. `RunTask` dequeues one request and runs
its task (append and apply, refusal, uncertain append, or a failure after the
append); `TaskPanics` unwinds through the guard, poisons the mutex and fails
every dequeued request; `FinishGroup`, `BarrierFails`, `BarrierUnreachable`
and `SchemaCheckpointFails` are the exits of `finish_wal_sync_group` and the
schema checkpoint; `PublishView` is `CommitGuard::drop`. Readers take the
published view or, the first time, capture one, and check usability before and
after the query. `Crash` drops everything in memory; `Recover` is `LogOpen`.

Abstractions: a commit is its request; the coalescing delay is an arbitrary
wait; the byte limit and a required schema checkpoint may end a group after
any task; metrics are left out. Not modelled: relaxed durability (no group is
then formed), the disabled-group path (a group of one), the shared owner of
branch projects, adoption of checkpoint handoffs by readers (it is in
`Checkpoint`). The state mutex cannot be poisoned, since no code that can panic
runs under it.

### Wal

One WAL generation and its directory. `head` and `file` are what the kernel
has, `stable` how many records are synchronized, `named` whether the
directory entry is, `shadow` what an unsynchronized truncation may bring back,
`fence`/`stableFence` and `pending`/`stablePending` the fence and the pending
repair audit with what a power loss may restore. `job` is the operation under
way; each file operation of it is a step, so that crashes fall between any
two. `hist` and `promised` are history: what was appended and what was
reported durable.

Appends: `StartAppend`, `WriteRecord`, `WriteFails` then `RollBack` or
`RollBackUnsynced`. Barriers: `PublishFence`, `FenceSynced`, `SyncData`,
`SyncName`, shared by appends, sync groups and `synchronize_source_prefix`.
`StepFails` and `FenceRefused` follow the error paths: which of them poison
the handle, lose it, or leave it usable. Opening: `Open` in either recovery
mode, `OpenRepairing` and `OpenResuming` followed by the steps of
`apply_wal_tail_repair_locked` and `finalize_repair`. The world: `Crash` (also
in the middle of a write), `PowerLoss` (unsynchronized records survive in
part, the last of them torn or damaged; each name survives or not), `Damage`
of a record at rest. A damaged record is `Bad`, recognized by its checksum, or
`Cut`: the checksum of a fragment does not cover its length, and in the last
block of the file a length that has grown reads like an append that was
interrupted. The run starts from an empty directory and from the
generation a checkpoint prepared.

Abstractions: LSNs, byte lengths and epochs are counted in records; capacity,
descriptor and pressure refusals are appends that do not start; a checksum
makes a damaged record recognizable, a rotted length apart. The barrier and name
synchronization that `finalize_repair` repeats are merged with those of the
repair itself. The captured-owner variant of the append handle adds identity
checks only. An explicit `DatabaseDoctor` repair runs the same steps and is
not a separate action. A pending audit that does not match the plan is
refused. Not modelled: files truncated by the medium and kernels that drop
dirty pages after a failed synchronization.

### Checkpoint

`disk` has the files of every generation (an image of the commits up to `base`
and a log up to `tail`, synchronized up to `synced`), the staging directories,
and the manifest: the generation it names (`selected`) and the one it would
name after a power loss (`lasting`). `store` is the `GraphStore` the foreground
serves, `control` the `Control` of `src/api/automatic_checkpoint.rs` with its
`State` and `Phase`, `owner` the worker thread and where it is in `run`,
`manual` an explicit `Database::checkpoint`, `front` the caller inside
`get_mut`, `reader` the guards and pins of read transactions, `promised` the
history of what was reported durable.

A step is what happens under one hold of the control mutex, or the private work
between two of them. The foreground: a call enters `wait_frontend` and stays
there while `MustFence` holds it back; it then adopts a published generation
that waits for it (`AdoptedStore`, `AdoptedControl`), does its work, and its
guard's drop submits the store to the owner (`Submit`): all of this is one
action (`Commit`, `BeginGroup`, `GroupAppend`, `FinishGroup`, ...). The owner:
`StartAttempt`, `StageGeneration`, `PrepareCandidate`, then `Resume`, `Replay`
and the writer gate (`GateContended`, `GateBehind`, `GateDrains`, `GateAdvances`)
until the candidate has the whole log, `PublishCandidate`, `Settle`,
`OfferHandoff`, then retirement up to `ReclaimRetired` and `ReleaseRetired`;
every step of it can be denied admission, be suspended or fail, and work that
can continue is parked. A failure is plain, or an integrity error after which
the store refuses writes (`FaultMayPoison`): the captured source shares the
poison flag with the foreground. A publication that fails before artifacts are
retained only costs the candidate (`PublicationRefused`); later it is uncertain
and poisons (`PublishCandidateFails`). Explicit checkpoints suspend the owner, take its parked
work away, adopt, wait for it to be idle, prepare outside the coordinator's
lock and publish only if nothing was committed since. When the published files
cannot be loaded afterwards (`PublishAdoptionFails`), the log has been rotated
and the manifest selects the new generation although the caller gets an error.
`Restart` is a process
crash or a power loss followed by the open that removes what the manifest does
not name.

Abstractions: a commit is its epoch; pressure, headroom and capacity are
numbers of commits since the base; a failing operation fails at its end;
which of the foreground's in-memory views a failed adoption has replaced is not
told apart, since all of them show the same commits;
`WaitsForCapacity` has a deadline that may strike at any moment; a candidate's
artifacts are one file. Two constants switch on behaviours of the code that
break a property, each in a violation run of its own, so that the passing runs
check what holds without them: `EmptyGroups` (a commit group whose every task
was refused) and `DirectBarrierFaults` (the directory barrier of an explicit
checkpoint fails after the rename). Not modelled: branch heads, `Owner::stop`
and closing, `release_suspended_source`, segments shared between generations,
preparations that were never staged, the live overlay's demand for headroom,
file removals that fail, cancellation tokens that outlive
their suspension, panics of the worker.

## 3. Runs

| Run | Instance | Distinct states | Checks |
| --- | --- | --- | --- |
| `locks` | 2 transactions with savepoints, 1 one-shot, ranges, adjacency and nodes, escalation after 1, 4 entries, timeouts, spurious wakeups | 476,178 | `MutualExclusion`, `SavepointStillHeld`, `NoUndetectedDeadlock`, `NoLostWakeup`, `FinishedHoldsNothing`, `BytesAccounted`, `BlockersOnlyShrink` |
| `lock_liveness` | 3 transactions, no timeouts, no spurious wakeups | 58,702 | `AcquireReturns` |
| `lock_budget` | 2 transactions, 3 entries | violation | `LockTableBounded` |
| `group_commit` | 3 commits, 1 reader, groups of 2, 1 fault, 1 crash | 816,183 | `AckedDurable`, `AckedVisible`, `ReadsSurvive`, `OneLeader`, `AlwaysAccountedFor`, `NoMissedTurn` |
| `group_commit_liveness` | 2 commits, 1 reader, 2 faults, no liveness check | 64,893 | `CommitReturns` |
| `wal` | 3 commits, both policies, with and without an earlier checkpoint, 1 fault, 2 crashes, 1 power loss, 1 damaged record | 1,874,229 | `KnownIsStable`, `FenceCoversPromise`, `CrashReopens`, `FenceWithinLog`, `DiscardsAudited`, `ImplementsDurableLog` |
| `mvcc_validation` | 2 slots, 2 rows, an index of 2 stamps, 2 commits, serializable transactions, old snapshots, writes of unknown extent under row and table locks, legacy and append commits, equal rewrites | 1,125,974 | `IndexSound`, `HistoryProtected`, `NoSpuriousConflict`, `ExactReadersPrecise`, `NoLostUpdate`, `BroadWritesCurrent`, `SerializableReads` |
| `mvcc_locks` | 2 slots, 1 row, 1 node, 2 statements, 2 commits, pessimistic, optimistic and autocommit transactions | 534,294 | `GuardedIsCurrent`, `NoLostUpdate` |
| `checkpoint` | 3 commits, 3 generations, 1 reader, both policies, 1 denial, 1 fault, 1 crash, 2 of them together | 1,029,958 | `Ownership`, `Recoverable`, `NothingLeftBehind`, `HandoffAdoptable`, `PinnedReadable`, `PrivateGenerations`, `CommitsKept` |
| `checkpoint_liveness` | 2 commits, 3 generations, 1 reader, 1 denial, 1 fault | 72,320 | `CallersReturn`, `HandoffAdopted`, `ExplicitEnds` |
| `checkpoint_uncertain` | the directory barrier of an explicit checkpoint may fail | violation | `Recoverable` |
| `checkpoint_stale_source` | a group may append nothing | violation | `PrivateGenerations` |

Why the bounds are enough. Three lock transactions are the fewest in which a
cycle can close through the queue and not through held locks; the entry limits
are low enough that grants, waits and escalations meet them. Three commits and
groups of two leave one request behind for a second leader, and make followers
of both kinds (in the group, and after it). One fault hits every operation of
a group in some behaviour; two faults in the liveness run let a second group
meet the state a first failure left. Three records leave room for a durable, an
unsynchronized and a torn one beside a fence; two crashes interrupt a repair
and the repair of that repair. Two transactions are what every conflict is
between, two commits let a snapshot be overtaken twice, and slots are reused,
so a third and fourth transaction follow. An index of two stamps overflows on
the second key, so reclaiming, collapsing and refusing all happen. Three
generations are the one that is served, one that is prepared or published, and
one that retirement removes or a second attempt prepares; three commits put one
into the base, one into the suffix that is caught up, and one after it.
Symmetry permutes transactions (the one-shot one apart), requests, slots or
commits, which no definition distinguishes, and is not used in liveness runs.
Deadlock checking is off where the system may stop when its callers have
finished, or when a bound is reached.

Fairness. `LockManager!FairSpec` and `GroupCommit!FairSpec` assume weak
fairness of each thread's own steps: a runnable thread is scheduled and a free
mutex is eventually obtained. The lock model also assumes that the application
ends its statements and transactions, without which waiting is legitimate.
`Checkpoint!FairSpec` assumes weak fairness of the owner's thread, of the
leader of an open group, of the explicit checkpoint's private steps and of a
reader that returns its guard. It assumes strong fairness of the steps that
must get a lock others take and release again and again: the caller inside
`get_mut` and the explicit checkpoint that asks for the coordinator. The locks
are those of the standard library, which queue their waiters without promising
an order; that nobody is overtaken forever is an assumption about them and not
a fact about this code. Nothing is assumed of
timeouts, spurious wakeups, the liveness check, new requests, denials, faults
or crashes: progress must not depend on them.

Each checked property has a mutant (marked `Mutant` in the modules, listed in
`PROJECT.json`): a small plausible change of one definition under which TLC
finds the property violated.

### What the violation runs show

* `lock_budget`: `LockTable::restore_transaction` puts a savepoint back
  without looking at the limits. After an escalation freed entries that another
  transaction used, the restored table exceeds `max_entries` and `max_bytes`,
  which the documentation calls hard limits.
* `checkpoint_uncertain`: when the directory barrier of an explicit checkpoint
  fails after the manifest was renamed, the error is a plain storage error and
  the store is not poisoned. It goes on acknowledging commits in the log of the
  old generation, while the next open follows the manifest to the new one. The
  specification of pressure-driven checkpoints says that writes are rejected
  after an uncertain publication, which the automatic owner does
  (`PublishCandidateFails`).
* `checkpoint_stale_source`: a commit group that appended nothing makes
  `Control::submit` capture the unchanged source while the owner is publishing
  it. A reader then adopts the new generation without submitting anything, so
  the owner takes the old capture for current and prepares the number of the
  generation that is being served.

### Other observations

Three more behaviours surfaced while modelling; the properties of the passing
runs are stated so that they hold beside them.

* An open replays records that were written and never synchronized, and
  publishes them at once. A reader may see such a commit and lose it in a
  second crash, although `docs/specs` lets visibility wait for durability.
  `ReadsSurvive` therefore speaks of the first crash: within one process life
  nothing is visible before its barrier. Acknowledged commits are not affected.
* Before the first checkpoint a missing WAL file is accepted without consulting
  the fence. If a power loss keeps the fence and loses the file's name, the
  open succeeds with less than the fence protects and the next barrier is
  refused, instead of recovery failing closed. No durable commit is lost.
  `FenceWithinLog` therefore speaks of checkpointed generations.
* Where there is no fence, which is so until the relaxed policy publishes the
  first one, `inspect_wal_tail_locked` decides by the shape of the damage alone.
  The checksum of a fragment does not cover its length
  (`wal/frame.rs`), so a length that rots in the last block is reported as an
  interrupted append, and an automatic open discards that record and what
  follows it, with an audit and without an error, although they were reported
  durable. `docs/tla/README.md` says that "a torn tail is only ever the unsynced
  tail append of the active generation" and that corruption fails closed
  "including corruption in the final WAL record";
  `docs/specs/PRODUCTION_READINESS_SPEC.md` that "Published branch prefixes and
  synchronized data MUST NOT be discarded". `ImplementsDurableLog` allows
  exactly this step beside those of `DurableLog` (`CutDiscarded`); with a fence,
  and for every other damage, the promise holds.

## 4. Proofs

All theorems hold for arbitrary constants under the named assumptions
(`LockManagerAssumption`, `GroupCommitAssumption`, `WalAssumption`,
`KeysDistinct`, `MaxStampsAssumption`, `TargetsDistinct`, `InputsAssumption`,
`CheckpointAssumption`),
which say no more than that inputs have their types, that sets of names are
disjoint and do not contain `None`, and that limits are natural numbers. The
theorems about `Checkpoint` assume in addition that the two switches of the
violation runs are off (`~EmptyGroups`, `~DirectBarrierFaults`): with either of
them on, some of these theorems are false. The bounds of the models (commits, crashes, faults, ...) are such constants too, so
a theorem covers every length of run. Type correctness of `LockManager`,
`GroupCommit`, `Wal`, `Mvcc` and `Checkpoint` is part of the invariants proved, so no run of
these repeats it.

* `LockManagerProofs`, on targets: coverage is reflexive and transitive, conflicts are
  symmetric, and what conflicts with a covered request conflicts with the
  covering one (`CoverSound`). Against the meaning of ranges as sets of keys:
  ranges with a common key overlap (`CommonKeyOverlaps`) and a key of a covered
  range is a key of the covering one (`CoveredKeyProtected`).
* `LockManagerProofs`, on the table: `TypeCorrect`; `MutualExclusionHolds` and
  `SavepointHolds` from the joint invariant `ExclusionInv`. Neither half is
  inductive alone: a restore grants without looking for conflicts, which is
  safe only because every lock of the savepoint is still covered by one that is
  held, and coverage keeps conflicts (`CoverSound`); coverage in turn survives
  replacements because it is transitive.
* `LockManagerProofs`, on the queue: `DeadlockFreeQueue`, `NoWakeupLost`,
  `FinishedLeavesNothing` and `BlockersNeverGrow` from `QueueInv`, which joins
  exclusion with what the queue and the table say of each transaction
  (`WaitInv`, `HoldInv`). The central fact is that the blockers of a queued
  transaction only shrink: a grant passes the queue check, so it cannot meet an
  earlier waiter; an escalated lock blocks nobody whom the narrow locks and the
  queue check did not rule out; a restore only narrows; a new waiter stands
  behind all others. Hence a grant frees no sleeper, so it need not notify
  (`NoLostWakeup`), and a cycle can only arise through the transaction that is
  about to wait, which is the only one `check_deadlock` looks from
  (`NoUndetectedDeadlock`, over sets of queued transactions of any size).
* `GroupCommitProofs`, on durability: `GroupTypeCorrect`; the lemmas `LogStep` (no log
  operation takes back a durable commit) and `UsesLog`. `AckedIsDurable` and
  `OneLeaderAlways` from `DurableInv`. `AckedDurable` speaks of what was
  returned; to be inductive it needs where a success comes from. `Successes`
  follows it: while the group runs it is in the log and the group counts it,
  from the guard's drop on it is durable. That the group's counter is not zero
  then is why the barrier cannot be skipped. `OneLeader` is needed so that no
  other thread touches the dequeued requests, and `ClosedIsQuiet` so that a
  reopening changes the log only when no group is under way.
* `GroupCommitProofs`, on followers and readers: `NobodyForgotten` and `NobodySleepsThrough` from
  `TurnInv` (every request between submission and result is at exactly one
  place: the queue, the leader's group, or its result; whoever may go on is
  awake or a notification is on its way), `AckedIsVisible` and `ReadsAreKept`
  from `ReadInv` (what was shown is a durable prefix of the log, and covers
  every success that was handed back).
* `WalProofs`: everything the run on `Wal` checks. `LogImplemented` is the
  refinement of `DurableLog`, step by step: the appended history is `log`, the
  promised prefix `durable`, and every step of a file, a fence, a repair, a
  crash or a power loss is one of the promise's steps or leaves it alone, but
  for `CutDiscarded`, a repair that takes a rotted length for a torn append
  where there is no fence. Up to that step the theorems about `GroupCommit`,
  which is written on top of `DurableLog`, rest on the files. `KnownDurable`,
  `FenceProtects`, `BarrierNotRefused` and `RepairsAudited` come from the same invariant
  `WalInv`: for each of the two copies (what the process sees, what a power
  loss would leave) it relates the file, the fence, the pending audit of a
  repair and the history, at each step of the operation under way.
  `CrashAlwaysReopens` adds `Undisturbed`: without power losses and damage the
  file is the history up to a torn end, so an open replays it or the doctor may
  repair it.
* `MvccProofs`: `IndexSoundness` and `HistoryProtection` from `IndexInv`. The
  index forgets in four ways (pruning, baselines, collapsed summaries, refused
  commits that had reclaimed); each is sound because the floor moves with it,
  and safe because the floor stays at or below every registered snapshot, which
  only the choice of the watermark guarantees. `ConflictsAreReal` and
  `ExactReadersAreSpared` are the converse, precision: from `ValidationInv`, in
  which every stamp, summary and barrier above the floor has a commit that
  caused it (`Witnessed`), so validation refuses nobody without cause.
* `MvccLockProofs`: `GuardedStaysCurrent`, `NoLostUpdates` and
  `BroadCommitsAreCurrent` from `LockInv`; the last covers what a commit of
  unknown extent may have reached, which its locks bound when nothing validates
  it. A pessimistic commit is not
  validated, so the invariant has to carry why it need not be: granted locks
  exclude each other, whoever changes an entity holds a lock that meets every
  guard of it (`WriterMeetsGuard`), a sealed optimistic commit meets them all
  (`SealedMeetsGuard`), and between the grant of a lock and the check of the
  snapshot a statement's locks protect nothing yet, which is what the stages
  of `pend` in `TxnShape` tell apart. `ReadsAreSerializable` joins `LockInv` and
  `ValidationInv`: whoever commits with valid reads read nothing that changed,
  since each dependency's stamp is found under its own key, its domain's
  summary or a barrier.
* `CheckpointProofs` with `CheckpointOwnerProofs` and `CheckpointCallerProofs`:
  every safety property the run on `Checkpoint` checks, from `CheckpointInv`.
  All of its theorems assume `~EmptyGroups` and
  `~DirectBarrierFaults`: with either switch on, a property is false, and the
  runs `checkpoint_stale_source` and `checkpoint_uncertain` show how.
  The invariant has two halves.
  `OwnerInv` says what each actor has and knows between the steps of a long
  operation, during which the mutex of `Control` is free: which parts exist at
  which place (`Shape`, `Ownership`), that what the owner captured is a prefix
  of what the foreground serves and an unread capture is newer (`Capture`,
  `Attempt`), that from the publication to the adoption nothing was committed
  (`Offered`), and that private work is numbered above the live generation
  (`Numbers`). It gives `PhaseOwns` and `EveryHandoffAdoptable`.
  `DiskInv` says what the files hold: a candidate exactly the commits up to its
  epoch (`Images`), which generation the manifest names (`Selector`), which one
  it may name after a power loss (`Lasting`), and that pins read before a
  reclamation miss at most the generation that is served (`Pinned`).
  `Recoverable` is not inductive without `Lasting`: until the first directory
  barrier after a rename the old generation may come back, so it has to hold
  what is promised, and the first synchronized append has to name the new one
  before it promises more. `Uncertain` is the one state in which the manifest
  names a generation nobody serves; it is harmless since the store is poisoned
  and nobody owns work that could still be published. A store that is only
  poisoned by a failing attempt serves what it served (`StoreKept`), so the rest
  of the invariant does not notice. From the two halves
  follow `AlwaysRecoverable`, `NothingEverLeftBehind`, `PinsRespected`,
  `GenerationsPrivate` and the action property `NoCommitTakenBack`; with it,
  that what was reported durable is served in every state
  (`PromisesAlwaysServed`) and stays reported (`PromisesOnlyGrow`), so
  `Recoverable` speaks of every commit ever acknowledged as durable.

Only model-checked: liveness (`AcquireReturns`, `CommitReturns`,
`CallersReturn`, `HandoffAdopted`, `ExplicitEnds`), which needs fairness and
`ENABLED`; `BytesAccounted`, a sum over the locks of the table, which needs
induction over finite sets. That the targets
and modes of `Mvcc` agree with `LockTargets` is an assumption TLC evaluates.

## 5. Not modelled

* Branch heads and lifecycle (`branch_*.rs`, `api/branch_lifecycle.rs`): a
  protocol of its own over many files. `Checkpoint` has the store without
  branches.
* Runtime governor and tokio adapter (`crates/qos`, `crates/runtime-tokio`):
  their denials appear in `Checkpoint` as denied attempts; permits, priorities,
  aging, waiter signals and shrinking limits do not. Their hazards are listed
  without properties.
* Search projection consumers and projection generations: derived data that can
  be rebuilt from the store at any time.
* Segment cache, file descriptors, storage pressure, plan cache: accounting and
  classification whose errors cost memory, time or a refused operation.
* Backup, immutable objects, retained queries: copying and naming of files that
  a pinned generation keeps in place; the pin is in `Checkpoint`.
* Graph and relational layouts, encodings, indexes, statistics: data structures
  and byte layouts without protocol state.
* Parsers, planner, optimizer, executor, search scoring, analytics: sequential
  code over unbounded text, trees and numbers.
* Facade, CLI, bindings, qualification and release tooling: adapters and
  tooling outside the running database.

These parts are most of the repository: of some 800,000 lines about ten
thousand carry the protocol of locks, commits, log and checkpoints, and those
are what the modules translate. The rest has no interleavings, crashes or
orders of events for a model checker to enumerate.
