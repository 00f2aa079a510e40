--------------------------------- MODULE Wal ---------------------------------
(***************************************************************************)
(* One generation of the write-ahead log: the append, synchronization and  *)
(* rollback paths of DurableStore (crates/storage/src/store/durable/wal.rs)*)
(* with the recovery fence (store/wal_fence.rs), and what an open makes of *)
(* the file afterwards (store/graph_recovery.rs, store/doctor.rs).         *)
(*                                                                         *)
(* The file is its header and a sequence of records.  Every file operation *)
(* is a step of its own, so a process crash or a power loss can fall       *)
(* between any two: a process crash keeps what the kernel was given, a     *)
(* power loss only what was synchronized, and an arbitrary part of the     *)
(* rest.  LSNs, byte lengths and commit epochs are all counted in records. *)
(***************************************************************************)
EXTENDS Integers, Sequences, Functions

CONSTANTS
  Commits,        \* transactions, each appended at most once
  Origins,        \* whether the generation was prepared by a checkpoint
  Policies,       \* durability policies an open may choose
  Torn, Bad,      \* an incomplete record; a complete one that fails its checks
  Cut,            \* a complete one whose length claims more bytes than the file has
  None,
  MaxFaults,      \* bound on failing file operations
  MaxCrashes,     \* bound on process crashes
  MaxPowerLosses,
  MaxDamage       \* bound on records damaged at rest

\* What the file may hold, and an audit: the records a repair keeps, and the file it met
Records == Commits \cup {Torn, Bad, Cut}
Audits == [keep : Nat, orig : Seq(Records)]

ASSUME WalAssumption ==
  /\ Commits \cap {Torn, Bad, Cut} = {}
  /\ Torn # Bad /\ Torn # Cut /\ Bad # Cut
  /\ None \notin Audits
  /\ Origins \subseteq BOOLEAN
  /\ Policies \subseteq {"SyncOnEveryWrite", "SyncOnCheckpoint"}

VARIABLES
  checkpointed, \* the generation was prepared by a checkpoint
  \* DurableStore
  mode,         \* "closed", "opening" or "open"
  policy,       \* durability
  poisoned,     \* the handle refuses work until it is reopened
  next,         \* next_lsn, wal_bytes and wal_commit_epoch
  known,        \* known_durable_commit_epoch
  nameKnown,    \* wal_namespace_known_durable
  handle,       \* wal_append_file is present
  cache,        \* wal_recovery_fence: Unknown, NoFence or a fence
  group,        \* wal_sync_group
  job,          \* the operation under way
  \* the directory
  head,         \* the WAL file: "missing", "empty", "torn" (header) or "whole"
  file,         \* its records
  stable,       \* how many of them are synchronized, -1 if not even the header
  shadow,       \* the records before a truncation that is not synchronized, or None
  named,        \* its directory entry is synchronized
  fence, stableFence,       \* the fence file, and what a power loss may restore
  pending, stablePending,   \* the pending repair audit, likewise
  \* history
  hist,         \* records appended since the last open, after those it recovered
  promised,     \* how many of them were reported durable, and not discarded since
  faults, crashes, losses, damage

memory == <<mode, policy, poisoned, next, known, nameKnown, handle, cache, group, job>>
walFile == <<head, file, stable, shadow, named>>
fences == <<fence, stableFence>>
audits == <<pending, stablePending>>
history == <<hist, promised>>
environment == <<checkpointed, faults, crashes, losses, damage>>
vars == <<memory, walFile, fences, audits, history, environment>>

NoFence == -1
Unknown == -2

Ops == {"none",
        "relaxed",    \* append: begin_relaxed_wal_interval
        "append",     \* append: take_wal_append, finish_wal_append
        "rollback",   \* append: rollback_failed_wal_write
        "group",      \* finish_wal_sync_group
        "prefix",     \* synchronize_source_prefix
        "repair"}     \* apply_wal_tail_repair_locked, finalize_repair

Steps == {"idle", "write", "prepare", "prepare_sync", "fence", "fence_sync", "truncate",
          "sync", "name", "retire", "retire_sync"}

Job(op, step, c, created) == [op |-> op, step |-> step, commit |-> c, created |-> created]
Idle == Job("none", "idle", None, FALSE)
Step(step) == job' = [job EXCEPT !.step = step]

NoGroup == [entries |-> -1, created |-> FALSE]

Init ==
  /\ checkpointed \in Origins
  /\ mode = "open" /\ policy \in Policies /\ poisoned = FALSE
  /\ next = 0 /\ known = 0 /\ nameKnown = checkpointed /\ handle = FALSE
  /\ cache = Unknown /\ group = NoGroup /\ job = Idle
  /\ head = IF checkpointed THEN "whole" ELSE "missing"
  /\ file = <<>> /\ shadow = None
  /\ stable = IF checkpointed THEN 0 ELSE -1
  /\ named = checkpointed
  /\ fence = NoFence /\ stableFence = NoFence
  /\ pending = None /\ stablePending = None
  /\ hist = <<>> /\ promised = 0
  /\ faults = 0 /\ crashes = 0 /\ losses = 0 /\ damage = 0

Fault ==
  /\ faults < MaxFaults /\ faults' = faults + 1
  /\ UNCHANGED <<checkpointed, crashes, losses, damage>>
NoFault == UNCHANGED environment

-----------------------------------------------------------------------------
(* Appending a record *)

Ready == mode = "open" /\ job = Idle

\* load_wal_recovery_fence
Loaded == IF cache = Unknown THEN fence ELSE cache

\* append_encoded_entry, admitted.  A relaxed policy needs a fence first.
StartAppend(c) ==
  /\ Ready /\ ~poisoned
  /\ c \notin Range(hist) \cup Range(file)
  /\ cache' = Loaded
  /\ job' = IF policy = "SyncOnCheckpoint" /\ Loaded = NoFence
            THEN Job("relaxed", "fence", c, FALSE)
            ELSE Job("append", "write", c, FALSE)
  /\ UNCHANGED <<mode, policy, poisoned, next, known, nameKnown, handle, group,
                 walFile, fences, audits, history, environment>>

\* Mutant: an existing fence is left as it is
ProtectNever(step) == step

\* Whether protect_wal_sync publishes a fence before the barrier
ProtectThen(step) == IF cache = NoFence THEN step ELSE "fence"

\* The whole record is in the file.  A sync group and the relaxed policy defer the
\* barrier; otherwise it follows.
WriteRecord ==
  /\ job.op = "append" /\ job.step = "write"
  /\ head' = "whole"
  /\ file' = Append(file, job.commit)
  /\ hist' = Append(hist, job.commit)
  /\ LET created == head = "missing"
     IN IF group # NoGroup
        THEN /\ group' = [entries |-> group.entries + 1,
                          created |-> group.created \/ created]
             /\ next' = next + 1 /\ handle' = TRUE /\ job' = Idle
        ELSE IF policy = "SyncOnCheckpoint"
        THEN /\ next' = next + 1 /\ handle' = TRUE /\ job' = Idle
             /\ UNCHANGED group
        ELSE /\ job' = Job("append", ProtectThen("sync"), job.commit, created)
             /\ UNCHANGED <<next, handle, group>>
  /\ UNCHANGED <<mode, policy, poisoned, known, nameKnown, cache, stable, shadow, named,
                 fences, audits, promised, environment>>

\* What an interrupted write leaves: part of the header, or part of the record
PartialWrite ==
  \/ UNCHANGED <<head, file>>
  \/ head \in {"missing", "empty"} /\ head' \in {"empty", "torn"} /\ UNCHANGED file
  \/ head' = "whole" /\ file' \in {file, Append(file, Torn)}

\* The write fails and is rolled back
WriteFails ==
  /\ job.op = "append" /\ job.step = "write"
  /\ Fault
  /\ PartialWrite /\ head' # "missing"
  /\ job' = Job("rollback", ProtectThen("truncate"), None, FALSE)
  /\ UNCHANGED <<mode, policy, poisoned, next, known, nameKnown, handle, cache, group,
                 stable, shadow, named, fences, audits, history>>

\* rollback_wal_append: the append reports a failure, and the log is as before
RollBack ==
  /\ job.op = "rollback" /\ job.step = "truncate"
  /\ head' = "whole"
  /\ file' = SubSeq(file, 1, next)
  /\ stable' = next /\ shadow' = None
  /\ handle' = TRUE
  /\ job' = Idle
  /\ UNCHANGED <<mode, policy, poisoned, next, known, nameKnown, cache, group, named,
                 fences, audits, history, environment>>

-----------------------------------------------------------------------------
(* The fence, the barrier and the directory entry *)

\* The records a fence of this job protects
Target ==
  CASE job.op = "append" -> next + 1
    [] job.op = "repair" -> pending.keep
    [] OTHER -> next

\* The fence file is replaced; its directory entry is not synchronized yet
PublishFence ==
  /\ job.step = "fence"
  /\ Target >= fence /\ (job.op # "repair" => Target >= cache)
  /\ fence' = Target
  /\ Step("fence_sync")
  /\ UNCHANGED <<mode, policy, poisoned, next, known, nameKnown, handle, cache, group,
                 walFile, stableFence, audits, history, environment>>

\* One directory holds the fence and the WAL, so one barrier covers both names
SyncDirectory ==
  /\ stableFence' = fence
  /\ named' = (head # "missing")

FenceSynced ==
  /\ job.step = "fence_sync"
  /\ SyncDirectory
  /\ cache' = IF job.op = "repair" THEN cache ELSE fence
  /\ job' = CASE job.op = "relaxed" -> Job("append", "write", job.commit, FALSE)
              [] job.op \in {"append", "group", "prefix"} -> [job EXCEPT !.step = "sync"]
              [] job.op \in {"rollback", "repair"} -> [job EXCEPT !.step = "truncate"]
  /\ UNCHANGED <<mode, policy, poisoned, next, known, nameKnown, handle, group,
                 head, file, stable, shadow, fence, audits, history, environment>>

\* The records that are durable, and reported so, once the job's barrier is complete
Complete ==
  LET n == IF job.op = "append" THEN next + 1 ELSE next
  IN next' = n /\ known' = n /\ promised' = n

\* Mutant: only the append that creates the file synchronizes its directory entry
SyncDataIfCreated ==
  /\ job.op \in {"append", "group", "prefix"} /\ job.step = "sync"
  /\ job.op = "group" => handle
  /\ stable' = Len(file) /\ shadow' = None
  /\ handle' = (handle \/ job.op = "append")
  /\ IF job.created
     THEN Step("name") /\ UNCHANGED <<next, known, promised>>
     ELSE Complete /\ job' = Idle
  /\ UNCHANGED <<mode, policy, poisoned, nameKnown, cache, group, head, file, named,
                 fences, audits, hist, environment>>

\* sync_data.  The directory entry follows unless it is known to be durable.
SyncData ==
  /\ job.op \in {"append", "group", "prefix"} /\ job.step = "sync"
  /\ job.op = "group" => handle
  /\ stable' = Len(file) /\ shadow' = None
  /\ handle' = (handle \/ job.op = "append")
  /\ IF job.created \/ ~nameKnown
     THEN Step("name") /\ UNCHANGED <<next, known, promised>>
     ELSE Complete /\ job' = Idle
  /\ UNCHANGED <<mode, policy, poisoned, nameKnown, cache, group, head, file, named,
                 fences, audits, hist, environment>>

\* sync_wal_namespace
SyncName ==
  /\ job.op \in {"append", "group", "prefix"} /\ job.step = "name"
  /\ SyncDirectory
  /\ nameKnown' = TRUE
  /\ Complete
  /\ job' = Idle
  /\ UNCHANGED <<mode, policy, poisoned, handle, cache, group, head, file, stable, shadow,
                 fence, audits, hist, environment>>

-----------------------------------------------------------------------------
(* Sync groups and source synchronization *)

BeginSyncGroup ==
  /\ Ready
  /\ policy = "SyncOnEveryWrite" /\ group = NoGroup
  /\ group' = [entries |-> 0, created |-> FALSE]
  /\ UNCHANGED <<mode, policy, poisoned, next, known, nameKnown, handle, cache, job,
                 walFile, fences, audits, history, environment>>

\* The group is taken before anything can fail
FinishSyncGroup ==
  /\ Ready /\ group # NoGroup
  /\ group' = NoGroup
  /\ job' = IF group.entries = 0 THEN Idle
            ELSE Job("group", ProtectThen("sync"), None, group.created)
  /\ UNCHANGED <<mode, policy, poisoned, next, known, nameKnown, handle, cache,
                 walFile, fences, audits, history, environment>>

SynchronizeSourcePrefix ==
  /\ Ready /\ ~poisoned /\ group = NoGroup
  /\ known < next
  /\ cache' = Loaded
  /\ job' = Job("prefix", IF Loaded = NoFence THEN "sync" ELSE "fence", None, FALSE)
  /\ UNCHANGED <<mode, policy, poisoned, next, known, nameKnown, handle, group,
                 walFile, fences, audits, history, environment>>

-----------------------------------------------------------------------------
(* Failing operations *)

FenceSteps == {"fence", "fence_sync"}

\* Failures that leave the handle usable: nothing was written, or nothing but a fence
Harmless ==
  \/ job.op = "relaxed"
  \/ job.op = "append" /\ job.step = "write"
  \/ job.op = "prefix" /\ job.step \in FenceSteps

\* The step of the job fails without effect.  A failing repair fails the open; an
\* append that fails after its write loses the handle.
StepFails ==
  /\ job # Idle
  /\ \/ Fault
     \/ job.op = "group" /\ job.step = "sync" /\ ~handle /\ NoFault
  /\ mode' = IF job.op = "repair" THEN "closed" ELSE mode
  /\ poisoned' = (poisoned \/ ~(Harmless \/ job.op = "repair"))
  /\ handle' = (handle /\ (Harmless \/ job.op \notin {"append", "rollback"}))
  /\ job' = Idle
  /\ UNCHANGED <<policy, next, known, nameKnown, cache, group,
                 walFile, fences, audits, history>>

\* "WAL synchronization fence moved backwards"
FenceRefused ==
  /\ job.step = "fence"
  /\ ~(Target >= fence /\ (job.op # "repair" => Target >= cache))
  /\ mode' = IF job.op = "repair" THEN "closed" ELSE mode
  /\ poisoned' = (poisoned \/ job.op # "repair")
  /\ handle' = (handle /\ job.op \notin {"append", "rollback"})
  /\ job' = Idle
  /\ UNCHANGED <<policy, next, known, nameKnown, cache, group,
                 walFile, fences, audits, history, environment>>

\* The rollback truncates the file and then fails to synchronize it: the fault
\* that made the write fail lasts
RollBackUnsynced ==
  /\ job.op = "rollback" /\ job.step = "truncate"
  /\ NoFault
  /\ head' = "whole"
  /\ file' = SubSeq(file, 1, next)
  /\ shadow' = file
  /\ poisoned' = TRUE /\ handle' = FALSE
  /\ job' = Idle
  /\ UNCHANGED <<mode, policy, next, known, nameKnown, cache, group, stable, named,
                 fences, audits, history>>

-----------------------------------------------------------------------------
(* Opening: replay_wal_interval_with_file and the doctor's tail repair *)

IsWhole(f) == Range(f) \subseteq Commits

\* The first damaged record follows the first n
Clean(f, n) ==
  /\ n < Len(f) /\ f[n + 1] \notin Commits
  /\ \A i \in 1 .. n : f[i] \in Commits

\* Mutant: the fence is not compared with what was read
RetainsAny(n) == n >= NoFence

\* WalRecoveryFence::validate_retained
Retains(n) == n >= fence

\* A store over the first n records
Opened(n) ==
  /\ mode' = "open" /\ poisoned' = FALSE
  /\ next' = n /\ known' = 0 /\ nameKnown' = FALSE /\ handle' = FALSE
  /\ cache' = Unknown /\ group' = NoGroup /\ job' = Idle
  /\ hist' = SubSeq(file, 1, n)

\* A missing WAL is an empty one until the first checkpoint
Replayable ==
  \/ head = "missing" /\ ~checkpointed
  \/ head = "whole" /\ IsWhole(file) /\ Retains(Len(file))

\* Either recovery mode accepts an undamaged log with no repair pending
Open ==
  /\ mode = "closed" /\ pending = None
  /\ Replayable
  /\ policy' \in Policies
  /\ Opened(Len(file))
  /\ UNCHANGED <<walFile, fences, audits, promised, environment>>

Plan(n) == [keep |-> n, orig |-> file]

\* Mutant: any damage is taken for an unsynchronized suffix
RepairableAnyDamage(n) ==
  /\ head = "whole" /\ Clean(file, n)
  /\ Retains(n)
  /\ pending \in {None, Plan(n)}

\* inspect_wal_tail_locked keeps n records: what reads like an incomplete last record
\* may always be discarded, any other damage only beyond an existing fence
Repairable(n) ==
  /\ head = "whole" /\ Clean(file, n)
  /\ Retains(n)
  /\ file[n + 1] \in {Torn, Cut} \/ fence # NoFence
  /\ pending \in {None, Plan(n)}

RepairableTail == \E n \in 0 .. Len(file) : Repairable(n)

\* AutoRepairTornTail meets damage
OpenRepairing ==
  /\ mode = "closed" /\ RepairableTail
  /\ mode' = "opening" /\ policy' \in Policies
  /\ job' = Job("repair", "prepare", None, FALSE)
  /\ UNCHANGED <<poisoned, next, known, nameKnown, handle, cache, group,
                 walFile, fences, audits, history, environment>>

\* protect_repaired_prefix publishes a fence only if the bounds differ
RepairFence(step) == IF fence \in {NoFence, pending.keep} THEN step ELSE "fence"

\* Mutant: a pending audit is expected to describe an untruncated file
TruncatedNot == pending # None /\ file = pending.orig

Truncated ==
  /\ pending # None
  /\ file = SubSeq(pending.orig, 1, pending.keep)

Resumable == head = "whole" /\ Truncated /\ IsWhole(file) /\ Retains(Len(file))

\* AutoRepairTornTail meets a repair that was interrupted after its truncation
OpenResuming ==
  /\ mode = "closed" /\ Resumable
  /\ mode' = "opening" /\ policy' \in Policies
  /\ job' = Job("repair", RepairFence("truncate"), None, FALSE)
  /\ UNCHANGED <<poisoned, next, known, nameKnown, handle, cache, group,
                 walFile, fences, audits, history, environment>>

\* prepare_repair: evidence and audit, visible first, then durable
PrepareRepair ==
  /\ job.step = "prepare"
  /\ \E n \in 0 .. Len(file) : Clean(file, n) /\ pending' = Plan(n)
  /\ Step("prepare_sync")
  /\ UNCHANGED <<mode, policy, poisoned, next, known, nameKnown, handle, cache, group,
                 walFile, fences, stablePending, history, environment>>

\* Mutant: the audit's directory entry is not synchronized
RepairPreparedUnsynced ==
  /\ job.step = "prepare_sync"
  /\ Step(RepairFence("truncate"))
  /\ UNCHANGED <<mode, policy, poisoned, next, known, nameKnown, handle, cache, group,
                 walFile, fences, audits, history, environment>>

RepairPrepared ==
  /\ job.step = "prepare_sync"
  /\ stablePending' = pending
  /\ Step(RepairFence("truncate"))
  /\ UNCHANGED <<mode, policy, poisoned, next, known, nameKnown, handle, cache, group,
                 walFile, fences, pending, history, environment>>

AtMost(n, limit) == IF n < limit THEN n ELSE limit

\* set_len; a resumed repair finds the file truncated
Truncate ==
  /\ job.op = "repair" /\ job.step = "truncate"
  /\ file' = SubSeq(file, 1, pending.keep)
  /\ shadow' = IF file' = file THEN shadow ELSE file
  /\ stable' = AtMost(stable, pending.keep)
  /\ promised' = AtMost(promised, pending.keep)
  /\ Step("sync")
  /\ UNCHANGED <<mode, policy, poisoned, next, known, nameKnown, handle, cache, group,
                 head, named, fences, audits, hist, environment>>

SyncRepair ==
  /\ job.op = "repair" /\ job.step = "sync"
  /\ stable' = Len(file) /\ shadow' = None
  /\ Step("name")
  /\ UNCHANGED <<mode, policy, poisoned, next, known, nameKnown, handle, cache, group,
                 head, file, named, fences, audits, history, environment>>

SyncRepairName ==
  /\ job.op = "repair" /\ job.step = "name"
  /\ SyncDirectory
  /\ Step("retire")
  /\ UNCHANGED <<mode, policy, poisoned, next, known, nameKnown, handle, cache, group,
                 head, file, stable, shadow, fence, audits, history, environment>>

\* The applied audit is published and the pending one removed
RetireAudit ==
  /\ job.step = "retire"
  /\ pending' = None
  /\ Step("retire_sync")
  /\ UNCHANGED <<mode, policy, poisoned, next, known, nameKnown, handle, cache, group,
                 walFile, fences, stablePending, history, environment>>

RepairComplete ==
  /\ job.step = "retire_sync"
  /\ stablePending' = None
  /\ Opened(Len(file))
  /\ UNCHANGED <<policy, walFile, fences, pending, promised, environment>>

-----------------------------------------------------------------------------
(* The world *)

\* What the process held is gone
Stopped ==
  /\ mode' = "closed" /\ poisoned' = FALSE /\ group' = NoGroup /\ job' = Idle
  /\ UNCHANGED <<policy, next, known, nameKnown, handle, cache, hist, promised>>

\* The process ends, in the middle of a write too; the kernel keeps its files
Crash ==
  /\ mode # "closed"
  /\ crashes < MaxCrashes /\ crashes' = crashes + 1
  /\ IF job.op = "append" /\ job.step = "write" THEN PartialWrite ELSE UNCHANGED <<head, file>>
  /\ Stopped
  /\ UNCHANGED <<stable, shadow, named, fences, audits, checkpointed, faults, losses, damage>>

\* Unsynchronized records survive in part, the last of them incomplete or damaged
Remains(f) ==
  UNION {LET kept == SubSeq(f, 1, n)
         IN {kept} \cup IF n < Len(f) THEN {Append(kept, Torn), Append(kept, Bad)} ELSE {}
         : n \in (IF stable < 0 THEN 0 ELSE stable) .. Len(f)}

PowerLoss ==
  /\ losses < MaxPowerLosses /\ losses' = losses + 1
  /\ \/ /\ ~named /\ head' = "missing" /\ file' = <<>>
     \/ /\ stable < 0 /\ head # "missing"
        /\ head' \in {"empty", "torn"} /\ file' = <<>>
     \/ /\ head = "whole" /\ head' = "whole"
        /\ file' \in Remains(file) \cup (IF shadow = None THEN {} ELSE Remains(shadow))
  /\ stable' = IF head' = "whole" THEN Len(file') ELSE -1
  /\ shadow' = None
  /\ named' = (head' # "missing")
  /\ fence' \in {fence, stableFence} /\ stableFence' = fence'
  /\ pending' \in {pending, stablePending} /\ stablePending' = pending'
  /\ Stopped
  /\ UNCHANGED <<checkpointed, faults, crashes, damage>>

\* A record goes bad at rest.  The checksum of a fragment does not cover its length:
\* in the last block of the file, where all of these records may lie, a length that
\* grows makes parse_fragment_at_cursor report a record cut short at end of file.
Damage ==
  /\ mode = "closed"
  /\ damage < MaxDamage /\ damage' = damage + 1
  /\ \E i \in DOMAIN file, r \in {Bad, Cut} :
       file[i] \in Commits /\ file' = [file EXCEPT ![i] = r]
  /\ UNCHANGED <<memory, head, stable, shadow, named, fences, audits, history,
                 checkpointed, faults, crashes, losses>>

-----------------------------------------------------------------------------
Append_ == \E c \in Commits : StartAppend(c)
Writing == WriteRecord \/ WriteFails \/ RollBack \/ RollBackUnsynced
Barriers == PublishFence \/ FenceSynced \/ SyncData \/ SyncName
Groups == BeginSyncGroup \/ FinishSyncGroup \/ SynchronizeSourcePrefix
Failures == StepFails \/ FenceRefused
Opening ==
  \/ Open \/ OpenRepairing \/ OpenResuming
  \/ PrepareRepair \/ RepairPrepared \/ Truncate \/ SyncRepair \/ SyncRepairName
  \/ RetireAudit \/ RepairComplete
World == Crash \/ PowerLoss \/ Damage

Next == Append_ \/ Writing \/ Barriers \/ Groups \/ Failures \/ Opening \/ World

Spec == Init /\ [][Next]_vars

-----------------------------------------------------------------------------
(* Properties *)

\* What the code above the WAL relies on
LogStatus == IF mode # "open" THEN "closed" ELSE IF poisoned THEN "poisoned" ELSE "open"

Log == INSTANCE DurableLog WITH
  log <- hist, durable <- promised, doubt <- <<>>, status <- LogStatus

\* A repair discards a record whose length has rotted, and all that follows it, as if
\* its append had been interrupted: no fence tells what was synchronized
CutDiscarded ==
  /\ job.op = "repair" /\ job.step = "truncate" /\ fence = NoFence
  /\ pending.keep < Len(file) /\ file[pending.keep + 1] = Cut
  /\ promised' = pending.keep
  /\ UNCHANGED <<hist, LogStatus>>

\* The log keeps the promises of DurableLog: whatever crashes, fails or rots, an open
\* that succeeds recovers a prefix that holds every commit reported durable.  There is
\* one exception, a rotten length that reads like a torn tail where there is no fence.
ImplementsDurableLog ==
  Log!LogInit /\ [][Log!LogNext(Commits) \/ CutDiscarded]_(Log!logVars)

\* known_durable_commit_epoch, which lets synchronize_source_prefix skip its barrier,
\* never runs ahead of the synchronized records and their directory entry.
KnownIsStable ==
  mode = "open" /\ known > 0 => known <= stable /\ named

\* Either fence that a power loss may leave protects every commit reported durable,
\* so the damage an automatic repair may discard never reaches them.
FenceCoversPromise ==
  \A f \in {fence, stableFence} : f # NoFence => promised <= f

\* A repair truncates the file only after the audit that describes the file is durable.
DiscardsAudited ==
  [][mode = "opening" /\ losses' = losses /\ Len(file') < Len(file)
       => stablePending # None /\ stablePending.orig = file]_vars

\* A process crash alone never locks the database: unless it fell into the header of
\* the very first append, the next automatic open succeeds, or resumes its repair.
CrashReopens ==
  mode = "closed" /\ faults = 0 /\ losses = 0 /\ damage = 0 /\ head \notin {"empty", "torn"}
    => (pending = None /\ Replayable) \/ RepairableTail \/ Resumable

\* An open generation that a checkpoint prepared never holds fewer records than its
\* fence protects, so its next barrier is not refused: its name is durable before its
\* first append and replay_wal_interval_with_file refuses what falls short.  Before
\* the first checkpoint a missing WAL is accepted without a look at the fence.
FenceWithinLog == checkpointed /\ mode = "open" => fence <= Len(hist)
=============================================================================
