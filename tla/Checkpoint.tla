------------------------------ MODULE Checkpoint ------------------------------
(***************************************************************************)
(* Checkpoint generations of one store: the foreground that commits to the *)
(* write-ahead log of the current generation, the automatic owner that     *)
(* prepares, catches up, publishes and retires generations on a thread of  *)
(* its own (src/api/automatic_checkpoint.rs), explicit checkpoints that    *)
(* suspend it, readers that pin generations, crashes, power losses and     *)
(* reopening.                                                              *)
(*                                                                         *)
(* Commits are numbered by their epoch.  The files of a generation are an  *)
(* image of the commits up to its base and a log of base+1..tail, of which *)
(* everything up to synced survives a power loss.  The manifest names the  *)
(* generation that recovery opens: it is replaced by a rename, which lasts *)
(* once the directory is synchronized.                                     *)
(*                                                                         *)
(* A step is what happens under one hold of the Control mutex, or the      *)
(* private work between two of them.  The store is not a branch: no branch *)
(* head takes part in a publication.                                       *)
(***************************************************************************)
EXTENDS Integers, FiniteSets

CONSTANTS
  Readers,
  Policies,             \* durability policies the store may be opened with
  None,
  SoftDebt,             \* commits since the base that make a checkpoint pressing
  HeadroomDebt,         \* commits since the base that leave no headroom
  CapacityDebt,         \* commits since the base that leave no capacity
  MaxOperationFailures, \* failures of a generation after which the owner gives up
  MaxCommits,           \* bound: commits
  MaxGeneration,        \* bound: generations
  MaxDenials,           \* bound: denied admissions and contended locks
  MaxFaults,            \* bound: failing operations
  MaxCrashes,           \* bound: crashes and power losses
  MaxDisturbances,      \* bound: all three together
  EmptyGroups,          \* whether a commit group may append nothing
  DirectBarrierFaults   \* whether the barrier of an explicit checkpoint may fail

Generations == 1..MaxGeneration
Phases == {"Idle", "Preparing", "Draining", "Finalizing", "Discarding",
           "Handoff", "Retiring", "Releasing"}
Operations == {"commit", "begin", "append", "finish", "adopt", "publish"}

\* The files of a generation; CheckpointSource, private work, SelectedStore,
\* RetiredGeneration
Contents == [base : Nat, tail : Nat, synced : Nat]
Sources == [gen : Nat, base : Nat, epoch : Nat, group : BOOLEAN]
Works == [kind : {"preparation", "candidate", "prepared"}, gen : Nat, from : Nat,
          base : Nat, epoch : Nat, failed : BOOLEAN, retain : BOOLEAN]
Selections == [gen : Nat, base : Nat, epoch : Nat, expected : Sources]
Retirements == [gen : Nat, previous : Nat]

ASSUME CheckpointAssumption ==
  /\ Policies \subseteq {"SyncOnEveryWrite", "SyncOnCheckpoint"} /\ Policies # {}
  /\ {SoftDebt, HeadroomDebt, CapacityDebt, MaxOperationFailures} \subseteq Nat \ {0}
  /\ {MaxCommits, MaxGeneration, MaxDenials, MaxFaults, MaxCrashes, MaxDisturbances}
       \subseteq Nat
  /\ MaxGeneration > 0
  /\ {EmptyGroups, DirectBarrierFaults} \subseteq BOOLEAN
  /\ None \notin Nat \cup Operations
  /\ None \notin Contents \cup Sources \cup Works \cup Selections \cup Retirements

VARIABLES
  disk,       \* files of the generations, staging directories, manifest
  store,      \* the GraphStore the foreground serves
  promised,   \* highest epoch reported durable to a caller
  control,    \* automatic_checkpoint::Control and its State
  owner,      \* the worker thread
  manual,     \* Database::checkpoint
  front,      \* the caller inside get_mut
  reader,     \* runtime read guards and generation pins
  budget      \* denials, faults and crashes so far

vars == <<disk, store, promised, control, owner, manual, front, reader, budget>>

-----------------------------------------------------------------------------
(* Files *)

\* A generation whose log holds base+1..tail
Files(base, tail, synced) == [base |-> base, tail |-> tail, synced |-> synced]

\* WAL append to generation g, synchronized or not
Append(d, g, durable) ==
  [d EXCEPT !.files[g] = Files(@.base, @.tail + 1, IF durable THEN @.tail + 1 ELSE @.synced)]

\* discard_prepared_checkpoint: every file of the generation, then its staging directory
DiscardPrepared(d, g) ==
  [d EXCEPT !.files[g] = None, !.staging = @ \ {g}]

\* next_checkpoint_generation: the numbers above the source that no staging directory holds
NextGenerations(src) ==
  LET free == {g \in Generations : g > src.gen /\ g \notin disk.staging}
  IN {g \in free : \A h \in free : g <= h}

\* publish_checkpoint_sidecars, then DurableManifest::write: the rename and,
\* if nothing fails, the synchronized directory
Select(d, g, barrier) ==
  [d EXCEPT !.staging = @ \ {g}, !.selected = g, !.lasting = IF barrier THEN g ELSE @]

\* try_reclaim_old_generations
Reclaim(d, current, previous, pins) ==
  [d EXCEPT !.files = [g \in Generations |->
     IF g < current /\ g \notin pins \cup {previous} THEN None ELSE @[g]]]

-----------------------------------------------------------------------------
(* The foreground store and its captures *)

\* Source::capture
Captured(s) == [gen |-> s.gen, base |-> s.base, epoch |-> s.epoch, group |-> s.group]

\* checkpoint_source_identity: an open group is not part of it
Identity(src) == IF src = None THEN <<>> ELSE <<src.gen, src.base, src.epoch>>

Debt(src) == src.epoch - src.base

\* Private work of the owner or of an explicit checkpoint: a preparation that
\* owns a staging directory, or a candidate whose files are complete
Work(kind, src, g) ==
  [kind |-> kind, gen |-> g, from |-> src.gen, base |-> src.epoch, epoch |-> src.epoch,
   failed |-> FALSE, retain |-> FALSE]

\* CheckpointCandidate::validate_source
Validates(work, src) ==
  /\ ~work.failed /\ ~src.group
  /\ work.from = src.gen /\ work.epoch <= src.epoch

\* can_continue_from, of candidates and of preparations
CanContinueFrom(work, src) ==
  /\ ~work.retain /\ ~store.poisoned
  /\ Validates(work, IF work.kind = "preparation" THEN [src EXCEPT !.group = FALSE] ELSE src)

\* Drop of a candidate or of an armed PreparationStage
Drop(d, work) ==
  IF work = None THEN d ELSE IF work.retain THEN d ELSE DiscardPrepared(d, work.gen)

-----------------------------------------------------------------------------
(* Control *)

Usable == ~store.poisoned /\ ~control.failed
Exhausted(c) == c.failures >= MaxOperationFailures

\* Control::submit: every commit publishes its identity and debt, the data view
\* is captured only when someone needs it
Submit(c, s) ==
  LET finished == c.group /\ ~s.group
      moved == s.gen # c.generation
      changed == Identity(Captured(s)) # Identity(c.last)
      capture == \/ c.snapshot \/ moved \/ finished \/ c.publication
                 \/ c.latest = None \/ Debt(c.latest) = 0
      take == (changed /\ capture) \/ finished \/ c.snapshot
  IN [c EXCEPT !.group = s.group,
               !.generation = s.gen,
               !.failures = IF moved THEN 0 ELSE @,
               !.snapshot = @ /\ ~take,
               !.latest = IF take THEN Captured(s) ELSE @,
               !.last = Captured(s)]

\* adopt_selected_checkpoint accepts the handoff
Adoptable ==
  control.selected # None =>
    /\ Usable /\ ~store.group
    /\ Identity(Captured(store)) = Identity(control.selected.expected)
    /\ control.selected.gen > store.gen
    /\ control.selected.epoch = store.epoch

\* Control::adopt: the store serves the published generation
AdoptedStore ==
  IF control.selected = None THEN store
  ELSE [store EXCEPT !.gen = control.selected.gen, !.base = control.selected.base,
                     !.epoch = control.selected.epoch, !.named = TRUE]

AdoptedControl ==
  IF control.selected = None THEN control
  ELSE [control EXCEPT !.selected = None, !.phase = "Retiring",
                       !.retired = [gen |-> control.selected.gen, previous |-> store.gen]]

PressurePending == control.latest # None /\ Debt(control.last) >= SoftDebt
NeedsHeadroom == Debt(control.last) >= HeadroomDebt
NeedsCapacity == Debt(control.last) >= CapacityDebt

\* The waits of wait_frontend that have a deadline
WaitsForCapacity ==
  /\ control.phase \in {"Preparing", "Discarding", "Releasing"}
  /\ ~control.group /\ NeedsCapacity

\* Mutant: the sequence of a publication does not hold writers back
UnfencedPublication ==
  \/ control.publication /\ ~control.group
  \/ control.phase = "Draining" /\ ~control.group
  \/ WaitsForCapacity
  \/ /\ control.phase = "Retiring" /\ ~control.group
     /\ (control.retired = None \/ ~front.deferred)
     /\ PressurePending /\ NeedsHeadroom
  \/ /\ control.phase = "Idle" /\ ~control.failed /\ ~control.suspended /\ ~control.group
     /\ ~Exhausted(control) /\ ~front.attempted
     /\ PressurePending /\ NeedsHeadroom

\* Mutant: a writer under pressure is not released by the attempt it asked for
FencedUntilRelieved ==
  \/ control.phase = "Finalizing"
  \/ control.publication /\ ~control.group
  \/ control.phase = "Draining" /\ ~control.group
  \/ WaitsForCapacity
  \/ /\ control.phase = "Retiring" /\ ~control.group
     /\ PressurePending /\ NeedsHeadroom
  \/ /\ control.phase = "Idle" /\ ~control.failed /\ ~control.suspended /\ ~control.group
     /\ PressurePending /\ NeedsHeadroom

\* must_fence of wait_frontend.  The timed backoff while preparing may end at
\* any moment, so it holds nobody back.
MustFence ==
  \/ control.phase = "Finalizing"
  \/ control.publication /\ ~control.group
  \/ control.phase = "Draining" /\ ~control.group
  \/ WaitsForCapacity
  \/ /\ control.phase = "Retiring" /\ ~control.group
     /\ (control.retired = None \/ ~front.deferred)
     /\ PressurePending /\ NeedsHeadroom
  \/ /\ control.phase = "Idle" /\ ~control.failed /\ ~control.suspended /\ ~control.group
     /\ ~Exhausted(control) /\ ~front.attempted
     /\ PressurePending /\ NeedsHeadroom

-----------------------------------------------------------------------------
(* Initial states: a store just opened, its owner idle *)

NoOwner == [at |-> "loop", src |-> None, work |-> None, kind |-> None,
            pins |-> {}, woken |-> FALSE]
NoManual == [at |-> "idle", src |-> None, work |-> None, pins |-> {}]
NoFront == [op |-> None, attempted |-> FALSE, deferred |-> FALSE]
NoReader == [guard |-> [r \in Readers |-> "none"], pin |-> [r \in Readers |-> None]]

\* Owner::start: it captures the store it serves
Started(s) ==
  [phase |-> "Idle", suspended |-> FALSE, group |-> FALSE, snapshot |-> FALSE,
   latest |-> Captured(s), last |-> Captured(s), generation |-> s.gen, failures |-> 0,
   pending |-> None, publication |-> FALSE, selected |-> None, retired |-> None,
   failed |-> FALSE]

Opened(g, base, epoch, policy) ==
  [poisoned |-> FALSE, gen |-> g, base |-> base, epoch |-> epoch,
   group |-> FALSE, mark |-> 0, named |-> FALSE, policy |-> policy]

Init ==
  /\ disk = [files |-> [g \in Generations |-> IF g = 1 THEN Files(0, 0, 0) ELSE None],
             staging |-> {}, selected |-> 1, lasting |-> 1]
  /\ \E policy \in Policies : store = Opened(1, 0, 0, policy)
  /\ promised = 0
  /\ control = Started(store)
  /\ owner = NoOwner /\ manual = NoManual /\ front = NoFront /\ reader = NoReader
  /\ budget = [denials |-> 0, faults |-> 0, crashes |-> 0]

Disturb(kind, max) ==
  /\ budget[kind] < max /\ budget.denials + budget.faults + budget.crashes < MaxDisturbances
  /\ budget' = [budget EXCEPT ![kind] = @ + 1]
Deny == Disturb("denials", MaxDenials)
Fault == Disturb("faults", MaxFaults)
Crash == Disturb("crashes", MaxCrashes)

\* A fault that poison_on_storage_error sees is an integrity error, after which
\* the store refuses writes, or a plain one
FaultMayPoison == Fault /\ store' \in {store, [store EXCEPT !.poisoned = TRUE]}

-----------------------------------------------------------------------------
(* The foreground: get_mut.  Whoever calls it holds the lock of the commit   *)
(* coordinator: a writer, the leader of a commit group until it has finished *)
(* the group, or an explicit checkpoint that captures or publishes.          *)

CoordinatorFree ==
  /\ front.op = None /\ ~store.group
  /\ manual.at \notin {"discard", "suspended", "waiting"}

NoGuards == \A r \in Readers : reader.guard[r] # "held"

\* The group appended something
GroupWritten == store.mark < store.epoch

\* A caller enters wait_frontend
Call(op) ==
  /\ front' = [NoFront EXCEPT !.op = op]
  /\ UNCHANGED <<disk, store, promised, control, owner, reader, budget>>

CallCommit == CoordinatorFree /\ store.epoch < MaxCommits /\ Call("commit") /\ UNCHANGED manual

CallBegin ==
  /\ CoordinatorFree /\ store.policy = "SyncOnEveryWrite" /\ store.epoch < MaxCommits
  /\ Call("begin") /\ UNCHANGED manual

CallAppend ==
  /\ front.op = None /\ store.group /\ store.epoch < MaxCommits
  /\ Call("append") /\ UNCHANGED manual

CallFinish ==
  /\ front.op = None /\ store.group /\ (EmptyGroups \/ GroupWritten)
  /\ Call("finish") /\ UNCHANGED manual

\* wait_frontend lets op in and get_mut adopts a generation that waits for it
Enter(op) ==
  /\ front.op = op /\ ~MustFence
  /\ Usable /\ Adoptable /\ NoGuards
  /\ front' = NoFront

\* Dropping the guard of get_mut submits the store to the owner
Leave(s) ==
  /\ store' = s
  /\ control' = Submit(AdoptedControl, s)
  /\ owner' = [owner EXCEPT !.woken = TRUE]

\* Mutant: only the log is synchronized
SynchronizeLog(d, s) == d

\* The first synchronized append after an open also synchronizes the directory
Synchronize(d, s) == [d EXCEPT !.lasting = IF s.named THEN @ ELSE d.selected]

\* One commit outside a group
Commit ==
  LET s == AdoptedStore
      durable == s.policy = "SyncOnEveryWrite"
      d == Append(disk, s.gen, durable)
  IN /\ Enter("commit")
     /\ disk' = IF durable THEN Synchronize(d, s) ELSE d
     /\ promised' = IF durable THEN s.epoch + 1 ELSE promised
     /\ Leave([s EXCEPT !.epoch = @ + 1, !.named = @ \/ durable])
     /\ UNCHANGED <<manual, reader, budget>>

\* begin_wal_sync_group
BeginGroup ==
  /\ Enter("begin")
  /\ Leave([AdoptedStore EXCEPT !.group = TRUE, !.mark = AdoptedStore.epoch])
  /\ UNCHANGED <<disk, promised, manual, reader, budget>>

\* A commit of the group
GroupAppend ==
  /\ Enter("append")
  /\ disk' = Append(disk, store.gen, FALSE)
  /\ Leave([store EXCEPT !.epoch = @ + 1])
  /\ UNCHANGED <<promised, manual, reader, budget>>

\* finish_wal_sync_group
FinishGroup ==
  /\ Enter("finish")
  /\ disk' = IF GroupWritten
             THEN Synchronize([disk EXCEPT !.files[store.gen].synced = store.epoch], store)
             ELSE disk
  /\ promised' = IF GroupWritten THEN store.epoch ELSE promised
  /\ Leave([store EXCEPT !.group = FALSE, !.mark = 0, !.named = @ \/ GroupWritten])
  /\ UNCHANGED <<manual, reader, budget>>

\* The flush of the group fails: nobody may write before a reopen, and a parked
\* preparation cannot continue from the new capture
FinishGroupFails ==
  LET parked == control.pending # None /\ control.pending.kind = "preparation"
      s == [store EXCEPT !.group = FALSE, !.mark = 0, !.poisoned = TRUE]
      c == Submit(AdoptedControl, s)
  IN /\ Enter("finish") /\ GroupWritten /\ Fault
     /\ disk' = IF parked THEN Drop(disk, control.pending) ELSE disk
     /\ store' = s
     /\ control' = IF parked THEN [c EXCEPT !.pending = None] ELSE c
     /\ owner' = [owner EXCEPT !.woken = TRUE]
     /\ UNCHANGED <<promised, manual, reader>>

\* An explicit checkpoint that gives up drops its suspension
Unsuspended(c) == [c EXCEPT !.suspended = FALSE]

\* BranchBusy: no progress of the drain within the deadline
CapacityTimeout ==
  /\ front.op # None /\ WaitsForCapacity
  /\ front' = NoFront
  /\ manual' = IF front.op \in {"adopt", "publish"} THEN NoManual ELSE manual
  /\ control' = IF front.op \in {"adopt", "publish"} THEN Unsuspended(control) ELSE control
  /\ UNCHANGED <<disk, store, promised, owner, reader, budget>>

\* A poisoned store or a failed owner: the caller gets an error.  A handoff that
\* the store cannot take fails the owner.
Refuse ==
  LET explicit == front.op \in {"adopt", "publish"}
      c == IF explicit THEN Unsuspended(control) ELSE control
  IN /\ front.op # None /\ ~MustFence /\ ~(Usable /\ Adoptable)
     /\ front' = NoFront
     /\ manual' = IF explicit THEN NoManual ELSE manual
     /\ store' = [store EXCEPT !.poisoned = @ \/ control.selected # None]
     /\ control' = IF c.selected = None THEN c
                   ELSE [c EXCEPT !.selected = None, !.phase = "Idle", !.failed = TRUE]
     /\ UNCHANGED <<disk, promised, owner, reader, budget>>

-----------------------------------------------------------------------------
(* Readers *)

\* runtime.read: the guard, and under it a pin of the generation served
ReadGuard(r) ==
  /\ reader.guard[r] = "none" /\ reader.pin[r] = None
  /\ reader' = [guard |-> [reader.guard EXCEPT ![r] = "held"],
                pin |-> [reader.pin EXCEPT ![r] = store.gen]]
  /\ UNCHANGED <<disk, store, promised, control, owner, manual, front, budget>>

\* Drop of RuntimeRead: the lock is released before the owner is woken
ReadUnguard(r) ==
  /\ reader.guard[r] = "held"
  /\ reader' = [reader EXCEPT !.guard[r] = "waking"]
  /\ UNCHANGED <<disk, store, promised, control, owner, manual, front, budget>>

\* Mutant: the owner is woken only while it has no handoff to offer
WakeIdle == control.selected = None

\* wake_handoff wakes the owner
Wakes == control.selected # None

WakeHandoff(r) ==
  /\ reader.guard[r] = "waking"
  /\ reader' = [reader EXCEPT !.guard[r] = "none"]
  /\ owner' = [owner EXCEPT !.woken = @ \/ Wakes]
  /\ UNCHANGED <<disk, store, promised, control, manual, front, budget>>

\* A read transaction ends
Unpin(r) ==
  /\ reader.guard[r] = "none" /\ reader.pin[r] # None
  /\ reader' = [reader EXCEPT !.pin[r] = None]
  /\ UNCHANGED <<disk, store, promised, control, owner, manual, front, budget>>

\* try_adopt_read_handoff: a reader that finds the coordinator free adopts the
\* generation.  Nothing is submitted to the owner.
AdoptForRead ==
  /\ CoordinatorFree /\ NoGuards
  /\ control.selected # None /\ Usable /\ Adoptable
  /\ store' = AdoptedStore
  /\ control' = AdoptedControl
  /\ owner' = [owner EXCEPT !.woken = TRUE]
  /\ UNCHANGED <<disk, promised, manual, front, reader, budget>>

-----------------------------------------------------------------------------
(* Explicit checkpoints: ConcurrentDatabase::checkpoint *)

\* Mutant: parked private work survives the suspension
SuspendKeeping ==
  /\ manual.at = "idle" /\ CoordinatorFree /\ Usable
  /\ control' = [control EXCEPT !.suspended = TRUE]
  /\ manual' = [NoManual EXCEPT !.at = "suspended"]
  /\ owner' = [owner EXCEPT !.woken = TRUE]
  /\ UNCHANGED <<disk, store, promised, front, reader, budget>>

\* Control::suspend takes parked work away; its destruction keeps the phase busy
Suspend ==
  LET parked == control.pending
  IN /\ manual.at = "idle" /\ CoordinatorFree /\ Usable
     /\ control' = [control EXCEPT !.suspended = TRUE, !.pending = None,
                                   !.phase = IF parked # None THEN "Discarding" ELSE @]
     /\ manual' = [NoManual EXCEPT !.at = IF parked # None THEN "discard" ELSE "suspended",
                                   !.work = parked]
     /\ owner' = [owner EXCEPT !.woken = TRUE]
     /\ UNCHANGED <<disk, store, promised, front, reader, budget>>

\* The parked work is gone and the phase idle again
SuspendDiscards ==
  /\ manual.at = "discard"
  /\ disk' = Drop(disk, manual.work)
  /\ control' = [control EXCEPT !.phase = "Idle"]
  /\ manual' = [manual EXCEPT !.at = "suspended", !.work = None]
  /\ owner' = [owner EXCEPT !.woken = TRUE]
  /\ UNCHANGED <<store, promised, front, reader, budget>>

\* suspend_automatic_checkpoint adopts what was published meanwhile
CallAdopt == manual.at = "suspended" /\ front.op = None /\ Call("adopt") /\ UNCHANGED manual

AdoptSuspended ==
  /\ Enter("adopt")
  /\ Leave(AdoptedStore)
  /\ manual' = [manual EXCEPT !.at = "waiting"]
  /\ UNCHANGED <<disk, promised, reader, budget>>

\* Mutant: the checkpoint does not wait for the owner
WaitNothing == ~control.failed

\* Suspension::wait_idle
WaitIdle == control.phase = "Idle"

\* checkpoint_source: the capture, after which the coordinator is free again
CaptureSource ==
  /\ manual.at = "waiting" /\ WaitIdle
  /\ manual' = [manual EXCEPT !.at = "captured", !.src = Captured(store)]
  /\ UNCHANGED <<disk, store, promised, control, owner, front, reader, budget>>

\* prepare: a whole generation, its log empty
PrepareSource ==
  /\ manual.at = "captured"
  /\ \E g \in NextGenerations(manual.src) :
       /\ disk' = [disk EXCEPT !.staging = @ \cup {g},
                               !.files[g] = Files(manual.src.epoch, manual.src.epoch,
                                                  manual.src.epoch)]
       /\ manual' = [manual EXCEPT !.at = "prepared", !.work = Work("prepared", manual.src, g)]
  /\ UNCHANGED <<store, promised, control, owner, front, reader, budget>>

\* The preparation fails, and drops what it staged and its suspension
PrepareSourceFails ==
  /\ manual.at = "captured"
  /\ \/ FaultMayPoison
     \/ NextGenerations(manual.src) = {} /\ UNCHANGED <<store, budget>>
  /\ manual' = NoManual
  /\ control' = Unsuspended(control)
  /\ disk' = IF NextGenerations(manual.src) = {} THEN disk
             ELSE DiscardPrepared(disk, CHOOSE g \in NextGenerations(manual.src) : TRUE)
  /\ UNCHANGED <<promised, owner, front, reader>>

PinnedGenerations == {reader.pin[r] : r \in Readers} \ {None}

\* publish_prepared_checkpoint reads the pins before it waits for the foreground
CallPublish ==
  /\ manual.at = "prepared" /\ front.op = None /\ ~store.group
  /\ manual' = [manual EXCEPT !.pins = PinnedGenerations]
  /\ Call("publish")

\* Mutant: the prepared generation is published whatever was committed since
AnySource == manual.work.epoch <= store.epoch

\* publish_prepared_checkpoint_with_reclamation_inner: the source is unchanged
SourceUnchanged == Identity(Captured(store)) = Identity(manual.src)

\* What ends an explicit publication
Published(s) ==
  /\ store' = s
  /\ control' = Submit(Unsuspended(control), s)
  /\ owner' = [owner EXCEPT !.woken = TRUE]
  /\ manual' = NoManual
  /\ UNCHANGED reader

\* "checkpoint source changed before publication": the generation is discarded
PublishChanged ==
  /\ Enter("publish") /\ ~SourceUnchanged
  /\ disk' = DiscardPrepared(disk, manual.work.gen)
  /\ Published(store)
  /\ UNCHANGED <<promised, budget>>

\* adopt_checkpoint_manifest: the store appends to the log of the new generation
RotatedStore ==
  [store EXCEPT !.gen = manual.work.gen, !.base = manual.work.base,
                !.epoch = manual.work.epoch, !.named = TRUE]

Publish ==
  LET g == manual.work.gen
  IN /\ Enter("publish") /\ SourceUnchanged
     /\ disk' = Reclaim(Select(disk, g, TRUE), g, manual.src.gen, manual.pins)
     /\ promised' = manual.work.epoch
     /\ Published(RotatedStore)
     /\ UNCHANGED budget

\* The manifest is durable and the log rotated, but the published files cannot be
\* loaded: the caller gets an error and nothing is reclaimed
PublishAdoptionFails ==
  /\ Enter("publish") /\ SourceUnchanged /\ Fault
  /\ disk' = Select(disk, manual.work.gen, TRUE)
  /\ \E integrity \in BOOLEAN : Published([RotatedStore EXCEPT !.poisoned = integrity])
  /\ UNCHANGED promised

\* The sidecars cannot be replaced: the generation is discarded
PublishSidecarsFail ==
  /\ Enter("publish") /\ SourceUnchanged /\ Fault
  /\ disk' = DiscardPrepared(disk, manual.work.gen)
  /\ Published(store)
  /\ UNCHANGED promised

\* The manifest cannot be replaced: the files of the generation stay behind.  Or
\* it was renamed and the directory cannot be synchronized: also a plain storage
\* error, after which the store goes on with the old generation.
PublishManifestFails ==
  LET kept == [disk EXCEPT !.staging = @ \ {manual.work.gen}]
      renamed == Select(disk, manual.work.gen, FALSE)
  IN /\ Enter("publish") /\ SourceUnchanged /\ Fault
     /\ disk' \in IF DirectBarrierFaults THEN {kept, renamed} ELSE {kept}
     /\ Published(store)
     /\ UNCHANGED promised

-----------------------------------------------------------------------------
(* The automatic owner: run.  owner.at is where the thread is.               *)

At(place) == owner.at = place
Looping == At("loop") /\ ~control.failed

\* Handoff: the foreground is adopted on the spot unless someone borrows it.
\* The thread parks until a wake-up that follows its attempt.
OfferHandoff ==
  /\ Looping /\ control.phase = "Handoff"
  /\ IF ~NoGuards
     THEN owner' = [owner EXCEPT !.at = "parked", !.woken = FALSE]
          /\ UNCHANGED <<store, control>>
     ELSE IF Adoptable
     THEN Leave(AdoptedStore)
     ELSE /\ store' = [store EXCEPT !.poisoned = TRUE]
          /\ control' = [control EXCEPT !.selected = None, !.phase = "Idle", !.failed = TRUE]
          /\ UNCHANGED owner
  /\ UNCHANGED <<disk, promised, manual, front, reader, budget>>

Unpark ==
  /\ At("parked") /\ owner.woken
  /\ owner' = [owner EXCEPT !.at = "loop"]
  /\ UNCHANGED <<disk, store, promised, control, manual, front, reader, budget>>

\* Retirement of the generation that was replaced.  The scope is the caller's
\* while someone has suspended the owner.
TakeRetired ==
  /\ Looping /\ control.phase = "Retiring" /\ control.retired # None
  /\ owner' = [owner EXCEPT !.at = "retire", !.work = control.retired,
                            !.kind = IF control.suspended THEN "caller" ELSE "background"]
  /\ control' = [control EXCEPT !.retired = None]
  /\ UNCHANGED <<disk, store, promised, manual, front, reader, budget>>

\* RetirementAdmission::Deferred also releases a writer that waits for the cleanup
DeferRetirement ==
  /\ At("retire") /\ owner.kind = "background" /\ Deny
  /\ control' = [control EXCEPT !.retired = owner.work]
  /\ owner' = [owner EXCEPT !.at = "loop", !.work = None, !.kind = None]
  /\ front' = [front EXCEPT !.deferred = front.op # None]
  /\ UNCHANGED <<disk, store, promised, manual, reader>>

\* Mutant: nobody's pin is respected
NoPins == {}

\* reclaim_retired_generations reads the pins,
Pins == PinnedGenerations

GrantRetirement ==
  /\ At("retire")
  /\ owner' = [owner EXCEPT !.at = "reclaim", !.pins = Pins]
  /\ UNCHANGED <<disk, store, promised, control, manual, front, reader, budget>>

\* and removes the files without the lock of the pins
ReclaimRetired ==
  /\ At("reclaim")
  /\ disk' = Reclaim(disk, owner.work.gen, owner.work.previous, owner.pins)
  /\ control' = [control EXCEPT !.phase = "Releasing"]
  /\ owner' = [owner EXCEPT !.at = "release", !.work = None, !.kind = None, !.pins = {}]
  /\ UNCHANGED <<store, promised, manual, front, reader, budget>>

ReleaseRetired ==
  /\ At("release")
  /\ control' = [control EXCEPT !.phase = "Idle"]
  /\ owner' = [owner EXCEPT !.at = "loop"]
  /\ UNCHANGED <<disk, store, promised, manual, front, reader, budget>>

\* Something is due: pressure, age, or private work that was parked
StartsAttempt ==
  /\ Looping /\ control.phase = "Idle"
  /\ ~control.suspended /\ ~control.group /\ ~Exhausted(control)
  /\ \/ control.latest # None /\ (Debt(control.latest) > 0 \/ Debt(control.last) >= SoftDebt)
     \/ control.pending # None

SourceIsCurrent == Identity(control.latest) = Identity(control.last)

\* refresh_source captures the foreground again, or finds it borrowed
RefreshSource ==
  /\ StartsAttempt /\ ~SourceIsCurrent
  /\ \/ /\ control' = Submit([control EXCEPT !.snapshot = TRUE], store)
        /\ UNCHANGED <<front, budget>>
     \/ /\ Deny
        /\ control' = [control EXCEPT !.snapshot = TRUE]
        /\ front' = [front EXCEPT !.attempted = front.op # None]
  /\ UNCHANGED <<disk, store, promised, owner, manual, reader>>

\* An attempt starts, which releases a writer that asked for one
StartAttempt ==
  /\ StartsAttempt /\ SourceIsCurrent
  /\ control' = [control EXCEPT !.phase = "Preparing", !.latest = None, !.pending = None]
  /\ owner' = [owner EXCEPT !.at = "prepare", !.src = control.latest, !.work = control.pending]
  /\ front' = [front EXCEPT !.attempted = front.op # None]
  /\ UNCHANGED <<disk, store, promised, manual, reader, budget>>

\* A parked candidate that still continues its source
ContinueCandidate ==
  /\ At("prepare") /\ owner.work # None /\ owner.work.kind = "candidate"
  /\ IF CanContinueFrom(owner.work, owner.src)
     THEN disk' = disk /\ owner' = [owner EXCEPT !.at = "resume"]
     ELSE disk' = Drop(disk, owner.work) /\ owner' = [owner EXCEPT !.work = None]
  /\ UNCHANGED <<store, promised, control, manual, front, reader, budget>>

\* prepare_checkpoint_staging
StageGeneration ==
  /\ At("prepare") /\ owner.work = None /\ ~store.poisoned
  /\ \E g \in NextGenerations(owner.src) :
       /\ disk' = [disk EXCEPT !.staging = @ \cup {g}]
       /\ owner' = [owner EXCEPT !.work = Work("preparation", owner.src, g)]
  /\ UNCHANGED <<store, promised, control, manual, front, reader, budget>>

\* The artifacts, the checkpoint file and the empty log of the generation
PrepareCandidate ==
  /\ At("prepare") /\ owner.work # None /\ owner.work.kind = "preparation"
  /\ disk' = [disk EXCEPT !.files[owner.work.gen] =
                Files(owner.work.base, owner.work.base, owner.work.base)]
  /\ owner' = [owner EXCEPT !.at = "resume", !.work.kind = "candidate"]
  /\ UNCHANGED <<store, promised, control, manual, front, reader, budget>>

\* Denied, cancelled or failed.  A preparation that was only denied is parked
\* unless the owner is suspended or the source it would continue has moved on.
PreparationFails ==
  LET work == owner.work
      frame == IF work # None /\ work.kind = "preparation" THEN work ELSE None
      source == IF control.latest = None THEN owner.src ELSE control.latest
  IN
  /\ At("prepare") /\ (work = None \/ frame # None)
  /\ \E failed \in BOOLEAN :
       LET keep == /\ frame # None /\ ~control.suspended /\ ~failed
                   /\ control.latest # None => CanContinueFrom(frame, control.latest)
       IN /\ IF failed THEN FaultMayPoison
             ELSE /\ UNCHANGED store
                  /\ \/ Deny
                     \/ control.suspended /\ UNCHANGED budget
                     \/ /\ work = None /\ (store.poisoned \/ NextGenerations(owner.src) = {})
                        /\ UNCHANGED budget
          /\ control' = [control EXCEPT
               !.failures = IF failed THEN @ + 1 ELSE @,
               !.latest = source,
               !.pending = IF keep THEN frame ELSE None,
               !.phase = IF keep \/ frame = None THEN "Idle" ELSE "Discarding"]
          /\ owner' = IF keep \/ frame = None
                      THEN [owner EXCEPT !.at = "loop", !.src = None, !.work = None]
                      ELSE [owner EXCEPT !.at = "discard"]
  /\ UNCHANGED <<disk, promised, manual, front, reader>>

\* The attempt is over without a publication: its request to publish is dropped
Stop(c, operation) ==
  [c EXCEPT !.publication = FALSE, !.failures = IF operation THEN @ + 1 ELSE @]

\* Mutant: the attempt does not see that it is suspended
ResumeDenied ==
  /\ At("resume") /\ Deny
  /\ control' = Stop(control, FALSE)
  /\ owner' = [owner EXCEPT !.at = "fail"]
  /\ UNCHANGED <<disk, store, promised, manual, front, reader>>

\* An attempt that is suspended or denied execution
ResumeStops ==
  /\ At("resume")
  /\ Deny \/ (control.suspended /\ UNCHANGED budget)
  /\ control' = Stop(control, FALSE)
  /\ owner' = [owner EXCEPT !.at = "fail"]
  /\ UNCHANGED <<disk, store, promised, manual, front, reader>>

\* The newest capture becomes the source, unless a group is open
Resume ==
  LET newer == ~control.group /\ control.latest # None
  IN /\ At("resume") /\ ~control.suspended
     /\ owner' = [owner EXCEPT !.at = "replay", !.src = IF newer THEN control.latest ELSE @]
     /\ control' = [control EXCEPT !.latest = IF newer THEN None ELSE @]
     /\ UNCHANGED <<disk, store, promised, manual, front, reader, budget>>

\* catch_up and finish_catch_up: the suffix of the source's log is copied,
\* synchronized and applied while writers go on
Replay ==
  /\ At("replay") /\ ~store.poisoned /\ Validates(owner.work, owner.src)
  /\ disk' = [disk EXCEPT !.files[owner.work.gen].tail = owner.src.epoch,
                          !.files[owner.work.gen].synced = owner.src.epoch]
  /\ owner' = [owner EXCEPT !.at = "gate", !.work.epoch = owner.src.epoch]
  /\ UNCHANGED <<store, promised, control, manual, front, reader, budget>>

\* It stops after a complete record: denied or cancelled, or a failure that may
\* leave the private state half applied or find the log of the source damaged
ReplayStops ==
  /\ At("replay") /\ ~store.poisoned /\ Validates(owner.work, owner.src)
  /\ \E epoch \in owner.work.epoch..owner.src.epoch, operation, failed \in BOOLEAN :
       /\ failed => operation
       /\ IF operation THEN FaultMayPoison
          ELSE UNCHANGED store /\ (Deny \/ (control.suspended /\ UNCHANGED budget))
       /\ disk' = [disk EXCEPT !.files[owner.work.gen].tail = epoch]
       /\ owner' = [owner EXCEPT !.at = "fail", !.work.epoch = epoch, !.work.failed = failed]
       /\ control' = Stop(control, operation)
  /\ UNCHANGED <<promised, manual, front, reader>>

\* A source the candidate cannot continue from is a failed operation
ReplayRefused ==
  /\ At("replay") /\ (store.poisoned \/ ~Validates(owner.work, owner.src))
  /\ control' = Stop(control, TRUE)
  /\ owner' = [owner EXCEPT !.at = "fail"]
  /\ UNCHANGED <<disk, store, promised, manual, front, reader, budget>>

\* The writer gate: the sealed candidate is compared with the foreground
Behind ==
  /\ Identity(control.last) # Identity(owner.src)
  /\ Identity(control.latest) # Identity(control.last)
Advanced == control.latest # None /\ Identity(control.latest) # Identity(owner.src)

\* Someone holds the gate: from now on fresh writers are held back
GateContended ==
  /\ At("gate") /\ ~control.publication /\ Deny
  /\ control' = [control EXCEPT !.publication = TRUE]
  /\ UNCHANGED <<disk, store, promised, owner, manual, front, reader>>

\* Commits that were not captured: the source is captured again, or will be by
\* the writer that borrows the foreground
GateBehind ==
  LET asked == [control EXCEPT !.publication = TRUE, !.snapshot = TRUE]
  IN /\ At("gate") /\ Behind
     /\ \/ control' = Submit(asked, store) /\ UNCHANGED budget
        \/ control' = asked /\ Deny
     /\ owner' = [owner EXCEPT !.at = "resume"]
     /\ UNCHANGED <<disk, store, promised, manual, front, reader>>

\* An open group is waited for
GateDrains ==
  /\ At("gate") /\ ~Behind /\ control.group
  /\ control' = [control EXCEPT !.phase = "Draining"]
  /\ owner' = [owner EXCEPT !.at = "drain"]
  /\ UNCHANGED <<disk, store, promised, manual, front, reader, budget>>

Drained ==
  /\ At("drain") /\ (~control.group \/ control.suspended)
  /\ control' = [control EXCEPT !.phase = IF control.publication THEN "Draining" ELSE "Preparing"]
  /\ owner' = [owner EXCEPT !.at = "resume"]
  /\ UNCHANGED <<disk, store, promised, manual, front, reader, budget>>

\* Suspended, or the publication is not admitted
GateStops ==
  /\ At("gate") /\ ~Behind /\ ~control.group
  /\ Deny \/ (control.suspended /\ UNCHANGED budget)
  /\ control' = [Stop(control, FALSE) EXCEPT !.phase = "Draining"]
  /\ owner' = [owner EXCEPT !.at = "fail"]
  /\ UNCHANGED <<disk, store, promised, manual, front, reader>>

\* Commits captured since: another suffix.  A short one is drained behind the gate.
GateAdvances ==
  /\ At("gate") /\ ~Behind /\ ~control.group /\ ~control.suspended /\ Advanced
  /\ \E bounded \in IF control.publication THEN BOOLEAN ELSE {FALSE} :
       control' = [control EXCEPT !.latest = None, !.publication = bounded,
                                  !.phase = IF bounded THEN "Draining" ELSE "Preparing"]
  /\ owner' = [owner EXCEPT !.at = "resume", !.src = control.latest]
  /\ UNCHANGED <<disk, store, promised, manual, front, reader, budget>>

AtPublication ==
  /\ At("gate") /\ ~Behind /\ ~control.group /\ ~control.suspended /\ ~Advanced

\* publish_checkpoint_candidate_deferred_reclamation
PublishCandidate ==
  /\ AtPublication /\ ~store.poisoned
  /\ disk' = Select(disk, owner.work.gen, TRUE)
  /\ promised' = owner.work.epoch
  /\ control' = [Stop(control, FALSE) EXCEPT !.phase = "Finalizing"]
  /\ owner' = [owner EXCEPT !.at = "settle"]
  /\ UNCHANGED <<store, manual, front, reader, budget>>

\* The candidate is refused before anything is published: a poisoned store, or a
\* failure that only the candidate may not survive
PublicationRefused ==
  /\ AtPublication
  /\ IF store.poisoned THEN UNCHANGED budget ELSE Fault
  /\ control' = [Stop(control, TRUE) EXCEPT !.phase = "Finalizing"]
  /\ \E failed \in BOOLEAN : owner' = [owner EXCEPT !.at = "fail", !.work.failed = failed]
  /\ UNCHANGED <<disk, store, promised, manual, front, reader>>

\* Once artifacts are retained, whatever fails, before the rename or after it,
\* makes the publication uncertain: the files stay and the store refuses writes
\* until it is reopened
PublishCandidateFails ==
  /\ AtPublication /\ ~store.poisoned /\ Fault
  /\ disk' \in {disk, Select(disk, owner.work.gen, FALSE)}
  /\ store' = [store EXCEPT !.poisoned = TRUE]
  /\ control' = [Stop(control, TRUE) EXCEPT !.phase = "Finalizing"]
  /\ owner' = [owner EXCEPT !.at = "fail", !.work.failed = TRUE, !.work.retain = TRUE]
  /\ UNCHANGED <<promised, manual, front, reader>>

\* The published store waits for the foreground to adopt it
Settle ==
  /\ At("settle")
  /\ control' = [control EXCEPT !.phase = "Handoff",
       !.selected = [gen |-> owner.work.gen, base |-> owner.work.base,
                     epoch |-> owner.work.epoch, expected |-> owner.src]]
  /\ owner' = [owner EXCEPT !.at = "loop", !.src = None, !.work = None, !.woken = TRUE]
  /\ UNCHANGED <<disk, store, promised, manual, front, reader, budget>>

\* The source goes back unless a newer one arrived
Restored(c) == [c EXCEPT !.latest = IF @ = None THEN owner.src ELSE @]

\* A candidate that can continue is parked, any other is destroyed
Fail ==
  /\ At("fail")
  /\ IF ~Exhausted(control) /\ CanContinueFrom(owner.work, owner.src) /\ ~control.suspended
     THEN /\ control' = [Restored(control) EXCEPT !.pending = owner.work, !.phase = "Idle"]
          /\ owner' = [owner EXCEPT !.at = "loop", !.src = None, !.work = None]
     ELSE /\ control' = [control EXCEPT !.phase = "Discarding"]
          /\ owner' = [owner EXCEPT !.at = "discard"]
  /\ UNCHANGED <<disk, store, promised, manual, front, reader, budget>>

Discard ==
  /\ At("discard")
  /\ disk' = Drop(disk, owner.work)
  /\ control' = [Restored(control) EXCEPT !.phase = "Idle"]
  /\ owner' = [owner EXCEPT !.at = "loop", !.src = None, !.work = None]
  /\ UNCHANGED <<store, promised, manual, front, reader, budget>>

-----------------------------------------------------------------------------
(* A crash of the process or a loss of power, and the next open              *)

\* Open removes the staging directories and the generations above the one the
\* manifest names; it synchronizes the directory only if it removed something.
Restart ==
  /\ Crash
  /\ \E power \in BOOLEAN :
     \E g \in IF power THEN {disk.selected, disk.lasting} ELSE {disk.selected} :
     \E tail \in IF power THEN disk.files[g].synced..disk.files[g].tail
                 ELSE {disk.files[g].tail} :
       LET found == disk.files[g]
           stale == disk.staging # {} \/ \E h \in Generations : h > g /\ disk.files[h] # None
       IN /\ disk' = [files |-> [h \in Generations |->
                                   IF h > g THEN None
                                   ELSE IF h = g THEN Files(found.base, tail,
                                                            IF power THEN tail ELSE found.synced)
                                   ELSE disk.files[h]],
                      staging |-> {}, selected |-> g,
                      lasting |-> IF power \/ stale THEN g ELSE disk.lasting]
          /\ store' = Opened(g, found.base, tail, store.policy)
          /\ control' = Started(Opened(g, found.base, tail, store.policy))
  /\ owner' = NoOwner /\ manual' = NoManual /\ front' = NoFront /\ reader' = NoReader
  /\ UNCHANGED promised

-----------------------------------------------------------------------------
(* The system *)

Served ==
  \/ Commit \/ BeginGroup \/ GroupAppend \/ FinishGroup \/ FinishGroupFails
  \/ AdoptSuspended \/ PublishChanged \/ Publish \/ PublishSidecarsFail
  \/ PublishManifestFails \/ PublishAdoptionFails
  \/ CapacityTimeout \/ Refuse

Leader == CallAppend \/ CallFinish

Foreground == CallCommit \/ CallBegin \/ Leader \/ Served

Reader(r) == ReadGuard(r) \/ ReadUnguard(r) \/ WakeHandoff(r) \/ Unpin(r)

Explicit ==
  \/ Suspend \/ SuspendDiscards \/ CallAdopt \/ CaptureSource
  \/ PrepareSource \/ PrepareSourceFails \/ CallPublish

OwnerStep ==
  \/ OfferHandoff \/ Unpark
  \/ TakeRetired \/ DeferRetirement \/ GrantRetirement \/ ReclaimRetired \/ ReleaseRetired
  \/ RefreshSource \/ StartAttempt
  \/ ContinueCandidate \/ StageGeneration \/ PrepareCandidate \/ PreparationFails
  \/ ResumeStops \/ Resume \/ Replay \/ ReplayStops \/ ReplayRefused
  \/ GateContended \/ GateBehind \/ GateDrains \/ Drained \/ GateStops \/ GateAdvances
  \/ PublishCandidate \/ PublicationRefused \/ PublishCandidateFails
  \/ Settle \/ Fail \/ Discard

Next ==
  \/ Foreground
  \/ \E r \in Readers : Reader(r)
  \/ AdoptForRead
  \/ Explicit
  \/ OwnerStep
  \/ Restart

Spec == Init /\ [][Next]_vars

\* The owner's thread, the leader of an open group and an explicit checkpoint
\* take their next step.  A caller that waits behind readers or behind other
\* holders of the coordinator gets its turn: locks are fair.  A reader returns
\* its guard.
FairSpec ==
  /\ Spec
  /\ WF_vars(OwnerStep) /\ WF_vars(Leader)
  /\ SF_vars(Served)
  /\ WF_vars(SuspendDiscards) /\ WF_vars(CaptureSource)
  /\ WF_vars(PrepareSource \/ PrepareSourceFails)
  /\ SF_vars(CallAdopt) /\ SF_vars(CallPublish)
  /\ \A r \in Readers : WF_vars(ReadUnguard(r)) /\ WF_vars(WakeHandoff(r))

-----------------------------------------------------------------------------
(* Properties *)

\* The works that are nobody's property yet
PrivateWorks ==
  {w \in {control.pending, owner.work, manual.work} :
     w # None /\ "kind" \in DOMAIN w /\ owner.at # "settle" /\ ~w.retain}

Stores ==
  [poisoned : BOOLEAN, gen : Nat, base : Nat, epoch : Nat, group : BOOLEAN, mark : Nat,
   named : BOOLEAN, policy : Policies]

Controls ==
  [phase : Phases, suspended : BOOLEAN, group : BOOLEAN, snapshot : BOOLEAN,
   latest : Sources \cup {None}, last : Sources, generation : Nat, failures : Nat,
   pending : Works \cup {None}, publication : BOOLEAN, selected : Selections \cup {None},
   retired : Retirements \cup {None}, failed : BOOLEAN]

Owners ==
  [at : {"loop", "parked", "retire", "reclaim", "release", "prepare", "resume", "replay",
         "gate", "drain", "settle", "fail", "discard"},
   src : Sources \cup {None}, work : Works \cup Retirements \cup {None},
   kind : {"caller", "background", None}, pins : SUBSET Nat, woken : BOOLEAN]

Manuals ==
  [at : {"idle", "discard", "suspended", "waiting", "captured", "prepared"},
   src : Sources \cup {None}, work : Works \cup {None}, pins : SUBSET Nat]

TypeOK ==
  /\ disk \in [files : [Generations -> Contents \cup {None}],
               staging : SUBSET Generations, selected : Generations, lasting : Generations]
  /\ store \in Stores /\ promised \in Nat
  /\ control \in Controls /\ owner \in Owners /\ manual \in Manuals
  /\ front \in [op : Operations \cup {None}, attempted : BOOLEAN, deferred : BOOLEAN]

\* Where the thread is in run, and the phases it may be seen in
PhasesAt ==
  [loop |-> {"Idle", "Handoff", "Retiring", "Discarding"},
   parked |-> {"Handoff", "Retiring"}, retire |-> {"Retiring"}, reclaim |-> {"Retiring"},
   release |-> {"Releasing"}, prepare |-> {"Preparing"},
   resume |-> {"Preparing", "Draining"}, replay |-> {"Preparing", "Draining"},
   gate |-> {"Preparing", "Draining"}, drain |-> {"Draining"}, settle |-> {"Finalizing"},
   fail |-> {"Preparing", "Draining", "Finalizing"}, discard |-> {"Discarding"}]

\* The phase says who owns what, although the mutex is released between the
\* steps of an attempt: parked work, a selected store and an explicit checkpoint
\* past wait_idle exclude each other and every attempt of the owner.
Ownership ==
  /\ control.phase \in PhasesAt[owner.at]
  /\ control.selected # None <=> control.phase = "Handoff"
  /\ control.suspended <=> manual.at # "idle"
  /\ control.pending # None =>
       control.phase = "Idle" /\ owner.at = "loop" /\ ~control.suspended
  /\ manual.at \in {"captured", "prepared"} => control.phase = "Idle"
  /\ manual.at = "discard" => control.phase = "Discarding" /\ owner.at = "loop"
  /\ control.phase = "Discarding" => manual.at = "discard" \/ owner.at = "discard"

\* Whatever the manifest may name after a power loss opens with every commit
\* that was reported durable: the order of log, rename and directory barrier in
\* publish, publish_checkpoint_candidate and the first synchronized append.
Recoverable ==
  \A g \in {disk.selected, disk.lasting} :
    disk.files[g] # None /\ disk.files[g].synced >= promised

\* A crash of the process loses no commit the foreground applied: the generation
\* the manifest names holds them all, also between publication and handoff.
NothingLeftBehind ==
  ~store.poisoned => disk.files[disk.selected] # None
                     /\ disk.files[disk.selected].tail >= store.epoch

\* The foreground can always take over the generation that was published for
\* it: adopt never fails, so the owner never stops the database.
HandoffAdoptable == Adoptable /\ ~control.failed

\* Files that a reader, the foreground or a catch-up still uses are never
\* reclaimed, although pins are read before the files are removed.
PinnedReadable ==
  \A g \in PinnedGenerations \cup {store.gen}
           \cup (IF owner.at \in {"resume", "replay"} THEN {owner.src.gen} ELSE {}) :
    disk.files[g] # None

\* "A checkpoint candidate must never replace that acknowledged prefix"
\* (durable.rs): private work owns a generation above the one that is served and
\* the one the manifest names, and no two private works own the same.
PrivateGenerations ==
  /\ \A w \in PrivateWorks : w.gen > store.gen /\ w.gen # disk.selected
  /\ \A v, w \in PrivateWorks : v # w => v.gen # w.gen

\* Neither an adoption nor a publication takes a commit away from the foreground
CommitsKept == [][budget'.crashes = budget.crashes => store'.epoch >= store.epoch]_vars

\* wait_frontend and get_mut: a caller is served or refused in the end, whatever
\* the owner is denied and however often it fails
CallersReturn == (front.op # None) ~> (front.op = None)

\* A published generation that no reader's guard stands in the way of is adopted:
\* the wake-up of a guard that is dropped is not lost
HandoffAdopted ==
  (control.selected # None) ~> (control.selected = None \/ ~NoGuards)

\* An explicit checkpoint ends, although it waits for the owner to become idle
ExplicitEnds == (manual.at # "idle") ~> (manual.at = "idle")
=============================================================================
