----------------------------- MODULE GroupCommit -----------------------------
(***************************************************************************)
(* CommitSequencer (src/api/concurrent/coordinator.rs) under the every-    *)
(* write durability policy: committing threads queue their requests, one   *)
(* of them becomes the leader, runs a group of them under the database     *)
(* mutex and shares one WAL barrier; the commit guard then publishes the   *)
(* read view that concurrent readers use.                                  *)
(*                                                                         *)
(* Each request is submitted by a thread of its own.  `stateLock` is the   *)
(* mutex of the coordinator state; the section in which a follower looks   *)
(* for its result and goes to sleep is two steps, since a leader completes *)
(* results without that mutex.  The WAL is the one DurableLog promises.    *)
(***************************************************************************)
EXTENDS DurableLog, Integers, Functions

CONSTANTS
  Requests,     \* commit requests, one per thread
  Readers,      \* read queries, one per thread
  MaxEntries,   \* WalGroupCommitConfig::max_entries
  MaxFaults,    \* bound on failing tasks, barriers and checkpoints
  MaxCrashes,   \* bound on crashes
  Timeouts,     \* whether the liveness check of a waiting thread may fire
  None          \* no thread, no read view

ASSUME GroupCommitAssumption ==
  /\ None \notin Requests \cup Readers
  /\ Requests \cap Readers = {}
  /\ MaxEntries \in Nat \ {0}

VARIABLES
  queue,        \* GroupCommitState.queue
  leaderActive, \* GroupCommitState.leader_active
  stateLock,    \* holder of the state mutex across steps, or None
  notified,     \* sleeping threads that a notify_all has reached
  pc,           \* what each committing thread is doing
  result,       \* QueuedCommit.result
  returned,     \* what execute_grouped returned to the caller
  dbLock,       \* holder of the database mutex, or None
  dbPoisoned,   \* the database mutex was poisoned by a panic
  group,        \* records in DurableStore.wal_sync_group, or -1 for None
  completed,    \* requests the leader dequeued, with their results
  published,    \* published_read: commits in the published view, or None
  publicationFailed,  \* read_publication_failed
  reading,      \* what each reader is doing
  view,         \* commits in the view each reader uses
  faults, crashes

queueVars == <<queue, leaderActive, stateLock, notified>>
dbVars == <<dbLock, dbPoisoned, group>>
readVars == <<reading, view>>
publicationVars == <<published, publicationFailed>>
vars == <<logVars, queueVars, dbVars, publicationVars, readVars, pc, result, returned,
          completed, faults, crashes>>

PCs == {"new",             \* not submitted
        "check",           \* top of the loop of execute_grouped
        "locked",          \* holds the state mutex, looks for its result
        "no_result",       \* holds the state mutex, has none
        "waiting",         \* in Condvar::wait_timeout
        "collect",         \* leader: wait_for_group_commit_peers
        "begin",           \* leader: holds the database, begins the WAL group
        "run",             \* leader: runs tasks
        "finish",          \* leader: WAL barrier
        "drop",            \* leader: CommitGuard::drop
        "fail_front",      \* leader: fail_front_group
        "complete",        \* leader: complete_commit_requests, notify_all
        "release",         \* leader: release_leader
        "release_notify",  \* leader: notify_all of release_leader
        "done"}

Outcomes == {"ok",      \* Ok, with a WAL record
             "noop",    \* Ok without one
             "error"}   \* Err

\* A dequeued request and the outcome of its task
Entry == [req : Requests, res : Outcomes]

Usable == status = "open"

Goto(r, step) == pc' = [pc EXCEPT ![r] = step]

Init ==
  /\ LogInit
  /\ queue = <<>> /\ leaderActive = FALSE /\ stateLock = None /\ notified = {}
  /\ pc = [r \in Requests |-> "new"]
  /\ result = [r \in Requests |-> "none"]
  /\ returned = [r \in Requests |-> "none"]
  /\ dbLock = None /\ dbPoisoned = FALSE /\ group = -1
  /\ completed = <<>>
  /\ published = None /\ publicationFailed = FALSE
  /\ reading = [x \in Readers |-> "idle"]
  /\ view = [x \in Readers |-> <<>>]
  /\ faults = 0 /\ crashes = 0

Waiting == {r \in Requests : pc[r] = "waiting"}

-----------------------------------------------------------------------------
(* execute_grouped_with_admission *)

\* Enqueue the request and notify, all under the state mutex
Submit(r) ==
  /\ status # "closed"
  /\ pc[r] = "new" /\ stateLock = None
  /\ queue' = Append(queue, r)
  /\ notified' = Waiting
  /\ Goto(r, "check")
  /\ UNCHANGED <<logVars, leaderActive, stateLock, result, returned, dbVars, completed,
                 publicationVars, readVars, faults, crashes>>

\* QueuedCommit::take_result finds a result, before or after taking the state mutex
TakeResult(r) ==
  /\ pc[r] \in {"check", "locked"}
  /\ result[r] # "none"
  /\ returned' = [returned EXCEPT ![r] = result[r]]
  /\ result' = [result EXCEPT ![r] = "none"]
  /\ Goto(r, "done")
  /\ stateLock' = IF pc[r] = "locked" THEN None ELSE stateLock
  /\ UNCHANGED <<logVars, queue, leaderActive, notified, dbVars, completed,
                 publicationVars, readVars, faults, crashes>>

\* No result: take the state mutex to look again
LockState(r) ==
  /\ pc[r] = "check" /\ result[r] = "none" /\ stateLock = None
  /\ stateLock' = r
  /\ Goto(r, "locked")
  /\ UNCHANGED <<logVars, queue, leaderActive, notified, result, returned, dbVars, completed,
                 publicationVars, readVars, faults, crashes>>

FindNoResult(r) ==
  /\ pc[r] = "locked" /\ result[r] = "none"
  /\ Goto(r, "no_result")
  /\ UNCHANGED <<logVars, queueVars, result, returned, dbVars, completed,
                 publicationVars, readVars, faults, crashes>>

\* Mutant: leader_active is not looked at
CanLeadIfFirst(r) == queue # <<>> /\ Head(queue) = r

CanLead(r) == ~leaderActive /\ queue # <<>> /\ Head(queue) = r

Lead(r) ==
  /\ pc[r] = "no_result" /\ CanLead(r)
  /\ leaderActive' = TRUE
  /\ stateLock' = None
  /\ Goto(r, "collect")
  /\ UNCHANGED <<logVars, queue, notified, result, returned, dbVars, completed,
                 publicationVars, readVars, faults, crashes>>

Sleep(r) ==
  /\ pc[r] = "no_result" /\ ~CanLead(r)
  /\ stateLock' = None
  /\ Goto(r, "waiting")
  /\ UNCHANGED <<logVars, queue, leaderActive, notified, result, returned, dbVars, completed,
                 publicationVars, readVars, faults, crashes>>

Wake(r) ==
  /\ pc[r] = "waiting" /\ r \in notified /\ stateLock = None
  /\ notified' = notified \ {r}
  /\ Goto(r, "check")
  /\ UNCHANGED <<logVars, queue, leaderActive, stateLock, result, returned, dbVars, completed,
                 publicationVars, readVars, faults, crashes>>

\* assert_commit_is_accounted_for
AccountedFor(r) ==
  leaderActive \/ r \in Range(queue) \/ result[r] # "none"

\* wait_timeout timed out: an unaccounted request fails, others look again
LivenessCheck(r) ==
  /\ Timeouts
  /\ pc[r] = "waiting" /\ stateLock = None
  /\ notified' = notified \ {r}
  /\ IF AccountedFor(r)
     THEN Goto(r, "check") /\ UNCHANGED returned
     ELSE Goto(r, "done") /\ returned' = [returned EXCEPT ![r] = "inconsistent"]
  /\ UNCHANGED <<logVars, queue, leaderActive, stateLock, result, dbVars, completed,
                 publicationVars, readVars, faults, crashes>>

-----------------------------------------------------------------------------
(* run_group_commit, by the leader *)

Fault == faults < MaxFaults /\ faults' = faults + 1
NoFault == UNCHANGED faults

\* wait_for_group_commit_peers returns, after any delay; then take the database
LockDatabase(r) ==
  /\ pc[r] = "collect" /\ dbLock = None
  /\ IF dbPoisoned
     THEN Goto(r, "fail_front") /\ UNCHANGED dbLock
     ELSE Goto(r, "begin") /\ dbLock' = r
  /\ UNCHANGED <<logVars, queueVars, result, returned, dbPoisoned, group, completed,
                 publicationVars, readVars, faults, crashes>>

BeginGroup(r) ==
  /\ pc[r] = "begin" /\ group = -1
  /\ group' = 0
  /\ Goto(r, "run")
  /\ UNCHANGED <<logVars, queueVars, result, returned, dbLock, dbPoisoned, completed,
                 publicationVars, readVars, faults, crashes>>

\* Mutant: an unfinished WAL group does not stop the publication
PublishUnfinished ==
  IF ~Usable
  THEN publicationFailed' = TRUE /\ UNCHANGED <<published, faults>>
  ELSE /\ published' = IF publicationFailed THEN published ELSE log
       /\ UNCHANGED <<publicationFailed, faults>>

\* Mutant: only the first view is published
PublishOnce ==
  IF group >= 0 \/ ~Usable
  THEN publicationFailed' = TRUE /\ UNCHANGED <<published, faults>>
  ELSE /\ published' = IF published = None THEN log ELSE published
       /\ UNCHANGED <<publicationFailed, faults>>

\* CommitGuard::drop without a panic: publish what is in memory, unless the WAL
\* group is unfinished, the store is poisoned or publication failed before
PublishView ==
  IF group >= 0 \/ ~Usable
  THEN publicationFailed' = TRUE /\ UNCHANGED <<published, faults>>
  ELSE \/ /\ published' = IF publicationFailed THEN published ELSE log
          /\ UNCHANGED <<publicationFailed, faults>>
       \/ /\ Fault       \* the capture fails
          /\ publicationFailed' = TRUE
          /\ UNCHANGED published

\* begin_wal_sync_group fails: a group is still active, or the runtime is not
\* admitted; the guard is dropped on the way out
BeginRefused(r) ==
  /\ pc[r] = "begin"
  /\ group >= 0 \/ faults < MaxFaults
  /\ PublishView
  /\ dbLock' = None
  /\ Goto(r, "fail_front")
  /\ UNCHANGED <<logVars, queueVars, result, returned, dbPoisoned, group, completed,
                 readVars, crashes>>

\* The effect of a commit task on the WAL, and the outcome it returns.  On a
\* poisoned store every task fails.
TaskEffect(req, outcome) ==
  \/ /\ outcome = "ok" /\ LogAppend(req) /\ NoFault
  \/ /\ outcome = "noop" /\ Usable /\ UNCHANGED logVars /\ NoFault
  \/ /\ outcome = "error" /\ UNCHANGED logVars /\ NoFault
  \/ /\ outcome = "error" /\ LogDoubt(req) /\ Fault
  \/ /\ outcome = "error" /\ LogAppendPoisoned(req) /\ Fault

\* Dequeue one request and run its task.  The schema-checkpoint and byte limits
\* may stop the collection after any task.
RunTask(r) ==
  /\ pc[r] = "run" /\ stateLock = None
  /\ queue # <<>> /\ Len(completed) < MaxEntries
  /\ queue' = Tail(queue)
  /\ \E outcome \in Outcomes :
       /\ TaskEffect(Head(queue), outcome)
       /\ completed' = Append(completed, [req |-> Head(queue), res |-> outcome])
  /\ group' = group + (Len(log') - Len(log))
  /\ Goto(r, "run") \/ Goto(r, "finish")
  /\ UNCHANGED <<leaderActive, stateLock, notified, result, returned, dbLock, dbPoisoned,
                 publicationVars, readVars, crashes>>

\* The group is full, or the queue is empty
EndRun(r) ==
  /\ pc[r] = "run"
  /\ \/ Len(completed) >= MaxEntries
     \/ stateLock = None /\ queue = <<>>
  /\ Goto(r, "finish")
  /\ UNCHANGED <<logVars, queueVars, result, returned, dbVars, completed,
                 publicationVars, readVars, faults, crashes>>

Failed(entries) == [i \in DOMAIN entries |-> [req |-> entries[i].req, res |-> "error"]]

\* Mutant: the request whose task panics was not recorded before it ran
TaskPanicsUnrecorded(r) ==
  /\ pc[r] = "run" /\ stateLock = None
  /\ queue # <<>> /\ Len(completed) < MaxEntries
  /\ Fault
  /\ queue' = Tail(queue)
  /\ UNCHANGED logVars \/ LogAppend(Head(queue))
  /\ completed' = Failed(completed)
  /\ publicationFailed' = TRUE
  /\ dbPoisoned' = TRUE
  /\ dbLock' = None
  /\ Goto(r, "complete")
  /\ UNCHANGED <<leaderActive, stateLock, notified, result, returned, group, published,
                 readVars, crashes>>

\* A task panics, before or after its append: the guard is dropped unwinding, the
\* database mutex is poisoned and every dequeued request fails
TaskPanics(r) ==
  /\ pc[r] = "run" /\ stateLock = None
  /\ queue # <<>> /\ Len(completed) < MaxEntries
  /\ Fault
  /\ queue' = Tail(queue)
  /\ UNCHANGED logVars \/ LogAppend(Head(queue))
  /\ completed' = Failed(Append(completed, [req |-> Head(queue), res |-> "error"]))
  /\ publicationFailed' = TRUE
  /\ dbPoisoned' = TRUE
  /\ dbLock' = None
  /\ Goto(r, "complete")
  /\ UNCHANGED <<leaderActive, stateLock, notified, result, returned, group, published,
                 readVars, crashes>>

\* finish_wal_sync_group: an empty group needs no barrier
FinishGroup(r) ==
  /\ pc[r] = "finish"
  /\ IF group = 0 THEN UNCHANGED logVars ELSE LogBarrier
  /\ group' = -1
  /\ Goto(r, "drop")
  /\ UNCHANGED <<queueVars, result, returned, dbLock, dbPoisoned, completed,
                 publicationVars, readVars, faults, crashes>>

\* Mutant: results recorded before the barrier stand although it failed
BarrierFailsUnreported(r) ==
  /\ pc[r] = "finish" /\ group > 0
  /\ IF status = "poisoned" THEN NoFault ELSE Fault
  /\ LogPoison
  /\ group' = -1
  /\ Goto(r, "drop")
  /\ UNCHANGED <<queueVars, result, returned, dbLock, dbPoisoned, completed,
                 publicationVars, readVars, crashes>>

\* The barrier fails: the store is poisoned and every success becomes an error
BarrierFails(r) ==
  /\ pc[r] = "finish" /\ group > 0
  /\ IF status = "poisoned" THEN NoFault ELSE Fault
  /\ LogPoison
  /\ group' = -1
  /\ completed' = Failed(completed)
  /\ Goto(r, "drop")
  /\ UNCHANGED <<queueVars, result, returned, dbLock, dbPoisoned,
                 publicationVars, readVars, crashes>>

\* The runtime is no longer admitted: the group stays unfinished
BarrierUnreachable(r) ==
  /\ pc[r] = "finish"
  /\ Fault
  /\ completed' = Failed(completed)
  /\ Goto(r, "drop")
  /\ UNCHANGED <<logVars, queueVars, result, returned, dbVars,
                 publicationVars, readVars, crashes>>

\* complete_required_relational_row_checkpoint fails after the barrier
SchemaCheckpointFails(r) ==
  /\ pc[r] = "finish" /\ group > 0
  /\ Fault
  /\ LogBarrierPoisoned
  /\ group' = -1
  /\ completed' = Failed(completed)
  /\ Goto(r, "drop")
  /\ UNCHANGED <<queueVars, result, returned, dbLock, dbPoisoned,
                 publicationVars, readVars, crashes>>

DropGuard(r) ==
  /\ pc[r] = "drop"
  /\ PublishView
  /\ dbLock' = None
  /\ Goto(r, "complete")
  /\ UNCHANGED <<logVars, queueVars, result, returned, dbPoisoned, group, completed,
                 readVars, crashes>>

\* fail_front_group: the group could not start
FailFrontGroup(r) ==
  /\ pc[r] = "fail_front" /\ stateLock = None
  /\ LET count == IF Len(queue) < MaxEntries THEN Len(queue) ELSE MaxEntries
     IN /\ completed' = [i \in 1 .. count |-> [req |-> queue[i], res |-> "error"]]
        /\ queue' = SubSeq(queue, count + 1, Len(queue))
  /\ Goto(r, "complete")
  /\ UNCHANGED <<logVars, leaderActive, stateLock, notified, result, returned, dbVars,
                 publicationVars, readVars, faults, crashes>>

\* complete_commit_requests, one result after the other
CompleteNext(r) ==
  /\ pc[r] = "complete" /\ completed # <<>>
  /\ result' = [result EXCEPT ![Head(completed).req] = Head(completed).res]
  /\ completed' = Tail(completed)
  /\ UNCHANGED <<logVars, queueVars, pc, returned, dbVars, publicationVars, readVars,
                 faults, crashes>>

NotifyCompleted(r) ==
  /\ pc[r] = "complete" /\ completed = <<>>
  /\ notified' = Waiting
  /\ Goto(r, "release")
  /\ UNCHANGED <<logVars, queue, leaderActive, stateLock, result, returned, dbVars, completed,
                 publicationVars, readVars, faults, crashes>>

\* release_leader: leave leadership under the state mutex, then notify
ReleaseLeader(r) ==
  /\ pc[r] = "release" /\ stateLock = None
  /\ leaderActive' = FALSE
  /\ Goto(r, "release_notify")
  /\ UNCHANGED <<logVars, queue, stateLock, notified, result, returned, dbVars, completed,
                 publicationVars, readVars, faults, crashes>>

\* Mutant: release_leader wakes nobody
ReleasedSilently(r) ==
  /\ pc[r] = "release_notify"
  /\ Goto(r, "check")
  /\ UNCHANGED <<logVars, queueVars, result, returned, dbVars, completed,
                 publicationVars, readVars, faults, crashes>>

NotifyReleased(r) ==
  /\ pc[r] = "release_notify"
  /\ notified' = Waiting
  /\ Goto(r, "check")
  /\ UNCHANGED <<logVars, queue, leaderActive, stateLock, result, returned, dbVars, completed,
                 publicationVars, readVars, faults, crashes>>

-----------------------------------------------------------------------------
(* read_view and finish_read *)

\* ensure_read_usable
ReadUsable == ~publicationFailed /\ ~dbPoisoned /\ Usable

SetReading(x, step) == reading' = [reading EXCEPT ![x] = step]

LookUpView(x) ==
  /\ status # "closed"
  /\ reading[x] = "idle"
  /\ IF published = None
     THEN SetReading(x, "first") /\ UNCHANGED view
     ELSE SetReading(x, "check") /\ view' = [view EXCEPT ![x] = published]
  /\ UNCHANGED <<logVars, queueVars, pc, result, returned, dbVars, completed,
                 publicationVars, faults, crashes>>

\* The first reader takes the database mutex, looks again, and publishes a view
\* unless the store is unusable
CaptureView(x) ==
  /\ reading[x] = "first" /\ dbLock = None
  /\ \/ /\ ~dbPoisoned /\ published # None
        /\ SetReading(x, "check")
        /\ view' = [view EXCEPT ![x] = published]
        /\ UNCHANGED published
     \/ /\ ~dbPoisoned /\ published = None /\ group = -1 /\ Usable
        /\ SetReading(x, "check")
        /\ view' = [view EXCEPT ![x] = log]
        /\ published' = log
     \/ /\ dbPoisoned \/ (published = None /\ (group >= 0 \/ ~Usable))
        /\ SetReading(x, "error")
        /\ UNCHANGED <<view, published>>
  /\ UNCHANGED <<logVars, queueVars, pc, result, returned, dbVars, completed,
                 publicationFailed, faults, crashes>>

\* ensure_read_usable before the query runs, and again in finish_read
CheckView(x) ==
  /\ reading[x] \in {"check", "reading"}
  /\ SetReading(x, IF ~ReadUsable THEN "error"
                   ELSE IF reading[x] = "check" THEN "reading" ELSE "done")
  /\ UNCHANGED <<view, logVars, queueVars, pc, result, returned, dbVars, completed,
                 publicationVars, faults, crashes>>

-----------------------------------------------------------------------------
(* Crash and restart *)

Crash ==
  /\ crashes < MaxCrashes /\ status # "closed"
  /\ crashes' = crashes + 1
  /\ LogClose
  /\ queue' = <<>> /\ leaderActive' = FALSE /\ stateLock' = None /\ notified' = {}
  /\ returned' = [r \in Requests |->
                    IF pc[r] \in {"new", "done"} THEN returned[r] ELSE "crashed"]
  /\ pc' = [r \in Requests |-> IF pc[r] = "new" THEN "new" ELSE "done"]
  /\ result' = [r \in Requests |-> "none"]
  /\ dbLock' = None /\ dbPoisoned' = FALSE /\ group' = -1
  /\ completed' = <<>>
  /\ published' = None /\ publicationFailed' = FALSE
  /\ reading' = [x \in Readers |->
                   IF reading[x] \in {"idle", "done"} THEN reading[x] ELSE "error"]
  /\ UNCHANGED <<view, faults>>

Recover ==
  /\ LogOpen
  /\ UNCHANGED <<queueVars, pc, result, returned, dbVars, completed, publicationVars,
                 readVars, faults, crashes>>

-----------------------------------------------------------------------------
FollowerStep(r) ==
  \/ TakeResult(r) \/ LockState(r) \/ FindNoResult(r) \/ Lead(r) \/ Sleep(r) \/ Wake(r)

LeaderStep(r) ==
  \/ LockDatabase(r)
  \/ BeginGroup(r) \/ BeginRefused(r)
  \/ RunTask(r) \/ EndRun(r) \/ TaskPanics(r)
  \/ FinishGroup(r) \/ BarrierFails(r) \/ BarrierUnreachable(r) \/ SchemaCheckpointFails(r)
  \/ DropGuard(r) \/ FailFrontGroup(r)
  \/ CompleteNext(r) \/ NotifyCompleted(r) \/ ReleaseLeader(r) \/ NotifyReleased(r)

ReaderStep(x) == LookUpView(x) \/ CaptureView(x) \/ CheckView(x)

Next ==
  \/ \E r \in Requests : Submit(r) \/ FollowerStep(r) \/ LivenessCheck(r) \/ LeaderStep(r)
  \/ \E x \in Readers : ReaderStep(x)
  \/ Crash
  \/ Recover

Spec == Init /\ [][Next]_vars

\* Threads that can run do run, and a mutex is handed on.  Nothing is assumed of
\* the liveness check, of new requests or of crashes.
FairSpec ==
  /\ Spec
  /\ \A r \in Requests : WF_vars(FollowerStep(r)) /\ WF_vars(LeaderStep(r))
  /\ \A x \in Readers : WF_vars(ReaderStep(x))

-----------------------------------------------------------------------------
(* Properties *)

LeaderPCs == {"collect", "begin", "run", "finish", "drop", "fail_front", "complete", "release"}

\* Every variable keeps its type; a barrier never covers more than was appended.
TypeOK ==
  /\ LogTypeOK(Requests)
  /\ queue \in Seq(Requests)
  /\ leaderActive \in BOOLEAN
  /\ stateLock \in Requests \cup {None}
  /\ notified \subseteq Requests
  /\ pc \in [Requests -> PCs]
  /\ result \in [Requests -> Outcomes \cup {"none"}]
  /\ returned \in [Requests -> Outcomes \cup {"none", "inconsistent", "crashed"}]
  /\ dbLock \in Requests \cup {None}
  /\ dbPoisoned \in BOOLEAN
  /\ group \in Int
  /\ completed \in Seq(Entry)
  /\ published \in Seq(Requests) \cup {None}
  /\ publicationFailed \in BOOLEAN
  /\ reading \in [Readers -> {"idle", "first", "check", "reading", "done", "error"}]
  /\ view \in [Readers -> Seq(Requests)]

\* Success means durable: a commit that execute_grouped reported as successful is
\* covered by a completed barrier, so it also survives every later crash.
AckedDurable ==
  \A r \in Requests : returned[r] = "ok" => \E i \in 1 .. durable : log[i] = r

\* Success means visible: unless reads are refused altogether, the view a new
\* reader gets holds every commit reported as successful.
AckedVisible ==
  \A r \in Requests :
    returned[r] = "ok" /\ ReadUsable /\ published # None => r \in Range(published)

\* What a successful read showed is not undone by the first crash: the view never
\* holds a commit of a group whose barrier is unfinished or failed.  After a crash,
\* DurableStore::open publishes replayed records before their first barrier.
ReadsSurvive ==
  \A x \in Readers :
    reading[x] = "done" /\ status # "closed" /\ crashes <= 1
      => \E n \in 0 .. Len(log) : view[x] = SubSeq(log, 1, n)

\* One leader at a time, and leader_active says whether there is one.
OneLeader ==
  /\ \A r, s \in Requests : pc[r] \in LeaderPCs /\ pc[s] \in LeaderPCs => r = s
  /\ leaderActive <=> \E r \in Requests : pc[r] \in LeaderPCs

\* The follower's liveness check never fires on a request that is merely racing
\* with its completion: nobody is told that the sequencer is inconsistent.
AlwaysAccountedFor ==
  \A r \in Requests : pc[r] = "waiting" => AccountedFor(r)

\* Nobody sleeps through its turn: a sleeping thread that has a result or could
\* lead has been notified or is about to be.
NoMissedTurn ==
  \A r \in Requests :
    pc[r] = "waiting" /\ r \notin notified /\ (result[r] # "none" \/ CanLead(r))
      => \E s \in Requests : pc[s] \in {"complete", "release", "release_notify"}

\* Every submitted commit returns, without help of the liveness check.
CommitReturns ==
  \A r \in Requests : pc[r] = "check" ~> pc[r] = "done"
=============================================================================
