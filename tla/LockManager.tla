----------------------------- MODULE LockManager -----------------------------
(***************************************************************************)
(* The logical lock manager of the concurrent transaction coordinator:     *)
(* LockTable and LockWaitQueue (crates/storage/src/transaction_locks.rs)   *)
(* under the mutex and condition variable of LockManager                   *)
(* (src/api/concurrent/coordinator.rs), driven by transactions that take   *)
(* statement savepoints, acquire batches of locks, restore and release     *)
(* them the way src/api/concurrent.rs does.                                *)
(*                                                                         *)
(* One transaction is driven by one thread.  `owner` is the thread that    *)
(* holds the mutex across the requests of one acquire call; every other    *)
(* critical section is one step.  notify_all runs after the mutex has been *)
(* dropped, so it is a step of its own.                                    *)
(***************************************************************************)
EXTENDS LockTargets, FiniteSets, FiniteSetsExt, Functions

CONSTANTS
  Txns,                \* transactions (threads)
  OneShot,             \* those that only take one database-wide lock: optimistic
                       \* commits and exclusive database leases
  Batches,             \* request sets a pessimistic statement may acquire
  EscalationEntries,   \* LockTableLimits::escalation_entries_per_table
  MaxEntries,          \* LockTableLimits::max_entries
  MaxBytes,            \* LockTableLimits::max_bytes
  MaxCalls,            \* bound on acquire calls and statements, over all transactions
  LockTimeouts,        \* whether a lock wait may time out
  SpuriousWakeups,     \* whether the condition variable may wake spuriously
  None                 \* no transaction

ASSUME LockManagerAssumption ==
  /\ None \notin Txns
  /\ OneShot \subseteq Txns
  /\ \A batch \in Batches : batch \subseteq LockRequest /\ IsFiniteSet(batch)

VARIABLES
  locks,         \* LockTable.locks: set of [txn, request]
  lockBytes,     \* LockTable.estimated_bytes
  waiters,       \* LockWaitQueue.requests: sequence of [txn, request]
  waitBytes,     \* LockWaitQueue.estimated_bytes
  owner,         \* holder of the LockManager mutex, or None
  notified,      \* waiting threads that a notify_all has reached
  pc,            \* what each transaction is doing
  todo,          \* sorted requests left in the current acquire call
  result,        \* error of the last acquire call
  inStatement,   \* transactions inside a graph statement that took a savepoint
  savepoint,     \* LockSavepoint of the current graph statement
  calls          \* acquire calls and statements begun so far

vars == <<locks, lockBytes, waiters, waitBytes, owner, notified, pc, todo,
          result, inStatement, savepoint, calls>>

HeldLock == [txn : Txns, request : LockRequest]

PCs == {"active",          \* between statements
        "statement",       \* savepoint taken, locks not acquired yet
        "locked",          \* locks of the statement or of the commit acquired
        "acquiring",       \* in acquire_inner, holding the mutex
        "waiting",         \* in Condvar::wait_timeout
        "fail_notify",     \* acquire failed, notify_all pending
        "failed",          \* acquire returned its error to the caller
        "restore_notify",  \* restore done, notify_all pending
        "aborting",        \* abort_after_lock_failure about to release
        "release_notify",  \* release done, notify_all pending
        "finished"}

-----------------------------------------------------------------------------
(* Lock table *)

HeldBy(t) == {l.request : l \in {h \in locks : h.txn = t}}

\* LockTable::covers_all for one request
Covered(t, request) == \E held \in HeldBy(t) : Covers(held, request)

\* Mutant: a shared lock blocks nobody
LockBlockersOfWriters(t, request) ==
  {l.txn : l \in {h \in locks : /\ h.txn # t /\ h.request.mode # "shared"
                                /\ Conflict(h.request, request)}}

\* LockTable::blockers
LockBlockers(t, request) ==
  {l.txn : l \in {h \in locks : h.txn # t /\ Conflict(h.request, request)}}

\* covering_mode
CoveringMode(mode, narrow) ==
  IF \E held \in narrow : held.mode # mode THEN "exclusive" ELSE mode

\* The narrow locks LockTable::normalized_request counts: ranges on the table of
\* a range, typed adjacency of the node and direction of a typed adjacency
NarrowLocks(t, target) ==
  {held \in HeldBy(t) :
     /\ held.target.kind = target.kind
     /\ CASE target.kind = "range" -> held.target.table = target.table
          [] target.kind = "adjacency" ->
               /\ target.rel_type # 0 /\ held.target.rel_type # 0
               /\ held.target.node = target.node
               /\ held.target.direction = target.direction
          [] OTHER -> FALSE}

\* The wider target that replaces them
EscalatedTarget(target) ==
  IF target.kind = "range"
  THEN [kind |-> "table", table |-> target.table]
  ELSE [kind |-> "adjacency", node |-> target.node, rel_type |-> 0,
        direction |-> target.direction]

\* LockTable::normalized_request
NormalizedRequest(t, request) ==
  LET narrow == NarrowLocks(t, request.target)
  IN IF /\ \/ request.target.kind = "range"
           \/ request.target.kind = "adjacency" /\ request.target.rel_type # 0
        /\ Cardinality(narrow) + 1 > EscalationEntries
     THEN [mode |-> CoveringMode(request.mode, narrow),
           target |-> EscalatedTarget(request.target)]
     ELSE request

\* lock_request_estimated_bytes: a fixed entry plus the keys of a range;
\* the lengths of names are left out
RequestBytes(request) ==
  LET target == request.target
      KeyBytes(bound) == IF bound.type = "unbounded" THEN 0 ELSE 1
  IN IF target.kind = "range" THEN 1 + KeyBytes(target.lower) + KeyBytes(target.upper) ELSE 1

Bytes(held) == MapThenSumSet(LAMBDA h : RequestBytes(h.request), held)

\* Mutant: a lock is replaced by one on a wider target whatever its mode
ReplacedByTarget(t, request) ==
  {h \in locks : h.txn = t /\ TargetCovers(request.target, h.request.target)}

\* The entries LockTable::grant removes: own locks the new request covers
Replaced(t, request) == {h \in locks : h.txn = t /\ Covers(request, h.request)}

\* next_bytes of LockTable::grant
GrantBytes(t, request) == lockBytes - Bytes(Replaced(t, request)) + RequestBytes(request)

\* The budget check of LockTable::grant
GrantFits(t, request) ==
  /\ Cardinality(locks \ Replaced(t, request)) + 1 <= MaxEntries
  /\ GrantBytes(t, request) <= MaxBytes

\* LockTable::grant of a request that is not covered and fits the budget
Grant(t, request) ==
  /\ locks' = (locks \ Replaced(t, request)) \cup {[txn |-> t, request |-> request]}
  /\ lockBytes' = GrantBytes(t, request)

-----------------------------------------------------------------------------
(* Wait queue *)

Queued == {waiters[i].txn : i \in DOMAIN waiters}
Position(t) == CHOOSE i \in DOMAIN waiters : waiters[i].txn = t

\* Mutant: conflicting waiters do not block a newcomer
QueueBlockersIfQueued(t, request) ==
  IF t \notin Queued THEN {} ELSE
  {w.txn : w \in {waiters[i] : i \in {j \in DOMAIN waiters :
                     /\ \A k \in 1 .. j : waiters[k].txn # t
                     /\ Conflict(waiters[j].request, request)}}}

\* LockWaitQueue::blockers: conflicting waiters ahead of t; a transaction that
\* is not queued is younger than every waiter
QueueBlockers(t, request) ==
  {w.txn : w \in {waiters[i] : i \in {j \in DOMAIN waiters :
                     /\ \A k \in 1 .. j : waiters[k].txn # t
                     /\ Conflict(waiters[j].request, request)}}}

Blockers(t, request) == LockBlockers(t, request) \cup QueueBlockers(t, request)

\* The queue without its i-th waiter
WithoutWaiter(i) == SubSeq(waiters, 1, i - 1) \o SubSeq(waiters, i + 1, Len(waiters))

\* Mutant: the waiter is forgotten, its bytes are not
RemoveWaiterOnly(t) ==
  /\ UNCHANGED waitBytes
  /\ waiters' = IF t \in Queued THEN WithoutWaiter(Position(t)) ELSE waiters

\* LockWaitQueue::remove
RemoveWaiter(t) ==
  IF t \in Queued
  THEN /\ waiters' = WithoutWaiter(Position(t))
       /\ waitBytes' = waitBytes - RequestBytes(waiters[Position(t)].request)
  ELSE UNCHANGED <<waiters, waitBytes>>

\* LockWaitQueue::enqueue: queue after it, and its budget check
Enqueued(t, request) ==
  IF t \in Queued THEN waiters ELSE Append(waiters, [txn |-> t, request |-> request])
EnqueueFits(t, request) ==
  \/ t \in Queued
  \/ /\ Len(waiters) + 1 <= MaxEntries
     /\ waitBytes + RequestBytes(request) <= MaxBytes

\* The blockers LockWaitQueue::check_deadlock computes for a queued transaction
BlockersOfWaiter(w) == Blockers(w, waiters[Position(w)].request)

\* Mutant: the search starts from the lock holders and skips the waiters ahead
ClosesHolderCycle(t, request) ==
  \A reached \in SUBSET (Queued \cup {t}) :
    (/\ LockBlockers(t, request) \cap (Queued \cup {t}) \subseteq reached
     /\ \A w \in reached \ {t} :
          BlockersOfWaiter(w) \cap (Queued \cup {t}) \subseteq reached)
    => t \in reached

\* LockWaitQueue::check_deadlock for t once it waits for request: t is among
\* the transactions reached from its blockers through the queued ones.  The
\* breadth-first search computes the least set closed under "is blocked by".
ClosesCycle(t, request) ==
  \A reached \in SUBSET (Queued \cup {t}) :
    (/\ Blockers(t, request) \cap (Queued \cup {t}) \subseteq reached
     /\ \A w \in reached \ {t} :
          BlockersOfWaiter(w) \cap (Queued \cup {t}) \subseteq reached)
    => t \in reached
-----------------------------------------------------------------------------
Init ==
  /\ locks = {} /\ lockBytes = 0
  /\ waiters = <<>> /\ waitBytes = 0
  /\ owner = None
  /\ notified = {}
  /\ pc = [t \in Txns |-> "active"]
  /\ todo = [t \in Txns |-> <<>>]
  /\ result = [t \in Txns |-> "ok"]
  /\ inStatement = {}
  /\ savepoint = [t \in Txns |-> {}]
  /\ calls = 0

\* query_request_inner: LockManager::savepoint before a pessimistic graph statement
BeginStatement(t) ==
  /\ pc[t] = "active" /\ t \notin OneShot /\ calls < MaxCalls
  /\ owner = None
  /\ inStatement' = inStatement \cup {t}
  /\ savepoint' = [savepoint EXCEPT ![t] = HeldBy(t)]
  /\ pc' = [pc EXCEPT ![t] = "statement"]
  /\ calls' = calls + 1
  /\ UNCHANGED <<locks, lockBytes, waiters, waitBytes, owner, notified, todo, result>>

\* The statement ends with the locks it has: it needed none, they were covered,
\* or its replay succeeded.  The savepoint is dropped.
EndStatement(t) ==
  /\ pc[t] \in {"statement", "locked"} /\ t \in inStatement
  /\ inStatement' = inStatement \ {t}
  /\ savepoint' = [savepoint EXCEPT ![t] = {}]
  /\ pc' = [pc EXCEPT ![t] = "active"]
  /\ UNCHANGED <<locks, lockBytes, waiters, waitBytes, owner, notified, todo, result, calls>>

\* Requests of one call: commit_with_result of an optimistic transaction takes the
\* database in optimistic mode, exclusive_database_lease takes it exclusively, and
\* the statements of a pessimistic transaction take any batch
CallBatches(t) ==
  IF t \in OneShot
  THEN {{[mode |-> mode, target |-> Database]} : mode \in {"optimistic", "exclusive"}}
  ELSE Batches

\* unique_requests: the batch sorted by acquisition_cmp, without duplicates
AcquisitionOrders(batch) ==
  {order \in [1 .. Cardinality(batch) -> batch] :
     \A i, j \in DOMAIN order : i < j => AcquisitionLess(order[i], order[j])}

\* LockManager::acquire: take the mutex, sort and deduplicate the requests
BeginAcquire(t, batch) ==
  /\ pc[t] \in {"active", "statement"}
  /\ pc[t] = "active" => calls < MaxCalls
  /\ owner = None
  /\ owner' = t
  /\ pc' = [pc EXCEPT ![t] = "acquiring"]
  /\ \E order \in AcquisitionOrders(batch) : todo' = [todo EXCEPT ![t] = order]
  /\ result' = [result EXCEPT ![t] = "ok"]
  /\ calls' = calls + (IF pc[t] = "active" THEN 1 ELSE 0)
  /\ UNCHANGED <<locks, lockBytes, waiters, waitBytes, notified, inStatement, savepoint>>

\* acquire_inner returns Ok
EndAcquire(t) ==
  /\ owner = t /\ todo[t] = <<>>
  /\ owner' = None
  /\ pc' = [pc EXCEPT ![t] = IF t \in inStatement \cup OneShot THEN "locked" ELSE "active"]
  /\ UNCHANGED <<locks, lockBytes, waiters, waitBytes, notified, todo, result, inStatement, savepoint, calls>>

\* The request acquire_inner works on.  It is normalized once, before the wait
\* loop; while t waits its own locks stay as they are, so normalizing it again
\* after a wakeup gives the same request.
Request(t) == NormalizedRequest(t, Head(todo[t]))
Pending(t) == owner = t /\ todo[t] # <<>>
IsCovered(t) == Covered(t, Head(todo[t])) \/ Covered(t, Request(t))

\* A covered request is skipped
SkipCovered(t) ==
  /\ Pending(t) /\ IsCovered(t)
  /\ todo' = [todo EXCEPT ![t] = Tail(@)]
  /\ UNCHANGED <<locks, lockBytes, waiters, waitBytes, owner, notified, pc, result,
                 inStatement, savepoint, calls>>

\* Mutant: the failed request keeps its place in the queue
FailQueued(t, error) ==
  /\ owner' = None
  /\ pc' = [pc EXCEPT ![t] = "fail_notify"]
  /\ result' = [result EXCEPT ![t] = error]
  /\ todo' = [todo EXCEPT ![t] = <<>>]
  /\ notified' = notified \ {t}
  /\ UNCHANGED <<waiters, waitBytes, locks, lockBytes, inStatement, savepoint, calls>>

\* acquire_inner fails: queue priority is retired under the mutex, which is then
\* dropped; acquire still has to call notify_all
Fail(t, error) ==
  /\ RemoveWaiter(t)
  /\ owner' = None
  /\ pc' = [pc EXCEPT ![t] = "fail_notify"]
  /\ result' = [result EXCEPT ![t] = error]
  /\ todo' = [todo EXCEPT ![t] = <<>>]
  /\ notified' = notified \ {t}
  /\ UNCHANGED <<locks, lockBytes, inStatement, savepoint, calls>>

\* No blockers: leave the queue and take the lock
GrantRequest(t) ==
  /\ Pending(t) /\ ~IsCovered(t)
  /\ Blockers(t, Request(t)) = {}
  /\ GrantFits(t, Request(t))
  /\ RemoveWaiter(t)
  /\ Grant(t, Request(t))
  /\ todo' = [todo EXCEPT ![t] = Tail(@)]
  /\ UNCHANGED <<owner, notified, pc, result, inStatement, savepoint, calls>>

\* No blockers, but the lock table is at its entry or byte limit
RefuseGrant(t) ==
  /\ Pending(t) /\ ~IsCovered(t)
  /\ Blockers(t, Request(t)) = {}
  /\ ~GrantFits(t, Request(t))
  /\ Fail(t, "abort")

\* Blocked, and the wait queue is full or waiting would close a cycle
RefuseWait(t) ==
  /\ Pending(t) /\ ~IsCovered(t)
  /\ Blockers(t, Request(t)) # {}
  /\ ~EnqueueFits(t, Request(t)) \/ ClosesCycle(t, Request(t))
  /\ Fail(t, "abort")

\* Blocked: enqueue and sleep on the condition variable
Wait(t) ==
  /\ Pending(t) /\ ~IsCovered(t)
  /\ Blockers(t, Request(t)) # {}
  /\ EnqueueFits(t, Request(t)) /\ ~ClosesCycle(t, Request(t))
  /\ waiters' = Enqueued(t, Request(t))
  /\ waitBytes' = waitBytes + (IF t \in Queued THEN 0 ELSE RequestBytes(Request(t)))
  /\ owner' = None
  /\ pc' = [pc EXCEPT ![t] = "waiting"]
  /\ UNCHANGED <<locks, lockBytes, notified, todo, result, inStatement, savepoint, calls>>

\* Blocked, and the timeout was already used up before the wait
ExpireBeforeWait(t) ==
  /\ LockTimeouts
  /\ Pending(t) /\ ~IsCovered(t)
  /\ Blockers(t, Request(t)) # {}
  /\ EnqueueFits(t, Request(t)) /\ ~ClosesCycle(t, Request(t))
  /\ Fail(t, "retryable")

\* wait_timeout returns without having timed out; the loop starts over
Wake(t) ==
  /\ pc[t] = "waiting" /\ owner = None
  /\ t \in notified
  /\ owner' = t
  /\ pc' = [pc EXCEPT ![t] = "acquiring"]
  /\ notified' = notified \ {t}
  /\ UNCHANGED <<locks, lockBytes, waiters, waitBytes, todo, result, inStatement, savepoint, calls>>

WakeSpuriously(t) ==
  /\ SpuriousWakeups
  /\ pc[t] = "waiting" /\ owner = None
  /\ t \notin notified
  /\ owner' = t
  /\ pc' = [pc EXCEPT ![t] = "acquiring"]
  /\ UNCHANGED <<locks, lockBytes, waiters, waitBytes, notified, todo, result, inStatement, savepoint, calls>>

\* wait_timeout timed out: the request fails even if it could be granted now
Timeout(t) ==
  /\ LockTimeouts
  /\ pc[t] = "waiting" /\ owner = None
  /\ Fail(t, "retryable")
-----------------------------------------------------------------------------
(* What the transaction does with its locks *)

\* LockTable::restore_transaction / release_transaction: the locks of t become
\* `requests`, and the byte estimate is summed again
SetLocks(t, requests) ==
  LET next == {h \in locks : h.txn # t} \cup {[txn |-> t, request |-> r] : r \in requests}
  IN locks' = next /\ lockBytes' = Bytes(next)

\* Mutant: a restore wakes nobody
RestoreSilently(t) ==
  /\ pc[t] \in {"statement", "locked", "failed"} /\ t \in inStatement
  /\ owner = None
  /\ SetLocks(t, savepoint[t])
  /\ RemoveWaiter(t)
  /\ inStatement' = inStatement \ {t}
  /\ savepoint' = [savepoint EXCEPT ![t] = {}]
  /\ pc' = [pc EXCEPT ![t] = IF result[t] = "abort" THEN "aborting" ELSE "active"]
  /\ UNCHANGED <<owner, notified, todo, result, calls>>

\* LockManager::restore: the graph statement failed in execution, in acquire or in
\* replay, and the transaction goes back to the locks it had before the statement
Restore(t) ==
  /\ pc[t] \in {"statement", "locked", "failed"} /\ t \in inStatement
  /\ owner = None
  /\ SetLocks(t, savepoint[t])
  /\ RemoveWaiter(t)
  /\ inStatement' = inStatement \ {t}
  /\ savepoint' = [savepoint EXCEPT ![t] = {}]
  /\ pc' = [pc EXCEPT ![t] = "restore_notify"]
  /\ UNCHANGED <<owner, notified, todo, result, calls>>

\* LockManager::release: commit, rollback, drop, or abort_after_lock_failure, which
\* follows a failed acquire (after the restore, inside a graph statement) and a
\* snapshot that changed while the locks were acquired
Release(t) ==
  /\ \/ pc[t] \in {"active", "locked", "aborting"}
     \/ pc[t] = "failed" /\ t \notin inStatement /\ t \notin OneShot
  /\ owner = None
  /\ SetLocks(t, {})
  /\ RemoveWaiter(t)
  /\ inStatement' = inStatement \ {t}
  /\ savepoint' = [savepoint EXCEPT ![t] = {}]
  /\ pc' = [pc EXCEPT ![t] = "release_notify"]
  /\ UNCHANGED <<owner, notified, todo, result, calls>>

\* A failed optimistic commit or lease finishes without releasing anything
FinishUnreleased(t) ==
  /\ pc[t] = "failed" /\ t \in OneShot
  /\ pc' = [pc EXCEPT ![t] = "finished"]
  /\ UNCHANGED <<locks, lockBytes, waiters, waitBytes, owner, notified, todo, result,
                 inStatement, savepoint, calls>>

\* Where a transaction continues after its pending notify_all.  A timeout leaves
\* a graph statement's transaction active, any other error aborts it.
AfterNotify(t) ==
  CASE pc[t] = "fail_notify" -> "failed"
    [] pc[t] = "restore_notify" -> IF result[t] = "abort" THEN "aborting" ELSE "active"
    [] pc[t] = "release_notify" -> "finished"

\* Condvar::notify_all, after the mutex was dropped
NotifyAll(t) ==
  /\ pc[t] \in {"fail_notify", "restore_notify", "release_notify"}
  /\ notified' = {u \in Txns : pc[u] = "waiting"}
  /\ pc' = [pc EXCEPT ![t] = AfterNotify(t)]
  /\ UNCHANGED <<locks, lockBytes, waiters, waitBytes, owner, todo, result, inStatement, savepoint, calls>>

-----------------------------------------------------------------------------
AcquireStep(t) ==
  \/ EndAcquire(t)
  \/ SkipCovered(t)
  \/ GrantRequest(t)
  \/ RefuseGrant(t)
  \/ RefuseWait(t)
  \/ Wait(t)
  \/ ExpireBeforeWait(t)

Next ==
  \E t \in Txns :
    \/ BeginStatement(t)
    \/ EndStatement(t)
    \/ \E batch \in CallBatches(t) : BeginAcquire(t, batch)
    \/ AcquireStep(t)
    \/ Wake(t)
    \/ WakeSpuriously(t)
    \/ Timeout(t)
    \/ Restore(t)
    \/ Release(t)
    \/ FinishUnreleased(t)
    \/ NotifyAll(t)

Spec == Init /\ [][Next]_vars

\* A thread that can run does run, a notified thread gets the mutex back, and the
\* application finishes its statements and transactions.  Nothing is assumed about
\* timeouts or spurious wakeups.
FairSpec ==
  /\ Spec
  /\ \A t \in Txns :
       /\ WF_vars(AcquireStep(t))
       /\ WF_vars(Wake(t))
       /\ WF_vars(NotifyAll(t))
       /\ WF_vars(EndStatement(t))
       /\ WF_vars(Release(t))
       /\ WF_vars(Restore(t) /\ pc[t] = "failed")
       /\ WF_vars(FinishUnreleased(t))

-----------------------------------------------------------------------------
(* Properties *)

\* Every variable keeps its type; escalated and restored locks are lock requests too.
TypeOK ==
  /\ locks \subseteq HeldLock
  /\ waiters \in Seq(HeldLock)
  /\ owner \in Txns \cup {None}
  /\ notified \subseteq Txns
  /\ pc \in [Txns -> PCs]
  /\ todo \in [Txns -> Seq(LockRequest)]
  /\ result \in [Txns -> {"ok", "retryable", "abort"}]
  /\ inStatement \subseteq Txns
  /\ savepoint \in [Txns -> SUBSET LockRequest]

\* Two transactions never hold conflicting locks, whatever was escalated, replaced,
\* restored from a savepoint or granted past the queue in between.
MutualExclusion ==
  \A l, m \in locks : l.txn # m.txn => ~Conflict(l.request, m.request)

\* Going back to a savepoint never claims a resource anew: each of its locks is
\* still covered by what the transaction holds, even after an escalation replaced it.
SavepointStillHeld ==
  \A t \in inStatement : \A request \in savepoint[t] : Covered(t, request)

\* check_deadlock leaves no cycle behind: every set of queued transactions has one
\* that waits for nobody in the set, so some of them can always proceed.
NoUndetectedDeadlock ==
  \A S \in (SUBSET Queued) \ {{}} : \E t \in S : BlockersOfWaiter(t) \cap S = {}

\* No wakeup is lost: a sleeping thread whose request could be granted has been
\* notified, or a thread is on its way to notify_all.
NoLostWakeup ==
  \A t \in Txns :
    pc[t] = "waiting" /\ t \notin notified /\ BlockersOfWaiter(t) = {}
      => \E u \in Txns : pc[u] \in {"fail_notify", "restore_notify", "release_notify"}

\* A finished transaction left nothing in the lock table or the wait queue, on the
\* paths that call release and on those that do not.
FinishedHoldsNothing ==
  \A t \in Txns : pc[t] = "finished" => HeldBy(t) = {} /\ t \notin Queued

\* The byte estimates, kept incrementally by grant, enqueue and remove and summed
\* again by release and restore, are those of the entries present.
BytesAccounted ==
  /\ lockBytes = Bytes(locks)
  /\ waitBytes = Bytes(Range(waiters))

\* Queue order holds: while a transaction waits, nobody new gets in its way.  A
\* later grant, escalation or restore never adds to the set of its blockers.
BlockersOnlyShrink ==
  [][\A t \in Queued : t \in Queued' => BlockersOfWaiter(t)' \subseteq BlockersOfWaiter(t)]_vars

\* Every acquire call returns: nobody sleeps forever, without help of timeouts.
AcquireReturns ==
  \A t \in Txns : pc[t] \in {"acquiring", "waiting"} ~> pc[t] \notin {"acquiring", "waiting"}

\* The lock table stays within its entry and byte limits.
LockTableBounded == Cardinality(locks) <= MaxEntries /\ lockBytes <= MaxBytes
=============================================================================
