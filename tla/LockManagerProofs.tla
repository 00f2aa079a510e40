-------------------------- MODULE LockManagerProofs --------------------------
(***************************************************************************)
(* Safety of LockManager for any transactions, batches, limits and bounds, *)
(* and first what covering and conflict mean for every table, key, id and  *)
(* bound: the manager relies on these facts when it skips covered          *)
(* requests, drops replaced locks, escalates and restores savepoints.      *)
(***************************************************************************)
EXTENDS LockManager, TLAPS, FiniteSetTheorems

-----------------------------------------------------------------------------
(* LockTargets *)

\* requests_conflict does not depend on which side holds the lock: targets_overlap
\* and modes_conflict are symmetric.
THEOREM ConflictSymmetric ==
  ASSUME NEW l \in LockRequest, NEW r \in LockRequest
  PROVE  Conflict(l, r) <=> Conflict(r, l)
BY DEF Conflict, ModesConflict, TargetsOverlap, LockRequest

\* A lock covers itself.
LEMMA CoversReflexive ==
  ASSUME NEW l \in LockRequest
  PROVE  Covers(l, l)
<1>1. l.target \in LockTarget
  BY DEF LockRequest
<1>2. TargetCovers(l.target, l.target)
  BY <1>1 DEF LockTarget, Database, RelationalTables, RelationalRanges, GraphPoints,
     GraphAdjacencies, Bounds, Unbounded, PointKinds, TargetCovers, LowerBoundCovers,
     UpperBoundCovers
<1> QED
  BY <1>2 DEF Covers, ModeCovers

\* The lower ends of covering ranges compose.
LEMMA LowerBoundTransitive ==
  ASSUME NEW a \in Bounds, NEW b \in Bounds, NEW c \in Bounds,
         LowerBoundCovers(a, b), LowerBoundCovers(b, c)
  PROVE  LowerBoundCovers(a, c)
BY DEF Bounds, Unbounded, LowerBoundCovers

\* The upper ends of covering ranges compose.
LEMMA UpperBoundTransitive ==
  ASSUME NEW a \in Bounds, NEW b \in Bounds, NEW c \in Bounds,
         UpperBoundCovers(a, b), UpperBoundCovers(b, c)
  PROVE  UpperBoundCovers(a, c)
BY DEF Bounds, Unbounded, UpperBoundCovers

\* A range that starts after an upper end still does when its start is narrowed.
LEMMA BeforeWiderLower ==
  ASSUME NEW upper \in Bounds, NEW held \in Bounds, NEW requested \in Bounds,
         LowerBoundCovers(held, requested), UpperIsBeforeLower(upper, held)
  PROVE  UpperIsBeforeLower(upper, requested)
BY DEF Bounds, Unbounded, LowerBoundCovers, UpperIsBeforeLower

\* A range that ends before a lower end still does when its end is narrowed.
LEMMA BeforeWiderUpper ==
  ASSUME NEW lower \in Bounds, NEW held \in Bounds, NEW requested \in Bounds,
         UpperBoundCovers(held, requested), UpperIsBeforeLower(held, lower)
  PROVE  UpperIsBeforeLower(requested, lower)
BY DEF Bounds, Unbounded, UpperBoundCovers, UpperIsBeforeLower

\* The fields of a target of each kind.
LEMMA TargetFields ==
  ASSUME NEW target \in LockTarget
  PROVE  /\ target.kind = "table" => target.table \in Nat
         /\ target.kind = "range" => /\ target.table \in Nat /\ target.columns \in Nat
                                     /\ target.lower \in Bounds /\ target.upper \in Bounds
         /\ target.kind \in PointKinds => target.id \in Nat
         /\ target.kind = "adjacency" => /\ target.node \in Nat /\ target.rel_type \in Nat
                                         /\ target.direction \in {0, 1}
BY DEF LockTarget, Database, RelationalTables, RelationalRanges, GraphPoints,
   GraphAdjacencies, PointKinds

\* target_covers composes: what an escalated lock replaced stays covered when the
\* escalated lock is replaced in turn.
LEMMA TargetCoversTransitive ==
  ASSUME NEW a \in LockTarget, NEW b \in LockTarget, NEW c \in LockTarget,
         TargetCovers(a, b), TargetCovers(b, c)
  PROVE  TargetCovers(a, c)
<1>1. CASE a.kind = "range"
  <2>1. /\ b.kind = "range" /\ c.kind = "range"
        /\ a.table = b.table /\ b.table = c.table
        /\ a.columns = b.columns /\ b.columns = c.columns
        /\ LowerBoundCovers(a.lower, b.lower) /\ LowerBoundCovers(b.lower, c.lower)
        /\ UpperBoundCovers(a.upper, b.upper) /\ UpperBoundCovers(b.upper, c.upper)
    BY <1>1 DEF TargetCovers, PointKinds
  <2>2. LowerBoundCovers(a.lower, c.lower) /\ UpperBoundCovers(a.upper, c.upper)
    BY <1>1, <2>1, TargetFields, LowerBoundTransitive, UpperBoundTransitive
  <2> QED
    BY <1>1, <2>1, <2>2 DEF TargetCovers
<1>2. CASE a.kind # "range"
  BY <1>2 DEF TargetCovers, PointKinds
<1> QED
  BY <1>1, <1>2

\* Covering composes.
THEOREM CoversTransitive ==
  ASSUME NEW a \in LockRequest, NEW b \in LockRequest, NEW c \in LockRequest,
         Covers(a, b), Covers(b, c)
  PROVE  Covers(a, c)
BY TargetCoversTransitive DEF LockRequest, Covers, ModeCovers

\* What overlaps a target overlaps everything that covers it.
LEMMA OverlapInherited ==
  ASSUME NEW held \in LockTarget, NEW requested \in LockTarget, NEW other \in LockTarget,
         TargetCovers(held, requested), TargetsOverlap(requested, other)
  PROVE  TargetsOverlap(held, other)
<1>1. CASE held.kind = "range" /\ other.kind = "range"
  <2>1. /\ requested.kind = "range"
        /\ held.table = requested.table /\ requested.table = other.table
        /\ held.columns = requested.columns /\ requested.columns = other.columns
        /\ LowerBoundCovers(held.lower, requested.lower)
        /\ UpperBoundCovers(held.upper, requested.upper)
        /\ ~UpperIsBeforeLower(requested.upper, other.lower)
        /\ ~UpperIsBeforeLower(other.upper, requested.lower)
    BY <1>1 DEF TargetCovers, TargetsOverlap, PointKinds
  <2>2. /\ ~UpperIsBeforeLower(held.upper, other.lower)
        /\ ~UpperIsBeforeLower(other.upper, held.lower)
    BY <1>1, <2>1, TargetFields, BeforeWiderLower, BeforeWiderUpper
  <2> QED
    BY <1>1, <2>1, <2>2 DEF TargetsOverlap
<1>2. CASE held.kind = "range" /\ other.kind # "range"
  BY <1>2 DEF TargetCovers, TargetsOverlap, PointKinds
<1>3. CASE held.kind = "adjacency"
  BY <1>3 DEF TargetCovers, TargetsOverlap, PointKinds
<1>4. CASE held.kind \notin {"range", "adjacency"}
  BY <1>4 DEF TargetCovers, TargetsOverlap, PointKinds
<1> QED
  BY <1>1, <1>2, <1>3, <1>4

\* The fact the lock table rests on: whatever conflicts with a covered request
\* conflicts with the lock that covers it.  Skipping a covered request, replacing
\* covered locks on a grant, escalating them to a table or to a whole adjacency,
\* and going back from the wider lock to the narrower ones therefore never lose
\* an exclusion.
THEOREM CoverSound ==
  ASSUME NEW held \in LockRequest, NEW requested \in LockRequest, NEW other \in LockRequest,
         Covers(held, requested), Conflict(requested, other)
  PROVE  Conflict(held, other)
<1>1. TargetsOverlap(held.target, other.target)
  BY OverlapInherited DEF LockRequest, Covers, Conflict
<1>2. ModesConflict(held.mode, other.mode)
  BY DEF LockRequest, Covers, Conflict, ModeCovers, ModesConflict
<1> QED
  BY <1>1, <1>2 DEF Conflict

-----------------------------------------------------------------------------
(* Ranges against the keys they contain *)

\* Whether key lies on the inner side of a lower and of an upper end
AboveLower(key, lower) ==
  \/ lower.type = "unbounded"
  \/ lower.type = "included" /\ lower.key <= key
  \/ lower.type = "excluded" /\ lower.key < key

BelowUpper(key, upper) ==
  \/ upper.type = "unbounded"
  \/ upper.type = "included" /\ key <= upper.key
  \/ upper.type = "excluded" /\ key < upper.key

InRange(key, range) == AboveLower(key, range.lower) /\ BelowUpper(key, range.upper)

\* No key lies below an upper end and above a lower end that comes after it.
LEMMA KeySeparates ==
  ASSUME NEW upper \in Bounds, NEW lower \in Bounds, NEW key \in Int,
         BelowUpper(key, upper), AboveLower(key, lower)
  PROVE  ~UpperIsBeforeLower(upper, lower)
BY DEF Bounds, Unbounded, BelowUpper, AboveLower, UpperIsBeforeLower

\* targets_overlap never misses a row: two ranges over one index that contain a
\* common key overlap, whatever mix of included, excluded and open ends they have.
THEOREM CommonKeyOverlaps ==
  ASSUME NEW l \in RelationalRanges, NEW r \in RelationalRanges, NEW key \in Int,
         l.table = r.table, l.columns = r.columns,
         InRange(key, l), InRange(key, r)
  PROVE  TargetsOverlap(l, r)
<1>1. /\ l.kind = "range" /\ l.lower \in Bounds /\ l.upper \in Bounds
      /\ r.kind = "range" /\ r.lower \in Bounds /\ r.upper \in Bounds
  BY DEF RelationalRanges
<1>2. ~UpperIsBeforeLower(l.upper, r.lower) /\ ~UpperIsBeforeLower(r.upper, l.lower)
  BY <1>1, KeySeparates DEF InRange
<1> QED
  BY <1>1, <1>2 DEF TargetsOverlap

\* target_covers never claims a row it does not protect: a key of a covered range
\* is a key of the covering one.
THEOREM CoveredKeyProtected ==
  ASSUME NEW held \in RelationalRanges, NEW requested \in RelationalRanges, NEW key \in Int,
         TargetCovers(held, requested), InRange(key, requested)
  PROVE  InRange(key, held)
<1>1. /\ held.lower \in Bounds /\ held.upper \in Bounds
      /\ requested.lower \in Bounds /\ requested.upper \in Bounds
      /\ LowerBoundCovers(held.lower, requested.lower)
      /\ UpperBoundCovers(held.upper, requested.upper)
  BY DEF RelationalRanges, TargetCovers, PointKinds
<1>2. AboveLower(key, held.lower)
  BY <1>1 DEF InRange, Bounds, Unbounded, AboveLower, LowerBoundCovers
<1>3. BelowUpper(key, held.upper)
  BY <1>1 DEF InRange, Bounds, Unbounded, BelowUpper, UpperBoundCovers
<1> QED
  BY <1>2, <1>3 DEF InRange

-----------------------------------------------------------------------------
(* LockManager *)

\* Escalation turns a well-formed request into a well-formed request.
LEMMA NormalizedRequestType ==
  ASSUME NEW t \in Txns, NEW request \in LockRequest
  PROVE  NormalizedRequest(t, request) \in LockRequest
<1>1. request.target \in LockTarget /\ request.mode \in Modes
  BY DEF LockRequest
<1> DEFINE narrow == NarrowLocks(t, request.target)
<1>2. CoveringMode(request.mode, narrow) \in Modes
  BY <1>1 DEF CoveringMode, Modes
<1>3. CASE request.target.kind = "range"
  <2>1. EscalatedTarget(request.target) \in RelationalTables
    BY <1>1, <1>3, TargetFields DEF EscalatedTarget, RelationalTables
  <2> QED
    BY <1>2, <2>1 DEF NormalizedRequest, LockRequest, LockTarget
<1>4. CASE request.target.kind = "adjacency"
  <2>1. request.target \in GraphAdjacencies
    BY <1>1, <1>4 DEF LockTarget, Database, RelationalTables, RelationalRanges,
       GraphPoints, GraphAdjacencies, PointKinds
  <2>2. EscalatedTarget(request.target) \in GraphAdjacencies
    BY <1>4, <2>1 DEF EscalatedTarget, GraphAdjacencies
  <2> QED
    BY <1>2, <2>2 DEF NormalizedRequest, LockRequest, LockTarget
<1>5. CASE request.target.kind \notin {"range", "adjacency"}
  BY <1>5 DEF NormalizedRequest
<1> QED
  BY <1>3, <1>4, <1>5

\* A sorted batch is a sequence of requests.
LEMMA AcquisitionOrderType ==
  ASSUME NEW t \in Txns, NEW batch \in CallBatches(t), NEW order \in AcquisitionOrders(batch)
  PROVE  order \in Seq(LockRequest)
<1>1. batch \subseteq LockRequest /\ IsFiniteSet(batch)
  <2>1. CASE t \in OneShot
    <3>1. PICK mode \in {"optimistic", "exclusive"} : batch = {[mode |-> mode, target |-> Database]}
      BY <2>1 DEF CallBatches
    <3>2. IsFiniteSet(batch)
      BY Zenon, <3>1, FS_Singleton
    <3> QED
      BY <3>1, <3>2 DEF LockRequest, Modes, LockTarget
  <2>2. CASE t \notin OneShot
    BY <2>2, LockManagerAssumption DEF CallBatches
  <2> QED
    BY <2>1, <2>2
<1>2. Cardinality(batch) \in Nat
  BY <1>1, FS_CardinalityType
<1>3. order \in [1 .. Cardinality(batch) -> LockRequest]
  BY <1>1 DEF AcquisitionOrders
<1> QED
  BY <1>2, <1>3

\* Leaving the queue keeps it a sequence of waiting requests.
LEMMA RemoveWaiterType ==
  ASSUME waiters \in Seq(HeldLock), NEW t \in Txns, RemoveWaiter(t)
  PROVE  waiters' \in Seq(HeldLock)
<1>1. CASE t \in Queued
  <2>1. Position(t) \in DOMAIN waiters
    BY <1>1 DEF Queued, Position
  <2>2. WithoutWaiter(Position(t)) \in Seq(HeldLock)
    BY <2>1 DEF WithoutWaiter
  <2> QED
    BY <1>1, <2>2 DEF RemoveWaiter
<1>2. CASE t \notin Queued
  BY <1>2 DEF RemoveWaiter
<1> QED
  BY <1>1, <1>2

-----------------------------------------------------------------------------
(* Typing *)

\* The request acquire_inner is working on is well formed.
LEMMA RequestType ==
  ASSUME TypeOK, NEW t \in Txns, Pending(t)
  PROVE  /\ Head(todo[t]) \in LockRequest
         /\ Request(t) \in LockRequest
         /\ Tail(todo[t]) \in Seq(LockRequest)
<1>1. todo[t] \in Seq(LockRequest) /\ todo[t] # <<>>
  BY DEF TypeOK, Pending
<1>2. Head(todo[t]) \in LockRequest /\ Tail(todo[t]) \in Seq(LockRequest)
  BY <1>1
<1> QED
  BY <1>2, NormalizedRequestType DEF Request

\* A failed acquire keeps every variable in its type.
LEMMA FailType ==
  ASSUME TypeOK, NEW t \in Txns, NEW error \in {"retryable", "abort"}, Fail(t, error)
  PROVE  TypeOK'
<1>1. waiters' \in Seq(HeldLock)
  BY RemoveWaiterType DEF TypeOK, Fail
<1>2. todo' \in [Txns -> Seq(LockRequest)]
  BY DEF TypeOK, Fail
<1>3. pc' \in [Txns -> PCs] /\ result' \in [Txns -> {"ok", "retryable", "abort"}]
  BY DEF TypeOK, Fail, PCs
<1> QED
  BY <1>1, <1>2, <1>3 DEF TypeOK, Fail

\* Giving a transaction well-formed locks keeps the lock table well formed.
LEMMA SetLocksType ==
  ASSUME locks \subseteq HeldLock, NEW t \in Txns, NEW requests \in SUBSET LockRequest,
         SetLocks(t, requests)
  PROVE  locks' \subseteq HeldLock
BY DEF SetLocks, HeldLock

\* TypeOK is inductive.
LEMMA TypeOKStep == TypeOK /\ [Next]_vars => TypeOK'
<1> SUFFICES ASSUME TypeOK, [Next]_vars
             PROVE  TypeOK'
  OBVIOUS
<1> USE DEF PCs
<1>1. CASE UNCHANGED vars
  BY <1>1 DEF TypeOK, vars
<1>2. ASSUME NEW t \in Txns, BeginStatement(t)
      PROVE  TypeOK'
  <2>1. HeldBy(t) \subseteq LockRequest
    BY DEF TypeOK, HeldBy, HeldLock
  <2> QED
    BY <1>2, <2>1 DEF TypeOK, BeginStatement
<1>3. ASSUME NEW t \in Txns, EndStatement(t)
      PROVE  TypeOK'
  BY <1>3 DEF TypeOK, EndStatement
<1>4. ASSUME NEW t \in Txns, NEW batch \in CallBatches(t), BeginAcquire(t, batch)
      PROVE  TypeOK'
  <2>1. PICK order \in AcquisitionOrders(batch) : todo' = [todo EXCEPT ![t] = order]
    BY Zenon, <1>4 DEF BeginAcquire
  <2>2. todo' \in [Txns -> Seq(LockRequest)]
    BY <2>1, AcquisitionOrderType DEF TypeOK
  <2> QED
    BY <1>4, <2>2 DEF TypeOK, BeginAcquire
<1>5. ASSUME NEW t \in Txns, EndAcquire(t)
      PROVE  TypeOK'
  BY <1>5 DEF TypeOK, EndAcquire
<1>6. ASSUME NEW t \in Txns, SkipCovered(t)
      PROVE  TypeOK'
  <2>1. Tail(todo[t]) \in Seq(LockRequest)
    BY <1>6, RequestType DEF SkipCovered
  <2> QED
    BY <1>6, <2>1 DEF TypeOK, SkipCovered
<1>7. ASSUME NEW t \in Txns, GrantRequest(t)
      PROVE  TypeOK'
  <2>1. Tail(todo[t]) \in Seq(LockRequest) /\ Request(t) \in LockRequest
    BY <1>7, RequestType DEF GrantRequest
  <2>2. waiters' \in Seq(HeldLock)
    BY <1>7, RemoveWaiterType DEF TypeOK, GrantRequest
  <2>3. locks' \subseteq HeldLock
    BY <1>7, <2>1 DEF TypeOK, GrantRequest, Grant, HeldLock
  <2> QED
    BY <1>7, <2>1, <2>2, <2>3 DEF TypeOK, GrantRequest
<1>8. ASSUME NEW t \in Txns, RefuseGrant(t) \/ RefuseWait(t) \/ ExpireBeforeWait(t) \/ Timeout(t)
      PROVE  TypeOK'
  BY <1>8, FailType DEF RefuseGrant, RefuseWait, ExpireBeforeWait, Timeout
<1>9. ASSUME NEW t \in Txns, Wait(t)
      PROVE  TypeOK'
  <2>1. Request(t) \in LockRequest
    BY <1>9, RequestType DEF Wait
  <2>2. waiters' \in Seq(HeldLock)
    <3>1. [txn |-> t, request |-> Request(t)] \in HeldLock
      BY <2>1 DEF HeldLock
    <3>2. Append(waiters, [txn |-> t, request |-> Request(t)]) \in Seq(HeldLock)
      BY <3>1 DEF TypeOK
    <3> QED
      BY <1>9, <3>2 DEF TypeOK, Wait, Enqueued
  <2> QED
    BY <1>9, <2>2 DEF TypeOK, Wait
<1>10. ASSUME NEW t \in Txns, Wake(t) \/ WakeSpuriously(t)
       PROVE  TypeOK'
  BY Zenon, <1>10 DEF TypeOK, Wake, WakeSpuriously
<1>11. ASSUME NEW t \in Txns, Restore(t)
       PROVE  TypeOK'
  <2>1. locks' \subseteq HeldLock
    BY Zenon, <1>11, SetLocksType DEF TypeOK, Restore
  <2>2. waiters' \in Seq(HeldLock)
    BY <1>11, RemoveWaiterType DEF TypeOK, Restore
  <2> QED
    BY <1>11, <2>1, <2>2 DEF TypeOK, Restore
<1>12. ASSUME NEW t \in Txns, Release(t)
       PROVE  TypeOK'
  <2>1. locks' \subseteq HeldLock
    BY <1>12, SetLocksType DEF TypeOK, Release
  <2>2. waiters' \in Seq(HeldLock)
    BY <1>12, RemoveWaiterType DEF TypeOK, Release
  <2> QED
    BY <1>12, <2>1, <2>2 DEF TypeOK, Release
<1>13. ASSUME NEW t \in Txns, FinishUnreleased(t) \/ NotifyAll(t)
       PROVE  TypeOK'
  <2>1. CASE FinishUnreleased(t)
    BY <2>1 DEF TypeOK, FinishUnreleased
  <2>2. CASE NotifyAll(t)
    <3>1. AfterNotify(t) \in PCs
      BY <2>2 DEF NotifyAll, AfterNotify
    <3>2. notified' \subseteq Txns
      BY <2>2 DEF NotifyAll
    <3> QED
      BY <2>2, <3>1, <3>2 DEF TypeOK, NotifyAll
  <2> QED
    BY <1>13, <2>1, <2>2
<1> QED
  BY Zenon, <1>1, <1>2, <1>3, <1>4, <1>5, <1>6, <1>7, <1>8, <1>9, <1>10, <1>11, <1>12, <1>13
     DEF Next, AcquireStep

\* Every state of the lock manager is well typed.
THEOREM TypeCorrect == Spec => []TypeOK
<1>1. Init => TypeOK
  BY DEF Init, TypeOK, PCs
<1> QED
  BY <1>1, TypeOKStep, PTL DEF Spec

-----------------------------------------------------------------------------
(* Mutual exclusion.  Conflicting grants are prevented by the blockers of  *)
(* LockTable, but a restore puts locks back without looking at them: what  *)
(* makes that safe is that the savepoint is still covered.  The inductive  *)
(* invariant therefore joins the two.                                      *)

ExclusionInv == TypeOK /\ MutualExclusion /\ SavepointStillHeld

\* Steps that leave the lock table and the savepoints alone keep both.
LEMMA ExclusionUnchanged ==
  ASSUME ExclusionInv, UNCHANGED <<locks, inStatement, savepoint>>
  PROVE  MutualExclusion' /\ SavepointStillHeld'
BY DEF ExclusionInv, MutualExclusion, SavepointStillHeld, Covered, HeldBy

\* A grant without blockers keeps locks exclusive and savepoints covered.
LEMMA ExclusionGrant ==
  ASSUME ExclusionInv, NEW t \in Txns, GrantRequest(t)
  PROVE  MutualExclusion' /\ SavepointStillHeld'
<1> DEFINE new == [txn |-> t, request |-> Request(t)]
<1>1. Request(t) \in LockRequest
  BY RequestType DEF ExclusionInv, GrantRequest
<1>2. locks' = (locks \ Replaced(t, Request(t))) \cup {new}
  BY DEF GrantRequest, Grant
<1>3. locks \subseteq HeldLock
  BY DEF ExclusionInv, TypeOK
<1>4. \A h \in locks : h.txn # t => ~Conflict(h.request, Request(t)) /\ ~Conflict(Request(t), h.request)
  <2>1. LockBlockers(t, Request(t)) = {}
    BY DEF GrantRequest, Blockers
  <2>2. \A h \in locks : h.txn # t => ~Conflict(h.request, Request(t))
    BY Zenon, <2>1 DEF LockBlockers
  <2> QED
    BY <1>1, <1>3, <2>2, ConflictSymmetric DEF HeldLock
<1>5. MutualExclusion'
  BY <1>2, <1>4 DEF ExclusionInv, MutualExclusion
<1>6. ASSUME NEW u \in inStatement', NEW request \in savepoint'[u]
      PROVE  Covered(u, request)'
  <2>1. u \in inStatement /\ request \in savepoint[u] /\ u \in Txns /\ request \in LockRequest
    BY <1>6 DEF GrantRequest, ExclusionInv, TypeOK
  <2>2. PICK h \in locks : h.txn = u /\ Covers(h.request, request)
    BY <2>1 DEF ExclusionInv, SavepointStillHeld, Covered, HeldBy
  <2>3. CASE h \in locks'
    BY <2>2, <2>3 DEF Covered, HeldBy
  <2>4. CASE h \notin locks'
    <3>1. u = t /\ Covers(Request(t), h.request)
      BY <1>2, <2>2, <2>4 DEF Replaced
    <3>2. Covers(Request(t), request)
      BY SMTT(20), <1>1, <1>3, <2>1, <2>2, <3>1, CoversTransitive DEF HeldLock
    <3>3. new \in locks' /\ new.txn = u /\ new.request = Request(t)
      BY <1>2, <3>1
    <3>4. \E l \in locks' : l.txn = u /\ Covers(l.request, request)
      BY <3>2, <3>3
    <3> QED
      BY <3>4 DEF Covered, HeldBy
  <2> QED
    BY <2>3, <2>4
<1> QED
  BY <1>5, <1>6 DEF SavepointStillHeld

\* Putting back or dropping the locks of one transaction keeps locks exclusive, as
\* long as each lock put back is covered by one the transaction still holds.
LEMMA ExclusionSetLocks ==
  ASSUME ExclusionInv, NEW t \in Txns, NEW requests \in SUBSET LockRequest,
         \A request \in requests : Covered(t, request),
         SetLocks(t, requests),
         inStatement' = inStatement \ {t}, savepoint' = [savepoint EXCEPT ![t] = {}]
  PROVE  MutualExclusion' /\ SavepointStillHeld'
<1>1. locks' = {h \in locks : h.txn # t} \cup {[txn |-> t, request |-> r] : r \in requests}
  BY DEF SetLocks
<1>2. locks \subseteq HeldLock
  BY DEF ExclusionInv, TypeOK
<1>3. ASSUME NEW r \in requests, NEW h \in locks, h.txn # t
      PROVE  ~Conflict(r, h.request) /\ ~Conflict(h.request, r)
  <2>1. PICK l \in locks : l.txn = t /\ Covers(l.request, r)
    BY DEF Covered, HeldBy
  <2>2. ~Conflict(l.request, h.request)
    BY <1>3, <2>1 DEF ExclusionInv, MutualExclusion
  <2> QED
    BY <1>2, <1>3, <2>1, <2>2, CoverSound, ConflictSymmetric DEF HeldLock
<1>4. MutualExclusion'
  BY <1>1, <1>3 DEF ExclusionInv, MutualExclusion
<1>5. ASSUME NEW u \in inStatement', NEW request \in savepoint'[u]
      PROVE  Covered(u, request)'
  <2>1. u \in inStatement /\ u # t /\ request \in savepoint[u]
    BY <1>5 DEF ExclusionInv, TypeOK
  <2>2. PICK h \in locks : h.txn = u /\ Covers(h.request, request)
    BY <2>1 DEF ExclusionInv, SavepointStillHeld, Covered, HeldBy
  <2> QED
    BY <1>1, <2>1, <2>2 DEF Covered, HeldBy
<1> QED
  BY <1>4, <1>5 DEF SavepointStillHeld

\* Every step of the lock manager keeps the joint invariant.
LEMMA ExclusionStep ==
  ASSUME ExclusionInv, [Next]_vars
  PROVE  ExclusionInv'
<1>1. TypeOK'
  BY TypeOKStep DEF ExclusionInv
<1>2. MutualExclusion' /\ SavepointStillHeld'
  <2>1. CASE UNCHANGED vars
    BY <2>1, ExclusionUnchanged DEF vars
  <2>2. ASSUME NEW t \in Txns, BeginStatement(t)
        PROVE  MutualExclusion' /\ SavepointStillHeld'
    <3>1. MutualExclusion'
      BY <2>2 DEF BeginStatement, ExclusionInv, MutualExclusion
    <3>2. ASSUME NEW u \in inStatement', NEW request \in savepoint'[u]
          PROVE  Covered(u, request)'
      <4>1. CASE u = t
        <5>1. request \in HeldBy(t) /\ request \in LockRequest
          BY SMTT(20), <2>2, <3>2, <4>1 DEF BeginStatement, ExclusionInv, TypeOK, HeldBy, HeldLock
        <5> QED
          BY <2>2, <4>1, <5>1, CoversReflexive DEF BeginStatement, Covered, HeldBy
      <4>2. CASE u # t
        BY Zenon, <2>2, <3>2, <4>2
        DEF BeginStatement, ExclusionInv, TypeOK, SavepointStillHeld, Covered, HeldBy
      <4> QED
        BY <4>1, <4>2
    <3> QED
      BY <3>1, <3>2 DEF SavepointStillHeld
  <2>3. ASSUME NEW t \in Txns, EndStatement(t)
        PROVE  MutualExclusion' /\ SavepointStillHeld'
    BY <2>3 DEF EndStatement, ExclusionInv, TypeOK, MutualExclusion, SavepointStillHeld,
       Covered, HeldBy
  <2>4. ASSUME NEW t \in Txns, NEW batch, BeginAcquire(t, batch)
        PROVE  MutualExclusion' /\ SavepointStillHeld'
    BY <2>4, ExclusionUnchanged DEF BeginAcquire
  <2>7. ASSUME NEW t \in Txns, AcquireStep(t)
        PROVE  MutualExclusion' /\ SavepointStillHeld'
    <3>1. CASE GrantRequest(t)
      BY Zenon, <3>1, ExclusionGrant
    <3>2. CASE EndAcquire(t) \/ SkipCovered(t) \/ RefuseGrant(t)
      BY Zenon, <3>2, ExclusionUnchanged DEF EndAcquire, SkipCovered, RefuseGrant, Fail
    <3>3. CASE RefuseWait(t) \/ Wait(t) \/ ExpireBeforeWait(t)
      BY Zenon, <3>3, ExclusionUnchanged DEF RefuseWait, Wait, ExpireBeforeWait, Fail
    <3> QED
      BY <2>7, <3>1, <3>2, <3>3 DEF AcquireStep
  <2>8. ASSUME NEW t \in Txns,
               Wake(t) \/ WakeSpuriously(t) \/ Timeout(t) \/ FinishUnreleased(t) \/ NotifyAll(t)
        PROVE  MutualExclusion' /\ SavepointStillHeld'
    BY <2>8, ExclusionUnchanged
    DEF Wake, WakeSpuriously, Timeout, Fail, FinishUnreleased, NotifyAll
  <2>5. ASSUME NEW t \in Txns, Restore(t)
        PROVE  MutualExclusion' /\ SavepointStillHeld'
    BY Zenon, <2>5, ExclusionSetLocks
    DEF Restore, ExclusionInv, TypeOK, SavepointStillHeld
  <2>6. ASSUME NEW t \in Txns, Release(t)
        PROVE  MutualExclusion' /\ SavepointStillHeld'
    BY Zenon, <2>6, ExclusionSetLocks DEF Release
  <2> QED
    BY <2>1, <2>2, <2>3, <2>4, <2>5, <2>6, <2>7, <2>8 DEF Next
<1> QED
  BY <1>1, <1>2 DEF ExclusionInv

\* The empty lock table satisfies it
LEMMA ExclusionInit == Init => ExclusionInv
<1>1. Init => TypeOK
  BY LockManagerAssumption DEF Init, TypeOK, PCs
<1>2. Init => MutualExclusion /\ SavepointStillHeld
  BY DEF Init, MutualExclusion, SavepointStillHeld
<1> QED
  BY <1>1, <1>2 DEF ExclusionInv

\* Two transactions never hold conflicting locks, whatever is granted, escalated,
\* restored to a savepoint or released, and in whatever order: LockTable keeps
\* its entries pairwise compatible across transactions.
THEOREM MutualExclusionHolds == Spec => []MutualExclusion
<1>1. ExclusionInv => MutualExclusion
  BY DEF ExclusionInv
<1> QED
  BY <1>1, ExclusionInit, ExclusionStep, PTL DEF Spec

\* While a graph statement runs, LockManager::restore could put back every lock of
\* its savepoint without a conflict: each is still covered by a lock held now.
THEOREM SavepointHolds == Spec => []SavepointStillHeld
<1>1. ExclusionInv => SavepointStillHeld
  BY DEF ExclusionInv
<1> QED
  BY <1>1, ExclusionInit, ExclusionStep, PTL DEF Spec

-----------------------------------------------------------------------------
(* The wait queue: nobody new gets in the way of a waiter, no cycle of      *)
(* waiters goes undetected, no wakeup is lost, and a finished transaction   *)
(* leaves nothing behind                                                    *)

USE Zenon

\* A thread about to call notify_all
NotifyPCs == {"fail_notify", "restore_notify", "release_notify"}

\* A transaction is queued once
Distinct == \A i, j \in DOMAIN waiters : waiters[i].txn = waiters[j].txn => i = j

\* The queued request is the one its transaction still works on
WaitingFor(t, request) ==
  /\ pc[t] \in {"waiting", "acquiring"} /\ todo[t] # <<>>
  /\ ~IsCovered(t) /\ request = Request(t)

\* What the queue says of the threads and the threads of the queue
WaitInv ==
  /\ Distinct
  /\ \A i \in DOMAIN waiters : WaitingFor(waiters[i].txn, waiters[i].request)
  /\ \A t \in Txns : pc[t] = "waiting" => t \in Queued
  /\ \A t \in Txns : owner = t <=> pc[t] = "acquiring"

\* t holds nothing
NoLocks(t) == \A h \in locks : h.txn # t

\* A released transaction holds nothing, and a one-shot transaction holds nothing
\* until its only request is granted
HoldsRightly(t) ==
  /\ pc[t] \in {"release_notify", "finished"} => NoLocks(t)
  /\ t \in OneShot =>
       /\ pc[t] \notin {"statement", "restore_notify", "aborting"}
       /\ t \notin inStatement
       /\ Len(todo[t]) <= 1
       /\ \/ pc[t] \in {"active", "waiting", "fail_notify", "failed"}
          \/ pc[t] = "acquiring" /\ todo[t] # <<>>
          => NoLocks(t)

\* ... for every transaction
HoldInv == \A t \in Txns : HoldsRightly(t)

\* The inductive invariant
QueueInv == ExclusionInv /\ WaitInv /\ HoldInv /\ NoLostWakeup /\ NoUndetectedDeadlock
-----------------------------------------------------------------------------
(* The queue *)

\* b holds a lock against the k-th waiter, or a waiter ahead of it
HoldsAgainst(b, k) ==
  b # waiters[k].txn /\ \E h \in locks : h.txn = b /\ Conflict(h.request, waiters[k].request)
AheadOf(b, k) ==
  \E j \in DOMAIN waiters : j < k /\ waiters[j].txn = b /\ Conflict(waiters[j].request, waiters[k].request)

\* The blockers of the k-th waiter, in terms of its place
LEMMA WaiterBlockers ==
  waiters \in Seq(HeldLock) /\ Distinct =>
    \A k \in DOMAIN waiters : \A b :
      b \in BlockersOfWaiter(waiters[k].txn) <=> HoldsAgainst(b, k) \/ AheadOf(b, k)
<1> SUFFICES ASSUME waiters \in Seq(HeldLock), Distinct, NEW k \in DOMAIN waiters, NEW b
             PROVE  b \in BlockersOfWaiter(waiters[k].txn) <=> HoldsAgainst(b, k) \/ AheadOf(b, k)
  OBVIOUS
<1> DEFINE t == waiters[k].txn
<1>1. Position(t) = k
  BY DEF Position, Distinct
<1>2. \A j \in DOMAIN waiters : (\A m \in 1 .. j : waiters[m].txn # t) <=> j < k
  <2>1. DOMAIN waiters = 1 .. Len(waiters) /\ Len(waiters) \in Nat
    BY SMT
  <2> SUFFICES ASSUME NEW j \in DOMAIN waiters
               PROVE  (\A m \in 1 .. j : waiters[m].txn # t) <=> j < k
    OBVIOUS
  <2>2. ASSUME j < k, NEW m \in 1 .. j
        PROVE  waiters[m].txn # t
    <3>1. m \in DOMAIN waiters /\ m # k
      BY SMT, <2>1, <2>2
    <3> QED BY <3>1 DEF Distinct
  <2>3. ~(j < k) => k \in 1 .. j
    BY SMT, <2>1
  <2> QED BY <2>2, <2>3
<1>3. b \in LockBlockers(t, waiters[k].request) <=> HoldsAgainst(b, k)
  BY DEF LockBlockers, HoldsAgainst
<1>4. b \in QueueBlockers(t, waiters[k].request) <=> AheadOf(b, k)
  BY <1>2 DEF QueueBlockers, AheadOf
<1> QED BY <1>1, <1>3, <1>4 DEF BlockersOfWaiter, Blockers

\* The blockers of a newcomer: everybody in the queue is ahead of it
LEMMA NewcomerBlockers ==
  ASSUME NEW t, NEW request, t \notin Queued, waiters \in Seq(HeldLock), NEW b
  PROVE  b \in Blockers(t, request) <=>
           \/ b # t /\ \E h \in locks : h.txn = b /\ Conflict(h.request, request)
           \/ \E j \in DOMAIN waiters : waiters[j].txn = b /\ Conflict(waiters[j].request, request)
<1>1. \A j \in DOMAIN waiters : \A m \in 1 .. j : m \in DOMAIN waiters
  BY SMT
<1>2. \A j \in DOMAIN waiters : \A m \in 1 .. j : waiters[m].txn # t
  BY <1>1 DEF Queued
<1>3. b \in LockBlockers(t, request) <=> b # t /\ \E h \in locks : h.txn = b /\ Conflict(h.request, request)
  BY DEF LockBlockers
<1>4. b \in QueueBlockers(t, request) <=>
        \E j \in DOMAIN waiters : waiters[j].txn = b /\ Conflict(waiters[j].request, request)
  BY <1>2 DEF QueueBlockers
<1> QED BY <1>3, <1>4 DEF Blockers

\* Vec::remove closes the gap
LEMMA RemovedAt ==
  ASSUME waiters \in Seq(HeldLock), NEW p \in DOMAIN waiters
  PROVE  /\ DOMAIN WithoutWaiter(p) = 1 .. Len(waiters) - 1
         /\ \A i \in 1 .. Len(waiters) - 1 :
              WithoutWaiter(p)[i] = IF i < p THEN waiters[i] ELSE waiters[i + 1]
<1>1. p \in 1 .. Len(waiters) /\ Len(waiters) \in Nat
  BY SMT
<1> DEFINE f == SubSeq(waiters, 1, p - 1)
           g == SubSeq(waiters, p + 1, Len(waiters))
<1>2. /\ f \in Seq(HeldLock) /\ Len(f) = p - 1 /\ \A i \in 1 .. p - 1 : f[i] = waiters[i]
  BY SMT, <1>1
<1>3. /\ g \in Seq(HeldLock) /\ Len(g) = Len(waiters) - p
      /\ \A i \in 1 .. Len(waiters) - p : g[i] = waiters[p + i]
  BY SMT, <1>1
<1> HIDE DEF f, g
<1>4. /\ DOMAIN (f \o g) = 1 .. Len(waiters) - 1
      /\ \A i \in 1 .. Len(waiters) - 1 : (f \o g)[i] = IF i < p THEN waiters[i] ELSE waiters[i + 1]
  BY SMTT(20), <1>1, <1>2, <1>3
<1> QED BY <1>4 DEF WithoutWaiter, f, g

\* waiters' holds the waiters other than t, in their order: `up` is where each was
Leaves(t, up) ==
  /\ \A i \in DOMAIN waiters' :
       up[i] \in DOMAIN waiters /\ waiters'[i] = waiters[up[i]] /\ waiters'[i].txn # t
  /\ \A i, j \in DOMAIN waiters' : up[i] < up[j] <=> i < j
  /\ \A k \in DOMAIN waiters : waiters[k].txn # t => \E i \in DOMAIN waiters' : up[i] = k

\* Removal keeps the order of the others
LEMMA RemovalLeaves ==
  ASSUME waiters \in Seq(HeldLock), Distinct, NEW t, RemoveWaiter(t)
  PROVE  \E up : Leaves(t, up)
<1>0. DOMAIN waiters = 1 .. Len(waiters) /\ Len(waiters) \in Nat
  BY SMT
<1>1. CASE t \notin Queued
  <2> DEFINE up == [i \in DOMAIN waiters |-> i]
  <2>1. waiters' = waiters /\ \A i \in DOMAIN waiters : waiters[i].txn # t
    BY <1>1 DEF RemoveWaiter, Queued
  <2>2. \A i \in DOMAIN waiters : up[i] = i
    OBVIOUS
  <2> HIDE DEF up
  <2>3. Leaves(t, up)
    BY <2>1, <2>2 DEF Leaves
  <2> QED BY <2>3
<1>2. CASE t \in Queued
  <2> DEFINE p == Position(t)
             up == [i \in 1 .. Len(waiters) - 1 |-> IF i < p THEN i ELSE i + 1]
  <2>1. p \in DOMAIN waiters /\ waiters[p].txn = t /\ waiters' = WithoutWaiter(p)
    BY <1>2 DEF Queued, Position, RemoveWaiter
  <2> HIDE DEF p
  <2>2. /\ DOMAIN waiters' = 1 .. Len(waiters) - 1
        /\ \A i \in 1 .. Len(waiters) - 1 : waiters'[i] = IF i < p THEN waiters[i] ELSE waiters[i + 1]
    BY <2>1, RemovedAt
  <2>3. \A i \in DOMAIN waiters' : up[i] \in DOMAIN waiters /\ waiters'[i] = waiters[up[i]] /\ up[i] # p
    BY SMT, <1>0, <2>1, <2>2
  <2>4. \A i \in DOMAIN waiters' : waiters'[i].txn # t
    <3> HIDE DEF up
    <3> QED BY <2>1, <2>3 DEF Distinct
  <2>5. \A i, j \in DOMAIN waiters' : up[i] < up[j] <=> i < j
    BY SMT, <1>0, <2>1, <2>2
  <2>6. ASSUME NEW k \in DOMAIN waiters, waiters[k].txn # t
        PROVE  \E i \in DOMAIN waiters' : up[i] = k
    <3>1. k # p
      BY <2>1, <2>6
    <3>2. CASE k < p
      <4>1. k \in DOMAIN waiters' /\ up[k] = k
        BY SMT, <1>0, <2>1, <2>2, <3>2
      <4> QED BY <4>1
    <3>3. CASE ~(k < p)
      <4>1. k - 1 \in 1 .. Len(waiters) - 1 /\ ~(k - 1 < p) /\ (k - 1) + 1 = k
        BY SMT, <1>0, <2>1, <3>1, <3>3
      <4>2. k - 1 \in DOMAIN waiters' /\ up[k - 1] = k
        BY <2>2, <4>1
      <4> QED BY <4>2
    <3> QED BY <3>2, <3>3
  <2> HIDE DEF up
  <2>7. Leaves(t, up)
    BY <2>3, <2>4, <2>5, <2>6 DEF Leaves
  <2> QED BY <2>7
<1> QED BY <1>1, <1>2

\* After a removal everybody is still queued once
LEMMA LeavesOthers ==
  ASSUME waiters \in Seq(HeldLock), waiters' \in Seq(HeldLock), Distinct, NEW t, NEW up, Leaves(t, up)
  PROVE  Distinct' /\ Queued' = Queued \ {t}
<1>1. ASSUME NEW i \in DOMAIN waiters', NEW j \in DOMAIN waiters', waiters'[i].txn = waiters'[j].txn
      PROVE  i = j
  <2>1. /\ up[i] \in DOMAIN waiters /\ waiters'[i] = waiters[up[i]]
        /\ up[j] \in DOMAIN waiters /\ waiters'[j] = waiters[up[j]]
    BY DEF Leaves
  <2>2. up[i] = up[j]
    BY <1>1, <2>1 DEF Distinct
  <2>3. ~(up[i] < up[j]) /\ ~(up[j] < up[i])
    BY SMT, <2>1, <2>2
  <2>4. ~(i < j) /\ ~(j < i)
    BY <2>3 DEF Leaves
  <2> QED BY SMT, <2>4
<1>2. ASSUME NEW u
      PROVE  u \in Queued' <=> u \in Queued /\ u # t
  <2>1. ASSUME NEW i \in DOMAIN waiters', u = waiters'[i].txn
        PROVE  u \in Queued /\ u # t
    BY <2>1 DEF Leaves, Queued
  <2>2. ASSUME NEW k \in DOMAIN waiters, u = waiters[k].txn, u # t
        PROVE  u \in Queued'
    <3>1. PICK i \in DOMAIN waiters' : up[i] = k
      BY <2>2 DEF Leaves
    <3>2. waiters'[i] = waiters[k]
      BY <3>1 DEF Leaves
    <3> QED BY <2>2, <3>2 DEF Queued
  <2> QED BY <2>1, <2>2 DEF Queued
<1> QED BY <1>1, <1>2 DEF Distinct

\* The same before and after a step
LEMMA WaiterBlockersNext ==
  (waiters \in Seq(HeldLock) /\ Distinct =>
    \A k \in DOMAIN waiters : \A b :
      b \in BlockersOfWaiter(waiters[k].txn) <=> HoldsAgainst(b, k) \/ AheadOf(b, k))'
BY WaiterBlockers, PTL

\* The blockers of a transaction that is at place k after the step
LEMMA NextBlockers ==
  ASSUME waiters' \in Seq(HeldLock), Distinct', NEW k \in DOMAIN waiters', NEW u, u = waiters'[k].txn, NEW b
  PROVE  b \in BlockersOfWaiter(u)' <=> HoldsAgainst(b, k)' \/ AheadOf(b, k)'
<1>1. b \in (BlockersOfWaiter(waiters[k].txn))' <=> HoldsAgainst(b, k)' \/ AheadOf(b, k)'
  BY WaiterBlockersNext
<1>2. (BlockersOfWaiter(waiters[k].txn))' = BlockersOfWaiter(u)'
  BY DEF BlockersOfWaiter, Blockers, LockBlockers, QueueBlockers, Position
<1> QED BY <1>1, <1>2

\* When t leaves the queue, another waiter's blockers are old ones unless somebody
\* got a new lock against it
LEMMA Narrowed ==
  ASSUME waiters \in Seq(HeldLock), waiters' \in Seq(HeldLock), Distinct, NEW t, NEW up, Leaves(t, up),
         NEW i \in DOMAIN waiters', NEW u, u = waiters'[i].txn,
         \A h \in locks' : h.txn # u /\ Conflict(h.request, waiters'[i].request)
                             => h.txn \in BlockersOfWaiter(u)
  PROVE  BlockersOfWaiter(u)' \subseteq BlockersOfWaiter(u)
<1>1. Distinct'
  BY LeavesOthers
<1>2. up[i] \in DOMAIN waiters /\ waiters'[i] = waiters[up[i]]
  BY DEF Leaves
<1> SUFFICES ASSUME NEW b, b \in BlockersOfWaiter(u)'
             PROVE  b \in BlockersOfWaiter(u)
  OBVIOUS
<1>3. HoldsAgainst(b, i)' \/ AheadOf(b, i)'
  BY <1>1, NextBlockers
<1>4. CASE HoldsAgainst(b, i)'
  BY <1>4 DEF HoldsAgainst
<1>5. CASE AheadOf(b, i)'
  <2>1. PICK j \in DOMAIN waiters' :
          j < i /\ waiters'[j].txn = b /\ Conflict(waiters'[j].request, waiters'[i].request)
    BY <1>5 DEF AheadOf
  <2>2. up[j] \in DOMAIN waiters /\ waiters'[j] = waiters[up[j]] /\ up[j] < up[i]
    BY <2>1 DEF Leaves
  <2>3. AheadOf(b, up[i])
    BY <1>2, <2>1, <2>2 DEF AheadOf
  <2> QED BY <1>2, <2>3, WaiterBlockers
<1> QED BY <1>3, <1>4, <1>5

-----------------------------------------------------------------------------
(* Who does what *)

\* The disjunct of Next for one transaction
Step(t) ==
  \/ BeginStatement(t) \/ EndStatement(t)
  \/ \E batch \in CallBatches(t) : BeginAcquire(t, batch)
  \/ AcquireStep(t) \/ Wake(t) \/ WakeSpuriously(t) \/ Timeout(t)
  \/ Restore(t) \/ Release(t) \/ FinishUnreleased(t) \/ NotifyAll(t)

\* The request of a transaction depends on its own locks and its own call only
LEMMA SameRequest ==
  ASSUME NEW u, HeldBy(u)' = HeldBy(u), todo'[u] = todo[u]
  PROVE  Request(u)' = Request(u) /\ (IsCovered(u)' <=> IsCovered(u))
<1>1. Request(u)' = Request(u)
  BY DEF Request, NormalizedRequest, NarrowLocks
<1> QED BY <1>1 DEF IsCovered, Covered

\* A step of t moves nobody else and changes nobody else's locks
LEMMA OthersKept ==
  ASSUME TypeOK, NEW t \in Txns, Step(t), NEW u \in Txns, u # t
  PROVE  pc'[u] = pc[u] /\ todo'[u] = todo[u] /\ HeldBy(u)' = HeldBy(u)
<1>0. pc \in [Txns -> PCs] /\ todo \in [Txns -> Seq(LockRequest)]
  BY DEF TypeOK
<1>1. \E step : pc' = [pc EXCEPT ![t] = step] \/ pc' = pc
  BY DEF Step, BeginStatement, EndStatement, BeginAcquire, AcquireStep, EndAcquire, SkipCovered,
     GrantRequest, RefuseGrant, RefuseWait, Wait, ExpireBeforeWait, Fail, Wake, WakeSpuriously,
     Timeout, Restore, Release, FinishUnreleased, NotifyAll
<1>2. \E rest : todo' = [todo EXCEPT ![t] = rest] \/ todo' = todo
  BY DEF Step, BeginStatement, EndStatement, BeginAcquire, AcquireStep, EndAcquire, SkipCovered,
     GrantRequest, RefuseGrant, RefuseWait, Wait, ExpireBeforeWait, Fail, Wake, WakeSpuriously,
     Timeout, Restore, Release, FinishUnreleased, NotifyAll
<1>3. HeldBy(u)' = HeldBy(u)
  <2> SUFFICES \A h : h.txn = u => (h \in locks' <=> h \in locks)
    BY DEF HeldBy
  <2>1. CASE locks' = locks
    BY <2>1
  <2>2. ASSUME NEW requests, SetLocks(t, requests)
        PROVE  \A h : h.txn = u => (h \in locks' <=> h \in locks)
    <3>1. locks' = {h \in locks : h.txn # t} \cup {[txn |-> t, request |-> r] : r \in requests}
      BY <2>2 DEF SetLocks
    <3> QED BY SMT, <3>1
  <2>3. CASE Grant(t, Request(t))
    <3>1. PICK new : new.txn = t /\ locks' = (locks \ Replaced(t, Request(t))) \cup {new}
      BY <2>3 DEF Grant
    <3> QED BY <3>1 DEF Replaced
  <2>4. \/ locks' = locks
        \/ \E requests : SetLocks(t, requests)
        \/ Grant(t, Request(t))
    BY DEF Step, BeginStatement, EndStatement, BeginAcquire, AcquireStep, EndAcquire, SkipCovered,
       GrantRequest, RefuseGrant, RefuseWait, Wait, ExpireBeforeWait, Fail, Wake, WakeSpuriously,
       Timeout, Restore, Release, FinishUnreleased, NotifyAll
  <2> QED BY <2>1, <2>2, <2>3, <2>4
<1>4. pc'[u] = pc[u] /\ todo'[u] = todo[u]
  BY <1>0, <1>1, <1>2
<1> QED BY <1>3, <1>4

-----------------------------------------------------------------------------
(* How the blockers of a waiter change *)

\* A queued transaction waits for the request it works on
LEMMA OwnPlace ==
  ASSUME TypeOK, WaitInv, NEW t \in Queued
  PROVE  /\ t \in Txns /\ BlockersOfWaiter(t) = Blockers(t, Request(t))
         /\ \E p \in DOMAIN waiters : waiters[p].txn = t /\ waiters[p].request = Request(t)
<1>1. PICK p \in DOMAIN waiters : waiters[p].txn = t
  BY DEF Queued
<1>2. waiters[p] \in HeldLock
  BY SMT DEF TypeOK
<1>3. waiters[p].request = Request(t)
  BY <1>1 DEF WaitInv, WaitingFor
<1>4. Position(t) = p
  BY <1>1 DEF Position, WaitInv, Distinct
<1>5. BlockersOfWaiter(t) = Blockers(t, Request(t))
  BY <1>3, <1>4 DEF BlockersOfWaiter
<1> QED BY <1>1, <1>2, <1>3, <1>5 DEF HeldLock

\* Places hold transactions and lock requests
LEMMA PlaceType ==
  ASSUME TypeOK, NEW k \in DOMAIN waiters
  PROVE  waiters[k].txn \in Txns /\ waiters[k].request \in LockRequest
<1>1. waiters[k] \in HeldLock
  BY SMT DEF TypeOK
<1> QED BY <1>1 DEF HeldLock

\* A grant leaves every waiter with the blockers it had: the new lock blocks whom
\* the request blocked from the queue or the locks it replaces, and nobody ahead
LEMMA GrantBlockers ==
  ASSUME TypeOK, TypeOK', WaitInv, NEW t \in Txns, GrantRequest(t), NEW u \in Queued'
  PROVE  BlockersOfWaiter(u)' = BlockersOfWaiter(u)
<1> DEFINE new == [txn |-> t, request |-> Request(t)]
<1>0. /\ waiters \in Seq(HeldLock) /\ waiters' \in Seq(HeldLock) /\ locks \subseteq HeldLock
      /\ Distinct /\ Request(t) \in LockRequest
  BY RequestType DEF TypeOK, WaitInv, GrantRequest
<1>1. /\ RemoveWaiter(t) /\ Blockers(t, Request(t)) = {}
      /\ locks' = (locks \ Replaced(t, Request(t))) \cup {new}
  BY DEF GrantRequest, Grant
<1>2. PICK up : Leaves(t, up)
  BY <1>0, <1>1, RemovalLeaves
<1>3. PICK i \in DOMAIN waiters' : u = waiters'[i].txn
  BY DEF Queued
<1> DEFINE k == up[i]
<1>4. k \in DOMAIN waiters /\ waiters'[i] = waiters[k] /\ u # t /\ u = waiters[k].txn
  BY <1>2, <1>3 DEF Leaves
<1>5. waiters[k].request \in LockRequest
  BY <1>4, PlaceType
<1>6. new \in locks' /\ new.txn = t /\ new.request = Request(t)
  BY <1>1
<1> HIDE DEF k, new
<1>7. Distinct'
  BY <1>0, <1>2, LeavesOthers
<1>8. Conflict(Request(t), waiters[k].request) => t \in BlockersOfWaiter(u)
  <2> SUFFICES ASSUME Conflict(Request(t), waiters[k].request)
               PROVE  t \in BlockersOfWaiter(u)
    OBVIOUS
  <2>1. Conflict(waiters[k].request, Request(t))
    BY <1>0, <1>5, ConflictSymmetric
  <2>2. t \in Queued
    BY <1>0, <1>1, <1>4, <2>1, NewcomerBlockers
  <2>3. PICK p \in DOMAIN waiters : waiters[p].txn = t /\ waiters[p].request = Request(t)
    BY <2>2, OwnPlace
  <2>4. BlockersOfWaiter(t) = {}
    BY <1>1, <2>2, OwnPlace
  <2>5. ~(k < p)
    <3>1. k < p => AheadOf(u, p)
      BY <1>4, <2>1, <2>3 DEF AheadOf
    <3> QED BY <1>0, <2>3, <2>4, <3>1, WaiterBlockers
  <2>6. p < k
    <3>1. p # k
      BY <1>4, <2>3
    <3> QED BY SMT, <1>0, <1>4, <2>5, <3>1
  <2>7. AheadOf(t, k)
    BY <2>3, <2>6 DEF AheadOf
  <2> QED BY <1>0, <1>4, <2>7, WaiterBlockers
<1>9. ASSUME NEW h \in locks', h.txn # u, Conflict(h.request, waiters'[i].request)
      PROVE  h.txn \in BlockersOfWaiter(u)
  <2>1. CASE h \in locks
    <3>1. HoldsAgainst(h.txn, k)
      BY <1>4, <1>9, <2>1 DEF HoldsAgainst
    <3> QED BY <1>0, <1>4, <3>1, WaiterBlockers
  <2>2. CASE h = new
    BY <1>4, <1>6, <1>8, <1>9, <2>2
  <2> QED BY <1>1, <2>1, <2>2
<1>10. BlockersOfWaiter(u)' \subseteq BlockersOfWaiter(u)
  BY <1>0, <1>2, <1>3, <1>9, Narrowed
<1>11. Conflict(Request(t), waiters[k].request) => t \in BlockersOfWaiter(u)'
  <2>1. Conflict(Request(t), waiters[k].request) => HoldsAgainst(t, i)'
    BY <1>3, <1>4, <1>6 DEF HoldsAgainst
  <2> QED BY <1>0, <1>3, <1>7, <2>1, NextBlockers
<1>12. ASSUME NEW b \in BlockersOfWaiter(u)
       PROVE  b \in BlockersOfWaiter(u)'
  <2>1. HoldsAgainst(b, k) \/ AheadOf(b, k)
    BY <1>0, <1>4, WaiterBlockers
  <2>2. ASSUME NEW h \in locks, h.txn = b, b # u, Conflict(h.request, waiters[k].request)
        PROVE  b \in BlockersOfWaiter(u)'
    <3>1. CASE h \in locks'
      <4>1. HoldsAgainst(b, i)'
        BY <1>3, <1>4, <2>2, <3>1 DEF HoldsAgainst
      <4> QED BY <1>0, <1>3, <1>7, <4>1, NextBlockers
    <3>2. CASE h \notin locks'
      <4>1. h.txn = t /\ Covers(Request(t), h.request) /\ h.request \in LockRequest
        BY <1>0, <1>1, <3>2 DEF Replaced, HeldLock
      <4>2. Conflict(Request(t), waiters[k].request)
        BY <1>0, <1>5, <2>2, <4>1, CoverSound
      <4> QED BY <1>11, <2>2, <4>1, <4>2
    <3> QED BY <3>1, <3>2
  <2>3. ASSUME NEW j \in DOMAIN waiters, j < k, waiters[j].txn = b,
               Conflict(waiters[j].request, waiters[k].request)
        PROVE  b \in BlockersOfWaiter(u)'
    <3>1. CASE b = t
      <4>1. waiters[j].request = Request(t)
        BY <2>3, <3>1 DEF WaitInv, WaitingFor
      <4> QED BY <1>11, <2>3, <3>1, <4>1
    <3>2. CASE b # t
      <4>1. PICK m \in DOMAIN waiters' : up[m] = j
        BY <1>2, <2>3, <3>2 DEF Leaves
      <4>2. waiters'[m] = waiters[j] /\ m < i
        BY <1>2, <2>3, <4>1 DEF Leaves, k
      <4>3. AheadOf(b, i)'
        BY <1>4, <2>3, <4>2 DEF AheadOf
      <4> QED BY <1>0, <1>3, <1>7, <4>3, NextBlockers
    <3> QED BY <3>1, <3>2
  <2> QED BY <1>4, <2>1, <2>2, <2>3 DEF HoldsAgainst, AheadOf
<1> QED BY <1>10, <1>12

\* Going back to a savepoint, or to no locks, blocks nobody anew: each lock put
\* back is covered by one that is held
LEMMA SetLocksBlockers ==
  ASSUME TypeOK, TypeOK', WaitInv, NEW t \in Txns, NEW requests \in SUBSET LockRequest,
         \A request \in requests : Covered(t, request),
         SetLocks(t, requests), RemoveWaiter(t), NEW u \in Queued'
  PROVE  BlockersOfWaiter(u)' \subseteq BlockersOfWaiter(u)
<1>0. /\ waiters \in Seq(HeldLock) /\ waiters' \in Seq(HeldLock) /\ locks \subseteq HeldLock /\ Distinct
  BY DEF TypeOK, WaitInv
<1>1. locks' = {h \in locks : h.txn # t} \cup {[txn |-> t, request |-> r] : r \in requests}
  BY DEF SetLocks
<1>2. PICK up : Leaves(t, up)
  BY <1>0, RemovalLeaves
<1>3. PICK i \in DOMAIN waiters' : u = waiters'[i].txn
  BY DEF Queued
<1> DEFINE k == up[i]
<1>4. k \in DOMAIN waiters /\ waiters'[i] = waiters[k] /\ u # t /\ u = waiters[k].txn
  BY <1>2, <1>3 DEF Leaves
<1>5. waiters[k].request \in LockRequest
  BY <1>4, PlaceType
<1> HIDE DEF k
<1>6. ASSUME NEW h \in locks, h.txn # u, Conflict(h.request, waiters[k].request)
      PROVE  h.txn \in BlockersOfWaiter(u)
  <2>1. HoldsAgainst(h.txn, k)
    BY <1>4, <1>6 DEF HoldsAgainst
  <2> QED BY <1>0, <1>4, <2>1, WaiterBlockers
<1>7. ASSUME NEW h \in locks', h.txn # u, Conflict(h.request, waiters'[i].request)
      PROVE  h.txn \in BlockersOfWaiter(u)
  <2>1. CASE h \in locks
    BY <1>4, <1>6, <1>7, <2>1
  <2>2. CASE h \notin locks
    <3>1. PICK r \in requests : h = [txn |-> t, request |-> r]
      BY <1>1, <2>2
    <3>2. h.txn = t /\ h.request = r
      BY <3>1
    <3>3. PICK l \in locks : l.txn = t /\ Covers(l.request, r)
      BY DEF Covered, HeldBy
    <3>4. l.request \in LockRequest
      BY <1>0 DEF HeldLock
    <3>5. Conflict(l.request, waiters[k].request)
      BY <1>4, <1>5, <1>7, <3>2, <3>3, <3>4, CoverSound
    <3> QED BY <1>4, <1>6, <3>2, <3>3, <3>5
  <2> QED BY <2>1, <2>2
<1> QED BY <1>0, <1>2, <1>3, <1>7, Narrowed

\* A failed request that leaves the queue blocks nobody anew
LEMMA FailBlockers ==
  ASSUME TypeOK, TypeOK', WaitInv, NEW t \in Txns, RemoveWaiter(t), locks' = locks, NEW u \in Queued'
  PROVE  BlockersOfWaiter(u)' \subseteq BlockersOfWaiter(u)
<1>0. waiters \in Seq(HeldLock) /\ waiters' \in Seq(HeldLock) /\ Distinct
  BY DEF TypeOK, WaitInv
<1>1. PICK up : Leaves(t, up)
  BY <1>0, RemovalLeaves
<1>2. PICK i \in DOMAIN waiters' : u = waiters'[i].txn
  BY DEF Queued
<1>3. up[i] \in DOMAIN waiters /\ waiters'[i] = waiters[up[i]]
  BY <1>1 DEF Leaves
<1>4. ASSUME NEW h \in locks', h.txn # u, Conflict(h.request, waiters'[i].request)
      PROVE  h.txn \in BlockersOfWaiter(u)
  <2>1. HoldsAgainst(h.txn, up[i])
    BY <1>2, <1>3, <1>4 DEF HoldsAgainst
  <2> QED BY <1>0, <1>2, <1>3, <2>1, WaiterBlockers
<1> QED BY <1>0, <1>1, <1>2, <1>4, Narrowed

\* A new waiter goes behind everybody and changes nobody's blockers
LEMMA WaitBlockers ==
  ASSUME TypeOK, TypeOK', WaitInv, NEW t \in Txns, t \notin Queued, Wait(t)
  PROVE  /\ Distinct' /\ Queued' = Queued \cup {t}
         /\ \A u \in Queued : BlockersOfWaiter(u)' = BlockersOfWaiter(u)
         /\ BlockersOfWaiter(t)' = Blockers(t, Request(t))
<1> DEFINE w == [txn |-> t, request |-> Request(t)]
<1> PICK n : n = Len(waiters) + 1
  OBVIOUS
<1>0. /\ waiters \in Seq(HeldLock) /\ waiters' \in Seq(HeldLock) /\ Distinct
      /\ waiters' = Append(waiters, w) /\ locks' = locks
  BY DEF TypeOK, WaitInv, Wait, Enqueued
<1>1. w.txn = t /\ w.request = Request(t)
  OBVIOUS
<1> HIDE DEF w
<1>2. /\ n \in DOMAIN waiters' /\ waiters'[n] = w
      /\ \A k \in DOMAIN waiters : k \in DOMAIN waiters' /\ waiters'[k] = waiters[k] /\ k < n /\ k # n
      /\ \A k \in DOMAIN waiters' : k = n \/ k \in DOMAIN waiters
      /\ \A k \in DOMAIN waiters : \A j \in DOMAIN waiters' : j < k => j \in DOMAIN waiters
      /\ \A j \in DOMAIN waiters' : j < n => j \in DOMAIN waiters
  BY SMT, <1>0
<1>3. Distinct'
  <2> SUFFICES ASSUME NEW i \in DOMAIN waiters', NEW j \in DOMAIN waiters', waiters'[i].txn = waiters'[j].txn
               PROVE  i = j
    BY DEF Distinct
  <2>1. \A k \in DOMAIN waiters : waiters'[k].txn # t
    BY <1>2 DEF Queued
  <2>2. waiters'[n].txn = t
    BY <1>1, <1>2
  <2> QED BY <1>0, <1>2, <2>1, <2>2 DEF Distinct
<1>4. Queued' = Queued \cup {t}
  <2>1. ASSUME NEW u PROVE u \in Queued' <=> u \in Queued \/ u = t
    <3>1. u \in Queued' => u \in Queued \/ u = t
      BY <1>1, <1>2 DEF Queued
    <3>2. u \in Queued => u \in Queued'
      BY <1>2 DEF Queued
    <3>3. t \in Queued'
      BY <1>1, <1>2 DEF Queued
    <3> QED BY <3>1, <3>2, <3>3
  <2> QED BY <2>1
<1>5. ASSUME NEW u \in Queued
      PROVE  BlockersOfWaiter(u)' = BlockersOfWaiter(u)
  <2>1. PICK k \in DOMAIN waiters : u = waiters[k].txn
    BY DEF Queued
  <2>2. k \in DOMAIN waiters' /\ u = waiters'[k].txn
    BY <1>2, <2>1
  <2>3. ASSUME NEW b
        PROVE  b \in BlockersOfWaiter(u)' <=> b \in BlockersOfWaiter(u)
    <3>1. HoldsAgainst(b, k)' <=> HoldsAgainst(b, k)
      BY <1>0, <1>2 DEF HoldsAgainst
    <3>2. AheadOf(b, k)' <=> AheadOf(b, k)
      BY <1>2 DEF AheadOf
    <3>3. b \in BlockersOfWaiter(u)' <=> HoldsAgainst(b, k)' \/ AheadOf(b, k)'
      BY <1>0, <1>3, <2>2, NextBlockers
    <3>4. b \in BlockersOfWaiter(u) <=> HoldsAgainst(b, k) \/ AheadOf(b, k)
      BY <1>0, <2>1, WaiterBlockers
    <3> QED BY <3>1, <3>2, <3>3, <3>4
  <2> QED BY <2>3
<1>6. ASSUME NEW b
      PROVE  b \in BlockersOfWaiter(t)' <=> b \in Blockers(t, Request(t))
  <2>0. n \in DOMAIN waiters' /\ t = waiters'[n].txn /\ waiters'[n].request = Request(t)
    BY <1>1, <1>2
  <2>1. b \in BlockersOfWaiter(t)' <=> HoldsAgainst(b, n)' \/ AheadOf(b, n)'
    BY <1>0, <1>3, <2>0, NextBlockers
  <2>2. HoldsAgainst(b, n)' <=> b # t /\ \E h \in locks : h.txn = b /\ Conflict(h.request, Request(t))
    BY <1>0, <2>0 DEF HoldsAgainst
  <2>3. AheadOf(b, n)' <=> \E j \in DOMAIN waiters : waiters[j].txn = b /\ Conflict(waiters[j].request, Request(t))
    BY <1>2, <2>0 DEF AheadOf
  <2> QED BY <1>0, <2>1, <2>2, <2>3, NewcomerBlockers
<1> QED BY <1>3, <1>4, <1>5, <1>6

\* What a step does to the queue and to the locks
LEMMA QueueSteps ==
  ASSUME ExclusionInv, NEW t \in Txns, Step(t)
  PROVE  \/ UNCHANGED <<waiters, locks>>
         \/ RemoveWaiter(t) /\ locks' = locks /\ pc' = [pc EXCEPT ![t] = "fail_notify"]
         \/ GrantRequest(t)
         \/ /\ RemoveWaiter(t) /\ pc' = [pc EXCEPT ![t] = "restore_notify"]
            /\ savepoint[t] \in SUBSET LockRequest
            /\ SetLocks(t, savepoint[t]) /\ \A request \in savepoint[t] : Covered(t, request)
         \/ RemoveWaiter(t) /\ pc' = [pc EXCEPT ![t] = "release_notify"] /\ SetLocks(t, {})
         \/ t \notin Queued /\ Wait(t)
<1>1. CASE \/ BeginStatement(t) \/ EndStatement(t) \/ \E batch \in CallBatches(t) : BeginAcquire(t, batch)
           \/ EndAcquire(t) \/ SkipCovered(t) \/ Wake(t) \/ WakeSpuriously(t)
           \/ FinishUnreleased(t) \/ NotifyAll(t)
  BY <1>1 DEF BeginStatement, EndStatement, BeginAcquire, EndAcquire, SkipCovered, Wake,
     WakeSpuriously, FinishUnreleased, NotifyAll
<1>2. CASE RefuseGrant(t) \/ RefuseWait(t) \/ ExpireBeforeWait(t) \/ Timeout(t)
  BY <1>2 DEF RefuseGrant, RefuseWait, ExpireBeforeWait, Timeout, Fail
<1>3. CASE Restore(t)
  <2>1. savepoint[t] \in SUBSET LockRequest
    BY DEF ExclusionInv, TypeOK
  <2> QED BY <1>3, <2>1 DEF Restore, ExclusionInv, SavepointStillHeld
<1>4. CASE Release(t)
  BY <1>4 DEF Release
<1>5. CASE Wait(t)
  BY <1>5 DEF Wait, Enqueued
<1> QED BY <1>1, <1>2, <1>3, <1>4, <1>5 DEF Step, AcquireStep

\* Blockers are a matter of the lock table and the queue
LEMMA SameBlockers ==
  ASSUME UNCHANGED <<waiters, locks>>, NEW u
  PROVE  BlockersOfWaiter(u)' = BlockersOfWaiter(u)
<1>1. Position(u)' = Position(u)
  BY DEF Position
<1>2. \A request : LockBlockers(u, request)' = LockBlockers(u, request)
  BY DEF LockBlockers
<1>3. \A request : QueueBlockers(u, request)' = QueueBlockers(u, request)
  BY DEF QueueBlockers
<1> QED BY SMT, <1>1, <1>2, <1>3 DEF BlockersOfWaiter, Blockers

\* Nobody new gets in the way of a waiter
LEMMA BlockersShrink ==
  ASSUME ExclusionInv, TypeOK', WaitInv, [Next]_vars, NEW u \in Queued, u \in Queued'
  PROVE  BlockersOfWaiter(u)' \subseteq BlockersOfWaiter(u)
<1>0. TypeOK
  BY DEF ExclusionInv
<1>1. CASE UNCHANGED <<waiters, locks>>
  BY <1>1, SameBlockers
<1>2. ASSUME NEW t \in Txns, Step(t)
      PROVE  BlockersOfWaiter(u)' \subseteq BlockersOfWaiter(u)
  <2>1. CASE GrantRequest(t)
    BY <1>0, <2>1, GrantBlockers
  <2>2. CASE t \notin Queued /\ Wait(t)
    BY <1>0, <2>2, WaitBlockers
  <2>3. CASE RemoveWaiter(t) /\ locks' = locks
    BY <1>0, <2>3, FailBlockers
  <2>4. ASSUME NEW requests \in SUBSET LockRequest, \A request \in requests : Covered(t, request),
               RemoveWaiter(t), SetLocks(t, requests)
        PROVE  BlockersOfWaiter(u)' \subseteq BlockersOfWaiter(u)
    BY <1>0, <2>4, SetLocksBlockers
  <2>5. {} \in SUBSET LockRequest /\ \A request \in {} : Covered(t, request)
    OBVIOUS
  <2> QED BY <1>1, <1>2, <2>1, <2>2, <2>3, <2>4, <2>5, QueueSteps
<1>3. CASE UNCHANGED vars
  BY <1>1, <1>3 DEF vars
<1> QED BY <1>2, <1>3 DEF Next, Step

-----------------------------------------------------------------------------
(* The queue holds exactly the requests that are waited for *)

\* A step of t queues or removes nobody but t
LEMMA QueueKept ==
  ASSUME ExclusionInv, TypeOK', WaitInv, NEW t \in Txns, Step(t)
  PROVE  /\ Distinct'
         /\ \A u : u # t => (u \in Queued' <=> u \in Queued)
         /\ \A i \in DOMAIN waiters' : waiters'[i].txn # t => \E k \in DOMAIN waiters : waiters[k] = waiters'[i]
         /\ RemoveWaiter(t) => t \notin Queued'
<1>0. TypeOK /\ waiters \in Seq(HeldLock) /\ waiters' \in Seq(HeldLock) /\ Distinct
  BY DEF ExclusionInv, TypeOK, WaitInv
<1>1. ASSUME RemoveWaiter(t)
      PROVE  /\ Distinct' /\ Queued' = Queued \ {t}
             /\ \A i \in DOMAIN waiters' : \E k \in DOMAIN waiters : waiters[k] = waiters'[i]
  <2>1. PICK up : Leaves(t, up)
    BY <1>0, <1>1, RemovalLeaves
  <2>2. \A i \in DOMAIN waiters' : \E k \in DOMAIN waiters : waiters[k] = waiters'[i]
    BY <2>1 DEF Leaves
  <2> QED BY <1>0, <2>1, <2>2, LeavesOthers
<1>2. CASE UNCHANGED <<waiters, locks>>
  BY <1>0, <1>1, <1>2 DEF Distinct, Queued
<1>3. CASE t \notin Queued /\ Wait(t)
  <2>1. Distinct' /\ Queued' = Queued \cup {t}
    BY <1>0, <1>3, WaitBlockers
  <2> DEFINE w == [txn |-> t, request |-> Request(t)]
  <2>2. waiters' = Append(waiters, w) /\ w.txn = t
    BY <1>3 DEF Wait, Enqueued
  <2> HIDE DEF w
  <2>3. ASSUME NEW i \in DOMAIN waiters', waiters'[i].txn # t
        PROVE  \E k \in DOMAIN waiters : waiters[k] = waiters'[i]
    <3>1. (i \in DOMAIN waiters /\ waiters'[i] = waiters[i]) \/ waiters'[i] = w
      BY SMT, <1>0, <2>2
    <3> QED BY <2>2, <2>3, <3>1
  <2> QED BY <1>1, <2>1, <2>3
<1>4. CASE RemoveWaiter(t)
  BY <1>1, <1>4
<1> QED BY <1>2, <1>3, <1>4, QueueSteps DEF GrantRequest

\* The mutex and the place "acquiring" go together
LEMMA OwnerStep ==
  ASSUME TypeOK, WaitInv, NEW t \in Txns, Step(t)
  PROVE  \A u \in Txns : owner' = u <=> pc'[u] = "acquiring"
<1>0. /\ pc \in [Txns -> PCs] /\ owner \in Txns \cup {None}
      /\ \A u \in Txns : owner = u <=> pc[u] = "acquiring"
      /\ None \notin Txns
  BY LockManagerAssumption DEF TypeOK, WaitInv
<1>1. CASE \/ BeginStatement(t) \/ EndStatement(t) \/ Restore(t) \/ Release(t)
           \/ FinishUnreleased(t) \/ NotifyAll(t)
  <2>1. owner' = owner /\ pc[t] # "acquiring"
    BY <1>1 DEF BeginStatement, EndStatement, Restore, Release, FinishUnreleased, NotifyAll
  <2>2. \E step \in PCs \ {"acquiring"} : pc' = [pc EXCEPT ![t] = step]
    BY <1>1 DEF BeginStatement, EndStatement, Restore, Release, FinishUnreleased, NotifyAll, AfterNotify, PCs
  <2> QED BY <1>0, <2>1, <2>2
<1>2. CASE SkipCovered(t) \/ GrantRequest(t)
  BY <1>0, <1>2 DEF SkipCovered, GrantRequest
<1>3. CASE (\E batch \in CallBatches(t) : BeginAcquire(t, batch)) \/ Wake(t) \/ WakeSpuriously(t)
  <2>1. owner = None /\ owner' = t /\ pc' = [pc EXCEPT ![t] = "acquiring"]
    BY <1>3 DEF BeginAcquire, Wake, WakeSpuriously
  <2> QED BY <1>0, <2>1
<1>4. CASE EndAcquire(t) \/ Wait(t) \/ RefuseGrant(t) \/ RefuseWait(t) \/ ExpireBeforeWait(t) \/ Timeout(t)
  <2>1. (owner = t \/ owner = None) /\ owner' = None
    BY <1>4 DEF EndAcquire, Wait, RefuseGrant, RefuseWait, ExpireBeforeWait, Timeout, Fail, Pending
  <2>2. \E step \in PCs \ {"acquiring"} : pc' = [pc EXCEPT ![t] = step]
    BY <1>4 DEF EndAcquire, Wait, RefuseGrant, RefuseWait, ExpireBeforeWait, Timeout, Fail, PCs
  <2> QED BY <1>0, <2>1, <2>2
<1> QED BY <1>1, <1>2, <1>3, <1>4 DEF Step, AcquireStep

\* A queued transaction can only wake up, wait on, or leave the queue
LEMMA QueuedSteps ==
  ASSUME TypeOK, WaitInv, NEW t \in Txns, Step(t), t \in Queued, ~RemoveWaiter(t)
  PROVE  Wake(t) \/ WakeSpuriously(t) \/ Wait(t)
<1>1. pc[t] \in {"waiting", "acquiring"} /\ todo[t] # <<>> /\ ~IsCovered(t)
  BY DEF WaitInv, WaitingFor, Queued
<1>2. ~BeginStatement(t) /\ ~EndStatement(t) /\ ~Restore(t) /\ ~Release(t) /\ ~FinishUnreleased(t)
      /\ ~NotifyAll(t) /\ ~\E batch \in CallBatches(t) : BeginAcquire(t, batch)
  BY <1>1 DEF BeginStatement, EndStatement, Restore, Release, FinishUnreleased, NotifyAll, BeginAcquire
<1>3. ~EndAcquire(t) /\ ~SkipCovered(t)
  BY <1>1 DEF EndAcquire, SkipCovered
<1>4. ~GrantRequest(t) /\ ~RefuseGrant(t) /\ ~RefuseWait(t) /\ ~ExpireBeforeWait(t) /\ ~Timeout(t)
  BY DEF GrantRequest, RefuseGrant, RefuseWait, ExpireBeforeWait, Timeout, Fail
<1> QED BY <1>2, <1>3, <1>4 DEF Step, AcquireStep

\* Only Wait goes to sleep
LEMMA WaitingSteps ==
  ASSUME TypeOK, WaitInv, NEW t \in Txns, Step(t), pc'[t] = "waiting"
  PROVE  Wait(t)
<1>0. pc \in [Txns -> PCs]
  BY DEF TypeOK
<1>1. CASE \/ BeginStatement(t) \/ EndStatement(t) \/ Restore(t) \/ Release(t) \/ FinishUnreleased(t)
           \/ NotifyAll(t) \/ (\E batch \in CallBatches(t) : BeginAcquire(t, batch)) \/ Wake(t)
           \/ WakeSpuriously(t) \/ Timeout(t)
  <2>1. \E step \in PCs \ {"waiting"} : pc' = [pc EXCEPT ![t] = step]
    BY <1>1 DEF BeginStatement, EndStatement, Restore, Release, FinishUnreleased, NotifyAll, AfterNotify,
       BeginAcquire, Wake, WakeSpuriously, Timeout, Fail, PCs
  <2> QED BY <1>0, <2>1
<1>2. CASE EndAcquire(t) \/ RefuseGrant(t) \/ RefuseWait(t) \/ ExpireBeforeWait(t)
  <2>1. \E step \in PCs \ {"waiting"} : pc' = [pc EXCEPT ![t] = step]
    BY <1>2 DEF EndAcquire, RefuseGrant, RefuseWait, ExpireBeforeWait, Fail, PCs
  <2> QED BY <1>0, <2>1
<1>3. CASE SkipCovered(t) \/ GrantRequest(t)
  <2>1. pc' = pc /\ owner = t
    BY <1>3 DEF SkipCovered, GrantRequest, Pending
  <2> QED BY <2>1 DEF WaitInv
<1> QED BY <1>1, <1>2, <1>3 DEF Step, AcquireStep

\* WaitInv is kept by every step
LEMMA WaitInvStep ==
  ASSUME ExclusionInv, TypeOK', WaitInv, [Next]_vars
  PROVE  WaitInv'
<1>0. TypeOK
  BY DEF ExclusionInv
<1>1. CASE UNCHANGED vars
  <2>1. UNCHANGED <<waiters, pc, todo, owner, locks>>
    BY <1>1 DEF vars
  <2>2. \A u : HeldBy(u)' = HeldBy(u)
    BY <2>1 DEF HeldBy
  <2>3. \A u : Request(u)' = Request(u) /\ (IsCovered(u)' <=> IsCovered(u))
    BY <2>1, <2>2, SameRequest
  <2>4. \A i \in DOMAIN waiters : WaitingFor(waiters[i].txn, waiters[i].request)
    BY DEF WaitInv
  <2>5. Distinct' /\ Queued' = Queued
    BY <2>1 DEF WaitInv, Distinct, Queued
  <2>6. (\A i \in DOMAIN waiters : WaitingFor(waiters[i].txn, waiters[i].request))'
    BY <2>1, <2>3, <2>4 DEF WaitingFor
  <2> QED BY <2>1, <2>5, <2>6 DEF WaitInv
<1>2. ASSUME NEW t \in Txns, Step(t)
      PROVE  WaitInv'
  <2>1. Distinct' /\ \A u \in Txns : owner' = u <=> pc'[u] = "acquiring"
    BY <1>0, <1>2, QueueKept, OwnerStep
  <2>2. ASSUME NEW i \in DOMAIN waiters', NEW u, u = waiters'[i].txn
        PROVE  /\ pc'[u] \in {"waiting", "acquiring"} /\ todo'[u] # <<>>
               /\ ~IsCovered(u)' /\ waiters'[i].request = Request(u)'
    <3>1. u \in Txns
      <4>1. waiters'[i] \in HeldLock
        BY SMT DEF TypeOK
      <4> QED BY <2>2, <4>1 DEF HeldLock
    <3>2. CASE u # t
      <4>1. PICK k \in DOMAIN waiters : waiters[k] = waiters'[i]
        BY <1>2, <2>2, <3>2, QueueKept
      <4>2. pc'[u] = pc[u] /\ todo'[u] = todo[u] /\ HeldBy(u)' = HeldBy(u)
        BY <1>0, <1>2, <3>1, <3>2, OthersKept
      <4>3. WaitingFor(u, waiters'[i].request)
        BY <2>2, <4>1 DEF WaitInv
      <4> QED BY <4>2, <4>3, SameRequest DEF WaitingFor
    <3>3. CASE u = t
      <4>1. u \in Queued'
        BY <2>2 DEF Queued
      <4>2. ~RemoveWaiter(t)
        BY <1>2, <3>3, <4>1, QueueKept
      <4>3. CASE t \in Queued
        <5>1. Wake(t) \/ WakeSpuriously(t) \/ Wait(t)
          BY <1>0, <1>2, <4>2, <4>3, QueuedSteps
        <5>2. /\ waiters' = waiters /\ locks' = locks /\ todo' = todo
              /\ pc' = [pc EXCEPT ![t] = "waiting"] \/ pc' = [pc EXCEPT ![t] = "acquiring"]
          BY <4>3, <5>1 DEF Wake, WakeSpuriously, Wait, Enqueued
        <5>3. HeldBy(u)' = HeldBy(u) /\ todo'[u] = todo[u]
          BY <5>2 DEF HeldBy
        <5>4. WaitingFor(u, waiters'[i].request)
          BY <2>2, <5>2 DEF WaitInv
        <5>5. pc'[u] \in {"waiting", "acquiring"}
          BY <1>0, <3>3, <5>2 DEF TypeOK
        <5> QED BY <5>3, <5>4, <5>5, SameRequest DEF WaitingFor
      <4>4. CASE t \notin Queued
        <5>1. Wait(t)
          BY <1>2, <3>3, <4>1, <4>2, <4>4, QueueSteps DEF GrantRequest, Queued
        <5>2. /\ locks' = locks /\ todo' = todo /\ pc' = [pc EXCEPT ![t] = "waiting"]
              /\ waiters' = Append(waiters, [txn |-> t, request |-> Request(t)])
              /\ ~IsCovered(t) /\ todo[t] # <<>>
          BY <4>4, <5>1 DEF Wait, Enqueued, Pending
        <5>3. HeldBy(u)' = HeldBy(u) /\ todo'[u] = todo[u]
          BY <5>2 DEF HeldBy
        <5>4. waiters'[i].request = Request(t)
          <6>1. (i \in DOMAIN waiters /\ waiters'[i] = waiters[i])
                  \/ waiters'[i] = [txn |-> t, request |-> Request(t)]
            BY SMT, <1>0, <5>2 DEF TypeOK
          <6>2. i \in DOMAIN waiters /\ waiters'[i] = waiters[i] => t \in Queued
            BY <2>2, <3>3 DEF Queued
          <6>3. waiters'[i] = [txn |-> t, request |-> Request(t)]
            BY <4>4, <6>1, <6>2
          <6> QED BY SMTT(20), <6>3
        <5>5. pc'[u] = "waiting"
          BY <1>0, <3>3, <5>2 DEF TypeOK
        <5> QED BY <3>3, <5>2, <5>3, <5>4, <5>5, SameRequest
      <4> QED BY <4>3, <4>4
    <3> QED BY <3>2, <3>3
  <2>3. ASSUME NEW u \in Txns, pc'[u] = "waiting"
        PROVE  u \in Queued'
    <3>1. CASE u # t
      <4>1. pc[u] = "waiting"
        BY <1>0, <1>2, <2>3, <3>1, OthersKept
      <4>2. u \in Queued
        BY <4>1 DEF WaitInv
      <4> QED BY <1>2, <3>1, <4>2, QueueKept
    <3>2. CASE u = t
      <4>1. Wait(t)
        BY <1>0, <1>2, <2>3, <3>2, WaitingSteps
      <4>2. CASE t \in Queued
        <5>1. waiters' = waiters
          BY <4>1, <4>2 DEF Wait, Enqueued
        <5> QED BY <3>2, <4>2, <5>1 DEF Queued
      <4>3. CASE t \notin Queued
        BY <1>0, <3>2, <4>1, <4>3, WaitBlockers
      <4> QED BY <4>2, <4>3
    <3> QED BY <3>1, <3>2
  <2>4. (\A i \in DOMAIN waiters : WaitingFor(waiters[i].txn, waiters[i].request))'
    BY <2>2 DEF WaitingFor
  <2> QED BY <2>1, <2>3, <2>4 DEF WaitInv
<1> QED BY <1>1, <1>2 DEF Next, Step

-----------------------------------------------------------------------------
(* Wakeups *)

\* The next step of a thread that is about to notify is to notify
LEMMA NotifierNotifies ==
  ASSUME TypeOK, WaitInv, NEW t \in Txns, Step(t), pc[t] \in NotifyPCs
  PROVE  NotifyAll(t)
<1>1. pc[t] \notin {"active", "statement", "locked", "acquiring", "waiting", "failed", "aborting"}
  BY DEF NotifyPCs
<1>2. owner # t
  BY <1>1 DEF WaitInv
<1>3. ~AcquireStep(t)
  BY <1>2 DEF AcquireStep, EndAcquire, SkipCovered, GrantRequest, RefuseGrant, RefuseWait, Wait,
     ExpireBeforeWait, Pending
<1> QED
  BY <1>1, <1>3 DEF Step, BeginStatement, EndStatement, BeginAcquire, Wake, WakeSpuriously, Timeout,
     Restore, Release, FinishUnreleased

\* No step but NotifyAll takes a notification back from a sleeping thread
LEMMA NotifiedKept ==
  ASSUME TypeOK, NEW t \in Txns, Step(t), ~NotifyAll(t), NEW u, u # t, u \in notified
  PROVE  u \in notified'
BY DEF Step, BeginStatement, EndStatement, BeginAcquire, AcquireStep, EndAcquire, SkipCovered,
   GrantRequest, RefuseGrant, RefuseWait, Wait, ExpireBeforeWait, Fail, Wake, WakeSpuriously,
   Timeout, Restore, Release, FinishUnreleased

\* NoLostWakeup is kept by every step
LEMMA NoLostWakeupStep ==
  ASSUME ExclusionInv, TypeOK', WaitInv, NoLostWakeup, [Next]_vars
  PROVE  NoLostWakeup'
<1>0. TypeOK /\ pc \in [Txns -> PCs]
  BY DEF ExclusionInv, TypeOK
<1>1. CASE UNCHANGED vars
  <2>1. UNCHANGED <<waiters, locks, pc, notified>>
    BY <1>1 DEF vars
  <2>2. \A u : BlockersOfWaiter(u)' = BlockersOfWaiter(u)
    BY <2>1, SameBlockers
  <2> QED BY <2>1, <2>2 DEF NoLostWakeup
<1>2. ASSUME NEW t \in Txns, Step(t)
      PROVE  NoLostWakeup'
  <2> SUFFICES ASSUME NEW u \in Txns, pc'[u] = "waiting", u \notin notified', BlockersOfWaiter(u)' = {},
                      \A s \in Txns : pc'[s] \notin NotifyPCs
               PROVE  FALSE
    BY DEF NoLostWakeup, NotifyPCs
  <2>1. ~NotifyAll(t)
    <3> SUFFICES ASSUME NotifyAll(t)
                 PROVE  FALSE
      OBVIOUS
    <3>1. pc[t] \in NotifyPCs /\ notified' = {s \in Txns : pc[s] = "waiting"}
      BY DEF NotifyAll, NotifyPCs
    <3>2. pc'[t] # "waiting"
      <4>1. ~Wait(t)
        BY <3>1 DEF Wait, Pending, WaitInv, NotifyPCs
      <4> QED BY <1>0, <1>2, <4>1, WaitingSteps
    <3>3. pc[u] = "waiting"
      BY <1>0, <1>2, <3>2, OthersKept
    <3> QED BY <3>1, <3>3
  <2>2. \A s \in Txns : pc[s] \notin NotifyPCs
    <3>1. pc[t] \notin NotifyPCs
      BY <1>0, <1>2, <2>1, NotifierNotifies
    <3>2. \A s \in Txns : s # t => pc'[s] = pc[s]
      BY <1>0, <1>2, OthersKept
    <3> QED BY <3>1, <3>2
  <2>3. u # t
    <3> SUFFICES ASSUME u = t
                 PROVE  FALSE
      OBVIOUS
    <3>1. Wait(t)
      BY <1>0, <1>2, WaitingSteps
    <3>2. Blockers(t, Request(t)) # {}
      BY <3>1 DEF Wait
    <3>3. CASE t \notin Queued
      BY <1>0, <3>1, <3>2, <3>3, WaitBlockers
    <3>4. CASE t \in Queued
      <4>1. UNCHANGED <<waiters, locks>>
        BY <3>1, <3>4 DEF Wait, Enqueued
      <4> QED BY <1>0, <3>2, <3>4, <4>1, SameBlockers, OwnPlace
    <3> QED BY <3>3, <3>4
  <2>4. pc[u] = "waiting" /\ u \notin notified
    BY <1>0, <1>2, <2>1, <2>3, OthersKept, NotifiedKept
  <2>5. BlockersOfWaiter(u) # {}
    BY <2>2, <2>4 DEF NoLostWakeup, NotifyPCs
  <2>6. u \in Queued /\ u \in Queued'
    <3>1. u \in Queued
      BY <2>4 DEF WaitInv
    <3> QED BY <1>2, <2>3, <3>1, QueueKept
  <2>7. pc'[t] \notin NotifyPCs
    OBVIOUS
  <2>8. UNCHANGED <<waiters, locks>> \/ GrantRequest(t) \/ (t \notin Queued /\ Wait(t))
    BY <1>0, <1>2, <2>7, QueueSteps DEF NotifyPCs
  <2>9. BlockersOfWaiter(u)' = BlockersOfWaiter(u)
    BY <1>0, <2>6, <2>8, SameBlockers, GrantBlockers, WaitBlockers
  <2> QED BY <2>5, <2>9
<1> QED BY <1>1, <1>2 DEF Next, Step

-----------------------------------------------------------------------------
(* Deadlocks *)

\* NoUndetectedDeadlock is kept by every step: blockers only shrink, and a new
\* waiter cannot be reached from its own blockers
LEMMA NoUndetectedDeadlockStep ==
  ASSUME ExclusionInv, TypeOK', WaitInv, NoUndetectedDeadlock, [Next]_vars
  PROVE  NoUndetectedDeadlock'
<1>0. TypeOK
  BY DEF ExclusionInv
<1>1. CASE Queued' \subseteq Queued
  <2> SUFFICES ASSUME NEW S \in (SUBSET Queued') \ {{}}
               PROVE  \E t \in S : BlockersOfWaiter(t)' \cap S = {}
    BY DEF NoUndetectedDeadlock
  <2>1. PICK t \in S : BlockersOfWaiter(t) \cap S = {}
    BY <1>1 DEF NoUndetectedDeadlock
  <2>2. BlockersOfWaiter(t)' \subseteq BlockersOfWaiter(t)
    BY <1>1, BlockersShrink
  <2> QED BY <2>1, <2>2
<1>2. ASSUME NEW t \in Txns, t \notin Queued, Wait(t)
      PROVE  NoUndetectedDeadlock'
  <2>1. /\ Queued' = Queued \cup {t} /\ BlockersOfWaiter(t)' = Blockers(t, Request(t))
        /\ \A u \in Queued : BlockersOfWaiter(u)' = BlockersOfWaiter(u)
    BY <1>0, <1>2, WaitBlockers
  <2>2. PICK reached \in SUBSET (Queued \cup {t}) :
          /\ Blockers(t, Request(t)) \cap (Queued \cup {t}) \subseteq reached
          /\ \A w \in reached \ {t} : BlockersOfWaiter(w) \cap (Queued \cup {t}) \subseteq reached
          /\ t \notin reached
    BY <1>2 DEF Wait, ClosesCycle
  <2> SUFFICES ASSUME NEW S \in (SUBSET Queued') \ {{}}
               PROVE  \E u \in S : BlockersOfWaiter(u)' \cap S = {}
    BY DEF NoUndetectedDeadlock
  <2>3. CASE t \notin S
    <3>1. S \in (SUBSET Queued) \ {{}}
      BY <2>1, <2>3
    <3>2. PICK u \in S : BlockersOfWaiter(u) \cap S = {}
      BY <3>1 DEF NoUndetectedDeadlock
    <3> QED BY <2>1, <3>1, <3>2
  <2>4. CASE t \in S /\ reached \cap S = {}
    <3>1. Blockers(t, Request(t)) \cap S = {}
      BY <2>1, <2>2, <2>4
    <3> QED BY <2>1, <2>4, <3>1
  <2>5. CASE reached \cap S # {}
    <3>1. reached \cap S \in (SUBSET Queued) \ {{}}
      BY <2>2, <2>5
    <3>2. PICK u \in reached \cap S : BlockersOfWaiter(u) \cap (reached \cap S) = {}
      BY <3>1 DEF NoUndetectedDeadlock
    <3>3. BlockersOfWaiter(u) \cap S \subseteq reached
      BY <2>1, <2>2, <3>2
    <3>4. BlockersOfWaiter(u)' = BlockersOfWaiter(u)
      BY <2>1, <3>1, <3>2
    <3> QED BY <3>2, <3>3, <3>4
  <2> QED BY <2>3, <2>4, <2>5
<1>3. CASE UNCHANGED vars
  <2>1. Queued' \subseteq Queued
    BY <1>3 DEF vars, Queued
  <2> QED BY <1>1, <2>1
<1>4. ASSUME NEW t \in Txns, Step(t)
      PROVE  NoUndetectedDeadlock'
  <2>1. CASE t \notin Queued /\ Wait(t)
    BY <1>2, <2>1
  <2>2. CASE UNCHANGED <<waiters, locks>>
    <3>1. Queued' \subseteq Queued
      BY <2>2 DEF Queued
    <3> QED BY <1>1, <3>1
  <2>3. CASE RemoveWaiter(t)
    <3>1. t \notin Queued' /\ \A u : u # t => (u \in Queued' <=> u \in Queued)
      BY <1>4, <2>3, QueueKept
    <3>2. Queued' \subseteq Queued
      BY <3>1
    <3> QED BY <1>1, <3>2
  <2> QED BY <1>4, <2>1, <2>2, <2>3, QueueSteps DEF GrantRequest
<1> QED BY <1>3, <1>4 DEF Next, Step

-----------------------------------------------------------------------------
(* What a transaction leaves behind *)

\* A transaction without locks covers nothing
LEMMA NothingCovered ==
  ASSUME NEW t, NoLocks(t)
  PROVE  ~IsCovered(t)
<1>1. HeldBy(t) = {}
  BY DEF NoLocks, HeldBy
<1> QED BY <1>1 DEF IsCovered, Covered

\* The one request of a one-shot transaction
LEMMA SingleRequest ==
  ASSUME NEW t \in OneShot, NEW batch \in CallBatches(t), NEW order \in AcquisitionOrders(batch)
  PROVE  Len(order) = 1
<1>1. PICK r : batch = {r}
  BY DEF CallBatches
<1>2. Cardinality(batch) = 1
  BY <1>1, FS_Singleton
<1>3. order \in [1 .. 1 -> batch]
  BY <1>2 DEF AcquisitionOrders
<1> QED BY SMT, <1>3

\* The locks of a transaction stay as they are or are released
LEMMA NoLocksKept ==
  ASSUME NEW t, NoLocks(t), UNCHANGED locks
  PROVE  NoLocks(t)'
BY DEF NoLocks

\* A released transaction has no locks, whichever way it got there
LEMMA ReleasedStep ==
  ASSUME TypeOK, WaitInv, NEW t \in Txns, HoldsRightly(t), Step(t), pc'[t] \in {"release_notify", "finished"}
  PROVE  NoLocks(t)'
<1>0. pc \in [Txns -> PCs]
  BY DEF TypeOK
<1>1. CASE Release(t)
  <2>1. locks' = {h \in locks : h.txn # t} \cup {[txn |-> t, request |-> r] : r \in {}}
    BY <1>1 DEF Release, SetLocks
  <2> QED BY <2>1 DEF NoLocks
<1>2. CASE FinishUnreleased(t)
  BY <1>2, NoLocksKept DEF FinishUnreleased, HoldsRightly
<1>3. CASE NotifyAll(t)
  <2>1. pc'[t] = AfterNotify(t) /\ UNCHANGED locks
    BY <1>0, <1>3 DEF NotifyAll
  <2>2. pc[t] = "release_notify"
    BY SMT, <1>3, <2>1 DEF NotifyAll, AfterNotify
  <2> QED BY <2>1, <2>2, NoLocksKept DEF HoldsRightly
<1>4. CASE SkipCovered(t) \/ GrantRequest(t)
  <2>1. pc' = pc /\ owner = t
    BY <1>4 DEF SkipCovered, GrantRequest, Pending
  <2> QED BY <2>1 DEF WaitInv
<1>5. CASE \/ BeginStatement(t) \/ EndStatement(t) \/ (\E batch \in CallBatches(t) : BeginAcquire(t, batch))
           \/ Wake(t) \/ WakeSpuriously(t) \/ Timeout(t) \/ Restore(t)
           \/ EndAcquire(t) \/ Wait(t) \/ RefuseGrant(t) \/ RefuseWait(t) \/ ExpireBeforeWait(t)
  <2>1. \E step \in PCs \ {"release_notify", "finished"} : pc' = [pc EXCEPT ![t] = step]
    BY <1>5 DEF BeginStatement, EndStatement, BeginAcquire, Wake, WakeSpuriously, Timeout, Restore,
       EndAcquire, Wait, RefuseGrant, RefuseWait, ExpireBeforeWait, Fail, PCs
  <2> QED BY <1>0, <2>1
<1> QED BY <1>1, <1>2, <1>3, <1>4, <1>5 DEF Step, AcquireStep

\* A one-shot transaction holds at most the lock of its only request
LEMMA OneShotStep ==
  ASSUME TypeOK, WaitInv, NEW t \in OneShot, t \in Txns, HoldsRightly(t), Step(t)
  PROVE  HoldsRightly(t)'
<1>0. /\ pc \in [Txns -> PCs] /\ todo \in [Txns -> Seq(LockRequest)]
      /\ todo[t] \in Seq(LockRequest) /\ Len(todo[t]) <= 1 /\ t \notin inStatement
      /\ pc[t] \notin {"statement", "restore_notify", "aborting"}
  BY DEF TypeOK, HoldsRightly
<1>1. pc'[t] \in {"release_notify", "finished"} => NoLocks(t)'
  BY ReleasedStep
<1>2. \A u \in Txns : owner = u => pc[u] = "acquiring"
  BY DEF WaitInv
<1>3. CASE BeginStatement(t) \/ EndStatement(t) \/ Restore(t)
  BY <1>0, <1>3 DEF BeginStatement, EndStatement, Restore
<1>4. ASSUME NEW batch \in CallBatches(t), BeginAcquire(t, batch)
      PROVE  HoldsRightly(t)'
  <2>1. PICK order \in AcquisitionOrders(batch) : todo' = [todo EXCEPT ![t] = order]
    BY <1>4 DEF BeginAcquire
  <2>2. todo'[t] = order /\ Len(order) = 1
    BY <1>0, <1>4, <2>1, SingleRequest
  <2>3. Len(todo'[t]) <= 1
    BY SMT, <2>2
  <2>4. pc[t] = "active" /\ pc'[t] = "acquiring" /\ UNCHANGED <<locks, inStatement>>
    BY <1>0, <1>4 DEF BeginAcquire
  <2>5. NoLocks(t)'
    BY <2>4, NoLocksKept DEF HoldsRightly
  <2> QED BY <1>0, <2>3, <2>4, <2>5 DEF HoldsRightly
<1>5. CASE EndAcquire(t)
  <2>1. pc'[t] = "locked" /\ UNCHANGED <<todo, inStatement>>
    BY <1>0, <1>5 DEF EndAcquire
  <2> QED BY <1>0, <2>1 DEF HoldsRightly
<1>6. CASE SkipCovered(t)
  <2>1. NoLocks(t)
    BY <1>2, <1>6 DEF SkipCovered, Pending, HoldsRightly
  <2> QED BY <1>6, <2>1, NothingCovered DEF SkipCovered
<1>7. CASE GrantRequest(t)
  <2>1. pc[t] = "acquiring" /\ todo[t] # <<>> /\ todo' = [todo EXCEPT ![t] = Tail(@)] /\ UNCHANGED <<pc, inStatement>>
    BY <1>2, <1>7 DEF GrantRequest, Pending
  <2>2. todo'[t] = Tail(todo[t])
    BY <1>0, <2>1
  <2>3. Tail(todo[t]) = <<>> /\ Len(<<>>) <= 1
    BY SMT, <1>0, <2>1
  <2> QED BY <1>0, <2>1, <2>2, <2>3 DEF HoldsRightly
<1>8. CASE RefuseGrant(t) \/ RefuseWait(t) \/ ExpireBeforeWait(t) \/ Timeout(t)
  <2>1. pc[t] = "waiting" \/ (pc[t] = "acquiring" /\ todo[t] # <<>>)
    BY <1>2, <1>8 DEF RefuseGrant, RefuseWait, ExpireBeforeWait, Timeout, Pending
  <2>2. pc'[t] = "fail_notify" /\ todo'[t] = <<>> /\ UNCHANGED <<locks, inStatement>>
    BY <1>0, <1>8 DEF RefuseGrant, RefuseWait, ExpireBeforeWait, Timeout, Fail
  <2>3. NoLocks(t)'
    BY <2>1, <2>2, NoLocksKept DEF HoldsRightly
  <2>4. Len(todo'[t]) <= 1
    BY SMT, <2>2
  <2> QED BY <1>0, <2>2, <2>3, <2>4 DEF HoldsRightly
<1>9. CASE Wait(t) \/ Wake(t) \/ WakeSpuriously(t)
  <2>1. pc[t] = "waiting" \/ (pc[t] = "acquiring" /\ todo[t] # <<>>)
    BY <1>2, <1>9 DEF Wait, Wake, WakeSpuriously, Pending
  <2>2. pc'[t] \in {"waiting", "acquiring"} /\ UNCHANGED <<locks, inStatement, todo>>
    BY <1>0, <1>9 DEF Wait, Wake, WakeSpuriously
  <2>3. NoLocks(t)'
    BY <2>1, <2>2, NoLocksKept DEF HoldsRightly
  <2> QED BY <1>0, <2>2, <2>3 DEF HoldsRightly
<1>10. CASE Release(t) \/ FinishUnreleased(t)
  <2>1. /\ pc'[t] = "release_notify" \/ pc'[t] = "finished"
        /\ inStatement' \subseteq inStatement /\ UNCHANGED todo
    BY <1>0, <1>10 DEF Release, FinishUnreleased
  <2> QED BY <1>0, <1>1, <2>1 DEF HoldsRightly
<1>11. CASE NotifyAll(t)
  <2>1. pc'[t] = AfterNotify(t) /\ UNCHANGED <<locks, todo, inStatement>>
    BY <1>0, <1>11 DEF NotifyAll
  <2>2. (pc[t] = "fail_notify" /\ pc'[t] = "failed") \/ pc'[t] = "finished"
    BY <1>0, <1>11, <2>1 DEF NotifyAll, AfterNotify
  <2>3. NoLocks(t)'
    BY <1>1, <2>1, <2>2, NoLocksKept DEF HoldsRightly
  <2> QED BY <1>0, <2>1, <2>2, <2>3 DEF HoldsRightly
<1> QED BY <1>3, <1>4, <1>5, <1>6, <1>7, <1>8, <1>9, <1>10, <1>11 DEF Step, AcquireStep

\* HoldInv is kept by every step
LEMMA HoldInvStep ==
  ASSUME ExclusionInv, WaitInv, HoldInv, [Next]_vars
  PROVE  HoldInv'
<1>0. TypeOK
  BY DEF ExclusionInv
<1>1. CASE UNCHANGED vars
  BY <1>1 DEF vars, HoldInv, HoldsRightly, NoLocks
<1>2. ASSUME NEW t \in Txns, Step(t)
      PROVE  HoldInv'
  <2>1. HoldsRightly(t)
    BY DEF HoldInv
  <2>2. HoldsRightly(t)'
    <3>1. CASE t \in OneShot
      BY <1>0, <1>2, <2>1, <3>1, OneShotStep
    <3>2. CASE t \notin OneShot
      BY <1>0, <1>2, <2>1, <3>2, ReleasedStep DEF HoldsRightly
    <3> QED BY <3>1, <3>2
  <2>3. ASSUME NEW u \in Txns, u # t
        PROVE  HoldsRightly(u)'
    <3>1. HoldsRightly(u)
      BY DEF HoldInv
    <3>2. pc'[u] = pc[u] /\ todo'[u] = todo[u] /\ HeldBy(u)' = HeldBy(u)
      BY <1>0, <1>2, <2>3, OthersKept
    <3>3. u \in inStatement' <=> u \in inStatement
      BY <1>2, <2>3 DEF Step, BeginStatement, EndStatement, BeginAcquire, AcquireStep, EndAcquire, SkipCovered,
         GrantRequest, RefuseGrant, RefuseWait, Wait, ExpireBeforeWait, Fail, Wake, WakeSpuriously,
         Timeout, Restore, Release, FinishUnreleased, NotifyAll
    <3>4. NoLocks(u) => NoLocks(u)'
      BY <3>2 DEF NoLocks, HeldBy
    <3> QED BY <3>1, <3>2, <3>3, <3>4 DEF HoldsRightly
  <2> QED BY <2>2, <2>3 DEF HoldInv
<1> QED BY <1>1, <1>2 DEF Next, Step

-----------------------------------------------------------------------------
(* The theorems *)

\* Nobody waits and nobody holds anything at the start
LEMMA QueueInvInit == Init => QueueInv
<1> SUFFICES ASSUME Init
             PROVE  QueueInv
  OBVIOUS
<1>1. ExclusionInv
  BY ExclusionInit
<1>2. waiters = <<>> /\ DOMAIN waiters = {}
  BY SMT DEF Init
<1>3. Queued = {}
  BY <1>2 DEF Queued
<1>4. /\ locks = {} /\ owner = None /\ inStatement = {}
      /\ \A t \in Txns : pc[t] = "active" /\ todo[t] = <<>>
  BY DEF Init
<1>5. Len(<<>>) <= 1
  BY SMT
<1>6. WaitInv
  BY <1>2, <1>3, <1>4, LockManagerAssumption DEF WaitInv, Distinct
<1>7. HoldInv
  BY <1>4, <1>5 DEF HoldInv, HoldsRightly, NoLocks
<1>8. NoLostWakeup
  BY <1>4 DEF NoLostWakeup
<1>9. NoUndetectedDeadlock
  <2>1. (SUBSET Queued) \ {{}} = {}
    BY <1>3
  <2> QED BY <2>1 DEF NoUndetectedDeadlock
<1> QED BY <1>1, <1>6, <1>7, <1>8, <1>9 DEF QueueInv

\* QueueInv is inductive
LEMMA QueueInvStep == QueueInv /\ [Next]_vars => QueueInv'
<1> SUFFICES ASSUME QueueInv, [Next]_vars
             PROVE  QueueInv'
  OBVIOUS
<1>1. ExclusionInv /\ WaitInv /\ HoldInv /\ NoLostWakeup /\ NoUndetectedDeadlock
  BY DEF QueueInv
<1>2. ExclusionInv'
  BY <1>1, ExclusionStep
<1>3. TypeOK'
  BY <1>2 DEF ExclusionInv
<1>4. WaitInv' /\ HoldInv'
  BY <1>1, <1>3, WaitInvStep, HoldInvStep
<1>5. NoLostWakeup' /\ NoUndetectedDeadlock'
  BY <1>1, <1>3, NoLostWakeupStep, NoUndetectedDeadlockStep
<1> QED BY <1>2, <1>4, <1>5 DEF QueueInv

\* QueueInv holds in every reachable state
LEMMA QueueInvHolds == Spec => []QueueInv
BY QueueInvInit, QueueInvStep, PTL DEF Spec

\* check_deadlock, which only looks from the transaction about to wait, leaves no
\* cycle among any number of queued transactions.
THEOREM DeadlockFreeQueue == Spec => []NoUndetectedDeadlock
<1>1. QueueInv => NoUndetectedDeadlock
  BY DEF QueueInv
<1> QED BY <1>1, QueueInvHolds, PTL

\* No wakeup is lost although notify_all runs after the mutex was dropped and a
\* grant notifies nobody: what a grant changes frees no sleeper.
THEOREM NoWakeupLost == Spec => []NoLostWakeup
<1>1. QueueInv => NoLostWakeup
  BY DEF QueueInv
<1> QED BY <1>1, QueueInvHolds, PTL

\* Whichever way a transaction finished, it left no lock and no queued request; a
\* failed one-shot transaction never calls release and has nothing to release.
THEOREM FinishedLeavesNothing == Spec => []FinishedHoldsNothing
<1>1. QueueInv => FinishedHoldsNothing
  <2> SUFFICES ASSUME QueueInv, NEW t \in Txns, pc[t] = "finished"
               PROVE  HeldBy(t) = {} /\ t \notin Queued
    BY DEF FinishedHoldsNothing
  <2>1. NoLocks(t)
    BY DEF QueueInv, HoldInv, HoldsRightly
  <2>2. \A i \in DOMAIN waiters : pc[waiters[i].txn] \in {"waiting", "acquiring"}
    BY DEF QueueInv, WaitInv, WaitingFor
  <2> QED BY <2>1, <2>2 DEF NoLocks, HeldBy, Queued
<1> QED BY <1>1, QueueInvHolds, PTL

\* Queue order holds for any number of transactions: no grant, escalation, restore
\* or new request ever adds to the blockers of a queued transaction.
THEOREM BlockersNeverGrow == Spec => BlockersOnlyShrink
<1>1. QueueInv /\ QueueInv' /\ [Next]_vars =>
        [\A t \in Queued : t \in Queued' => BlockersOfWaiter(t)' \subseteq BlockersOfWaiter(t)]_vars
  <2> SUFFICES ASSUME QueueInv, QueueInv', [Next]_vars
               PROVE  \A t \in Queued : t \in Queued' => BlockersOfWaiter(t)' \subseteq BlockersOfWaiter(t)
    OBVIOUS
  <2>1. ExclusionInv /\ WaitInv /\ TypeOK'
    BY DEF QueueInv, ExclusionInv
  <2> QED BY <2>1, BlockersShrink
<1> QED BY <1>1, QueueInvHolds, PTL DEF Spec, BlockersOnlyShrink
=============================================================================
