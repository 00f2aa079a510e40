---------------------------- MODULE MvccLockProofs ----------------------------
(***************************************************************************)
(* Why pessimistic transactions need no validation: what a transaction has *)
(* read or written under locks stays what its snapshot shows.              *)
(***************************************************************************)
EXTENDS MvccProofs

USE Zenon

\* The locks a transaction keeps if its statement fails
Settled(t) == IF pend[t].stage = "replay" THEN pend[t].saved ELSE locks[t]

\* No two transactions hold conflicting locks
LockExclusion ==
  \A t, u \in Txns : t # u =>
    \A p \in locks[t], q \in locks[u] :
      ~ (Overlap(p.target, q.target) /\ ModesConflict(p.mode, q.mode))

OptimisticCommitLock == [target |-> Database, mode |-> "optimistic"]

\* A transaction that is not running, or not yet
RestShape(t) ==
  /\ status[t] \in {"idle", "scoped"} =>
       /\ mode[t] = "pessimistic" /\ isolation[t] = "snapshot"
       /\ pend[t] = NoStatement
       /\ writes[t] = {} /\ guarded[t] = {}
  /\ status[t] = "idle" => locks[t] = {}
  /\ status[t] = "sealed" => mode[t] = "optimistic" /\ OptimisticCommitLock \in locks[t]
  /\ mode[t] = "pessimistic" => \A q \in locks[t] : q.mode # "optimistic"

\* The statement that is acquiring locks
PendShape(t) ==
  /\ pend[t].stage # "none" => status[t] = "active" /\ mode[t] = "pessimistic"
  /\ pend[t].stage \in {"none", "granted", "guarded", "fenced"} => pend[t].all \subseteq locks[t]
  /\ pend[t].stage = "granted" => pend[t].reqs \subseteq locks[t]
  /\ pend[t].stage = "replay" =>
       /\ pend[t].reqs \subseteq locks[t] /\ pend[t].saved \subseteq locks[t]
       /\ \E q \in pend[t].reqs : q.target = Label
  /\ pend[t].stage = "footprint" =>
       /\ \E q \in pend[t].reqs : q.target = Label
       /\ writes[t] \subseteq Nodes /\ \A e \in writes[t] : Exclusive(e) \in pend[t].reqs
       /\ \A q \in pend[t].reqs : q.mode # "optimistic"
       /\ GuardedBy(pend[t].reqs) \subseteq GuardedBy(locks[t])

\* What is written is locked, and what is guarded is protected by a lock
HeldShape(t) ==
  status[t] = "active" /\ mode[t] = "pessimistic" =>
    /\ pend[t].stage # "footprint" =>
         \A e \in writes[t] \cap Entities :
           /\ \E q \in Settled(t) : q.mode = "exclusive" /\ TargetCovers(q.target, e)
           /\ e \in Nodes => \E q \in Settled(t) : q.target \in {Label, Database}
    /\ guarded[t] \cup (writes[t] \cap Entities) \subseteq GuardedBy(Settled(t))
    /\ Schema \notin writes[t]

\* What is protected has not changed since the snapshot
CurrentShape(t) ==
  status[t] = "active" /\ LockCoordinated(t) =>
    /\ pend[t].stage # "granted" =>
         \A e \in GuardedBy(Settled(t)) : lastWrite[e] <= base[t]
    /\ pend[t].stage = "granted" =>
         \A e \in GuardedBy(locks[t]) :
           lastWrite[e] <= base[t] \/ (e \in GuardedBy(pend[t].reqs) /\ ~ pend[t].covered)
    /\ \A e \in guarded[t] \cup (writes[t] \cap Entities) : lastWrite[e] <= base[t]

TxnShape(t) == RestShape(t) /\ PendShape(t) /\ HeldShape(t) /\ CurrentShape(t)

LockInv == IndexInv /\ LockExclusion /\ \A t \in Txns : TxnShape(t)

-----------------------------------------------------------------------------
(* Facts about locks. *)

\* Every column of a transaction's state has an entry for each slot
Tables ==
  /\ DOMAIN status = Txns /\ DOMAIN mode = Txns /\ DOMAIN isolation = Txns
  /\ DOMAIN base = Txns /\ DOMAIN late = Txns
  /\ DOMAIN statements = Txns /\ DOMAIN reads = Txns /\ DOMAIN writes = Txns
  /\ DOMAIN guarded = Txns /\ DOMAIN pend = Txns /\ DOMAIN locks = Txns

\* What the absence of a statement is
LEMMA NoStatementFacts ==
  /\ NoStatement.stage = "none" /\ NoStatement.stage \notin {"granted", "guarded", "fenced"}
  /\ NoStatement.stage # "replay" /\ NoStatement.stage # "footprint"
  /\ NoStatement.reqs = {} /\ NoStatement.all = {} /\ NoStatement.saved = {}
  BY SMT DEF NoStatement

\* A consequence of the types
LEMMA TablesTyped == TypeOK => Tables
  BY SMT DEF TypeOK, PinTypes, WorkTypes, Tables

\* Conflicts are symmetric
LEMMA ConflictSymmetry ==
  ASSUME NEW p, NEW q
  PROVE  (Overlap(p.target, q.target) /\ ModesConflict(p.mode, q.mode))
           => (Overlap(q.target, p.target) /\ ModesConflict(q.mode, p.mode))
  BY DEF Overlap, ModesConflict

\* Entities are no other targets
LEMMA TargetFacts ==
  /\ \A e \in Entities : e # Table /\ e # Label /\ e # Database
  /\ \A e \in Nodes : e \notin Rows /\ e \in Entities
  /\ \A e \in Rows : e \notin Nodes /\ e \in Entities
  /\ Table # Label /\ Table # Database /\ Label # Database
  BY KeysDistinct, TargetsDistinct DEF Entities, InlineBarriers, Table, Label, Database

\* More locks guard more
LEMMA GuardedMonotone ==
  ASSUME NEW S, NEW T
  PROVE  /\ GuardedBy(S \cup T) = GuardedBy(S) \cup GuardedBy(T)
         /\ S \subseteq T => GuardedBy(S) \subseteq GuardedBy(T)
         /\ GuardedBy({}) = {}
  BY DEF GuardedBy

\* What two transactions guard and write is disjoint
LEMMA WriterMeetsGuard ==
  ASSUME LockExclusion, NEW t \in Txns, NEW u \in Txns, t # u, NEW e \in Entities,
         \E q \in locks[u] : q.mode = "exclusive" /\ TargetCovers(q.target, e),
         e \in Nodes => \E q \in locks[u] : q.target \in {Label, Database}
  PROVE  e \notin GuardedBy(locks[t])
  <1>1. SUFFICES ASSUME NEW p \in locks[t],
                        TargetCovers(p.target, e) \/ (e \in Nodes /\ p = Exclusive(Label))
                 PROVE  FALSE
    BY DEF GuardedBy
  <1>2. CASE TargetCovers(p.target, e)
    <2>1. PICK q \in locks[u] : q.mode = "exclusive" /\ TargetCovers(q.target, e)
      OBVIOUS
    <2>2. Overlap(p.target, q.target)
      BY SMT, <1>2, <2>1 DEF TargetCovers, Overlap
    <2>3. ModesConflict(p.mode, q.mode)
      BY <2>1 DEF ModesConflict
    <2>4. QED BY <2>2, <2>3 DEF LockExclusion
  <1>3. CASE e \in Nodes /\ p = Exclusive(Label)
    <2>1. PICK q \in locks[u] : q.target \in {Label, Database}
      BY <1>3
    <2>2. Overlap(p.target, q.target) /\ ModesConflict(p.mode, q.mode)
      BY <1>3, <2>1 DEF Overlap, ModesConflict, Exclusive
    <2>3. QED BY <2>2 DEF LockExclusion
  <1>4. QED BY <1>1, <1>2, <1>3

\* While an optimistic transaction commits, no pessimistic one guards anything
LEMMA SealedMeetsGuard ==
  ASSUME LockExclusion, NEW t \in Txns, NEW u \in Txns, t # u,
         OptimisticCommitLock \in locks[u], \A q \in locks[t] : q.mode # "optimistic"
  PROVE  locks[t] = {} /\ GuardedBy(locks[t]) = {}
  <1>1. SUFFICES ASSUME NEW p \in locks[t] PROVE FALSE
    BY GuardedMonotone
  <1>2. Overlap(p.target, OptimisticCommitLock.target)
          /\ ModesConflict(p.mode, OptimisticCommitLock.mode)
    BY DEF OptimisticCommitLock, Overlap, ModesConflict
  <1>3. QED BY <1>2 DEF LockExclusion

\* A covered request guards nothing new
LEMMA CoveredGuards ==
  ASSUME NEW t \in Txns, locks[t] \subseteq Requests, NEW reqs, CoversAll(t, reqs)
  PROVE  GuardedBy(reqs) \subseteq GuardedBy(locks[t])
  <1>1. SUFFICES ASSUME NEW e \in Entities, NEW q \in reqs,
                        TargetCovers(q.target, e) \/ (e \in Nodes /\ q = Exclusive(Label))
                 PROVE  e \in GuardedBy(locks[t])
    BY DEF GuardedBy
  <1>2. PICK held \in locks[t] :
          TargetCovers(held.target, q.target) /\ ModeCovers(held.mode, q.mode)
    BY DEF CoversAll
  <1>3. CASE TargetCovers(q.target, e)
    <2>1. TargetCovers(held.target, e)
      BY <1>2, <1>3, TargetFacts DEF TargetCovers
    <2>2. QED BY <2>1 DEF GuardedBy
  <1>4. CASE e \in Nodes /\ q = Exclusive(Label)
    <2>1. q.target = Label /\ q.mode = "exclusive"
      BY <1>4 DEF Exclusive
    <2>2. held.mode = "exclusive" /\ held.target \in {Label, Database}
      BY <1>2, <2>1, TargetFacts DEF TargetCovers, ModeCovers, Entities
    <2>3. CASE held.target = Label
      <3>1. held = Exclusive(Label)
        BY <2>2, <2>3 DEF Exclusive, Requests
      <3>2. QED BY <1>4, <3>1 DEF GuardedBy
    <2>4. CASE held.target = Database
      BY <2>4 DEF GuardedBy, TargetCovers
    <2>5. QED BY <2>2, <2>3, <2>4
  <1>5. QED BY <1>1, <1>3, <1>4

\* A snapshot that passes validate_locked_snapshot shows the guarded entities
\* as they are
LEMMA ValidSnapshotIsCurrent ==
  ASSUME IndexInv, NEW t \in Txns, NEW reqs, LockedSnapshotValid(t, reqs)
  PROVE  \A e \in GuardedBy(reqs) : lastWrite[e] <= base[t]
  <1>1. SUFFICES ASSUME NEW e \in Entities, NEW q \in reqs,
                        TargetCovers(q.target, e) \/ (e \in Nodes /\ q = Exclusive(Label))
                 PROVE  lastWrite[e] <= base[t]
    BY DEF GuardedBy
  <1>2. /\ lastWrite[e] \in Nat /\ base[t] \in Nat /\ index \in Indexes
        /\ index.floor \in Nat /\ index.stamp[e] \in Nat /\ index.stamp[Database] \in Nat
    BY SMT, KeyFacts DEF IndexInv, TypeOK, StoreTypes, PinTypes, Indexes
  <1>3. lastWrite[e] > index.floor =>
          index.stamp[e] >= lastWrite[e] \/ index.stamp[Database] >= lastWrite[e]
    BY DEF IndexInv, Usable
  <1>4. index.stamp[Database] <= base[t] /\ index.floor <= base[t]
    BY SMT, <1>2 DEF LockedSnapshotValid, HistoryReclaimedAfter
  <1>5. index.stamp[e] <= base[t] => lastWrite[e] <= base[t]
    BY SMT, <1>2, <1>3, <1>4
  <1>6. CASE q.target \in Rows /\ index.stamp[q.target] <= base[t]
    <2>1. q.target = e
      BY SMT, <1>1, <1>6, TargetFacts DEF TargetCovers, Exclusive
    <2>2. QED BY <1>5, <1>6, <2>1
  <1>7. CASE q.target = Table /\ \A k \in Rows : index.stamp[k] <= base[t]
    <2>1. e \in Rows
      BY SMT, <1>1, <1>7, TargetFacts DEF TargetCovers, Exclusive
    <2>2. QED BY <1>5, <1>7, <2>1
  <1>8. CASE epoch = base[t]
    BY <1>8 DEF IndexInv
  <1>9. QED BY <1>6, <1>7, <1>8 DEF LockedSnapshotValid

-----------------------------------------------------------------------------
(* Steps of one transaction leave the others alone. *)

\* Nothing of the transaction changes
Same(t) ==
  /\ status'[t] = status[t] /\ mode'[t] = mode[t] /\ isolation'[t] = isolation[t]
  /\ base'[t] = base[t] /\ writes'[t] = writes[t] /\ guarded'[t] = guarded[t]
  /\ pend'[t] = pend[t] /\ locks'[t] = locks[t]

Locally(t) == \A u \in Txns \ {t} : Same(u)

\* What a step of t has to establish
After(t) == Locally(t) /\ LockExclusion' /\ TxnShape(t)'

\* A transaction keeps its shape while nobody writes what it guards
LEMMA Frame ==
  ASSUME NEW u \in Txns, TxnShape(u), Same(u),
         status[u] = "active" /\ LockCoordinated(u) =>
           \A e \in GuardedBy(locks[u]) : lastWrite'[e] = lastWrite[e]
  PROVE  TxnShape(u)'
  <1>1. RestShape(u)'
    BY DEF TxnShape, RestShape, Same
  <1>2. PendShape(u)'
    BY DEF TxnShape, PendShape, Same
  <1>3. HeldShape(u)'
    BY DEF TxnShape, HeldShape, Same, Settled
  <1>4. CurrentShape(u)'
    <2>1. SUFFICES ASSUME status[u] = "active", LockCoordinated(u)
                   PROVE  CurrentShape(u)'
      BY DEF CurrentShape, LockCoordinated, Same
    <2>2. GuardedBy(Settled(u)) \subseteq GuardedBy(locks[u])
      BY GuardedMonotone DEF Settled, TxnShape, PendShape
    <2>3. guarded[u] \cup (writes[u] \cap Entities) \subseteq GuardedBy(locks[u])
      BY <2>1, <2>2 DEF TxnShape, HeldShape, LockCoordinated
    <2>4. \A e \in GuardedBy(locks[u]) : lastWrite'[e] = lastWrite[e]
      BY <2>1
    <2>5. QED
      BY <2>1, <2>2, <2>3, <2>4 DEF TxnShape, CurrentShape, Same, Settled, LockCoordinated
  <1>5. QED BY <1>1, <1>2, <1>3, <1>4 DEF TxnShape

\* Locks that were granted keep the table free of conflicts
LEMMA GrantKeepsExclusion ==
  ASSUME LockExclusion, NEW t \in Txns, Locally(t), NEW reqs, Grantable(t, reqs),
         locks'[t] \subseteq locks[t] \cup reqs
  PROVE  LockExclusion'
  <1>1. SUFFICES ASSUME NEW v \in Txns, NEW u \in Txns, v # u,
                        NEW p \in locks'[v], NEW q \in locks'[u],
                        Overlap(p.target, q.target) /\ ModesConflict(p.mode, q.mode)
                 PROVE  FALSE
    BY DEF LockExclusion
  <1>2. Overlap(q.target, p.target) /\ ModesConflict(q.mode, p.mode)
    BY <1>1, ConflictSymmetry
  <1>3. CASE v = t
    <2>1. q \in locks[u]
      BY <1>1, <1>3 DEF Locally, Same
    <2>2. QED BY <1>1, <1>2, <1>3, <2>1 DEF LockExclusion, Grantable
  <1>4. CASE u = t
    <2>1. p \in locks[v]
      BY <1>1, <1>4 DEF Locally, Same
    <2>2. QED BY <1>1, <1>4, <2>1 DEF LockExclusion, Grantable
  <1>5. CASE v # t /\ u # t
    BY <1>1, <1>5 DEF LockExclusion, Locally, Same
  <1>6. QED BY <1>3, <1>4, <1>5

\* So do locks that are given up
LEMMA ReleaseKeepsExclusion ==
  ASSUME LockExclusion, NEW t \in Txns, Locally(t), locks'[t] \subseteq locks[t]
  PROVE  LockExclusion'
  <1>1. Grantable(t, {})
    BY DEF Grantable
  <1>2. QED BY <1>1, GrantKeepsExclusion

\* Nobody is written at the time of the snapshot or before it
LEMMA FreshIsCurrent ==
  ASSUME IndexInv
  PROVE  \A e \in Entities : lastWrite[e] <= epoch
  BY DEF IndexInv

-----------------------------------------------------------------------------
(* Beginning and ending. *)

\* A snapshot is taken: explicit and upgraded transactions
LEMMA BeginStep ==
  ASSUME LockInv, NEW t \in Txns, NEW m, NEW i, NEW e, NEW late_,
         m = "pessimistic" => e = epoch,
         status[t] = "idle", Start(t, m, i, e, late_),
         UNCHANGED <<storeVars, statements, writes, guarded, pend, locks>>
  PROVE  After(t)
  <1>1. TypeOK /\ Tables /\ TxnShape(t) /\ LockExclusion
    BY TablesTyped DEF LockInv, IndexInv
  <1>2. Locally(t)
    BY <1>1 DEF Locally, Same, Start, Tables
  <1>3. LockExclusion'
    BY <1>1, <1>2, ReleaseKeepsExclusion
  <1>4. /\ status'[t] = "active" /\ mode'[t] = m /\ base'[t] = e
        /\ writes'[t] = {} /\ guarded'[t] = {} /\ pend'[t] = NoStatement /\ locks'[t] = {}
    BY <1>1 DEF TxnShape, RestShape, Start, Tables
  <1>5. RestShape(t)' /\ PendShape(t)'
    BY <1>4, NoStatementFacts DEF RestShape, PendShape
  <1>6. HeldShape(t)' /\ CurrentShape(t)'
    <2>1. GuardedBy(Settled(t)') = {}
      BY <1>4, GuardedMonotone, NoStatementFacts DEF Settled
    <2>2. QED BY <1>4, <2>1, NoStatementFacts DEF HeldShape, CurrentShape
  <1>7. QED BY <1>2, <1>3, <1>5, <1>6 DEF After, TxnShape

\* The slot becomes free
LEMMA EndStep ==
  ASSUME LockInv, NEW t \in Txns, Ended(t)
  PROVE  After(t)
  <1>1. TypeOK /\ Tables /\ LockExclusion
    BY TablesTyped DEF LockInv, IndexInv
  <1>2. Locally(t)
    BY <1>1 DEF Locally, Same, Ended, Tables
  <1>3. /\ status'[t] = "idle" /\ mode'[t] = "pessimistic" /\ isolation'[t] = "snapshot"
        /\ writes'[t] = {} /\ guarded'[t] = {} /\ pend'[t] = NoStatement /\ locks'[t] = {}
    BY <1>1 DEF Ended, Tables
  <1>4. LockExclusion'
    BY <1>1, <1>2, <1>3, ReleaseKeepsExclusion
  <1>5. TxnShape(t)'
    BY <1>3, NoStatementFacts DEF TxnShape, RestShape, PendShape, HeldShape, CurrentShape
  <1>6. QED BY <1>2, <1>4, <1>5 DEF After

\* The transaction is committed and still holds its locks
LEMMA TakenStep ==
  ASSUME LockInv, NEW t \in Txns, Taken(t), ReadyToCommit(t)
  PROVE  After(t)
  <1>1. TypeOK /\ Tables /\ LockExclusion /\ TxnShape(t)
    BY TablesTyped DEF LockInv, IndexInv
  <1>2. Locally(t)
    BY <1>1 DEF Locally, Same, Taken, Tables
  <1>3. /\ status'[t] = "committed" /\ mode'[t] = mode[t] /\ isolation'[t] = isolation[t]
        /\ pend'[t] = pend[t] /\ locks'[t] = locks[t]
    BY <1>1 DEF Taken, Tables
  <1>4. LockExclusion'
    BY <1>1, <1>2, <1>3, ReleaseKeepsExclusion
  <1>5. pend[t].stage = "none"
    BY <1>1 DEF ReadyToCommit, TxnShape, PendShape
  <1>6. TxnShape(t)'
    BY <1>1, <1>3, <1>5 DEF TxnShape, RestShape, PendShape, HeldShape, CurrentShape
  <1>7. QED BY <1>2, <1>4, <1>6 DEF After

-----------------------------------------------------------------------------
(* Statements. *)

\* Plain reads
LEMMA ReadStep ==
  ASSUME LockInv, NEW t \in Txns, NEW key, Read(t, key)
  PROVE  After(t)
  <1>1. TypeOK /\ Tables /\ LockExclusion /\ TxnShape(t)
    BY TablesTyped DEF LockInv, IndexInv
  <1>2. Locally(t) /\ Same(t) /\ lastWrite' = lastWrite
    BY SMT, <1>1, GuardedMonotone DEF Locally, Same, Read, Succeed, storeVars, Tables
  <1>3. LockExclusion'
    BY <1>1, <1>2, ReleaseKeepsExclusion DEF Same
  <1>4. QED BY <1>1, <1>2, <1>3, Frame DEF After

\* Mutations of an optimistic transaction
LEMMA OptimisticWriteStep ==
  ASSUME LockInv, NEW t \in Txns, NEW changed, OptimisticWrite(t, changed)
  PROVE  After(t)
  <1>1. TypeOK /\ Tables /\ LockExclusion /\ TxnShape(t)
    BY TablesTyped DEF LockInv, IndexInv
  <1>2. Locally(t)
    BY <1>1 DEF Locally, Same, OptimisticWrite, Succeed, Tables
  <1>3. /\ status'[t] = "active" /\ mode'[t] = "optimistic" /\ pend'[t] = pend[t]
        /\ locks'[t] = locks[t] /\ mode[t] = "optimistic" /\ status[t] = "active"
    BY DEF OptimisticWrite
  <1>4. LockExclusion'
    BY <1>1, <1>2, <1>3, ReleaseKeepsExclusion
  <1>5. TxnShape(t)'
    BY <1>1, <1>3 DEF TxnShape, RestShape, PendShape, HeldShape, CurrentShape, LockCoordinated
  <1>6. QED BY <1>2, <1>4, <1>5 DEF After

\* A batch of a SQL statement is granted: it guards nothing yet that is not
\* covered
LEMMA SqlLockStep ==
  ASSUME LockInv, NEW t \in Txns, NEW q \in SqlRequests, SqlLock(t, q)
  PROVE  After(t)
  <1>1. TypeOK /\ Tables /\ LockExclusion /\ TxnShape(t) /\ locks[t] \subseteq Requests
    BY SMT, TablesTyped DEF LockInv, IndexInv, TypeOK, WorkTypes
  <1>2. Locally(t)
    BY <1>1 DEF Locally, Same, SqlLock, Tables
  <1>3. /\ status[t] = "active" /\ mode[t] = "pessimistic"
        /\ status'[t] = status[t] /\ mode'[t] = mode[t] /\ isolation'[t] = isolation[t]
        /\ base'[t] = base[t] /\ writes'[t] = writes[t] /\ guarded'[t] = guarded[t]
        /\ lastWrite' = lastWrite /\ locks'[t] = locks[t] \cup {q}
        /\ pend'[t].stage = "granted" /\ pend'[t].reqs = {q}
        /\ pend'[t].all = pend[t].all \cup {q} /\ pend'[t].covered = CoversAll(t, {q})
        /\ pend[t].stage \in {"none", "guarded"}
    BY <1>1 DEF SqlLock, Tables, storeVars
  <1>4. LockExclusion'
    BY <1>1, <1>2, <1>3, GrantKeepsExclusion DEF SqlLock
  <1>5. q.mode # "optimistic"
    BY SMT, InputsAssumption
  <1>6. RestShape(t)' /\ PendShape(t)'
    BY <1>1, <1>3, <1>5 DEF TxnShape, RestShape, PendShape
  <1>7. Settled(t) = locks[t] /\ Settled(t)' = locks[t] \cup {q}
    BY <1>3 DEF Settled
  <1>8. GuardedBy(locks[t] \cup {q}) = GuardedBy(locks[t]) \cup GuardedBy({q})
    BY GuardedMonotone
  <1>9. HeldShape(t)'
    BY <1>1, <1>3, <1>7, <1>8 DEF TxnShape, HeldShape
  <1>10. CurrentShape(t)'
    <2>1. CoversAll(t, {q}) => GuardedBy({q}) \subseteq GuardedBy(locks[t])
      BY <1>1, CoveredGuards
    <2>2. QED BY <1>1, <1>3, <1>7, <1>8, <2>1 DEF TxnShape, CurrentShape, LockCoordinated
  <1>11. QED BY <1>2, <1>4, <1>6, <1>9, <1>10 DEF After, TxnShape

\* The snapshot check passes: what the batch guards is current
LEMMA SqlFenceStep ==
  ASSUME LockInv, NEW t \in Txns, SqlFence(t)
  PROVE  After(t)
  <1>1. TypeOK /\ Tables /\ LockExclusion /\ TxnShape(t) /\ IndexInv
    BY TablesTyped DEF LockInv, IndexInv
  <1>2. Locally(t)
    BY <1>1 DEF Locally, Same, SqlFence, Tables
  <1>3. /\ pend[t].stage = "granted" /\ pend'[t].stage \in {"guarded", "fenced"}
        /\ pend'[t].all = pend[t].all /\ pend'[t].reqs = pend[t].reqs
        /\ status'[t] = status[t] /\ mode'[t] = mode[t] /\ isolation'[t] = isolation[t]
        /\ base'[t] = base[t] /\ writes'[t] = writes[t] /\ guarded'[t] = guarded[t]
        /\ lastWrite' = lastWrite /\ locks'[t] = locks[t]
    <2>1. pend[t] \in Statements
      BY SMT, <1>1 DEF TypeOK, WorkTypes
    <2>2. QED BY <1>1, <2>1 DEF SqlFence, Tables, storeVars, Statements
  <1>4. LockExclusion'
    BY <1>1, <1>2, <1>3, ReleaseKeepsExclusion
  <1>5. RestShape(t)' /\ PendShape(t)'
    BY <1>1, <1>3 DEF TxnShape, RestShape, PendShape
  <1>6. Settled(t) = locks[t] /\ Settled(t)' = locks[t]
    BY <1>3 DEF Settled
  <1>7. HeldShape(t)'
    BY <1>1, <1>3, <1>6 DEF TxnShape, HeldShape
  <1>8. CurrentShape(t)'
    <2>1. SUFFICES ASSUME status[t] = "active", LockCoordinated(t)
                   PROVE  \A e \in GuardedBy(locks[t]) : lastWrite[e] <= base[t]
      BY <1>1, <1>3, <1>6 DEF TxnShape, CurrentShape, LockCoordinated
    <2>2. \/ epoch = base[t]
          \/ pend[t].covered
          \/ LockedSnapshotValid(t, pend[t].reqs)
      BY <2>1 DEF SqlFence, Overtaken, LockCoordinated
    <2>3. CASE epoch = base[t]
      BY <1>1, <2>3, FreshIsCurrent DEF GuardedBy
    <2>4. CASE pend[t].covered
      BY <1>1, <1>3, <2>1, <2>4 DEF TxnShape, CurrentShape
    <2>5. CASE LockedSnapshotValid(t, pend[t].reqs)
      BY <1>1, <1>3, <2>1, <2>5, ValidSnapshotIsCurrent DEF TxnShape, CurrentShape
    <2>6. QED BY <2>2, <2>3, <2>4, <2>5
  <1>9. QED BY <1>2, <1>4, <1>5, <1>7, <1>8 DEF After, TxnShape

\* The snapshot is replaced before the first statement
LEMMA SqlRefreshStep ==
  ASSUME LockInv, NEW t \in Txns, SqlRefresh(t)
  PROVE  After(t)
  <1>1. TypeOK /\ Tables /\ LockExclusion /\ TxnShape(t) /\ IndexInv
    BY TablesTyped DEF LockInv, IndexInv
  <1>2. Locally(t)
    BY <1>1 DEF Locally, Same, SqlRefresh, Tables
  <1>3. /\ pend[t].stage = "granted" /\ pend'[t] = NoStatement
        /\ status'[t] = status[t] /\ mode'[t] = mode[t] /\ isolation'[t] = isolation[t]
        /\ base'[t] = epoch /\ writes'[t] = writes[t] /\ guarded'[t] = guarded[t]
        /\ lastWrite' = lastWrite /\ locks'[t] = locks[t]
    BY <1>1 DEF SqlRefresh, Tables, storeVars
  <1>4. LockExclusion'
    BY <1>1, <1>2, <1>3, ReleaseKeepsExclusion
  <1>5. RestShape(t)' /\ PendShape(t)'
    BY <1>1, <1>3, NoStatementFacts DEF TxnShape, RestShape, PendShape
  <1>6. Settled(t) = locks[t] /\ Settled(t)' = locks[t]
    BY <1>3, NoStatementFacts DEF Settled
  <1>7. HeldShape(t)'
    BY <1>1, <1>3, <1>6, NoStatementFacts DEF TxnShape, HeldShape
  <1>8. CurrentShape(t)'
    <2>1. guarded[t] \subseteq Entities
      BY SMT, <1>1 DEF TypeOK, WorkTypes
    <2>2. QED BY <1>1, <1>3, <1>6, <2>1, FreshIsCurrent, NoStatementFacts DEF CurrentShape, GuardedBy
  <1>9. QED BY <1>2, <1>4, <1>5, <1>7, <1>8 DEF After, TxnShape

\* A SQL statement fails under its locks and keeps them
LEMMA SqlFailStep ==
  ASSUME LockInv, NEW t \in Txns, SqlFail(t)
  PROVE  After(t)
  <1>1. TypeOK /\ Tables /\ LockExclusion /\ TxnShape(t)
    BY TablesTyped DEF LockInv, IndexInv
  <1>2. Locally(t)
    BY <1>1 DEF Locally, Same, SqlFail, Tables
  <1>3. /\ pend[t].stage \in {"guarded", "fenced"} /\ pend'[t] = NoStatement
        /\ status'[t] = status[t] /\ mode'[t] = mode[t] /\ isolation'[t] = isolation[t]
        /\ base'[t] = base[t]
        /\ writes'[t] = writes[t] /\ guarded'[t] = guarded[t]
        /\ lastWrite' = lastWrite /\ locks'[t] = locks[t]
    BY <1>1 DEF SqlFail, Tables, storeVars
  <1>4. LockExclusion'
    BY <1>1, <1>2, <1>3, ReleaseKeepsExclusion
  <1>5. RestShape(t)' /\ PendShape(t)'
    BY <1>1, <1>3, NoStatementFacts DEF TxnShape, RestShape, PendShape
  <1>6. Settled(t) = locks[t] /\ Settled(t)' = locks[t]
    BY <1>3, NoStatementFacts DEF Settled
  <1>7. HeldShape(t)' /\ CurrentShape(t)'
    BY <1>1, <1>3, <1>6, NoStatementFacts DEF TxnShape, HeldShape, CurrentShape, LockCoordinated
  <1>8. QED BY <1>2, <1>4, <1>5, <1>7 DEF After, TxnShape

\* A SQL statement runs under its locks
LEMMA SqlExecuteStep ==
  ASSUME LockInv, NEW t \in Txns, NEW changed, SqlExecute(t, changed)
  PROVE  After(t)
  <1>1. TypeOK /\ Tables /\ LockExclusion /\ TxnShape(t)
    BY TablesTyped DEF LockInv, IndexInv
  <1>2. Locally(t)
    BY <1>1 DEF Locally, Same, SqlExecute, Succeed, Tables
  <1>3. /\ pend[t].stage \in {"guarded", "fenced"} /\ pend'[t] = NoStatement
        /\ status'[t] = status[t] /\ mode'[t] = mode[t] /\ isolation'[t] = isolation[t]
        /\ base'[t] = base[t]
        /\ writes'[t] = writes[t] \cup changed
        /\ guarded'[t] = guarded[t] \cup GuardedBy(pend[t].all)
        /\ lastWrite' = lastWrite /\ locks'[t] = locks[t]
    BY <1>1 DEF SqlExecute, Succeed, Tables, storeVars
  <1>4. LockExclusion'
    BY <1>1, <1>2, <1>3, ReleaseKeepsExclusion
  <1>5. RestShape(t)' /\ PendShape(t)'
    BY <1>1, <1>3, NoStatementFacts DEF TxnShape, RestShape, PendShape
  <1>6. Settled(t) = locks[t] /\ Settled(t)' = locks[t]
    BY <1>3, NoStatementFacts DEF Settled
  <1>7. pend[t].all \subseteq locks[t] /\ GuardedBy(pend[t].all) \subseteq GuardedBy(locks[t])
    BY <1>1, <1>3, GuardedMonotone DEF TxnShape, PendShape
  <1>8. /\ \A e \in changed \cap Entities :
             e \in Rows /\ \E q \in locks[t] : q.mode = "exclusive" /\ TargetCovers(q.target, e)
        /\ Schema \notin changed
    <2>1. \A e \in changed : e \in WritableUnder(pend[t].all) \cap Rows \/ e = Database
      BY DEF SqlExecute, SqlWritable
    <2>2. \A r \in Rows : r # Schema
      BY KeysDistinct DEF Entities
    <2>3. Schema # Database
      BY DEF Schema, Database
    <2>4. Schema \notin changed
      BY <2>1, <2>2, <2>3
    <2>5. ASSUME NEW e \in changed \cap Entities
          PROVE  e \in Rows /\ \E q \in locks[t] : q.mode = "exclusive" /\ TargetCovers(q.target, e)
      <3>1. e \in WritableUnder(pend[t].all) /\ e \in Rows
        BY <2>1, <2>5, TargetFacts
      <3>2. QED BY <1>7, <3>1 DEF WritableUnder
    <2>6. QED BY <2>4, <2>5
  <1>9. changed \cap Entities \subseteq GuardedBy(locks[t])
    BY <1>8 DEF GuardedBy
  <1>10. HeldShape(t)'
    BY <1>1, <1>3, <1>6, <1>7, <1>8, <1>9, TargetFacts, NoStatementFacts DEF TxnShape, HeldShape
  <1>11. CurrentShape(t)'
    BY <1>1, <1>3, <1>6, <1>7, <1>9, NoStatementFacts DEF TxnShape, CurrentShape, LockCoordinated
  <1>12. QED BY <1>2, <1>4, <1>5, <1>10, <1>11 DEF After, TxnShape

\* The locks of a graph statement are what its writes need
LEMMA FootprintFacts ==
  ASSUME NEW changed \in SUBSET Nodes, NEW m \in {"shared", "exclusive"}
  PROVE  /\ \E q \in Footprint(changed, m) : q.target = Label
         /\ \A e \in changed : Exclusive(e) \in Footprint(changed, m)
         /\ \A q \in Footprint(changed, m) : q.mode # "optimistic"
         /\ changed \subseteq GuardedBy(Footprint(changed, m))
         /\ WritableUnder(Footprint(changed, m)) = changed
  <1>1. /\ \E q \in Footprint(changed, m) : q.target = Label
        /\ \A e \in changed : Exclusive(e) \in Footprint(changed, m)
        /\ \A q \in Footprint(changed, m) : q.mode # "optimistic"
    <2>1. [target |-> Label, mode |-> m] \in Footprint(changed, m)
      BY DEF Footprint
    <2>2. \A e \in changed : Exclusive(e) \in Footprint(changed, m)
      BY DEF Footprint
    <2>3. \A q \in Footprint(changed, m) : q.mode # "optimistic"
      BY SMT DEF Footprint, Exclusive
    <2>4. QED BY <2>1, <2>2, <2>3
  <1>2. \A e \in changed : Exclusive(e).target = e /\ Exclusive(e).mode = "exclusive" /\ e \in Entities
    BY DEF Exclusive, Entities
  <1>3. changed \subseteq GuardedBy(Footprint(changed, m))
    BY <1>1, <1>2 DEF GuardedBy, TargetCovers
  <1>4. changed \subseteq WritableUnder(Footprint(changed, m))
    BY <1>1, <1>2 DEF WritableUnder, TargetCovers
  <1>5. ASSUME NEW e \in WritableUnder(Footprint(changed, m)) PROVE e \in changed
    <2>1. PICK q \in Footprint(changed, m) : q.mode = "exclusive" /\ TargetCovers(q.target, e)
      BY DEF WritableUnder
    <2>2. q.target = Label \/ q.target \in changed
      BY SMT, <1>2 DEF Footprint
    <2>3. e \in Entities
      BY DEF WritableUnder
    <2>4. QED BY <1>2, <2>1, <2>2, <2>3, TargetFacts DEF TargetCovers
  <1>6. QED BY <1>1, <1>3, <1>4, <1>5

\* A graph statement runs under locks the transaction has
LEMMA GraphReuseStep ==
  ASSUME LockInv, NEW t \in Txns, NEW changed \in SUBSET Nodes, NEW m \in {"shared", "exclusive"},
         GraphReuse(t, changed, m)
  PROVE  After(t)
  <1>1. TypeOK /\ Tables /\ LockExclusion /\ TxnShape(t) /\ locks[t] \subseteq Requests
    BY SMT, TablesTyped DEF LockInv, IndexInv, TypeOK, WorkTypes
  <1> DEFINE reqs == Footprint(changed, m)
  <1>2. Locally(t)
    BY <1>1 DEF Locally, Same, GraphReuse, Succeed, Tables
  <1>3. /\ pend[t].stage = "none" /\ pend'[t] = pend[t]
        /\ status'[t] = status[t] /\ mode'[t] = mode[t] /\ isolation'[t] = isolation[t]
        /\ base'[t] = base[t]
        /\ writes'[t] = writes[t] \cup changed
        /\ guarded'[t] = guarded[t] \cup GuardedBy(reqs)
        /\ lastWrite' = lastWrite /\ locks'[t] = locks[t] /\ CoversAll(t, reqs)
    BY <1>1 DEF GraphReuse, Succeed, Tables, storeVars
  <1>4. LockExclusion'
    BY <1>1, <1>2, <1>3, ReleaseKeepsExclusion
  <1>5. RestShape(t)' /\ PendShape(t)'
    BY <1>1, <1>3 DEF TxnShape, RestShape, PendShape, GraphReuse
  <1>6. Settled(t) = locks[t] /\ Settled(t)' = locks[t]
    BY <1>3 DEF Settled
  <1>7. GuardedBy(reqs) \subseteq GuardedBy(locks[t]) /\ changed \subseteq GuardedBy(locks[t])
    BY <1>1, <1>3, CoveredGuards, FootprintFacts
  <1>8. /\ \A e \in changed : \E q \in locks[t] : q.mode = "exclusive" /\ TargetCovers(q.target, e)
        /\ \E q \in locks[t] : q.target \in {Label, Database}
    <2>1. ASSUME NEW e \in changed
          PROVE  \E q \in locks[t] : q.mode = "exclusive" /\ TargetCovers(q.target, e)
      <3>1. Exclusive(e) \in reqs
        BY FootprintFacts
      <3>2. PICK q \in locks[t] : TargetCovers(q.target, Exclusive(e).target)
                                  /\ ModeCovers(q.mode, Exclusive(e).mode)
        BY <1>3, <3>1 DEF CoversAll
      <3>3. QED BY <3>2 DEF Exclusive, ModeCovers
    <2>2. PICK r \in reqs : r.target = Label
      BY FootprintFacts
    <2>3. PICK q \in locks[t] : TargetCovers(q.target, r.target)
      BY <1>3, <2>2 DEF CoversAll
    <2>4. q.target \in {Label, Database}
      BY <2>2, <2>3, TargetFacts DEF TargetCovers, Entities
    <2>5. QED BY <2>1, <2>4
  <1>9. changed \subseteq Entities /\ Database \notin changed /\ Schema \notin changed
    BY KeysDistinct, TargetFacts DEF Entities, InlineBarriers
  <1>10. HeldShape(t)'
    BY <1>1, <1>3, <1>6, <1>7, <1>8, <1>9 DEF TxnShape, HeldShape
  <1>11. CurrentShape(t)'
    BY <1>1, <1>3, <1>6, <1>7, <1>9 DEF TxnShape, CurrentShape, LockCoordinated
  <1>12. QED BY <1>2, <1>4, <1>5, <1>10, <1>11 DEF After, TxnShape

\* The locks of a graph statement are granted
LEMMA GraphLockStep ==
  ASSUME LockInv, NEW t \in Txns, NEW changed \in SUBSET Nodes, NEW m \in {"shared", "exclusive"},
         GraphLock(t, changed, m)
  PROVE  After(t)
  <1>1. TypeOK /\ Tables /\ LockExclusion /\ TxnShape(t)
    BY TablesTyped DEF LockInv, IndexInv
  <1> DEFINE reqs == Footprint(changed, m)
  <1>2. Locally(t)
    BY <1>1 DEF Locally, Same, GraphLock, Tables
  <1>3. /\ pend[t].stage = "none" /\ status[t] = "active" /\ mode[t] = "pessimistic"
        /\ pend'[t].stage = "replay" /\ pend'[t].reqs = reqs /\ pend'[t].saved = locks[t]
        /\ status'[t] = status[t] /\ mode'[t] = mode[t] /\ isolation'[t] = isolation[t]
        /\ base'[t] = base[t]
        /\ writes'[t] = writes[t] /\ guarded'[t] = guarded[t]
        /\ lastWrite' = lastWrite /\ locks'[t] = locks[t] \cup reqs
    BY <1>1 DEF GraphLock, Tables, storeVars
  <1>4. LockExclusion'
    BY <1>1, <1>2, <1>3, GrantKeepsExclusion DEF GraphLock
  <1>5. RestShape(t)' /\ PendShape(t)'
    BY SMT, <1>1, <1>3, FootprintFacts DEF TxnShape, RestShape, PendShape
  <1>6. Settled(t) = locks[t] /\ Settled(t)' = locks[t]
    BY <1>3 DEF Settled
  <1>7. HeldShape(t)' /\ CurrentShape(t)'
    BY <1>1, <1>3, <1>6 DEF TxnShape, HeldShape, CurrentShape, LockCoordinated
  <1>8. QED BY <1>2, <1>4, <1>5, <1>7 DEF After, TxnShape

\* A graph statement is replayed on a snapshot that is still the newest
LEMMA GraphReplayStep ==
  ASSUME LockInv, NEW t \in Txns, GraphReplay(t)
  PROVE  After(t)
  <1>1. TypeOK /\ Tables /\ LockExclusion /\ TxnShape(t) /\ IndexInv
    BY TablesTyped DEF LockInv, IndexInv
  <1> DEFINE reqs == pend[t].reqs
             changed == WritableUnder(reqs)
  <1>2. Locally(t)
    BY <1>1 DEF Locally, Same, GraphReplay, Succeed, Tables
  <1>3. /\ pend[t].stage = "replay" /\ pend'[t] = NoStatement /\ epoch = base[t]
        /\ status'[t] = status[t] /\ mode'[t] = mode[t] /\ isolation'[t] = isolation[t]
        /\ base'[t] = base[t]
        /\ writes'[t] = writes[t] \cup changed
        /\ guarded'[t] = guarded[t] \cup GuardedBy(reqs)
        /\ lastWrite' = lastWrite /\ locks'[t] = locks[t]
    BY <1>1 DEF GraphReplay, Succeed, Tables, storeVars
  <1>4. LockExclusion'
    BY <1>1, <1>2, <1>3, ReleaseKeepsExclusion
  <1>5. RestShape(t)' /\ PendShape(t)'
    BY <1>1, <1>3, NoStatementFacts DEF TxnShape, RestShape, PendShape
  <1>6. /\ Settled(t) \subseteq locks[t] /\ Settled(t)' = locks[t]
        /\ GuardedBy(Settled(t)) \subseteq GuardedBy(locks[t])
    BY <1>1, <1>3, GuardedMonotone, NoStatementFacts DEF Settled, TxnShape, PendShape
  <1>7. /\ reqs \subseteq locks[t] /\ GuardedBy(reqs) \subseteq GuardedBy(locks[t])
        /\ \E q \in locks[t] : q.target \in {Label, Database}
    BY <1>1, <1>3, GuardedMonotone DEF TxnShape, PendShape
  <1>8. \A e \in changed :
          /\ e \in Entities
          /\ \E q \in locks[t] : q.mode = "exclusive" /\ TargetCovers(q.target, e)
    BY <1>7 DEF WritableUnder
  <1>9. changed \subseteq GuardedBy(locks[t])
    BY <1>8 DEF GuardedBy
  <1>10. Database \notin changed /\ Schema \notin changed
    BY <1>8, KeysDistinct DEF InlineBarriers
  <1>11. HeldShape(t)'
    BY <1>1, <1>3, <1>6, <1>7, <1>8, <1>9, <1>10, NoStatementFacts DEF TxnShape, HeldShape
  <1>12. CurrentShape(t)'
    <2>1. guarded'[t] \subseteq Entities
      BY SMT, <1>1, <1>3, PieceTypes DEF TypeOK, WorkTypes
    <2>2. GuardedBy(locks[t]) \subseteq Entities
      BY PieceTypes
    <2>3. QED BY <1>1, <1>3, <1>6, <2>1, <2>2, FreshIsCurrent, NoStatementFacts DEF CurrentShape
  <1>13. QED BY <1>2, <1>4, <1>5, <1>11, <1>12 DEF After, TxnShape

\* The replay fails: the locks of the savepoint protect what they protected
LEMMA GraphFailStep ==
  ASSUME LockInv, NEW t \in Txns, GraphFail(t)
  PROVE  After(t)
  <1>1. TypeOK /\ Tables /\ LockExclusion /\ TxnShape(t)
    BY TablesTyped DEF LockInv, IndexInv
  <1>2. Locally(t)
    BY <1>1 DEF Locally, Same, GraphFail, Tables
  <1>3. /\ pend[t].stage = "replay" /\ pend'[t] = NoStatement
        /\ status'[t] = status[t] /\ mode'[t] = mode[t] /\ isolation'[t] = isolation[t]
        /\ base'[t] = base[t]
        /\ writes'[t] = writes[t] /\ guarded'[t] = guarded[t]
        /\ lastWrite' = lastWrite /\ locks'[t] = pend[t].saved
    BY <1>1 DEF GraphFail, Tables, storeVars
  <1>4. locks'[t] \subseteq locks[t]
    BY <1>1, <1>3 DEF TxnShape, PendShape
  <1>5. LockExclusion'
    BY <1>1, <1>2, <1>4, ReleaseKeepsExclusion
  <1>6. RestShape(t)' /\ PendShape(t)'
    BY <1>1, <1>3, <1>4, NoStatementFacts DEF TxnShape, RestShape, PendShape
  <1>7. Settled(t)' = Settled(t)
    BY <1>3, NoStatementFacts DEF Settled
  <1>8. HeldShape(t)' /\ CurrentShape(t)'
    BY <1>1, <1>3, <1>7, NoStatementFacts DEF TxnShape, HeldShape, CurrentShape, LockCoordinated
  <1>9. QED BY <1>2, <1>5, <1>6, <1>8 DEF After, TxnShape

-----------------------------------------------------------------------------
(* Autocommit. *)

\* The scope of an autocommit statement is granted
LEMMA AutoScopeStep ==
  ASSUME LockInv, NEW t \in Txns, NEW q \in AutoScopes, AutoScope(t, q)
  PROVE  After(t)
  <1>1. TypeOK /\ Tables /\ LockExclusion /\ TxnShape(t)
    BY TablesTyped DEF LockInv, IndexInv
  <1>2. Locally(t)
    BY <1>1 DEF Locally, Same, AutoScope, Tables
  <1>3. /\ status[t] = "idle" /\ status'[t] = "scoped" /\ locks'[t] = {q}
        /\ mode'[t] = mode[t] /\ isolation'[t] = isolation[t] /\ pend'[t] = pend[t]
        /\ writes'[t] = writes[t] /\ guarded'[t] = guarded[t]
    BY <1>1 DEF AutoScope, Tables
  <1>4. LockExclusion'
    BY <1>1, <1>2, <1>3, GrantKeepsExclusion DEF AutoScope
  <1>5. q.mode # "optimistic"
    BY SMT, InputsAssumption DEF Exclusive, Shared
  <1>6. TxnShape(t)'
    BY <1>1, <1>3, <1>5
    DEF TxnShape, RestShape, PendShape, HeldShape, CurrentShape, NoStatement
  <1>7. QED BY <1>2, <1>4, <1>6 DEF After

\* The lock of the node it names is granted
LEMMA AutoPointStep ==
  ASSUME LockInv, NEW t \in Txns, NEW n, AutoPoint(t, n)
  PROVE  After(t)
  <1>1. TypeOK /\ Tables /\ LockExclusion /\ TxnShape(t)
    BY TablesTyped DEF LockInv, IndexInv
  <1>2. Locally(t)
    BY <1>1 DEF Locally, Same, AutoPoint, Tables
  <1>3. /\ status[t] = "scoped" /\ status'[t] = "scoped" /\ locks'[t] = locks[t] \cup {Exclusive(n)}
        /\ mode'[t] = mode[t] /\ isolation'[t] = isolation[t] /\ pend'[t] = pend[t]
        /\ writes'[t] = writes[t] /\ guarded'[t] = guarded[t]
    BY <1>1 DEF AutoPoint, Tables
  <1>4. LockExclusion'
    BY <1>1, <1>2, <1>3, GrantKeepsExclusion DEF AutoPoint
  <1>5. Exclusive(n).mode # "optimistic"
    BY DEF Exclusive
  <1>6. TxnShape(t)'
    BY <1>1, <1>3, <1>5
    DEF TxnShape, RestShape, PendShape, HeldShape, CurrentShape, NoStatement
  <1>7. QED BY <1>2, <1>4, <1>6 DEF After

\* A graph statement runs under its scope, on a snapshot taken under it
LEMMA AutoGraphStep ==
  ASSUME LockInv, NEW t \in Txns, NEW changed \in SUBSET Nodes, NEW m \in {"shared", "exclusive"},
         AutoGraph(t, changed, m)
  PROVE  After(t)
  <1>1. TypeOK /\ Tables /\ LockExclusion /\ TxnShape(t) /\ IndexInv
    BY TablesTyped DEF LockInv, IndexInv
  <1> DEFINE reqs == Footprint(changed, m)
  <1>2. Locally(t)
    BY <1>1 DEF Locally, Same, AutoGraph, Start, Tables
  <1>3. /\ status[t] = "scoped" /\ status'[t] = "active" /\ mode'[t] = "pessimistic"
        /\ base'[t] = epoch /\ locks'[t] = locks[t] /\ lastWrite' = lastWrite
        /\ pend'[t].stage = "footprint" /\ pend'[t].reqs = reqs
        /\ writes'[t] = changed /\ guarded'[t] = GuardedBy(locks[t])
        /\ changed \subseteq GuardedBy(locks[t])
    BY <1>1 DEF AutoGraph, Start, Tables, storeVars
  <1>4. LockExclusion'
    BY <1>1, <1>2, <1>3, ReleaseKeepsExclusion
  <1>5. RestShape(t)' /\ PendShape(t)'
    <2>1. ASSUME NEW e \in Entities, NEW q \in reqs,
                 TargetCovers(q.target, e) \/ (e \in Nodes /\ q = Exclusive(Label))
          PROVE  e \in GuardedBy(locks[t])
      <3>1. CASE e \in Nodes /\ q = Exclusive(Label)
        <4>1. m = "exclusive"
          BY <3>1, TargetFacts DEF Footprint, Exclusive, Entities
        <4>2. CoversAll(t, {Exclusive(Label)}) /\ locks[t] \subseteq Requests
          BY SMT, <1>1, <4>1 DEF AutoGraph, TypeOK, WorkTypes
        <4>3. e \in GuardedBy({Exclusive(Label)})
          BY <3>1 DEF GuardedBy
        <4>4. QED BY <4>2, <4>3, CoveredGuards
      <3>2. CASE TargetCovers(q.target, e)
        <4>1. q.target = Label \/ q.target \in changed
          BY SMT DEF Footprint, Exclusive
        <4>2. e \in changed
          BY <3>2, <4>1, TargetFacts DEF TargetCovers
        <4>3. QED BY <1>3, <4>2
      <3>3. QED BY <2>1, <3>1, <3>2
    <2>2. GuardedBy(reqs) \subseteq GuardedBy(locks[t])
      BY <2>1 DEF GuardedBy
    <2>3. QED BY SMT, <1>1, <1>3, <2>2, FootprintFacts DEF TxnShape, RestShape, PendShape
  <1>6. Settled(t)' = locks[t]
    BY <1>3 DEF Settled
  <1>7. changed \subseteq Entities /\ Database \notin changed /\ Schema \notin changed
    BY KeysDistinct, TargetFacts DEF Entities, InlineBarriers
  <1>8. HeldShape(t)'
    BY <1>3, <1>6, <1>7 DEF HeldShape
  <1>9. CurrentShape(t)'
    BY <1>1, <1>3, <1>6, PieceTypes, FreshIsCurrent DEF CurrentShape
  <1>10. QED BY <1>2, <1>4, <1>5, <1>8, <1>9 DEF After, TxnShape

\* The locks of what it changed are granted: the entities these add to the
\* guarded ones are its own writes
LEMMA AutoFootprintStep ==
  ASSUME LockInv, NEW t \in Txns, AutoFootprint(t)
  PROVE  After(t)
  <1>1. TypeOK /\ Tables /\ LockExclusion /\ TxnShape(t)
    BY TablesTyped DEF LockInv, IndexInv
  <1>2. Locally(t)
    BY <1>1 DEF Locally, Same, AutoFootprint, Tables
  <1> DEFINE reqs == pend[t].reqs
  <1>3. /\ pend[t].stage = "footprint" /\ pend'[t] = NoStatement
        /\ status'[t] = status[t] /\ mode'[t] = mode[t] /\ isolation'[t] = isolation[t]
        /\ base'[t] = base[t]
        /\ writes'[t] = writes[t] /\ guarded'[t] = guarded[t]
        /\ lastWrite' = lastWrite /\ locks'[t] = locks[t] \cup reqs
    BY <1>1 DEF AutoFootprint, Tables, storeVars
  <1>4. LockExclusion'
    BY <1>1, <1>2, <1>3, GrantKeepsExclusion DEF AutoFootprint
  <1>5. RestShape(t)' /\ PendShape(t)'
    BY <1>1, <1>3, NoStatementFacts DEF TxnShape, RestShape, PendShape
  <1>6. Settled(t) = locks[t] /\ Settled(t)' = locks[t] \cup reqs
    BY <1>3, NoStatementFacts DEF Settled
  <1>7. GuardedBy(locks[t] \cup reqs) = GuardedBy(locks[t])
    <2>1. GuardedBy(reqs) \subseteq GuardedBy(locks[t])
      BY <1>1, <1>3 DEF TxnShape, PendShape
    <2>2. QED BY SMT, <2>1, GuardedMonotone
  <1>8. \A e \in writes[t] :
          /\ \E q \in locks[t] \cup reqs : q.mode = "exclusive" /\ TargetCovers(q.target, e)
          /\ \E q \in locks[t] \cup reqs : q.target \in {Label, Database}
    <2>1. ASSUME NEW e \in writes[t]
          PROVE  Exclusive(e) \in reqs /\ \E q \in reqs : q.target = Label
      BY <1>1, <1>3 DEF TxnShape, PendShape
    <2>2. \A e : Exclusive(e).mode = "exclusive" /\ TargetCovers(Exclusive(e).target, e)
      BY DEF Exclusive, TargetCovers
    <2>3. QED BY <2>1, <2>2
  <1>9. HeldShape(t)'
    BY <1>1, <1>3, <1>6, <1>7, <1>8, NoStatementFacts DEF TxnShape, HeldShape
  <1>10. CurrentShape(t)'
    BY <1>1, <1>3, <1>6, <1>7, NoStatementFacts DEF TxnShape, CurrentShape, LockCoordinated
  <1>11. QED BY <1>2, <1>4, <1>5, <1>9, <1>10 DEF After, TxnShape

\* A SQL statement runs under the lock of its table, on a snapshot taken under it
LEMMA AutoSqlStep ==
  ASSUME LockInv, NEW t \in Txns, NEW changed, AutoSql(t, changed)
  PROVE  After(t)
  <1>1. TypeOK /\ Tables /\ LockExclusion /\ TxnShape(t) /\ IndexInv
    BY TablesTyped DEF LockInv, IndexInv
  <1>2. Locally(t)
    BY <1>1 DEF Locally, Same, AutoSql, Start, Tables
  <1>3. /\ status[t] = "scoped" /\ status'[t] = "active" /\ mode'[t] = "pessimistic"
        /\ base'[t] = epoch /\ locks'[t] = locks[t] /\ lastWrite' = lastWrite
        /\ pend'[t] = NoStatement
        /\ writes'[t] = changed /\ guarded'[t] = GuardedBy(locks[t])
    BY <1>1 DEF AutoSql, Start, Tables, storeVars, TxnShape, RestShape
  <1>4. LockExclusion'
    BY <1>1, <1>2, <1>3, ReleaseKeepsExclusion
  <1>5. RestShape(t)' /\ PendShape(t)'
    BY <1>1, <1>3, NoStatementFacts DEF TxnShape, RestShape, PendShape
  <1>6. Settled(t)' = locks[t]
    <2>1. pend'[t].stage # "replay"
      BY <1>3, NoStatementFacts
    <2>2. QED BY <1>3, <2>1 DEF Settled
  <1>7. PICK q \in locks[t] : TargetCovers(q.target, Table) /\ q.mode = "exclusive"
    BY DEF AutoSql, CoversAll, Exclusive, ModeCovers
  <1>8. \A e \in Rows : TargetCovers(q.target, e)
    BY <1>7, TargetFacts DEF TargetCovers
  <1>9. /\ changed \cap Entities \subseteq Rows
        /\ Schema \notin changed
    <2>1. \A e \in changed : e \in Rows \/ e = Database
      BY DEF AutoSql, SqlWritable
    <2>2. \A r \in Rows : r # Schema
      BY KeysDistinct DEF Entities
    <2>3. QED BY <2>1, <2>2, TargetFacts DEF Database, Schema
  <1>10. changed \cap Entities \subseteq GuardedBy(locks[t])
    BY <1>8, <1>9 DEF GuardedBy
  <1>11. HeldShape(t)'
    BY <1>3, <1>6, <1>7, <1>8, <1>9, <1>10, TargetFacts, NoStatementFacts DEF HeldShape
  <1>12. CurrentShape(t)'
    BY <1>1, <1>3, <1>6, PieceTypes, FreshIsCurrent, NoStatementFacts DEF CurrentShape
  <1>13. QED BY <1>2, <1>4, <1>5, <1>11, <1>12 DEF After, TxnShape

\* An UPDATE takes its snapshot under its scope
LEMMA AutoSqlUpdateStep ==
  ASSUME LockInv, NEW t \in Txns, AutoSqlUpdate(t)
  PROVE  After(t)
  <1>1. TypeOK /\ Tables /\ LockExclusion /\ TxnShape(t) /\ IndexInv
    BY TablesTyped DEF LockInv, IndexInv
  <1>2. Locally(t)
    BY <1>1 DEF Locally, Same, AutoSqlUpdate, Start, Tables
  <1>3. /\ status[t] = "scoped" /\ status'[t] = "active" /\ mode'[t] = "pessimistic"
        /\ base'[t] = epoch /\ locks'[t] = locks[t] /\ lastWrite' = lastWrite
        /\ pend'[t] = NoStatement /\ writes'[t] = {} /\ guarded'[t] = {}
    BY <1>1 DEF AutoSqlUpdate, Start, Tables, storeVars, TxnShape, RestShape
  <1>4. LockExclusion'
    BY <1>1, <1>2, <1>3, ReleaseKeepsExclusion
  <1>5. RestShape(t)' /\ PendShape(t)'
    BY <1>1, <1>3, NoStatementFacts DEF TxnShape, RestShape, PendShape
  <1>6. Settled(t)' = locks[t]
    BY <1>3, NoStatementFacts DEF Settled
  <1>7. HeldShape(t)' /\ CurrentShape(t)'
    BY <1>1, <1>3, <1>6, PieceTypes, FreshIsCurrent, NoStatementFacts DEF HeldShape, CurrentShape
  <1>8. QED BY <1>2, <1>4, <1>5, <1>7 DEF After, TxnShape

\* An optimistic transaction is about to commit
LEMMA SealStep ==
  ASSUME LockInv, NEW t \in Txns, Seal(t)
  PROVE  After(t)
  <1>1. TypeOK /\ Tables /\ LockExclusion /\ TxnShape(t)
    BY TablesTyped DEF LockInv, IndexInv
  <1>2. Locally(t)
    BY <1>1 DEF Locally, Same, Seal, Tables
  <1>3. /\ status[t] = "active" /\ status'[t] = "sealed" /\ mode[t] = "optimistic"
        /\ mode'[t] = mode[t] /\ pend'[t] = pend[t] /\ isolation'[t] = isolation[t]
        /\ locks'[t] = locks[t] \cup {OptimisticCommitLock}
    BY <1>1 DEF Seal, Tables, OptimisticCommitLock
  <1>4. LockExclusion'
    BY <1>1, <1>2, <1>3, GrantKeepsExclusion DEF Seal, OptimisticCommitLock
  <1>5. TxnShape(t)'
    BY <1>1, <1>3 DEF TxnShape, RestShape, PendShape, HeldShape, CurrentShape
  <1>6. QED BY <1>2, <1>4, <1>5 DEF After

-----------------------------------------------------------------------------
(* The lock invariant is inductive. *)

\* Every step of a transaction but a commit that publishes leaves what is
\* written alone
LEMMA QuietTxnStep ==
  ASSUME LockInv, NEW t \in Txns, Step(t), \A equal \in Rewrites : ~ Commit(t, equal)
  PROVE  After(t) /\ lastWrite' = lastWrite
  <1> USE DEF storeVars
  <1>1. ASSUME NEW p \in Profiles, Begin(t, p[1], p[2])
        PROVE  After(t) /\ lastWrite' = lastWrite
    BY <1>1, BeginStep DEF Begin
  <1>2. ASSUME NEW e \in Upgrades, BeginFromReadSnapshot(t, e)
        PROVE  After(t) /\ lastWrite' = lastWrite
    BY <1>2, BeginStep DEF BeginFromReadSnapshot
  <1>3. ASSUME NEW key \in ReadKeys, Read(t, key)
        PROVE  After(t) /\ lastWrite' = lastWrite
    BY <1>3, ReadStep DEF Read
  <1>4. ASSUME NEW changed \in Changes, OptimisticWrite(t, changed)
        PROVE  After(t) /\ lastWrite' = lastWrite
    BY <1>4, OptimisticWriteStep DEF OptimisticWrite
  <1>5. ASSUME NEW q \in SqlRequests, SqlLock(t, q)
        PROVE  After(t) /\ lastWrite' = lastWrite
    BY <1>5, SqlLockStep DEF SqlLock
  <1>6. ASSUME SqlFence(t) PROVE After(t) /\ lastWrite' = lastWrite
    BY <1>6, SqlFenceStep DEF SqlFence
  <1>7. ASSUME SqlRefresh(t) PROVE After(t) /\ lastWrite' = lastWrite
    BY <1>7, SqlRefreshStep DEF SqlRefresh
  <1>8. ASSUME SqlSnapshotChanged(t) PROVE After(t) /\ lastWrite' = lastWrite
    BY <1>8, EndStep DEF SqlSnapshotChanged
  <1>9. ASSUME SqlFail(t) PROVE After(t) /\ lastWrite' = lastWrite
    BY <1>9, SqlFailStep DEF SqlFail
  <1>10. ASSUME NEW changed \in Changes \cup {{}}, SqlExecute(t, changed)
        PROVE  After(t) /\ lastWrite' = lastWrite
    BY <1>10, SqlExecuteStep DEF SqlExecute
  <1>11. ASSUME NEW changed \in Changes \cap SUBSET Nodes, NEW m \in {"shared", "exclusive"}, GraphReuse(t, changed, m)
        PROVE  After(t) /\ lastWrite' = lastWrite
    BY <1>11, GraphReuseStep DEF GraphReuse
  <1>12. ASSUME NEW changed \in Changes \cap SUBSET Nodes, NEW m \in {"shared", "exclusive"}, GraphLock(t, changed, m)
        PROVE  After(t) /\ lastWrite' = lastWrite
    BY <1>12, GraphLockStep DEF GraphLock
  <1>13. ASSUME NEW changed \in Changes \cap SUBSET Nodes, NEW m \in {"shared", "exclusive"}, AutoGraph(t, changed, m)
        PROVE  After(t) /\ lastWrite' = lastWrite
    BY <1>13, AutoGraphStep DEF AutoGraph
  <1>14. ASSUME GraphReplay(t) PROVE After(t) /\ lastWrite' = lastWrite
    BY <1>14, GraphReplayStep DEF GraphReplay
  <1>15. ASSUME GraphFail(t) PROVE After(t) /\ lastWrite' = lastWrite
    BY <1>15, GraphFailStep DEF GraphFail
  <1>16. ASSUME GraphSnapshotChanged(t) PROVE After(t) /\ lastWrite' = lastWrite
    BY <1>16, EndStep DEF GraphSnapshotChanged
  <1>17. ASSUME NEW q \in AutoScopes, AutoScope(t, q)
        PROVE  After(t) /\ lastWrite' = lastWrite
    BY <1>17, AutoScopeStep DEF AutoScope
  <1>18. ASSUME NEW n \in Nodes, AutoPoint(t, n)
        PROVE  After(t) /\ lastWrite' = lastWrite
    BY <1>18, AutoPointStep DEF AutoPoint
  <1>19. ASSUME AutoFootprint(t) PROVE After(t) /\ lastWrite' = lastWrite
    BY <1>19, AutoFootprintStep DEF AutoFootprint
  <1>20. ASSUME NEW changed \in Changes \cap SUBSET (Rows \cup {Database}), AutoSql(t, changed)
        PROVE  After(t) /\ lastWrite' = lastWrite
    BY <1>20, AutoSqlStep DEF AutoSql
  <1>21. ASSUME AutoSqlUpdate(t) PROVE After(t) /\ lastWrite' = lastWrite
    BY <1>21, AutoSqlUpdateStep DEF AutoSqlUpdate
  <1>22. ASSUME Seal(t) PROVE After(t) /\ lastWrite' = lastWrite
    BY <1>22, SealStep DEF Seal
  <1>23. ASSUME CommitReadOnly(t) PROVE After(t) /\ lastWrite' = lastWrite
    BY <1>23, TakenStep DEF CommitReadOnly
  <1>24. ASSUME CommitConflict(t) PROVE After(t) /\ lastWrite' = lastWrite
    BY <1>24, EndStep DEF CommitConflict
  <1>25. ASSUME CommitRefused(t) PROVE After(t) /\ lastWrite' = lastWrite
    BY <1>25, EndStep DEF CommitRefused
  <1>26. ASSUME Release(t) PROVE After(t) /\ lastWrite' = lastWrite
    BY <1>26, EndStep DEF Release
  <1>27. ASSUME Abort(t) PROVE After(t) /\ lastWrite' = lastWrite
    BY <1>27, EndStep DEF Abort
  <1>28. QED BY <1>1, <1>2, <1>3, <1>4, <1>5, <1>6, <1>7, <1>8, <1>9, <1>10, <1>11, <1>12, <1>13, <1>14, <1>15, <1>16, <1>17, <1>18, <1>19, <1>20, <1>21, <1>22, <1>23, <1>24, <1>25, <1>26, <1>27 DEF Step

\* A commit writes nothing another pessimistic transaction guards
LEMMA CommitMeetsGuards ==
  ASSUME LockInv, NEW t \in Txns, ReadyToCommit(t),
         NEW u \in Txns, u # t, status[u] = "active", LockCoordinated(u)
  PROVE  writes[t] \cap GuardedBy(locks[u]) = {}
  <1>1. LockExclusion /\ TxnShape(t) /\ TxnShape(u)
    BY DEF LockInv
  <1>2. CASE status[t] = "sealed"
    <2>1. OptimisticCommitLock \in locks[t] /\ \A q \in locks[u] : q.mode # "optimistic"
      BY <1>1, <1>2 DEF TxnShape, RestShape, LockCoordinated
    <2>2. QED BY <1>1, <2>1, SealedMeetsGuard
  <1>3. CASE status[t] = "active" /\ mode[t] = "pessimistic" /\ pend[t].stage = "none"
    <2>1. Settled(t) = locks[t]
      BY <1>3 DEF Settled
    <2>2. SUFFICES ASSUME NEW e \in writes[t], e \in GuardedBy(locks[u])
                   PROVE  FALSE
      OBVIOUS
    <2>3. e \in Entities
      BY <2>2, PieceTypes
    <2>4. /\ \E q \in locks[t] : q.mode = "exclusive" /\ TargetCovers(q.target, e)
          /\ e \in Nodes => \E q \in locks[t] : q.target \in {Label, Database}
      BY <1>1, <1>3, <2>1, <2>3 DEF TxnShape, HeldShape
    <2>5. QED BY <1>1, <2>2, <2>3, <2>4, WriterMeetsGuard
  <1>4. QED BY <1>2, <1>3 DEF ReadyToCommit

\* The shapes and the exclusion of locks survive every step
LEMMA LockStep == LockInv /\ [Next]_vars => LockInv'
  <1> SUFFICES ASSUME LockInv, [Next]_vars PROVE LockInv'
    OBVIOUS
  <1>1. IndexInv' /\ TypeOK
    BY IndexStep DEF LockInv, IndexInv
  <1>2. ASSUME NEW t \in Txns, Step(t) PROVE LockInv'
    <2>1. CASE \A equal \in Rewrites : ~ Commit(t, equal)
      <3>1. After(t) /\ lastWrite' = lastWrite
        BY <1>2, <2>1, QuietTxnStep
      <3>2. ASSUME NEW u \in Txns, u # t PROVE TxnShape(u)'
        BY <1>1, <3>1, <3>2, Frame DEF After, Locally, LockInv
      <3>3. QED BY <1>1, <3>1, <3>2 DEF After, LockInv
    <2>2. ASSUME NEW equal \in Rewrites, Commit(t, equal) PROVE LockInv'
      <3>1. After(t) /\ ReadyToCommit(t)
        BY <2>2, TakenStep DEF Commit
      <3>2. lastWrite' = [e \in Entities |-> IF e \in writes[t] THEN epoch + 1 ELSE lastWrite[e]]
        BY <2>2 DEF Commit, Publish
      <3>3. ASSUME NEW u \in Txns, u # t PROVE TxnShape(u)'
        <4>1. ASSUME status[u] = "active", LockCoordinated(u), NEW e \in GuardedBy(locks[u])
              PROVE  lastWrite'[e] = lastWrite[e]
          <5>1. e \notin writes[t]
            BY <3>1, <3>3, <4>1, CommitMeetsGuards
          <5>2. e \in Entities
            BY <4>1, PieceTypes
          <5>3. QED BY <3>2, <5>1, <5>2
        <4>2. TxnShape(u) /\ Same(u)
          BY <3>1, <3>3 DEF LockInv, After, Locally
        <4>3. QED BY <1>1, <4>1, <4>2, Frame
      <3>4. QED BY <1>1, <3>1, <3>3 DEF After, LockInv
    <2>3. QED BY <2>1, <2>2
  <1>3. ASSUME NEW changed \in LegacyChanges, LegacyCommit(changed) PROVE LockInv'
    <2>1. \A u \in Txns : Same(u) /\ locks[u] = {}
      BY <1>3 DEF LegacyCommit, txnVars, Same
    <2>2. LockExclusion'
      BY <2>1 DEF LockExclusion, Same
    <2>3. ASSUME NEW u \in Txns PROVE TxnShape(u)'
      <3>1. TxnShape(u) /\ Same(u) /\ GuardedBy(locks[u]) = {}
        BY <2>1, GuardedMonotone DEF LockInv
      <3>2. QED BY <1>1, <3>1, Frame
    <2>4. QED BY <1>1, <2>2, <2>3 DEF LockInv
  <1>4. ASSUME NEW key \in AppendKeys, AppendCommit(key) PROVE LockInv'
    <2>1. \A u \in Txns : Same(u)
      BY <1>4 DEF AppendCommit, txnVars, Same
    <2>2. LockExclusion'
      BY <2>1 DEF LockInv, LockExclusion, Same
    <2>3. key \notin Entities
      BY SMT, KeysDistinct, InputsAssumption
    <2>4. \A e \in Entities : lastWrite'[e] = lastWrite[e]
      BY <1>4, <2>3 DEF AppendCommit, Publish
    <2>5. ASSUME NEW u \in Txns PROVE TxnShape(u)'
      <3>1. TxnShape(u) /\ Same(u) /\ \A e \in GuardedBy(locks[u]) : lastWrite'[e] = lastWrite[e]
        BY <2>1, <2>4, PieceTypes DEF LockInv
      <3>2. QED BY <1>1, <3>1, Frame
    <2>6. QED BY <1>1, <2>2, <2>5 DEF LockInv
  <1>5. CASE Reclaim \/ UNCHANGED vars
    <2>1. (\A u \in Txns : Same(u)) /\ lastWrite' = lastWrite
      BY <1>5 DEF Reclaim, txnVars, vars, Same
    <2>2. LockExclusion'
      BY <2>1 DEF LockInv, LockExclusion, Same
    <2>3. ASSUME NEW u \in Txns PROVE TxnShape(u)'
      BY <1>1, <2>1, Frame DEF LockInv
    <2>4. QED BY <1>1, <2>2, <2>3 DEF LockInv
  <1>6. QED BY <1>2, <1>3, <1>4, <1>5 DEF Next

\* It holds initially
LEMMA LockInit == Init => LockInv
  <1> SUFFICES ASSUME Init PROVE LockInv
    OBVIOUS
  <1>1. IndexInv
    BY IndexInit
  <1>2. LockExclusion
    BY DEF Init, LockExclusion
  <1>3. ASSUME NEW t \in Txns PROVE TxnShape(t)
    BY NoStatementFacts DEF Init, TxnShape, RestShape, PendShape, HeldShape, CurrentShape
  <1>4. QED BY <1>1, <1>2, <1>3 DEF LockInv

-----------------------------------------------------------------------------
(* What follows. *)

\* What a live pessimistic transaction read or wrote under locks is what its
\* snapshot shows (acquire_locks, acquire_graph_statement_locks, autocommit).
THEOREM GuardedStaysCurrent == Spec => []GuardedIsCurrent
  <1>1. LockInv => GuardedIsCurrent
    BY DEF LockInv, TxnShape, RestShape, CurrentShape, GuardedIsCurrent, Live, LockCoordinated
  <1>2. QED BY <1>1, LockInit, LockStep, PTL DEF Spec

\* Only a commit makes a transaction committed
LEMMA WhoCommits ==
  ASSUME LockInv, [Next]_vars, NEW t \in Txns, status[t] # "committed", status'[t] = "committed"
  PROVE  ReadyToCommit(t) /\ ReadsValid(t) /\ (writes[t] # {} => WritesValid(t))
  <1>1. TypeOK /\ Tables
    BY TablesTyped DEF LockInv, IndexInv
  <1>2. PICK u \in Txns : Step(u)
    BY DEF Next, LegacyCommit, AppendCommit, Reclaim, txnVars, vars
  <1>3. CASE \E equal \in Rewrites : Commit(u, equal)
    <2>1. u = t
      BY <1>1, <1>3 DEF Commit, Taken, Tables
    <2>2. QED BY <1>3, <2>1 DEF Commit
  <1>4. CASE CommitReadOnly(u)
    <2>1. u = t
      BY <1>1, <1>4 DEF CommitReadOnly, Taken, Tables
    <2>2. QED BY <1>4, <2>1 DEF CommitReadOnly
  <1>5. CASE SqlSnapshotChanged(u) \/ GraphSnapshotChanged(u) \/ CommitConflict(u)
               \/ CommitRefused(u) \/ Release(u) \/ Abort(u)
    <2>1. Ended(u)
      BY <1>5 DEF SqlSnapshotChanged, GraphSnapshotChanged, CommitConflict, CommitRefused, Release, Abort
    <2>2. QED BY <1>1, <2>1 DEF Ended, Tables
  <1>6. CASE \/ \E p \in Profiles : Begin(u, p[1], p[2])
             \/ \E e \in Upgrades : BeginFromReadSnapshot(u, e)
             \/ \E changed \in Changes \cap SUBSET Nodes, m \in {"shared", "exclusive"} :
                  AutoGraph(u, changed, m)
             \/ \E changed \in Changes \cap SUBSET (Rows \cup {Database}) : AutoSql(u, changed)
             \/ AutoSqlUpdate(u)
    <2>1. status' = [status EXCEPT ![u] = "active"]
      BY <1>6 DEF Begin, BeginFromReadSnapshot, AutoGraph, AutoSql, AutoSqlUpdate, Start
    <2>2. QED BY <1>1, <2>1 DEF Tables
  <1>7. CASE \/ \E key \in ReadKeys : Read(u, key)
             \/ \E changed \in Changes : OptimisticWrite(u, changed)
             \/ \E q \in SqlRequests : SqlLock(u, q)
             \/ SqlFence(u) \/ SqlRefresh(u) \/ SqlFail(u)
             \/ \E changed \in Changes \cup {{}} : SqlExecute(u, changed)
             \/ \E changed \in Changes \cap SUBSET Nodes, m \in {"shared", "exclusive"} :
                  GraphReuse(u, changed, m) \/ GraphLock(u, changed, m)
             \/ GraphReplay(u) \/ GraphFail(u)
             \/ \E n \in Nodes : AutoPoint(u, n)
             \/ AutoFootprint(u)
    BY <1>7 DEF Read, OptimisticWrite, SqlLock, SqlFence, SqlRefresh, SqlFail, SqlExecute, GraphReuse,
                GraphLock, GraphReplay, GraphFail, AutoPoint, AutoFootprint
  <1>8. CASE Seal(u) \/ \E q \in AutoScopes : AutoScope(u, q)
    BY <1>1, <1>8 DEF Seal, AutoScope, Tables
  <1>9. QED BY <1>2, <1>3, <1>4, <1>5, <1>6, <1>7, <1>8 DEF Step

\* An optimistic transaction that passes validation overwrites nothing newer
LEMMA ValidWritesAreCurrent ==
  ASSUME IndexInv, NEW t \in Txns, mode[t] = "optimistic", WritesValid(t)
  PROVE  /\ \A e \in writes[t] \cap Entities : lastWrite[e] <= base[t]
         /\ writes[t] \cap {Database, Schema} # {} => \A e \in Entities : lastWrite[e] <= base[t]
  <1>1. /\ epoch \in Nat /\ base[t] \in Nat /\ index.floor \in Nat
        /\ \A k \in VersionKeys : index.stamp[k] \in Nat
        /\ \A e \in Entities : lastWrite[e] \in Nat /\ lastWrite[e] <= epoch
    BY SMT, InputsAssumption DEF IndexInv, TypeOK, StoreTypes, PinTypes, Indexes
  <1>2. \A k \in {Database, Schema} : k \in writes[t] => k \in VersionWrites(writes[t])
    BY KeysDistinct DEF VersionWrites, Entities, InlineBarriers
  <1>3. writes[t] \cap {Database, Schema} # {} => epoch <= base[t]
    BY <1>2 DEF WritesValid
  <1>4. writes[t] \cap {Database, Schema} # {} => \A e \in Entities : lastWrite[e] <= base[t]
    BY SMT, <1>1, <1>3
  <1>5. ASSUME NEW e \in writes[t] \cap Entities, Database \notin writes[t]
        PROVE  lastWrite[e] <= base[t]
    <2>1. e \in VersionWrites(writes[t])
      BY <1>5 DEF VersionWrites
    <2>2. ~ (index.stamp[e] > base[t]) /\ ~ (base[t] < index.floor)
      BY <2>1 DEF WritesValid, FirstConflict, HistoryReclaimedAfter
    <2>3. index.stamp[Database] <= base[t]
      BY DEF WritesValid
    <2>4. lastWrite[e] > index.floor =>
            index.stamp[e] >= lastWrite[e] \/ index.stamp[Database] >= lastWrite[e]
      BY DEF IndexInv, Usable
    <2>5. e \in VersionKeys /\ Database \in VersionKeys
      BY KeyFacts
    <2>6. QED BY SMT, <1>1, <2>2, <2>3, <2>4, <2>5
  <1>6. QED BY <1>4, <1>5

\* So does a pessimistic one, whose locks have guarded what it writes and all
\* that a statement of unknown extent may have reached
LEMMA LockedWritesAreCurrent ==
  ASSUME LockInv, NEW t \in Txns, status[t] = "active", LockCoordinated(t), pend[t].stage = "none"
  PROVE  /\ \A e \in writes[t] \cap Entities : lastWrite[e] <= base[t]
         /\ \A e \in GuardedBy(locks[t]) : lastWrite[e] <= base[t]
  <1>1. Settled(t) = locks[t] /\ TxnShape(t)
    BY DEF Settled, LockInv
  <1>2. QED BY <1>1 DEF TxnShape, CurrentShape

\* Whoever commits and answers for its writes overwrites nothing newer than
\* its snapshot
LEMMA CommitsAreCurrent ==
  ASSUME LockInv, [Next]_vars, NEW t \in Txns, CommitsWrites(t), writes[t] # {}
  PROVE  /\ \A e \in writes[t] \cap Entities : lastWrite[e] <= base[t]
         /\ writes[t] \cap {Database, Schema} # {} => \A e \in Reach(t) : lastWrite[e] <= base[t]
  <1>1. ReadyToCommit(t) /\ WritesValid(t)
    BY WhoCommits DEF CommitsWrites
  <1>2. IndexInv /\ TypeOK /\ Tables /\ TxnShape(t)
    BY TablesTyped DEF LockInv, IndexInv
  <1>3. CASE mode[t] = "optimistic"
    BY <1>1, <1>2, <1>3, ValidWritesAreCurrent DEF Reach
  <1>4. CASE mode[t] = "pessimistic"
    <2>1. isolation[t] = "snapshot" /\ LockCoordinated(t)
      BY <1>4 DEF CommitsWrites, LockCoordinated
    <2>2. status[t] = "active" /\ pend[t].stage = "none"
      BY <1>1, <1>2, <1>4 DEF ReadyToCommit, TxnShape, RestShape
    <2>3. Reach(t) = GuardedBy(locks[t])
      BY <1>4 DEF Reach
    <2>4. QED BY <2>1, <2>2, <2>3, LockedWritesAreCurrent
  <1>5. QED BY SMT, <1>2, <1>3, <1>4 DEF TypeOK, PinTypes

\* No commit, validated or locked, overwrites a write its snapshot did not see
\* (validate_version_writes, acquire_locks, autocommit scopes).
THEOREM NoLostUpdates == Spec => NoLostUpdate
  <1>1. LockInv /\ [Next]_vars =>
          [\A t \in Txns : CommitsWrites(t) =>
             \A e \in writes[t] \cap Entities : lastWrite[e] <= base[t]]_vars
    BY CommitsAreCurrent
  <1>2. QED BY <1>1, LockInit, LockStep, PTL DEF Spec, NoLostUpdate

\* A commit whose write set does not say what it changed is published only over
\* what its snapshot shows of all it may have reached: the whole database when
\* it is validated (WritesValid), what its locks guard otherwise (an upsert or a
\* predicate under table or range locks, DDL and cascades under the database's).
THEOREM BroadCommitsAreCurrent == Spec => BroadWritesCurrent
  <1>1. LockInv /\ [Next]_vars =>
          [\A t \in Txns :
             CommitsWrites(t) /\ writes[t] \cap {Database, Schema} # {} =>
               \A e \in Reach(t) : lastWrite[e] <= base[t]]_vars
    BY CommitsAreCurrent
  <1>2. QED BY <1>1, LockInit, LockStep, PTL DEF Spec, BroadWritesCurrent

\* What a serializable transaction read is what its validation finds unchanged
LEMMA ValidReadsAreCurrent ==
  ASSUME ValidationInv, NEW t \in Txns, Live(t), isolation[t] = "serializable", ReadsValid(t),
         NEW key \in reads[t], NEW e \in Covered(key)
  PROVE  lastChange[e] <= base[t]
  <1>0. IndexInv /\ TypeOK /\ t \in Pinned /\ ~ late[t] /\ reads[t] \subseteq Dependencies
    BY DEF ValidationInv, IndexInv, Pinned
  <1>1. /\ index \in Indexes /\ epoch \in Nat /\ lastWrite \in [Entities -> Nat]
        /\ lastChange \in [Entities -> Nat] /\ base[t] \in Nat
    BY <1>0, ValidationTypes
  <1>2. index.floor \in Nat /\ \A k \in VersionKeys : index.stamp[k] \in Nat
    BY <1>1 DEF Indexes
  <1>3. key \in Dependencies
    BY <1>0
  <1>4. e \in Entities
    BY <1>3, KeysDistinct DEF Covered, Dependencies, ReadSummaries, Entities
  <1>5. /\ lastChange[e] \in Nat /\ lastWrite[e] \in Nat
        /\ lastChange[e] <= lastWrite[e] /\ lastWrite[e] <= epoch /\ index.floor <= base[t]
    BY <1>0, <1>1, <1>4 DEF ValidationInv, IndexInv, Usable
  <1> SUFFICES ASSUME ~ (lastChange[e] <= base[t])
               PROVE  FALSE
    OBVIOUS
  <1>6. lastChange[e] > base[t] /\ lastWrite[e] > index.floor /\ epoch # base[t]
    BY SMT, <1>1, <1>2, <1>5
  <1>7. /\ Database \notin reads[t]
        /\ \A k \in reads[t] \cup {Database} : index.stamp[k] <= base[t]
        /\ reads[t] \cap ReadSummaries # {} => index.stamp[ReadBarrier] <= base[t]
    BY <1>6 DEF ReadsValid
  <1>8. CASE key \in Entities
    <2>1. e = key
      BY <1>8, KeyFacts, DependencyKeys DEF Covered, ReadSummaries
    <2>2. index.stamp[e] >= lastWrite[e] \/ index.stamp[Database] >= lastWrite[e]
      BY <1>0, <1>4, <1>6 DEF IndexInv, Usable
    <2>3. index.stamp[e] <= base[t] /\ index.stamp[Database] <= base[t]
      BY <1>7, <2>1
    <2>4. QED BY SMT, <1>1, <1>2, <1>4, <1>5, <1>6, <2>2, <2>3, KeyFacts
  <1>9. CASE key \in ReadSummaries
    <2>1. key = DomainOf(e)
      <3>1. /\ TableDomain \notin {NodeDomain, Database, Schema}
            /\ NodeDomain \notin {TableDomain, Database, Schema}
        BY DEF TableDomain, NodeDomain, Database, Schema
      <3>2. key = TableDomain => Covered(key) = Rows
        BY <3>1 DEF Covered
      <3>3. key = NodeDomain => Covered(key) = Nodes
        BY <3>1 DEF Covered
      <3>4. e \in Nodes => e \notin Rows
        BY KeysDistinct
      <3>5. QED BY <1>9, <3>2, <3>3, <3>4 DEF DomainOf, ReadSummaries
    <2>2. PICK k \in {DomainOf(e), ReadBarrier, Database} : index.stamp[k] >= lastChange[e]
      BY <1>0, <1>4, <1>6 DEF ValidationInv, Witnessed
    <2>3. index.stamp[k] <= base[t] /\ index.stamp[k] \in Nat
      BY <1>2, <1>4, <1>7, <1>9, <2>1, DependencyKeys
    <2>4. QED BY SMT, <1>1, <1>5, <1>6, <2>2, <2>3
  <1>10. key # Schema
    BY DependencyKeys DEF Covered, ReadSummaries, Schema, Database, TableDomain, NodeDomain
  <1>11. QED BY <1>3, <1>7, <1>8, <1>9, <1>10 DEF Dependencies

\* A serializable transaction that commits, even one that only read, read nothing
\* that changed after its snapshot, whether the change was stamped exactly,
\* summarised or collapsed into a barrier (validate_read_dependencies).
THEOREM ReadsAreSerializable == Spec => SerializableReads
  <1>1. LockInv /\ ValidationInv /\ [Next]_vars =>
          [\A t \in Txns :
             /\ status[t] # "committed" /\ status'[t] = "committed"
             /\ isolation[t] = "serializable"
             => \A key \in reads[t] : \A e \in Covered(key) : lastChange[e] <= base[t]]_vars
    <2> SUFFICES ASSUME LockInv, ValidationInv, [Next]_vars, NEW t \in Txns, status[t] # "committed",
                        status'[t] = "committed", isolation[t] = "serializable",
                        NEW key \in reads[t], NEW e \in Covered(key)
                 PROVE  lastChange[e] <= base[t]
      OBVIOUS
    <2>1. ReadyToCommit(t) /\ ReadsValid(t)
      BY WhoCommits
    <2>2. Live(t)
      BY <2>1 DEF ReadyToCommit, Live
    <2>3. QED BY <2>1, <2>2, ValidReadsAreCurrent
  <1>2. QED BY <1>1, LockInit, LockStep, ValidationHolds, PTL DEF Spec, SerializableReads

=============================================================================
