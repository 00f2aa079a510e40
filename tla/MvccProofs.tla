------------------------------ MODULE MvccProofs ------------------------------
(* Proofs about Mvcc, for any set of transactions, rows and nodes. *)
EXTENDS Mvcc, TLAPS

USE Zenon

-----------------------------------------------------------------------------
(* The indexes a commit or a checkpoint can install. *)

\* Every operation of the version index returns a version index
LEMMA IndexTypes ==
  ASSUME NEW i \in Indexes, NEW keys, NEW e \in Nat, NEW kept
  PROVE  /\ ReadBaseline(e) \in Indexes
         /\ Stage(i, keys, e) \in Indexes
         /\ StageWithReadBarrier(i, keys, e) \in Indexes
         /\ PruneBefore(i, e, kept) \in Indexes
  <1>1. ReadBaseline(e) \in Indexes
    BY DEF Indexes, ReadBaseline
  <1>2. Stage(i, keys, e) \in Indexes
    BY DEF Indexes, Stage
  <1>3. StageWithReadBarrier(i, keys, e) \in Indexes
    BY DEF Indexes, StageWithReadBarrier
  <1>4. PruneBefore(i, e, kept) \in Indexes
    <2>1. (IF e - 1 > i.floor THEN e - 1 ELSE i.floor) \in Nat
      BY SMT DEF Indexes
    <2>2. QED BY <2>1 DEF Indexes, PruneBefore
  <1>5. QED BY <1>1, <1>2, <1>3, <1>4

\* What is left of an index when history is reclaimed
LEMMA ReclaimedShape ==
  ASSUME TypeOK, NEW i \in Indexes, NEW j \in Reclaimed(i)
  PROVE  \E oldest \in Nat, kept \in {{}, Stamped(i)} :
           /\ oldest \in Watermarks
           /\ j = PruneBefore(i, oldest, kept)
  <1>1. PICK oldest \in Watermarks, kept \in {{}, Stamped(i)} : j = PruneBefore(i, oldest, kept)
    BY SMT DEF Reclaimed
  <1>2. oldest \in Nat
    BY SMT DEF Watermarks, TypeOK, StoreTypes, PinTypes, Pinned
  <1>3. QED BY <1>1, <1>2

\* What a commit installs is staged on the old index, on what is left of it
\* after reclaiming, or on a baseline
LEMMA StagedShape ==
  ASSUME TypeOK, NEW keys, NEW summaries, NEW j \in StagedIndexes(keys, summaries)
  PROVE  \E i \in Reclaimed(index) \cup {index} :
           \/ j = Stage(StagingSource(i), keys \cup summaries, epoch + 1)
           \/ j = StageWithReadBarrier(StagingSource(i), keys, epoch + 1)
  BY DEF StagedIndexes

\* Staging and reclaiming keep the type of the index
LEMMA StagedTypes ==
  ASSUME TypeOK
  PROVE  /\ \A j \in Reclaimed(index) : j \in Indexes
         /\ \A keys, summaries : \A j \in StagedIndexes(keys, summaries) : j \in Indexes
  <1>1. index \in Indexes /\ epoch \in Nat /\ epoch + 1 \in Nat
    BY SMT DEF TypeOK, StoreTypes
  <1>2. ASSUME NEW j \in Reclaimed(index)
        PROVE  j \in Indexes
    BY SMT, <1>1, ReclaimedShape, IndexTypes
  <1>3. ASSUME NEW keys, NEW summaries, NEW j \in StagedIndexes(keys, summaries)
        PROVE  j \in Indexes
    <2>1. PICK i \in Reclaimed(index) \cup {index} :
             \/ j = Stage(StagingSource(i), keys \cup summaries, epoch + 1)
             \/ j = StageWithReadBarrier(StagingSource(i), keys, epoch + 1)
      BY StagedShape
    <2>2. StagingSource(i) \in Indexes
      BY <1>1, <1>2, IndexTypes DEF StagingSource
    <2>3. QED BY <1>1, <2>1, <2>2, IndexTypes
  <1>4. QED BY <1>2, <1>3

-----------------------------------------------------------------------------
(* Types. *)

\* Pieces of a transaction's state
LEMMA PieceTypes ==
  /\ NoStatement \in Statements
  /\ \A target \in Targets, m \in Modes : [target |-> target, mode |-> m] \in Requests
  /\ \A changed \in SUBSET Nodes, m \in Modes : Footprint(changed, m) \in SUBSET Requests
  /\ \A reqs : GuardedBy(reqs) \in SUBSET Entities /\ WritableUnder(reqs) \in SUBSET Entities
  <1>1. NoStatement \in Statements
    BY DEF NoStatement, Statements
  <1>2. \A target \in Targets, m \in Modes : [target |-> target, mode |-> m] \in Requests
    BY DEF Requests
  <1>3. \A changed \in SUBSET Nodes, m \in Modes : Footprint(changed, m) \in SUBSET Requests
    BY <1>2 DEF Footprint, Exclusive, Targets, Entities, Modes
  <1>4. \A reqs : GuardedBy(reqs) \in SUBSET Entities /\ WritableUnder(reqs) \in SUBSET Entities
    BY DEF GuardedBy, WritableUnder
  <1>5. QED BY <1>1, <1>2, <1>3, <1>4

\* The inputs of the actions
LEMMA InputTypes ==
  /\ \A changed \in Changes : changed \in SUBSET (Entities \cup {Database, Schema})
  /\ \A changed : MutationReads(changed) \in SUBSET VersionKeys
  /\ \A q \in SqlRequests \cup AutoScopes : q \in Requests
  /\ \A key \in ReadKeys : key \in VersionKeys
  <1>1. \A changed \in Changes : changed \in SUBSET (Entities \cup {Database, Schema})
    BY SMT, InputsAssumption
  <1>2. \A changed : MutationReads(changed) \in SUBSET VersionKeys
    BY DEF MutationReads, VersionKeys, ReadSummaries, InlineBarriers
  <1>3. \A q \in SqlRequests \cup AutoScopes : q \in Requests
    <2>1. \A target \in Targets, m \in {"shared", "exclusive"} :
             [target |-> target, mode |-> m] \in Requests
      BY DEF Requests, Modes
    <2>2. \A q \in SqlRequests : q \in Requests
      <3>1. SqlRequests \subseteq
              {[target |-> x, mode |-> m] : x \in Rows \cup {Table, Database},
                                            m \in {"shared", "exclusive"}}
        BY SMT, InputsAssumption
      <3>2. SUFFICES ASSUME NEW q \in SqlRequests PROVE q \in Requests
        OBVIOUS
      <3>3. PICK x \in Rows \cup {Table, Database}, m \in {"shared", "exclusive"} :
              q = [target |-> x, mode |-> m]
        BY SMT, <3>1
      <3>4. QED BY <2>1, <3>3 DEF Targets, Entities
    <2>3. \A q \in AutoScopes : q \in Requests
      <3>1. AutoScopes \subseteq
              {Exclusive(x) : x \in Rows \cup {Table, Label, Database}} \cup {Shared(Label)}
        BY SMT, InputsAssumption
      <3>2. \A x \in Rows \cup {Table, Label, Database} : Exclusive(x) \in Requests
        BY <2>1, InputsAssumption DEF Targets, Entities, Exclusive
      <3>3. Shared(Label) \in Requests
        BY <2>1, InputsAssumption DEF Targets, Shared
      <3>4. QED BY <3>1, <3>2, <3>3
    <2>4. QED BY <2>2, <2>3
  <1>4. \A key \in ReadKeys : key \in VersionKeys
    BY SMT, InputsAssumption DEF VersionKeys
  <1>5. QED BY <1>1, <1>2, <1>3, <1>4

\* The end of a statement keeps the types
LEMMA SucceedTypes ==
  ASSUME WorkTypes, NEW t \in Txns, NEW changed \in SUBSET (Entities \cup {Database, Schema}),
         NEW read \in SUBSET VersionKeys, NEW under, Succeed(t, changed, read, under),
         pend' \in [Txns -> Statements], locks' \in [Txns -> SUBSET Requests]
  PROVE  WorkTypes'
  <1>1. statements' \in [Txns -> 0 .. MaxStatements]
    BY SMT, InputsAssumption DEF WorkTypes, Succeed
  <1>2. writes' \in [Txns -> SUBSET (Entities \cup {Database, Schema})]
    BY DEF WorkTypes, Succeed
  <1>3. reads' \in [Txns -> SUBSET VersionKeys]
    BY DEF WorkTypes, Succeed
  <1>4. guarded' \in [Txns -> SUBSET Entities]
    BY PieceTypes DEF WorkTypes, Succeed
  <1>5. QED BY <1>1, <1>2, <1>3, <1>4 DEF WorkTypes

\* What says who is registered, with which snapshot
pinVars == <<status, mode, isolation, base, late>>

\* The beginning of a transaction keeps the types
LEMMA StartTypes ==
  ASSUME PinTypes, NEW t \in Txns, NEW m \in {"optimistic", "pessimistic"},
         NEW i \in {"snapshot", "serializable"}, NEW e \in Nat, NEW upgraded \in BOOLEAN,
         Start(t, m, i, e, upgraded)
  PROVE  /\ PinTypes'
         /\ reads \in [Txns -> SUBSET VersionKeys] => reads' \in [Txns -> SUBSET VersionKeys]
  <1>1. PinTypes'
    BY DEF PinTypes, Start
  <1>2. ASSUME reads \in [Txns -> SUBSET VersionKeys] PROVE reads' \in [Txns -> SUBSET VersionKeys]
    BY <1>2 DEF Start, VersionKeys
  <1>3. QED BY <1>1, <1>2

\* The end of a transaction keeps the types
LEMMA EndedTypes ==
  ASSUME PinTypes, WorkTypes, NEW t \in Txns, Ended(t) \/ Taken(t)
  PROVE  PinTypes' /\ WorkTypes'
  <1>1. CASE Ended(t)
    <2>1. PinTypes'
      BY <1>1 DEF PinTypes, Ended
    <2>2. WorkTypes'
      BY SMT, <1>1, PieceTypes, InputsAssumption DEF WorkTypes, Ended
    <2>3. QED BY <2>1, <2>2
  <1>2. CASE Taken(t)
    <2>1. PinTypes'
      BY <1>2 DEF PinTypes, Taken
    <2>2. WorkTypes'
      BY SMT, <1>2, InputsAssumption DEF WorkTypes, Taken
    <2>3. QED BY <2>1, <2>2
  <1>3. QED BY <1>1, <1>2

\* Publication keeps the types
LEMMA PublishTypes ==
  ASSUME TypeOK, NEW changed, NEW equal, Publish(changed, equal)
  PROVE  StoreTypes'
  <1>1. epoch' \in 0 .. MaxEpoch /\ epoch + 1 \in Nat
    BY SMT, InputsAssumption DEF TypeOK, StoreTypes, Publish
  <1>2. index' \in Indexes
    BY StagedTypes DEF Publish
  <1>3. lastWrite' \in [Entities -> Nat]
    BY <1>1 DEF TypeOK, StoreTypes, Publish
  <1>4. lastChange' \in [Entities -> Nat]
    BY <1>1 DEF TypeOK, StoreTypes, Publish
  <1>5. lastBroad' \in Nat
    BY <1>1 DEF TypeOK, StoreTypes, Publish
  <1>6. QED BY <1>1, <1>2, <1>3, <1>4, <1>5 DEF StoreTypes

\* A step that changes neither the store nor the registrations
LEMMA WorkStepTypes ==
  ASSUME TypeOK, UNCHANGED storeVars, UNCHANGED pinVars, WorkTypes'
  PROVE  TypeOK'
  BY DEF TypeOK, StoreTypes, PinTypes, storeVars, pinVars

\* A step that registers, unregisters or moves one transaction
LEMMA PinStepTypes ==
  ASSUME TypeOK, UNCHANGED storeVars, PinTypes', WorkTypes'
  PROVE  TypeOK'
  BY DEF TypeOK, StoreTypes, storeVars

\* Steps of a statement keep the types
LEMMA StatementTypes ==
  ASSUME TypeOK, NEW t \in Txns
  PROVE  /\ \A key \in ReadKeys : Read(t, key) => TypeOK'
         /\ \A changed \in Changes : OptimisticWrite(t, changed) => TypeOK'
         /\ \A q \in SqlRequests : SqlLock(t, q) => TypeOK'
         /\ SqlFence(t) \/ SqlRefresh(t) \/ SqlFail(t) => TypeOK'
         /\ \A changed \in Changes \cup {{}} : SqlExecute(t, changed) => TypeOK'
         /\ \A changed \in Changes \cap SUBSET Nodes, m \in {"shared", "exclusive"} :
              GraphReuse(t, changed, m) \/ GraphLock(t, changed, m) => TypeOK'
         /\ GraphReplay(t) \/ GraphFail(t) => TypeOK'
  <1>1. PinTypes /\ WorkTypes /\ pend[t] \in Statements
    BY DEF TypeOK, WorkTypes
  <1>2. {Database} \in SUBSET VersionKeys /\ {TableDomain} \in SUBSET VersionKeys
    BY DEF VersionKeys, ReadSummaries, InlineBarriers
  <1>3. [pend EXCEPT ![t] = NoStatement] \in [Txns -> Statements]
    BY <1>1, PieceTypes DEF WorkTypes
  <1>4. ASSUME NEW key \in ReadKeys, Read(t, key) PROVE TypeOK'
    <2>1. pend' \in [Txns -> Statements] /\ locks' \in [Txns -> SUBSET Requests]
      BY <1>1, <1>4 DEF WorkTypes, Read
    <2>2. {key} \in SUBSET VersionKeys
      BY InputTypes
    <2>3. WorkTypes'
      BY <1>1, <1>4, <2>1, <2>2, SucceedTypes DEF Read
    <2>4. QED BY <1>4, <2>3, WorkStepTypes DEF Read, pinVars
  <1>5. ASSUME NEW changed \in Changes, OptimisticWrite(t, changed) PROVE TypeOK'
    <2>1. pend' \in [Txns -> Statements] /\ locks' \in [Txns -> SUBSET Requests]
      BY <1>1, <1>5 DEF WorkTypes, OptimisticWrite
    <2>2. WorkTypes'
      BY <1>1, <1>5, <2>1, InputTypes, SucceedTypes DEF OptimisticWrite
    <2>3. QED BY <1>5, <2>2, WorkStepTypes DEF OptimisticWrite, pinVars
  <1>6. ASSUME NEW q \in SqlRequests, SqlLock(t, q) PROVE TypeOK'
    <2>1. q \in Requests
      BY InputTypes
    <2>2. locks' \in [Txns -> SUBSET Requests]
      BY <1>1, <1>6, <2>1 DEF WorkTypes, SqlLock
    <2>3. [stage |-> "granted", reqs |-> {q}, all |-> pend[t].all \cup {q},
           covered |-> CoversAll(t, {q}), saved |-> {}] \in Statements
      BY <1>1, <2>1 DEF Statements, CoversAll
    <2>4. pend' \in [Txns -> Statements]
      BY <1>1, <1>6, <2>3 DEF WorkTypes, SqlLock
    <2>5. WorkTypes'
      BY <1>1, <1>6, <2>2, <2>4 DEF WorkTypes, SqlLock
    <2>6. QED BY <1>6, <2>5, WorkStepTypes DEF SqlLock, pinVars
  <1>7. ASSUME SqlFence(t) PROVE TypeOK'
    <2>1. \A stage \in {"guarded", "fenced"} : [pend[t] EXCEPT !.stage = stage] \in Statements
      BY <1>1 DEF Statements
    <2>2. pend' \in [Txns -> Statements]
      BY <1>1, <1>7, <2>1 DEF WorkTypes, SqlFence
    <2>3. WorkTypes'
      BY <1>1, <1>7, <2>2 DEF WorkTypes, SqlFence
    <2>4. QED BY <1>7, <2>3, WorkStepTypes DEF SqlFence, pinVars
  <1>8. ASSUME SqlRefresh(t) PROVE TypeOK'
    <2>1. WorkTypes'
      BY <1>1, <1>3, <1>8 DEF WorkTypes, SqlRefresh
    <2>2. PinTypes'
      BY SMT, <1>1, <1>8 DEF TypeOK, StoreTypes, PinTypes, SqlRefresh
    <2>3. QED BY <1>8, <2>1, <2>2, PinStepTypes DEF SqlRefresh
  <1>9. ASSUME SqlFail(t) PROVE TypeOK'
    <2>1. WorkTypes'
      BY <1>1, <1>3, <1>9 DEF WorkTypes, SqlFail
    <2>2. QED BY <1>9, <2>1, WorkStepTypes DEF SqlFail, pinVars
  <1>10. ASSUME NEW changed \in Changes \cup {{}}, SqlExecute(t, changed) PROVE TypeOK'
    <2>1. pend' \in [Txns -> Statements] /\ locks' \in [Txns -> SUBSET Requests]
      BY <1>1, <1>3, <1>10 DEF WorkTypes, SqlExecute
    <2>2. changed \in SUBSET (Entities \cup {Database, Schema})
      BY InputTypes
    <2>3. WorkTypes'
      BY <1>1, <1>2, <1>10, <2>1, <2>2, SucceedTypes DEF SqlExecute
    <2>4. QED BY <1>10, <2>3, WorkStepTypes DEF SqlExecute, pinVars
  <1>11. ASSUME NEW changed \in Changes \cap SUBSET Nodes, NEW m \in {"shared", "exclusive"},
                GraphReuse(t, changed, m)
         PROVE  TypeOK'
    <2>1. pend' \in [Txns -> Statements] /\ locks' \in [Txns -> SUBSET Requests]
      BY <1>1, <1>11 DEF WorkTypes, GraphReuse
    <2>2. changed \in SUBSET (Entities \cup {Database, Schema})
      BY InputTypes
    <2>3. WorkTypes'
      BY <1>1, <1>2, <1>11, <2>1, <2>2, SucceedTypes DEF GraphReuse
    <2>4. QED BY <1>11, <2>3, WorkStepTypes DEF GraphReuse, pinVars
  <1>12. ASSUME NEW changed \in Changes \cap SUBSET Nodes, NEW m \in {"shared", "exclusive"},
                GraphLock(t, changed, m)
         PROVE  TypeOK'
    <2>1. Footprint(changed, m) \in SUBSET Requests /\ locks[t] \in SUBSET Requests
      BY <1>1, PieceTypes DEF WorkTypes, Modes
    <2>2. locks' \in [Txns -> SUBSET Requests]
      BY <1>1, <1>12, <2>1 DEF WorkTypes, GraphLock
    <2>3. [stage |-> "replay", reqs |-> Footprint(changed, m), all |-> Footprint(changed, m),
           covered |-> FALSE, saved |-> locks[t]] \in Statements
      BY <2>1 DEF Statements
    <2>4. pend' \in [Txns -> Statements]
      BY <1>1, <1>12, <2>3 DEF WorkTypes, GraphLock
    <2>5. WorkTypes'
      BY <1>1, <1>12, <2>2, <2>4 DEF WorkTypes, GraphLock
    <2>6. QED BY <1>12, <2>5, WorkStepTypes DEF GraphLock, pinVars
  <1>13. ASSUME GraphReplay(t) PROVE TypeOK'
    <2>1. pend' \in [Txns -> Statements] /\ locks' \in [Txns -> SUBSET Requests]
      BY <1>1, <1>3, <1>13 DEF WorkTypes, GraphReplay
    <2>2. WritableUnder(pend[t].reqs) \in SUBSET (Entities \cup {Database, Schema})
      BY PieceTypes
    <2>3. WorkTypes'
      BY <1>1, <1>2, <1>13, <2>1, <2>2, SucceedTypes DEF GraphReplay
    <2>4. QED BY <1>13, <2>3, WorkStepTypes DEF GraphReplay, pinVars
  <1>14. ASSUME GraphFail(t) PROVE TypeOK'
    <2>1. pend[t].saved \in SUBSET Requests
      BY <1>1 DEF Statements
    <2>2. WorkTypes'
      BY <1>1, <1>3, <1>14, <2>1 DEF WorkTypes, GraphFail
    <2>3. QED BY <1>14, <2>2, WorkStepTypes DEF GraphFail, pinVars
  <1>15. QED BY <1>4, <1>5, <1>6, <1>7, <1>8, <1>9, <1>10, <1>11, <1>12, <1>13, <1>14

\* Steps of an autocommit statement keep the types
LEMMA AutocommitTypes ==
  ASSUME TypeOK, NEW t \in Txns
  PROVE  /\ \A q \in AutoScopes : AutoScope(t, q) => TypeOK'
         /\ \A n \in Nodes : AutoPoint(t, n) => TypeOK'
         /\ \A changed \in Changes \cap SUBSET Nodes, m \in {"shared", "exclusive"} :
              AutoGraph(t, changed, m) => TypeOK'
         /\ AutoFootprint(t) => TypeOK'
         /\ \A changed \in Changes \cap SUBSET (Rows \cup {Database}) :
              AutoSql(t, changed) => TypeOK'
         /\ AutoSqlUpdate(t) => TypeOK'
  <1>1. PinTypes /\ WorkTypes /\ epoch \in Nat /\ pend[t] \in Statements
    BY SMT, InputsAssumption DEF TypeOK, StoreTypes, WorkTypes
  <1>2. ASSUME NEW q \in AutoScopes, AutoScope(t, q) PROVE TypeOK'
    <2>1. WorkTypes'
      BY <1>1, <1>2, InputTypes DEF WorkTypes, AutoScope
    <2>2. PinTypes'
      BY <1>1, <1>2 DEF PinTypes, AutoScope
    <2>3. QED BY <1>2, <2>1, <2>2, PinStepTypes DEF AutoScope
  <1>3. ASSUME NEW n \in Nodes, AutoPoint(t, n) PROVE TypeOK'
    <2>1. Exclusive(n) \in Requests
      BY PieceTypes DEF Exclusive, Targets, Entities, Modes
    <2>2. WorkTypes'
      BY <1>1, <1>3, <2>1 DEF WorkTypes, AutoPoint
    <2>3. QED BY <1>3, <2>2, WorkStepTypes DEF AutoPoint, pinVars
  <1>4. ASSUME Start(t, "pessimistic", "snapshot", epoch, FALSE)
        PROVE  PinTypes' /\ reads' \in [Txns -> SUBSET VersionKeys]
    BY <1>1, <1>4, StartTypes DEF WorkTypes
  <1>5. ASSUME NEW changed \in Changes \cap SUBSET Nodes, NEW m \in {"shared", "exclusive"},
               AutoGraph(t, changed, m)
        PROVE  TypeOK'
    <2>1. Footprint(changed, m) \in SUBSET Requests
      BY PieceTypes DEF Modes
    <2>2. [stage |-> "footprint", reqs |-> Footprint(changed, m), all |-> {},
           covered |-> FALSE, saved |-> {}] \in Statements
      BY <2>1 DEF Statements
    <2>3. pend' \in [Txns -> Statements]
      BY <1>1, <1>5, <2>2 DEF WorkTypes, AutoGraph
    <2>4. PinTypes' /\ reads' \in [Txns -> SUBSET VersionKeys]
      BY <1>4, <1>5 DEF AutoGraph
    <2>5. guarded' \in [Txns -> SUBSET Entities]
      BY <1>1, <1>5, PieceTypes DEF WorkTypes, AutoGraph
    <2>6. writes' \in [Txns -> SUBSET (Entities \cup {Database, Schema})]
      BY <1>1, <1>5, InputTypes DEF WorkTypes, AutoGraph
    <2>7. WorkTypes'
      BY <1>1, <1>5, <2>3, <2>4, <2>5, <2>6 DEF WorkTypes, AutoGraph
    <2>8. QED BY <1>5, <2>4, <2>7, PinStepTypes DEF AutoGraph
  <1>6. ASSUME AutoFootprint(t) PROVE TypeOK'
    <2>1. pend[t].reqs \in SUBSET Requests
      BY <1>1 DEF Statements
    <2>2. 1 \in 0 .. MaxStatements
      BY SMT, InputsAssumption
    <2>3. WorkTypes'
      BY <1>1, <1>6, <2>1, <2>2, PieceTypes DEF WorkTypes, AutoFootprint
    <2>4. QED BY <1>6, <2>3, WorkStepTypes DEF AutoFootprint, pinVars
  <1>7. ASSUME NEW changed \in Changes \cap SUBSET (Rows \cup {Database}), AutoSql(t, changed)
        PROVE  TypeOK'
    <2>1. PinTypes' /\ reads' \in [Txns -> SUBSET VersionKeys]
      BY <1>4, <1>7 DEF AutoSql
    <2>2. guarded' \in [Txns -> SUBSET Entities]
      BY <1>1, <1>7, PieceTypes DEF WorkTypes, AutoSql
    <2>3. writes' \in [Txns -> SUBSET (Entities \cup {Database, Schema})]
      BY <1>1, <1>7, InputTypes DEF WorkTypes, AutoSql
    <2>4. statements' \in [Txns -> 0 .. MaxStatements]
      BY SMT, <1>1, <1>7, InputsAssumption DEF WorkTypes, AutoSql
    <2>5. WorkTypes'
      BY <1>1, <1>7, <2>1, <2>2, <2>3, <2>4 DEF WorkTypes, AutoSql
    <2>6. QED BY <1>7, <2>1, <2>5, PinStepTypes DEF AutoSql
  <1>8. ASSUME AutoSqlUpdate(t) PROVE TypeOK'
    <2>1. PinTypes' /\ reads' \in [Txns -> SUBSET VersionKeys]
      BY <1>4, <1>8 DEF AutoSqlUpdate
    <2>2. WorkTypes'
      BY <1>1, <1>8, <2>1 DEF WorkTypes, AutoSqlUpdate
    <2>3. QED BY <1>8, <2>1, <2>2, PinStepTypes DEF AutoSqlUpdate
  <1>9. QED BY <1>2, <1>3, <1>5, <1>6, <1>7, <1>8

\* Beginning, commit and the end of a transaction keep the types
LEMMA LifecycleTypes ==
  ASSUME TypeOK, NEW t \in Txns
  PROVE  /\ \A p \in Profiles : Begin(t, p[1], p[2]) => TypeOK'
         /\ \A e \in Upgrades : BeginFromReadSnapshot(t, e) => TypeOK'
         /\ Seal(t) => TypeOK'
         /\ Ended(t) \/ Taken(t) =>
              (StoreTypes' => TypeOK') /\ (UNCHANGED storeVars => TypeOK')
         /\ CommitRefused(t) => TypeOK'
         /\ \A equal \in Rewrites : Commit(t, equal) => TypeOK'
  <1>1. PinTypes /\ WorkTypes /\ StoreTypes /\ epoch \in Nat
    BY SMT, InputsAssumption DEF TypeOK, StoreTypes
  <1>2. ASSUME NEW p \in Profiles, Begin(t, p[1], p[2]) PROVE TypeOK'
    <2>1. p[1] \in {"optimistic", "pessimistic"} /\ p[2] \in {"snapshot", "serializable"}
      BY SMT, InputsAssumption
    <2>2. Start(t, p[1], p[2], epoch, FALSE)
      BY <1>2 DEF Begin
    <2>3. PinTypes' /\ reads' \in [Txns -> SUBSET VersionKeys]
      BY <1>1, <2>1, <2>2, StartTypes DEF WorkTypes
    <2>4. WorkTypes'
      BY <1>1, <1>2, <2>3 DEF WorkTypes, Begin
    <2>5. QED BY <1>2, <2>3, <2>4, PinStepTypes DEF Begin
  <1>3. ASSUME NEW e \in Upgrades, BeginFromReadSnapshot(t, e) PROVE TypeOK'
    <2>1. e \in Nat
      BY SMT, InputsAssumption
    <2>2. Start(t, "optimistic", "snapshot", e, TRUE)
      BY <1>3 DEF BeginFromReadSnapshot
    <2>3. PinTypes' /\ reads' \in [Txns -> SUBSET VersionKeys]
      BY <1>1, <2>1, <2>2, StartTypes DEF WorkTypes
    <2>4. WorkTypes'
      BY <1>1, <1>3, <2>3 DEF WorkTypes, BeginFromReadSnapshot
    <2>5. QED BY <1>3, <2>3, <2>4, PinStepTypes DEF BeginFromReadSnapshot
  <1>4. ASSUME Seal(t) PROVE TypeOK'
    <2>1. [target |-> Database, mode |-> "optimistic"] \in Requests
      BY PieceTypes DEF Targets, Modes
    <2>2. WorkTypes'
      BY <1>1, <1>4, <2>1 DEF WorkTypes, Seal
    <2>3. PinTypes'
      BY <1>1, <1>4 DEF PinTypes, Seal
    <2>4. QED BY <1>4, <2>2, <2>3, PinStepTypes DEF Seal
  <1>5. ASSUME Ended(t) \/ Taken(t)
        PROVE  (StoreTypes' => TypeOK') /\ (UNCHANGED storeVars => TypeOK')
    <2>1. PinTypes' /\ WorkTypes'
      BY <1>1, <1>5, EndedTypes
    <2>2. QED BY <2>1, PinStepTypes DEF TypeOK
  <1>6. ASSUME CommitRefused(t) PROVE TypeOK'
    <2>1. StoreTypes'
      BY <1>1, <1>6, StagedTypes DEF StoreTypes, CommitRefused
    <2>2. QED BY <1>5, <1>6, <2>1 DEF CommitRefused
  <1>7. ASSUME NEW equal \in Rewrites, Commit(t, equal) PROVE TypeOK'
    <2>1. StoreTypes'
      BY <1>7, PublishTypes DEF Commit
    <2>2. QED BY <1>5, <1>7, <2>1 DEF Commit
  <1>8. QED BY <1>2, <1>3, <1>4, <1>5, <1>6, <1>7

\* Steps keep the types
LEMMA TypeStep == TypeOK /\ [Next]_vars => TypeOK'
  <1> SUFFICES ASSUME TypeOK, [Next]_vars PROVE TypeOK'
    OBVIOUS
  <1>1. ASSUME NEW t \in Txns, Step(t) PROVE TypeOK'
    <2>1. ASSUME \/ SqlSnapshotChanged(t) \/ GraphSnapshotChanged(t) \/ CommitReadOnly(t)
                 \/ CommitConflict(t) \/ Release(t) \/ Abort(t)
          PROVE  (Ended(t) \/ Taken(t)) /\ UNCHANGED storeVars
      BY <2>1 DEF SqlSnapshotChanged, GraphSnapshotChanged, CommitReadOnly, CommitConflict, Release,
                  Abort
    <2>2. QED BY <1>1, <2>1, StatementTypes, AutocommitTypes, LifecycleTypes DEF Step
  <1>2. ASSUME NEW changed \in LegacyChanges, LegacyCommit(changed) PROVE TypeOK'
    <2>1. epoch' \in 0 .. MaxEpoch /\ epoch + 1 \in Nat
      BY SMT, <1>2, InputsAssumption DEF TypeOK, StoreTypes, LegacyCommit
    <2>2. index' \in Indexes
      BY <1>2, <2>1 DEF TypeOK, StoreTypes, LegacyCommit, Indexes
    <2>3. StoreTypes'
      BY <1>2, <2>1, <2>2 DEF StoreTypes, TypeOK, LegacyCommit
    <2>4. PinTypes' /\ WorkTypes'
      BY <1>2 DEF TypeOK, PinTypes, WorkTypes, LegacyCommit, txnVars
    <2>5. QED BY <2>3, <2>4 DEF TypeOK
  <1>3. ASSUME NEW key \in AppendKeys, AppendCommit(key) PROVE TypeOK'
    <2>1. StoreTypes'
      BY <1>3, PublishTypes DEF AppendCommit
    <2>2. PinTypes' /\ WorkTypes'
      BY <1>3 DEF TypeOK, PinTypes, WorkTypes, AppendCommit, txnVars
    <2>3. QED BY <2>1, <2>2 DEF TypeOK
  <1>4. CASE Reclaim
    <2>1. StoreTypes'
      BY <1>4, StagedTypes DEF TypeOK, StoreTypes, Reclaim
    <2>2. PinTypes' /\ WorkTypes'
      BY <1>4 DEF TypeOK, PinTypes, WorkTypes, Reclaim, txnVars
    <2>3. QED BY <2>1, <2>2 DEF TypeOK
  <1>5. CASE UNCHANGED vars
    <2>1. UNCHANGED storeVars /\ UNCHANGED txnVars
      BY <1>5 DEF vars, storeVars, txnVars
    <2>2. PinTypes' /\ WorkTypes'
      BY <2>1 DEF TypeOK, PinTypes, WorkTypes, txnVars
    <2>3. QED BY <2>1, <2>2, PinStepTypes
  <1>6. QED BY <1>1, <1>2, <1>3, <1>4, <1>5 DEF Next

-----------------------------------------------------------------------------
(* Soundness of the version index. *)

\* An index that forgets no write younger than its floor and does not cross
\* the snapshot of a registered transaction
Usable(i) ==
  /\ i \in Indexes
  /\ i.floor <= epoch
  /\ \A e \in Entities : lastWrite[e] > i.floor =>
       i.stamp[e] >= lastWrite[e] \/ i.stamp[Database] >= lastWrite[e]
  /\ \A t \in Pinned : ~ late[t] => i.floor <= base[t]

\* The inductive invariant of the index: no write and no snapshot is from the
\* future
IndexInv ==
  /\ TypeOK
  /\ Usable(index)
  /\ \A e \in Entities : lastWrite[e] <= epoch
  /\ \A t \in Pinned : base[t] <= epoch

\* The keys of the index are different things
LEMMA KeyFacts ==
  /\ Database \in VersionKeys /\ Entities \subseteq VersionKeys
  /\ \A e \in Entities : e \notin ReadSummaries /\ e # ReadBarrier /\ e # Database
  /\ Database \notin ReadSummaries /\ Database # ReadBarrier
  BY KeysDistinct DEF VersionKeys, InlineBarriers, ReadSummaries, Database, ReadBarrier, TableDomain,
                      NodeDomain

\* Reclaiming history and falling back to a baseline leave a usable index
LEMMA UsableSources ==
  ASSUME IndexInv, NEW i \in Reclaimed(index) \cup {index}
  PROVE  Usable(i) /\ Usable(StagingSource(i))
  <1>1. TypeOK /\ index \in Indexes /\ epoch \in Nat /\ base \in [Txns -> Nat]
          /\ lastWrite \in [Entities -> Nat] /\ Pinned \subseteq Txns
    BY SMT, InputsAssumption DEF IndexInv, TypeOK, StoreTypes, PinTypes, Pinned
  <1>2. Usable(i)
    <2>1. CASE i = index
      BY <2>1 DEF IndexInv
    <2>2. CASE i \in Reclaimed(index)
      <3>1. PICK oldest \in Nat, kept \in {{}, Stamped(index)} :
              oldest \in Watermarks /\ i = PruneBefore(index, oldest, kept)
        BY <1>1, <2>2, ReclaimedShape
      <3>2. i \in Indexes
        BY <1>1, <3>1, IndexTypes
      <3>3. /\ i.floor = IF oldest - 1 > index.floor THEN oldest - 1 ELSE index.floor
            /\ \A k \in VersionKeys : i.stamp[k] = index.stamp[k] \/ index.stamp[k] < oldest
        BY <3>1 DEF PruneBefore
      <3>4. index.floor \in Nat /\ \A k \in VersionKeys : index.stamp[k] \in Nat
        BY <1>1 DEF Indexes
      <3>5. oldest <= epoch + 1 /\ \A t \in Pinned : oldest <= base[t]
        BY SMT, <1>1, <3>1 DEF Watermarks, OldestAtLeast, IndexInv
      <3>6. i.floor <= epoch
        BY SMT, <1>1, <3>3, <3>4, <3>5 DEF IndexInv, Usable
      <3>7. \A t \in Pinned : ~ late[t] => i.floor <= base[t]
        BY SMT, <1>1, <3>3, <3>4, <3>5 DEF IndexInv, Usable
      <3>8. ASSUME NEW e \in Entities, lastWrite[e] > i.floor
            PROVE  i.stamp[e] >= lastWrite[e] \/ i.stamp[Database] >= lastWrite[e]
        <4>1. lastWrite[e] \in Nat /\ lastWrite[e] > index.floor /\ lastWrite[e] >= oldest
          BY SMT, <1>1, <3>3, <3>4, <3>8
        <4>2. index.stamp[e] >= lastWrite[e] \/ index.stamp[Database] >= lastWrite[e]
          BY <4>1 DEF IndexInv, Usable
        <4>3. QED BY SMT, <3>3, <3>4, <4>1, <4>2, KeyFacts
      <3>9. QED BY <3>2, <3>6, <3>7, <3>8 DEF Usable
    <2>3. QED BY <2>1, <2>2
  <1>3. CASE OldestAtLeast(epoch)
    <2>1. StagingSource(i) = ReadBaseline(epoch)
      BY <1>3 DEF StagingSource
    <2>2. ReadBaseline(epoch) \in Indexes /\ ReadBaseline(epoch).floor = epoch
      BY <1>1, IndexTypes DEF ReadBaseline
    <2>3. QED BY SMT, <1>1, <1>2, <1>3, <2>1, <2>2 DEF Usable, IndexInv, OldestAtLeast
  <1>4. QED BY <1>2, <1>3 DEF StagingSource

\* Staging a write set witnesses every write of it
LEMMA StagedSound ==
  ASSUME IndexInv, NEW changed, NEW summaries \in SUBSET ReadSummaries,
         NEW j \in StagedIndexes(VersionWrites(changed), summaries)
  PROVE  /\ j \in Indexes
         /\ j.floor <= epoch
         /\ \A t \in Pinned : ~ late[t] => j.floor <= base[t]
         /\ \A e \in Entities :
              LET last == IF e \in changed THEN epoch + 1 ELSE lastWrite[e]
              IN last > j.floor => j.stamp[e] >= last \/ j.stamp[Database] >= last
  <1>1. TypeOK /\ epoch \in Nat /\ epoch + 1 \in Nat /\ lastWrite \in [Entities -> Nat]
    BY SMT DEF IndexInv, TypeOK, StoreTypes
  <1>2. PICK i \in Reclaimed(index) \cup {index} :
          \/ j = Stage(StagingSource(i), VersionWrites(changed) \cup summaries, epoch + 1)
          \/ j = StageWithReadBarrier(StagingSource(i), VersionWrites(changed), epoch + 1)
    BY <1>1, StagedShape
  <1> DEFINE s == StagingSource(i)
  <1>3. Usable(s)
    BY <1>2, UsableSources
  <1>4. s \in Indexes /\ s.floor \in Nat /\ \A k \in VersionKeys : s.stamp[k] \in Nat
    BY <1>3 DEF Usable, Indexes
  <1>5. j \in Indexes /\ j.floor = s.floor
    <2>1. j \in Indexes
      BY <1>1, <1>2, <1>4, IndexTypes
    <2>2. j.floor = s.floor
      BY SMT, <1>2 DEF Stage, StageWithReadBarrier
    <2>3. QED BY <2>1, <2>2
  <1>6. \A k \in Entities \cup {Database} :
          j.stamp[k] = IF k \in VersionWrites(changed) THEN epoch + 1 ELSE s.stamp[k]
    <2>1. ASSUME NEW k \in Entities \cup {Database}
          PROVE  /\ k \in VersionKeys /\ k \notin ReadSummaries /\ k # ReadBarrier
                 /\ k \notin summaries
      BY KeyFacts
    <2>2. CASE j = Stage(StagingSource(i), VersionWrites(changed) \cup summaries, epoch + 1)
      BY <2>1, <2>2 DEF Stage
    <2>3. CASE j = StageWithReadBarrier(StagingSource(i), VersionWrites(changed), epoch + 1)
      BY <2>1, <2>3 DEF StageWithReadBarrier
    <2>4. QED BY <1>2, <2>2, <2>3
  <1>7. ASSUME NEW e \in Entities
        PROVE  LET last == IF e \in changed THEN epoch + 1 ELSE lastWrite[e]
               IN last > j.floor => j.stamp[e] >= last \/ j.stamp[Database] >= last
    <2>1. e \in changed => e \in VersionWrites(changed) \/ Database \in VersionWrites(changed)
      BY KeyFacts, KeysDistinct DEF VersionWrites, InlineBarriers, Entities
    <2>2. lastWrite[e] \in Nat /\ lastWrite[e] <= epoch
      BY <1>1 DEF IndexInv
    <2>3. lastWrite[e] > s.floor => s.stamp[e] >= lastWrite[e] \/ s.stamp[Database] >= lastWrite[e]
      BY <1>3 DEF Usable
    <2>4. /\ j.stamp[e] = IF e \in VersionWrites(changed) THEN epoch + 1 ELSE s.stamp[e]
          /\ j.stamp[Database] =
               IF Database \in VersionWrites(changed) THEN epoch + 1 ELSE s.stamp[Database]
      BY <1>6
    <2>5. s.stamp[e] \in Nat /\ s.stamp[Database] \in Nat
      BY <1>4, KeyFacts
    <2>6. CASE e \in changed
      BY SMT, <1>1, <2>1, <2>4, <2>6
    <2>7. CASE e \notin changed
      BY SMT, <1>1, <1>4, <1>5, <2>2, <2>3, <2>4, <2>5, <2>7
    <2>8. QED BY <2>6, <2>7
  <1>8. QED BY <1>3, <1>5, <1>7 DEF Usable

\* Who is registered after a step: those who were, with their snapshot
PinsFrozen ==
  \A t \in Pinned' :
    t \in Pinned /\ base'[t] = base[t] /\ late'[t] = late[t] /\ isolation'[t] = isolation[t]

\* or with a snapshot of now, or upgraded read snapshots
PinsKept ==
  \A t \in Pinned' :
    \/ t \in Pinned /\ base'[t] = base[t] /\ late'[t] = late[t] /\ isolation'[t] = isolation[t]
    \/ base'[t] = epoch
    \/ late'[t] /\ isolation'[t] = "snapshot" /\ base'[t] <= epoch

\* A step that touches no registration
LEMMA PinsUnchanged ==
  ASSUME UNCHANGED pinVars
  PROVE  PinsFrozen /\ PinsKept
  BY DEF PinsFrozen, PinsKept, Pinned, Live, LockCoordinated, pinVars

\* A step that begins a transaction
LEMMA PinsStarted ==
  ASSUME PinTypes, NEW t \in Txns, NEW m, NEW i, NEW e, NEW upgraded \in BOOLEAN,
         Start(t, m, i, e, upgraded), e = epoch \/ (upgraded /\ i = "snapshot" /\ e <= epoch)
  PROVE  PinsKept
  <1>1. base'[t] = e /\ late'[t] = upgraded /\ isolation'[t] = i
    BY DEF PinTypes, Start
  <1>2. \A u \in Txns \ {t} : /\ status'[u] = status[u] /\ mode'[u] = mode[u]
                              /\ isolation'[u] = isolation[u] /\ base'[u] = base[u]
                              /\ late'[u] = late[u]
    BY DEF PinTypes, Start
  <1>3. \A u \in Pinned' \ {t} : u \in Pinned
    BY <1>2 DEF Pinned, Live, LockCoordinated
  <1>4. Pinned' \subseteq Txns
    BY DEF Pinned
  <1>5. QED BY <1>1, <1>2, <1>3, <1>4 DEF PinsKept

\* A step that ends a transaction
LEMMA PinsEnded ==
  ASSUME PinTypes, NEW t \in Txns,
         Ended(t) \/ (Taken(t) /\ ReadyToCommit(t))
  PROVE  PinsFrozen /\ PinsKept
  <1>1. \A u \in Txns \ {t} : /\ status'[u] = status[u] /\ mode'[u] = mode[u]
                              /\ isolation'[u] = isolation[u] /\ base'[u] = base[u]
                              /\ late'[u] = late[u]
    BY DEF PinTypes, Ended, Taken
  <1>2. \/ status'[t] = "idle"
        \/ Live(t) /\ base'[t] = base[t] /\ late'[t] = late[t] /\ isolation'[t] = isolation[t]
    BY DEF PinTypes, Ended, Taken, ReadyToCommit, Live
  <1>3. PinsFrozen
    BY <1>1, <1>2 DEF PinsFrozen, Pinned, Live, LockCoordinated
  <1>4. QED BY <1>3 DEF PinsFrozen, PinsKept

\* A step of a transaction that changes nothing in the store keeps the invariant
LEMMA QuietStep ==
  ASSUME IndexInv, TypeOK', UNCHANGED storeVars, PinsKept
  PROVE  IndexInv'
  <1>1. Pinned' \subseteq Txns /\ base' \in [Txns -> Nat] /\ epoch \in Nat
    BY SMT DEF TypeOK, StoreTypes, PinTypes, Pinned, IndexInv
  <1>2. \A t \in Pinned' : base'[t] <= epoch
    BY SMT, <1>1 DEF PinsKept, IndexInv
  <1>3. \A t \in Pinned' : ~ late'[t] => index.floor <= base'[t]
    BY <1>1 DEF PinsKept, IndexInv, Usable
  <1>4. QED BY <1>2, <1>3 DEF IndexInv, Usable, storeVars

\* Publication keeps the invariant
LEMMA PublishStep ==
  ASSUME IndexInv, TypeOK', NEW changed, NEW equal, Publish(changed, equal),
         PinsFrozen
  PROVE  IndexInv'
  <1>1. epoch \in Nat /\ epoch' = epoch + 1 /\ lastWrite \in [Entities -> Nat]
          /\ base \in [Txns -> Nat] /\ Pinned \subseteq Txns
    BY SMT DEF IndexInv, TypeOK, StoreTypes, PinTypes, Publish, Pinned
  <1>2. Summaries(changed, equal) \in SUBSET ReadSummaries
    BY DEF Summaries, ReadSummaries
  <1>3. index' \in StagedIndexes(VersionWrites(changed), Summaries(changed, equal))
    BY DEF Publish
  <1>4. /\ index' \in Indexes
        /\ index'.floor <= epoch
        /\ \A t \in Pinned : ~ late[t] => index'.floor <= base[t]
        /\ \A e \in Entities :
             LET last == IF e \in changed THEN epoch + 1 ELSE lastWrite[e]
             IN last > index'.floor => index'.stamp[e] >= last \/ index'.stamp[Database] >= last
    BY <1>2, <1>3, StagedSound
  <1>5. lastWrite' = [e \in Entities |-> IF e \in changed THEN epoch + 1 ELSE lastWrite[e]]
    BY DEF Publish
  <1>6. \A e \in Entities : lastWrite'[e] <= epoch'
    BY SMT, <1>1, <1>5 DEF IndexInv
  <1>7. \A t \in Pinned' : base'[t] <= epoch'
    <2>1. \A t \in Pinned : base[t] <= epoch /\ base[t] \in Nat
      BY <1>1 DEF IndexInv
    <2>2. QED BY SMT, <1>1, <2>1 DEF PinsFrozen
  <1>8. index'.floor <= epoch'
    BY SMT, <1>1, <1>4 DEF Indexes
  <1>9. \A t \in Pinned' : ~ late'[t] => index'.floor <= base'[t]
    BY <1>4 DEF PinsFrozen
  <1>10. \A e \in Entities : lastWrite'[e] > index'.floor =>
           index'.stamp[e] >= lastWrite'[e] \/ index'.stamp[Database] >= lastWrite'[e]
    BY SMT, <1>4, <1>5
  <1>11. Usable(index)'
    BY <1>4, <1>8, <1>9, <1>10 DEF Usable
  <1>12. QED BY <1>6, <1>7, <1>11 DEF IndexInv

\* Steps that change nothing in the store, and no registration except that of
\* one transaction
LEMMA QuietSteps ==
  ASSUME PinTypes, NEW t \in Txns, Step(t), ~ CommitRefused(t), \A equal \in Rewrites : ~ Commit(t, equal),
         epoch \in Nat
  PROVE  PinsKept /\ UNCHANGED storeVars
  <1>1. ASSUME NEW key \in ReadKeys, Read(t, key)
        PROVE  PinsKept /\ UNCHANGED storeVars
    BY <1>1, PinsUnchanged DEF Read, pinVars
  <1>2. ASSUME NEW changed \in Changes, OptimisticWrite(t, changed)
        PROVE  PinsKept /\ UNCHANGED storeVars
    BY <1>2, PinsUnchanged DEF OptimisticWrite, pinVars
  <1>3. ASSUME NEW q \in SqlRequests, SqlLock(t, q)
        PROVE  PinsKept /\ UNCHANGED storeVars
    BY <1>3, PinsUnchanged DEF SqlLock, pinVars
  <1>4. ASSUME SqlFence(t)
        PROVE  PinsKept /\ UNCHANGED storeVars
    BY <1>4, PinsUnchanged DEF SqlFence, pinVars
  <1>5. ASSUME SqlFail(t)
        PROVE  PinsKept /\ UNCHANGED storeVars
    BY <1>5, PinsUnchanged DEF SqlFail, pinVars
  <1>6. ASSUME NEW changed \in Changes \cup {{}}, SqlExecute(t, changed)
        PROVE  PinsKept /\ UNCHANGED storeVars
    BY <1>6, PinsUnchanged DEF SqlExecute, pinVars
  <1>7. ASSUME NEW changed \in Changes \cap SUBSET Nodes, NEW m \in {"shared", "exclusive"},
               GraphReuse(t, changed, m)
        PROVE  PinsKept /\ UNCHANGED storeVars
    BY <1>7, PinsUnchanged DEF GraphReuse, pinVars
  <1>8. ASSUME NEW changed \in Changes \cap SUBSET Nodes, NEW m \in {"shared", "exclusive"},
               GraphLock(t, changed, m)
        PROVE  PinsKept /\ UNCHANGED storeVars
    BY <1>8, PinsUnchanged DEF GraphLock, pinVars
  <1>9. ASSUME GraphReplay(t)
        PROVE  PinsKept /\ UNCHANGED storeVars
    BY <1>9, PinsUnchanged DEF GraphReplay, pinVars
  <1>10. ASSUME GraphFail(t)
        PROVE  PinsKept /\ UNCHANGED storeVars
    BY <1>10, PinsUnchanged DEF GraphFail, pinVars
  <1>11. ASSUME NEW n \in Nodes, AutoPoint(t, n)
        PROVE  PinsKept /\ UNCHANGED storeVars
    BY <1>11, PinsUnchanged DEF AutoPoint, pinVars
  <1>12. ASSUME AutoFootprint(t)
        PROVE  PinsKept /\ UNCHANGED storeVars
    BY <1>12, PinsUnchanged DEF AutoFootprint, pinVars
  <1>13. ASSUME NEW p \in Profiles, Begin(t, p[1], p[2])
        PROVE  PinsKept /\ UNCHANGED storeVars
    BY <1>13, PinsStarted DEF Begin
  <1>14. ASSUME NEW e \in Upgrades, BeginFromReadSnapshot(t, e)
        PROVE  PinsKept /\ UNCHANGED storeVars
    <2>1. e \in Nat
      BY SMT, InputsAssumption
    <2>2. e < epoch
      BY <1>14 DEF BeginFromReadSnapshot
    <2>3. e <= epoch
      BY SMT, <2>1, <2>2
    <2>4. QED BY <1>14, <2>3, PinsStarted DEF BeginFromReadSnapshot
  <1>15. ASSUME NEW changed \in Changes \cap SUBSET Nodes, NEW m \in {"shared", "exclusive"},
               AutoGraph(t, changed, m)
        PROVE  PinsKept /\ UNCHANGED storeVars
    BY <1>15, PinsStarted DEF AutoGraph
  <1>16. ASSUME NEW changed \in Changes \cap SUBSET (Rows \cup {Database}), AutoSql(t, changed)
        PROVE  PinsKept /\ UNCHANGED storeVars
    BY <1>16, PinsStarted DEF AutoSql
  <1>17. ASSUME AutoSqlUpdate(t)
        PROVE  PinsKept /\ UNCHANGED storeVars
    BY <1>17, PinsStarted DEF AutoSqlUpdate
  <1>18. ASSUME \/ SqlSnapshotChanged(t) \/ GraphSnapshotChanged(t) \/ CommitReadOnly(t)
               \/ CommitConflict(t) \/ Release(t) \/ Abort(t)
        PROVE  PinsKept /\ UNCHANGED storeVars
    BY <1>18, PinsEnded
    DEF SqlSnapshotChanged, GraphSnapshotChanged, CommitReadOnly, CommitConflict, Release, Abort
  <1>19. ASSUME SqlRefresh(t)
        PROVE  PinsKept /\ UNCHANGED storeVars
    BY <1>19 DEF SqlRefresh, PinTypes, PinsKept, Pinned, Live, LockCoordinated
  <1>20. ASSUME NEW q \in AutoScopes, AutoScope(t, q)
        PROVE  PinsKept /\ UNCHANGED storeVars
    BY <1>20 DEF AutoScope, PinTypes, PinsKept, Pinned, Live, LockCoordinated
  <1>21. ASSUME Seal(t)
        PROVE  PinsKept /\ UNCHANGED storeVars
    BY <1>21 DEF Seal, PinTypes, PinsKept, Pinned, Live, LockCoordinated
  <1>22. QED
    BY <1>1, <1>2, <1>3, <1>4, <1>5, <1>6, <1>7, <1>8, <1>9, <1>10, <1>11, <1>12, <1>13, <1>14,
       <1>15, <1>16, <1>17, <1>18, <1>19, <1>20, <1>21
    DEF Step

\* The index invariant is inductive
LEMMA IndexStep == IndexInv /\ [Next]_vars => IndexInv'
  <1> SUFFICES ASSUME IndexInv, [Next]_vars PROVE IndexInv'
    OBVIOUS
  <1>1. TypeOK /\ TypeOK'
    BY TypeStep DEF IndexInv
  <1>2. PinTypes /\ epoch \in Nat
    BY SMT, <1>1, InputsAssumption DEF TypeOK, StoreTypes
  <1>3. ASSUME NEW t \in Txns, Step(t) PROVE IndexInv'
    <2>1. CASE CommitRefused(t)
      <3>1. PinsFrozen
        BY <1>2, <2>1, PinsEnded DEF CommitRefused
      <3>2. Usable(index')
        BY <2>1, UsableSources DEF CommitRefused
      <3>3. epoch' = epoch /\ lastWrite' = lastWrite
        BY <2>1 DEF CommitRefused
      <3>4. QED BY <1>1, <3>1, <3>2, <3>3 DEF PinsFrozen, IndexInv, Usable
    <2>2. ASSUME NEW equal \in Rewrites, Commit(t, equal) PROVE IndexInv'
      <3>1. PinsFrozen
        BY <1>2, <2>2, PinsEnded DEF Commit
      <3>2. QED BY <1>1, <2>2, <3>1, PublishStep DEF Commit
    <2>3. CASE ~ CommitRefused(t) /\ \A equal \in Rewrites : ~ Commit(t, equal)
      <3>1. PinsKept /\ UNCHANGED storeVars
        BY <1>2, <1>3, <2>3, QuietSteps
      <3>2. QED BY <1>1, <3>1, QuietStep
    <2>4. QED BY <2>1, <2>2, <2>3
  <1>4. ASSUME NEW changed \in LegacyChanges, LegacyCommit(changed) PROVE IndexInv'
    <2>1. Pinned' = Pinned /\ base' = base /\ late' = late
      BY <1>4 DEF LegacyCommit, txnVars, Pinned, Live, LockCoordinated
    <2>2. epoch \in Nat /\ epoch' = epoch + 1 /\ lastWrite \in [Entities -> Nat]
            /\ base \in [Txns -> Nat] /\ Pinned \subseteq Txns /\ index \in Indexes
      BY <1>1, <1>2, <1>4 DEF LegacyCommit, TypeOK, StoreTypes, PinTypes, Pinned
    <2>3. /\ index'.floor = index.floor
          /\ index'.stamp[Database] = epoch + 1
      BY SMT, <1>4, <2>2, KeyFacts DEF LegacyCommit, Indexes
    <2>4. \A e \in Entities : lastWrite'[e] <= epoch + 1 /\ lastWrite'[e] \in Nat
      BY SMT, <1>4, <2>2 DEF LegacyCommit, IndexInv
    <2>5. index' \in Indexes /\ index.floor \in Nat
      BY <1>1, <2>2 DEF TypeOK, StoreTypes, Indexes
    <2>6. \A t \in Pinned : base[t] <= epoch /\ base[t] \in Nat
      BY <2>2 DEF IndexInv
    <2>7. index.floor <= epoch /\ \A t \in Pinned : ~ late[t] => index.floor <= base[t]
      BY DEF IndexInv, Usable
    <2>8. Usable(index)'
      BY SMT, <2>1, <2>2, <2>3, <2>4, <2>5, <2>7 DEF Usable
    <2>9. QED BY SMT, <1>1, <2>1, <2>2, <2>4, <2>6, <2>8 DEF IndexInv
  <1>5. ASSUME NEW key \in AppendKeys, AppendCommit(key) PROVE IndexInv'
    <2>1. PinsFrozen
      BY <1>5, PinsUnchanged DEF AppendCommit, txnVars, pinVars
    <2>2. QED BY <1>1, <1>5, <2>1, PublishStep DEF AppendCommit
  <1>6. CASE Reclaim
    <2>1. Pinned' = Pinned /\ base' = base /\ late' = late
      BY <1>6 DEF Reclaim, txnVars, Pinned, Live, LockCoordinated
    <2>2. Usable(index')
      BY <1>6, UsableSources DEF Reclaim
    <2>3. epoch' = epoch /\ lastWrite' = lastWrite
      BY <1>6 DEF Reclaim
    <2>4. QED BY <1>1, <2>1, <2>2, <2>3 DEF IndexInv, Usable
  <1>7. CASE UNCHANGED vars
    <2>1. UNCHANGED storeVars /\ UNCHANGED pinVars
      BY <1>7 DEF vars, storeVars, pinVars
    <2>2. QED BY <1>1, <2>1, PinsUnchanged, QuietStep
  <1>8. QED BY <1>3, <1>4, <1>5, <1>6, <1>7 DEF Next

\* The initial state satisfies it
LEMMA IndexInit == Init => IndexInv
  <1> SUFFICES ASSUME Init PROVE IndexInv
    OBVIOUS
  <1>1. EmptyIndex \in Indexes /\ EmptyIndex.floor = 0
    BY DEF EmptyIndex, Indexes
  <1>2. StoreTypes
    BY SMT, <1>1, InputsAssumption DEF Init, StoreTypes
  <1>3. PinTypes
    BY SMT DEF Init, PinTypes
  <1>4. WorkTypes
    BY SMT, PieceTypes, InputsAssumption DEF Init, WorkTypes
  <1>5. Pinned = {}
    BY DEF Init, Pinned, Live
  <1>6. index.floor = 0 /\ epoch = 0 /\ \A e \in Entities : lastWrite[e] = 0
    BY <1>1 DEF Init
  <1>7. Usable(index)
    BY SMT, <1>2, <1>5, <1>6 DEF Usable, StoreTypes
  <1>8. QED BY SMT, <1>2, <1>3, <1>4, <1>5, <1>6, <1>7 DEF IndexInv, TypeOK

\* The version index never forgets a write younger than its floor
\* (VersionIndex::stage, stage_with_read_barrier, prune_before, read_baseline).
THEOREM IndexSoundness == Spec => []IndexSound
  <1>1. IndexInv => IndexSound
    BY DEF IndexInv, Usable, IndexSound
  <1>2. QED BY <1>1, IndexInit, IndexStep, PTL DEF Spec

\* Pruning and baselines never cross the snapshot of a registered transaction
\* (reclaim_version_history, stage_version_index).
THEOREM HistoryProtection == Spec => []HistoryProtected
  <1>1. IndexInv => HistoryProtected
    BY DEF IndexInv, Usable, HistoryProtected
  <1>2. QED BY <1>1, IndexInit, IndexStep, PTL DEF Spec

-----------------------------------------------------------------------------
(* What validation may conclude from the index. *)

\* No stamp is younger than what it stands for.  The database barrier of a
\* baseline stands for nothing, but no registered snapshot is older than it.
Precise(i) ==
  /\ \A e \in Entities : i.stamp[e] <= lastWrite[e]
  /\ i.stamp[Schema] <= lastBroad
  /\ i.stamp[Database] <= epoch
  /\ \A t \in Pinned : ~ late[t] =>
       i.stamp[Database] <= lastBroad \/ i.stamp[Database] <= base[t]

\* The summary of what e belongs to
DomainOf(e) == IF e \in Rows THEN TableDomain ELSE NodeDomain

\* A change that a serializable snapshot does not see shows in the summary, in
\* the barrier that replaced the summaries, or in the database barrier
Witnessed(i) ==
  \A t \in Pinned : isolation[t] = "serializable" =>
    \A e \in Entities : lastChange[e] > base[t] =>
      \E k \in {DomainOf(e), ReadBarrier, Database} : i.stamp[k] >= lastChange[e]

\* What a transaction can depend on
Dependencies == Entities \cup ReadSummaries \cup {Database, Schema}

\* The inductive invariant of validation
ValidationInv ==
  /\ IndexInv
  /\ Precise(index) /\ Witnessed(index)
  /\ lastBroad <= epoch
  /\ \A e \in Entities : lastChange[e] <= lastWrite[e]
  /\ \A t \in Txns : late[t] => isolation[t] = "snapshot"
  /\ \A t \in Txns : reads[t] \subseteq Dependencies

\* The types validation works with
LEMMA ValidationTypes ==
  ASSUME TypeOK
  PROVE  /\ index \in Indexes /\ epoch \in Nat /\ epoch + 1 \in Nat /\ lastBroad \in Nat
         /\ lastWrite \in [Entities -> Nat] /\ lastChange \in [Entities -> Nat]
         /\ base \in [Txns -> Nat] /\ Pinned \subseteq Txns
  BY SMT, InputsAssumption DEF TypeOK, StoreTypes, PinTypes, Pinned

\* The keys that validation looks at
LEMMA DependencyKeys ==
  /\ Database \in VersionKeys /\ Schema \in VersionKeys /\ ReadBarrier \in VersionKeys
  /\ Schema # Database /\ Schema # ReadBarrier /\ Schema \notin ReadSummaries
  /\ \A e \in Entities : e # Schema /\ DomainOf(e) \in ReadSummaries /\ DomainOf(e) \in VersionKeys
  BY KeysDistinct DEF VersionKeys, InlineBarriers, ReadSummaries, Database, Schema, ReadBarrier,
                      TableDomain, NodeDomain, DomainOf

\* Reclaiming history and falling back to a baseline raise no stamp above what it
\* stands for and hide no change from a serializable snapshot
LEMMA ValidSources ==
  ASSUME ValidationInv, NEW i \in Reclaimed(index) \cup {index}
  PROVE  /\ Precise(i) /\ Witnessed(i)
         /\ Precise(StagingSource(i)) /\ Witnessed(StagingSource(i))
  <1>0. IndexInv /\ TypeOK
    BY DEF ValidationInv, IndexInv
  <1>1. /\ index \in Indexes /\ epoch \in Nat /\ epoch + 1 \in Nat /\ lastBroad \in Nat
        /\ lastWrite \in [Entities -> Nat] /\ lastChange \in [Entities -> Nat]
        /\ base \in [Txns -> Nat] /\ Pinned \subseteq Txns
    BY <1>0, ValidationTypes
  <1>2. Precise(i) /\ Witnessed(i)
    <2>1. CASE i = index
      BY <2>1 DEF ValidationInv
    <2>2. CASE i \in Reclaimed(index)
      <3>1. PICK oldest \in Nat, kept \in {{}, Stamped(index)} :
              oldest \in Watermarks /\ i = PruneBefore(index, oldest, kept)
        BY <1>0, <1>1, <2>2, ReclaimedShape
      <3>2. \A k \in VersionKeys : index.stamp[k] \in Nat
        BY <1>1 DEF Indexes
      <3>3. \A k \in VersionKeys : \/ i.stamp[k] = index.stamp[k]
                                   \/ i.stamp[k] = 0 /\ index.stamp[k] < oldest
        BY <3>1 DEF PruneBefore
      <3>4. \A t \in Pinned : oldest <= base[t]
        BY SMT, <1>1, <3>1 DEF Watermarks, OldestAtLeast
      <3>5. \A k \in VersionKeys : \A n \in Nat : index.stamp[k] <= n => i.stamp[k] <= n
        BY SMT, <3>2, <3>3
      <3>6. Precise(i)
        <4>1. Precise(index)
          BY DEF ValidationInv
        <4>2. \A e \in Entities : i.stamp[e] <= lastWrite[e]
          BY <1>1, <3>5, <4>1, KeyFacts DEF Precise
        <4>3. i.stamp[Schema] <= lastBroad /\ i.stamp[Database] <= epoch
          BY <1>1, <3>5, <4>1, DependencyKeys DEF Precise
        <4>4. \A t \in Pinned : ~ late[t] =>
                i.stamp[Database] <= lastBroad \/ i.stamp[Database] <= base[t]
          BY <1>1, <3>5, <4>1, DependencyKeys DEF Precise
        <4>5. QED BY <4>2, <4>3, <4>4 DEF Precise
      <3>7. ASSUME NEW t \in Pinned, isolation[t] = "serializable",
                   NEW e \in Entities, lastChange[e] > base[t]
            PROVE  \E k \in {DomainOf(e), ReadBarrier, Database} : i.stamp[k] >= lastChange[e]
        <4>1. PICK k \in {DomainOf(e), ReadBarrier, Database} : index.stamp[k] >= lastChange[e]
          BY <3>7 DEF ValidationInv, Witnessed
        <4>2. k \in VersionKeys
          BY DependencyKeys
        <4>3. base[t] \in Nat /\ lastChange[e] \in Nat /\ oldest <= base[t]
          BY <1>1, <3>4
        <4>4. ~ (index.stamp[k] < oldest)
          BY SMT, <3>2, <3>7, <4>1, <4>2, <4>3
        <4>5. QED BY <3>3, <4>1, <4>2, <4>4
      <3>8. QED BY <3>6, <3>7 DEF Witnessed
    <2>3. QED BY <2>1, <2>2
  <1>3. CASE OldestAtLeast(epoch)
    <2>1. PICK s : s = StagingSource(i)
      OBVIOUS
    <2>2. s = ReadBaseline(epoch)
      BY <1>3, <2>1 DEF StagingSource
    <2>3. \A k \in VersionKeys : s.stamp[k] = IF k = Database THEN epoch ELSE 0
      BY <2>2 DEF ReadBaseline
    <2>4. s.stamp[Database] = epoch /\ s.stamp[Schema] = 0 /\ \A e \in Entities : s.stamp[e] = 0
      BY <2>3, KeyFacts, DependencyKeys
    <2>5. \A t \in Pinned : base[t] >= epoch
      BY <1>3 DEF OldestAtLeast
    <2>6. Precise(s)
      BY SMT, <1>1, <2>4, <2>5 DEF Precise
    <2>7. \A t \in Pinned : \A e \in Entities : ~ (lastChange[e] > base[t])
      <3>1. \A e \in Entities : lastChange[e] <= lastWrite[e] /\ lastWrite[e] <= epoch
        BY DEF ValidationInv, IndexInv
      <3>2. QED BY SMT, <1>1, <2>5, <3>1
    <2>8. Witnessed(s)
      BY <2>7 DEF Witnessed
    <2>9. QED BY <1>2, <2>1, <2>6, <2>8
  <1>4. QED BY <1>2, <1>3 DEF StagingSource

\* A publication stamps what it changes and nothing else
LEMMA PublishPrecise ==
  ASSUME ValidationInv, IndexInv', NEW changed, NEW equal \in BOOLEAN, Publish(changed, equal), PinsFrozen
  PROVE  /\ Precise(index)' /\ Witnessed(index)' /\ (lastBroad <= epoch)'
         /\ \A e \in Entities : lastChange'[e] <= lastWrite'[e]
  <1>0. IndexInv /\ TypeOK /\ Precise(index) /\ Witnessed(index)
    BY DEF ValidationInv, IndexInv
  <1>1. /\ index \in Indexes /\ epoch \in Nat /\ epoch + 1 \in Nat /\ lastBroad \in Nat
        /\ lastWrite \in [Entities -> Nat] /\ lastChange \in [Entities -> Nat]
        /\ base \in [Txns -> Nat] /\ Pinned \subseteq Txns
    BY <1>0, ValidationTypes
  <1>2. /\ epoch' = epoch + 1
        /\ \A e \in Entities : lastWrite'[e] = IF e \in changed THEN epoch + 1 ELSE lastWrite[e]
        /\ \A e \in Entities : lastChange'[e] =
             IF e \in changed /\ ~ (equal /\ e \in Rows) THEN epoch + 1 ELSE lastChange[e]
        /\ lastBroad' = IF changed \cap {Database, Schema} # {} THEN epoch + 1 ELSE lastBroad
    BY DEF Publish
  <1>3. PICK i \in Reclaimed(index) \cup {index} :
          \/ index' = Stage(StagingSource(i), VersionWrites(changed) \cup Summaries(changed, equal), epoch + 1)
          \/ index' = StageWithReadBarrier(StagingSource(i), VersionWrites(changed), epoch + 1)
    BY <1>0, StagedShape DEF Publish
  <1>4. PICK s : s = StagingSource(i)
    OBVIOUS
  <1>5. Precise(s) /\ Witnessed(s) /\ s \in Indexes
    BY <1>0, <1>3, <1>4, ValidSources, UsableSources DEF Usable
  <1>6. \A k \in VersionKeys : s.stamp[k] \in Nat
    BY <1>5 DEF Indexes
  <1>7. lastBroad <= epoch /\ \A e \in Entities : lastChange[e] <= lastWrite[e] /\ lastWrite[e] <= epoch
    BY DEF ValidationInv, IndexInv
  <1>8. \A k \in Entities \cup {Database, Schema} :
          index'.stamp[k] = IF k \in VersionWrites(changed) THEN epoch + 1 ELSE s.stamp[k]
    <2>1. ASSUME NEW k \in Entities \cup {Database, Schema}
          PROVE  /\ k \in VersionKeys /\ k \notin ReadSummaries /\ k # ReadBarrier
                 /\ k \notin Summaries(changed, equal)
      BY KeyFacts, DependencyKeys DEF Summaries, ReadSummaries
    <2>2. CASE index' = Stage(StagingSource(i), VersionWrites(changed) \cup Summaries(changed, equal), epoch + 1)
      BY <1>4, <2>1, <2>2 DEF Stage
    <2>3. CASE index' = StageWithReadBarrier(StagingSource(i), VersionWrites(changed), epoch + 1)
      BY <1>4, <2>1, <2>3 DEF StageWithReadBarrier
    <2>4. QED BY <1>3, <2>2, <2>3
  <1>9. /\ VersionWrites(changed) \subseteq changed
        /\ \A k \in {Database, Schema} : k \in changed => k \in VersionWrites(changed)
    BY KeysDistinct DEF VersionWrites, InlineBarriers, Entities
  <1>10. Precise(index)'
    <2>1. ASSUME NEW e \in Entities
          PROVE  index'.stamp[e] <= lastWrite'[e]
      <3>1. index'.stamp[e] = IF e \in VersionWrites(changed) THEN epoch + 1 ELSE s.stamp[e]
        BY <1>8
      <3>2. s.stamp[e] <= lastWrite[e] /\ s.stamp[e] \in Nat /\ lastWrite[e] \in Nat /\ lastWrite[e] <= epoch
        BY <1>1, <1>5, <1>6, <1>7, KeyFacts DEF Precise
      <3>3. lastWrite'[e] = IF e \in changed THEN epoch + 1 ELSE lastWrite[e]
        BY <1>2
      <3>4. e \in VersionWrites(changed) => e \in changed
        BY <1>9
      <3>5. QED BY SMT, <1>1, <3>1, <3>2, <3>3, <3>4
    <2>2. /\ index'.stamp[Schema] = IF Schema \in VersionWrites(changed) THEN epoch + 1 ELSE s.stamp[Schema]
          /\ index'.stamp[Database] = IF Database \in VersionWrites(changed) THEN epoch + 1 ELSE s.stamp[Database]
      BY <1>8
    <2>3. (Schema \in VersionWrites(changed) \/ Database \in VersionWrites(changed)) => lastBroad' = epoch + 1
      BY <1>2, <1>9
    <2>4. lastBroad' = epoch + 1 \/ lastBroad' = lastBroad
      BY <1>2
    <2>5. /\ s.stamp[Schema] \in Nat /\ s.stamp[Database] \in Nat
          /\ s.stamp[Schema] <= lastBroad /\ s.stamp[Database] <= epoch
      BY <1>5, <1>6, DependencyKeys DEF Precise
    <2>6. index'.stamp[Schema] <= lastBroad' /\ index'.stamp[Database] <= epoch'
      BY SMT, <1>1, <1>2, <1>7, <2>2, <2>3, <2>4, <2>5
    <2>7. ASSUME NEW t \in Pinned', ~ late'[t]
          PROVE  index'.stamp[Database] <= lastBroad' \/ index'.stamp[Database] <= base'[t]
      <3>1. t \in Pinned /\ base'[t] = base[t] /\ ~ late[t] /\ base[t] \in Nat
        BY <1>1, <2>7 DEF PinsFrozen
      <3>2. s.stamp[Database] <= lastBroad \/ s.stamp[Database] <= base[t]
        BY <1>5, <3>1 DEF Precise
      <3>3. QED BY SMT, <1>1, <1>7, <2>2, <2>3, <2>4, <2>5, <3>1, <3>2
    <2>8. QED BY <2>1, <2>6, <2>7 DEF Precise
  <1>11. ASSUME NEW t \in Pinned', isolation'[t] = "serializable", NEW e \in Entities, lastChange'[e] > base'[t]
         PROVE  \E k \in {DomainOf(e), ReadBarrier, Database} : index'.stamp[k] >= lastChange'[e]
    <2>1. t \in Pinned /\ base'[t] = base[t] /\ isolation[t] = "serializable" /\ TracksReadDependencies
      BY <1>11 DEF PinsFrozen, TracksReadDependencies
    <2>2. /\ epoch + 1 >= epoch + 1 /\ epoch + 1 >= lastChange[e] /\ lastChange[e] \in Nat
          /\ \A k \in VersionKeys : s.stamp[k] >= lastChange[e] =>
               epoch + 1 >= lastChange[e] /\ s.stamp[k] >= lastChange[e]
      BY SMT, <1>1, <1>6, <1>7
    <2>3. CASE e \in changed /\ ~ (equal /\ e \in Rows)
      <3>1. lastChange'[e] = epoch + 1
        BY <1>2, <2>3
      <3>2. CASE Database \in changed
        <4>1. index'.stamp[Database] = epoch + 1
          BY <1>8, <1>9, <3>2
        <4>2. QED BY <2>2, <3>1, <4>1
      <3>3. CASE Database \notin changed
        <4>1. DomainOf(e) \in Summaries(changed, equal)
          BY <2>1, <2>3, <3>3 DEF Summaries, DomainOf, Entities
        <4>2. CASE index' = Stage(StagingSource(i), VersionWrites(changed) \cup Summaries(changed, equal), epoch + 1)
          <5>1. index'.stamp[DomainOf(e)] = epoch + 1
            BY <4>1, <4>2, DependencyKeys DEF Stage
          <5>2. QED BY <2>2, <3>1, <5>1
        <4>3. CASE index' = StageWithReadBarrier(StagingSource(i), VersionWrites(changed), epoch + 1)
          <5>1. index'.stamp[ReadBarrier] = epoch + 1
            BY <4>3, DependencyKeys DEF StageWithReadBarrier
          <5>2. QED BY <2>2, <3>1, <5>1
        <4>4. QED BY <1>3, <4>2, <4>3
      <3>4. QED BY <3>2, <3>3
    <2>4. CASE ~ (e \in changed /\ ~ (equal /\ e \in Rows))
      <3>1. lastChange'[e] = lastChange[e]
        BY <1>2, <2>4
      <3>2. PICK k \in {DomainOf(e), ReadBarrier, Database} : s.stamp[k] >= lastChange[e]
        BY <1>5, <1>11, <2>1, <3>1 DEF Witnessed
      <3>3. k \in VersionKeys /\ ReadBarrier \in VersionKeys /\ (k \in ReadSummaries \/ k \in {ReadBarrier, Database})
        BY DependencyKeys
      <3>4. CASE index' = Stage(StagingSource(i), VersionWrites(changed) \cup Summaries(changed, equal), epoch + 1)
        <4>1. index'.stamp[k] = epoch + 1 \/ index'.stamp[k] = s.stamp[k]
          BY <1>4, <3>3, <3>4 DEF Stage
        <4>2. QED BY <2>2, <3>1, <3>2, <4>1
      <3>5. CASE index' = StageWithReadBarrier(StagingSource(i), VersionWrites(changed), epoch + 1)
        <4>1. index'.stamp[ReadBarrier] = epoch + 1
          BY <3>3, <3>5 DEF StageWithReadBarrier
        <4>2. QED BY <2>2, <3>1, <4>1
      <3>6. QED BY <1>3, <3>4, <3>5
    <2>5. QED BY <2>3, <2>4
  <1>12. lastBroad' <= epoch'
    BY SMT, <1>1, <1>2, <1>7
  <1>13. \A e \in Entities : lastChange'[e] <= lastWrite'[e]
    BY SMT, <1>1, <1>2, <1>7
  <1>14. QED BY <1>10, <1>11, <1>12, <1>13 DEF Witnessed

\* How a step of t can change what t depends on and where its snapshot is from
DependsOn(t) ==
  \/ reads' = reads
  \/ \E keys \in SUBSET Dependencies : reads' = [reads EXCEPT ![t] = keys]
StartsFrom(t) ==
  \/ UNCHANGED <<late, isolation>>
  \/ \E upgraded, i : /\ late' = [late EXCEPT ![t] = upgraded]
                      /\ isolation' = [isolation EXCEPT ![t] = i]
                      /\ upgraded => i = "snapshot"

\* A successful statement only adds dependencies
LEMMA SucceedDepends ==
  ASSUME WorkTypes, NEW t \in Txns, reads[t] \subseteq Dependencies, NEW changed,
         NEW read \in SUBSET Dependencies, NEW under, Succeed(t, changed, read, under)
  PROVE  DependsOn(t)
  <1>1. PICK keys : keys = IF isolation[t] = "serializable" THEN reads[t] \cup read ELSE reads[t]
    OBVIOUS
  <1>2. reads' = [reads EXCEPT ![t] = keys]
    BY <1>1 DEF Succeed, WorkTypes
  <1>3. keys \in SUBSET Dependencies
    BY <1>1
  <1>4. QED BY <1>2, <1>3 DEF DependsOn

\* Beginning and ending
LEMMA EdgesDepend ==
  ASSUME NEW t \in Txns
  PROVE  /\ \A m, i, e : \A upgraded \in BOOLEAN :
              Start(t, m, i, e, upgraded) /\ (upgraded => i = "snapshot") => DependsOn(t) /\ StartsFrom(t)
         /\ Ended(t) => DependsOn(t) /\ StartsFrom(t)
         /\ Taken(t) => DependsOn(t) /\ StartsFrom(t)
  <1>1. ASSUME NEW m, NEW i, NEW e, NEW upgraded \in BOOLEAN, Start(t, m, i, e, upgraded),
               upgraded => i = "snapshot"
        PROVE  DependsOn(t) /\ StartsFrom(t)
    <2>1. (IF i = "serializable" THEN {Schema} ELSE {}) \in SUBSET Dependencies
      BY DEF Dependencies
    <2>2. DependsOn(t)
      BY <1>1, <2>1 DEF Start, DependsOn
    <2>3. StartsFrom(t)
      BY <1>1 DEF Start, StartsFrom
    <2>4. QED BY <2>2, <2>3
  <1>2. Ended(t) => DependsOn(t) /\ StartsFrom(t)
    BY DEF Ended, DependsOn, StartsFrom
  <1>3. Taken(t) => DependsOn(t) /\ StartsFrom(t)
    BY DEF Taken, DependsOn, StartsFrom
  <1>4. QED BY <1>1, <1>2, <1>3

\* Every step of a transaction
LEMMA StepDepends ==
  ASSUME WorkTypes, NEW t \in Txns, reads[t] \subseteq Dependencies, Step(t)
  PROVE  DependsOn(t) /\ StartsFrom(t)
  <1>0. /\ {TableDomain} \in SUBSET Dependencies /\ {Database} \in SUBSET Dependencies
        /\ \A key \in ReadKeys : {key} \in SUBSET Dependencies
        /\ \A changed : MutationReads(changed) \in SUBSET Dependencies
    BY SMT, InputsAssumption DEF Dependencies, ReadSummaries, MutationReads
  <1>1. ASSUME NEW key \in ReadKeys, Read(t, key)
        PROVE  DependsOn(t) /\ StartsFrom(t)
    BY <1>0, <1>1, SucceedDepends DEF Read, StartsFrom
  <1>2. ASSUME NEW changed \in Changes, OptimisticWrite(t, changed)
        PROVE  DependsOn(t) /\ StartsFrom(t)
    BY <1>0, <1>2, SucceedDepends DEF OptimisticWrite, StartsFrom
  <1>3. ASSUME NEW changed \in Changes \cup {{}}, SqlExecute(t, changed)
        PROVE  DependsOn(t) /\ StartsFrom(t)
    BY <1>0, <1>3, SucceedDepends DEF SqlExecute, StartsFrom
  <1>4. ASSUME NEW changed, NEW m, GraphReuse(t, changed, m)
        PROVE  DependsOn(t) /\ StartsFrom(t)
    BY <1>0, <1>4, SucceedDepends DEF GraphReuse, StartsFrom
  <1>5. CASE GraphReplay(t)
    BY <1>0, <1>5, SucceedDepends DEF GraphReplay, StartsFrom
  <1>6. ASSUME NEW p \in Profiles, Begin(t, p[1], p[2])
        PROVE  DependsOn(t) /\ StartsFrom(t)
    BY <1>6, EdgesDepend DEF Begin
  <1>7. ASSUME NEW e \in Upgrades, BeginFromReadSnapshot(t, e)
        PROVE  DependsOn(t) /\ StartsFrom(t)
    BY <1>7, EdgesDepend DEF BeginFromReadSnapshot
  <1>8. ASSUME NEW changed, NEW m, AutoGraph(t, changed, m)
        PROVE  DependsOn(t) /\ StartsFrom(t)
    BY <1>8, EdgesDepend DEF AutoGraph
  <1>9. ASSUME NEW changed, AutoSql(t, changed)
        PROVE  DependsOn(t) /\ StartsFrom(t)
    BY <1>9, EdgesDepend DEF AutoSql
  <1>10. CASE AutoSqlUpdate(t)
    BY <1>10, EdgesDepend DEF AutoSqlUpdate
  <1>11. CASE \/ SqlSnapshotChanged(t) \/ GraphSnapshotChanged(t) \/ CommitReadOnly(t) \/ CommitConflict(t)
              \/ CommitRefused(t) \/ Release(t) \/ Abort(t) \/ \E equal \in Rewrites : Commit(t, equal)
    BY <1>11, EdgesDepend DEF SqlSnapshotChanged, GraphSnapshotChanged, CommitReadOnly, CommitConflict,
       CommitRefused, Release, Abort, Commit
  <1>12. ASSUME \/ SqlFence(t) \/ SqlRefresh(t) \/ SqlFail(t) \/ GraphFail(t) \/ AutoFootprint(t) \/ Seal(t)
                \/ (\E q \in SqlRequests : SqlLock(t, q)) \/ (\E q \in AutoScopes : AutoScope(t, q))
                \/ (\E n \in Nodes : AutoPoint(t, n))
         PROVE  DependsOn(t) /\ StartsFrom(t)
    BY <1>12 DEF SqlFence, SqlRefresh, SqlFail, GraphFail, AutoFootprint, Seal, SqlLock, AutoScope, AutoPoint,
       DependsOn, StartsFrom
  <1>13. ASSUME NEW changed, NEW m, GraphLock(t, changed, m)
         PROVE  DependsOn(t) /\ StartsFrom(t)
    BY <1>13 DEF GraphLock, DependsOn, StartsFrom
  <1>14. QED BY <1>1, <1>2, <1>3, <1>4, <1>5, <1>6, <1>7, <1>8, <1>9, <1>10, <1>11, <1>12, <1>13 DEF Step

\* Dependencies and late snapshots stay what they may be
LEMMA DependenciesStep ==
  ASSUME ValidationInv, [Next]_vars
  PROVE  /\ \A t \in Txns : late'[t] => isolation'[t] = "snapshot"
         /\ \A t \in Txns : reads'[t] \subseteq Dependencies
  <1>1. /\ \A t \in Txns : late[t] => isolation[t] = "snapshot"
        /\ \A t \in Txns : reads[t] \subseteq Dependencies
    BY DEF ValidationInv
  <1>2. /\ WorkTypes /\ DOMAIN reads = Txns /\ DOMAIN late = Txns /\ DOMAIN isolation = Txns
    BY DEF ValidationInv, IndexInv, TypeOK, WorkTypes, PinTypes
  <1>3. ASSUME NEW t \in Txns, Step(t)
        PROVE  /\ \A u \in Txns : late'[u] => isolation'[u] = "snapshot"
               /\ \A u \in Txns : reads'[u] \subseteq Dependencies
    <2>1. DependsOn(t) /\ StartsFrom(t)
      BY <1>1, <1>2, <1>3, StepDepends
    <2>2. \A u \in Txns : reads'[u] \subseteq Dependencies
      BY <1>1, <1>2, <2>1 DEF DependsOn
    <2>3. \A u \in Txns : late'[u] => isolation'[u] = "snapshot"
      BY <1>1, <1>2, <2>1 DEF StartsFrom
    <2>4. QED BY <2>2, <2>3
  <1>4. CASE UNCHANGED <<late, isolation, reads>>
    BY <1>1, <1>4
  <1>5. QED BY <1>3, <1>4 DEF Next, LegacyCommit, AppendCommit, Reclaim, txnVars, vars

\* The invariant of validation is inductive
LEMMA ValidationStep == ValidationInv /\ [Next]_vars => ValidationInv'
  <1> SUFFICES ASSUME ValidationInv, [Next]_vars PROVE ValidationInv'
    OBVIOUS
  <1>0. IndexInv /\ IndexInv' /\ TypeOK /\ TypeOK' /\ PinTypes
    BY IndexStep DEF ValidationInv, IndexInv, TypeOK
  <1>1. /\ index \in Indexes /\ epoch \in Nat /\ epoch + 1 \in Nat /\ lastBroad \in Nat
        /\ lastWrite \in [Entities -> Nat] /\ lastChange \in [Entities -> Nat]
        /\ base \in [Txns -> Nat] /\ Pinned \subseteq Txns
    BY <1>0, ValidationTypes
  <1>2. /\ Precise(index) /\ Witnessed(index) /\ lastBroad <= epoch
        /\ \A e \in Entities : lastChange[e] <= lastWrite[e] /\ lastWrite[e] <= epoch
    BY DEF ValidationInv, IndexInv
  <1> DEFINE Sound == /\ Precise(index)' /\ Witnessed(index)' /\ (lastBroad <= epoch)'
                      /\ \A e \in Entities : lastChange'[e] <= lastWrite'[e]
  <1>3. ASSUME UNCHANGED storeVars, PinsKept
        PROVE  Sound
    <2>1. index' = index /\ epoch' = epoch /\ lastBroad' = lastBroad
            /\ lastWrite' = lastWrite /\ lastChange' = lastChange
      BY <1>3 DEF storeVars
    <2>2. ASSUME NEW t \in Pinned', ~ late'[t]
          PROVE  index.stamp[Database] <= lastBroad \/ index.stamp[Database] <= base'[t]
      BY <1>2, <1>3, <2>2 DEF PinsKept, Precise
    <2>3. ASSUME NEW t \in Pinned', isolation'[t] = "serializable", NEW e \in Entities, lastChange[e] > base'[t]
          PROVE  \E k \in {DomainOf(e), ReadBarrier, Database} : index.stamp[k] >= lastChange[e]
      <3>1. base'[t] # epoch
        BY SMT, <1>1, <1>2, <2>3
      <3>2. t \in Pinned /\ base'[t] = base[t] /\ isolation[t] = "serializable"
        BY <1>3, <2>3, <3>1 DEF PinsKept
      <3>3. QED BY <1>2, <2>3, <3>2 DEF Witnessed
    <2>4. Precise(index)'
      BY <1>2, <2>1, <2>2 DEF Precise
    <2>5. Witnessed(index)'
      BY <2>1, <2>3 DEF Witnessed
    <2>6. QED BY <1>2, <2>1, <2>4, <2>5
  <1>4. ASSUME index' \in Reclaimed(index), PinsFrozen, UNCHANGED <<epoch, lastWrite, lastChange, lastBroad>>
        PROVE  Sound
    <2>1. PICK i : i = index'
      OBVIOUS
    <2>2. Precise(i) /\ Witnessed(i)
      BY <1>4, <2>1, ValidSources
    <2>3. Precise(index)'
      BY <1>4, <2>1, <2>2 DEF Precise, PinsFrozen
    <2>4. Witnessed(index)'
      BY <1>4, <2>1, <2>2 DEF Witnessed, PinsFrozen
    <2>5. QED BY <1>2, <1>4, <2>3, <2>4
  <1>5. ASSUME NEW changed \in LegacyChanges, LegacyCommit(changed)
        PROVE  Sound
    <2>1. PinsFrozen /\ epoch' = epoch + 1 /\ lastBroad' = epoch + 1
      BY <1>5, PinsUnchanged DEF LegacyCommit, txnVars, pinVars
    <2>2. \A k \in VersionKeys : index'.stamp[k] = IF k = Database THEN epoch + 1 ELSE index.stamp[k]
      BY <1>1, <1>5 DEF LegacyCommit, Indexes
    <2>3. index'.stamp[Database] = epoch + 1 /\ index'.stamp[Schema] = index.stamp[Schema]
            /\ \A e \in Entities : index'.stamp[e] = index.stamp[e]
      BY <2>2, KeyFacts, DependencyKeys
    <2>4. /\ \A k \in VersionKeys : index.stamp[k] \in Nat
          /\ index.stamp[Schema] \in Nat /\ \A e \in Entities : index.stamp[e] \in Nat
      BY <1>1, KeyFacts, DependencyKeys DEF Indexes
    <2>5. /\ \A e \in Entities : lastWrite'[e] = IF e \in changed THEN epoch + 1 ELSE lastWrite[e]
          /\ \A e \in Entities : lastChange'[e] = IF e \in changed THEN epoch + 1 ELSE lastChange[e]
      BY <1>5 DEF LegacyCommit
    <2>6. index.stamp[Schema] <= lastBroad /\ \A e \in Entities : index.stamp[e] <= lastWrite[e]
      BY <1>2 DEF Precise
    <2>7. \A e \in Entities : index'.stamp[e] <= lastWrite'[e]
      BY SMT, <1>1, <1>2, <2>3, <2>4, <2>5, <2>6
    <2>8. index'.stamp[Schema] <= lastBroad' /\ index'.stamp[Database] <= epoch' /\ index'.stamp[Database] <= lastBroad'
      BY SMT, <1>1, <1>2, <2>1, <2>3, <2>4, <2>6
    <2>9. \A e \in Entities : lastChange'[e] <= lastWrite'[e] /\ index'.stamp[Database] >= lastChange'[e]
      BY SMT, <1>1, <1>2, <2>3, <2>5
    <2>10. lastBroad' <= epoch'
      BY SMT, <1>1, <2>1
    <2>11. Precise(index)'
      BY <2>7, <2>8 DEF Precise
    <2>12. Witnessed(index)'
      BY <2>9 DEF Witnessed
    <2>13. QED BY <2>9, <2>10, <2>11, <2>12
  <1>6. ASSUME NEW t \in Txns, Step(t)
        PROVE  Sound
    <2>1. CASE CommitRefused(t)
      <3>1. PinsFrozen
        BY <1>0, <2>1, PinsEnded DEF CommitRefused
      <3>2. QED BY <1>4, <2>1, <3>1 DEF CommitRefused
    <2>2. ASSUME NEW equal \in Rewrites, Commit(t, equal)
          PROVE  Sound
      <3>1. PinsFrozen /\ Publish(writes[t], equal)
        BY <1>0, <2>2, PinsEnded DEF Commit
      <3>2. equal \in BOOLEAN
        BY SMT, InputsAssumption
      <3>3. QED BY <1>0, <3>1, <3>2, PublishPrecise
    <2>3. CASE ~ CommitRefused(t) /\ \A equal \in Rewrites : ~ Commit(t, equal)
      BY <1>0, <1>1, <1>3, <1>6, <2>3, QuietSteps
    <2>4. QED BY <2>1, <2>2, <2>3
  <1>7. ASSUME NEW key \in AppendKeys, AppendCommit(key)
        PROVE  Sound
    <2>1. PinsFrozen /\ Publish({key}, FALSE)
      BY <1>7, PinsUnchanged DEF AppendCommit, txnVars, pinVars
    <2>2. QED BY <1>0, <2>1, PublishPrecise
  <1>8. ASSUME Reclaim
        PROVE  Sound
    <2>1. PinsFrozen
      BY <1>8, PinsUnchanged DEF Reclaim, txnVars, pinVars
    <2>2. QED BY <1>4, <1>8, <2>1 DEF Reclaim
  <1>9. ASSUME UNCHANGED vars
        PROVE  Sound
    <2>1. UNCHANGED storeVars /\ UNCHANGED pinVars
      BY <1>9 DEF vars, storeVars, pinVars
    <2>2. QED BY <1>3, <2>1, PinsUnchanged
  <1>10. Sound
    BY <1>5, <1>6, <1>7, <1>8, <1>9 DEF Next
  <1>11. QED BY <1>0, <1>10, DependenciesStep DEF ValidationInv

\* The initial state satisfies it
LEMMA ValidationInit == Init => ValidationInv
  <1> SUFFICES ASSUME Init PROVE ValidationInv
    OBVIOUS
  <1>1. IndexInv
    BY IndexInit
  <1>2. Pinned = {}
    BY DEF Init, Pinned, Live
  <1>3. /\ \A k \in VersionKeys : index.stamp[k] = 0
        /\ epoch = 0 /\ lastBroad = 0
        /\ \A e \in Entities : lastWrite[e] = 0 /\ lastChange[e] = 0
        /\ \A t \in Txns : late[t] = FALSE /\ reads[t] = {}
    BY DEF Init, EmptyIndex
  <1>4. index.stamp[Database] = 0 /\ index.stamp[Schema] = 0 /\ \A e \in Entities : index.stamp[e] = 0
    BY <1>3, KeyFacts, DependencyKeys
  <1>5. 0 <= 0
    BY SMT
  <1>6. Precise(index) /\ Witnessed(index)
    BY <1>2, <1>3, <1>4, <1>5 DEF Precise, Witnessed
  <1>7. QED BY <1>1, <1>3, <1>5, <1>6 DEF ValidationInv

\* Every reachable state satisfies it
LEMMA ValidationHolds == Spec => []ValidationInv
  BY ValidationInit, ValidationStep, PTL DEF Spec

\* Precision of optimistic validation: a registered workspace is refused only for
\* a commit after its snapshot that wrote one of its keys or was of unknown extent,
\* or because it needs the whole database unchanged (stage_version_index,
\* prune_before, validate_version_writes).
THEOREM ConflictsAreReal == Spec => []NoSpuriousConflict
  <1>1. ValidationInv => NoSpuriousConflict
    <2> SUFFICES ASSUME ValidationInv, NEW t \in Txns, Live(t), ~ late[t], ~ WritesValid(t)
                 PROVE  \/ \E e \in writes[t] \cap Entities : lastWrite[e] > base[t]
                        \/ lastBroad > base[t]
                        \/ writes[t] \cap {Database, Schema} # {} /\ epoch > base[t]
      BY DEF NoSpuriousConflict
    <2>0. IndexInv /\ TypeOK /\ t \in Pinned /\ Precise(index)
      BY DEF ValidationInv, IndexInv, Pinned
    <2>1. /\ index \in Indexes /\ epoch \in Nat /\ lastBroad \in Nat /\ lastWrite \in [Entities -> Nat]
          /\ base[t] \in Nat /\ index.floor <= base[t] /\ writes[t] \subseteq Entities \cup {Database, Schema}
      BY <2>0, ValidationTypes DEF IndexInv, Usable, TypeOK, WorkTypes
    <2>2. VersionWrites(writes[t]) \subseteq writes[t]
      BY DEF VersionWrites
    <2>3. \A k \in VersionKeys : index.stamp[k] \in Nat
      BY <2>1 DEF Indexes
    <2>4. ~ HistoryReclaimedAfter(index, base[t])
      <3>1. index.floor \in Nat
        BY <2>1 DEF Indexes
      <3>2. QED BY SMT, <2>1, <3>1 DEF HistoryReclaimedAfter
    <2>5. \/ \E k \in writes[t] \cup {Database, Schema} : index.stamp[k] > base[t]
          \/ \E k \in {Database, Schema} : k \in writes[t] /\ ~ (epoch <= base[t])
      <3>1. \A k \in {Database, Schema} : ~ (index.stamp[k] <= base[t]) => index.stamp[k] > base[t]
        BY SMT, <2>1, <2>3, DependencyKeys
      <3>2. QED BY <2>2, <2>4, <3>1 DEF WritesValid, FirstConflict
    <2>6. ASSUME NEW k \in Entities, k \in writes[t], index.stamp[k] > base[t]
          PROVE  lastWrite[k] > base[t]
      <3>1. index.stamp[k] <= lastWrite[k] /\ index.stamp[k] \in Nat /\ lastWrite[k] \in Nat
        BY <2>0, <2>1, <2>3, KeyFacts DEF Precise
      <3>2. QED BY SMT, <2>1, <2>6, <3>1
    <2>7. ASSUME NEW k \in {Database, Schema}, index.stamp[k] > base[t]
          PROVE  lastBroad > base[t]
      <3>1. index.stamp[k] <= lastBroad \/ index.stamp[k] <= base[t]
        BY <2>0 DEF Precise
      <3>2. index.stamp[k] \in Nat
        BY <2>3, DependencyKeys
      <3>3. QED BY SMT, <2>1, <2>7, <3>1, <3>2
    <2>8. ~ (epoch <= base[t]) => epoch > base[t]
      BY SMT, <2>1
    <2>9. QED BY <2>1, <2>5, <2>6, <2>7, <2>8
  <1>2. QED BY <1>1, ValidationHolds, PTL

\* Collapsing read summaries into one barrier never costs a transaction that
\* depends on single rows and nodes (stage_with_read_barrier,
\* validate_read_dependencies_inner).
THEOREM ExactReadersAreSpared == Spec => []ExactReadersPrecise
  <1>1. ValidationInv => ExactReadersPrecise
    <2> SUFFICES ASSUME ValidationInv, NEW t \in Txns, Live(t), reads[t] \subseteq Entities \cup {Schema},
                        ~ ReadsValid(t)
                 PROVE  lastBroad > base[t] \/ \E e \in reads[t] \cap Entities : lastWrite[e] > base[t]
      BY DEF ExactReadersPrecise
    <2>0. IndexInv /\ TypeOK /\ t \in Pinned /\ Precise(index)
      BY DEF ValidationInv, IndexInv, Pinned
    <2>1. /\ index \in Indexes /\ epoch \in Nat /\ lastBroad \in Nat /\ lastWrite \in [Entities -> Nat]
          /\ base[t] \in Nat
      BY <2>0, ValidationTypes
    <2>2. \A k \in VersionKeys : index.stamp[k] \in Nat
      BY <2>1 DEF Indexes
    <2>3. isolation[t] = "serializable"
      BY DEF ReadsValid
    <2>4. ~ late[t]
      BY <2>3 DEF ValidationInv
    <2>5. Database \notin reads[t] /\ reads[t] \cap ReadSummaries = {}
      BY KeyFacts, DependencyKeys
    <2>6. PICK k \in reads[t] \cup {Database, Schema} : ~ (index.stamp[k] <= base[t])
      BY <2>5 DEF ReadsValid
    <2>7. k \in VersionKeys
      BY KeyFacts, DependencyKeys
    <2>8. index.stamp[k] > base[t]
      BY SMT, <2>1, <2>2, <2>6, <2>7
    <2>9. CASE k \in Entities
      <3>1. index.stamp[k] <= lastWrite[k] /\ lastWrite[k] \in Nat /\ index.stamp[k] \in Nat
        BY <2>0, <2>1, <2>2, <2>7, <2>9 DEF Precise
      <3>2. lastWrite[k] > base[t]
        BY SMT, <2>1, <2>8, <3>1
      <3>3. k \in reads[t]
        BY <2>6, <2>9, KeyFacts, DependencyKeys
      <3>4. QED BY <2>9, <3>2, <3>3
    <2>10. CASE k \in {Database, Schema}
      <3>1. index.stamp[k] <= lastBroad \/ index.stamp[k] <= base[t]
        BY <2>0, <2>4, <2>10 DEF Precise
      <3>2. lastBroad > base[t]
        BY SMT, <2>1, <2>2, <2>7, <2>8, <3>1
      <3>3. QED BY <3>2
    <2>11. QED BY <2>9, <2>10
  <1>2. QED BY <1>1, ValidationHolds, PTL
=============================================================================
