----------------------- MODULE CheckpointCallerProofs ------------------------
(***************************************************************************)
(* Why the steps of the callers of get_mut, of the readers and of an       *)
(* explicit checkpoint up to its publication keep the invariant.           *)
(***************************************************************************)
EXTENDS CheckpointOwnerProofs

USE ZenonT(40)

-----------------------------------------------------------------------------
(* Callers and readers *)

\* A caller arrives, or a reader takes or returns a guard or a pin
LEMMA QuietStep ==
  ASSUME CheckpointInv, UNCHANGED <<disk, store, promised, control, budget>>,
         owner' \in Owners, owner'.at = owner.at, owner'.src = owner.src,
         owner'.work = owner.work, owner'.pins = owner.pins,
         manual' \in Manuals, manual'.at = manual.at, manual'.src = manual.src,
         manual'.work = manual.work,
         front' \in Fronts, reader' \in Pinnings, Caller',
         PinnedGenerations' \subseteq PinnedGenerations \cup {store.gen},
         front'.op = "publish" => PinnedGenerations' \subseteq manual'.pins \cup {store.gen}
  PROVE  CheckpointInv'
<1>1. Types'
  BY DEF CheckpointInv, OwnerInv, Types
<1>2. Ownership' /\ Shape'
  BY DEF CheckpointInv, OwnerInv, Ownership, Shape
<1>3. Capture' /\ Attempt' /\ Offered' /\ Numbers'
  BY SMT DEF CheckpointInv, OwnerInv, Capture, Attempt, Offered, Numbers, Unchanged, Fresh
<1>4. Images'
  BY DEF CheckpointInv, DiskInv, Images, Holds, Complete
<1>5. Selector' /\ Recoverable' /\ Lasting'
  BY DEF CheckpointInv, DiskInv, Selector, Recoverable, Lasting, Uncertain
<1>6. Pinned'
  <2>1. store.gen <= store.gen
    BY SMT DEF CheckpointInv, OwnerInv, Types, Stores
  <2>2. store.gen \in Generations /\ disk.files[store.gen] # None
    BY DEF CheckpointInv, DiskInv, Images, Holds
  <2>3. \A g \in PinnedGenerations' : g \in Generations /\ g <= store.gen /\ disk.files[g] # None
    BY <2>1, <2>2 DEF CheckpointInv, DiskInv, Pinned
  <2>4. owner.at = "reclaim" => PinnedGenerations' \subseteq owner.pins \cup {store.gen}
    BY DEF CheckpointInv, DiskInv, Pinned
  <2> QED BY <2>3, <2>4 DEF Pinned
<1> QED BY <1>1, <1>2, <1>3, <1>4, <1>5, <1>6 DEF CheckpointInv, OwnerInv, DiskInv

\* A caller enters wait_frontend
LEMMA CallInv ==
  ASSUME ~EmptyGroups, CheckpointInv,
         CallCommit \/ CallBegin \/ CallAppend \/ CallFinish \/ CallAdopt \/ CallPublish
  PROVE  CheckpointInv'
<1>1. /\ owner \in Owners /\ manual \in Manuals /\ reader \in Pinnings
  BY DEF CheckpointInv, OwnerInv, Types
<1>2. PICK op \in Operations :
        /\ front' = [NoFront EXCEPT !.op = op]
        /\ op \in {"append", "finish"} => store.group
        /\ op = "finish" => store.mark < store.epoch
        /\ op = "publish" => manual.at = "prepared" /\ manual' = [manual EXCEPT !.pins = PinnedGenerations]
        /\ op = "adopt" => manual.at = "suspended"
        /\ op # "publish" => manual' = manual
        /\ UNCHANGED <<disk, store, promised, control, owner, reader, budget>>
  BY DEF CallCommit, CallBegin, CallAppend, CallFinish, CallAdopt, CallPublish, Call,
         GroupWritten, Operations
<1>3. front' \in Fronts /\ front'.op = op
  BY <1>2 DEF Fronts, NoFront
<1>4. PinnedGenerations \subseteq Nat /\ PinnedGenerations' = PinnedGenerations
  BY SMT, <1>1, <1>2 DEF PinnedGenerations, Pinnings
<1>5. /\ manual' \in Manuals /\ manual'.at = manual.at /\ manual'.src = manual.src
      /\ manual'.work = manual.work
      /\ op = "publish" => manual'.pins = PinnedGenerations
  BY SMT, <1>1, <1>2, <1>4 DEF Manuals
<1>6. Caller'
  BY <1>2, <1>3, <1>5 DEF Caller
<1> QED BY <1>1, <1>2, <1>3, <1>4, <1>5, <1>6, QuietStep

\* A reader takes a guard and a pin, returns them, or wakes the owner
LEMMA ReaderInv ==
  ASSUME CheckpointInv, NEW r \in Readers, Reader(r)
  PROVE  CheckpointInv'
<1>1. /\ owner \in Owners /\ manual \in Manuals /\ reader \in Pinnings /\ front \in Fronts
      /\ store.gen \in Nat /\ owner.woken \in BOOLEAN
  <2>1. owner \in Owners /\ manual \in Manuals /\ reader \in Pinnings /\ front \in Fronts
    BY DEF CheckpointInv, OwnerInv, Types
  <2> QED BY SMT, <2>1 DEF CheckpointInv, OwnerInv, Types, Stores, Owners
<1>2. /\ UNCHANGED <<disk, store, promised, control, manual, front, budget>>
      /\ \/ owner' = owner
         \/ owner' = [owner EXCEPT !.woken = @ \/ Wakes]
  BY DEF Reader, ReadGuard, ReadUnguard, WakeHandoff, Unpin
<1>3. /\ owner' \in Owners /\ owner'.at = owner.at /\ owner'.src = owner.src
      /\ owner'.work = owner.work /\ owner'.pins = owner.pins
  <2>1. (owner.woken \/ Wakes) \in BOOLEAN
    OBVIOUS
  <2> QED BY <1>1, <1>2, <2>1 DEF Owners
<1>4. /\ reader' \in Pinnings
      /\ PinnedGenerations' \subseteq PinnedGenerations \cup {store.gen}
  <2>1. CASE ReadGuard(r)
    BY SMT, <1>1, <2>1 DEF ReadGuard, PinnedGenerations, Pinnings
  <2>2. CASE ReadUnguard(r)
    BY SMT, <1>1, <2>2 DEF ReadUnguard, PinnedGenerations, Pinnings
  <2>3. CASE WakeHandoff(r)
    BY SMT, <1>1, <2>3 DEF WakeHandoff, PinnedGenerations, Pinnings
  <2>4. CASE Unpin(r)
    BY SMT, <1>1, <2>4 DEF Unpin, PinnedGenerations, Pinnings
  <2> QED BY <2>1, <2>2, <2>3, <2>4 DEF Reader
<1>5. Caller'
  BY <1>2 DEF CheckpointInv, OwnerInv, Caller
<1>6. front'.op = "publish" => PinnedGenerations' \subseteq manual'.pins \cup {store.gen}
  BY <1>2, <1>4 DEF CheckpointInv, DiskInv, Pinned
<1> QED BY <1>1, <1>2, <1>3, <1>4, <1>5, <1>6, QuietStep

-----------------------------------------------------------------------------
(* Explicit checkpoints *)

\* A step of an explicit checkpoint before its publication
LEMMA ExplicitStep ==
  ASSUME CheckpointInv, ~Uncertain, promised' = promised, reader' = reader,
         store' \in {store, [store EXCEPT !.poisoned = TRUE]},
         store' = store \/ (owner.at \notin Attempting /\ control.selected = None),
         front' \in Fronts, front'.op # "publish", budget' \in Budgets,
         owner' \in Owners, owner'.at = owner.at, owner'.src = owner.src,
         owner'.work = owner.work, owner'.pins = owner.pins,
         control' \in Controls, SameKnowledge(control', control),
         control'.group = control.group, control'.selected = control.selected,
         control'.pending = None,
         control'.phase \in {"Handoff", "Retiring"} => control'.phase = control.phase,
         manual' \in Manuals, NEW w, w = manual'.work,
         Ownership', Shape', Caller', Numbers',
         disk' \in Disks, disk'.selected = disk.selected, disk'.lasting = disk.lasting,
         disk' = disk \/ (owner.at \notin Attempting /\ control.selected = None),
         \A h \in Generations : h <= store.gen => disk'.files[h] = disk.files[h],
         Complete(w)', manual'.at = "prepared" => disk'.files[w.gen].synced = w.epoch
  PROVE  CheckpointInv'
<1>s. /\ store' \in Stores /\ (store.poisoned => store'.poisoned)
      /\ store'.gen = store.gen /\ store'.base = store.base /\ store'.epoch = store.epoch
      /\ store'.group = store.group /\ store'.mark = store.mark
      /\ store'.named = store.named /\ Captured(store') = Captured(store)
  BY StoreKept DEF CheckpointInv, OwnerInv, Types
<1>1. Types'
  BY <1>s DEF CheckpointInv, OwnerInv, Types
<1>2. Capture' /\ Attempt'
  BY <1>s DEF CheckpointInv, OwnerInv, Capture, Attempt, Fresh, SameKnowledge
<1>3. Offered'
  <2>1. CASE store' = store
    BY <2>1 DEF CheckpointInv, OwnerInv, Offered, Unchanged, Fresh, SameKnowledge
  <2>2. CASE owner.at \notin Attempting /\ control.selected = None
    BY <2>2 DEF Offered, Attempting
  <2> QED BY <2>1, <2>2
<1>4. store.gen \in Nat /\ store.gen <= store.gen
  BY SMT DEF CheckpointInv, OwnerInv, Types, Stores
<1>5. Images'
  <2>1. Holds(store.gen, store.base, store.epoch)'
    <3>1. Holds(store.gen, store.base, store.epoch)
      BY DEF CheckpointInv, DiskInv, Images
    <3>2. disk'.files[store.gen] = disk.files[store.gen]
      BY <1>4, <3>1 DEF Holds
    <3>3. /\ store'.gen \in Generations /\ disk'.files[store'.gen] # None
          /\ disk'.files[store'.gen].base = store'.base
          /\ disk'.files[store'.gen].tail = store'.epoch
      BY SMT, <1>s, <3>1, <3>2 DEF Holds
    <3> QED BY <3>3 DEF Holds
  <2>2. Complete(control.pending)' /\ Complete(manual.work)'
    BY DEF Complete
  <2>3. CASE disk' = disk
    <3>1. owner.at \in Attempting => Complete(owner.work)'
      BY <2>3 DEF CheckpointInv, DiskInv, Images, Complete, Holds
    <3>2. control.selected # None =>
            /\ Holds(control.selected.gen, control.selected.base, control.selected.epoch)'
            /\ disk'.files[control.selected.gen].synced = control.selected.epoch
      BY <2>3 DEF CheckpointInv, DiskInv, Images, Holds
    <3>3. owner.at \in {"gate", "settle"} =>
            disk'.files[owner.work.gen].synced = owner.work.epoch
      BY <2>3 DEF CheckpointInv, DiskInv, Images
    <3> QED BY <2>1, <2>2, <3>1, <3>2, <3>3 DEF Images
  <2>4. CASE owner.at \notin Attempting /\ control.selected = None
    <3>1. owner'.at \notin {"gate", "settle"} /\ owner'.at \notin Attempting
      BY <2>4 DEF Attempting
    <3> QED BY <2>1, <2>2, <2>4, <3>1 DEF Images
  <2> QED BY <2>3, <2>4
<1>6. disk.selected \in Generations /\ disk.lasting \in Generations
  BY SMT DEF CheckpointInv, DiskInv, Disks
<1>7. \A h \in {disk.selected, disk.lasting} : disk'.files[h] = disk.files[h]
  <2>1. CASE disk' = disk
    BY <2>1
  <2>2. CASE owner.at \notin Attempting /\ control.selected = None
    <3>1. disk.selected = store.gen
      BY <2>2, ServedIsSelected DEF Attempting
    <3>2. disk.selected <= store.gen /\ disk.lasting <= store.gen
      BY <1>4, <3>1 DEF CheckpointInv, DiskInv, Lasting
    <3> QED BY <1>6, <3>2
  <2> QED BY <2>1, <2>2
<1>8. Selector'
  BY <1>s DEF CheckpointInv, DiskInv, Selector
<1>9. Recoverable' /\ Lasting'
  BY SMT, <1>s, <1>7 DEF CheckpointInv, DiskInv, Recoverable, Lasting
<1>10. Pinned'
  BY SMT, <1>s DEF CheckpointInv, DiskInv, Pinned, PinnedGenerations
<1> QED BY <1>1, <1>2, <1>3, <1>5, <1>8, <1>9, <1>10 DEF CheckpointInv, OwnerInv, DiskInv

\* Control::suspend
LEMMA SuspendInv ==
  ASSUME CheckpointInv, Suspend
  PROVE  CheckpointInv'
<1>1. /\ control \in Controls /\ owner \in Owners /\ manual \in Manuals /\ budget \in Budgets
      /\ front \in Fronts
      /\ disk \in Disks /\ manual.at = "idle" /\ ~store.poisoned /\ front.op = None
  BY DEF CheckpointInv, OwnerInv, DiskInv, Types, Suspend, CoordinatorFree, Usable
<1>2. PICK w : w = control.pending
  OBVIOUS
<1>3. /\ control' = [control EXCEPT !.suspended = TRUE, !.pending = None,
                                    !.phase = IF w # None THEN "Discarding" ELSE @]
      /\ manual' = [NoManual EXCEPT !.at = IF w # None THEN "discard" ELSE "suspended",
                                    !.work = w]
      /\ owner' = [owner EXCEPT !.woken = TRUE]
      /\ UNCHANGED <<disk, store, promised, front, reader, budget>>
  BY <1>2 DEF Suspend
<1>4. w \in Works \cup {None}
  BY SMT, <1>1, <1>2 DEF Controls
<1>5. /\ owner' \in Owners /\ owner'.at = owner.at /\ owner'.src = owner.src
      /\ owner'.work = owner.work /\ owner'.pins = owner.pins
  BY <1>1, <1>3 DEF Owners
<1>6. /\ manual' \in Manuals /\ manual'.work = w /\ manual'.src = None
      /\ manual'.at = IF w # None THEN "discard" ELSE "suspended"
  BY <1>3, <1>4 DEF Manuals, NoManual
<1>7. /\ control' \in Controls /\ SameKnowledge(control', control)
      /\ control'.group = control.group /\ control'.selected = control.selected
      /\ control'.pending = None /\ control'.suspended = TRUE /\ control'.failed = control.failed
      /\ control'.retired = control.retired
      /\ control'.phase = IF w # None THEN "Discarding" ELSE control.phase
  <2>1. PICK phase \in Phases : phase = IF w # None THEN "Discarding" ELSE control.phase
    BY <1>1 DEF Controls, Phases
  <2>2. control' = [control EXCEPT !.suspended = TRUE, !.pending = None, !.phase = phase]
    BY <1>3, <2>1
  <2>3. /\ control' \in Controls /\ SameKnowledge(control', control)
        /\ control'.group = control.group /\ control'.selected = control.selected
        /\ control'.pending = None /\ control'.suspended = TRUE /\ control'.failed = control.failed
        /\ control'.retired = control.retired /\ control'.phase = phase
    BY <1>1, <2>2 DEF Controls, SameKnowledge
  <2> QED BY <2>1, <2>3
<1>8. w # None => control.phase = "Idle" /\ owner.at = "loop"
  BY <1>2 DEF CheckpointInv, OwnerInv, Ownership
<1>9. control'.phase \in PhasesAt[owner'.at]
  <2>1. control.phase \in PhasesAt[owner.at]
    BY DEF CheckpointInv, OwnerInv, Ownership
  <2> QED BY SMT, <1>5, <1>7, <1>8, <2>1 DEF PhasesAt
<1>10. Ownership'
  BY SMTT(20), <1>1, <1>5, <1>6, <1>7, <1>8, <1>9 DEF CheckpointInv, OwnerInv, Ownership
<1>11. w # None => w.gen > store.gen
  BY <1>2 DEF CheckpointInv, OwnerInv, Numbers
<1>12. Shape'
  BY SMTT(20), <1>3, <1>5, <1>6, <1>7, <1>8 DEF CheckpointInv, OwnerInv, Shape
<1>13. Numbers'
  BY SMT, <1>3, <1>5, <1>6, <1>7, <1>11 DEF CheckpointInv, OwnerInv, Numbers
<1>14. Caller' /\ front' \in Fronts /\ front'.op # "publish"
  BY <1>1, <1>3, NoneFacts DEF Caller, Operations
<1>15. ~Uncertain
  BY <1>1 DEF Uncertain
<1>16. Complete(w)' /\ manual'.at # "prepared"
  BY SMTT(20), <1>2, <1>3, <1>6 DEF CheckpointInv, DiskInv, Images, Complete, Holds
<1> QED BY SMTT(20), <1>1, <1>3, <1>5, <1>6, <1>7, <1>10, <1>12, <1>13, <1>14, <1>15, <1>16, ExplicitStep

\* The parked work that a suspension took away is destroyed
LEMMA SuspendDiscardsInv ==
  ASSUME CheckpointInv, SuspendDiscards
  PROVE  CheckpointInv'
<1>1. /\ control \in Controls /\ owner \in Owners /\ manual \in Manuals /\ budget \in Budgets
      /\ front \in Fronts
      /\ disk \in Disks /\ manual.at = "discard"
  BY DEF CheckpointInv, OwnerInv, DiskInv, Types, SuspendDiscards
<1>2. /\ control.phase = "Discarding" /\ owner.at = "loop" /\ control.suspended
      /\ control.selected = None /\ control.pending = None
  BY <1>1 DEF CheckpointInv, OwnerInv, Ownership
<1>3. /\ manual.work # None /\ manual.work.gen > store.gen /\ Complete(manual.work)
      /\ manual.work \in Works /\ control.retired = None
  <2>1. manual.work # None /\ manual.work.gen > store.gen /\ Complete(manual.work) /\ control.retired = None
    BY <1>1, <1>2 DEF CheckpointInv, OwnerInv, Shape, Numbers, DiskInv, Images
  <2> QED BY SMT, <1>1, <2>1 DEF Manuals
<1>4. /\ disk' = Drop(disk, manual.work)
      /\ control' = [control EXCEPT !.phase = "Idle"]
      /\ manual' = [manual EXCEPT !.at = "suspended", !.work = None]
      /\ owner' = [owner EXCEPT !.woken = TRUE]
      /\ UNCHANGED <<store, promised, front, reader, budget>>
  BY DEF SuspendDiscards
<1>5. /\ owner' \in Owners /\ owner'.at = owner.at /\ owner'.src = owner.src
      /\ owner'.work = owner.work /\ owner'.pins = owner.pins
  BY <1>1, <1>4 DEF Owners
<1>6. manual' \in Manuals /\ manual'.work = None /\ manual'.at = "suspended"
  BY <1>1, <1>4 DEF Manuals
<1>7. /\ control' \in Controls /\ SameKnowledge(control', control)
      /\ control'.group = control.group /\ control'.selected = control.selected
      /\ control'.pending = None /\ control'.suspended = control.suspended
      /\ control'.failed = control.failed /\ control'.retired = control.retired
      /\ control'.phase = "Idle"
  BY <1>1, <1>2, <1>4 DEF Controls, SameKnowledge, Phases
<1>8. control'.phase \in PhasesAt[owner'.at]
  BY SMT, <1>2, <1>5, <1>7 DEF PhasesAt
<1>9. Ownership'
  BY <1>2, <1>5, <1>6, <1>7, <1>8 DEF CheckpointInv, OwnerInv, Ownership
<1>10. Shape' /\ Numbers'
  BY <1>2, <1>3, <1>4, <1>5, <1>6, <1>7 DEF CheckpointInv, OwnerInv, Shape, Numbers
<1>11. Caller' /\ front' \in Fronts /\ front'.op # "publish"
  BY <1>1, <1>4, <1>6 DEF CheckpointInv, OwnerInv, Caller
<1>12. ~Uncertain /\ owner.at \notin Attempting
  BY <1>1, <1>2 DEF Uncertain, Attempting
<1>13. /\ manual.work.gen \in Generations
       /\ \A h \in Generations : h <= store.gen => h # manual.work.gen
  <2>1. manual.work.gen \in Generations /\ store.gen \in Nat /\ manual.work.gen \in Nat
    BY SMT, <1>3 DEF Complete, CheckpointInv, OwnerInv, Types, Stores, Works
  <2> QED BY SMT, <1>3, <2>1, CheckpointAssumption DEF Generations
<1>14. /\ disk' \in Disks /\ disk'.selected = disk.selected /\ disk'.lasting = disk.lasting
       /\ \A h \in Generations : h <= store.gen => disk'.files[h] = disk.files[h]
  BY <1>1, <1>3, <1>4, <1>13, DropUpdate
<1>15. PICK w : w = None
  OBVIOUS
<1>16. Complete(w)'
  BY <1>15 DEF Complete
<1> QED BY <1>1, <1>2, <1>4, <1>5, <1>6, <1>7, <1>9, <1>10, <1>11, <1>12, <1>14, <1>15, <1>16, ExplicitStep

\* An explicit checkpoint past wait_idle is alone with the store
LEMMA ExplicitAlone ==
  ASSUME CheckpointInv, manual.at # "idle", control.phase = "Idle"
  PROVE  /\ owner.at = "loop" /\ owner.at \notin Attempting /\ control.selected = None
         /\ control.pending = None /\ control.retired = None /\ ~Uncertain
         /\ disk.selected = store.gen /\ store.gen \in Nat
<1>1. owner.at = "loop"
  BY PhaseFacts DEF CheckpointInv, OwnerInv
<1>2. control.selected = None /\ control.pending = None /\ control.retired = None
  BY DEF CheckpointInv, OwnerInv, Ownership, Shape
<1>3. ~Uncertain
  BY DEF Uncertain
<1>4. disk.selected = store.gen
  BY <1>1, <1>2, <1>3, ServedIsSelected
<1>5. store.gen \in Nat
  BY SMT DEF CheckpointInv, OwnerInv, Types, Stores
<1> QED BY <1>1, <1>2, <1>3, <1>4, <1>5 DEF Attempting

\* checkpoint_source captures the foreground
LEMMA CaptureSourceInv ==
  ASSUME CheckpointInv, CaptureSource
  PROVE  CheckpointInv'
<1>1. /\ control \in Controls /\ owner \in Owners /\ manual \in Manuals /\ budget \in Budgets
      /\ front \in Fronts
      /\ disk \in Disks /\ store \in Stores /\ manual.at = "waiting" /\ control.phase = "Idle"
  BY DEF CheckpointInv, OwnerInv, DiskInv, Types, CaptureSource, WaitIdle
<1>2. /\ owner.at = "loop" /\ owner.at \notin Attempting /\ control.selected = None
      /\ control.pending = None /\ control.retired = None /\ ~Uncertain
  BY <1>1, ExplicitAlone
<1>3. /\ manual' = [manual EXCEPT !.at = "captured", !.src = Captured(store)]
      /\ UNCHANGED <<disk, store, promised, control, owner, front, reader, budget>>
  BY DEF CaptureSource
<1>4. Captured(store) \in Sources /\ Captured(store).gen = store.gen
  BY <1>1, CapturedType
<1>5. /\ manual' \in Manuals /\ manual'.at = "captured" /\ manual'.src = Captured(store)
      /\ manual'.work = manual.work
  BY <1>1, <1>3, <1>4 DEF Manuals
<1>6. SameKnowledge(control', control)
  BY <1>3 DEF SameKnowledge
<1>7. manual.work = None
  BY <1>1 DEF CheckpointInv, OwnerInv, Shape
<1>8. Ownership'
  BY <1>1, <1>3, <1>5 DEF CheckpointInv, OwnerInv, Ownership
<1>9. Shape' /\ Numbers'
  BY <1>3, <1>4, <1>5, <1>7 DEF CheckpointInv, OwnerInv, Shape, Numbers
<1>10. Caller' /\ front' \in Fronts /\ front'.op # "publish"
  BY <1>1, <1>3, <1>5 DEF CheckpointInv, OwnerInv, Caller
<1>11. PICK w : w = None
  OBVIOUS
<1>12. Complete(w)'
  BY <1>11 DEF Complete
<1> QED BY <1>1, <1>2, <1>3, <1>5, <1>6, <1>7, <1>8, <1>9, <1>10, <1>11, <1>12, ExplicitStep

\* An explicit checkpoint prepares a whole generation
LEMMA PrepareSourceInv ==
  ASSUME CheckpointInv, PrepareSource
  PROVE  CheckpointInv'
<1>1. /\ control \in Controls /\ owner \in Owners /\ manual \in Manuals /\ budget \in Budgets
      /\ front \in Fronts
      /\ disk \in Disks /\ manual.at = "captured" /\ control.phase = "Idle"
      /\ manual.src \in Sources /\ manual.src.gen = store.gen
  BY DEF CheckpointInv, OwnerInv, DiskInv, Types, Ownership, Shape, Numbers, PrepareSource
<1>2. /\ owner.at = "loop" /\ owner.at \notin Attempting /\ control.selected = None
      /\ control.pending = None /\ control.retired = None /\ ~Uncertain /\ store.gen \in Nat
  BY <1>1, ExplicitAlone
<1>3. PICK g \in NextGenerations(manual.src) :
        /\ disk' = [disk EXCEPT !.staging = @ \cup {g},
                                !.files[g] = Files(manual.src.epoch, manual.src.epoch,
                                                   manual.src.epoch)]
        /\ manual' = [manual EXCEPT !.at = "prepared", !.work = Work("prepared", manual.src, g)]
  BY DEF PrepareSource
<1>4. UNCHANGED <<store, promised, control, owner, front, reader, budget>>
  BY DEF PrepareSource
<1>5. g \in Generations /\ g > store.gen /\ g \in Nat
  <2>1. g \in Generations /\ g > store.gen
    BY <1>1, <1>3, NextGenerationAbove
  <2> QED BY SMT, <2>1, CheckpointAssumption DEF Generations
<1>6. PICK w : w = Work("prepared", manual.src, g)
  OBVIOUS
<1>7. /\ w \in Works /\ w.gen = g /\ w.kind = "prepared" /\ w # None
      /\ w.base = manual.src.epoch /\ w.epoch = manual.src.epoch
  BY SMT, <1>1, <1>5, <1>6, WorkType, NoneFacts
<1>8. /\ manual' \in Manuals /\ manual'.at = "prepared" /\ manual'.work = w
      /\ manual'.src = manual.src
  BY <1>1, <1>3, <1>6, <1>7 DEF Manuals
<1>9. PICK v : v = Files(manual.src.epoch, manual.src.epoch, manual.src.epoch)
  OBVIOUS
<1>10. /\ v \in Logs /\ v.base = manual.src.epoch /\ v.tail = manual.src.epoch
       /\ v.synced = manual.src.epoch
  BY SMT, <1>1, <1>9 DEF Sources, Logs, Contents, Files
<1>11. /\ disk' \in Disks /\ disk'.selected = disk.selected /\ disk'.lasting = disk.lasting
       /\ disk'.files[g] = v
       /\ \A h \in Generations : h # g => disk'.files[h] = disk.files[h]
  <2>1. disk' = [disk EXCEPT !.staging = @ \cup {g}, !.files[g] = v]
    BY <1>3, <1>9
  <2> QED BY <1>1, <1>5, <1>10, <2>1 DEF Disks
<1>12. \A h \in Generations : h <= store.gen => h # g
  BY SMT, <1>2, <1>5, CheckpointAssumption DEF Generations
<1>13. Complete(w)' /\ disk'.files[w.gen].synced = w.epoch
  BY <1>5, <1>7, <1>10, <1>11, NoneFacts DEF Complete, Holds
<1>14. SameKnowledge(control', control)
  BY <1>4 DEF SameKnowledge
<1>15. Ownership'
  BY <1>1, <1>4, <1>8 DEF CheckpointInv, OwnerInv, Ownership
<1>16. Shape' /\ Numbers'
  BY <1>1, <1>4, <1>5, <1>7, <1>8 DEF CheckpointInv, OwnerInv, Shape, Numbers
<1>17. Caller' /\ front' \in Fronts /\ front'.op # "publish"
  BY <1>1, <1>4, <1>8 DEF CheckpointInv, OwnerInv, Caller
<1> QED BY <1>1, <1>2, <1>4, <1>8, <1>11, <1>12, <1>13, <1>14, <1>15, <1>16, <1>17, ExplicitStep

\* What is left when an explicit checkpoint gives up
LEMMA UnsuspendedFacts ==
  ASSUME NEW c \in Controls
  PROVE  LET d == Unsuspended(c)
         IN /\ d \in Controls /\ SameKnowledge(d, c) /\ d.suspended = FALSE
            /\ d.group = c.group /\ d.selected = c.selected /\ d.pending = c.pending
            /\ d.retired = c.retired /\ d.failed = c.failed /\ d.phase = c.phase
            /\ d.publication = c.publication
BY DEF Unsuspended, Controls, SameKnowledge

\* No explicit checkpoint
LEMMA NoManualFacts ==
  NoManual \in Manuals /\ NoManual.at = "idle" /\ NoManual.src = None /\ NoManual.work = None
BY SMT DEF NoManual, Manuals

\* The preparation of an explicit checkpoint fails
LEMMA PrepareSourceFailsInv ==
  ASSUME CheckpointInv, PrepareSourceFails
  PROVE  CheckpointInv'
<1>1. /\ control \in Controls /\ owner \in Owners /\ manual \in Manuals /\ budget \in Budgets
      /\ front \in Fronts
      /\ disk \in Disks /\ manual.at = "captured" /\ control.phase = "Idle"
      /\ manual.src.gen = store.gen
  BY DEF CheckpointInv, OwnerInv, DiskInv, Types, Ownership, Numbers, PrepareSourceFails
<1>2. /\ owner.at = "loop" /\ owner.at \notin Attempting /\ control.selected = None
      /\ control.pending = None /\ control.retired = None /\ ~Uncertain /\ store.gen \in Nat
  BY <1>1, ExplicitAlone
<1>3. /\ manual' = NoManual /\ control' = Unsuspended(control)
      /\ UNCHANGED <<promised, owner, front, reader>>
      /\ store' \in {store, [store EXCEPT !.poisoned = TRUE]}
  BY DEF PrepareSourceFails, FaultMayPoison
<1>s. /\ store'.gen = store.gen /\ store'.epoch = store.epoch
      /\ store'.group = store.group /\ store'.mark = store.mark
  BY <1>3, StoreKept DEF CheckpointInv, OwnerInv, Types
<1>4. budget' \in Budgets
  BY <1>1, DisturbType DEF PrepareSourceFails, FaultMayPoison
<1>5. /\ control' \in Controls /\ SameKnowledge(control', control) /\ control'.suspended = FALSE
      /\ control'.group = control.group /\ control'.selected = control.selected
      /\ control'.pending = control.pending /\ control'.retired = control.retired
      /\ control'.failed = control.failed /\ control'.phase = control.phase
  BY <1>1, <1>3, UnsuspendedFacts
<1>6. manual' \in Manuals /\ manual'.at = "idle" /\ manual'.work = None
  BY <1>3, NoManualFacts
<1>7. /\ disk' \in Disks /\ disk'.selected = disk.selected /\ disk'.lasting = disk.lasting
      /\ \A h \in Generations : h <= store.gen => disk'.files[h] = disk.files[h]
  <2>1. CASE NextGenerations(manual.src) = {}
    BY <1>1, <2>1 DEF PrepareSourceFails
  <2>2. CASE NextGenerations(manual.src) # {}
    <3>1. PICK g \in NextGenerations(manual.src) : disk' = DiscardPrepared(disk, g)
      BY <2>2 DEF PrepareSourceFails
    <3>2. g \in Generations /\ g > store.gen
      BY <1>1, <3>1, NextGenerationAbove
    <3>3. \A h \in Generations : h <= store.gen => h # g
      BY SMT, <1>2, <3>2, CheckpointAssumption DEF Generations
    <3>4. disk' = [disk EXCEPT !.files[g] = None, !.staging = @ \ {g}]
      BY <3>1 DEF DiscardPrepared
    <3> QED BY <1>1, <3>2, <3>3, <3>4 DEF Disks
  <2> QED BY <2>1, <2>2
<1>8. Ownership'
  BY <1>1, <1>2, <1>3, <1>5, <1>6 DEF CheckpointInv, OwnerInv, Ownership
<1>9. Shape' /\ Numbers'
  BY <1>s, <1>2, <1>3, <1>5, <1>6 DEF CheckpointInv, OwnerInv, Shape, Numbers
<1>10. Caller' /\ front' \in Fronts /\ front'.op # "publish"
  BY <1>s, <1>1, <1>3, <1>6 DEF CheckpointInv, OwnerInv, Caller
<1>11. PICK w : w = None
  OBVIOUS
<1>12. Complete(w)'
  BY <1>11 DEF Complete
<1> QED BY <1>1, <1>2, <1>3, <1>4, <1>5, <1>6, <1>7, <1>8, <1>9, <1>10, <1>11, <1>12, ExplicitStep

-----------------------------------------------------------------------------
(* The foreground leaves get_mut *)

\* A store that is submitted: the capture that waits for the owner is a prefix of it
LEMMA SubmitCapture ==
  ASSUME OwnerInv, NEW c \in Controls, SameKnowledge(c, control), c.group = control.group,
         NEW s \in Stores,
         s.gen # store.gen \/ (s.base = store.base /\ s.epoch >= store.epoch)
  PROVE  LET d == Submit(c, s)
         IN /\ d \in Controls
            /\ d.phase = c.phase /\ d.suspended = c.suspended /\ d.pending = c.pending
            /\ d.selected = c.selected /\ d.retired = c.retired /\ d.failed = c.failed
            /\ d.group = s.group /\ d.generation = s.gen /\ d.last = Captured(s)
            /\ ~d.snapshot /\ d.last.gen = s.gen
            /\ d.latest # None =>
                 d.latest.gen = s.gen /\ d.latest.base = s.base /\ d.latest.epoch <= s.epoch
            /\ d.latest = control.latest \/ d.latest = Captured(s)
            /\ d.latest # control.latest =>
                 \/ control.snapshot \/ (control.group /\ ~s.group)
                 \/ Identity(Captured(s)) # Identity(control.last)
<1> DEFINE d == Submit(c, s)
<1>1. c.last.gen = c.generation
  BY DEF OwnerInv, Capture, SameKnowledge
<1>2. /\ d \in Controls
      /\ d.phase = c.phase /\ d.suspended = c.suspended /\ d.pending = c.pending
      /\ d.selected = c.selected /\ d.retired = c.retired /\ d.failed = c.failed
      /\ d.group = s.group /\ d.generation = s.gen /\ d.last = Captured(s)
      /\ ~d.snapshot
      /\ d.latest = Captured(s) \/ d.latest = c.latest
      /\ s.gen # c.generation \/ c.snapshot => d.latest = Captured(s)
      /\ d.latest # c.latest =>
           \/ c.snapshot \/ (c.group /\ ~s.group)
           \/ Identity(Captured(s)) # Identity(c.last)
  BY <1>1, SubmitFacts
<1> HIDE DEF d
<1>3. /\ Captured(s) \in Sources /\ Captured(s).gen = s.gen /\ Captured(s).base = s.base
      /\ Captured(s).epoch = s.epoch /\ s.epoch \in Nat /\ store.epoch \in Nat
  <2>1. s.epoch \in Nat /\ store.epoch \in Nat
    BY SMT DEF OwnerInv, Types, Stores
  <2> QED BY <2>1, CapturedType
<1>4. d.latest # None =>
        d.latest.gen = s.gen /\ d.latest.base = s.base /\ d.latest.epoch <= s.epoch
  <2> SUFFICES ASSUME d.latest # None
               PROVE  d.latest.gen = s.gen /\ d.latest.base = s.base /\ d.latest.epoch <= s.epoch
    OBVIOUS
  <2>1. CASE d.latest = Captured(s)
    BY SMT, <1>3, <2>1
  <2>2. CASE d.latest # Captured(s)
    <3>1. d.latest = control.latest /\ s.gen = control.generation
      BY <1>2, <2>2 DEF SameKnowledge
    <3>2. Fresh
      BY <3>1 DEF OwnerInv, Capture
    <3>3. s.gen = store.gen /\ s.base = store.base /\ s.epoch >= store.epoch
      BY <3>1, <3>2 DEF Fresh
    <3>4. control.latest \in Sources
      BY SMT, <3>1 DEF OwnerInv, Types, Controls
    <3>5. /\ control.latest.gen = store.gen /\ control.latest.base = store.base
          /\ control.latest.epoch <= store.epoch
      BY <3>1 DEF OwnerInv, Capture
    <3>6. control.latest.epoch <= s.epoch
      BY SMT, <1>3, <3>3, <3>4, <3>5 DEF Sources
    <3> QED BY <3>1, <3>3, <3>5, <3>6
  <2> QED BY <2>1, <2>2
<1> QED BY <1>2, <1>3, <1>4 DEF d, SameKnowledge

\* A published generation can be adopted
LEMMA OfferedAdoptable ==
  ASSUME OwnerInv
  PROVE  HandoffAdoptable
<1>1. ~control.failed
  BY DEF OwnerInv, Shape
<1>2. ASSUME control.selected # None
      PROVE  /\ Usable /\ ~store.group
             /\ Identity(Captured(store)) = Identity(control.selected.expected)
             /\ control.selected.gen > store.gen
             /\ control.selected.epoch = store.epoch
  <2>1. /\ Unchanged(control.selected.expected)
        /\ control.selected.gen > store.gen /\ control.selected.epoch = store.epoch
    BY <1>2 DEF OwnerInv, Offered
  <2>2. control.selected.expected \in Sources /\ store \in Stores
    BY SMT, <1>2 DEF OwnerInv, Types, Controls, Selections
  <2>3. /\ Captured(store) \in Sources /\ Captured(store).gen = store.gen
        /\ Captured(store).base = store.base /\ Captured(store).epoch = store.epoch
    BY <2>2, CapturedType
  <2>4. Identity(Captured(store)) = Identity(control.selected.expected)
    BY SMT, <2>1, <2>2, <2>3, IdentityEqual DEF Unchanged
  <2> QED BY <1>1, <2>1, <2>4 DEF Unchanged, Usable
<1> QED BY <1>1, <1>2 DEF HandoffAdoptable, Adoptable

\* The handoff leaves nothing private behind
LEMMA HandoffAlone ==
  ASSUME CheckpointInv, control.selected # None
  PROVE  /\ control.phase = "Handoff" /\ owner.at \in {"loop", "parked"}
         /\ owner.at \notin Attempting /\ owner.src = None /\ owner.work = None
         /\ control.pending = None /\ control.retired = None /\ control.latest = None
         /\ manual.at \notin {"captured", "prepared", "discard"} /\ manual.work = None
         /\ front.op # "publish" /\ ~store.poisoned /\ Fresh /\ ~store.group
<1>1. control.phase = "Handoff"
  BY DEF CheckpointInv, OwnerInv, Ownership
<1>2. owner.at \in {"loop", "parked"}
  BY <1>1, PhaseFacts DEF CheckpointInv, OwnerInv
<1>3. owner.at \notin Attempting
  BY <1>2 DEF Attempting
<1>4. control.pending = None /\ manual.at \notin {"captured", "prepared", "discard"}
  BY <1>1 DEF CheckpointInv, OwnerInv, Ownership
<1>5. owner.src = None /\ owner.work = None /\ manual.work = None /\ control.retired = None
  BY <1>1, <1>2, <1>3, <1>4 DEF CheckpointInv, OwnerInv, Shape
<1>6. /\ front.op # "publish" /\ ~store.poisoned /\ Fresh /\ ~store.group
      /\ control.latest = None
  BY <1>4 DEF CheckpointInv, OwnerInv, Caller, Offered, Unchanged
<1> QED BY <1>1, <1>2, <1>3, <1>4, <1>5, <1>6

\* Control::adopt: the store serves what the manifest names
LEMMA AdoptedFacts ==
  ASSUME CheckpointInv, ~store.poisoned, owner.at # "settle"
  PROVE  /\ AdoptedStore \in Stores /\ AdoptedStore.gen >= store.gen
         /\ AdoptedStore.gen = disk.selected
         /\ AdoptedStore.epoch = store.epoch /\ AdoptedStore.group = store.group
         /\ AdoptedStore.mark = store.mark /\ AdoptedStore.policy = store.policy
         /\ AdoptedStore.poisoned = store.poisoned
         /\ AdoptedStore.named => disk.lasting = disk.selected
         /\ Holds(AdoptedStore.gen, AdoptedStore.base, AdoptedStore.epoch)
         /\ control.selected = None => AdoptedStore = store
         /\ control.selected # None => AdoptedStore.gen > store.gen
         /\ AdoptedControl \in Controls /\ SameKnowledge(AdoptedControl, control)
         /\ AdoptedControl.group = control.group
         /\ AdoptedControl.suspended = control.suspended
         /\ AdoptedControl.pending = control.pending /\ AdoptedControl.failed = control.failed
         /\ AdoptedControl.selected = None
         /\ control.selected = None => AdoptedControl = control
         /\ control.selected # None =>
              /\ AdoptedControl.phase = "Retiring" /\ AdoptedControl.retired # None
              /\ AdoptedControl.retired.gen = AdoptedStore.gen
<1>1. /\ store \in Stores /\ control \in Controls
  BY DEF CheckpointInv, OwnerInv, Types
<1>2. store.gen \in Nat
  BY SMT, <1>1 DEF Stores
<1>3. CASE control.selected = None
  <2>1. AdoptedStore = store /\ AdoptedControl = control
    BY <1>3 DEF AdoptedStore, AdoptedControl
  <2>2. disk.selected = store.gen
    BY <1>3, ServedIsSelected DEF Uncertain
  <2>3. store.gen >= store.gen
    BY SMT, <1>2
  <2> QED BY <1>1, <1>3, <2>1, <2>2, <2>3 DEF CheckpointInv, DiskInv, Images, Lasting, SameKnowledge
<1>4. CASE control.selected # None
  <2>1. control.selected \in Selections
    BY SMT, <1>1, <1>4 DEF Controls
  <2>2. PICK x : x = control.selected
    OBVIOUS
  <2>3. PICK y : y = [gen |-> x.gen, previous |-> store.gen]
    OBVIOUS
  <2>4. /\ AdoptedStore = [store EXCEPT !.gen = x.gen, !.base = x.base,
                                        !.epoch = x.epoch, !.named = TRUE]
        /\ AdoptedControl = [control EXCEPT !.selected = None, !.phase = "Retiring", !.retired = y]
    BY <1>4, <2>2, <2>3 DEF AdoptedStore, AdoptedControl
  <2>5. x.gen \in Nat /\ x.base \in Nat /\ x.epoch \in Nat
    BY SMT, <2>1, <2>2 DEF Selections
  <2>6. /\ AdoptedStore \in Stores /\ AdoptedStore.gen = x.gen /\ AdoptedStore.base = x.base
        /\ AdoptedStore.epoch = x.epoch /\ AdoptedStore.group = store.group
        /\ AdoptedStore.mark = store.mark /\ AdoptedStore.policy = store.policy
        /\ AdoptedStore.poisoned = store.poisoned
    BY <1>1, <2>4, <2>5 DEF Stores
  <2>7. y \in Retirements /\ y.gen = x.gen
    BY SMT, <1>2, <2>3, <2>5 DEF Retirements
  <2>8. /\ AdoptedControl \in Controls /\ SameKnowledge(AdoptedControl, control)
        /\ AdoptedControl.group = control.group
        /\ AdoptedControl.suspended = control.suspended
        /\ AdoptedControl.pending = control.pending /\ AdoptedControl.failed = control.failed
        /\ AdoptedControl.selected = None
        /\ AdoptedControl.phase = "Retiring" /\ AdoptedControl.retired = y
    BY <1>1, <2>4, <2>7 DEF Controls, SameKnowledge, Phases
  <2>9. x.gen > store.gen /\ x.epoch = store.epoch /\ x.gen = disk.selected
    BY <1>4, <2>2 DEF CheckpointInv, OwnerInv, Offered, DiskInv, Selector
  <2>10. x.gen >= store.gen
    BY SMT, <1>2, <2>5, <2>9
  <2>11. Holds(x.gen, x.base, x.epoch)
    BY <1>4, <2>2 DEF CheckpointInv, DiskInv, Images
  <2>12. disk.lasting = disk.selected
    BY <1>4, HandoffAlone DEF CheckpointInv, DiskInv, Lasting
  <2>13. y # None
    BY <2>7, NoneFacts
  <2> QED BY <1>4, <2>6, <2>7, <2>8, <2>9, <2>10, <2>11, <2>12, <2>13
<1> QED BY <1>3, <1>4

\* Every way out of get_mut that submits the store keeps what the owner knows
LEMMA LeaveKnows ==
  ASSUME CheckpointInv, ~store.poisoned, owner.at # "settle",
         NEW s \in Stores, s.gen = AdoptedStore.gen, s.base = AdoptedStore.base,
         s.epoch >= store.epoch,
         store.group /\ ~s.group => store.mark < s.epoch,
         s.group => (store.group /\ s.mark = store.mark) \/ s.mark >= store.epoch,
         store' = s, SameKnowledge(control', Submit(AdoptedControl, s)),
         control'.pending \in {None, control.pending},
         owner'.at = owner.at, owner'.src = owner.src, owner'.work = owner.work
  PROVE  Capture' /\ Attempt'
<1> DEFINE d == Submit(AdoptedControl, s)
<1>1. /\ control.selected = None => s.gen = store.gen /\ s.base = store.base
      /\ control.selected # None => s.gen > store.gen
      /\ AdoptedControl \in Controls /\ SameKnowledge(AdoptedControl, control)
      /\ AdoptedControl.group = control.group
  BY AdoptedFacts
<1>2. /\ store.gen \in Nat /\ s.gen \in Nat /\ s.epoch \in Nat /\ store.epoch \in Nat
      /\ s.mark \in Nat /\ store.mark \in Nat
  BY SMT DEF CheckpointInv, OwnerInv, Types, Stores
<1>3. s.gen # store.gen \/ (s.base = store.base /\ s.epoch >= store.epoch)
  <2>1. control.selected # None => s.gen # store.gen
    BY SMT, <1>1, <1>2
  <2> QED BY <1>1, <2>1
<1>4. /\ d.generation = s.gen /\ d.last = Captured(s) /\ ~d.snapshot /\ d.last.gen = s.gen
      /\ d.latest # None =>
           d.latest.gen = s.gen /\ d.latest.base = s.base /\ d.latest.epoch <= s.epoch
      /\ d.latest = control.latest \/ d.latest = Captured(s)
      /\ d.latest # control.latest =>
           \/ control.snapshot \/ (control.group /\ ~s.group)
           \/ Identity(Captured(s)) # Identity(control.last)
  BY <1>1, <1>3, SubmitCapture DEF CheckpointInv
<1> HIDE DEF d
<1>5. /\ control'.last = d.last /\ control'.generation = d.generation
      /\ control'.latest = d.latest /\ control'.snapshot = d.snapshot
  BY DEF d, SameKnowledge
<1>6. Capture'
  BY <1>4, <1>5 DEF Capture, Fresh
<1>7. Attempt'
  <2> SUFFICES ASSUME owner.src # None
               PROVE  /\ owner.src.gen = s.gen /\ owner.src.base = s.base
                      /\ owner.src.epoch <= s.epoch
                      /\ d.latest # None /\ owner.at # "discard" =>
                           owner.src.epoch < d.latest.epoch
                      /\ s.group => owner.src.epoch <= s.mark
                      /\ owner.at \in {"gate", "settle"} => owner.work.epoch = owner.src.epoch
    BY <1>4, <1>5 DEF Attempt
  <2>1. owner.at \in Attempting
    BY DEF CheckpointInv, OwnerInv, Shape
  <2>2. control.selected = None /\ owner.src \in Sources /\ Fresh
    BY <2>1, AttemptAlone DEF CheckpointInv
  <2>3. s.gen = store.gen /\ s.base = store.base /\ owner.src.epoch \in Nat
    BY SMT, <1>1, <2>2 DEF Sources
  <2>4. /\ owner.src.gen = store.gen /\ owner.src.base = store.base
        /\ owner.src.epoch <= store.epoch
        /\ store.group => owner.src.epoch <= store.mark
        /\ control.snapshot => owner.src.epoch < store.epoch
        /\ owner.at \in {"gate", "settle"} => owner.work.epoch = owner.src.epoch
        /\ control.latest # None /\ owner.at # "discard" =>
             owner.src.epoch < control.latest.epoch
    BY DEF CheckpointInv, OwnerInv, Attempt
  <2>5. owner.src.epoch <= s.epoch
    BY SMT, <1>2, <2>3, <2>4
  <2>6. s.group => owner.src.epoch <= s.mark
    BY SMT, <1>2, <2>3, <2>4
  <2>7. ASSUME d.latest # None, owner.at # "discard" PROVE owner.src.epoch < d.latest.epoch
    <3>1. CASE d.latest = control.latest
      BY <2>4, <2>7, <3>1
    <3>2. CASE d.latest # control.latest
      <4>1. d.latest.epoch = s.epoch /\ Captured(s).epoch = s.epoch
        BY <1>4, <3>2, CapturedType
      <4>2. CASE control.snapshot
        BY SMTT(20), <1>2, <2>3, <2>4, <4>1, <4>2
      <4>3. CASE control.group /\ ~s.group
        <5>1. store.group
          BY <4>3 DEF CheckpointInv, OwnerInv, Shape
        <5> QED BY SMTT(20), <1>2, <2>3, <2>4, <4>1, <4>3, <5>1
      <4>4. CASE Identity(Captured(s)) # Identity(control.last)
        <5>1. /\ control.last \in Sources /\ control.last.gen = store.gen
              /\ control.last.base = store.base /\ control.last.epoch = store.epoch
          BY <2>2, FreshLast DEF CheckpointInv
        <5>2. Captured(s) \in Sources /\ Captured(s).gen = s.gen /\ Captured(s).base = s.base
          BY CapturedType
        <5>3. s.epoch # store.epoch
          BY <2>3, <4>1, <4>4, <5>1, <5>2, IdentityEqual
        <5> QED BY SMT, <1>2, <2>3, <2>4, <4>1, <5>3
      <4> QED BY <1>4, <3>2, <4>2, <4>3, <4>4
    <3> QED BY <3>1, <3>2
  <2> QED BY <2>3, <2>4, <2>5, <2>6, <2>7
<1> QED BY <1>6, <1>7

\* It keeps who owns what
LEMMA LeaveOwns ==
  ASSUME CheckpointInv, ~store.poisoned, owner.at # "settle",
         NEW s \in Stores, s.gen = AdoptedStore.gen, s.base = AdoptedStore.base,
         s.epoch >= store.epoch,
         store' = s, control' \in Controls,
         control'.phase = AdoptedControl.phase, control'.suspended = AdoptedControl.suspended,
         control'.group = s.group, control'.selected = None,
         control'.retired = AdoptedControl.retired, control'.failed = AdoptedControl.failed,
         control'.pending \in {None, control.pending},
         owner' \in Owners, owner'.at = owner.at, owner'.src = owner.src,
         owner'.work = owner.work, manual' \in Manuals,
         manual'.at = manual.at \/ (manual.at = "suspended" /\ manual'.at = "waiting"),
         manual'.src = manual.src, manual'.work = manual.work
  PROVE  Ownership' /\ Shape' /\ Offered' /\ Numbers'
<1>1. /\ control.selected = None => s.gen = store.gen /\ AdoptedControl = control
      /\ AdoptedControl.suspended = control.suspended /\ AdoptedControl.failed = control.failed
      /\ control.selected # None =>
              /\ AdoptedControl.phase = "Retiring" /\ AdoptedControl.retired # None
              /\ AdoptedControl.retired.gen = s.gen
  BY AdoptedFacts
<1>2. Offered'
  BY DEF Offered
<1>3. CASE control.selected = None
  <2>1. /\ control'.phase = control.phase /\ control'.suspended = control.suspended
        /\ control'.retired = control.retired /\ control'.failed = control.failed
        /\ store'.gen = store.gen
    BY <1>1, <1>3
  <2>2. Ownership'
    BY <1>3, <2>1 DEF CheckpointInv, OwnerInv, Ownership
  <2>3. Shape'
    BY <2>1 DEF CheckpointInv, OwnerInv, Shape
  <2>4. Numbers'
    BY <2>1 DEF CheckpointInv, OwnerInv, Numbers
  <2> QED BY <1>2, <2>2, <2>3, <2>4
<1>4. CASE control.selected # None
  <2>1. /\ control'.phase = "Retiring" /\ control'.suspended = control.suspended
        /\ control'.retired.gen = s.gen /\ control'.failed = control.failed
        /\ control'.pending = None
    BY <1>1, <1>4, HandoffAlone
  <2>2. /\ owner'.at \in {"loop", "parked"} /\ owner'.at \notin Attempting
        /\ owner'.src = None /\ owner'.work = None
        /\ manual'.at \notin {"captured", "prepared", "discard"} /\ manual'.work = None
    BY <1>4, HandoffAlone
  <2>3. control'.phase \in PhasesAt[owner'.at]
    BY SMT, <2>1, <2>2 DEF PhasesAt
  <2>4. Ownership'
    BY <2>1, <2>2, <2>3 DEF CheckpointInv, OwnerInv, Ownership
  <2>5. Shape'
    BY <2>1, <2>2 DEF CheckpointInv, OwnerInv, Shape, Attempting
  <2>6. Numbers'
    BY <2>1, <2>2 DEF Numbers, Attempting
  <2> QED BY <1>2, <2>4, <2>5, <2>6
<1> QED BY <1>3, <1>4

\* It writes to the generation that is served, and to no other that is in use
LEMMA LeaveDisk ==
  ASSUME CheckpointInv, ~store.poisoned, owner.at # "settle",
         NEW s \in Stores, s.gen = AdoptedStore.gen, store' = s,
         control'.selected = None, control'.phase = AdoptedControl.phase,
         control'.pending \in {None, control.pending},
         owner'.at = owner.at, owner'.work = owner.work, owner'.pins = owner.pins,
         manual'.at = manual.at \/ (manual.at = "suspended" /\ manual'.at = "waiting"),
         manual'.work = manual.work, front'.op # "publish", reader' = reader,
         disk' \in Disks, disk'.selected = disk.selected,
         disk'.lasting \in {disk.selected, disk.lasting},
         s.named => disk'.lasting = disk.selected,
         \A h \in Generations :
           \/ h = s.gen \/ disk'.files[h] = disk.files[h]
           \/ control.pending # None /\ control'.pending = None /\ h = control.pending.gen,
         Holds(store.gen, store.base, store.epoch)',
         disk'.files[s.gen].synced >= disk.files[s.gen].synced,
         promised' \in Nat,
         \/ promised' = promised
         \/ promised' = disk'.files[s.gen].synced /\ disk'.lasting = disk.selected
  PROVE  DiskInv'
<1>1. /\ s.gen >= store.gen /\ s.gen = disk.selected
      /\ control.selected = None => s.gen = store.gen /\ AdoptedControl = control
      /\ control.selected # None => AdoptedControl.phase = "Retiring"
  BY AdoptedFacts
<1>2. /\ store.gen \in Nat /\ s.gen \in Nat /\ disk.selected \in Generations
      /\ disk.lasting \in Generations /\ disk.lasting \in Nat
  <2>1. store \in Stores /\ disk \in Disks
    BY DEF CheckpointInv, OwnerInv, Types, DiskInv
  <2>2. store.gen \in Nat /\ s.gen \in Nat
    BY <2>1 DEF Stores
  <2>3. disk.selected \in Generations /\ disk.lasting \in Generations
    BY <2>1 DEF Disks
  <2>4. disk.lasting \in Nat
    BY SMT, <2>3, CheckpointAssumption DEF Generations
  <2> QED BY <2>2, <2>3, <2>4
<1>3. \A h \in Generations : h <= store.gen /\ h # s.gen => disk'.files[h] = disk.files[h]
  <2> SUFFICES ASSUME NEW h \in Generations, h <= store.gen, h # s.gen
               PROVE  disk'.files[h] = disk.files[h]
    OBVIOUS
  <2>1. SUFFICES ASSUME control.pending # None PROVE h # control.pending.gen
    OBVIOUS
  <2>2. control.pending \in Works /\ control.pending.gen > store.gen
    BY <2>1 DEF CheckpointInv, OwnerInv, Types, Controls, Numbers
  <2> QED BY SMT, <1>2, <2>2, CheckpointAssumption DEF Works, Generations
<1>4. ASSUME NEW w \in Works, Complete(w), w.gen > store.gen, control.selected = None,
             control'.pending = control.pending \/ control.pending = None
      PROVE  Complete(w)' /\ disk'.files[w.gen] = disk.files[w.gen]
  <2>1. w.gen \in Generations /\ w # None
    BY <1>4, NoneFacts DEF Complete
  <2>2. w.gen # s.gen
    <3>1. w.gen \in Nat /\ s.gen = store.gen
      BY SMT, <1>1, <1>4 DEF Works
    <3> QED BY SMTT(20), <1>2, <1>4, <3>1
  <2>3. disk'.files[w.gen] = disk.files[w.gen]
    BY <1>4, <2>1, <2>2
  <2> QED BY <1>4, <2>1, <2>3 DEF Complete, Holds
<1>5. Images'
  <2>1. Complete(control.pending)'
    <3>1. CASE control'.pending = None
      BY <3>1 DEF Complete
    <3>2. CASE control'.pending # None
      <4>1. PICK w : w = control.pending
        OBVIOUS
      <4>2. control'.pending = w /\ control.pending # None /\ control.selected = None
        BY <3>2, <4>1, HandoffAlone
      <4>3. w \in Works /\ Complete(w) /\ w.gen > store.gen
        BY <4>1, <4>2 DEF CheckpointInv, OwnerInv, Types, Controls, Numbers, DiskInv, Images
      <4>4. Complete(w)'
        BY <1>4, <4>1, <4>2, <4>3
      <4> QED BY <4>2, <4>4
    <3> QED BY <3>1, <3>2
  <2>2. /\ Complete(manual.work)'
        /\ manual'.at = "prepared" => disk'.files[manual'.work.gen].synced = manual'.work.epoch
    <3>1. CASE manual.work = None
      <4>1. manual.at # "prepared"
        BY <3>1 DEF CheckpointInv, OwnerInv, Shape
      <4> QED BY <3>1, <4>1 DEF Complete
    <3>2. CASE manual.work # None
      <4>1. PICK w : w = manual.work
        OBVIOUS
      <4>2. /\ w \in Works /\ Complete(w) /\ w.gen > store.gen
            /\ manual.at = "prepared" => disk.files[w.gen].synced = w.epoch
        BY <3>2, <4>1 DEF CheckpointInv, OwnerInv, Types, Manuals, Numbers, DiskInv, Images
      <4>3. control.selected = None
        BY <3>2, HandoffAlone
      <4>4. control.pending = None
        BY <3>2 DEF CheckpointInv, OwnerInv, Ownership, Shape
      <4>5. Complete(w)' /\ disk'.files[w.gen] = disk.files[w.gen]
        BY <1>4, <4>2, <4>3, <4>4
      <4> QED BY <4>1, <4>2, <4>5
    <3> QED BY <3>1, <3>2
  <2>3. /\ owner'.at \in Attempting => Complete(owner.work)'
        /\ owner'.at \in {"gate", "settle"} => disk'.files[owner'.work.gen].synced = owner'.work.epoch
    <3> SUFFICES ASSUME owner.at \in Attempting
                 PROVE  /\ Complete(owner.work)'
                        /\ owner.at = "gate" => disk'.files[owner.work.gen].synced = owner.work.epoch
      BY DEF Attempting
    <3>1. control.selected = None /\ control.pending = None
      BY AttemptAlone DEF CheckpointInv
    <3>2. CASE owner.work = None
      <4>1. owner.at # "gate"
        BY <3>2, NoneFacts DEF CheckpointInv, OwnerInv, Shape, Attempting
      <4> QED BY <3>2, <4>1 DEF Complete
    <3>3. CASE owner.work # None
      <4>1. PICK w : w = owner.work
        OBVIOUS
      <4>2. /\ w \in Works /\ Complete(w) /\ w.gen > store.gen
            /\ owner.at = "gate" => disk.files[w.gen].synced = w.epoch
        BY <3>3, <4>1 DEF CheckpointInv, OwnerInv, Shape, Numbers, DiskInv, Images
      <4>3. Complete(w)' /\ disk'.files[w.gen] = disk.files[w.gen]
        BY <1>4, <3>1, <4>2
      <4> QED BY <4>1, <4>2, <4>3
    <3> QED BY <3>2, <3>3
  <2> QED BY <2>1, <2>2, <2>3 DEF Images
<1>6. Selector'
  BY <1>1 DEF Selector
<1>7. disk.lasting = disk.selected \/ (disk.lasting <= store.gen /\ disk.lasting < disk.selected)
  BY DEF CheckpointInv, DiskInv, Lasting
<1>8. Recoverable'
  <2>1. disk'.files[s.gen] # None /\ disk'.files[s.gen] \in Logs \cup {None}
    BY <1>1, <1>2 DEF Holds, Disks
  <2>2. disk.files[disk.selected] # None /\ disk.files[disk.selected] \in Logs \cup {None}
    BY <1>2 DEF CheckpointInv, DiskInv, Disks, Recoverable
  <2>3. /\ disk'.files[s.gen].synced \in Nat /\ disk.files[s.gen].synced \in Nat
    BY SMT, <1>1, <2>1, <2>2 DEF Logs, Contents
  <2>4. disk.files[s.gen].synced >= promised /\ promised \in Nat
    BY <1>1 DEF CheckpointInv, DiskInv, Recoverable
  <2>5. disk'.files[s.gen].synced >= promised'
    BY SMT, <2>3, <2>4
  <2>6. CASE disk'.lasting = disk.selected
    BY <1>1, <2>1, <2>5, <2>6 DEF Recoverable
  <2>7. CASE disk'.lasting # disk.selected
    <3>1. disk'.lasting = disk.lasting /\ promised' = promised
      BY <2>7
    <3>2. disk.lasting <= store.gen /\ disk.lasting # s.gen
      BY <1>1, <1>7, <2>7, <3>1
    <3>3. disk'.files[disk.lasting] = disk.files[disk.lasting]
      BY <1>2, <1>3, <3>2
    <3>4. disk.files[disk.lasting] # None /\ disk.files[disk.lasting].synced >= promised
      BY DEF CheckpointInv, DiskInv, Recoverable
    <3> QED BY <1>1, <2>1, <2>5, <3>1, <3>3, <3>4 DEF Recoverable
  <2> QED BY <2>6, <2>7
<1>9. Lasting'
  <2>1. \/ disk'.lasting = disk.selected
        \/ disk'.lasting <= s.gen /\ disk'.lasting < disk.selected
    BY SMT, <1>1, <1>2, <1>7
  <2>2. control'.phase \in {"Handoff", "Retiring"} => disk.lasting = disk.selected
    <3>1. CASE control.selected = None
      BY <1>1, <3>1 DEF CheckpointInv, DiskInv, Lasting
    <3>2. CASE control.selected # None
      BY <3>2, HandoffAlone DEF CheckpointInv, DiskInv, Lasting
    <3> QED BY <3>1, <3>2
  <2> QED BY <2>1, <2>2 DEF Lasting
<1>10. Pinned'
  <2>1. PinnedGenerations' = PinnedGenerations
    BY DEF PinnedGenerations
  <2>2. ASSUME NEW g \in PinnedGenerations
        PROVE  g \in Generations /\ g <= s.gen /\ disk'.files[g] # None
    <3>1. g \in Generations /\ g <= store.gen /\ disk.files[g] # None
      BY DEF CheckpointInv, DiskInv, Pinned
    <3>2. g <= s.gen
      BY SMT, <1>1, <1>2, <3>1, CheckpointAssumption DEF Generations
    <3>3. disk'.files[g] # None
      BY <1>3, <3>1 DEF Holds
    <3> QED BY <3>1, <3>2, <3>3
  <2>3. owner.at = "reclaim" => s.gen = store.gen
    <3>1. owner.at = "reclaim" => control.selected = None
      BY HandoffAlone
    <3> QED BY <1>1, <3>1
  <2>4. owner'.at = "reclaim" => PinnedGenerations \subseteq owner'.pins \cup {s.gen}
    BY <2>3 DEF CheckpointInv, DiskInv, Pinned
  <2> QED BY <2>1, <2>2, <2>4 DEF Pinned
<1> QED BY <1>5, <1>6, <1>8, <1>9, <1>10 DEF DiskInv

\* Every way out of get_mut that submits the store keeps the invariant
LEMMA LeaveInv ==
  ASSUME CheckpointInv, ~store.poisoned, owner.at # "settle",
         NEW s \in Stores, s.gen = AdoptedStore.gen, s.base = AdoptedStore.base,
         s.epoch >= store.epoch,
         store.group /\ ~s.group => store.mark < s.epoch,
         s.group => (store.group /\ s.mark = store.mark) \/ s.mark >= store.epoch,
         store' = s,
         \/ control' = Submit(AdoptedControl, s)
         \/ control' = [Submit(AdoptedControl, s) EXCEPT !.pending = None],
         owner' = [owner EXCEPT !.woken = TRUE],
         manual' \in Manuals,
         manual'.at = manual.at \/ (manual.at = "suspended" /\ manual'.at = "waiting"),
         manual'.src = manual.src, manual'.work = manual.work,
         front' \in Fronts, front'.op # "publish", Caller', reader' = reader, budget' \in Budgets,
         disk' \in Disks, disk'.selected = disk.selected,
         disk'.lasting \in {disk.selected, disk.lasting},
         s.named => disk'.lasting = disk.selected,
         \A h \in Generations :
           \/ h = s.gen \/ disk'.files[h] = disk.files[h]
           \/ control.pending # None /\ control'.pending = None /\ h = control.pending.gen,
         Holds(s.gen, s.base, s.epoch)',
         disk'.files[s.gen].synced >= disk.files[s.gen].synced,
         promised' \in Nat,
         \/ promised' = promised
         \/ promised' = disk'.files[s.gen].synced /\ disk'.lasting = disk.selected
  PROVE  CheckpointInv'
<1> DEFINE d == Submit(AdoptedControl, s)
<1>1. /\ control.selected = None => s.gen = store.gen /\ s.base = store.base
      /\ control.selected # None => s.gen > store.gen
      /\ AdoptedControl \in Controls /\ SameKnowledge(AdoptedControl, control)
      /\ AdoptedControl.group = control.group /\ AdoptedControl.selected = None
      /\ AdoptedControl.pending = control.pending
  BY AdoptedFacts
<1>2. s.gen # store.gen \/ (s.base = store.base /\ s.epoch >= store.epoch)
  <2>1. store.gen \in Nat /\ s.gen \in Nat
    BY SMT DEF CheckpointInv, OwnerInv, Types, Stores
  <2>2. control.selected # None => s.gen # store.gen
    BY SMT, <1>1, <2>1
  <2> QED BY <1>1, <2>2
<1>3. /\ d \in Controls
      /\ d.phase = AdoptedControl.phase /\ d.suspended = AdoptedControl.suspended
      /\ d.pending = control.pending /\ d.selected = None
      /\ d.retired = AdoptedControl.retired /\ d.failed = AdoptedControl.failed
      /\ d.group = s.group
  BY <1>1, <1>2, SubmitCapture DEF CheckpointInv
<1> HIDE DEF d
<1>4. /\ control' \in Controls /\ SameKnowledge(control', d)
      /\ control'.phase = AdoptedControl.phase /\ control'.suspended = AdoptedControl.suspended
      /\ control'.pending \in {None, control.pending} /\ control'.selected = None
      /\ control'.retired = AdoptedControl.retired /\ control'.failed = AdoptedControl.failed
      /\ control'.group = s.group
  <2>1. CASE control' = d
    BY <1>3, <2>1 DEF SameKnowledge
  <2>2. CASE control' = [d EXCEPT !.pending = None]
    BY SMT, <1>3, <2>2 DEF SameKnowledge, Controls
  <2> QED BY <2>1, <2>2 DEF d
<1>5. /\ owner' \in Owners /\ owner'.at = owner.at /\ owner'.src = owner.src
      /\ owner'.work = owner.work /\ owner'.pins = owner.pins
  BY DEF CheckpointInv, OwnerInv, Types, Owners
<1>6. Types'
  BY <1>4, <1>5 DEF CheckpointInv, OwnerInv, Types
<1>7. Capture' /\ Attempt'
  BY <1>4, <1>5, LeaveKnows DEF d
<1>8. Ownership' /\ Shape' /\ Offered' /\ Numbers'
  BY <1>4, <1>5, LeaveOwns
<1>9. Holds(store.gen, store.base, store.epoch)'
  BY DEF Holds
<1>10. DiskInv'
  BY <1>4, <1>5, <1>9, LeaveDisk
<1> QED BY <1>6, <1>7, <1>8, <1>10 DEF CheckpointInv, OwnerInv

\* wait_frontend has let a caller in
LEMMA EnterFacts ==
  ASSUME CheckpointInv, NEW op, Enter(op)
  PROVE  /\ front.op = op /\ ~store.poisoned /\ owner.at # "settle"
         /\ front' \in Fronts /\ front'.op # "publish" /\ Caller'
         /\ AdoptedStore \in Stores /\ AdoptedStore.gen = disk.selected
         /\ AdoptedStore.epoch = store.epoch /\ AdoptedStore.group = store.group
         /\ AdoptedStore.mark = store.mark /\ AdoptedStore.gen \in Generations
         /\ AdoptedStore.named => disk.lasting = disk.selected
         /\ Holds(AdoptedStore.gen, AdoptedStore.base, AdoptedStore.epoch)
         /\ manual \in Manuals /\ budget \in Budgets /\ disk \in Disks /\ promised \in Nat
         /\ store.epoch \in Nat /\ store.mark \in Nat
<1>1. front.op = op /\ ~store.poisoned /\ front' = NoFront
  BY DEF Enter, Usable
<1>2. owner.at # "settle"
  BY PhaseFacts DEF Enter, MustFence, CheckpointInv, OwnerInv
<1>3. front' \in Fronts /\ front'.op = None
  BY SMT, <1>1 DEF NoFront, Fronts
<1>4. front'.op # "publish" /\ Caller'
  BY <1>3, NoneFacts DEF Caller, Operations
<1>5. store.epoch \in Nat /\ store.mark \in Nat
  BY SMT DEF CheckpointInv, OwnerInv, Types, Stores
<1>6. manual \in Manuals /\ budget \in Budgets /\ disk \in Disks /\ promised \in Nat
  BY DEF CheckpointInv, OwnerInv, Types, DiskInv
<1>7. /\ AdoptedStore \in Stores /\ AdoptedStore.gen = disk.selected
      /\ AdoptedStore.epoch = store.epoch /\ AdoptedStore.group = store.group
      /\ AdoptedStore.mark = store.mark
      /\ AdoptedStore.named => disk.lasting = disk.selected
      /\ Holds(AdoptedStore.gen, AdoptedStore.base, AdoptedStore.epoch)
  BY <1>1, <1>2, AdoptedFacts
<1> QED BY <1>1, <1>2, <1>3, <1>4, <1>5, <1>6, <1>7 DEF Holds

\* A log is appended to
LEMMA AppendUpdate ==
  ASSUME NEW d \in Disks, NEW g \in Generations, d.files[g] # None, NEW durable \in BOOLEAN
  PROVE  LET e == Append(d, g, durable)
         IN /\ e \in Disks /\ e.selected = d.selected /\ e.lasting = d.lasting
            /\ \A h \in Generations : h # g => e.files[h] = d.files[h]
            /\ e.files[g] # None /\ e.files[g].base = d.files[g].base
            /\ e.files[g].tail = d.files[g].tail + 1
            /\ e.files[g].synced >= d.files[g].synced
            /\ durable => e.files[g].synced = d.files[g].tail + 1
<1>1. PICK f : f = d.files[g]
  OBVIOUS
<1>2. f \in Logs
  BY SMT, <1>1 DEF Disks
<1>3. PICK v : v = Files(f.base, f.tail + 1, IF durable THEN f.tail + 1 ELSE f.synced)
  OBVIOUS
<1>4. Append(d, g, durable) = [d EXCEPT !.files[g] = v]
  BY SMT, <1>1, <1>3 DEF Append, Disks
<1>5. /\ v \in Logs /\ v.base = f.base /\ v.tail = f.tail + 1 /\ v.synced >= f.synced
      /\ durable => v.synced = f.tail + 1
  BY SMT, <1>2, <1>3 DEF Logs, Contents, Files
<1>6. v # None
  BY <1>5, NoneFacts
<1> QED BY SMT, <1>1, <1>4, <1>5, <1>6, FileUpdate

\* The directory of the manifest is synchronized
LEMMA SynchronizeUpdate ==
  ASSUME NEW d \in Disks, NEW s, s.named => d.lasting = d.selected
  PROVE  LET e == Synchronize(d, s)
         IN /\ e \in Disks /\ e.selected = d.selected /\ e.lasting = d.selected
            /\ e.files = d.files
BY SMT DEF Synchronize, Disks

\* One commit outside a group
LEMMA CommitInv ==
  ASSUME CheckpointInv, Commit
  PROVE  CheckpointInv'
<1>1. PICK a : a = AdoptedStore
  OBVIOUS
<1>2. PICK durable \in BOOLEAN : durable = (a.policy = "SyncOnEveryWrite")
  OBVIOUS
<1>3. PICK s : s = [a EXCEPT !.epoch = @ + 1, !.named = @ \/ durable]
  OBVIOUS
<1>4. PICK d : d = Append(disk, a.gen, durable)
  OBVIOUS
<1>5. /\ Enter("commit")
      /\ disk' = IF durable THEN Synchronize(d, a) ELSE d
      /\ promised' = IF durable THEN a.epoch + 1 ELSE promised
      /\ store' = s /\ control' = Submit(AdoptedControl, s)
      /\ owner' = [owner EXCEPT !.woken = TRUE]
      /\ UNCHANGED <<manual, reader, budget>>
  BY <1>1, <1>2, <1>3, <1>4 DEF Commit, Leave
<1>6. /\ ~store.poisoned /\ owner.at # "settle"
      /\ front' \in Fronts /\ front'.op # "publish" /\ Caller'
      /\ a \in Stores /\ a.gen = disk.selected /\ a.epoch = store.epoch /\ a.group = store.group
      /\ a.mark = store.mark /\ a.gen \in Generations
      /\ a.named => disk.lasting = disk.selected
      /\ Holds(a.gen, a.base, a.epoch) /\ disk \in Disks /\ promised \in Nat
      /\ store.epoch \in Nat /\ manual \in Manuals /\ budget \in Budgets
  BY <1>1, <1>5, EnterFacts
<1>7. /\ s \in Stores /\ s.gen = a.gen /\ s.base = a.base /\ s.epoch = a.epoch + 1
      /\ s.group = a.group /\ s.mark = a.mark
      /\ s.named => a.named \/ durable
  <2>1. (a.named \/ durable) \in BOOLEAN
    OBVIOUS
  <2>2. PICK n \in BOOLEAN : n = (a.named \/ durable)
    BY <2>1
  <2>3. PICK e \in Nat : e = a.epoch + 1
    BY SMT, <1>6
  <2>4. s = [a EXCEPT !.epoch = e, !.named = n]
    BY <1>3, <2>2, <2>3
  <2>5. /\ s \in Stores /\ s.gen = a.gen /\ s.base = a.base /\ s.epoch = e
        /\ s.group = a.group /\ s.mark = a.mark /\ s.named = n
    BY <1>6, <2>4 DEF Stores
  <2> QED BY <2>2, <2>3, <2>5

<1>8. /\ d \in Disks /\ d.selected = disk.selected /\ d.lasting = disk.lasting
      /\ \A h \in Generations : h # a.gen => d.files[h] = disk.files[h]
      /\ d.files[a.gen] # None /\ d.files[a.gen].base = a.base
      /\ d.files[a.gen].tail = a.epoch + 1
      /\ d.files[a.gen].synced >= disk.files[a.gen].synced
      /\ durable => d.files[a.gen].synced = a.epoch + 1
  BY SMT, <1>4, <1>6, AppendUpdate DEF Holds
<1>9. /\ disk' \in Disks /\ disk'.selected = disk.selected /\ disk'.files = d.files
      /\ disk'.lasting \in {disk.selected, disk.lasting}
      /\ durable => disk'.lasting = disk.selected
      /\ ~durable => disk'.lasting = disk.lasting
  <2>1. a.named => d.lasting = d.selected
    BY <1>6, <1>8
  <2> QED BY <1>5, <1>8, <2>1, SynchronizeUpdate
<1>10. s.named => disk'.lasting = disk.selected
  BY <1>6, <1>7, <1>9
<1>11. Holds(s.gen, s.base, s.epoch)'
  BY <1>6, <1>7, <1>8, <1>9 DEF Holds
<1>12. /\ promised' \in Nat
       /\ \/ promised' = promised
          \/ promised' = disk'.files[s.gen].synced /\ disk'.lasting = disk.selected
  <2>1. a.epoch + 1 \in Nat
    BY SMT, <1>6
  <2> QED BY <1>5, <1>6, <1>7, <1>8, <1>9, <2>1
<1>13. s.epoch >= store.epoch /\ (s.group <=> store.group)
  <2>1. s.epoch >= store.epoch
    <3>1. s.epoch = store.epoch + 1
      BY <1>6, <1>7
    <3> QED BY SMT, <1>6, <3>1
  <2> QED BY <1>6, <1>7, <2>1
<1>14. /\ s.gen = AdoptedStore.gen /\ s.base = AdoptedStore.base
       /\ store.group /\ ~s.group => store.mark < s.epoch
       /\ s.group => (store.group /\ s.mark = store.mark) \/ s.mark >= store.epoch
       /\ \A h \in Generations : h = s.gen \/ disk'.files[h] = disk.files[h]
       /\ disk'.files[s.gen].synced >= disk.files[s.gen].synced
  BY <1>1, <1>6, <1>7, <1>8, <1>9
<1>15. /\ store' = s /\ control' = Submit(AdoptedControl, s)
       /\ owner' = [owner EXCEPT !.woken = TRUE] /\ reader' = reader
       /\ manual' \in Manuals /\ manual' = manual /\ budget' \in Budgets
  BY <1>5, <1>6
<1> QED BY <1>6, <1>7, <1>9, <1>10, <1>11, <1>12, <1>13, <1>14, <1>15, LeaveInv

\* begin_wal_sync_group, and the adoption by a caller that suspends the owner
LEMMA BeginOrAdoptInv ==
  ASSUME CheckpointInv, BeginGroup \/ AdoptSuspended
  PROVE  CheckpointInv'
<1>1. PICK a : a = AdoptedStore
  OBVIOUS
<1>2. PICK op \in {"begin", "adopt"} :
        /\ Enter(op)
        /\ (op = "begin" /\ BeginGroup) \/ (op = "adopt" /\ AdoptSuspended)
  BY DEF BeginGroup, AdoptSuspended
<1>3. /\ ~store.poisoned /\ owner.at # "settle" /\ front.op = op
      /\ front' \in Fronts /\ front'.op # "publish" /\ Caller'
      /\ a \in Stores /\ a.gen = disk.selected /\ a.epoch = store.epoch /\ a.group = store.group
      /\ a.mark = store.mark /\ a.gen \in Generations
      /\ a.named => disk.lasting = disk.selected
      /\ Holds(a.gen, a.base, a.epoch) /\ disk \in Disks /\ promised \in Nat
      /\ store.epoch \in Nat /\ manual \in Manuals /\ budget \in Budgets
  BY <1>1, <1>2, EnterFacts
<1>4. PICK s : s = IF op = "begin" THEN [a EXCEPT !.group = TRUE, !.mark = a.epoch] ELSE a
  OBVIOUS
<1>5. /\ store' = s /\ control' = Submit(AdoptedControl, s)
      /\ owner' = [owner EXCEPT !.woken = TRUE]
      /\ UNCHANGED <<disk, promised, reader, budget>>
  <2>1. CASE op = "begin"
    <3>1. BeginGroup
      BY <1>2, <2>1
    <3> QED BY <1>1, <1>4, <2>1, <3>1 DEF BeginGroup, Leave
  <2>2. CASE op = "adopt"
    BY <1>1, <1>2, <1>4, <2>2 DEF AdoptSuspended, Leave
  <2> QED BY <2>1, <2>2
<1>6. /\ manual' \in Manuals /\ manual'.src = manual.src /\ manual'.work = manual.work
      /\ manual'.at = manual.at \/ (manual.at = "suspended" /\ manual'.at = "waiting")
  <2>1. CASE op = "begin"
    <3>1. BeginGroup
      BY <1>2, <2>1
    <3> QED BY <1>3, <3>1 DEF BeginGroup
  <2>2. CASE op = "adopt"
    <3>1. manual.at = "suspended"
      BY <1>3, <2>2 DEF CheckpointInv, OwnerInv, Caller
    <3>2. manual' = [manual EXCEPT !.at = "waiting"]
      BY <1>2, <2>2 DEF AdoptSuspended
    <3> QED BY SMT, <1>3, <3>1, <3>2 DEF Manuals
  <2> QED BY <2>1, <2>2
<1>7. /\ s \in Stores /\ s.gen = a.gen /\ s.base = a.base /\ s.epoch = a.epoch /\ s.named = a.named
      /\ (s.group = a.group /\ s.mark = a.mark) \/ (s.group = TRUE /\ s.mark = a.epoch)
  BY <1>3, <1>4 DEF Stores
<1>8. s.epoch >= store.epoch /\ store.epoch >= store.epoch
  BY SMT, <1>3, <1>7
<1>9. /\ store.group /\ ~s.group => store.mark < s.epoch
      /\ s.group => (store.group /\ s.mark = store.mark) \/ s.mark >= store.epoch
  BY <1>3, <1>7, <1>8
<1>10. Holds(s.gen, s.base, s.epoch)'
  BY <1>3, <1>5, <1>7 DEF Holds
<1>11. disk'.files[s.gen].synced >= disk.files[s.gen].synced
  <2>1. disk.files[s.gen] \in Logs
    BY SMT, <1>3, <1>7 DEF Holds, Disks
  <2>2. disk.files[s.gen].synced \in Nat
    BY SMT, <2>1 DEF Logs, Contents
  <2> QED BY SMT, <1>5, <2>2
<1>12. s.named => disk'.lasting = disk.selected
  BY <1>3, <1>5, <1>7
<1> QED BY <1>1, <1>3, <1>5, <1>6, <1>7, <1>8, <1>9, <1>10, <1>11, <1>12, LeaveInv

\* The leader of a group: nothing waits to be adopted
LEMMA LeaderFacts ==
  ASSUME CheckpointInv, NEW op \in {"append", "finish"}, Enter(op)
  PROVE  /\ control.selected = None /\ AdoptedStore = store /\ store.group
         /\ op = "finish" => GroupWritten
         /\ store \in Stores /\ store.gen = disk.selected /\ store.gen \in Generations
         /\ store.named => disk.lasting = disk.selected
         /\ Holds(store.gen, store.base, store.epoch)
         /\ disk.files[store.gen] \in Logs
<1>1. /\ front.op = op /\ ~store.poisoned /\ owner.at # "settle"
      /\ AdoptedStore \in Stores /\ AdoptedStore.gen = disk.selected
      /\ AdoptedStore.gen \in Generations
      /\ AdoptedStore.named => disk.lasting = disk.selected
      /\ Holds(AdoptedStore.gen, AdoptedStore.base, AdoptedStore.epoch) /\ disk \in Disks
  BY EnterFacts
<1>2. store.group /\ (op = "finish" => GroupWritten)
  BY <1>1 DEF CheckpointInv, OwnerInv, Caller, GroupWritten
<1>3. control.selected = None
  BY <1>2, HandoffAlone
<1>4. AdoptedStore = store
  BY <1>3 DEF AdoptedStore
<1>5. disk.files[store.gen] \in Logs
  BY SMT, <1>1, <1>4 DEF Holds, Disks
<1> QED BY <1>1, <1>2, <1>3, <1>4, <1>5

\* A commit of the group
LEMMA GroupAppendInv ==
  ASSUME CheckpointInv, GroupAppend
  PROVE  CheckpointInv'
<1>1. PICK s : s = [store EXCEPT !.epoch = @ + 1]
  OBVIOUS
<1>2. /\ Enter("append") /\ disk' = Append(disk, store.gen, FALSE)
      /\ store' = s /\ control' = Submit(AdoptedControl, s)
      /\ owner' = [owner EXCEPT !.woken = TRUE]
      /\ UNCHANGED <<promised, manual, reader, budget>>
  BY <1>1 DEF GroupAppend, Leave
<1>3. /\ ~store.poisoned /\ owner.at # "settle"
      /\ front' \in Fronts /\ front'.op # "publish" /\ Caller'
      /\ disk \in Disks /\ promised \in Nat
      /\ store.epoch \in Nat /\ manual \in Manuals /\ budget \in Budgets
  BY <1>2, EnterFacts
<1>4. /\ AdoptedStore = store /\ store.group
      /\ store \in Stores /\ store.gen = disk.selected /\ store.gen \in Generations
      /\ store.named => disk.lasting = disk.selected
      /\ Holds(store.gen, store.base, store.epoch)
  BY <1>2, LeaderFacts
<1>5. /\ s \in Stores /\ s.gen = store.gen /\ s.base = store.base /\ s.epoch = store.epoch + 1
      /\ s.group = store.group /\ s.mark = store.mark /\ s.named = store.named
  <2>1. PICK n \in Nat : n = store.epoch + 1
    BY SMT, <1>3
  <2>2. s = [store EXCEPT !.epoch = n]
    BY SMT, <1>1, <1>4, <2>1 DEF Stores
  <2>3. /\ s \in Stores /\ s.gen = store.gen /\ s.base = store.base /\ s.epoch = n
        /\ s.group = store.group /\ s.mark = store.mark /\ s.named = store.named
    BY <1>4, <2>2 DEF Stores
  <2> QED BY <2>1, <2>3
<1>6. /\ disk' \in Disks /\ disk'.selected = disk.selected /\ disk'.lasting = disk.lasting
      /\ \A h \in Generations : h # store.gen => disk'.files[h] = disk.files[h]
      /\ disk'.files[store.gen] # None /\ disk'.files[store.gen].base = store.base
      /\ disk'.files[store.gen].tail = store.epoch + 1
      /\ disk'.files[store.gen].synced >= disk.files[store.gen].synced
  <2>1. disk.files[store.gen] # None
    BY <1>4 DEF Holds
  <2>2. PICK durable \in BOOLEAN : durable = FALSE
    OBVIOUS
  <2>3. PICK d : d = Append(disk, store.gen, durable)
    OBVIOUS
  <2>4. /\ d \in Disks /\ d.selected = disk.selected /\ d.lasting = disk.lasting
        /\ \A h \in Generations : h # store.gen => d.files[h] = disk.files[h]
        /\ d.files[store.gen] # None /\ d.files[store.gen].base = disk.files[store.gen].base
        /\ d.files[store.gen].tail = disk.files[store.gen].tail + 1
        /\ d.files[store.gen].synced >= disk.files[store.gen].synced
    <3>1. disk \in Disks /\ store.gen \in Generations
      BY <1>3, <1>4
    <3> QED BY SMT, <2>1, <2>3, <3>1, AppendUpdate
  <2> QED BY <1>2, <1>4, <2>2, <2>3, <2>4 DEF Holds
<1>7. Holds(s.gen, s.base, s.epoch)'
  BY <1>4, <1>5, <1>6 DEF Holds
<1>8. s.epoch >= store.epoch
  BY SMT, <1>3, <1>5
<1> QED BY <1>2, <1>3, <1>4, <1>5, <1>6, <1>7, <1>8, LeaveInv

\* finish_wal_sync_group
LEMMA FinishGroupInv ==
  ASSUME CheckpointInv, FinishGroup
  PROVE  CheckpointInv'
<1>1. Enter("finish")
  BY DEF FinishGroup
<1>2. /\ ~store.poisoned /\ owner.at # "settle"
      /\ front' \in Fronts /\ front'.op # "publish" /\ Caller'
      /\ disk \in Disks /\ promised \in Nat
      /\ store.epoch \in Nat /\ manual \in Manuals /\ budget \in Budgets
  BY <1>1, EnterFacts
<1>3. /\ AdoptedStore = store /\ store.group /\ GroupWritten
      /\ store \in Stores /\ store.gen = disk.selected /\ store.gen \in Generations
      /\ store.named => disk.lasting = disk.selected
      /\ Holds(store.gen, store.base, store.epoch) /\ disk.files[store.gen] \in Logs
  BY <1>1, LeaderFacts
<1>4. PICK s : s = [store EXCEPT !.group = FALSE, !.mark = 0, !.named = @ \/ GroupWritten]
  OBVIOUS
<1>5. PICK v : v = [disk.files[store.gen] EXCEPT !.synced = store.epoch]
  OBVIOUS
<1>6. PICK d : d = [disk EXCEPT !.files[store.gen] = v]
  OBVIOUS
<1>7. d = [disk EXCEPT !.files[store.gen].synced = store.epoch]
  BY <1>2, <1>3, <1>5, <1>6 DEF Disks
<1>8. /\ disk' = Synchronize(d, store) /\ promised' = store.epoch
      /\ store' = s /\ control' = Submit(AdoptedControl, s)
      /\ owner' = [owner EXCEPT !.woken = TRUE]
      /\ UNCHANGED <<manual, reader, budget>>
  BY <1>3, <1>4, <1>7 DEF FinishGroup, Leave
<1>9. /\ s \in Stores /\ s.gen = store.gen /\ s.base = store.base /\ s.epoch = store.epoch
      /\ s.group = FALSE
  <2>1. (store.named \/ GroupWritten) = TRUE
    BY <1>3
  <2>2. s = [store EXCEPT !.group = FALSE, !.mark = 0, !.named = TRUE]
    BY <1>4, <2>1
  <2> QED BY <1>3, <2>2 DEF Stores
<1>10. /\ v \in Logs /\ v.base = store.base /\ v.tail = store.epoch /\ v.synced = store.epoch
       /\ v.synced >= disk.files[store.gen].synced /\ v # None
  <2>1. disk.files[store.gen].tail = store.epoch /\ disk.files[store.gen].base = store.base
    BY <1>3 DEF Holds
  <2>2. /\ v \in Logs /\ v.base = store.base /\ v.tail = store.epoch /\ v.synced = store.epoch
        /\ v.synced >= disk.files[store.gen].synced
    BY SMTT(20), <1>2, <1>3, <1>5, <2>1 DEF Logs, Contents
  <2> QED BY <2>2, NoneFacts
<1>11. /\ d \in Disks /\ d.selected = disk.selected /\ d.lasting = disk.lasting
       /\ d.files[store.gen] = v
       /\ \A h \in Generations : h # store.gen => d.files[h] = disk.files[h]
  BY SMT, <1>2, <1>3, <1>6, <1>10, FileUpdate
<1>12. /\ disk' \in Disks /\ disk'.selected = disk.selected /\ disk'.files = d.files
       /\ disk'.lasting = disk.selected
  <2>1. store.named => d.lasting = d.selected
    BY <1>3, <1>11
  <2> QED BY <1>8, <1>11, <2>1, SynchronizeUpdate
<1>13. Holds(s.gen, s.base, s.epoch)'
  BY <1>3, <1>9, <1>10, <1>11, <1>12 DEF Holds
<1>14. s.epoch >= store.epoch /\ store.mark < s.epoch
  <2>1. store.epoch >= store.epoch
    BY SMT, <1>2
  <2> QED BY <1>3, <1>9, <2>1 DEF GroupWritten
<1> QED BY <1>2, <1>3, <1>8, <1>9, <1>10, <1>11, <1>12, <1>13, <1>14, LeaveInv

\* The flush of a group fails
LEMMA FinishGroupFailsInv ==
  ASSUME CheckpointInv, FinishGroupFails
  PROVE  CheckpointInv'
<1>1. Enter("finish") /\ Fault
  BY DEF FinishGroupFails
<1>2. /\ ~store.poisoned /\ owner.at # "settle"
      /\ front' \in Fronts /\ front'.op # "publish" /\ Caller'
      /\ disk \in Disks /\ promised \in Nat
      /\ store.epoch \in Nat /\ manual \in Manuals /\ budget \in Budgets
  BY <1>1, EnterFacts
<1>3. /\ AdoptedStore = store /\ store.group /\ GroupWritten /\ control.selected = None
      /\ store \in Stores /\ store.gen = disk.selected /\ store.gen \in Generations
      /\ store.named => disk.lasting = disk.selected
      /\ Holds(store.gen, store.base, store.epoch) /\ disk.files[store.gen] \in Logs
  BY <1>1, LeaderFacts
<1>4. budget' \in Budgets
  BY <1>1, <1>2, DisturbType
<1>5. PICK s : s = [store EXCEPT !.group = FALSE, !.mark = 0, !.poisoned = TRUE]
  OBVIOUS
<1>6. /\ s \in Stores /\ s.gen = store.gen /\ s.base = store.base /\ s.epoch = store.epoch
      /\ s.group = FALSE /\ s.named = store.named
  BY <1>3, <1>5 DEF Stores
<1>7. /\ store' = s /\ owner' = [owner EXCEPT !.woken = TRUE]
      /\ UNCHANGED <<promised, manual, reader>>
  BY <1>5 DEF FinishGroupFails
<1>8. s.epoch >= store.epoch /\ store.mark < s.epoch
  <2>1. store.epoch >= store.epoch
    BY SMT, <1>2
  <2> QED BY <1>3, <1>6, <2>1 DEF GroupWritten
<1>9. disk.files[store.gen].synced >= disk.files[store.gen].synced
  BY SMT, <1>3 DEF Logs, Contents
<1>10. CASE control.pending # None /\ control.pending.kind = "preparation"
  <2>1. /\ disk' = Drop(disk, control.pending)
        /\ control' = [Submit(AdoptedControl, s) EXCEPT !.pending = None]
    BY <1>5, <1>10 DEF FinishGroupFails
  <2>2. /\ control.pending \in Works /\ control.pending.gen > store.gen
        /\ control.pending.gen \in Generations
    <3>1. control.pending \in Works /\ control.pending.gen > store.gen /\ Complete(control.pending)
      BY <1>10 DEF CheckpointInv, OwnerInv, Types, Controls, Numbers, DiskInv, Images
    <3> QED BY <1>10, <3>1 DEF Complete
  <2>3. store.gen # control.pending.gen
    BY SMT, <1>3, <2>2 DEF Works, Stores
  <2>4. /\ disk' \in Disks /\ disk'.selected = disk.selected /\ disk'.lasting = disk.lasting
        /\ \A h \in Generations : h # control.pending.gen => disk'.files[h] = disk.files[h]
    BY <1>2, <2>1, <2>2, DropUpdate
  <2>5. disk'.files[store.gen] = disk.files[store.gen]
    BY <1>3, <2>3, <2>4
  <2>6. Holds(s.gen, s.base, s.epoch)'
    BY <1>3, <1>6, <2>5 DEF Holds
  <2>7. control'.pending = None
    <3>1. /\ control \in Controls /\ AdoptedControl = control /\ control.last.gen = control.generation
      BY <1>3 DEF CheckpointInv, OwnerInv, Types, AdoptedControl, Capture
    <3>2. Submit(AdoptedControl, s) \in Controls
      BY <1>6, <3>1, SubmitFacts
    <3> QED BY <2>1, <3>2 DEF Controls
  <2> QED BY <1>2, <1>3, <1>4, <1>6, <1>7, <1>8, <1>9, <1>10, <2>1, <2>4, <2>5, <2>6, <2>7, LeaveInv
<1>11. CASE ~(control.pending # None /\ control.pending.kind = "preparation")
  <2>1. disk' = disk /\ control' = Submit(AdoptedControl, s)
    BY <1>5, <1>11 DEF FinishGroupFails
  <2>2. Holds(s.gen, s.base, s.epoch)'
    BY SMT, <1>3, <1>6, <2>1 DEF Holds
  <2> QED BY <1>2, <1>3, <1>4, <1>6, <1>7, <1>8, <1>9, <2>1, <2>2, LeaveInv
<1> QED BY <1>10, <1>11

\* The owner adopts on the spot what it has published
LEMMA OfferHandoffInv ==
  ASSUME CheckpointInv, OfferHandoff
  PROVE  CheckpointInv'
<1>1. CASE ~NoGuards
  BY <1>1, RetirementInv
<1>2. CASE NoGuards
  <2>1. control.selected # None /\ Adoptable
    <3>1. HandoffAdoptable
      BY OfferedAdoptable DEF CheckpointInv
    <3> QED BY <3>1 DEF OfferHandoff, CheckpointInv, OwnerInv, Ownership, HandoffAdoptable
  <2>2. /\ owner.at \in {"loop", "parked"} /\ ~store.poisoned /\ front.op # "publish"
    BY <2>1, HandoffAlone
  <2>3. PICK s : s = AdoptedStore
    OBVIOUS
  <2>4. /\ store' = s /\ control' = Submit(AdoptedControl, s)
        /\ owner' = [owner EXCEPT !.woken = TRUE]
        /\ UNCHANGED <<disk, promised, manual, front, reader, budget>>
    BY <1>2, <2>1, <2>3 DEF OfferHandoff, Leave
  <2>5. /\ s \in Stores /\ s.gen = disk.selected
        /\ s.epoch = store.epoch /\ s.group = store.group /\ s.mark = store.mark
        /\ s.named => disk.lasting = disk.selected
        /\ Holds(s.gen, s.base, s.epoch)
    BY <2>2, <2>3, AdoptedFacts
  <2>6. /\ manual \in Manuals /\ budget \in Budgets /\ disk \in Disks /\ promised \in Nat
        /\ front \in Fronts
    BY DEF CheckpointInv, OwnerInv, DiskInv, Types
  <2>7. Caller'
    BY <2>4, <2>5 DEF CheckpointInv, OwnerInv, Caller
  <2>8. Holds(s.gen, s.base, s.epoch)'
    BY <2>4, <2>5 DEF Holds
  <2>9. disk'.files[s.gen].synced >= disk.files[s.gen].synced /\ s.epoch >= store.epoch
    <3>1. disk.files[s.gen] \in Logs
      BY <2>5, <2>6 DEF Holds, Disks
    <3>2. disk.files[s.gen].synced \in Nat /\ s.epoch \in Nat
      BY SMT, <2>5, <3>1 DEF Logs, Contents, Stores
    <3> QED BY SMTT(20), <2>4, <2>5, <3>2
  <2> QED BY <2>2, <2>3, <2>4, <2>5, <2>6, <2>7, <2>8, <2>9, LeaveInv
<1> QED BY <1>1, <1>2

\* A reader adopts what was published
LEMMA AdoptForReadInv ==
  ASSUME CheckpointInv, AdoptForRead
  PROVE  CheckpointInv'
<1>1. control.selected # None
  BY DEF AdoptForRead
<1>2. /\ owner.at \in {"loop", "parked"} /\ ~store.poisoned /\ front.op # "publish"
      /\ control.latest = None /\ control.pending = None /\ owner.src = None
  BY <1>1, HandoffAlone
<1>3. PICK s : s = AdoptedStore
  OBVIOUS
<1>4. /\ store' = s /\ control' = AdoptedControl
      /\ owner' = [owner EXCEPT !.woken = TRUE]
      /\ UNCHANGED <<disk, promised, manual, front, reader, budget>>
  BY <1>3 DEF AdoptForRead
<1>5. /\ s \in Stores /\ s.gen = disk.selected /\ s.gen > store.gen
      /\ s.epoch = store.epoch /\ s.group = store.group /\ s.mark = store.mark
      /\ s.named => disk.lasting = disk.selected
      /\ Holds(s.gen, s.base, s.epoch)
      /\ control' \in Controls /\ SameKnowledge(control', control)
      /\ control'.group = control.group /\ control'.suspended = control.suspended
      /\ control'.pending = control.pending /\ control'.failed = control.failed
      /\ control'.selected = None
  BY <1>1, <1>2, <1>3, <1>4, AdoptedFacts
<1>6. /\ manual \in Manuals /\ budget \in Budgets /\ disk \in Disks /\ promised \in Nat
      /\ front \in Fronts /\ owner \in Owners /\ reader \in Pinnings /\ control.group = store.group
  BY DEF CheckpointInv, OwnerInv, DiskInv, Types, Shape
<1>7. /\ owner' \in Owners /\ owner'.at = owner.at /\ owner'.src = owner.src
      /\ owner'.work = owner.work /\ owner'.pins = owner.pins
  BY <1>4, <1>6 DEF Owners
<1>8. Caller'
  BY <1>4, <1>5 DEF CheckpointInv, OwnerInv, Caller
<1>9. Holds(store.gen, store.base, store.epoch)'
  BY <1>4, <1>5 DEF Holds
<1>10. disk'.files[s.gen].synced >= disk.files[s.gen].synced /\ s.epoch >= store.epoch
  <2>1. disk.files[s.gen] \in Logs
    BY <1>5, <1>6 DEF Holds, Disks
  <2>2. disk.files[s.gen].synced \in Nat /\ s.epoch \in Nat
    BY SMT, <1>5, <2>1 DEF Logs, Contents, Stores
  <2> QED BY SMTT(20), <1>4, <1>5, <2>2
<1>11. Types'
  BY <1>4, <1>5, <1>6, <1>7 DEF Types
<1>12. Ownership' /\ Shape' /\ Offered' /\ Numbers'
  BY <1>2, <1>3, <1>4, <1>5, <1>6, <1>7, <1>10, LeaveOwns
<1>13. Capture' /\ Attempt'
  <2>1. control.generation = store.gen /\ control.last.gen = control.generation
    BY <1>1, HandoffAlone DEF Fresh, CheckpointInv, OwnerInv, Capture
  <2>2. s.gen # store.gen
    BY SMT, <1>5 DEF CheckpointInv, OwnerInv, Types, Stores
  <2> QED BY <1>2, <1>4, <1>5, <1>7, <2>1, <2>2 DEF Capture, Attempt, Fresh, SameKnowledge
<1>14. DiskInv'
  BY <1>2, <1>3, <1>4, <1>5, <1>6, <1>7, <1>9, <1>10, LeaveDisk
<1> QED BY <1>8, <1>11, <1>12, <1>13, <1>14 DEF CheckpointInv, OwnerInv
=============================================================================
