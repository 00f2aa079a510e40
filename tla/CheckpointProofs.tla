-------------------------- MODULE CheckpointProofs ---------------------------
(***************************************************************************)
(* What Checkpoint promises for any number of commits, generations,        *)
(* readers, denials, faults and crashes: a published generation can always *)
(* be adopted, private work never touches a generation in use, no adoption *)
(* or publication takes a commit back, and every generation the manifest   *)
(* may name holds what was promised.                                       *)
(***************************************************************************)
EXTENDS CheckpointCallerProofs

USE ZenonT(40)

-----------------------------------------------------------------------------
(* Explicit publication, and callers that are sent away *)

\* After an explicit publication, whatever came of it, the owner is idle
LEMMA PublishedOwns ==
  ASSUME CheckpointInv, manual.at = "prepared", NEW s \in Stores, Published(s),
         s.gen # store.gen \/ (s.base = store.base /\ s.epoch >= store.epoch),
         front' \in Fronts, Caller', budget' \in Budgets
  PROVE  /\ OwnerInv' /\ control'.pending = None /\ control'.selected = None
         /\ control'.phase = "Idle" /\ owner'.at = "loop" /\ manual'.at = "idle"
         /\ manual'.work = None
<1>1. /\ control \in Controls /\ owner \in Owners /\ control.phase = "Idle" /\ reader \in Pinnings
  BY DEF CheckpointInv, OwnerInv, Types, Ownership
<1>2. /\ owner.at = "loop" /\ owner.at \notin Attempting /\ control.selected = None
      /\ control.pending = None /\ control.retired = None
  BY <1>1, ExplicitAlone
<1>3. owner.src = None /\ owner.work = None /\ ~control.failed
  BY <1>2 DEF CheckpointInv, OwnerInv, Shape
<1>4. PICK c : c = Unsuspended(control)
  OBVIOUS
<1>5. /\ c \in Controls /\ SameKnowledge(c, control) /\ c.suspended = FALSE
      /\ c.group = control.group /\ c.selected = control.selected /\ c.pending = control.pending
      /\ c.retired = control.retired /\ c.failed = control.failed /\ c.phase = control.phase
  BY <1>1, <1>4, UnsuspendedFacts
<1>6. /\ store' = s /\ control' = Submit(c, s) /\ owner' = [owner EXCEPT !.woken = TRUE]
      /\ manual' = NoManual /\ reader' = reader
  BY <1>4 DEF Published
<1>7. /\ control' \in Controls
      /\ control'.phase = "Idle" /\ control'.suspended = FALSE /\ control'.pending = None
      /\ control'.selected = None /\ control'.retired = None /\ ~control'.failed
      /\ control'.group = s.group /\ control'.generation = s.gen /\ control'.last = Captured(s)
      /\ ~control'.snapshot /\ control'.last.gen = s.gen
      /\ control'.latest # None =>
           /\ control'.latest.gen = s.gen /\ control'.latest.base = s.base
           /\ control'.latest.epoch <= s.epoch
  BY <1>1, <1>2, <1>3, <1>5, <1>6, SubmitCapture DEF CheckpointInv
<1>8. /\ owner' \in Owners /\ owner'.at = "loop" /\ owner'.src = None /\ owner'.work = None
  BY <1>1, <1>2, <1>3, <1>6 DEF Owners
<1>9. manual' \in Manuals /\ manual'.at = "idle" /\ manual'.src = None /\ manual'.work = None
  BY <1>6, NoManualFacts
<1>10. Types'
  BY <1>1, <1>6, <1>7, <1>8, <1>9 DEF Types
<1>11. control'.phase \in PhasesAt[owner'.at]
  BY SMT, <1>7, <1>8 DEF PhasesAt
<1>12. Ownership' /\ Shape'
  BY <1>6, <1>7, <1>8, <1>9, <1>11 DEF Ownership, Shape, Attempting
<1>13. Capture' /\ Attempt' /\ Offered' /\ Numbers'
  BY <1>6, <1>7, <1>8, <1>9 DEF Capture, Attempt, Offered, Numbers, Fresh, Attempting
<1> QED BY <1>7, <1>8, <1>9, <1>10, <1>12, <1>13 DEF OwnerInv

\* What a caller that publishes finds
LEMMA PublisherFacts ==
  ASSUME CheckpointInv, Enter("publish")
  PROVE  /\ manual.at = "prepared" /\ front' \in Fronts /\ front'.op # "publish" /\ Caller'
         /\ disk \in Disks /\ store \in Stores /\ budget \in Budgets /\ promised \in Nat
         /\ disk.selected = store.gen /\ store.gen \in Nat /\ store.epoch \in Nat
         /\ manual.work \in Works /\ manual.work.gen > store.gen
         /\ manual.work.gen \in Generations /\ manual.work.kind = "prepared"
         /\ Holds(manual.work.gen, manual.work.base, manual.work.epoch)
         /\ disk.files[manual.work.gen].synced = manual.work.epoch
         /\ manual.src \in Sources /\ manual.src.gen = store.gen
         /\ manual.work.epoch = manual.src.epoch
         /\ \A h \in Generations : h <= store.gen => h # manual.work.gen
<1>1. /\ front.op = "publish" /\ front' \in Fronts /\ front'.op # "publish" /\ Caller'
      /\ budget \in Budgets /\ disk \in Disks /\ promised \in Nat /\ store.epoch \in Nat
  BY EnterFacts
<1>2. manual.at = "prepared"
  BY <1>1 DEF CheckpointInv, OwnerInv, Caller
<1>3. control.phase = "Idle" /\ store \in Stores /\ manual \in Manuals
  BY <1>2 DEF CheckpointInv, OwnerInv, Ownership, Types
<1>4. disk.selected = store.gen /\ store.gen \in Nat
  BY <1>2, <1>3, ExplicitAlone
<1>5. /\ manual.work # None /\ manual.work.gen > store.gen /\ manual.work.kind = "prepared"
      /\ manual.src \in Sources /\ manual.src.gen = store.gen
      /\ manual.work.epoch = manual.src.epoch /\ Complete(manual.work)
      /\ disk.files[manual.work.gen].synced = manual.work.epoch
  BY <1>2 DEF CheckpointInv, OwnerInv, Shape, Numbers, DiskInv, Images
<1>6. manual.work \in Works
  BY SMT, <1>3, <1>5 DEF Manuals
<1>7. /\ Holds(manual.work.gen, manual.work.base, manual.work.epoch)
      /\ manual.work.gen \in Generations
  BY <1>5 DEF Complete
<1>8. \A h \in Generations : h <= store.gen => h # manual.work.gen
  BY SMT, <1>4, <1>5, <1>6, CheckpointAssumption DEF Works, Generations
<1> QED BY <1>1, <1>2, <1>3, <1>4, <1>5, <1>6, <1>7, <1>8

\* A publication that fails leaves the store and what the manifest names alone
LEMMA PublicationFailsInv ==
  ASSUME CheckpointInv, ~DirectBarrierFaults,
         PublishChanged \/ PublishSidecarsFail \/ PublishManifestFails
  PROVE  CheckpointInv'
<1>1. Enter("publish") /\ Published(store) /\ promised' = promised
  BY DEF PublishChanged, PublishSidecarsFail, PublishManifestFails
<1>2. /\ manual.at = "prepared" /\ front' \in Fronts /\ front'.op # "publish" /\ Caller'
      /\ disk \in Disks /\ store \in Stores /\ budget \in Budgets /\ promised \in Nat
      /\ disk.selected = store.gen /\ store.gen \in Nat /\ store.epoch \in Nat
      /\ manual.work \in Works /\ manual.work.gen \in Generations
      /\ \A h \in Generations : h <= store.gen => h # manual.work.gen
  BY <1>1, PublisherFacts
<1>3. budget' \in Budgets
  BY <1>2, DisturbType DEF PublishChanged, PublishSidecarsFail, PublishManifestFails
<1>4. store.epoch >= store.epoch /\ store.gen <= store.gen
  BY SMT, <1>2
<1>5. /\ OwnerInv' /\ control'.pending = None /\ control'.selected = None
      /\ control'.phase = "Idle" /\ owner'.at = "loop" /\ manual'.at = "idle"
      /\ manual'.work = None
  BY <1>1, <1>2, <1>3, <1>4, PublishedOwns
<1>6. store' = store /\ reader' = reader
  BY <1>1 DEF Published
<1>7. /\ disk' \in Disks /\ disk'.selected = disk.selected /\ disk'.lasting = disk.lasting
      /\ \A h \in Generations : h # manual.work.gen => disk'.files[h] = disk.files[h]
  <2>1. \/ disk' = DiscardPrepared(disk, manual.work.gen)
        \/ disk' = [disk EXCEPT !.staging = @ \ {manual.work.gen}]
    BY DEF PublishChanged, PublishSidecarsFail, PublishManifestFails
  <2>2. disk \in Disks /\ manual.work.gen \in Generations
    BY <1>2
  <2>3. CASE disk' = DiscardPrepared(disk, manual.work.gen)
    BY <2>2, <2>3 DEF Disks, DiscardPrepared
  <2>4. CASE disk' = [disk EXCEPT !.staging = @ \ {manual.work.gen}]
    BY <2>2, <2>4 DEF Disks
  <2> QED BY <2>1, <2>3, <2>4
<1>8. Images'
  <2>1. Holds(store.gen, store.base, store.epoch)'
    BY <1>2, <1>4, <1>6, <1>7 DEF CheckpointInv, DiskInv, Images, Holds
  <2> QED BY <1>5, <2>1 DEF Images, Complete, Attempting
<1>9. Selector'
  BY <1>2, <1>5, <1>6, <1>7 DEF Selector
<1>10. disk.lasting \in Generations /\ disk.lasting <= store.gen
  <2>1. disk.lasting \in Generations
    BY SMT, <1>2 DEF Disks
  <2> QED BY <1>2, <1>4, <2>1 DEF CheckpointInv, DiskInv, Lasting
<1>11. \A h \in {disk.selected, disk.lasting} : disk'.files[h] = disk.files[h]
  <2>1. disk.selected \in Generations /\ disk.selected <= store.gen
    BY SMT, <1>2 DEF Disks
  <2> QED BY <1>2, <1>7, <1>10, <2>1
<1>12. Recoverable'
  BY <1>1, <1>7, <1>11 DEF CheckpointInv, DiskInv, Recoverable
<1>13. Lasting'
  BY <1>5, <1>6, <1>7 DEF CheckpointInv, DiskInv, Lasting
<1>14. Pinned'
  <2>1. PinnedGenerations' = PinnedGenerations
    BY <1>6 DEF PinnedGenerations
  <2>2. \A g \in PinnedGenerations : g \in Generations /\ g <= store.gen /\ disk'.files[g] # None
    BY <1>2, <1>7 DEF CheckpointInv, DiskInv, Pinned
  <2> QED BY <1>2, <1>5, <1>6, <2>1, <2>2 DEF Pinned
<1> QED BY <1>1, <1>2, <1>5, <1>7, <1>8, <1>9, <1>12, <1>13, <1>14 DEF CheckpointInv, DiskInv

\* An explicit checkpoint is published and the generations before it reclaimed
LEMMA PublishInv ==
  ASSUME CheckpointInv, Publish
  PROVE  CheckpointInv'
<1>1. PICK w : w = manual.work
  OBVIOUS
<1>2. PICK s : s = [store EXCEPT !.gen = w.gen, !.base = w.base, !.epoch = w.epoch, !.named = TRUE]
  OBVIOUS
<1>3. PICK d : d = Select(disk, w.gen, TRUE)
  OBVIOUS
<1>4. /\ Enter("publish") /\ Published(s) /\ promised' = w.epoch /\ budget' = budget
      /\ disk' = Reclaim(d, w.gen, manual.src.gen, manual.pins)
  BY <1>1, <1>2, <1>3 DEF Publish, RotatedStore
<1>5. /\ manual.at = "prepared" /\ front' \in Fronts /\ front'.op # "publish" /\ Caller'
      /\ disk \in Disks /\ store \in Stores /\ budget \in Budgets
      /\ disk.selected = store.gen /\ store.gen \in Nat
      /\ w \in Works /\ w.gen > store.gen /\ w.gen \in Generations
      /\ Holds(w.gen, w.base, w.epoch) /\ disk.files[w.gen].synced = w.epoch
      /\ manual.src \in Sources /\ manual.src.gen = store.gen
  BY <1>1, <1>4, PublisherFacts
<1>6. w.gen \in Nat /\ w.base \in Nat /\ w.epoch \in Nat /\ w.gen # store.gen /\ ~(w.gen < w.gen)
      /\ w.epoch >= w.epoch
  BY SMT, <1>5 DEF Works
<1>7. s \in Stores /\ s.gen = w.gen /\ s.base = w.base /\ s.epoch = w.epoch
  BY <1>2, <1>5, <1>6 DEF Stores
<1>8. /\ OwnerInv' /\ control'.pending = None /\ control'.selected = None
      /\ control'.phase = "Idle" /\ owner'.at = "loop" /\ manual'.at = "idle"
      /\ manual'.work = None
  BY <1>4, <1>5, <1>6, <1>7, PublishedOwns
<1>9. store' = s /\ reader' = reader
  BY <1>4 DEF Published
<1>10. d \in Disks /\ d.selected = w.gen /\ d.lasting = w.gen /\ d.files = disk.files
  <2>1. TRUE \in BOOLEAN /\ disk \in Disks /\ w.gen \in Generations
    BY <1>5
  <2> QED BY <1>3, <2>1, SelectUpdate
<1>11. /\ disk' \in Disks /\ disk'.selected = w.gen /\ disk'.lasting = w.gen
       /\ \A h \in Generations :
            ~(h < w.gen) \/ h \in manual.pins \cup {store.gen} => disk'.files[h] = disk.files[h]
  <2>1. disk' = Reclaim(d, w.gen, store.gen, manual.pins) /\ d \in Disks
    BY <1>4, <1>5, <1>10
  <2> QED BY SMT, <1>10, <2>1, ReclaimUpdate
<1>12. disk'.files[w.gen] = disk.files[w.gen]
  BY <1>5, <1>6, <1>11
<1>13. Holds(store.gen, store.base, store.epoch)'
  BY <1>5, <1>7, <1>9, <1>12 DEF Holds
<1>14. Images'
  BY <1>8, <1>13 DEF Images, Complete, Attempting
<1>15. Selector' /\ Lasting'
  BY <1>7, <1>8, <1>9, <1>11 DEF Selector, Lasting
<1>16. Recoverable'
  BY <1>4, <1>5, <1>6, <1>11, <1>12 DEF Recoverable, Holds
<1>17. Pinned'
  <2>1. PinnedGenerations' = PinnedGenerations /\ PinnedGenerations \subseteq manual.pins \cup {store.gen}
    <3>1. front.op = "publish"
      BY <1>4 DEF Enter
    <3> QED BY <1>9, <3>1 DEF CheckpointInv, DiskInv, Pinned, PinnedGenerations
  <2>2. ASSUME NEW g \in PinnedGenerations
        PROVE  g \in Generations /\ g <= w.gen /\ disk'.files[g] # None
    <3>1. g \in Generations /\ g <= store.gen /\ disk.files[g] # None
      BY DEF CheckpointInv, DiskInv, Pinned
    <3>2. g <= w.gen
      BY SMT, <1>5, <1>6, <3>1, CheckpointAssumption DEF Generations
    <3> QED BY <1>11, <2>1, <3>1, <3>2
  <2> QED BY <1>5, <1>7, <1>8, <1>9, <2>1, <2>2 DEF Pinned
<1>18. promised' \in Nat
  BY <1>4, <1>6
<1> QED BY <1>8, <1>11, <1>14, <1>15, <1>16, <1>17, <1>18 DEF CheckpointInv, DiskInv

\* A publication that selects the new generation and then fails to load it
LEMMA PublishAdoptionFailsInv ==
  ASSUME CheckpointInv, PublishAdoptionFails
  PROVE  CheckpointInv'
<1>1. PICK w : w = manual.work
  OBVIOUS
<1>2. PICK integrity \in BOOLEAN : Published([RotatedStore EXCEPT !.poisoned = integrity])
  BY DEF PublishAdoptionFails
<1>3. PICK s : s = [store EXCEPT !.gen = w.gen, !.base = w.base, !.epoch = w.epoch,
                                 !.named = TRUE, !.poisoned = integrity]
  OBVIOUS
<1>4. /\ Enter("publish") /\ Published(s) /\ promised' = promised /\ SourceUnchanged
      /\ disk' = Select(disk, w.gen, TRUE)
  <2>1. s = [RotatedStore EXCEPT !.poisoned = integrity]
    BY <1>1, <1>3 DEF RotatedStore
  <2> QED BY <1>1, <1>2, <2>1 DEF PublishAdoptionFails
<1>5. /\ manual.at = "prepared" /\ front' \in Fronts /\ front'.op # "publish" /\ Caller'
      /\ disk \in Disks /\ store \in Stores /\ budget \in Budgets /\ promised \in Nat
      /\ disk.selected = store.gen /\ store.gen \in Nat /\ store.epoch \in Nat
      /\ w \in Works /\ w.gen > store.gen /\ w.gen \in Generations
      /\ Holds(w.gen, w.base, w.epoch) /\ disk.files[w.gen].synced = w.epoch
      /\ manual.src \in Sources /\ w.epoch = manual.src.epoch
  BY <1>1, <1>4, PublisherFacts
<1>6. w.gen \in Nat /\ w.base \in Nat /\ w.epoch \in Nat /\ w.gen # store.gen
  BY SMT, <1>5 DEF Works
<1>7. s \in Stores /\ s.gen = w.gen /\ s.base = w.base /\ s.epoch = w.epoch
  <2>1. integrity \in BOOLEAN /\ store \in Stores
    BY <1>5
  <2> QED BY <1>3, <1>6, <2>1 DEF Stores
<1>8. budget' \in Budgets
  BY <1>5, DisturbType DEF PublishAdoptionFails
<1>9. /\ OwnerInv' /\ control'.pending = None /\ control'.selected = None
      /\ control'.phase = "Idle" /\ owner'.at = "loop" /\ manual'.at = "idle"
      /\ manual'.work = None
  BY <1>4, <1>5, <1>6, <1>7, <1>8, PublishedOwns
<1>10. store' = s /\ reader' = reader
  BY <1>4 DEF Published
<1>11. disk' \in Disks /\ disk'.selected = w.gen /\ disk'.lasting = w.gen /\ disk'.files = disk.files
  <2>1. TRUE \in BOOLEAN /\ disk \in Disks /\ w.gen \in Generations
    BY <1>5
  <2> QED BY <1>4, <2>1, SelectUpdate
<1>12. Holds(store.gen, store.base, store.epoch)'
  BY <1>5, <1>7, <1>10, <1>11 DEF Holds
<1>13. Images'
  BY <1>9, <1>12 DEF Images, Complete, Attempting
<1>14. Selector' /\ Lasting'
  BY <1>7, <1>9, <1>10, <1>11 DEF Selector, Lasting
<1>15. promised <= w.epoch
  <2>1. w.epoch = store.epoch
    BY <1>4, <1>5, IdentityEqual, CapturedType DEF SourceUnchanged
  <2>2. disk.files[store.gen] \in Logs /\ disk.files[store.gen].tail = store.epoch
    <3>1. Holds(store.gen, store.base, store.epoch)
      BY DEF CheckpointInv, DiskInv, Images
    <3> QED BY SMT, <1>5, <3>1 DEF Holds, Disks
  <2>3. disk.files[store.gen].synced >= promised
    BY <1>5 DEF CheckpointInv, DiskInv, Recoverable
  <2> QED BY SMT, <1>5, <2>1, <2>2, <2>3 DEF Logs, Contents
<1>16. Recoverable'
  <2>1. w.epoch >= promised
    BY SMT, <1>5, <1>6, <1>15
  <2> QED BY <1>4, <1>5, <1>11, <2>1 DEF Recoverable, Holds
<1>17. Pinned'
  <2>1. PinnedGenerations' = PinnedGenerations
    BY <1>10 DEF PinnedGenerations
  <2>2. ASSUME NEW g \in PinnedGenerations
        PROVE  g \in Generations /\ g <= w.gen /\ disk'.files[g] # None
    <3>1. g \in Generations /\ g <= store.gen /\ disk.files[g] # None
      BY DEF CheckpointInv, DiskInv, Pinned
    <3>2. g <= w.gen
      BY SMT, <1>5, <1>6, <3>1, CheckpointAssumption DEF Generations
    <3> QED BY <1>11, <3>1, <3>2
  <2> QED BY <1>5, <1>7, <1>9, <1>10, <2>1, <2>2 DEF Pinned
<1> QED BY <1>4, <1>5, <1>9, <1>11, <1>13, <1>14, <1>16, <1>17 DEF CheckpointInv, DiskInv

\* An empty get_mut
LEMMA NoFrontFacts ==
  NoFront \in Fronts /\ NoFront.op = None /\ NoFront.op \notin Operations
<1>1. NoFront \in Fronts /\ NoFront.op = None
  BY SMT DEF NoFront, Fronts
<1> QED BY <1>1, NoneFacts

\* An explicit checkpoint is sent away
LEMMA GivesUpInv ==
  ASSUME CheckpointInv, front.op \in {"adopt", "publish"},
         front' = NoFront, manual' = NoManual, control' = Unsuspended(control),
         UNCHANGED <<disk, store, promised, owner, reader, budget>>
  PROVE  CheckpointInv'
<1>1. /\ control \in Controls /\ owner \in Owners /\ budget \in Budgets /\ disk \in Disks
  BY DEF CheckpointInv, OwnerInv, DiskInv, Types
<1>2. manual.at \in {"suspended", "prepared"}
  BY DEF CheckpointInv, OwnerInv, Caller
<1>3. control.pending = None /\ ~Uncertain
  BY <1>2 DEF CheckpointInv, OwnerInv, Ownership, Uncertain
<1>4. /\ control' \in Controls /\ SameKnowledge(control', control) /\ control'.suspended = FALSE
      /\ control'.group = control.group /\ control'.selected = control.selected
      /\ control'.pending = control.pending /\ control'.retired = control.retired
      /\ control'.failed = control.failed /\ control'.phase = control.phase
  BY <1>1, UnsuspendedFacts
<1>5. manual' \in Manuals /\ manual'.at = "idle" /\ manual'.work = None
  BY NoManualFacts
<1>6. front' \in Fronts /\ front'.op # "publish" /\ Caller'
  BY NoFrontFacts DEF Operations, Caller
<1>7. Ownership'
  BY <1>2, <1>3, <1>4, <1>5 DEF CheckpointInv, OwnerInv, Ownership
<1>8. Shape' /\ Numbers'
  BY <1>3, <1>4, <1>5 DEF CheckpointInv, OwnerInv, Shape, Numbers
<1>9. PICK w : w = None
  OBVIOUS
<1>10. Complete(w)'
  BY <1>9 DEF Complete
<1> QED BY <1>1, <1>3, <1>4, <1>5, <1>6, <1>7, <1>8, <1>9, <1>10, ExplicitStep

\* Any other caller is sent away
LEMMA CallerLeavesInv ==
  ASSUME CheckpointInv, front' = NoFront,
         UNCHANGED <<disk, store, promised, control, owner, manual, reader, budget>>
  PROVE  CheckpointInv'
<1>1. owner \in Owners /\ manual \in Manuals /\ reader \in Pinnings
  BY DEF CheckpointInv, OwnerInv, Types
<1>2. front' \in Fronts /\ front'.op # "publish" /\ Caller'
  BY NoFrontFacts DEF Operations, Caller
<1>3. PinnedGenerations' = PinnedGenerations
  BY DEF PinnedGenerations
<1> QED BY <1>1, <1>2, <1>3, QuietStep

\* A caller times out or is refused
LEMMA SentAwayInv ==
  ASSUME CheckpointInv, CapacityTimeout \/ Refuse
  PROVE  CheckpointInv'
<1>1. CASE CapacityTimeout
  <2>1. CASE front.op \in {"adopt", "publish"}
    BY <1>1, <2>1, GivesUpInv DEF CapacityTimeout
  <2>2. CASE front.op \notin {"adopt", "publish"}
    BY <1>1, <2>2, CallerLeavesInv DEF CapacityTimeout
  <2> QED BY <2>1, <2>2
<1>2. CASE Refuse
  <2>1. control.selected = None
    <3>1. HandoffAdoptable
      BY OfferedAdoptable DEF CheckpointInv
    <3> QED BY <1>2, <3>1 DEF Refuse, HandoffAdoptable, Adoptable
  <2>2. store' = store
    <3>1. store \in Stores /\ store' = [store EXCEPT !.poisoned = @ \/ control.selected # None]
      BY <1>2 DEF Refuse, CheckpointInv, OwnerInv, Types
    <3>2. store.poisoned = TRUE \/ store.poisoned = FALSE
      BY SMT, <3>1 DEF Stores
    <3>3. (store.poisoned \/ control.selected # None) = store.poisoned
      BY <2>1, <3>2
    <3>4. store' = [store EXCEPT !.poisoned = store.poisoned]
      BY <3>1, <3>3
    <3> QED BY SMT, <3>1, <3>4 DEF Stores
  <2>3. CASE front.op \in {"adopt", "publish"}
    <3>1. Unsuspended(control).selected = None
      BY <2>1, UnsuspendedFacts DEF CheckpointInv, OwnerInv, Types
    <3> QED BY <1>2, <2>2, <2>3, <3>1, GivesUpInv DEF Refuse
  <2>4. CASE front.op \notin {"adopt", "publish"}
    BY <1>2, <2>1, <2>2, <2>4, CallerLeavesInv DEF Refuse
  <2> QED BY <2>3, <2>4
<1> QED BY <1>1, <1>2

-----------------------------------------------------------------------------
(* Opening *)

\* A store that was just opened on what the manifest names
Reopened ==
  /\ \E g, base, epoch \in Nat, policy \in Policies : store = Opened(g, base, epoch, policy)
  /\ control = Started(store)
  /\ owner = NoOwner /\ manual = NoManual /\ front = NoFront /\ reader = NoReader
  /\ budget \in Budgets /\ disk \in Disks /\ promised \in Nat
  /\ Holds(store.gen, store.base, store.epoch)
  /\ disk.selected = store.gen
  /\ disk.lasting = disk.selected \/ disk.lasting < disk.selected
  /\ Recoverable

\* It satisfies the invariant
LEMMA ReopenedInv ==
  Reopened => CheckpointInv
<1> SUFFICES ASSUME Reopened PROVE CheckpointInv
  OBVIOUS
<1>1. PICK g \in Nat, base \in Nat, epoch \in Nat, policy \in Policies :
        store = Opened(g, base, epoch, policy)
  BY DEF Reopened
<1>2. store \in Stores /\ ~store.group /\ ~store.named /\ ~store.poisoned /\ store.epoch \in Nat
      /\ store.gen \in Nat
  BY SMT, <1>1 DEF Opened, Stores
<1>3. /\ Captured(store) \in Sources /\ Captured(store).gen = store.gen
      /\ Captured(store).base = store.base /\ Captured(store).epoch = store.epoch
  BY <1>2, CapturedType
<1>4. control = Started(store)
  BY DEF Reopened
<1>5. /\ control \in Controls /\ control.phase = "Idle" /\ ~control.suspended
      /\ control.group = FALSE /\ ~control.snapshot /\ control.latest = Captured(store)
      /\ control.last = Captured(store) /\ control.generation = store.gen
      /\ control.pending = None /\ control.selected = None /\ control.retired = None
      /\ ~control.failed
  BY SMT, <1>2, <1>3, <1>4 DEF Started, Controls, Phases
<1>6. /\ owner \in Owners /\ owner.at = "loop" /\ owner.src = None /\ owner.work = None
  <2>1. owner = NoOwner
    BY DEF Reopened
  <2> QED BY SMT, <2>1 DEF NoOwner, Owners
<1>7. /\ manual \in Manuals /\ manual.at = "idle" /\ manual.src = None /\ manual.work = None
  BY NoManualFacts DEF Reopened
<1>8. front \in Fronts /\ front.op \notin Operations
  BY NoFrontFacts DEF Reopened
<1>9. reader \in Pinnings /\ PinnedGenerations = {}
  <2>1. reader = NoReader
    BY DEF Reopened
  <2>2. reader \in Pinnings
    BY SMT, <2>1 DEF NoReader, Pinnings
  <2>3. \A r \in Readers : reader.pin[r] = None
    BY SMT, <2>1 DEF NoReader
  <2> QED BY <2>2, <2>3 DEF PinnedGenerations
<1>10. Types
  BY <1>2, <1>5, <1>6, <1>7, <1>8, <1>9 DEF Types, Reopened
<1>11. control.phase \in PhasesAt[owner.at]
  BY SMT, <1>5, <1>6 DEF PhasesAt
<1>12. Ownership
  BY <1>5, <1>6, <1>7, <1>11 DEF Ownership
<1>13. store.group = FALSE
  BY SMT, <1>1 DEF Opened
<1>14. Shape /\ Caller
  BY <1>5, <1>6, <1>7, <1>8, <1>13 DEF Shape, Caller, Attempting, Operations
<1>15. Capture
  <2>1. store.epoch <= store.epoch
    BY SMT, <1>2
  <2> QED BY <1>3, <1>5, <2>1 DEF Capture, Fresh
<1>16. Attempt /\ Offered /\ Numbers
  BY <1>5, <1>6, <1>7 DEF Attempt, Offered, Numbers, Attempting
<1>17. Images
  <2>1. Holds(store.gen, store.base, store.epoch)
    BY DEF Reopened
  <2> QED BY <1>5, <1>6, <1>7, <2>1 DEF Images, Complete, Attempting
<1>18. Selector
  <2>1. disk.selected = store.gen
    BY DEF Reopened
  <2> QED BY <1>5, <1>6, <2>1 DEF Selector
<1>19. Lasting
  <2>1. disk.lasting < disk.selected => disk.lasting <= store.gen
    <3>1. disk.lasting \in Nat /\ disk.selected = store.gen
      <4>1. disk \in Disks /\ disk.selected = store.gen
        BY DEF Reopened
      <4>2. disk.lasting \in Generations
        BY <4>1 DEF Disks
      <4> QED BY SMT, <4>1, <4>2, CheckpointAssumption DEF Generations
    <3> QED BY SMT, <1>2, <3>1
  <2> QED BY <1>2, <1>5, <1>6, <2>1 DEF Reopened, Lasting
<1>20. Pinned
  BY <1>6, <1>8, <1>9 DEF Pinned, Operations
<1> QED BY <1>10, <1>12, <1>14, <1>15, <1>16, <1>17, <1>18, <1>19, <1>20
        DEF CheckpointInv, OwnerInv, DiskInv, Reopened

\* So does one that is opened again
LEMMA ReopenedInvNext ==
  Reopened' => CheckpointInv'
BY ReopenedInv, PTL

\* The store before its first commit
LEMMA InitInv ==
  Init => CheckpointInv
<1> SUFFICES ASSUME Init PROVE Reopened
  BY ReopenedInv
<1>1. 1 \in Generations
  BY SMT, CheckpointAssumption DEF Generations
<1>2. PICK f : f = Files(0, 0, 0)
  OBVIOUS
<1>3. f \in Logs /\ f.base = 0 /\ f.tail = 0 /\ f.synced = 0 /\ f # None
  <2>1. f \in Logs /\ f.base = 0 /\ f.tail = 0 /\ f.synced = 0
    BY SMT, <1>2 DEF Files, Logs, Contents
  <2> QED BY <2>1, NoneFacts
<1>4. disk = [files |-> [g \in Generations |-> IF g = 1 THEN f ELSE None],
              staging |-> {}, selected |-> 1, lasting |-> 1]
  BY <1>2 DEF Init
<1>5. /\ disk \in Disks /\ disk.selected = 1 /\ disk.lasting = 1 /\ disk.files[1] = f
  BY <1>1, <1>3, <1>4 DEF Disks
<1>6. PICK policy \in Policies : store = Opened(1, 0, 0, policy)
  BY DEF Init
<1>7. store.gen = 1 /\ store.base = 0 /\ store.epoch = 0
  BY SMT, <1>6 DEF Opened
<1>8. \E g, base, epoch \in Nat, p \in Policies : store = Opened(g, base, epoch, p)
  <2>1. 0 \in Nat /\ 1 \in Nat
    BY SMT
  <2> QED BY <1>6, <2>1
<1>9. budget \in Budgets /\ promised \in Nat /\ promised = 0 /\ 0 >= 0
  BY SMT DEF Init, Budgets
<1>10. Holds(store.gen, store.base, store.epoch)
  BY <1>1, <1>3, <1>5, <1>7 DEF Holds
<1>11. Recoverable
  BY <1>3, <1>5, <1>9 DEF Recoverable
<1> QED BY <1>5, <1>7, <1>8, <1>9, <1>10, <1>11 DEF Reopened, Init

\* A crash or a loss of power, and the next open
LEMMA RestartInv ==
  ASSUME CheckpointInv, Restart
  PROVE  CheckpointInv'
<1> SUFFICES Reopened'
  BY ReopenedInvNext
<1>1. PICK power \in BOOLEAN :
      \E g \in IF power THEN {disk.selected, disk.lasting} ELSE {disk.selected} :
      \E tail \in IF power THEN disk.files[g].synced..disk.files[g].tail
                  ELSE {disk.files[g].tail} :
        LET found == disk.files[g]
            stale == disk.staging # {} \/ \E h \in Generations : h > g /\ disk.files[h] # None
        IN /\ disk' = [files |-> [h \in Generations |->
                                    IF h > g THEN None
                                    ELSE IF h = g THEN Files(found.base, tail,
                                                             IF power THEN tail ELSE found.synced)
                                    ELSE disk.files[h]],
                       staging |-> {}, selected |-> g,
                       lasting |-> IF power \/ stale THEN g ELSE disk.lasting]
           /\ store' = Opened(g, found.base, tail, store.policy)
           /\ control' = Started(Opened(g, found.base, tail, store.policy))
  BY DEF Restart
<1>2. PICK g \in {disk.selected, disk.lasting} :
      \E tail \in IF power THEN disk.files[g].synced..disk.files[g].tail
                  ELSE {disk.files[g].tail}, last \in {g, disk.lasting} :
        /\ power \/ g = disk.selected
        /\ power => last = g
        /\ disk' = [files |-> [h \in Generations |->
                                 IF h > g THEN None
                                 ELSE IF h = g THEN Files(disk.files[g].base, tail,
                                               IF power THEN tail ELSE disk.files[g].synced)
                                 ELSE disk.files[h]],
                    staging |-> {}, selected |-> g, lasting |-> last]
        /\ store' = Opened(g, disk.files[g].base, tail, store.policy)
        /\ control' = Started(Opened(g, disk.files[g].base, tail, store.policy))
  BY <1>1
<1>3. /\ disk \in Disks /\ promised \in Nat /\ store \in Stores /\ budget \in Budgets
      /\ disk.files[g] # None /\ disk.files[g].synced >= promised
      /\ disk.files[disk.lasting] # None /\ disk.files[disk.lasting].synced >= promised
  BY DEF CheckpointInv, OwnerInv, DiskInv, Types, Recoverable
<1>4. /\ g \in Generations /\ g \in Nat /\ disk.files[g] \in Logs
      /\ disk.lasting \in Generations /\ disk.lasting \in Nat /\ store.policy \in Policies
  <2>1. /\ g \in Generations /\ disk.lasting \in Generations
        /\ disk.files[g] \in Logs \cup {None}
    BY <1>3 DEF Disks
  <2>2. store.policy \in Policies
    BY <1>3 DEF Stores
  <2>3. g \in Nat /\ disk.lasting \in Nat
    BY SMT, <2>1, CheckpointAssumption DEF Generations
  <2> QED BY <1>3, <2>1, <2>2, <2>3
<1>5. PICK tail \in IF power THEN disk.files[g].synced..disk.files[g].tail
                    ELSE {disk.files[g].tail}, last \in {g, disk.lasting} :
        /\ power \/ g = disk.selected
        /\ power => last = g
        /\ disk' = [files |-> [h \in Generations |->
                                 IF h > g THEN None
                                 ELSE IF h = g THEN Files(disk.files[g].base, tail,
                                               IF power THEN tail ELSE disk.files[g].synced)
                                 ELSE disk.files[h]],
                    staging |-> {}, selected |-> g, lasting |-> last]
        /\ store' = Opened(g, disk.files[g].base, tail, store.policy)
        /\ control' = Started(Opened(g, disk.files[g].base, tail, store.policy))
  BY <1>2
<1>6. PICK f : f = Files(disk.files[g].base, tail, IF power THEN tail ELSE disk.files[g].synced)
  OBVIOUS
<1>7. /\ f \in Logs /\ f.base = disk.files[g].base /\ f.tail = tail /\ tail \in Nat
      /\ f.synced >= promised /\ disk.files[g].base \in Nat
  BY SMT, <1>3, <1>4, <1>5, <1>6 DEF Files, Logs, Contents
<1>8. disk' = [files |-> [h \in Generations |->
                            IF h > g THEN None ELSE IF h = g THEN f ELSE disk.files[h]],
               staging |-> {}, selected |-> g, lasting |-> last]
  BY <1>5, <1>6
<1>9. /\ disk' \in Disks /\ disk'.selected = g /\ disk'.lasting = last /\ disk'.files[g] = f
      /\ \A h \in Generations : h < g => disk'.files[h] = disk.files[h]
  <2>1. last \in Generations
    BY <1>4, <1>5
  <2>2. ASSUME NEW h \in Generations
        PROVE  (IF h > g THEN None ELSE IF h = g THEN f ELSE disk.files[h]) \in Logs \cup {None}
    BY <1>3, <1>7 DEF Disks
  <2>3. disk' \in Disks /\ disk'.selected = g /\ disk'.lasting = last
    BY <1>4, <1>8, <2>1, <2>2 DEF Disks
  <2>4. ~(g > g) /\ \A h \in Generations : h < g => ~(h > g) /\ h # g
    BY SMT, <1>4, CheckpointAssumption DEF Generations
  <2> QED BY <1>4, <1>8, <2>3, <2>4
<1>10. last = g \/ last < g
  BY <1>5 DEF CheckpointInv, DiskInv, Lasting
<1>11. Recoverable'
  <2>1. promised' = promised
    BY DEF Restart
  <2>2. f # None
    BY <1>7, NoneFacts
  <2>3. ASSUME last < g
        PROVE  disk'.files[last] # None /\ disk'.files[last].synced >= promised
    <3>1. last = disk.lasting
      BY SMTT(20), <1>4, <1>5, <2>3
    <3> QED BY <1>3, <1>4, <1>9, <2>3, <3>1
  <2> QED BY <1>7, <1>9, <1>10, <2>1, <2>2, <2>3 DEF Recoverable
<1>12. /\ store'.gen = g /\ store'.base = f.base /\ store'.epoch = tail
  BY SMT, <1>5, <1>7 DEF Opened
<1>13. Holds(store.gen, store.base, store.epoch)'
  BY <1>4, <1>7, <1>9, <1>12, NoneFacts DEF Holds
<1>14. budget' \in Budgets
  BY SMT, <1>3 DEF Restart, Crash, Disturb, Budgets
<1>15. \E h, base, epoch \in Nat, p \in Policies : store' = Opened(h, base, epoch, p)
  BY <1>4, <1>5, <1>7
<1>16. /\ owner' = NoOwner /\ manual' = NoManual /\ front' = NoFront /\ reader' = NoReader
       /\ promised' = promised /\ control' = Started(store')
  BY <1>5 DEF Restart
<1> QED BY <1>3, <1>9, <1>10, <1>11, <1>12, <1>13, <1>14, <1>15, <1>16 DEF Reopened

-----------------------------------------------------------------------------
(* What holds in every behaviour *)

\* Every step keeps the invariant
LEMMA NextInv ==
  ASSUME ~EmptyGroups, ~DirectBarrierFaults, CheckpointInv, [Next]_vars
  PROVE  CheckpointInv'
<1>1. CASE Foreground
  <2>1. CASE CallCommit \/ CallBegin \/ Leader
    BY <2>1, CallInv DEF Leader
  <2>2. CASE Served
    <3>1. CASE Commit
      BY <3>1, CommitInv
    <3>2. CASE BeginGroup \/ AdoptSuspended
      BY <3>2, BeginOrAdoptInv
    <3>3. CASE GroupAppend
      BY <3>3, GroupAppendInv
    <3>4. CASE FinishGroup
      BY <3>4, FinishGroupInv
    <3>5. CASE FinishGroupFails
      BY <3>5, FinishGroupFailsInv
    <3>6. CASE PublishChanged \/ PublishSidecarsFail \/ PublishManifestFails
      BY <3>6, PublicationFailsInv
    <3>7. CASE Publish
      BY <3>7, PublishInv
    <3>8. CASE PublishAdoptionFails
      BY <3>8, PublishAdoptionFailsInv
    <3>9. CASE CapacityTimeout \/ Refuse
      BY <3>9, SentAwayInv
    <3> QED BY <2>2, <3>1, <3>2, <3>3, <3>4, <3>5, <3>6, <3>7, <3>8, <3>9 DEF Served
  <2> QED BY <1>1, <2>1, <2>2 DEF Foreground
<1>2. CASE \E r \in Readers : Reader(r)
  BY <1>2, ReaderInv
<1>3. CASE AdoptForRead
  BY <1>3, AdoptForReadInv
<1>4. CASE Explicit
  <2>1. CASE Suspend
    BY <2>1, SuspendInv
  <2>2. CASE SuspendDiscards
    BY <2>2, SuspendDiscardsInv
  <2>3. CASE CallAdopt \/ CallPublish
    BY <2>3, CallInv
  <2>4. CASE CaptureSource
    BY <2>4, CaptureSourceInv
  <2>5. CASE PrepareSource
    BY <2>5, PrepareSourceInv
  <2>6. CASE PrepareSourceFails
    BY <2>6, PrepareSourceFailsInv
  <2> QED BY <1>4, <2>1, <2>2, <2>3, <2>4, <2>5, <2>6 DEF Explicit
<1>5. CASE OwnerStep
  <2>1. CASE OfferHandoff
    BY <2>1, OfferHandoffInv
  <2>2. CASE Unpark \/ TakeRetired \/ DeferRetirement \/ GrantRetirement \/ ReleaseRetired
    BY <2>2, RetirementInv
  <2>3. CASE ReclaimRetired
    BY <2>3, ReclaimRetiredInv
  <2>4. CASE RefreshSource
    BY <2>4, RefreshSourceInv
  <2>5. CASE StartAttempt
    BY <2>5, StartAttemptInv
  <2>6. CASE ContinueCandidate
    BY <2>6, ContinueCandidateInv
  <2>7. CASE StageGeneration
    BY <2>7, StageGenerationInv
  <2>8. CASE PrepareCandidate
    BY <2>8, PrepareCandidateInv
  <2>9. CASE PreparationFails
    BY <2>9, PreparationFailsInv
  <2>10. CASE ResumeStops \/ ReplayRefused \/ GateContended \/ GateDrains \/ Drained \/ GateStops
    BY <2>10, AttemptHalts
  <2>11. CASE Resume
    BY <2>11, ResumeInv
  <2>12. CASE Replay
    BY <2>12, ReplayInv
  <2>13. CASE ReplayStops
    BY <2>13, ReplayStopsInv
  <2>14. CASE GateBehind
    BY <2>14, GateBehindInv
  <2>15. CASE GateAdvances
    BY <2>15, GateAdvancesInv
  <2>16. CASE PublishCandidate
    BY <2>16, PublishCandidateInv
  <2>17. CASE PublishCandidateFails
    BY <2>17, PublishCandidateFailsInv
  <2>18. CASE Settle
    BY <2>18, SettleInv
  <2>19. CASE Fail
    BY <2>19, FailInv
  <2>20. CASE Discard
    BY <2>20, DiscardInv
  <2>21. CASE PublicationRefused
    BY <2>21, PublicationRefusedInv
  <2> QED BY <1>5, <2>1, <2>2, <2>3, <2>4, <2>5, <2>6, <2>7, <2>8, <2>9, <2>10, <2>11, <2>12,
             <2>13, <2>14, <2>15, <2>16, <2>17, <2>18, <2>19, <2>20, <2>21 DEF OwnerStep
<1>6. CASE Restart
  BY <1>6, RestartInv
<1>7. CASE UNCHANGED vars
  <2>1. /\ UNCHANGED <<disk, store, promised, control, owner, manual, front, reader, budget>>
    BY <1>7 DEF vars
  <2>2. owner \in Owners /\ manual \in Manuals /\ reader \in Pinnings /\ front \in Fronts
    BY DEF CheckpointInv, OwnerInv, Types
  <2>3. Caller' /\ PinnedGenerations' = PinnedGenerations
    BY <2>1 DEF CheckpointInv, OwnerInv, Caller, PinnedGenerations
  <2>4. front'.op = "publish" => PinnedGenerations' \subseteq manual'.pins \cup {store.gen}
    BY <2>1, <2>3 DEF CheckpointInv, DiskInv, Pinned
  <2> QED BY <2>1, <2>2, <2>3, <2>4, QuietStep
<1> QED BY <1>1, <1>2, <1>3, <1>4, <1>5, <1>6, <1>7 DEF Next

\* The works that count as private
LEMMA PrivateFacts ==
  ASSUME CheckpointInv, NEW w \in PrivateWorks
  PROVE  /\ w # None /\ owner.at # "settle" /\ ~w.retain
         /\ \/ w = control.pending
            \/ w = owner.work /\ owner.at \in Attempting
            \/ w = manual.work
<1>1. /\ w \in {control.pending, owner.work, manual.work}
      /\ w # None /\ "kind" \in DOMAIN w /\ owner.at # "settle" /\ ~w.retain
  BY DEF PrivateWorks
<1>2. ASSUME w = owner.work
      PROVE  owner.at \in Attempting
  <2>1. w \notin Retirements
    BY SMT, <1>1 DEF Retirements
  <2>2. owner \in Owners
    BY DEF CheckpointInv, OwnerInv, Types
  <2>3. owner.at \in {"loop", "parked", "retire", "reclaim", "release"} \cup Attempting
    BY SMT, <2>2 DEF Owners, Attempting
  <2> QED BY <1>1, <1>2, <2>1, <2>3 DEF CheckpointInv, OwnerInv, Shape
<1> QED BY <1>1, <1>2

\* While the manifest names another generation than the one that is served,
\* nobody owns private work
LEMMA ForeignSelection ==
  ASSUME CheckpointInv, NEW w \in PrivateWorks
  PROVE  disk.selected = store.gen
<1>1. /\ w # None /\ owner.at # "settle" /\ ~w.retain
      /\ \/ w = control.pending
         \/ w = owner.work /\ owner.at \in Attempting
         \/ w = manual.work
  BY PrivateFacts
<1>2. manual.work # None => manual.at \in {"discard", "prepared"}
  BY DEF CheckpointInv, OwnerInv, Shape
<1>3. control.selected = None
  <2>1. CASE w = control.pending
    BY <1>1, <2>1 DEF CheckpointInv, OwnerInv, Ownership
  <2>2. CASE w = owner.work /\ owner.at \in Attempting
    BY <2>2, AttemptAlone DEF CheckpointInv
  <2>3. CASE w = manual.work
    BY <1>1, <1>2, <2>3 DEF CheckpointInv, OwnerInv, Ownership
  <2> QED BY <1>1, <2>1, <2>2, <2>3
<1>4. ~Uncertain
  <2>1. CASE w = control.pending
    BY <1>1, <2>1 DEF Uncertain
  <2>2. CASE w = owner.work /\ owner.at \in Attempting
    BY <1>1, <2>2 DEF Uncertain
  <2>3. CASE w = manual.work
    BY <1>1, <1>2, <2>3 DEF Uncertain
  <2> QED BY <1>1, <2>1, <2>2, <2>3
<1> QED BY <1>1, <1>3, <1>4, ServedIsSelected

\* There is at most one private work, and it is not in anybody's way
LEMMA PrivateAreApart ==
  CheckpointInv => PrivateGenerations
<1> SUFFICES ASSUME CheckpointInv PROVE PrivateGenerations
  OBVIOUS
<1>1. ASSUME NEW w \in PrivateWorks
      PROVE  w.gen > store.gen /\ w.gen # disk.selected
  <2>1. w.gen > store.gen
    <3>1. /\ w # None
          /\ \/ w = control.pending
             \/ w = owner.work /\ owner.at \in Attempting
             \/ w = manual.work
      BY PrivateFacts
    <3>2. CASE w = control.pending
      BY <3>1, <3>2 DEF CheckpointInv, OwnerInv, Numbers
    <3>3. CASE w = owner.work /\ owner.at \in Attempting
      BY <3>1, <3>3 DEF CheckpointInv, OwnerInv, Numbers
    <3>4. CASE w = manual.work
      BY <3>1, <3>4 DEF CheckpointInv, OwnerInv, Numbers
    <3> QED BY <3>1, <3>2, <3>3, <3>4
  <2>2. store.gen \in Nat
    BY SMT DEF CheckpointInv, OwnerInv, Types, Stores
  <2>3. w.gen # store.gen
    BY SMT, <2>1, <2>2
  <2> QED BY <2>1, <2>3, ForeignSelection
<1>2. ASSUME NEW v \in PrivateWorks, NEW w \in PrivateWorks
      PROVE  v = w
  <2>1. /\ v # None
        /\ \/ v = control.pending
           \/ v = owner.work /\ owner.at \in Attempting
           \/ v = manual.work
    BY PrivateFacts
  <2>2. /\ w # None
        /\ \/ w = control.pending
           \/ w = owner.work /\ owner.at \in Attempting
           \/ w = manual.work
    BY PrivateFacts
  <2>3. owner.at \in Attempting => control.pending = None /\ manual.work = None
    BY AttemptAlone DEF CheckpointInv
  <2>4. control.pending = None \/ manual.work = None
    BY DEF CheckpointInv, OwnerInv, Ownership, Shape
  <2> QED BY <2>1, <2>2, <2>3, <2>4
<1> QED BY <1>1, <1>2 DEF PrivateGenerations

\* The generation the manifest names holds what the foreground applied
LEMMA SelectedHoldsAll ==
  CheckpointInv => NothingLeftBehind
<1> SUFFICES ASSUME CheckpointInv, ~store.poisoned
             PROVE  disk.files[disk.selected] # None
                    /\ disk.files[disk.selected].tail >= store.epoch
  BY DEF NothingLeftBehind
<1>1. store.epoch >= store.epoch
  BY SMT DEF CheckpointInv, OwnerInv, Types, Stores
<1> SUFFICES disk.files[disk.selected] # None /\ disk.files[disk.selected].tail = store.epoch
  BY <1>1
<1>2. CASE owner.at = "settle"
  <2>1. /\ owner.at \in Attempting /\ owner.work \in Works /\ owner.work.kind = "candidate"
    BY <1>2 DEF CheckpointInv, OwnerInv, Shape, Attempting
  <2>2. owner.work # None /\ owner.work.kind # "preparation"
    BY <2>1, NoneFacts
  <2>3. Holds(owner.work.gen, owner.work.base, owner.work.epoch)
    BY <2>1, <2>2 DEF CheckpointInv, DiskInv, Images, Complete
  <2>4. owner.src # None
    BY <2>1, AttemptAlone DEF CheckpointInv
  <2>5. owner.work.epoch = store.epoch
    BY <1>2, <2>4 DEF CheckpointInv, OwnerInv, Attempt, Offered, Unchanged
  <2> QED BY <1>2, <2>3, <2>5 DEF CheckpointInv, DiskInv, Selector, Holds
<1>3. CASE control.selected # None
  BY <1>3 DEF CheckpointInv, DiskInv, Images, Selector, Holds, OwnerInv, Offered
<1>4. CASE owner.at # "settle" /\ control.selected = None
  <2>1. ~Uncertain
    BY DEF Uncertain
  <2>2. disk.selected = store.gen
    BY <1>4, <2>1, ServedIsSelected
  <2> QED BY <2>2 DEF CheckpointInv, DiskInv, Images, Holds
<1> QED BY <1>2, <1>3, <1>4

\* Files in use exist
LEMMA UsedFilesExist ==
  CheckpointInv => PinnedReadable
<1> SUFFICES ASSUME CheckpointInv PROVE PinnedReadable
  OBVIOUS
<1>1. \A g \in PinnedGenerations : disk.files[g] # None
  BY DEF CheckpointInv, DiskInv, Pinned
<1>2. disk.files[store.gen] # None
  BY DEF CheckpointInv, DiskInv, Images, Holds
<1>3. owner.at \in {"resume", "replay"} => owner.src.gen = store.gen
  <2>1. owner.at \in {"resume", "replay"} => owner.at \in Attempting
    BY DEF Attempting
  <2> QED BY <2>1 DEF CheckpointInv, OwnerInv, Shape, Attempt
<1> QED BY <1>1, <1>2, <1>3 DEF PinnedReadable

\* The epoch of the store after an adoption
LEMMA AdoptedEpoch ==
  ASSUME CheckpointInv
  PROVE  /\ store \in Stores /\ store.epoch \in Nat
         /\ AdoptedStore \in Stores /\ AdoptedStore.epoch = store.epoch
<1>1. /\ store \in Stores /\ control \in Controls
      /\ control.selected # None => control.selected.epoch = store.epoch
  BY DEF CheckpointInv, OwnerInv, Types, Offered
<1>2. store.epoch \in Nat
  BY SMT, <1>1 DEF Stores
<1>3. CASE control.selected = None
  BY <1>1, <1>2, <1>3 DEF AdoptedStore
<1>4. CASE control.selected # None
  <2>1. control.selected \in Selections
    BY SMT, <1>1, <1>4 DEF Controls
  <2>2. AdoptedStore = [store EXCEPT !.gen = control.selected.gen, !.base = control.selected.base,
                                     !.epoch = control.selected.epoch, !.named = TRUE]
    BY <1>4 DEF AdoptedStore
  <2>3. AdoptedStore \in Stores /\ AdoptedStore.epoch = control.selected.epoch
    <3>1. /\ control.selected.gen \in Nat /\ control.selected.base \in Nat
          /\ control.selected.epoch \in Nat
      BY <2>1 DEF Selections
    <3> QED BY <1>1, <2>2, <3>1 DEF Stores
  <2> QED BY <1>1, <1>2, <1>4, <2>3
<1> QED BY <1>3, <1>4

\* No step but a restart takes a commit away from the store
LEMMA StepKeepsCommits ==
  ASSUME CheckpointInv, [Next]_vars, ~Restart
  PROVE  store'.epoch >= store.epoch /\ store'.epoch \in Nat
<1>1. /\ store \in Stores /\ store.epoch \in Nat
      /\ AdoptedStore \in Stores /\ AdoptedStore.epoch = store.epoch
  BY AdoptedEpoch
<1>2. ASSUME store' = store
      PROVE  store'.epoch >= store.epoch /\ store'.epoch \in Nat
  BY SMT, <1>1, <1>2
<1>3. ASSUME store' = AdoptedStore
      PROVE  store'.epoch >= store.epoch /\ store'.epoch \in Nat
  BY SMT, <1>1, <1>3
<1>p. ASSUME store' \in {store, [store EXCEPT !.poisoned = TRUE]}
      PROVE  store'.epoch >= store.epoch /\ store'.epoch \in Nat
  <2>1. store'.epoch = store.epoch
    BY <1>1, <1>p, StoreKept
  <2> QED BY SMT, <1>1, <2>1
<1>4. CASE Served
  <2>1. CASE Commit
    <3>1. PICK durable : store' = [AdoptedStore EXCEPT !.epoch = @ + 1, !.named = @ \/ durable]
      BY <2>1 DEF Commit, Leave
    <3> QED BY SMT, <1>1, <3>1 DEF Stores
  <2>2. CASE BeginGroup
    <3>1. store' = [AdoptedStore EXCEPT !.group = TRUE, !.mark = AdoptedStore.epoch]
      BY <2>2 DEF BeginGroup, Leave
    <3> QED BY SMT, <1>1, <3>1 DEF Stores
  <2>3. CASE GroupAppend
    <3>1. store' = [store EXCEPT !.epoch = @ + 1]
      BY <2>3 DEF GroupAppend, Leave
    <3> QED BY SMT, <1>1, <3>1 DEF Stores
  <2>4. CASE FinishGroup
    <3>1. PICK written : store' = [store EXCEPT !.group = FALSE, !.mark = 0, !.named = @ \/ written]
      BY <2>4 DEF FinishGroup, Leave
    <3> QED BY SMT, <1>1, <3>1 DEF Stores
  <2>5. CASE FinishGroupFails
    <3>1. store' = [store EXCEPT !.group = FALSE, !.mark = 0, !.poisoned = TRUE]
      BY <2>5 DEF FinishGroupFails
    <3> QED BY SMT, <1>1, <3>1 DEF Stores
  <2>6. CASE AdoptSuspended
    BY <1>3, <2>6 DEF AdoptSuspended, Leave
  <2>7. CASE PublishChanged \/ PublishSidecarsFail \/ PublishManifestFails
    BY <1>2, <2>7 DEF PublishChanged, PublishSidecarsFail, PublishManifestFails, Published
  <2>8. CASE Publish
    <3>1. /\ Enter("publish") /\ SourceUnchanged
          /\ store' = [store EXCEPT !.gen = manual.work.gen, !.base = manual.work.base,
                                    !.epoch = manual.work.epoch, !.named = TRUE]
      BY <2>8 DEF Publish, RotatedStore, Published
    <3>2. manual.src \in Sources /\ manual.work.epoch = manual.src.epoch
      BY <3>1, PublisherFacts
    <3>3. manual.src.epoch = store.epoch
      BY <1>1, <3>1, <3>2, IdentityEqual, CapturedType DEF SourceUnchanged
    <3> QED BY SMT, <1>1, <3>1, <3>2, <3>3 DEF Stores
  <2>9. CASE CapacityTimeout
    BY <1>2, <2>9 DEF CapacityTimeout
  <2>10. CASE Refuse
    <3>1. PICK offered : store' = [store EXCEPT !.poisoned = @ \/ offered]
      BY <2>10 DEF Refuse
    <3> QED BY SMT, <1>1, <3>1 DEF Stores
  <2>11. CASE PublishAdoptionFails
    <3>1. PICK integrity \in BOOLEAN :
            store' = [[store EXCEPT !.gen = manual.work.gen, !.base = manual.work.base,
                                    !.epoch = manual.work.epoch, !.named = TRUE]
                      EXCEPT !.poisoned = integrity]
      BY <2>11 DEF PublishAdoptionFails, RotatedStore, Published
    <3>2. Enter("publish") /\ SourceUnchanged
      BY <2>11 DEF PublishAdoptionFails
    <3>3. manual.src \in Sources /\ manual.work.epoch = manual.src.epoch
      BY <3>2, PublisherFacts
    <3>4. manual.src.epoch = store.epoch
      BY <1>1, <3>2, <3>3, IdentityEqual, CapturedType DEF SourceUnchanged
    <3> QED BY SMT, <1>1, <3>1, <3>3, <3>4 DEF Stores
  <2> QED BY <1>4, <2>1, <2>2, <2>3, <2>4, <2>5, <2>6, <2>7, <2>8, <2>9, <2>10, <2>11 DEF Served
<1>5. CASE CallCommit \/ CallBegin \/ Leader
  BY <1>2, <1>5 DEF CallCommit, CallBegin, Leader, CallAppend, CallFinish, Call
<1>6. CASE \E r \in Readers : Reader(r)
  BY <1>2, <1>6 DEF Reader, ReadGuard, ReadUnguard, WakeHandoff, Unpin
<1>7. CASE AdoptForRead
  BY <1>3, <1>7 DEF AdoptForRead
<1>8. CASE Explicit
  <2>1. CASE PrepareSourceFails
    BY <1>p, <2>1 DEF PrepareSourceFails, FaultMayPoison
  <2>2. CASE \/ Suspend \/ SuspendDiscards \/ CallAdopt \/ CaptureSource \/ PrepareSource
             \/ CallPublish
    BY <1>2, <2>2 DEF Suspend, SuspendDiscards, CallAdopt, Call, CaptureSource, PrepareSource,
       CallPublish
  <2> QED BY <1>8, <2>1, <2>2 DEF Explicit
<1>9. CASE OwnerStep
  <2>1. CASE OfferHandoff
    <3>1. \/ store' = store \/ store' = AdoptedStore \/ store' = [store EXCEPT !.poisoned = TRUE]
      BY <2>1 DEF OfferHandoff, Leave
    <3>2. CASE store' = [store EXCEPT !.poisoned = TRUE]
      BY SMT, <1>1, <3>2 DEF Stores
    <3> QED BY <1>2, <1>3, <3>1, <3>2
  <2>2. CASE PublishCandidateFails
    <3>1. store' = [store EXCEPT !.poisoned = TRUE]
      BY <2>2 DEF PublishCandidateFails
    <3> QED BY SMT, <1>1, <3>1 DEF Stores
  <2>3. CASE \/ Unpark \/ TakeRetired \/ DeferRetirement \/ GrantRetirement \/ ReclaimRetired
             \/ ReleaseRetired \/ RefreshSource \/ StartAttempt \/ ContinueCandidate
             \/ StageGeneration \/ PrepareCandidate
    BY <1>2, <2>3 DEF Unpark, TakeRetired, DeferRetirement, GrantRetirement, ReclaimRetired,
       ReleaseRetired, RefreshSource, StartAttempt, ContinueCandidate, StageGeneration,
       PrepareCandidate
  <2>4. CASE \/ ResumeStops \/ Resume \/ Replay \/ ReplayRefused \/ PublicationRefused
             \/ GateContended \/ GateBehind \/ GateDrains \/ Drained \/ GateStops \/ GateAdvances
             \/ PublishCandidate \/ Settle \/ Fail \/ Discard
    BY <1>2, <2>4 DEF ResumeStops, Resume, Replay, ReplayRefused, PublicationRefused,
       GateContended, GateBehind, GateDrains, Drained, GateStops, GateAdvances, PublishCandidate,
       Settle, Fail, Discard
  <2>5. CASE PreparationFails
    <3>1. store' \in {store, [store EXCEPT !.poisoned = TRUE]}
      BY <2>5 DEF PreparationFails, FaultMayPoison
    <3> QED BY <1>p, <3>1
  <2>6. CASE ReplayStops
    <3>1. store' \in {store, [store EXCEPT !.poisoned = TRUE]}
      BY <2>6 DEF ReplayStops, FaultMayPoison
    <3> QED BY <1>p, <3>1
  <2> QED BY <1>9, <2>1, <2>2, <2>3, <2>4, <2>5, <2>6 DEF OwnerStep
<1>10. CASE UNCHANGED vars
  BY <1>2, <1>10 DEF vars
<1> QED BY <1>4, <1>5, <1>6, <1>7, <1>8, <1>9, <1>10 DEF Next, Foreground

\* A restart is counted
LEMMA RestartCounts ==
  ASSUME CheckpointInv, Restart
  PROVE  budget'.crashes # budget.crashes
<1>1. budget \in Budgets /\ budget' = [budget EXCEPT !["crashes"] = @ + 1]
  BY DEF Restart, Crash, Disturb, CheckpointInv, OwnerInv, Types
<1> QED BY SMT, <1>1 DEF Budgets

\* The foreground serves every commit that was reported durable
PromisesServed == promised <= store.epoch

\* A step that reports commits durable reports those the foreground then serves
LEMMA PromiseMoves ==
  ASSUME CheckpointInv, [Next]_vars
  PROVE  promised' = promised \/ promised' = store'.epoch
<1>1. store \in Stores /\ AdoptedStore \in Stores
  BY AdoptedEpoch
<1>2. CASE Served
  <2>1. CASE Commit
    <3>1. PICK durable \in BOOLEAN :
            /\ store' = [AdoptedStore EXCEPT !.epoch = @ + 1, !.named = @ \/ durable]
            /\ promised' = (IF durable THEN AdoptedStore.epoch + 1 ELSE promised)
      <4>1. (AdoptedStore.policy = "SyncOnEveryWrite") \in BOOLEAN
        OBVIOUS
      <4> QED BY <2>1, <4>1 DEF Commit, Leave
    <3>2. store'.epoch = AdoptedStore.epoch + 1
      BY <1>1, <3>1 DEF Stores
    <3> QED BY <3>1, <3>2
  <2>2. CASE FinishGroup
    <3>1. PICK written : store' = [store EXCEPT !.group = FALSE, !.mark = 0, !.named = @ \/ written]
      BY <2>2 DEF FinishGroup, Leave
    <3>2. store'.epoch = store.epoch
      BY <1>1, <3>1 DEF Stores
    <3> QED BY <2>2, <3>2 DEF FinishGroup
  <2>3. CASE Publish
    <3>1. store' = [store EXCEPT !.gen = manual.work.gen, !.base = manual.work.base,
                                 !.epoch = manual.work.epoch, !.named = TRUE]
      BY <2>3 DEF Publish, RotatedStore, Published
    <3>2. store'.epoch = manual.work.epoch
      BY <1>1, <3>1 DEF Stores
    <3> QED BY <2>3, <3>2 DEF Publish
  <2>4. CASE \/ BeginGroup \/ GroupAppend \/ FinishGroupFails \/ AdoptSuspended
             \/ PublishChanged \/ PublishSidecarsFail \/ PublishManifestFails
             \/ PublishAdoptionFails \/ CapacityTimeout \/ Refuse
    BY <2>4 DEF BeginGroup, GroupAppend, FinishGroupFails, AdoptSuspended, PublishChanged,
       PublishSidecarsFail, PublishManifestFails, PublishAdoptionFails, CapacityTimeout, Refuse
  <2> QED BY <1>2, <2>1, <2>2, <2>3, <2>4 DEF Served
<1>3. CASE CallCommit \/ CallBegin \/ Leader
  BY <1>3 DEF CallCommit, CallBegin, Leader, CallAppend, CallFinish, Call
<1>4. CASE \E r \in Readers : Reader(r)
  BY <1>4 DEF Reader, ReadGuard, ReadUnguard, WakeHandoff, Unpin
<1>5. CASE AdoptForRead \/ Restart
  BY <1>5 DEF AdoptForRead, Restart
<1>6. CASE Explicit
  BY <1>6 DEF Explicit, Suspend, SuspendDiscards, CallAdopt, Call, CaptureSource,
     PrepareSource, PrepareSourceFails, CallPublish
<1>7. CASE OwnerStep
  <2>1. CASE PublishCandidate
    <3>1. owner.work.epoch = store.epoch
      BY <2>1, PublicationIsCurrent DEF PublishCandidate
    <3> QED BY <2>1, <3>1 DEF PublishCandidate
  <2>2. CASE \/ OfferHandoff \/ Unpark \/ TakeRetired \/ DeferRetirement \/ GrantRetirement
             \/ ReclaimRetired \/ ReleaseRetired \/ RefreshSource \/ StartAttempt
             \/ ContinueCandidate \/ StageGeneration \/ PrepareCandidate \/ PreparationFails
    BY <2>2 DEF OfferHandoff, Unpark, TakeRetired, DeferRetirement, GrantRetirement,
       ReclaimRetired, ReleaseRetired, RefreshSource, StartAttempt, ContinueCandidate,
       StageGeneration, PrepareCandidate, PreparationFails
  <2>3. CASE \/ ResumeStops \/ Resume \/ Replay \/ ReplayStops \/ ReplayRefused
             \/ GateContended \/ GateBehind \/ GateDrains \/ Drained \/ GateStops \/ GateAdvances
             \/ PublicationRefused \/ PublishCandidateFails \/ Settle \/ Fail \/ Discard
    BY <2>3 DEF ResumeStops, Resume, Replay, ReplayStops, ReplayRefused, GateContended,
       GateBehind, GateDrains, Drained, GateStops, GateAdvances, PublicationRefused,
       PublishCandidateFails, Settle, Fail, Discard
  <2> QED BY <1>7, <2>1, <2>2, <2>3 DEF OwnerStep
<1>8. CASE UNCHANGED vars
  BY <1>8 DEF vars
<1> QED BY <1>2, <1>3, <1>4, <1>5, <1>6, <1>7, <1>8 DEF Next, Foreground

\* A restart serves what was promised
LEMMA RestartServes ==
  ASSUME CheckpointInv, Restart
  PROVE  promised' = promised /\ store'.epoch >= promised
<1>1. PICK power \in BOOLEAN, g \in {disk.selected, disk.lasting} :
      \E tail \in IF power THEN disk.files[g].synced..disk.files[g].tail
                  ELSE {disk.files[g].tail} :
        store' = Opened(g, disk.files[g].base, tail, store.policy)
  <2>1. PICK power \in BOOLEAN :
        \E g \in IF power THEN {disk.selected, disk.lasting} ELSE {disk.selected} :
        \E tail \in IF power THEN disk.files[g].synced..disk.files[g].tail
                    ELSE {disk.files[g].tail} :
          store' = Opened(g, disk.files[g].base, tail, store.policy)
    BY DEF Restart
  <2> QED BY <2>1
<1>2. PICK tail \in IF power THEN disk.files[g].synced..disk.files[g].tail
                    ELSE {disk.files[g].tail} :
        store' = Opened(g, disk.files[g].base, tail, store.policy)
  BY <1>1
<1>3. /\ disk \in Disks /\ promised \in Nat
      /\ disk.files[g] # None /\ disk.files[g].synced >= promised
  BY DEF CheckpointInv, DiskInv, Recoverable
<1>4. g \in Generations
  BY SMT, <1>3 DEF Disks
<1>5. disk.files[g] \in Logs
  BY SMT, <1>3, <1>4 DEF Disks
<1>6. tail >= promised
  BY SMT, <1>2, <1>3, <1>5 DEF Logs, Contents
<1>7. store'.epoch = tail
  BY <1>2 DEF Opened
<1> QED BY <1>6, <1>7 DEF Restart

\* What was reported durable stays served and stays reported
LEMMA PromiseStep ==
  ASSUME CheckpointInv, PromisesServed, [Next]_vars
  PROVE  PromisesServed' /\ promised' >= promised
<1>1. store.epoch \in Nat /\ promised \in Nat
  BY AdoptedEpoch DEF CheckpointInv, DiskInv
<1>2. CASE Restart
  <2>1. promised' = promised /\ store'.epoch >= promised
    BY <1>2, RestartServes
  <2>2. PICK e : e = store'.epoch
    OBVIOUS
  <2>3. e >= promised
    BY <2>1, <2>2
  <2>4. promised <= e /\ promised >= promised
    BY SMT, <1>1, <2>3
  <2> QED BY <2>1, <2>2, <2>4 DEF PromisesServed
<1>3. CASE ~Restart
  <2>1. store'.epoch >= store.epoch /\ store'.epoch \in Nat
    BY <1>3, StepKeepsCommits
  <2>2. promised' = promised \/ promised' = store'.epoch
    BY PromiseMoves
  <2> QED BY SMT, <1>1, <2>1, <2>2 DEF PromisesServed
<1> QED BY <1>2, <1>3

-----------------------------------------------------------------------------
(* The theorems.  Every group writes something and the barrier of an explicit *)
(* publication does not fail: what happens otherwise is what the runs of the  *)
(* two findings show.                                                         *)

\* CheckpointInv is an invariant
THEOREM CheckpointInvariant ==
  ASSUME ~EmptyGroups, ~DirectBarrierFaults
  PROVE  Spec => []CheckpointInv
<1>1. Init => CheckpointInv
  BY InitInv
<1>2. CheckpointInv /\ [Next]_vars => CheckpointInv'
  BY NextInv
<1> QED BY <1>1, <1>2, PTL DEF Spec

\* Every part of the state keeps its type
THEOREM TypeCorrect ==
  ASSUME ~EmptyGroups, ~DirectBarrierFaults
  PROVE  Spec => []TypeOK
<1>1. ASSUME disk \in Disks
      PROVE  disk \in [files : [Generations -> Contents \cup {None}],
                       staging : SUBSET Generations, selected : Generations,
                       lasting : Generations]
  BY <1>1 DEF Disks, Logs
<1>2. CheckpointInv => TypeOK
  BY <1>1 DEF CheckpointInv, OwnerInv, DiskInv, Types, Fronts, TypeOK
<1> QED BY <1>2, CheckpointInvariant, PTL

\* The phase of Control says who owns what: parked work, a selected store and an
\* explicit checkpoint past wait_idle exclude each other and every attempt
THEOREM PhaseOwns ==
  ASSUME ~EmptyGroups, ~DirectBarrierFaults
  PROVE  Spec => []Ownership
<1>1. CheckpointInv => Ownership
  BY DEF CheckpointInv, OwnerInv
<1> QED BY <1>1, CheckpointInvariant, PTL

\* Control::adopt: the foreground can always take over the generation that the
\* owner published for it
THEOREM EveryHandoffAdoptable ==
  ASSUME ~EmptyGroups, ~DirectBarrierFaults
  PROVE  Spec => []HandoffAdoptable
<1>1. CheckpointInv => HandoffAdoptable
  BY OfferedAdoptable DEF CheckpointInv
<1> QED BY <1>1, CheckpointInvariant, PTL

\* Private work owns a generation of its own, above the one that is served and
\* apart from the one that the manifest names
THEOREM GenerationsPrivate ==
  ASSUME ~EmptyGroups, ~DirectBarrierFaults
  PROVE  Spec => []PrivateGenerations
BY PrivateAreApart, CheckpointInvariant, PTL

\* Whatever the manifest may name after a power loss opens with every commit
\* that was reported durable
THEOREM AlwaysRecoverable ==
  ASSUME ~EmptyGroups, ~DirectBarrierFaults
  PROVE  Spec => []Recoverable
<1>1. CheckpointInv => Recoverable
  BY DEF CheckpointInv, DiskInv
<1> QED BY <1>1, CheckpointInvariant, PTL

\* The generation the manifest names holds every commit of the foreground, also
\* between a publication and its adoption
THEOREM NothingEverLeftBehind ==
  ASSUME ~EmptyGroups, ~DirectBarrierFaults
  PROVE  Spec => []NothingLeftBehind
BY SelectedHoldsAll, CheckpointInvariant, PTL

\* Retirement and explicit publication never remove files that a reader, the
\* foreground or a catch-up still uses
THEOREM PinsRespected ==
  ASSUME ~EmptyGroups, ~DirectBarrierFaults
  PROVE  Spec => []PinnedReadable
BY UsedFilesExist, CheckpointInvariant, PTL

\* Neither an adoption nor a publication takes a commit away from the foreground
THEOREM NoCommitTakenBack ==
  ASSUME ~EmptyGroups, ~DirectBarrierFaults
  PROVE  Spec => CommitsKept
<1>1. CheckpointInv /\ [Next]_vars =>
        [budget'.crashes = budget.crashes => store'.epoch >= store.epoch]_vars
  BY StepKeepsCommits, RestartCounts
<1> QED BY <1>1, CheckpointInvariant, PTL DEF Spec, CommitsKept

\* What was reported durable is served in every state, also after a crash, an
\* adoption or a failed publication
THEOREM PromisesAlwaysServed ==
  ASSUME ~EmptyGroups, ~DirectBarrierFaults
  PROVE  Spec => []PromisesServed
<1>1. Init => PromisesServed
  <2> SUFFICES ASSUME Init PROVE PromisesServed
    OBVIOUS
  <2>1. promised = 0 /\ store.epoch \in Nat
    BY InitInv, AdoptedEpoch DEF Init
  <2> QED BY SMT, <2>1 DEF PromisesServed
<1>2. CheckpointInv /\ PromisesServed /\ [Next]_vars => PromisesServed'
  BY PromiseStep
<1> QED BY <1>1, <1>2, CheckpointInvariant, PTL DEF Spec

\* No step withdraws a promise: what Recoverable says of promised is said of every
\* commit that was ever reported durable
THEOREM PromisesOnlyGrow ==
  ASSUME ~EmptyGroups, ~DirectBarrierFaults
  PROVE  Spec => [][promised' >= promised]_vars
<1>1. CheckpointInv /\ PromisesServed /\ [Next]_vars => [promised' >= promised]_vars
  BY PromiseStep
<1> QED BY <1>1, CheckpointInvariant, PromisesAlwaysServed, PTL DEF Spec
=============================================================================
