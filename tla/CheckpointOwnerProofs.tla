------------------------ MODULE CheckpointOwnerProofs ------------------------
(***************************************************************************)
(* The inductive invariant of Checkpoint, and why the steps of the owner   *)
(* keep it: an attempt from its start to its publication or its end, the   *)
(* handoff and the retirement.                                             *)
(***************************************************************************)
EXTENDS Checkpoint, TLAPS

USE ZenonT(40)

-----------------------------------------------------------------------------
(* The owner: who holds what, and what it knows of the foreground *)

\* The places of an attempt in run
Attempting ==
  {"prepare", "resume", "replay", "gate", "drain", "settle", "fail", "discard"}

Fronts == [op : Operations \cup {None}, attempted : BOOLEAN, deferred : BOOLEAN]
Pinnings == [guard : [Readers -> {"none", "held", "waking"}], pin : [Readers -> Nat \cup {None}]]
Budgets == [denials : Nat, faults : Nat, crashes : Nat]

Types ==
  /\ store \in Stores /\ control \in Controls /\ owner \in Owners /\ manual \in Manuals
  /\ front \in Fronts /\ reader \in Pinnings /\ budget \in Budgets

\* Which of the private parts of an actor exist at which place
Shape ==
  /\ ~control.failed
  /\ control.group = store.group
  /\ control.retired # None => control.phase = "Retiring" /\ owner.at \in {"loop", "parked"}
  /\ owner.at \in Attempting <=> owner.src # None
  /\ owner.at \in {"loop", "parked", "release"} => owner.work = None
  /\ owner.at \in {"retire", "reclaim"} => owner.work \in Retirements
  /\ owner.at = "prepare" => owner.work \in Works \cup {None}
  /\ owner.at \in Attempting \ {"prepare"} => owner.work \in Works
  /\ owner.at \in {"resume", "replay", "gate", "drain", "settle"} =>
       owner.work.kind = "candidate"
  /\ manual.at \in {"captured", "prepared"} => manual.src \in Sources
  /\ manual.at \in {"discard", "prepared"} <=> manual.work # None
  /\ manual.at = "prepared" => manual.work.kind = "prepared"

\* What the caller in get_mut relies on
Caller ==
  /\ front.op \in {"append", "finish"} => store.group
  /\ front.op = "finish" => store.mark < store.epoch
  /\ front.op = "publish" => manual.at = "prepared"
  /\ front.op = "adopt" => manual.at = "suspended"

\* The owner has seen the generation the foreground serves
Fresh == control.generation = store.gen

\* What the owner knows of the foreground
Capture ==
  /\ control.last.gen = control.generation
  /\ Fresh => control.last = Captured(store)
  /\ ~Fresh => control.latest = None /\ control.pending = None /\ owner.src = None
  /\ control.latest # None =>
       /\ control.latest.gen = store.gen /\ control.latest.base = store.base
       /\ control.latest.epoch <= store.epoch
       /\ control.snapshot => control.latest.epoch < store.epoch

\* The source of the attempt under way is a prefix of the foreground, and a
\* capture that waits for the owner is newer
Attempt ==
  owner.src # None =>
    /\ owner.src.gen = store.gen /\ owner.src.base = store.base
    /\ owner.src.epoch <= store.epoch
    /\ control.latest # None /\ owner.at # "discard" => owner.src.epoch < control.latest.epoch
    /\ store.group => owner.src.epoch <= store.mark
    /\ control.snapshot => owner.src.epoch < store.epoch
    /\ owner.at \in {"gate", "settle"} => owner.work.epoch = owner.src.epoch

\* From the publication to the adoption nothing is committed
Unchanged(src) ==
  /\ control.latest = None /\ ~store.group /\ ~store.poisoned /\ Fresh
  /\ src.gen = store.gen /\ src.base = store.base /\ src.epoch = store.epoch

Offered ==
  /\ owner.at = "settle" => Unchanged(owner.src)
  /\ control.selected # None =>
       /\ Unchanged(control.selected.expected)
       /\ control.selected.gen > store.gen /\ control.selected.epoch = store.epoch

\* Private work is numbered above the generation that is served, a retirement
\* is of the generations below it
Numbers ==
  /\ control.pending # None => control.pending.gen > store.gen
  /\ owner.at \in Attempting /\ owner.work # None => owner.work.gen > store.gen
  /\ manual.work # None => manual.work.gen > store.gen
  /\ manual.at \in {"captured", "prepared"} => manual.src.gen = store.gen
  /\ manual.at = "prepared" => manual.work.epoch = manual.src.epoch
  /\ control.retired # None => control.retired.gen = store.gen
  /\ owner.at \in {"retire", "reclaim"} => owner.work.gen = store.gen

OwnerInv ==
  Types /\ Ownership /\ Shape /\ Caller /\ Capture /\ Attempt /\ Offered /\ Numbers

-----------------------------------------------------------------------------
(* The disk: what the generations hold *)

Logs == {f \in Contents : f.synced <= f.tail}
Disks ==
  [files : [Generations -> Logs \cup {None}], staging : SUBSET Generations,
   selected : Generations, lasting : Generations]

\* The files of generation g hold exactly the commits up to epoch
Holds(g, base, epoch) ==
  /\ g \in Generations /\ disk.files[g] # None
  /\ disk.files[g].base = base /\ disk.files[g].tail = epoch

\* The files of a candidate are complete up to its epoch
Complete(w) ==
  w # None =>
    /\ w.gen \in Generations
    /\ IF w.kind = "preparation" THEN w.epoch = w.base ELSE Holds(w.gen, w.base, w.epoch)

Images ==
  /\ Holds(store.gen, store.base, store.epoch)
  /\ Complete(control.pending) /\ Complete(manual.work)
  /\ owner.at \in Attempting => Complete(owner.work)
  /\ owner.at \in {"gate", "settle"} => disk.files[owner.work.gen].synced = owner.work.epoch
  /\ manual.at = "prepared" => disk.files[manual.work.gen].synced = manual.work.epoch
  /\ control.selected # None =>
       /\ Holds(control.selected.gen, control.selected.base, control.selected.epoch)
       /\ disk.files[control.selected.gen].synced = control.selected.epoch

\* After an uncertain publication nobody owns private work that could be published
Uncertain ==
  /\ store.poisoned /\ manual.at = "idle" /\ control.pending = None
  /\ control.phase \in {"Idle", "Preparing", "Finalizing", "Discarding"}
  /\ \/ owner.at \in {"loop", "prepare"} /\ owner.work = None
     \/ owner.at \in {"fail", "discard"} /\ owner.work.retain

\* Which generation the manifest names
Selector ==
  /\ owner.at = "settle" => disk.selected = owner.work.gen
  /\ control.selected # None => disk.selected = control.selected.gen
  /\ owner.at # "settle" /\ control.selected = None =>
       disk.selected = store.gen \/ (Uncertain /\ disk.selected > store.gen)

\* Which generation it may name after a power loss
Lasting ==
  /\ disk.lasting = disk.selected \/ (disk.lasting <= store.gen /\ disk.lasting < disk.selected)
  /\ store.named /\ ~store.poisoned => disk.lasting = disk.selected
  /\ owner.at = "settle" \/ control.phase \in {"Handoff", "Retiring"} =>
       disk.lasting = disk.selected

\* Pins that were read before the files are removed are stale only for the
\* generation that is served
Pinned ==
  /\ \A g \in PinnedGenerations : g \in Generations /\ g <= store.gen /\ disk.files[g] # None
  /\ owner.at = "reclaim" => PinnedGenerations \subseteq owner.pins \cup {store.gen}
  /\ front.op = "publish" => PinnedGenerations \subseteq manual.pins \cup {store.gen}

DiskInv ==
  /\ disk \in Disks /\ promised \in Nat
  /\ Images /\ Selector /\ Recoverable /\ Lasting /\ Pinned

CheckpointInv == OwnerInv /\ DiskInv

-----------------------------------------------------------------------------
(* Basic facts *)

\* None is none of the records it stands in for
LEMMA NoneFacts ==
  /\ None \notin Sources /\ None \notin Works /\ None \notin Selections
  /\ None \notin Retirements /\ None \notin Operations /\ None \notin Nat
  /\ None \notin Logs
BY CheckpointAssumption DEF Logs

\* A phase tells where the thread is
LEMMA PhaseFacts ==
  ASSUME Types, Ownership
  PROVE  /\ control.phase = "Idle" => owner.at = "loop"
         /\ control.phase = "Handoff" => owner.at \in {"loop", "parked"}
         /\ control.phase = "Retiring" => owner.at \in {"loop", "parked", "retire", "reclaim"}
         /\ owner.at \in Attempting =>
              control.phase \in {"Preparing", "Draining", "Finalizing", "Discarding"}
         /\ owner.at \in Attempting \ {"discard"} => control.phase # "Discarding"
         /\ owner.at \in {"parked", "retire", "reclaim"} => control.phase \in {"Handoff", "Retiring"}
         /\ owner.at \in {"retire", "reclaim"} => control.phase = "Retiring"
         /\ owner.at = "settle" => control.phase = "Finalizing"
         /\ owner.at = "release" => control.phase = "Releasing"
         /\ owner.at = "parked" /\ control.phase # "Handoff" => control.phase = "Retiring"
BY SMT DEF Types, Ownership, PhasesAt, Owners, Attempting

\* Control d has the duties of c: who waits for it and what it has to hand over
SameDuties(d, c) ==
  /\ d.suspended = c.suspended /\ d.group = c.group /\ d.pending = c.pending
  /\ d.selected = c.selected /\ d.retired = c.retired /\ d.failed = c.failed

\* Control d knows of the foreground what c knows
SameKnowledge(d, c) ==
  /\ d.last = c.last /\ d.generation = c.generation
  /\ d.latest = c.latest /\ d.snapshot = c.snapshot

\* While an attempt is under way nothing else is: no parked work, no handoff, no
\* retirement and no explicit checkpoint past wait_idle
LEMMA AttemptAlone ==
  ASSUME OwnerInv, owner.at \in Attempting
  PROVE  /\ control.pending = None /\ control.selected = None /\ control.retired = None
         /\ control.phase \notin {"Idle", "Handoff", "Retiring", "Releasing"}
         /\ manual.at \notin {"captured", "prepared", "discard"} /\ manual.work = None
         /\ owner.src \in Sources /\ owner.src # None /\ Fresh
         /\ front.op # "publish"
<1>1. control.phase \in {"Preparing", "Draining", "Finalizing", "Discarding"}
  BY PhaseFacts DEF OwnerInv
<1>2. owner.at \notin {"loop", "parked"}
  BY DEF Attempting
<1>3. control.pending = None /\ control.selected = None /\ control.retired = None
  BY <1>1, <1>2 DEF OwnerInv, Ownership, Shape
<1>4. manual.at \notin {"captured", "prepared", "discard"}
  BY <1>1, <1>2 DEF OwnerInv, Ownership
<1>5. owner.src # None /\ manual.work = None
  BY <1>4 DEF OwnerInv, Shape
<1>6. owner.src \in Sources
  BY SMT, <1>5 DEF OwnerInv, Types, Owners
<1> QED BY <1>1, <1>3, <1>4, <1>5, <1>6 DEF OwnerInv, Capture, Caller

\* A store that is left alone or only poisoned serves what it served
LEMMA StoreKept ==
  ASSUME store \in Stores, store' \in {store, [store EXCEPT !.poisoned = TRUE]}
  PROVE  /\ store' \in Stores /\ (store.poisoned => store'.poisoned)
         /\ store'.gen = store.gen /\ store'.base = store.base /\ store'.epoch = store.epoch
         /\ store'.group = store.group /\ store'.mark = store.mark
         /\ store'.named = store.named
         /\ Captured(store') = Captured(store)
<1>1. CASE store' = store
  BY <1>1
<1>2. CASE store' = [store EXCEPT !.poisoned = TRUE]
  <2>1. /\ store' \in Stores /\ store'.poisoned
        /\ store'.gen = store.gen /\ store'.base = store.base /\ store'.epoch = store.epoch
        /\ store'.group = store.group /\ store'.mark = store.mark
        /\ store'.named = store.named
    BY <1>2 DEF Stores
  <2> QED BY <2>1 DEF Captured
<1> QED BY <1>1, <1>2

-----------------------------------------------------------------------------
(* Steps inside an attempt *)

\* A step of an attempt that keeps its work private keeps the invariant
LEMMA AttemptStep ==
  ASSUME CheckpointInv, owner.at \in Attempting \ {"settle"},
         store' \in {store, [store EXCEPT !.poisoned = TRUE]},
         promised' = promised, manual' = manual, reader' = reader,
         front' \in Fronts, front'.op = front.op, budget' \in Budgets,
         control' \in Controls, SameDuties(control', control),
         owner' \in Owners, owner'.at \in Attempting \ {"settle"}, owner'.src # None,
         control'.phase \in PhasesAt[owner'.at],
         NEW w, w = owner'.work, w \in Works \/ (owner'.at = "prepare" /\ w = None),
         owner'.at \in {"resume", "replay", "gate", "drain"} => w.kind = "candidate",
         Capture', Attempt',
         w # None => w.gen > store.gen,
         disk' \in Disks, disk'.selected = disk.selected, disk'.lasting = disk.lasting,
         \A h \in Generations : h <= store.gen \/ h = disk.selected =>
                                  disk'.files[h] = disk.files[h],
         Complete(w)',
         owner'.at = "gate" => disk'.files[w.gen].synced = w.epoch,
         Uncertain => Uncertain'
  PROVE  CheckpointInv'
<1>1. /\ control.pending = None /\ control.selected = None /\ control.retired = None
      /\ manual.at \notin {"captured", "prepared", "discard"} /\ manual.work = None
      /\ front.op # "publish"
  BY AttemptAlone DEF CheckpointInv
<1>s. /\ store' \in Stores /\ (store.poisoned => store'.poisoned)
      /\ store'.gen = store.gen /\ store'.base = store.base /\ store'.epoch = store.epoch
      /\ store'.group = store.group /\ store'.mark = store.mark
      /\ store'.named = store.named
  BY StoreKept DEF CheckpointInv, OwnerInv, Types
<1>2. Types'
  BY <1>s DEF CheckpointInv, OwnerInv, Types
<1>3. /\ control'.phase \in {"Preparing", "Draining", "Finalizing", "Discarding"}
      /\ control'.phase = "Discarding" => owner'.at = "discard"
  BY SMT DEF PhasesAt, Attempting
<1>4. Ownership'
  BY <1>1, <1>3 DEF CheckpointInv, OwnerInv, Ownership, SameDuties
<1>5. owner'.at \notin {"loop", "parked", "release", "retire", "reclaim", "settle"}
  BY DEF Attempting
<1>6. Shape'
  BY <1>s, <1>1, <1>5 DEF CheckpointInv, OwnerInv, Shape, SameDuties
<1>7. Caller'
  BY <1>s DEF CheckpointInv, OwnerInv, Caller
<1>8. Offered' /\ Numbers'
  BY <1>s, <1>1, <1>5 DEF CheckpointInv, OwnerInv, Numbers, Offered, SameDuties
<1>9. Images'
  <2>1. store.gen \in Generations /\ store.gen <= store.gen
    BY SMT DEF CheckpointInv, OwnerInv, Types, Stores, DiskInv, Images, Holds
  <2>2. Holds(store.gen, store.base, store.epoch)'
    <3>1. disk'.files[store.gen] = disk.files[store.gen]
      BY <2>1
    <3>2. Holds(store.gen, store.base, store.epoch)
      BY DEF CheckpointInv, DiskInv, Images
    <3>3. /\ store'.gen \in Generations /\ disk'.files[store'.gen] # None
          /\ disk'.files[store'.gen].base = store'.base
          /\ disk'.files[store'.gen].tail = store'.epoch
      BY SMT, <1>s, <3>1, <3>2 DEF Holds
    <3> QED BY <3>3 DEF Holds
  <2>3. Complete(control.pending)' /\ Complete(manual.work)' /\ Complete(owner.work)'
    BY <1>1 DEF Complete, SameDuties
  <2> QED BY <1>1, <1>5, <2>2, <2>3 DEF Images, SameDuties
<1>10. Selector'
  BY <1>s, <1>1 DEF SameDuties, CheckpointInv, DiskInv, Selector
<1>11. disk.selected \in Generations /\ disk.lasting \in Generations
  BY SMT DEF CheckpointInv, DiskInv, Disks
<1>12. Recoverable'
  BY SMT, <1>s, <1>11 DEF CheckpointInv, DiskInv, Recoverable, Lasting
<1>13. Lasting'
  BY <1>s, <1>3, <1>5 DEF CheckpointInv, DiskInv, Lasting
<1>14. Pinned'
  <2>1. PinnedGenerations' = PinnedGenerations
    BY DEF PinnedGenerations
  <2>2. \A g \in PinnedGenerations : g \in Generations /\ g <= store.gen /\ disk'.files[g] # None
    BY DEF CheckpointInv, DiskInv, Pinned
  <2> QED BY <1>s, <1>1, <1>5, <2>1, <2>2 DEF Pinned
<1> QED BY <1>2, <1>4, <1>6, <1>7, <1>8, <1>9, <1>10, <1>12, <1>13, <1>14
        DEF CheckpointInv, OwnerInv, DiskInv

\* An attempt that keeps its source and learns nothing new
LEMMA SameSource ==
  ASSUME OwnerInv, owner.at \in Attempting \ {"discard"},
         store' \in {store, [store EXCEPT !.poisoned = TRUE]},
         SameKnowledge(control', control),
         owner'.src = owner.src, owner'.at # "settle",
         owner'.at = "gate" => owner'.work.epoch = owner.src.epoch
  PROVE  Capture' /\ Attempt'
<1>s. /\ store'.gen = store.gen /\ store'.base = store.base /\ store'.epoch = store.epoch
      /\ store'.group = store.group /\ store'.mark = store.mark
      /\ Captured(store') = Captured(store)
  BY StoreKept DEF OwnerInv, Types
<1>1. Fresh /\ Fresh'
  BY <1>s, AttemptAlone DEF Fresh, SameKnowledge
<1>2. owner.at # "discard"
  OBVIOUS
<1>3. Capture'
  BY <1>s, <1>1, AttemptAlone DEF OwnerInv, Capture, SameKnowledge
<1>4. Attempt'
  BY <1>s, <1>2 DEF OwnerInv, Attempt, SameKnowledge
<1> QED BY <1>3, <1>4

\* Outside the uncertain state the manifest names the generation that is served
\* as long as an attempt has not published
LEMMA ServedIsSelected ==
  ASSUME CheckpointInv, owner.at # "settle", control.selected = None, ~Uncertain
  PROVE  disk.selected = store.gen
BY DEF CheckpointInv, DiskInv, Selector

\* One file of the disk is replaced
LEMMA FileUpdate ==
  ASSUME NEW d \in Disks, NEW g \in Generations, NEW v \in Logs \cup {None}
  PROVE  LET e == [d EXCEPT !.files[g] = v]
         IN /\ e \in Disks /\ e.selected = d.selected /\ e.lasting = d.lasting
            /\ e.staging = d.staging /\ e.files[g] = v
            /\ \A h \in Generations : h # g => e.files[h] = d.files[h]
BY SMT DEF Disks

\* Discarding work touches its own generation only
LEMMA DropUpdate ==
  ASSUME NEW d \in Disks, NEW w \in Works \cup {None}, w # None => w.gen \in Generations
  PROVE  LET e == Drop(d, w)
         IN /\ e \in Disks /\ e.selected = d.selected /\ e.lasting = d.lasting
            /\ \A h \in Generations : w = None \/ h # w.gen => e.files[h] = d.files[h]
            /\ w # None /\ w.retain => e = d
<1>1. CASE w = None \/ w.retain
  BY <1>1 DEF Drop
<1>2. CASE w # None /\ ~w.retain
  <2>1. Drop(d, w) = [d EXCEPT !.files[w.gen] = None, !.staging = @ \ {w.gen}]
    BY <1>2 DEF Drop, DiscardPrepared
  <2>2. /\ Drop(d, w) \in Disks
        /\ Drop(d, w).selected = d.selected /\ Drop(d, w).lasting = d.lasting
        /\ \A h \in Generations : h # w.gen => Drop(d, w).files[h] = d.files[h]
    BY <1>2, <2>1 DEF Disks
  <2> QED BY <1>2, <2>2
<1> QED BY <1>1, <1>2

\* The next step of an attempt that writes nothing: suspended, denied, refused or waiting
LEMMA AttemptMoves ==
  ASSUME CheckpointInv, owner.at \in {"resume", "replay", "gate", "drain", "fail"},
         UNCHANGED <<disk, store, promised, manual, front, reader>>, budget' \in Budgets,
         control' \in Controls, SameDuties(control', control), SameKnowledge(control', control),
         NEW p \in {"resume", "gate", "drain", "fail", "discard"},
         owner' = [owner EXCEPT !.at = p],
         p = "gate" => owner.at = "gate",
         owner.at = "fail" => p = "discard",
         control'.phase \in PhasesAt[p]
  PROVE  CheckpointInv'
<1>1. /\ owner \in Owners /\ owner.work \in Works /\ owner.work # None
      /\ owner.at \in Attempting \ {"settle", "discard"} /\ owner.at \in Attempting \ {"settle"}
      /\ owner.at \in Attempting \ {"discard"} /\ owner.at \in Attempting
  BY NoneFacts DEF CheckpointInv, OwnerInv, Types, Shape, Attempting
<1>2. /\ owner' \in Owners /\ owner'.at = p /\ owner'.src = owner.src /\ owner'.work = owner.work
  BY SMT, <1>1 DEF Owners
<1>3. p \in Attempting \ {"settle"} /\ p # "settle" /\ p # "prepare"
  BY DEF Attempting
<1>4. owner.src # None /\ front \in Fronts
  BY <1>1, AttemptAlone DEF CheckpointInv, OwnerInv, Types
<1>5. p = "gate" => owner.work.epoch = owner.src.epoch /\ disk.files[owner.work.gen].synced = owner.work.epoch
  BY <1>4 DEF CheckpointInv, OwnerInv, Attempt, DiskInv, Images
<1>6. Capture' /\ Attempt'
  BY <1>1, <1>2, <1>3, <1>5, SameSource DEF CheckpointInv
<1>7. PICK w : w = owner.work
  OBVIOUS
<1>8. Complete(w) /\ Complete(w)' /\ w.gen > store.gen
  BY <1>1, <1>7 DEF CheckpointInv, OwnerInv, Numbers, DiskInv, Images, Complete, Holds
<1>9. Uncertain => Uncertain'
  <2> SUFFICES ASSUME Uncertain PROVE Uncertain'
    OBVIOUS
  <2>1. owner.at = "fail" /\ p = "discard"
    BY DEF Uncertain
  <2>2. control'.phase = "Discarding"
    BY SMT, <2>1 DEF PhasesAt
  <2> QED BY <1>2, <2>1, <2>2 DEF Uncertain, SameDuties
<1>10. p \in {"resume", "replay", "gate", "drain"} => w.kind = "candidate"
  BY <1>7 DEF CheckpointInv, OwnerInv, Shape
<1>11. disk \in Disks
  BY DEF CheckpointInv, DiskInv
<1> QED BY <1>1, <1>2, <1>3, <1>4, <1>5, <1>6, <1>7, <1>8, <1>9, <1>10, <1>11, AttemptStep

\* What a disturbance counts
LEMMA DisturbType ==
  ASSUME budget \in Budgets, \/ Deny \/ Fault \/ UNCHANGED budget
  PROVE  budget' \in Budgets
BY SMT DEF Budgets, Deny, Fault, Disturb
\* An attempt that ends drops its request to publish and nothing else
LEMMA StopFacts ==
  ASSUME NEW c \in Controls, NEW operation \in BOOLEAN
  PROVE  /\ Stop(c, operation) \in Controls /\ SameDuties(Stop(c, operation), c)
         /\ SameKnowledge(Stop(c, operation), c) /\ Stop(c, operation).phase = c.phase
<1>1. c.failures \in Nat
  BY DEF Controls
<1>2. PICK n \in Nat : n = IF operation THEN c.failures + 1 ELSE c.failures
  BY SMT, <1>1
<1>3. Stop(c, operation) = [c EXCEPT !.publication = FALSE, !.failures = n]
  BY <1>2 DEF Stop
<1> QED BY <1>3 DEF SameDuties, SameKnowledge, Controls
\* An attempt that stops, is refused or waits at the gate
LEMMA AttemptHalts ==
  ASSUME CheckpointInv,
         ResumeStops \/ ReplayRefused \/ GateContended \/ GateDrains \/ Drained \/ GateStops
  PROVE  CheckpointInv'
<1>1. control \in Controls /\ owner \in Owners /\ budget \in Budgets
      /\ control.phase \in PhasesAt[owner.at]
  BY DEF CheckpointInv, OwnerInv, Types, Ownership
<1>2. CASE ResumeStops
  <2>1. budget' \in Budgets
    BY <1>1, <1>2, DisturbType DEF ResumeStops
  <2>2. /\ control' \in Controls /\ SameDuties(control', control)
        /\ SameKnowledge(control', control)
        /\ control'.phase = control.phase
    BY <1>1, <1>2, StopFacts DEF ResumeStops
  <2>3. control'.phase \in PhasesAt["fail"]
    <3>1. owner.at = "resume"
      BY <1>2 DEF ResumeStops, At
    <3> QED BY SMT, <1>1, <2>2, <3>1 DEF PhasesAt
  <2> QED BY <1>2, <2>1, <2>2, <2>3, AttemptMoves DEF ResumeStops, At
<1>3. CASE ReplayRefused
  <2>1. budget' \in Budgets
    BY <1>1, <1>3, DisturbType DEF ReplayRefused
  <2>2. /\ control' \in Controls /\ SameDuties(control', control)
        /\ SameKnowledge(control', control)
        /\ control'.phase = control.phase
    BY <1>1, <1>3, StopFacts DEF ReplayRefused
  <2>3. control'.phase \in PhasesAt["fail"]
    <3>1. owner.at = "replay"
      BY <1>3 DEF ReplayRefused, At
    <3> QED BY SMT, <1>1, <2>2, <3>1 DEF PhasesAt
  <2> QED BY <1>3, <2>1, <2>2, <2>3, AttemptMoves DEF ReplayRefused, At
<1>4. CASE GateContended
  <2>1. budget' \in Budgets
    BY <1>1, <1>4, DisturbType DEF GateContended
  <2>2. /\ control' \in Controls /\ SameDuties(control', control)
        /\ SameKnowledge(control', control)
        /\ control'.phase = control.phase
    BY <1>1, <1>4 DEF SameDuties, SameKnowledge, GateContended, Controls
  <2>3. owner' = [owner EXCEPT !.at = "gate"]
    BY SMT, <1>1, <1>4 DEF GateContended, At, Owners
  <2> QED BY <1>1, <1>4, <2>1, <2>2, <2>3, AttemptMoves DEF GateContended, At
<1>5. CASE GateDrains
  <2>1. budget' \in Budgets
    BY <1>1, <1>5 DEF GateDrains
  <2>2. /\ control' \in Controls /\ SameDuties(control', control)
        /\ SameKnowledge(control', control)
        /\ control'.phase = "Draining"
    BY <1>1, <1>5 DEF SameDuties, SameKnowledge, GateDrains, Controls, Phases
  <2>3. control'.phase \in PhasesAt["drain"]
    BY SMT, <2>2 DEF PhasesAt
  <2> QED BY <1>5, <2>1, <2>2, <2>3, AttemptMoves DEF GateDrains, At
<1>6. CASE Drained
  <2>1. budget' \in Budgets
    BY <1>1, <1>6 DEF Drained
  <2>2. /\ control' \in Controls /\ SameDuties(control', control)
        /\ SameKnowledge(control', control)
        /\ control'.phase \in {"Preparing", "Draining"}
    BY SMT, <1>1, <1>6 DEF SameDuties, SameKnowledge, Drained, Controls, Phases
  <2>3. control'.phase \in PhasesAt["resume"]
    BY SMT, <2>2 DEF PhasesAt
  <2> QED BY <1>6, <2>1, <2>2, <2>3, AttemptMoves DEF Drained, At
<1>7. CASE GateStops
  <2>1. budget' \in Budgets
    BY <1>1, <1>7, DisturbType DEF GateStops
  <2>2. /\ control' \in Controls /\ SameDuties(control', control)
        /\ SameKnowledge(control', control)
        /\ control'.phase = "Draining"
    BY <1>1, <1>7 DEF SameDuties, SameKnowledge, GateStops, Stop, Controls, Phases
  <2>3. control'.phase \in PhasesAt["fail"]
    BY SMT, <2>2 DEF PhasesAt
  <2> QED BY <1>7, <2>1, <2>2, <2>3, AttemptMoves DEF GateStops, At
<1> QED BY <1>2, <1>3, <1>4, <1>5, <1>6, <1>7

\* What an attempt owns before it publishes
LEMMA AttemptOwns ==
  ASSUME CheckpointInv, owner.at \in {"prepare", "resume", "replay", "gate", "drain"}, owner.work # None
  PROVE  /\ owner.work \in Works /\ owner.work.gen \in Generations /\ owner.work.gen > store.gen
         /\ Complete(owner.work) /\ ~Uncertain /\ disk.selected = store.gen
         /\ \A h \in Generations : h <= store.gen \/ h = disk.selected => h # owner.work.gen
<1>1. owner.at \in Attempting
  BY DEF Attempting
<1>2. owner.work \in Works
  BY <1>1 DEF CheckpointInv, OwnerInv, Shape, Attempting
<1>3. Complete(owner.work) /\ owner.work.gen > store.gen
  BY <1>1 DEF CheckpointInv, OwnerInv, Numbers, DiskInv, Images
<1>4. owner.work.gen \in Generations
  BY <1>3 DEF Complete
<1>5. ~Uncertain
  BY DEF Uncertain
<1>6. disk.selected = store.gen
  BY <1>1, <1>5, AttemptAlone, ServedIsSelected DEF CheckpointInv
<1>7. store.gen \in Nat /\ owner.work.gen \in Nat
  BY SMT, <1>2 DEF CheckpointInv, OwnerInv, Types, Stores, Works
<1>8. \A h \in Generations : h <= store.gen \/ h = disk.selected => h # owner.work.gen
  BY SMT, <1>3, <1>6, <1>7
<1> QED BY <1>2, <1>3, <1>4, <1>5, <1>6, <1>8

\* A parked candidate is continued, or destroyed
LEMMA ContinueCandidateInv ==
  ASSUME CheckpointInv, ContinueCandidate
  PROVE  CheckpointInv'
<1> USE DEF At
<1>1. /\ control \in Controls /\ owner \in Owners /\ front \in Fronts /\ budget \in Budgets
      /\ disk \in Disks /\ control.phase \in PhasesAt[owner.at] /\ owner.at = "prepare"
      /\ owner.work # None /\ owner.work.kind = "candidate"
  BY DEF CheckpointInv, OwnerInv, DiskInv, Types, Ownership, ContinueCandidate
<1>2. owner.at \in Attempting \ {"settle"} /\ owner.at \in Attempting /\ owner.at \in Attempting \ {"discard"}
  BY <1>1 DEF Attempting
<1>3. /\ owner.work \in Works /\ owner.work.gen \in Generations /\ owner.work.gen > store.gen
      /\ Complete(owner.work) /\ ~Uncertain /\ disk.selected = store.gen
      /\ \A h \in Generations : h <= store.gen \/ h = disk.selected => h # owner.work.gen
  BY <1>1, AttemptOwns
<1>4. /\ UNCHANGED <<store, promised, control, manual, front, reader, budget>>
      /\ SameDuties(control', control) /\ SameKnowledge(control', control)
  BY DEF ContinueCandidate, SameDuties, SameKnowledge
<1>5. owner.src # None
  BY <1>2, AttemptAlone DEF CheckpointInv
<1>6. CASE CanContinueFrom(owner.work, owner.src)
  <2>1. disk' = disk /\ owner' = [owner EXCEPT !.at = "resume"]
    BY <1>6 DEF ContinueCandidate
  <2>2. owner' \in Owners /\ owner'.at = "resume" /\ owner'.src = owner.src /\ owner'.work = owner.work
    BY SMT, <1>1, <2>1 DEF Owners
  <2>3. control'.phase \in PhasesAt[owner'.at]
    BY SMT, <1>1, <1>4, <2>2 DEF PhasesAt
  <2>4. PICK w : w = owner.work
    OBVIOUS
  <2>5. Complete(w)'
    BY <1>3, <2>1, <2>4 DEF Complete, Holds
  <2>6. Capture' /\ Attempt'
    BY <1>2, <1>4, <2>2, SameSource DEF CheckpointInv
  <2>7. owner'.at \in Attempting \ {"settle"}
    BY <2>2 DEF Attempting
  <2> QED BY <1>1, <1>2, <1>3, <1>4, <1>5, <2>1, <2>2, <2>3, <2>4, <2>5, <2>6, <2>7, AttemptStep
<1>7. CASE ~CanContinueFrom(owner.work, owner.src)
  <2>1. disk' = Drop(disk, owner.work) /\ owner' = [owner EXCEPT !.work = None]
    BY <1>7 DEF ContinueCandidate
  <2>2. owner' \in Owners /\ owner'.at = owner.at /\ owner'.src = owner.src /\ owner'.work = None
    BY SMT, <1>1, <2>1 DEF Owners
  <2>3. /\ disk' \in Disks /\ disk'.selected = disk.selected /\ disk'.lasting = disk.lasting
        /\ \A h \in Generations : h # owner.work.gen => disk'.files[h] = disk.files[h]
    BY <1>1, <1>3, <2>1, DropUpdate
  <2>4. PICK w : w = None
    OBVIOUS
  <2>5. Complete(w)'
    BY <2>4 DEF Complete
  <2>6. Capture' /\ Attempt'
    BY <1>1, <1>2, <1>4, <2>2, SameSource DEF CheckpointInv
  <2> QED BY <1>1, <1>2, <1>3, <1>4, <1>5, <2>2, <2>3, <2>4, <2>5, <2>6, AttemptStep
<1> QED BY <1>6, <1>7

\* next_checkpoint_generation names a generation above its source
LEMMA NextGenerationAbove ==
  ASSUME NEW src, NEW g \in NextGenerations(src)
  PROVE  g \in Generations /\ g > src.gen /\ g \notin disk.staging
BY DEF NextGenerations

\* A new piece of work
LEMMA WorkType ==
  ASSUME NEW kind \in {"preparation", "candidate", "prepared"}, NEW src \in Sources, NEW g \in Nat
  PROVE  /\ Work(kind, src, g) \in Works /\ Work(kind, src, g).gen = g
         /\ Work(kind, src, g).kind = kind /\ ~Work(kind, src, g).retain
         /\ Work(kind, src, g).base = src.epoch /\ Work(kind, src, g).epoch = src.epoch
BY SMT DEF Work, Works, Sources

\* The owner takes a staging directory for a new generation
LEMMA StageGenerationInv ==
  ASSUME CheckpointInv, StageGeneration
  PROVE  CheckpointInv'
<1> USE DEF At
<1>1. /\ control \in Controls /\ owner \in Owners /\ front \in Fronts /\ budget \in Budgets
      /\ disk \in Disks /\ control.phase \in PhasesAt[owner.at] /\ owner.at = "prepare"
      /\ owner.work = None /\ ~store.poisoned
  BY DEF CheckpointInv, OwnerInv, DiskInv, Types, Ownership, StageGeneration
<1>2. owner.at \in Attempting \ {"settle"} /\ owner.at \in Attempting /\ owner.at \in Attempting \ {"discard"}
  BY <1>1 DEF Attempting
<1>3. /\ UNCHANGED <<store, promised, control, manual, front, reader, budget>>
      /\ SameDuties(control', control) /\ SameKnowledge(control', control)
  BY DEF StageGeneration, SameDuties, SameKnowledge
<1>4. owner.src # None /\ owner.src \in Sources /\ owner.src.gen = store.gen
  BY <1>2, AttemptAlone DEF CheckpointInv, OwnerInv, Attempt
<1>5. PICK g \in NextGenerations(owner.src) :
        /\ disk' = [disk EXCEPT !.staging = @ \cup {g}]
        /\ owner' = [owner EXCEPT !.work = Work("preparation", owner.src, g)]
  BY DEF StageGeneration
<1>6. g \in Generations /\ g > store.gen /\ g \in Nat
  <2>1. g \in Generations /\ g > store.gen
    BY <1>4, <1>5, NextGenerationAbove
  <2> QED BY SMT, <2>1, CheckpointAssumption DEF Generations
<1>7. PICK w : w = Work("preparation", owner.src, g)
  OBVIOUS
<1>8. /\ w \in Works /\ w.gen = g /\ w.kind = "preparation" /\ w.base = w.epoch
  BY SMT, <1>4, <1>6, <1>7, WorkType
<1>9. owner' \in Owners /\ owner'.at = owner.at /\ owner'.src = owner.src /\ owner'.work = w
  BY SMT, <1>1, <1>5, <1>7, <1>8 DEF Owners
<1>10. /\ disk' \in Disks /\ disk'.selected = disk.selected /\ disk'.lasting = disk.lasting
       /\ disk'.files = disk.files
  BY SMT, <1>1, <1>5, <1>6 DEF Disks
<1>11. Complete(w)'
  BY <1>6, <1>8 DEF Complete
<1>12. Capture' /\ Attempt'
  BY <1>1, <1>2, <1>3, <1>9, SameSource DEF CheckpointInv
<1>13. ~Uncertain
  BY <1>1 DEF Uncertain
<1> QED BY <1>1, <1>2, <1>3, <1>4, <1>6, <1>8, <1>9, <1>10, <1>11, <1>12, <1>13, AttemptStep

\* The files of the staged generation are written
LEMMA PrepareCandidateInv ==
  ASSUME CheckpointInv, PrepareCandidate
  PROVE  CheckpointInv'
<1> USE DEF At
<1>1. /\ control \in Controls /\ owner \in Owners /\ front \in Fronts /\ budget \in Budgets
      /\ disk \in Disks /\ control.phase \in PhasesAt[owner.at] /\ owner.at = "prepare"
      /\ owner.work # None /\ owner.work.kind = "preparation"
  BY DEF CheckpointInv, OwnerInv, DiskInv, Types, Ownership, PrepareCandidate
<1>2. owner.at \in Attempting \ {"settle"} /\ owner.at \in Attempting /\ owner.at \in Attempting \ {"discard"}
  BY <1>1 DEF Attempting
<1>3. /\ owner.work \in Works /\ owner.work.gen \in Generations /\ owner.work.gen > store.gen
      /\ Complete(owner.work) /\ ~Uncertain
      /\ \A h \in Generations : h <= store.gen \/ h = disk.selected => h # owner.work.gen
  BY <1>1, AttemptOwns
<1>4. /\ UNCHANGED <<store, promised, control, manual, front, reader, budget>>
      /\ SameDuties(control', control) /\ SameKnowledge(control', control)
  BY DEF PrepareCandidate, SameDuties, SameKnowledge
<1>5. owner.src # None
  BY <1>2, AttemptAlone DEF CheckpointInv
<1>6. PICK w : w = [owner.work EXCEPT !.kind = "candidate"]
  OBVIOUS
<1>7. /\ w \in Works /\ w.kind = "candidate" /\ w.gen = owner.work.gen
      /\ w.base = owner.work.base /\ w.epoch = owner.work.epoch
  BY SMT, <1>3, <1>6 DEF Works
<1>8. owner' = [owner EXCEPT !.at = "resume", !.work.kind = "candidate"]
  BY DEF PrepareCandidate
<1>9. owner' \in Owners /\ owner'.at = "resume" /\ owner'.src = owner.src /\ owner'.work = w
  BY <1>1, <1>6, <1>7, <1>8 DEF Owners
<1>10. PICK v : v = Files(owner.work.base, owner.work.base, owner.work.base)
  OBVIOUS
<1>11. v \in Logs /\ v.base = owner.work.base /\ v.tail = owner.work.base
  BY SMT, <1>3, <1>10 DEF Works, Logs, Contents, Files
<1>12. disk' = [disk EXCEPT !.files[owner.work.gen] = v]
  BY <1>10 DEF PrepareCandidate
<1>13. /\ disk' \in Disks /\ disk'.selected = disk.selected /\ disk'.lasting = disk.lasting
       /\ disk'.files[owner.work.gen] = v
       /\ \A h \in Generations : h # owner.work.gen => disk'.files[h] = disk.files[h]
  BY SMT, <1>1, <1>3, <1>11, <1>12, FileUpdate
<1>14. owner.work.epoch = owner.work.base /\ None \notin Logs
  BY <1>1, <1>3, NoneFacts DEF Complete
<1>15. Complete(w)'
  BY <1>3, <1>7, <1>11, <1>13, <1>14 DEF Complete, Holds
<1>16. Capture' /\ Attempt'
  BY <1>2, <1>4, <1>9, SameSource DEF CheckpointInv
<1>17. control'.phase \in PhasesAt[owner'.at] /\ owner'.at \in Attempting \ {"settle"}
  BY SMT, <1>1, <1>4, <1>9 DEF PhasesAt, Attempting
<1> QED BY <1>1, <1>2, <1>3, <1>4, <1>5, <1>7, <1>9, <1>13, <1>15, <1>16, <1>17, AttemptStep

\* An attempt goes on from the newest capture
LEMMA ResumeInv ==
  ASSUME CheckpointInv, Resume
  PROVE  CheckpointInv'
<1> USE DEF At
<1> DEFINE newer == ~control.group /\ control.latest # None
<1>1. /\ control \in Controls /\ owner \in Owners /\ front \in Fronts /\ budget \in Budgets
      /\ disk \in Disks /\ control.phase \in PhasesAt[owner.at] /\ owner.at = "resume"
      /\ store \in Stores /\ control.group = store.group
  BY DEF CheckpointInv, OwnerInv, DiskInv, Types, Ownership, Shape, Resume
<1>2. owner.at \in Attempting \ {"settle"} /\ owner.at \in Attempting /\ owner.at \in Attempting \ {"discard"}
  BY <1>1 DEF Attempting
<1>3. owner.src # None /\ owner.src \in Sources /\ Fresh /\ owner.work # None
  BY <1>1, <1>2, AttemptAlone, NoneFacts DEF CheckpointInv, OwnerInv, Shape, Attempting
<1>4. /\ owner.work \in Works /\ owner.work.gen > store.gen /\ Complete(owner.work) /\ ~Uncertain
  BY <1>1, <1>3, AttemptOwns
<1>5. UNCHANGED <<disk, store, promised, manual, front, reader, budget>>
  BY DEF Resume
<1>6. /\ control' \in Controls /\ SameDuties(control', control)
      /\ control'.last = control.last /\ control'.generation = control.generation
      /\ control'.snapshot = control.snapshot /\ control'.phase = control.phase
      /\ control'.latest = IF newer THEN None ELSE control.latest
  BY SMT, <1>1 DEF Resume, Controls, SameDuties
<1>7. /\ owner' \in Owners /\ owner'.at = "replay" /\ owner'.work = owner.work
      /\ owner'.src = IF newer THEN control.latest ELSE owner.src
  BY <1>1, <1>3 DEF Resume, Owners, Controls
<1>8. control'.phase \in PhasesAt[owner'.at] /\ owner'.at \in Attempting \ {"settle"}
  BY SMT, <1>1, <1>6, <1>7 DEF PhasesAt, Attempting
<1>9. owner'.src # None
  BY <1>3, <1>7
<1>10. Capture'
  BY <1>3, <1>5, <1>6 DEF CheckpointInv, OwnerInv, Capture, Fresh
<1>11. Attempt'
  BY <1>1, <1>3, <1>5, <1>6, <1>7 DEF CheckpointInv, OwnerInv, Attempt, Capture
<1>12. PICK w : w = owner.work
  OBVIOUS
<1>13. Complete(w)'
  BY <1>4, <1>5, <1>12 DEF Complete, Holds
<1>14. w.kind = "candidate"
  BY <1>1, <1>12 DEF CheckpointInv, OwnerInv, Shape
<1> QED BY <1>1, <1>2, <1>3, <1>4, <1>5, <1>6, <1>7, <1>8, <1>9, <1>10, <1>11, <1>12, <1>13, <1>14,
           AttemptStep

\* A candidate catches up with its source
LEMMA ReplayInv ==
  ASSUME CheckpointInv, Replay
  PROVE  CheckpointInv'
<1> USE DEF At
<1>1. /\ control \in Controls /\ owner \in Owners /\ front \in Fronts /\ budget \in Budgets
      /\ disk \in Disks /\ control.phase \in PhasesAt[owner.at] /\ owner.at = "replay"
  BY DEF CheckpointInv, OwnerInv, DiskInv, Types, Ownership, Replay
<1>2. owner.at \in Attempting \ {"settle"} /\ owner.at \in Attempting /\ owner.at \in Attempting \ {"discard"}
  BY <1>1 DEF Attempting
<1>3. owner.src # None /\ owner.src \in Sources /\ owner.src.epoch \in Nat /\ owner.work # None
  <2>1. owner.src # None /\ owner.src \in Sources /\ owner.work # None
    BY <1>1, <1>2, AttemptAlone, NoneFacts DEF CheckpointInv, OwnerInv, Shape, Attempting
  <2> QED BY SMT, <2>1 DEF Sources
<1>4. /\ owner.work \in Works /\ owner.work.gen \in Generations /\ owner.work.gen > store.gen
      /\ Complete(owner.work) /\ ~Uncertain
      /\ \A h \in Generations : h <= store.gen \/ h = disk.selected => h # owner.work.gen
  BY <1>1, <1>3, AttemptOwns
<1>5. /\ UNCHANGED <<store, promised, control, manual, front, reader, budget>>
      /\ SameDuties(control', control) /\ SameKnowledge(control', control)
  BY DEF Replay, SameDuties, SameKnowledge
<1>6. owner.work.kind = "candidate"
  BY <1>1 DEF CheckpointInv, OwnerInv, Shape
<1>7. /\ disk.files[owner.work.gen] # None /\ disk.files[owner.work.gen].base = owner.work.base
  BY <1>4, <1>3, <1>6 DEF Complete, Holds
<1>8. disk.files[owner.work.gen] \in Logs
  BY SMT, <1>1, <1>4, <1>7 DEF Disks
<1>9. PICK w : w = [owner.work EXCEPT !.epoch = owner.src.epoch]
  OBVIOUS
<1>10. /\ w \in Works /\ w.kind = "candidate" /\ w.gen = owner.work.gen
       /\ w.base = owner.work.base /\ w.epoch = owner.src.epoch
  BY SMT, <1>3, <1>4, <1>6, <1>9 DEF Works
<1>11. owner' = [owner EXCEPT !.at = "gate", !.work.epoch = owner.src.epoch]
  BY DEF Replay
<1>12. owner' \in Owners /\ owner'.at = "gate" /\ owner'.src = owner.src /\ owner'.work = w
  BY <1>1, <1>9, <1>10, <1>11 DEF Owners
<1>13. disk' = [disk EXCEPT !.files[owner.work.gen].tail = owner.src.epoch,
                            !.files[owner.work.gen].synced = owner.src.epoch]
  BY DEF Replay
<1>14. PICK v : v = [disk.files[owner.work.gen] EXCEPT !.tail = owner.src.epoch,
                                                       !.synced = owner.src.epoch]
  OBVIOUS
<1>15. /\ v \in Logs /\ v.base = owner.work.base /\ v.tail = owner.src.epoch
       /\ v.synced = owner.src.epoch
  <2>1. owner.src.epoch \in Nat /\ owner.src.epoch <= owner.src.epoch
    BY SMT, <1>3 DEF Sources
  <2>2. disk.files[owner.work.gen] \in Contents
    BY <1>8 DEF Logs
  <2>3. /\ v \in Contents /\ v.base = disk.files[owner.work.gen].base
        /\ v.tail = owner.src.epoch /\ v.synced = owner.src.epoch
    BY <1>14, <2>1, <2>2 DEF Contents
  <2> QED BY <1>7, <2>1, <2>3 DEF Logs
<1>16. disk' = [disk EXCEPT !.files[owner.work.gen] = v]
  BY <1>1, <1>4, <1>8, <1>13, <1>14 DEF Disks, Logs, Contents
<1>17. /\ disk' \in Disks /\ disk'.selected = disk.selected /\ disk'.lasting = disk.lasting
       /\ disk'.files[owner.work.gen] = v
       /\ \A h \in Generations : h # owner.work.gen => disk'.files[h] = disk.files[h]
  BY SMT, <1>1, <1>4, <1>15, <1>16, FileUpdate
<1>18. Complete(w)'
  BY <1>4, <1>10, <1>15, <1>17, NoneFacts DEF Complete, Holds
<1>19. Capture' /\ Attempt'
  BY <1>2, <1>5, <1>10, <1>12, SameSource DEF CheckpointInv
<1>20. control'.phase \in PhasesAt[owner'.at] /\ owner'.at \in Attempting \ {"settle"}
  BY SMT, <1>1, <1>5, <1>12 DEF PhasesAt, Attempting
<1> QED BY <1>1, <1>2, <1>3, <1>4, <1>5, <1>10, <1>12, <1>15, <1>17, <1>18, <1>19, <1>20, AttemptStep

\* A replay stops after a complete record
LEMMA ReplayStopsInv ==
  ASSUME CheckpointInv, ReplayStops
  PROVE  CheckpointInv'
<1> USE DEF At
<1>1. /\ control \in Controls /\ owner \in Owners /\ front \in Fronts /\ budget \in Budgets
      /\ disk \in Disks /\ control.phase \in PhasesAt[owner.at] /\ owner.at = "replay"
  BY DEF CheckpointInv, OwnerInv, DiskInv, Types, Ownership, ReplayStops
<1>2. owner.at \in Attempting \ {"settle"} /\ owner.at \in Attempting /\ owner.at \in Attempting \ {"discard"}
  BY <1>1 DEF Attempting
<1>3. owner.src # None /\ owner.src \in Sources /\ owner.work # None
  BY <1>1, <1>2, AttemptAlone, NoneFacts DEF CheckpointInv, OwnerInv, Shape, Attempting
<1>4. /\ owner.work \in Works /\ owner.work.gen \in Generations /\ owner.work.gen > store.gen
      /\ Complete(owner.work) /\ ~Uncertain
      /\ \A h \in Generations : h <= store.gen \/ h = disk.selected => h # owner.work.gen
  BY <1>1, <1>3, AttemptOwns
<1>5. PICK epoch \in owner.work.epoch .. owner.src.epoch, operation \in BOOLEAN, failed \in BOOLEAN :
        /\ IF operation THEN FaultMayPoison
           ELSE UNCHANGED store /\ (Deny \/ (control.suspended /\ UNCHANGED budget))
        /\ disk' = [disk EXCEPT !.files[owner.work.gen].tail = epoch]
        /\ owner' = [owner EXCEPT !.at = "fail", !.work.epoch = epoch, !.work.failed = failed]
        /\ control' = Stop(control, operation)
  BY DEF ReplayStops
<1>6. epoch \in Nat
  BY SMT, <1>3, <1>4 DEF Works, Sources
<1>7. /\ UNCHANGED <<promised, manual, front, reader>> /\ budget' \in Budgets
      /\ store' \in {store, [store EXCEPT !.poisoned = TRUE]}
  BY <1>1, <1>5, DisturbType DEF ReplayStops, FaultMayPoison
<1>8. /\ control' \in Controls /\ SameDuties(control', control)
      /\ SameKnowledge(control', control) /\ control'.phase = control.phase
  BY <1>1, <1>5, StopFacts
<1>9. owner.work.kind = "candidate"
  BY <1>1 DEF CheckpointInv, OwnerInv, Shape
<1>10. /\ disk.files[owner.work.gen] # None /\ disk.files[owner.work.gen].base = owner.work.base
       /\ disk.files[owner.work.gen].tail = owner.work.epoch
  BY <1>4, <1>3, <1>9 DEF Complete, Holds
<1>11. disk.files[owner.work.gen] \in Logs
  BY SMT, <1>1, <1>4, <1>10 DEF Disks
<1>12. PICK w : w = [owner.work EXCEPT !.epoch = epoch, !.failed = failed]
  OBVIOUS
<1>13. /\ w \in Works /\ w.kind = "candidate" /\ w.gen = owner.work.gen
       /\ w.base = owner.work.base /\ w.epoch = epoch
  <2>1. owner.work \in Works /\ failed \in BOOLEAN
    BY <1>4
  <2> QED BY <1>6, <1>9, <1>12, <2>1 DEF Works
<1>14. owner' \in Owners /\ owner'.at = "fail" /\ owner'.src = owner.src /\ owner'.work = w
  BY <1>1, <1>5, <1>12, <1>13 DEF Owners
<1>15. PICK v : v = [disk.files[owner.work.gen] EXCEPT !.tail = epoch]
  OBVIOUS
<1>16. v \in Logs /\ v.base = owner.work.base /\ v.tail = epoch
  <2>1. epoch >= owner.work.epoch /\ owner.work.epoch \in Nat
    BY SMT, <1>3, <1>4 DEF Works, Sources
  <2> QED BY SMT, <1>6, <1>10, <1>11, <1>15, <2>1 DEF Logs, Contents
<1>17. disk' = [disk EXCEPT !.files[owner.work.gen] = v]
  BY <1>5, <1>15
<1>18. /\ disk' \in Disks /\ disk'.selected = disk.selected /\ disk'.lasting = disk.lasting
       /\ disk'.files[owner.work.gen] = v
       /\ \A h \in Generations : h # owner.work.gen => disk'.files[h] = disk.files[h]
  BY SMT, <1>1, <1>4, <1>16, <1>17, FileUpdate
<1>19. Complete(w)'
  BY <1>4, <1>13, <1>16, <1>18, NoneFacts DEF Complete, Holds
<1>20. Capture' /\ Attempt'
  BY <1>2, <1>7, <1>8, <1>14, SameSource DEF CheckpointInv
<1>21. control'.phase \in PhasesAt[owner'.at] /\ owner'.at \in Attempting \ {"settle"}
  BY SMT, <1>1, <1>8, <1>14 DEF PhasesAt, Attempting
<1> QED BY <1>1, <1>2, <1>3, <1>4, <1>7, <1>8, <1>13, <1>14, <1>18, <1>19, <1>20, <1>21, AttemptStep

-----------------------------------------------------------------------------
(* Captures *)

\* checkpoint_source_identity tells captures apart by generation, base and epoch
LEMMA IdentityEqual ==
  ASSUME NEW a \in Sources, NEW b \in Sources
  PROVE  /\ Identity(a) = Identity(b) <=> a.gen = b.gen /\ a.base = b.base /\ a.epoch = b.epoch
         /\ Identity(None) # Identity(a)
<1>1. a # None /\ b # None
  BY NoneFacts
<1>2. Identity(a) = <<a.gen, a.base, a.epoch>> /\ Identity(b) = <<b.gen, b.base, b.epoch>>
      /\ Identity(None) = <<>>
  BY <1>1 DEF Identity
<1> QED BY SMT, <1>2

\* Source::capture
LEMMA CapturedType ==
  ASSUME NEW s \in Stores
  PROVE  /\ Captured(s) \in Sources /\ Captured(s) # None
         /\ Captured(s).gen = s.gen /\ Captured(s).base = s.base
         /\ Captured(s).epoch = s.epoch /\ Captured(s).group = s.group
<1>1. /\ Captured(s) \in Sources
      /\ Captured(s).gen = s.gen /\ Captured(s).base = s.base
      /\ Captured(s).epoch = s.epoch /\ Captured(s).group = s.group
  BY SMT DEF Captured, Stores, Sources
<1> QED BY <1>1, NoneFacts

\* Control::submit keeps everything but what it captures
LEMMA SubmitFacts ==
  ASSUME NEW c \in Controls, NEW s \in Stores, c.last.gen = c.generation
  PROVE  LET d == Submit(c, s)
         IN /\ d \in Controls
            /\ d.phase = c.phase /\ d.suspended = c.suspended /\ d.pending = c.pending
            /\ d.publication = c.publication /\ d.selected = c.selected
            /\ d.retired = c.retired /\ d.failed = c.failed
            /\ d.group = s.group /\ d.generation = s.gen /\ d.last = Captured(s)
            /\ ~d.snapshot
            /\ d.latest = Captured(s) \/ d.latest = c.latest
            /\ s.gen # c.generation \/ c.snapshot => d.latest = Captured(s)
            /\ d.latest # c.latest =>
                 \/ c.snapshot \/ (c.group /\ ~s.group)
                 \/ Identity(Captured(s)) # Identity(c.last)
<1> DEFINE d == Submit(c, s)
           finished == c.group /\ ~s.group
           moved == s.gen # c.generation
           changed == Identity(Captured(s)) # Identity(c.last)
           capture == \/ c.snapshot \/ moved \/ finished \/ c.publication
                      \/ c.latest = None \/ Debt(c.latest) = 0
           take == (changed /\ capture) \/ finished \/ c.snapshot
<1>1. Captured(s) \in Sources /\ Captured(s).gen = s.gen
  BY CapturedType
<1>2. c.last \in Sources /\ c.snapshot \in BOOLEAN
  BY SMT DEF Controls
<1>3. d = [c EXCEPT !.group = s.group,
               !.generation = s.gen,
               !.failures = IF moved THEN 0 ELSE @,
               !.snapshot = @ /\ ~take,
               !.latest = IF take THEN Captured(s) ELSE @,
               !.last = Captured(s)]
  BY DEF Submit
<1>4. moved => take
  BY <1>1, <1>2, IdentityEqual
<1>5. (c.snapshot /\ ~take) = FALSE
  BY <1>2
<1>6. c.snapshot => take
  OBVIOUS
<1>7. take => c.snapshot \/ finished \/ changed
  OBVIOUS
<1> HIDE DEF take, d
<1>8. PICK l : l = IF take THEN Captured(s) ELSE c.latest
  OBVIOUS
<1>9. l \in Sources \cup {None}
  BY SMT, <1>1, <1>8 DEF Controls
<1>10. PICK f \in Nat : f = IF moved THEN 0 ELSE c.failures
  BY SMT DEF Controls
<1>11. d = [c EXCEPT !.group = s.group, !.generation = s.gen, !.failures = f,
               !.snapshot = FALSE, !.latest = l, !.last = Captured(s)]
  BY <1>3, <1>5, <1>8, <1>10
<1>12. s.group \in BOOLEAN /\ s.gen \in Nat
  BY SMT DEF Stores
<1>13. /\ d \in Controls
       /\ d.phase = c.phase /\ d.suspended = c.suspended /\ d.pending = c.pending
       /\ d.publication = c.publication /\ d.selected = c.selected
       /\ d.retired = c.retired /\ d.failed = c.failed
       /\ d.group = s.group /\ d.generation = s.gen /\ d.last = Captured(s)
       /\ d.snapshot = FALSE /\ d.latest = l
  BY <1>1, <1>9, <1>11, <1>12 DEF Controls
<1>14. l = Captured(s) \/ l = c.latest
  BY <1>8
<1>15. s.gen # c.generation \/ c.snapshot => l = Captured(s)
  BY <1>4, <1>6, <1>8
<1>16. l # c.latest =>
         \/ c.snapshot \/ (c.group /\ ~s.group) \/ Identity(Captured(s)) # Identity(c.last)
  BY <1>7, <1>8
<1> QED BY <1>13, <1>14, <1>15, <1>16 DEF d

\* What the owner knows when it is fresh
LEMMA FreshLast ==
  ASSUME OwnerInv, Fresh
  PROVE  /\ control.last = Captured(store) /\ control.last \in Sources
         /\ control.last.gen = store.gen /\ control.last.base = store.base
         /\ control.last.epoch = store.epoch
<1>1. store \in Stores
  BY DEF OwnerInv, Types
<1> QED BY <1>1, CapturedType DEF OwnerInv, Capture

\* A capture that waits for the owner, or the source of an attempt, that is not the
\* foreground is older
LEMMA OlderCapture ==
  ASSUME OwnerInv, Fresh, NEW src \in Sources, src.gen = store.gen, src.base = store.base,
         src.epoch <= store.epoch, Identity(control.last) # Identity(src)
  PROVE  src.epoch < store.epoch
<1>1. src.epoch # store.epoch
  BY SMT, FreshLast, IdentityEqual
<1> QED BY SMT, <1>1 DEF OwnerInv, Types, Stores, Sources

\* At the gate the owner finds commits that were not captured
LEMMA GateBehindInv ==
  ASSUME CheckpointInv, GateBehind
  PROVE  CheckpointInv'
<1> USE DEF At
<1> DEFINE asked == [control EXCEPT !.publication = TRUE, !.snapshot = TRUE]
<1>1. /\ control \in Controls /\ owner \in Owners /\ front \in Fronts /\ budget \in Budgets
      /\ disk \in Disks /\ control.phase \in PhasesAt[owner.at] /\ owner.at = "gate"
      /\ store \in Stores /\ control.group = store.group
  BY DEF CheckpointInv, OwnerInv, DiskInv, Types, Ownership, Shape, GateBehind
<1>2. owner.at \in Attempting \ {"settle"} /\ owner.at \in Attempting
  BY <1>1 DEF Attempting
<1>3. owner.src # None /\ owner.src \in Sources /\ Fresh /\ owner.work # None
  BY <1>1, <1>2, AttemptAlone, NoneFacts DEF CheckpointInv, OwnerInv, Shape, Attempting
<1>4. /\ owner.work \in Works /\ owner.work.gen > store.gen /\ Complete(owner.work) /\ ~Uncertain
  BY <1>1, <1>3, AttemptOwns
<1>5. /\ UNCHANGED <<disk, store, promised, manual, front, reader>>
      /\ owner' = [owner EXCEPT !.at = "resume"]
  BY DEF GateBehind
<1>6. budget' \in Budgets
  BY <1>1, DisturbType DEF GateBehind
<1>7. owner' \in Owners /\ owner'.at = "resume" /\ owner'.src = owner.src /\ owner'.work = owner.work
  BY SMT, <1>1, <1>5 DEF Owners
<1>8. /\ owner.src.gen = store.gen /\ owner.src.base = store.base
      /\ owner.src.epoch < store.epoch
  <2>1. owner.src.gen = store.gen /\ owner.src.base = store.base /\ owner.src.epoch <= store.epoch
    BY <1>3 DEF CheckpointInv, OwnerInv, Attempt
  <2> QED BY <1>3, <2>1, OlderCapture DEF CheckpointInv, GateBehind, Behind
<1>9. control.latest # None => control.latest.epoch < store.epoch
  <2> SUFFICES ASSUME control.latest # None PROVE control.latest.epoch < store.epoch
    OBVIOUS
  <2>1. control.latest \in Sources
    BY SMT, <1>1 DEF Controls
  <2>2. /\ control.latest.gen = store.gen /\ control.latest.base = store.base
        /\ control.latest.epoch <= store.epoch
    BY DEF CheckpointInv, OwnerInv, Capture
  <2>3. Identity(control.last) # Identity(control.latest)
    BY DEF GateBehind, Behind
  <2> QED BY <1>3, <2>1, <2>2, <2>3, OlderCapture DEF CheckpointInv
<1>10. /\ asked \in Controls /\ SameDuties(asked, control) /\ asked.last = control.last
       /\ asked.generation = control.generation /\ asked.latest = control.latest
       /\ asked.snapshot /\ asked.phase = control.phase
  BY <1>1 DEF Controls, SameDuties
<1> HIDE DEF asked
<1>11. /\ control' \in Controls /\ SameDuties(control', control) /\ control'.phase = control.phase
       /\ Capture' /\ Attempt'
  <2>1. /\ control.last.gen = control.generation /\ control.last = Captured(store)
        /\ control.generation = store.gen
    BY <1>3 DEF CheckpointInv, OwnerInv, Capture, Fresh
  <2>2. /\ owner.src.epoch <= store.epoch
        /\ control.latest # None => owner.src.epoch < control.latest.epoch
        /\ store.group => owner.src.epoch <= store.mark
    BY <1>1, <1>3 DEF CheckpointInv, OwnerInv, Attempt
  <2>3. CASE control' = Submit(asked, store)
    <3>1. /\ control' \in Controls /\ SameDuties(control', control)
          /\ control'.phase = control.phase /\ control'.last = Captured(store)
          /\ control'.generation = store.gen /\ control'.latest = Captured(store)
          /\ ~control'.snapshot
      BY SMT, <1>1, <1>10, <2>1, <2>3, SubmitFacts DEF SameDuties
    <3>2. /\ Captured(store) # None /\ Captured(store).gen = store.gen
          /\ Captured(store).base = store.base /\ Captured(store).epoch = store.epoch
          /\ store.epoch <= store.epoch
      <4>1. store.epoch \in Nat
        BY SMT, <1>1 DEF Stores
      <4> QED BY SMT, <1>1, <4>1, CapturedType
    <3>3. Capture'
      BY <1>5, <3>1, <3>2 DEF Capture, Fresh
    <3>4. Attempt'
      BY <1>5, <1>7, <1>8, <2>2, <3>1, <3>2 DEF Attempt
    <3> QED BY <3>1, <3>3, <3>4
  <2>4. CASE control' = asked
    <3>1. Capture'
      BY <1>3, <1>5, <1>9, <1>10, <2>1, <2>4 DEF CheckpointInv, OwnerInv, Capture, Fresh
    <3>2. Attempt'
      BY <1>5, <1>7, <1>8, <1>10, <2>2, <2>4 DEF Attempt
    <3> QED BY <1>10, <2>4, <3>1, <3>2
  <2> QED BY <2>3, <2>4 DEF GateBehind, asked
<1>12. PICK w : w = owner.work
  OBVIOUS
<1>13. Complete(w)' /\ w.kind = "candidate"
  BY <1>1, <1>4, <1>5, <1>12 DEF Complete, Holds, CheckpointInv, OwnerInv, Shape
<1>14. control'.phase \in PhasesAt[owner'.at] /\ owner'.at \in Attempting \ {"settle"}
  BY SMT, <1>1, <1>7, <1>11 DEF PhasesAt, Attempting
<1> QED BY <1>1, <1>2, <1>3, <1>4, <1>5, <1>6, <1>7, <1>11, <1>12, <1>13, <1>14, AttemptStep

\* At the gate the owner takes over a newer capture
LEMMA GateAdvancesInv ==
  ASSUME CheckpointInv, GateAdvances
  PROVE  CheckpointInv'
<1> USE DEF At
<1>1. /\ control \in Controls /\ owner \in Owners /\ front \in Fronts /\ budget \in Budgets
      /\ disk \in Disks /\ owner.at = "gate"
      /\ store \in Stores /\ control.group = store.group /\ ~control.group /\ control.latest # None
  BY DEF CheckpointInv, OwnerInv, DiskInv, Types, Ownership, Shape, GateAdvances, Advanced
<1>2. owner.at \in Attempting \ {"settle"} /\ owner.at \in Attempting
  BY <1>1 DEF Attempting
<1>3. Fresh /\ owner.work # None
  BY <1>1, <1>2, AttemptAlone, NoneFacts DEF CheckpointInv, OwnerInv, Shape, Attempting
<1>4. /\ owner.work \in Works /\ owner.work.gen > store.gen /\ Complete(owner.work) /\ ~Uncertain
  BY <1>1, <1>3, AttemptOwns
<1>5. PICK bounded \in BOOLEAN :
        control' = [control EXCEPT !.latest = None, !.publication = bounded,
                                   !.phase = IF bounded THEN "Draining" ELSE "Preparing"]
  BY DEF GateAdvances
<1>6. /\ control' \in Controls /\ SameDuties(control', control)
      /\ control'.last = control.last /\ control'.generation = control.generation
      /\ control'.snapshot = control.snapshot /\ control'.latest = None
      /\ control'.phase \in {"Draining", "Preparing"}
  BY <1>1, <1>5 DEF Controls, SameDuties, Phases
<1>7. /\ UNCHANGED <<disk, store, promised, manual, front, reader, budget>>
      /\ owner' = [owner EXCEPT !.at = "resume", !.src = control.latest]
  BY DEF GateAdvances
<1>8. /\ owner' \in Owners /\ owner'.at = "resume" /\ owner'.src = control.latest
      /\ owner'.work = owner.work
  BY <1>1, <1>7 DEF Owners, Controls
<1>9. Capture'
  BY <1>3, <1>6, <1>7 DEF CheckpointInv, OwnerInv, Capture, Fresh
<1>10. Attempt'
  BY <1>1, <1>6, <1>7, <1>8 DEF CheckpointInv, OwnerInv, Attempt, Capture
<1>11. PICK w : w = owner.work
  OBVIOUS
<1>12. Complete(w)' /\ w.kind = "candidate"
  BY <1>1, <1>4, <1>7, <1>11 DEF Complete, Holds, CheckpointInv, OwnerInv, Shape
<1>13. control'.phase \in PhasesAt[owner'.at] /\ owner'.at \in Attempting \ {"settle"}
  BY SMT, <1>6, <1>8 DEF PhasesAt, Attempting
<1> QED BY <1>1, <1>2, <1>3, <1>4, <1>6, <1>7, <1>8, <1>9, <1>10, <1>11, <1>12, <1>13, AttemptStep

-----------------------------------------------------------------------------
(* An attempt begins and ends *)

\* refresh_source captures the foreground again, or asks the next writer to
LEMMA RefreshSourceInv ==
  ASSUME CheckpointInv, RefreshSource
  PROVE  CheckpointInv'
<1> DEFINE asked == [control EXCEPT !.snapshot = TRUE]
<1>1. /\ control \in Controls /\ front \in Fronts /\ budget \in Budgets /\ store \in Stores
      /\ control.group = store.group /\ owner.at = "loop" /\ control.phase = "Idle"
      /\ control.latest # None \/ control.pending # None
      /\ ~control.suspended
  BY DEF CheckpointInv, OwnerInv, Types, Shape, RefreshSource, StartsAttempt, Looping, At
<1>2. UNCHANGED <<disk, store, promised, owner, manual, reader>>
  BY DEF RefreshSource
<1>3. Fresh /\ owner.src = None /\ control.selected = None
  BY <1>1 DEF CheckpointInv, OwnerInv, Capture, Shape, Attempting, Ownership
<1>4. budget' \in Budgets
  BY <1>1, DisturbType DEF RefreshSource
<1>5. front' \in Fronts /\ front'.op = front.op
  <2>1. (front.op # None) \in BOOLEAN
    OBVIOUS
  <2>2. CASE front' = front
    BY <1>1, <2>2
  <2>3. CASE front' = [front EXCEPT !.attempted = front.op # None]
    BY <1>1, <2>1, <2>3 DEF Fronts
  <2> QED BY <2>2, <2>3 DEF RefreshSource
<1>6. control.latest # None => control.latest.epoch < store.epoch
  <2> SUFFICES ASSUME control.latest # None PROVE control.latest.epoch < store.epoch
    OBVIOUS
  <2>1. control.latest \in Sources
    BY SMT, <1>1 DEF Controls
  <2>2. /\ control.latest.gen = store.gen /\ control.latest.base = store.base
        /\ control.latest.epoch <= store.epoch
    BY DEF CheckpointInv, OwnerInv, Capture
  <2>3. Identity(control.last) # Identity(control.latest)
    BY DEF RefreshSource, SourceIsCurrent
  <2> QED BY <1>3, <2>1, <2>2, <2>3, OlderCapture DEF CheckpointInv
<1>7. /\ asked \in Controls /\ SameDuties(asked, control) /\ asked.last = control.last
      /\ asked.generation = control.generation /\ asked.latest = control.latest
      /\ asked.snapshot /\ asked.phase = control.phase
  BY <1>1 DEF Controls, SameDuties
<1> HIDE DEF asked
<1>8. /\ control' \in Controls /\ SameDuties(control', control) /\ control'.phase = control.phase
      /\ Capture'
  <2>1. /\ control.last.gen = control.generation /\ control.last = Captured(store)
        /\ control.generation = store.gen
    BY <1>3 DEF CheckpointInv, OwnerInv, Capture, Fresh
  <2>2. CASE control' = Submit(asked, store)
    <3>1. /\ control' \in Controls /\ SameDuties(control', control)
          /\ control'.phase = control.phase /\ control'.last = Captured(store)
          /\ control'.generation = store.gen /\ control'.latest = Captured(store)
          /\ ~control'.snapshot
      BY SMT, <1>1, <1>7, <2>1, <2>2, SubmitFacts DEF SameDuties
    <3>2. /\ Captured(store) # None /\ Captured(store).gen = store.gen
          /\ Captured(store).base = store.base /\ Captured(store).epoch = store.epoch
          /\ store.epoch <= store.epoch
      <4>1. store.epoch \in Nat
        BY SMT, <1>1 DEF Stores
      <4> QED BY SMT, <1>1, <4>1, CapturedType
    <3>3. Capture'
      BY <1>2, <3>1, <3>2 DEF Capture, Fresh
    <3> QED BY <3>1, <3>3
  <2>3. CASE control' = asked
    <3>1. Capture'
      BY <1>2, <1>3, <1>6, <1>7, <2>1, <2>3 DEF CheckpointInv, OwnerInv, Capture, Fresh
    <3> QED BY <1>7, <2>3, <3>1
  <2> QED BY <2>2, <2>3 DEF RefreshSource, asked
<1>9. Types'
  BY <1>2, <1>4, <1>5, <1>8 DEF CheckpointInv, OwnerInv, Types
<1>10. Ownership' /\ Shape' /\ Caller'
  BY SMT, <1>2, <1>5, <1>8 DEF CheckpointInv, OwnerInv, Ownership, Shape, Caller, SameDuties
<1>11. Attempt' /\ Offered' /\ Numbers'
  BY <1>1, <1>2, <1>3, <1>8 DEF CheckpointInv, OwnerInv, Attempt, Offered, Numbers, SameDuties
<1>12. Images' /\ Selector' /\ Recoverable'
  <2>1. Images'
    <3>1. Complete(control.pending)' /\ Complete(manual.work)'
      BY <1>2, <1>8 DEF CheckpointInv, DiskInv, Images, Holds, Complete, SameDuties
    <3>2. owner'.at \notin Attempting /\ control'.selected = None
      BY <1>1, <1>2, <1>3, <1>8 DEF Attempting, SameDuties
    <3>3. Holds(store.gen, store.base, store.epoch)'
      BY <1>2 DEF CheckpointInv, DiskInv, Images, Holds
    <3>4. manual.at = "prepared" => disk.files[manual.work.gen].synced = manual.work.epoch
      BY DEF CheckpointInv, DiskInv, Images
    <3> QED BY <1>2, <3>1, <3>2, <3>3, <3>4 DEF Images, Attempting
  <2>2. Selector'
    BY <1>1, <1>2, <1>3, <1>8 DEF CheckpointInv, DiskInv, Selector, Uncertain, SameDuties
  <2>3. Recoverable'
    BY <1>2 DEF CheckpointInv, DiskInv, Recoverable
  <2> QED BY <2>1, <2>2, <2>3
<1>13. Lasting' /\ Pinned'
  BY <1>2, <1>5, <1>8
     DEF CheckpointInv, DiskInv, Lasting, Pinned, PinnedGenerations, SameDuties
<1> QED BY <1>2, <1>8, <1>9, <1>10, <1>11, <1>12, <1>13 DEF CheckpointInv, OwnerInv, DiskInv

\* The owner starts an attempt from the capture that waits for it
LEMMA StartAttemptInv ==
  ASSUME CheckpointInv, StartAttempt
  PROVE  CheckpointInv'
<1>1. /\ control \in Controls /\ owner \in Owners /\ front \in Fronts /\ budget \in Budgets
      /\ store \in Stores /\ control.group = store.group /\ ~control.group
      /\ owner.at = "loop" /\ control.phase = "Idle" /\ ~control.suspended
  BY DEF CheckpointInv, OwnerInv, Types, Shape, StartAttempt, StartsAttempt, Looping, At
<1>2. UNCHANGED <<disk, store, promised, manual, reader, budget>>
  BY DEF StartAttempt
<1>3. control.last \in Sources
  BY SMT, <1>1 DEF Controls
<1>4. control.latest # None /\ control.latest \in Sources
  <2>1. control.latest # None
    BY <1>3, IdentityEqual DEF StartAttempt, SourceIsCurrent
  <2> QED BY SMT, <1>1, <2>1 DEF Controls
<1>5. Fresh /\ owner.src = None /\ control.selected = None /\ control.retired = None
  BY <1>1, <1>4 DEF CheckpointInv, OwnerInv, Capture, Shape, Attempting, Ownership
<1>6. manual.at = "idle" /\ manual.work = None
  BY <1>1 DEF CheckpointInv, OwnerInv, Ownership, Shape
<1>7. front' \in Fronts /\ front'.op = front.op
  <2>1. (front.op # None) \in BOOLEAN
    OBVIOUS
  <2> QED BY <1>1, <2>1 DEF StartAttempt, Fronts
<1>8. /\ control' \in Controls /\ control'.phase = "Preparing" /\ control'.latest = None
      /\ control'.pending = None /\ control'.suspended = control.suspended
      /\ control'.group = control.group /\ control'.selected = control.selected
      /\ control'.retired = control.retired /\ control'.failed = control.failed
      /\ control'.last = control.last /\ control'.generation = control.generation
      /\ control'.snapshot = control.snapshot
  BY <1>1 DEF StartAttempt, Controls, Phases
<1>9. control.pending \in Works \cup {None}
  BY SMT, <1>1 DEF Controls
<1>10. /\ owner' \in Owners /\ owner'.at = "prepare" /\ owner'.src = control.latest
       /\ owner'.work = control.pending
  BY <1>1, <1>4, <1>9 DEF StartAttempt, Owners
<1>11. Types'
  BY <1>2, <1>7, <1>8, <1>10 DEF CheckpointInv, OwnerInv, Types
<1>12. Ownership'
  <2>1. control'.phase \in PhasesAt[owner'.at]
    BY SMT, <1>8, <1>10 DEF PhasesAt
  <2> QED BY <1>2, <1>5, <1>6, <1>8, <2>1 DEF CheckpointInv, OwnerInv, Ownership
<1>13. Shape'
  BY <1>1, <1>2, <1>4, <1>5, <1>6, <1>8, <1>9, <1>10 DEF CheckpointInv, OwnerInv, Shape, Attempting
<1>14. Caller'
  BY <1>2, <1>7 DEF CheckpointInv, OwnerInv, Caller
<1>15. Capture'
  BY <1>2, <1>5, <1>8 DEF CheckpointInv, OwnerInv, Capture, Fresh
<1>16. Attempt'
  BY <1>1, <1>2, <1>4, <1>8, <1>10 DEF CheckpointInv, OwnerInv, Capture, Attempt
<1>17. Offered' /\ Numbers'
  BY <1>2, <1>5, <1>6, <1>8, <1>10 DEF CheckpointInv, OwnerInv, Offered, Numbers
<1>18. Images'
  BY <1>2, <1>5, <1>6, <1>8, <1>10 DEF CheckpointInv, DiskInv, Images, Holds, Complete
<1>19. Selector'
  BY <1>1, <1>2, <1>5, <1>8, <1>10 DEF CheckpointInv, DiskInv, Selector, Uncertain
<1>20. Recoverable' /\ Lasting' /\ Pinned'
  BY SMT, <1>1, <1>2, <1>7, <1>8, <1>10
     DEF CheckpointInv, DiskInv, Recoverable, Lasting, Pinned, PinnedGenerations
<1> QED BY <1>2, <1>11, <1>12, <1>13, <1>14, <1>15, <1>16, <1>17, <1>18, <1>19, <1>20
        DEF CheckpointInv, OwnerInv, DiskInv

\* The end of an attempt that did not publish: its source goes back, its work is
\* parked or gone
LEMMA AttemptEnds ==
  ASSUME CheckpointInv, owner.at \in {"prepare", "fail", "discard"},
         store' \in {store, [store EXCEPT !.poisoned = TRUE]},
         UNCHANGED <<promised, manual, front, reader>>, budget' \in Budgets,
         control' \in Controls, control'.phase = "Idle",
         control'.suspended = control.suspended, control'.group = control.group,
         control'.selected = control.selected, control'.retired = control.retired,
         control'.failed = control.failed, control'.last = control.last,
         control'.generation = control.generation, control'.snapshot = control.snapshot,
         control'.latest = IF control.latest = None THEN owner.src ELSE control.latest,
         NEW w, control'.pending = w,
         w # None => w = owner.work /\ ~control.suspended /\ ~Uncertain /\ disk' = disk,
         owner' = [owner EXCEPT !.at = "loop", !.src = None, !.work = None],
         disk' \in Disks, disk'.selected = disk.selected, disk'.lasting = disk.lasting,
         \A h \in Generations : h <= store.gen \/ h = disk.selected =>
                                  disk'.files[h] = disk.files[h]
  PROVE  CheckpointInv'
<1>1. /\ owner \in Owners /\ owner.at \in Attempting
  BY DEF CheckpointInv, OwnerInv, Types, Attempting
<1>2. /\ control.pending = None /\ control.selected = None /\ control.retired = None
      /\ manual.at \notin {"captured", "prepared", "discard"} /\ manual.work = None
      /\ owner.src \in Sources /\ owner.src # None /\ Fresh /\ front.op # "publish"
  BY <1>1, AttemptAlone DEF CheckpointInv
<1>3. owner' \in Owners /\ owner'.at = "loop" /\ owner'.src = None /\ owner'.work = None
  BY <1>1 DEF Owners
<1>s. /\ store' \in Stores /\ (store.poisoned => store'.poisoned)
      /\ store'.gen = store.gen /\ store'.base = store.base /\ store'.epoch = store.epoch
      /\ store'.group = store.group /\ store'.mark = store.mark
      /\ store'.named = store.named /\ Captured(store') = Captured(store)
  BY StoreKept DEF CheckpointInv, OwnerInv, Types
<1>4. Types'
  BY <1>s, <1>3 DEF CheckpointInv, OwnerInv, Types
<1>5. Ownership'
  <2>1. control'.phase \in PhasesAt[owner'.at]
    BY SMT, <1>3 DEF PhasesAt
  <2> QED BY <1>2, <1>3, <2>1 DEF CheckpointInv, OwnerInv, Ownership
<1>6. Shape' /\ Caller'
  BY <1>s, <1>2, <1>3, NoneFacts DEF CheckpointInv, OwnerInv, Shape, Caller, Attempting
<1>7. Capture'
  BY <1>s, <1>2, <1>3 DEF CheckpointInv, OwnerInv, Capture, Attempt, Fresh
<1>8. Attempt' /\ Offered' /\ Numbers'
  BY <1>s, <1>1, <1>2, <1>3 DEF CheckpointInv, OwnerInv, Attempt, Offered, Numbers, Attempting
<1>9. Images'
  <2>1. store.gen \in Generations /\ store.gen <= store.gen
    BY SMT DEF CheckpointInv, OwnerInv, Types, Stores, DiskInv, Images, Holds
  <2>2. Holds(store.gen, store.base, store.epoch)'
    <3>1. disk'.files[store.gen] = disk.files[store.gen]
      BY <2>1
    <3>2. Holds(store.gen, store.base, store.epoch)
      BY DEF CheckpointInv, DiskInv, Images
    <3>3. /\ store'.gen \in Generations /\ disk'.files[store'.gen] # None
          /\ disk'.files[store'.gen].base = store'.base
          /\ disk'.files[store'.gen].tail = store'.epoch
      BY SMT, <1>s, <3>1, <3>2 DEF Holds
    <3> QED BY <3>3 DEF Holds
  <2>3. Complete(manual.work)'
    BY <1>2 DEF Complete
  <2>4. Complete(w) /\ (w # None => Complete(w)')
    BY <1>1 DEF CheckpointInv, DiskInv, Images, Complete, Holds
  <2>5. Complete(control.pending)'
    BY <2>4 DEF Complete
  <2> QED BY <1>2, <1>3, <2>2, <2>3, <2>5 DEF Images, Attempting
<1>10. Selector'
  <2>1. Uncertain => Uncertain'
    <3>1. Uncertain => w = None
      OBVIOUS
    <3> QED BY <1>s, <1>3, <3>1 DEF Uncertain
  <2> QED BY SMT, <1>s, <1>2, <2>1 DEF CheckpointInv, DiskInv, Selector
<1>11. disk.selected \in Generations /\ disk.lasting \in Generations
  BY SMT DEF CheckpointInv, DiskInv, Disks
<1>12. Recoverable' /\ Lasting'
  BY SMT, <1>s, <1>3, <1>11 DEF CheckpointInv, DiskInv, Recoverable, Lasting
<1>13. Pinned'
  BY SMT, <1>s, <1>2, <1>3 DEF CheckpointInv, DiskInv, Pinned, PinnedGenerations
<1> QED BY <1>4, <1>5, <1>6, <1>7, <1>8, <1>9, <1>10, <1>12, <1>13
        DEF CheckpointInv, OwnerInv, DiskInv

\* A preparation is denied or fails, and is parked or discarded
LEMMA PreparationFailsInv ==
  ASSUME CheckpointInv, PreparationFails
  PROVE  CheckpointInv'
<1> USE DEF At
<1> DEFINE work == owner.work
           frame == IF work # None /\ work.kind = "preparation" THEN work ELSE None
           source == IF control.latest = None THEN owner.src ELSE control.latest
<1>1. /\ control \in Controls /\ owner \in Owners /\ front \in Fronts /\ budget \in Budgets
      /\ disk \in Disks /\ owner.at = "prepare" /\ (work = None \/ frame # None)
  BY DEF CheckpointInv, OwnerInv, DiskInv, Types, PreparationFails
<1>2. owner.at \in Attempting \ {"settle"} /\ owner.at \in Attempting
  BY <1>1 DEF Attempting
<1>3. owner.src # None /\ owner.src \in Sources /\ Fresh /\ control.pending = None
  BY <1>2, AttemptAlone DEF CheckpointInv
<1>4. PICK failed \in BOOLEAN :
        LET keep == /\ frame # None /\ ~control.suspended /\ ~failed
                    /\ control.latest # None => CanContinueFrom(frame, control.latest)
        IN /\ IF failed THEN FaultMayPoison
              ELSE /\ UNCHANGED store
                   /\ \/ Deny
                      \/ control.suspended /\ UNCHANGED budget
                      \/ /\ work = None /\ (store.poisoned \/ NextGenerations(owner.src) = {})
                         /\ UNCHANGED budget
           /\ control' = [control EXCEPT
                !.failures = IF failed THEN @ + 1 ELSE @,
                !.latest = source,
                !.pending = IF keep THEN frame ELSE None,
                !.phase = IF keep \/ frame = None THEN "Idle" ELSE "Discarding"]
           /\ owner' = IF keep \/ frame = None
                       THEN [owner EXCEPT !.at = "loop", !.src = None, !.work = None]
                       ELSE [owner EXCEPT !.at = "discard"]
  BY DEF PreparationFails
<1> DEFINE keep == /\ frame # None /\ ~control.suspended /\ ~failed
                   /\ control.latest # None => CanContinueFrom(frame, control.latest)
<1>5. /\ UNCHANGED <<disk, promised, manual, front, reader>>
      /\ store' \in {store, [store EXCEPT !.poisoned = TRUE]}
  BY <1>4 DEF PreparationFails, FaultMayPoison
<1>s. /\ store'.gen = store.gen /\ store'.base = store.base /\ store'.epoch = store.epoch
      /\ store'.group = store.group /\ store'.mark = store.mark
      /\ Captured(store') = Captured(store)
  BY <1>5, StoreKept DEF CheckpointInv, OwnerInv, Types
<1>6. budget' \in Budgets
  BY <1>1, <1>4, DisturbType DEF FaultMayPoison
<1>7. PICK w : w = IF keep THEN frame ELSE None
  OBVIOUS
<1>8. PICK p : p = IF keep \/ frame = None THEN "Idle" ELSE "Discarding"
  OBVIOUS
<1>9. PICK src : src = source
  OBVIOUS
<1>10. PICK n \in Nat : n = IF failed THEN control.failures + 1 ELSE control.failures
  BY SMT, <1>1 DEF Controls
<1>11. control' = [control EXCEPT !.failures = n, !.latest = src, !.pending = w, !.phase = p]
  BY <1>4, <1>7, <1>8, <1>9, <1>10
<1>12. w \in Works \cup {None} /\ src \in Sources \cup {None} /\ p \in Phases
  <2>1. control.latest \in Sources \cup {None}
    BY SMT, <1>1 DEF Controls
  <2>2. w \in Works \cup {None}
    BY <1>1, <1>7 DEF CheckpointInv, OwnerInv, Shape
  <2>3. p \in Phases
    BY <1>8 DEF Phases
  <2> QED BY <1>3, <1>9, <2>1, <2>2, <2>3
<1>13. /\ control' \in Controls /\ control'.phase = p
       /\ control'.suspended = control.suspended /\ control'.group = control.group
       /\ control'.selected = control.selected /\ control'.retired = control.retired
       /\ control'.failed = control.failed /\ control'.last = control.last
       /\ control'.generation = control.generation /\ control'.snapshot = control.snapshot
       /\ control'.latest = src /\ control'.pending = w
  BY <1>1, <1>11, <1>12 DEF Controls
<1>14. work # None => ~Uncertain
  BY <1>1 DEF Uncertain
<1>15. CASE keep \/ frame = None
  <2>1. owner' = [owner EXCEPT !.at = "loop", !.src = None, !.work = None] /\ p = "Idle"
    BY <1>4, <1>8, <1>15
  <2>2. w # None => w = owner.work /\ ~control.suspended /\ ~Uncertain
    BY <1>7, <1>14
  <2> QED BY <1>1, <1>5, <1>6, <1>9, <1>13, <2>1, <2>2, AttemptEnds
<1>16. CASE ~(keep \/ frame = None)
  <2>1. owner' = [owner EXCEPT !.at = "discard"] /\ p = "Discarding" /\ w = None
    BY <1>4, <1>7, <1>8, <1>16
  <2>2. /\ owner' \in Owners /\ owner'.at = "discard" /\ owner'.src = owner.src
        /\ owner'.work = owner.work
    BY SMT, <1>1, <2>1 DEF Owners
  <2>3. work # None /\ work \in Works
    BY <1>1, <1>16 DEF CheckpointInv, OwnerInv, Shape
  <2>4. /\ owner.work.gen > store.gen /\ Complete(owner.work) /\ ~Uncertain
    BY <1>1, <2>3, AttemptOwns
  <2>5. PICK v : v = owner.work
    OBVIOUS
  <2>6. Complete(v)'
    BY <1>5, <2>4, <2>5 DEF Complete, Holds
  <2>7. SameDuties(control', control)
    BY <1>3, <1>13, <2>1 DEF SameDuties
  <2>8. Capture'
    BY <1>s, <1>3, <1>5, <1>9, <1>13, <2>1 DEF CheckpointInv, OwnerInv, Capture, Attempt, Fresh
  <2>9. Attempt'
    BY <1>s, <1>3, <1>5, <1>13, <2>2 DEF CheckpointInv, OwnerInv, Attempt
  <2>10. control'.phase \in PhasesAt[owner'.at] /\ owner'.at \in Attempting \ {"settle"}
    BY SMT, <1>13, <2>1, <2>2 DEF PhasesAt, Attempting
  <2> QED BY <1>1, <1>2, <1>3, <1>5, <1>6, <1>13, <2>2, <2>3, <2>4, <2>5, <2>6, <2>7, <2>8, <2>9,
             <2>10, AttemptStep
<1> QED BY <1>15, <1>16

\* An attempt that ended parks its candidate or gives it up
LEMMA FailInv ==
  ASSUME CheckpointInv, Fail
  PROVE  CheckpointInv'
<1> USE DEF At
<1>1. /\ control \in Controls /\ owner \in Owners /\ budget \in Budgets
      /\ disk \in Disks /\ owner.at = "fail"
  BY DEF CheckpointInv, OwnerInv, DiskInv, Types, Fail
<1>2. owner.src # None /\ owner.src \in Sources /\ owner.work \in Works
  BY <1>1, AttemptAlone DEF CheckpointInv, OwnerInv, Shape, Attempting
<1>3. UNCHANGED <<disk, store, promised, manual, front, reader, budget>>
  BY DEF Fail
<1>4. CASE ~Exhausted(control) /\ CanContinueFrom(owner.work, owner.src) /\ ~control.suspended
  <2>1. /\ control' = [Restored(control) EXCEPT !.pending = owner.work, !.phase = "Idle"]
        /\ owner' = [owner EXCEPT !.at = "loop", !.src = None, !.work = None]
    BY <1>4 DEF Fail
  <2>2. PICK src : src = IF control.latest = None THEN owner.src ELSE control.latest
    OBVIOUS
  <2>3. src \in Sources \cup {None}
    BY SMT, <1>1, <1>2, <2>2 DEF Controls
  <2>4. control' = [[control EXCEPT !.latest = src] EXCEPT !.pending = owner.work, !.phase = "Idle"]
    BY <2>1, <2>2 DEF Restored
  <2>5. /\ control' \in Controls /\ control'.phase = "Idle"
        /\ control'.suspended = control.suspended /\ control'.group = control.group
        /\ control'.selected = control.selected /\ control'.retired = control.retired
        /\ control'.failed = control.failed /\ control'.last = control.last
        /\ control'.generation = control.generation /\ control'.snapshot = control.snapshot
        /\ control'.latest = src /\ control'.pending = owner.work
    BY <1>1, <1>2, <2>3, <2>4 DEF Controls, Phases
  <2>6. ~Uncertain
    BY <1>4 DEF CanContinueFrom, Uncertain
  <2> QED BY <1>1, <1>3, <1>4, <2>1, <2>2, <2>5, <2>6, AttemptEnds
<1>5. CASE ~(~Exhausted(control) /\ CanContinueFrom(owner.work, owner.src) /\ ~control.suspended)
  <2>1. /\ control' = [control EXCEPT !.phase = "Discarding"]
        /\ owner' = [owner EXCEPT !.at = "discard"]
    BY <1>5 DEF Fail
  <2>2. /\ control' \in Controls /\ SameDuties(control', control)
        /\ SameKnowledge(control', control) /\ control'.phase = "Discarding"
    BY SMT, <1>1, <2>1 DEF SameDuties, SameKnowledge, Controls, Phases
  <2>3. control'.phase \in PhasesAt["discard"]
    BY SMT, <2>2 DEF PhasesAt
  <2> QED BY <1>1, <1>3, <2>1, <2>2, <2>3, AttemptMoves
<1> QED BY <1>4, <1>5

\* A candidate that was given up is dropped
LEMMA DiscardInv ==
  ASSUME CheckpointInv, Discard
  PROVE  CheckpointInv'
<1> USE DEF At
<1>1. /\ control \in Controls /\ owner \in Owners /\ budget \in Budgets
      /\ disk \in Disks /\ owner.at = "discard"
  BY DEF CheckpointInv, OwnerInv, DiskInv, Types, Discard
<1>2. /\ owner.src # None /\ owner.src \in Sources /\ owner.work \in Works /\ owner.work # None
      /\ control.selected = None /\ control.pending = None
  BY <1>1, AttemptAlone, NoneFacts DEF CheckpointInv, OwnerInv, Shape, Attempting
<1>3. UNCHANGED <<store, promised, manual, front, reader, budget>>
  BY DEF Discard
<1>4. PICK src : src = IF control.latest = None THEN owner.src ELSE control.latest
  OBVIOUS
<1>5. src \in Sources \cup {None}
  BY SMT, <1>1, <1>2, <1>4 DEF Controls
<1>6. control' = [[control EXCEPT !.latest = src] EXCEPT !.phase = "Idle"]
  BY <1>4 DEF Discard, Restored
<1>7. /\ control' \in Controls /\ control'.phase = "Idle"
      /\ control'.suspended = control.suspended /\ control'.group = control.group
      /\ control'.selected = control.selected /\ control'.retired = control.retired
      /\ control'.failed = control.failed /\ control'.last = control.last
      /\ control'.generation = control.generation /\ control'.snapshot = control.snapshot
      /\ control'.latest = src /\ control'.pending = control.pending
  BY <1>1, <1>5, <1>6 DEF Controls, Phases
<1>8. owner.work.gen \in Generations /\ owner.work.gen > store.gen
  BY <1>1, <1>2 DEF CheckpointInv, OwnerInv, Numbers, DiskInv, Images, Complete, Attempting
<1>9. /\ disk' \in Disks /\ disk'.selected = disk.selected /\ disk'.lasting = disk.lasting
      /\ \A h \in Generations : h # owner.work.gen => disk'.files[h] = disk.files[h]
      /\ owner.work.retain => disk' = disk
  <2>1. disk' = Drop(disk, owner.work)
    BY DEF Discard
  <2> QED BY <1>1, <1>2, <1>8, <2>1, DropUpdate
<1>10. \A h \in Generations : h <= store.gen \/ h = disk.selected => disk'.files[h] = disk.files[h]
  <2>1. CASE owner.work.retain
    BY <1>9, <2>1
  <2>2. CASE ~owner.work.retain
    <3>1. ~Uncertain
      BY <1>1, <2>2 DEF Uncertain
    <3>2. disk.selected = store.gen
      BY <1>1, <1>2, <3>1, ServedIsSelected
    <3>3. store.gen \in Nat /\ owner.work.gen \in Nat
      BY SMT, <1>2 DEF CheckpointInv, OwnerInv, Types, Stores, Works
    <3>4. \A h \in Generations : h <= store.gen \/ h = disk.selected => h # owner.work.gen
      BY SMT, <1>8, <3>2, <3>3
    <3> QED BY <1>9, <3>4
  <2> QED BY <2>1, <2>2
<1>11. owner' = [owner EXCEPT !.at = "loop", !.src = None, !.work = None]
  BY DEF Discard
<1> QED BY <1>1, <1>2, <1>3, <1>4, <1>7, <1>9, <1>10, <1>11, AttemptEnds

-----------------------------------------------------------------------------
(* Publication by the owner *)

\* At the publication the candidate is the foreground
LEMMA PublicationIsCurrent ==
  ASSUME CheckpointInv, AtPublication, ~store.poisoned
  PROVE  /\ Unchanged(owner.src) /\ owner.work.epoch = store.epoch
         /\ manual.at = "idle" /\ ~control.suspended /\ owner.src \in Sources
<1>1. /\ owner.at = "gate" /\ owner.at \in Attempting /\ store.group = control.group /\ ~control.group
      /\ control \in Controls /\ ~control.suspended
  BY DEF CheckpointInv, OwnerInv, Types, Shape, AtPublication, At, Attempting
<1>2. owner.src \in Sources /\ owner.src # None /\ Fresh
  BY <1>1, AttemptAlone DEF CheckpointInv
<1>3. /\ owner.src.gen = store.gen /\ owner.src.base = store.base
      /\ control.latest # None => owner.src.epoch < control.latest.epoch
      /\ owner.work.epoch = owner.src.epoch
  BY <1>1, <1>2 DEF CheckpointInv, OwnerInv, Attempt
<1>4. /\ control.last \in Sources /\ control.last.gen = store.gen /\ control.last.base = store.base
      /\ control.last.epoch = store.epoch
  BY <1>2, FreshLast DEF CheckpointInv
<1>5. control.latest = None
  <2> SUFFICES ASSUME control.latest # None PROVE FALSE
    OBVIOUS
  <2>1. control.latest \in Sources
    BY SMT, <1>1 DEF Controls
  <2>2. control.latest.epoch # owner.src.epoch
    BY SMT, <1>2, <1>3, <2>1 DEF Sources
  <2>3. Identity(control.latest) # Identity(owner.src)
    BY <1>2, <2>1, <2>2, IdentityEqual
  <2> QED BY <2>3 DEF AtPublication, Advanced
<1>6. Identity(control.last) = Identity(owner.src)
  BY <1>4, <1>5, IdentityEqual DEF AtPublication, Behind
<1>7. owner.src.epoch = store.epoch
  BY <1>2, <1>4, <1>6, IdentityEqual
<1>8. manual.at = "idle"
  BY <1>1 DEF CheckpointInv, OwnerInv, Ownership
<1> QED BY <1>1, <1>2, <1>3, <1>5, <1>7, <1>8 DEF Unchanged

\* The foreground has applied every commit that was promised
LEMMA PromiseWithin ==
  ASSUME DiskInv, store \in Stores, disk.selected = store.gen
  PROVE  store.epoch >= promised
<1>1. /\ disk.files[store.gen] # None /\ disk.files[store.gen].tail = store.epoch
      /\ disk.files[store.gen].synced >= promised
  BY DEF DiskInv, Images, Holds, Recoverable
<1>2. disk.files[store.gen] \in Logs
  BY SMT, <1>1 DEF DiskInv, Images, Holds, Disks
<1> QED BY SMT, <1>1, <1>2 DEF DiskInv, Logs, Contents

\* The manifest is replaced
LEMMA SelectUpdate ==
  ASSUME NEW d \in Disks, NEW g \in Generations, NEW barrier \in BOOLEAN
  PROVE  LET e == Select(d, g, barrier)
         IN /\ e \in Disks /\ e.files = d.files /\ e.selected = g
            /\ e.lasting = IF barrier THEN g ELSE d.lasting
<1>1. PICK l : l = IF barrier THEN g ELSE d.lasting
  OBVIOUS
<1>2. l \in Generations
  BY SMT, <1>1 DEF Disks
<1>3. Select(d, g, barrier) = [d EXCEPT !.staging = @ \ {g}, !.selected = g, !.lasting = l]
  BY <1>1 DEF Select
<1> QED BY <1>1, <1>2, <1>3 DEF Disks

\* The owner publishes its candidate behind the gate
LEMMA PublishCandidateInv ==
  ASSUME CheckpointInv, PublishCandidate
  PROVE  CheckpointInv'
<1> USE DEF At
<1>1. /\ control \in Controls /\ owner \in Owners /\ front \in Fronts /\ budget \in Budgets
      /\ disk \in Disks /\ owner.at = "gate" /\ AtPublication /\ ~store.poisoned
      /\ disk' = Select(disk, owner.work.gen, TRUE) /\ promised' = owner.work.epoch
      /\ control' = [Stop(control, FALSE) EXCEPT !.phase = "Finalizing"]
      /\ owner' = [owner EXCEPT !.at = "settle"]
      /\ UNCHANGED <<store, manual, front, reader, budget>>
  BY DEF CheckpointInv, OwnerInv, DiskInv, Types, PublishCandidate, AtPublication
<1>2. owner.at \in Attempting
  BY <1>1 DEF Attempting
<1>3. /\ owner.src # None /\ Fresh /\ owner.work # None /\ control.pending = None
      /\ control.selected = None /\ control.retired = None /\ manual.work = None
      /\ manual.at \notin {"captured", "prepared", "discard"} /\ front.op # "publish"
  BY <1>1, <1>2, AttemptAlone, NoneFacts DEF CheckpointInv, OwnerInv, Shape, Attempting
<1>4. /\ owner.work \in Works /\ owner.work.gen \in Generations /\ owner.work.gen > store.gen
      /\ Complete(owner.work) /\ disk.selected = store.gen
  BY <1>1, <1>3, AttemptOwns
<1>5. Unchanged(owner.src) /\ owner.work.epoch = store.epoch
  BY <1>1, PublicationIsCurrent
<1>6. /\ disk' \in Disks /\ disk'.files = disk.files /\ disk'.selected = owner.work.gen
      /\ disk'.lasting = owner.work.gen
  BY <1>1, <1>4, SelectUpdate
<1>7. /\ control' \in Controls /\ SameDuties(control', control)
      /\ SameKnowledge(control', control) /\ control'.phase = "Finalizing"
  BY <1>1 DEF SameDuties, SameKnowledge, Stop, Controls, Phases
<1>8. owner' \in Owners /\ owner'.at = "settle" /\ owner'.src = owner.src /\ owner'.work = owner.work
  BY SMT, <1>1 DEF Owners
<1>9. Types'
  BY <1>1, <1>7, <1>8 DEF CheckpointInv, OwnerInv, Types
<1>10. Ownership'
  <2>1. control'.phase \in PhasesAt[owner'.at]
    BY SMT, <1>7, <1>8 DEF PhasesAt
  <2> QED BY <1>1, <1>3, <1>7, <2>1 DEF CheckpointInv, OwnerInv, Ownership, SameDuties
<1>11. Shape' /\ Caller'
  BY <1>1, <1>3, <1>7, <1>8 DEF CheckpointInv, OwnerInv, Shape, Caller, SameDuties, Attempting
<1>12. Capture'
  BY <1>1, <1>3, <1>7 DEF CheckpointInv, OwnerInv, Capture, Fresh, SameKnowledge, SameDuties
<1>13. Attempt'
  BY <1>1, <1>7, <1>8 DEF CheckpointInv, OwnerInv, Attempt, SameKnowledge
<1>14. Offered' /\ Numbers'
  BY <1>1, <1>2, <1>3, <1>5, <1>7, <1>8
     DEF CheckpointInv, OwnerInv, Offered, Numbers, Unchanged, Fresh, SameKnowledge, SameDuties
<1>15. Images'
  BY <1>1, <1>2, <1>3, <1>6, <1>7, <1>8
     DEF CheckpointInv, DiskInv, Images, Holds, Complete, SameDuties
<1>16. Selector' /\ Lasting'
  BY <1>3, <1>6, <1>7, <1>8 DEF Selector, Lasting, SameDuties
<1>17. Recoverable'
  <2>1. disk.files[owner.work.gen] # None
    BY <1>1, <1>3, <1>4 DEF Complete, Holds, CheckpointInv, OwnerInv, Shape
  <2>2. disk.files[owner.work.gen].synced = owner.work.epoch
    BY <1>1 DEF CheckpointInv, DiskInv, Images
  <2>3. owner.work.epoch >= owner.work.epoch
    BY SMT, <1>4 DEF Works
  <2> QED BY <1>1, <1>6, <2>1, <2>2, <2>3 DEF Recoverable
<1>18. Pinned' /\ promised' \in Nat
  <2>1. owner.work.epoch \in Nat
    BY SMT, <1>4 DEF Works
  <2> QED BY <1>1, <1>3, <1>6, <1>8, <2>1 DEF CheckpointInv, DiskInv, Pinned, PinnedGenerations
<1> QED BY <1>6, <1>9, <1>10, <1>11, <1>12, <1>13, <1>14, <1>15, <1>16, <1>17, <1>18
        DEF CheckpointInv, OwnerInv, DiskInv

\* A candidate that is refused before anything is published ends its attempt
LEMMA PublicationRefusedInv ==
  ASSUME CheckpointInv, PublicationRefused
  PROVE  CheckpointInv'
<1> USE DEF At
<1>1. /\ control \in Controls /\ owner \in Owners /\ front \in Fronts /\ budget \in Budgets
      /\ disk \in Disks /\ owner.at = "gate"
      /\ UNCHANGED <<disk, store, promised, manual, front, reader>>
      /\ control' = [Stop(control, TRUE) EXCEPT !.phase = "Finalizing"]
  BY DEF CheckpointInv, OwnerInv, DiskInv, Types, PublicationRefused, AtPublication
<1>2. PICK failed \in BOOLEAN : owner' = [owner EXCEPT !.at = "fail", !.work.failed = failed]
  BY DEF PublicationRefused
<1>3. budget' \in Budgets
  BY <1>1, DisturbType DEF PublicationRefused
<1>4. /\ owner.at \in Attempting /\ owner.at \in Attempting \ {"discard"}
      /\ owner.at \in Attempting \ {"settle"}
  BY <1>1 DEF Attempting
<1>5. owner.src # None /\ owner.work # None /\ owner.work.kind = "candidate"
  BY <1>1, <1>4, AttemptAlone, NoneFacts DEF CheckpointInv, OwnerInv, Shape, Attempting
<1>6. /\ owner.work \in Works /\ owner.work.gen > store.gen
      /\ Complete(owner.work) /\ ~Uncertain
  BY <1>1, <1>5, AttemptOwns
<1>7. /\ control' \in Controls /\ SameDuties(control', control)
      /\ SameKnowledge(control', control) /\ control'.phase = "Finalizing"
  <2>1. /\ Stop(control, TRUE) \in Controls /\ SameDuties(Stop(control, TRUE), control)
        /\ SameKnowledge(Stop(control, TRUE), control)
    BY <1>1, StopFacts
  <2>2. "Finalizing" \in Phases
    BY DEF Phases
  <2> QED BY <1>1, <2>1, <2>2 DEF SameDuties, SameKnowledge, Controls
<1>8. PICK w : w = [owner.work EXCEPT !.failed = failed]
  OBVIOUS
<1>9. /\ w \in Works /\ w.gen = owner.work.gen /\ w.kind = owner.work.kind
      /\ w.base = owner.work.base /\ w.epoch = owner.work.epoch
  <2>1. owner.work \in Works /\ failed \in BOOLEAN
    BY <1>6
  <2> QED BY <1>8, <2>1 DEF Works
<1>10. owner' \in Owners /\ owner'.at = "fail" /\ owner'.src = owner.src /\ owner'.work = w
  BY <1>1, <1>2, <1>8, <1>9 DEF Owners
<1>11. Complete(w)'
  BY <1>1, <1>5, <1>6, <1>9 DEF Complete, Holds
<1>12. Capture' /\ Attempt'
  BY <1>1, <1>4, <1>7, <1>10, SameSource DEF CheckpointInv
<1>13. control'.phase \in PhasesAt[owner'.at] /\ owner'.at \in Attempting \ {"settle"}
  BY SMT, <1>7, <1>10 DEF PhasesAt, Attempting
<1> QED BY <1>1, <1>3, <1>4, <1>5, <1>6, <1>7, <1>9, <1>10, <1>11, <1>12, <1>13, AttemptStep

\* A publication of the owner fails: the store is poisoned, the files stay
LEMMA PublishCandidateFailsInv ==
  ASSUME CheckpointInv, PublishCandidateFails
  PROVE  CheckpointInv'
<1> USE DEF At
<1>1. /\ control \in Controls /\ owner \in Owners /\ front \in Fronts /\ budget \in Budgets
      /\ store \in Stores /\ disk \in Disks /\ owner.at = "gate" /\ AtPublication /\ ~store.poisoned
      /\ disk' \in {disk, Select(disk, owner.work.gen, FALSE)} /\ Fault
      /\ store' = [store EXCEPT !.poisoned = TRUE]
      /\ control' = [Stop(control, TRUE) EXCEPT !.phase = "Finalizing"]
      /\ owner' = [owner EXCEPT !.at = "fail", !.work.failed = TRUE, !.work.retain = TRUE]
      /\ UNCHANGED <<promised, manual, front, reader>>
  BY DEF CheckpointInv, OwnerInv, DiskInv, Types, PublishCandidateFails, AtPublication
<1>2. owner.at \in Attempting
  BY <1>1 DEF Attempting
<1>3. /\ owner.src # None /\ Fresh /\ owner.work # None /\ control.pending = None
      /\ control.selected = None /\ control.retired = None /\ manual.work = None
      /\ manual.at \notin {"captured", "prepared", "discard"} /\ front.op # "publish"
  BY <1>1, <1>2, AttemptAlone, NoneFacts DEF CheckpointInv, OwnerInv, Shape, Attempting
<1>4. /\ owner.work \in Works /\ owner.work.gen \in Generations /\ owner.work.gen > store.gen
      /\ Complete(owner.work) /\ disk.selected = store.gen
  BY <1>1, <1>3, AttemptOwns
<1>5. Unchanged(owner.src) /\ owner.work.epoch = store.epoch /\ manual.at = "idle"
  BY <1>1, PublicationIsCurrent
<1>6. /\ disk' \in Disks /\ disk'.files = disk.files /\ disk'.lasting = disk.lasting
      /\ disk'.selected \in {store.gen, owner.work.gen}
  <2>1. FALSE \in BOOLEAN
    OBVIOUS
  <2>2. CASE disk' = disk
    BY <1>1, <1>4, <2>2
  <2>3. CASE disk' = Select(disk, owner.work.gen, FALSE)
    BY <1>1, <1>4, <2>1, <2>3, SelectUpdate
  <2> QED BY <1>1, <2>2, <2>3
<1>7. /\ control' \in Controls /\ SameDuties(control', control)
      /\ SameKnowledge(control', control) /\ control'.phase = "Finalizing"
  <2>1. /\ Stop(control, TRUE) \in Controls /\ SameDuties(Stop(control, TRUE), control)
        /\ SameKnowledge(Stop(control, TRUE), control)
    BY <1>1, StopFacts
  <2>2. "Finalizing" \in Phases
    BY DEF Phases
  <2> QED BY <1>1, <2>1, <2>2 DEF SameDuties, SameKnowledge, Controls
<1>8. PICK w : w = [owner.work EXCEPT !.failed = TRUE, !.retain = TRUE]
  OBVIOUS
<1>9. /\ w \in Works /\ w.gen = owner.work.gen /\ w.kind = owner.work.kind
      /\ w.base = owner.work.base /\ w.epoch = owner.work.epoch /\ w.retain
  BY <1>4, <1>8 DEF Works
<1>10. owner' \in Owners /\ owner'.at = "fail" /\ owner'.src = owner.src /\ owner'.work = w
  BY <1>1, <1>8, <1>9 DEF Owners
<1>11. /\ store' \in Stores /\ store'.poisoned /\ store'.gen = store.gen /\ store'.base = store.base
       /\ store'.epoch = store.epoch /\ store'.group = store.group /\ store'.mark = store.mark
       /\ store'.named = store.named
  BY <1>1 DEF Stores
<1>12. budget' \in Budgets
  BY <1>1, DisturbType
<1>13. Types'
  BY <1>1, <1>7, <1>10, <1>11, <1>12 DEF CheckpointInv, OwnerInv, Types
<1>14. Ownership'
  <2>1. control'.phase \in PhasesAt[owner'.at]
    BY SMT, <1>7, <1>10 DEF PhasesAt
  <2> QED BY <1>1, <1>3, <1>7, <2>1 DEF CheckpointInv, OwnerInv, Ownership, SameDuties
<1>15. Shape' /\ Caller'
  BY <1>1, <1>3, <1>7, <1>9, <1>10, <1>11
     DEF CheckpointInv, OwnerInv, Shape, Caller, SameDuties, Attempting
<1>16. Captured(store)' = Captured(store)
  BY <1>11 DEF Captured
<1>17. Capture'
  BY <1>1, <1>3, <1>7, <1>11, <1>16
     DEF CheckpointInv, OwnerInv, Capture, Fresh, SameKnowledge, SameDuties
<1>18. Attempt'
  BY <1>1, <1>7, <1>10, <1>11 DEF CheckpointInv, OwnerInv, Attempt, SameKnowledge
<1>19. Offered' /\ Numbers'
  BY <1>1, <1>2, <1>3, <1>4, <1>7, <1>9, <1>10, <1>11
     DEF CheckpointInv, OwnerInv, Offered, Numbers, SameDuties
<1>20. Images'
  <2>1. Holds(store.gen, store.base, store.epoch)'
    BY <1>6, <1>11 DEF CheckpointInv, DiskInv, Images, Holds
  <2>2. Complete(w)'
    BY <1>3, <1>4, <1>6, <1>9 DEF Complete, Holds
  <2>3. Complete(control.pending)' /\ Complete(manual.work)' /\ Complete(owner.work)'
    BY <1>1, <1>3, <1>7, <1>10, <2>2 DEF Complete, SameDuties
  <2> QED BY <1>1, <1>3, <1>7, <1>10, <2>1, <2>3 DEF Images, SameDuties
<1>21. Selector' /\ Lasting'
  <2>1. Uncertain'
    BY <1>1, <1>3, <1>5, <1>7, <1>9, <1>10, <1>11 DEF Uncertain, SameDuties
  <2>2. /\ disk.lasting = disk.selected \/ (disk.lasting <= store.gen /\ disk.lasting < disk.selected)
    BY DEF CheckpointInv, DiskInv, Lasting
  <2>3. disk.lasting \in Nat /\ store.gen \in Nat /\ owner.work.gen \in Nat
    <3>1. disk.lasting \in Generations
      BY <1>1 DEF Disks
    <3>2. store.gen \in Nat
      BY <1>1 DEF Stores
    <3> QED BY SMT, <1>4, <3>1, <3>2, CheckpointAssumption DEF Generations
  <2>4. /\ disk'.lasting = disk'.selected \/ (disk'.lasting <= store.gen /\ disk'.lasting < disk'.selected)
        /\ disk'.selected = store.gen \/ disk'.selected > store.gen
    BY SMT, <1>4, <1>6, <2>2, <2>3
  <2> QED BY <1>3, <1>7, <1>10, <1>11, <2>1, <2>4 DEF Selector, Lasting, SameDuties
<1>22. Recoverable'
  <2>1. disk.files[owner.work.gen] # None
    BY <1>1, <1>3, <1>4 DEF Complete, Holds, CheckpointInv, OwnerInv, Shape
  <2>2. disk.files[owner.work.gen].synced = store.epoch
    BY <1>1, <1>5 DEF CheckpointInv, DiskInv, Images
  <2>3. store.epoch >= promised
    BY <1>1, <1>4, PromiseWithin DEF CheckpointInv
  <2> QED BY <1>1, <1>4, <1>6, <2>1, <2>2, <2>3 DEF CheckpointInv, DiskInv, Recoverable
<1>23. Pinned'
  BY <1>1, <1>3, <1>6, <1>10, <1>11 DEF CheckpointInv, DiskInv, Pinned, PinnedGenerations
<1> QED BY <1>1, <1>6, <1>13, <1>14, <1>15, <1>17, <1>18, <1>19, <1>20, <1>21, <1>22, <1>23
        DEF CheckpointInv, OwnerInv, DiskInv

\* The published store is offered to the foreground
LEMMA SettleInv ==
  ASSUME CheckpointInv, Settle
  PROVE  CheckpointInv'
<1> USE DEF At
<1>1. /\ control \in Controls /\ owner \in Owners /\ store \in Stores /\ owner.at = "settle"
      /\ UNCHANGED <<disk, store, promised, manual, front, reader, budget>>
  BY DEF CheckpointInv, OwnerInv, Types, Settle
<1>2. owner.at \in Attempting
  BY <1>1 DEF Attempting
<1>3. /\ owner.src # None /\ owner.src \in Sources /\ Fresh /\ owner.work # None
      /\ owner.work \in Works /\ owner.work.kind = "candidate" /\ control.pending = None
      /\ control.selected = None /\ control.retired = None /\ manual.work = None
      /\ manual.at \notin {"captured", "prepared", "discard"} /\ front.op # "publish"
  BY <1>1, <1>2, AttemptAlone, NoneFacts DEF CheckpointInv, OwnerInv, Shape, Attempting
<1>4. PICK sel : sel = [gen |-> owner.work.gen, base |-> owner.work.base,
                        epoch |-> owner.work.epoch, expected |-> owner.src]
  OBVIOUS
<1>5. /\ sel \in Selections /\ sel.gen = owner.work.gen /\ sel.base = owner.work.base
      /\ sel.epoch = owner.work.epoch /\ sel.expected = owner.src
  BY SMT, <1>3, <1>4 DEF Selections, Works
<1>6. control' = [control EXCEPT !.phase = "Handoff", !.selected = sel]
  BY <1>4 DEF Settle
<1>7. /\ control' \in Controls /\ SameKnowledge(control', control) /\ control'.phase = "Handoff"
      /\ control'.selected = sel /\ control'.suspended = control.suspended
      /\ control'.group = control.group /\ control'.pending = control.pending
      /\ control'.retired = control.retired /\ control'.failed = control.failed
  BY <1>1, <1>5, <1>6 DEF SameKnowledge, Controls, Phases
<1>8. owner' = [owner EXCEPT !.at = "loop", !.src = None, !.work = None, !.woken = TRUE]
  BY DEF Settle
<1>9. owner' \in Owners /\ owner'.at = "loop" /\ owner'.src = None /\ owner'.work = None
  BY <1>1, <1>8 DEF Owners
<1>10. sel # None
  BY <1>5, NoneFacts
<1>11. Unchanged(owner.src) /\ owner.work.epoch = owner.src.epoch /\ owner.work.gen > store.gen
  BY <1>1, <1>2, <1>3 DEF CheckpointInv, OwnerInv, Offered, Attempt, Numbers
<1>12. Types'
  BY <1>1, <1>7, <1>9 DEF CheckpointInv, OwnerInv, Types
<1>13. Ownership'
  <2>1. control'.phase \in PhasesAt[owner'.at]
    BY SMT, <1>7, <1>9 DEF PhasesAt
  <2> QED BY <1>1, <1>3, <1>7, <1>9, <1>10, <2>1 DEF CheckpointInv, OwnerInv, Ownership
<1>14. Shape' /\ Caller'
  BY <1>1, <1>3, <1>7, <1>9, NoneFacts DEF CheckpointInv, OwnerInv, Shape, Caller, Attempting
<1>15. Capture' /\ Attempt'
  BY <1>1, <1>3, <1>7, <1>9 DEF CheckpointInv, OwnerInv, Capture, Attempt, Fresh, SameKnowledge
<1>16. Offered' /\ Numbers'
  BY <1>1, <1>3, <1>5, <1>7, <1>9, <1>11
     DEF CheckpointInv, OwnerInv, Offered, Numbers, Unchanged, Fresh, SameKnowledge, Attempting
<1>17. Images'
  <2>1. /\ Holds(owner.work.gen, owner.work.base, owner.work.epoch)
        /\ disk.files[owner.work.gen].synced = owner.work.epoch
    BY <1>1, <1>2, <1>3 DEF CheckpointInv, DiskInv, Images, Complete
  <2>2. Holds(sel.gen, sel.base, sel.epoch)' /\ disk'.files[sel.gen].synced = sel.epoch
    BY <1>1, <1>5, <2>1 DEF Holds
  <2>3. Holds(store.gen, store.base, store.epoch)' /\ Complete(manual.work)' /\ Complete(control.pending)'
    BY <1>1, <1>3, <1>7 DEF CheckpointInv, DiskInv, Images, Complete, Holds
  <2> QED BY <1>1, <1>3, <1>7, <1>9, <2>2, <2>3 DEF Images, Holds, Attempting
<1>18. Selector'
  <2>1. disk.selected = owner.work.gen
    BY <1>1 DEF CheckpointInv, DiskInv, Selector
  <2> QED BY <1>1, <1>5, <1>7, <1>9, <1>10, <2>1 DEF Selector
<1>19. Recoverable' /\ Lasting' /\ Pinned'
  BY <1>1, <1>3, <1>7, <1>9
     DEF CheckpointInv, DiskInv, Recoverable, Lasting, Pinned, PinnedGenerations
<1> QED BY <1>1, <1>12, <1>13, <1>14, <1>15, <1>16, <1>17, <1>18, <1>19
        DEF CheckpointInv, OwnerInv, DiskInv

-----------------------------------------------------------------------------
(* The owner between attempts: handoff and retirement *)

\* A step of the owner between attempts, which removes at most files nobody uses
LEMMA RestStep ==
  ASSUME CheckpointInv, owner.at \notin Attempting, ~Uncertain,
         store' = store, promised' = promised, manual' = manual, reader' = reader,
         front' \in Fronts, front'.op = front.op, budget' \in Budgets,
         control' \in Controls, SameKnowledge(control', control),
         control'.suspended = control.suspended, control'.group = control.group,
         control'.pending = control.pending, control'.selected = control.selected,
         control'.failed = control.failed,
         control'.phase \in {"Handoff", "Retiring"} => control.phase \in {"Handoff", "Retiring"},
         owner' \in Owners, owner'.at \notin Attempting, owner'.src = owner.src,
         Ownership', Shape', Numbers',
         owner'.at = "reclaim" => PinnedGenerations \subseteq owner'.pins \cup {store.gen},
         disk' \in Disks, disk'.selected = disk.selected, disk'.lasting = disk.lasting,
         \A h \in Generations :
           h \in {disk.selected, disk.lasting} \cup PinnedGenerations \/ h >= store.gen =>
             disk'.files[h] = disk.files[h]
  PROVE  CheckpointInv'
<1>1. owner.at # "settle" /\ owner'.at \notin {"settle", "gate"} /\ owner.src = None
  BY DEF Attempting, CheckpointInv, OwnerInv, Shape
<1>2. Types' /\ Caller'
  BY DEF CheckpointInv, OwnerInv, Types, Caller
<1>3. Capture' /\ Attempt'
  BY <1>1 DEF CheckpointInv, OwnerInv, Capture, Attempt, Fresh, SameKnowledge
<1>4. Offered'
  BY <1>1 DEF CheckpointInv, OwnerInv, Offered, Unchanged, Fresh, SameKnowledge
<1>5. /\ disk.selected \in Generations /\ disk.lasting \in Generations
      /\ store.gen >= store.gen /\ store.gen \in Nat
  BY SMT DEF CheckpointInv, OwnerInv, Types, Stores, DiskInv, Disks
<1>6. ASSUME NEW g, NEW base, NEW epoch, Holds(g, base, epoch), g >= store.gen
      PROVE  Holds(g, base, epoch)' /\ disk'.files[g] = disk.files[g]
  BY <1>6 DEF Holds
<1>7. ASSUME NEW w \in Works \cup {None}, Complete(w), w # None => w.gen > store.gen
      PROVE  Complete(w)'
  <2>1. CASE w = None
    BY <2>1 DEF Complete
  <2>2. CASE w # None
    <3>1. w.gen >= store.gen
      BY SMT, <1>5, <1>7, <2>2 DEF Works
    <3> QED BY <1>6, <1>7, <2>2, <3>1 DEF Complete
  <2> QED BY <2>1, <2>2
<1>8. Images'
  <2>1. Holds(store.gen, store.base, store.epoch)'
    BY <1>5, <1>6 DEF CheckpointInv, DiskInv, Images
  <2>2. /\ control.pending \in Works \cup {None} /\ manual.work \in Works \cup {None}
        /\ control.selected \in Selections \cup {None}
    BY SMT DEF CheckpointInv, OwnerInv, Types, Controls, Manuals
  <2>3. Complete(control.pending)'
    <3>1. PICK w : w = control.pending
      OBVIOUS
    <3>2. Complete(w)'
      BY <1>7, <2>2, <3>1 DEF CheckpointInv, OwnerInv, Numbers, DiskInv, Images
    <3> QED BY <3>1, <3>2
  <2>4. Complete(manual.work)'
    <3>1. PICK w : w = manual.work
      OBVIOUS
    <3>2. Complete(w)'
      BY <1>7, <2>2, <3>1 DEF CheckpointInv, OwnerInv, Numbers, DiskInv, Images
    <3> QED BY <3>1, <3>2
  <2>5. manual.at = "prepared" => disk'.files[manual.work.gen].synced = manual.work.epoch
    <3> SUFFICES ASSUME manual.at = "prepared"
                 PROVE  disk'.files[manual.work.gen] = disk.files[manual.work.gen]
      BY DEF CheckpointInv, DiskInv, Images
    <3>1. manual.work # None /\ manual.work.gen > store.gen /\ Complete(manual.work)
      BY DEF CheckpointInv, OwnerInv, Shape, Numbers, DiskInv, Images
    <3>2. manual.work.gen >= store.gen
      BY SMT, <1>5, <2>2, <3>1 DEF Works
    <3> QED BY <3>1, <3>2 DEF Complete
  <2>6. control.selected # None =>
          /\ Holds(control.selected.gen, control.selected.base, control.selected.epoch)'
          /\ disk'.files[control.selected.gen].synced = control.selected.epoch
    <3> SUFFICES ASSUME control.selected # None
                 PROVE  /\ Holds(control.selected.gen, control.selected.base, control.selected.epoch)'
                        /\ disk'.files[control.selected.gen].synced = control.selected.epoch
      OBVIOUS
    <3>1. PICK s : s = control.selected
      OBVIOUS
    <3>2. /\ s.gen > store.gen /\ Holds(s.gen, s.base, s.epoch) /\ disk.files[s.gen].synced = s.epoch
      BY <3>1 DEF CheckpointInv, OwnerInv, Offered, DiskInv, Images
    <3>3. s.gen >= store.gen
      BY SMT, <1>5, <2>2, <3>1, <3>2 DEF Selections
    <3>4. Holds(s.gen, s.base, s.epoch)' /\ disk'.files[s.gen] = disk.files[s.gen]
      BY <1>6, <3>2, <3>3
    <3> QED BY <3>1, <3>2, <3>4
  <2> QED BY <1>1, <2>1, <2>3, <2>4, <2>5, <2>6 DEF Images
<1>9. Selector'
  BY <1>1 DEF CheckpointInv, DiskInv, Selector
<1>10. Recoverable' /\ Lasting'
  BY SMTT(20), <1>1, <1>5 DEF CheckpointInv, DiskInv, Recoverable, Lasting
<1>11. Pinned'
  BY SMT DEF CheckpointInv, DiskInv, Pinned, PinnedGenerations
<1> QED BY <1>2, <1>3, <1>4, <1>8, <1>9, <1>10, <1>11 DEF CheckpointInv, OwnerInv, DiskInv

\* The owner parks, wakes up, or takes and returns a retirement
LEMMA RetirementInv ==
  ASSUME CheckpointInv,
         \/ Unpark \/ TakeRetired \/ DeferRetirement \/ GrantRetirement \/ ReleaseRetired
         \/ OfferHandoff /\ ~NoGuards
  PROVE  CheckpointInv'
<1> USE DEF At
<1>1. /\ control \in Controls /\ owner \in Owners /\ front \in Fronts /\ budget \in Budgets
      /\ disk \in Disks /\ control.phase \in PhasesAt[owner.at] /\ reader \in Pinnings
  BY DEF CheckpointInv, OwnerInv, DiskInv, Types, Ownership
<1>2. CASE Unpark
  <2>1. /\ owner.at = "parked" /\ owner' = [owner EXCEPT !.at = "loop"]
        /\ UNCHANGED <<disk, store, promised, control, manual, front, reader, budget>>
    BY <1>2 DEF Unpark
  <2>2. /\ owner' \in Owners /\ owner'.at = "loop" /\ owner'.src = owner.src
        /\ owner'.work = owner.work
    BY SMT, <1>1, <2>1 DEF Owners
  <2>3. control.phase \in {"Handoff", "Retiring"}
    BY SMT, <1>1, <2>1 DEF PhasesAt
  <2>4. control'.phase \in PhasesAt[owner'.at]
    BY SMT, <2>1, <2>2, <2>3 DEF PhasesAt
  <2>5. Ownership' /\ Shape' /\ Numbers'
    BY <2>1, <2>2, <2>3, <2>4
       DEF CheckpointInv, OwnerInv, Ownership, Shape, Numbers, Attempting
  <2>6. ~Uncertain /\ owner.at \notin Attempting /\ owner'.at \notin Attempting
    BY <2>1, <2>2 DEF Uncertain, Attempting
  <2>7. SameKnowledge(control', control)
    BY <2>1 DEF SameKnowledge
  <2> QED BY <1>1, <2>1, <2>2, <2>5, <2>6, <2>7, RestStep
<1>3. CASE OfferHandoff /\ ~NoGuards
  <2>1. /\ owner.at = "loop" /\ owner' = [owner EXCEPT !.at = "parked", !.woken = FALSE]
        /\ control.phase = "Handoff"
        /\ UNCHANGED <<disk, store, promised, control, manual, front, reader, budget>>
    BY <1>3 DEF OfferHandoff, Looping
  <2>2. /\ owner' \in Owners /\ owner'.at = "parked" /\ owner'.src = owner.src
        /\ owner'.work = owner.work
    BY <1>1, <2>1 DEF Owners
  <2>3. control'.phase \in PhasesAt[owner'.at]
    BY SMT, <2>1, <2>2 DEF PhasesAt
  <2>4. Ownership' /\ Shape' /\ Numbers'
    BY <2>1, <2>2, <2>3
       DEF CheckpointInv, OwnerInv, Ownership, Shape, Numbers, Attempting
  <2>5. ~Uncertain /\ owner.at \notin Attempting /\ owner'.at \notin Attempting
    BY <2>1, <2>2 DEF Uncertain, Attempting
  <2>6. SameKnowledge(control', control)
    BY <2>1 DEF SameKnowledge
  <2> QED BY <1>1, <2>1, <2>2, <2>4, <2>5, <2>6, RestStep
<1>4. CASE TakeRetired
  <2>1. /\ owner.at = "loop" /\ control.phase = "Retiring" /\ control.retired # None
        /\ owner' = [owner EXCEPT !.at = "retire", !.work = control.retired,
                                  !.kind = IF control.suspended THEN "caller" ELSE "background"]
        /\ control' = [control EXCEPT !.retired = None]
        /\ UNCHANGED <<disk, store, promised, manual, front, reader, budget>>
    BY <1>4 DEF TakeRetired, Looping
  <2>2. control.retired \in Retirements
    BY SMT, <1>1, <2>1 DEF Controls
  <2>3. /\ owner' \in Owners /\ owner'.at = "retire" /\ owner'.src = owner.src
        /\ owner'.work = control.retired
    BY <1>1, <2>1, <2>2 DEF Owners
  <2>4. /\ control' \in Controls /\ SameKnowledge(control', control)
        /\ control'.suspended = control.suspended /\ control'.group = control.group
        /\ control'.pending = control.pending /\ control'.selected = control.selected
        /\ control'.failed = control.failed /\ control'.phase = control.phase
        /\ control'.retired = None
    BY SMT, <1>1, <2>1 DEF Controls, SameKnowledge
  <2>5. control'.phase \in PhasesAt[owner'.at]
    BY SMT, <2>1, <2>3, <2>4 DEF PhasesAt
  <2>6. Ownership' /\ Shape' /\ Numbers'
    BY <2>1, <2>2, <2>3, <2>4, <2>5
       DEF CheckpointInv, OwnerInv, Ownership, Shape, Numbers, Attempting
  <2>7. ~Uncertain /\ owner.at \notin Attempting /\ owner'.at \notin Attempting
    BY <2>1, <2>3 DEF Uncertain, Attempting
  <2> QED BY <1>1, <2>1, <2>3, <2>4, <2>6, <2>7, RestStep
<1>5. CASE DeferRetirement
  <2>1. /\ owner.at = "retire"
        /\ owner' = [owner EXCEPT !.at = "loop", !.work = None, !.kind = None]
        /\ control' = [control EXCEPT !.retired = owner.work]
        /\ front' = [front EXCEPT !.deferred = front.op # None] /\ Deny
        /\ UNCHANGED <<disk, store, promised, manual, reader>>
    BY <1>5 DEF DeferRetirement
  <2>2. /\ owner.work \in Retirements /\ owner.work.gen = store.gen /\ control.phase = "Retiring"
        /\ control.retired = None
    <3>1. control.phase = "Retiring"
      BY <2>1, PhaseFacts DEF CheckpointInv, OwnerInv
    <3> QED BY <2>1, <3>1 DEF CheckpointInv, OwnerInv, Shape, Numbers
  <2>3. /\ owner' \in Owners /\ owner'.at = "loop" /\ owner'.src = owner.src
        /\ owner'.work = None
    BY <1>1, <2>1 DEF Owners
  <2>4. /\ control' \in Controls /\ SameKnowledge(control', control)
        /\ control'.suspended = control.suspended /\ control'.group = control.group
        /\ control'.pending = control.pending /\ control'.selected = control.selected
        /\ control'.failed = control.failed /\ control'.phase = control.phase
        /\ control'.retired = owner.work
    BY <1>1, <2>1, <2>2 DEF Controls, SameKnowledge
  <2>5. control'.phase \in PhasesAt[owner'.at]
    BY SMT, <2>2, <2>3, <2>4 DEF PhasesAt
  <2>6. front' \in Fronts /\ front'.op = front.op
    <3>1. (front.op # None) \in BOOLEAN
      OBVIOUS
    <3> QED BY <1>1, <2>1, <3>1 DEF Fronts
  <2>7. Ownership' /\ Shape' /\ Numbers'
    BY <2>1, <2>2, <2>3, <2>4, <2>5
       DEF CheckpointInv, OwnerInv, Ownership, Shape, Numbers, Attempting
  <2>8. ~Uncertain /\ owner.at \notin Attempting /\ owner'.at \notin Attempting
    BY <2>1, <2>3 DEF Uncertain, Attempting
  <2>9. budget' \in Budgets
    BY <1>1, <2>1, DisturbType
  <2> QED BY <1>1, <2>1, <2>3, <2>4, <2>6, <2>7, <2>8, <2>9, RestStep
<1>6. CASE GrantRetirement
  <2>1. /\ owner.at = "retire" /\ owner' = [owner EXCEPT !.at = "reclaim", !.pins = PinnedGenerations]
        /\ UNCHANGED <<disk, store, promised, control, manual, front, reader, budget>>
    BY <1>6 DEF GrantRetirement, Pins
  <2>2. PinnedGenerations \subseteq Nat
    BY SMT, <1>1 DEF PinnedGenerations, Pinnings
  <2>3. /\ owner' \in Owners /\ owner'.at = "reclaim" /\ owner'.src = owner.src
        /\ owner'.work = owner.work /\ owner'.pins = PinnedGenerations
    BY <1>1, <2>1, <2>2 DEF Owners
  <2>4. control'.phase \in PhasesAt[owner'.at]
    BY SMT, <1>1, <2>1, <2>3 DEF PhasesAt
  <2>5. Ownership' /\ Shape' /\ Numbers'
    BY <2>1, <2>3, <2>4
       DEF CheckpointInv, OwnerInv, Ownership, Shape, Numbers, Attempting
  <2>6. ~Uncertain /\ owner.at \notin Attempting /\ owner'.at \notin Attempting
    BY <2>1, <2>3 DEF Uncertain, Attempting
  <2>7. SameKnowledge(control', control)
    BY <2>1 DEF SameKnowledge
  <2> QED BY <1>1, <2>1, <2>3, <2>5, <2>6, <2>7, RestStep
<1>7. CASE ReleaseRetired
  <2>1. /\ owner.at = "release" /\ owner' = [owner EXCEPT !.at = "loop"]
        /\ control' = [control EXCEPT !.phase = "Idle"]
        /\ UNCHANGED <<disk, store, promised, manual, front, reader, budget>>
    BY <1>7 DEF ReleaseRetired
  <2>2. /\ owner' \in Owners /\ owner'.at = "loop" /\ owner'.src = owner.src
        /\ owner'.work = owner.work
    BY SMT, <1>1, <2>1 DEF Owners
  <2>3. /\ control' \in Controls /\ SameKnowledge(control', control)
        /\ control'.suspended = control.suspended /\ control'.group = control.group
        /\ control'.pending = control.pending /\ control'.selected = control.selected
        /\ control'.failed = control.failed /\ control'.phase = "Idle"
        /\ control'.retired = control.retired
    BY SMT, <1>1, <2>1 DEF Controls, SameKnowledge, Phases
  <2>4. control'.phase \in PhasesAt[owner'.at] /\ control.phase = "Releasing"
    BY SMT, <1>1, <2>1, <2>2, <2>3 DEF PhasesAt
  <2>5. Ownership' /\ Shape' /\ Numbers'
    BY <2>1, <2>2, <2>3, <2>4
       DEF CheckpointInv, OwnerInv, Ownership, Shape, Numbers, Attempting
  <2>6. ~Uncertain /\ owner.at \notin Attempting /\ owner'.at \notin Attempting
    BY <2>1, <2>2 DEF Uncertain, Attempting
  <2> QED BY <1>1, <2>1, <2>2, <2>3, <2>5, <2>6, RestStep
<1> QED BY <1>2, <1>3, <1>4, <1>5, <1>6, <1>7

\* try_reclaim_old_generations keeps what is pinned, the previous generation and
\* everything from the current one on
LEMMA ReclaimUpdate ==
  ASSUME NEW d \in Disks, NEW current, NEW previous, NEW pins
  PROVE  LET e == Reclaim(d, current, previous, pins)
         IN /\ e \in Disks /\ e.selected = d.selected /\ e.lasting = d.lasting
            /\ \A h \in Generations :
                 ~(h < current) \/ h \in pins \cup {previous} => e.files[h] = d.files[h]
BY SMT DEF Reclaim, Disks

\* The files of retired generations are removed
LEMMA ReclaimRetiredInv ==
  ASSUME CheckpointInv, ReclaimRetired
  PROVE  CheckpointInv'
<1> USE DEF At
<1>1. /\ control \in Controls /\ owner \in Owners /\ front \in Fronts /\ budget \in Budgets
      /\ disk \in Disks /\ owner.at = "reclaim" /\ control.phase = "Retiring"
      /\ store.gen \in Nat
  <2>1. control.phase = "Retiring"
    BY PhaseFacts DEF CheckpointInv, OwnerInv, ReclaimRetired
  <2>2. store.gen \in Nat
    BY SMT DEF CheckpointInv, OwnerInv, Types, Stores
  <2> QED BY <2>1, <2>2 DEF CheckpointInv, OwnerInv, DiskInv, Types, ReclaimRetired
<1>2. owner.work.gen = store.gen
  BY <1>1 DEF CheckpointInv, OwnerInv, Numbers
<1>3. /\ disk' = Reclaim(disk, store.gen, owner.work.previous, owner.pins)
      /\ control' = [control EXCEPT !.phase = "Releasing"]
      /\ owner' = [owner EXCEPT !.at = "release", !.work = None, !.kind = None, !.pins = {}]
      /\ UNCHANGED <<store, promised, manual, front, reader, budget>>
  BY <1>2 DEF ReclaimRetired
<1>4. ~Uncertain /\ control.selected = None
  BY <1>1 DEF Uncertain, CheckpointInv, OwnerInv, Ownership
<1>5. disk.selected = store.gen /\ disk.lasting = store.gen
  <2>1. disk.selected = store.gen
    BY <1>1, <1>4, ServedIsSelected
  <2> QED BY <1>1, <2>1 DEF CheckpointInv, DiskInv, Lasting
<1>6. /\ disk' \in Disks /\ disk'.selected = disk.selected /\ disk'.lasting = disk.lasting
      /\ \A h \in Generations :
           ~(h < store.gen) \/ h \in owner.pins \cup {owner.work.previous} =>
             disk'.files[h] = disk.files[h]
  BY SMT, <1>1, <1>3, ReclaimUpdate
<1>7. \A h \in Generations :
        h \in {disk.selected, disk.lasting} \cup PinnedGenerations \/ h >= store.gen =>
          ~(h < store.gen) \/ h \in owner.pins
  <2>1. PinnedGenerations \subseteq owner.pins \cup {store.gen}
    BY <1>1 DEF CheckpointInv, DiskInv, Pinned
  <2>2. \A h \in Generations : h = store.gen \/ h >= store.gen => ~(h < store.gen)
    BY SMT, <1>1, CheckpointAssumption DEF Generations
  <2> QED BY <1>5, <2>1, <2>2
<1>8. /\ owner' \in Owners /\ owner'.at = "release" /\ owner'.src = owner.src
      /\ owner'.work = None
  BY <1>1, <1>3 DEF Owners
<1>9. /\ control' \in Controls /\ SameKnowledge(control', control)
      /\ control'.suspended = control.suspended /\ control'.group = control.group
      /\ control'.pending = control.pending /\ control'.selected = control.selected
      /\ control'.failed = control.failed /\ control'.phase = "Releasing"
      /\ control'.retired = control.retired
  BY <1>1, <1>3 DEF Controls, SameKnowledge, Phases
<1>10. control'.phase \in PhasesAt[owner'.at]
  BY SMT, <1>8, <1>9 DEF PhasesAt
<1>11. Ownership'
  BY <1>1, <1>3, <1>4, <1>8, <1>9, <1>10 DEF CheckpointInv, OwnerInv, Ownership
<1>12. control.retired = None
  BY <1>1 DEF CheckpointInv, OwnerInv, Shape
<1>13. Shape' /\ Numbers'
  BY <1>1, <1>3, <1>8, <1>9, <1>12 DEF CheckpointInv, OwnerInv, Shape, Numbers, Attempting
<1>14. owner.at \notin Attempting /\ owner'.at \notin Attempting /\ owner'.at # "reclaim"
  BY <1>1, <1>8 DEF Attempting
<1>15. \A h \in Generations :
         h \in {disk.selected, disk.lasting} \cup PinnedGenerations \/ h >= store.gen =>
           disk'.files[h] = disk.files[h]
  BY <1>6, <1>7
<1> QED BY <1>1, <1>3, <1>4, <1>6, <1>8, <1>9, <1>11, <1>13, <1>14, <1>15, RestStep
=============================================================================
