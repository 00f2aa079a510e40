------------------------------- MODULE WalProofs -------------------------------
(***************************************************************************)
(* What Wal promises for any number of commits, faults, crashes, power     *)
(* losses and damaged records: it implements DurableLog, except where a    *)
(* length rots under no fence, the fence covers every promise, and a       *)
(* repair discards nothing that it has not audited.                        *)
(***************************************************************************)
EXTENDS Wal, TLAPS

USE Zenon

Jobs == [op : Ops, step : Steps, commit : Commits \cup {None}, created : BOOLEAN]

MemoryTypes ==
  /\ mode \in {"closed", "opening", "open"} /\ policy \in Policies
  /\ poisoned \in BOOLEAN /\ next \in Nat /\ known \in Nat /\ nameKnown \in BOOLEAN
  /\ handle \in BOOLEAN /\ cache \in Int
  /\ group \in [entries : Nat, created : BOOLEAN] \cup {NoGroup}
FileTypes ==
  /\ head \in {"missing", "empty", "torn", "whole"} /\ file \in Seq(Records)
  /\ stable \in Int /\ shadow \in Seq(Records) \cup {None} /\ named \in BOOLEAN
  /\ hist \in Seq(Commits) /\ promised \in Nat
SideTypes ==
  /\ fence \in Int /\ stableFence \in Int
  /\ pending \in Audits \cup {None} /\ stablePending \in Audits \cup {None}
WorldTypes ==
  /\ checkpointed \in BOOLEAN
  /\ faults \in Nat /\ crashes \in Nat /\ losses \in Nat /\ damage \in Nat
Types == MemoryTypes /\ job \in Jobs /\ FileTypes /\ SideTypes /\ WorldTypes

\* Which operation is under way, and when
JobShape ==
  /\ job.op = "none" <=> job = Idle
  /\ job.op = "none" <=> job.step = "idle"
  /\ mode = "closed" => job.op = "none"
  /\ mode = "opening" <=> job.op = "repair"
  /\ job.step \in {"prepare", "prepare_sync", "retire", "retire_sync"} => job.op = "repair"
  /\ job.step = "write" => job.op = "append"
  /\ job.step = "truncate" => job.op \in {"rollback", "repair"}
  /\ job.step \in {"sync", "name"} => job.op \in {"append", "group", "prefix", "repair"}
  /\ job.op \in {"relaxed", "append"} => job.commit \in Commits
  /\ job.op \in {"relaxed", "append", "rollback", "prefix"} => ~poisoned
  /\ job.op = "append" /\ job.step # "write" => group = NoGroup
  /\ job.op = "append" => policy = "SyncOnEveryWrite" \/ cache # NoFence
  /\ job.op = "relaxed" => policy = "SyncOnCheckpoint"
  /\ mode = "open" /\ job.step \in FenceSteps => cache # NoFence \/ job.op = "relaxed"

\* The records that a complete write is about to add to next
InFlight == job.op = "append" /\ job.step # "write"

\* What an open handle knows of its file
LogShape ==
  mode = "open" =>
    /\ next <= Len(hist) /\ Len(hist) <= Len(file)
    /\ \A i \in 1 .. Len(hist) : file[i] = hist[i]
    /\ InFlight => Len(hist) = next + 1
    /\ Len(hist) = next \/ InFlight \/ (poisoned /\ job.op = "none" /\ group.entries <= 0)
    /\ Len(file) = Len(hist) \/ poisoned \/ job.op = "rollback"
    /\ job.op = "rollback" => stable <= next
    /\ InFlight \/ job.op \in {"group", "prefix"} \/ group.entries > 0 => head = "whole"
    /\ job.step = "name" => stable = Len(file) /\ shadow = None
    /\ nameKnown => named
    /\ pending = None

\* The records of f are those that were appended, or damaged
Agree(f) == \A i \in 1 .. Len(f) : f[i] \in Commits => i <= Len(hist) /\ f[i] = hist[i]

\* What a file that may come back after a power loss holds
Lasts(f) ==
  /\ Agree(f)
  /\ stable <= Len(f) /\ promised <= Len(f)
  /\ \A i \in 1 .. promised : f[i] # Torn

Durable ==
  /\ Lasts(file)
  /\ shadow # None => Lasts(shadow)
  /\ shadow # None /\ pending = None =>
       \A i \in 1 .. Len(shadow) : shadow[i] \in Commits => i <= Len(file)
  /\ promised <= Len(hist)
  /\ promised > 0 => promised <= stable /\ named
  /\ head # "whole" => file = <<>>
  /\ named => head # "missing"
  /\ mode = "open" => known <= promised

Fenced ==
  /\ fence >= NoFence /\ stableFence >= NoFence
  /\ fence = NoFence => stableFence = NoFence
  /\ FenceCoversPromise
  /\ mode = "open" /\ cache = NoFence =>
       /\ fence \in {NoFence, next} /\ stableFence \in {NoFence, next}
       /\ fence # NoFence => policy = "SyncOnCheckpoint"
  /\ mode = "open" /\ job.step = "fence_sync" => fence = Target
  /\ mode = "open" /\ job.step \in {"truncate", "sync", "name"} =>
       cache = NoFence \/ (fence = Target /\ stableFence = Target)
  /\ FenceWithinLog

\* The record after the first n is taken for one that an append left incomplete
CutAfter(n) == fence = NoFence /\ n < Len(file) /\ file[n + 1] = Cut

\* The first n records are sound and hold what was promised
Keeps(n) ==
  /\ n <= Len(file) /\ fence <= n
  /\ promised <= n \/ CutAfter(n)
  /\ \A i \in 1 .. n : file[i] \in Commits

\* So are the records before the first damaged one
CleanKeeps == \A n \in 0 .. Len(file) : Clean(file, n) => Keeps(n)

Repairing ==
  /\ pending # None => pending.keep <= Len(pending.orig)
  /\ stablePending # None => stablePending.keep <= Len(stablePending.orig)
  /\ mode = "opening" => head = "whole"
  /\ mode = "opening" /\ job.step = "prepare" => CleanKeeps
  /\ mode = "opening" /\ job.step \in {"prepare_sync", "fence", "fence_sync", "truncate"} =>
       /\ pending # None /\ Keeps(pending.keep)
       /\ Len(file) # pending.keep =>
            pending.orig = file /\ (job.step # "prepare_sync" => stablePending = pending)
  /\ mode = "opening" /\ job.step \in FenceSteps => fence # NoFence
  /\ mode = "opening" /\ job.step \in {"sync", "name", "retire", "retire_sync"} =>
       Keeps(Len(file))
  /\ mode = "opening" /\ job.step \in {"name", "retire", "retire_sync"} => shadow = None
  /\ mode = "opening" /\ job.step = "retire_sync" => pending = None

WalInv == Types /\ JobShape /\ LogShape /\ Durable /\ Fenced /\ Repairing

\* The audit on disk is the one that a repair of this file writes
Planned == \E n \in 0 .. Len(file) : Clean(file, n) /\ pending = Plan(n)

\* What process crashes alone can do to the directory
Pristine ==
  faults = 0 /\ losses = 0 /\ damage = 0 =>
    /\ checkpointed => head # "missing"
    /\ pending # None => head = "whole"
    /\ \A i \in 1 .. Len(file) :
         file[i] \in Commits \/ (i = Len(file) /\ file[i] = Torn /\ fence < i /\ mode # "open")
    /\ fence <= Len(file)
    /\ pending = None \/ Planned \/ (Truncated /\ IsWhole(file))

CrashInv == WalInv /\ Pristine

-----------------------------------------------------------------------------
(* Jobs and frames *)

\* The fields of a job are those that it was built from
LEMMA JobFields ==
  ASSUME NEW o \in Ops, NEW s \in Steps, NEW c \in Commits \cup {None}, NEW b \in BOOLEAN
  PROVE  /\ Job(o, s, c, b) \in Jobs
         /\ Job(o, s, c, b).op = o /\ Job(o, s, c, b).step = s
         /\ Job(o, s, c, b).commit = c /\ Job(o, s, c, b).created = b
BY DEF Job, Jobs

\* Nothing is under way when the job is idle
LEMMA IdleFields == Idle \in Jobs /\ Idle.op = "none" /\ Idle.step = "idle"
BY DEF Idle, Job, Jobs, Ops, Steps

\* Taking a step changes the step of the job and nothing else of it
LEMMA StepFields ==
  ASSUME job \in Jobs, NEW s \in Steps, Step(s)
  PROVE  /\ job' \in Jobs /\ job'.step = s
         /\ job'.op = job.op /\ job'.commit = job.commit /\ job'.created = job.created
BY DEF Step, Jobs

\* Durable only looks at the log file, the log, what an open handle knows and the
\* pending audit
LEMMA DurableFrame ==
  ASSUME Durable, UNCHANGED <<walFile, history, known, pending>>,
         mode' = "open" => mode = "open"
  PROVE  Durable'
BY DEF Durable, Lasts, Agree, walFile, history

\* Without a repair under way, only the audits matter to Repairing
LEMMA RepairingFrame ==
  ASSUME Repairing, UNCHANGED audits, mode' # "opening"
  PROVE  Repairing'
BY DEF Repairing, audits

\* Without an open handle, only the fences and the promise matter to Fenced
LEMMA FencedClosed ==
  ASSUME Fenced, UNCHANGED <<fences, promised>>, mode' # "open"
  PROVE  Fenced'
BY DEF Fenced, FenceCoversPromise, FenceWithinLog, fences

\* An idle job has its shape in every mode but an opening
LEMMA IdleShape ==
  ASSUME job' = Idle, mode' # "opening"
  PROVE  JobShape'
<1>1. job'.op = "none" /\ job'.step = "idle"
  BY IdleFields
<1> QED BY <1>1 DEF JobShape, FenceSteps

\* An operation that goes on to step s keeps the shape of its job
LEMMA StepShape ==
  ASSUME JobShape, job \in Jobs, job.op # "none", NEW s \in Steps \ {"idle", "write"}, Step(s),
         UNCHANGED <<mode, policy, poisoned, group>>,
         s \in {"prepare", "prepare_sync", "retire", "retire_sync"} => job.op = "repair",
         s = "truncate" => job.op \in {"rollback", "repair"},
         s \in {"sync", "name"} => job.op \in {"append", "group", "prefix", "repair"},
         job.op = "append" => job.step # "write",
         cache' = cache \/ cache' # NoFence,
         mode = "open" /\ s \in FenceSteps => cache # NoFence \/ job.op = "relaxed"
  PROVE  JobShape'
<1>1. /\ job'.step = s /\ job'.op = job.op /\ job'.commit = job.commit
  BY StepFields
<1>2. job' # Idle
  BY <1>1, IdleFields
<1> QED BY <1>1, <1>2 DEF JobShape

\* The fence that an open handle publishes covers the log and every promise
LEMMA TargetIsLog ==
  ASSUME WalInv, mode = "open", job.op # "none", job.step # "write"
  PROVE  Target = Len(hist) /\ promised <= Target
BY DEF WalInv, JobShape, LogShape, InFlight, Target, Durable

\* append_encoded_entry starts: relaxed appends protect first, others write at once
LEMMA StartAppendInv ==
  ASSUME WalInv, NEW c \in Commits, StartAppend(c)
  PROVE  WalInv'
<1> DEFINE relaxed == policy = "SyncOnCheckpoint" /\ Loaded = NoFence
<1>0. /\ Types /\ JobShape /\ LogShape /\ Durable /\ Fenced /\ Repairing
      /\ mode = "open" /\ job = Idle /\ ~poisoned
  BY DEF WalInv, StartAppend, Ready
<1>1. /\ job' \in Jobs /\ job'.commit = c
      /\ job'.op = (IF relaxed THEN "relaxed" ELSE "append")
      /\ job'.step = (IF relaxed THEN "fence" ELSE "write")
  <2>1. job' = IF relaxed THEN Job("relaxed", "fence", c, FALSE) ELSE Job("append", "write", c, FALSE)
    BY DEF StartAppend
  <2> QED BY <2>1 DEF Job, Jobs, Ops, Steps
<1>2. /\ cache' = Loaded /\ UNCHANGED <<walFile, fences, audits, history, environment>>
      /\ UNCHANGED <<mode, policy, poisoned, next, known, nameKnown, handle, group>>
  BY DEF StartAppend
<1>3. Types'
  BY SMT, <1>0, <1>1, <1>2 DEF Types, MemoryTypes, FileTypes, SideTypes, WorldTypes, Loaded,
     walFile, fences, audits, history, environment
<1>4. JobShape'
  <2>1. job'.op # "none" /\ job' # Idle
    BY <1>1, IdleFields
  <2>2. ~relaxed => policy = "SyncOnEveryWrite" \/ cache' # NoFence
    BY <1>0, <1>2, WalAssumption DEF Types, MemoryTypes
  <2> QED BY <1>0, <1>1, <1>2, <2>1, <2>2 DEF JobShape, FenceSteps
<1>5. LogShape'
  BY <1>0, <1>1, <1>2, IdleFields DEF LogShape, InFlight, walFile, audits, history
<1>6. Durable'
  BY <1>0, <1>2, DurableFrame DEF audits
<1>7. Fenced'
  BY <1>0, <1>1, <1>2, IdleFields
     DEF Fenced, FenceCoversPromise, FenceWithinLog, Loaded, fences, history, environment
<1>8. Repairing'
  BY <1>0, <1>2, RepairingFrame
<1> QED BY <1>3, <1>4, <1>5, <1>6, <1>7, <1>8 DEF WalInv

\* WalRecoveryFence::publish renames the new fence into place
LEMMA PublishFenceInv ==
  ASSUME WalInv, PublishFence
  PROVE  WalInv'
<1>0. /\ Types /\ JobShape /\ LogShape /\ Durable /\ Fenced /\ Repairing
      /\ job \in Jobs /\ job.step = "fence" /\ job.op # "none"
  BY DEF WalInv, PublishFence, Types, JobShape
<1>1. job' \in Jobs /\ job'.step = "fence_sync" /\ job'.op = job.op
  BY <1>0, StepFields DEF PublishFence, Steps
<1>2. /\ fence' = Target /\ UNCHANGED <<walFile, stableFence, audits, history, environment>>
      /\ UNCHANGED <<mode, policy, poisoned, next, known, nameKnown, handle, cache, group>>
  BY DEF PublishFence
<1>3. Target \in Nat /\ promised <= Target /\ Target' = Target
  <2>1. CASE mode = "open"
    BY SMT, <1>0, <1>1, <1>2, <2>1, TargetIsLog
       DEF JobShape, Target, Types, FileTypes, audits
  <2>2. CASE mode = "opening"
    <3>1. /\ pending \in Audits /\ Keeps(pending.keep) /\ job.op = "repair"
          /\ fence # NoFence
      BY <1>0, <2>2 DEF Repairing, JobShape, Types, SideTypes, FenceSteps, PublishFence
    <3> QED BY <1>1, <1>2, <3>1 DEF Target, Audits, Keeps, CutAfter, audits
  <2> QED BY <1>0, <2>1, <2>2 DEF Types, MemoryTypes, JobShape
<1>4. Types'
  BY SMT, <1>0, <1>1, <1>2, <1>3 DEF Types, MemoryTypes, FileTypes, SideTypes, WorldTypes,
     walFile, audits, history, environment
<1>5. JobShape'
  BY <1>0, <1>2, StepShape DEF PublishFence, Steps, JobShape, FenceSteps
<1>6. LogShape'
  BY <1>0, <1>1, <1>2 DEF LogShape, InFlight, walFile, audits, history
<1>7. Durable'
  BY <1>0, <1>2, DurableFrame DEF audits
<1>8. Fenced'
  <2>1. mode = "open" => Target = Len(hist)
    BY <1>0, TargetIsLog
  <2>2. mode = "open" /\ cache = NoFence => Target = next /\ policy = "SyncOnCheckpoint"
    BY <1>0 DEF JobShape, FenceSteps, Target
  <2> QED BY SMT, <1>0, <1>1, <1>2, <1>3, <2>1, <2>2
     DEF Fenced, FenceCoversPromise, FenceWithinLog, NoFence, history, environment
<1>9. Repairing'
  <2>1. mode = "opening" => Target = pending.keep
    BY <1>0 DEF JobShape, Target
  <2>2. CASE mode # "opening"
    BY <1>0, <1>2, <2>2, RepairingFrame
  <2>3. CASE mode = "opening"
    <3>1. /\ pending # None /\ Keeps(pending.keep) /\ head = "whole"
          /\ Len(file) # pending.keep => pending.orig = file /\ stablePending = pending
          /\ pending.keep <= Len(pending.orig)
          /\ stablePending # None => stablePending.keep <= Len(stablePending.orig)
      BY <1>0, <2>3 DEF Repairing
    <3>2. Keeps(pending.keep)'
      BY SMT, <1>2, <1>3, <2>1, <2>3, <3>1 DEF Keeps, CutAfter, walFile, audits, history
    <3>3. fence' # NoFence
      BY SMT, <1>2, <1>3 DEF NoFence
    <3> QED BY <1>1, <1>2, <3>1, <3>2, <3>3 DEF Repairing, walFile, audits
  <2> QED BY <2>2, <2>3
<1> QED BY <1>4, <1>5, <1>6, <1>7, <1>8, <1>9 DEF WalInv

\* The fence is durable: protect_wal_sync returns to the operation it protects
LEMMA FenceSyncedInv ==
  ASSUME WalInv, FenceSynced
  PROVE  WalInv'
<1>0. /\ Types /\ JobShape /\ LogShape /\ Durable /\ Fenced /\ Repairing
      /\ job \in Jobs /\ job.step = "fence_sync" /\ job.op # "none"
  BY DEF WalInv, FenceSynced, Types, JobShape
<1>1. /\ stableFence' = fence /\ named' = (head # "missing")
      /\ cache' = (IF job.op = "repair" THEN cache ELSE fence)
      /\ UNCHANGED <<mode, policy, poisoned, next, known, nameKnown, handle, group>>
      /\ UNCHANGED <<head, file, stable, shadow, fence, audits, history, environment>>
  BY DEF FenceSynced, SyncDirectory
<1>2. /\ job' \in Jobs /\ job'.commit = job.commit
      /\ job'.op = (IF job.op = "relaxed" THEN "append" ELSE job.op)
      /\ job'.step = (IF job.op = "relaxed" THEN "write"
                      ELSE IF job.op \in {"append", "group", "prefix"} THEN "sync" ELSE "truncate")
  <2>1. CASE job.op = "relaxed"
    BY <1>0, <2>1 DEF FenceSynced, Job, Jobs, Ops, Steps
  <2>2. CASE job.op \in {"append", "group", "prefix"}
    BY <1>0, <2>2 DEF FenceSynced, Jobs, Ops, Steps
  <2>3. CASE job.op \in {"rollback", "repair"}
    BY <1>0, <2>3 DEF FenceSynced, Jobs, Ops, Steps
  <2> QED BY <1>0, <2>1, <2>2, <2>3 DEF Jobs, Ops
<1>3. mode = "open" => fence = Target /\ Target = Len(hist) /\ fence # NoFence
  BY SMT, <1>0, TargetIsLog DEF Fenced, Types, FileTypes, NoFence
<1>4. Types'
  BY SMT, <1>0, <1>1, <1>2 DEF Types, MemoryTypes, FileTypes, SideTypes, WorldTypes,
     audits, history, environment
<1>5. JobShape'
  <2>1. job'.op # "none" /\ job' # Idle
    BY <1>0, <1>2, IdleFields
  <2>2. job.op # "repair" => mode = "open"
    BY <1>0 DEF JobShape, Types, MemoryTypes
  <2>3. CASE job.op = "relaxed"
    BY <1>0, <1>1, <1>2, <1>3, <2>1, <2>2, <2>3 DEF JobShape, FenceSteps
  <2>4. CASE job.op # "relaxed"
    <3>1. job'.op = job.op /\ job'.step \in {"sync", "truncate"}
      BY <1>2, <2>4
    <3>2. job'.step = "sync" => job.op \in {"append", "group", "prefix"}
      BY <1>2, <2>4
    <3>3. job'.step = "truncate" => job.op \in {"rollback", "repair"}
      BY <1>0, <1>2, <2>4 DEF Jobs, Ops
    <3> QED BY <1>0, <1>1, <1>2, <1>3, <2>1, <2>2, <3>1, <3>2, <3>3 DEF JobShape, FenceSteps
  <2> QED BY <2>3, <2>4
<1>6. LogShape'
  BY <1>0, <1>1, <1>2 DEF LogShape, InFlight, audits, history, Durable
<1>7. Durable'
  BY <1>0, <1>1 DEF Durable, Lasts, Agree, audits, history
<1>8. Fenced'
  <2>1. mode = "open" /\ job'.step \in {"truncate", "sync", "name"} => Target' = Target
    BY <1>0, <1>1, <1>2 DEF Target, audits, JobShape
  <2> QED BY <1>0, <1>1, <1>2, <1>3, <2>1
     DEF Fenced, FenceCoversPromise, FenceWithinLog, history, environment, JobShape
<1>9. Repairing'
  BY <1>0, <1>1, <1>2 DEF Repairing, Keeps, CutAfter, FenceSteps, audits, history, JobShape
<1> QED BY <1>4, <1>5, <1>6, <1>7, <1>8, <1>9 DEF WalInv

\* The barrier of an append, of a group or of a source synchronization is complete
LEMMA CompleteInv ==
  ASSUME WalInv, mode = "open", Complete, job' = Idle,
         job.op \in {"append", "group", "prefix"}, job.step \in {"sync", "name"},
         stable' = Len(file), shadow' = None, named' = TRUE, head = "whole",
         nameKnown' \in BOOLEAN, handle' \in BOOLEAN, stableFence' \in {stableFence, fence},
         UNCHANGED <<mode, policy, poisoned, cache, group>>,
         UNCHANGED <<head, file, fence, audits, hist, environment>>
  PROVE  WalInv'
<1>0. Types /\ JobShape /\ LogShape /\ Durable /\ Fenced /\ Repairing /\ pending = None
  BY DEF WalInv, LogShape
<1>1. Target = Len(hist) /\ promised <= Target /\ Target \in Nat
  BY SMT, <1>0, TargetIsLog DEF Types, FileTypes
<1>2. next' = Target /\ known' = Target /\ promised' = Target
  BY DEF Complete, Target
<1>3. job' \in Jobs /\ job'.step = "idle" /\ job'.op = "none"
  BY IdleFields
<1>4. Types'
  BY SMT, <1>0, <1>1, <1>2, <1>3, WalAssumption
     DEF Types, MemoryTypes, FileTypes, SideTypes, WorldTypes, audits, environment
<1>5. JobShape'
  BY IdleShape
<1>6. LogShape'
  BY SMT, <1>0, <1>1, <1>2, <1>3 DEF LogShape, InFlight, audits, Types, FileTypes
<1>7. Durable'
  <2>1. Len(hist) <= Len(file) /\ \A i \in 1 .. Target : file[i] \in Commits
    BY SMT, <1>0, <1>1 DEF LogShape, Types, FileTypes
  <2>2. Lasts(file)'
    BY SMT, <1>0, <1>1, <1>2, <2>1, WalAssumption DEF Durable, Lasts, Agree, Types, FileTypes
  <2> QED BY SMT, <1>0, <1>1, <1>2, <2>1, <2>2 DEF Durable, Types, FileTypes
<1>8. Fenced'
  <2>1. CASE cache = NoFence
    <3>1. fence \in {NoFence, Target} /\ stableFence \in {NoFence, Target}
      BY <1>0, <2>1 DEF Fenced, JobShape, Target
    <3> QED BY SMT, <1>0, <1>1, <1>2, <1>3, <2>1, <3>1
      DEF Fenced, FenceCoversPromise, FenceWithinLog, environment
  <2>2. CASE cache # NoFence
    <3>1. fence = Target /\ stableFence = Target
      BY <1>0, <2>2 DEF Fenced
    <3> QED BY SMT, <1>0, <1>1, <1>2, <1>3, <2>2, <3>1
      DEF Fenced, FenceCoversPromise, FenceWithinLog, environment, NoFence
  <2> QED BY <2>1, <2>2
<1>9. Repairing'
  BY <1>0, RepairingFrame
<1> QED BY <1>4, <1>5, <1>6, <1>7, <1>8, <1>9 DEF WalInv

\* sync_data succeeds, for an append, a group or a captured prefix
LEMMA SyncDataInv ==
  ASSUME WalInv, SyncData
  PROVE  WalInv'
<1>0. /\ Types /\ JobShape /\ LogShape /\ Durable /\ Fenced /\ Repairing
      /\ job \in Jobs /\ job.op \in {"append", "group", "prefix"} /\ job.step = "sync"
      /\ mode = "open" /\ pending = None /\ head = "whole"
  BY DEF WalInv, SyncData, Types, MemoryTypes, JobShape, LogShape, InFlight
<1>1. /\ stable' = Len(file) /\ shadow' = None /\ handle' = (handle \/ job.op = "append")
      /\ UNCHANGED <<mode, policy, poisoned, nameKnown, cache, group>>
      /\ UNCHANGED <<head, file, named, fences, audits, hist, environment>>
  BY DEF SyncData
<1>2. CASE job.created \/ ~nameKnown
  <2>1. Step("name") /\ UNCHANGED <<next, known, promised>>
    BY <1>2 DEF SyncData
  <2>2. job' \in Jobs /\ job'.step = "name" /\ job'.op = job.op
    BY <1>0, <2>1, StepFields DEF Steps
  <2>3. Types'
    BY SMT, <1>0, <1>1, <2>1, <2>2 DEF Types, MemoryTypes, FileTypes, SideTypes, WorldTypes,
       fences, audits, environment
  <2>4. JobShape'
    BY <1>0, <1>1, <2>1, StepShape DEF Steps, FenceSteps
  <2>5. LogShape'
    BY <1>0, <1>1, <2>1, <2>2 DEF LogShape, InFlight, audits
  <2>6. Durable'
    BY SMT, <1>0, <1>1, <2>1 DEF Durable, Lasts, Agree, audits, Types, FileTypes
  <2>7. Fenced'
    <3>1. Target' = Target
      BY <1>0, <1>1, <2>1, <2>2 DEF Target
    <3> QED BY <1>0, <1>1, <2>1, <2>2, <3>1
      DEF Fenced, FenceCoversPromise, FenceWithinLog, fences, environment
  <2>8. Repairing'
    BY <1>0, <1>1, RepairingFrame
  <2> QED BY <2>3, <2>4, <2>5, <2>6, <2>7, <2>8 DEF WalInv
<1>3. CASE ~(job.created \/ ~nameKnown)
  <2>1. Complete /\ job' = Idle
    BY <1>3 DEF SyncData
  <2>2. /\ named' = TRUE /\ nameKnown' \in BOOLEAN /\ handle' \in BOOLEAN
        /\ stableFence' = stableFence /\ fence' = fence
    BY <1>0, <1>1, <1>3 DEF LogShape, Types, FileTypes, MemoryTypes, fences
  <2> QED BY <1>0, <1>1, <2>1, <2>2, CompleteInv
<1> QED BY <1>2, <1>3

\* sync_wal_namespace succeeds and the operation completes
LEMMA SyncNameInv ==
  ASSUME WalInv, SyncName
  PROVE  WalInv'
<1>0. /\ job.op \in {"append", "group", "prefix"} /\ job.step = "name"
      /\ mode = "open" /\ head = "whole" /\ stable = Len(file) /\ shadow = None
  BY DEF WalInv, SyncName, Types, MemoryTypes, JobShape, LogShape, InFlight
<1>1. /\ named' = TRUE /\ nameKnown' = TRUE /\ handle' \in BOOLEAN /\ stableFence' = fence
      /\ Complete /\ job' = Idle /\ stable' = stable /\ shadow' = shadow
      /\ UNCHANGED <<mode, policy, poisoned, cache, group>>
      /\ UNCHANGED <<head, file, fence, audits, hist, environment>>
  BY <1>0 DEF SyncName, SyncDirectory, WalInv, Types, MemoryTypes
<1> QED BY <1>0, <1>1, CompleteInv

\* begin_wal_sync_group opens a group
LEMMA BeginSyncGroupInv ==
  ASSUME WalInv, BeginSyncGroup
  PROVE  WalInv'
<1>0. /\ Types /\ JobShape /\ LogShape /\ Durable /\ Fenced /\ Repairing
      /\ mode = "open" /\ job.op = "none" /\ job.step = "idle"
      /\ group = NoGroup /\ group' = [entries |-> 0, created |-> FALSE]
  BY IdleFields DEF WalInv, BeginSyncGroup, Ready
<1>1. /\ UNCHANGED <<walFile, fences, audits, history, environment>>
      /\ UNCHANGED <<mode, policy, poisoned, next, known, nameKnown, handle, cache, job>>
  BY DEF BeginSyncGroup
<1>2. Types'
  BY SMT, <1>0, <1>1 DEF Types, MemoryTypes, FileTypes, SideTypes, WorldTypes,
     walFile, fences, audits, history, environment
<1>3. JobShape'
  BY <1>0, <1>1 DEF JobShape
<1>4. LogShape'
  BY SMT, <1>0, <1>1 DEF LogShape, InFlight, walFile, audits, history, NoGroup
<1>5. Durable'
  BY <1>0, <1>1, DurableFrame DEF audits
<1>6. Fenced'
  BY <1>0, <1>1 DEF Fenced, FenceCoversPromise, FenceWithinLog, fences, history, environment
<1>7. Repairing'
  BY <1>0, <1>1, RepairingFrame
<1> QED BY <1>2, <1>3, <1>4, <1>5, <1>6, <1>7 DEF WalInv

\* An operation that synchronizes everything written so far starts
LEMMA BarrierStarts ==
  ASSUME WalInv, Ready, NEW op \in {"group", "prefix"}, NEW created \in BOOLEAN,
         Len(hist) = next, head = "whole", op = "prefix" => ~poisoned,
         cache' = cache \/ cache' = Loaded, group' \in {group, NoGroup},
         job' = Job(op, IF cache' = NoFence THEN "sync" ELSE "fence", None, created),
         UNCHANGED <<walFile, fences, audits, history, environment>>,
         UNCHANGED <<mode, policy, poisoned, next, known, nameKnown, handle>>
  PROVE  WalInv'
<1>0. /\ Types /\ JobShape /\ LogShape /\ Durable /\ Fenced /\ Repairing
      /\ mode = "open" /\ job.op = "none" /\ job.step = "idle"
  BY IdleFields DEF WalInv, Ready
<1>1. /\ job' \in Jobs /\ job'.op = op
      /\ job'.step = (IF cache' = NoFence THEN "sync" ELSE "fence")
  BY DEF Job, Jobs, Ops, Steps
<1>2. Types'
  BY SMT, <1>0, <1>1 DEF Types, MemoryTypes, FileTypes, SideTypes, WorldTypes, Loaded,
     walFile, fences, audits, history, environment
<1>3. JobShape'
  <2>1. job' # Idle
    BY <1>1, IdleFields
  <2> QED BY <1>0, <1>1, <2>1 DEF JobShape, FenceSteps
<1>4. LogShape'
  BY <1>0, <1>1 DEF LogShape, InFlight, walFile, audits, history
<1>5. Durable'
  BY <1>0, DurableFrame DEF audits
<1>6. Fenced'
  BY <1>0, <1>1
     DEF Fenced, FenceCoversPromise, FenceWithinLog, Loaded, fences, history, environment
<1>7. Repairing'
  BY <1>0, RepairingFrame
<1> QED BY <1>2, <1>3, <1>4, <1>5, <1>6, <1>7 DEF WalInv

\* finish_wal_sync_group closes a group, with or without a barrier
LEMMA FinishSyncGroupInv ==
  ASSUME WalInv, FinishSyncGroup
  PROVE  WalInv'
<1>0. /\ Types /\ JobShape /\ LogShape /\ Durable /\ Fenced /\ Repairing
      /\ mode = "open" /\ job.op = "none" /\ job.step = "idle" /\ job = Idle
      /\ group' = NoGroup /\ group.entries \in Nat /\ group.created \in BOOLEAN
  BY IdleFields DEF WalInv, FinishSyncGroup, Ready, Types, MemoryTypes
<1>1. /\ UNCHANGED <<walFile, fences, audits, history, environment>>
      /\ UNCHANGED <<mode, policy, poisoned, next, known, nameKnown, handle, cache>>
  BY DEF FinishSyncGroup
<1>2. CASE group.entries = 0
  <2>1. job' = job
    BY <1>0, <1>2 DEF FinishSyncGroup
  <2>2. Types'
    BY SMT, <1>0, <1>1, <2>1 DEF Types, MemoryTypes, FileTypes, SideTypes, WorldTypes,
       walFile, fences, audits, history, environment
  <2>3. JobShape'
    BY <1>0, <1>1, <2>1 DEF JobShape
  <2>4. LogShape'
    BY SMT, <1>0, <1>1, <1>2, <2>1 DEF LogShape, InFlight, walFile, audits, history, NoGroup
  <2>5. Durable'
    BY <1>0, <1>1, DurableFrame DEF audits
  <2>6. Fenced'
    BY <1>0, <1>1, <2>1 DEF Fenced, FenceCoversPromise, FenceWithinLog, fences, history, environment
  <2>7. Repairing'
    BY <1>0, <1>1, RepairingFrame
  <2> QED BY <2>2, <2>3, <2>4, <2>5, <2>6, <2>7 DEF WalInv
<1>3. CASE group.entries # 0
  <2>1. head = "whole" /\ Len(hist) = next
    BY SMT, <1>0, <1>3 DEF LogShape, InFlight
  <2>2. job' = Job("group", IF cache' = NoFence THEN "sync" ELSE "fence", None, group.created)
    BY <1>1, <1>3 DEF FinishSyncGroup, ProtectThen
  <2> QED BY <1>0, <1>1, <2>1, <2>2, BarrierStarts DEF Ready
<1> QED BY <1>2, <1>3

\* synchronize_source_prefix starts the barrier of a checkpoint's capture
LEMMA SynchronizeSourcePrefixInv ==
  ASSUME WalInv, SynchronizeSourcePrefix
  PROVE  WalInv'
<1>0. /\ Ready /\ ~poisoned /\ known < next /\ cache' = Loaded
      /\ UNCHANGED <<walFile, fences, audits, history, environment>>
      /\ UNCHANGED <<mode, policy, poisoned, next, known, nameKnown, handle, group>>
  BY DEF SynchronizeSourcePrefix
<1>1. Len(hist) = next
  BY <1>0, IdleFields DEF WalInv, LogShape, InFlight, Ready
<1>2. head = "whole"
  <2>1. Len(file) > 0
    BY SMT, <1>0, <1>1 DEF WalInv, LogShape, Ready, Types, MemoryTypes, FileTypes
  <2>2. file # <<>>
    BY SMT, <2>1
  <2> QED BY <2>2 DEF WalInv, Durable
<1>3. job' = Job("prefix", IF cache' = NoFence THEN "sync" ELSE "fence", None, FALSE)
  BY DEF SynchronizeSourcePrefix
<1> QED BY <1>0, <1>1, <1>2, <1>3, BarrierStarts

\* The operation ends without effect on the directory, and poisons the handle if it
\* leaves a record, or part of one, behind
LEMMA AbandonInv ==
  ASSUME WalInv, job.op # "none", job' = Idle,
         mode' = IF job.op = "repair" THEN "closed" ELSE mode,
         poisoned' \in BOOLEAN, handle' \in BOOLEAN, faults' \in Nat,
         poisoned => poisoned', InFlight \/ job.op = "rollback" => poisoned',
         UNCHANGED <<policy, next, known, nameKnown, cache, group>>,
         UNCHANGED <<walFile, fences, audits, history>>,
         UNCHANGED <<checkpointed, crashes, losses, damage>>
  PROVE  WalInv'
<1>0. Types /\ JobShape /\ LogShape /\ Durable /\ Fenced /\ Repairing
  BY DEF WalInv
<1>1. job' \in Jobs /\ job'.op = "none" /\ job'.step = "idle" /\ mode' # "opening"
  BY <1>0, IdleFields DEF JobShape
<1>2. Types'
  BY SMT, <1>0, <1>1 DEF Types, MemoryTypes, FileTypes, SideTypes, WorldTypes,
     walFile, fences, audits, history
<1>3. JobShape'
  BY <1>1, IdleShape
<1>4. LogShape'
  BY SMT, <1>0, <1>1 DEF LogShape, InFlight, JobShape, walFile, audits, history, NoGroup
<1>5. Durable'
  BY <1>0, DurableFrame DEF audits
<1>6. Fenced'
  BY <1>0, <1>1 DEF Fenced, FenceCoversPromise, FenceWithinLog, fences, history
<1>7. Repairing'
  BY <1>0, <1>1, RepairingFrame
<1> QED BY <1>2, <1>3, <1>4, <1>5, <1>6, <1>7 DEF WalInv

\* A file operation fails and the handle is poisoned where the code does so
LEMMA StepFailsInv ==
  ASSUME WalInv, StepFails
  PROVE  WalInv'
<1>1. job.op # "none"
  BY DEF StepFails, WalInv, JobShape
<1>2. faults' \in Nat /\ UNCHANGED <<checkpointed, crashes, losses, damage>>
  BY SMT DEF StepFails, Fault, NoFault, environment, WalInv, Types, WorldTypes
<1>3. poisoned' \in BOOLEAN /\ handle' \in BOOLEAN /\ (poisoned => poisoned')
  BY DEF StepFails, WalInv, Types, MemoryTypes
<1>4. InFlight \/ job.op = "rollback" => poisoned'
  BY DEF StepFails, Harmless, InFlight
<1> QED BY <1>1, <1>2, <1>3, <1>4, AbandonInv DEF StepFails

\* A fence that would move backwards is refused
LEMMA FenceRefusedInv ==
  ASSUME WalInv, FenceRefused
  PROVE  WalInv'
<1>1. job.op # "none" /\ faults \in Nat
  BY DEF FenceRefused, WalInv, JobShape, Types, WorldTypes
<1>2. poisoned' \in BOOLEAN /\ handle' \in BOOLEAN /\ (poisoned => poisoned')
  BY DEF FenceRefused, WalInv, Types, MemoryTypes
<1>3. InFlight \/ job.op = "rollback" => poisoned'
  BY DEF FenceRefused, InFlight
<1> QED BY <1>1, <1>2, <1>3, AbandonInv DEF FenceRefused, environment

-----------------------------------------------------------------------------
(* Writing *)

\* What appending one record to a file does
LEMMA Appended ==
  ASSUME NEW S, NEW f \in Seq(S), NEW r \in S
  PROVE  /\ Append(f, r) \in Seq(S) /\ Len(Append(f, r)) = Len(f) + 1
         /\ \A i \in 1 .. Len(f) : Append(f, r)[i] = f[i]
         /\ Append(f, r)[Len(f) + 1] = r
BY SMT

\* What a truncated file holds
LEMMA Prefix ==
  ASSUME NEW S, NEW f \in Seq(S), NEW n \in 0 .. Len(f)
  PROVE  /\ SubSeq(f, 1, n) \in Seq(S) /\ Len(SubSeq(f, 1, n)) = n
         /\ \A i \in 1 .. n : SubSeq(f, 1, n)[i] = f[i]
BY SMT

\* A sequence is its own full prefix, is what its elements are, and ends with nothing added
LEMMA Whole ==
  ASSUME NEW S, NEW f \in Seq(S)
  PROVE  SubSeq(f, 1, Len(f)) = f /\ f \o <<>> = f
BY SMT

\* Two files with the same records are the same
LEMMA SameRecords ==
  ASSUME NEW S, NEW f \in Seq(S), NEW g \in Seq(S), Len(f) = Len(g),
         \A i \in 1 .. Len(f) : f[i] = g[i]
  PROVE  f = g
BY SMT

\* What a file holds after one of its records has been overwritten
LEMMA Replaced ==
  ASSUME NEW S, NEW f \in Seq(S), NEW k \in DOMAIN f, NEW r \in S
  PROVE  /\ [f EXCEPT ![k] = r] \in Seq(S) /\ Len([f EXCEPT ![k] = r]) = Len(f)
         /\ \A i \in 1 .. Len(f) : [f EXCEPT ![k] = r][i] = IF i = k THEN r ELSE f[i]
BY SMT

\* While an append writes its record, the file ends with the log
LEMMA WritingFacts ==
  ASSUME WalInv, job.op = "append", job.step = "write"
  PROVE  /\ mode = "open" /\ ~poisoned /\ job.commit \in Commits /\ pending = None
         /\ Len(hist) = next /\ Len(file) = next /\ stable <= next /\ promised <= next
         /\ \A i \in 1 .. next : file[i] = hist[i]
         /\ policy = "SyncOnEveryWrite" \/ cache # NoFence
BY DEF WalInv, JobShape, LogShape, InFlight, Durable, Lasts, Types, MemoryTypes

\* append_encoded_entry writes its record
LEMMA WriteRecordInv ==
  ASSUME WalInv, WriteRecord
  PROVE  WalInv'
<1> DEFINE deferred == group # NoGroup \/ policy = "SyncOnCheckpoint"
<1>0. /\ Types /\ JobShape /\ LogShape /\ Durable /\ Fenced /\ Repairing
      /\ job \in Jobs /\ job.op = "append" /\ job.step = "write"
  BY DEF WalInv, WriteRecord, Types
<1>1. /\ head' = "whole" /\ file' = Append(file, job.commit) /\ hist' = Append(hist, job.commit)
      /\ UNCHANGED <<mode, policy, poisoned, known, nameKnown, cache, stable, shadow, named>>
      /\ UNCHANGED <<fences, audits, promised, environment>>
  BY DEF WriteRecord
<1>2. /\ mode = "open" /\ ~poisoned /\ job.commit \in Commits /\ pending = None
      /\ Len(hist) = next /\ Len(file) = next /\ stable <= next /\ promised <= next
      /\ \A i \in 1 .. next : file[i] = hist[i]
      /\ policy = "SyncOnEveryWrite" \/ cache # NoFence
  BY <1>0, WritingFacts
<1>3. file \in Seq(Records) /\ hist \in Seq(Commits) /\ next \in Nat /\ job.commit \in Records
  BY <1>0, <1>2 DEF Types, MemoryTypes, FileTypes, Records
<1>4. /\ file' \in Seq(Records) /\ hist' \in Seq(Commits)
      /\ Len(file') = next + 1 /\ Len(hist') = next + 1
      /\ \A i \in 1 .. next : file'[i] = file[i] /\ hist'[i] = hist[i]
      /\ file'[next + 1] = job.commit /\ hist'[next + 1] = job.commit
  BY SMT, <1>1, <1>2, <1>3, Appended
<1>5. \A i \in 1 .. next + 1 : file'[i] = hist'[i]
  <2> SUFFICES ASSUME NEW i \in 1 .. next + 1 PROVE file'[i] = hist'[i]
    OBVIOUS
  <2>1. i \in 1 .. next \/ i = next + 1
    BY SMT, <1>3
  <2> QED BY <1>2, <1>4, <2>1
<1>6. /\ next' = (IF deferred THEN next + 1 ELSE next)
      /\ handle' \in BOOLEAN
      /\ group' \in [entries : Nat, created : BOOLEAN] \cup {NoGroup}
      /\ group = NoGroup => group' = NoGroup
  <2>1. CASE group # NoGroup
    <3>1. group \in [entries : Nat, created : BOOLEAN]
      BY <1>0, <2>1 DEF Types, MemoryTypes
    <3>2. /\ group' = [entries |-> group.entries + 1, created |-> group.created \/ head = "missing"]
          /\ next' = next + 1 /\ handle' = TRUE
      BY <2>1 DEF WriteRecord
    <3>3. group.entries + 1 \in Nat /\ (group.created \/ head = "missing") \in BOOLEAN
      BY SMT, <3>1
    <3> QED BY <2>1, <3>2, <3>3
  <2>2. CASE group = NoGroup
    BY <1>0, <2>2 DEF WriteRecord, Types, MemoryTypes
  <2> QED BY <2>1, <2>2
<1>7. /\ job' \in Jobs /\ job'.step \in (IF deferred THEN {"idle"} ELSE {"sync", "fence"})
      /\ job'.op = (IF deferred THEN "none" ELSE "append")
      /\ deferred => job' = Idle
      /\ ~deferred => job'.commit = job.commit
      /\ ~deferred => job'.step = (IF cache = NoFence THEN "sync" ELSE "fence")
  <2>1. CASE deferred
    BY <2>1, IdleFields DEF WriteRecord
  <2>2. CASE ~deferred
    <3>1. PICK b \in BOOLEAN : job' = Job("append", ProtectThen("sync"), job.commit, b)
      BY <2>2 DEF WriteRecord
    <3>2. ProtectThen("sync") = IF cache = NoFence THEN "sync" ELSE "fence"
      BY DEF ProtectThen
    <3> QED BY <1>2, <2>2, <3>1, <3>2 DEF Job, Jobs, Ops, Steps
  <2> QED BY <2>1, <2>2
<1> HIDE DEF deferred
<1>8. Types'
  BY SMT, <1>0, <1>1, <1>3, <1>4, <1>6, <1>7
     DEF Types, MemoryTypes, FileTypes, SideTypes, WorldTypes, fences, audits, environment
<1>9. JobShape'
  <2>1. CASE deferred
    BY <1>1, <1>2, <1>7, <2>1, IdleShape
  <2>2. CASE ~deferred
    <3>1. job' # Idle
      BY <1>7, <2>2, IdleFields
    <3> QED BY <1>1, <1>2, <1>6, <1>7, <2>2, <3>1 DEF JobShape, FenceSteps, deferred
  <2> QED BY <2>1, <2>2
<1>10. LogShape'
  BY SMT, <1>0, <1>1, <1>2, <1>3, <1>4, <1>5, <1>6, <1>7 DEF LogShape, InFlight, audits
<1>11. Durable'
  <2>1. Lasts(file)'
    <3>1. Agree(file)'
      BY SMT, <1>3, <1>4, <1>5 DEF Agree
    <3>2. \A i \in 1 .. promised : file'[i] # Torn
      BY SMT, <1>0, <1>2, <1>3, <1>4 DEF Durable, Lasts, Types, FileTypes
    <3> QED BY SMT, <1>0, <1>1, <1>2, <1>3, <1>4, <3>1, <3>2 DEF Lasts, Types, FileTypes
  <2>2. shadow # None => Lasts(shadow)'
    <3>1. shadow # None => Agree(shadow)'
      <4> SUFFICES ASSUME shadow # None, NEW i \in 1 .. Len(shadow), shadow[i] \in Commits
                   PROVE  i <= Len(hist') /\ shadow[i] = hist'[i]
        BY <1>1 DEF Agree
      <4>1. i <= Len(hist) /\ shadow[i] = hist[i]
        BY <1>0 DEF Durable, Lasts, Agree
      <4>2. i \in 1 .. next
        BY SMT, <1>2, <1>3, <4>1
      <4> QED BY SMT, <1>3, <1>4, <4>1, <4>2
    <3> QED BY <1>0, <1>1, <3>1 DEF Durable, Lasts
  <2> QED BY SMT, <1>0, <1>1, <1>2, <1>3, <1>4, <2>1, <2>2 DEF Durable, Types, FileTypes
<1>12. Fenced'
  BY SMT, <1>0, <1>1, <1>2, <1>3, <1>4, <1>6, <1>7, WalAssumption
     DEF Fenced, FenceCoversPromise, FenceWithinLog, fences, environment, deferred, Types, SideTypes
<1>13. Repairing'
  BY <1>0, <1>1, <1>2, RepairingFrame
<1> QED BY <1>8, <1>9, <1>10, <1>11, <1>12, <1>13 DEF WalInv

\* A partial write adds at most one torn record and never removes one
LEMMA PartialFacts ==
  ASSUME FileTypes, PartialWrite
  PROVE  /\ file' \in Seq(Records) /\ Len(file') \in {Len(file), Len(file) + 1}
         /\ \A i \in 1 .. Len(file) : file'[i] = file[i]
         /\ Len(file') = Len(file) + 1 => file'[Len(file) + 1] = Torn
         /\ head' \in {"missing", "empty", "torn", "whole"}
         /\ head = "whole" => head' = "whole"
         /\ head # "missing" => head' # "missing"
         /\ head' # "whole" => file' = file /\ head # "whole"
<1>1. file \in Seq(Records) /\ Len(file) \in Nat /\ Torn \in Records
  BY SMT DEF FileTypes, Records
<1>2. /\ file' = file \/ file' = Append(file, Torn)
      /\ head' \in {"missing", "empty", "torn", "whole"}
      /\ head = "whole" => head' = "whole"
      /\ head # "missing" => head' # "missing"
  BY DEF PartialWrite, FileTypes
<1>3. head' # "whole" => file' = file /\ head # "whole"
  BY DEF PartialWrite
<1>4. CASE file' = file
  BY SMT, <1>1, <1>2, <1>3, <1>4
<1>5. CASE file' = Append(file, Torn)
  <2>1. /\ file' \in Seq(Records) /\ Len(file') = Len(file) + 1
        /\ \A i \in 1 .. Len(file) : file'[i] = file[i]
        /\ file'[Len(file) + 1] = Torn
    BY SMT, <1>1, <1>5, Appended
  <2> QED BY <1>2, <1>3, <2>1
<1> QED BY <1>2, <1>4, <1>5

\* A failed write is followed by a rollback
LEMMA WriteFailsInv ==
  ASSUME WalInv, WriteFails
  PROVE  WalInv'
<1>0. /\ Types /\ JobShape /\ LogShape /\ Durable /\ Fenced /\ Repairing
      /\ job \in Jobs /\ job.op = "append" /\ job.step = "write"
  BY DEF WalInv, WriteFails, Types
<1>1. /\ UNCHANGED <<mode, policy, poisoned, next, known, nameKnown, handle, cache, group>>
      /\ UNCHANGED <<stable, shadow, named, fences, audits, history>>
      /\ UNCHANGED <<checkpointed, crashes, losses, damage>>
      /\ PartialWrite /\ head' # "missing" /\ faults' = faults + 1
  BY DEF WriteFails, Fault
<1>2. /\ mode = "open" /\ ~poisoned /\ pending = None
      /\ Len(hist) = next /\ Len(file) = next /\ stable <= next /\ promised <= next
      /\ \A i \in 1 .. next : file[i] = hist[i]
  BY <1>0, WritingFacts
<1>3. /\ file \in Seq(Records) /\ next \in Nat /\ stable \in Int /\ promised \in Nat
      /\ Torn \in Records /\ Torn \notin Commits
  BY <1>0, WalAssumption DEF Types, MemoryTypes, FileTypes, Records
<1>4. /\ head' \in {"missing", "empty", "torn", "whole"}
      /\ head = "whole" => head' = "whole"
      /\ head' # "whole" => file' = file /\ head # "whole"
  BY <1>0, <1>1, PartialFacts DEF Types
<1>5. /\ file' \in Seq(Records) /\ Len(file') \in {next, next + 1}
      /\ \A i \in 1 .. next : file'[i] = file[i]
      /\ Len(file') = next + 1 => file'[next + 1] = Torn
  BY <1>0, <1>1, <1>2, PartialFacts DEF Types
<1>6. /\ job' \in Jobs /\ job'.op = "rollback"
      /\ job'.step = (IF cache = NoFence THEN "truncate" ELSE "fence")
  <2>1. job' = Job("rollback", IF cache = NoFence THEN "truncate" ELSE "fence", None, FALSE)
    BY DEF WriteFails, ProtectThen
  <2> QED BY <2>1 DEF Job, Jobs, Ops, Steps
<1>7. Types'
  BY SMT, <1>0, <1>1, <1>4, <1>5, <1>6
     DEF Types, MemoryTypes, FileTypes, SideTypes, WorldTypes, fences, audits, history
<1>8. JobShape'
  <2>1. job' # Idle
    BY <1>6, IdleFields
  <2> QED BY <1>1, <1>2, <1>6, <2>1 DEF JobShape, FenceSteps
<1>9. LogShape'
  BY SMT, <1>0, <1>1, <1>2, <1>3, <1>4, <1>5, <1>6 DEF LogShape, InFlight, audits, history
<1>10. Durable'
  <2>1. Lasts(file)'
    <3>1. Agree(file)'
      <4> SUFFICES ASSUME NEW i \in 1 .. Len(file'), file'[i] \in Commits
                   PROVE  i <= Len(hist) /\ file'[i] = hist[i]
        BY <1>1 DEF Agree, history
      <4>1. i \in 1 .. next
        BY SMT, <1>3, <1>5
      <4> QED BY SMT, <1>2, <1>3, <1>5, <4>1
    <3>2. \A i \in 1 .. promised : file'[i] # Torn
      BY SMT, <1>0, <1>2, <1>3, <1>5 DEF Durable, Lasts
    <3> QED BY SMT, <1>1, <1>2, <1>3, <1>5, <3>1, <3>2 DEF Lasts, history
  <2>2. shadow # None => Lasts(shadow)'
    BY <1>0, <1>1 DEF Durable, Lasts, Agree, history
  <2>3. shadow # None =>
          \A i \in 1 .. Len(shadow) : shadow[i] \in Commits => i <= Len(file')
    <3>1. shadow # None =>
          \A i \in 1 .. Len(shadow) : shadow[i] \in Commits => i <= Len(file)
      BY <1>0, <1>2 DEF Durable
    <3> QED BY SMT, <1>2, <1>3, <1>5, <3>1
  <2> QED BY <1>0, <1>1, <1>4, <2>1, <2>2, <2>3 DEF Durable, audits, history
<1>11. Fenced'
  BY <1>0, <1>1, <1>2, <1>6
     DEF Fenced, FenceCoversPromise, FenceWithinLog, fences, history
<1>12. Repairing'
  BY <1>0, <1>1, <1>2, RepairingFrame
<1> QED BY <1>7, <1>8, <1>9, <1>10, <1>11, <1>12 DEF WalInv

\* The file is cut back to the records before the append that failed
LEMMA RollBackFacts ==
  ASSUME WalInv, job.op = "rollback", file' = SubSeq(file, 1, next)
  PROVE  /\ mode = "open" /\ ~poisoned /\ pending = None /\ Len(hist) = next
         /\ next \in Nat /\ stable <= next /\ promised <= next /\ next <= Len(file)
         /\ file' \in Seq(Records) /\ Len(file') = next
         /\ \A i \in 1 .. next : file'[i] = hist[i] /\ file'[i] = file[i] /\ hist[i] \in Commits
<1>1. /\ mode = "open" /\ ~poisoned /\ pending = None /\ Len(hist) = next
      /\ stable <= next /\ promised <= next /\ Len(hist) <= Len(file)
      /\ \A i \in 1 .. next : file[i] = hist[i]
  BY DEF WalInv, JobShape, LogShape, InFlight, Durable, Types, MemoryTypes
<1>2. next \in Nat /\ file \in Seq(Records) /\ hist \in Seq(Commits)
  BY DEF WalInv, Types, MemoryTypes, FileTypes
<1>3. next \in 0 .. Len(file)
  BY SMT, <1>1, <1>2
<1>4. /\ file' \in Seq(Records) /\ Len(file') = next
      /\ \A i \in 1 .. next : file'[i] = file[i]
  BY <1>2, <1>3, Prefix
<1> QED BY SMT, <1>1, <1>2, <1>4

\* rollback_wal_append truncates the file to the end of the log, and synchronizes it
LEMMA RollBackInv ==
  ASSUME WalInv, RollBack
  PROVE  WalInv'
<1>0. Types /\ JobShape /\ LogShape /\ Durable /\ Fenced /\ Repairing /\ job.op = "rollback"
  BY DEF WalInv, RollBack
<1>1. /\ head' = "whole" /\ stable' = next /\ shadow' = None /\ handle' = TRUE /\ job' = Idle
      /\ UNCHANGED <<mode, policy, poisoned, next, known, nameKnown, cache, group, named>>
      /\ UNCHANGED <<fences, audits, history, environment>>
  BY DEF RollBack
<1>2. /\ mode = "open" /\ ~poisoned /\ pending = None /\ Len(hist) = next
      /\ next \in Nat /\ stable <= next /\ promised <= next /\ next <= Len(file)
      /\ file' \in Seq(Records) /\ Len(file') = next
      /\ \A i \in 1 .. next : file'[i] = hist[i] /\ file'[i] = file[i] /\ hist[i] \in Commits
  BY <1>0, RollBackFacts DEF RollBack
<1>3. job' \in Jobs /\ job'.op = "none" /\ job'.step = "idle"
  BY <1>1, IdleFields
<1>4. Types'
  BY SMT, <1>0, <1>1, <1>2, <1>3
     DEF Types, MemoryTypes, FileTypes, SideTypes, WorldTypes, fences, audits, history, environment
<1>5. JobShape'
  BY <1>1, <1>2, IdleShape
<1>6. LogShape'
  BY <1>0, <1>1, <1>2, <1>3 DEF LogShape, InFlight, audits, history
<1>7. Durable'
  <2>1. Lasts(file)'
    BY SMT, <1>0, <1>1, <1>2, WalAssumption DEF Durable, Lasts, Agree, history, Types, FileTypes
  <2> QED BY <1>0, <1>1, <1>2, <2>1 DEF Durable, history, audits
<1>8. Fenced'
  BY <1>0, <1>1, <1>3 DEF Fenced, FenceCoversPromise, FenceWithinLog, fences, history, environment
<1>9. Repairing'
  BY <1>0, <1>1, <1>2, RepairingFrame
<1> QED BY <1>4, <1>5, <1>6, <1>7, <1>8, <1>9 DEF WalInv

\* The truncation of a rollback succeeds and its synchronization fails
LEMMA RollBackUnsyncedInv ==
  ASSUME WalInv, RollBackUnsynced
  PROVE  WalInv'
<1>0. Types /\ JobShape /\ LogShape /\ Durable /\ Fenced /\ Repairing /\ job.op = "rollback"
  BY DEF WalInv, RollBackUnsynced
<1>1. /\ head' = "whole" /\ shadow' = file /\ poisoned' = TRUE /\ handle' = FALSE /\ job' = Idle
      /\ UNCHANGED <<mode, policy, next, known, nameKnown, cache, group, stable, named>>
      /\ UNCHANGED <<fences, audits, history, environment>>
  BY DEF RollBackUnsynced, NoFault
<1>2. /\ mode = "open" /\ ~poisoned /\ pending = None /\ Len(hist) = next
      /\ next \in Nat /\ stable <= next /\ promised <= next /\ next <= Len(file)
      /\ file' \in Seq(Records) /\ Len(file') = next
      /\ \A i \in 1 .. next : file'[i] = hist[i] /\ file'[i] = file[i] /\ hist[i] \in Commits
  BY <1>0, RollBackFacts DEF RollBackUnsynced
<1>3. job' \in Jobs /\ job'.op = "none" /\ job'.step = "idle"
  BY <1>1, IdleFields
<1>4. Types'
  BY <1>0, <1>1, <1>2, <1>3
     DEF Types, MemoryTypes, FileTypes, SideTypes, WorldTypes, fences, audits, history, environment
<1>5. JobShape'
  BY <1>1, <1>2, IdleShape
<1>6. LogShape'
  BY <1>0, <1>1, <1>2, <1>3 DEF LogShape, InFlight, audits, history
<1>7. Durable'
  <2>1. Lasts(file)'
    BY SMT, <1>0, <1>1, <1>2, WalAssumption DEF Durable, Lasts, Agree, history, Types, FileTypes
  <2>2. Lasts(shadow)'
    BY <1>0, <1>1 DEF Durable, Lasts, Agree, history
  <2>3. \A i \in 1 .. Len(file) : file[i] \in Commits => i <= Len(file')
    BY <1>0, <1>2 DEF Durable, Lasts, Agree
  <2> QED BY <1>0, <1>1, <1>2, <2>1, <2>2, <2>3 DEF Durable, history, audits
<1>8. Fenced'
  BY <1>0, <1>1, <1>3 DEF Fenced, FenceCoversPromise, FenceWithinLog, fences, history, environment
<1>9. Repairing'
  BY <1>0, <1>1, <1>2, RepairingFrame
<1> QED BY <1>4, <1>5, <1>6, <1>7, <1>8, <1>9 DEF WalInv

-----------------------------------------------------------------------------
(* Opening and repairing *)

\* A file is whole when each of its records is a commit
LEMMA WholeFacts ==
  ASSUME NEW f \in Seq(Records)
  PROVE  /\ IsWhole(f) <=> \A i \in 1 .. Len(f) : f[i] \in Commits
         /\ IsWhole(f) => f \in Seq(Commits)
<1>1. DOMAIN f = 1 .. Len(f) /\ Len(f) \in Nat /\ f = [i \in 1 .. Len(f) |-> f[i]]
  BY SMT
<1>2. IsWhole(f) <=> \A i \in 1 .. Len(f) : f[i] \in Commits
  BY <1>1 DEF IsWhole, Range
<1>3. (\A i \in 1 .. Len(f) : f[i] \in Commits) => f \in Seq(Commits)
  BY SMT, <1>1
<1> QED BY <1>2, <1>3

\* There is at most one first damaged record
LEMMA CleanUnique ==
  ASSUME NEW f \in Seq(Records), NEW n \in 0 .. Len(f), NEW m \in 0 .. Len(f),
         Clean(f, n), Clean(f, m)
  PROVE  n = m
BY SMT DEF Clean

\* An open over the whole file succeeds
LEMMA OpenedInv ==
  ASSUME WalInv, mode # "open", pending = None, Opened(Len(file)), policy' \in Policies,
         \A i \in 1 .. Len(file) : file[i] \in Commits, checkpointed => fence <= Len(file),
         UNCHANGED <<walFile, fences, pending, promised, environment>>,
         stablePending' \in {stablePending, None}
  PROVE  WalInv'
<1>0. Types /\ JobShape /\ LogShape /\ Durable /\ Fenced /\ Repairing
  BY DEF WalInv
<1>1. /\ mode' = "open" /\ poisoned' = FALSE /\ next' = Len(file) /\ known' = 0
      /\ nameKnown' = FALSE /\ handle' = FALSE /\ cache' = Unknown /\ group' = NoGroup
      /\ job' = Idle /\ hist' = SubSeq(file, 1, Len(file))
  BY DEF Opened
<1>2. /\ file \in Seq(Records) /\ Len(file) \in Nat /\ promised \in Nat /\ stable \in Int
      /\ file \in Seq(Commits)
  <2>1. file \in Seq(Records) /\ promised \in Nat /\ stable \in Int
    BY <1>0 DEF Types, FileTypes
  <2>2. file \in Seq(Commits)
    BY <2>1, WholeFacts
  <2> QED BY SMT, <2>1, <2>2
<1>3. hist' = file
  BY <1>1, <1>2, Whole
<1>4. job' \in Jobs /\ job'.op = "none" /\ job'.step = "idle"
  BY <1>1, IdleFields
<1>5. Types'
  <2>0. Unknown \in Int /\ 0 \in Nat
    BY SMT DEF Unknown
  <2>1. MemoryTypes'
    BY <1>1, <1>2, <2>0 DEF MemoryTypes
  <2>2. FileTypes'
    BY <1>0, <1>2, <1>3 DEF Types, FileTypes, walFile
  <2>3. SideTypes' /\ WorldTypes'
    BY <1>0 DEF Types, SideTypes, WorldTypes, fences, environment
  <2> QED BY <1>4, <2>1, <2>2, <2>3 DEF Types
<1>6. JobShape'
  BY <1>1, IdleShape
<1>7. LogShape'
  BY SMT, <1>1, <1>2, <1>3, <1>4 DEF LogShape, InFlight, walFile, NoGroup
<1>8. Durable'
  <2>1. Lasts(file)'
    BY SMT, <1>0, <1>2, <1>3 DEF Durable, Lasts, Agree, walFile
  <2>2. shadow # None => Lasts(shadow)'
    <3> SUFFICES ASSUME shadow # None PROVE Lasts(shadow)'
      OBVIOUS
    <3>1. \A i \in 1 .. Len(shadow) : shadow[i] \in Commits => i <= Len(file) /\ shadow[i] = file[i]
      <4> SUFFICES ASSUME NEW i \in 1 .. Len(shadow), shadow[i] \in Commits
                   PROVE  i <= Len(file) /\ shadow[i] = file[i]
        OBVIOUS
      <4>1. i <= Len(file) /\ shadow[i] = hist[i]
        BY <1>0 DEF Durable, Lasts, Agree
      <4>2. shadow \in Seq(Records)
        BY <1>0 DEF Types, FileTypes
      <4>3. i \in 1 .. Len(file)
        BY SMT, <1>2, <4>1, <4>2
      <4> QED BY <1>0, <4>1, <4>3 DEF Durable, Lasts, Agree
    <3> QED BY <1>0, <1>3, <3>1 DEF Durable, Lasts, Agree, walFile
  <2> QED BY SMT, <1>0, <1>1, <1>2, <1>3, <2>1, <2>2 DEF Durable, Lasts, walFile
<1>9. Fenced'
  BY SMT, <1>0, <1>1, <1>3, <1>4
     DEF Fenced, FenceCoversPromise, FenceWithinLog, fences, environment, Unknown, NoFence
<1>10. Repairing'
  BY <1>0, <1>1 DEF Repairing
<1> QED BY <1>5, <1>6, <1>7, <1>8, <1>9, <1>10 DEF WalInv

\* Replay accepts the whole log
LEMMA OpenInv ==
  ASSUME WalInv, Open
  PROVE  WalInv'
<1>1. /\ mode = "closed" /\ pending = None /\ Opened(Len(file)) /\ policy' \in Policies
      /\ UNCHANGED <<walFile, fences, pending, stablePending, promised, environment>>
  BY DEF Open, audits
<1>2. file \in Seq(Records)
  BY DEF WalInv, Types, FileTypes
<1>3. CASE head = "missing" /\ ~checkpointed
  <2>1. file = <<>>
    BY <1>3 DEF WalInv, Durable
  <2> QED BY SMT, <1>1, <1>3, <2>1, OpenedInv
<1>4. CASE head = "whole" /\ IsWhole(file) /\ Retains(Len(file))
  <2>1. (\A i \in 1 .. Len(file) : file[i] \in Commits) /\ fence <= Len(file)
    BY <1>2, <1>4, WholeFacts DEF Retains, WalInv, Types, SideTypes
  <2> QED BY <1>1, <2>1, OpenedInv
<1> QED BY <1>3, <1>4 DEF Open, Replayable

\* finalize_repair ends and the open goes on over the repaired file
LEMMA RepairCompleteInv ==
  ASSUME WalInv, RepairComplete
  PROVE  WalInv'
<1>1. /\ mode = "opening" /\ pending = None /\ Keeps(Len(file)) /\ policy \in Policies
  BY DEF RepairComplete, WalInv, Repairing, JobShape, Types, MemoryTypes
<1> QED BY <1>1, OpenedInv DEF RepairComplete, Keeps

\* An open starts a repair: nothing but the job changes
LEMMA RepairStarts ==
  ASSUME WalInv, mode = "closed", mode' = "opening", policy' \in Policies, head = "whole",
         NEW s \in {"prepare", "fence", "truncate"}, job' = Job("repair", s, None, FALSE),
         s = "prepare" => CleanKeeps,
         s # "prepare" => pending # None /\ Keeps(pending.keep) /\ Len(file) = pending.keep,
         s = "fence" => fence # NoFence,
         UNCHANGED <<poisoned, next, known, nameKnown, handle, cache, group>>,
         UNCHANGED <<walFile, fences, audits, history, environment>>
  PROVE  WalInv'
<1>0. Types /\ JobShape /\ LogShape /\ Durable /\ Fenced /\ Repairing
  BY DEF WalInv
<1>1. job' \in Jobs /\ job'.op = "repair" /\ job'.step = s
  BY DEF Job, Jobs, Ops, Steps
<1>2. Types'
  <2>1. MemoryTypes'
    BY <1>0 DEF Types, MemoryTypes
  <2>2. FileTypes'
    BY <1>0 DEF Types, FileTypes, walFile, history
  <2>3. SideTypes' /\ WorldTypes'
    BY <1>0 DEF Types, SideTypes, WorldTypes, fences, audits, environment
  <2> QED BY <1>1, <2>1, <2>2, <2>3 DEF Types
<1>3. JobShape'
  <2>1. job' # Idle
    BY <1>1, IdleFields
  <2> QED BY <1>1, <2>1 DEF JobShape
<1>4. LogShape'
  BY DEF LogShape
<1>5. Durable'
  BY <1>0, DurableFrame DEF audits
<1>6. Fenced'
  BY <1>0, FencedClosed DEF history
<1>7. Repairing'
  <2>1. s = "prepare" => CleanKeeps'
    BY DEF CleanKeeps, Keeps, CutAfter, walFile, fences, history, Clean
  <2>2. s # "prepare" => Keeps(pending.keep)'
    BY DEF Keeps, CutAfter, walFile, fences, history, audits
  <2> QED BY <1>0, <1>1, <2>1, <2>2 DEF Repairing, FenceSteps, audits, walFile, fences
<1> QED BY <1>2, <1>3, <1>4, <1>5, <1>6, <1>7 DEF WalInv

\* What a repair would discard was never reported durable, or its length has rotted
LEMMA RepairableKeeps ==
  ASSUME WalInv, RepairableTail
  PROVE  CleanKeeps
<1>1. file \in Seq(Records) /\ promised \in Nat /\ fence \in Int
  BY DEF WalInv, Types, FileTypes, SideTypes
<1>2. PICK n \in 0 .. Len(file) : Repairable(n)
  BY DEF RepairableTail
<1>3. /\ Clean(file, n) /\ n >= fence /\ (file[n + 1] \in {Torn, Cut} \/ fence # NoFence)
  BY <1>2 DEF Repairable, Retains
<1>4. /\ promised <= Len(file) /\ (\A i \in 1 .. promised : file[i] # Torn)
      /\ fence # NoFence => promised <= fence
  BY DEF WalInv, Durable, Lasts, Fenced, FenceCoversPromise
<1>5. promised <= n \/ CutAfter(n)
  <2>1. CASE fence # NoFence
    BY SMT, <1>1, <1>2, <1>3, <1>4, <2>1
  <2>2. CASE file[n + 1] = Torn
    BY SMT, <1>1, <1>2, <1>3, <1>4, <2>2
  <2>3. CASE fence = NoFence /\ file[n + 1] = Cut
    BY <1>3, <2>3 DEF CutAfter, Clean
  <2> QED BY <1>3, <2>1, <2>2, <2>3
<1>6. Keeps(n)
  BY SMT, <1>1, <1>2, <1>3, <1>5 DEF Keeps, Clean
<1> QED BY <1>1, <1>2, <1>3, <1>6, CleanUnique DEF CleanKeeps

\* automatic_wal_tail_repair_locked starts a repair
LEMMA OpenRepairingInv ==
  ASSUME WalInv, OpenRepairing
  PROVE  WalInv'
<1>1. CleanKeeps /\ head = "whole"
  BY RepairableKeeps DEF OpenRepairing, RepairableTail, Repairable
<1> QED BY <1>1, RepairStarts DEF OpenRepairing

\* resume_automatic_wal_tail_repair_locked resumes one whose truncation was done
LEMMA OpenResumingInv ==
  ASSUME WalInv, OpenResuming
  PROVE  WalInv'
<1>1. /\ file \in Seq(Records) /\ fence \in Int /\ pending # None /\ pending \in Audits
      /\ head = "whole" /\ IsWhole(file) /\ fence <= Len(file)
      /\ file = SubSeq(pending.orig, 1, pending.keep) /\ pending.keep <= Len(pending.orig)
      /\ promised <= Len(file)
  BY DEF WalInv, Types, FileTypes, SideTypes, OpenResuming, Resumable, Truncated, Retains,
     Repairing, Durable, Lasts
<1>2. Len(file) = pending.keep
  <2>1. pending.orig \in Seq(Records) /\ pending.keep \in 0 .. Len(pending.orig)
    BY SMT, <1>1 DEF Audits
  <2> QED BY <1>1, <2>1, Prefix
<1>3. \A i \in 1 .. Len(file) : file[i] \in Commits
  BY <1>1, WholeFacts
<1>4. Keeps(pending.keep)
  BY SMT, <1>1, <1>2, <1>3 DEF Keeps
<1>5. /\ RepairFence("truncate") \in {"fence", "truncate"}
      /\ RepairFence("truncate") = "fence" => fence # NoFence
  BY DEF RepairFence
<1> QED BY <1>1, <1>2, <1>4, <1>5, RepairStarts DEF OpenResuming

\* A repair that is under way takes its next step: the job's other fields stay
LEMMA RepairSteps ==
  ASSUME WalInv, job.op = "repair", NEW s \in Steps \ {"idle", "write"}, Step(s),
         UNCHANGED <<mode, policy, poisoned, next, known, nameKnown, handle, cache, group>>,
         UNCHANGED environment
  PROVE  /\ mode = "opening" /\ mode' = "opening" /\ job' \in Jobs
         /\ job'.op = "repair" /\ job'.step = s
         /\ MemoryTypes' /\ WorldTypes' /\ JobShape' /\ LogShape'
<1>0. Types /\ JobShape /\ mode = "opening" /\ job \in Jobs
  BY DEF WalInv, Types, JobShape
<1>1. job' \in Jobs /\ job'.op = "repair" /\ job'.step = s
  BY <1>0, StepFields
<1>2. JobShape'
  BY <1>0, StepShape
<1>3. MemoryTypes' /\ WorldTypes'
  BY <1>0 DEF Types, MemoryTypes, WorldTypes, environment
<1>4. LogShape'
  BY <1>0 DEF LogShape
<1> QED BY <1>0, <1>1, <1>2, <1>3, <1>4

\* prepare_repair writes the audit of what the repair will discard
LEMMA PrepareRepairInv ==
  ASSUME WalInv, PrepareRepair
  PROVE  WalInv'
<1>0. /\ Types /\ Durable /\ Fenced /\ Repairing /\ job.step = "prepare" /\ job.op = "repair"
      /\ file \in Seq(Records)
  BY DEF WalInv, PrepareRepair, JobShape, Types, FileTypes
<1>1. UNCHANGED <<walFile, fences, stablePending, history, environment>>
  BY DEF PrepareRepair
<1> PICK n \in 0 .. Len(file) : Clean(file, n) /\ pending' = Plan(n)
  BY DEF PrepareRepair
<1>2. /\ mode = "opening" /\ mode' = "opening" /\ job' \in Jobs /\ job'.step = "prepare_sync"
      /\ MemoryTypes' /\ WorldTypes' /\ JobShape' /\ LogShape'
  BY <1>0, RepairSteps DEF PrepareRepair, Steps
<1>3. /\ pending' \in Audits /\ pending' # None
      /\ pending'.keep = n /\ pending'.orig = file
  <2>1. n \in Nat
    BY SMT, <1>0
  <2> QED BY SMT, <1>0, <1>1, <2>1, WalAssumption DEF Plan, Audits
<1>4. Keeps(n) /\ n <= Len(file)
  BY <1>0, <1>2 DEF Repairing, CleanKeeps, Keeps
<1>5. Types'
  BY <1>0, <1>1, <1>2, <1>3 DEF Types, FileTypes, SideTypes, walFile, fences, history
<1>6. Durable'
  <2>1. Lasts(file)' /\ (shadow # None => Lasts(shadow)')
    BY <1>0, <1>1 DEF Durable, Lasts, Agree, walFile, history
  <2> QED BY SMT, <1>0, <1>1, <1>3, <2>1, RepairSteps DEF Durable, PrepareRepair, walFile, history
<1>7. Fenced'
  BY <1>0, <1>1, <1>2, FencedClosed DEF history
<1>8. Repairing'
  <2>1. Keeps(pending.keep)'
    BY <1>1, <1>3, <1>4 DEF Keeps, CutAfter, walFile, fences, history
  <2> QED BY <1>0, <1>1, <1>2, <1>3, <1>4, <2>1 DEF Repairing, FenceSteps, walFile
<1> QED BY <1>2, <1>5, <1>6, <1>7, <1>8 DEF WalInv

\* The audit is durable before anything is discarded
LEMMA RepairPreparedInv ==
  ASSUME WalInv, RepairPrepared
  PROVE  WalInv'
<1>0. /\ Types /\ Durable /\ Fenced /\ Repairing /\ job.step = "prepare_sync" /\ job.op = "repair"
      /\ RepairFence("truncate") \in {"fence", "truncate"}
  BY DEF WalInv, RepairPrepared, JobShape, RepairFence
<1>1. /\ stablePending' = pending /\ UNCHANGED <<walFile, fences, pending, history, environment>>
      /\ UNCHANGED known
  BY DEF RepairPrepared
<1>2. /\ mode = "opening" /\ mode' = "opening" /\ job' \in Jobs
      /\ job'.step \in {"fence", "truncate"}
      /\ MemoryTypes' /\ WorldTypes' /\ JobShape' /\ LogShape'
  BY <1>0, RepairSteps DEF RepairPrepared, Steps
<1>7. job'.step = "fence" => fence # NoFence
  BY <1>0, StepFields DEF RepairPrepared, RepairFence, Steps, Types
<1>3. Types'
  BY <1>0, <1>1, <1>2 DEF Types, FileTypes, SideTypes, walFile, fences, history
<1>4. Durable'
  BY <1>0, <1>1, <1>2, DurableFrame
<1>5. Fenced'
  BY <1>0, <1>1, <1>2, FencedClosed DEF history
<1>6. Repairing'
  <2>1. pending # None /\ Keeps(pending.keep)
    BY <1>0, <1>2 DEF Repairing
  <2>2. Keeps(pending.keep)'
    BY <1>1, <2>1 DEF Keeps, CutAfter, walFile, fences, history
  <2> QED BY <1>0, <1>1, <1>2, <1>7, <2>1, <2>2 DEF Repairing, FenceSteps, walFile, fences
<1> QED BY <1>2, <1>3, <1>4, <1>5, <1>6 DEF WalInv

\* apply_wal_tail_repair_locked truncates the file to the audited prefix
LEMMA TruncateInv ==
  ASSUME WalInv, Truncate
  PROVE  WalInv'
<1>0. Types /\ Durable /\ Fenced /\ Repairing /\ job.op = "repair" /\ job.step = "truncate"
  BY DEF WalInv, Truncate
<1> DEFINE n == pending.keep
<1>1. /\ file' = SubSeq(file, 1, n) /\ shadow' = (IF file' = file THEN shadow ELSE file)
      /\ stable' = (IF stable < n THEN stable ELSE n)
      /\ promised' = (IF promised < n THEN promised ELSE n)
      /\ UNCHANGED <<head, named, fences, audits, hist, environment>>
  BY DEF Truncate, AtMost
<1>2. /\ mode = "opening" /\ mode' = "opening" /\ job' \in Jobs /\ job'.step = "sync"
      /\ MemoryTypes' /\ WorldTypes' /\ JobShape' /\ LogShape'
  BY <1>0, RepairSteps DEF Truncate, Steps
<1>3. /\ pending # None /\ pending \in Audits /\ Keeps(n) /\ head = "whole"
      /\ file \in Seq(Records) /\ stable \in Int /\ promised \in Nat /\ fence \in Int
  BY <1>0, <1>2 DEF Repairing, Types, FileTypes, SideTypes
<1>4. /\ n \in Nat /\ n <= Len(file) /\ fence <= n
      /\ \A i \in 1 .. n : file[i] \in Commits
  BY <1>3 DEF Audits, Keeps
<1> HIDE DEF n
<1>10. promised' \in Nat /\ promised' <= promised /\ promised' <= n
  BY SMT, <1>1, <1>3, <1>4
<1>5. /\ file' \in Seq(Records) /\ Len(file') = n
      /\ \A i \in 1 .. n : file'[i] = file[i]
  BY SMT, <1>1, <1>3, <1>4, Prefix
<1>6. Types'
  BY SMT, <1>0, <1>1, <1>2, <1>3, <1>4, <1>5, <1>10 DEF Types, FileTypes, SideTypes, fences, audits
<1>7. Durable'
  <2>1. stable' <= stable /\ stable' <= n /\ stable' \in Int
    BY SMT, <1>1, <1>3, <1>4
  <2>2. Lasts(file)'
    <3>1. \A i \in 1 .. promised' : file'[i] # Torn
      BY SMT, <1>4, <1>5, <1>10, WalAssumption
    <3>2. Agree(file)'
      BY SMT, <1>0, <1>1, <1>3, <1>4, <1>5 DEF Durable, Lasts, Agree
    <3> QED BY <1>5, <1>10, <2>1, <3>1, <3>2 DEF Lasts
  <2>3. shadow' # None => Lasts(shadow)'
    <3>1. CASE file' = file
      BY SMT, <1>0, <1>1, <1>3, <1>10, <2>1, <3>1 DEF Durable, Lasts, Agree, Types, FileTypes
    <3>2. CASE file' # file
      BY SMT, <1>0, <1>1, <1>3, <1>10, <2>1, <3>2 DEF Durable, Lasts, Agree
    <3> QED BY <3>1, <3>2
  <2>4. promised' > 0 => promised' <= stable' /\ named
    BY SMT, <1>0, <1>1, <1>3, <1>4, <1>10 DEF Durable
  <2>5. promised' <= Len(hist)
    BY SMT, <1>0, <1>3, <1>10 DEF Durable, Types, FileTypes
  <2> QED BY <1>0, <1>1, <1>2, <1>3, <2>2, <2>3, <2>4, <2>5 DEF Durable, audits
<1>8. Fenced'
  <2>1. FenceCoversPromise'
    BY SMT, <1>0, <1>1, <1>3, <1>10 DEF Fenced, FenceCoversPromise, fences, Types, SideTypes
  <2> QED BY <1>0, <1>1, <1>2, <2>1 DEF Fenced, FenceWithinLog, fences
<1>9. Repairing'
  <2>1. Keeps(Len(file))'
    BY SMT, <1>1, <1>3, <1>4, <1>5, <1>10 DEF Keeps, fences
  <2> QED BY <1>0, <1>1, <1>2, <1>3, <2>1 DEF Repairing, FenceSteps, audits
<1> QED BY <1>2, <1>6, <1>7, <1>8, <1>9 DEF WalInv

\* The truncated file is synchronized
LEMMA SyncRepairInv ==
  ASSUME WalInv, SyncRepair
  PROVE  WalInv'
<1>0. Types /\ Durable /\ Fenced /\ Repairing /\ job.op = "repair" /\ job.step = "sync"
  BY DEF WalInv, SyncRepair
<1>1. /\ stable' = Len(file) /\ shadow' = None
      /\ UNCHANGED <<head, file, named, fences, audits, history, environment, known>>
  BY DEF SyncRepair
<1>2. /\ mode = "opening" /\ mode' = "opening" /\ job' \in Jobs /\ job'.step = "name"
      /\ MemoryTypes' /\ WorldTypes' /\ JobShape' /\ LogShape'
  BY <1>0, RepairSteps DEF SyncRepair, Steps
<1>3. file \in Seq(Records) /\ promised \in Nat /\ head = "whole"
  BY <1>0, <1>2 DEF Types, FileTypes, Repairing
<1>4. Types'
  BY SMT, <1>0, <1>1, <1>2, <1>3 DEF Types, FileTypes, SideTypes, fences, audits, history
<1>5. Durable'
  BY SMT, <1>0, <1>1, <1>2, <1>3 DEF Durable, Lasts, Agree, history
<1>6. Fenced'
  BY <1>0, <1>1, <1>2, FencedClosed DEF history
<1>7. Repairing'
  <2>1. Keeps(Len(file))'
    BY <1>0, <1>1, <1>2 DEF Repairing, Keeps, CutAfter, fences, history
  <2> QED BY <1>0, <1>1, <1>2, <1>3, <2>1 DEF Repairing, FenceSteps, audits
<1> QED BY <1>2, <1>4, <1>5, <1>6, <1>7 DEF WalInv

\* The directory of the truncated file is synchronized
LEMMA SyncRepairNameInv ==
  ASSUME WalInv, SyncRepairName
  PROVE  WalInv'
<1>0. Types /\ Durable /\ Fenced /\ Repairing /\ job.op = "repair" /\ job.step = "name"
  BY DEF WalInv, SyncRepairName
<1>1. /\ stableFence' = fence /\ named' = (head # "missing")
      /\ UNCHANGED <<head, file, stable, shadow, fence, audits, history, environment, known>>
  BY DEF SyncRepairName, SyncDirectory
<1>2. /\ mode = "opening" /\ mode' = "opening" /\ job' \in Jobs /\ job'.step = "retire"
      /\ MemoryTypes' /\ WorldTypes' /\ JobShape' /\ LogShape'
  BY <1>0, RepairSteps DEF SyncRepairName, Steps
<1>3. Types'
  BY <1>0, <1>1, <1>2 DEF Types, FileTypes, SideTypes, audits, history
<1>4. Durable'
  BY <1>0, <1>1, <1>2 DEF Durable, Lasts, Agree, audits, history
<1>5. Fenced'
  BY <1>0, <1>1, <1>2 DEF Fenced, FenceCoversPromise, FenceWithinLog, history
<1>6. Repairing'
  <2>1. Keeps(Len(file))'
    BY <1>0, <1>1, <1>2 DEF Repairing, Keeps, CutAfter, history
  <2> QED BY <1>0, <1>1, <1>2, <2>1 DEF Repairing, FenceSteps, audits
<1> QED BY <1>2, <1>3, <1>4, <1>5, <1>6 DEF WalInv

\* finalize_repair removes the pending audit
LEMMA RetireAuditInv ==
  ASSUME WalInv, RetireAudit
  PROVE  WalInv'
<1>0. Types /\ Durable /\ Fenced /\ Repairing /\ job.op = "repair" /\ job.step = "retire"
  BY DEF WalInv, RetireAudit, JobShape
<1>1. /\ pending' = None
      /\ UNCHANGED <<walFile, fences, stablePending, history, environment, known>>
  BY DEF RetireAudit
<1>2. /\ mode = "opening" /\ mode' = "opening" /\ job' \in Jobs /\ job'.step = "retire_sync"
      /\ MemoryTypes' /\ WorldTypes' /\ JobShape' /\ LogShape'
  BY <1>0, RepairSteps DEF RetireAudit, Steps
<1>3. Types'
  BY <1>0, <1>1, <1>2 DEF Types, FileTypes, SideTypes, walFile, fences, history
<1>4. shadow = None /\ Keeps(Len(file)) /\ head = "whole"
  BY <1>0, <1>2 DEF Repairing
<1>5. Durable'
  BY <1>0, <1>1, <1>2, <1>4 DEF Durable, Lasts, Agree, walFile, history
<1>6. Fenced'
  BY <1>0, <1>1, <1>2, FencedClosed DEF history
<1>7. Repairing'
  <2>1. Keeps(Len(file))'
    BY <1>1, <1>4 DEF Keeps, CutAfter, walFile, fences, history
  <2> QED BY <1>0, <1>1, <1>2, <1>4, <2>1 DEF Repairing, FenceSteps, walFile
<1> QED BY <1>2, <1>3, <1>5, <1>6, <1>7 DEF WalInv

-----------------------------------------------------------------------------
(* Crashes, power losses and damage *)

\* The process is gone: what remains to show is what the directory holds
LEMMA ClosedInv ==
  ASSUME WalInv, mode' = "closed", job' = Idle, MemoryTypes', FileTypes', SideTypes', WorldTypes',
         Durable', Fenced',
         pending' \in {pending, stablePending}, stablePending' \in {pending, stablePending}
  PROVE  WalInv'
<1>1. Types' /\ JobShape' /\ LogShape'
  BY IdleFields, IdleShape DEF Types, LogShape
<1>2. Repairing'
  BY DEF WalInv, Repairing
<1> QED BY <1>1, <1>2 DEF WalInv

\* A process that ended leaves a closed store of the right type
LEMMA StoppedTypes ==
  ASSUME WalInv, Stopped
  PROVE  MemoryTypes' /\ mode' = "closed" /\ job' = Idle /\ UNCHANGED <<known, hist, promised>>
BY DEF WalInv, Types, MemoryTypes, Stopped

\* The process ends, possibly in the middle of a write
LEMMA CrashStepInv ==
  ASSUME WalInv, Crash
  PROVE  WalInv'
<1>0. /\ Types /\ Durable /\ Fenced
      /\ MemoryTypes' /\ mode' = "closed" /\ job' = Idle /\ UNCHANGED <<known, hist, promised>>
  BY StoppedTypes DEF WalInv, Crash
<1>1. /\ crashes' = crashes + 1
      /\ UNCHANGED <<stable, shadow, named, fences, audits, checkpointed, faults, losses, damage>>
  BY DEF Crash
<1>2. /\ file \in Seq(Records) /\ stable \in Int /\ promised \in Nat
      /\ Torn \notin Commits
  BY <1>0, WalAssumption DEF Types, FileTypes
<1>3. /\ file' \in Seq(Records) /\ Len(file') \in {Len(file), Len(file) + 1}
      /\ \A i \in 1 .. Len(file) : file'[i] = file[i]
      /\ Len(file') = Len(file) + 1 => file'[Len(file) + 1] = Torn
      /\ head' \in {"missing", "empty", "torn", "whole"}
      /\ head # "missing" => head' # "missing"
      /\ head' # "whole" => file' = file /\ head # "whole"
  <2>1. CASE PartialWrite
    BY <1>0, <2>1, PartialFacts DEF Types
  <2>2. CASE UNCHANGED <<head, file>>
    BY SMT, <1>0, <1>2, <2>2 DEF Types, FileTypes
  <2> QED BY <2>1, <2>2 DEF Crash
<1>4. FileTypes' /\ SideTypes' /\ WorldTypes'
  BY SMT, <1>0, <1>1, <1>3 DEF Types, FileTypes, SideTypes, WorldTypes, fences, audits
<1>5. Durable'
  <2>1. Lasts(file)'
    <3>0. Agree(file) /\ stable <= Len(file) /\ promised <= Len(file)
      BY <1>0 DEF Durable, Lasts
    <3>1. Agree(file)'
      <4> SUFFICES ASSUME NEW i \in 1 .. Len(file'), file'[i] \in Commits
                   PROVE  i <= Len(hist) /\ file'[i] = hist[i]
        BY <1>0 DEF Agree
      <4>1. i \in 1 .. Len(file)
        BY SMT, <1>2, <1>3
      <4> QED BY <1>3, <3>0, <4>1 DEF Agree
    <3>2. \A i \in 1 .. promised : file'[i] # Torn
      BY SMT, <1>0, <1>2, <1>3, <3>0 DEF Durable, Lasts
    <3> QED BY SMT, <1>0, <1>1, <1>2, <1>3, <3>0, <3>1, <3>2 DEF Lasts
  <2>2. shadow # None => Lasts(shadow)'
    BY <1>0, <1>1 DEF Durable, Lasts, Agree
  <2>3. shadow # None /\ pending = None =>
          \A i \in 1 .. Len(shadow) : shadow[i] \in Commits => i <= Len(file')
    <3>1. shadow # None /\ pending = None =>
          \A i \in 1 .. Len(shadow) : shadow[i] \in Commits => i <= Len(file)
      BY <1>0 DEF Durable
    <3> QED BY SMT, <1>2, <1>3, <3>1
  <2> QED BY <1>0, <1>1, <1>3, <2>1, <2>2, <2>3 DEF Durable, audits
<1>6. Fenced'
  BY <1>0, <1>1, FencedClosed
<1> QED BY <1>0, <1>1, <1>4, <1>5, <1>6, ClosedInv DEF audits

\* What a power loss may leave of a file keeps its stable records
LEMMA RemainsFacts ==
  ASSUME NEW f \in Seq(Records), stable \in Int, stable <= Len(f), NEW g \in Remains(f)
  PROVE  \E n \in 0 .. Len(f) :
           /\ stable <= n /\ g \in Seq(Records) /\ Len(g) \in {n, n + 1}
           /\ \A i \in 1 .. n : g[i] = f[i]
           /\ Len(g) = n + 1 => g[n + 1] \in {Torn, Bad}
<1>1. PICK n \in (IF stable < 0 THEN 0 ELSE stable) .. Len(f) :
        \/ g = SubSeq(f, 1, n)
        \/ g = Append(SubSeq(f, 1, n), Torn) \/ g = Append(SubSeq(f, 1, n), Bad)
  BY DEF Remains
<1>2. n \in 0 .. Len(f) /\ stable <= n
  BY SMT
<1> DEFINE k == SubSeq(f, 1, n)
<1>3. k \in Seq(Records) /\ Len(k) = n /\ \A i \in 1 .. n : k[i] = f[i]
  BY <1>2, Prefix
<1>4. Torn \in Records /\ Bad \in Records
  BY DEF Records
<1>5. g = k \/ \E r \in {Torn, Bad} : g = Append(k, r)
  BY <1>1
<1> HIDE DEF k
<1>6. CASE g = k
  BY SMT, <1>2, <1>3, <1>6
<1>7. CASE g # k
  <2>1. PICK r \in {Torn, Bad} : g = Append(k, r)
    BY <1>5, <1>7
  <2>2. /\ g \in Seq(Records) /\ Len(g) = n + 1
        /\ \A i \in 1 .. n : g[i] = k[i]
        /\ g[n + 1] = r
    BY SMT, <1>3, <1>4, <2>1, Appended
  <2> QED BY <1>2, <1>3, <2>2
<1> QED BY <1>6, <1>7

\* Whatever a power loss leaves of a file that lasts holds what was promised
LEMMA LastsRemains ==
  ASSUME NEW f \in Seq(Records), Lasts(f), FileTypes, promised > 0 => promised <= stable,
         NEW g \in Remains(f)
  PROVE  /\ g \in Seq(Records) /\ Agree(g) /\ promised <= Len(g)
         /\ \A i \in 1 .. promised : g[i] # Torn
<1>1. stable \in Int /\ promised \in Nat /\ stable <= Len(f)
  BY DEF FileTypes, Lasts
<1>2. PICK n \in 0 .. Len(f) :
           /\ stable <= n /\ g \in Seq(Records) /\ Len(g) \in {n, n + 1}
           /\ \A i \in 1 .. n : g[i] = f[i]
           /\ Len(g) = n + 1 => g[n + 1] \in {Torn, Bad}
  BY <1>1, RemainsFacts
<1>3. promised <= n
  BY SMT, <1>1, <1>2
<1>4. Agree(g)
  <2> SUFFICES ASSUME NEW i \in 1 .. Len(g), g[i] \in Commits
               PROVE  i <= Len(hist) /\ g[i] = hist[i]
    BY DEF Agree
  <2>1. i \in 1 .. n
    BY SMT, <1>2, WalAssumption
  <2>2. i \in 1 .. Len(f) /\ g[i] = f[i]
    BY SMT, <1>2, <2>1
  <2> QED BY <2>2 DEF Lasts, Agree
<1>5. \A i \in 1 .. promised : g[i] # Torn
  BY SMT, <1>1, <1>2, <1>3 DEF Lasts
<1> QED BY SMT, <1>1, <1>2, <1>3, <1>4, <1>5

\* The machine loses power and the directory shows what was stable, or more
LEMMA PowerLossInv ==
  ASSUME WalInv, PowerLoss
  PROVE  WalInv'
<1>0. /\ Types /\ Durable /\ Fenced
      /\ MemoryTypes' /\ mode' = "closed" /\ job' = Idle /\ UNCHANGED <<known, hist, promised>>
  BY StoppedTypes DEF WalInv, PowerLoss
<1>1. /\ losses' = losses + 1 /\ UNCHANGED <<checkpointed, faults, crashes, damage>>
      /\ stable' = (IF head' = "whole" THEN Len(file') ELSE -1)
      /\ shadow' = None /\ named' = (head' # "missing")
      /\ fence' \in {fence, stableFence} /\ stableFence' = fence'
      /\ pending' \in {pending, stablePending} /\ stablePending' = pending'
  BY DEF PowerLoss
<1>2. /\ file \in Seq(Records) /\ promised \in Nat /\ FileTypes
      /\ promised > 0 => promised <= stable /\ named
  BY <1>0 DEF Types, FileTypes, Durable
<1>3. /\ head' \in {"missing", "empty", "torn", "whole"} /\ file' \in Seq(Records)
      /\ \A i \in 1 .. Len(file') : file'[i] \in Commits => i <= Len(hist) /\ file'[i] = hist[i]
      /\ promised <= Len(file') /\ (\A i \in 1 .. promised : file'[i] # Torn)
      /\ head' # "whole" => file' = <<>> /\ promised = 0
  <2>1. CASE ~named /\ head' = "missing" /\ file' = <<>>
    BY SMT, <1>2, <2>1
  <2>2. CASE stable < 0 /\ head' \in {"empty", "torn"} /\ file' = <<>>
    BY SMT, <1>2, <2>2 DEF FileTypes
  <2>3. CASE head' = "whole" /\ file' \in Remains(file)
    BY <1>0, <1>2, <2>3, LastsRemains DEF Durable, Agree
  <2>4. CASE head' = "whole" /\ shadow # None /\ file' \in Remains(shadow)
    <3>1. shadow \in Seq(Records) /\ Lasts(shadow)
      BY <1>0, <1>2, <2>4 DEF FileTypes, Durable
    <3> QED BY <1>2, <2>4, <3>1, LastsRemains DEF Agree
  <2> QED BY <2>1, <2>2, <2>3, <2>4 DEF PowerLoss
<1>4. FileTypes' /\ SideTypes' /\ WorldTypes'
  BY SMT, <1>0, <1>1, <1>3 DEF Types, FileTypes, SideTypes, WorldTypes
<1>5. Durable'
  <2>1. Lasts(file)'
    BY SMT, <1>0, <1>1, <1>2, <1>3 DEF Lasts, Agree
  <2>2. promised' > 0 => promised' <= stable' /\ named'
    <3>1. promised' > 0 => head' = "whole"
      BY SMT, <1>0, <1>2, <1>3
    <3>2. head' = "whole" => promised' <= stable'
      BY <1>0, <1>1, <1>3
    <3>3. head' = "whole" => named'
      BY <1>1
    <3> QED BY <3>1, <3>2, <3>3
  <2>3. promised' <= Len(hist') /\ mode' # "open"
    BY <1>0 DEF Durable
  <2> QED BY <1>1, <1>3, <2>1, <2>2, <2>3 DEF Durable
<1>6. Fenced'
  BY <1>0, <1>1 DEF Fenced, FenceCoversPromise, FenceWithinLog
<1> QED BY <1>0, <1>1, <1>4, <1>5, <1>6, ClosedInv

\* A record rots at rest: no promise is about the soundness of such a file
LEMMA DamageInv ==
  ASSUME WalInv, Damage
  PROVE  WalInv'
<1>0. /\ Types /\ JobShape /\ LogShape /\ Durable /\ Fenced /\ Repairing /\ mode = "closed"
      /\ job = Idle
  BY DEF WalInv, Damage, JobShape
<1>1. /\ damage' = damage + 1
      /\ UNCHANGED <<mode, policy, poisoned, next, known, nameKnown, handle, cache, group, job>>
      /\ UNCHANGED <<head, stable, shadow, named, fences, audits, history>>
      /\ UNCHANGED <<checkpointed, faults, crashes, losses>>
  BY DEF Damage, memory
<1>2. PICK k \in DOMAIN file, r \in {Bad, Cut} :
        file[k] \in Commits /\ file' = [file EXCEPT ![k] = r]
  BY DEF Damage
<1>3. /\ file \in Seq(Records) /\ r \in Records /\ r \notin Commits /\ r # Torn
  BY <1>0, <1>2, WalAssumption DEF Types, FileTypes, Records
<1>4. /\ file' \in Seq(Records) /\ Len(file') = Len(file)
      /\ \A i \in 1 .. Len(file) : file'[i] = IF i = k THEN r ELSE file[i]
  BY SMT, <1>2, <1>3, Replaced
<1>5. MemoryTypes' /\ FileTypes' /\ SideTypes' /\ WorldTypes'
  BY SMT, <1>0, <1>1, <1>4
     DEF Types, MemoryTypes, FileTypes, SideTypes, WorldTypes, fences, audits, history
<1>6. Durable'
  <2>1. Lasts(file)'
    BY SMT, <1>0, <1>1, <1>3, <1>4 DEF Durable, Lasts, Agree, history, Types, FileTypes
  <2>2. shadow # None => Lasts(shadow)'
    BY <1>0, <1>1 DEF Durable, Lasts, Agree, history
  <2>3. head # "whole" => file' = <<>>
    BY SMT, <1>0, <1>2 DEF Durable
  <2> QED BY <1>0, <1>1, <1>4, <2>1, <2>2, <2>3 DEF Durable, history, audits
<1>7. Fenced'
  BY <1>0, <1>1, FencedClosed DEF history
<1> QED BY <1>0, <1>1, <1>5, <1>6, <1>7, ClosedInv DEF audits

-----------------------------------------------------------------------------
(* The invariant *)

\* The directory before the first open, fresh or prepared by a checkpoint
LEMMA WalInit == Init => WalInv
<1> SUFFICES ASSUME Init PROVE WalInv
  OBVIOUS
<1>1. job \in Jobs /\ job.op = "none" /\ job.step = "idle"
  BY IdleFields DEF Init
<1>2. /\ checkpointed \in BOOLEAN /\ mode = "open" /\ policy \in Policies /\ poisoned = FALSE
      /\ next = 0 /\ known = 0 /\ nameKnown = checkpointed /\ handle = FALSE
      /\ cache = Unknown /\ group = NoGroup /\ job = Idle
  BY WalAssumption DEF Init
<1>3. /\ head = (IF checkpointed THEN "whole" ELSE "missing")
      /\ file = <<>> /\ shadow = None /\ stable = (IF checkpointed THEN 0 ELSE -1)
      /\ named = checkpointed /\ hist = <<>> /\ promised = 0
      /\ fence = NoFence /\ stableFence = NoFence
      /\ pending = None /\ stablePending = None
      /\ faults = 0 /\ crashes = 0 /\ losses = 0 /\ damage = 0
  BY DEF Init
<1>4. Types
  <2>1. MemoryTypes
    <3>1. cache \in Int /\ next \in Nat /\ known \in Nat
      BY SMT, <1>2 DEF Unknown
    <3> QED BY <1>2, <3>1, Zenon DEF MemoryTypes
  <2>2. FileTypes
    <3>1. stable \in Int /\ promised \in Nat
      BY SMT, <1>3
    <3>2. file \in Seq(Records) /\ hist \in Seq(Commits)
      BY SMT, <1>3
    <3>3. named \in BOOLEAN
      BY <1>2, <1>3, Zenon
    <3> QED BY <1>3, <3>1, <3>2, <3>3 DEF FileTypes
  <2>3. SideTypes /\ WorldTypes
    BY SMT, <1>2, <1>3 DEF SideTypes, WorldTypes, NoFence
  <2> QED BY <1>1, <2>1, <2>2, <2>3 DEF Types
<1>5. JobShape
  BY <1>1, <1>2 DEF JobShape, FenceSteps
<1>6. LogShape
  BY SMT, <1>1, <1>2, <1>3 DEF LogShape, InFlight, NoGroup
<1>7. Durable
  BY SMT, <1>2, <1>3 DEF Durable, Lasts, Agree
<1>8. Fenced
  BY SMT, <1>1, <1>2, <1>3 DEF Fenced, FenceCoversPromise, FenceWithinLog, NoFence, Unknown
<1>9. Repairing
  BY <1>2, <1>3 DEF Repairing
<1> QED BY <1>4, <1>5, <1>6, <1>7, <1>8, <1>9 DEF WalInv

\* Every step keeps the inductive invariant
LEMMA WalStep ==
  ASSUME WalInv, [Next]_vars
  PROVE  WalInv'
<1>1. CASE Append_
  BY <1>1, StartAppendInv, Zenon DEF Append_
<1>2. CASE Writing
  BY <1>2, WriteRecordInv, WriteFailsInv, RollBackInv, RollBackUnsyncedInv, Zenon DEF Writing
<1>3. CASE Barriers
  BY <1>3, PublishFenceInv, FenceSyncedInv, SyncDataInv, SyncNameInv, Zenon DEF Barriers
<1>4. CASE Groups
  BY <1>4, BeginSyncGroupInv, FinishSyncGroupInv, SynchronizeSourcePrefixInv, Zenon DEF Groups
<1>5. CASE Failures
  BY <1>5, StepFailsInv, FenceRefusedInv, Zenon DEF Failures
<1>6. CASE Opening
  BY SMT, <1>6, OpenInv, OpenRepairingInv, OpenResumingInv, PrepareRepairInv, RepairPreparedInv,
     TruncateInv, SyncRepairInv, SyncRepairNameInv, RetireAuditInv, RepairCompleteInv, Zenon
     DEF Opening
<1>7. CASE World
  BY <1>7, CrashStepInv, PowerLossInv, DamageInv, Zenon DEF World
<1>8. CASE UNCHANGED vars
  <2> USE <1>8 DEF vars, memory, walFile, fences, audits, history, environment
  <2>1. Types'
    BY SMT DEF WalInv, Types, MemoryTypes, FileTypes, SideTypes, WorldTypes
  <2>2. JobShape' /\ LogShape'
    BY SMT DEF WalInv, JobShape, LogShape, InFlight
  <2>3. Durable'
    BY DEF WalInv, Durable, Lasts, Agree
  <2>4. Fenced'
    BY DEF WalInv, Fenced, FenceCoversPromise, FenceWithinLog, Target
  <2>5. Repairing'
    BY DEF WalInv, Repairing, CleanKeeps, Keeps, CutAfter, Clean
  <2> QED BY <2>1, <2>2, <2>3, <2>4, <2>5 DEF WalInv
<1> QED BY <1>1, <1>2, <1>3, <1>4, <1>5, <1>6, <1>7, <1>8, Zenon DEF Next

\* The inductive invariant holds in every reachable state
LEMMA WalInvariant == Spec => []WalInv
<1>1. WalInv /\ [Next]_vars => WalInv'
  BY WalStep
<1> QED BY <1>1, WalInit, PTL DEF Spec

-----------------------------------------------------------------------------
(* The theorems *)

\* known_durable_commit_epoch never runs ahead of the synchronized records and their
\* directory entry, so synchronize_source_prefix may skip its barrier on its word.
THEOREM KnownDurable == Spec => []KnownIsStable
<1>1. WalInv => KnownIsStable
  BY SMT DEF WalInv, Durable, KnownIsStable, Types, MemoryTypes, FileTypes
<1> QED BY <1>1, WalInvariant, PTL

\* Whatever fence a power loss leaves protects every commit reported durable: what
\* inspect_wal_tail_locked lets a repair discard never reaches them.
THEOREM FenceProtects == Spec => []FenceCoversPromise
<1>1. WalInv => FenceCoversPromise
  BY DEF WalInv, Fenced
<1> QED BY <1>1, WalInvariant, PTL

\* A generation that a checkpoint prepared never holds fewer records than its fence
\* protects while it is open, so its next barrier is not refused.
THEOREM BarrierNotRefused == Spec => []FenceWithinLog
<1>1. WalInv => FenceWithinLog
  BY DEF WalInv, Fenced
<1> QED BY <1>1, WalInvariant, PTL

\* A repair truncates the file only after the audit that describes it is durable: no
\* other step of an open shortens the file.
THEOREM RepairsAudited == Spec => DiscardsAudited
<1> DEFINE D == mode = "opening" /\ losses' = losses /\ Len(file') < Len(file)
                  => stablePending # None /\ stablePending.orig = file
<1>1. ASSUME WalInv, Next PROVE D
  <2> SUFFICES ASSUME mode = "opening", losses' = losses, Len(file') < Len(file)
               PROVE  stablePending # None /\ stablePending.orig = file
    OBVIOUS
  <2>0. job.op = "repair" /\ file' # file /\ Len(file) \in Nat /\ losses \in Nat
    BY SMT, <1>1 DEF WalInv, JobShape, Types, FileTypes, WorldTypes
  <2>1. ~Append_ /\ ~Groups
    BY IdleFields DEF Append_, StartAppend, Groups, BeginSyncGroup, FinishSyncGroup,
       SynchronizeSourcePrefix, Ready
  <2>2. ~Writing
    BY <2>0 DEF Writing, WriteRecord, WriteFails, RollBack, RollBackUnsynced
  <2>3. ~Barriers
    BY <2>0 DEF Barriers, PublishFence, FenceSynced, SyncData, SyncName, walFile
  <2>4. ~Failures
    BY <2>0 DEF Failures, StepFails, FenceRefused, walFile
  <2>5. ~World
    BY SMT, <2>0 DEF World, Crash, PowerLoss, Damage
  <2>6. Opening => Truncate
    BY <2>0 DEF Opening, Open, OpenRepairing, OpenResuming, PrepareRepair, RepairPrepared,
       SyncRepair, SyncRepairName, RetireAudit, RepairComplete, walFile
  <2>7. Truncate
    BY <1>1, <2>1, <2>2, <2>3, <2>4, <2>5, <2>6 DEF Next
  <2>8. /\ job.step = "truncate" /\ pending # None /\ Keeps(pending.keep)
        /\ Len(file) # pending.keep => pending.orig = file /\ stablePending = pending
    BY <1>1, <2>7 DEF Truncate, WalInv, Repairing
  <2>9. Len(file) # pending.keep
    <3> SUFFICES ASSUME Len(file) = pending.keep PROVE FALSE
      OBVIOUS
    <3>1. file' = SubSeq(file, 1, Len(file)) /\ file \in Seq(Records)
      BY <1>1, <2>7 DEF Truncate, WalInv, Types, FileTypes
    <3> QED BY <2>0, <3>1, Whole
  <2> QED BY <2>8, <2>9
<1>2. WalInv /\ [Next]_vars => [D]_vars
  BY <1>1
<1> HIDE DEF D
<1>3. [][D]_vars => DiscardsAudited
  BY PTL DEF DiscardsAudited, D
<1> QED BY <1>2, <1>3, WalInvariant, PTL DEF Spec

-----------------------------------------------------------------------------
(* The refinement *)

LogSame == UNCHANGED <<hist, promised, LogStatus>>
LogStep == Log!LogNext(Commits) \/ CutDiscarded \/ LogSame

\* Without a change of the log, of the mode or of the poison, DurableLog sees nothing
LEMMA StatusFrame ==
  ASSUME UNCHANGED <<history, mode, poisoned>>
  PROVE  LogSame
BY DEF LogSame, LogStatus, history

\* A completed barrier promises the whole log, as DurableLog's does
LEMMA BarrierRefines ==
  ASSUME WalInv, Complete, job.op \in {"append", "group", "prefix"}, job.step \in {"sync", "name"},
         UNCHANGED <<hist, mode, poisoned>>
  PROVE  Log!LogBarrier
<1>1. mode = "open" /\ job.op # "none" /\ job.step # "write"
  BY DEF WalInv, JobShape, Types, MemoryTypes
<1>2. promised' = Len(hist)
  BY <1>1, TargetIsLog DEF Complete, Target
<1> QED BY <1>1, <1>2 DEF Log!LogBarrier, LogStatus

\* An open over a file without damage recovers a prefix that holds what was promised
LEMMA OpenRefines ==
  ASSUME WalInv, mode # "open", Opened(Len(file)), \A i \in 1 .. Len(file) : file[i] \in Commits,
         UNCHANGED promised
  PROVE  Log!LogOpen
<1> DEFINE n == Len(file)
<1>1. /\ file \in Seq(Commits) /\ hist \in Seq(Commits) /\ n \in Nat /\ promised \in Nat
  BY SMT, WholeFacts DEF WalInv, Types, FileTypes
<1>2. Agree(file) /\ promised <= n
  BY DEF WalInv, Durable, Lasts
<1>3. n \in promised .. Len(hist)
  BY SMT, <1>1, <1>2 DEF Agree
<1>4. hist' = SubSeq(hist, 1, n)
  <2>1. hist' = file
    BY <1>1, Whole DEF Opened
  <2>2. /\ SubSeq(hist, 1, n) \in Seq(Commits) /\ Len(SubSeq(hist, 1, n)) = n
        /\ \A i \in 1 .. n : SubSeq(hist, 1, n)[i] = hist[i]
    BY SMT, <1>1, <1>3, Prefix
  <2>3. \A i \in 1 .. n : file[i] = hist[i]
    BY <1>2 DEF Agree
  <2> QED BY <1>1, <2>1, <2>2, <2>3, SameRecords
<1>5. hist \o <<>> = hist
  BY <1>1, Whole
<1>6. LogStatus = "closed" /\ LogStatus' = "open"
  BY DEF Opened, LogStatus
<1> QED BY <1>3, <1>4, <1>5, <1>6 DEF Log!LogOpen

\* A repair cuts off nothing that was promised, unless a length has rotted
LEMMA TruncateRefines ==
  ASSUME WalInv, Truncate
  PROVE  LogSame \/ CutDiscarded
<1>1. /\ job.op = "repair" /\ job.step = "truncate" /\ UNCHANGED <<hist, mode, poisoned>>
      /\ promised' = AtMost(promised, pending.keep)
  BY DEF Truncate
<1>2. UNCHANGED LogStatus
  BY <1>1 DEF LogStatus
<1>3. pending # None /\ pending \in Audits /\ Keeps(pending.keep) /\ promised \in Nat
  BY <1>1 DEF WalInv, JobShape, Repairing, Types, FileTypes, SideTypes
<1>4. pending.keep \in Nat
  BY <1>3 DEF Audits
<1>5. CASE promised <= pending.keep
  <2>1. promised' = promised
    BY SMT, <1>1, <1>3, <1>4, <1>5 DEF AtMost
  <2> QED BY <1>1, <1>2, <2>1 DEF LogSame
<1>6. CASE ~(promised <= pending.keep)
  <2>1. promised' = pending.keep
    BY SMT, <1>1, <1>3, <1>4, <1>6 DEF AtMost
  <2> QED BY <1>1, <1>2, <1>3, <1>6, <2>1 DEF Keeps, CutAfter, CutDiscarded
<1> QED BY <1>5, <1>6

\* Every step of the store is a step of DurableLog, or invisible to it, or the one
\* repair that a rotten length misleads
LEMMA LogRefines ==
  ASSUME WalInv, Next
  PROVE  LogStep
<1>1. CASE Append_
  BY <1>1, StatusFrame DEF Append_, StartAppend, LogStep
<1>2. CASE Writing
  <2>1. CASE WriteRecord
    <3>1. mode = "open" /\ ~poisoned /\ job.commit \in Commits
      BY <2>1, WritingFacts DEF WriteRecord
    <3>2. Log!LogAppend(job.commit)
      BY <2>1, <3>1 DEF WriteRecord, Log!LogAppend, LogStatus
    <3> QED BY <3>1, <3>2 DEF LogStep, Log!LogNext
  <2>2. CASE WriteFails \/ RollBack
    BY <2>2, StatusFrame DEF WriteFails, RollBack, LogStep
  <2>3. CASE RollBackUnsynced
    <3>1. mode = "open"
      BY <2>3 DEF RollBackUnsynced, WalInv, JobShape, Types, MemoryTypes
    <3>2. Log!LogPoison
      BY <2>3, <3>1 DEF RollBackUnsynced, Log!LogPoison, LogStatus, history
    <3> QED BY <3>2 DEF LogStep, Log!LogNext
  <2> QED BY <1>2, <2>1, <2>2, <2>3 DEF Writing
<1>3. CASE Barriers
  <2>1. CASE PublishFence \/ FenceSynced
    BY <2>1, StatusFrame DEF PublishFence, FenceSynced, LogStep
  <2>2. CASE SyncData
    <3>1. CASE Step("name") /\ UNCHANGED <<next, known, promised>>
      BY <2>2, <3>1, StatusFrame DEF SyncData, LogStep, history
    <3>2. CASE Complete
      BY <2>2, <3>2, BarrierRefines DEF SyncData, LogStep, Log!LogNext
    <3> QED BY <2>2, <3>1, <3>2 DEF SyncData
  <2>3. CASE SyncName
    BY <2>3, BarrierRefines DEF SyncName, LogStep, Log!LogNext
  <2> QED BY <1>3, <2>1, <2>2, <2>3 DEF Barriers
<1>4. CASE Groups
  BY <1>4, StatusFrame DEF Groups, BeginSyncGroup, FinishSyncGroup, SynchronizeSourcePrefix, LogStep
<1>5. CASE Failures
  <2>1. /\ mode' = (IF job.op = "repair" THEN "closed" ELSE mode) /\ UNCHANGED history
        /\ poisoned => poisoned'
    BY <1>5 DEF Failures, StepFails, FenceRefused
  <2>2. mode = "closed" => job.op = "none"
    BY DEF WalInv, JobShape
  <2>3. job.op = "repair" => mode = "opening"
    BY DEF WalInv, JobShape
  <2>4. CASE LogStatus' = LogStatus
    BY <2>1, <2>4 DEF LogStep, LogSame, history
  <2>5. CASE LogStatus' # LogStatus
    <3>1. Log!LogPoison
      BY <2>1, <2>3, <2>5 DEF Log!LogPoison, LogStatus, history
    <3> QED BY <3>1 DEF LogStep, Log!LogNext
  <2> QED BY <2>4, <2>5
<1>6. CASE Opening
  <2>1. CASE Open
    <3>1. \A i \in 1 .. Len(file) : file[i] \in Commits
      <4>1. CASE head = "missing"
        BY SMT, <4>1 DEF WalInv, Durable
      <4>2. CASE IsWhole(file)
        BY <4>2, WholeFacts DEF WalInv, Types, FileTypes
      <4> QED BY <2>1, <4>1, <4>2 DEF Open, Replayable
    <3>2. Log!LogOpen
      BY <2>1, <3>1, OpenRefines DEF Open
    <3> QED BY <3>2 DEF LogStep, Log!LogNext
  <2>2. CASE RepairComplete
    <3>1. mode = "opening" /\ Keeps(Len(file))
      BY <2>2 DEF RepairComplete, WalInv, Repairing, JobShape
    <3>2. Log!LogOpen
      BY <2>2, <3>1, OpenRefines DEF RepairComplete, Keeps
    <3> QED BY <3>2 DEF LogStep, Log!LogNext
  <2>3. CASE OpenRepairing \/ OpenResuming
    BY <2>3 DEF OpenRepairing, OpenResuming, LogStep, LogSame, LogStatus, history
  <2>4. CASE PrepareRepair \/ RepairPrepared \/ SyncRepair \/ SyncRepairName \/ RetireAudit
    BY <2>4, StatusFrame DEF PrepareRepair, RepairPrepared, SyncRepair, SyncRepairName,
       RetireAudit, LogStep
  <2>5. CASE Truncate
    BY <2>5, TruncateRefines DEF LogStep
  <2> QED BY <1>6, <2>1, <2>2, <2>3, <2>4, <2>5 DEF Opening
<1>7. CASE World
  <2>1. CASE Crash \/ PowerLoss
    <3>1. Log!LogClose
      BY <2>1 DEF Crash, PowerLoss, Stopped, Log!LogClose, LogStatus
    <3> QED BY <3>1 DEF LogStep, Log!LogNext
  <2>2. CASE Damage
    BY <2>2, StatusFrame DEF Damage, memory, LogStep
  <2> QED BY <1>7, <2>1, <2>2 DEF World
<1> QED BY <1>1, <1>2, <1>3, <1>4, <1>5, <1>6, <1>7 DEF Next

\* The write-ahead log implements DurableLog: whatever fails, crashes, loses power or
\* rots, an open that succeeds recovers a prefix of what was appended, and that prefix
\* holds every commit that a barrier reported durable.  The only step that takes back
\* a promise is CutDiscarded, a repair's truncation, without a fence, at a record whose
\* length has rotted: the checksum of a fragment does not cover it.
THEOREM LogImplemented == Spec => ImplementsDurableLog
<1>1. Init => Log!LogInit
  BY DEF Init, Log!LogInit, LogStatus
<1>2. WalInv /\ [Next]_vars => [Log!LogNext(Commits) \/ CutDiscarded]_(Log!logVars)
  <2> SUFFICES ASSUME WalInv, [Next]_vars
               PROVE  [Log!LogNext(Commits) \/ CutDiscarded]_(Log!logVars)
    OBVIOUS
  <2>1. CASE Next
    BY <2>1, LogRefines DEF LogStep, LogSame, Log!logVars
  <2>2. CASE UNCHANGED vars
    <3>1. LogSame
      BY <2>2, StatusFrame DEF vars, memory
    <3> QED BY <3>1 DEF LogSame, Log!logVars
  <2> QED BY <2>1, <2>2
<1> QED BY <1>1, <1>2, WalInvariant, PTL DEF Spec, ImplementsDurableLog

-----------------------------------------------------------------------------
(* What process crashes alone can do *)

Undisturbed == faults = 0 /\ losses = 0 /\ damage = 0

\* Nothing that Pristine looks at changes, and no damaged file is opened
LEMMA PristineFrame ==
  ASSUME Pristine, UNCHANGED <<head, file, fence, pending, checkpointed>>,
         mode' = "open" => mode = "open", Undisturbed' => Undisturbed
  PROVE  Pristine'
<1>1. (Planned <=> Planned') /\ (Truncated <=> Truncated')
  BY DEF Planned, Plan, Clean, Truncated
<1> QED BY <1>1 DEF Pristine, Undisturbed, IsWhole

\* The file is sound, as long as its fence and no audit
LEMMA PristineSound ==
  ASSUME pending' = None, \A i \in 1 .. Len(file') : file'[i] \in Commits, fence' <= Len(file'),
         checkpointed' => head' # "missing"
  PROVE  Pristine'
BY DEF Pristine

\* An open handle has a sound file
LEMMA PristineOpen ==
  ASSUME WalInv, Pristine, Undisturbed, mode = "open"
  PROVE  /\ pending = None /\ file \in Seq(Records) /\ fence \in Int /\ fence <= Len(file)
         /\ \A i \in 1 .. Len(file) : file[i] \in Commits
         /\ checkpointed => head # "missing"
BY DEF WalInv, Pristine, Undisturbed, LogShape, Types, FileTypes, SideTypes

\* Starting an operation, or failing at one, does not touch the files
LEMMA PristineSteps ==
  ASSUME WalInv, Pristine, Append_ \/ Groups \/ Failures
  PROVE  Pristine'
<1>1. UNCHANGED <<head, file, fence, pending, checkpointed, losses, damage>>
  BY DEF Append_, StartAppend, Groups, BeginSyncGroup, FinishSyncGroup, SynchronizeSourcePrefix,
     Failures, StepFails, FenceRefused, Fault, NoFault, walFile, fences, audits, environment
<1>2. faults' = faults \/ faults' = faults + 1
  BY DEF Append_, StartAppend, Groups, BeginSyncGroup, FinishSyncGroup, SynchronizeSourcePrefix,
     Failures, StepFails, FenceRefused, Fault, NoFault, environment
<1>3. mode' = "open" => mode = "open"
  BY DEF Append_, StartAppend, Groups, BeginSyncGroup, FinishSyncGroup, SynchronizeSourcePrefix,
     Failures, StepFails, FenceRefused
<1>4. Undisturbed' => Undisturbed
  BY SMT, <1>1, <1>2 DEF Undisturbed, WalInv, Types, WorldTypes
<1> QED BY <1>1, <1>3, <1>4, PristineFrame

\* A write adds a sound record, and a rollback returns to the sound log
LEMMA PristineWriting ==
  ASSUME WalInv, Pristine, Writing
  PROVE  Pristine'
<1> SUFFICES ASSUME Undisturbed' PROVE Pristine'
  BY DEF Pristine, Undisturbed
<1>1. CASE WriteRecord
  <2>1. /\ file' = Append(file, job.commit) /\ head' = "whole" /\ job.commit \in Commits
        /\ UNCHANGED <<pending, fence, environment>> /\ mode = "open"
    BY <1>1, WritingFacts DEF WriteRecord, fences, audits
  <2>2. Undisturbed
    BY <2>1 DEF Undisturbed, environment
  <2>3. /\ pending = None /\ file \in Seq(Records) /\ fence \in Int /\ fence <= Len(file)
        /\ \A i \in 1 .. Len(file) : file[i] \in Commits
    BY <2>1, <2>2, PristineOpen
  <2>4. /\ Len(file') = Len(file) + 1 /\ file'[Len(file) + 1] = job.commit
        /\ \A i \in 1 .. Len(file) : file'[i] = file[i]
    BY SMT, <2>1, <2>3, Appended DEF Records
  <2>5. \A i \in 1 .. Len(file') : file'[i] \in Commits
    <3> SUFFICES ASSUME NEW i \in 1 .. Len(file') PROVE file'[i] \in Commits
      OBVIOUS
    <3>1. i \in 1 .. Len(file) \/ i = Len(file) + 1
      BY SMT, <2>3, <2>4
    <3> QED BY <2>1, <2>3, <2>4, <3>1
  <2> QED BY SMT, <2>1, <2>3, <2>4, <2>5, PristineSound
<1>2. CASE WriteFails
  BY SMT, <1>2 DEF WriteFails, Fault, Undisturbed, WalInv, Types, WorldTypes
<1>3. CASE RollBack \/ RollBackUnsynced
  <2>1. /\ file' = SubSeq(file, 1, next) /\ head' = "whole"
        /\ job.op = "rollback" /\ job.step = "truncate"
        /\ UNCHANGED <<pending, fence>>
    BY <1>3 DEF RollBack, RollBackUnsynced, fences, audits
  <2>2. /\ mode = "open" /\ pending = None /\ Len(hist) = next /\ next \in Nat /\ Len(file') = next
        /\ \A i \in 1 .. next : file'[i] = hist[i] /\ hist[i] \in Commits
    BY <2>1, RollBackFacts
  <2>3. fence \in {NoFence, next}
    BY <2>1, <2>2 DEF WalInv, Fenced, Target
  <2> QED BY SMT, <2>1, <2>2, <2>3, PristineSound DEF NoFence
<1> QED BY <1>1, <1>2, <1>3 DEF Writing

\* A fence is published within the sound records
LEMMA PristineBarriers ==
  ASSUME WalInv, Pristine, Barriers
  PROVE  Pristine'
<1>1. CASE FenceSynced \/ SyncData \/ SyncName
  <2>1. UNCHANGED <<head, file, fence, pending, mode, environment>>
    BY <1>1 DEF FenceSynced, SyncData, SyncName, fences, audits
  <2> QED BY <2>1, PristineFrame DEF environment, Undisturbed
<1>2. CASE PublishFence
  <2>0. /\ UNCHANGED <<head, file, pending, mode, environment>> /\ fence' = Target
        /\ job.step = "fence" /\ job.op # "none"
    BY <1>2 DEF PublishFence, walFile, audits, WalInv, JobShape
  <2> SUFFICES ASSUME Undisturbed PROVE Pristine'
    BY <2>0 DEF Pristine, Undisturbed, environment
  <2>1. CASE mode = "open"
    <3>1. Target = Len(hist) /\ Len(hist) <= Len(file)
      BY <2>0, <2>1, TargetIsLog DEF WalInv, LogShape
    <3> QED BY <2>0, <2>1, <3>1, PristineOpen, PristineSound DEF environment
  <2>2. CASE mode # "open"
    <3>1. mode = "opening" /\ job.op = "repair"
      BY <2>0, <2>2 DEF WalInv, JobShape, Types, MemoryTypes
    <3>2. pending # None /\ Keeps(pending.keep) /\ pending \in Audits
      BY <2>0, <3>1 DEF WalInv, Repairing, Types, SideTypes
    <3>3. /\ fence' = pending.keep /\ pending.keep \in Nat /\ pending.keep <= Len(file)
          /\ \A i \in 1 .. pending.keep : file[i] \in Commits
      BY <2>0, <3>1, <3>2 DEF Target, Audits, Keeps
    <3>4. /\ Planned <=> Planned'
          /\ Truncated <=> Truncated'
          /\ IsWhole(file) <=> IsWhole(file)'
      BY <2>0 DEF Planned, Plan, Clean, Truncated, IsWhole
    <3>5. \A i \in 1 .. Len(file) :
            file[i] \in Commits \/ (i = Len(file) /\ file[i] = Torn /\ fence' < i)
      BY SMT, <3>3 DEF Pristine, Undisturbed
    <3> QED BY <2>0, <2>2, <3>3, <3>4, <3>5 DEF Pristine, Undisturbed, environment
  <2> QED BY <2>1, <2>2
<1> QED BY <1>1, <1>2 DEF Barriers

\* Replay leaves a sound file alone and a repair leaves one behind
LEMMA PristineOpening ==
  ASSUME WalInv, Pristine, Opening
  PROVE  Pristine'
<1>0. UNCHANGED environment /\ file \in Seq(Records) /\ fence \in Int
  BY DEF Opening, Open, OpenRepairing, OpenResuming, PrepareRepair, RepairPrepared, Truncate,
     SyncRepair, SyncRepairName, RetireAudit, RepairComplete, WalInv, Types, FileTypes, SideTypes
<1> SUFFICES ASSUME Undisturbed PROVE Pristine'
  BY <1>0 DEF Pristine, Undisturbed, environment
<1>1. CASE OpenRepairing \/ OpenResuming \/ RepairPrepared \/ SyncRepair \/ SyncRepairName
  <2>1. UNCHANGED <<head, file, fence, pending>> /\ (mode' = "open" => mode = "open")
    BY <1>1 DEF OpenRepairing, OpenResuming, RepairPrepared, SyncRepair, SyncRepairName,
       walFile, fences, audits
  <2> QED BY <1>0, <2>1, PristineFrame DEF environment, Undisturbed
<1>2. CASE Open
  <2>1. /\ pending = None /\ Replayable
        /\ UNCHANGED <<head, file, fence, pending>>
    BY <1>2 DEF Open, walFile, fences, audits
  <2>2. \A i \in 1 .. Len(file) : file[i] \in Commits
    <3>1. CASE head = "missing"
      BY SMT, <3>1 DEF WalInv, Durable
    <3>2. CASE IsWhole(file)
      BY <1>0, <3>2, WholeFacts
    <3> QED BY <2>1, <3>1, <3>2 DEF Replayable
  <2>3. fence <= Len(file) /\ (checkpointed => head # "missing")
    BY DEF Pristine, Undisturbed
  <2> QED BY <1>0, <2>1, <2>2, <2>3, PristineSound DEF environment
<1>3. CASE RepairComplete
  <2>1. /\ mode = "opening" /\ job.step = "retire_sync" /\ UNCHANGED <<head, file, fence, pending>>
    BY <1>3 DEF RepairComplete, walFile, fences, WalInv, JobShape
  <2>2. pending = None /\ Keeps(Len(file)) /\ head = "whole"
    BY <2>1 DEF WalInv, Repairing
  <2> QED BY <2>1, <2>2, PristineSound DEF Keeps
<1>4. CASE RetireAudit
  <2>1. /\ mode = "opening" /\ job.step = "retire" /\ pending' = None
        /\ UNCHANGED <<head, file, fence>>
    BY <1>4 DEF RetireAudit, walFile, fences, WalInv, JobShape
  <2>2. Keeps(Len(file)) /\ head = "whole"
    BY <2>1 DEF WalInv, Repairing
  <2> QED BY <2>1, <2>2, PristineSound DEF Keeps
<1>5. CASE PrepareRepair
  <2>1. /\ mode = "opening" /\ mode' = mode /\ UNCHANGED <<head, file, fence>>
    BY <1>5 DEF PrepareRepair, walFile, fences, WalInv, JobShape
  <2>2. head = "whole"
    BY <2>1 DEF WalInv, Repairing
  <2>3. Planned'
    BY <1>5, <2>1 DEF PrepareRepair, Planned, Plan, Clean
  <2> QED BY <1>0, <2>1, <2>2, <2>3 DEF Pristine, Undisturbed, environment
<1>6. CASE Truncate
  <2> DEFINE n == pending.keep
  <2>1. /\ mode = "opening" /\ mode' = mode /\ job.step = "truncate"
        /\ file' = SubSeq(file, 1, n) /\ UNCHANGED <<head, fence, pending>>
    BY <1>6 DEF Truncate, fences, audits, WalInv, JobShape
  <2>2. /\ head = "whole" /\ pending # None /\ Keeps(n) /\ pending \in Audits
    BY <2>1 DEF WalInv, Repairing, Types, SideTypes
  <2>3. n \in 0 .. Len(file) /\ fence <= n /\ \A i \in 1 .. n : file[i] \in Commits
    BY SMT, <1>0, <2>2 DEF Audits, Keeps
  <2>4. file' = SubSeq(pending.orig, 1, n)
    <3>1. CASE Planned
      BY SMT, <2>1, <3>1 DEF Planned, Plan
    <3>2. CASE file = SubSeq(pending.orig, 1, n)
      <4>1. pending.orig \in Seq(Records) /\ n \in 0 .. Len(pending.orig)
        BY SMT, <2>2, <2>3 DEF Audits, WalInv, Repairing
      <4>2. Len(file) = n
        BY <3>2, <4>1, Prefix
      <4> QED BY <1>0, <2>1, <3>2, <4>2, Whole
    <3> QED BY <2>2, <3>1, <3>2 DEF Pristine, Undisturbed, Truncated
  <2>5. /\ file' \in Seq(Records) /\ Len(file') = n /\ \A i \in 1 .. n : file'[i] = file[i]
    BY <1>0, <2>1, <2>3, Prefix
  <2>6. \A i \in 1 .. Len(file') : file'[i] \in Commits
    BY <2>3, <2>5
  <2>7. IsWhole(file')
    BY <2>5, <2>6, WholeFacts
  <2>8. Truncated'
    BY <2>1, <2>2, <2>4 DEF Truncated
  <2> HIDE DEF n
  <2> QED BY <2>1, <2>2, <2>3, <2>5, <2>6, <2>7, <2>8 DEF Pristine, IsWhole
<1> QED BY <1>1, <1>2, <1>3, <1>4, <1>5, <1>6 DEF Opening

\* A crash in the middle of a write leaves one torn record at the end, past the fence
LEMMA PristineWorld ==
  ASSUME WalInv, Pristine, World
  PROVE  Pristine'
<1> SUFFICES ASSUME Undisturbed' PROVE Pristine'
  BY DEF Pristine, Undisturbed
<1>1. CASE PowerLoss \/ Damage
  BY SMT, <1>1 DEF PowerLoss, Damage, Undisturbed, WalInv, Types, WorldTypes
<1>2. CASE Crash
  <2>1. /\ UNCHANGED <<fence, pending, checkpointed, faults, losses, damage>> /\ mode' = "closed"
    BY <1>2 DEF Crash, Stopped, fences, audits
  <2>2. Undisturbed
    BY <2>1 DEF Undisturbed
  <2>3. CASE UNCHANGED <<head, file>>
    BY <2>1, <2>2, <2>3, PristineFrame
  <2>4. CASE PartialWrite /\ job.op = "append" /\ job.step = "write"
    <3>1. mode = "open"
      BY <2>4, WritingFacts
    <3>2. /\ pending = None /\ file \in Seq(Records) /\ fence \in Int /\ fence <= Len(file)
          /\ \A i \in 1 .. Len(file) : file[i] \in Commits
          /\ checkpointed => head # "missing"
      BY <2>2, <3>1, PristineOpen
    <3>3. /\ Len(file') \in {Len(file), Len(file) + 1}
          /\ \A i \in 1 .. Len(file) : file'[i] = file[i]
          /\ Len(file') = Len(file) + 1 => file'[Len(file) + 1] = Torn
          /\ head # "missing" => head' # "missing"
      BY <2>4, PartialFacts DEF WalInv, Types
    <3>4. \A i \in 1 .. Len(file') :
            file'[i] \in Commits \/ (i = Len(file') /\ file'[i] = Torn /\ fence < i)
      <4> SUFFICES ASSUME NEW i \in 1 .. Len(file')
                   PROVE  file'[i] \in Commits \/ (i = Len(file') /\ file'[i] = Torn /\ fence < i)
        OBVIOUS
      <4>1. i \in 1 .. Len(file) \/ (i = Len(file) + 1 /\ Len(file') = Len(file) + 1)
        BY SMT, <3>2, <3>3
      <4> QED BY SMT, <3>2, <3>3, <4>1
    <3>5. fence <= Len(file')
      BY SMT, <3>2, <3>3
    <3> QED BY <2>1, <3>2, <3>3, <3>4, <3>5 DEF Pristine
  <2> QED BY <1>2, <2>3, <2>4 DEF Crash
<1> QED BY <1>1, <1>2 DEF World

\* Until a fault, a power loss or damage, the directory stays pristine
LEMMA CrashInvariant == Spec => []CrashInv
<1>1. Init => Pristine
  BY SMT DEF Init, Pristine, NoFence
<1>2. WalInv /\ Pristine /\ [Next]_vars => Pristine'
  <2> SUFFICES ASSUME WalInv, Pristine, [Next]_vars PROVE Pristine'
    OBVIOUS
  <2>1. CASE UNCHANGED vars
    BY <2>1, PristineFrame DEF vars, memory, walFile, fences, audits, environment, Undisturbed
  <2> QED BY <2>1, PristineSteps, PristineWriting, PristineBarriers, PristineOpening,
       PristineWorld, Zenon DEF Next
<1> QED BY <1>1, <1>2, WalInvariant, PTL DEF Spec, CrashInv

\* A process crash alone never locks the database: unless it fell into the header of the
\* very first append, replay_wal_interval_with_file accepts the log, or the doctor's
\* automatic repair may start or resume.
THEOREM CrashAlwaysReopens == Spec => []CrashReopens
<1>1. CrashInv => CrashReopens
  <2> SUFFICES ASSUME WalInv, Pristine, Undisturbed, mode = "closed", head \notin {"empty", "torn"}
               PROVE  (pending = None /\ Replayable) \/ RepairableTail \/ Resumable
    BY DEF CrashInv, CrashReopens, Undisturbed
  <2>1. /\ checkpointed => head # "missing"
        /\ pending # None => head = "whole"
        /\ \A i \in 1 .. Len(file) :
             file[i] \in Commits \/ (i = Len(file) /\ file[i] = Torn /\ fence < i)
        /\ fence <= Len(file)
        /\ pending = None \/ Planned \/ (Truncated /\ IsWhole(file))
    BY DEF Pristine, Undisturbed
  <2>2. file \in Seq(Records) /\ head \in {"missing", "whole"} /\ fence \in Int
    BY DEF WalInv, Types, FileTypes, SideTypes
  <2>3. CASE head = "missing"
    BY <2>1, <2>3 DEF Replayable
  <2>4. CASE head = "whole" /\ IsWhole(file)
    <3>1. Retains(Len(file))
      BY <2>1, <2>2 DEF Retains
    <3>2. CASE pending = None
      BY <2>4, <3>1, <3>2 DEF Replayable
    <3>3. CASE Planned
      BY SMT, <2>2, <2>4, <3>3, WholeFacts DEF Planned, Clean
    <3>4. CASE Truncated
      BY <2>4, <3>1, <3>4 DEF Resumable
    <3> QED BY <2>1, <3>2, <3>3, <3>4
  <2>5. CASE head = "whole" /\ ~IsWhole(file)
    <3>1. PICK k \in 1 .. Len(file) : file[k] \notin Commits
      BY <2>2, <2>5, WholeFacts
    <3>2. k = Len(file) /\ file[k] = Torn /\ fence < k
      BY <2>1, <3>1
    <3> DEFINE n == k - 1
    <3>3. n \in 0 .. Len(file) /\ n + 1 = k /\ n >= fence /\ Clean(file, n)
      BY SMT, <2>1, <2>2, <3>1, <3>2 DEF Clean
    <3>4. Torn \notin Commits
      BY WalAssumption
    <3>5. pending \in {None, Plan(n)}
      <4>1. ~IsWhole(file)
        BY <2>5
      <4> QED BY <2>1, <2>2, <3>3, <4>1, CleanUnique DEF Planned
    <3> HIDE DEF n
    <3> QED BY <2>5, <3>2, <3>3, <3>5 DEF RepairableTail, Repairable, Retains
  <2> QED BY <2>2, <2>3, <2>4, <2>5
<1> QED BY <1>1, CrashInvariant, PTL
================================================================================
