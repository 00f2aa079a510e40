-------------------------- MODULE GroupCommitProofs --------------------------
(***************************************************************************)
(* Safety of GroupCommit for any requests, readers, group size and bounds: *)
(* types first, then durability.  A commit that the group commit reports   *)
(* as successful is durable; the inductive invariant follows a success     *)
(* from the task that returns it, through the barrier and the results of   *)
(* the leader, to the thread that submitted it.  Then what followers and   *)
(* readers see.                                                            *)
(***************************************************************************)
EXTENDS GroupCommit, TLAPS

\* Turning every dequeued request into a failure keeps the requests.
LEMMA FailedType ==
  ASSUME NEW entries \in Seq(Entry)
  PROVE  /\ Failed(entries) \in Seq(Entry)
         /\ \A i \in DOMAIN Failed(entries) : Failed(entries)[i].res = "error"
<1>1. Len(entries) \in Nat /\ DOMAIN entries = 1 .. Len(entries)
  OBVIOUS
<1>2. \A i \in 1 .. Len(entries) : entries[i] \in Entry
  OBVIOUS
<1>3. \A i \in 1 .. Len(entries) : [req |-> entries[i].req, res |-> "error"] \in Entry
  BY <1>2 DEF Entry, Outcomes
<1>4. Failed(entries) \in [1 .. Len(entries) -> Entry]
  BY <1>1, <1>3 DEF Failed
<1> QED
  BY <1>1, <1>4 DEF Failed

\* The log keeps its shape, and nothing that it does takes back a durable commit.
LEMMA LogStep ==
  ASSUME LogTypeOK(Requests), [LogNext(Requests)]_logVars
  PROVE  /\ LogTypeOK(Requests)'
         /\ durable <= durable'
         /\ \A i \in 1 .. durable : log'[i] = log[i]
<1>1. CASE LogOpen
  <2>1. /\ log \o doubt \in Seq(Requests) /\ Len(log \o doubt) = Len(log) + Len(doubt)
        /\ \A i \in 1 .. Len(log) : (log \o doubt)[i] = log[i]
    BY DEF LogTypeOK
  <2>2. PICK n \in durable .. Len(log \o doubt) : log' = SubSeq(log \o doubt, 1, n)
    BY <1>1 DEF LogOpen
  <2>3. /\ log' \in Seq(Requests) /\ Len(log') = n
        /\ \A i \in 1 .. n : log'[i] = (log \o doubt)[i]
    BY <2>1, <2>2 DEF LogTypeOK
  <2> QED
    BY <1>1, <2>1, <2>2, <2>3 DEF LogOpen, LogTypeOK
<1>2. ASSUME NEW c \in Requests, LogAppend(c) \/ LogAppendPoisoned(c)
      PROVE  /\ LogTypeOK(Requests)'
             /\ durable <= durable'
             /\ \A i \in 1 .. durable : log'[i] = log[i]
  <2>1. /\ log' \in Seq(Requests) /\ Len(log') = Len(log) + 1
        /\ \A i \in 1 .. Len(log) : log'[i] = log[i]
    <3>1. log' = Append(log, c) /\ log \in Seq(Requests)
      BY <1>2 DEF LogAppend, LogAppendPoisoned, LogTypeOK
    <3> QED
      BY <3>1
  <2>2. durable' = durable /\ doubt' = doubt /\ status' \in {"open", "poisoned"}
    BY <1>2 DEF LogAppend, LogAppendPoisoned
  <2> QED
    BY <2>1, <2>2 DEF LogTypeOK
<1>3. ASSUME NEW c \in Requests, LogDoubt(c)
      PROVE  /\ LogTypeOK(Requests)'
             /\ durable <= durable'
             /\ \A i \in 1 .. durable : log'[i] = log[i]
  <2>1. <<c>> \in Seq(Requests) /\ <<>> \in Seq(Requests)
    OBVIOUS
  <2>2. doubt' \in Seq(Requests)
    BY <1>3, <2>1, Zenon DEF LogDoubt
  <2> QED
    BY <1>3, <2>2 DEF LogDoubt, LogTypeOK
<1>4. CASE LogBarrier \/ LogBarrierPoisoned \/ LogPoison \/ LogClose \/ UNCHANGED logVars
  BY <1>4 DEF LogBarrier, LogBarrierPoisoned, LogPoison, LogClose, LogTypeOK, logVars
<1> QED
  BY <1>1, <1>2, <1>3, <1>4 DEF LogNext

\* The group commit touches the log only through the operations DurableLog offers.
LEMMA UsesLog == TypeOK /\ [Next]_vars => [LogNext(Requests)]_logVars
<1> SUFFICES ASSUME TypeOK, [Next]_vars
             PROVE  [LogNext(Requests)]_logVars
  OBVIOUS
<1>1. ASSUME NEW r \in Requests, Submit(r) \/ FollowerStep(r) \/ LivenessCheck(r)
      PROVE  UNCHANGED logVars
  BY <1>1 DEF Submit, FollowerStep, LivenessCheck, TakeResult, LockState, FindNoResult, Lead,
     Sleep, Wake
<1>2. ASSUME NEW r \in Requests, RunTask(r) \/ TaskPanics(r)
      PROVE  [LogNext(Requests)]_logVars
  <2>1. Head(queue) \in Requests
    BY <1>2 DEF RunTask, TaskPanics, TypeOK
  <2> QED
    BY <1>2, <2>1, Zenon DEF RunTask, TaskPanics, TaskEffect, LogNext
<1>3. ASSUME NEW r \in Requests, FinishGroup(r) \/ BarrierFails(r) \/ SchemaCheckpointFails(r)
      PROVE  [LogNext(Requests)]_logVars
  BY <1>3 DEF FinishGroup, BarrierFails, SchemaCheckpointFails, LogNext
<1>4. ASSUME NEW r \in Requests, LeaderStep(r),
             ~(RunTask(r) \/ TaskPanics(r)),
             ~(FinishGroup(r) \/ BarrierFails(r) \/ SchemaCheckpointFails(r))
      PROVE  UNCHANGED logVars
  BY <1>4 DEF LeaderStep, LockDatabase, BeginGroup, BeginRefused, EndRun, BarrierUnreachable,
     DropGuard, FailFrontGroup, CompleteNext, NotifyCompleted, ReleaseLeader, NotifyReleased
<1>5. ASSUME NEW x \in Readers, ReaderStep(x)
      PROVE  UNCHANGED logVars
  BY <1>5 DEF ReaderStep, LookUpView, CaptureView, CheckView
<1>6. CASE Crash \/ Recover
  BY <1>6 DEF Crash, Recover, LogNext
<1>7. CASE UNCHANGED vars
  BY <1>7 DEF vars
<1> QED
  BY <1>1, <1>2, <1>3, <1>4, <1>5, <1>6, <1>7 DEF Next

\* TypeOK is inductive.
LEMMA TypeOKStep == TypeOK /\ [Next]_vars => TypeOK'
<1> SUFFICES ASSUME TypeOK, [Next]_vars
             PROVE  TypeOK'
  OBVIOUS
<1>0. LogTypeOK(Requests)'
  BY LogStep, UsesLog DEF TypeOK
<1> USE <1>0 DEF TypeOK, queueVars, dbVars, readVars, publicationVars, Goto, PCs, Outcomes
<1>1. ASSUME NEW r \in Requests, Submit(r)
      PROVE  TypeOK'
  <2>1. Append(queue, r) \in Seq(Requests) /\ Waiting \subseteq Requests
    BY DEF Waiting
  <2> QED
    BY <1>1, <2>1 DEF Submit
<1>2. ASSUME NEW r \in Requests, FollowerStep(r) \/ LivenessCheck(r)
      PROVE  TypeOK'
  <2>1. CASE TakeResult(r)
    BY <2>1 DEF TakeResult
  <2>2. CASE LockState(r) \/ FindNoResult(r) \/ Lead(r) \/ Sleep(r) \/ Wake(r)
    BY <2>2, Zenon DEF LockState, FindNoResult, Lead, Sleep, Wake
  <2>3. CASE LivenessCheck(r)
    BY <2>3, Zenon DEF LivenessCheck
  <2> QED
    BY <1>2, <2>1, <2>2, <2>3 DEF FollowerStep
<1>3. ASSUME NEW x \in Readers, ReaderStep(x)
      PROVE  TypeOK'
  <2>1. CASE LookUpView(x)
    BY <2>1, Zenon DEF LookUpView, SetReading
  <2>2. CASE CaptureView(x)
    BY ZenonT(40), <2>2 DEF CaptureView, SetReading, LogTypeOK
  <2>3. CASE CheckView(x)
    BY <2>3 DEF CheckView, SetReading
  <2> QED
    BY <1>3, <2>1, <2>2, <2>3 DEF ReaderStep
<1>4. CASE Crash
  <2>1. <<>> \in Seq(Requests) /\ <<>> \in Seq(Entry)
    OBVIOUS
  <2>2. completed' \in Seq(Entry) /\ queue' \in Seq(Requests)
    BY <1>4, <2>1 DEF Crash
  <2>3. /\ pc' \in [Requests -> PCs]
        /\ returned' \in [Requests -> Outcomes \cup {"none", "inconsistent", "crashed"}]
        /\ result' \in [Requests -> Outcomes \cup {"none"}]
    BY <1>4 DEF Crash
  <2>4. reading' \in [Readers -> {"idle", "first", "check", "reading", "done", "error"}]
    BY <1>4 DEF Crash
  <2>5. /\ leaderActive' = FALSE /\ dbPoisoned' = FALSE /\ publicationFailed' = FALSE
        /\ stateLock' = None /\ dbLock' = None /\ published' = None
        /\ notified' = {} /\ group' = -1
    BY <1>4, Zenon DEF Crash
  <2>6. view' = view
    BY <1>4 DEF Crash
  <2>7. /\ leaderActive' \in BOOLEAN /\ dbPoisoned' \in BOOLEAN /\ publicationFailed' \in BOOLEAN
        /\ stateLock' \in Requests \cup {None} /\ dbLock' \in Requests \cup {None}
        /\ published' \in Seq(Requests) \cup {None} /\ notified' \subseteq Requests
    BY <2>5, Zenon
  <2>8. group' \in Int
    BY <2>5
  <2> QED
    BY <1>0, <2>2, <2>3, <2>4, <2>6, <2>7, <2>8, Zenon
<1>5. CASE Recover
  BY <1>5 DEF Recover
<1>6. CASE UNCHANGED vars
  BY <1>6 DEF vars
<1>7. ASSUME NEW r \in Requests, RunTask(r) \/ TaskPanics(r)
      PROVE  TypeOK'
  <2>1. Head(queue) \in Requests /\ Tail(queue) \in Seq(Requests)
    BY <1>7 DEF RunTask, TaskPanics
  <2>2. \A res \in Outcomes : [req |-> Head(queue), res |-> res] \in Entry
    BY <2>1 DEF Entry
  <2>3. \A res \in Outcomes : Append(completed, [req |-> Head(queue), res |-> res]) \in Seq(Entry)
    BY <2>2
  <2>4. CASE RunTask(r)
    <3>1. completed' \in Seq(Entry)
      BY <2>3, <2>4 DEF RunTask
    <3>2. group' \in Int
      BY <2>4 DEF RunTask, LogTypeOK
    <3> QED
      BY <2>1, <2>4, <3>1, <3>2, Zenon DEF RunTask
  <2>5. CASE TaskPanics(r)
    <3>1. completed' \in Seq(Entry)
      BY <2>3, <2>5, FailedType, Zenon DEF TaskPanics
    <3> QED
      BY <2>1, <2>5, <3>1 DEF TaskPanics
  <2> QED
    BY <1>7, <2>4, <2>5
<1>8. ASSUME NEW r \in Requests,
             \/ FinishGroup(r) \/ BarrierFails(r) \/ BarrierUnreachable(r)
             \/ SchemaCheckpointFails(r)
      PROVE  TypeOK'
  <2>1. completed' \in Seq(Entry)
    BY <1>8, FailedType DEF FinishGroup, BarrierFails, BarrierUnreachable, SchemaCheckpointFails
  <2>2. CASE FinishGroup(r)
    BY <2>1, <2>2 DEF FinishGroup
  <2>3. CASE BarrierFails(r)
    BY <2>1, <2>3 DEF BarrierFails
  <2>4. CASE BarrierUnreachable(r)
    BY <2>1, <2>4 DEF BarrierUnreachable
  <2>5. CASE SchemaCheckpointFails(r)
    BY <2>1, <2>5 DEF SchemaCheckpointFails
  <2> QED
    BY <1>8, <2>2, <2>3, <2>4, <2>5
<1>9. ASSUME NEW r \in Requests, FailFrontGroup(r)
      PROVE  TypeOK'
  <2> DEFINE count == IF Len(queue) < MaxEntries THEN Len(queue) ELSE MaxEntries
  <2>1. count \in 0 .. Len(queue)
    BY GroupCommitAssumption
  <2>2. \A i \in 1 .. count : [req |-> queue[i], res |-> "error"] \in Entry
    BY <2>1 DEF Entry
  <2>3. [i \in 1 .. count |-> [req |-> queue[i], res |-> "error"]] \in Seq(Entry)
    <3>1. count \in Nat
      BY <2>1
    <3>2. [i \in 1 .. count |-> [req |-> queue[i], res |-> "error"]] \in [1 .. count -> Entry]
      BY <2>2
    <3> HIDE DEF count
    <3> QED
      BY <3>1, <3>2
  <2>4. SubSeq(queue, count + 1, Len(queue)) \in Seq(Requests)
    BY <2>1
  <2>5. completed' \in Seq(Entry) /\ queue' \in Seq(Requests)
    BY <1>9, <2>3, <2>4 DEF FailFrontGroup
  <2> QED
    BY <1>9, <2>5 DEF FailFrontGroup
<1>10. ASSUME NEW r \in Requests, CompleteNext(r)
       PROVE  TypeOK'
  <2>1. Head(completed) \in Entry /\ Tail(completed) \in Seq(Entry)
    BY <1>10 DEF CompleteNext
  <2>2. Head(completed).res \in Outcomes
    BY <2>1 DEF Entry
  <2> QED
    BY <1>10, <2>1, <2>2, Zenon DEF CompleteNext
<1>11. ASSUME NEW r \in Requests, BeginRefused(r) \/ DropGuard(r)
       PROVE  TypeOK'
  BY <1>11, Zenon DEF BeginRefused, DropGuard, PublishView, LogTypeOK
<1>12. ASSUME NEW r \in Requests,
              \/ LockDatabase(r) \/ BeginGroup(r) \/ EndRun(r) \/ NotifyCompleted(r)
              \/ ReleaseLeader(r) \/ NotifyReleased(r)
       PROVE  TypeOK'
  <2>1. Waiting \subseteq Requests
    BY DEF Waiting
  <2>2. CASE LockDatabase(r)
    BY <2>2, Zenon DEF LockDatabase
  <2>3. CASE BeginGroup(r)
    BY <2>3 DEF BeginGroup
  <2>6. CASE EndRun(r)
    BY <2>6 DEF EndRun
  <2>4. CASE NotifyCompleted(r) \/ NotifyReleased(r)
    BY <2>1, <2>4 DEF NotifyCompleted, NotifyReleased
  <2>5. CASE ReleaseLeader(r)
    <3>1. leaderActive' \in BOOLEAN
      BY <2>5, Zenon DEF ReleaseLeader
    <3> QED
      BY <2>5, <3>1 DEF ReleaseLeader
  <2> QED
    BY <1>12, <2>2, <2>3, <2>4, <2>5, <2>6
<1> QED
  BY <1>1, <1>2, <1>3, <1>4, <1>5, <1>6, <1>7, <1>8, <1>9, <1>10, <1>11, <1>12, Zenon
     DEF Next, LeaderStep

\* Every variable of CommitSequencer keeps its type in every reachable state.
THEOREM GroupTypeCorrect == Spec => []TypeOK
<1>1. Init => TypeOK
  <2> SUFFICES ASSUME Init PROVE TypeOK
    OBVIOUS
  <2>1. /\ log = <<>> /\ queue = <<>> /\ completed = <<>> /\ doubt = <<>>
        /\ <<>> \in Seq(Requests) /\ <<>> \in Seq(Entry) /\ Len(<<>>) = 0
    BY DEF Init, LogInit
  <2>2. LogTypeOK(Requests)
    BY <2>1 DEF Init, LogInit, LogTypeOK
  <2>3. /\ pc \in [Requests -> PCs] /\ result \in [Requests -> Outcomes \cup {"none"}]
        /\ returned \in [Requests -> Outcomes \cup {"none", "inconsistent", "crashed"}]
    BY DEF Init, PCs
  <2>4. /\ reading \in [Readers -> {"idle", "first", "check", "reading", "done", "error"}]
        /\ view \in [Readers -> Seq(Requests)]
    BY <2>1 DEF Init
  <2>5. /\ leaderActive = FALSE /\ dbPoisoned = FALSE /\ publicationFailed = FALSE
        /\ stateLock = None /\ dbLock = None /\ published = None /\ notified = {} /\ group = -1
    BY Zenon DEF Init
  <2>6. /\ leaderActive \in BOOLEAN /\ dbPoisoned \in BOOLEAN /\ publicationFailed \in BOOLEAN
        /\ stateLock \in Requests \cup {None} /\ dbLock \in Requests \cup {None}
        /\ published \in Seq(Requests) \cup {None} /\ notified \subseteq Requests
    BY <2>5, Zenon
  <2>7. group \in Int
    BY <2>5
  <2> QED
    BY <2>1, <2>2, <2>3, <2>4, <2>6, <2>7, Zenon DEF TypeOK
<1> QED
  BY <1>1, TypeOKStep, PTL DEF Spec

-----------------------------------------------------------------------------
(* Durability *)

InLog(req, n) == \E i \in 1 .. n : log[i] = req

\* The successes among the dequeued requests are within the first n records
SuccessesWithin(n) ==
  \A i \in DOMAIN completed : completed[i].res = "ok" => InLog(completed[i].req, n)

\* While a group runs its successes are in the log, and the group counts them; once
\* the barrier has been dealt with they are durable; outside there are none.
Successes ==
  /\ \A r \in Requests : pc[r] \in {"run", "finish"} =>
       /\ group >= 0
       /\ SuccessesWithin(Len(log))
       /\ group = 0 => \A i \in DOMAIN completed : completed[i].res # "ok"
  /\ \A r \in Requests : pc[r] \in {"drop", "complete"} => SuccessesWithin(durable)
  /\ (\A r \in Requests : pc[r] \notin {"run", "finish", "drop", "complete"}) => completed = <<>>

\* A result that was handed out, or waits to be, is that of a durable commit
Acknowledged ==
  \A r \in Requests : result[r] = "ok" \/ returned[r] = "ok" => InLog(r, durable)

\* Nothing runs while the database is closed
ClosedIsQuiet ==
  status = "closed" => \A r \in Requests : pc[r] \in {"new", "done"}

DurableInv == TypeOK /\ OneLeader /\ ClosedIsQuiet /\ Successes /\ Acknowledged

\* What a leader's step does to its own place, to leadership and to the status.
Leads(r) ==
  /\ pc[r] \in LeaderPCs
  /\ leaderActive' = leaderActive
  /\ \/ Goto(r, "begin") \/ Goto(r, "run") \/ Goto(r, "finish") \/ Goto(r, "drop")
     \/ Goto(r, "fail_front") \/ Goto(r, "complete") \/ Goto(r, "release")

\* Every leader step either moves on within the leader's work or gives up leadership.
LEMMA LeaderMoves ==
  ASSUME NEW r \in Requests, LeaderStep(r)
  PROVE  /\ pc[r] \in LeaderPCs \cup {"release_notify"}
         /\ status # "closed" => status' # "closed"
         /\ Leads(r) \/ CompleteNext(r) \/ ReleaseLeader(r) \/ NotifyReleased(r)
<1> USE DEF LeaderPCs, Leads, queueVars, logVars
<1>1. CASE LockDatabase(r)
  BY <1>1 DEF LockDatabase
<1>2. CASE BeginGroup(r)
  BY <1>2 DEF BeginGroup
<1>3. CASE BeginRefused(r)
  BY <1>3 DEF BeginRefused
<1>4. CASE RunTask(r)
  BY <1>4 DEF RunTask, TaskEffect, LogAppend, LogDoubt, LogAppendPoisoned
<1>5. CASE EndRun(r)
  BY <1>5 DEF EndRun
<1>6. CASE TaskPanics(r)
  BY <1>6 DEF TaskPanics, LogAppend
<1>7. CASE FinishGroup(r)
  BY <1>7 DEF FinishGroup, LogBarrier
<1>8. CASE BarrierFails(r)
  BY <1>8 DEF BarrierFails, LogPoison
<1>9. CASE BarrierUnreachable(r)
  BY <1>9 DEF BarrierUnreachable
<1>10. CASE SchemaCheckpointFails(r)
  BY <1>10 DEF SchemaCheckpointFails, LogBarrierPoisoned
<1>11. CASE DropGuard(r)
  BY <1>11 DEF DropGuard
<1>12. CASE FailFrontGroup(r)
  BY <1>12 DEF FailFrontGroup
<1>13. CASE NotifyCompleted(r)
  BY <1>13 DEF NotifyCompleted
<1>14. CASE CompleteNext(r)
  BY <1>14 DEF CompleteNext
<1>15. CASE ReleaseLeader(r)
  BY <1>15 DEF ReleaseLeader
<1>16. CASE NotifyReleased(r)
  BY <1>16 DEF NotifyReleased
<1> QED
  BY <1>1, <1>2, <1>3, <1>4, <1>5, <1>6, <1>7, <1>8,
     <1>9, <1>10, <1>11, <1>12, <1>13, <1>14, <1>15, <1>16, Zenon DEF LeaderStep

\* Leadership is taken only when nobody leads, and given up only by the leader.
LEMMA OneLeaderStep == TypeOK /\ OneLeader /\ [Next]_vars => OneLeader'
<1> SUFFICES ASSUME TypeOK, OneLeader, [Next]_vars
             PROVE  OneLeader'
  OBVIOUS
<1>0. pc \in [Requests -> PCs] /\ leaderActive \in BOOLEAN
  BY DEF TypeOK
\* Moving one thread without changing whether it leads
<1>1. ASSUME NEW r \in Requests, NEW step \in PCs, Goto(r, step),
             pc[r] \in LeaderPCs <=> step \in LeaderPCs, leaderActive' = leaderActive
      PROVE  OneLeader'
  <2>1. \A s \in Requests : pc'[s] \in LeaderPCs <=> pc[s] \in LeaderPCs
    BY <1>0, <1>1 DEF Goto
  <2> QED
    BY <1>1, <2>1, Zenon DEF OneLeader
<1>2. ASSUME pc' = pc, leaderActive' = leaderActive
      PROVE  OneLeader'
  BY <1>2, Zenon DEF OneLeader
<1>3. ASSUME NEW r \in Requests, Submit(r) \/ FollowerStep(r) \/ LivenessCheck(r), ~Lead(r)
      PROVE  OneLeader'
  <2>1. /\ leaderActive' = leaderActive
        /\ pc[r] \in {"new", "check", "locked", "no_result", "waiting"}
    BY <1>3 DEF Submit, FollowerStep, LivenessCheck, TakeResult, LockState, FindNoResult, Sleep,
       Wake, queueVars
  <2>2. \/ Goto(r, "check") \/ Goto(r, "locked") \/ Goto(r, "no_result")
        \/ Goto(r, "waiting") \/ Goto(r, "done")
    BY <1>3, Zenon DEF Submit, FollowerStep, LivenessCheck, TakeResult, LockState, FindNoResult, Sleep,
       Wake
  <2> QED
    BY Zenon, <1>1, <2>1, <2>2 DEF PCs, LeaderPCs
<1>4. ASSUME NEW r \in Requests, Lead(r)
      PROVE  OneLeader'
  <2>1. leaderActive = FALSE /\ leaderActive' = TRUE
    BY <1>0, <1>4, Zenon DEF Lead, CanLead
  <2>2. \A s \in Requests : pc[s] \notin LeaderPCs
    BY <2>1, Zenon DEF OneLeader
  <2>3. \A s \in Requests : pc'[s] \in LeaderPCs <=> s = r
    BY <1>0, <1>4, <2>2 DEF Lead, Goto, LeaderPCs
  <2> QED
    BY <2>1, <2>3, Zenon DEF OneLeader
<1>5. ASSUME NEW r \in Requests, ReleaseLeader(r)
      PROVE  OneLeader'
  <2>1. leaderActive' = FALSE
    BY <1>5, Zenon DEF ReleaseLeader
  <2>2. \A s \in Requests : pc[s] \in LeaderPCs => s = r
    BY <1>5 DEF OneLeader, ReleaseLeader, LeaderPCs
  <2>3. \A s \in Requests : pc'[s] \notin LeaderPCs
    BY <1>0, <1>5, <2>2 DEF ReleaseLeader, Goto, LeaderPCs
  <2> QED
    BY <2>1, <2>3, Zenon DEF OneLeader
<1>6. ASSUME NEW r \in Requests, Leads(r)
      PROVE  OneLeader'
  BY <1>1, <1>6 DEF Leads, PCs, LeaderPCs
<1>7. ASSUME NEW r \in Requests, NotifyReleased(r)
      PROVE  OneLeader'
  BY <1>1, <1>7 DEF NotifyReleased, PCs, LeaderPCs
<1>8. ASSUME NEW r \in Requests, CompleteNext(r)
      PROVE  OneLeader'
  BY <1>2, <1>8 DEF CompleteNext, queueVars
<1>9. ASSUME NEW x \in Readers, ReaderStep(x)
      PROVE  OneLeader'
  BY <1>2, <1>9 DEF ReaderStep, LookUpView, CaptureView, CheckView, queueVars
<1>10. CASE Crash
  <2>1. leaderActive' = FALSE
    BY <1>10, Zenon DEF Crash
  <2>2. \A s \in Requests : pc'[s] \notin LeaderPCs
    BY <1>10 DEF Crash, LeaderPCs
  <2> QED
    BY <2>1, <2>2, Zenon DEF OneLeader
<1>11. CASE Recover \/ UNCHANGED vars
  BY <1>2, <1>11 DEF Recover, vars, queueVars
<1> QED
  BY <1>3, <1>4, <1>5, <1>6, <1>7, <1>8, <1>9, <1>10, <1>11, LeaderMoves DEF Next

\* While the store is closed no thread of the old process is left half way.
LEMMA ClosedIsQuietStep ==
  TypeOK /\ ClosedIsQuiet /\ [Next]_vars => ClosedIsQuiet'
<1> SUFFICES ASSUME TypeOK, ClosedIsQuiet, [Next]_vars, status' = "closed"
             PROVE  \A s \in Requests : pc'[s] \in {"new", "done"}
  BY DEF ClosedIsQuiet
<1>1. CASE Crash
  BY <1>1 DEF Crash
<1>2. CASE Recover
  BY <1>2 DEF Recover, LogOpen
<1>3. CASE UNCHANGED vars
  BY <1>3 DEF vars, ClosedIsQuiet, logVars
<1>4. ASSUME NEW x \in Readers, ReaderStep(x)
      PROVE  status' = status /\ pc' = pc
  BY <1>4 DEF ReaderStep, LookUpView, CaptureView, CheckView, logVars
<1>5. ASSUME NEW r \in Requests, Submit(r)
      PROVE  FALSE
  BY <1>5 DEF Submit, logVars
<1>6. ASSUME NEW r \in Requests, FollowerStep(r) \/ LivenessCheck(r)
      PROVE  FALSE
  <2>1. status' = status
    BY <1>6, Zenon DEF FollowerStep, LivenessCheck, TakeResult, LockState, FindNoResult, Lead, Sleep,
       Wake, logVars
  <2>2. pc[r] \notin {"new", "done"}
    BY <1>6, Zenon DEF FollowerStep, LivenessCheck, TakeResult, LockState, FindNoResult, Lead, Sleep,
       Wake
  <2> QED
    BY <2>1, <2>2 DEF ClosedIsQuiet
<1>7. ASSUME NEW r \in Requests, LeaderStep(r)
      PROVE  FALSE
  <2>1. pc[r] \notin {"new", "done"}
    BY <1>7, LeaderMoves DEF LeaderPCs
  <2>2. status # "closed"
    BY <2>1 DEF ClosedIsQuiet
  <2> QED
    BY <1>7, <2>2, LeaderMoves
<1> QED
  BY <1>1, <1>2, <1>3, <1>4, <1>5, <1>6, <1>7 DEF Next, ClosedIsQuiet

\* A durable commit stays one.
LEMMA DurableStays ==
  ASSUME TypeOK, [Next]_vars, NEW req, InLog(req, durable)
  PROVE  InLog(req, durable)'
<1>1. /\ durable \in Nat /\ durable' \in Nat /\ durable <= durable'
      /\ \A i \in 1 .. durable : log'[i] = log[i]
  BY LogStep, UsesLog DEF TypeOK, LogTypeOK
<1> QED
  BY <1>1 DEF InLog

\* A success that was handed over or returned stays covered by a barrier.
LEMMA AcknowledgedStep ==
  TypeOK /\ Successes /\ Acknowledged /\ [Next]_vars => Acknowledged'
<1> SUFFICES ASSUME TypeOK, Successes, Acknowledged, [Next]_vars, NEW s \in Requests,
                    result'[s] = "ok" \/ returned'[s] = "ok"
             PROVE  InLog(s, durable)'
  BY DEF Acknowledged, InLog
<1>0. /\ result \in [Requests -> Outcomes \cup {"none"}]
      /\ returned \in [Requests -> Outcomes \cup {"none", "inconsistent", "crashed"}]
  BY DEF TypeOK
<1>1. ASSUME result[s] = "ok" \/ returned[s] = "ok"
      PROVE  InLog(s, durable)'
  BY Zenon, <1>1, DurableStays DEF Acknowledged
<1>2. ASSUME NEW r \in Requests, CompleteNext(r), ~(result[s] = "ok" \/ returned[s] = "ok")
      PROVE  InLog(s, durable)'
  <2>1. completed \in Seq(Entry) /\ completed # <<>> /\ 1 \in DOMAIN completed
        /\ Head(completed) = completed[1] /\ completed[1] \in Entry
    BY <1>2 DEF CompleteNext, TypeOK
  <2>2. completed[1].req \in Requests
    BY <2>1 DEF Entry
  <2>3. s = completed[1].req /\ completed[1].res = "ok"
    BY Zenon, <1>0, <1>2, <2>1, <2>2 DEF CompleteNext
  <2>4. InLog(s, durable)
    BY ZenonT(40), <1>2, <2>1, <2>3 DEF CompleteNext, Successes, SuccessesWithin
  <2> QED
    BY <2>4, DurableStays
<1>3. ASSUME NEW r \in Requests, Submit(r) \/ FollowerStep(r) \/ LivenessCheck(r)
      PROVE  result[s] = "ok" \/ returned[s] = "ok"
  <2>1. CASE TakeResult(r)
    BY <1>0, <2>1 DEF TakeResult
  <2>2. CASE LivenessCheck(r)
    BY <1>0, <2>2 DEF LivenessCheck
  <2>3. CASE Submit(r) \/ LockState(r) \/ FindNoResult(r) \/ Lead(r) \/ Sleep(r) \/ Wake(r)
    BY <2>3, Zenon DEF Submit, LockState, FindNoResult, Lead, Sleep, Wake
  <2> QED
    BY Zenon, <1>3, <2>1, <2>2, <2>3 DEF FollowerStep
<1>4. ASSUME NEW r \in Requests, LeaderStep(r), ~CompleteNext(r)
      PROVE  result' = result /\ returned' = returned
  BY ZenonT(40), <1>4 DEF LeaderStep, LockDatabase, BeginGroup, BeginRefused, RunTask, EndRun,
     TaskPanics, FinishGroup, BarrierFails, BarrierUnreachable, SchemaCheckpointFails, DropGuard,
     FailFrontGroup, NotifyCompleted, ReleaseLeader, NotifyReleased
<1>5. ASSUME NEW x \in Readers, ReaderStep(x)
      PROVE  result' = result /\ returned' = returned
  BY <1>5 DEF ReaderStep, LookUpView, CaptureView, CheckView
<1>6. CASE Crash
  BY <1>1, <1>6 DEF Crash
<1>7. CASE Recover \/ UNCHANGED vars
  BY <1>1, <1>7, Zenon DEF Recover, vars
<1> QED
  BY <1>1, <1>2, <1>3, <1>4, <1>5, <1>6, <1>7, Zenon DEF Next

\* The places at which the leader has dequeued requests
GroupPCs == {"run", "finish", "drop", "complete"}

\* The successes among the dequeued requests stay in the log, and are covered by the
\* barrier once the leader has passed it.
LEMMA SuccessesStep ==
  TypeOK /\ OneLeader /\ ClosedIsQuiet /\ Successes /\ [Next]_vars => Successes'
<1> SUFFICES ASSUME TypeOK, OneLeader, ClosedIsQuiet, Successes, [Next]_vars
             PROVE  Successes'
  OBVIOUS
<1> DEFINE NoSuccess == \A i \in DOMAIN completed : completed[i].res # "ok"
<1>0. /\ pc \in [Requests -> PCs] /\ group \in Int /\ completed \in Seq(Entry)
      /\ log \in Seq(Requests) /\ durable \in 0 .. Len(log)
  BY DEF TypeOK, LogTypeOK
\* Steps outside a group
<1>1. ASSUME completed' = completed, group' = group, log' = log, durable' = durable,
             \A s \in Requests : pc[s] \in GroupPCs \/ pc'[s] \in GroupPCs => pc'[s] = pc[s]
      PROVE  Successes'
  <2>2. SuccessesWithin(durable) => SuccessesWithin(durable)'
    BY <1>1 DEF SuccessesWithin, InLog
  <2>3. SuccessesWithin(Len(log)) => SuccessesWithin(Len(log))'
    BY <1>1 DEF SuccessesWithin, InLog
  <2> QED
    BY <1>1, <2>2, <2>3 DEF Successes, GroupPCs
\* Steps of the leader within one
<1>2. ASSUME NEW r \in Requests, pc[r] \in LeaderPCs, NEW step \in GroupPCs, Goto(r, step),
             step \in {"run", "finish"} =>
               group' >= 0 /\ SuccessesWithin(Len(log))' /\ (group' = 0 => NoSuccess'),
             step \in {"drop", "complete"} => SuccessesWithin(durable)'
      PROVE  Successes'
  <2>1. pc'[r] = step /\ \A s \in Requests : s # r => pc'[s] \notin GroupPCs
    BY <1>0, <1>2 DEF OneLeader, Goto, GroupPCs, LeaderPCs
  <2> QED
    BY <1>2, <2>1 DEF Successes, GroupPCs
<1>3. ASSUME NEW r \in Requests, pc[r] \in LeaderPCs, pc[r] \notin GroupPCs
      PROVE  completed = <<>>
  BY <1>3 DEF Successes, OneLeader, GroupPCs, LeaderPCs
<1>4. NoSuccess' => SuccessesWithin(Len(log))' /\ SuccessesWithin(durable)'
  BY DEF SuccessesWithin
<1>5. ASSUME NEW r \in Requests, Submit(r) \/ FollowerStep(r) \/ LivenessCheck(r)
      PROVE  Successes'
  <2>1. /\ completed' = completed /\ group' = group /\ log' = log /\ durable' = durable
        /\ pc[r] \in {"new", "check", "locked", "no_result", "waiting"}
    BY <1>5, Zenon DEF Submit, FollowerStep, LivenessCheck, TakeResult, LockState, FindNoResult, Lead,
       Sleep, Wake, logVars, dbVars
  <2>2. \/ Goto(r, "check") \/ Goto(r, "locked") \/ Goto(r, "no_result")
        \/ Goto(r, "waiting") \/ Goto(r, "done") \/ Goto(r, "collect")
    BY <1>5, Zenon DEF Submit, FollowerStep, LivenessCheck, TakeResult, LockState, FindNoResult, Lead,
       Sleep, Wake
  <2>3. \A s \in Requests : pc[s] \in GroupPCs \/ pc'[s] \in GroupPCs => pc'[s] = pc[s]
    BY <1>0, <2>1, <2>2 DEF Goto, GroupPCs
  <2> QED
    BY <1>1, <2>1, <2>3
<1>6. ASSUME NEW r \in Requests,
             LockDatabase(r) \/ BeginRefused(r) \/ ReleaseLeader(r) \/ NotifyReleased(r)
      PROVE  Successes'
  <2>1. /\ completed' = completed /\ group' = group /\ log' = log /\ durable' = durable
        /\ pc[r] \in {"collect", "begin", "release", "release_notify"}
    BY <1>6 DEF LockDatabase, BeginRefused, ReleaseLeader, NotifyReleased, logVars, dbVars
  <2>2. \/ Goto(r, "begin") \/ Goto(r, "fail_front") \/ Goto(r, "release_notify")
        \/ Goto(r, "check")
    BY <1>6 DEF LockDatabase, BeginRefused, ReleaseLeader, NotifyReleased
  <2>3. \A s \in Requests : pc[s] \in GroupPCs \/ pc'[s] \in GroupPCs => pc'[s] = pc[s]
    BY <1>0, <2>1, <2>2 DEF Goto, GroupPCs
  <2> QED
    BY <1>1, <2>1, <2>3
<1>7. ASSUME NEW x \in Readers, ReaderStep(x)
      PROVE  Successes'
  BY <1>1, <1>7 DEF ReaderStep, LookUpView, CaptureView, CheckView, logVars, dbVars
<1>8. ASSUME NEW r \in Requests, BeginGroup(r)
      PROVE  Successes'
  <2>1. pc[r] = "begin" /\ Goto(r, "run") /\ group' = 0 /\ completed' = completed
    BY <1>8 DEF BeginGroup
  <2>2. completed = <<>>
    BY <1>3, <2>1 DEF LeaderPCs, GroupPCs
  <2>3. NoSuccess'
    BY <2>1, <2>2
  <2> QED
    BY <1>2, <1>4, <2>1, <2>3 DEF LeaderPCs, GroupPCs
<1>9. ASSUME NEW r \in Requests, FailFrontGroup(r)
      PROVE  Successes'
  <2>1. pc[r] = "fail_front" /\ Goto(r, "complete")
    BY <1>9 DEF FailFrontGroup
  <2>2. \A i \in DOMAIN completed' : completed'[i].res = "error"
    BY <1>9 DEF FailFrontGroup
  <2>3. NoSuccess'
    BY <2>2
  <2> QED
    BY <1>2, <1>4, <2>1, <2>3 DEF LeaderPCs, GroupPCs
<1>10. ASSUME NEW r \in Requests,
              TaskPanics(r) \/ BarrierFails(r) \/ BarrierUnreachable(r) \/ SchemaCheckpointFails(r)
       PROVE  Successes'
  <2>1. pc[r] \in {"run", "finish"} /\ (Goto(r, "drop") \/ Goto(r, "complete"))
    BY <1>10 DEF TaskPanics, BarrierFails, BarrierUnreachable, SchemaCheckpointFails
  <2>2. \E entries \in Seq(Entry) : completed' = Failed(entries)
    <3>1. CASE TaskPanics(r)
      <4>1. Head(queue) \in Requests
        BY <3>1 DEF TaskPanics, TypeOK
      <4>2. [req |-> Head(queue), res |-> "error"] \in Entry
        BY <4>1 DEF Entry, Outcomes
      <4>3. Append(completed, [req |-> Head(queue), res |-> "error"]) \in Seq(Entry)
        BY <1>0, <4>2
      <4> QED
        BY <3>1, <4>3, Zenon DEF TaskPanics
    <3>2. CASE BarrierFails(r)
      BY <1>0, <3>2, Zenon DEF BarrierFails
    <3>3. CASE BarrierUnreachable(r)
      BY <1>0, <3>3, Zenon DEF BarrierUnreachable
    <3>4. CASE SchemaCheckpointFails(r)
      BY <1>0, <3>4, Zenon DEF SchemaCheckpointFails
    <3> QED
      BY <1>10, <3>1, <3>2, <3>3, <3>4
  <2>3. NoSuccess'
    BY <2>2, FailedType
  <2> QED
    BY Zenon, <1>2, <1>4, <2>1, <2>3 DEF LeaderPCs, GroupPCs
<1>11. ASSUME NEW r \in Requests, RunTask(r)
       PROVE  Successes'
  <2>1. PICK outcome \in Outcomes :
          /\ TaskEffect(Head(queue), outcome)
          /\ completed' = Append(completed, [req |-> Head(queue), res |-> outcome])
    BY Zenon, <1>11 DEF RunTask
  <2>2. /\ pc[r] = "run" /\ group >= 0 /\ SuccessesWithin(Len(log))
        /\ group = 0 => NoSuccess
        /\ group' = group + (Len(log') - Len(log))
        /\ Goto(r, "run") \/ Goto(r, "finish")
    BY <1>11 DEF RunTask, Successes
  <2>3. /\ DOMAIN completed = 1 .. Len(completed) /\ Len(completed) \in Nat
        /\ DOMAIN completed' = 1 .. Len(completed) + 1
        /\ \A i \in 1 .. Len(completed) : completed'[i] = completed[i]
        /\ completed'[Len(completed) + 1] = [req |-> Head(queue), res |-> outcome]
    <3>1. [req |-> Head(queue), res |-> outcome] \in Entry
      BY <1>11 DEF RunTask, TypeOK, Entry
    <3> HIDE DEF NoSuccess
    <3>2. ASSUME NEW e \in Entry, NEW t, t = Append(completed, e)
          PROVE  /\ DOMAIN completed = 1 .. Len(completed) /\ Len(completed) \in Nat
                 /\ DOMAIN t = 1 .. Len(completed) + 1
                 /\ \A i \in 1 .. Len(completed) : t[i] = completed[i]
                 /\ t[Len(completed) + 1] = e
      <4>1. completed \in Seq(Entry)
        BY <1>0
      <4> QED
        BY <3>2, <4>1
    <3> QED
      BY SMTT(20), <2>1, <3>1, <3>2
  <2>4. \/ outcome # "ok" /\ log' = log
        \/ outcome = "ok" /\ log' = Append(log, Head(queue))
        \/ outcome # "ok" /\ log' = Append(log, Head(queue))
    BY <2>1 DEF TaskEffect, LogAppend, LogDoubt, LogAppendPoisoned, logVars
  <2>5. /\ Len(log) \in Nat /\ Len(log') \in Nat /\ Len(log) <= Len(log')
        /\ \A i \in 1 .. Len(log) : log'[i] = log[i]
        /\ outcome = "ok" => Len(log') = Len(log) + 1 /\ log'[Len(log')] = Head(queue)
    <3>1. ASSUME NEW c, c = Head(queue), log' = Append(log, c)
          PROVE  /\ Len(log) \in Nat /\ Len(log') = Len(log) + 1 /\ log'[Len(log')] = c
                 /\ \A i \in 1 .. Len(log) : log'[i] = log[i]
      <4>1. log \in Seq(Requests) /\ c \in Requests
        BY <1>0, <1>11, <3>1 DEF RunTask, TypeOK
      <4> QED
        BY SMTT(20), <3>1, <4>1
    <3>2. CASE log' = log /\ outcome # "ok"
      BY SMTT(20), <1>0, <3>2
    <3> QED
      BY <2>4, <3>1, <3>2
  <2>6. SuccessesWithin(Len(log))'
    <3> SUFFICES ASSUME NEW i \in DOMAIN completed', completed'[i].res = "ok"
                 PROVE  \E j \in 1 .. Len(log') : log'[j] = completed'[i].req
      BY DEF SuccessesWithin, InLog
    <3>1. CASE i \in 1 .. Len(completed)
      <4>1. \E j \in 1 .. Len(log) : log[j] = completed[i].req
        BY <2>2, <2>3, <3>1 DEF SuccessesWithin, InLog
      <4> QED
        BY SMTT(20), <2>3, <2>5, <3>1, <4>1
    <3>2. CASE i = Len(completed) + 1
      <4>1. outcome = "ok" /\ completed'[i].req = Head(queue)
        BY <2>3, <3>2
      <4> QED
        BY <2>5, <4>1
    <3> QED
      BY <2>3, <3>1, <3>2
  <2>7. group' >= 0 /\ (group' = 0 => NoSuccess')
    <3>1. group' >= 0 /\ (group' = 0 => group = 0 /\ outcome # "ok")
      BY <1>0, <2>2, <2>5
    <3>2. ASSUME group' = 0, NEW i \in DOMAIN completed'
          PROVE  completed'[i].res # "ok"
      <4>1. CASE i \in 1 .. Len(completed)
        BY <2>2, <2>3, <3>1, <3>2, <4>1, Zenon
      <4>2. CASE i = Len(completed) + 1
        BY <2>3, <3>1, <3>2, <4>2
      <4> QED
        BY <2>3, <3>2, <4>1, <4>2
    <3> QED
      BY <3>1, <3>2
  <2> QED
    BY Zenon, <1>2, <2>2, <2>6, <2>7 DEF LeaderPCs, GroupPCs
<1>12. ASSUME NEW r \in Requests, EndRun(r)
       PROVE  Successes'
  <2>1. /\ pc[r] = "run" /\ Goto(r, "finish")
        /\ group' = group /\ completed' = completed /\ log' = log
    BY <1>12 DEF EndRun, logVars, dbVars
  <2>2. group >= 0 /\ SuccessesWithin(Len(log)) /\ (group = 0 => NoSuccess)
    BY <2>1 DEF Successes
  <2>3. SuccessesWithin(Len(log))'
    BY <2>1, <2>2 DEF SuccessesWithin, InLog
  <2> QED
    BY <1>2, <2>1, <2>2, <2>3, Zenon DEF LeaderPCs, GroupPCs
<1>13. ASSUME NEW r \in Requests, FinishGroup(r)
       PROVE  Successes'
  <2>1. pc[r] = "finish" /\ Goto(r, "drop") /\ completed' = completed
    BY <1>13 DEF FinishGroup
  <2>2. SuccessesWithin(Len(log)) /\ (group = 0 => NoSuccess)
    BY <2>1 DEF Successes
  <2>3. group # 0 => log' = log /\ durable' = Len(log)
    BY <1>13 DEF FinishGroup, LogBarrier
  <2>4. SuccessesWithin(durable)'
    BY <2>1, <2>2, <2>3 DEF SuccessesWithin, InLog
  <2> QED
    BY <1>2, <2>1, <2>4 DEF LeaderPCs, GroupPCs
<1>14. ASSUME NEW r \in Requests, DropGuard(r) \/ CompleteNext(r)
       PROVE  Successes'
  <2>1. /\ pc[r] \in {"drop", "complete"} /\ Goto(r, "complete")
        /\ log' = log /\ durable' = durable
    BY <1>0, <1>14 DEF DropGuard, CompleteNext, Goto, logVars
  <2>2. SuccessesWithin(durable)
    BY <2>1 DEF Successes
  <2>3. \A i \in DOMAIN completed' : \E j \in DOMAIN completed : completed'[i] = completed[j]
    <3>1. CASE DropGuard(r)
      BY <3>1 DEF DropGuard
    <3>2. CASE CompleteNext(r)
      <4>1. completed # <<>> /\ completed' = Tail(completed)
        BY <3>2 DEF CompleteNext
      <4>2. /\ DOMAIN completed' = 1 .. Len(completed) - 1 /\ DOMAIN completed = 1 .. Len(completed)
            /\ Len(completed) \in Nat
            /\ \A i \in 1 .. Len(completed) - 1 : completed'[i] = completed[i + 1]
        <5>1. completed \in Seq(Entry)
          BY <1>0
        <5> QED
          BY <4>1, <5>1
      <4>3. ASSUME NEW i \in DOMAIN completed'
            PROVE  i + 1 \in DOMAIN completed /\ completed'[i] = completed[i + 1]
        BY SMTT(20), <4>2
      <4> QED
        BY <4>3
    <3> QED
      BY <1>14, <3>1, <3>2
  <2>4. SuccessesWithin(durable)'
    BY Zenon, <2>1, <2>2, <2>3 DEF SuccessesWithin, InLog
  <2> QED
    BY <1>2, <2>1, <2>4 DEF LeaderPCs, GroupPCs
<1>15. ASSUME NEW r \in Requests, NotifyCompleted(r)
       PROVE  Successes'
  <2>1. pc[r] = "complete" /\ Goto(r, "release") /\ completed' = <<>>
    BY <1>15 DEF NotifyCompleted
  <2>2. \A s \in Requests : pc'[s] \notin GroupPCs
    BY <1>0, <2>1 DEF OneLeader, Goto, GroupPCs, LeaderPCs
  <2> QED
    BY <2>1, <2>2 DEF Successes, GroupPCs
<1>16. CASE Crash
  BY <1>16, Zenon DEF Crash, Successes
<1>17. CASE Recover
  <2>1. status = "closed" /\ completed' = completed /\ pc' = pc
    BY <1>17 DEF Recover, LogOpen
  <2> QED
    BY <2>1 DEF ClosedIsQuiet, Successes
<1>18. CASE UNCHANGED vars
  BY <1>1, <1>18 DEF vars, logVars, dbVars
<1> QED
  BY <1>5, <1>6, <1>7, <1>8, <1>9, <1>10, <1>11, <1>12, <1>13, <1>14, <1>15, <1>16, <1>17, <1>18
     DEF Next, LeaderStep

\* The inductive invariant holds initially.
LEMMA InitDurableInv == Init => OneLeader /\ ClosedIsQuiet /\ Successes /\ Acknowledged
<1> SUFFICES ASSUME Init PROVE OneLeader /\ ClosedIsQuiet /\ Successes /\ Acknowledged
  OBVIOUS
<1>1. OneLeader
  <2>1. leaderActive = FALSE
    BY Zenon DEF Init
  <2>2. \A r \in Requests : pc[r] \notin LeaderPCs
    BY DEF Init, LeaderPCs
  <2> QED
    BY <2>1, <2>2, Zenon DEF OneLeader
<1>2. ClosedIsQuiet /\ Successes /\ Acknowledged
  BY DEF Init, LogInit, ClosedIsQuiet, Successes, Acknowledged
<1> QED
  BY <1>1, <1>2

\* The invariant holds in every reachable state
LEMMA DurableInvariant == Spec => []DurableInv
<1>1. Init => OneLeader /\ ClosedIsQuiet /\ Successes /\ Acknowledged
  BY InitDurableInv
<1>2. DurableInv /\ [Next]_vars => DurableInv'
  BY TypeOKStep, OneLeaderStep, ClosedIsQuietStep, SuccessesStep, AcknowledgedStep DEF DurableInv
<1> QED
  BY GroupTypeCorrect, <1>1, <1>2, PTL DEF Spec, DurableInv

\* What execute_grouped reports as committed is in the log before the last completed
\* barrier, whatever group it was part of, whatever failed, and however often the
\* process crashed and reopened since.
THEOREM AckedIsDurable == Spec => []AckedDurable
<1>1. DurableInv => AckedDurable
  BY DEF DurableInv, Acknowledged, AckedDurable, InLog
<1> QED
  BY DurableInvariant, <1>1, PTL

\* There is never a second leader, and leader_active never forgets the first.
THEOREM OneLeaderAlways == Spec => []OneLeader
<1>1. Init => OneLeader
  BY InitDurableInv
<1> QED
  BY GroupTypeCorrect, <1>1, OneLeaderStep, PTL DEF Spec

-----------------------------------------------------------------------------
(* Followers and readers: no request is forgotten, no thread sleeps through *)
(* its turn, a success is visible to every new reader, and a crash does not  *)
(* undo what a reader saw                                                   *)

USE Zenon

\* The places of a thread in execute_grouped
Active == PCs \ {"new", "done"}

InCompleted(r) == \E i \in 1 .. Len(completed) : completed[i].req = r
InQueue(r) == \E i \in 1 .. Len(queue) : queue[i] = r

\* A request in execute_grouped is queued, dequeued by a leader, or has its result
Placed == \A r \in Requests : pc[r] \in Active => InQueue(r) \/ InCompleted(r) \/ result[r] # "none"

\* The state mutex belongs to the thread that looks for its result
Locking == \A r \in Requests : pc[r] \in {"locked", "no_result"} => stateLock = r

\* A result that came after its thread had looked is still to be announced
LateResult ==
  \A r \in Requests : pc[r] = "no_result" /\ result[r] # "none" =>
    \E s \in Requests : pc[s] \in {"complete", "release"}

TurnInv == Placed /\ Locking /\ LateResult /\ NoMissedTurn

\* A new reader sees the commit r
Shown(r) == ReadUsable /\ published # None => r \in Range(published)

Visible ==
  /\ \A r \in Requests : result[r] = "ok" \/ returned[r] = "ok" => Shown(r)
  /\ \A s \in Requests : pc[s] = "complete" =>
       \A i \in 1 .. Len(completed) : completed[i].res = "ok" => Shown(completed[i].req)
  /\ status = "closed" => published = None

\* Until the first crash the barriers keep up with the log, but for the open group
Covered ==
  /\ crashes \in Nat
  /\ status = "closed" => crashes > 0
  /\ crashes = 0 /\ status = "open" =>
       /\ group < 0 => durable = Len(log)
       /\ \A r \in Requests : pc[r] \in {"run", "finish"} => durable + group = Len(log)

\* What the next crash will keep of the log that readers see
Kept == IF crashes = 0 \/ status = "closed" THEN durable ELSE Len(log)
Prefixed(v) == \E n \in 0 .. Kept : v = SubSeq(log, 1, n)

Surviving ==
  /\ status = "closed" => published = None /\ \A x \in Readers : reading[x] \in {"idle", "done", "error"}
  /\ crashes <= 1 =>
       /\ published # None => Prefixed(published)
       /\ \A x \in Readers : reading[x] \in {"check", "reading", "done"} => Prefixed(view[x])

ReadInv == Visible /\ Covered /\ Surviving
-----------------------------------------------------------------------------
(* Sequences *)

\* A dequeued element is no longer in the queue, and the others are
LEMMA Dequeued ==
  ASSUME NEW S, NEW f \in Seq(S), f # <<>>
  PROVE  /\ Len(f) \in Nat \ {0} /\ Head(f) = f[1] /\ Head(f) \in S /\ Tail(f) \in Seq(S)
         /\ Len(Tail(f)) = Len(f) - 1 /\ \A i \in 1 .. Len(f) - 1 : Tail(f)[i] = f[i + 1]
BY SMT

\* An appended element is the last one
LEMMA Enqueued ==
  ASSUME NEW S, NEW f \in Seq(S), NEW e \in S
  PROVE  /\ Append(f, e) \in Seq(S) /\ Len(f) \in Nat /\ Len(Append(f, e)) = Len(f) + 1
         /\ \A i \in 1 .. Len(f) : Append(f, e)[i] = f[i]
         /\ Append(f, e)[Len(f) + 1] = e
BY SMT

\* Turning results into failures keeps the requests
LEMMA FailedRequests ==
  ASSUME NEW entries \in Seq(Entry)
  PROVE  /\ Len(Failed(entries)) = Len(entries)
         /\ \A i \in 1 .. Len(entries) : Failed(entries)[i].req = entries[i].req
BY SMT DEF Failed

-----------------------------------------------------------------------------
(* Nobody is forgotten *)

\* A request leaves the queue only into the hands of a leader, and those with a result
LEMMA PlacedStep ==
  ASSUME DurableInv, Placed, [Next]_vars
  PROVE  Placed'
<1>0. /\ pc \in [Requests -> PCs] /\ queue \in Seq(Requests) /\ completed \in Seq(Entry)
      /\ result \in [Requests -> Outcomes \cup {"none"}]
  BY DEF DurableInv, TypeOK
\* What is placed stays placed
<1>1. ASSUME \A r \in Requests : InQueue(r) => InQueue(r)' \/ InCompleted(r)',
             \A r \in Requests : InCompleted(r) => InCompleted(r)',
             result' = result, \A r \in Requests : pc'[r] \in Active => pc[r] \in Active
      PROVE  Placed'
  BY <1>1 DEF Placed
<1>2. ASSUME UNCHANGED <<queue, completed>>
      PROVE  /\ \A r \in Requests : InQueue(r) => InQueue(r)'
             /\ \A r \in Requests : InCompleted(r) => InCompleted(r)'
  BY <1>2 DEF InQueue, InCompleted
<1>3. ASSUME NEW s \in Requests, pc[s] \in Active, NEW step, Goto(s, step)
      PROVE  \A r \in Requests : pc'[r] \in Active => pc[r] \in Active
  BY <1>0, <1>3 DEF Goto
<1>4. ASSUME NEW s \in Requests, Submit(s)
      PROVE  Placed'
  <2>1. queue' = Append(queue, s) /\ UNCHANGED <<completed, result>> /\ Goto(s, "check")
    BY <1>4 DEF Submit
  <2>2. InQueue(s)' /\ \A r \in Requests : InQueue(r) => InQueue(r)'
    BY SMT, <1>0, <2>1 DEF InQueue
  <2>3. \A r \in Requests : r # s => pc'[r] = pc[r]
    BY <1>0, <2>1 DEF Goto
  <2> QED BY <2>1, <2>2, <2>3 DEF Placed, InCompleted
<1>5. ASSUME NEW s \in Requests, TakeResult(s)
      PROVE  Placed'
  <2>1. /\ UNCHANGED <<queue, completed>> /\ pc'[s] = "done"
        /\ \A r \in Requests : r # s => pc'[r] = pc[r] /\ result'[r] = result[r]
    BY <1>0, <1>5 DEF TakeResult, Goto
  <2> QED BY <2>1 DEF Placed, InQueue, InCompleted, Active
<1>6. ASSUME NEW s \in Requests,
             LockState(s) \/ FindNoResult(s) \/ Lead(s) \/ Sleep(s) \/ Wake(s) \/ LivenessCheck(s)
      PROVE  Placed'
  <2>1. UNCHANGED <<queue, completed, result>> /\ pc[s] \in Active
    BY <1>6 DEF LockState, FindNoResult, Lead, Sleep, Wake, LivenessCheck, queueVars, Active, PCs
  <2>2. \E step : Goto(s, step)
    BY <1>6 DEF LockState, FindNoResult, Lead, Sleep, Wake, LivenessCheck
  <2> QED BY <1>1, <1>2, <1>3, <2>1, <2>2
<1>7. ASSUME NEW s \in Requests,
             \/ LockDatabase(s) \/ BeginGroup(s) \/ BeginRefused(s) \/ EndRun(s) \/ FinishGroup(s)
             \/ DropGuard(s) \/ NotifyCompleted(s) \/ ReleaseLeader(s) \/ NotifyReleased(s)
      PROVE  Placed'
  <2>1. UNCHANGED <<queue, completed, result>> /\ pc[s] \in Active
    BY <1>7 DEF LockDatabase, BeginGroup, BeginRefused, EndRun, FinishGroup, DropGuard,
       NotifyCompleted, ReleaseLeader, NotifyReleased, queueVars, Active, PCs
  <2>2. \E step : Goto(s, step)
    BY <1>7 DEF LockDatabase, BeginGroup, BeginRefused, EndRun, FinishGroup, DropGuard,
       NotifyCompleted, ReleaseLeader, NotifyReleased
  <2> QED BY <1>1, <1>2, <1>3, <2>1, <2>2
<1>8. ASSUME NEW s \in Requests, RunTask(s) \/ TaskPanics(s)
      PROVE  Placed'
  <2>1. /\ queue # <<>> /\ queue' = Tail(queue) /\ result' = result /\ pc[s] \in Active
        /\ \E step : Goto(s, step)
    BY <1>8 DEF RunTask, TaskPanics, Active, PCs
  <2>2. /\ Len(queue) \in Nat \ {0} /\ Head(queue) = queue[1] /\ Head(queue) \in Requests
        /\ Len(queue') = Len(queue) - 1 /\ \A i \in 1 .. Len(queue) - 1 : queue'[i] = queue[i + 1]
    BY <1>0, <2>1, Dequeued
  <2>3. \E e \in Entry : /\ e.req = Head(queue)
                         /\ completed' = Append(completed, e) \/ completed' = Failed(Append(completed, e))
    <3>1. \A res \in Outcomes : [req |-> Head(queue), res |-> res] \in Entry
      BY <2>2 DEF Entry
    <3>2. CASE RunTask(s)
      <4>1. PICK res \in Outcomes : completed' = Append(completed, [req |-> Head(queue), res |-> res])
        BY <3>2 DEF RunTask
      <4> QED BY SMT, <3>1, <4>1
    <3>3. CASE TaskPanics(s)
      BY <3>1, <3>3 DEF TaskPanics, Outcomes
    <3> QED BY <1>8, <3>2, <3>3
  <2>4. /\ Len(completed') = Len(completed) + 1 /\ Len(completed) \in Nat
        /\ \A i \in 1 .. Len(completed) : completed'[i].req = completed[i].req
        /\ completed'[Len(completed) + 1].req = Head(queue)
    <3>1. PICK e \in Entry : /\ e.req = Head(queue)
                             /\ \/ completed' = Append(completed, e)
                                \/ completed' = Failed(Append(completed, e))
      BY <2>3
    <3>2. /\ Append(completed, e) \in Seq(Entry) /\ Len(completed) \in Nat
          /\ Len(Append(completed, e)) = Len(completed) + 1
          /\ \A i \in 1 .. Len(completed) : Append(completed, e)[i] = completed[i]
          /\ Append(completed, e)[Len(completed) + 1] = e
      BY SMT, <1>0, Enqueued
    <3>3. CASE completed' = Append(completed, e)
      BY <3>1, <3>2, <3>3
    <3>4. CASE completed' = Failed(Append(completed, e))
      <4>1. /\ Len(completed') = Len(completed) + 1
            /\ \A i \in 1 .. Len(completed) + 1 : completed'[i].req = Append(completed, e)[i].req
        BY <3>2, <3>4, FailedRequests
      <4> QED BY SMT, <3>1, <3>2, <4>1
    <3> QED BY <3>1, <3>3, <3>4
  <2>5. \A r \in Requests : InQueue(r) => InQueue(r)' \/ InCompleted(r)'
    <3> SUFFICES ASSUME NEW i \in 1 .. Len(queue)
                 PROVE  \/ \E j \in 1 .. Len(queue') : queue'[j] = queue[i]
                        \/ \E j \in 1 .. Len(completed') : completed'[j].req = queue[i]
      BY DEF InQueue, InCompleted
    <3>1. CASE i = 1
      BY SMT, <2>2, <2>4, <3>1
    <3>2. CASE i # 1
      <4>1. i - 1 \in 1 .. Len(queue') /\ queue'[i - 1] = queue[i]
        BY SMT, <2>2, <3>2
      <4> QED BY <4>1
    <3> QED BY <3>1, <3>2
  <2>6. \A r \in Requests : InCompleted(r) => InCompleted(r)'
    BY SMT, <2>4 DEF InCompleted
  <2> QED BY <1>1, <1>3, <2>1, <2>5, <2>6
<1>9. ASSUME NEW s \in Requests, BarrierFails(s) \/ BarrierUnreachable(s) \/ SchemaCheckpointFails(s)
      PROVE  Placed'
  <2>1. /\ queue' = queue /\ completed' = Failed(completed) /\ result' = result /\ pc[s] \in Active
        /\ \E step : Goto(s, step)
    BY <1>9 DEF BarrierFails, BarrierUnreachable, SchemaCheckpointFails, queueVars, Active, PCs
  <2>2. \A r \in Requests : InCompleted(r) => InCompleted(r)'
    BY <1>0, <2>1, FailedRequests DEF InCompleted
  <2>3. \A r \in Requests : InQueue(r) => InQueue(r)'
    BY <2>1 DEF InQueue
  <2> QED BY <1>1, <1>3, <2>1, <2>2, <2>3
<1>10. ASSUME NEW s \in Requests, FailFrontGroup(s)
       PROVE  Placed'
  <2> DEFINE count == IF Len(queue) < MaxEntries THEN Len(queue) ELSE MaxEntries
  <2>1. /\ completed' = [i \in 1 .. count |-> [req |-> queue[i], res |-> "error"]]
        /\ queue' = SubSeq(queue, count + 1, Len(queue))
        /\ result' = result /\ pc[s] = "fail_front" /\ Goto(s, "complete")
    BY <1>10 DEF FailFrontGroup
  <2>2. count \in Nat /\ Len(queue) \in Nat /\ count <= Len(queue)
    BY SMT, <1>0, GroupCommitAssumption
  <2> HIDE DEF count
  <2>3. /\ Len(completed') = count /\ \A i \in 1 .. count : completed'[i].req = queue[i]
    BY SMT, <2>1, <2>2
  <2>4. /\ Len(queue') = Len(queue) - count
        /\ \A i \in 1 .. Len(queue) - count : queue'[i] = queue[count + i]
    BY SMT, <1>0, <2>1, <2>2
  <2>5. \A r \in Requests : InQueue(r) => InQueue(r)' \/ InCompleted(r)'
    <3> SUFFICES ASSUME NEW i \in 1 .. Len(queue)
                 PROVE  \/ \E j \in 1 .. Len(queue') : queue'[j] = queue[i]
                        \/ \E j \in 1 .. Len(completed') : completed'[j].req = queue[i]
      BY DEF InQueue, InCompleted
    <3>1. CASE i <= count
      BY SMT, <2>2, <2>3, <3>1
    <3>2. CASE ~(i <= count)
      <4>1. i - count \in 1 .. Len(queue') /\ queue'[i - count] = queue[i]
        BY SMT, <2>2, <2>4, <3>2
      <4> QED BY <4>1
    <3> QED BY <3>1, <3>2
  <2>6. completed = <<>>
    BY <2>1 DEF DurableInv, OneLeader, Successes, LeaderPCs
  <2>7. \A r \in Requests : InCompleted(r) => InCompleted(r)'
    BY SMT, <2>6 DEF InCompleted
  <2>8. pc[s] \in Active
    BY <2>1 DEF Active, PCs
  <2> QED BY <1>1, <1>3, <2>1, <2>5, <2>7, <2>8
<1>11. ASSUME NEW s \in Requests, CompleteNext(s)
       PROVE  Placed'
  <2>1. /\ completed # <<>> /\ completed' = Tail(completed) /\ UNCHANGED <<queue, pc>>
        /\ result' = [result EXCEPT ![Head(completed).req] = Head(completed).res]
    BY <1>11 DEF CompleteNext, queueVars
  <2>2. /\ Len(completed) \in Nat \ {0} /\ Head(completed) = completed[1]
        /\ Head(completed) \in Entry /\ Len(completed') = Len(completed) - 1
        /\ \A i \in 1 .. Len(completed) - 1 : completed'[i] = completed[i + 1]
    BY <1>0, <2>1, Dequeued
  <2>3. completed[1].req \in Requests /\ completed[1].res # "none"
    BY <2>2 DEF Entry, Outcomes
  <2>4. \A r \in Requests : result'[r] = IF r = completed[1].req THEN completed[1].res ELSE result[r]
    BY <1>0, <2>1, <2>2
  <2>5. \A r \in Requests : InCompleted(r) => r = completed[1].req \/ InCompleted(r)'
    <3> SUFFICES ASSUME NEW i \in 1 .. Len(completed), i # 1
                 PROVE  \E j \in 1 .. Len(completed') : completed'[j].req = completed[i].req
      BY DEF InCompleted
    <3>1. i - 1 \in 1 .. Len(completed') /\ completed'[i - 1] = completed[i]
      BY SMT, <2>2
    <3> QED BY <3>1
  <2> QED BY <2>1, <2>3, <2>4, <2>5 DEF Placed, InQueue
<1>12. ASSUME NEW x \in Readers, ReaderStep(x)
       PROVE  Placed'
  BY <1>12 DEF ReaderStep, LookUpView, CaptureView, CheckView, queueVars, Placed, InQueue, InCompleted
<1>13. CASE Crash
  BY <1>13 DEF Crash, Placed, Active
<1>14. CASE Recover \/ UNCHANGED vars
  BY <1>14 DEF Recover, vars, queueVars, Placed, InQueue, InCompleted
<1> QED
  BY <1>4, <1>5, <1>6, <1>7, <1>8, <1>9, <1>10, <1>11, <1>12, <1>13, <1>14
     DEF Next, FollowerStep, LeaderStep

\* The thread that looks for its result holds the state mutex until it leads or sleeps
LEMMA LockingStep ==
  ASSUME TypeOK, Locking, [Next]_vars
  PROVE  Locking'
<1>0. pc \in [Requests -> PCs]
  BY DEF TypeOK
\* Another thread moves, and not to where the mutex is held
<1>1. ASSUME NEW s \in Requests, NEW step, Goto(s, step), step \notin {"locked", "no_result"},
             stateLock' = stateLock
      PROVE  Locking'
  BY <1>0, <1>1 DEF Locking, Goto
\* The holder lets go of it
<1>2. ASSUME NEW s \in Requests, NEW step, Goto(s, step), step \notin {"locked", "no_result"},
             pc[s] \in {"locked", "no_result"}
      PROVE  Locking'
  BY <1>0, <1>2 DEF Locking, Goto
<1>3. ASSUME NEW s \in Requests, LockState(s)
      PROVE  Locking'
  <2>1. stateLock = None /\ stateLock' = s /\ Goto(s, "locked")
    BY <1>3 DEF LockState
  <2> QED BY <1>0, <2>1, GroupCommitAssumption DEF Locking, Goto
<1>4. ASSUME NEW s \in Requests, FindNoResult(s)
      PROVE  Locking'
  BY <1>0, <1>4 DEF FindNoResult, Locking, Goto, queueVars
<1>5. ASSUME NEW s \in Requests, TakeResult(s) \/ Lead(s) \/ Sleep(s)
      PROVE  Locking'
  BY <1>1, <1>2, <1>5 DEF TakeResult, Lead, Sleep
<1>6. ASSUME NEW s \in Requests, Submit(s) \/ Wake(s) \/ LivenessCheck(s)
      PROVE  Locking'
  BY <1>1, <1>6 DEF Submit, Wake, LivenessCheck
<1>7. ASSUME NEW s \in Requests, LeaderStep(s), ~CompleteNext(s)
      PROVE  Locking'
  <2>1. stateLock' = stateLock
    BY <1>7 DEF LeaderStep, LockDatabase, BeginGroup, BeginRefused, RunTask, EndRun,
       TaskPanics, FinishGroup, BarrierFails, BarrierUnreachable, SchemaCheckpointFails, DropGuard,
       FailFrontGroup, NotifyCompleted, ReleaseLeader, NotifyReleased, queueVars
  <2>2. Leads(s) \/ ReleaseLeader(s) \/ NotifyReleased(s)
    BY <1>7, LeaderMoves
  <2> QED BY <1>1, <2>1, <2>2 DEF Leads, ReleaseLeader, NotifyReleased
<1>8. ASSUME NEW s \in Requests, CompleteNext(s)
      PROVE  Locking'
  BY <1>8 DEF CompleteNext, Locking, queueVars
<1>9. ASSUME NEW x \in Readers, ReaderStep(x)
      PROVE  Locking'
  BY <1>9 DEF ReaderStep, LookUpView, CaptureView, CheckView, queueVars, Locking
<1>10. CASE Crash
  BY <1>10 DEF Crash, Locking
<1>11. CASE Recover \/ UNCHANGED vars
  BY <1>11 DEF Recover, vars, queueVars, Locking
<1> QED
  BY <1>3, <1>4, <1>5, <1>6, <1>7, <1>8, <1>9, <1>10, <1>11 DEF Next, FollowerStep

\* A leader announces the results it hands out: a thread that missed one while it went
\* to sleep still holds up release_leader
LEMMA LateResultStep ==
  ASSUME TypeOK, Locking, LateResult, [Next]_vars
  PROVE  LateResult'
<1>0. pc \in [Requests -> PCs] /\ result \in [Requests -> Outcomes \cup {"none"}]
  BY DEF TypeOK
<1> SUFFICES ASSUME NEW r \in Requests, pc'[r] = "no_result", result'[r] # "none"
             PROVE  \E s \in Requests : pc'[s] \in {"complete", "release"}
  BY DEF LateResult
\* A thread with a result was there before, unless a leader hands it out now
<1>1. ASSUME NEW s \in Requests, Submit(s) \/ FollowerStep(s) \/ LivenessCheck(s)
      PROVE  /\ pc[r] = "no_result" /\ result[r] # "none"
             /\ \A q \in Requests : pc[q] \in {"complete", "release"} => pc'[q] = pc[q]
  <2>1. CASE TakeResult(s)
    BY <1>0, <2>1 DEF TakeResult, Goto
  <2>2. CASE Submit(s) \/ LockState(s) \/ Lead(s) \/ Sleep(s) \/ Wake(s) \/ LivenessCheck(s)
    BY <1>0, <2>2 DEF Submit, LockState, Lead, Sleep, Wake, LivenessCheck, Goto
  <2>3. CASE FindNoResult(s)
    BY <1>0, <2>3 DEF FindNoResult, Goto
  <2> QED BY <1>1, <2>1, <2>2, <2>3 DEF FollowerStep
<1>2. ASSUME NEW s \in Requests, CompleteNext(s)
      PROVE  pc'[s] = "complete"
  BY <1>2 DEF CompleteNext
<1>3. ASSUME NEW s \in Requests, LeaderStep(s), ~CompleteNext(s)
      PROVE  \E q \in Requests : pc'[q] \in {"complete", "release"}
  <2>1. result' = result
    BY <1>3 DEF LeaderStep, LockDatabase, BeginGroup, BeginRefused, RunTask, EndRun,
       TaskPanics, FinishGroup, BarrierFails, BarrierUnreachable, SchemaCheckpointFails, DropGuard,
       FailFrontGroup, NotifyCompleted, ReleaseLeader, NotifyReleased
  <2>2. Leads(s) \/ ReleaseLeader(s) \/ NotifyReleased(s)
    BY <1>3, LeaderMoves
  <2>3. pc[r] = "no_result"
    BY <1>0, <2>2 DEF Leads, ReleaseLeader, NotifyReleased, Goto
  <2>4. stateLock # None
    BY <2>3, GroupCommitAssumption DEF Locking
  <2>5. ~ReleaseLeader(s)
    BY <2>4 DEF ReleaseLeader
  <2>6. PICK q \in Requests : pc[q] \in {"complete", "release"}
    BY <2>1, <2>3 DEF LateResult
  <2>7. CASE pc'[q] = pc[q]
    BY <2>6, <2>7
  <2>8. CASE pc'[q] # pc[q]
    <3>1. q = s
      BY <1>0, <2>2, <2>8 DEF Leads, ReleaseLeader, NotifyReleased, Goto
    <3>2. NotifyCompleted(s)
      BY <1>3, <2>5, <2>6, <3>1 DEF LeaderStep, LockDatabase, BeginGroup, BeginRefused, RunTask,
         EndRun, TaskPanics, FinishGroup, BarrierFails, BarrierUnreachable, SchemaCheckpointFails,
         DropGuard, FailFrontGroup, NotifyReleased
    <3> QED BY <1>0, <3>2 DEF NotifyCompleted, Goto
  <2> QED BY <2>7, <2>8
<1>4. ASSUME NEW x \in Readers, ReaderStep(x)
      PROVE  UNCHANGED <<pc, result>>
  BY <1>4 DEF ReaderStep, LookUpView, CaptureView, CheckView
<1>5. CASE Crash
  BY <1>5 DEF Crash
<1>6. CASE Recover \/ UNCHANGED vars
  BY <1>6 DEF Recover, vars, LateResult
<1> QED
  BY <1>1, <1>2, <1>3, <1>4, <1>5, <1>6 DEF Next, LateResult

\* Whatever gives a sleeping thread a result, or its turn, is followed by a notify_all
LEMMA NoMissedTurnStep ==
  ASSUME DurableInv, LateResult, NoMissedTurn, [Next]_vars
  PROVE  NoMissedTurn'
<1>0. /\ pc \in [Requests -> PCs] /\ result \in [Requests -> Outcomes \cup {"none"}]
      /\ LateResult /\ OneLeader
  BY DEF DurableInv, TypeOK
<1> DEFINE A == {"complete", "release", "release_notify"}
<1> SUFFICES ASSUME NEW r \in Requests, pc'[r] = "waiting", r \notin notified',
                    result'[r] # "none" \/ CanLead(r)'
             PROVE  \E s \in Requests : pc'[s] \in A
  BY DEF NoMissedTurn
\* It had missed nothing that was not about to be announced, and the announcer is there
<1>1. ASSUME pc[r] = "waiting", r \notin notified, result[r] # "none" \/ CanLead(r),
             \A q \in Requests : pc[q] \in A => pc'[q] = pc[q]
      PROVE  \E s \in Requests : pc'[s] \in A
  BY <1>1 DEF NoMissedTurn
\* A notify_all reaches it
<1>2. ASSUME notified' = Waiting, NEW s \in Requests, NEW step, step # "waiting", Goto(s, step)
      PROVE  FALSE
  BY <1>0, <1>2 DEF Waiting, Goto
<1>3. ASSUME NEW s \in Requests, Submit(s)
      PROVE  FALSE
  BY <1>2, <1>3 DEF Submit
<1>4. ASSUME NEW s \in Requests, TakeResult(s)
      PROVE  \E q \in Requests : pc'[q] \in A
  <2>1. /\ pc[s] \in {"check", "locked"} /\ UNCHANGED <<queue, leaderActive, notified>>
        /\ Goto(s, "done") /\ result' = [result EXCEPT ![s] = "none"]
    BY <1>4 DEF TakeResult
  <2>2. /\ s # r /\ pc[r] = "waiting" /\ result'[r] = result[r]
        /\ \A q \in Requests : pc[q] \in A => pc'[q] = pc[q]
    BY <1>0, <2>1 DEF Goto
  <2> QED BY <1>1, <2>1, <2>2 DEF CanLead
<1>5. ASSUME NEW s \in Requests, LockState(s) \/ FindNoResult(s) \/ Lead(s) \/ Wake(s) \/ LivenessCheck(s)
      PROVE  \E q \in Requests : pc'[q] \in A
  <2>1. /\ pc[s] \in {"check", "locked", "no_result", "waiting"} /\ UNCHANGED <<queue, result>>
        /\ leaderActive' = leaderActive \/ leaderActive' = TRUE
        /\ notified' = notified \/ notified' = notified \ {s}
        /\ \E step \in {"locked", "no_result", "collect", "check", "done"} : Goto(s, step)
    BY <1>5 DEF LockState, FindNoResult, Lead, Wake, LivenessCheck, queueVars
  <2>2. /\ s # r /\ pc[r] = "waiting" /\ \A q \in Requests : pc[q] \in A => pc'[q] = pc[q]
    BY <1>0, <2>1 DEF Goto
  <2>3. CanLead(r)' => CanLead(r)
    BY <2>1 DEF CanLead
  <2> QED BY <1>1, <2>1, <2>2, <2>3
<1>6. ASSUME NEW s \in Requests, Sleep(s)
      PROVE  \E q \in Requests : pc'[q] \in A
  <2>1. /\ pc[s] = "no_result" /\ UNCHANGED <<queue, leaderActive, notified, result>>
        /\ Goto(s, "waiting") /\ ~CanLead(s)
    BY <1>6 DEF Sleep
  <2>2. \A q \in Requests : pc[q] \in A => pc'[q] = pc[q]
    BY <1>0, <2>1 DEF Goto
  <2>3. CanLead(r)' => CanLead(r)
    BY <2>1 DEF CanLead
  <2>4. CASE r = s
    BY <1>0, <2>1, <2>2, <2>3, <2>4 DEF LateResult
  <2>5. CASE r # s
    <3>1. pc[r] = "waiting"
      BY <1>0, <2>1, <2>5 DEF Goto
    <3> QED BY <1>1, <2>1, <2>2, <2>3, <3>1
  <2> QED BY <2>4, <2>5
<1>7. ASSUME NEW s \in Requests, NotifyCompleted(s) \/ NotifyReleased(s)
      PROVE  FALSE
  BY <1>2, <1>7 DEF NotifyCompleted, NotifyReleased
<1>8. ASSUME NEW s \in Requests, CompleteNext(s) \/ ReleaseLeader(s)
      PROVE  pc'[s] \in A
  BY <1>0, <1>8 DEF CompleteNext, ReleaseLeader, Goto
<1>9. ASSUME NEW s \in Requests, LeaderStep(s),
             ~NotifyCompleted(s), ~NotifyReleased(s), ~CompleteNext(s), ~ReleaseLeader(s)
      PROVE  \E q \in Requests : pc'[q] \in A
  <2>1. Leads(s)
    BY <1>9, LeaderMoves
  <2>2. UNCHANGED <<notified, result>> /\ pc[s] \notin A
    BY <1>9 DEF LeaderStep, LockDatabase, BeginGroup, BeginRefused, RunTask, EndRun,
       TaskPanics, FinishGroup, BarrierFails, BarrierUnreachable, SchemaCheckpointFails, DropGuard,
       FailFrontGroup, queueVars
  <2>3. ~CanLead(r)'
    BY <1>0, <2>1 DEF Leads, OneLeader, CanLead
  <2>4. pc[r] = "waiting" /\ \A q \in Requests : pc[q] \in A => pc'[q] = pc[q]
    BY <1>0, <2>1, <2>2 DEF Leads, Goto
  <2> QED BY <1>1, <2>2, <2>3, <2>4
<1>10. ASSUME NEW x \in Readers, ReaderStep(x)
       PROVE  \E q \in Requests : pc'[q] \in A
  <2>1. UNCHANGED <<pc, result, queue, leaderActive, notified>>
    BY <1>10 DEF ReaderStep, LookUpView, CaptureView, CheckView, queueVars
  <2> QED BY <1>1, <2>1 DEF CanLead
<1>11. CASE Crash
  BY <1>11 DEF Crash
<1>12. CASE Recover \/ UNCHANGED vars
  <2>1. UNCHANGED <<pc, result, queue, leaderActive, notified>>
    BY <1>12 DEF Recover, vars, queueVars
  <2> QED BY <1>1, <2>1 DEF CanLead
<1> QED
  BY <1>3, <1>4, <1>5, <1>6, <1>7, <1>8, <1>9, <1>10, <1>11, <1>12 DEF Next, FollowerStep

-----------------------------------------------------------------------------
(* Success is visible *)

\* Only a crash brings reads back, and a new view is the whole log
LEMMA PublishedSteps ==
  ASSUME DurableInv, [Next]_vars, ~Crash, ~Recover
  PROVE  \/ published' = log /\ log' = log /\ ~(group >= 0) /\ status = "open"
         \/ published' = published /\ (ReadUsable' => ReadUsable)
<1> USE DEF ReadUsable, Usable, logVars, dbVars, publicationVars
<1>0. publicationFailed \in BOOLEAN /\ dbPoisoned \in BOOLEAN
  BY DEF DurableInv, TypeOK
<1>1. ASSUME NEW s \in Requests, Submit(s) \/ FollowerStep(s) \/ LivenessCheck(s)
      PROVE  UNCHANGED <<published, publicationFailed, dbPoisoned, status>>
  BY <1>1 DEF Submit, FollowerStep, LivenessCheck, TakeResult, LockState, FindNoResult, Lead,
     Sleep, Wake
<1>2. ASSUME NEW s \in Requests, BeginRefused(s) \/ DropGuard(s)
      PROVE  \/ published' = log /\ log' = log /\ ~(group >= 0) /\ status = "open"
             \/ published' = published /\ (ReadUsable' => ReadUsable)
  BY <1>2 DEF BeginRefused, DropGuard, PublishView
<1>3. ASSUME NEW s \in Requests, LeaderStep(s), ~BeginRefused(s), ~DropGuard(s), ~TaskPanics(s)
      PROVE  UNCHANGED <<published, publicationFailed, dbPoisoned>> /\ (status' = "open" => status = "open")
  BY <1>3 DEF LeaderStep, LockDatabase, BeginGroup, RunTask, EndRun, FinishGroup, BarrierFails,
     BarrierUnreachable, SchemaCheckpointFails, FailFrontGroup, CompleteNext, NotifyCompleted,
     ReleaseLeader, NotifyReleased, TaskEffect, LogAppend, LogDoubt, LogAppendPoisoned, LogBarrier,
     LogPoison, LogBarrierPoisoned
<1>4. ASSUME NEW s \in Requests, TaskPanics(s)
      PROVE  published' = published /\ ~ReadUsable'
  BY <1>4 DEF TaskPanics
<1>5. ASSUME NEW x \in Readers, ReaderStep(x)
      PROVE  /\ UNCHANGED <<log, publicationFailed, dbPoisoned, status>>
             /\ \/ published' = published
                \/ published' = log /\ ~(group >= 0) /\ status = "open"
  <2>1. /\ UNCHANGED <<log, publicationFailed, dbPoisoned, status>>
        /\ published' = published \/ (published' = log /\ group = -1 /\ status = "open")
    BY <1>5 DEF ReaderStep, LookUpView, CaptureView, CheckView
  <2>2. group = -1 => ~(group >= 0)
    BY SMT
  <2> QED BY <2>1, <2>2
<1>6. CASE UNCHANGED vars
  BY <1>6 DEF vars
<1> QED BY <1>1, <1>2, <1>3, <1>4, <1>5, <1>6 DEF Next

\* A success is new only when complete_commit_requests hands it out
LEMMA NewResult ==
  ASSUME DurableInv, [Next]_vars, ~Crash, NEW r \in Requests, result'[r] = "ok" \/ returned'[r] = "ok",
         Visible
  PROVE  Shown(r)
<1>0. /\ result \in [Requests -> Outcomes \cup {"none"}] /\ completed \in Seq(Entry)
      /\ returned \in [Requests -> Outcomes \cup {"none", "inconsistent", "crashed"}]
  BY DEF DurableInv, TypeOK
<1>1. ASSUME result[r] = "ok" \/ returned[r] = "ok"
      PROVE  Shown(r)
  BY <1>1 DEF Visible
<1>2. ASSUME NEW s \in Requests, CompleteNext(s)
      PROVE  Shown(r)
  <2>1. /\ pc[s] = "complete" /\ completed # <<>> /\ returned' = returned
        /\ result' = [result EXCEPT ![Head(completed).req] = Head(completed).res]
    BY <1>2 DEF CompleteNext
  <2>2. Head(completed) = completed[1] /\ completed[1] \in Entry /\ 1 \in 1 .. Len(completed)
    BY SMT, <1>0, <2>1
  <2>3. result[r] = "ok" \/ returned[r] = "ok" \/ (r = completed[1].req /\ completed[1].res = "ok")
    BY <1>0, <2>1, <2>2
  <2> QED BY <1>1, <2>1, <2>2, <2>3 DEF Visible
<1>3. ASSUME NEW s \in Requests, Submit(s) \/ FollowerStep(s) \/ LivenessCheck(s)
      PROVE  result[r] = "ok" \/ returned[r] = "ok"
  <2>1. CASE TakeResult(s)
    BY <1>0, <2>1 DEF TakeResult
  <2>2. CASE LivenessCheck(s)
    BY <1>0, <2>2 DEF LivenessCheck
  <2>3. CASE Submit(s) \/ LockState(s) \/ FindNoResult(s) \/ Lead(s) \/ Sleep(s) \/ Wake(s)
    BY <2>3 DEF Submit, LockState, FindNoResult, Lead, Sleep, Wake
  <2> QED BY <1>3, <2>1, <2>2, <2>3 DEF FollowerStep
<1>4. ASSUME NEW s \in Requests, LeaderStep(s), ~CompleteNext(s)
      PROVE  UNCHANGED <<result, returned>>
  BY <1>4 DEF LeaderStep, LockDatabase, BeginGroup, BeginRefused, RunTask, EndRun,
     TaskPanics, FinishGroup, BarrierFails, BarrierUnreachable, SchemaCheckpointFails, DropGuard,
     FailFrontGroup, NotifyCompleted, ReleaseLeader, NotifyReleased
<1>5. ASSUME NEW x \in Readers, ReaderStep(x)
      PROVE  UNCHANGED <<result, returned>>
  BY <1>5 DEF ReaderStep, LookUpView, CaptureView, CheckView
<1>6. CASE Recover \/ UNCHANGED vars
  BY <1>1, <1>6 DEF Recover, vars
<1> QED BY <1>1, <1>2, <1>3, <1>4, <1>5, <1>6 DEF Next

\* While results are handed out, no request is dequeued
LEMMA StillCompleting ==
  ASSUME DurableInv, [Next]_vars, ~Crash, ~Recover, NEW s \in Requests, pc[s] = "complete",
         NEW i \in 1 .. Len(completed')
  PROVE  \E j \in 1 .. Len(completed) : completed[j] = completed'[i]
<1>0. completed \in Seq(Entry) /\ OneLeader
  BY DEF DurableInv, TypeOK
<1>1. ASSUME completed' = completed
      PROVE  \E j \in 1 .. Len(completed) : completed[j] = completed'[i]
  BY <1>1
<1>2. ASSUME NEW q \in Requests, Submit(q) \/ FollowerStep(q) \/ LivenessCheck(q)
      PROVE  completed' = completed
  BY <1>2 DEF Submit, FollowerStep, LivenessCheck, TakeResult, LockState, FindNoResult, Lead,
     Sleep, Wake
<1>3. ASSUME NEW x \in Readers, ReaderStep(x)
      PROVE  completed' = completed
  BY <1>3 DEF ReaderStep, LookUpView, CaptureView, CheckView
<1>4. ASSUME NEW q \in Requests, CompleteNext(q)
      PROVE  \E j \in 1 .. Len(completed) : completed[j] = completed'[i]
  <2>1. completed # <<>> /\ completed' = Tail(completed)
    BY <1>4 DEF CompleteNext
  <2>2. i + 1 \in 1 .. Len(completed) /\ completed[i + 1] = completed'[i]
    BY SMT, <1>0, <2>1
  <2> QED BY <2>2
<1>5. ASSUME NEW q \in Requests, LeaderStep(q), ~CompleteNext(q)
      PROVE  completed' = completed
  <2>1. q = s \/ pc[q] = "release_notify"
    BY <1>0, <1>5, LeaderMoves DEF OneLeader, LeaderPCs
  <2> QED BY <1>5, <2>1 DEF LeaderStep, LockDatabase, BeginGroup, BeginRefused, RunTask, EndRun,
     TaskPanics, FinishGroup, BarrierFails, BarrierUnreachable, SchemaCheckpointFails, DropGuard,
     FailFrontGroup, NotifyCompleted, ReleaseLeader, NotifyReleased
<1> QED BY <1>1, <1>2, <1>3, <1>4, <1>5 DEF Next, vars

\* A leader with a success to hand out has just dropped the commit guard
LEMMA NowCompleting ==
  ASSUME DurableInv, [Next]_vars, ~Crash, ~Recover, NEW s \in Requests, pc[s] # "complete",
         pc'[s] = "complete", NEW i \in 1 .. Len(completed'), completed'[i].res = "ok"
  PROVE  DropGuard(s)
<1>0. /\ pc \in [Requests -> PCs] /\ queue \in Seq(Requests) /\ completed \in Seq(Entry)
  BY DEF DurableInv, TypeOK
<1>1. ASSUME NEW q \in Requests, Submit(q) \/ FollowerStep(q) \/ LivenessCheck(q)
      PROVE  FALSE
  BY <1>0, <1>1 DEF Submit, FollowerStep, LivenessCheck, TakeResult, LockState, FindNoResult, Lead,
     Sleep, Wake, Goto
<1>2. ASSUME NEW x \in Readers, ReaderStep(x)
      PROVE  FALSE
  BY <1>2 DEF ReaderStep, LookUpView, CaptureView, CheckView
<1>3. ASSUME NEW q \in Requests, LeaderStep(q), ~DropGuard(q), ~TaskPanics(q), ~FailFrontGroup(q)
      PROVE  FALSE
  BY <1>0, <1>3 DEF LeaderStep, LockDatabase, BeginGroup, BeginRefused, RunTask, EndRun,
     FinishGroup, BarrierFails, BarrierUnreachable, SchemaCheckpointFails,
     CompleteNext, NotifyCompleted, ReleaseLeader, NotifyReleased, Goto
<1>4. ASSUME NEW q \in Requests, DropGuard(q)
      PROVE  q = s
  BY <1>0, <1>4 DEF DropGuard, Goto
<1>5. ASSUME NEW q \in Requests, TaskPanics(q)
      PROVE  FALSE
  <2>1. Head(queue) \in Requests
    BY SMT, <1>0, <1>5 DEF TaskPanics
  <2>2. [req |-> Head(queue), res |-> "error"] \in Entry
    BY <2>1 DEF Entry, Outcomes
  <2>3. Append(completed, [req |-> Head(queue), res |-> "error"]) \in Seq(Entry)
    BY <1>0, <2>2, Enqueued
  <2>4. completed' = Failed(Append(completed, [req |-> Head(queue), res |-> "error"]))
    BY <1>5 DEF TaskPanics
  <2>5. completed' \in Seq(Entry) /\ \A j \in DOMAIN completed' : completed'[j].res = "error"
    BY <2>3, <2>4, FailedType
  <2>6. i \in DOMAIN completed'
    BY SMT, <2>5
  <2> QED BY <2>5, <2>6
<1>6. ASSUME NEW q \in Requests, FailFrontGroup(q)
      PROVE  FALSE
  <2>1. completed' \in Seq(Entry)
    BY TypeOKStep DEF DurableInv, TypeOK
  <2>2. \A j \in DOMAIN completed' : completed'[j].res = "error"
    BY <1>6 DEF FailFrontGroup
  <2>3. i \in DOMAIN completed'
    BY SMT, <2>1
  <2> QED BY <2>2, <2>3
<1> QED BY <1>1, <1>2, <1>3, <1>4, <1>5, <1>6 DEF Next, vars

\* Nothing but a crash closes the store, and a closed store publishes nothing
LEMMA StaysClosed ==
  ASSUME DurableInv, [Next]_vars, ~Crash, ~Recover, status' = "closed"
  PROVE  status = "closed" /\ published' = published
<1>1. ASSUME NEW s \in Requests, Submit(s) \/ FollowerStep(s) \/ LivenessCheck(s)
      PROVE  status = "closed" /\ published' = published
  BY <1>1 DEF Submit, FollowerStep, LivenessCheck, TakeResult, LockState, FindNoResult, Lead,
     Sleep, Wake, logVars, publicationVars
<1>2. ASSUME NEW s \in Requests, LeaderStep(s)
      PROVE  FALSE
  BY <1>2, LeaderMoves DEF DurableInv, ClosedIsQuiet, LeaderPCs
<1>3. ASSUME NEW x \in Readers, ReaderStep(x)
      PROVE  status = "closed" /\ published' = published
  BY <1>3 DEF ReaderStep, LookUpView, CaptureView, CheckView, logVars, publicationVars, Usable
<1> QED BY <1>1, <1>2, <1>3 DEF Next, vars, logVars, publicationVars

\* Publishing never hides a commit that was reported
LEMMA VisibleStep ==
  ASSUME DurableInv, Visible, [Next]_vars
  PROVE  Visible'
<1>0. /\ pc \in [Requests -> PCs] /\ result \in [Requests -> Outcomes \cup {"none"}]
      /\ returned \in [Requests -> Outcomes \cup {"none", "inconsistent", "crashed"}]
      /\ completed \in Seq(Entry) /\ log \in Seq(Requests) /\ durable \in 0 .. Len(log)
      /\ OneLeader /\ Acknowledged /\ Successes
  BY DEF DurableInv, TypeOK, LogTypeOK
<1>1. Acknowledged'
  BY AcknowledgedStep DEF DurableInv
<1>2. log' \in Seq(Requests) /\ durable' \in 0 .. Len(log')
  BY TypeOKStep DEF DurableInv, TypeOK, LogTypeOK
\* A view that holds the whole log shows every durable commit, reads that have become
\* unusable show nothing, and otherwise the view was not replaced
<1>3. ASSUME ~Crash, ~Recover
      PROVE  \/ published' = log'
             \/ published' = published /\ (ReadUsable' => ReadUsable)
  BY <1>3, PublishedSteps
<1>4. ASSUME published' = log', NEW r, InLog(r, durable)'
      PROVE  Shown(r)'
  BY SMT, <1>2, <1>4 DEF Shown, InLog, Range
<1>5. ASSUME ~Crash, ~Recover, NEW r, Shown(r), InLog(r, durable)'
      PROVE  Shown(r)'
  BY <1>3, <1>4, <1>5 DEF Shown
<1>6. CASE Crash
  BY <1>6 DEF Crash, Visible, Shown
<1>7. CASE Recover
  <2>1. published = None /\ published' = None /\ status' = "open"
    BY <1>7 DEF Recover, LogOpen, Visible, publicationVars
  <2> QED BY <2>1 DEF Visible, Shown
<1>8. CASE ~Crash /\ ~Recover
  <2>1. ASSUME NEW r \in Requests, result'[r] = "ok" \/ returned'[r] = "ok"
        PROVE  Shown(r)'
    <3>1. InLog(r, durable)'
      BY <1>1, <2>1 DEF Acknowledged, InLog
    <3>2. Shown(r)
      BY <1>8, <2>1, NewResult DEF Visible
    <3> QED BY <1>5, <1>8, <3>1, <3>2
  <2>2. ASSUME NEW s \in Requests, pc'[s] = "complete", NEW i \in 1 .. Len(completed'),
               NEW e, e = completed'[i], e.res = "ok"
        PROVE  Shown(e.req)'
    <3>1. InLog(e.req, durable)'
      <4>1. Successes'
        BY SuccessesStep DEF DurableInv
      <4>2. completed' \in Seq(Entry)
        BY TypeOKStep DEF DurableInv, TypeOK
      <4>3. i \in DOMAIN completed'
        BY SMT, <4>2
      <4> QED BY <2>2, <4>1, <4>3 DEF Successes, SuccessesWithin, InLog
    <3>2. CASE pc[s] = "complete"
      <4>1. \E j \in 1 .. Len(completed) : completed[j] = e
        BY <1>8, <2>2, <3>2, StillCompleting
      <4>2. Shown(e.req)
        BY <2>2, <3>2, <4>1 DEF Visible
      <4> QED BY <1>5, <1>8, <3>1, <4>2
    <3>3. CASE pc[s] # "complete"
      <4>1. DropGuard(s)
        BY <1>8, <2>2, <3>3, NowCompleting
      <4>2. publicationFailed = TRUE \/ publicationFailed = FALSE
        BY DEF DurableInv, TypeOK
      <4>3. published' = log' \/ publicationFailed' = TRUE
        BY <4>1, <4>2 DEF DropGuard, PublishView, logVars
      <4> QED BY <1>4, <3>1, <4>3 DEF Shown, ReadUsable
    <3> QED BY <3>2, <3>3
  <2>3. status' = "closed" => published' = None
    BY <1>8, StaysClosed DEF Visible
  <2> QED BY <2>1, <2>2, <2>3 DEF Visible
<1> QED BY <1>6, <1>7, <1>8

-----------------------------------------------------------------------------
(* What was read survives *)

\* Until the first crash, a view is published only when a barrier covers all of it
LEMMA CoveredStep ==
  ASSUME DurableInv, Covered, [Next]_vars
  PROVE  Covered'
<1>0. /\ pc \in [Requests -> PCs] /\ group \in Int /\ log \in Seq(Requests)
      /\ durable \in Nat /\ Len(log) \in Nat /\ crashes \in Nat /\ OneLeader
  BY SMT DEF DurableInv, TypeOK, LogTypeOK, Covered
<1>1. ASSUME UNCHANGED <<crashes, status, group, log, durable>>,
             \A s \in Requests : pc'[s] \in {"run", "finish"} => pc[s] \in {"run", "finish"}
      PROVE  Covered'
  BY <1>1 DEF Covered
<1>2. ASSUME NEW s \in Requests, Submit(s) \/ FollowerStep(s) \/ LivenessCheck(s)
      PROVE  Covered'
  <2>1. UNCHANGED <<crashes, status, group, log, durable>>
    BY <1>2 DEF Submit, FollowerStep, LivenessCheck, TakeResult, LockState, FindNoResult, Lead,
       Sleep, Wake, logVars, dbVars
  <2>2. \E step \in {"check", "locked", "no_result", "waiting", "done", "collect"} : Goto(s, step)
    BY <1>2 DEF Submit, FollowerStep, LivenessCheck, TakeResult, LockState, FindNoResult, Lead,
       Sleep, Wake
  <2> QED BY <1>0, <1>1, <2>1, <2>2 DEF Goto
<1>3. ASSUME NEW s \in Requests,
             \/ LockDatabase(s) \/ BeginRefused(s) \/ BarrierUnreachable(s) \/ DropGuard(s)
             \/ FailFrontGroup(s) \/ CompleteNext(s) \/ NotifyCompleted(s) \/ ReleaseLeader(s)
             \/ NotifyReleased(s)
      PROVE  Covered'
  <2>1. UNCHANGED <<crashes, status, group, log, durable>>
    BY <1>3 DEF LockDatabase, BeginRefused, BarrierUnreachable, DropGuard, FailFrontGroup,
       CompleteNext, NotifyCompleted, ReleaseLeader, NotifyReleased, logVars, dbVars
  <2>2. \/ \E step \in {"begin", "drop", "fail_front", "complete", "release", "release_notify", "check"} :
             Goto(s, step)
        \/ pc' = pc
    BY <1>3 DEF LockDatabase, BeginRefused, BarrierUnreachable, DropGuard, FailFrontGroup,
       CompleteNext, NotifyCompleted, ReleaseLeader, NotifyReleased
  <2> QED BY <1>0, <1>1, <2>1, <2>2 DEF Goto
\* Only the leader is in the group
<1>4. ASSUME NEW s \in Requests, pc[s] \in LeaderPCs, NEW step, Goto(s, step)
      PROVE  pc'[s] = step /\ \A q \in Requests : q # s => pc'[q] \notin {"run", "finish"}
  BY <1>0, <1>4 DEF OneLeader, Goto, LeaderPCs
<1>5. ASSUME NEW s \in Requests, BeginGroup(s)
      PROVE  Covered'
  <2>1. /\ pc[s] = "begin" /\ group = -1 /\ group' = 0 /\ Goto(s, "run")
        /\ UNCHANGED <<crashes, status, log, durable>>
    BY <1>5 DEF BeginGroup, logVars
  <2> QED BY SMT, <1>0, <2>1 DEF Covered
<1>6. ASSUME NEW s \in Requests, RunTask(s)
      PROVE  Covered'
  <2>1. /\ pc[s] = "run" /\ group' = group + (Len(log') - Len(log))
        /\ \E outcome \in Outcomes : TaskEffect(Head(queue), outcome)
        /\ UNCHANGED crashes
    BY <1>6 DEF RunTask
  <2>2. durable' = durable /\ (status' = "open" => status = "open") /\ (status' = "closed" => status = "closed")
    BY <2>1 DEF TaskEffect, LogAppend, LogDoubt, LogAppendPoisoned, logVars
  <2>3. group >= 0 /\ log' \in Seq(Requests) /\ Len(log') \in Nat /\ Len(log) <= Len(log')
    <3>1. group >= 0
      BY <2>1 DEF DurableInv, Successes
    <3>2. log' \in Seq(Requests)
      BY TypeOKStep DEF DurableInv, TypeOK, LogTypeOK
    <3>3. log' = log \/ log' = Append(log, Head(queue))
      BY <2>1 DEF TaskEffect, LogAppend, LogDoubt, LogAppendPoisoned, logVars
    <3>4. Len(log) <= Len(log')
      BY SMT, <1>0, <3>3
    <3> QED BY SMT, <3>1, <3>2, <3>4
  <2>4. crashes = 0 /\ status' = "open" => durable + group = Len(log)
    BY <2>1, <2>2 DEF Covered
  <2>5. ~(group' < 0) /\ (crashes = 0 /\ status' = "open" => durable + group' = Len(log'))
    BY SMT, <1>0, <2>1, <2>3, <2>4
  <2> QED BY <2>1, <2>2, <2>5 DEF Covered
<1>7. ASSUME NEW s \in Requests, TaskPanics(s)
      PROVE  Covered'
  <2>1. /\ pc[s] = "run" /\ Goto(s, "complete") /\ UNCHANGED <<crashes, status, group>>
    BY <1>7 DEF TaskPanics, LogAppend, logVars
  <2>2. group >= 0
    BY <2>1 DEF DurableInv, Successes
  <2>3. \A q \in Requests : pc'[q] \notin {"run", "finish"}
    <3>1. pc[s] \in LeaderPCs
      BY <2>1 DEF LeaderPCs
    <3>2. pc'[s] = "complete" /\ \A q \in Requests : q # s => pc'[q] \notin {"run", "finish"}
      BY <1>4, <2>1, <3>1
    <3> QED BY <3>2
  <2>4. ~(group' < 0)
    BY SMT, <1>0, <2>1, <2>2
  <2> QED BY <2>1, <2>3, <2>4 DEF Covered
<1>8. ASSUME NEW s \in Requests, EndRun(s)
      PROVE  Covered'
  BY <1>0, <1>1, <1>8 DEF EndRun, Goto, logVars, dbVars
<1>9. ASSUME NEW s \in Requests, FinishGroup(s)
      PROVE  Covered'
  <2>1. /\ pc[s] = "finish" /\ Goto(s, "drop") /\ UNCHANGED <<crashes, status, log>>
        /\ IF group = 0 THEN durable' = durable ELSE durable' = Len(log)
    BY <1>9 DEF FinishGroup, LogBarrier, logVars
  <2>2. \A q \in Requests : pc'[q] \notin {"run", "finish"}
    <3>1. pc[s] \in LeaderPCs
      BY <2>1 DEF LeaderPCs
    <3>2. pc'[s] = "drop" /\ \A q \in Requests : q # s => pc'[q] \notin {"run", "finish"}
      BY <1>4, <2>1, <3>1
    <3> QED BY <3>2
  <2>3. crashes = 0 /\ status = "open" => durable + group = Len(log)
    BY <2>1 DEF Covered
  <2>4. crashes = 0 /\ status = "open" => durable' = Len(log)
    BY SMT, <1>0, <2>1, <2>3
  <2> QED BY <2>1, <2>2, <2>4 DEF Covered
<1>10. ASSUME NEW s \in Requests, BarrierFails(s) \/ SchemaCheckpointFails(s)
       PROVE  Covered'
  BY <1>10 DEF BarrierFails, SchemaCheckpointFails, LogPoison, LogBarrierPoisoned, Covered
<1>11. ASSUME NEW x \in Readers, ReaderStep(x)
       PROVE  Covered'
  BY <1>1, <1>11 DEF ReaderStep, LookUpView, CaptureView, CheckView, logVars, dbVars
<1>12. CASE Crash
  <2>1. crashes' = crashes + 1
    BY <1>12 DEF Crash
  <2>2. crashes' \in Nat /\ crashes' > 0 /\ crashes' # 0
    BY SMT, <1>0, <2>1
  <2> QED BY <2>2 DEF Covered
<1>13. CASE Recover
  <2>1. status = "closed" /\ status' = "open" /\ crashes' = crashes
    BY <1>13 DEF Recover, LogOpen
  <2>2. crashes > 0 /\ crashes # 0
    BY SMT, <1>0, <2>1 DEF Covered
  <2> QED BY <1>0, <2>1, <2>2 DEF Covered
<1>14. CASE UNCHANGED vars
  BY <1>1, <1>14 DEF vars, logVars, dbVars
<1> QED
  BY <1>2, <1>3, <1>5, <1>6, <1>7, <1>8, <1>9, <1>10, <1>11, <1>12, <1>13, <1>14
     DEF Next, LeaderStep

\* Between a recovery and the next crash the log only grows
LEMMA LogGrows ==
  ASSUME DurableInv, [Next]_vars, ~Crash, ~Recover
  PROVE  /\ crashes' = crashes /\ (status = "closed" => status' = "closed")
         /\ log \in Seq(Requests) /\ log' \in Seq(Requests) /\ Len(log) <= Len(log')
         /\ \A i \in 1 .. Len(log) : log'[i] = log[i]
<1>0. log \in Seq(Requests) /\ log' \in Seq(Requests) /\ queue \in Seq(Requests)
  BY TypeOKStep DEF DurableInv, TypeOK, LogTypeOK
<1>1. ASSUME NEW s \in Requests, Submit(s) \/ FollowerStep(s) \/ LivenessCheck(s)
      PROVE  UNCHANGED <<log, crashes, status>>
  BY <1>1 DEF Submit, FollowerStep, LivenessCheck, TakeResult, LockState, FindNoResult, Lead,
     Sleep, Wake, logVars
<1>2. ASSUME NEW s \in Requests, RunTask(s) \/ TaskPanics(s)
      PROVE  /\ queue # <<>> /\ (log' = log \/ log' = Append(log, Head(queue))) /\ crashes' = crashes
             /\ status = "closed" => status' = "closed"
  BY <1>2 DEF RunTask, TaskPanics, TaskEffect, LogAppend, LogDoubt, LogAppendPoisoned, logVars
<1>3. ASSUME NEW s \in Requests, LeaderStep(s), ~RunTask(s), ~TaskPanics(s)
      PROVE  /\ UNCHANGED <<log, crashes>> /\ (status = "closed" => status' = "closed")
  BY <1>3 DEF LeaderStep, LockDatabase, BeginGroup, BeginRefused, EndRun, FinishGroup, BarrierFails,
     BarrierUnreachable, SchemaCheckpointFails, DropGuard, FailFrontGroup, CompleteNext,
     NotifyCompleted, ReleaseLeader, NotifyReleased, LogBarrier, LogPoison, LogBarrierPoisoned, logVars
<1>4. ASSUME NEW x \in Readers, ReaderStep(x)
      PROVE  UNCHANGED <<log, crashes, status>>
  BY <1>4 DEF ReaderStep, LookUpView, CaptureView, CheckView, logVars
<1>5. ASSUME UNCHANGED vars
      PROVE  UNCHANGED <<log, crashes, status>>
  BY <1>5 DEF vars, logVars
<1>6. /\ log' = log \/ (queue # <<>> /\ log' = Append(log, Head(queue)))
      /\ crashes' = crashes /\ (status = "closed" => status' = "closed")
  BY <1>1, <1>2, <1>3, <1>4, <1>5 DEF Next
<1>7. Len(log) <= Len(log') /\ \A i \in 1 .. Len(log) : log'[i] = log[i]
  <2>1. CASE log' = log
    BY SMT, <1>0, <2>1
  <2>2. CASE queue # <<>> /\ log' = Append(log, Head(queue))
    BY SMT, <1>0, <2>2
  <2> QED BY <1>6, <2>1, <2>2
<1> QED BY <1>0, <1>6, <1>7

\* A prefix of what both logs hold is a prefix of both
LEMMA SamePrefix ==
  ASSUME NEW S, NEW f \in Seq(S), NEW g \in Seq(S), NEW m \in Nat, m <= Len(f), m <= Len(g),
         \A i \in 1 .. m : g[i] = f[i], NEW n \in 0 .. m
  PROVE  SubSeq(g, 1, n) = SubSeq(f, 1, n)
BY SMT

\* The first crash keeps what readers saw, and so does every step before the second
LEMMA PrefixStays ==
  ASSUME DurableInv, Covered, [Next]_vars, crashes' <= 1, NEW v, Prefixed(v)
  PROVE  Prefixed(v)'
<1>0. /\ log \in Seq(Requests) /\ durable \in Nat /\ durable <= Len(log) /\ Len(log) \in Nat
      /\ crashes \in Nat
  <2>1. TypeOK
    BY DEF DurableInv
  <2>2. LogTypeOK(Requests)
    BY <2>1 DEF TypeOK
  <2>3. crashes \in Nat
    BY DEF Covered
  <2> QED BY SMT, <2>2, <2>3 DEF LogTypeOK
<1>1. /\ log' \in Seq(Requests) /\ durable' \in Nat /\ durable' <= Len(log') /\ Len(log') \in Nat
      /\ durable <= durable' /\ \A i \in 1 .. durable : log'[i] = log[i]
  <2>1. TypeOK /\ LogTypeOK(Requests)
    BY DEF DurableInv, TypeOK
  <2>2. [LogNext(Requests)]_logVars
    BY <2>1, UsesLog
  <2>3. LogTypeOK(Requests)'
    BY <2>1, <2>2, LogStep
  <2>4. durable <= durable' /\ \A i \in 1 .. durable : log'[i] = log[i]
    BY <2>1, <2>2, LogStep
  <2> QED BY SMT, <2>3, <2>4 DEF LogTypeOK
<1>2. /\ Kept \in Nat /\ Kept <= Len(log) /\ Kept <= Len(log') /\ Kept <= Kept'
      /\ \A i \in 1 .. Kept : log'[i] = log[i]
  <2>1. CASE Crash
    <3>1. crashes' = crashes + 1
      BY <2>1 DEF Crash
    <3>2. crashes = 0
      BY SMT, <1>0, <3>1
    <3>3. Kept = durable /\ Kept' = durable'
      BY <2>1, <3>2 DEF Crash, LogClose, Kept
    <3> QED BY SMT, <1>0, <1>1, <3>3
  <2>2. CASE Recover
    <3>1. Kept = durable /\ (Kept' = durable' \/ Kept' = Len(log'))
      BY <2>2 DEF Recover, LogOpen, Kept
    <3> QED BY SMT, <1>0, <1>1, <3>1
  <2>3. CASE ~Crash /\ ~Recover
    <3>1. /\ crashes' = crashes /\ (status = "closed" => status' = "closed")
          /\ Len(log) <= Len(log') /\ \A i \in 1 .. Len(log) : log'[i] = log[i]
      BY <2>3, LogGrows
    <3>2. status' = "closed" => status = "closed"
      BY <2>3, StaysClosed
    <3>3. \/ Kept = durable /\ Kept' = durable'
          \/ Kept = Len(log) /\ Kept' = Len(log')
      BY <3>1, <3>2 DEF Kept
    <3> QED BY SMT, <1>0, <1>1, <3>1, <3>3
  <2> QED BY <2>1, <2>2, <2>3
<1>3. PICK n \in 0 .. Kept : v = SubSeq(log, 1, n)
  BY DEF Prefixed
<1>4. n \in 0 .. Kept'
  <2>1. Kept' \in Int
    BY SMT, <1>1 DEF Kept
  <2> QED BY SMT, <1>2, <2>1
<1>5. SubSeq(log', 1, n) = SubSeq(log, 1, n)
  BY <1>0, <1>1, <1>2, SamePrefix
<1> QED BY <1>3, <1>4, <1>5 DEF Prefixed

\* A view that is captured now survives
LEMMA CapturedNow ==
  ASSUME DurableInv, Covered, ~(group >= 0), status = "open"
  PROVE  Prefixed(log)
<1>0. log \in Seq(Requests) /\ Len(log) \in Nat
  BY SMT DEF DurableInv, TypeOK, LogTypeOK
<1>1. group < 0
  BY SMT DEF DurableInv, TypeOK
<1>2. Kept = Len(log)
  BY <1>1 DEF Covered, Kept
<1>3. log = SubSeq(log, 1, Len(log)) /\ Len(log) \in 0 .. Len(log)
  BY SMT, <1>0
<1> QED BY <1>2, <1>3 DEF Prefixed

\* Readers hold prefixes of the log that the next crash keeps
LEMMA SurvivingStep ==
  ASSUME DurableInv, Covered, Surviving, [Next]_vars
  PROVE  Surviving'
<1>0. /\ reading \in [Readers -> {"idle", "first", "check", "reading", "done", "error"}]
      /\ view \in [Readers -> Seq(Requests)] /\ group \in Int /\ crashes \in Nat
  BY DEF DurableInv, TypeOK, Covered
<1>1. crashes' <= 1 => crashes <= 1
  <2>1. crashes' = crashes \/ crashes' = crashes + 1
    BY LogGrows DEF Crash, Recover
  <2> QED BY SMT, <1>0, <2>1
<1>2. CASE Crash
  <2>1. /\ published' = None /\ view' = view
        /\ \A x \in Readers : reading'[x] = IF reading[x] \in {"idle", "done"} THEN reading[x] ELSE "error"
    BY <1>2 DEF Crash
  <2>2. \A x \in Readers : reading'[x] \in {"idle", "done", "error"} /\ (reading'[x] = "done" => reading[x] = "done")
    BY <2>1
  <2> QED BY <1>1, <2>1, <2>2, PrefixStays DEF Surviving, Prefixed
<1>3. CASE Recover
  <2>1. UNCHANGED <<published, reading, view>> /\ status' = "open"
    BY <1>3 DEF Recover, LogOpen, publicationVars, readVars
  <2> QED BY <1>1, <2>1, PrefixStays DEF Surviving, Prefixed
<1>4. CASE ~Crash /\ ~Recover
  <2>1. ASSUME NEW x \in Readers, ReaderStep(x)
        PROVE  /\ status # "closed" /\ \A y \in Readers : y # x => reading'[y] = reading[y] /\ view'[y] = view[y]
               /\ \/ reading'[x] \notin {"check", "reading", "done"}
                  \/ view'[x] = view[x] /\ reading[x] \in {"check", "reading", "done"}
                  \/ view'[x] = published /\ published # None
                  \/ view'[x] = log /\ group = -1 /\ status = "open"
    <3>1. status # "closed"
      BY <2>1 DEF ReaderStep, LookUpView, CaptureView, CheckView, Surviving
    <3>2. CASE LookUpView(x)
      BY <1>0, <3>1, <3>2 DEF LookUpView, SetReading
    <3>3. CASE CaptureView(x)
      BY <1>0, <3>1, <3>3 DEF CaptureView, SetReading, Usable
    <3>4. CASE CheckView(x)
      BY <1>0, <3>1, <3>4 DEF CheckView, SetReading
    <3> QED BY <2>1, <3>2, <3>3, <3>4 DEF ReaderStep
  <2>2. ASSUME \A x \in Readers : ~ReaderStep(x)
        PROVE  UNCHANGED <<reading, view>>
    <3>1. ASSUME NEW s \in Requests, Submit(s) \/ FollowerStep(s) \/ LivenessCheck(s)
          PROVE  UNCHANGED <<reading, view>>
      BY <3>1 DEF Submit, FollowerStep, LivenessCheck, TakeResult, LockState, FindNoResult, Lead,
         Sleep, Wake, readVars
    <3>2. ASSUME NEW s \in Requests, LeaderStep(s)
          PROVE  UNCHANGED <<reading, view>>
      BY <3>2 DEF LeaderStep, LockDatabase, BeginGroup, BeginRefused, RunTask, EndRun,
         TaskPanics, FinishGroup, BarrierFails, BarrierUnreachable, SchemaCheckpointFails, DropGuard,
         FailFrontGroup, CompleteNext, NotifyCompleted, ReleaseLeader, NotifyReleased, readVars
    <3> QED BY <1>4, <2>2, <3>1, <3>2 DEF Next, vars, readVars
  <2>3. status' = "closed" =>
          /\ published' = None
          /\ \A x \in Readers : reading'[x] \in {"idle", "done", "error"}
    BY <1>4, <2>1, <2>2, StaysClosed DEF Surviving
  <2>4. group = -1 => ~(group >= 0)
    BY SMT
  <2>5. ASSUME crashes' <= 1, NEW e,
               \/ published # None /\ e = published
               \/ e = log /\ ~(group >= 0) /\ status = "open"
               \/ \E x \in Readers : reading[x] \in {"check", "reading", "done"} /\ e = view[x]
        PROVE  Prefixed(e)'
    <3>1. Prefixed(e)
      BY <1>1, <2>5, CapturedNow DEF Surviving
    <3> QED BY <2>5, <3>1, PrefixStays
  <2>6. ASSUME crashes' <= 1, NEW e, e = published', e # None
        PROVE  Prefixed(e)'
    BY <1>4, <2>5, <2>6, PublishedSteps
  <2>7. ASSUME crashes' <= 1, NEW y \in Readers, reading'[y] \in {"check", "reading", "done"},
               NEW e, e = view'[y]
        PROVE  Prefixed(e)'
    <3>1. CASE \A x \in Readers : ~ReaderStep(x)
      BY <2>2, <2>5, <2>7, <3>1
    <3>2. ASSUME NEW x \in Readers, ReaderStep(x), x # y
          PROVE  Prefixed(e)'
      BY <2>1, <2>5, <2>7, <3>2
    <3>3. CASE ReaderStep(y)
      BY <2>1, <2>4, <2>5, <2>7, <3>3
    <3> QED BY <3>1, <3>2, <3>3
  <2>8. crashes' <= 1 /\ published' # None => (Prefixed(published))'
    BY <2>6 DEF Prefixed
  <2>9. ASSUME crashes' <= 1, NEW y \in Readers, reading'[y] \in {"check", "reading", "done"}
        PROVE  (Prefixed(view[y]))'
    BY <2>7, <2>9 DEF Prefixed
  <2> QED BY <2>3, <2>8, <2>9 DEF Surviving
<1> QED BY <1>2, <1>3, <1>4

-----------------------------------------------------------------------------
(* The invariants, and what they say *)

\* A new store has no request in flight and nothing to read
LEMMA InitReads ==
  ASSUME Init
  PROVE  TurnInv /\ ReadInv
<1>1. /\ completed = <<>> /\ pc = [r \in Requests |-> "new"] /\ result = [r \in Requests |-> "none"]
      /\ returned = [r \in Requests |-> "none"] /\ status = "open" /\ log = <<>> /\ durable = 0
      /\ crashes = 0 /\ published = None /\ reading = [x \in Readers |-> "idle"]
  BY DEF Init, LogInit
<1>2. crashes \in Nat /\ durable = Len(log)
  BY SMT, <1>1
<1>3. Placed /\ Locking /\ LateResult /\ NoMissedTurn
  BY <1>1 DEF Placed, Active, Locking, LateResult, NoMissedTurn
<1>4. Visible /\ Covered /\ Surviving
  BY <1>1, <1>2 DEF Visible, Covered, Surviving
<1> QED BY <1>3, <1>4 DEF TurnInv, ReadInv

\* The invariants of the queue and of the views hold in every reachable state
LEMMA ReadsInvariant == Spec => [](DurableInv /\ TurnInv /\ ReadInv)
<1>1. DurableInv /\ TurnInv /\ ReadInv /\ [Next]_vars => (TurnInv /\ ReadInv)'
  <2> SUFFICES ASSUME DurableInv, TurnInv, ReadInv, [Next]_vars
               PROVE  (TurnInv /\ ReadInv)'
    OBVIOUS
  <2>1. TurnInv'
    BY PlacedStep, LockingStep, LateResultStep, NoMissedTurnStep DEF TurnInv, DurableInv
  <2>2. ReadInv'
    BY VisibleStep, CoveredStep, SurvivingStep DEF ReadInv
  <2> QED BY <2>1, <2>2
<1> QED BY DurableInvariant, InitReads, <1>1, PTL DEF Spec

\* execute_grouped: the request of a sleeping thread is queued, or with the
\* leader, or has its result, so the liveness check never fails a commit
THEOREM NobodyForgotten == Spec => []AlwaysAccountedFor
<1>1. DurableInv /\ TurnInv => AlwaysAccountedFor
  <2> SUFFICES ASSUME DurableInv, TurnInv, NEW r \in Requests, pc[r] = "waiting"
               PROVE  AccountedFor(r)
    BY DEF AlwaysAccountedFor
  <2>1. pc[r] \in Active
    BY DEF Active, PCs
  <2>2. CASE InQueue(r)
    <3>1. queue \in Seq(Requests)
      BY DEF DurableInv, TypeOK
    <3>2. r \in Range(queue)
      BY SMT, <2>2, <3>1 DEF InQueue, Range
    <3> QED BY <3>2 DEF AccountedFor
  <2>3. CASE InCompleted(r)
    <3>1. completed # <<>>
      BY SMT, <2>3 DEF InCompleted
    <3>2. PICK s \in Requests : pc[s] \in LeaderPCs
      BY <3>1 DEF DurableInv, Successes, GroupPCs, LeaderPCs
    <3> QED BY <3>2 DEF DurableInv, OneLeader, AccountedFor
  <2>4. CASE result[r] # "none"
    BY <2>4 DEF AccountedFor
  <2> QED BY <2>1, <2>2, <2>3, <2>4 DEF TurnInv, Placed
<1> QED BY ReadsInvariant, <1>1, PTL

\* A thread with a result, or whose turn it is to lead, never sleeps without a
\* notification on its way: notify_all after the results and after the release
\* reaches it although it looks at the queue and waits in separate steps.
THEOREM NobodySleepsThrough == Spec => []NoMissedTurn
<1>1. TurnInv => NoMissedTurn
  BY DEF TurnInv
<1> QED BY ReadsInvariant, <1>1, PTL

\* A commit that returned success is in the view of every reader that comes after,
\* because publish_read_view runs before complete_commit_requests.
THEOREM AckedIsVisible == Spec => []AckedVisible
<1>1. ReadInv => AckedVisible
  BY DEF ReadInv, Visible, Shown, AckedVisible
<1> QED BY ReadsInvariant, <1>1, PTL

\* What a successful read showed is still in the log after the first crash:
\* no view is published while the group's barrier is unfinished or failed.
THEOREM ReadsAreKept == Spec => []ReadsSurvive
<1>1. DurableInv /\ ReadInv => ReadsSurvive
  <2> SUFFICES ASSUME DurableInv, ReadInv, NEW x \in Readers, reading[x] = "done", crashes <= 1
               PROVE  \E n \in 0 .. Len(log) : view[x] = SubSeq(log, 1, n)
    BY DEF ReadsSurvive
  <2>1. Prefixed(view[x])
    BY DEF ReadInv, Surviving
  <2>2. Kept \in Nat /\ Kept <= Len(log) /\ Len(log) \in Nat
    BY SMT DEF DurableInv, TypeOK, LogTypeOK, Kept
  <2>3. \A n \in 0 .. Kept : n \in 0 .. Len(log)
    BY SMT, <2>2
  <2> QED BY <2>1, <2>3 DEF Prefixed
<1> QED BY ReadsInvariant, <1>1, PTL
===============================================================================
