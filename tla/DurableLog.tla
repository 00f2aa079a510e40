----------------------------- MODULE DurableLog -----------------------------
(***************************************************************************)
(* What the write-ahead log promises to the code above it, without files,  *)
(* barriers or fences: commits are appended in order, a barrier makes all  *)
(* of them durable, and a restart keeps every durable commit and an        *)
(* arbitrary prefix of the others.  A failed append may leave its record   *)
(* behind: only a restart decides whether it was written.                  *)
(*                                                                         *)
(* DurableStore (crates/storage/src/store/durable/wal.rs) is the component *)
(* that keeps these promises; the group commit is specified on top of them.*)
(***************************************************************************)
EXTENDS Naturals, Sequences

VARIABLES
  log,       \* commits appended to the log, in order
  durable,   \* how many of them a completed barrier covers
  doubt,     \* the record of a failed append, if it may have been written
  status     \* "open", "poisoned" (no operation until a reopen) or "closed"

logVars == <<log, durable, doubt, status>>

LogTypeOK(Commits) ==
  /\ log \in Seq(Commits)
  /\ durable \in 0 .. Len(log)
  /\ doubt \in Seq(Commits)
  /\ status \in {"open", "poisoned", "closed"}

LogInit ==
  /\ log = <<>> /\ durable = 0 /\ doubt = <<>>
  /\ status = "open"

\* The record is in the file and its effect in memory
LogAppend(c) ==
  /\ status = "open"
  /\ log' = Append(log, c)
  /\ UNCHANGED <<durable, doubt, status>>

\* The append failed and could not be undone for certain
LogDoubt(c) ==
  /\ status = "open"
  /\ doubt' \in {<<>>, <<c>>}
  /\ status' = "poisoned"
  /\ UNCHANGED <<log, durable>>

\* The record was appended, but what follows the append failed
LogAppendPoisoned(c) ==
  /\ status = "open"
  /\ log' = Append(log, c)
  /\ status' = "poisoned"
  /\ UNCHANGED <<durable, doubt>>

\* A barrier over everything appended so far
LogBarrier ==
  /\ status # "closed"
  /\ durable' = Len(log)
  /\ UNCHANGED <<log, doubt, status>>

\* The barrier completed, but what follows it failed
LogBarrierPoisoned ==
  /\ status # "closed"
  /\ durable' = Len(log)
  /\ status' = "poisoned"
  /\ UNCHANGED <<log, doubt>>

LogPoison ==
  /\ status # "closed"
  /\ status' = "poisoned"
  /\ UNCHANGED <<log, durable, doubt>>

\* The process stops, or is stopped by a power loss
LogClose ==
  /\ status' = "closed"
  /\ UNCHANGED <<log, durable, doubt>>

\* Recovery returns a prefix that holds at least the durable commits
LogOpen ==
  /\ status = "closed"
  /\ status' = "open"
  /\ \E n \in durable .. Len(log \o doubt) : log' = SubSeq(log \o doubt, 1, n)
  /\ doubt' = <<>>
  /\ UNCHANGED durable

LogNext(Commits) ==
  \/ \E c \in Commits : LogAppend(c) \/ LogDoubt(c) \/ LogAppendPoisoned(c)
  \/ LogBarrier \/ LogBarrierPoisoned \/ LogPoison \/ LogClose \/ LogOpen
=============================================================================
