----------------------------- MODULE VersionIndex -----------------------------
(***************************************************************************)
(* The MVCC version index (crates/storage/src/version.rs): the commit      *)
(* epoch of the last write of every mutable identity, kept in memory and   *)
(* pruned, and the questions a commit asks of it.                          *)
(*                                                                         *)
(* Identities are the rows of one relational table and the nodes of one    *)
(* label.  An absent stamp is 0, which is how every comparison of the code *)
(* treats it.  All stamps weigh the same, so a byte limit is a number of   *)
(* stamps; dispositions (live or tombstone) play no part in validation.    *)
(***************************************************************************)
EXTENDS Integers, FiniteSets

CONSTANTS
  Rows,         \* VersionKey::RelationalRow
  Nodes,        \* VersionKey::GraphNode
  MaxStamps     \* max_estimated_bytes, without the two inline barriers

Entities == Rows \cup Nodes

\* The other variants of VersionKey
Database == "Database"
Schema == "Schema"
ReadBarrier == "ReadBarrier"
AppendTable == "AppendTable"
TableDomain == "ReadRelationalTableDomain"
NodeDomain == "ReadNodeDomain"

ReadSummaries == {TableDomain, NodeDomain}
InlineBarriers == {Database, ReadBarrier}
VersionKeys == Entities \cup ReadSummaries \cup InlineBarriers \cup {Schema, AppendTable}

ASSUME KeysDistinct ==
  /\ Rows \cap Nodes = {}
  /\ Entities \cap (ReadSummaries \cup InlineBarriers \cup {Schema, AppendTable}) = {}
ASSUME MaxStampsAssumption == MaxStamps \in Nat

Indexes == [floor : Nat, stamp : [VersionKeys -> Nat]]

EmptyIndex == [floor |-> 0, stamp |-> [k \in VersionKeys |-> 0]]

\* VersionIndex::read_baseline
ReadBaseline(epoch) ==
  [floor |-> epoch, stamp |-> [k \in VersionKeys |-> IF k = Database THEN epoch ELSE 0]]

\* The keys that occupy the map of stamps
Stamped(index) == {k \in VersionKeys \ InlineBarriers : index.stamp[k] > 0}

\* VersionIndex::admits
Admits(index, keys) ==
  Cardinality(Stamped(index) \cup (keys \ InlineBarriers)) <= MaxStamps

\* VersionIndex::admits_after_read_summary_collapse
AdmitsCollapsed(index, keys) ==
  Cardinality((Stamped(index) \ ReadSummaries) \cup (keys \ InlineBarriers)) <= MaxStamps

\* VersionIndex::stage, once the history budget has lent its pages
Stage(index, keys, epoch) ==
  [floor |-> index.floor,
   stamp |-> [k \in VersionKeys |-> IF k \in keys THEN epoch ELSE index.stamp[k]]]

\* Mutant: the summaries go, the barrier is not raised
StageWithoutSummaries(index, keys, epoch) ==
  [floor |-> index.floor,
   stamp |-> [k \in VersionKeys |-> IF k \in keys THEN epoch
                                    ELSE IF k \in ReadSummaries THEN 0
                                    ELSE index.stamp[k]]]

\* VersionIndex::stage_with_read_barrier: every read summary gives way to one barrier
StageWithReadBarrier(index, keys, epoch) ==
  [floor |-> index.floor,
   stamp |-> [k \in VersionKeys |-> IF k \in keys \cup {ReadBarrier} THEN epoch
                                    ELSE IF k \in ReadSummaries THEN 0
                                    ELSE index.stamp[k]]]

\* VersionIndex::prune_before.  Pages that hold both old and new stamps need
\* credit of the history budget to be copied: without it the stamps in kept,
\* which never holds an inline barrier, survive.
PruneBefore(index, oldest, kept) ==
  [floor |-> IF oldest - 1 > index.floor THEN oldest - 1 ELSE index.floor,
   stamp |-> [k \in VersionKeys |->
                IF index.stamp[k] < oldest /\ k \notin kept THEN 0 ELSE index.stamp[k]]]

\* VersionIndex::history_reclaimed_after
HistoryReclaimedAfter(index, read_epoch) == read_epoch < index.floor

\* Mutant: reclaimed history counts as no conflict
FirstConflictAboveFloor(index, keys, read_epoch) ==
  \E k \in keys : index.stamp[k] > read_epoch

\* VersionIndex::first_conflict finds one
FirstConflict(index, keys, read_epoch) ==
  \/ keys # {} /\ HistoryReclaimedAfter(index, read_epoch)
  \/ \E k \in keys : index.stamp[k] > read_epoch
=============================================================================
