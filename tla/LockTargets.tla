----------------------------- MODULE LockTargets -----------------------------
(***************************************************************************)
(* Logical lock requests of the embedded transaction coordinator: modes,   *)
(* targets, when one request covers another, when two requests conflict,   *)
(* and the order in which a batch of requests is acquired                  *)
(* (crates/storage/src/transaction_locks.rs).                              *)
(*                                                                         *)
(* Names (tables, column lists, labels, ids) are natural numbers and index *)
(* keys are integers: the code only compares them.                         *)
(***************************************************************************)
EXTENDS Integers, Sequences

Modes == {"shared", "exclusive", "optimistic"}

\* modes_conflict: only S/S and OptimisticCommit/OptimisticCommit coexist.
ModesConflict(left, right) == left # right \/ left = "exclusive"

\* mode_covers
ModeCovers(held, requested) == held = "exclusive" \/ held = requested

-----------------------------------------------------------------------------
(* Bounds of a relational key range.  The key of an unbounded end is 0.    *)

Unbounded == [type |-> "unbounded", key |-> 0]
Bounds == [type : {"included", "excluded"}, key : Int] \cup {Unbounded}

\* lower_bound_covers
LowerBoundCovers(held, requested) ==
  \/ held.type = "unbounded"
  \/ /\ requested.type # "unbounded"
     /\ \/ held.key < requested.key
        \/ /\ held.key = requested.key
           /\ held.type = "included" \/ requested.type = "excluded"

\* upper_bound_covers
UpperBoundCovers(held, requested) ==
  \/ held.type = "unbounded"
  \/ /\ requested.type # "unbounded"
     /\ \/ held.key > requested.key
        \/ /\ held.key = requested.key
           /\ held.type = "included" \/ requested.type = "excluded"

\* upper_is_before_lower
UpperIsBeforeLower(upper, lower) ==
  /\ upper.type # "unbounded" /\ lower.type # "unbounded"
  /\ \/ upper.key < lower.key
     \/ /\ upper.key = lower.key
        /\ upper.type = "excluded" \/ lower.type = "excluded"

-----------------------------------------------------------------------------
(* Targets.  The graph targets that are identified by one name or id (node *)
(* and relationship allocation, label, relationship type, node, deletion   *)
(* guard, relationship) behave alike and share the shape of a point.       *)

PointKinds ==
  {"allocation", "label", "relationship_type", "node", "node_delete_guard", "relationship"}

Database == [kind |-> "database"]
RelationalTables == [kind : {"table"}, table : Nat]
RelationalRanges ==
  [kind : {"range"}, table : Nat, columns : Nat, lower : Bounds, upper : Bounds]
GraphPoints == [kind : PointKinds, id : Nat]
GraphAdjacencies ==      \* rel_type 0 stands for None: every relationship type
  [kind : {"adjacency"}, node : Nat, rel_type : Nat, direction : {0, 1}]

LockTarget ==
  {Database} \cup RelationalTables \cup RelationalRanges \cup GraphPoints
    \cup GraphAdjacencies

LockRequest == [mode : Modes, target : LockTarget]

\* target_covers
TargetCovers(held, requested) ==
  \/ held.kind = "database"
  \/ /\ held.kind = "table"
     /\ requested.kind \in {"table", "range"}
     /\ held.table = requested.table
  \/ /\ held.kind = "range" /\ requested.kind = "range"
     /\ held.table = requested.table /\ held.columns = requested.columns
     /\ LowerBoundCovers(held.lower, requested.lower)
     /\ UpperBoundCovers(held.upper, requested.upper)
  \/ /\ held.kind \in PointKinds /\ requested.kind = held.kind
     /\ held.id = requested.id
  \/ /\ held.kind = "adjacency" /\ requested.kind = "adjacency"
     /\ held.node = requested.node /\ held.direction = requested.direction
     /\ held.rel_type \in {0, requested.rel_type}

\* targets_overlap
TargetsOverlap(left, right) ==
  \/ left.kind = "database" \/ right.kind = "database"
  \/ /\ left.kind \in {"table", "range"} /\ right.kind \in {"table", "range"}
     /\ "table" \in {left.kind, right.kind}
     /\ left.table = right.table
  \/ /\ left.kind = "range" /\ right.kind = "range"
     /\ left.table = right.table /\ left.columns = right.columns
     /\ ~UpperIsBeforeLower(left.upper, right.lower)
     /\ ~UpperIsBeforeLower(right.upper, left.lower)
  \/ /\ left.kind \in PointKinds /\ right.kind = left.kind
     /\ left.id = right.id
  \/ /\ left.kind = "adjacency" /\ right.kind = "adjacency"
     /\ left.node = right.node /\ left.direction = right.direction
     /\ left.rel_type = 0 \/ right.rel_type = 0 \/ left.rel_type = right.rel_type

\* requests_conflict
Conflict(left, right) ==
  ModesConflict(left.mode, right.mode) /\ TargetsOverlap(left.target, right.target)

\* mode_covers and target_covers, always used together
Covers(held, requested) ==
  ModeCovers(held.mode, requested.mode) /\ TargetCovers(held.target, requested.target)

-----------------------------------------------------------------------------
(* Acquisition order.  A request becomes a tuple of integers whose         *)
(* lexicographic order is acquisition_cmp: target rank, the fields of the  *)
(* target, and last the mode, strongest first.                             *)

TargetRank(target) ==
  CASE target.kind = "database" -> 0
    [] target.kind = "table" -> 1
    [] target.kind = "range" -> 2
    [] target.kind = "allocation" -> 3
    [] target.kind = "label" -> 4
    [] target.kind = "relationship_type" -> 5
    [] target.kind = "node" -> 6
    [] target.kind = "node_delete_guard" -> 7
    [] target.kind = "relationship" -> 8
    [] target.kind = "adjacency" -> 9

\* bound_cmp: unbounded first, then by key, included before excluded
BoundKey(bound) ==
  CASE bound.type = "unbounded" -> <<0, 0, 0>>
    [] bound.type = "included" -> <<1, bound.key, 0>>
    [] bound.type = "excluded" -> <<1, bound.key, 1>>

TargetKey(target) ==
  CASE target.kind = "database" -> <<>>
    [] target.kind = "table" -> <<target.table>>
    [] target.kind = "range" ->
         <<target.table, target.columns>> \o BoundKey(target.lower) \o BoundKey(target.upper)
    [] target.kind \in PointKinds -> <<target.id>>
    [] target.kind = "adjacency" -> <<target.node, target.direction, target.rel_type>>

ModeRank(mode) ==
  CASE mode = "shared" -> 0 [] mode = "exclusive" -> 1 [] mode = "optimistic" -> 2

AcquisitionKey(request) ==
  <<TargetRank(request.target)>> \o TargetKey(request.target) \o <<-ModeRank(request.mode)>>

AcquisitionLess(left, right) ==
  LET l == AcquisitionKey(left)
      r == AcquisitionKey(right)
  IN \E i \in DOMAIN l \cap DOMAIN r :
       /\ l[i] < r[i]
       /\ \A j \in 1 .. i - 1 : l[j] = r[j]
=============================================================================
