---------------------------- MODULE MCLockManager ----------------------------
(* Instances of LockManager for model checking. *)
EXTENDS LockManager, TLC

CONSTANTS t1, t2, t3

Included(k) == [type |-> "included", key |-> k]
Excluded(k) == [type |-> "excluded", key |-> k]
Range1(lower, upper) ==
  [kind |-> "range", table |-> 1, columns |-> 1, lower |-> lower, upper |-> upper]
Table1 == [kind |-> "table", table |-> 1]
Adjacency(type) == [kind |-> "adjacency", node |-> 1, rel_type |-> type, direction |-> 0]
Node(n) == [kind |-> "node", id |-> n]
Shared(target) == [mode |-> "shared", target |-> target]
Exclusive(target) == [mode |-> "exclusive", target |-> target]

\* Row ranges that touch at an excluded end or overlap, a shared scan, a table
RowBatches ==
  {{Exclusive(Range1(Included(1), Included(1)))},
   {Exclusive(Range1(Included(2), Included(2))), Shared(Range1(Included(1), Excluded(2)))},
   {Shared(Range1(Unbounded, Excluded(2)))}}

\* Typed adjacency of one node, which escalates, the shared adjacency of every
\* type that overlaps it, and a node lock beside it
GraphBatches ==
  {{Exclusive(Adjacency(1))},
   {Exclusive(Adjacency(2)), Shared(Node(1))},
   {Exclusive(Node(1)), Shared(Adjacency(0))}}

\* Rows and adjacency together
SafetyBatches == RowBatches \cup GraphBatches

\* Two points in either order of acquisition, and a shared point that is upgraded
PointBatches ==
  {{Exclusive(Node(1))}, {Exclusive(Node(2))}, {Shared(Node(1))}}

\* Adjacency of one node next to unrelated nodes that fill the lock table
BudgetBatches ==
  {{Exclusive(Adjacency(1)), Exclusive(Adjacency(2))},
   {Exclusive(Adjacency(3))},
   {Exclusive(Node(1)), Exclusive(Node(2))}}

TxnSymmetry == Permutations(Txns \ OneShot)
=============================================================================
