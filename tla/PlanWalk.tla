----------------------------- MODULE PlanWalk -----------------------------
(***************************************************************************)
(* What samkhya-bench/src/runner.rs reads off a physical plan: the         *)
(* features of a query, the estimate of every join before it is executed,  *)
(* and the rows every join emitted afterwards, found by a second walk and  *)
(* paired with the first by position.                                      *)
(*                                                                         *)
(* Plans, their statistics and their metrics are DataFusion's.             *)
(***************************************************************************)
EXTENDS Correctors, Ranking, SequencesExt

CONSTANTS
  Node,      \* nodes of physical plans
  Operator,  \* Operator[n]: the name of n's type
  Children,  \* Children[n]: the children of n, a sequence
  Height,    \* Height[n]: how far n is above the leaves
  Reports,   \* Reports[n]: [rows, distinct], the statistics of n, None where they are absent
  Emits      \* Emits[n]: the output_rows n's metrics hold after execution, or None

ASSUME TreeAssumption ==
  /\ IsFiniteSet(Node) /\ Children \in [Node -> Seq(Node)] /\ Height \in [Node -> 0 .. Cardinality(Node)]
  /\ \A n \in Node : \A k \in DOMAIN Children[n] : Height[Children[n][k]] < Height[n]
ASSUME ReportsAssumption ==
  \A n \in Node : Reports[n].rows \in Nat \cup {None} /\ Reports[n].distinct \in Seq(Nat \cup {None})
ASSUME EmitsAssumption == Emits \in [Node -> Nat \cup {None}]

\* accept(), and walk_plan: a node before its children, from left to right.
PreOrder ==
  LET visit[n \in Node] == <<n>> \o FlattenSeq([k \in DOMAIN Children[n] |-> visit[Children[n][k]]])
  IN  visit

----------------------------------------------------------------------------
(* Features.                                                               *)

\* walk_plan's own list: a symmetric hash join is not on it.
WalkedJoins == {"HashJoinExec", "NestedLoopJoinExec", "CrossJoinExec", "SortMergeJoinExec"}

Total(numbers) == FoldLeft(LAMBDA a, x : a + x, 0, numbers)

\* The rows of a side, and its columns' distinct counts added up.
SideStats(n) ==
  LET known == SelectSeq(Reports[n].distinct, LAMBDA d : d # None)
  IN  [rows |-> Reports[n].rows, distinct |-> IF known = <<>> THEN None ELSE Total(known)]

Side(n, k) == IF k \in DOMAIN Children[n] THEN SideStats(Children[n][k]) ELSE NoSide

\* The sides are those of the first join met.
ExtractFeatures(root, baseline) ==
  LET joins == SelectSeq(PreOrder[root], LAMBDA n : Operator[n] \in WalkedJoins)
      filters == SelectSeq(PreOrder[root], LAMBDA n : Operator[n] = "FilterExec")
      side(k) == IF joins = <<>> THEN NoSide ELSE Side(joins[1], k)
  IN  [baseline |-> baseline, left |-> side(1), right |-> side(2),
       predicates |-> Len(filters), depth |-> Len(joins)]

RootEstimate(root) == IF Reports[root].rows = None THEN 0 ELSE Reports[root].rows

----------------------------------------------------------------------------
(* The measured joins.                                                     *)

\* join_node_type_name
JoinTypes == WalkedJoins \cup {"SymmetricHashJoinExec"}
IsJoinNode(n) == Operator[n] \in JoinTypes

\* A plan is a tree: no join is below two children of one node.
ASSUME JoinsAssumption ==
  \A n \in Node : \A j, k \in DOMAIN Children[n] :
    j # k => \A m \in Range(PreOrder[Children[n][j]]) \cap Range(PreOrder[Children[n][k]]) : ~ IsJoinNode(m)

\* The joins in the order in which either walk meets them.
JoinsMet(root) == At(PreOrder[root], {i \in DOMAIN PreOrder[root] : IsJoinNode(PreOrder[root][i])})

\* JoinEstimateCollector, before execution.
CollectJoinEstimates(root) ==
  LET joins == JoinsMet(root)
  IN  [i \in DOMAIN joins |-> [type |-> Operator[joins[i]], idx |-> i - 1, est |-> Reports[joins[i]].rows]]

AtLeastOne(x) == IF x = 0 THEN 1 ELSE x
Ratio(x, y) == IF x >= y THEN <<x, y>> ELSE <<y, x>>

\* q_error_moerkotte, a fraction.
Moerkotte(est, act) == Ratio(AtLeastOne(est), AtLeastOne(act))

QErrorOf(est, act) == IF None \in {est, act} THEN None ELSE Moerkotte(est, act)

\* JoinMetricsCollector, after it: the cursor-th join takes the cursor-th
\* estimate.
PairJoinMetrics(root, snaps) ==
  LET joins == JoinsMet(root)
      snap(i) == IF i \in DOMAIN snaps THEN snaps[i] ELSE [type |-> Operator[joins[i]], idx |-> i - 1, est |-> None]
  IN  [i \in DOMAIN joins |->
        [type |-> snap(i).type, idx |-> snap(i).idx, est |-> snap(i).est, actual |-> Emits[joins[i]],
         q |-> QErrorOf(snap(i).est, Emits[joins[i]])]]

----------------------------------------------------------------------------
(* The result of a query.                                                  *)

\* A batch of a result: its rows, and the only value of its only column when
\* that is an integer that is not null.
IsScalar(batches) == Len(batches) = 1 /\ batches[1].rows = 1 /\ batches[1].scalar # None

\* extract_actual_count: i64 as u64 wraps.
ExtractActualCount(batches, words) ==
  IF IsScalar(batches) THEN batches[1].scalar % words
  ELSE Total([i \in DOMAIN batches |-> batches[i].rows])
=============================================================================
