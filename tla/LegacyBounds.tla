--------------------------- MODULE LegacyBounds ---------------------------
(***************************************************************************)
(* The bounds of samkhya-core/src/lpbound.rs, which take row counts, pairs *)
(* of joined relations and at most one distinct count for each relation.   *)
(* ChainBound and LpJoinBound turn them into a JoinGraph (degree_graph)    *)
(* and return its ceiling(): from there on the steps are JoinCeiling's.    *)
(* ProductBound and AgmBound multiply the rows, and the other two do so    *)
(* without predicates.  ceiling_hypergraph solves a cover program.         *)
(***************************************************************************)
EXTENDS JoinCeiling, Functions, FiniteSetsExt

CONSTANT EveryKey  \* whether a distinct count is honest about every key of its relation

ASSUME KeyAssumption == EveryKey \in BOOLEAN

\* The attributes on which the predicates of a list join r: each of
\* equality_predicates has one of its own.
JoinedBy(list, r) ==
  {list[k].attribute : k \in {k \in 1 .. Len(list) :
     ValidEdge(list[k]) /\ r \in {list[k].left, list[k].right}}}

Joined(r) == JoinedBy(edges, r)

Missing == NoDegree

\* distinct_counts[r] of a caller who names no more keys than there are, or
\* has no count, or one that is inconsistent.
SafeCounts(r) ==
  {Missing, Len(table[r]) + 1}
    \cup {d \in 0 .. MaxRows :
            \A a \in JoinedBy(pending, r) : d <= Cardinality(DistinctValues(table[r], a))}

\* Of a caller who counts "the distinct-value count of the join key relation
\* carries" (lpbound.rs:98) when it carries several.
KeyCounts(r) ==
  {Missing} \cup {Cardinality(DistinctValues(table[r], a)) : a \in JoinedBy(pending, r)}

Counts(r) == IF EveryKey THEN SafeCounts(r) ELSE KeyCounts(r)

DegreeOf(r, count) == IF count = Missing THEN Unknown(Rows(r)) ELSE FromDistinct(Rows(r), count)

\* degree_graph's loop over the predicates: a degree for both ends of each.
\* The loop that hands them to with_edge is WithEdge.
DegreeGraph ==
  /\ pc = "build" /\ built = {} /\ pending # <<>>
  /\ \E counts \in [Relation -> UNION {Counts(r) : r \in Relation}] :
       /\ \A r \in Relation : counts[r] \in Counts(r)
       /\ registered' = [r \in Relation |-> [a \in Schema[r] |->
            IF a \in JoinedBy(pending, r) THEN DegreeOf(r, counts[r]) ELSE NoDegree]]
  /\ built' = Relation
  /\ UNCHANGED <<table, graph, forest, outer, inner, tree, pc, result>>

\* The join is described, and no degree was given: the surface of the bounds
\* that take none.
Described ==
  /\ pc = "build" /\ built = Relation /\ pending = <<>>
  /\ \A r \in Relation : \A a \in Schema[r] : registered[r][a] = NoDegree

\* ProductBound, and AgmBound, which ignore the predicates; ChainBound and
\* LpJoinBound when there is none.
CallProduct ==
  /\ Described /\ pc' = "fold"
  /\ best' = 1 /\ visited' = {}
  /\ UNCHANGED <<inputs, graph, forest, outer, component, roots, bound, result>>

\* The fold of saturating_mul over the relations.
FoldRows ==
  /\ pc = "fold"
  /\ \E r \in Relation \ visited :
       /\ Least(r, Relation \ visited)
       /\ best' = Capped(best * Rows(r))
       /\ visited' = visited \cup {r}
  /\ UNCHANGED <<inputs, graph, forest, outer, component, roots, bound, pc, result>>

ReturnProduct ==
  /\ pc = "fold" /\ visited = Relation
  /\ result' = best /\ pc' = "done"
  /\ UNCHANGED <<inputs, graph, forest, outer, inner, tree>>

LegacyNext == Next \/ DegreeGraph \/ CallProduct \/ FoldRows \/ ReturnProduct

LegacySpec == Init /\ [][LegacyNext]_vars

----------------------------------------------------------------------------
(* ceiling_hypergraph.                                                     *)

\* HyperRelation::projected is honest of a relation without columns beside
\* its keys, in which no row occurs twice.
Projectable(r) ==
  \A i, j \in 1 .. Len(table[r]) : i # j => \E a \in Joined(r) : table[r][i][a] # table[r][j][a]

\* Mutant: private columns and lone relations need no weight of their own.
CoverAttributes(doubled, projected) ==
  \A r, q \in Relation : r # q /\ Joined(r) \cap Joined(q) # {} => doubled[r] + doubled[q] >= 2

\* The program's constraints on twice the weights: every attribute is
\* covered, and so is every relation with columns of its own.
Covers(doubled, projected) ==
  /\ \A r, q \in Relation : r # q /\ Joined(r) \cap Joined(q) # {} => doubled[r] + doubled[q] >= 2
  /\ \A r \in Relation : r \notin projected \/ Joined(r) = {} => doubled[r] = 2

\* rows ^ doubled; a relation of at most one row costs nothing.
Cost(r, doubled) == LET n == IF Rows(r) <= 1 THEN 1 ELSE Rows(r) IN IF doubled = 0 THEN 1 ELSE IF doubled = 1 THEN n ELSE n * n

TimesOver(f) == FoldFunction(LAMBDA n, m : n * m, 1, f)

\* The square of the optimum: where two relations at most share an
\* attribute the program has an optimum in halves.
SquaredOptimum(projected) ==
  Min({TimesOver([r \in Relation |-> Cost(r, doubled[r])]) :
         doubled \in {d \in [Relation -> 0 .. 2] : Covers(d, projected)}})

RootUp(n) == CHOOSE m \in 0 .. n : m * m >= n /\ \A k \in 0 .. n : k * k >= n => m <= k

ProductBound == Capped(TimesOver([r \in Relation |-> Rows(r)]))

HypergraphCeiling(projected) ==
  IF projected = {} THEN ProductBound ELSE Min({ProductBound, Capped(RootUp(SquaredOptimum(projected)))})

CallHypergraph ==
  /\ Described /\ Relation # {} /\ pc' = "done"
  /\ \E projected \in SUBSET {r \in Relation : Projectable(r)} : result' = HypergraphCeiling(projected)
  /\ UNCHANGED <<inputs, graph, forest, outer, inner, tree>>

EveryNext == LegacyNext \/ CallHypergraph

----------------------------------------------------------------------------
(* Properties.                                                             *)

Status == IF pc = "build" THEN "describing" ELSE IF pc = "done" THEN "answered" ELSE "called"

Promise == INSTANCE UpperBound WITH
  Relations <- Relation, status <- Status, ceiling <- result,
  size <- IF pc = "build" THEN 0 ELSE Cardinality(Join(Relation))

\* Every bound of the crate, whichever of its two surfaces it is asked
\* through, implements the trait's promise: once called, one answer, for the
\* join as it was described, and never below the rows it emits.
KeepsPromise == Promise!Spec
=============================================================================
