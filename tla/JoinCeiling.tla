---------------------------- MODULE JoinCeiling ----------------------------
(***************************************************************************)
(* JoinGraph::ceiling (samkhya-core/src/degree.rs): the provable ceiling   *)
(* on the output of an equi-join.                                          *)
(*                                                                         *)
(* The graph is built by with_edge calls over relations that carry a row   *)
(* count and, for some attributes, a degree bound; ceiling() then finds    *)
(* the connected components, bounds each by the Cartesian product and by   *)
(* the best spanning tree over every root, and multiplies the components.  *)
(* Each loop of the code is a program-counter value here, so that the loop *)
(* invariants are state invariants.  Beside the statistics the state holds *)
(* the database instance they describe, which the code never sees: the     *)
(* properties compare the ceiling with the true size of the join over it.  *)
(***************************************************************************)
EXTENDS Integers, Sequences, FiniteSets

CONSTANTS
  Relation,    \* indices of the relations: a finite set of naturals
  Attribute,   \* AttributeId
  Schema,      \* Schema[r]: the join attributes relation r carries
  Value,       \* join key values
  Instance,    \* database instances: functions from Relation to tables
  EdgeList,    \* the sequences of with_edge calls to try
  MaxRows,     \* bound: rows of the longest table
  Stale,       \* bound: how far a degree's row count may exceed the table's
  MaxU64       \* u64::MAX, which means "no finite ceiling"

Edge == [left : Nat, right : Nat, attribute : Attribute]

\* Tables are bags: rows are identified by their position.
IsTable(t, r) == t \in Seq([Schema[r] -> Value]) /\ Len(t) <= MaxRows

NoDegree == -1   \* no entry for the attribute in JoinRelation's map

ASSUME RelationAssumption ==
  /\ Relation \subseteq Nat
  /\ IsFiniteSet(Relation)
ASSUME BoundAssumption ==
  /\ MaxRows \in Nat
  /\ Stale \in Nat
  /\ MaxU64 \in Nat
  /\ MaxRows + Stale <= MaxU64
ASSUME InstanceAssumption ==
  \A d \in Instance :
    /\ d = [r \in Relation |-> d[r]]
    /\ \A r \in Relation : IsTable(d[r], r)
\* A caller names an attribute only where both of the relations carry it;
\* edges to relations outside the graph and self-edges are the caller's
\* mistakes that with_edge drops.
ASSUME EdgeListAssumption ==
  \A list \in EdgeList :
    /\ list \in Seq(Edge)
    /\ \A k \in 1 .. Len(list) :
         /\ list[k].left \in Relation => list[k].attribute \in Schema[list[k].left]
         /\ list[k].right \in Relation => list[k].attribute \in Schema[list[k].right]

VARIABLES
  table,        \* the instance the statistics were gathered from
  built,        \* relations already constructed with their degrees
  registered,   \* JoinRelation::degrees, NoDegree where there is no entry
  pending,      \* with_edge calls still to come
  edges,        \* JoinGraph::edges
  label,        \* union-find: the root find() returns for each relation
  unioned,      \* edges already handed to the union-find
  groups,       \* roots of the components still to be bounded
  total,        \* running product over the components
  component,    \* the component being bounded
  best,         \* its tightest ceiling so far
  roots,        \* spanning-tree roots still to be tried
  visited,      \* relations in the product or tree so far
  bound,        \* ceiling of the tree so far
  pc,           \* "fold" belongs to LegacyBounds
  result

inputs == <<table, built, registered>>
graph  == <<pending, edges>>
forest == <<label, unioned>>
outer  == <<groups, total>>
inner  == <<component, best, roots>>
tree   == <<visited, bound>>
vars   == <<inputs, graph, forest, outer, inner, tree, pc, result>>

----------------------------------------------------------------------------
(* AttributeDegree: each constructor's max_degree.                         *)

Unknown(n) == n

FromDistinctOffByOne(n, distinct) ==
  IF distinct = 0 \/ distinct > n THEN Unknown(n) ELSE n - distinct

FromDistinct(n, distinct) ==
  IF distinct = 0 \/ distinct > n THEN Unknown(n) ELSE n - distinct + 1

FromUpperBound(n, upper) == IF upper < n THEN upper ELSE n

----------------------------------------------------------------------------
(* The instance behind the statistics.                                     *)

Carriers(t, a, v) == {i \in 1 .. Len(t) : t[i][a] = v}

DistinctValues(t, a) == {t[i][a] : i \in 1 .. Len(t)}

\* The soundness obligation of AttributeDegree.
BoundsDegree(d, t, a) == \A v \in Value : Cardinality(Carriers(t, a, v)) <= d

\* The degrees a caller that honours the constructors' obligations can
\* register: a distinct count at or below the truth (an HLL floor), or a
\* frequency bound at or above it (a Count-Min bound), taken against a row
\* count that may be older, and larger, than the table.  A distinct count
\* above the row count is an inconsistent reading the constructor rejects.
HonestDegrees(t, a) ==
  UNION { {FromDistinct(n, d) :
             d \in (0 .. Cardinality(DistinctValues(t, a))) \cup {n + 1, n + 3}}
          \cup {FromUpperBound(n, u) : u \in {u \in 0 .. n : BoundsDegree(u, t, a)}}
          : n \in Len(t) .. Len(t) + Stale }

\* JoinRelation::rows.
Rows(r) == Len(table[r])

\* JoinRelation::degree.
Degree(r, a) ==
  IF registered[r][a] = NoDegree THEN Unknown(Rows(r)) ELSE registered[r][a]

\* The output of the join restricted to the relations in S: one row of each,
\* agreeing on every edge between two of them.
Join(S) ==
  {f \in [S -> 1 .. MaxRows] :
     /\ \A r \in S : f[r] \in 1 .. Len(table[r])
     /\ \A k \in 1 .. Len(edges) :
          (edges[k].left \in S /\ edges[k].right \in S) =>
            table[edges[k].left][f[edges[k].left]][edges[k].attribute]
              = table[edges[k].right][f[edges[k].right]][edges[k].attribute]}

\* n is a ceiling of the join over S; MaxU64 promises nothing.
Bounds(n, S) == n = MaxU64 \/ Cardinality(Join(S)) <= n

Capped(n) == IF n >= MaxU64 THEN MaxU64 ELSE n

Least(n, S) == n \in S /\ \A m \in S : n <= m

\* An edge is crossed from its left end to its right, 1, or back, 2.
Ends(c) == IF c[2] = 1 THEN <<edges[c[1]].left, edges[c[1]].right>>
                       ELSE <<edges[c[1]].right, edges[c[1]].left>>

FrontierForward ==
  {c \in (1 .. Len(edges)) \X {1} :
     /\ Ends(c)[1] \in visited
     /\ Ends(c)[2] \in component \ visited}

\* The crossings of the frontier, as the loop over the edges meets them.
Frontier ==
  {c \in (1 .. Len(edges)) \X {1, 2} :
     /\ Ends(c)[1] \in visited
     /\ Ends(c)[2] \in component \ visited}

Factor(c) == Degree(Ends(c)[2], edges[c[1]].attribute)

\* c is met before d.
Before(c, d) == c[1] < d[1] \/ (c[1] = d[1] /\ c[2] <= d[2])

\* The smallest factor; the first met wins a tie.
Greediest(c) ==
  /\ c \in Frontier
  /\ \A d \in Frontier :
       Factor(c) < Factor(d) \/ (Factor(c) = Factor(d) /\ Before(c, d))

----------------------------------------------------------------------------
(* Building the graph.                                                     *)

Init ==
  /\ table \in Instance
  /\ built = {}
  /\ registered = [r \in Relation |-> [a \in Schema[r] |-> NoDegree]]
  /\ pending \in EdgeList
  /\ edges = <<>>
  /\ label = [r \in Relation |-> r]
  /\ unioned = 0
  /\ groups = {}
  /\ total = 1
  /\ component = {} /\ best = 0 /\ roots = {}
  /\ visited = {} /\ bound = 0
  /\ pc = "build"
  /\ result = 0

\* What with_degree calls can leave in the map: an entry or none for each
\* attribute the query joins on.
Registrations(r) ==
  LET Joined == {pending[k].attribute : k \in 1 .. Len(pending)}
      Choices == [a \in Schema[r] |->
                    {NoDegree} \cup IF a \in Joined THEN HonestDegrees(table[r], a) ELSE {}]
  IN  {g \in [Schema[r] -> UNION {Choices[a] : a \in Schema[r]}] :
         \A a \in Schema[r] : g[a] \in Choices[a]}

\* JoinRelation::new and the with_degree calls on it.
AddRelation(r) ==
  /\ pc = "build" /\ Least(r, Relation \ built)
  /\ built' = built \cup {r}
  /\ \E g \in Registrations(r) : registered' = [registered EXCEPT ![r] = g]
  /\ UNCHANGED <<table, graph, forest, outer, inner, tree, pc, result>>

\* with_edge drops an edge that leaves the graph or joins a relation to
\* itself.
ValidEdge(e) == e.left \in Relation /\ e.right \in Relation /\ e.left # e.right

WithEdge ==
  /\ pc = "build" /\ built = Relation /\ pending # <<>>
  /\ pending' = Tail(pending)
  /\ edges' = IF ValidEdge(Head(pending)) THEN Append(edges, Head(pending)) ELSE edges
  /\ UNCHANGED <<inputs, forest, outer, inner, tree, pc, result>>

----------------------------------------------------------------------------
(* ceiling(): components.                                                  *)

CallCeiling ==
  /\ pc = "build" /\ built = Relation /\ pending = <<>>
  /\ pc' = IF Relation = {} THEN "done" ELSE "components"
  /\ UNCHANGED <<inputs, graph, forest, outer, inner, tree, result>>

\* One iteration of the union-find: the left root is hung below the right.
UnionEnds(e) ==
  [r \in Relation |-> IF label[r] = label[e.left] THEN label[e.right] ELSE label[r]]

Union ==
  /\ pc = "components" /\ unioned < Len(edges)
  /\ unioned' = unioned + 1
  /\ label' = UnionEnds(edges[unioned + 1])
  /\ UNCHANGED <<inputs, graph, outer, inner, tree, pc, result>>

Group ==
  /\ pc = "components" /\ unioned = Len(edges)
  /\ groups' = {label[r] : r \in Relation}
  /\ pc' = "next"
  /\ UNCHANGED <<inputs, graph, forest, total, inner, tree, result>>

----------------------------------------------------------------------------
(* ceiling(): the loop over the components, in the order of their roots.   *)

NextComponent ==
  /\ pc = "next"
  /\ \E g \in groups :
       /\ Least(g, groups)
       /\ groups' = groups \ {g}
       /\ component' = {r \in Relation : label[r] = g}
  /\ best' = 1 /\ visited' = {} /\ bound' = 0
  /\ pc' = "product"
  /\ UNCHANGED <<inputs, graph, forest, total, roots, result>>

\* component_ceiling: ProductBound over the component's row counts, a fold
\* of saturating_mul.
MultiplyRows ==
  /\ pc = "product"
  /\ \E r \in component \ visited :
       /\ Least(r, component \ visited)
       /\ best' = Capped(best * Rows(r))
       /\ visited' = visited \cup {r}
  /\ UNCHANGED <<inputs, graph, forest, outer, component, roots, bound, pc, result>>

\* A singleton is bounded by its row count, which is its product; any other
\* component tries every member as the root.
TryRoots ==
  /\ pc = "product" /\ visited = component
  /\ roots' = IF Cardinality(component) = 1 THEN {} ELSE component
  /\ pc' = "root"
  /\ UNCHANGED <<inputs, graph, forest, outer, component, best, tree, result>>

PlantTree ==
  /\ pc = "root"
  /\ \E r \in roots :
       /\ Least(r, roots)
       /\ roots' = roots \ {r}
       /\ visited' = {r}
       /\ bound' = Rows(r)
  /\ pc' = "grow"
  /\ UNCHANGED <<inputs, graph, forest, outer, component, best, result>>

\* The component is folded into the product; a product that reaches MaxU64
\* is returned at once.
MultiplyComponent ==
  /\ pc = "root" /\ roots = {}
  /\ total' = total * best
  /\ pc' = IF total' >= MaxU64 THEN "done" ELSE "next"
  /\ result' = IF total' >= MaxU64 THEN MaxU64 ELSE result
  /\ UNCHANGED <<inputs, graph, forest, groups, inner, tree>>

Return ==
  /\ pc = "next" /\ groups = {}
  /\ result' = total
  /\ pc' = "done"
  /\ UNCHANGED <<inputs, graph, forest, outer, inner, tree>>

----------------------------------------------------------------------------
(* spanning_tree_ceiling.                                                  *)

\* The frontier relation with the smallest degree joins the tree.  A product
\* that reaches MaxU64 ends the tree: MaxU64 is no less than best.  The
\* code's fallback for an empty frontier has no transition here, because the
\* frontier of a component is never empty: FrontierNeverEmpty.
Attach ==
  /\ pc = "grow" /\ visited # component
  /\ \E c \in Frontier :
       /\ Greediest(c)
       /\ visited' = visited \cup {Ends(c)[2]}
       /\ bound' = bound * Factor(c)
  /\ pc' = IF bound' >= MaxU64 THEN "root" ELSE pc
  /\ UNCHANGED <<inputs, graph, forest, outer, inner, result>>

Tightest(candidate) == IF candidate < best THEN candidate ELSE best

\* The tree spans the component: component_ceiling keeps the smaller bound.
FinishTree ==
  /\ pc = "grow" /\ visited = component
  /\ best' = Tightest(Capped(bound))
  /\ pc' = "root"
  /\ UNCHANGED <<inputs, graph, forest, outer, component, roots, tree, result>>

Next ==
  \/ \E r \in Relation : AddRelation(r)
  \/ WithEdge
  \/ CallCeiling
  \/ Union \/ Group
  \/ NextComponent \/ MultiplyRows \/ TryRoots \/ PlantTree
  \/ Attach \/ FinishTree
  \/ MultiplyComponent \/ Return

Spec == Init /\ [][Next]_vars

----------------------------------------------------------------------------
(* Properties.                                                             *)

\* Types of the state: bounds and row counts stay naturals, and the union-find,
\* the components and the trees stay within the graph's relations.
TypeOK ==
  /\ table = [r \in Relation |-> table[r]]
  /\ \A r \in Relation : IsTable(table[r], r)
  /\ built \subseteq Relation
  /\ registered = [r \in Relation |-> registered[r]]
  /\ \A r \in Relation : registered[r] \in [Schema[r] -> Nat \cup {NoDegree}]
  /\ pending \in Seq(Edge) /\ edges \in Seq(Edge)
  /\ label \in [Relation -> Relation] /\ unioned \in Nat
  /\ groups \subseteq Relation /\ total \in Nat
  /\ component \subseteq Relation /\ best \in Nat /\ roots \subseteq Relation
  /\ visited \subseteq Relation /\ bound \in Nat
  /\ pc \in {"build", "fold", "components", "next", "product", "root", "grow", "done"}
  /\ result \in Nat

\* The loop invariant of the module's theorem (degree.rs, "the bound"): the
\* relations the tree has reached, joined on every edge between them, never
\* yield more rows than the bound built from degrees alone.
TreeBoundSound == pc = "grow" => Cardinality(Join(visited)) <= bound

\* The headline claim of ceiling(): it is never below the true cardinality
\* of an instance consistent with the statistics.  (Of a graph with no
\* relation the code says 0; the empty join is not a join.)
CeilingSound == (pc = "done" /\ Relation # {}) => Bounds(result, Relation)

\* The union-find hands spanning_tree_ceiling connected components only, so
\* its fallback for an empty frontier is dead code.
FrontierNeverEmpty == (pc = "grow" /\ visited # component) => Frontier # {}
============================================================================
