------------------------------ MODULE Bindings ------------------------------
(***************************************************************************)
(* The join ceiling and the product bound as Python and JavaScript see     *)
(* them (samkhya-py/src/lib.rs, samkhya-wasm/src/lib.rs): counts arrive as *)
(* f64, the list of distinct counts may be missing, short or long, and     *)
(* JavaScript passes the pairs of joined relations as one flat list.       *)
(* Relations are numbered from 0 and a query's pairs from 1.               *)
(***************************************************************************)
EXTENDS LegacyBounds, SequencesExt

CONSTANTS
  Number,    \* the f64 a script may hold
  MaxLength  \* bound: the longest list of distinct counts

\* A number is a multiple of one half, or none.
ASSUME NumberAssumption ==
  \A x \in Number : x.kind \in {"finite", "infinite", "nan"} /\ x.halves \in Int
ASSUME LengthAssumption == MaxLength \in Nat

\* What is no count is none: 0 rows, and for from_distinct an unknown count.
ToRowCount(x) == IF x.kind # "finite" \/ x.halves < 0 THEN 0 ELSE Capped(x.halves \div 2)

\* Of a caller who heeds "the distinct counts must not be over-stated": not
\* a number, or none above the distinct values of any of its join keys.
Understated(x, r) ==
  \/ x.kind # "finite" \/ ToRowCount(x) > Rows(r)
  \/ \A a \in JoinedBy(pending, r) : x.halves <= 2 * Cardinality(DistinctValues(table[r], a))

\* card_estimates, one number for each relation: those that to_row_counts
\* turns into the rows of its table.  A table of no rows is what a NaN, an
\* infinite and a negative number describe.
RowLists == {rows \in [Relation -> Number] : \A r \in Relation : ToRowCount(rows[r]) = Rows(r)}

\* distinct_counts, for the first relations, for all, or for more than there
\* are: nobody reads what is behind the last relation.
CountLists ==
  {list \in UNION {[0 .. n - 1 -> Number] : n \in 0 .. MaxLength} :
     \A r \in Relation \cap DOMAIN list : Understated(list[r], r)}

\* Mutant: a count that is missing is one value in every row.
DegreeOfKeyed(rows, list, r) ==
  LET n == ToRowCount(rows[r]) IN FromDistinct(n, IF r \in DOMAIN list THEN ToRowCount(list[r]) ELSE n)

DegreeIn(rows, list, r) ==
  LET n == ToRowCount(rows[r]) IN IF r \in DOMAIN list THEN FromDistinct(n, ToRowCount(list[r])) ELSE Unknown(n)

\* Every end in range of every pair has a degree, also of a pair that
\* with_edge drops.
Degrees(rows, list, pairs) ==
  [r \in Relation |-> [a \in Schema[r] |->
     IF \E k \in 1 .. Len(pairs) : pairs[k].attribute = a /\ r \in {pairs[k].left, pairs[k].right}
     THEN DegreeIn(rows, list, r) ELSE NoDegree]]

Undescribed == pc = "build" /\ built = {}

Describe(pairs, degrees) ==
  /\ registered' = degrees /\ built' = Relation /\ pending' = pairs
  /\ UNCHANGED <<table, edges, forest, outer, inner, tree, pc, result>>

\* Python's join_ceiling; without the argument there is no degree at all.
PythonJoinCeiling ==
  /\ Undescribed
  /\ \E rows \in RowLists :
     \/ \E list \in CountLists : Describe(pending, Degrees(rows, list, pending))
     \/ Describe(pending, [r \in Relation |-> [a \in Schema[r] |-> NoDegree]])

Flattened == FlattenSeq([k \in 1 .. Len(pending) |-> <<pending[k].left, pending[k].right>>])

\* chunks_exact(2); the k-th pair joins on the k-th attribute of the query.
Paired(flat) ==
  [k \in 1 .. Len(flat) \div 2 |->
     [left |-> flat[2 * k - 1], right |-> flat[2 * k], attribute |-> pending[k].attribute]]

\* An index too many at the end of the list, which is passed over.
OddEnd == {<<>>, <<0>>}

\* JavaScript's joinCeiling.
WasmJoinCeiling ==
  /\ Undescribed
  /\ \E rows \in RowLists, list \in CountLists, rest \in OddEnd :
    LET pairs == Paired(Flattened \o rest) IN Describe(pairs, Degrees(rows, list, pairs))

\* Python's product_bound and agm_bound; for no relation the answer is 0.
PythonProduct ==
  /\ Described /\ RowLists # {} /\ pc' = IF Relation = {} THEN "done" ELSE "fold"
  /\ best' = 1 /\ visited' = {}
  /\ UNCHANGED <<inputs, graph, forest, outer, component, roots, bound, result>>

ScriptNext == PythonJoinCeiling \/ WasmJoinCeiling \/ PythonProduct

BindingNext == EveryNext \/ ScriptNext

BindingSpec == Init /\ [][BindingNext]_vars

\* The same without the cover program, which no script reaches.
ScriptSpec == Init /\ [][LegacyNext \/ ScriptNext]_vars
=============================================================================
