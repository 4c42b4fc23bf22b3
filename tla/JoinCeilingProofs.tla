------------------------- MODULE JoinCeilingProofs -------------------------
(***************************************************************************)
(* The join ceiling is sound for every database instance, every join graph *)
(* and every honest set of degree statistics: the spanning-tree theorem of *)
(* degree.rs, machine checked on the algorithm that uses it.  So are the   *)
(* legacy bounds, which keep the promise of the trait UpperBound, and what *)
(* a Python or WebAssembly caller gets from a list of numbers of any       *)
(* length that says nothing false.                                         *)
(***************************************************************************)
EXTENDS Bindings, FunctionTheorems, SequenceTheorems, FiniteSetTheorems, WellFoundedInduction, TLAPS

(* Arithmetic the products need.                                           *)
LEMMA ProductMonotone ==
  ASSUME NEW a \in Nat, NEW b \in Nat, NEW c \in Nat, NEW d \in Nat, a <= b, c <= d
  PROVE  a * c \in Nat /\ b * d \in Nat /\ a * c <= b * d
<1>1. b * d = a * c + (b - a) * c + b * (d - c)
  BY Z3
<1>2. (b - a) * c >= 0 /\ b * (d - c) >= 0 /\ a * c >= 0
  BY Z3
<1>. QED  BY <1>1, <1>2, Z3

\* Ceilings multiply, and MaxU64 still promises nothing: a product below it
\* has a factor that is 0 or two that are below it.
LEMMA BoundsMultiply ==
  ASSUME NEW x \in Nat, NEW y \in Nat, NEW m \in Nat, NEW n \in Nat,
         m = MaxU64 \/ x <= m, n = MaxU64 \/ y <= n
  PROVE  /\ m * n \in Nat
         /\ m * n < MaxU64 => x * y <= m * n
<1>0. MaxU64 \in Nat
  BY BoundAssumption
<1>1. m * n \in Nat /\ x * y \in Nat
  BY Z3
<1>2. CASE x <= m /\ y <= n
  BY <1>1, <1>2, ProductMonotone
<1>3. CASE m = MaxU64
  <2>1. CASE n = 0
    <3>1. x * 0 = 0 /\ m * n = 0
      BY <2>1, Z3
    <3>. QED  BY <1>0, <1>3, <2>1, <3>1
  <2>2. CASE n # 0
    <3>1. m * (n - 1) >= 0 /\ m * n = m * (n - 1) + m
      BY <2>2, Z3
    <3>. QED  BY <1>0, <1>1, <1>3, <3>1
  <2>. QED  BY <2>1, <2>2
<1>4. CASE n = MaxU64
  <2>1. CASE m = 0
    <3>1. 0 * y = 0 /\ m * n = 0
      BY <2>1, Z3
    <3>. QED  BY <1>0, <1>4, <2>1, <3>1
  <2>2. CASE m # 0
    <3>1. (m - 1) * n >= 0 /\ m * n = (m - 1) * n + n
      BY <2>2, Z3
    <3>. QED  BY <1>0, <1>1, <1>4, <3>1
  <2>. QED  BY <2>1, <2>2
<1>. QED  BY <1>2, <1>3, <1>4

----------------------------------------------------------------------------
(* Degrees.                                                                *)

LEMMA RowsFinite ==
  ASSUME NEW n \in Nat
  PROVE  IsFiniteSet(1 .. n) /\ Cardinality(1 .. n) = n
<1>1. 1 \in Int /\ n \in Int
  OBVIOUS
<1>2. IsFiniteSet(1 .. n) /\ Cardinality(1 .. n) = IF 1 > n THEN 0 ELSE n - 1 + 1
  BY <1>1, FS_Interval
<1>. QED  BY <1>2

LEMMA RemoveAtMostOne ==
  ASSUME NEW S, IsFiniteSet(S), NEW x
  PROVE  /\ IsFiniteSet(S \ {x})
         /\ Cardinality(S) \in Nat /\ Cardinality(S \ {x}) \in Nat
         /\ Cardinality(S) <= Cardinality(S \ {x}) + 1
<1>1. IsFiniteSet(S \ {x}) /\ Cardinality(S) \in Nat
  BY FS_RemoveElement, FS_CardinalityType
<1>2. Cardinality(S \ {x}) \in Nat
  BY <1>1, FS_CardinalityType
<1>3. CASE x \in S
  <2>1. Cardinality(S \ {x}) = Cardinality(S) - 1
    BY <1>3, FS_RemoveElement, Zenon
  <2>. QED  BY <2>1, <1>1, <1>2
<1>4. CASE x \notin S
  <2>1. Cardinality(S \ {x}) = Cardinality(S)
    BY <1>4, FS_RemoveElement, Zenon
  <2>. QED  BY <2>1, <1>1, <1>2
<1>. QED  BY <1>3, <1>4

\* The rows that carry one value are finitely many, and no more than the
\* table has.
LEMMA CarriersFinite ==
  ASSUME NEW t, Len(t) \in Nat, NEW a, NEW v
  PROVE  /\ IsFiniteSet(Carriers(t, a, v))
         /\ Cardinality(Carriers(t, a, v)) \in Nat
         /\ Cardinality(Carriers(t, a, v)) <= Len(t)
<1>1. IsFiniteSet(1 .. Len(t)) /\ Cardinality(1 .. Len(t)) = Len(t)
  BY RowsFinite
<1>2. Carriers(t, a, v) \in SUBSET (1 .. Len(t))
  BY DEF Carriers
<1>. QED  BY <1>1, <1>2, FS_Subset, FS_CardinalityType

\* AttributeDegree::from_distinct: assign one row to each distinct value and
\* pile the rest onto one of them; nothing beats that concentration.
LEMMA FromDistinctSound ==
  ASSUME NEW t, Len(t) \in Nat, NEW a,
         NEW n \in Nat, Len(t) <= n,
         NEW d \in Nat, d <= Cardinality(DistinctValues(t, a)) \/ d > n
  PROVE  FromDistinct(n, d) \in Nat /\ BoundsDegree(FromDistinct(n, d), t, a)
<1>. DEFINE Rows_ == 1 .. Len(t)
            D == DistinctValues(t, a)
<1>1. IsFiniteSet(Rows_) /\ Cardinality(Rows_) = Len(t)
  BY RowsFinite
<1>2. IsFiniteSet(D) /\ Cardinality(D) \in Nat
  <2>. DEFINE f == [i \in Rows_ |-> t[i][a]]
  <2>1. f \in Surjection(Rows_, D)
    <3>1. f \in [Rows_ -> D]
      BY DEF DistinctValues
    <3>2. \A w \in D : \E i \in Rows_ : f[i] = w
      BY DEF DistinctValues
    <3>. QED  BY <3>1, <3>2, Fun_IsSurj
  <2>. QED  BY <1>1, <2>1, FS_Surjection, FS_CardinalityType
<1>3. ASSUME NEW v
      PROVE  Cardinality(Carriers(t, a, v)) + Cardinality(D) <= Len(t) + 1
  <2>. DEFINE C == Carriers(t, a, v)
              rep == [w \in D \ {v} |-> CHOOSE i \in Rows_ : t[i][a] = w]
  <2>1. \A w \in D \ {v} : rep[w] \in Rows_ \ C /\ t[rep[w]][a] = w
    BY DEF DistinctValues, Carriers
  <2>2. rep \in [D \ {v} -> Rows_ \ C]
    BY <2>1
  <2>3. \A w, x \in D \ {v} : rep[w] = rep[x] => w = x
    BY <2>1
  <2>4. rep \in Injection(D \ {v}, Rows_ \ C)
    BY <2>2, <2>3, Fun_IsInj
  <2>5. IsFiniteSet(Rows_ \ C) /\ Cardinality(Rows_ \ C) = Len(t) - Cardinality(Rows_ \cap C)
    BY <1>1, FS_Difference
  <2>6. Rows_ \cap C = C
    BY DEF Carriers
  <2>7. Cardinality(D \ {v}) <= Cardinality(Rows_ \ C)
    BY <2>4, <2>5, FS_Injection
  <2>8. /\ Cardinality(D) \in Nat /\ Cardinality(D \ {v}) \in Nat
        /\ Cardinality(D) <= Cardinality(D \ {v}) + 1
    BY <1>2, RemoveAtMostOne
  <2>9. Cardinality(C) \in Nat
    BY CarriersFinite
  <2>10. Cardinality(Rows_ \ C) = Len(t) - Cardinality(C)
    BY <2>5, <2>6
  <2>. HIDE DEF D, C, Rows_
  <2>11. Cardinality(C) + Cardinality(D) <= Len(t) + 1
    BY <2>7, <2>8, <2>9, <2>10
  <2>. QED  BY <2>11 DEF C
<1>4. FromDistinct(n, d) \in Nat
  BY DEF FromDistinct, Unknown
<1>5. ASSUME NEW v
      PROVE  Cardinality(Carriers(t, a, v)) <= FromDistinct(n, d)
  <2>1. CASE d = 0 \/ d > n
    BY <2>1, CarriersFinite DEF FromDistinct, Unknown
  <2>2. CASE ~(d = 0 \/ d > n)
    <3>1. Cardinality(Carriers(t, a, v)) + Cardinality(D) <= Len(t) + 1
      BY <1>3
    <3>2. Cardinality(Carriers(t, a, v)) \in Nat
      BY CarriersFinite
    <3>3. FromDistinct(n, d) = n - d + 1
      BY <2>2 DEF FromDistinct
    <3>4. d <= Cardinality(D)
      BY <2>2
    <3>. HIDE DEF D
    <3>. QED  BY <1>2, <3>1, <3>2, <3>3, <3>4
  <2>. QED  BY <2>1, <2>2
<1>. QED  BY <1>4, <1>5 DEF BoundsDegree

\* AttributeDegree::from_upper_bound: the smaller of two degree bounds.
LEMMA FromUpperBoundSound ==
  ASSUME NEW t, Len(t) \in Nat, NEW a,
         NEW n \in Nat, Len(t) <= n, NEW u \in Nat, BoundsDegree(u, t, a)
  PROVE  FromUpperBound(n, u) \in Nat /\ BoundsDegree(FromUpperBound(n, u), t, a)
BY CarriersFinite DEF FromUpperBound, BoundsDegree

\* Whatever constructor an honest caller uses, the registered degree bounds
\* the true one.
LEMMA HonestDegreesBound ==
  ASSUME NEW t, Len(t) \in Nat, NEW a, NEW g \in HonestDegrees(t, a)
  PROVE  g \in Nat /\ BoundsDegree(g, t, a)
<1>1. PICK n \in Len(t) .. Len(t) + Stale :
        \/ \E d \in (0 .. Cardinality(DistinctValues(t, a))) \cup {n + 1, n + 3} :
             g = FromDistinct(n, d)
        \/ \E u \in {u \in 0 .. n : BoundsDegree(u, t, a)} : g = FromUpperBound(n, u)
  BY DEF HonestDegrees
<1>2. n \in Nat /\ Len(t) <= n
  BY BoundAssumption
<1>3. CASE \E d \in (0 .. Cardinality(DistinctValues(t, a))) \cup {n + 1, n + 3} :
             g = FromDistinct(n, d)
  <2>1. PICK d \in (0 .. Cardinality(DistinctValues(t, a))) \cup {n + 1, n + 3} :
          g = FromDistinct(n, d)
    BY <1>3
  <2>2. d \in Nat /\ (d <= Cardinality(DistinctValues(t, a)) \/ d > n)
    BY <1>2
  <2>. QED  BY <1>2, <2>1, <2>2, FromDistinctSound
<1>4. CASE \E u \in {u \in 0 .. n : BoundsDegree(u, t, a)} : g = FromUpperBound(n, u)
  BY <1>2, <1>4, FromUpperBoundSound
<1>. QED  BY <1>1, <1>3, <1>4
----------------------------------------------------------------------------
(* Joins.                                                                  *)

\* The edges the code keeps connect two relations that carry the attribute.
Carried(e) ==
  /\ e.left \in Relation => e.attribute \in Schema[e.left]
  /\ e.right \in Relation => e.attribute \in Schema[e.right]

Wired ==
  /\ \A k \in 1 .. Len(pending) : Carried(pending[k])
  /\ \A k \in 1 .. Len(edges) : ValidEdge(edges[k]) /\ Carried(edges[k])

Tables == \A r \in Relation : IsTable(table[r], r)

LEMMA RowsType ==
  ASSUME Tables, NEW r \in Relation
  PROVE  Len(table[r]) \in Nat /\ Len(table[r]) <= MaxRows
<1>1. table[r] \in Seq([Schema[r] -> Value]) /\ Len(table[r]) <= MaxRows
  BY DEF Tables, IsTable
<1>. QED  BY <1>1

\* A key that a row carries is one of the values.
LEMMA KeyType ==
  ASSUME Tables, NEW r \in Relation, NEW i \in 1 .. Len(table[r]), NEW a \in Schema[r]
  PROVE  table[r][i][a] \in Value
<1>1. table[r] \in Seq([Schema[r] -> Value])
  BY DEF Tables, IsTable
<1>2. table[r][i] \in [Schema[r] -> Value]
  BY <1>1
<1>. QED  BY <1>2

\* A join of finitely many bounded tables has finitely many rows.
LEMMA JoinFinite ==
  ASSUME NEW S \in SUBSET Relation
  PROVE  IsFiniteSet(Join(S)) /\ Cardinality(Join(S)) \in Nat
<1>. DEFINE Pairs == SUBSET (S \X (1 .. MaxRows))
            graphOf == [f \in Join(S) |-> {<<x, f[x]>> : x \in S}]
<1>1. IsFiniteSet(S) /\ IsFiniteSet(1 .. MaxRows)
  BY RelationAssumption, BoundAssumption, FS_Subset, RowsFinite
<1>2. IsFiniteSet(Pairs)
  <2>1. IsFiniteSet(S \X (1 .. MaxRows))
    BY <1>1, FS_Product
  <2>. QED  BY <2>1, FS_SUBSET
<1>3. \A f \in Join(S) : f \in [S -> 1 .. MaxRows]
  BY DEF Join
<1>4. graphOf \in [Join(S) -> Pairs]
  BY <1>3
<1>5. \A f, g \in Join(S) : graphOf[f] = graphOf[g] => f = g
  <2>. SUFFICES ASSUME NEW f \in Join(S), NEW g \in Join(S), graphOf[f] = graphOf[g]
                PROVE  f = g
    OBVIOUS
  <2>1. \A x \in S : f[x] = g[x]
    <3>. SUFFICES ASSUME NEW x \in S PROVE f[x] = g[x]
      OBVIOUS
    <3>1. <<x, f[x]>> \in {<<y, g[y]>> : y \in S}
      BY Zenon
    <3>. QED  BY <3>1
  <2>2. f \in [S -> 1 .. MaxRows] /\ g \in [S -> 1 .. MaxRows]
    BY <1>3
  <2>. QED  BY <2>1, <2>2
<1>. HIDE DEF graphOf, Pairs
<1>6. graphOf \in Injection(Join(S), Pairs)
  BY <1>4, <1>5, Fun_IsInj
<1>. QED  BY <1>2, <1>6, FS_Injection, FS_CardinalityType

\* The part of a joined row that concerns fewer relations is a joined row.
LEMMA JoinRestrict ==
  ASSUME NEW S \in SUBSET Relation, NEW T \in SUBSET S, NEW f \in Join(S)
  PROVE  [r \in T |-> f[r]] \in Join(T)
BY DEF Join

\* Joining two disjoint sets of relations multiplies at worst.
LEMMA JoinOfDisjoint ==
  ASSUME NEW S \in SUBSET Relation, NEW T \in SUBSET Relation, S \cap T = {}
  PROVE  Cardinality(Join(S \cup T)) <= Cardinality(Join(S)) * Cardinality(Join(T))
<1>. DEFINE split == [f \in Join(S \cup T) |-> <<[r \in S |-> f[r]], [r \in T |-> f[r]]>>]
<1>1. IsFiniteSet(Join(S)) /\ IsFiniteSet(Join(T))
  BY JoinFinite
<1>2. split \in [Join(S \cup T) -> Join(S) \X Join(T)]
  BY JoinRestrict
<1>3. \A f, g \in Join(S \cup T) : split[f] = split[g] => f = g
  <2>. SUFFICES ASSUME NEW f \in Join(S \cup T), NEW g \in Join(S \cup T), split[f] = split[g]
                PROVE  f = g
    OBVIOUS
  <2>1. f \in [S \cup T -> 1 .. MaxRows] /\ g \in [S \cup T -> 1 .. MaxRows]
    BY DEF Join
  <2>2. [r \in S |-> f[r]] = [r \in S |-> g[r]] /\ [r \in T |-> f[r]] = [r \in T |-> g[r]]
    OBVIOUS
  <2>3. \A r \in S : f[r] = g[r]
    BY <2>2, Zenon
  <2>4. \A r \in T : f[r] = g[r]
    BY <2>2, Zenon
  <2>. QED  BY <2>1, <2>3, <2>4
<1>. HIDE DEF split
<1>4. split \in Injection(Join(S \cup T), Join(S) \X Join(T))
  BY <1>2, <1>3, Fun_IsInj
<1>5. IsFiniteSet(Join(S) \X Join(T))
  BY <1>1, FS_Product
<1>6. Cardinality(Join(S) \X Join(T)) = Cardinality(Join(S)) * Cardinality(Join(T))
  BY <1>1, FS_Product
<1>. QED  BY <1>4, <1>5, <1>6, FS_Injection

\* A relation joined with nothing yields its rows.
LEMMA JoinOfOne ==
  ASSUME Tables, NEW r \in Relation
  PROVE  Cardinality(Join({r})) <= Rows(r)
<1>. DEFINE row == [f \in Join({r}) |-> f[r]]
<1>1. \A f \in Join({r}) : f \in [{r} -> 1 .. MaxRows] /\ f[r] \in 1 .. Len(table[r])
  BY DEF Join
<1>2. row \in [Join({r}) -> 1 .. Len(table[r])]
  BY <1>1
<1>3. \A f, g \in Join({r}) : row[f] = row[g] => f = g
  <2>. SUFFICES ASSUME NEW f \in Join({r}), NEW g \in Join({r}), row[f] = row[g]
                PROVE  f = g
    OBVIOUS
  <2>1. \A q \in {r} : f[q] = g[q]
    OBVIOUS
  <2>2. f \in [{r} -> 1 .. MaxRows] /\ g \in [{r} -> 1 .. MaxRows]
    BY <1>1
  <2>. HIDE DEF row
  <2>. QED  BY <2>1, <2>2
<1>. HIDE DEF row
<1>4. row \in Injection(Join({r}), 1 .. Len(table[r]))
  BY <1>2, <1>3, Fun_IsInj
<1>5. IsFiniteSet(1 .. Len(table[r])) /\ Cardinality(1 .. Len(table[r])) = Len(table[r])
  BY RowsType, RowsFinite
<1>. QED  BY <1>4, <1>5, FS_Injection DEF Rows

\* The empty join has the empty row alone.
LEMMA JoinOfNone == Cardinality(Join({})) <= 1
<1>. DEFINE one == [f \in Join({}) |-> 1]
<1>1. one \in [Join({}) -> 1 .. 1]
  OBVIOUS
<1>2. \A f, g \in Join({}) : f = g
  BY DEF Join
<1>. HIDE DEF one
<1>3. one \in Injection(Join({}), 1 .. 1)
  BY <1>1, <1>2, Fun_IsInj
<1>4. IsFiniteSet(1 .. 1) /\ Cardinality(1 .. 1) = 1
  BY RowsFinite
<1>. QED  BY <1>3, <1>4, FS_Injection

\* Functions on one domain that agree on it are the same.
LEMMA Extensional ==
  ASSUME NEW X, NEW Y, NEW f \in [X -> Y], NEW g \in [X -> Y], \A x \in X : f[x] = g[x]
  PROVE  f = g
OBVIOUS

\* The step of the theorem: a relation that joins the tree over an edge
\* multiplies the rows by no more than the largest number of its rows that
\* share a key on that edge.
LEMMA JoinOverEdge ==
  ASSUME Tables, Wired,
         NEW S \in SUBSET Relation, NEW c \in (1 .. Len(edges)) \X {1, 2},
         Ends(c)[1] \in S, Ends(c)[2] \in Relation \ S,
         NEW d \in Nat, BoundsDegree(d, table[Ends(c)[2]], edges[c[1]].attribute)
  PROVE  Cardinality(Join(S \cup {Ends(c)[2]})) <= Cardinality(Join(S)) * d
<1>. DEFINE from == Ends(c)[1]
            to == Ends(c)[2]
            a == edges[c[1]].attribute
            t == table[to]
            J == Join(S \cup {to})
            Ranks(v) == Injection(Carriers(t, a, v), 1 .. d)
            rank == [v \in Value |-> CHOOSE g \in Ranks(v) : TRUE]
            place == [f \in J |-> <<[r \in S |-> f[r]], rank[t[f[to]][a]][f[to]]>>]
<1>1. /\ c[1] \in 1 .. Len(edges)
      /\ \/ from = edges[c[1]].left /\ to = edges[c[1]].right
         \/ from = edges[c[1]].right /\ to = edges[c[1]].left
  BY DEF Ends
<1>2. from \in Relation /\ to \in Relation /\ a \in Schema[from] /\ a \in Schema[to]
  BY <1>1 DEF Wired, Carried
<1>3. Len(t) \in Nat
  BY <1>2, RowsType
<1>4. \A v \in Value : rank[v] \in Injection(Carriers(t, a, v), 1 .. d)
  <2>. SUFFICES ASSUME NEW v \in Value
                PROVE  \E g : g \in Ranks(v)
    OBVIOUS
  <2>. DEFINE C == Carriers(t, a, v)
              n == Cardinality(C)
  <2>1. IsFiniteSet(C) /\ n \in Nat
    BY <1>3, CarriersFinite
  <2>2. n <= d
    BY DEF BoundsDegree
  <2>3. ExistsBijection(1 .. n, C)
    BY <2>1, FS_CardinalityType
  <2>4. PICK h : h \in Bijection(1 .. n, C)
    BY <2>3 DEF ExistsBijection
  <2>. DEFINE g == [x \in C |-> CHOOSE i \in 1 .. n : h[i] = x]
  <2>5. \A x \in C : g[x] \in 1 .. n /\ h[g[x]] = x
    BY <2>4 DEF Bijection, Surjection
  <2>6. g \in [C -> 1 .. d]
    BY <2>1, <2>2, <2>5
  <2>7. \A x, y \in C : g[x] = g[y] => x = y
    BY <2>5
  <2>8. g \in Injection(C, 1 .. d)
    <3>. HIDE DEF g, C
    <3>. QED  BY <2>6, <2>7, Fun_IsInj
  <2>. QED  BY <2>8
<1>5. ASSUME NEW f \in J
      PROVE  /\ f \in [S \cup {to} -> 1 .. MaxRows]
             /\ f[to] \in 1 .. Len(t)
             /\ t[f[to]][a] = table[from][f[from]][a]
             /\ t[f[to]][a] \in Value
             /\ f[to] \in Carriers(t, a, t[f[to]][a])
  <2>1. f \in [S \cup {to} -> 1 .. MaxRows] /\ f[to] \in 1 .. Len(t)
    BY <1>2 DEF Join
  <2>2. t[f[to]][a] = table[from][f[from]][a]
    BY <1>1, <1>2 DEF Join
  <2>3. t[f[to]][a] \in Value
    BY <1>2, <2>1, KeyType
  <2>. QED  BY <2>1, <2>2, <2>3 DEF Carriers
<1>6. \A f \in J : [r \in S |-> f[r]] \in Join(S)
  BY <1>2, JoinRestrict
<1>. HIDE DEF rank
<1>7. \A f \in J : rank[t[f[to]][a]][f[to]] \in 1 .. d
  <2>. SUFFICES ASSUME NEW f \in J
                PROVE  rank[t[f[to]][a]][f[to]] \in 1 .. d
    OBVIOUS
  <2>. DEFINE v == t[f[to]][a]
  <2>1. v \in Value /\ f[to] \in Carriers(t, a, v)
    BY <1>5
  <2>2. rank[v] \in [Carriers(t, a, v) -> 1 .. d]
    BY <1>4, <2>1 DEF Injection
  <2>. HIDE DEF v
  <2>3. rank[v][f[to]] \in 1 .. d
    BY <2>1, <2>2
  <2>. QED  BY <2>3 DEF v
<1>8. place \in [J -> Join(S) \X (1 .. d)]
  BY <1>6, <1>7
<1>9. \A f, g \in J : place[f] = place[g] => f = g
  <2>. SUFFICES ASSUME NEW f \in J, NEW g \in J, place[f] = place[g]
                PROVE  f = g
    OBVIOUS
  <2>1. /\ [r \in S |-> f[r]] = [r \in S |-> g[r]]
        /\ rank[t[f[to]][a]][f[to]] = rank[t[g[to]][a]][g[to]]
    OBVIOUS
  <2>2. \A r \in S : f[r] = g[r]
    BY <2>1, Zenon
  <2>3. f[from] = g[from]
    BY <2>2
  <2>4. t[f[to]][a] = t[g[to]][a]
    <3>1. t[f[to]][a] = table[from][f[from]][a] /\ t[g[to]][a] = table[from][g[from]][a]
      BY <1>5
    <3>. QED  BY <2>3, <3>1
  <2>. DEFINE v == t[f[to]][a]
  <2>5. v \in Value /\ f[to] \in Carriers(t, a, v) /\ g[to] \in Carriers(t, a, v)
    <3>1. v \in Value /\ f[to] \in Carriers(t, a, v)
      BY <1>5
    <3>2. g[to] \in Carriers(t, a, t[g[to]][a])
      BY <1>5
    <3>. QED  BY <2>4, <3>1, <3>2
  <2>6. rank[v] \in Injection(Carriers(t, a, v), 1 .. d)
    BY <1>4, <2>5
  <2>7. rank[v][f[to]] = rank[v][g[to]]
    BY <2>1, <2>4
  <2>8. f[to] = g[to]
    <3>. HIDE DEF v
    <3>. QED  BY <2>5, <2>6, <2>7 DEF Injection, IsInjective
  <2>9. f \in [S \cup {to} -> 1 .. MaxRows] /\ g \in [S \cup {to} -> 1 .. MaxRows]
    BY <1>5
  <2>. DEFINE X == S \cup {to}
              Y == 1 .. MaxRows
  <2>10. \A r \in X : f[r] = g[r]
    BY <2>2, <2>8
  <2>11. f \in [X -> Y] /\ g \in [X -> Y]
    BY <2>9
  <2>. HIDE DEF X, Y, J, place
  <2>. QED  BY <2>10, <2>11, Extensional
<1>10. IsFiniteSet(Join(S)) /\ IsFiniteSet(1 .. d) /\ Cardinality(1 .. d) = d
  BY JoinFinite, RowsFinite
<1>11. /\ IsFiniteSet(Join(S) \X (1 .. d))
       /\ Cardinality(Join(S) \X (1 .. d)) = Cardinality(Join(S)) * d
  <2>1. Cardinality(Join(S) \X (1 .. d)) = Cardinality(Join(S)) * Cardinality(1 .. d)
    BY <1>10, FS_Product
  <2>2. IsFiniteSet(Join(S) \X (1 .. d))
    BY <1>10, FS_Product
  <2>. QED  BY <1>10, <2>1, <2>2
<1>. HIDE DEF place, J
<1>12. place \in Injection(J, Join(S) \X (1 .. d))
  BY <1>8, <1>9, Fun_IsInj
<1>13. Cardinality(J) <= Cardinality(Join(S) \X (1 .. d))
  BY <1>11, <1>12, FS_Injection
<1>. QED  BY <1>11, <1>13 DEF J
----------------------------------------------------------------------------
(* The inductive invariant.                                                *)

\* The degrees in the maps bound the instance's, where a join needs them.
Honest ==
  \A r \in Relation : \A a \in Schema[r] :
    registered[r][a] # NoDegree /\ a \in JoinedBy(edges, r) \cup JoinedBy(pending, r) =>
      BoundsDegree(registered[r][a], table[r], a)

InComponent == pc \in {"product", "root", "grow"}

\* The relations of the components already multiplied into total.
Multiplied ==
  {r \in Relation : label[r] \notin groups} \ (IF InComponent THEN component ELSE {})

TotalSound ==
  /\ pc \in {"build", "components"} => total = 1
  /\ pc \in {"next", "product", "root", "grow"} =>
       Cardinality(Join(Multiplied)) <= total

ComponentSound ==
  /\ InComponent => component \subseteq {r \in Relation : label[r] \notin groups}
  /\ pc = "product" => visited \subseteq component /\ Bounds(best, visited)
  /\ pc \in {"root", "grow"} => Bounds(best, component) /\ roots \subseteq component
  /\ pc = "grow" => visited \subseteq component

IInv ==
  /\ TypeOK /\ Wired /\ Honest
  /\ TotalSound /\ ComponentSound /\ TreeBoundSound /\ CeilingSound
LEMMA InitIInv == Init => IInv
<1>. SUFFICES ASSUME Init PROVE IInv
  OBVIOUS
<1>1. TypeOK
  <2>1. table = [r \in Relation |-> table[r]] /\ \A r \in Relation : IsTable(table[r], r)
    BY InstanceAssumption DEF Init
  <2>2. pending \in Seq(Edge) /\ edges \in Seq(Edge)
    BY EdgeListAssumption DEF Init
  <2>3. \A r \in Relation : registered[r] \in [Schema[r] -> Nat \cup {NoDegree}]
    BY DEF Init
  <2>. QED  BY <2>1, <2>2, <2>3 DEF TypeOK, Init
<1>2. Wired
  BY EdgeListAssumption DEF Init, Wired, Carried
<1>3. Honest
  BY DEF Init, Honest
<1>. QED  BY <1>1, <1>2, <1>3
          DEF IInv, Init, TotalSound, ComponentSound, TreeBoundSound, CeilingSound, InComponent

\* What the loops read does not change under them.
Fixed == UNCHANGED <<table, registered, pending, edges>>

LEMMA FixedKeeps ==
  ASSUME IInv, Fixed
  PROVE  /\ Wired' /\ Honest'
         /\ \A S : Join(S)' = Join(S)
         /\ \A n, S : Bounds(n, S)' = Bounds(n, S)
<1>1. Wired'
  BY DEF IInv, Fixed, Wired, Carried, ValidEdge
<1>2. Honest'
  BY DEF IInv, Fixed, Honest, BoundsDegree, Carriers
<1>3. \A S : Join(S)' = Join(S)
  BY DEF Fixed, Join
<1>4. \A n, S : Bounds(n, S)' = Bounds(n, S)
  BY <1>3 DEF Bounds
<1>. QED  BY <1>1, <1>2, <1>3, <1>4

\* The factor of a crossing bounds the instance's degree there, whether it
\* was registered or stands for the row count.
LEMMA FactorSound ==
  ASSUME IInv, NEW c \in Frontier, component \subseteq Relation
  PROVE  /\ Ends(c)[2] \in Relation
         /\ Factor(c) \in Nat
         /\ BoundsDegree(Factor(c), table[Ends(c)[2]], edges[c[1]].attribute)
<1>. DEFINE to == Ends(c)[2]
            a == edges[c[1]].attribute
<1>1. c[1] \in 1 .. Len(edges) /\ to \in Relation
  BY DEF Frontier
<1>2. a \in Schema[to]
  BY <1>1 DEF IInv, Wired, Carried, Ends
<1>3. Len(table[to]) \in Nat
  BY <1>1, RowsType DEF IInv, TypeOK, Tables
<1>4. CASE registered[to][a] = NoDegree
  BY <1>1, <1>3, <1>4, CarriersFinite DEF Factor, Degree, Unknown, Rows, BoundsDegree
<1>5. CASE registered[to][a] # NoDegree
  <2>1. registered[to] \in [Schema[to] -> Nat \cup {NoDegree}]
    BY <1>1 DEF IInv, TypeOK
  <2>2. a \in JoinedBy(edges, to)
    <3>1. ValidEdge(edges[c[1]])
      BY <1>1 DEF IInv, Wired
    <3>2. to \in {edges[c[1]].left, edges[c[1]].right}
      BY DEF Ends
    <3>. QED  BY <1>1, <3>1, <3>2 DEF JoinedBy
  <2>. DEFINE g == registered[to][a]
  <2>3. g \in Nat /\ Factor(c) = g
    BY <1>2, <1>5, <2>1 DEF Factor, Degree
  <2>4. BoundsDegree(g, table[to], a)
    BY <1>1, <1>2, <1>5, <2>2 DEF IInv, Honest
  <2>. QED  BY <1>1, <2>3, <2>4
<1>. QED  BY <1>1, <1>4, <1>5
LEMMA BuildStep ==
  ASSUME IInv, (\E r \in Relation : AddRelation(r)) \/ WithEdge \/ CallCeiling
  PROVE  IInv'
<1>1. ASSUME NEW r \in Relation, AddRelation(r)
      PROVE  IInv'
  <2>1. PICK g \in Registrations(r) : registered' = [registered EXCEPT ![r] = g]
    BY <1>1 DEF AddRelation
  <2>2. \A a \in Schema[r] : g[a] = NoDegree \/ g[a] \in HonestDegrees(table[r], a)
    BY DEF Registrations
  <2>3. Len(table[r]) \in Nat
    BY RowsType DEF IInv, TypeOK, Tables
  <2>4. \A a \in Schema[r] :
          /\ g[a] \in Nat \cup {NoDegree}
          /\ g[a] # NoDegree => BoundsDegree(g[a], table[r], a)
    BY <2>2, <2>3, HonestDegreesBound
  <2>5. g \in [Schema[r] -> Nat \cup {NoDegree}]
    <3>1. g = [a \in Schema[r] |-> g[a]]
      BY DEF Registrations
    <3>. QED  BY <2>4, <3>1
  <2>6. registered = [q \in Relation |-> registered[q]] /\ table' = table
    BY <1>1 DEF IInv, TypeOK, AddRelation, inputs
  <2>7. /\ registered' = [q \in Relation |-> registered'[q]]
        /\ registered'[r] = g
        /\ \A q \in Relation \ {r} : registered'[q] = registered[q]
    BY <2>1, <2>6
  <2>8. Honest'
    <3>1. pending' = pending /\ edges' = edges
      BY <1>1 DEF AddRelation, graph
    <3>. SUFFICES ASSUME NEW q \in Relation, NEW a \in Schema[q], registered'[q][a] # NoDegree,
                         a \in JoinedBy(edges, q) \cup JoinedBy(pending, q)
                  PROVE  BoundsDegree(registered'[q][a], table[q], a)
      BY <2>6, <3>1 DEF Honest, BoundsDegree, Carriers, JoinedBy, ValidEdge
    <3>2. CASE q = r
      BY <2>4, <2>7, <3>2
    <3>3. CASE q # r
      BY <2>7, <3>3 DEF IInv, Honest
    <3>. QED  BY <3>2, <3>3
  <2>9. TypeOK'
    <3>1. \A q \in Relation : registered'[q] \in [Schema[q] -> Nat \cup {NoDegree}]
      BY <2>5, <2>7 DEF IInv, TypeOK
    <3>. QED  BY <1>1, <2>6, <2>7, <3>1
              DEF IInv, TypeOK, AddRelation, graph, forest, outer, inner, tree
  <2>10. Wired'
    BY <1>1 DEF IInv, Wired, Carried, ValidEdge, AddRelation, graph
  <2>11. pc' = "build" /\ pc = "build" /\ total' = total
    BY <1>1 DEF AddRelation, outer
  <2>. QED  BY <2>8, <2>9, <2>10, <2>11
            DEF IInv, TotalSound, ComponentSound, TreeBoundSound, CeilingSound, InComponent
<1>2. CASE WithEdge
  <2>1. pending \in Seq(Edge) /\ pending # <<>> /\ edges \in Seq(Edge)
    BY <1>2 DEF IInv, TypeOK, WithEdge
  <2>2. /\ Head(pending) \in Edge /\ Head(pending) = pending[1]
        /\ Tail(pending) \in Seq(Edge)
        /\ 1 \in 1 .. Len(pending)
        /\ \A k \in 1 .. Len(Tail(pending)) :
             k + 1 \in 1 .. Len(pending) /\ Tail(pending)[k] = pending[k + 1]
    BY <2>1
  <2>3. pending' = Tail(pending) /\ edges' \in Seq(Edge)
    BY <1>2, <2>1, <2>2 DEF WithEdge
  <2>4. Wired'
    <3>1. \A k \in 1 .. Len(pending') : Carried(pending'[k])
      BY <2>2, <2>3 DEF IInv, Wired
    <3>2. \A k \in 1 .. Len(edges') : ValidEdge(edges'[k]) /\ Carried(edges'[k])
      <4>1. CASE ValidEdge(Head(pending))
        <5>1. edges' = Append(edges, pending[1]) /\ Carried(pending[1])
          BY <1>2, <2>2, <4>1 DEF IInv, WithEdge, Wired
        <5>2. \A k \in 1 .. Len(edges') :
                edges'[k] = pending[1] \/ (k \in 1 .. Len(edges) /\ edges'[k] = edges[k])
          BY <2>1, <5>1
        <5>. QED  BY <2>2, <4>1, <5>1, <5>2 DEF IInv, Wired
      <4>2. CASE ~ValidEdge(Head(pending))
        BY <1>2, <4>2 DEF IInv, WithEdge, Wired
      <4>. QED  BY <4>1, <4>2
    <3>. QED  BY <3>1, <3>2 DEF Wired, Carried, ValidEdge
  <2>5. TypeOK'
    BY <1>2, <2>2, <2>3 DEF IInv, TypeOK, WithEdge, inputs, forest, outer, inner, tree
  <2>6. Honest'
    <3>1. registered' = registered /\ table' = table
      BY <1>2 DEF WithEdge, inputs
    <3>2. ASSUME NEW q \in Relation
          PROVE  JoinedBy(edges', q) \cup JoinedBy(pending', q) \subseteq JoinedBy(edges, q) \cup JoinedBy(pending, q)
      <4>1. JoinedBy(pending', q) \subseteq JoinedBy(pending, q)
        BY <2>2, <2>3 DEF JoinedBy
      <4>2. \A k \in 1 .. Len(edges') :
              \/ \E l \in 1 .. Len(edges) : edges'[k] = edges[l]
              \/ \E l \in 1 .. Len(pending) : edges'[k] = pending[l]
        <5>1. CASE ValidEdge(Head(pending))
          <6>1. edges' = Append(edges, pending[1])
            BY <1>2, <2>2, <5>1 DEF WithEdge
          <6>2. \A k \in 1 .. Len(edges') :
                  edges'[k] = pending[1] \/ (k \in 1 .. Len(edges) /\ edges'[k] = edges[k])
            BY <2>1, <6>1
          <6>. QED  BY <2>2, <6>2
        <5>2. CASE ~ValidEdge(Head(pending))
          <6>1. edges' = edges
            BY <1>2, <5>2 DEF WithEdge
          <6>. QED  BY <6>1
        <5>. QED  BY <5>1, <5>2
      <4>3. JoinedBy(edges', q) \subseteq JoinedBy(edges, q) \cup JoinedBy(pending, q)
        BY <4>2 DEF JoinedBy
      <4>. QED  BY <4>1, <4>3
    <3>. SUFFICES ASSUME NEW q \in Relation, NEW a \in Schema[q], registered[q][a] # NoDegree,
                         a \in JoinedBy(edges', q) \cup JoinedBy(pending', q)
                  PROVE  BoundsDegree(registered[q][a], table[q], a)
      BY <3>1 DEF Honest, BoundsDegree, Carriers, JoinedBy, ValidEdge
    <3>. QED  BY <3>2 DEF IInv, Honest
  <2>7. pc' = "build" /\ pc = "build" /\ total' = total
    BY <1>2 DEF WithEdge, outer
  <2>. QED  BY <2>4, <2>5, <2>6, <2>7
            DEF IInv, TotalSound, ComponentSound, TreeBoundSound, CeilingSound, InComponent
<1>3. CASE CallCeiling
  <2>1. Fixed
    BY <1>3 DEF CallCeiling, Fixed, inputs, graph
  <2>2. TypeOK'
    BY <1>3 DEF IInv, TypeOK, CallCeiling, inputs, graph, forest, outer, inner, tree
  <2>3. pc = "build" /\ total' = total /\ (pc' = "components" \/ (pc' = "done" /\ Relation = {}))
    BY <1>3 DEF CallCeiling, outer
  <2>. QED  BY <2>1, <2>2, <2>3, FixedKeeps
            DEF IInv, TotalSound, ComponentSound, TreeBoundSound, CeilingSound, InComponent
<1>. QED  BY <1>1, <1>2, <1>3
LEMMA ComponentsStep ==
  ASSUME IInv, Union \/ Group \/ NextComponent \/ MultiplyRows \/ TryRoots
  PROVE  IInv'
<1>1. CASE Union
  <2>1. Fixed
    BY <1>1 DEF Union, Fixed, inputs, graph
  <2>2. TypeOK'
    <3>1. unioned + 1 \in 1 .. Len(edges)
      BY <1>1 DEF IInv, TypeOK, Union
    <3>2. edges[unioned + 1].left \in Relation /\ edges[unioned + 1].right \in Relation
      BY <3>1 DEF IInv, Wired, ValidEdge
    <3>3. label' \in [Relation -> Relation]
      BY <1>1, <3>2 DEF IInv, TypeOK, Union, UnionEnds
    <3>. QED  BY <1>1, <3>3 DEF IInv, TypeOK, Union, inputs, graph, outer, inner, tree
  <2>3. pc = "components" /\ pc' = pc /\ total' = total
    BY <1>1 DEF Union, outer
  <2>. QED  BY <2>1, <2>2, <2>3, FixedKeeps
            DEF IInv, TotalSound, ComponentSound, TreeBoundSound, CeilingSound, InComponent
<1>2. CASE Group
  <2>1. Fixed
    BY <1>2 DEF Group, Fixed, inputs, graph
  <2>2. TypeOK'
    BY <1>2 DEF IInv, TypeOK, Group, inputs, graph, forest, inner, tree
  <2>3. pc = "components" /\ pc' = "next" /\ total' = 1
    BY <1>2 DEF IInv, TotalSound, Group
  <2>4. Multiplied' = {}
    BY <1>2 DEF Group, Multiplied, InComponent, forest
  <2>5. TotalSound'
    <3>1. Cardinality(Join({})') <= 1
      BY <2>1, JoinOfNone, FixedKeeps
    <3>. QED  BY <2>3, <2>4, <3>1 DEF TotalSound
  <2>. QED  BY <2>1, <2>2, <2>3, <2>5, FixedKeeps
            DEF IInv, ComponentSound, TreeBoundSound, CeilingSound, InComponent
<1>3. CASE NextComponent
  <2>1. Fixed
    BY <1>3 DEF NextComponent, Fixed, inputs, graph
  <2>2. PICK g \in groups : groups' = groups \ {g} /\ component' = {r \in Relation : label[r] = g}
    BY <1>3 DEF NextComponent
  <2>3. /\ pc = "next" /\ pc' = "product" /\ total' = total /\ label' = label
        /\ best' = 1 /\ visited' = {}
    BY <1>3 DEF NextComponent, forest
  <2>4. TypeOK'
    BY <1>3, <2>2 DEF IInv, TypeOK, NextComponent, inputs, graph, forest
  <2>5. Multiplied' = Multiplied
    BY <2>2, <2>3 DEF Multiplied, InComponent
  <2>6. TotalSound'
    BY <2>1, <2>3, <2>5, FixedKeeps DEF IInv, TotalSound
  <2>7. ComponentSound'
    <3>1. Bounds(1, {})'
      BY <2>1, JoinOfNone, FixedKeeps DEF Bounds
    <3>2. Bounds(best, visited)'
      BY <2>3, <3>1 DEF Bounds, Join
    <3>. QED  BY <2>2, <2>3, <3>2 DEF ComponentSound, InComponent
  <2>. QED  BY <2>1, <2>3, <2>4, <2>6, <2>7, FixedKeeps
            DEF IInv, TreeBoundSound, CeilingSound
<1>4. CASE MultiplyRows
  <2>1. Fixed
    BY <1>4 DEF MultiplyRows, Fixed, inputs, graph
  <2>2. PICK r \in component \ visited :
          best' = Capped(best * Rows(r)) /\ visited' = visited \cup {r}
    BY <1>4 DEF MultiplyRows
  <2>3. /\ pc = "product" /\ pc' = pc /\ total' = total /\ label' = label
        /\ groups' = groups /\ component' = component
    BY <1>4 DEF MultiplyRows, outer, forest
  <2>4. component \subseteq Relation /\ visited \subseteq component /\ Bounds(best, visited)
        /\ best \in Nat /\ Tables
    BY <2>3 DEF IInv, TypeOK, Tables, ComponentSound
  <2>5. Rows(r) \in Nat /\ Cardinality(Join({r})) <= Rows(r)
    BY <2>4, RowsType, JoinOfOne DEF Rows
  <2>6. Bounds(Capped(best * Rows(r)), visited \cup {r}) /\ Capped(best * Rows(r)) \in Nat
    <3>. DEFINE x == Cardinality(Join(visited))
                y == Cardinality(Join({r}))
                z == Cardinality(Join(visited \cup {r}))
    <3>1. x \in Nat /\ y \in Nat /\ z \in Nat
      BY <2>4, JoinFinite
    <3>2. z <= x * y
      BY <2>4, JoinOfDisjoint
    <3>3. best = MaxU64 \/ x <= best
      BY <2>4 DEF Bounds
    <3>4. best * Rows(r) \in Nat /\ (best * Rows(r) < MaxU64 => x * y <= best * Rows(r))
      BY <2>4, <2>5, <3>1, <3>3, BoundsMultiply
    <3>5. MaxU64 \in Nat /\ x * y \in Nat
      BY <3>1, BoundAssumption, Z3
    <3>6. best * Rows(r) < MaxU64 => z <= best * Rows(r)
      BY <3>1, <3>2, <3>4, <3>5
    <3>. HIDE DEF x, y
    <3>. QED  BY <3>4, <3>5, <3>6 DEF Bounds, Capped
  <2>7. TypeOK'
    BY <1>4, <2>2, <2>4, <2>6
       DEF IInv, TypeOK, MultiplyRows, inputs, graph, forest, outer
  <2>8. Multiplied' = Multiplied
    BY <2>3 DEF Multiplied, InComponent
  <2>9. TotalSound'
    BY <2>1, <2>3, <2>8, FixedKeeps DEF IInv, TotalSound
  <2>10. Bounds(best, visited)'
    BY <2>1, <2>2, <2>6 DEF Bounds, Join, Fixed
  <2>11. ComponentSound'
    BY <2>2, <2>3, <2>4, <2>10 DEF IInv, ComponentSound, InComponent
  <2>. QED  BY <2>1, <2>3, <2>7, <2>9, <2>11, FixedKeeps
            DEF IInv, TreeBoundSound, CeilingSound
<1>5. CASE TryRoots
  <2>1. Fixed
    BY <1>5 DEF TryRoots, Fixed, inputs, graph
  <2>2. /\ pc = "product" /\ pc' = "root" /\ total' = total /\ label' = label
        /\ groups' = groups /\ component' = component /\ best' = best
        /\ visited = component /\ roots' \subseteq component
    BY <1>5 DEF TryRoots, outer, forest
  <2>3. TypeOK'
    BY <1>5 DEF IInv, TypeOK, TryRoots, inputs, graph, forest, outer, tree
  <2>4. Multiplied' = Multiplied
    BY <2>2 DEF Multiplied, InComponent
  <2>5. TotalSound'
    BY <2>1, <2>2, <2>4, FixedKeeps DEF IInv, TotalSound
  <2>6. Bounds(best, component)'
    <3>1. Bounds(best, component)
      BY <2>2 DEF IInv, ComponentSound
    <3>2. Join(component)' = Join(component)
      BY <2>1, <2>2 DEF Join, Fixed
    <3>. QED  BY <2>2, <3>1, <3>2 DEF Bounds
  <2>7. ComponentSound'
    BY <2>2, <2>6 DEF IInv, ComponentSound, InComponent
  <2>. QED  BY <2>1, <2>2, <2>3, <2>5, <2>7, FixedKeeps
            DEF IInv, TreeBoundSound, CeilingSound
<1>. QED  BY <1>1, <1>2, <1>3, <1>4, <1>5

\* Growing one tree and keeping the tighter of its bound and the best.
LEMMA TreeStep ==
  ASSUME IInv, PlantTree \/ Attach \/ FinishTree
  PROVE  IInv'
<1>1. /\ Fixed /\ InComponent /\ InComponent' /\ pc \in {"root", "grow"} /\ pc' \in {"root", "grow"}
      /\ total' = total /\ label' = label /\ groups' = groups /\ component' = component
      /\ component \subseteq Relation /\ Tables
  BY DEF PlantTree, Attach, FinishTree, Fixed, InComponent, inputs, graph, forest, outer, inner,
         IInv, TypeOK, Tables
<1>2. TotalSound'
  <2>1. Multiplied' = Multiplied
    BY <1>1 DEF Multiplied
  <2>. QED  BY <1>1, <2>1, FixedKeeps DEF IInv, TotalSound
<1>3. Join(component)' = Join(component)
  BY <1>1 DEF Join, Fixed
<1>4. Bounds(best, component)
  BY <1>1 DEF IInv, ComponentSound
<1>5. CASE PlantTree
  <2>1. PICK r \in roots : visited' = {r} /\ bound' = Rows(r) /\ roots' = roots \ {r}
    BY <1>5 DEF PlantTree
  <2>2. /\ pc = "root" /\ pc' = "grow" /\ best' = best /\ roots \subseteq component
    BY <1>5 DEF PlantTree, IInv, ComponentSound
  <2>3. Rows(r) \in Nat /\ Cardinality(Join({r})) <= Rows(r)
    BY <1>1, <2>1, <2>2, RowsType, JoinOfOne DEF Rows
  <2>4. TypeOK'
    BY <1>5, <2>1, <2>2, <2>3, <1>1 DEF IInv, TypeOK, PlantTree, inputs, graph, forest, outer
  <2>5. TreeBoundSound'
    <3>1. Join(visited)' = Join({r})
      BY <1>1, <2>1 DEF Join, Fixed
    <3>. QED  BY <2>1, <2>3, <3>1 DEF TreeBoundSound
  <2>6. ComponentSound'
    <3>1. Bounds(best, component)'
      BY <1>3, <1>4, <2>2 DEF Bounds
    <3>. QED  BY <1>1, <2>1, <2>2, <3>1 DEF IInv, ComponentSound, InComponent
  <2>. QED  BY <1>1, <1>2, <2>2, <2>4, <2>5, <2>6, FixedKeeps DEF IInv, CeilingSound
<1>6. CASE Attach
  <2>1. PICK c \in Frontier : visited' = visited \cup {Ends(c)[2]} /\ bound' = bound * Factor(c)
    BY <1>6 DEF Attach
  <2>2. pc = "grow" /\ best' = best /\ roots' = roots /\ visited \subseteq component
    BY <1>6 DEF Attach, inner, IInv, ComponentSound
  <2>3. /\ Ends(c)[2] \in Relation /\ Factor(c) \in Nat
        /\ BoundsDegree(Factor(c), table[Ends(c)[2]], edges[c[1]].attribute)
    BY <1>1, FactorSound
  <2>4. /\ c \in (1 .. Len(edges)) \X {1, 2}
        /\ Ends(c)[1] \in visited /\ Ends(c)[2] \in component \ visited
    BY DEF Frontier
  <2>5. bound \in Nat /\ bound * Factor(c) \in Nat
    <3>1. bound \in Nat
      BY DEF IInv, TypeOK
    <3>. QED  BY <2>3, <3>1, Z3
  <2>6. TypeOK'
    BY <1>6, <1>1, <2>1, <2>2, <2>4, <2>5
       DEF IInv, TypeOK, Attach, inputs, graph, forest, outer, inner
  <2>7. Cardinality(Join(visited \cup {Ends(c)[2]})) <= Cardinality(Join(visited)) * Factor(c)
    <3>1. visited \in SUBSET Relation /\ Ends(c)[2] \in Relation \ visited /\ Wired
      BY <1>1, <2>2, <2>4 DEF IInv
    <3>. QED  BY <1>1, <2>3, <2>4, <3>1, JoinOverEdge
  <2>8. Cardinality(Join(visited \cup {Ends(c)[2]})) <= bound * Factor(c)
    <3>1. visited \in SUBSET Relation /\ visited \cup {Ends(c)[2]} \in SUBSET Relation
      BY <1>1, <2>2, <2>4
    <3>2. /\ Cardinality(Join(visited)) \in Nat
          /\ Cardinality(Join(visited \cup {Ends(c)[2]})) \in Nat
      BY <3>1, JoinFinite
    <3>3. Cardinality(Join(visited)) <= bound
      BY <2>2 DEF IInv, TreeBoundSound
    <3>4. /\ Cardinality(Join(visited)) * Factor(c) \in Nat
          /\ Cardinality(Join(visited)) * Factor(c) <= bound * Factor(c)
      BY <2>3, <2>5, <3>2, <3>3, ProductMonotone
    <3>. QED  BY <2>5, <2>7, <3>2, <3>4
  <2>9. TreeBoundSound'
    <3>1. Join(visited)' = Join(visited \cup {Ends(c)[2]})
      BY <1>1, <2>1 DEF Join, Fixed
    <3>. QED  BY <2>1, <2>8, <3>1 DEF TreeBoundSound
  <2>10. ComponentSound'
    <3>1. Bounds(best, component)'
      BY <1>3, <1>4, <2>2 DEF Bounds
    <3>2. roots' \subseteq component
      BY <2>2 DEF IInv, ComponentSound
    <3>. QED  BY <1>1, <2>1, <2>2, <2>4, <3>1, <3>2 DEF IInv, ComponentSound, InComponent
  <2>. QED  BY <1>1, <1>2, <2>6, <2>9, <2>10, FixedKeeps DEF IInv, CeilingSound
<1>7. CASE FinishTree
  <2>1. /\ pc = "grow" /\ pc' = "root" /\ visited = component /\ roots' = roots
        /\ best' = Tightest(Capped(bound))
    BY <1>7 DEF FinishTree
  <2>2. best \in Nat /\ bound \in Nat /\ MaxU64 \in Nat
    BY BoundAssumption DEF IInv, TypeOK
  <2>3. Cardinality(Join(component)) <= bound /\ Cardinality(Join(component)) \in Nat
    BY <1>1, <2>1, JoinFinite DEF IInv, TreeBoundSound
  <2>4. Bounds(Tightest(Capped(bound)), component)
    BY <1>4, <2>2, <2>3 DEF Bounds, Tightest, Capped
  <2>5. TypeOK'
    BY <1>7, <1>1, <2>1, <2>2
       DEF IInv, TypeOK, FinishTree, Tightest, Capped, inputs, graph, forest, outer, tree
  <2>6. ComponentSound'
    <3>1. Bounds(best, component)'
      BY <1>3, <2>1, <2>4 DEF Bounds
    <3>. QED  BY <1>1, <2>1, <3>1 DEF IInv, ComponentSound, InComponent
  <2>. QED  BY <1>1, <1>2, <2>1, <2>5, <2>6, FixedKeeps
            DEF IInv, TreeBoundSound, CeilingSound
<1>. QED  BY <1>5, <1>6, <1>7

\* Folding the component into the product, and returning it.
LEMMA ReturnStep ==
  ASSUME IInv, MultiplyComponent \/ Return
  PROVE  IInv'
<1>1. CASE MultiplyComponent
  <2>1. /\ Fixed /\ pc = "root" /\ InComponent /\ component \subseteq Relation
        /\ label' = label /\ groups' = groups /\ total' = total * best
        /\ best \in Nat /\ total \in Nat /\ MaxU64 \in Nat
        /\ pc' = IF total' >= MaxU64 THEN "done" ELSE "next"
        /\ result' = IF total' >= MaxU64 THEN MaxU64 ELSE result
    BY <1>1, BoundAssumption
       DEF MultiplyComponent, Fixed, InComponent, inputs, graph, forest, IInv, TypeOK
  <2>2. TypeOK'
    <3>1. total * best \in Nat
      BY <2>1, Z3
    <3>2. total' \in Nat
      BY <2>1, <3>1
    <3>. QED  BY <1>1, <2>1, <3>2 DEF IInv, TypeOK, MultiplyComponent, inputs, graph, forest, inner, tree
  <2>3. ASSUME total * best < MaxU64
        PROVE  Cardinality(Join(Multiplied \cup component)) <= total * best
    <3>. DEFINE x == Cardinality(Join(Multiplied))
                y == Cardinality(Join(component))
                z == Cardinality(Join(Multiplied \cup component))
    <3>1. Multiplied \in SUBSET Relation /\ Multiplied \cap component = {}
      BY <2>1 DEF Multiplied
    <3>2. x \in Nat /\ y \in Nat /\ z \in Nat
      BY <2>1, <3>1, JoinFinite
    <3>3. z <= x * y
      BY <2>1, <3>1, JoinOfDisjoint
    <3>4. x <= total /\ (best = MaxU64 \/ y <= best)
      BY <2>1 DEF IInv, TotalSound, ComponentSound, Bounds
    <3>5. x * y <= total * best /\ total * best \in Nat
      BY <2>1, <2>3, <3>2, <3>4, BoundsMultiply
    <3>6. x * y \in Nat
      BY <3>2, Z3
    <3>. HIDE DEF x, y
    <3>. QED  BY <3>2, <3>3, <3>5, <3>6
  <2>4. CASE total' >= MaxU64
    <3>1. pc' = "done" /\ result' = MaxU64
      BY <2>1, <2>4
    <3>2. CeilingSound'
      BY <3>1 DEF CeilingSound, Bounds
    <3>. QED  BY <2>1, <2>2, <3>1, <3>2, FixedKeeps
              DEF IInv, TotalSound, ComponentSound, TreeBoundSound, InComponent
  <2>5. CASE ~(total' >= MaxU64)
    <3>1. total * best < MaxU64 /\ pc' = "next"
      <4>1. total * best \in Nat
        BY <2>1, Z3
      <4>. QED  BY <2>1, <2>5, <4>1
    <3>2. Multiplied' = Multiplied \cup component
      BY <2>1, <3>1 DEF Multiplied, InComponent, IInv, ComponentSound
    <3>3. TotalSound'
      <4>1. Join(Multiplied)' = Join(Multiplied \cup component)
        BY <2>1, <3>2 DEF Join, Fixed
      <4>. QED  BY <2>1, <2>3, <3>1, <4>1 DEF TotalSound
    <3>. QED  BY <2>1, <2>2, <3>1, <3>3, FixedKeeps
              DEF IInv, ComponentSound, TreeBoundSound, CeilingSound, InComponent
  <2>. QED  BY <2>4, <2>5
<1>2. CASE Return
  <2>1. /\ Fixed /\ pc = "next" /\ pc' = "done" /\ groups = {} /\ result' = total
    BY <1>2 DEF Return, Fixed, inputs, graph
  <2>2. TypeOK'
    BY <1>2 DEF IInv, TypeOK, Return, inputs, graph, forest, outer, inner, tree
  <2>3. Multiplied = Relation
    BY <2>1 DEF Multiplied, InComponent
  <2>4. Cardinality(Join(Relation)) <= total
    BY <2>1, <2>3 DEF IInv, TotalSound
  <2>5. CeilingSound'
    <3>1. Join(Relation)' = Join(Relation)
      BY <2>1 DEF Join, Fixed
    <3>. QED  BY <2>1, <2>4, <3>1 DEF CeilingSound, Bounds
  <2>. QED  BY <2>1, <2>2, <2>5, FixedKeeps
            DEF IInv, TotalSound, ComponentSound, TreeBoundSound, InComponent
<1>. QED  BY <1>1, <1>2

LEMMA StutterStep ==
  ASSUME IInv, UNCHANGED vars
  PROVE  IInv'
<1>1. Fixed
  BY DEF vars, Fixed, inputs, graph
<1>2. TypeOK'
  BY DEF IInv, TypeOK, vars, inputs, graph, forest, outer, inner, tree
<1>3. /\ pc' = pc /\ label' = label /\ groups' = groups /\ component' = component
      /\ total' = total /\ best' = best /\ roots' = roots /\ visited' = visited
      /\ bound' = bound /\ result' = result
  BY DEF vars, forest, outer, inner, tree
<1>4. Multiplied' = Multiplied
  BY <1>3 DEF Multiplied, InComponent
<1>5. /\ Join(Multiplied)' = Join(Multiplied)
      /\ Join(visited)' = Join(visited) /\ Join(component)' = Join(component)
      /\ Join(Relation)' = Join(Relation)
  BY <1>1, <1>3, <1>4 DEF Join, Fixed
<1>6. TotalSound'
  BY <1>3, <1>5 DEF IInv, TotalSound
<1>7. ComponentSound' /\ TreeBoundSound' /\ CeilingSound'
  BY <1>3, <1>5 DEF IInv, ComponentSound, TreeBoundSound, CeilingSound, Bounds, InComponent
<1>. QED  BY <1>1, <1>2, <1>6, <1>7, FixedKeeps DEF IInv

----------------------------------------------------------------------------
(* The theorems.                                                           *)

LEMMA Invariance == Spec => []IInv
<1>1. IInv /\ [Next]_vars => IInv'
  BY BuildStep, ComponentsStep, TreeStep, ReturnStep, StutterStep DEF Next
<1>. QED  BY InitIInv, <1>1, PTL DEF Spec

\* Type correctness of the graph, the loops' variables and the result.
THEOREM Typed == Spec => []TypeOK
<1>1. IInv => TypeOK
  BY DEF IInv
<1>. QED  BY Invariance, <1>1, PTL

\* The spanning-tree theorem of degree.rs: whatever the root and the order,
\* at every step the join of the relations in the tree, over every edge
\* between them, has at most as many rows as the product of the root's row
\* count and the degrees crossed.
THEOREM SpanningTreeBound == Spec => []TreeBoundSound
<1>1. IInv => TreeBoundSound
  BY DEF IInv
<1>. QED  BY Invariance, <1>1, PTL

\* JoinGraph::ceiling never returns less than the number of rows of the join,
\* for every instance, graph and honest registration of degrees.
THEOREM CeilingIsSound == Spec => []CeilingSound
<1>1. IInv => CeilingSound
  BY DEF IInv
<1>. QED  BY Invariance, <1>1, PTL

----------------------------------------------------------------------------
(* The union-find hands connected components to the trees.                 *)

\* No edge already united leaves S.
Closed(S) ==
  \A k \in 1 .. unioned : edges[k].left \in S <=> edges[k].right \in S

\* Equal labels cannot be told apart by an edge-closed set, and the ends of
\* an edge carry the same label: the labels are the connected components.
Partition ==
  /\ \A S \in SUBSET Relation : Closed(S) =>
       \A r, q \in Relation : (label[r] = label[q] /\ r \in S) => q \in S
  /\ \A k \in 1 .. unioned : label[edges[k].left] = label[edges[k].right]

Connected ==
  /\ unioned \in 0 .. Len(edges)
  /\ pc = "build" => unioned = 0 /\ label = [r \in Relation |-> r]
  /\ pc \notin {"build", "components", "done"} => unioned = Len(edges)
  /\ Partition
  /\ InComponent => \E g \in Relation : component = {r \in Relation : label[r] = g}
  /\ pc = "grow" => visited # {}

LEMMA ConnectedInit == Init => Connected
<1>. SUFFICES ASSUME Init PROVE Connected
  OBVIOUS
<1>1. Partition
  BY DEF Init, Partition
<1>. QED  BY <1>1 DEF Init, Connected, InComponent

LEMMA UnionKeepsPartition ==
  ASSUME IInv, Connected, Union
  PROVE  Partition'
<1>. DEFINE e == edges[unioned + 1]
<1>1. /\ unioned \in Nat /\ unioned + 1 \in 1 .. Len(edges) /\ Len(edges) \in Nat
      /\ edges' = edges /\ unioned' = unioned + 1
      /\ label' = UnionEnds(e) /\ label \in [Relation -> Relation]
  BY DEF Union, graph, IInv, TypeOK
<1>2. e.left \in Relation /\ e.right \in Relation
  BY <1>1 DEF IInv, Wired, ValidEdge
<1>3. \A r \in Relation :
        label'[r] = IF label[r] = label[e.left] THEN label[e.right] ELSE label[r]
  BY <1>1 DEF UnionEnds
<1>4. \A k \in 1 .. unioned' : k \in 1 .. unioned \/ k = unioned + 1
  BY <1>1
<1>5. ASSUME NEW S \in SUBSET Relation, Closed(S)',
             NEW r \in Relation, NEW q \in Relation, label'[r] = label'[q], r \in S
      PROVE  q \in S
  <2>1. Closed(S) /\ (e.left \in S <=> e.right \in S)
    BY <1>1, <1>5 DEF Closed
  <2>2. \A x, y \in Relation : label[x] = label[y] => (x \in S <=> y \in S)
    BY <2>1 DEF Connected, Partition
  <2>3. CASE label[r] = label[e.left] /\ label[q] = label[e.left]
    BY <1>5, <2>2, <2>3
  <2>4. CASE label[r] = label[e.left] /\ label[q] # label[e.left]
    <3>1. label[q] = label[e.right]
      BY <1>3, <1>5, <2>4
    <3>. QED  BY <1>2, <1>5, <2>1, <2>2, <2>4, <3>1
  <2>5. CASE label[r] # label[e.left] /\ label[q] = label[e.left]
    <3>1. label[r] = label[e.right]
      BY <1>3, <1>5, <2>5
    <3>. QED  BY <1>2, <1>5, <2>1, <2>2, <2>5, <3>1
  <2>6. CASE label[r] # label[e.left] /\ label[q] # label[e.left]
    BY <1>3, <1>5, <2>2, <2>6
  <2>. QED  BY <2>3, <2>4, <2>5, <2>6
<1>6. ASSUME NEW k \in 1 .. unioned'
      PROVE  label'[edges[k].left] = label'[edges[k].right]
  <2>1. k \in 1 .. Len(edges)
    BY <1>1
  <2>2. edges[k].left \in Relation /\ edges[k].right \in Relation
    BY <2>1 DEF IInv, Wired, ValidEdge
  <2>3. k \in 1 .. unioned => label[edges[k].left] = label[edges[k].right]
    BY DEF Connected, Partition
  <2>. QED  BY <1>3, <1>4, <2>2, <2>3
<1>. QED  BY <1>1, <1>5, <1>6 DEF Partition

LEMMA ConnectedStep ==
  ASSUME IInv, Connected, [Next]_vars
  PROVE  Connected'
<1>1. CASE (\E r \in Relation : AddRelation(r)) \/ CallCeiling
  BY <1>1 DEF AddRelation, CallCeiling, Connected, Partition, Closed, InComponent,
              IInv, TypeOK, graph, forest, inputs
<1>2. CASE WithEdge
  <2>1. /\ pc = "build" /\ pc' = "build" /\ unioned' = 0 /\ label' = [r \in Relation |-> r]
    BY <1>2 DEF WithEdge, forest, Connected
  <2>2. Len(edges') \in Nat
    <3>1. pending \in Seq(Edge) /\ pending # <<>> /\ edges \in Seq(Edge)
      BY <1>2 DEF IInv, TypeOK, WithEdge
    <3>2. edges' \in Seq(Edge)
      BY <1>2, <3>1 DEF WithEdge
    <3>. QED  BY <3>2
  <2>3. Partition'
    BY <2>1 DEF Partition, Closed
  <2>. QED  BY <2>1, <2>2, <2>3 DEF Connected, InComponent
<1>3. CASE Union
  <2>1. /\ pc = "components" /\ pc' = pc /\ unioned' = unioned + 1 /\ unioned < Len(edges)
        /\ edges' = edges /\ unioned \in Nat /\ Len(edges) \in Nat
    BY <1>3 DEF Union, graph, IInv, TypeOK
  <2>. QED  BY <1>3, <2>1, UnionKeepsPartition DEF Connected, InComponent
<1>4. ASSUME Group \/ NextComponent \/ MultiplyRows \/ TryRoots \/ PlantTree \/ Attach
             \/ FinishTree \/ MultiplyComponent \/ Return \/ UNCHANGED vars
      PROVE  Connected'
  <2>1. edges' = edges /\ unioned' = unioned /\ label' = label
    BY <1>4 DEF Group, NextComponent, MultiplyRows, TryRoots, PlantTree, Attach, FinishTree,
                MultiplyComponent, Return, vars, graph, forest
  <2>2. Partition'
    BY <2>1 DEF Connected, Partition, Closed
  <2>3. /\ unioned' \in 0 .. Len(edges')
        /\ pc' = "build" => unioned' = 0 /\ label' = [r \in Relation |-> r]
        /\ pc' \notin {"build", "components", "done"} => unioned' = Len(edges')
    BY <1>4, <2>1
       DEF Connected, Group, NextComponent, MultiplyRows, TryRoots, PlantTree, Attach, FinishTree,
           MultiplyComponent, Return, vars
  <2>4. InComponent' => \E g \in Relation : component' = {r \in Relation : label'[r] = g}
    <3>1. CASE NextComponent
      <4>1. PICK g \in groups : component' = {r \in Relation : label[r] = g}
        BY <3>1 DEF NextComponent
      <4>2. g \in Relation
        BY DEF IInv, TypeOK
      <4>. QED  BY <2>1, <4>1, <4>2
    <3>2. CASE ~NextComponent
      <4>1. InComponent' => InComponent /\ component' = component
        BY <1>4, <3>2
           DEF InComponent, Group, MultiplyRows, TryRoots, PlantTree, Attach, FinishTree,
               MultiplyComponent, Return, vars, inner
      <4>. QED  BY <2>1, <4>1 DEF Connected
    <3>. QED  BY <3>1, <3>2
  <2>5. pc' = "grow" => visited' # {}
    BY <1>4 DEF Connected, Group, NextComponent, MultiplyRows, TryRoots, PlantTree, Attach,
                FinishTree, MultiplyComponent, Return, vars, tree
  <2>. QED  BY <2>2, <2>3, <2>4, <2>5 DEF Connected
<1>. QED  BY <1>1, <1>2, <1>3, <1>4 DEF Next

\* A tree that does not span its component has an edge to grow over: the
\* fallback of spanning_tree_ceiling is dead code, and Attach never blocks.
THEOREM TreesSpan == Spec => []FrontierNeverEmpty
<1>1. ASSUME IInv, Connected
      PROVE  FrontierNeverEmpty
  <2>. SUFFICES ASSUME pc = "grow", visited # component, Frontier = {}
                PROVE  FALSE
    BY DEF FrontierNeverEmpty
  <2>1. PICK g \in Relation : component = {r \in Relation : label[r] = g}
    BY <1>1 DEF Connected, InComponent
  <2>2. visited \subseteq component /\ visited # {} /\ unioned = Len(edges)
    BY <1>1 DEF Connected, IInv, ComponentSound
  <2>3. ASSUME NEW k \in 1 .. unioned
        PROVE  edges[k].left \in visited <=> edges[k].right \in visited
    <3>1. /\ edges[k].left \in Relation /\ edges[k].right \in Relation
          /\ label[edges[k].left] = label[edges[k].right]
      BY <1>1, <2>2, <2>3 DEF IInv, Wired, ValidEdge, Connected, Partition
    <3>2. edges[k].left \in component <=> edges[k].right \in component
      BY <2>1, <3>1
    <3>3. /\ Ends(<<k, 1>>) = <<edges[k].left, edges[k].right>>
          /\ Ends(<<k, 2>>) = <<edges[k].right, edges[k].left>>
      BY DEF Ends
    <3>4. <<k, 1>> \notin Frontier /\ <<k, 2>> \notin Frontier
      OBVIOUS
    <3>. QED  BY <2>2, <3>2, <3>3, <3>4 DEF Frontier
  <2>4. PICK r \in Relation : r \in visited
    BY <2>1, <2>2
  <2>5. \A q \in component : q \in visited
    BY <1>1, <2>1, <2>2, <2>3, <2>4 DEF Connected, Partition, Closed
  <2>. QED  BY <2>2, <2>5
<1>2. Init => IInv /\ Connected
  BY InitIInv, ConnectedInit
<1>3. IInv /\ [Next]_vars => IInv'
  BY BuildStep, ComponentsStep, TreeStep, ReturnStep, StutterStep DEF Next
<1>4. IInv /\ Connected /\ [Next]_vars => (IInv /\ Connected)'
  BY <1>3, ConnectedStep
<1>. QED  BY <1>1, <1>2, <1>4, PTL DEF Spec

----------------------------------------------------------------------------
(* The degrees of degree_graph.                                            *)

\* A missing count reads as the row count, a count that is honest about all
\* keys as a degree of each: both bound the instance's.
LEMMA DegreeOfSound ==
  ASSUME EveryKey, TypeOK, NEW r \in Relation, NEW count \in Counts(r),
         NEW a \in JoinedBy(pending, r)
  PROVE  /\ DegreeOf(r, count) \in Nat
         /\ BoundsDegree(DegreeOf(r, count), table[r], a)
<1>1. Len(table[r]) \in Nat
  BY RowsType DEF TypeOK, Tables
<1>2. CASE count = Missing
  BY <1>1, <1>2, CarriersFinite DEF DegreeOf, Unknown, Rows, BoundsDegree
<1>3. CASE count # Missing
  <2>1. /\ count \in Nat
        /\ count <= Cardinality(DistinctValues(table[r], a)) \/ count > Len(table[r])
    BY <1>1, <1>3, BoundAssumption DEF Counts, SafeCounts
  <2>. DEFINE t == table[r]
              n == Len(t)
  <2>2. n \in Nat /\ n <= n
    BY <1>1
  <2>3. /\ count \in Nat
        /\ count <= Cardinality(DistinctValues(t, a)) \/ count > n
    BY <2>1
  <2>. HIDE DEF n, t
  <2>4. FromDistinct(n, count) \in Nat /\ BoundsDegree(FromDistinct(n, count), t, a)
    BY <2>2, <2>3, FromDistinctSound DEF n
  <2>. QED  BY <1>3, <2>4 DEF DegreeOf, Rows, n, t
<1>. QED  BY <1>2, <1>3

----------------------------------------------------------------------------
(* The inductive invariant.                                                *)

\* The fold bounds the relations it has met, whatever joins them; and only a
\* join of some relations is taken apart into components.
LInv ==
  /\ IInv
  /\ pc = "fold" => Bounds(best, visited)
  /\ pc \notin {"build", "fold", "done"} => Relation # {}

\* Neither conjunct that LInv adds to IInv concerns JoinGraph's own steps.
LEMMA GraphStep ==
  ASSUME LInv, [Next]_vars
  PROVE  LInv'
<1>1. IInv'
  BY BuildStep, ComponentsStep, TreeStep, ReturnStep, StutterStep DEF Next, LInv
<1>2. CASE UNCHANGED vars
  <2>1. Fixed /\ pc' = pc /\ best' = best /\ visited' = visited
    BY <1>2 DEF vars, Fixed, inputs, graph, inner, tree
  <2>2. Bounds(best, visited)' <=> Bounds(best, visited)
    BY <2>1 DEF Bounds, Join, Fixed
  <2>. QED  BY <1>1, <2>1, <2>2 DEF LInv
<1>3. CASE Next
  <2>1. /\ pc # "fold" /\ pc' # "fold"
        /\ pc' \notin {"build", "fold", "done"} =>
             Relation # {} \/ pc \notin {"build", "fold", "done"}
    BY <1>3 DEF Next, AddRelation, WithEdge, CallCeiling, Union, Group, NextComponent,
                MultiplyRows, TryRoots, PlantTree, Attach, FinishTree, MultiplyComponent, Return
  <2>. QED  BY <1>1, <2>1 DEF LInv
<1>. QED  BY <1>2, <1>3

LEMMA DegreeGraphStep ==
  ASSUME EveryKey, LInv, DegreeGraph
  PROVE  LInv'
<1>1. /\ pc = "build" /\ pc' = "build" /\ total' = total /\ table' = table
      /\ edges' = edges /\ pending' = pending
  BY DEF DegreeGraph, graph, outer
<1>2. PICK counts \in [Relation -> UNION {Counts(r) : r \in Relation}] :
        /\ \A r \in Relation : counts[r] \in Counts(r)
        /\ registered' = [r \in Relation |-> [a \in Schema[r] |->
             IF a \in JoinedBy(pending, r) THEN DegreeOf(r, counts[r]) ELSE NoDegree]]
  BY DEF DegreeGraph
<1>3. \A r \in Relation : \A a \in JoinedBy(pending, r) :
        /\ DegreeOf(r, counts[r]) \in Nat
        /\ BoundsDegree(DegreeOf(r, counts[r]), table[r], a)
  BY <1>2, DegreeOfSound DEF LInv, IInv
<1>4. \A r \in Relation : registered'[r] \in [Schema[r] -> Nat \cup {NoDegree}]
  BY <1>2, <1>3
<1>5. TypeOK'
  BY <1>1, <1>2, <1>4
     DEF LInv, IInv, TypeOK, DegreeGraph, graph, forest, outer, inner, tree
<1>6. Honest'
  <2>. SUFFICES ASSUME NEW r \in Relation, NEW a \in Schema[r], registered'[r][a] # NoDegree
                PROVE  BoundsDegree(registered'[r][a], table[r], a)
    BY <1>1 DEF Honest, BoundsDegree, Carriers
  <2>1. a \in JoinedBy(pending, r) /\ registered'[r][a] = DegreeOf(r, counts[r])
    BY <1>2
  <2>. QED  BY <1>3, <2>1
<1>7. Wired'
  BY <1>1 DEF LInv, IInv, Wired, Carried, ValidEdge
<1>. QED  BY <1>1, <1>5, <1>6, <1>7
          DEF LInv, IInv, TotalSound, ComponentSound, TreeBoundSound, CeilingSound, InComponent

----------------------------------------------------------------------------
(* The fold over the row counts.                                           *)

LEMMA ProductStep ==
  ASSUME LInv, CallProduct \/ FoldRows \/ ReturnProduct
  PROVE  LInv'
<1>1. Fixed
  BY DEF CallProduct, FoldRows, ReturnProduct, Fixed, inputs, graph
<1>2. CASE CallProduct
  <2>1. pc' = "fold" /\ best' = 1 /\ visited' = {}
    BY <1>2 DEF CallProduct
  <2>2. TypeOK'
    BY <1>2, <2>1 DEF LInv, IInv, TypeOK, CallProduct, inputs, graph, forest, outer
  <2>3. Bounds(1, {})
    BY JoinOfNone DEF Bounds
  <2>4. Bounds(best, visited)'
    BY <1>1, <2>1, <2>3 DEF Bounds, Join, Fixed
  <2>. QED  BY <1>1, <2>1, <2>2, <2>4, FixedKeeps
            DEF LInv, IInv, TotalSound, ComponentSound, TreeBoundSound, CeilingSound, InComponent
<1>3. CASE FoldRows
  <2>1. PICK r \in Relation \ visited :
          best' = Capped(best * Rows(r)) /\ visited' = visited \cup {r}
    BY <1>3 DEF FoldRows
  <2>2. /\ pc = "fold" /\ pc' = pc /\ visited \subseteq Relation /\ Bounds(best, visited)
        /\ best \in Nat /\ Tables
    BY <1>3 DEF FoldRows, LInv, IInv, TypeOK, Tables
  <2>3. Rows(r) \in Nat /\ Cardinality(Join({r})) <= Rows(r)
    BY <2>2, RowsType, JoinOfOne DEF Rows
  <2>4. Bounds(Capped(best * Rows(r)), visited \cup {r}) /\ Capped(best * Rows(r)) \in Nat
    <3>. DEFINE x == Cardinality(Join(visited))
                y == Cardinality(Join({r}))
                z == Cardinality(Join(visited \cup {r}))
    <3>1. x \in Nat /\ y \in Nat /\ z \in Nat
      BY <2>2, JoinFinite
    <3>2. z <= x * y
      BY <2>2, JoinOfDisjoint
    <3>3. best = MaxU64 \/ x <= best
      BY <2>2 DEF Bounds
    <3>4. best * Rows(r) \in Nat /\ (best * Rows(r) < MaxU64 => x * y <= best * Rows(r))
      BY <2>2, <2>3, <3>1, <3>3, BoundsMultiply
    <3>5. MaxU64 \in Nat /\ x * y \in Nat
      BY <3>1, BoundAssumption, Z3
    <3>6. best * Rows(r) < MaxU64 => z <= best * Rows(r)
      BY <3>1, <3>2, <3>4, <3>5
    <3>. HIDE DEF x, y
    <3>. QED  BY <3>4, <3>5, <3>6 DEF Bounds, Capped
  <2>5. TypeOK'
    BY <1>3, <2>1, <2>2, <2>4
       DEF LInv, IInv, TypeOK, FoldRows, inputs, graph, forest, outer
  <2>6. Bounds(best, visited)'
    BY <1>1, <2>1, <2>4 DEF Bounds, Join, Fixed
  <2>. QED  BY <1>1, <2>2, <2>5, <2>6, FixedKeeps
            DEF LInv, IInv, TotalSound, ComponentSound, TreeBoundSound, CeilingSound, InComponent
<1>4. CASE ReturnProduct
  <2>1. pc = "fold" /\ pc' = "done" /\ visited = Relation /\ result' = best
    BY <1>4 DEF ReturnProduct
  <2>2. TypeOK'
    BY <1>4, <2>1 DEF LInv, IInv, TypeOK, ReturnProduct, inputs, graph, forest, outer, inner, tree
  <2>3. Bounds(result, Relation)'
    BY <1>1, <2>1 DEF LInv, Bounds, Join, Fixed
  <2>. QED  BY <1>1, <2>1, <2>2, <2>3, FixedKeeps
            DEF LInv, IInv, TotalSound, ComponentSound, TreeBoundSound, CeilingSound, InComponent
<1>. QED  BY <1>2, <1>3, <1>4

LEMMA LInvInit == Init => LInv
BY InitIInv DEF LInv, Init

LEMMA LInvStep ==
  ASSUME EveryKey, LInv, [LegacyNext]_vars
  PROVE  LInv'
BY GraphStep, DegreeGraphStep, ProductStep DEF LegacyNext

----------------------------------------------------------------------------
(* The theorems.                                                           *)

\* Every integer bound of the crate, on either surface, returns a ceiling of
\* the join, for every instance, list of predicates and set of counts.
THEOREM LegacyCeilingIsSound ==
  ASSUME EveryKey
  PROVE  LegacySpec => []CeilingSound
<1>1. Init => LInv
  BY LInvInit
<1>2. LInv /\ [LegacyNext]_vars => LInv'
  BY LInvStep
<1>3. LInv => CeilingSound
  BY DEF LInv, IInv
<1>. QED  BY <1>1, <1>2, <1>3, PTL DEF LegacySpec

\* The rows a join emits are a number.
LEMMA SizeType == Cardinality(Join(Relation)) \in Nat
BY JoinFinite

LEMMA SizeTypeNext == (Cardinality(Join(Relation)) \in Nat)'
BY SizeType, PTL

\* Describing the join is invisible to the promise; the call fixes what is
\* promised.
LEMMA CallRefines ==
  ASSUME LInv, LInv',
         (\E r \in Relation : AddRelation(r)) \/ WithEdge \/ DegreeGraph \/ CallProduct \/ CallCeiling
  PROVE  [Promise!Next]_Promise!vars
<1>1. pc = "build" /\ result' = result
  BY DEF AddRelation, WithEdge, DegreeGraph, CallProduct, Described, CallCeiling
<1>2. pc' \in {"build", "fold", "components"} \/ (pc' = "done" /\ Relation = {})
  BY DEF AddRelation, WithEdge, DegreeGraph, CallProduct, CallCeiling
<1>3. Cardinality(Join(Relation))' \in Nat /\ result \in Nat
  BY SizeTypeNext DEF LInv, IInv, TypeOK
<1>4. CASE pc' = "build"
  BY <1>1, <1>4 DEF Promise!vars, Status
<1>5. CASE pc' \in {"fold", "components"}
  BY <1>1, <1>3, <1>5 DEF Promise!Next, Promise!Call, Status
<1>6. CASE pc' = "done" /\ Relation = {}
  BY <1>1, <1>3, <1>6 DEF Promise!Next, Promise!AnswerAtOnce, Status
<1>. QED  BY <1>2, <1>4, <1>5, <1>6

\* While the bound is computed nothing is promised, and the answer keeps the
\* promise.
LEMMA AnswerRefines ==
  ASSUME LInv, LInv', Fixed, pc \notin {"build", "done"}, pc' # "build",
         pc' # "done" => result' = result,
         pc' = "done" => Relation # {} \/ Bounds(result', Relation)
  PROVE  [Promise!Next]_Promise!vars
<1>1. Cardinality(Join(Relation))' = Cardinality(Join(Relation))
  BY DEF Join, Fixed
<1>2. CASE pc' # "done"
  BY <1>1, <1>2 DEF Promise!vars, Status
<1>3. CASE pc' = "done"
  <2>1. result' \in Nat
    BY DEF LInv, IInv, TypeOK
  <2>2. result' = MaxU64 \/ Cardinality(Join(Relation)) <= result'
    BY <1>1, <1>3 DEF LInv, IInv, CeilingSound, Bounds
  <2>. QED  BY <1>1, <1>3, <2>1, <2>2 DEF Promise!Next, Promise!Answer, Status
<1>. QED  BY <1>2, <1>3

LEMMA PromiseStep ==
  ASSUME LInv, LInv', [LegacyNext]_vars
  PROVE  [Promise!Next]_Promise!vars
<1>1. CASE UNCHANGED vars
  <2>1. pc' = pc /\ result' = result /\ Cardinality(Join(Relation))' = Cardinality(Join(Relation))
    BY <1>1 DEF vars, inputs, graph, Join
  <2>. QED  BY <2>1 DEF Promise!vars, Status
<1>2. CASE \/ (\E r \in Relation : AddRelation(r)) \/ WithEdge \/ CallCeiling
          \/ DegreeGraph \/ CallProduct
  BY <1>2, CallRefines
<1>3. CASE Union \/ Group \/ NextComponent \/ MultiplyRows \/ TryRoots \/ PlantTree
          \/ Attach \/ FinishTree \/ MultiplyComponent \/ Return
  <2>1. Fixed /\ pc \notin {"build", "fold", "done"} /\ pc' # "build"
    BY <1>3 DEF Union, Group, NextComponent, MultiplyRows, TryRoots, PlantTree, Attach,
                FinishTree, MultiplyComponent, Return, Fixed, inputs, graph
  <2>2. pc' # "done" => result' = result
    BY <1>3 DEF Union, Group, NextComponent, MultiplyRows, TryRoots, PlantTree, Attach,
                FinishTree, MultiplyComponent, Return
  <2>3. Relation # {}
    BY <2>1 DEF LInv
  <2>. QED  BY <2>1, <2>2, <2>3, AnswerRefines
<1>4. CASE FoldRows
  <2>1. Fixed /\ pc = "fold" /\ pc' = "fold" /\ result' = result
    BY <1>4 DEF FoldRows, Fixed, inputs, graph
  <2>. QED  BY <2>1, AnswerRefines
<1>5. CASE ReturnProduct
  <2>1. Fixed /\ pc = "fold" /\ pc' = "done" /\ result' = best /\ visited = Relation
    BY <1>5 DEF ReturnProduct, Fixed, inputs, graph
  <2>2. Bounds(result', Relation)
    BY <2>1 DEF LInv
  <2>. QED  BY <2>1, <2>2, AnswerRefines
<1>. QED  BY <1>1, <1>2, <1>3, <1>4, <1>5 DEF LegacyNext, Next

\* The steps of JoinGraph and of the integer bounds implement the trait's
\* promise: once called, one answer, for the join as it was described, and
\* never below the rows it emits.
THEOREM LegacyBoundsKeepPromise ==
  ASSUME EveryKey
  PROVE  LegacySpec => KeepsPromise
<1>1. Init => LInv
  BY LInvInit
<1>2. LInv /\ [LegacyNext]_vars => LInv'
  BY LInvStep
<1>3. Init => Promise!Init
  BY DEF Init, Promise!Init, Status
<1>4. LInv /\ LInv' /\ [LegacyNext]_vars => [Promise!Next]_Promise!vars
  BY PromiseStep
<1>. QED  BY <1>1, <1>2, <1>3, <1>4, PTL DEF LegacySpec, KeepsPromise, Promise!Spec

\* The ends of the first k pairs, one after the other.
EndsTo(list, k) == [i \in 1 .. 2 * k |-> IF i % 2 = 1 THEN list[(i + 1) \div 2].left ELSE list[i \div 2].right]
PairAt(list, k) == <<list[k].left, list[k].right>>

LEMMA EndsFurther ==
  ASSUME NEW list \in Seq(Edge), NEW k \in 1 .. Len(list)
  PROVE  /\ EndsTo(list, k) \in Seq(Nat) /\ Len(EndsTo(list, k)) = 2 * k
         /\ EndsTo(list, k) = IF k = 1 THEN PairAt(list, k) ELSE EndsTo(list, k - 1) \o PairAt(list, k)
<1>. DEFINE n == Len(list)
<1>1. n \in Nat /\ \A i \in 1 .. n : list[i] \in Edge /\ list[i].left \in Nat /\ list[i].right \in Nat
  <2>1. n \in Nat /\ \A i \in 1 .. n : list[i] \in Edge
    OBVIOUS
  <2>2. \A e \in Edge : e.left \in Nat /\ e.right \in Nat
    BY DEF Edge
  <2>. QED  BY <2>1, <2>2
<1>. HIDE DEF n
<1>2. ASSUME NEW l \in 0 .. n
      PROVE  /\ EndsTo(list, l) \in [1 .. 2 * l -> Nat] /\ EndsTo(list, l) \in Seq(Nat)
             /\ Len(EndsTo(list, l)) = 2 * l
  <2>1. l \in Nat /\ l <= n /\ 2 * l \in Nat
    BY <1>1
  <2>2. ASSUME NEW i \in 1 .. 2 * l
        PROVE  (IF i % 2 = 1 THEN list[(i + 1) \div 2].left ELSE list[i \div 2].right) \in Nat
    <3>1. CASE i % 2 = 1
      <4>1. (i + 1) \div 2 \in 1 .. n
        BY <1>1, <2>1, <3>1
      <4>. QED  BY <1>1, <3>1, <4>1
    <3>2. CASE i % 2 # 1
      <4>1. i \div 2 \in 1 .. n
        BY <1>1, <2>1, <3>2
      <4>. QED  BY <1>1, <3>2, <4>1
    <3>. QED  BY <3>1, <3>2
  <2>3. EndsTo(list, l) \in [1 .. 2 * l -> Nat]
    BY <2>2 DEF EndsTo
  <2>4. EndsTo(list, l) \in Seq(Nat)
    BY <2>1, <2>3, SeqDef
  <2>5. DOMAIN EndsTo(list, l) = 1 .. Len(EndsTo(list, l)) /\ Len(EndsTo(list, l)) \in Nat
    BY <2>4, LenProperties
  <2>6. DOMAIN EndsTo(list, l) = 1 .. 2 * l
    BY <2>3
  <2>. DEFINE a == Len(EndsTo(list, l))
              b == 2 * l
  <2>7. a \in Nat /\ b \in Nat /\ 1 .. a = 1 .. b
    BY <2>1, <2>5, <2>6
  <2>8. a = b
    <3>. HIDE DEF a, b
    <3>. QED  BY <2>7
  <2>. QED  BY <2>3, <2>4, <2>8
<1>3. k \in 0 .. n /\ k \in 1 .. n
  BY <1>1 DEF n
<1>4. \A i \in 1 .. 2 * k : EndsTo(list, k)[i] = IF i % 2 = 1 THEN list[(i + 1) \div 2].left ELSE list[i \div 2].right
  BY DEF EndsTo
<1>5. /\ EndsTo(list, k)[2 * k - 1] = list[k].left /\ EndsTo(list, k)[2 * k] = list[k].right
  <2>1. /\ 2 * k - 1 \in 1 .. 2 * k /\ 2 * k \in 1 .. 2 * k
        /\ (2 * k - 1) % 2 = 1 /\ (2 * k) % 2 = 0 /\ (2 * k - 1 + 1) \div 2 = k /\ (2 * k) \div 2 = k
    BY <1>1, <1>3
  <2>. QED  BY <1>4, <2>1
<1>6. PairAt(list, k) \in Seq(Nat) /\ Len(PairAt(list, k)) = 2 /\ PairAt(list, k)[1] = list[k].left /\ PairAt(list, k)[2] = list[k].right
  BY <1>1, <1>3 DEF PairAt
<1>7. CASE k = 1
  <2>1. EndsTo(list, k) \in [1 .. 2 -> Nat]
    <3>1. EndsTo(list, k) \in [1 .. 2 * k -> Nat]
      BY <1>2, <1>3, Zenon
    <3>2. 2 * k = 2
      BY <1>7
    <3>. QED  BY <3>1, <3>2, Zenon
  <2>2. PairAt(list, k) \in [1 .. 2 -> Nat]
    <3>. DEFINE x == list[k].left
                y == list[k].right
    <3>1. x \in Nat /\ y \in Nat
      BY <1>1, <1>3
    <3>. HIDE DEF x, y
    <3>2. <<x, y>> \in [1 .. 2 -> Nat]
      BY <3>1
    <3>. QED  BY <3>2 DEF PairAt, x, y
  <2>3. \A i \in 1 .. 2 : i = 1 \/ i = 2
    OBVIOUS
  <2>4. EndsTo(list, k)[1] = PairAt(list, k)[1] /\ EndsTo(list, k)[2] = PairAt(list, k)[2]
    BY <1>5, <1>6, <1>7
  <2>5. EndsTo(list, k) = PairAt(list, k)
    BY <2>1, <2>2, <2>3, <2>4
  <2>. QED  BY <1>2, <1>3, <1>7, <2>5
<1>8. CASE k # 1
  <2>. DEFINE s == EndsTo(list, k - 1)
              p == PairAt(list, k)
              c == s \o p
  <2>1. k - 1 \in 0 .. n
    BY <1>1, <1>3, <1>8
  <2>2. s \in Seq(Nat) /\ Len(s) = 2 * (k - 1)
    BY <1>2, <2>1
  <2>3. /\ c \in Seq(Nat) /\ Len(c) = Len(s) + Len(p)
        /\ \A i \in 1 .. Len(s) + Len(p) : c[i] = IF i <= Len(s) THEN s[i] ELSE p[i - Len(s)]
    BY <1>6, <2>2, ConcatProperties
  <2>4. \A i \in 1 .. 2 * (k - 1) : s[i] = IF i % 2 = 1 THEN list[(i + 1) \div 2].left ELSE list[i \div 2].right
    BY DEF EndsTo
  <2>. HIDE DEF s, p, c
  <2>5. Len(s) = 2 * k - 2 /\ Len(p) = 2 /\ Len(c) = 2 * k
    BY <1>1, <1>3, <1>6, <2>2, <2>3 DEF p
  <2>6. \A i \in 1 .. 2 * k : c[i] = EndsTo(list, k)[i]
    <3>. SUFFICES ASSUME NEW i \in 1 .. 2 * k PROVE c[i] = EndsTo(list, k)[i]
      OBVIOUS
    <3>1. i \in Nat /\ k \in Nat
      BY <1>1, <1>3
    <3>2. CASE i <= 2 * k - 2
      <4>1. c[i] = s[i]
        BY <2>3, <2>5, <3>1, <3>2
      <4>2. i \in 1 .. 2 * (k - 1)
        BY <3>1, <3>2
      <4>. QED  BY <1>4, <2>4, <4>1, <4>2
    <3>3. CASE i = 2 * k - 1
      <4>1. c[i] = p[1]
        BY <2>3, <2>5, <3>1, <3>3
      <4>. QED  BY <1>5, <1>6, <3>3, <4>1 DEF p
    <3>4. CASE i = 2 * k
      <4>1. c[i] = p[2]
        BY <2>3, <2>5, <3>1, <3>4
      <4>. QED  BY <1>5, <1>6, <3>4, <4>1 DEF p
    <3>. QED  BY <3>1, <3>2, <3>3, <3>4
  <2>7. c \in [1 .. 2 * k -> Nat]
    BY <2>3, <2>5
  <2>8. EndsTo(list, k) = c
    <3>1. EndsTo(list, k) \in [1 .. 2 * k -> Nat]
      BY <1>2, <1>3
    <3>. DEFINE D == 1 .. 2 * k
    <3>2. c \in [D -> Nat] /\ EndsTo(list, k) \in [D -> Nat] /\ \A i \in D : c[i] = EndsTo(list, k)[i]
      BY <2>6, <2>7, <3>1
    <3>. HIDE DEF D
    <3>. QED  BY <3>2
  <2>. QED  BY <1>2, <1>3, <1>8, <2>8 DEF c, s, p
<1>. QED  BY <1>7, <1>8

LEMMA LeastOf ==
  ASSUME NEW T \in SUBSET Nat, T # {}
  PROVE  \E x \in T : \A y \in T : x <= y
<1>1. \E x \in T : \A y \in T : ~ (<<y, x>> \in OpToRel(<, Nat))
  BY NatLessThanWellFounded, WFMin
<1>2. PICK x \in T : \A y \in T : ~ (<<y, x>> \in OpToRel(<, Nat))
  BY <1>1
<1>3. \A y \in T : x <= y
  <2>. SUFFICES ASSUME NEW y \in T PROVE x <= y
    OBVIOUS
  <2>1. ~(y < x)
    BY <1>2 DEF OpToRel
  <2>. QED  BY <2>1
<1>. QED  BY <1>3

IsFlatten(f, seqs) == f = [i \in 1 .. Len(seqs) |-> IF i = 1 THEN seqs[i] ELSE f[i - 1] \o seqs[i]]

\* The flat list of the pairs' ends.
LEMMA FlatEnds ==
  ASSUME NEW list \in Seq(Edge), list # <<>>
  PROVE  FlattenSeq([k \in 1 .. Len(list) |-> PairAt(list, k)]) = EndsTo(list, Len(list))
<1>. DEFINE n == Len(list)
            seqs == [k \in 1 .. n |-> PairAt(list, k)]
            E == [k \in 1 .. n |-> EndsTo(list, k)]
            F == CHOOSE f : IsFlatten(f, seqs)
<1>1. n \in Nat /\ n # 0
  OBVIOUS
<1>2. Len(seqs) = n
  <2>1. seqs \in Seq(Seq(Nat))
    <3>1. \A k \in 1 .. n : PairAt(list, k) \in Seq(Nat)
      <4>1. \A k \in 1 .. n : list[k] \in Edge
        OBVIOUS
      <4>. QED  BY <4>1 DEF PairAt, Edge
    <3>. HIDE DEF n
    <3>2. seqs \in [1 .. n -> Seq(Nat)]
      BY <3>1
    <3>. QED  BY <1>1, <3>2, SeqDef
  <2>2. DOMAIN seqs = 1 .. Len(seqs) /\ Len(seqs) \in Nat
    BY <2>1, LenProperties
  <2>3. DOMAIN seqs = 1 .. n
    OBVIOUS
  <2>. DEFINE m == Len(seqs)
  <2>4. 1 .. m = 1 .. n /\ m \in Nat
    BY <2>2, <2>3
  <2>5. m = n
    <3>. HIDE DEF m, n
    <3>. QED  BY <1>1, <2>4
  <2>. QED  BY <2>5
<1>3. \A k \in 1 .. n : seqs[k] = PairAt(list, k) /\ E[k] = EndsTo(list, k)
  OBVIOUS
<1>4. \A k \in 1 .. n : E[k] = IF k = 1 THEN seqs[k] ELSE E[k - 1] \o seqs[k]
  <2>. SUFFICES ASSUME NEW k \in 1 .. n PROVE E[k] = IF k = 1 THEN seqs[k] ELSE E[k - 1] \o seqs[k]
    OBVIOUS
  <2>1. EndsTo(list, k) = IF k = 1 THEN PairAt(list, k) ELSE EndsTo(list, k - 1) \o PairAt(list, k)
    BY EndsFurther
  <2>2. k # 1 => k - 1 \in 1 .. n
    BY <1>1
  <2>3. k # 1 => E[k - 1] = EndsTo(list, k - 1)
    BY <1>3, <2>2
  <2>. HIDE DEF E, seqs
  <2>. QED  BY <1>3, <2>1, <2>3
<1>5. DOMAIN E = 1 .. n /\ E = [k \in 1 .. n |-> E[k]]
  OBVIOUS
<1>. HIDE DEF E
<1>6. IsFlatten(E, seqs)
  <2>. HIDE DEF seqs, n
  <2>1. E = [i \in 1 .. n |-> IF i = 1 THEN seqs[i] ELSE E[i - 1] \o seqs[i]]
    BY <1>4, <1>5
  <2>2. [i \in 1 .. n |-> IF i = 1 THEN seqs[i] ELSE E[i - 1] \o seqs[i]]
          = [i \in 1 .. Len(seqs) |-> IF i = 1 THEN seqs[i] ELSE E[i - 1] \o seqs[i]]
    BY <1>2, Zenon
  <2>. QED  BY <2>1, <2>2, Zenon DEF IsFlatten
<1>7. IsFlatten(F, seqs)
  BY <1>6
<1>8. FlattenSeq(seqs) = F[Len(seqs)]
  <2>1. Len(seqs) # 0
    BY <1>1, <1>2
  <2>. HIDE DEF seqs
  <2>. QED  BY <2>1 DEF FlattenSeq, IsFlatten
<1>. HIDE DEF F, seqs, n
<1>9. F = [i \in 1 .. n |-> IF i = 1 THEN seqs[i] ELSE F[i - 1] \o seqs[i]]
  BY <1>2, <1>7 DEF IsFlatten
<1>10. \A i \in 1 .. n : F[i] = IF i = 1 THEN seqs[i] ELSE F[i - 1] \o seqs[i]
  BY <1>9
<1>11. \A i \in 1 .. n : F[i] = E[i]
  <2>. DEFINE Bad == {i \in 1 .. n : F[i] # E[i]}
  <2>. SUFFICES ASSUME Bad # {} PROVE FALSE
    OBVIOUS
  <2>1. Bad \in SUBSET Nat
    BY <1>1
  <2>2. PICK k \in Bad : \A i \in Bad : k <= i
    BY <2>1, LeastOf
  <2>3. k \in 1 .. n /\ F[k] # E[k]
    OBVIOUS
  <2>4. k # 1 => k - 1 \in 1 .. n /\ F[k - 1] = E[k - 1]
    <3>. SUFFICES ASSUME k # 1 PROVE k - 1 \in 1 .. n /\ F[k - 1] = E[k - 1]
      OBVIOUS
    <3>1. k - 1 \in 1 .. n
      BY <1>1, <2>3
    <3>2. k - 1 \notin Bad
      <4>. HIDE DEF Bad
      <4>. QED  BY <2>1, <2>2, <2>3, <3>1
    <3>. QED  BY <3>1, <3>2
  <2>5. F[k] = IF k = 1 THEN seqs[k] ELSE F[k - 1] \o seqs[k]
    BY <1>10, <2>3
  <2>6. E[k] = IF k = 1 THEN seqs[k] ELSE E[k - 1] \o seqs[k]
    BY <1>4, <2>3
  <2>. QED  BY <2>3, <2>4, <2>5, <2>6
<1>12. n \in 1 .. n
  BY <1>1
<1>. QED  BY <1>2, <1>3, <1>8, <1>11, <1>12 DEF n, seqs

\* The flat list stands for the pairs it was made of, whatever single index
\* follows.
LEMMA PairsArrive ==
  ASSUME pending \in Seq(Edge), NEW rest \in OddEnd
  PROVE  Paired(Flattened \o rest) = pending
<1>. DEFINE n == Len(pending)
            flat == Flattened \o rest
<1>1. n \in Nat /\ \A k \in 1 .. n : pending[k] \in Edge
  OBVIOUS
<1>2. rest \in Seq(Nat) /\ Len(rest) \in {0, 1}
  <2>1. CASE rest = <<>>
    BY <2>1
  <2>2. CASE rest # <<>>
    <3>1. rest = [i \in 1 .. 1 |-> 0]
      BY <2>2 DEF OddEnd
    <3>2. rest \in [1 .. 1 -> Nat]
      BY <3>1
    <3>3. rest \in Seq(Nat) /\ DOMAIN rest = 1 .. 1
      BY <3>1, <3>2, SeqDef
    <3>4. Len(rest) \in Nat /\ DOMAIN rest = 1 .. Len(rest)
      BY <3>3, LenProperties
    <3>5. 1 \in 1 .. Len(rest) /\ (Len(rest) # 0 => Len(rest) \in 1 .. 1)
      BY <3>3, <3>4
    <3>6. Len(rest) = 1
      BY <3>4, <3>5
    <3>. QED  BY <3>3, <3>6
  <2>. QED  BY <2>1, <2>2
<1>3. /\ Flattened \in Seq(Nat) /\ Len(Flattened) = 2 * n
      /\ \A k \in 1 .. n : Flattened[2 * k - 1] = pending[k].left /\ Flattened[2 * k] = pending[k].right
  <2>1. CASE pending = <<>>
    <3>1. n = 0
      BY <2>1
    <3>2. [k \in 1 .. n |-> <<pending[k].left, pending[k].right>>] = <<>>
      BY <3>1
    <3>3. FlattenSeq(<<>>) = <<>>
      BY DEF FlattenSeq
    <3>4. Flattened = <<>>
      BY <3>2, <3>3 DEF Flattened
    <3>. QED  BY <3>1, <3>4
  <2>2. CASE pending # <<>>
    <3>1. n \in 1 .. n
      BY <1>1, <2>2
    <3>2. Flattened = EndsTo(pending, n)
      BY <2>2, FlatEnds DEF Flattened, PairAt
    <3>3. EndsTo(pending, n) \in Seq(Nat) /\ Len(EndsTo(pending, n)) = 2 * n
      BY <3>1, EndsFurther
    <3>4. \A i \in 1 .. 2 * n :
            EndsTo(pending, n)[i] = IF i % 2 = 1 THEN pending[(i + 1) \div 2].left ELSE pending[i \div 2].right
      BY DEF EndsTo
    <3>. HIDE DEF n
    <3>5. ASSUME NEW k \in 1 .. n
          PROVE  EndsTo(pending, n)[2 * k - 1] = pending[k].left /\ EndsTo(pending, n)[2 * k] = pending[k].right
      <4>1. /\ 2 * k - 1 \in 1 .. 2 * n /\ 2 * k \in 1 .. 2 * n
            /\ (2 * k - 1) % 2 = 1 /\ (2 * k) % 2 = 0 /\ (2 * k - 1 + 1) \div 2 = k /\ (2 * k) \div 2 = k
        BY <1>1
      <4>. QED  BY <3>4, <4>1
    <3>. QED  BY <3>2, <3>3, <3>5
  <2>. QED  BY <2>1, <2>2
<1>. HIDE DEF n
<1>4. /\ Len(flat) = Len(Flattened) + Len(rest)
      /\ \A i \in 1 .. Len(Flattened) + Len(rest) : flat[i] = IF i <= Len(Flattened) THEN Flattened[i] ELSE rest[i - Len(Flattened)]
  BY <1>2, <1>3, ConcatProperties
<1>. HIDE DEF flat
<1>5. Len(flat) \div 2 = n
  <2>. DEFINE a == Len(Flattened)
              b == Len(rest)
              c == Len(flat)
  <2>1. c = a + b /\ a = 2 * n /\ (b = 0 \/ b = 1)
    BY <1>2, <1>3, <1>4
  <2>. HIDE DEF a, b, c
  <2>2. c \div 2 = n
    BY <1>1, <2>1
  <2>. QED  BY <2>2 DEF c
<1>6. ASSUME NEW k \in 1 .. n
      PROVE  flat[2 * k - 1] = pending[k].left /\ flat[2 * k] = pending[k].right
  <2>1. 2 * k - 1 \in 1 .. 2 * n /\ 2 * k \in 1 .. 2 * n
    BY <1>1
  <2>2. /\ 2 * k - 1 \in 1 .. Len(Flattened) + Len(rest) /\ 2 * k \in 1 .. Len(Flattened) + Len(rest)
        /\ 2 * k - 1 <= Len(Flattened) /\ 2 * k <= Len(Flattened)
    <3>. DEFINE a == Len(Flattened)
                b == Len(rest)
    <3>1. a = 2 * n /\ (b = 0 \/ b = 1)
      BY <1>2, <1>3
    <3>. HIDE DEF a, b
    <3>2. 2 * k - 1 \in 1 .. a + b /\ 2 * k \in 1 .. a + b /\ 2 * k - 1 <= a /\ 2 * k <= a
      BY <1>1, <2>1, <3>1
    <3>. QED  BY <3>2 DEF a, b
  <2>. QED  BY <1>3, <1>4, <2>2
<1>7. \A k \in 1 .. n : pending[k] = [left |-> pending[k].left, right |-> pending[k].right, attribute |-> pending[k].attribute]
  <2>1. \A e \in Edge : e = [left |-> e.left, right |-> e.right, attribute |-> e.attribute]
    BY DEF Edge
  <2>. QED  BY <1>1, <2>1
<1>8. Paired(flat) = [k \in 1 .. n |-> [left |-> flat[2 * k - 1], right |-> flat[2 * k], attribute |-> pending[k].attribute]]
  BY <1>5 DEF Paired
<1>9. Paired(flat) = [k \in 1 .. n |-> pending[k]]
  <2>1. \A k \in 1 .. n : [left |-> flat[2 * k - 1], right |-> flat[2 * k], attribute |-> pending[k].attribute] = pending[k]
    BY <1>6, <1>7
  <2>. QED  BY <1>8, <2>1
<1>10. pending = [k \in 1 .. n |-> pending[k]]
  BY DEF n
<1>. QED  BY <1>9, <1>10 DEF flat

----------------------------------------------------------------------------
(* What a script registers.                                                *)

\* A number that is no count, or too large, reads as unknown; an understated
\* one is at most the distinct values of any key.
LEMMA DegreeInSound ==
  ASSUME TypeOK, NEW rows \in RowLists, NEW list \in CountLists, NEW r \in Relation, NEW a \in JoinedBy(pending, r)
  PROVE  BoundsDegree(DegreeIn(rows, list, r), table[r], a)
<1>0. ToRowCount(rows[r]) = Rows(r)
  BY DEF RowLists
<1>. DEFINE t == table[r]
            n == Len(t)
            x == list[r]
            count == ToRowCount(x)
<1>1. n \in Nat /\ n <= n
  BY RowsType DEF TypeOK, Tables
<1>2. CASE r \notin DOMAIN list
  BY <1>0, <1>1, <1>2, CarriersFinite DEF DegreeIn, Unknown, Rows, BoundsDegree
<1>3. CASE r \in DOMAIN list
  <2>1. x \in Number /\ Understated(x, r)
    BY <1>3 DEF CountLists
  <2>2. x.halves \in Int
    BY <2>1, NumberAssumption
  <2>3. MaxU64 \in Nat
    BY BoundAssumption
  <2>. DEFINE h == x.halves
              c == Cardinality(DistinctValues(t, a))
  <2>4. count \in Nat /\ (count = 0 \/ (x.kind = "finite" /\ h >= 0 /\ count <= h \div 2))
    <3>. HIDE DEF x
    <3>1. CASE x.kind # "finite" \/ h < 0
      BY <3>1 DEF ToRowCount
    <3>2. CASE x.kind = "finite" /\ h >= 0
      <4>1. count = Capped(h \div 2)
        BY <2>2, <3>2 DEF ToRowCount
      <4>2. h \div 2 \in Nat
        BY <2>2, <3>2
      <4>. HIDE DEF count, h
      <4>3. count \in Nat /\ count <= h \div 2
        BY <2>3, <4>1, <4>2 DEF Capped
      <4>. QED  BY <3>2, <4>3
    <3>. QED  BY <2>2, <3>1, <3>2
  <2>5. x.kind # "finite" \/ count > n \/ h <= 2 * c
    BY <2>1 DEF Understated, Rows
  <2>6. c \in Nat
    <3>. DEFINE f == [i \in 1 .. n |-> t[i][a]]
                D == DistinctValues(t, a)
    <3>1. IsFiniteSet(1 .. n)
      BY <1>1, RowsFinite
    <3>2. f \in Surjection(1 .. n, D)
      <4>1. f \in [1 .. n -> D]
        BY DEF DistinctValues
      <4>2. \A w \in D : \E i \in 1 .. n : f[i] = w
        BY DEF DistinctValues
      <4>. QED  BY <4>1, <4>2, Fun_IsSurj
    <3>. QED  BY <3>1, <3>2, FS_Surjection, FS_CardinalityType
  <2>7. count <= c \/ count > n
    <3>. HIDE DEF count, h, c, n, x
    <3>. QED  BY <1>1, <2>2, <2>4, <2>5, <2>6 DEF h
  <2>8. count \in Nat
    BY <2>4
  <2>. HIDE DEF count, n, t, x, h
  <2>9. BoundsDegree(FromDistinct(n, count), t, a)
    BY <1>1, <2>7, <2>8, FromDistinctSound DEF n, c
  <2>10. DegreeIn(rows, list, r) = FromDistinct(n, count)
    BY <1>0, <1>3 DEF DegreeIn, Rows, n, t, count, x
  <2>. QED  BY <2>9, <2>10 DEF t
<1>. QED  BY <1>2, <1>3

LEMMA DegreeInType ==
  ASSUME TypeOK, NEW rows \in RowLists, NEW list \in CountLists, NEW r \in Relation
  PROVE  DegreeIn(rows, list, r) \in Nat
<1>0. ToRowCount(rows[r]) = Rows(r)
  BY DEF RowLists
<1>. DEFINE n == Len(table[r])
            count == ToRowCount(list[r])
<1>1. n \in Nat
  BY RowsType DEF TypeOK, Tables
<1>2. CASE r \notin DOMAIN list
  BY <1>0, <1>1, <1>2 DEF DegreeIn, Unknown, Rows
<1>3. CASE r \in DOMAIN list
  <2>1. list[r] \in Number
    BY <1>3 DEF CountLists
  <2>2. list[r].halves \in Int /\ MaxU64 \in Nat
    BY <2>1, NumberAssumption, BoundAssumption
  <2>3. count \in Nat
    <3>. DEFINE h == list[r].halves
    <3>1. h \in Int
      BY <2>2
    <3>2. h >= 0 => h \div 2 \in Nat
      <4>. HIDE DEF h
      <4>. QED  BY <3>1
    <3>3. count = 0 \/ (h >= 0 /\ count = Capped(h \div 2))
      BY <3>1 DEF ToRowCount
    <3>. HIDE DEF count, h
    <3>. QED  BY <2>2, <3>2, <3>3 DEF Capped
  <2>4. DegreeIn(rows, list, r) = FromDistinct(n, count)
    BY <1>0, <1>3 DEF DegreeIn, Rows
  <2>. HIDE DEF n, count
  <2>5. FromDistinct(n, count) \in Nat
    BY <1>1, <2>3 DEF FromDistinct, Unknown
  <2>. QED  BY <2>4, <2>5
<1>. QED  BY <1>2, <1>3

\* No edge is there before the relations are.
SInv == LInv /\ (built # Relation => edges = <<>>)

LEMMA DescribeStep ==
  ASSUME SInv, Undescribed, NEW degrees, Describe(pending, degrees),
         degrees = [r \in Relation |-> degrees[r]],
         \A r \in Relation : degrees[r] \in [Schema[r] -> Nat \cup {NoDegree}],
         \A r \in Relation : \A a \in Schema[r] :
           degrees[r][a] # NoDegree /\ a \in JoinedBy(pending, r) => BoundsDegree(degrees[r][a], table[r], a)
  PROVE  SInv'
<1>1. /\ pc = "build" /\ pc' = "build" /\ total' = total /\ table' = table /\ edges' = edges
      /\ pending' = pending /\ registered' = degrees /\ built' = Relation /\ built = {}
  BY DEF Undescribed, Describe, outer
<1>2. TypeOK'
  BY <1>1 DEF SInv, LInv, IInv, TypeOK, Describe, forest, outer, inner, tree
<1>3. Wired'
  BY <1>1 DEF SInv, LInv, IInv, Wired, Carried, ValidEdge
<1>4. Honest'
  <2>. SUFFICES ASSUME NEW r \in Relation, NEW a \in Schema[r], degrees[r][a] # NoDegree,
                       a \in JoinedBy(edges, r) \cup JoinedBy(pending, r)
                PROVE  BoundsDegree(degrees[r][a], table[r], a)
    BY <1>1 DEF Honest, BoundsDegree, Carriers, JoinedBy, ValidEdge
  <2>1. edges = <<>>
    BY <1>1 DEF SInv
  <2>2. JoinedBy(edges, r) = {}
    BY <2>1 DEF JoinedBy
  <2>. QED  BY <2>2
<1>. QED  BY <1>1, <1>2, <1>3, <1>4
          DEF SInv, LInv, IInv, TotalSound, ComponentSound, TreeBoundSound, CeilingSound, InComponent

\* What join_ceiling makes of the list it is given.
LEMMA ListedStep ==
  ASSUME SInv, Undescribed, NEW rows \in RowLists, NEW list \in CountLists, Describe(pending, Degrees(rows, list, pending))
  PROVE  SInv'
<1>. DEFINE named(r, a) == \E k \in 1 .. Len(pending) : pending[k].attribute = a /\ r \in {pending[k].left, pending[k].right}
            degrees == Degrees(rows, list, pending)
<1>1. degrees = [r \in Relation |-> [a \in Schema[r] |-> IF named(r, a) THEN DegreeIn(rows, list, r) ELSE NoDegree]]
  BY DEF Degrees
<1>2. TypeOK
  BY DEF SInv, LInv, IInv
<1>3. \A r \in Relation : DegreeIn(rows, list, r) \in Nat
  BY <1>2, DegreeInType
<1>. HIDE DEF named, degrees
<1>4. degrees = [r \in Relation |-> degrees[r]]
  BY <1>1
<1>5. \A r \in Relation : degrees[r] \in [Schema[r] -> Nat \cup {NoDegree}]
  BY <1>1, <1>3
<1>6. ASSUME NEW r \in Relation, NEW a \in Schema[r], degrees[r][a] # NoDegree, a \in JoinedBy(pending, r)
      PROVE  BoundsDegree(degrees[r][a], table[r], a)
  <2>1. degrees[r][a] = DegreeIn(rows, list, r)
    BY <1>1, <1>6
  <2>2. BoundsDegree(DegreeIn(rows, list, r), table[r], a)
    BY <1>2, <1>6, DegreeInSound
  <2>. QED  BY <2>1, <2>2, Zenon
<1>7. Describe(pending, degrees)
  BY DEF degrees
<1>. QED  BY <1>4, <1>5, <1>6, <1>7, DescribeStep

LEMMA ScriptStep ==
  ASSUME SInv, ScriptNext
  PROVE  SInv'
<1>1. CASE PythonJoinCeiling
  <2>1. CASE \E rows \in RowLists, list \in CountLists : Describe(pending, Degrees(rows, list, pending))
    BY <1>1, <2>1, ListedStep DEF PythonJoinCeiling
  <2>2. CASE Describe(pending, [r \in Relation |-> [a \in Schema[r] |-> NoDegree]])
    <3>. DEFINE degrees == [r \in Relation |-> [a \in Schema[r] |-> NoDegree]]
    <3>1. /\ degrees = [r \in Relation |-> degrees[r]]
          /\ \A r \in Relation : degrees[r] \in [Schema[r] -> Nat \cup {NoDegree}]
          /\ \A r \in Relation : \A a \in Schema[r] : degrees[r][a] = NoDegree
      OBVIOUS
    <3>2. Describe(pending, degrees) /\ Undescribed
      BY <1>1, <2>2 DEF PythonJoinCeiling
    <3>. HIDE DEF degrees
    <3>. QED  BY <3>1, <3>2, DescribeStep
  <2>. QED  BY <1>1, <2>1, <2>2 DEF PythonJoinCeiling
<1>2. CASE WasmJoinCeiling
  <2>1. PICK rows \in RowLists, list \in CountLists, rest \in OddEnd :
          Describe(Paired(Flattened \o rest), Degrees(rows, list, Paired(Flattened \o rest)))
    BY <1>2 DEF WasmJoinCeiling
  <2>2. Paired(Flattened \o rest) = pending
    BY PairsArrive DEF SInv, LInv, IInv, TypeOK
  <2>3. Describe(pending, Degrees(rows, list, pending)) /\ Undescribed
    BY <1>2, <2>1, <2>2, Zenon DEF WasmJoinCeiling
  <2>. QED  BY <2>3, ListedStep
<1>3. CASE PythonProduct
  <2>1. Fixed /\ built' = built /\ (pc' = "fold" \/ (pc' = "done" /\ Relation = {})) /\ best' = 1 /\ visited' = {}
    BY <1>3 DEF PythonProduct, Fixed, inputs, graph
  <2>2. LInv /\ IInv
    BY DEF SInv, LInv
  <2>3. TypeOK'
    BY <1>3, <2>1, <2>2 DEF IInv, TypeOK, PythonProduct, inputs, graph, forest, outer
  <2>4. Bounds(1, {})
    BY JoinOfNone DEF Bounds
  <2>5. Bounds(best, visited)'
    BY <2>1, <2>4 DEF Bounds, Join, Fixed
  <2>6. LInv'
    BY <2>1, <2>2, <2>3, <2>5, FixedKeeps
       DEF LInv, IInv, TotalSound, ComponentSound, TreeBoundSound, CeilingSound, InComponent
  <2>. QED  BY <2>1, <2>6 DEF SInv, Fixed
<1>. QED  BY <1>1, <1>2, <1>3 DEF ScriptNext

LEMMA SInvInit == Init => SInv
BY LInvInit DEF SInv, Init

LEMMA SInvStep ==
  ASSUME EveryKey, SInv, [LegacyNext \/ ScriptNext]_vars
  PROVE  SInv'
<1>1. CASE ScriptNext
  BY <1>1, ScriptStep
<1>2. CASE [LegacyNext]_vars
  <2>1. LInv'
    BY <1>2, LInvStep DEF SInv
  <2>2. built' # Relation => edges' = <<>>
    <3>1. CASE UNCHANGED vars
      BY <3>1 DEF SInv, vars, inputs, graph
    <3>2. ASSUME NEW r \in Relation, AddRelation(r) PROVE built' # Relation => edges' = <<>>
      <4>1. built' = built \cup {r} /\ edges' = edges /\ built \subseteq Relation
        BY <3>2 DEF AddRelation, graph, SInv, LInv, IInv, TypeOK
      <4>. QED  BY <4>1 DEF SInv
    <3>3. CASE WithEdge
      BY <3>3 DEF WithEdge, inputs
    <3>4. CASE DegreeGraph
      BY <3>4 DEF DegreeGraph
    <3>5. CASE \/ CallCeiling \/ Union \/ Group \/ NextComponent \/ MultiplyRows \/ TryRoots \/ PlantTree
               \/ Attach \/ FinishTree \/ MultiplyComponent \/ Return \/ CallProduct \/ FoldRows \/ ReturnProduct
      BY <3>5 DEF SInv, CallCeiling, Union, Group, NextComponent, MultiplyRows, TryRoots, PlantTree, Attach, FinishTree,
                  MultiplyComponent, Return, CallProduct, FoldRows, ReturnProduct, inputs, graph
    <3>. QED  BY <1>2, <3>1, <3>2, <3>3, <3>4, <3>5 DEF LegacyNext, Next
  <2>. QED  BY <2>1, <2>2 DEF SInv
<1>. QED  BY <1>1, <1>2

\* Whatever numbers a script hands over, as long as its row numbers read as
\* the rows of the tables and none overstates the distinct values of a key,
\* and however short or long its list of distinct counts is, Python's and
\* JavaScript's join_ceiling and product_bound return a ceiling of the join,
\* beside every integer bound of the crate.
THEOREM ScriptsAreSound ==
  ASSUME EveryKey
  PROVE  ScriptSpec => []CeilingSound
<1>1. Init => SInv
  BY SInvInit
<1>2. SInv /\ [LegacyNext \/ ScriptNext]_vars => SInv'
  BY SInvStep
<1>3. SInv => CeilingSound
  BY DEF SInv, LInv, IInv
<1>. QED  BY <1>1, <1>2, <1>3, PTL DEF ScriptSpec

\* A script's call is invisible to the promise until it asks for the answer.
LEMMA ScriptRefines ==
  ASSUME SInv, SInv', [LegacyNext \/ ScriptNext]_vars
  PROVE  [Promise!Next]_Promise!vars
<1>0. LInv /\ LInv'
  BY DEF SInv
<1>1. CASE [LegacyNext]_vars
  BY <1>0, <1>1, PromiseStep
<1>2. CASE ScriptNext
  <2>1. pc = "build" /\ result' = result
    BY <1>2 DEF ScriptNext, PythonJoinCeiling, WasmJoinCeiling, PythonProduct, Undescribed, Described, Describe
  <2>2. pc' \in {"build", "fold"} \/ (pc' = "done" /\ Relation = {})
    BY <1>2 DEF ScriptNext, PythonJoinCeiling, WasmJoinCeiling, PythonProduct, Undescribed, Described, Describe
  <2>3. Cardinality(Join(Relation))' \in Nat /\ result \in Nat
    BY <1>0, SizeTypeNext DEF LInv, IInv, TypeOK
  <2>4. CASE pc' = "build"
    BY <2>1, <2>4 DEF Promise!vars, Status
  <2>5. CASE pc' = "fold"
    BY <2>1, <2>3, <2>5 DEF Promise!Next, Promise!Call, Status
  <2>6. CASE pc' = "done" /\ Relation = {}
    BY <2>1, <2>3, <2>6 DEF Promise!Next, Promise!AnswerAtOnce, Status
  <2>. QED  BY <2>2, <2>4, <2>5, <2>6
<1>. QED  BY <1>1, <1>2

\* The bindings implement the trait's promise too, step by step.
THEOREM ScriptsKeepPromise ==
  ASSUME EveryKey
  PROVE  ScriptSpec => KeepsPromise
<1>1. Init => SInv
  BY SInvInit
<1>2. SInv /\ [LegacyNext \/ ScriptNext]_vars => SInv'
  BY SInvStep
<1>3. Init => Promise!Init
  BY DEF Init, Promise!Init, Status
<1>4. SInv /\ SInv' /\ [LegacyNext \/ ScriptNext]_vars => [Promise!Next]_Promise!vars
  BY ScriptRefines
<1>. QED  BY <1>1, <1>2, <1>3, <1>4, PTL DEF ScriptSpec, KeepsPromise, Promise!Spec

============================================================================
