------------------------- MODULE PreJoinRuleProofs -------------------------
(***************************************************************************)
(* Whatever plans, estimates and answers of a corrector there are, and     *)
(* however many planners share the rule: what a plan publishes stays       *)
(* between DataFusion's own statistics and what the inputs, the operator   *)
(* and the sanity cap allow, a derived ceiling never removes a correct     *)
(* correction, and the counters agree with the plans.                      *)
(***************************************************************************)
EXTENDS PreJoinRule, WellFoundedInduction, SequenceTheorems, FiniteSetTheorems, TLAPS

----------------------------------------------------------------------------
(* Induction.                                                              *)

\* A set of naturals has a smallest element.
LEMMA LeastExists ==
  ASSUME NEW T \in SUBSET Nat, T # {}
  PROVE  \E x \in T : \A y \in T : x <= y
<1>1. PICK x \in T : \A y \in T : ~ (<<y, x>> \in OpToRel(<, Nat))
  BY NatLessThanWellFounded, WFMin
<1>2. \A y \in T : x <= y
  <2>. SUFFICES ASSUME NEW y \in T PROVE x <= y
    OBVIOUS
  <2>1. ~(y < x)
    BY <1>1 DEF OpToRel
  <2>. QED  BY <2>1
<1>. QED  BY <1>2

LEMMA Heights ==
  /\ Cardinality(Node) \in Nat
  /\ \A n \in Node : Height[n] \in Nat /\ Height[n] <= Cardinality(Node)
  /\ \A n \in Node : \A k \in DOMAIN Inputs[n] :
       Inputs[n][k] \in Node /\ Height[Inputs[n][k]] < Height[n]
<1>1. Cardinality(Node) \in Nat
  BY FS_CardinalityType, PlanAssumption
<1>2. \A n \in Node : \A k \in DOMAIN Inputs[n] : Inputs[n][k] \in Node
  BY PlanAssumption
<1>. QED  BY <1>1, <1>2, PlanAssumption

\* What holds of a node whenever it holds of its inputs holds of all.
LEMMA FromTheLeaves ==
  ASSUME NEW S \in SUBSET Node,
         \A n \in Node : (\A k \in DOMAIN Inputs[n] : Inputs[n][k] \in S) => n \in S
  PROVE  S = Node
<1>. DEFINE T == {Height[n] : n \in Node \ S}
<1>. SUFFICES ASSUME S # Node PROVE FALSE
  OBVIOUS
<1>1. T \in SUBSET Nat /\ T # {}
  BY Heights
<1>2. PICK h \in T : \A y \in T : h <= y
  BY <1>1, LeastExists
<1>3. PICK n \in Node \ S : h = Height[n]
  BY <1>2
<1>4. PICK k \in DOMAIN Inputs[n] : Inputs[n][k] \notin S
  BY <1>3
<1>5. Inputs[n][k] \in Node \ S /\ Height[Inputs[n][k]] < Height[n]
  BY <1>3, <1>4, Heights
<1>6. Height[Inputs[n][k]] \in T
  BY <1>5
<1>7. h <= Height[Inputs[n][k]]
  BY <1>2, <1>6
<1>8. Height[n] \in Nat /\ Height[Inputs[n][k]] \in Nat
  BY <1>5, Heights
<1>. QED  BY <1>3, <1>5, <1>7, <1>8

----------------------------------------------------------------------------
(* Statistics of a plan.                                                   *)

\* The nodes lower than h publish something.
Defined(w, h) ==
  \E f : f = [n \in {m \in Node : Height[m] < h} |-> RowsOf(w, f, n)]

\* What a node publishes depends on what its inputs do.
LEMMA RowsOfInputs ==
  ASSUME NEW f, NEW g, NEW n \in Node,
         \A k \in DOMAIN Inputs[n] : f[Inputs[n][k]] = g[Inputs[n][k]]
  PROVE  EngineRows(f, n) = EngineRows(g, n) /\ \A w : RowsOf(w, f, n) = RowsOf(w, g, n)
<1>1. [k \in DOMAIN Inputs[n] |-> f[Inputs[n][k]]] = [k \in DOMAIN Inputs[n] |-> g[Inputs[n][k]]]
  OBVIOUS
<1>2. EngineRows(f, n) = EngineRows(g, n)
  BY <1>1 DEF EngineRows
<1>. QED  BY <1>2 DEF RowsOf

LEMMA DefinedHigher ==
  ASSUME NEW w, NEW h \in Nat, Defined(w, h)
  PROVE  Defined(w, h + 1)
<1>. DEFINE Lower == {m \in Node : Height[m] < h}
            Low == {m \in Node : Height[m] < h + 1}
<1>1. PICK f : f = [n \in Lower |-> RowsOf(w, f, n)]
  BY DEF Defined
<1>. DEFINE g == [n \in Low |-> RowsOf(w, f, n)]
<1>2. ASSUME NEW n \in Low PROVE RowsOf(w, f, n) = RowsOf(w, g, n)
  <2>1. ASSUME NEW k \in DOMAIN Inputs[n] PROVE f[Inputs[n][k]] = g[Inputs[n][k]]
    <3>. DEFINE m == Inputs[n][k]
    <3>1. m \in Lower /\ m \in Low
      BY Heights
    <3>2. f[m] = RowsOf(w, f, m)
      BY <1>1, <3>1
    <3>3. g[m] = RowsOf(w, f, m)
      BY <3>1
    <3>. QED  BY <3>2, <3>3
  <2>2. n \in Node
    OBVIOUS
  <2>. HIDE DEF g, Low
  <2>. QED  BY <2>1, <2>2, RowsOfInputs
<1>3. g = [n \in Low |-> RowsOf(w, g, n)]
  <2>. HIDE DEF Low
  <2>. QED  BY <1>2
<1>. HIDE DEF g
<1>. QED  BY <1>3 DEF Defined

\* A plan's statistics are those of its nodes, each made of its inputs'.
LEMMA Published ==
  ASSUME NEW w
  PROVE  PublishedRows(w) = [n \in Node |-> RowsOf(w, PublishedRows(w), n)]
<1>1. \A h \in Nat : Defined(w, h)
  <2>. DEFINE T == {h \in Nat : ~ Defined(w, h)}
  <2>. SUFFICES ASSUME T # {} PROVE FALSE
    OBVIOUS
  <2>1. PICK h \in T : \A y \in T : h <= y
    BY LeastExists
  <2>2. h # 0
    <3>. DEFINE f == [n \in {} |-> 0]
    <3>1. {m \in Node : Height[m] < 0} = {}
      BY Heights
    <3>2. f = [n \in {m \in Node : Height[m] < 0} |-> RowsOf(w, f, n)]
      BY <3>1
    <3>. QED  BY <2>1, <3>2 DEF Defined
  <2>3. h - 1 \in Nat /\ h - 1 \notin T
    BY <2>1, <2>2
  <2>4. Defined(w, (h - 1) + 1)
    BY <2>3, DefinedHigher
  <2>. QED  BY <2>1, <2>2, <2>4
<1>2. {m \in Node : Height[m] < Cardinality(Node) + 1} = Node
  BY Heights
<1>3. \E f : f = [n \in Node |-> RowsOf(w, f, n)]
  BY <1>1, <1>2, Heights DEF Defined
<1>. QED  BY <1>3 DEF PublishedRows

\* The statistics a plan may have: its own or those of its wrappers.
Wrappings == [Node -> [rows : RowCount, bytes : RowCount]]

LEMMA RowsTyped ==
  ASSUME NEW w \in Wrappings, NEW f, NEW n \in Node,
         \A k \in DOMAIN Inputs[n] : f[Inputs[n][k]] \in RowCount
  PROVE  EngineRows(f, n) \in RowCount /\ RowsOf(w, f, n) \in RowCount
<1>1. CASE Kind[n] = "scan"
  BY <1>1, StatisticsAssumption DEF RowsOf, EngineRows, Wrappings
<1>2. CASE Kind[n] # "scan"
  <2>. DEFINE rows == [k \in DOMAIN Inputs[n] |-> f[Inputs[n][k]]]
  <2>1. rows \in [DOMAIN Inputs[n] -> RowCount]
    OBVIOUS
  <2>2. Estimate(n, rows) \in RowCount
    BY <2>1, EstimateAssumption
  <2>3. EngineRows(f, n) \in RowCount
    BY <1>2, <2>2 DEF EngineRows
  <2>. QED  BY <2>3 DEF RowsOf, Wrappings
<1>. QED  BY <1>1, <1>2

\* Published row counts are row counts.
LEMMA PublishedTyped ==
  ASSUME NEW w \in Wrappings
  PROVE  PublishedRows(w) \in [Node -> RowCount]
<1>. DEFINE rows == PublishedRows(w)
            S == {n \in Node : rows[n] \in RowCount}
<1>1. rows = [n \in Node |-> RowsOf(w, rows, n)]
  BY Published
<1>2. ASSUME NEW n \in Node, \A k \in DOMAIN Inputs[n] : Inputs[n][k] \in S PROVE n \in S
  <2>1. \A k \in DOMAIN Inputs[n] : rows[Inputs[n][k]] \in RowCount
    BY <1>2
  <2>2. RowsOf(w, rows, n) \in RowCount
    BY <2>1, RowsTyped
  <2>3. rows[n] = RowsOf(w, rows, n)
    BY <1>1
  <2>. QED  BY <2>2, <2>3
<1>3. S = Node
  <2>. HIDE DEF S
  <2>1. S \in SUBSET Node
    BY DEF S
  <2>. QED  BY <1>2, <2>1, FromTheLeaves
<1>4. \A n \in Node : rows[n] \in RowCount
  BY <1>3
<1>5. rows = [n \in Node |-> rows[n]]
  BY <1>1
<1>6. rows \in [Node -> RowCount]
  <2>. HIDE DEF rows
  <2>. QED  BY <1>4, <1>5
<1>. QED  BY <1>6

----------------------------------------------------------------------------
(* What is below a node.                                                   *)

LEMMA Itself ==
  ASSUME NEW n \in Node
  PROVE  n \in Under(n)
BY DEF Under

LEMMA InputsUnder ==
  ASSUME NEW n \in Node, NEW m \in Under(n), NEW k \in DOMAIN Inputs[m]
  PROVE  Inputs[m][k] \in Under(n)
<1>1. m \in Node /\ Inputs[m][k] \in Node
  BY Heights DEF Under
<1>. QED  BY <1>1 DEF Under

\* No node is below one of its inputs.
LEMMA NotUnderInput ==
  ASSUME NEW n \in Node, NEW k \in DOMAIN Inputs[n]
  PROVE  n \notin Under(Inputs[n][k])
<1>. DEFINE S == {m \in Node : Height[m] < Height[n]}
<1>1. Inputs[n][k] \in S /\ n \notin S
  BY Heights
<1>2. \A m \in S : \A j \in DOMAIN Inputs[m] : Inputs[m][j] \in S
  <2>. SUFFICES ASSUME NEW m \in S, NEW j \in DOMAIN Inputs[m] PROVE Inputs[m][j] \in S
    OBVIOUS
  <2>1. Height[Inputs[m][j]] \in Nat /\ Height[m] \in Nat /\ Height[n] \in Nat
    BY Heights
  <2>. QED  BY <2>1, Heights
<1>3. S \in SUBSET Node
  OBVIOUS
<1>. HIDE DEF S
<1>. QED  BY <1>1, <1>2, <1>3 DEF Under

\* What is below an input is below the node.
LEMMA FurtherBelow ==
  ASSUME NEW n \in Node, NEW k \in DOMAIN Inputs[n], NEW x \in Under(Inputs[n][k])
  PROVE  x \in Under(n)
<1>1. x \in Node
  BY DEF Under
<1>2. ASSUME NEW S \in SUBSET Node, n \in S, \A y \in S : \A j \in DOMAIN Inputs[y] : Inputs[y][j] \in S
      PROVE  x \in S
  BY <1>2 DEF Under
<1>. QED  BY <1>1, <1>2 DEF Under

\* Wrapping a node changes nothing about those it is not below.
LEMMA Elsewhere ==
  ASSUME NEW w, NEW v, NEW n \in Node, NEW m \in Node, n \notin Under(m),
         \A x \in Node \ {n} : w[x] = v[x]
  PROVE  \A x \in Under(m) : PublishedRows(w)[x] = PublishedRows(v)[x]
<1>. DEFINE rows == PublishedRows(w)
            others == PublishedRows(v)
            S == {x \in Node : x \in Under(m) => rows[x] = others[x]}
<1>1. \A x \in Node : rows[x] = RowsOf(w, rows, x) /\ others[x] = RowsOf(v, others, x)
  <2>1. rows = [x \in Node |-> RowsOf(w, rows, x)]
    BY Published
  <2>2. others = [x \in Node |-> RowsOf(v, others, x)]
    BY Published
  <2>. HIDE DEF rows, others
  <2>. QED  BY <2>1, <2>2
<1>2. ASSUME NEW x \in Node, \A k \in DOMAIN Inputs[x] : Inputs[x][k] \in S PROVE x \in S
  <2>. SUFFICES ASSUME x \in Under(m) PROVE rows[x] = others[x]
    OBVIOUS
  <2>1. \A k \in DOMAIN Inputs[x] : rows[Inputs[x][k]] = others[Inputs[x][k]]
    BY <1>2, InputsUnder
  <2>2. RowsOf(w, rows, x) = RowsOf(w, others, x)
    BY <2>1, RowsOfInputs
  <2>3. w[x] = v[x]
    OBVIOUS
  <2>4. RowsOf(w, others, x) = RowsOf(v, others, x)
    BY <2>3 DEF RowsOf
  <2>. QED  BY <1>1, <2>2, <2>4
<1>3. S = Node
  <2>1. S \in SUBSET Node
    OBVIOUS
  <2>. HIDE DEF S
  <2>. QED  BY <1>2, <2>1, FromTheLeaves
<1>4. Under(m) \subseteq Node
  BY DEF Under
<1>. QED  BY <1>3, <1>4

\* What DataFusion says of a node does not change when one that is not below
\* it, or the node itself, is wrapped.
LEMMA EngineElsewhere ==
  ASSUME NEW w, NEW v, NEW n \in Node, NEW m \in Node, n = m \/ n \notin Under(m),
         \A x \in Node \ {n} : w[x] = v[x]
  PROVE  EngineRows(PublishedRows(w), m) = EngineRows(PublishedRows(v), m)
<1>1. ASSUME NEW k \in DOMAIN Inputs[m] PROVE PublishedRows(w)[Inputs[m][k]] = PublishedRows(v)[Inputs[m][k]]
  <2>1. Inputs[m][k] \in Node /\ Inputs[m][k] \in Under(Inputs[m][k])
    BY Heights, Itself
  <2>2. n \notin Under(Inputs[m][k])
    <3>1. CASE n = m
      BY <2>1, <3>1, NotUnderInput
    <3>2. CASE n \notin Under(m)
      BY <3>2, FurtherBelow
    <3>. QED  BY <3>1, <3>2
  <2>. QED  BY <2>1, <2>2, Elsewhere
<1>. QED  BY <1>1, RowsOfInputs

----------------------------------------------------------------------------
(* Ceilings and sizes.                                                     *)

LEMMA ProductMonotone ==
  ASSUME NEW a \in Nat, NEW b \in Nat, NEW c \in Nat, NEW d \in Nat, a <= b, c <= d
  PROVE  a * c \in Nat /\ b * d \in Nat /\ a * c <= b * d
<1>1. b * d = a * c + (b - a) * c + b * (d - c)
  BY Z3
<1>2. (b - a) * c >= 0 /\ b * (d - c) >= 0 /\ a * c >= 0
  BY Z3
<1>. QED  BY <1>1, <1>2, Z3

\* A size scaled by at least one does not shrink.
LEMMA ScaledUp ==
  ASSUME NEW bytes \in Nat, NEW native \in Nat \ {0}, NEW rows \in Nat, rows >= native
  PROVE  (bytes * rows + native - 1) \div native \in Nat /\ (bytes * rows + native - 1) \div native >= bytes
<1>. DEFINE a == bytes * rows + native - 1
            q == a \div native
<1>1. bytes * native \in Nat /\ bytes * rows \in Nat /\ bytes * native <= bytes * rows
  BY ProductMonotone
<1>2. a \in Nat /\ a >= bytes * native
  BY <1>1
<1>3. q \in Int /\ q * native <= a /\ a < (q + 1) * native
  <2>. HIDE DEF a
  <2>. QED  BY <1>2, Z3
<1>4. q >= bytes
  <2>. HIDE DEF a, q
  <2>. SUFFICES ASSUME q < bytes PROVE FALSE
    BY <1>3
  <2>1. q + 1 <= bytes
    BY <1>3
  <2>2. (q + 1) * native <= bytes * native
    <3>1. bytes * native - (q + 1) * native = (bytes - (q + 1)) * native
      BY <1>3, Z3
    <3>2. (bytes - (q + 1)) * native >= 0
      BY <1>3, <2>1, Z3
    <3>3. (q + 1) * native \in Int
      BY <1>3
    <3>. QED  BY <1>1, <3>1, <3>2, <3>3
  <2>3. (q + 1) * native \in Int
    BY <1>3
  <2>. QED  BY <1>1, <1>2, <1>3, <2>2, <2>3
<1>. HIDE DEF a, q
<1>5. q \in Nat
  BY <1>3, <1>4
<1>. QED  BY <1>4, <1>5 DEF a, q

\* The inputs of a node a ceiling is claimed of.
LEMMA ClaimedInputs ==
  ASSUME NEW w \in Wrappings, NEW n \in Node, ~ Unclaimed(w, n)
  PROVE  /\ w[n] = Unwrapped
         /\ IsJoin(n) =>
              /\ DOMAIN Inputs[n] = {1, 2}
              /\ PublishedRows(w)[Inputs[n][1]] \in 0 .. MaxU64
              /\ PublishedRows(w)[Inputs[n][2]] \in 0 .. MaxU64
         /\ ~ IsJoin(n) =>
              /\ Kind[n] = "filter" /\ DOMAIN Inputs[n] = {1}
              /\ PublishedRows(w)[Inputs[n][1]] \in 0 .. MaxU64
<1>1. \A k \in DOMAIN Inputs[n] : PublishedRows(w)[Inputs[n][k]] \in 0 .. MaxU64
  <2>. SUFFICES ASSUME NEW k \in DOMAIN Inputs[n] PROVE PublishedRows(w)[Inputs[n][k]] \in 0 .. MaxU64
    OBVIOUS
  <2>1. PublishedRows(w)[Inputs[n][k]] \in RowCount
    BY PublishedTyped, Heights
  <2>. QED  BY <2>1 DEF Unclaimed, RowCount
<1>2. Inputs[n] \in Seq(Node)
  BY PlanAssumption
<1>3. IsJoin(n) => DOMAIN Inputs[n] = {1, 2}
  <2>1. IsJoin(n) => DOMAIN Inputs[n] = 1 .. 2
    BY <1>2, LenProperties, PlanAssumption
  <2>2. 1 .. 2 = {1, 2}
    OBVIOUS
  <2>. QED  BY <2>1, <2>2
<1>4. Kind[n] = "filter" => DOMAIN Inputs[n] = {1}
  <2>1. Kind[n] = "filter" => DOMAIN Inputs[n] = 1 .. 1
    BY <1>2, LenProperties, PlanAssumption
  <2>2. 1 .. 1 = {1}
    OBVIOUS
  <2>. QED  BY <2>1, <2>2
<1>. QED  BY <1>1, <1>3, <1>4 DEF Unclaimed

LEMMA DerivedTyped ==
  ASSUME NEW w \in Wrappings, NEW n \in Node
  PROVE  DerivedCeiling(w, n) \in 0 .. MaxU64
<1>1. CASE Unclaimed(w, n)
  BY <1>1, StatisticsAssumption DEF DerivedCeiling
<1>2. CASE ~ Unclaimed(w, n) /\ IsJoin(n)
  <2>1. PublishedRows(w)[Inputs[n][1]] \in Nat /\ PublishedRows(w)[Inputs[n][2]] \in Nat
    BY <1>2, ClaimedInputs
  <2>2. PublishedRows(w)[Inputs[n][1]] * PublishedRows(w)[Inputs[n][2]] \in Nat
    BY <2>1, ProductMonotone
  <2>. QED  BY <1>2, <2>2, StatisticsAssumption DEF DerivedCeiling, Min2
<1>3. CASE ~ Unclaimed(w, n) /\ ~ IsJoin(n)
  BY <1>3, ClaimedInputs DEF DerivedCeiling
<1>. QED  BY <1>1, <1>2, <1>3

\* Over honest inputs, a derived ceiling is one.
LEMMA DerivedIsCeiling ==
  ASSUME NEW w \in Wrappings, NEW n \in Node, Kind[n] # "full", ChildrenHonest(w, n)
  PROVE  DerivedCeiling(w, n) >= Min2(MaxU64, TrueRows[n])
<1>. DEFINE in(k) == PublishedRows(w)[Inputs[n][k]]
<1>0. TrueRows[n] \in Nat /\ \A k \in DOMAIN Inputs[n] : TrueRows[Inputs[n][k]] \in Nat
  BY Heights, StatisticsAssumption
<1>1. CASE Unclaimed(w, n)
  BY <1>0, <1>1, StatisticsAssumption DEF DerivedCeiling, Min2
<1>2. CASE ~ Unclaimed(w, n) /\ IsJoin(n)
  <2>1. DOMAIN Inputs[n] = {1, 2} /\ in(1) \in 0 .. MaxU64 /\ in(2) \in 0 .. MaxU64
    BY <1>2, ClaimedInputs
  <2>2. in(1) >= TrueRows[Inputs[n][1]] /\ in(2) >= TrueRows[Inputs[n][2]]
    <3>1. in(1) # Absent /\ in(2) # Absent
      BY <2>1, StatisticsAssumption DEF Absent
    <3>. QED  BY <2>1, <3>1 DEF ChildrenHonest
  <2>3. TrueRows[n] <= TrueRows[Inputs[n][1]] * TrueRows[Inputs[n][2]]
    BY <1>2, TruthAssumption DEF IsJoin
  <2>. HIDE DEF in
  <2>4. /\ TrueRows[Inputs[n][1]] * TrueRows[Inputs[n][2]] \in Nat
        /\ in(1) * in(2) \in Nat
        /\ TrueRows[Inputs[n][1]] * TrueRows[Inputs[n][2]] <= in(1) * in(2)
    BY <1>0, <2>1, <2>2, StatisticsAssumption, ProductMonotone
  <2>5. DerivedCeiling(w, n) = Min2(MaxU64, in(1) * in(2))
    BY <1>2 DEF DerivedCeiling, in
  <2>. QED  BY <1>0, <2>3, <2>4, <2>5, StatisticsAssumption DEF Min2
<1>3. CASE ~ Unclaimed(w, n) /\ ~ IsJoin(n)
  <2>1. Kind[n] = "filter" /\ DOMAIN Inputs[n] = {1} /\ in(1) \in 0 .. MaxU64
    BY <1>3, ClaimedInputs
  <2>2. in(1) >= TrueRows[Inputs[n][1]]
    <3>1. in(1) # Absent
      BY <2>1, StatisticsAssumption DEF Absent
    <3>. QED  BY <2>1, <3>1 DEF ChildrenHonest
  <2>3. TrueRows[n] <= TrueRows[Inputs[n][1]]
    BY <2>1, TruthAssumption
  <2>4. DerivedCeiling(w, n) = in(1)
    BY <1>3 DEF DerivedCeiling
  <2>. HIDE DEF in
  <2>. QED  BY <1>0, <2>1, <2>2, <2>3, <2>4, StatisticsAssumption DEF Min2
<1>. QED  BY <1>1, <1>2, <1>3

\* A ceiling derived for m does not change when a node that is not below it
\* is wrapped.
LEMMA DerivedElsewhere ==
  ASSUME NEW w, NEW v, NEW n \in Node, NEW m \in Node, n \notin Under(m),
         \A x \in Node \ {n} : w[x] = v[x]
  PROVE  DerivedCeiling(w, m) = DerivedCeiling(v, m)
<1>1. m \in Under(m) /\ n # m
  BY Itself
<1>2. \A k \in DOMAIN Inputs[m] : PublishedRows(w)[Inputs[m][k]] = PublishedRows(v)[Inputs[m][k]]
  BY <1>1, InputsUnder, Elsewhere
<1>3. w[m] = v[m]
  BY <1>1
<1>4. Unclaimed(w, m) <=> Unclaimed(v, m)
  BY <1>2, <1>3 DEF Unclaimed
<1>5. CASE Unclaimed(w, m)
  BY <1>4, <1>5 DEF DerivedCeiling
<1>6. CASE ~ Unclaimed(w, m)
  <2>1. IsJoin(m) => 1 \in DOMAIN Inputs[m] /\ 2 \in DOMAIN Inputs[m]
    BY PlanAssumption
  <2>2. ~ IsJoin(m) => 1 \in DOMAIN Inputs[m]
    BY <1>6, PlanAssumption DEF Unclaimed
  <2>. QED  BY <1>2, <1>4, <1>6, <2>1, <2>2 DEF DerivedCeiling
<1>. QED  BY <1>5, <1>6

----------------------------------------------------------------------------
(* Installing the rule.                                                    *)

\* What is retained of the first i rules, given what is of fewer.
KeptOf(rules, f, i) ==
  IF i = 0 THEN <<>>
  ELSE IF rules[i] = RuleName THEN f[i - 1]
  ELSE Append(f[i - 1], rules[i])

KeptUpTo(rules, i) == \E f : f = [j \in 0 .. i |-> KeptOf(rules, f, j)]

LEMMA KeptFurther ==
  ASSUME NEW rules, NEW i \in Nat, KeptUpTo(rules, i)
  PROVE  KeptUpTo(rules, i + 1)
<1>1. PICK f : f = [j \in 0 .. i |-> KeptOf(rules, f, j)]
  BY DEF KeptUpTo
<1>. DEFINE g == [j \in 0 .. i + 1 |-> KeptOf(rules, f, j)]
<1>2. ASSUME NEW j \in 0 .. i + 1 PROVE KeptOf(rules, f, j) = KeptOf(rules, g, j)
  <2>1. CASE j = 0
    BY <2>1 DEF KeptOf
  <2>2. CASE j # 0
    <3>1. j - 1 \in 0 .. i /\ j - 1 \in 0 .. i + 1
      BY <2>2
    <3>2. f[j - 1] = KeptOf(rules, f, j - 1)
      BY <1>1, <3>1
    <3>3. g[j - 1] = KeptOf(rules, f, j - 1)
      BY <3>1
    <3>. HIDE DEF g
    <3>. QED  BY <3>2, <3>3 DEF KeptOf
  <2>. QED  BY <2>1, <2>2
<1>3. g = [j \in 0 .. i + 1 |-> KeptOf(rules, g, j)]
  BY <1>2
<1>. HIDE DEF g
<1>. QED  BY <1>3 DEF KeptUpTo

\* The retained rules are the others.
LEMMA OthersRetained ==
  ASSUME NEW N, NEW rules \in Seq(N)
  PROVE  Retained(rules) \in Seq(N \ {RuleName})
<1>0. Len(rules) \in Nat /\ \A i \in 1 .. Len(rules) : rules[i] \in N
  BY ElementOfSeq, LenProperties
<1>1. \A i \in Nat : KeptUpTo(rules, i)
  <2>. DEFINE T == {i \in Nat : ~ KeptUpTo(rules, i)}
  <2>. SUFFICES ASSUME T # {} PROVE FALSE
    OBVIOUS
  <2>1. PICK i \in T : \A y \in T : i <= y
    BY LeastExists
  <2>2. i # 0
    <3>. DEFINE f == [j \in 0 .. 0 |-> <<>>]
    <3>1. f = [j \in 0 .. 0 |-> KeptOf(rules, f, j)]
      BY DEF KeptOf
    <3>. HIDE DEF f
    <3>. QED  BY <2>1, <3>1 DEF KeptUpTo
  <2>3. i - 1 \in Nat /\ i - 1 \notin T
    BY <2>1, <2>2
  <2>4. KeptUpTo(rules, (i - 1) + 1)
    BY <2>3, KeptFurther
  <2>. QED  BY <2>1, <2>2, <2>4
<1>. DEFINE kept == CHOOSE f : f = [j \in 0 .. Len(rules) |-> KeptOf(rules, f, j)]
<1>2. kept = [j \in 0 .. Len(rules) |-> KeptOf(rules, kept, j)]
  BY <1>0, <1>1 DEF KeptUpTo
<1>3. Retained(rules) = kept[Len(rules)]
  BY DEF Retained, KeptOf
<1>. HIDE DEF kept
<1>4. \A i \in 0 .. Len(rules) : kept[i] \in Seq(N \ {RuleName})
  <2>. DEFINE T == {i \in 0 .. Len(rules) : kept[i] \notin Seq(N \ {RuleName})}
  <2>. SUFFICES ASSUME T # {} PROVE FALSE
    OBVIOUS
  <2>0. T \in SUBSET Nat
    BY <1>0
  <2>1. PICK i \in T : \A y \in T : i <= y
    BY <2>0, LeastExists
  <2>2. kept[i] = KeptOf(rules, kept, i)
    BY <1>2
  <2>3. i # 0
    <3>1. <<>> \in Seq(N \ {RuleName})
      BY EmptySeq
    <3>. QED  BY <2>1, <2>2, <3>1 DEF KeptOf
  <2>4. i - 1 \in 0 .. Len(rules) /\ i - 1 \notin T
    BY <1>0, <2>1, <2>3
  <2>5. kept[i - 1] \in Seq(N \ {RuleName})
    BY <2>4
  <2>6. CASE rules[i] = RuleName
    BY <2>1, <2>2, <2>3, <2>5, <2>6 DEF KeptOf
  <2>7. CASE rules[i] # RuleName
    <3>1. rules[i] \in N \ {RuleName}
      BY <1>0, <2>3, <2>7
    <3>2. Append(kept[i - 1], rules[i]) \in Seq(N \ {RuleName})
      BY <2>5, <3>1, AppendProperties
    <3>. QED  BY <2>1, <2>2, <2>3, <2>7, <3>2 DEF KeptOf
  <2>. QED  BY <2>6, <2>7
<1>. QED  BY <1>0, <1>3, <1>4

Copies(rules) == {i \in DOMAIN rules : rules[i] = RuleName}

\* However often it is installed, the rule is in the session once.
LEMMA InstalledOnce ==
  ASSUME NEW N, RuleName \in N, NEW rules \in Seq(N), "join_selection" \in ToSet(Retained(rules))
  PROVE  Installed(rules) \in Seq(N) /\ Cardinality(Copies(Installed(rules))) \in 0 .. 1
<1>. DEFINE others == Retained(rules)
            I == {i \in 1 .. Len(others) : others[i] = "join_selection"}
            at == SelectInSeq(others, LAMBDA r : r = "join_selection")
<1>1. others \in Seq(N \ {RuleName})
  BY OthersRetained
<1>. HIDE DEF others
<1>2. Len(others) \in Nat /\ DOMAIN others = 1 .. Len(others)
  BY <1>1, LenProperties
<1>3. at \in 1 .. Len(others)
  <2>1. I # {} /\ I \in SUBSET Nat
    BY <1>2 DEF ToSet, others
  <2>2. at = Min(I)
    BY <2>1 DEF SelectInSeq
  <2>3. PICK x \in I : \A y \in I : x <= y
    BY <2>1, LeastExists
  <2>4. Min(I) \in I
    BY <2>3 DEF Min
  <2>. QED  BY <2>2, <2>4
<1>. DEFINE A == SubSeq(others, 1, at - 1)
            B == SubSeq(others, at, Len(others))
            one == <<RuleName>>
<1>4. Installed(rules) = A \o one \o B
  BY DEF Installed, InsertBeforeJoinSelection, InsertAt, others
<1>. HIDE DEF at
<1>5. A \in Seq(N \ {RuleName}) /\ B \in Seq(N \ {RuleName})
  BY <1>1, <1>2, <1>3, SubSeqProperties
<1>. HIDE DEF A, B
<1>6. A \in Seq(N) /\ B \in Seq(N) /\ one \in Seq(N) /\ Len(one) = 1 /\ one[1] = RuleName
  <2>1. N \ {RuleName} \subseteq N
    OBVIOUS
  <2>2. A \in Seq(N) /\ B \in Seq(N)
    BY <1>5, <2>1, SeqMonotonic
  <2>3. one \in Seq(N) /\ Len(one) = 1 /\ one[1] = RuleName
    OBVIOUS
  <2>. QED  BY <2>2, <2>3
<1>. HIDE DEF one
<1>7. A \o one \in Seq(N) /\ Len(A \o one) = Len(A) + 1 /\ Len(A) \in Nat /\ Len(B) \in Nat
  <2>1. A \o one \in Seq(N) /\ Len(A \o one) = Len(A) + Len(one)
    BY <1>6, ConcatProperties
  <2>. QED  BY <1>6, <2>1, LenProperties
<1>8. (A \o one) \o B \in Seq(N) /\ Len((A \o one) \o B) = Len(A) + 1 + Len(B)
  <2>. DEFINE X == A \o one
  <2>1. X \in Seq(N) /\ Len(X) = Len(A) + 1
    BY <1>7
  <2>. HIDE DEF X
  <2>2. X \o B \in Seq(N) /\ Len(X \o B) = Len(X) + Len(B)
    BY <1>6, <2>1, ConcatProperties
  <2>. QED  BY <2>1, <2>2 DEF X
<1>9. \A i \in 1 .. Len(A) + 1 + Len(B) : ((A \o one) \o B)[i] = RuleName => i = Len(A) + 1
  <2>. SUFFICES ASSUME NEW i \in 1 .. Len(A) + 1 + Len(B), i # Len(A) + 1
                PROVE  ((A \o one) \o B)[i] # RuleName
    OBVIOUS
  <2>1. CASE i <= Len(A)
    <3>1. ((A \o one) \o B)[i] = (A \o one)[i]
      BY <1>6, <1>7, <2>1, ConcatProperties
    <3>2. (A \o one)[i] = A[i]
      BY <1>6, <1>7, <2>1, ConcatProperties
    <3>3. A[i] \in N \ {RuleName}
      BY <1>5, <1>7, <2>1, ElementOfSeq
    <3>. QED  BY <3>1, <3>2, <3>3
  <2>2. CASE i > Len(A) + 1
    <3>1. ((A \o one) \o B)[i] = B[i - (Len(A) + 1)]
      BY <1>6, <1>7, <2>2, ConcatProperties
    <3>2. i - (Len(A) + 1) \in 1 .. Len(B)
      BY <1>7, <2>2
    <3>3. B[i - (Len(A) + 1)] \in N \ {RuleName}
      BY <1>5, <3>2, ElementOfSeq
    <3>. QED  BY <3>1, <3>3
  <2>. QED  BY <1>7, <2>1, <2>2
<1>10. Copies(Installed(rules)) \subseteq {Len(A) + 1}
  BY <1>4, <1>8, <1>9, LenProperties DEF Copies
<1>11. Cardinality(Copies(Installed(rules))) <= 1 /\ Cardinality(Copies(Installed(rules))) \in Nat
  <2>1. IsFiniteSet({Len(A) + 1}) /\ Cardinality({Len(A) + 1}) = 1
    BY FS_Singleton
  <2>2. IsFiniteSet(Copies(Installed(rules))) /\ Cardinality(Copies(Installed(rules))) <= Cardinality({Len(A) + 1})
    BY <1>10, <2>1, FS_Subset
  <2>. QED  BY <2>1, <2>2, FS_CardinalityType
<1>. QED  BY <1>4, <1>8, <1>11

----------------------------------------------------------------------------
(* The invariant.                                                          *)

Rules == {"early", "join_selection", "late", RuleName}

Pcs == {"start", "visit", "input", "ask", "clamp", "floor", "apply", "planned"}

JobType ==
  [pc : Pcs, passes : 0 .. 1, at : Nat \ {0}, side : {1, 2}, native : RowCount \X RowCount,
   proposed : 0 .. MaxU64, rows : 0 .. MaxU64]

TypeOK ==
  /\ options \in Options
  /\ chain \in Seq(Rules) /\ Cardinality(Copies(chain)) \in 0 .. 1
  /\ installs \in Nat
  /\ counter \in [Counters -> Nat]
  /\ plan \in [Planner -> Wrappings]
  /\ job \in [Planner -> JobType]

Target(p, i, s) == Inputs[Joins[p][i]][s]

\* p is at an input of a join.
Inputting(p) == job[p].pc \in {"input", "ask", "clamp", "floor", "apply"}

Placed(p) ==
  /\ job[p].pc = "start" => job[p].passes = 0 /\ job[p].at = 1 /\ job[p].side = 1
  /\ job[p].pc = "planned" => job[p].passes = 0
  /\ job[p].pc = "visit" => job[p].side = 1 /\ job[p].at <= Len(Joins[p]) + 1
  /\ Inputting(p) => job[p].passes = 1 /\ job[p].at <= Len(Joins[p])

\* The inputs p has left behind: all of them once the pass is over.
Left(p, i, s) ==
  \/ job[p].pc # "start" /\ job[p].passes = 0
  \/ i < job[p].at
  \/ i = job[p].at /\ s < job[p].side
Behind(p) == {n \in Node : \E i \in DOMAIN Joins[p], s \in {1, 2} : n = Target(p, i, s) /\ Left(p, i, s)}

\* The statistics noted before either input was corrected are DataFusion's
\* own, and those of the inputs still to be corrected have not gone stale.
Noted(p) ==
  Inputting(p) =>
    \A s \in {1, 2} : s >= job[p].side =>
      job[p].native[s] = EngineRows(PublishedRows(plan[p]), Target(p, job[p].at, s))

\* An answer is of an input with an estimate, and kept within its bounds.
Bounded(p) ==
  LET ceiling == EffectiveCeiling(plan[p], Input(p))
  IN  /\ job[p].pc \in {"ask", "clamp", "floor", "apply"} => NativeRows(p) # Absent
      /\ job[p].pc \in {"floor", "apply"} =>
           /\ job[p].rows >= Min2(job[p].proposed, ceiling)
           /\ job[p].rows <= ceiling \/ (job[p].pc = "apply" /\ job[p].rows = NativeRows(p))
      /\ (job[p].pc = "apply" /\ ~ options.below) => job[p].rows >= NativeRows(p)

\* What w publishes of a wrapped node is in its envelope.
InEnvelope(w, n) ==
  /\ w[n].rows \in 0 .. MaxU64
  /\ ~ options.below =>
       w[n].rows >= EngineRows(PublishedRows(w), n) /\ (w[n].bytes # Absent => w[n].bytes >= Bytes[n])
  /\ w[n].rows <= Min2(options.ceiling, SafeMaxRows)
  /\ options.derive => w[n].rows <= DerivedCeiling([w EXCEPT ![n] = Unwrapped], n)

Enveloped(p) == \A n \in Node : plan[p][n] # Unwrapped => n \in Behind(p) /\ InEnvelope(plan[p], n)

PlannerInv(p) == Placed(p) /\ Noted(p) /\ Bounded(p) /\ Enveloped(p)

\* The inputs attempted so far, or passed over.
TriedBy(p) == Behind(p) \cup {n \in Node : p \in InFlight /\ n = Input(p)}
Tried == {at \in Planner \X Node : at[2] \in TriedBy(at[1])}

At(pcs) == {p \in Planner : job[p].pc \in pcs}

Counted ==
  /\ counter.attempts <= Cardinality(Tried)
  /\ counter.applied = Cardinality(Wrappers)
  /\ counter.applied + Cardinality(InFlight) + counter.abstained + counter.errors <= counter.attempts
  /\ counter.clamped + Cardinality(At({"ask", "clamp"})) + counter.abstained + counter.errors
       <= counter.attempts
  /\ counter.floored + Cardinality(At({"ask", "clamp", "floor"})) + counter.abstained + counter.errors
       <= counter.attempts

IInv == TypeOK /\ \A p \in Planner : PlannerInv(p)

----------------------------------------------------------------------------
(* Where a planner is.                                                     *)

\* The inputs of joins are nodes, and later ones are not below earlier ones.
LEMMA TargetsInOrder ==
  ASSUME NEW p \in Planner
  PROVE  /\ Len(Joins[p]) \in Nat /\ DOMAIN Joins[p] = 1 .. Len(Joins[p])
         /\ \A i \in DOMAIN Joins[p] : \A s \in {1, 2} : Target(p, i, s) \in Node
         /\ \A i, j \in DOMAIN Joins[p] : \A s, t \in {1, 2} :
              (i < j \/ (i = j /\ s # t)) =>
                Target(p, j, t) \notin Under(Target(p, i, s)) /\ Target(p, j, t) # Target(p, i, s)
<1>1. Joins[p] \in Seq({n \in Node : IsJoin(n)})
  BY OrderAssumption
<1>2. Len(Joins[p]) \in Nat /\ DOMAIN Joins[p] = 1 .. Len(Joins[p])
  BY <1>1, LenProperties
<1>3. ASSUME NEW i \in DOMAIN Joins[p], NEW s \in {1, 2} PROVE Target(p, i, s) \in Node
  <2>1. Joins[p][i] \in Node /\ IsJoin(Joins[p][i])
    BY <1>1, <1>2, <1>3, ElementOfSeq
  <2>2. Inputs[Joins[p][i]] \in Seq(Node) /\ Len(Inputs[Joins[p][i]]) = 2
    BY <2>1, PlanAssumption
  <2>3. s \in 1 .. Len(Inputs[Joins[p][i]])
    BY <1>3, <2>2
  <2>. QED  BY <2>2, <2>3, ElementOfSeq DEF Target
<1>4. ASSUME NEW i \in DOMAIN Joins[p], NEW j \in DOMAIN Joins[p], NEW s \in {1, 2}, NEW t \in {1, 2},
             i < j \/ (i = j /\ s # t)
      PROVE  Target(p, j, t) \notin Under(Target(p, i, s)) /\ Target(p, j, t) # Target(p, i, s)
  <2>1. Target(p, j, t) \notin Under(Target(p, i, s))
    BY <1>4, OrderAssumption DEF Target
  <2>2. Target(p, i, s) \in Under(Target(p, i, s))
    BY <1>3, Itself
  <2>. QED  BY <2>1, <2>2
<1>. QED  BY <1>2, <1>3, <1>4

\* The input p is at: a node, not yet left behind, and not below one that is.
LEMMA InputAhead ==
  ASSUME TypeOK, NEW p \in Planner, Placed(p), Inputting(p)
  PROVE  /\ job[p].at \in DOMAIN Joins[p] /\ job[p].side \in {1, 2}
         /\ Input(p) = Target(p, job[p].at, job[p].side) /\ Input(p) \in Node
         /\ Input(p) \notin Behind(p)
         /\ \A n \in Behind(p) : Input(p) \notin Under(n)
<1>1. job[p] \in JobType
  BY DEF TypeOK
<1>2. job[p].at \in DOMAIN Joins[p] /\ job[p].side \in {1, 2} /\ job[p].passes = 1
  BY <1>1, TargetsInOrder DEF Placed, JobType
<1>3. Input(p) = Target(p, job[p].at, job[p].side) /\ Input(p) \in Node
  BY <1>2, TargetsInOrder DEF Input, Target
<1>4. ASSUME NEW n \in Behind(p) PROVE Input(p) \notin Under(n) /\ Input(p) # n
  <2>1. PICK i \in DOMAIN Joins[p], s \in {1, 2} : n = Target(p, i, s) /\ Left(p, i, s)
    BY DEF Behind
  <2>2. i < job[p].at \/ (i = job[p].at /\ s < job[p].side)
    BY <1>2, <2>1 DEF Left
  <2>. QED  BY <1>2, <1>3, <2>1, <2>2, TargetsInOrder
<1>. QED  BY <1>2, <1>3, <1>4

\* Where p goes on to.
LEMMA OnwardGoes ==
  ASSUME TypeOK, NEW p \in Planner, Placed(p), Inputting(p)
  PROVE  /\ Onward(p) \in JobType
         /\ Onward(p).passes = 1 /\ Onward(p).pc \in {"input", "visit"}
         /\ job[p].side = 1 =>
              /\ Onward(p).pc = "input" /\ Onward(p).at = job[p].at /\ Onward(p).side = 2
              /\ Onward(p).native = job[p].native
         /\ job[p].side = 2 => Onward(p).pc = "visit" /\ Onward(p).at = job[p].at + 1 /\ Onward(p).side = 1
<1>1. job[p] \in JobType /\ job[p].passes = 1
  BY DEF TypeOK, Placed
<1>2. 0 \in 0 .. MaxU64 /\ <<Absent, Absent>> \in RowCount \X RowCount
  BY StatisticsAssumption DEF RowCount
<1>3. /\ job[p].at \in Nat \ {0} /\ job[p].at + 1 \in Nat \ {0} /\ job[p].side \in {1, 2}
      /\ {"input", "visit"} \subseteq Pcs
  BY <1>1 DEF JobType, Pcs
<1>4. CASE job[p].side = 1
  <2>1. Onward(p) = [job[p] EXCEPT !.pc = "input", !.side = 2, !.proposed = 0, !.rows = 0]
    BY <1>4 DEF Onward
  <2>2. Onward(p) \in JobType
    BY <1>1, <1>2, <1>3, <2>1 DEF JobType
  <2>3. /\ Onward(p).pc = "input" /\ Onward(p).at = job[p].at /\ Onward(p).side = 2
        /\ Onward(p).native = job[p].native /\ Onward(p).passes = job[p].passes
    BY <1>1, <2>1 DEF JobType
  <2>. QED  BY <1>1, <1>4, <2>2, <2>3
<1>5. CASE job[p].side = 2
  <2>1. Onward(p) = [job[p] EXCEPT !.pc = "visit", !.at = job[p].at + 1, !.side = 1, !.proposed = 0, !.rows = 0,
                                   !.native = <<Absent, Absent>>]
    BY <1>5 DEF Onward
  <2>2. Onward(p) \in JobType
    BY <1>1, <1>2, <1>3, <2>1 DEF JobType
  <2>3. /\ Onward(p).pc = "visit" /\ Onward(p).at = job[p].at + 1 /\ Onward(p).side = 1
        /\ Onward(p).passes = job[p].passes
    BY <1>1, <2>1 DEF JobType
  <2>. QED  BY <1>1, <1>5, <2>2, <2>3
<1>. QED  BY <1>3, <1>4, <1>5

\* What p leaves behind by going on is the input it was at.
LEMMA OnwardLeaves ==
  ASSUME TypeOK, NEW p \in Planner, Placed(p), Inputting(p), job'[p] = Onward(p)
  PROVE  Behind(p)' = Behind(p) \cup {Input(p)}
<1>. DEFINE at == job[p].at
            side == job[p].side
<1>1. /\ at \in DOMAIN Joins[p] /\ side \in {1, 2} /\ Input(p) = Target(p, at, side) /\ Input(p) \in Node
      /\ job[p].passes = 1 /\ job[p].pc # "start" /\ job'[p].pc # "start" /\ job'[p].passes = 1
  BY InputAhead, OnwardGoes DEF Placed, Inputting
<1>2. \A i \in DOMAIN Joins[p] : \A s \in {1, 2} :
        Left(p, i, s)' <=> (Left(p, i, s) \/ (i = at /\ s = side))
  <2>0. DOMAIN Joins[p] \subseteq Nat
    BY TargetsInOrder
  <2>1. CASE side = 1
    BY <1>1, <2>0, <2>1, OnwardGoes DEF Left
  <2>2. CASE side = 2
    BY <1>1, <2>0, <2>2, OnwardGoes DEF Left
  <2>. QED  BY <1>1, <2>1, <2>2
<1>3. ASSUME NEW n \in Behind(p)' PROVE n \in Behind(p) \cup {Input(p)}
  <2>1. n \in Node
    BY DEF Behind
  <2>2. PICK i \in DOMAIN Joins[p], s \in {1, 2} : n = Target(p, i, s) /\ Left(p, i, s)'
    BY DEF Behind, Target
  <2>3. Left(p, i, s) \/ (i = at /\ s = side)
    BY <1>2, <2>2
  <2>. QED  BY <1>1, <2>1, <2>2, <2>3 DEF Behind
<1>4. ASSUME NEW n \in Behind(p) \cup {Input(p)} PROVE n \in Behind(p)'
  <2>1. n \in Node
    BY <1>1 DEF Behind
  <2>2. PICK i \in DOMAIN Joins[p], s \in {1, 2} : n = Target(p, i, s) /\ (Left(p, i, s) \/ (i = at /\ s = side))
    <3>1. CASE n \in Behind(p)
      BY <3>1 DEF Behind
    <3>2. CASE n = Input(p)
      BY <1>1, <3>2
    <3>. QED  BY <3>1, <3>2
  <2>3. Left(p, i, s)'
    BY <1>2, <2>2
  <2>. QED  BY <2>1, <2>2, <2>3 DEF Behind, Target
<1>. QED  BY <1>3, <1>4

----------------------------------------------------------------------------
(* Steps that leave a planner's invariant alone.                           *)

LEMMA EffectiveTyped ==
  ASSUME TypeOK, NEW w \in Wrappings, NEW n \in Node
  PROVE  /\ options.ceiling \in 0 .. MaxU64 /\ EffectiveCeiling(w, n) \in Nat
         /\ EffectiveCeiling(w, n) <= Min2(options.ceiling, SafeMaxRows)
         /\ options.derive => EffectiveCeiling(w, n) <= DerivedCeiling(w, n)
         /\ EffectiveCeiling(w, n) >= Min2(Min2(options.ceiling, SafeMaxRows), DerivedCeiling(w, n))
<1>1. options \in [ceiling : 0 .. MaxU64, below : BOOLEAN, derive : BOOLEAN]
  BY OptionsAssumption DEF TypeOK
<1>2. options.ceiling \in 0 .. MaxU64
  BY <1>1
<1>3. DerivedCeiling(w, n) \in 0 .. MaxU64
  BY DerivedTyped
<1>. QED  BY <1>2, <1>3, StatisticsAssumption DEF EffectiveCeiling, Min2

\* A planner that does nothing keeps its invariant.
LEMMA Idle ==
  ASSUME NEW p \in Planner, PlannerInv(p), job'[p] = job[p], plan'[p] = plan[p], options' = options
  PROVE  PlannerInv(p)' /\ Behind(p)' = Behind(p) /\ Input(p)' = Input(p)
<1>1. Behind(p)' = Behind(p)
  BY DEF Behind, Left, Target
<1>2. Input(p)' = Input(p) /\ NativeRows(p)' = NativeRows(p)
  BY DEF Input, NativeRows
<1>3. Placed(p)' /\ Noted(p)'
  BY DEF PlannerInv, Placed, Noted, Inputting, Target
<1>4. Bounded(p)'
  BY <1>2 DEF PlannerInv, Bounded, EffectiveCeiling
<1>5. Enveloped(p)'
  BY <1>1 DEF PlannerInv, Enveloped, InEnvelope
<1>. QED  BY <1>1, <1>2, <1>3, <1>4, <1>5 DEF PlannerInv

\* A planner that is still at the same input.
LEMMA SameInput ==
  ASSUME NEW p \in Planner, PlannerInv(p), Inputting(p), Inputting(p)', plan'[p] = plan[p], options' = options,
         job'[p].passes = job[p].passes, job'[p].at = job[p].at, job'[p].side = job[p].side,
         job'[p].native = job[p].native
  PROVE  /\ Placed(p)' /\ Noted(p)' /\ Enveloped(p)'
         /\ Behind(p)' = Behind(p) /\ Input(p)' = Input(p) /\ NativeRows(p)' = NativeRows(p)
         /\ EffectiveCeiling(plan[p], Input(p))' = EffectiveCeiling(plan[p], Input(p))
<1>1. Behind(p)' = Behind(p)
  BY DEF Behind, Left, Target, Inputting
<1>2. Input(p)' = Input(p) /\ NativeRows(p)' = NativeRows(p)
  BY DEF Input, NativeRows
<1>3. Placed(p)' /\ Noted(p)'
  BY DEF PlannerInv, Placed, Noted, Inputting, Target
<1>4. Enveloped(p)'
  BY <1>1 DEF PlannerInv, Enveloped, InEnvelope
<1>5. EffectiveCeiling(plan[p], Input(p))' = EffectiveCeiling(plan[p], Input(p))
  BY <1>2 DEF EffectiveCeiling
<1>. QED  BY <1>1, <1>2, <1>3, <1>4, <1>5

\* A planner that goes on.
LEMMA GoesOn ==
  ASSUME TypeOK, NEW p \in Planner, PlannerInv(p), Inputting(p), job'[p] = Onward(p), options' = options,
         \A x \in Node \ {Input(p)} : plan'[p][x] = plan[p][x]
  PROVE  Placed(p)' /\ Noted(p)' /\ Bounded(p)'
<1>1. Placed(p)
  BY DEF PlannerInv
<1>2. job[p].at \in Nat /\ job[p].side \in {1, 2} /\ job[p].at <= Len(Joins[p])
  BY <1>1 DEF TypeOK, JobType, Placed
<1>3. job'[p].passes = 1 /\ job'[p].pc \in {"input", "visit"}
  BY <1>1, OnwardGoes
<1>4. Bounded(p)'
  BY <1>3 DEF Bounded
<1>5. CASE job[p].side = 1
  <2>. DEFINE n == Input(p)
              m == Target(p, job[p].at, 2)
              w == plan[p]
              v == plan'[p]
  <2>1. /\ job'[p].pc = "input" /\ job'[p].at = job[p].at /\ job'[p].native = job[p].native
        /\ job'[p].side = 2
    BY <1>1, <1>5, OnwardGoes
  <2>2. Placed(p)'
    BY <1>2, <1>3, <2>1 DEF Placed, Inputting
  <2>3. job[p].at \in DOMAIN Joins[p] /\ n = Target(p, job[p].at, 1) /\ n \in Node /\ m \in Node
    BY <1>1, <1>5, InputAhead, TargetsInOrder
  <2>4. n \notin Under(m)
    BY <2>3, TargetsInOrder
  <2>5. \A x \in Node \ {n} : w[x] = v[x]
    OBVIOUS
  <2>6. job[p].native[2] = EngineRows(PublishedRows(w), m)
    BY <1>5 DEF PlannerInv, Noted
  <2>. HIDE DEF n, m, w, v
  <2>7. EngineRows(PublishedRows(w), m) = EngineRows(PublishedRows(v), m)
    BY <2>3, <2>4, <2>5, EngineElsewhere
  <2>8. job'[p].native[2] = EngineRows(PublishedRows(v), m)
    BY <2>1, <2>6, <2>7
  <2>9. Noted(p)'
    BY <2>1, <2>8 DEF Noted, Target, m, v
  <2>. QED  BY <1>4, <2>2, <2>9
<1>6. CASE job[p].side = 2
  <2>1. job'[p].pc = "visit" /\ job'[p].at = job[p].at + 1 /\ job'[p].side = 1
    BY <1>1, <1>6, OnwardGoes
  <2>2. Placed(p)'
    BY <1>2, <2>1, TargetsInOrder DEF Placed, Inputting
  <2>3. Noted(p)'
    BY <2>1 DEF Noted, Inputting
  <2>. QED  BY <1>4, <2>2, <2>3
<1>. QED  BY <1>2, <1>5, <1>6

\* One planner takes a step.
LEMMA OneSteps ==
  ASSUME IInv, NEW p \in Planner, NEW j \in JobType, job' = [job EXCEPT ![p] = j],
         UNCHANGED <<options, chain, installs>>, counter' \in [Counters -> Nat],
         plan' \in [Planner -> Wrappings], \A q \in Planner \ {p} : plan'[q] = plan[q],
         PlannerInv(p)'
  PROVE  IInv'
<1>1. job' \in [Planner -> JobType] /\ \A q \in Planner \ {p} : job'[q] = job[q]
  BY DEF IInv, TypeOK
<1>2. TypeOK'
  BY <1>1 DEF IInv, TypeOK, Copies
<1>3. ASSUME NEW q \in Planner PROVE PlannerInv(q)'
  <2>1. CASE q = p
    BY <2>1
  <2>2. CASE q # p
    <3>1. PlannerInv(q) /\ job'[q] = job[q] /\ plan'[q] = plan[q] /\ options' = options
      BY <1>1, <2>2 DEF IInv
    <3>. QED  BY <3>1, Idle
  <2>. QED  BY <2>1, <2>2
<1>. QED  BY <1>2, <1>3 DEF IInv

LEMMA BumpTyped ==
  ASSUME TypeOK, NEW c \in Counters, Bump(c)
  PROVE  counter' \in [Counters -> Nat]
BY DEF TypeOK, Bump

----------------------------------------------------------------------------
(* The steps.                                                              *)

LEMMA InitHolds ==
  ASSUME Init
  PROVE  IInv
<1>. DEFINE first == [pc |-> "start", passes |-> 0, at |-> 1, side |-> 1,
                      native |-> <<Absent, Absent>>, proposed |-> 0, rows |-> 0]
<1>1. first \in JobType
  <2>1. 0 \in 0 .. MaxU64 /\ <<Absent, Absent>> \in RowCount \X RowCount /\ 0 \in 0 .. 1
    BY StatisticsAssumption DEF RowCount
  <2>. QED  BY <2>1 DEF JobType, Pcs
<1>2. chain \in Seq(Rules) /\ Cardinality(Copies(chain)) \in 0 .. 1
  <2>1. chain \in Seq(Rules)
    <3>1. "early" \in Rules /\ "join_selection" \in Rules /\ "late" \in Rules
      BY DEF Rules
    <3>2. <<"early", "join_selection", "late">> \in Seq(Rules)
      BY <3>1
    <3>3. <<"early", "late">> \in Seq(Rules)
      BY <3>1
    <3>. QED  BY <3>2, <3>3 DEF Init
  <2>2. Copies(chain) = {}
    BY DEF Init, Copies, RuleName
  <2>. QED  BY <2>1, <2>2, FS_EmptySet
<1>3. plan \in [Planner -> Wrappings]
  BY DEF Init, Wrappings, Unwrapped, RowCount
<1>4. counter \in [Counters -> Nat]
  BY DEF Init
<1>5. job \in [Planner -> JobType]
  BY <1>1 DEF Init
<1>6. TypeOK
  BY <1>2, <1>3, <1>4, <1>5 DEF Init, TypeOK
<1>7. ASSUME NEW p \in Planner PROVE PlannerInv(p)
  <2>1. job[p].pc = "start" /\ job[p].passes = 0 /\ job[p].at = 1 /\ job[p].side = 1
    BY DEF Init
  <2>2. \A n \in Node : plan[p][n] = Unwrapped
    BY DEF Init
  <2>. QED  BY <2>1, <2>2 DEF PlannerInv, Placed, Noted, Bounded, Enveloped, Inputting
<1>. QED  BY <1>6, <1>7 DEF IInv

LEMMA InstallHolds ==
  ASSUME IInv, Install
  PROVE  IInv'
<1>1. RuleName \in Rules
  BY DEF Rules
<1>2. chain' \in Seq(Rules) /\ Cardinality(Copies(chain')) \in 0 .. 1
  BY <1>1, InstalledOnce DEF IInv, TypeOK, Install
<1>3. TypeOK'
  BY <1>2 DEF IInv, TypeOK, Install, Copies
<1>4. \A p \in Planner : PlannerInv(p)'
  BY Idle DEF IInv, Install
<1>. QED  BY <1>3, <1>4 DEF IInv

\* A pass for every copy of the rule, and there is at most one.
LEMMA OptimizeHolds ==
  ASSUME IInv, NEW p \in Planner, Optimize(p)
  PROVE  IInv' /\ Behind(p) \subseteq Behind(p)'
<1>. DEFINE n == Cardinality(Copies(chain))
            j == [job[p] EXCEPT !.pc = "visit", !.passes = n]
<1>1. n \in 0 .. 1
  BY DEF IInv, TypeOK
<1>2. job[p] \in JobType /\ Placed(p) /\ job[p].pc = "start"
  BY DEF IInv, TypeOK, PlannerInv, Optimize
<1>. HIDE DEF n
<1>3. j \in JobType /\ j.pc = "visit" /\ j.at = 1 /\ j.side = 1
  BY <1>1, <1>2 DEF JobType, Pcs, Placed
<1>4. job' = [job EXCEPT ![p] = j] /\ job'[p] = j
  BY DEF Optimize, IInv, TypeOK, n, Copies
<1>5. \A i \in DOMAIN Joins[p] : \A s \in {1, 2} : ~ Left(p, i, s)
  BY <1>2, TargetsInOrder DEF Placed, Left
<1>6. Behind(p) = {}
  BY <1>5 DEF Behind
<1>7. PlannerInv(p)'
  <2>1. Placed(p)'
    <3>1. job'[p].pc = "visit" /\ job'[p].at = 1 /\ job'[p].side = 1
      BY <1>3, <1>4
    <3>2. Len(Joins[p]) \in Nat
      BY TargetsInOrder
    <3>. QED  BY <3>1, <3>2 DEF Placed, Inputting
  <2>2. Noted(p)' /\ Bounded(p)'
    BY <1>3, <1>4 DEF Noted, Bounded, Inputting
  <2>3. \A m \in Node : plan[p][m] = Unwrapped
    BY <1>6 DEF IInv, PlannerInv, Enveloped
  <2>4. Enveloped(p)'
    BY <2>3 DEF Enveloped, Optimize
  <2>. QED  BY <2>1, <2>2, <2>4 DEF PlannerInv
<1>. HIDE DEF j
<1>8. IInv'
  BY <1>3, <1>4, <1>7, OneSteps DEF IInv, TypeOK, Optimize
<1>. QED  BY <1>6, <1>8

LEMMA VisitHolds ==
  ASSUME IInv, NEW p \in Planner, Visit(p)
  PROVE  IInv' /\ Behind(p)' = Behind(p)
<1>1. /\ job[p] \in JobType /\ job[p].pc = "visit" /\ job[p].side = 1 /\ job[p].at <= Len(Joins[p]) + 1
      /\ job[p].passes \in 0 .. 1 /\ job[p].at \in Nat \ {0} /\ plan[p] \in Wrappings
      /\ Enveloped(p) /\ Len(Joins[p]) \in Nat /\ DOMAIN Joins[p] = 1 .. Len(Joins[p])
  BY TargetsInOrder DEF IInv, TypeOK, PlannerInv, Placed, Visit, JobType
<1>2. UNCHANGED <<options, chain, installs, counter, plan>>
  BY DEF Visit
<1>3. ASSUME NEW j \in JobType, job' = [job EXCEPT ![p] = j], Behind(p)' = Behind(p),
             Placed(p)', Noted(p)', Bounded(p)'
      PROVE  IInv'
  <2>1. Enveloped(p)'
    BY <1>1, <1>2, <1>3 DEF Enveloped, InEnvelope
  <2>2. PlannerInv(p)'
    BY <1>3, <2>1 DEF PlannerInv
  <2>. QED  BY <1>2, <1>3, <2>2, OneSteps DEF IInv, TypeOK
<1>4. CASE job[p].passes = 0
  <2>. DEFINE j == [job[p] EXCEPT !.pc = "planned"]
  <2>1. job' = [job EXCEPT ![p] = j] /\ j \in JobType
    BY <1>1, <1>4 DEF Visit, IInv, TypeOK, JobType, Pcs
  <2>2. job'[p].pc = "planned" /\ job'[p].passes = 0 /\ job'[p].at = job[p].at /\ job'[p].side = job[p].side
    BY <1>1, <1>4, <2>1 DEF IInv, TypeOK, JobType
  <2>. HIDE DEF j
  <2>3. Behind(p)' = Behind(p)
    BY <1>1, <1>4, <2>2 DEF Behind, Left, Target
  <2>4. Placed(p)' /\ Noted(p)' /\ Bounded(p)'
    BY <2>2 DEF Placed, Noted, Bounded, Inputting
  <2>. QED  BY <1>3, <2>1, <2>3, <2>4
<1>5. CASE job[p].passes # 0 /\ job[p].at > Len(Joins[p])
  <2>. DEFINE j == [job[p] EXCEPT !.passes = job[p].passes - 1, !.at = 1]
  <2>0. job[p].passes = 1 /\ 1 - 1 = 0 /\ 0 \in 0 .. 1 /\ 1 \in Nat \ {0}
    BY <1>1, <1>5
  <2>1. job' = [job EXCEPT ![p] = j] /\ j \in JobType
    <3>1. j = [job[p] EXCEPT !.passes = 0, !.at = 1]
      BY <2>0
    <3>2. j \in JobType
      BY <1>1, <2>0, <3>1 DEF JobType
    <3>3. job' = [job EXCEPT ![p].passes = @ - 1, ![p].at = 1]
      BY <1>1, <1>5 DEF Visit
    <3>4. job' = [job EXCEPT ![p] = j]
      BY <3>3, ZenonT(60) DEF IInv, TypeOK
    <3>. QED  BY <3>2, <3>4
  <2>2. job'[p].pc = "visit" /\ job'[p].passes = 0 /\ job'[p].at = 1 /\ job'[p].side = 1
    BY <1>1, <1>5, <2>1 DEF IInv, TypeOK, JobType
  <2>. HIDE DEF j
  <2>3. Behind(p)' = Behind(p)
    <3>1. \A i \in DOMAIN Joins[p] : \A s \in {1, 2} : Left(p, i, s) /\ Left(p, i, s)'
      BY <1>1, <1>5, <2>2 DEF Left
    <3>. QED  BY <3>1 DEF Behind, Target
  <2>4. Placed(p)' /\ Noted(p)' /\ Bounded(p)'
    BY <1>1, <2>2 DEF Placed, Noted, Bounded, Inputting
  <2>. QED  BY <1>3, <2>1, <2>3, <2>4
<1>6. CASE job[p].passes # 0 /\ job[p].at <= Len(Joins[p])
  <2>. DEFINE rows == PublishedRows(plan[p])
              at == job[p].at
              note == <<rows[Target(p, at, 1)], rows[Target(p, at, 2)]>>
              j == [job[p] EXCEPT !.pc = "input", !.side = 1, !.native = note]
  <2>1. Target(p, at, 1) \in Node /\ Target(p, at, 2) \in Node
    BY <1>1, <1>6, TargetsInOrder
  <2>2. note \in RowCount \X RowCount
    BY <1>1, <2>1, PublishedTyped
  <2>3. job' = [job EXCEPT ![p] = j]
    <3>0. Target(p, at, 1) = Inputs[Joins[p][at]][1] /\ Target(p, at, 2) = Inputs[Joins[p][at]][2]
      BY DEF Target
    <3>1. job' = [job EXCEPT ![p].pc = "input", ![p].side = 1, ![p].native = note]
      <4>1. job[p].passes # 0 /\ ~ (job[p].at > Len(Joins[p]))
        BY <1>1, <1>6
      <4>2. job' = [job EXCEPT ![p].pc = "input", ![p].side = 1,
                               ![p].native = <<rows[Inputs[Joins[p][at]][1]], rows[Inputs[Joins[p][at]][2]]>>]
        BY <4>1, Zenon DEF Visit
      <4>. QED  BY <3>0, <4>2, Zenon
    <3>. HIDE DEF note
    <3>. QED  BY <3>1, ZenonT(60) DEF IInv, TypeOK
  <2>. HIDE DEF note
  <2>4. j \in JobType
    BY <1>1, <2>2 DEF JobType, Pcs
  <2>5. /\ job'[p].pc = "input" /\ job'[p].passes = job[p].passes /\ job'[p].at = at /\ job'[p].side = 1
        /\ job'[p].native = note
    BY <1>1, <2>3 DEF IInv, TypeOK, JobType
  <2>. HIDE DEF j
  <2>6. Behind(p)' = Behind(p)
    BY <1>1, <2>5 DEF Behind, Left, Target
  <2>7. Placed(p)'
    BY <1>1, <1>6, <2>5 DEF Placed, Inputting
  <2>8. Bounded(p)'
    BY <2>5 DEF Bounded
  <2>9. /\ note[1] = EngineRows(PublishedRows(plan[p]), Target(p, at, 1))
        /\ note[2] = EngineRows(PublishedRows(plan[p]), Target(p, at, 2))
    <3>1. ASSUME NEW s \in {1, 2} PROVE rows[Target(p, at, s)] = EngineRows(rows, Target(p, at, s))
      <4>. DEFINE m == Target(p, at, s)
      <4>1. ~ Left(p, at, s)
        BY <1>1, <1>6, <3>1 DEF Left
      <4>2. m \notin Behind(p)
        <5>. SUFFICES ASSUME NEW i \in DOMAIN Joins[p], NEW t \in {1, 2}, m = Target(p, i, t), Left(p, i, t)
                      PROVE  FALSE
          BY DEF Behind
        <5>1. i < at
          BY <1>1, <1>6 DEF Left
        <5>2. at \in DOMAIN Joins[p]
          BY <1>1, <1>6
        <5>. QED  BY <5>1, <5>2, TargetsInOrder
      <4>3. m \in Node /\ plan[p][m] = Unwrapped
        BY <1>1, <2>1, <3>1, <4>2 DEF Enveloped
      <4>4. rows = [x \in Node |-> RowsOf(plan[p], rows, x)]
        BY Published
      <4>5. rows[m] = RowsOf(plan[p], rows, m)
        <5>. HIDE DEF rows, m
        <5>. QED  BY <4>3, <4>4
      <4>. QED  BY <4>3, <4>5 DEF RowsOf
    <3>. QED  BY <3>1 DEF note
  <2>10. Noted(p)'
    BY <1>2, <2>5, <2>9 DEF Noted, Target
  <2>. QED  BY <1>3, <2>3, <2>4, <2>6, <2>7, <2>8, <2>10
<1>. QED  BY <1>1, <1>4, <1>5, <1>6

\* An input is left as it is.
LEMMA PassedOver ==
  ASSUME IInv, NEW p \in Planner, Inputting(p), job' = [job EXCEPT ![p] = Onward(p)],
         UNCHANGED <<options, chain, installs, plan>>, counter' \in [Counters -> Nat]
  PROVE  IInv' /\ Behind(p)' = Behind(p) \cup {Input(p)}
<1>1. TypeOK /\ PlannerInv(p) /\ Placed(p) /\ job'[p] = Onward(p) /\ Onward(p) \in JobType
  BY OnwardGoes DEF IInv, TypeOK, PlannerInv
<1>2. Behind(p)' = Behind(p) \cup {Input(p)}
  BY <1>1, OnwardLeaves
<1>3. Enveloped(p)'
  BY <1>1, <1>2 DEF PlannerInv, Enveloped, InEnvelope
<1>4. PlannerInv(p)'
  BY <1>1, <1>3, GoesOn DEF PlannerInv
<1>5. IInv'
  BY <1>1, <1>4, OneSteps DEF TypeOK
<1>. QED  BY <1>2, <1>5

\* An answer or its bounds are worked out for an input.
LEMMA WorkedOut ==
  ASSUME IInv, NEW p \in Planner, Inputting(p), NEW j \in JobType, job' = [job EXCEPT ![p] = j],
         UNCHANGED <<options, chain, installs, plan>>, counter' \in [Counters -> Nat],
         j.pc \in {"ask", "clamp", "floor", "apply"},
         j.passes = job[p].passes, j.at = job[p].at, j.side = job[p].side, j.native = job[p].native,
         Bounded(p)'
  PROVE  IInv' /\ Behind(p)' = Behind(p) /\ Input(p)' = Input(p)
<1>1. PlannerInv(p) /\ job'[p] = j /\ Inputting(p)'
  BY DEF IInv, TypeOK, Inputting
<1>2. Placed(p)' /\ Noted(p)' /\ Enveloped(p)' /\ Behind(p)' = Behind(p) /\ Input(p)' = Input(p)
  BY <1>1, SameInput
<1>3. IInv'
  BY <1>2, OneSteps DEF IInv, TypeOK, PlannerInv
<1>. QED  BY <1>2, <1>3

LEMMA AttemptHolds ==
  ASSUME IInv, NEW p \in Planner, Attempt(p)
  PROVE  /\ IInv'
         /\ NativeRows(p) = Absent =>
              job' = [job EXCEPT ![p] = Onward(p)] /\ Behind(p)' = Behind(p) \cup {Input(p)}
         /\ NativeRows(p) # Absent =>
              job'[p].pc = "ask" /\ Behind(p)' = Behind(p) /\ Input(p)' = Input(p)
<1>1. Inputting(p) /\ TypeOK /\ job[p] \in JobType /\ UNCHANGED <<options, chain, installs, plan>>
  BY DEF Attempt, Inputting, IInv, TypeOK
<1>2. CASE NativeRows(p) = Absent
  <2>1. job' = [job EXCEPT ![p] = Onward(p)] /\ counter' \in [Counters -> Nat]
    BY <1>1, <1>2 DEF Attempt, TypeOK
  <2>. QED  BY <1>1, <1>2, <2>1, PassedOver
<1>3. CASE NativeRows(p) # Absent
  <2>. DEFINE j == [job[p] EXCEPT !.pc = "ask"]
  <2>1. job' = [job EXCEPT ![p] = j] /\ Bump("attempts")
    BY <1>1, <1>3 DEF Attempt, TypeOK
  <2>2. counter' \in [Counters -> Nat]
    BY <1>1, <2>1, BumpTyped DEF Counters
  <2>3. /\ j \in JobType /\ j.pc = "ask" /\ j.passes = job[p].passes /\ j.at = job[p].at
        /\ j.side = job[p].side /\ j.native = job[p].native
    BY <1>1 DEF JobType, Pcs
  <2>. HIDE DEF j
  <2>4. job'[p] = j
    BY <1>1, <2>1 DEF TypeOK
  <2>5. Bounded(p)'
    BY <1>3, <2>3, <2>4 DEF Bounded, NativeRows
  <2>6. IInv' /\ Behind(p)' = Behind(p) /\ Input(p)' = Input(p)
    BY <1>1, <2>1, <2>2, <2>3, <2>5, WorkedOut
  <2>. QED  BY <1>3, <2>3, <2>4, <2>6
<1>. QED  BY <1>2, <1>3

LEMMA AbstainHolds ==
  ASSUME IInv, NEW p \in Planner, Abstain(p) \/ Fail(p)
  PROVE  /\ IInv' /\ Behind(p)' = Behind(p) \cup {Input(p)}
         /\ job[p].pc = "ask" /\ job' = [job EXCEPT ![p] = Onward(p)]
<1>1. /\ Inputting(p) /\ TypeOK /\ UNCHANGED <<options, chain, installs, plan>>
      /\ job[p].pc = "ask" /\ job' = [job EXCEPT ![p] = Onward(p)] /\ (Bump("abstained") \/ Bump("errors"))
  BY DEF Abstain, Fail, Inputting, IInv
<1>2. counter' \in [Counters -> Nat]
  BY <1>1, BumpTyped DEF Counters
<1>. QED  BY <1>1, <1>2, PassedOver

LEMMA ProposeHolds ==
  ASSUME IInv, NEW p \in Planner, NEW rows \in Proposals, Propose(p, rows)
  PROVE  /\ IInv' /\ Behind(p)' = Behind(p) /\ Input(p)' = Input(p)
         /\ job[p].pc = "ask" /\ job'[p].pc = "clamp"
<1>1. /\ Inputting(p) /\ TypeOK /\ job[p] \in JobType /\ UNCHANGED <<options, chain, installs, plan>>
      /\ job[p].pc = "ask" /\ counter' \in [Counters -> Nat] /\ rows \in 0 .. MaxU64
  BY StatisticsAssumption DEF Propose, Inputting, IInv, TypeOK
<1>. DEFINE j == [job[p] EXCEPT !.pc = "clamp", !.proposed = rows]
<1>2. job' = [job EXCEPT ![p] = j]
  BY <1>1 DEF Propose, TypeOK
<1>3. /\ j \in JobType /\ j.pc = "clamp" /\ j.passes = job[p].passes /\ j.at = job[p].at
      /\ j.side = job[p].side /\ j.native = job[p].native
  BY <1>1 DEF JobType, Pcs
<1>. HIDE DEF j
<1>4. job'[p] = j
  BY <1>1, <1>2 DEF TypeOK
<1>5. NativeRows(p) # Absent
  BY <1>1 DEF IInv, PlannerInv, Bounded
<1>6. Bounded(p)'
  BY <1>3, <1>4, <1>5 DEF Bounded, NativeRows
<1>. QED  BY <1>1, <1>2, <1>3, <1>4, <1>6, WorkedOut

LEMMA ClampHolds ==
  ASSUME IInv, NEW p \in Planner, Clamp(p)
  PROVE  /\ IInv' /\ Behind(p)' = Behind(p) /\ Input(p)' = Input(p)
         /\ job[p].pc = "clamp" /\ job'[p].pc = "floor"
         /\ counter' = counter \/ Bump("clamped")
<1>1. /\ Inputting(p) /\ TypeOK /\ job[p] \in JobType /\ UNCHANGED <<options, chain, installs, plan>>
      /\ job[p].pc = "clamp" /\ plan[p] \in Wrappings /\ Placed(p)
      /\ counter' = counter \/ Bump("clamped")
  BY DEF Clamp, Inputting, IInv, TypeOK, PlannerInv
<1>2. counter' \in [Counters -> Nat]
  BY <1>1, BumpTyped DEF Counters, TypeOK
<1>. DEFINE ceiling == EffectiveCeiling(plan[p], Input(p))
            rows == Min2(job[p].proposed, ceiling)
            j == [job[p] EXCEPT !.pc = "floor", !.rows = rows]
<1>3. Input(p) \in Node
  BY <1>1, InputAhead
<1>4. ceiling \in Nat /\ job[p].proposed \in 0 .. MaxU64
  BY <1>1, <1>3, EffectiveTyped DEF JobType
<1>5. job' = [job EXCEPT ![p] = j]
  BY <1>1 DEF Clamp, TypeOK
<1>. HIDE DEF ceiling
<1>6. rows \in 0 .. MaxU64 /\ rows >= Min2(job[p].proposed, ceiling) /\ rows <= ceiling
  BY <1>4, StatisticsAssumption DEF Min2
<1>. HIDE DEF rows
<1>7. /\ j \in JobType /\ j.pc = "floor" /\ j.passes = job[p].passes /\ j.at = job[p].at
      /\ j.side = job[p].side /\ j.native = job[p].native /\ j.rows = rows /\ j.proposed = job[p].proposed
  BY <1>1, <1>6 DEF JobType, Pcs
<1>. HIDE DEF j
<1>8. job'[p] = j
  BY <1>1, <1>5 DEF TypeOK
<1>9. NativeRows(p) # Absent /\ PlannerInv(p)
  BY <1>1 DEF IInv, PlannerInv, Bounded
<1>10. /\ NativeRows(p)' = NativeRows(p)
       /\ EffectiveCeiling(plan[p], Input(p))' = ceiling
  BY <1>1, <1>7, <1>8, <1>9, SameInput DEF Inputting, ceiling
<1>11. Bounded(p)'
  BY <1>6, <1>7, <1>8, <1>9, <1>10 DEF Bounded
<1>. QED  BY <1>1, <1>2, <1>5, <1>7, <1>8, <1>11, WorkedOut

LEMMA FloorHolds ==
  ASSUME IInv, NEW p \in Planner, Floor(p)
  PROVE  /\ IInv' /\ Behind(p)' = Behind(p) /\ Input(p)' = Input(p)
         /\ job[p].pc = "floor" /\ job'[p].pc = "apply"
         /\ counter' = counter \/ Bump("floored")
<1>1. /\ Inputting(p) /\ TypeOK /\ job[p] \in JobType /\ UNCHANGED <<options, chain, installs, plan>>
      /\ job[p].pc = "floor" /\ plan[p] \in Wrappings /\ PlannerInv(p) /\ Placed(p)
      /\ counter' = counter \/ Bump("floored")
  BY DEF Floor, Inputting, IInv, TypeOK, PlannerInv
<1>2. counter' \in [Counters -> Nat]
  BY <1>1, BumpTyped DEF Counters, TypeOK
<1>. DEFINE ceiling == EffectiveCeiling(plan[p], Input(p))
            native == NativeRows(p)
            rows == Floored(native, job[p].rows)
            j == [job[p] EXCEPT !.pc = "apply", !.rows = rows]
<1>3. Input(p) \in Node
  BY <1>1, InputAhead
<1>4. ceiling \in Nat /\ job[p].proposed \in 0 .. MaxU64 /\ job[p].rows \in 0 .. MaxU64
  BY <1>1, <1>3, EffectiveTyped DEF JobType
<1>5. native \in 0 .. MaxU64
  <2>1. native \in RowCount
    BY <1>1 DEF NativeRows, JobType
  <2>2. native # Absent
    BY <1>1 DEF PlannerInv, Bounded
  <2>. QED  BY <2>1, <2>2 DEF RowCount
<1>6. job[p].rows >= Min2(job[p].proposed, ceiling) /\ job[p].rows <= ceiling
  BY <1>1 DEF PlannerInv, Bounded
<1>7. job' = [job EXCEPT ![p] = j]
  BY <1>1 DEF Floor, TypeOK
<1>. HIDE DEF ceiling, native
<1>8. /\ rows \in 0 .. MaxU64 /\ rows >= Min2(job[p].proposed, ceiling)
      /\ rows <= ceiling \/ rows = native
      /\ ~ options.below => rows >= native
  BY <1>4, <1>5, <1>6, StatisticsAssumption DEF Min2, Floored
<1>. HIDE DEF rows
<1>9. /\ j \in JobType /\ j.pc = "apply" /\ j.passes = job[p].passes /\ j.at = job[p].at
      /\ j.side = job[p].side /\ j.native = job[p].native /\ j.rows = rows /\ j.proposed = job[p].proposed
  BY <1>1, <1>8 DEF JobType, Pcs
<1>. HIDE DEF j
<1>10. job'[p] = j
  BY <1>1, <1>7 DEF TypeOK
<1>11. NativeRows(p)' = native /\ EffectiveCeiling(plan[p], Input(p))' = ceiling
  BY <1>1, <1>9, <1>10, SameInput DEF Inputting, ceiling, native
<1>12. native # Absent
  BY <1>5, StatisticsAssumption DEF Absent
<1>13. Bounded(p)'
  BY <1>1, <1>8, <1>9, <1>10, <1>11, <1>12 DEF Bounded
<1>. QED  BY <1>1, <1>2, <1>7, <1>9, <1>10, <1>13, WorkedOut

\* What is put around the input: its rows, and a size that is one, and that
\* does not shrink where the rows do not.
LEMMA CorrectedStatistics ==
  ASSUME IInv, NEW p \in Planner, job[p].pc = "apply"
  PROVE  /\ Corrected(p).rows = job[p].rows /\ Corrected(p).rows \in 0 .. MaxU64
         /\ Corrected(p) \in [rows : RowCount, bytes : RowCount]
         /\ Corrected(p) # Unwrapped
         /\ (NativeRows(p) <= job[p].rows /\ Corrected(p).bytes # Absent) =>
              Corrected(p).bytes >= PublishedBytes(plan[p], Input(p))
<1>. DEFINE bytes == PublishedBytes(plan[p], Input(p))
            native == NativeRows(p)
            rows == job[p].rows
            scaled == (bytes * rows + native - 1) \div native
<1>1. job[p] \in JobType /\ plan[p] \in Wrappings /\ Input(p) \in Node /\ PlannerInv(p)
  BY InputAhead DEF IInv, TypeOK, PlannerInv, Inputting
<1>2. bytes \in RowCount
  BY <1>1, StatisticsAssumption DEF PublishedBytes, Wrappings
<1>3. native \in 0 .. MaxU64
  <2>1. native \in RowCount
    BY <1>1 DEF NativeRows, JobType
  <2>2. native # Absent
    BY <1>1 DEF PlannerInv, Bounded
  <2>. QED  BY <2>1, <2>2 DEF RowCount
<1>4. rows \in 0 .. MaxU64
  BY <1>1 DEF JobType
<1>5. Corrected(p) = [rows |-> rows, bytes |-> ScaleByteSize(bytes, native, rows)]
  BY DEF Corrected
<1>. HIDE DEF bytes, native, rows
<1>6. ASSUME bytes # Absent, native # 0 PROVE scaled \in Nat /\ (native <= rows => scaled >= bytes)
  <2>1. bytes \in Nat /\ native \in Nat \ {0} /\ rows \in Nat
    BY <1>2, <1>3, <1>4, <1>6, StatisticsAssumption DEF RowCount
  <2>2. bytes * rows \in Nat
    BY <2>1, ProductMonotone
  <2>3. bytes * rows + native - 1 \in Nat
    BY <2>1, <2>2
  <2>4. ASSUME NEW a \in Nat PROVE a \div native \in Nat
    BY <2>1, <2>4, Z3
  <2>5. scaled \in Nat
    BY <2>3, <2>4
  <2>6. native <= rows => scaled >= bytes
    BY <2>1, ScaledUp
  <2>. QED  BY <2>5, <2>6
<1>. HIDE DEF scaled
<1>7. /\ ScaleByteSize(bytes, native, rows) \in RowCount
      /\ (native <= rows /\ ScaleByteSize(bytes, native, rows) # Absent) =>
           ScaleByteSize(bytes, native, rows) >= bytes
  <2>1. CASE bytes = Absent \/ native = 0
    BY <2>1 DEF ScaleByteSize, RowCount
  <2>2. CASE bytes # Absent /\ native # 0
    <3>1. ScaleByteSize(bytes, native, rows) = Min2(MaxU64, scaled)
      BY <2>2 DEF ScaleByteSize, scaled
    <3>2. bytes \in 0 .. MaxU64
      BY <1>2, <2>2 DEF RowCount
    <3>. QED  BY <1>6, <2>2, <3>1, <3>2, StatisticsAssumption DEF Min2, RowCount
  <2>. QED  BY <2>1, <2>2
<1>8. Corrected(p) \in [rows : RowCount, bytes : RowCount]
  BY <1>4, <1>5, <1>7 DEF RowCount
<1>9. Corrected(p).rows = rows /\ Corrected(p).bytes = ScaleByteSize(bytes, native, rows)
  BY <1>5
<1>10. Corrected(p) # Unwrapped
  BY <1>4, <1>9, StatisticsAssumption DEF Unwrapped, Absent
<1>11. (native <= rows /\ Corrected(p).bytes # Absent) => Corrected(p).bytes >= bytes
  BY <1>7, <1>9
<1>. QED  BY <1>4, <1>8, <1>9, <1>10, <1>11 DEF bytes, native, rows

LEMMA ApplyHolds ==
  ASSUME IInv, NEW p \in Planner, Apply(p)
  PROVE  /\ IInv' /\ Behind(p)' = Behind(p) \cup {Input(p)}
         /\ job[p].pc = "apply" /\ job' = [job EXCEPT ![p] = Onward(p)]
         /\ \/ UNCHANGED <<plan, counter>>
            \/ /\ Input(p) \notin Wrapped(p) /\ Wrapped(p)' = Wrapped(p) \cup {Input(p)}
               /\ \A q \in Planner \ {p} : Wrapped(q)' = Wrapped(q)
               /\ Bump("applied")
<1>1. /\ Inputting(p) /\ TypeOK /\ PlannerInv(p) /\ Placed(p) /\ UNCHANGED <<options, chain, installs>>
      /\ job[p].pc = "apply" /\ job' = [job EXCEPT ![p] = Onward(p)] /\ job'[p] = Onward(p)
      /\ plan[p] \in Wrappings
  BY DEF Apply, Inputting, IInv, TypeOK, PlannerInv
<1>2. CASE job[p].rows = NativeRows(p)
  <2>1. UNCHANGED <<plan, counter>>
    BY <1>2 DEF Apply
  <2>2. counter' \in [Counters -> Nat]
    BY <1>1, <2>1 DEF TypeOK
  <2>. QED  BY <1>1, <2>1, <2>2, PassedOver
<1>3. CASE job[p].rows # NativeRows(p)
  <2>. DEFINE n == Input(p)
              c == Corrected(p)
              w == plan[p]
              v == [w EXCEPT ![n] = c]
  <2>1. n \in Node /\ n \notin Behind(p) /\ \A m \in Behind(p) : n \notin Under(m)
    BY <1>1, InputAhead
  <2>2. /\ c.rows = job[p].rows /\ c.rows \in 0 .. MaxU64 /\ c \in [rows : RowCount, bytes : RowCount]
        /\ c # Unwrapped
        /\ (NativeRows(p) <= job[p].rows /\ c.bytes # Absent) => c.bytes >= PublishedBytes(w, n)
    BY <1>1, CorrectedStatistics
  <2>3. w[n] = Unwrapped
    BY <1>1, <2>1 DEF PlannerInv, Enveloped
  <2>4. plan' = [plan EXCEPT ![p][n] = c] /\ Bump("applied")
    BY <1>3 DEF Apply
  <2>. HIDE DEF n, c
  <2>5. plan' = [plan EXCEPT ![p] = v] /\ plan'[p] = v /\ \A q \in Planner \ {p} : plan'[q] = plan[q]
    BY <2>4, <1>1 DEF TypeOK
  <2>6. v \in Wrappings /\ v[n] = c /\ \A m \in Node \ {n} : v[m] = w[m]
    BY <1>1, <2>1, <2>2 DEF Wrappings
  <2>. HIDE DEF w, v
  <2>7. plan' \in [Planner -> Wrappings] /\ counter' \in [Counters -> Nat]
    BY <1>1, <2>4, <2>5, <2>6, BumpTyped DEF TypeOK, Counters
  <2>8. Behind(p)' = Behind(p) \cup {n}
    BY <1>1, OnwardLeaves DEF n
  <2>9. InEnvelope(v, n)
    <3>0. NativeRows(p) = EngineRows(PublishedRows(w), n) /\ EngineRows(PublishedRows(w), n) = EngineRows(PublishedRows(v), n)
      <4>1. NativeRows(p) = EngineRows(PublishedRows(w), n)
        <5>1. job[p].side \in {1, 2} /\ n = Target(p, job[p].at, job[p].side) /\ job[p].side >= job[p].side
          BY <1>1, InputAhead DEF n
        <5>. QED  BY <1>1, <5>1 DEF PlannerInv, Noted, NativeRows, w
      <4>2. EngineRows(PublishedRows(w), n) = EngineRows(PublishedRows(v), n)
        BY <2>1, <2>6, EngineElsewhere
      <4>. QED  BY <4>1, <4>2
    <3>1. ~ options.below => c.rows >= EngineRows(PublishedRows(v), n) /\ (c.bytes # Absent => c.bytes >= Bytes[n])
      <4>. SUFFICES ASSUME ~ options.below
                    PROVE  c.rows >= EngineRows(PublishedRows(v), n) /\ (c.bytes # Absent => c.bytes >= Bytes[n])
        OBVIOUS
      <4>1. job[p].rows >= NativeRows(p)
        BY <1>1 DEF PlannerInv, Bounded
      <4>2. NativeRows(p) \in Int
        <5>1. NativeRows(p) \in RowCount
          BY <1>1 DEF NativeRows, TypeOK, JobType
        <5>. QED  BY <5>1, StatisticsAssumption DEF RowCount, Absent
      <4>3. c.rows \in Int
        BY <2>2
      <4>4. PublishedBytes(w, n) = Bytes[n]
        BY <2>3 DEF PublishedBytes
      <4>. QED  BY <2>2, <3>0, <4>1, <4>2, <4>3, <4>4
    <3>2. /\ c.rows <= Min2(options.ceiling, SafeMaxRows)
          /\ options.derive => c.rows <= DerivedCeiling([v EXCEPT ![n] = Unwrapped], n)
      <4>1. [v EXCEPT ![n] = Unwrapped] = w
        BY <1>1, <2>1, <2>3 DEF v, w, Wrappings
      <4>2. c.rows <= EffectiveCeiling(w, n)
        BY <1>1, <1>3, <2>2 DEF PlannerInv, Bounded, w, n
      <4>3. w \in Wrappings
        BY <1>1 DEF w
      <4>4. /\ options.ceiling \in 0 .. MaxU64 /\ EffectiveCeiling(w, n) \in Nat
            /\ EffectiveCeiling(w, n) <= Min2(options.ceiling, SafeMaxRows)
            /\ options.derive => EffectiveCeiling(w, n) <= DerivedCeiling(w, n)
            /\ DerivedCeiling(w, n) \in 0 .. MaxU64
        BY <1>1, <2>1, <4>3, EffectiveTyped, DerivedTyped
      <4>5. DerivedCeiling([v EXCEPT ![n] = Unwrapped], n) = DerivedCeiling(w, n)
        BY <4>1
      <4>6. Min2(options.ceiling, SafeMaxRows) \in Nat
        BY <4>4, StatisticsAssumption DEF Min2
      <4>7. c.rows <= Min2(options.ceiling, SafeMaxRows) /\ (options.derive => c.rows <= DerivedCeiling(w, n))
        BY <2>2, <4>2, <4>4, <4>6
      <4>. QED  BY <4>5, <4>7
    <3>. QED  BY <2>2, <2>6, <3>1, <3>2 DEF InEnvelope
  <2>10. ASSUME NEW m \in Node, m # n, v[m] # Unwrapped PROVE m \in Behind(p) /\ InEnvelope(v, m)
    <3>1. v[m] = w[m] /\ w[m] # Unwrapped
      BY <2>6, <2>10
    <3>2. m \in Behind(p) /\ InEnvelope(w, m)
      BY <1>1, <3>1 DEF PlannerInv, Enveloped, w
    <3>3. DerivedCeiling([v EXCEPT ![m] = Unwrapped], m) = DerivedCeiling([w EXCEPT ![m] = Unwrapped], m)
      <4>1. \A x \in Node \ {n} : [v EXCEPT ![m] = Unwrapped][x] = [w EXCEPT ![m] = Unwrapped][x]
        BY <1>1, <2>6 DEF w, Wrappings
      <4>2. n \notin Under(m)
        BY <2>1, <3>2
      <4>. DEFINE without == [v EXCEPT ![m] = Unwrapped]
                  before == [w EXCEPT ![m] = Unwrapped]
      <4>3. \A x \in Node \ {n} : without[x] = before[x]
        BY <4>1
      <4>. HIDE DEF without, before
      <4>4. DerivedCeiling(without, m) = DerivedCeiling(before, m)
        BY <2>1, <4>2, <4>3, DerivedElsewhere
      <4>. QED  BY <4>4 DEF without, before
    <3>4. EngineRows(PublishedRows(w), m) = EngineRows(PublishedRows(v), m)
      BY <2>1, <2>6, <3>2, EngineElsewhere
    <3>. QED  BY <3>1, <3>2, <3>3, <3>4 DEF InEnvelope
  <2>11. Enveloped(p)'
    <3>1. \A m \in Node : InEnvelope(v, m) => InEnvelope(plan[p], m)'
      BY <1>1, <2>5 DEF InEnvelope
    <3>. QED  BY <2>5, <2>8, <2>9, <2>10, <3>1 DEF Enveloped
  <2>12. PlannerInv(p)'
    <3>1. \A x \in Node \ {Input(p)} : plan'[p][x] = plan[p][x]
      BY <2>5, <2>6 DEF n, w
    <3>. QED  BY <1>1, <2>11, <3>1, GoesOn DEF PlannerInv
  <2>13. Onward(p) \in JobType
    BY <1>1, OnwardGoes
  <2>14. IInv'
    BY <1>1, <2>5, <2>7, <2>12, <2>13, OneSteps
  <2>15. n \notin Wrapped(p) /\ Wrapped(p)' = Wrapped(p) \cup {n}
    BY <2>1, <2>2, <2>3, <2>5, <2>6 DEF Wrapped, w
  <2>16. \A q \in Planner \ {p} : Wrapped(q)' = Wrapped(q)
    BY <2>5 DEF Wrapped
  <2>. QED  BY <1>1, <2>4, <2>8, <2>14, <2>15, <2>16 DEF n
<1>. QED  BY <1>2, <1>3

LEMMA Inductive ==
  ASSUME IInv, [Next]_vars
  PROVE  IInv'
<1>1. CASE Install
  BY <1>1, InstallHolds
<1>2. ASSUME NEW p \in Planner, Step(p) PROVE IInv'
  <2>1. CASE Optimize(p)
    BY <2>1, OptimizeHolds
  <2>2. CASE Visit(p)
    BY <2>2, VisitHolds
  <2>3. CASE Attempt(p)
    BY <2>3, AttemptHolds
  <2>4. CASE Abstain(p) \/ Fail(p)
    BY <2>4, AbstainHolds
  <2>5. CASE \E v \in Proposals : Propose(p, v)
    BY <2>5, ProposeHolds
  <2>6. CASE Clamp(p)
    BY <2>6, ClampHolds
  <2>7. CASE Floor(p)
    BY <2>7, FloorHolds
  <2>8. CASE Apply(p)
    BY <2>8, ApplyHolds
  <2>. QED  BY <1>2, <2>1, <2>2, <2>3, <2>4, <2>5, <2>6, <2>7, <2>8 DEF Step
<1>3. CASE UNCHANGED vars
  <2>1. TypeOK'
    BY <1>3 DEF IInv, TypeOK, Copies, vars
  <2>2. \A p \in Planner : PlannerInv(p)'
    BY <1>3, Idle DEF IInv, vars
  <2>. QED  BY <2>1, <2>2 DEF IInv
<1>. QED  BY <1>1, <1>2, <1>3 DEF Next

LEMMA Invariant == Spec => []IInv
BY InitHolds, Inductive, PTL DEF Spec

\* The types of every state, for any plans, statistics and number of planners;
\* the rule is in a session at most once, however often it is installed
\* (install_pre_join_corrector).
THEOREM Typed == Spec => []TypeOK
<1>1. IInv => TypeOK
  BY DEF IInv
<1>. QED  BY <1>1, Invariant, PTL

----------------------------------------------------------------------------
(* What the plans publish.                                                 *)

\* Corrections stay between what DataFusion says of the corrected node and what
\* its inputs, the operator and the sanity cap allow, for any plan, any answers
\* and any estimates, a product that overflows included (correct_input).
THEOREM StaysWithinEnvelope == Spec => []WithinEnvelope
<1>1. IInv => WithinEnvelope
  <2>. SUFFICES ASSUME IInv PROVE WithinEnvelope
    OBVIOUS
  <2>1. NeverLowered
    BY DEF NeverLowered, IInv, PlannerInv, Enveloped, InEnvelope, Wrapped
  <2>2. MemoryMonotone
    <3>. SUFFICES ASSUME ~ options.below, NEW p \in Planner
                  PROVE  \A n \in Node :
                           PublishedRows(plan[p])[n] >= Native[n] \/ \E m \in Under(n) : Overflowed(p, m)
      BY DEF MemoryMonotone
    <3>. DEFINE rows == PublishedRows(plan[p])
                S == {n \in Node : rows[n] >= Native[n] \/ \E m \in Under(n) : Overflowed(p, m)}
    <3>1. plan[p] \in Wrappings /\ [n \in Node |-> Unwrapped] \in Wrappings
      BY DEF IInv, TypeOK, Wrappings, Unwrapped, RowCount
    <3>2. rows \in [Node -> RowCount] /\ Native \in [Node -> RowCount]
      BY <3>1, PublishedTyped DEF Native
    <3>3. rows = [n \in Node |-> RowsOf(plan[p], rows, n)]
      BY Published
    <3>4. ASSUME NEW n \in Node PROVE rows[n] >= EngineRows(rows, n) /\ EngineRows(rows, n) \in RowCount
      <4>1. \A k \in DOMAIN Inputs[n] : rows[Inputs[n][k]] \in RowCount
        <5>. HIDE DEF rows
        <5>. QED  BY <3>2, Heights
      <4>2. EngineRows(rows, n) \in RowCount
        BY <3>1, <4>1, RowsTyped
      <4>3. rows[n] = RowsOf(plan[p], rows, n)
        <5>. HIDE DEF rows
        <5>. QED  BY <3>3
      <4>4. CASE plan[p][n] # Unwrapped
        BY <2>1, <4>2, <4>3, <4>4 DEF NeverLowered, Wrapped, RowsOf
      <4>5. CASE plan[p][n] = Unwrapped
        <5>1. rows[n] = EngineRows(rows, n)
          BY <4>3, <4>5 DEF RowsOf
        <5>. QED  BY <4>2, <5>1, StatisticsAssumption DEF RowCount, Absent
      <4>. QED  BY <4>2, <4>4, <4>5
    <3>. HIDE DEF rows
    <3>5. ASSUME NEW n \in Node, \A k \in DOMAIN Inputs[n] : Inputs[n][k] \in S PROVE n \in S
      <4>1. CASE \A k \in DOMAIN Inputs[n] : rows[Inputs[n][k]] >= Native[Inputs[n][k]]
        <5>1. rows[n] \in Int /\ Native[n] \in Int /\ EngineRows(rows, n) \in Int /\ rows[n] >= EngineRows(rows, n)
          BY <3>2, <3>4, StatisticsAssumption DEF RowCount, Absent
        <5>2. EngineRows(rows, n) < Native[n] => Overflowed(p, n)
          BY <4>1 DEF Overflowed, rows
        <5>3. n \in Under(n)
          BY Itself
        <5>4. rows[n] >= Native[n] \/ EngineRows(rows, n) < Native[n]
          BY <5>1
        <5>. QED  BY <5>2, <5>3, <5>4
      <4>2. CASE \E k \in DOMAIN Inputs[n] : ~ (rows[Inputs[n][k]] >= Native[Inputs[n][k]])
        <5>1. PICK k \in DOMAIN Inputs[n] : ~ (rows[Inputs[n][k]] >= Native[Inputs[n][k]])
          BY <4>2
        <5>2. PICK m \in Under(Inputs[n][k]) : Overflowed(p, m)
          BY <3>5, <5>1
        <5>3. m \in Under(n)
          BY FurtherBelow
        <5>. QED  BY <5>2, <5>3
      <4>. QED  BY <4>1, <4>2
    <3>6. S = Node
      <4>1. S \in SUBSET Node
        OBVIOUS
      <4>. HIDE DEF S
      <4>. QED  BY <3>5, <4>1, FromTheLeaves
    <3>. QED  BY <3>6 DEF rows
  <2>3. BoundedByInputs
    BY DEF BoundedByInputs, IInv, PlannerInv, Enveloped, InEnvelope, Wrapped
  <2>. QED  BY <2>1, <2>2, <2>3 DEF WithinEnvelope
<1>. QED  BY <1>1, Invariant, PTL

\* Where the inputs' statistics are honest, a proposal that reaches the rows
\* an inner join, a filter, a scan or another operator emits is cut below
\* them by the operator's ceiling and the sanity cap alone
\* (derive_input_ceiling).
THEOREM TruthIsNotCut == Spec => []TruthSurvives
<1>1. IInv => TruthSurvives
  <2>. SUFFICES ASSUME IInv, NEW p \in Planner, job[p].pc = "apply",
                       Kind[Input(p)] \in {"inner", "filter", "scan", "other"}, ChildrenHonest(plan[p], Input(p))
                PROVE  job[p].rows >= Min2(Min2(job[p].proposed, TrueRows[Input(p)]),
                                           Min2(options.ceiling, SafeMaxRows))
    BY DEF TruthSurvives, TruthSurvivesIn
  <2>. DEFINE n == Input(p)
              ceiling == EffectiveCeiling(plan[p], n)
              derived == DerivedCeiling(plan[p], n)
  <2>1. job[p] \in JobType /\ plan[p] \in Wrappings /\ n \in Node /\ TypeOK
    BY InputAhead DEF IInv, TypeOK, PlannerInv, Inputting
  <2>2. job[p].rows >= Min2(job[p].proposed, ceiling)
    BY DEF IInv, PlannerInv, Bounded
  <2>3. /\ options.ceiling \in 0 .. MaxU64 /\ ceiling \in Nat
        /\ ceiling >= Min2(Min2(options.ceiling, SafeMaxRows), derived)
    BY <2>1, EffectiveTyped
  <2>4. derived >= Min2(MaxU64, TrueRows[n]) /\ derived \in 0 .. MaxU64
    BY <2>1, DerivedIsCeiling, DerivedTyped
  <2>5. job[p].rows \in 0 .. MaxU64 /\ job[p].proposed \in 0 .. MaxU64 /\ TrueRows[n] \in Nat
    BY <2>1, StatisticsAssumption DEF JobType
  <2>. HIDE DEF n, ceiling, derived
  <2>6. job[p].rows >= Min2(Min2(job[p].proposed, TrueRows[n]), Min2(options.ceiling, SafeMaxRows))
    BY <2>2, <2>3, <2>4, <2>5, StatisticsAssumption DEF Min2
  <2>. QED  BY <2>6 DEF n
<1>. QED  BY <1>1, Invariant, PTL

----------------------------------------------------------------------------
(* What the counters say.                                                  *)

LEMMA Finiteness ==
  /\ IsFiniteSet(Planner \X Node) /\ IsFiniteSet(JoinInputs) /\ IsFiniteSet(Wrappers)
  /\ IsFiniteSet(Tried) /\ \A pcs : IsFiniteSet(At(pcs))
  /\ Cardinality(JoinInputs) \in Nat /\ Cardinality(Wrappers) \in Nat /\ Cardinality(Tried) \in Nat
<1>1. IsFiniteSet(Planner \X Node)
  BY PlanAssumption, FS_Product
<1>2. /\ JoinInputs \in SUBSET (Planner \X Node) /\ Wrappers \in SUBSET (Planner \X Node)
      /\ Tried \in SUBSET (Planner \X Node) /\ \A pcs : At(pcs) \in SUBSET Planner
  BY DEF JoinInputs, Wrappers, Tried, At
<1>3. \A pcs : IsFiniteSet(At(pcs))
  BY <1>2, PlanAssumption, FS_Subset
<1>. QED  BY <1>1, <1>2, <1>3, FS_Subset, FS_CardinalityType

\* The planners at one of some steps, when p goes from one step to another.
LEMMA AtMoves ==
  ASSUME NEW p \in Planner, \A q \in Planner \ {p} : job'[q] = job[q], NEW pcs
  PROVE  /\ Cardinality(At(pcs)) \in Nat /\ Cardinality(At(pcs)') \in Nat
         /\ (job[p].pc \in pcs <=> job'[p].pc \in pcs) => Cardinality(At(pcs)') = Cardinality(At(pcs))
         /\ (job[p].pc \notin pcs /\ job'[p].pc \in pcs) => Cardinality(At(pcs)') = Cardinality(At(pcs)) + 1
         /\ (job[p].pc \in pcs /\ job'[p].pc \notin pcs) => Cardinality(At(pcs)') = Cardinality(At(pcs)) - 1
<1>. DEFINE A == At(pcs)
            B == {q \in Planner : job'[q].pc \in pcs}
<1>1. At(pcs)' = B
  BY DEF At
<1>2. IsFiniteSet(A) /\ Cardinality(A) \in Nat
  BY Finiteness, FS_CardinalityType
<1>3. (job[p].pc \in pcs <=> job'[p].pc \in pcs) => B = A
  BY DEF At
<1>4. (job[p].pc \notin pcs /\ job'[p].pc \in pcs) => B = A \cup {p} /\ p \notin A
  BY DEF At
<1>5. (job[p].pc \in pcs /\ job'[p].pc \notin pcs) => B = A \ {p} /\ p \in A
  BY DEF At
<1>6. /\ IsFiniteSet(B) /\ Cardinality(B) \in Nat
  <2>1. B \in SUBSET Planner
    OBVIOUS
  <2>. QED  BY <2>1, PlanAssumption, FS_Subset, FS_CardinalityType
<1>. HIDE DEF A, B
<1>7. Cardinality(A \cup {p}) = IF p \in A THEN Cardinality(A) ELSE Cardinality(A) + 1
  BY <1>2, FS_AddElement
<1>8. Cardinality(A \ {p}) = IF p \in A THEN Cardinality(A) - 1 ELSE Cardinality(A)
  BY <1>2, FS_RemoveElement
<1>9. /\ Cardinality(A) \in Nat /\ Cardinality(B) \in Nat
      /\ (job[p].pc \in pcs <=> job'[p].pc \in pcs) => Cardinality(B) = Cardinality(A)
      /\ (job[p].pc \notin pcs /\ job'[p].pc \in pcs) => Cardinality(B) = Cardinality(A) + 1
      /\ (job[p].pc \in pcs /\ job'[p].pc \notin pcs) => Cardinality(B) = Cardinality(A) - 1
  <2>1. (job[p].pc \notin pcs /\ job'[p].pc \in pcs) => Cardinality(B) = Cardinality(A) + 1
    BY <1>4, <1>7
  <2>2. (job[p].pc \in pcs /\ job'[p].pc \notin pcs) => Cardinality(B) = Cardinality(A) - 1
    BY <1>5, <1>8
  <2>. QED  BY <1>2, <1>3, <1>6, <2>1, <2>2
<1>. QED  BY <1>1, <1>9 DEF A

\* What p has tried, in what it leaves behind and works on.
LEMMA TriedMoves ==
  ASSUME NEW p \in Planner, \A q \in Planner \ {p} : job'[q] = job[q]
  PROVE  /\ Cardinality(Tried) \in Nat /\ Cardinality(Tried') \in Nat
         /\ TriedBy(p) \subseteq TriedBy(p)' => Cardinality(Tried) <= Cardinality(Tried')
         /\ \A n \in Node \ TriedBy(p) :
              TriedBy(p)' = TriedBy(p) \cup {n} => Cardinality(Tried') = Cardinality(Tried) + 1
<1>1. ASSUME NEW q \in Planner \ {p} PROVE TriedBy(q)' = TriedBy(q)
  <2>1. job'[q] = job[q]
    OBVIOUS
  <2>. QED  BY <2>1 DEF TriedBy, Behind, Left, Target, Input, InFlight
<1>2. /\ IsFiniteSet(Tried) /\ Cardinality(Tried) \in Nat
      /\ IsFiniteSet(Tried') /\ Cardinality(Tried') \in Nat
  <2>1. Tried' \in SUBSET (Planner \X Node) /\ Tried \in SUBSET (Planner \X Node)
    BY DEF Tried
  <2>. QED  BY <2>1, Finiteness, FS_Subset, FS_CardinalityType
<1>3. TriedBy(p) \subseteq TriedBy(p)' => Cardinality(Tried) <= Cardinality(Tried')
  <2>1. TriedBy(p) \subseteq TriedBy(p)' => Tried \subseteq Tried'
    BY <1>1 DEF Tried
  <2>. QED  BY <1>2, <2>1, FS_Subset
<1>4. ASSUME NEW n \in Node \ TriedBy(p), TriedBy(p)' = TriedBy(p) \cup {n}
      PROVE  Cardinality(Tried') = Cardinality(Tried) + 1
  <2>1. Tried' = Tried \cup {<<p, n>>} /\ <<p, n>> \notin Tried
    BY <1>1, <1>4 DEF Tried
  <2>. QED  BY <1>2, <2>1, FS_AddElement
<1>. QED  BY <1>2, <1>3, <1>4

LEMMA CountedInit ==
  ASSUME Init
  PROVE  Counted
<1>1. /\ counter = [c \in Counters |-> 0] /\ Wrappers = {} /\ InFlight = {}
      /\ At({"ask", "clamp"}) = {} /\ At({"ask", "clamp", "floor"}) = {}
  BY DEF Init, Wrappers, Wrapped, InFlight, At
<1>2. \A c \in Counters : counter[c] = 0
  BY <1>1
<1>3. /\ counter.attempts = 0 /\ counter.applied = 0 /\ counter.abstained = 0 /\ counter.errors = 0
      /\ counter.clamped = 0 /\ counter.floored = 0
  BY <1>2 DEF Counters
<1>4. Cardinality({}) = 0
  BY FS_EmptySet
<1>5. /\ Cardinality(Wrappers) = 0 /\ Cardinality(InFlight) = 0 /\ Cardinality(Tried) \in Nat
      /\ Cardinality(At({"ask", "clamp"})) = 0 /\ Cardinality(At({"ask", "clamp", "floor"})) = 0
  BY <1>1, <1>4, Finiteness
<1>. QED  BY <1>3, <1>5 DEF Counted

LEMMA OthersWait ==
  ASSUME TypeOK, NEW p \in Planner, Step(p)
  PROVE  \A q \in Planner \ {p} : job'[q] = job[q]
BY DEF Step, Optimize, Visit, Attempt, Abstain, Fail, Propose, Clamp, Floor, Apply, TypeOK

LEMMA Bumped ==
  ASSUME TypeOK, NEW c \in Counters, Bump(c)
  PROVE  counter'[c] = counter[c] + 1 /\ \A d \in Counters \ {c} : counter'[d] = counter[d]
BY DEF TypeOK, Bump

\* The attempts in flight move on with p.
LEMMA FlightMoves ==
  ASSUME NEW p \in Planner, \A q \in Planner \ {p} : job'[q] = job[q],
         NEW F, F = Cardinality(InFlight), NEW C, C = Cardinality(At({"ask", "clamp"})),
         NEW L, L = Cardinality(At({"ask", "clamp", "floor"})),
         NEW G, G = Cardinality(InFlight'), NEW D, D = Cardinality(At({"ask", "clamp"})'),
         NEW M, M = Cardinality(At({"ask", "clamp", "floor"})')
  PROVE  /\ F \in Nat /\ C \in Nat /\ L \in Nat /\ G \in Nat /\ D \in Nat /\ M \in Nat
         /\ (job[p].pc \in {"start", "visit", "input"} /\ job'[p].pc \in {"visit", "input", "planned"}) =>
              G = F /\ D = C /\ M = L
         /\ (job[p].pc = "input" /\ job'[p].pc = "ask") => G = F + 1 /\ D = C + 1 /\ M = L + 1
         /\ (job[p].pc = "ask" /\ job'[p].pc \in {"input", "visit"}) => G = F - 1 /\ D = C - 1 /\ M = L - 1
         /\ (job[p].pc = "ask" /\ job'[p].pc = "clamp") => G = F /\ D = C /\ M = L
         /\ (job[p].pc = "clamp" /\ job'[p].pc = "floor") => G = F /\ D = C - 1 /\ M = L
         /\ (job[p].pc = "floor" /\ job'[p].pc = "apply") => G = F /\ D = C /\ M = L - 1
         /\ (job[p].pc = "apply" /\ job'[p].pc \in {"input", "visit"}) => G = F - 1 /\ D = C /\ M = L
<1>. DEFINE all == {"ask", "clamp", "floor", "apply"}
            early == {"ask", "clamp"}
            open == {"ask", "clamp", "floor"}
<1>1. InFlight = At(all) /\ InFlight' = At(all)'
  BY DEF InFlight, At
<1>2. /\ F \in Nat /\ G \in Nat
      /\ (job[p].pc \in all <=> job'[p].pc \in all) => G = F
      /\ (job[p].pc \notin all /\ job'[p].pc \in all) => G = F + 1
      /\ (job[p].pc \in all /\ job'[p].pc \notin all) => G = F - 1
  BY <1>1, AtMoves
<1>3. /\ C \in Nat /\ D \in Nat
      /\ (job[p].pc \in early <=> job'[p].pc \in early) => D = C
      /\ (job[p].pc \notin early /\ job'[p].pc \in early) => D = C + 1
      /\ (job[p].pc \in early /\ job'[p].pc \notin early) => D = C - 1
  BY AtMoves
<1>4. /\ L \in Nat /\ M \in Nat
      /\ (job[p].pc \in open <=> job'[p].pc \in open) => M = L
      /\ (job[p].pc \notin open /\ job'[p].pc \in open) => M = L + 1
      /\ (job[p].pc \in open /\ job'[p].pc \notin open) => M = L - 1
  BY AtMoves
<1>5. /\ F \in Nat /\ C \in Nat /\ L \in Nat /\ G \in Nat /\ D \in Nat /\ M \in Nat
  BY <1>2, <1>3, <1>4
<1>6. ASSUME job[p].pc \in {"start", "visit", "input"}, job'[p].pc \in {"visit", "input", "planned"}
      PROVE  G = F /\ D = C /\ M = L
  BY <1>2, <1>3, <1>4, <1>6
<1>7. ASSUME job[p].pc = "input", job'[p].pc = "ask" PROVE G = F + 1 /\ D = C + 1 /\ M = L + 1
  BY <1>2, <1>3, <1>4, <1>7
<1>8. ASSUME job[p].pc = "ask", job'[p].pc \in {"input", "visit"} PROVE G = F - 1 /\ D = C - 1 /\ M = L - 1
  BY <1>2, <1>3, <1>4, <1>8
<1>9. ASSUME job[p].pc = "ask", job'[p].pc = "clamp" PROVE G = F /\ D = C /\ M = L
  BY <1>2, <1>3, <1>4, <1>9
<1>10. ASSUME job[p].pc = "clamp", job'[p].pc = "floor" PROVE G = F /\ D = C - 1 /\ M = L
  BY <1>2, <1>3, <1>4, <1>10
<1>11. ASSUME job[p].pc = "floor", job'[p].pc = "apply" PROVE G = F /\ D = C /\ M = L - 1
  BY <1>2, <1>3, <1>4, <1>11
<1>12. ASSUME job[p].pc = "apply", job'[p].pc \in {"input", "visit"} PROVE G = F - 1 /\ D = C /\ M = L
  BY <1>2, <1>3, <1>4, <1>12
<1>. QED  BY <1>5, <1>6, <1>7, <1>8, <1>9, <1>10, <1>11, <1>12

LEMMA WrappersStay ==
  ASSUME plan' = plan
  PROVE  Wrappers' = Wrappers
BY DEF Wrappers, Wrapped

\* A step of a planner, in the numbers of attempts, wrappers and planners.
LEMMA CountedStep ==
  ASSUME IInv, IInv', Counted, NEW p \in Planner, Step(p)
  PROVE  Counted'
<1>. DEFINE T == Cardinality(Tried)
            W == Cardinality(Wrappers)
            F == Cardinality(InFlight)
            C == Cardinality(At({"ask", "clamp"}))
            L == Cardinality(At({"ask", "clamp", "floor"}))
            T1 == Cardinality(Tried')
            W1 == Cardinality(Wrappers')
            F1 == Cardinality(InFlight')
            C1 == Cardinality(At({"ask", "clamp"})')
            L1 == Cardinality(At({"ask", "clamp", "floor"})')
            now == /\ counter["attempts"] <= T /\ counter["applied"] = W
                   /\ counter["applied"] + F + counter["abstained"] + counter["errors"] <= counter["attempts"]
                   /\ counter["clamped"] + C + counter["abstained"] + counter["errors"] <= counter["attempts"]
                   /\ counter["floored"] + L + counter["abstained"] + counter["errors"] <= counter["attempts"]
            next == /\ counter'["attempts"] <= T1 /\ counter'["applied"] = W1
                    /\ counter'["applied"] + F1 + counter'["abstained"] + counter'["errors"] <= counter'["attempts"]
                    /\ counter'["clamped"] + C1 + counter'["abstained"] + counter'["errors"] <= counter'["attempts"]
                    /\ counter'["floored"] + L1 + counter'["abstained"] + counter'["errors"] <= counter'["attempts"]
<1>1. now
  BY DEF Counted
<1>2. ASSUME next PROVE Counted'
  BY <1>2 DEF Counted
<1>3. /\ TypeOK /\ Placed(p) /\ job[p] \in JobType /\ job'[p] \in JobType
      /\ \A q \in Planner \ {p} : job'[q] = job[q]
  BY OthersWait DEF IInv, TypeOK, PlannerInv
<1>4. \A c \in Counters : counter[c] \in Nat /\ counter'[c] \in Nat
  BY DEF IInv, TypeOK
<1>5. /\ T \in Nat /\ T1 \in Nat
      /\ TriedBy(p) \subseteq TriedBy(p)' => T <= T1
      /\ \A n \in Node \ TriedBy(p) : TriedBy(p)' = TriedBy(p) \cup {n} => T1 = T + 1
  BY <1>3, TriedMoves
<1>6. W \in Nat /\ (plan' = plan => W1 = W)
  BY Finiteness, WrappersStay
<1>7. /\ F \in Nat /\ C \in Nat /\ L \in Nat /\ F1 \in Nat /\ C1 \in Nat /\ L1 \in Nat
      /\ (job[p].pc \in {"start", "visit", "input"} /\ job'[p].pc \in {"visit", "input", "planned"}) =>
           F1 = F /\ C1 = C /\ L1 = L
      /\ (job[p].pc = "input" /\ job'[p].pc = "ask") => F1 = F + 1 /\ C1 = C + 1 /\ L1 = L + 1
      /\ (job[p].pc = "ask" /\ job'[p].pc \in {"input", "visit"}) => F1 = F - 1 /\ C1 = C - 1 /\ L1 = L - 1
      /\ (job[p].pc = "ask" /\ job'[p].pc = "clamp") => F1 = F /\ C1 = C /\ L1 = L
      /\ (job[p].pc = "clamp" /\ job'[p].pc = "floor") => F1 = F /\ C1 = C - 1 /\ L1 = L
      /\ (job[p].pc = "floor" /\ job'[p].pc = "apply") => F1 = F /\ C1 = C /\ L1 = L - 1
      /\ (job[p].pc = "apply" /\ job'[p].pc \in {"input", "visit"}) => F1 = F - 1 /\ C1 = C /\ L1 = L
  BY <1>3, FlightMoves
<1>8. /\ p \in InFlight <=> job[p].pc \in {"ask", "clamp", "floor", "apply"}
      /\ p \in InFlight' <=> job'[p].pc \in {"ask", "clamp", "floor", "apply"}
  BY DEF InFlight
<1>9. Inputting(p) => Input(p) \in Node /\ Input(p) \notin Behind(p)
  BY <1>3, InputAhead
<1>10. Inputting(p) => Onward(p).pc \in {"input", "visit"}
  BY <1>3, OnwardGoes
<1>. HIDE DEF T, W, F, C, L, T1, W1, F1, C1, L1
<1>11. CASE Optimize(p) \/ Visit(p)
  <2>1. /\ job[p].pc \in {"start", "visit"} /\ job'[p].pc \in {"visit", "input", "planned"}
        /\ counter' = counter /\ plan' = plan
    <3>1. CASE Optimize(p)
      BY <3>1 DEF Optimize, IInv, TypeOK
    <3>2. CASE Visit(p)
      <4>1. /\ job[p].pc = "visit" /\ counter' = counter /\ plan' = plan
            /\ \/ job' = [job EXCEPT ![p].pc = "planned"]
               \/ job' = [job EXCEPT ![p].passes = @ - 1, ![p].at = 1]
               \/ \E rows : job' = [job EXCEPT ![p].pc = "input", ![p].side = 1, ![p].native = rows]
        BY <3>2 DEF Visit
      <4>. QED  BY <1>3, <4>1 DEF IInv, TypeOK, JobType
    <3>. QED  BY <1>11, <3>1, <3>2
  <2>2. Behind(p) \subseteq Behind(p)'
    BY <1>11, OptimizeHolds, VisitHolds
  <2>3. TriedBy(p) \subseteq TriedBy(p)'
    BY <1>8, <2>1, <2>2 DEF TriedBy
  <2>4. T <= T1 /\ W1 = W /\ F1 = F /\ C1 = C /\ L1 = L
    BY <1>5, <1>6, <1>7, <2>1, <2>3
  <2>. QED  BY <1>1, <1>2, <1>4, <1>5, <2>1, <2>4 DEF Counters
<1>12. CASE Attempt(p) /\ NativeRows(p) = Absent
  <2>1. /\ job[p].pc = "input" /\ job' = [job EXCEPT ![p] = Onward(p)]
        /\ counter' = counter /\ plan' = plan /\ Inputting(p)
    BY <1>12 DEF Attempt, Inputting
  <2>2. job'[p].pc \in {"input", "visit"}
    BY <1>10, <2>1 DEF IInv, TypeOK
  <2>3. Behind(p)' = Behind(p) \cup {Input(p)}
    BY <1>12, AttemptHolds
  <2>4. TriedBy(p) \subseteq TriedBy(p)'
    BY <1>8, <2>1, <2>3 DEF TriedBy
  <2>5. T <= T1 /\ W1 = W /\ F1 = F /\ C1 = C /\ L1 = L
    BY <1>5, <1>6, <1>7, <2>1, <2>2, <2>4
  <2>. QED  BY <1>1, <1>2, <1>4, <1>5, <2>1, <2>5 DEF Counters
<1>13. CASE Attempt(p) /\ NativeRows(p) # Absent
  <2>1. job[p].pc = "input" /\ Bump("attempts") /\ plan' = plan /\ Inputting(p)
    BY <1>13 DEF Attempt, Inputting
  <2>2. job'[p].pc = "ask" /\ Behind(p)' = Behind(p) /\ Input(p)' = Input(p)
    BY <1>13, AttemptHolds
  <2>3. Input(p) \in Node \ TriedBy(p) /\ TriedBy(p)' = TriedBy(p) \cup {Input(p)}
    BY <1>8, <1>9, <2>1, <2>2 DEF TriedBy
  <2>4. T1 = T + 1 /\ W1 = W /\ F1 = F + 1 /\ C1 = C + 1 /\ L1 = L + 1
    BY <1>5, <1>6, <1>7, <2>1, <2>2, <2>3
  <2>5. counter'["attempts"] = counter["attempts"] + 1 /\ \A d \in Counters \ {"attempts"} : counter'[d] = counter[d]
    BY <1>3, <2>1, Bumped DEF Counters
  <2>. QED  BY <1>1, <1>2, <1>4, <1>5, <1>6, <1>7, <2>4, <2>5 DEF Counters
<1>14. CASE Abstain(p) \/ Fail(p)
  <2>1. plan' = plan /\ Inputting(p) /\ (Bump("abstained") \/ Bump("errors"))
    BY <1>14 DEF Abstain, Fail, Inputting
  <2>2. job[p].pc = "ask" /\ job' = [job EXCEPT ![p] = Onward(p)] /\ Behind(p)' = Behind(p) \cup {Input(p)}
    BY <1>14, AbstainHolds
  <2>3. job'[p].pc \in {"input", "visit"}
    BY <1>10, <2>1, <2>2 DEF IInv, TypeOK
  <2>4. TriedBy(p) \subseteq TriedBy(p)'
    BY <2>2 DEF TriedBy
  <2>5. T <= T1 /\ W1 = W /\ F1 = F - 1 /\ C1 = C - 1 /\ L1 = L - 1
    BY <1>5, <1>6, <1>7, <2>1, <2>2, <2>3, <2>4
  <2>6. \E c \in {"abstained", "errors"} :
          counter'[c] = counter[c] + 1 /\ \A d \in Counters \ {c} : counter'[d] = counter[d]
    BY <1>3, <2>1, Bumped DEF Counters
  <2>. QED  BY <1>1, <1>2, <1>4, <1>5, <1>6, <1>7, <2>5, <2>6 DEF Counters
<1>15. ASSUME NEW rows \in Proposals, Propose(p, rows) PROVE Counted'
  <2>1. plan' = plan /\ counter' = counter
    BY <1>15 DEF Propose
  <2>2. job[p].pc = "ask" /\ job'[p].pc = "clamp" /\ Behind(p)' = Behind(p) /\ Input(p)' = Input(p)
    BY <1>15, ProposeHolds
  <2>3. TriedBy(p) \subseteq TriedBy(p)'
    BY <1>8, <2>2 DEF TriedBy
  <2>4. T <= T1 /\ W1 = W /\ F1 = F /\ C1 = C /\ L1 = L
    BY <1>5, <1>6, <1>7, <2>1, <2>2, <2>3
  <2>. QED  BY <1>1, <1>2, <1>4, <1>5, <2>1, <2>4 DEF Counters
<1>16. CASE Clamp(p)
  <2>1. plan' = plan
    BY <1>16 DEF Clamp
  <2>2. /\ job[p].pc = "clamp" /\ job'[p].pc = "floor" /\ Behind(p)' = Behind(p) /\ Input(p)' = Input(p)
        /\ counter' = counter \/ Bump("clamped")
    BY <1>16, ClampHolds
  <2>3. TriedBy(p) \subseteq TriedBy(p)'
    BY <1>8, <2>2 DEF TriedBy
  <2>4. T <= T1 /\ W1 = W /\ F1 = F /\ C1 = C - 1 /\ L1 = L
    BY <1>5, <1>6, <1>7, <2>1, <2>2, <2>3
  <2>5. counter'["clamped"] <= counter["clamped"] + 1 /\ \A d \in Counters \ {"clamped"} : counter'[d] = counter[d]
    BY <1>3, <1>4, <2>2, Bumped DEF Counters
  <2>. QED  BY <1>1, <1>2, <1>4, <1>5, <1>6, <1>7, <2>4, <2>5 DEF Counters
<1>17. CASE Floor(p)
  <2>1. plan' = plan
    BY <1>17 DEF Floor
  <2>2. /\ job[p].pc = "floor" /\ job'[p].pc = "apply" /\ Behind(p)' = Behind(p) /\ Input(p)' = Input(p)
        /\ counter' = counter \/ Bump("floored")
    BY <1>17, FloorHolds
  <2>3. TriedBy(p) \subseteq TriedBy(p)'
    BY <1>8, <2>2 DEF TriedBy
  <2>4. T <= T1 /\ W1 = W /\ F1 = F /\ C1 = C /\ L1 = L - 1
    BY <1>5, <1>6, <1>7, <2>1, <2>2, <2>3
  <2>5. counter'["floored"] <= counter["floored"] + 1 /\ \A d \in Counters \ {"floored"} : counter'[d] = counter[d]
    BY <1>3, <1>4, <2>2, Bumped DEF Counters
  <2>. QED  BY <1>1, <1>2, <1>4, <1>5, <1>6, <1>7, <2>4, <2>5 DEF Counters
<1>18. CASE Apply(p)
  <2>1. Inputting(p) /\ job[p].pc = "apply" /\ job' = [job EXCEPT ![p] = Onward(p)] /\ Behind(p)' = Behind(p) \cup {Input(p)}
    BY <1>18, ApplyHolds DEF Inputting
  <2>2. job'[p].pc \in {"input", "visit"}
    BY <1>10, <2>1 DEF IInv, TypeOK
  <2>3. TriedBy(p) \subseteq TriedBy(p)'
    BY <2>1 DEF TriedBy
  <2>4. T <= T1 /\ F1 = F - 1 /\ C1 = C /\ L1 = L
    BY <1>5, <1>7, <2>1, <2>2, <2>3
  <2>5. CASE UNCHANGED <<plan, counter>>
    <3>1. W1 = W /\ counter' = counter
      BY <1>6, <2>5
    <3>. QED  BY <1>1, <1>2, <1>4, <1>5, <1>7, <2>4, <3>1 DEF Counters
  <2>6. CASE /\ Input(p) \notin Wrapped(p) /\ Wrapped(p)' = Wrapped(p) \cup {Input(p)}
             /\ \A q \in Planner \ {p} : Wrapped(q)' = Wrapped(q)
             /\ Bump("applied")
    <3>1. Wrappers' = Wrappers \cup {<<p, Input(p)>>} /\ <<p, Input(p)>> \notin Wrappers
      BY <1>9, <2>1, <2>6 DEF Wrappers
    <3>2. W1 = W + 1
      BY <3>1, Finiteness, FS_AddElement DEF W, W1
    <3>3. counter'["applied"] = counter["applied"] + 1 /\ \A d \in Counters \ {"applied"} : counter'[d] = counter[d]
      BY <1>3, <2>6, Bumped DEF Counters
    <3>. QED  BY <1>1, <1>2, <1>4, <1>5, <1>6, <1>7, <2>4, <3>2, <3>3 DEF Counters
  <2>. QED  BY <1>18, <2>5, <2>6, ApplyHolds
<1>. QED  BY <1>11, <1>12, <1>13, <1>14, <1>15, <1>16, <1>17, <1>18 DEF Step

LEMMA CountedKept ==
  ASSUME IInv, IInv', Counted, [Next]_vars
  PROVE  Counted'
<1>1. ASSUME UNCHANGED <<counter, plan, job>> PROVE Counted'
  <2>1. /\ Wrappers' = Wrappers /\ InFlight' = InFlight /\ Tried' = Tried
        /\ At({"ask", "clamp"})' = At({"ask", "clamp"})
        /\ At({"ask", "clamp", "floor"})' = At({"ask", "clamp", "floor"})
    BY <1>1 DEF Wrappers, Wrapped, InFlight, Tried, TriedBy, Behind, Left, Target, Input, At
  <2>. QED  BY <1>1, <2>1 DEF Counted
<1>2. CASE Install \/ UNCHANGED vars
  BY <1>1, <1>2 DEF Install, vars
<1>3. CASE \E p \in Planner : Step(p)
  BY <1>3, CountedStep
<1>. QED  BY <1>2, <1>3 DEF Next

\* The counters all planners share add up, for any plans, answers and number
\* of planners, however often the rule is installed and in whatever order the
\* planners work: attempts never exceed the inputs of the joins, applied is
\* the number of wrappers, and an answer is still on its way or was counted
\* once (correct_input).
THEOREM CountersAgree == Spec => []CountersAddUp
<1>1. Init => Counted
  BY CountedInit
<1>2. (IInv /\ IInv' /\ Counted /\ [Next]_vars) => Counted'
  BY CountedKept
<1>3. (IInv /\ Counted) => CountersAddUp
  <2>. SUFFICES ASSUME IInv, Counted PROVE CountersAddUp
    OBVIOUS
  <2>1. Tried \subseteq JoinInputs
    <3>1. \A p \in Planner : TriedBy(p) \subseteq Targets(p)
      <4>. SUFFICES ASSUME NEW p \in Planner PROVE TriedBy(p) \subseteq Targets(p)
        OBVIOUS
      <4>1. Behind(p) \subseteq Targets(p)
        BY DEF Behind, Target, Targets
      <4>2. ASSUME p \in InFlight PROVE Input(p) \in Targets(p)
        <5>1. TypeOK /\ Placed(p) /\ Inputting(p)
          BY <4>2 DEF IInv, PlannerInv, InFlight, Inputting
        <5>. QED  BY <5>1, InputAhead DEF Target, Targets
      <4>. QED  BY <4>1, <4>2 DEF TriedBy
    <3>. QED  BY <3>1 DEF Tried, JoinInputs
  <2>2. Cardinality(Tried) <= Cardinality(JoinInputs)
    BY <2>1, Finiteness, FS_Subset
  <2>3. \A c \in Counters : counter[c] \in Nat
    BY DEF IInv, TypeOK
  <2>4. /\ Cardinality(Tried) \in Nat /\ Cardinality(JoinInputs) \in Nat /\ Cardinality(InFlight) \in Nat
        /\ Cardinality(At({"ask", "clamp"})) \in Nat /\ Cardinality(At({"ask", "clamp", "floor"})) \in Nat
    <3>1. InFlight = At({"ask", "clamp", "floor", "apply"})
      BY DEF InFlight, At
    <3>. QED  BY <3>1, Finiteness, FS_CardinalityType
  <2>. QED  BY <2>2, <2>3, <2>4 DEF Counted, CountersAddUp, Counters
<1>. QED  BY <1>1, <1>2, <1>3, Invariant, PTL DEF Spec
=============================================================================
