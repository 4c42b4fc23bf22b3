------------------------- MODULE HyperLogLogProofs -------------------------
(***************************************************************************)
(* The distinct-count floor of a HyperLogLog sketch, and the join degree   *)
(* derived from it, are sound for every hash, precision and history, also  *)
(* of a column that any of the engines has ingested; and a Bloom filter    *)
(* misses none of the column's keys.                                       *)
(***************************************************************************)
EXTENDS ColumnSketches, SequenceTheorems, FunctionTheorems, FiniteSetTheorems, NaturalsInduction, WellFoundedInduction, TLAPS

Nonzero(s) == {j \in DOMAIN s.registers : s.registers[j] # 0}

\* A nonzero register was written by a key.
Witnessed(s, keys) ==
  \A j \in Nonzero(s) : \E i \in keys : Index(s.precision, i) = j

\* Different registers have different witnesses.
LEMMA FloorOfWitnessed ==
  ASSUME NEW s, NEW keys \in SUBSET Item, Witnessed(s, keys)
  PROVE  /\ NonzeroRegisters(s) \in Nat /\ Cardinality(keys) \in Nat
         /\ NonzeroRegisters(s) <= Cardinality(keys)
<1>. DEFINE writer == [j \in Nonzero(s) |-> CHOOSE i \in keys : Index(s.precision, i) = j]
<1>1. IsFiniteSet(keys) /\ Cardinality(keys) \in Nat
  BY ItemAssumption, FS_Subset, FS_CardinalityType
<1>2. \A j \in Nonzero(s) : writer[j] \in keys /\ Index(s.precision, writer[j]) = j
  BY DEF Witnessed
<1>3. writer \in [Nonzero(s) -> keys]
  BY <1>2
<1>4. \A j, k \in Nonzero(s) : writer[j] = writer[k] => j = k
  BY <1>2
<1>. HIDE DEF writer
<1>5. writer \in Injection(Nonzero(s), keys)
  BY <1>3, <1>4, Fun_IsInj
<1>6. IsFiniteSet(Nonzero(s)) /\ Cardinality(Nonzero(s)) <= Cardinality(keys)
  BY <1>1, <1>5, FS_Injection
<1>7. Cardinality(Nonzero(s)) \in Nat
  BY <1>6, FS_CardinalityType
<1>. QED  BY <1>1, <1>6, <1>7 DEF Nonzero, NonzeroRegisters

----------------------------------------------------------------------------
(* The inductive invariant.                                                *)

HasRegisters(s) ==
  /\ s = [precision |-> s.precision, registers |-> s.registers]
  /\ DOMAIN s.registers = Slots(s.precision)

IInv ==
  /\ sketch = [b \in Builder |-> sketch[b]]
  /\ seen \in [Builder -> SUBSET Item] /\ stored \in SUBSET Item
  /\ \A b \in Builder : sketch[b] # None =>
       HasRegisters(sketch[b]) /\ Witnessed(sketch[b], seen[b])
  /\ Valid(sidecar) => HasRegisters(sidecar) /\ Witnessed(sidecar, stored)

LEMMA WitnessedFresh ==
  ASSUME NEW p
  PROVE  HasRegisters(Fresh(p)) /\ Witnessed(Fresh(p), {})
<1>1. Fresh(p).registers = [j \in Slots(p) |-> 0]
  BY DEF Fresh
<1>2. Nonzero(Fresh(p)) = {}
  BY <1>1 DEF Nonzero
<1>. QED  BY <1>2 DEF HasRegisters, Fresh, Witnessed

LEMMA WitnessedAdd ==
  ASSUME NEW s, HasRegisters(s), NEW keys, Witnessed(s, keys), NEW i
  PROVE  HasRegisters(AddTo(s, i)) /\ Witnessed(AddTo(s, i), keys \cup {i})
<1>. DEFINE p == s.precision
            registers == [j \in DOMAIN s.registers |->
                            IF j = Index(p, i) /\ Rank(p, i) > s.registers[j]
                            THEN Rank(p, i) ELSE s.registers[j]]
            t == AddTo(s, i)
<1>1. t = [s EXCEPT !.registers = registers]
  BY DEF AddTo
<1>. HIDE DEF t, registers
<1>2. t = [precision |-> p, registers |-> registers]
  BY <1>1 DEF HasRegisters
<1>3. Nonzero(t) \subseteq Nonzero(s) \cup {Index(p, i)}
  <2>1. \A j \in DOMAIN registers : j = Index(p, i) \/ registers[j] = s.registers[j]
    BY DEF registers
  <2>2. DOMAIN registers = DOMAIN s.registers
    BY DEF registers
  <2>. QED  BY <1>2, <2>1, <2>2 DEF Nonzero
<1>4. Witnessed(t, keys \cup {i})
  BY <1>2, <1>3 DEF Witnessed
<1>5. DOMAIN registers = Slots(p)
  BY DEF registers, HasRegisters
<1>. QED  BY <1>2, <1>4, <1>5 DEF HasRegisters, t

LEMMA WitnessedMerge ==
  ASSUME NEW s, HasRegisters(s), NEW keys, Witnessed(s, keys),
         NEW o, HasRegisters(o), NEW others, Witnessed(o, others), o.precision = s.precision
  PROVE  HasRegisters(Merged(s, o)) /\ Witnessed(Merged(s, o), keys \cup others)
<1>. DEFINE registers == [j \in DOMAIN s.registers |->
                            IF o.registers[j] > s.registers[j]
                            THEN o.registers[j] ELSE s.registers[j]]
            t == Merged(s, o)
<1>1. t = [s EXCEPT !.registers = registers]
  BY DEF Merged
<1>. HIDE DEF t, registers
<1>2. t = [precision |-> s.precision, registers |-> registers]
  BY <1>1 DEF HasRegisters
<1>3. Nonzero(t) \subseteq Nonzero(s) \cup Nonzero(o)
  <2>1. \A j \in DOMAIN registers : registers[j] = o.registers[j] \/ registers[j] = s.registers[j]
    BY DEF registers
  <2>2. DOMAIN registers = DOMAIN s.registers
    BY DEF registers
  <2>3. DOMAIN o.registers = DOMAIN s.registers
    BY DEF HasRegisters
  <2>. QED  BY <1>2, <2>1, <2>2, <2>3 DEF Nonzero
<1>4. Witnessed(t, keys \cup others)
  BY <1>2, <1>3 DEF Witnessed
<1>5. DOMAIN registers = Slots(s.precision)
  BY DEF registers, HasRegisters
<1>. QED  BY <1>2, <1>4, <1>5 DEF HasRegisters, t

\* One builder is given a sketch of the keys.
LEMMA Replace ==
  ASSUME IInv, NEW b \in Builder, NEW s, HasRegisters(s),
         NEW keys \in SUBSET Item, Witnessed(s, keys),
         sketch' = [sketch EXCEPT ![b] = s], seen' = [seen EXCEPT ![b] = keys],
         UNCHANGED <<sidecar, stored>>
  PROVE  IInv'
<1>1. sketch = [x \in Builder |-> sketch[x]] /\ seen \in [Builder -> SUBSET Item]
  BY DEF IInv
<1>2. \A x \in Builder :
        /\ sketch'[x] = IF x = b THEN s ELSE sketch[x]
        /\ seen'[x] = IF x = b THEN keys ELSE seen[x]
  BY <1>1
<1>3. sketch' = [x \in Builder |-> sketch'[x]] /\ seen' \in [Builder -> SUBSET Item]
  BY <1>1
<1>4. \A x \in Builder : sketch'[x] # None =>
        HasRegisters(sketch'[x]) /\ Witnessed(sketch'[x], seen'[x])
  BY <1>2 DEF IInv
<1>5. (Valid(sidecar) => HasRegisters(sidecar) /\ Witnessed(sidecar, stored))'
  BY DEF IInv
<1>. QED  BY <1>3, <1>4, <1>5 DEF IInv

\* The inductive invariant holds of every reachable state.
LEMMA Invariance == Spec => []IInv
<1>0. ~Valid(None)
  BY BitsAssumption DEF Valid, None
<1>1. Init => IInv
  BY <1>0 DEF Init, IInv
<1>2. IInv /\ [Next]_vars => IInv'
  <2>. SUFFICES ASSUME IInv, [Next]_vars PROVE IInv'
    OBVIOUS
  <2>0. /\ \A b \in Builder : sketch[b] # None =>
             HasRegisters(sketch[b]) /\ Witnessed(sketch[b], seen[b])
        /\ \A b \in Builder : seen[b] \in SUBSET Item
        /\ stored \in SUBSET Item
    BY DEF IInv
  <2>1. ASSUME NEW b \in Builder, NEW p \in Asked, New(b, p)
        PROVE  IInv'
    BY <2>1, WitnessedFresh, Replace DEF New
  <2>2. ASSUME NEW b \in Builder, NEW i \in Item, Add(b, i)
        PROVE  IInv'
    <3>1. seen[b] \cup {i} \in SUBSET Item
      BY <2>0
    <3>2. /\ HasRegisters(AddTo(sketch[b], i))
          /\ Witnessed(AddTo(sketch[b], i), seen[b] \cup {i})
      BY <2>0, <2>2, WitnessedAdd DEF Add
    <3>. QED  BY <2>2, <3>1, <3>2, Replace DEF Add
  <2>3. ASSUME NEW b \in Builder, NEW o \in Builder, Merge(b, o)
        PROVE  IInv'
    <3>1. seen[b] \cup seen[o] \in SUBSET Item
      BY <2>0
    <3>2. /\ HasRegisters(Merged(sketch[b], sketch[o]))
          /\ Witnessed(Merged(sketch[b], sketch[o]), seen[b] \cup seen[o])
      BY <2>0, <2>3, WitnessedMerge DEF Merge
    <3>. QED  BY <2>3, <3>1, <3>2, Replace DEF Merge
  <2>4. ASSUME NEW b \in Builder, Store(b)
        PROVE  IInv'
    <3>1. HasRegisters(sidecar') /\ Witnessed(sidecar', stored')
      BY <2>0, <2>4 DEF Store
    <3>. QED  BY <2>0, <2>4, <3>1 DEF Store, IInv
  <2>5. ASSUME NEW p \in Malformed, Damage(p)
        PROVE  IInv'
    <3>1. ~Valid(sidecar')
      BY <2>5, MalformedAssumption DEF Damage, Valid
    <3>. QED  BY <2>5, <3>1 DEF Damage, IInv
  <2>6. ASSUME NEW b \in Builder, Load(b)
        PROVE  IInv'
    <3>1. HasRegisters(sidecar) /\ Witnessed(sidecar, stored)
      BY <2>6 DEF Load, IInv
    <3>. QED  BY <2>0, <2>6, <3>1, Replace DEF Load
  <2>7. CASE UNCHANGED vars
    BY <2>7 DEF vars, IInv
  <2>. QED  BY <2>1, <2>2, <2>3, <2>4, <2>5, <2>6, <2>7 DEF Next
<1>. QED  BY <1>1, <1>2, PTL DEF Spec

----------------------------------------------------------------------------
(* The theorems.                                                           *)

\* nonzero_registers() is never above the number of distinct keys added.
THEOREM FloorIsSound == Spec => []FloorSound
<1>1. IInv => FloorSound
  <2>. SUFFICES ASSUME IInv, NEW b \in Builder, sketch[b] # None
                PROVE  NonzeroRegisters(sketch[b]) <= Cardinality(seen[b])
    BY DEF FloorSound
  <2>. QED  BY FloorOfWitnessed DEF IInv
<1>. QED  BY Invariance, <1>1, PTL

\* The obligation AttributeDegree::from_hll_floor owes to the join ceiling.
THEOREM DegreeIsSound == Spec => []HllDegreeSound
<1>1. IInv => HllDegreeSound
  <2>. SUFFICES ASSUME IInv, NEW b \in Builder, sketch[b] # None, seen[b] # {},
                       NEW rows \in Cardinality(seen[b]) .. 2 * Cardinality(seen[b])
                PROVE  FromHllFloor(rows, sketch[b]) >= rows - Cardinality(seen[b]) + 1
    BY DEF HllDegreeSound
  <2>. DEFINE n == NonzeroRegisters(sketch[b])
              d == Cardinality(seen[b])
  <2>1. n \in Nat /\ d \in Nat /\ n <= d /\ seen[b] \in SUBSET Item
    BY FloorOfWitnessed DEF IInv
  <2>2. d >= 1
    <3>1. IsFiniteSet(seen[b])
      BY <2>1, ItemAssumption, FS_Subset
    <3>2. d # 0
      BY <3>1, FS_EmptySet
    <3>. QED  BY <2>1, <3>2
  <2>3. rows \in Nat /\ d <= rows
    BY <2>1
  <2>. HIDE DEF n, d
  <2>4. FromDistinct(rows, n) >= rows - d + 1
    BY <2>1, <2>2, <2>3 DEF FromDistinct
  <2>. QED  BY <2>4 DEF FromHllFloor, n, d
<1>. QED  BY Invariance, <1>1, PTL

----------------------------------------------------------------------------
(* Columns and their summaries.                                            *)

\* A cell is hashed as at most one key.
LEMMA OneKeyEach ==
  ASSUME NEW e \in Engine, NEW v \in Value \cup {Null}
  PROVE  Keys(e, v) \subseteq Item /\ \A k, l \in Keys(e, v) : k = l
<1>1. SkipNull(v) \subseteq Item /\ \A k, l \in SkipNull(v) : k = l
  BY KeyAssumption DEF SkipNull
<1>2. TokenForNull(v) \subseteq Item /\ \A k, l \in TokenForNull(v) : k = l
  BY KeyAssumption DEF TokenForNull
<1>3. e \in {"arrow", "unsupported", "polars", "duckdb", "cli", "bench"}
  BY EngineAssumption
<1>. QED
  BY <1>1, <1>2, <1>3 DEF Keys, ArrowKeys, UnsupportedKeys, PolarsKeys, DuckdbKeys, CliKeys, BenchKeys

LEMMA CellsOf ==
  ASSUME NEW rows \in Seq(Row), NEW i \in DOMAIN rows
  PROVE  rows[i][1] \in Value \cup {Null}
<1>1. rows[i] \in Row
  BY ElementOfSeq, LenProperties
<1>. QED  BY <1>1 DEF Row

LEMMA KeysTyped ==
  ASSUME NEW e \in Engine, NEW rows \in Seq(Row)
  PROVE  KeysOf(e, rows) \in SUBSET Item
BY OneKeyEach, CellsOf DEF KeysOf

LEMMA KeysOfMore ==
  ASSUME NEW e, NEW rows \in Seq(Row), NEW more \in Seq(Row)
  PROVE  KeysOf(e, rows \o more) = KeysOf(e, rows) \cup KeysOf(e, more)
<1>. DEFINE all == rows \o more
            n == Len(rows)
            m == Len(more)
<1>1. /\ n \in Nat /\ m \in Nat
      /\ DOMAIN rows = 1 .. n /\ DOMAIN more = 1 .. m
  BY LenProperties
<1>2. all \in Seq(Row) /\ Len(all) = n + m
      /\ \A i \in 1 .. n + m : all[i] = IF i <= n THEN rows[i] ELSE more[i - n]
  BY ConcatProperties
<1>3. DOMAIN all = 1 .. n + m
  BY <1>2, LenProperties
<1>. HIDE DEF all, n, m
<1>4. \A i \in DOMAIN rows : i \in DOMAIN all /\ all[i] = rows[i]
  BY <1>1, <1>2, <1>3
<1>5. \A i \in DOMAIN more : n + i \in DOMAIN all /\ all[n + i] = more[i]
  BY <1>1, <1>2, <1>3
<1>6. \A i \in DOMAIN all : (i \in DOMAIN rows /\ all[i] = rows[i]) \/ (i - n \in DOMAIN more /\ all[i] = more[i - n])
  BY <1>1, <1>2, <1>3
<1>7. ASSUME NEW k \in KeysOf(e, all) PROVE k \in KeysOf(e, rows) \cup KeysOf(e, more)
  <2>. PICK i \in DOMAIN all : k \in Keys(e, all[i][1])
    BY DEF KeysOf
  <2>1. CASE i \in DOMAIN rows /\ all[i] = rows[i]
    BY <2>1 DEF KeysOf
  <2>2. CASE i - n \in DOMAIN more /\ all[i] = more[i - n]
    BY <2>2 DEF KeysOf
  <2>. QED  BY <1>6, <2>1, <2>2
<1>8. ASSUME NEW k \in KeysOf(e, rows) PROVE k \in KeysOf(e, all)
  BY <1>4 DEF KeysOf
<1>9. ASSUME NEW k \in KeysOf(e, more) PROVE k \in KeysOf(e, all)
  <2>. PICK i \in DOMAIN more : k \in Keys(e, more[i][1])
    BY DEF KeysOf
  <2>1. n + i \in DOMAIN all /\ k \in Keys(e, all[n + i][1])
    BY <1>5
  <2>. QED  BY <2>1 DEF KeysOf
<1>10. KeysOf(e, all) = KeysOf(e, rows) \cup KeysOf(e, more)
  BY <1>7, <1>8, <1>9
<1>. QED  BY <1>10 DEF all

\* Rows that share a cell share its key: of n rows that c share, at most
\* n - c + 1 keys come.
LEMMA KeysOfShared ==
  ASSUME NEW e \in Engine, NEW rows \in Seq(Row), NEW v \in Value
  PROVE  LET c == Cardinality({i \in DOMAIN rows : rows[i][1] = v})
         IN /\ Len(rows) \in Nat /\ c \in 0 .. Len(rows)
            /\ Cardinality(KeysOf(e, rows)) \in Nat
            /\ Cardinality(KeysOf(e, rows)) <= Len(rows) - c + 1
<1>. DEFINE D == DOMAIN rows
            I == {i \in D : rows[i][1] = v}
            J == D \ I
            here == Keys(e, v)
            there == UNION {Keys(e, rows[i][1]) : i \in J}
<1>1. D = 1 .. Len(rows) /\ Len(rows) \in Nat
  BY LenProperties
<1>2. IsFiniteSet(D) /\ Cardinality(D) = Len(rows)
  BY <1>1, FS_Interval
<1>3. IsFiniteSet(I) /\ IsFiniteSet(J) /\ I \subseteq D
  BY <1>2, FS_Subset
<1>4. Cardinality(I) \in Nat /\ Cardinality(J) \in Nat /\ Cardinality(J) = Len(rows) - Cardinality(I)
  <2>1. I \cap J = {} /\ I \cup J = D
    OBVIOUS
  <2>2. Cardinality(I) \in Nat /\ Cardinality(J) \in Nat
    BY <1>3, FS_CardinalityType
  <2>3. Cardinality({}) = 0
    BY FS_EmptySet
  <2>. HIDE DEF D, I, J
  <2>4. Cardinality(I \cup J) = Cardinality(I) + Cardinality(J) - Cardinality(I \cap J)
    BY <1>3, FS_Union
  <2>5. Cardinality(I \cup J) = Len(rows)
    BY <1>2, <2>1
  <2>6. Cardinality(I \cap J) = 0
    BY <2>1, <2>3
  <2>. QED  BY <1>1, <2>2, <2>4, <2>5, <2>6
<1>5. KeysOf(e, rows) \subseteq here \cup there
  BY DEF KeysOf
<1>6. IsFiniteSet(here) /\ Cardinality(here) \in Nat /\ Cardinality(here) <= 1
  <2>1. CASE here = {}
    BY <2>1, FS_EmptySet
  <2>2. CASE here # {}
    <3>. PICK k \in here : TRUE
      BY <2>2
    <3>1. here = {k}
      BY OneKeyEach
    <3>2. IsFiniteSet({k}) /\ Cardinality({k}) = 1
      BY FS_Singleton
    <3>. QED  BY <3>1, <3>2
  <2>. QED  BY <2>1, <2>2
<1>7. IsFiniteSet(there) /\ Cardinality(there) \in Nat /\ Cardinality(there) <= Cardinality(J)
  <2>. DEFINE from == [k \in there |-> CHOOSE i \in J : k \in Keys(e, rows[i][1])]
  <2>1. \A k \in there : from[k] \in J /\ k \in Keys(e, rows[from[k]][1])
    OBVIOUS
  <2>2. \A i \in J : \A k, l \in Keys(e, rows[i][1]) : k = l
    BY OneKeyEach, CellsOf
  <2>3. from \in [there -> J]
    BY <2>1
  <2>4. \A k, l \in there : from[k] = from[l] => k = l
    <3>. HIDE DEF from, there, J
    <3>. TAKE k, l \in there
    <3>1. from[k] \in J /\ k \in Keys(e, rows[from[k]][1]) /\ l \in Keys(e, rows[from[l]][1])
      BY <2>1
    <3>2. from[k] = from[l] => k \in Keys(e, rows[from[k]][1]) /\ l \in Keys(e, rows[from[k]][1])
      BY <3>1
    <3>. QED  BY <2>2, <3>1, <3>2
  <2>. HIDE DEF from, there, J
  <2>5. from \in Injection(there, J)
    BY <2>3, <2>4, Fun_IsInj
  <2>. QED  BY <1>3, <2>5, FS_Injection, FS_CardinalityType
<1>. HIDE DEF here, there, J, I, D
<1>8. /\ IsFiniteSet(here \cup there)
      /\ Cardinality(here \cup there) = Cardinality(here) + Cardinality(there) - Cardinality(here \cap there)
      /\ Cardinality(here \cap there) \in Nat
  BY <1>6, <1>7, FS_Union, FS_Intersection, FS_CardinalityType
<1>9. /\ Cardinality(KeysOf(e, rows)) \in Nat
      /\ Cardinality(KeysOf(e, rows)) <= Cardinality(here \cup there)
  BY <1>5, <1>8, FS_Subset, FS_CardinalityType
<1>10. Cardinality(here \cup there) \in Nat
  BY <1>8, FS_CardinalityType
<1>11. Cardinality(I) <= Len(rows)
  BY <1>1, <1>4
<1>12. Cardinality(KeysOf(e, rows)) <= Len(rows) - Cardinality(I) + 1
  BY <1>1, <1>4, <1>6, <1>7, <1>8, <1>9, <1>10
<1>. QED  BY <1>1, <1>4, <1>9, <1>11, <1>12 DEF I, D

----------------------------------------------------------------------------
(* Summaries keep their promises as rows come in.                          *)

LEMMA WitnessedAll ==
  ASSUME NEW s, HasRegisters(s), NEW seenKeys, Witnessed(s, seenKeys), NEW keys
  PROVE  /\ HasRegisters(AddAll(s, keys)) /\ AddAll(s, keys).precision = s.precision
         /\ Witnessed(AddAll(s, keys), seenKeys \cup keys)
<1>. DEFINE p == s.precision
            at(j) == {k \in keys : Index(p, k) = j}
            registers == [j \in DOMAIN s.registers |->
              IF at(j) = {} THEN s.registers[j]
              ELSE Max({s.registers[j]} \cup {Rank(p, k) : k \in at(j)})]
            t == AddAll(s, keys)
<1>1. t = [s EXCEPT !.registers = registers]
  BY DEF AddAll
<1>2. DOMAIN registers = DOMAIN s.registers
  OBVIOUS
<1>3. \A j \in DOMAIN registers : registers[j] = s.registers[j] \/ \E k \in keys : Index(p, k) = j
  OBVIOUS
<1>. HIDE DEF t, registers
<1>4. t = [precision |-> p, registers |-> registers]
  BY <1>1 DEF HasRegisters
<1>5. Witnessed(t, seenKeys \cup keys)
  BY <1>2, <1>3, <1>4 DEF Witnessed, Nonzero
<1>6. DOMAIN registers = Slots(p)
  BY <1>2 DEF HasRegisters
<1>. QED  BY <1>4, <1>5, <1>6 DEF HasRegisters, t

\* What a filter is, and that it holds the bits of the keys.
IsBloom(f) ==
  /\ f = [num_bits |-> f.num_bits, num_hashes |-> f.num_hashes, bits |-> f.bits]
  /\ f.num_bits \in Nat \ {0} /\ f.num_hashes \in Nat \ {0}
  /\ f.bits \subseteq 0 .. f.num_bits - 1

Holds(f, keys) == \A k \in keys : BitsOf(f, k) \subseteq f.bits

LEMMA BitsInRange ==
  ASSUME NEW f, f.num_bits \in Nat \ {0}, f.num_hashes \in Nat \ {0}, NEW k \in Item
  PROVE  BitsOf(f, k) \subseteq 0 .. f.num_bits - 1
<1>1. DoubleHash[k][1] \in Nat /\ DoubleHash[k][2] \in Nat /\ MaxU64 + 1 \in Nat \ {0}
  BY BloomAssumption
<1>2. ASSUME NEW i \in 0 .. f.num_hashes - 1
      PROVE  BitIndex(DoubleHash[k], i, f.num_bits) \in 0 .. f.num_bits - 1
  <2>. DEFINE m == f.num_bits
              a == DoubleHash[k][1]
              b == DoubleHash[k][2]
              word == (a + i * b) % (MaxU64 + 1)
  <2>0. i * b \in Nat
    <3>. HIDE DEF b
    <3>1. \A x, y \in Nat : x * y \in Nat
      OBVIOUS
    <3>. QED  BY <1>1, <3>1 DEF b
  <2>1. word \in Int
    BY <1>1, <2>0
  <2>. HIDE DEF word
  <2>2. word % m \in 0 .. m - 1
    BY <2>1
  <2>. QED  BY <2>2 DEF BitIndex, word
<1>. QED  BY <1>2 DEF BitsOf

LEMMA FreshBloom ==
  ASSUME NEW size \in BloomSize
  PROVE  IsBloom(NewBloom(size)) /\ Holds(NewBloom(size), {})
BY BloomAssumption DEF IsBloom, NewBloom, Holds

LEMMA HoldsMore ==
  ASSUME NEW f, IsBloom(f), NEW held, Holds(f, held), NEW keys \in SUBSET Item
  PROVE  IsBloom(Insert(f, keys)) /\ Holds(Insert(f, keys), held \cup keys)
<1>. DEFINE bits == f.bits \cup UNION {BitsOf(f, k) : k \in keys}
            g == Insert(f, keys)
<1>1. g = [num_bits |-> f.num_bits, num_hashes |-> f.num_hashes, bits |-> bits]
  <2>. HIDE DEF bits
  <2>1. g = [f EXCEPT !.bits = bits]
    BY DEF Insert, bits
  <2>. HIDE DEF g
  <2>. QED  BY <2>1 DEF IsBloom
<1>2. bits \subseteq 0 .. f.num_bits - 1
  BY BitsInRange DEF IsBloom
<1>3. \A k \in held \cup keys : BitsOf(f, k) \subseteq bits
  BY DEF Holds
<1>. HIDE DEF g, bits
<1>4. \A k : BitsOf(g, k) = BitsOf(f, k)
  BY <1>1 DEF BitsOf
<1>5. Holds(g, held \cup keys)
  BY <1>1, <1>3, <1>4 DEF Holds
<1>6. IsBloom(g)
  BY <1>1, <1>2 DEF IsBloom
<1>. QED  BY <1>5, <1>6 DEF g

----------------------------------------------------------------------------
(* Cells and extremes.                                                     *)

\* Division by a positive number is monotone.
LEMMA DivMonotone ==
  ASSUME NEW x \in Int, NEW y \in Int, x <= y, NEW d \in Nat \ {0}
  PROVE  x \div d \in Int /\ x \div d <= y \div d
<1>. DEFINE q == x \div d
            r == y \div d
<1>1. q \in Int /\ d * q <= x /\ x < d * q + d
  OBVIOUS
<1>2. r \in Int /\ d * r <= y /\ y < d * r + d
  OBVIOUS
<1>. HIDE DEF q, r
<1>3. CASE q > r
  <2>1. d * (q - r - 1) >= 0
    BY <1>1, <1>2, <1>3
  <2>2. d * (q - r - 1) = d * q - d * r - d
    BY <1>1, <1>2
  <2>3. d * q \in Int /\ d * r \in Int
    BY <1>1, <1>2
  <2>. QED  BY <1>1, <1>2, <2>1, <2>2, <2>3
<1>. QED  BY <1>1, <1>2, <1>3 DEF q, r

LEMMA BucketInRange ==
  ASSUME NEW v \in Int, NEW s \in Int \X Int, NEW n \in Nat \ {0}
  PROVE  BucketIndex(v, s, n) \in 0 .. n - 1
<1>. DEFINE lo == s[1]
            hi == s[2]
<1>0. lo \in Int /\ hi \in Int
  OBVIOUS
<1>. HIDE DEF lo, hi
<1>1. CASE hi <= lo \/ v <= lo \/ v >= hi
  BY <1>0, <1>1 DEF BucketIndex, lo, hi
<1>2. CASE hi > lo /\ v > lo /\ v < hi
  <2>. DEFINE x == (v - lo) * n
              d == hi - lo
              q == x \div d
  <2>1. d \in Nat \ {0} /\ v - lo \in Nat /\ d - (v - lo) \in Nat \ {0}
    BY <1>0, <1>2
  <2>2. x \in Int /\ 0 <= x
    BY <2>1
  <2>3. (d - (v - lo)) * n >= 1 /\ (d - (v - lo)) * n = d * n - x
    BY <2>1
  <2>. HIDE DEF x, d
  <2>4. q \in Int /\ d * q <= x /\ x < d * q + d
    BY <2>1, <2>2
  <2>. HIDE DEF q
  <2>5. q >= 0
    <3>1. CASE q <= -1
      <4>1. d * (-1 - q) >= 0
        BY <2>1, <2>4, <3>1
      <4>2. d * (-1 - q) = -d - d * q
        BY <2>1, <2>4
      <4>3. d * q \in Int
        BY <2>1, <2>4
      <4>. QED  BY <2>1, <2>2, <2>4, <4>1, <4>2, <4>3
    <3>. QED  BY <2>4, <3>1
  <2>6. q < n
    <3>1. CASE q >= n
      <4>1. d * (q - n) >= 0
        BY <2>1, <2>4, <3>1
      <4>2. d * (q - n) = d * q - d * n
        BY <2>1, <2>4
      <4>3. d * q \in Int /\ d * n \in Int
        BY <2>1, <2>4
      <4>. QED  BY <2>2, <2>3, <2>4, <4>1, <4>2, <4>3
    <3>. QED  BY <2>4, <3>1
  <2>7. BucketIndex(v, s, n) = q
    BY <1>0, <1>2 DEF BucketIndex, lo, hi, q, x, d
  <2>. QED  BY <2>4, <2>5, <2>6, <2>7
<1>. QED  BY <1>0, <1>1, <1>2

LEMMA BucketMonotone ==
  ASSUME NEW v \in Int, NEW w \in Int, v <= w, NEW s \in Int \X Int, NEW n \in Nat \ {0}
  PROVE  BucketIndex(v, s, n) <= BucketIndex(w, s, n)
<1>. DEFINE lo == s[1]
            hi == s[2]
<1>0. lo \in Int /\ hi \in Int
  OBVIOUS
<1>1. BucketIndex(v, s, n) \in 0 .. n - 1 /\ BucketIndex(w, s, n) \in 0 .. n - 1
  BY BucketInRange
<1>. HIDE DEF lo, hi
<1>2. CASE hi <= lo \/ v <= lo
  <2>1. BucketIndex(v, s, n) = 0
    BY <1>2 DEF BucketIndex, lo, hi
  <2>. QED  BY <1>1, <2>1
<1>3. CASE ~ (hi <= lo \/ v <= lo) /\ w >= hi
  <2>1. BucketIndex(w, s, n) = n - 1
    BY <1>0, <1>3 DEF BucketIndex, lo, hi
  <2>. QED  BY <1>1, <2>1
<1>4. CASE ~ (hi <= lo \/ v <= lo) /\ ~ w >= hi
  <2>. DEFINE x == (v - lo) * n
              y == (w - lo) * n
              d == hi - lo
  <2>1. d \in Nat \ {0} /\ x \in Int /\ y \in Int
    BY <1>0, <1>4
  <2>2. y - x = (w - v) * n /\ (w - v) * n >= 0
    BY <1>0
  <2>3. BucketIndex(v, s, n) = x \div d /\ BucketIndex(w, s, n) = y \div d
    BY <1>0, <1>4 DEF BucketIndex, lo, hi
  <2>. HIDE DEF x, y, d
  <2>4. x <= y
    BY <2>1, <2>2
  <2>. QED  BY <2>1, <2>3, <2>4, DivMonotone
<1>. QED  BY <1>0, <1>2, <1>3, <1>4

LEMMA SpanInRange ==
  ASSUME NEW lo \in Int, NEW hi \in Int, NEW s \in Int \X Int, NEW n \in Nat \ {0}
  PROVE  BucketSpan(lo, hi, s, n) \subseteq 0 .. n - 1
<1>. DEFINE first == BucketIndex(lo, s, n)
            last == BucketIndex(hi, s, n)
<1>1. first \in 0 .. n - 1 /\ last \in 0 .. n - 1
  BY BucketInRange
<1>2. BucketSpan(lo, hi, s, n) \in {{}, 0 .. n - 1, first .. last}
  BY DEF BucketSpan
<1>. HIDE DEF first, last
<1>. QED  BY <1>1, <1>2

\* A value of the support within a range falls on a bucket of its span.
LEMMA SpanHoldsBucket ==
  ASSUME NEW v \in Int, NEW lo \in Int, NEW hi \in Int, NEW s \in Int \X Int, NEW n \in Nat \ {0},
         v \in lo .. hi, v \in s[1] .. s[2]
  PROVE  BucketIndex(v, s, n) \in BucketSpan(lo, hi, s, n)
<1>. DEFINE at == BucketIndex(v, s, n)
            first == BucketIndex(lo, s, n)
            last == BucketIndex(hi, s, n)
<1>1. at \in 0 .. n - 1 /\ first \in 0 .. n - 1 /\ last \in 0 .. n - 1
  BY BucketInRange
<1>2. first <= at /\ at <= last
  BY BucketMonotone
<1>3. s[1] \in Int /\ s[2] \in Int
  OBVIOUS
<1>4. BucketSpan(lo, hi, s, n) = IF s[2] <= s[1] THEN 0 .. n - 1 ELSE first .. last
  BY <1>3 DEF BucketSpan
<1>. HIDE DEF at, first, last
<1>5. at \in BucketSpan(lo, hi, s, n)
  BY <1>1, <1>2, <1>4
<1>. QED  BY <1>5 DEF at

\* The things that fall on a cell, and places for count[c] things on each.
FallOn(on, S, c) == {i \in S : on[i] = c}
Places(count, C) == UNION {{c} \X (1 .. count[c]) : c \in C}

\* Things that fall on cells, at most count[c] of them on cell c.
LEMMA CountedByCell ==
  ASSUME NEW S, IsFiniteSet(S), NEW C, IsFiniteSet(C), NEW on \in [S -> C], NEW count \in [C -> Nat],
         \A c \in C : Cardinality(FallOn(on, S, c)) <= count[c]
  PROVE  /\ Cardinality(S) \in Nat
         /\ Cardinality(Places(count, C)) \in Nat
         /\ Cardinality(S) <= Cardinality(Places(count, C))
<1>. DEFINE room(c) == {c} \X (1 .. count[c])
            T == UNION {room(c) : c \in C}
            here(c) == {i \in S : on[i] = c}
<1>1. IsFiniteSet(T)
  <2>. DEFINE rooms == [c \in C |-> room(c)]
              R == {room(c) : c \in C}
  <2>1. rooms \in Surjection(C, R)
    BY Fun_IsSurj
  <2>2. IsFiniteSet(R)
    BY <2>1, FS_Surjection
  <2>3. ASSUME NEW c \in C PROVE IsFiniteSet(room(c))
    <3>0. count[c] \in Int /\ 1 \in Int
      OBVIOUS
    <3>1. IsFiniteSet(1 .. count[c]) /\ IsFiniteSet({c})
      BY <3>0, FS_Interval, FS_Singleton
    <3>. QED  BY <3>1, FS_Product
  <2>4. \A r \in R : IsFiniteSet(r)
    BY <2>3
  <2>. HIDE DEF R
  <2>5. IsFiniteSet(UNION R)
    BY <2>2, <2>4, FS_UNION
  <2>. QED  BY <2>5 DEF R
<1>2. ASSUME NEW c \in C PROVE \E f : \A i \in here(c) : \E k \in 1 .. count[c] : f[k] = i
  <2>. DEFINE H == here(c)
              m == Cardinality(H)
  <2>1. IsFiniteSet(H) /\ m <= count[c]
    BY FS_Subset DEF FallOn
  <2>. HIDE DEF H
  <2>2. m \in Nat /\ ExistsBijection(1 .. m, H)
    BY <2>1, FS_CardinalityType
  <2>3. PICK f : f \in Bijection(1 .. m, H)
    BY <2>2 DEF ExistsBijection
  <2>4. \A i \in H : \E k \in 1 .. m : f[k] = i
    BY <2>3 DEF Bijection, Surjection
  <2>5. \A k \in 1 .. m : k \in 1 .. count[c]
    BY <2>1, <2>2
  <2>. QED  BY <2>4, <2>5 DEF H
<1>. DEFINE named == [c \in C |-> CHOOSE f : \A i \in here(c) : \E k \in 1 .. count[c] : f[k] = i]
            number(i) == CHOOSE k \in 1 .. count[on[i]] : named[on[i]][k] = i
            to == [i \in S |-> <<on[i], number(i)>>]
<1>3. ASSUME NEW i \in S PROVE number(i) \in 1 .. count[on[i]] /\ named[on[i]][number(i)] = i
  <2>1. on[i] \in C /\ i \in here(on[i])
    OBVIOUS
  <2>2. \A j \in here(on[i]) : \E k \in 1 .. count[on[i]] : named[on[i]][k] = j
    BY <1>2, <2>1
  <2>. HIDE DEF named, here
  <2>. QED  BY <2>1, <2>2
<1>. HIDE DEF number, named
<1>4. to \in [S -> T]
  BY <1>3
<1>5. \A i, j \in S : to[i] = to[j] => i = j
  <2>. SUFFICES ASSUME NEW i \in S, NEW j \in S, to[i] = to[j] PROVE i = j
    OBVIOUS
  <2>1. on[i] = on[j] /\ number(i) = number(j)
    OBVIOUS
  <2>. QED  BY <1>3, <2>1
<1>. HIDE DEF to, T
<1>6. to \in Injection(S, T)
  BY <1>4, <1>5, Fun_IsInj
<1>7. T = Places(count, C)
  BY DEF T, Places
<1>. QED  BY <1>1, <1>6, <1>7, FS_Injection, FS_CardinalityType

LEMMA LeastOf ==
  ASSUME NEW R \in SUBSET Nat, R # {}
  PROVE  \E r \in R : \A q \in R : r <= q
<1>1. \E r \in R : \A q \in R : ~ (<<q, r>> \in OpToRel(<, Nat))
  BY NatLessThanWellFounded, WFMin
<1>2. PICK r \in R : \A q \in R : ~ (<<q, r>> \in OpToRel(<, Nat))
  BY <1>1
<1>3. ASSUME NEW q \in R PROVE r <= q
  <2>1. ~(q < r)
    BY <1>2 DEF OpToRel
  <2>. QED  BY <2>1
<1>. QED  BY <1>3

\* A finite set of integers has a smallest and a largest element.
LEMMA Extremes ==
  ASSUME NEW T \in SUBSET Int, IsFiniteSet(T), T # {}
  PROVE  /\ Min(T) \in T /\ \A y \in T : Min(T) <= y
         /\ Max(T) \in T /\ \A y \in T : y <= Max(T)
<1>. DEFINE below(x) == {y \in T : y < x}
            above(x) == {y \in T : y > x}
            ranksB == {Cardinality(below(x)) : x \in T}
            ranksA == {Cardinality(above(x)) : x \in T}
<1>1. \A x \in T : Cardinality(below(x)) \in Nat /\ Cardinality(above(x)) \in Nat
  BY FS_Subset, FS_CardinalityType
<1>2. ASSUME NEW x \in T, NEW y \in T, y < x PROVE Cardinality(below(y)) < Cardinality(below(x))
  <2>0. x \in Int /\ y \in Int /\ \A z \in T : z \in Int
    OBVIOUS
  <2>1. \A z \in T : z < y => z < x
    BY <1>2, <2>0
  <2>2. below(y) \subseteq below(x)
    BY <2>1
  <2>3. y \in below(x) /\ y \notin below(y)
    BY <1>2, <2>0
  <2>4. IsFiniteSet(below(x))
    BY FS_Subset
  <2>6. Cardinality(below(x)) \in Nat /\ Cardinality(below(y)) \in Nat
    BY <1>1
  <2>. HIDE DEF below
  <2>5. below(y) # below(x)
    BY <2>3
  <2>7. Cardinality(below(y)) <= Cardinality(below(x)) /\ Cardinality(below(y)) # Cardinality(below(x))
    BY <2>2, <2>4, <2>5, FS_Subset
  <2>. QED  BY <2>6, <2>7
<1>3. ASSUME NEW x \in T, NEW y \in T, y > x PROVE Cardinality(above(y)) < Cardinality(above(x))
  <2>0. x \in Int /\ y \in Int /\ \A z \in T : z \in Int
    OBVIOUS
  <2>1. \A z \in T : z > y => z > x
    BY <1>3, <2>0
  <2>2. above(y) \subseteq above(x)
    BY <2>1
  <2>3. y \in above(x) /\ y \notin above(y)
    BY <1>3, <2>0
  <2>4. IsFiniteSet(above(x))
    BY FS_Subset
  <2>6. Cardinality(above(x)) \in Nat /\ Cardinality(above(y)) \in Nat
    BY <1>1
  <2>. HIDE DEF above
  <2>5. above(y) # above(x)
    BY <2>3
  <2>7. Cardinality(above(y)) <= Cardinality(above(x)) /\ Cardinality(above(y)) # Cardinality(above(x))
    BY <2>2, <2>4, <2>5, FS_Subset
  <2>. QED  BY <2>6, <2>7
<1>. HIDE DEF below, above
<1>5. \E x \in T : \A y \in T : x <= y
  <2>1. ranksB \in SUBSET Nat /\ ranksB # {}
    BY <1>1
  <2>2. PICK r \in ranksB : \A q \in ranksB : r <= q
    BY LeastOf, <2>1
  <2>3. PICK x \in T : r = Cardinality(below(x))
    OBVIOUS
  <2>4. ASSUME NEW y \in T PROVE x <= y
    <3>1. Cardinality(below(x)) <= Cardinality(below(y))
      BY <2>2, <2>3
    <3>. QED  BY <1>1, <1>2, <3>1
  <2>. QED  BY <2>4
<1>6. \E x \in T : \A y \in T : y <= x
  <2>1. ranksA \in SUBSET Nat /\ ranksA # {}
    BY <1>1
  <2>2. PICK r \in ranksA : \A q \in ranksA : r <= q
    BY LeastOf, <2>1
  <2>3. PICK x \in T : r = Cardinality(above(x))
    OBVIOUS
  <2>4. ASSUME NEW y \in T PROVE y <= x
    <3>1. Cardinality(above(x)) <= Cardinality(above(y))
      BY <2>2, <2>3
    <3>. QED  BY <1>1, <1>3, <3>1
  <2>. QED  BY <2>4
<1>7. Min(T) \in T /\ \A y \in T : Min(T) <= y
  BY <1>5 DEF Min
<1>8. Max(T) \in T /\ \A y \in T : y <= Max(T)
  BY <1>6 DEF Max
<1>. QED  BY <1>7, <1>8

----------------------------------------------------------------------------
(* Grids count their rows.                                                 *)

IsGrid(g) ==
  /\ g = [bins |-> g.bins, a |-> g.a, b |-> g.b, total |-> g.total, cells |-> g.cells]
  /\ g.bins \in (Nat \ {0}) \X (Nat \ {0}) /\ g.a \in Int \X Int /\ g.b \in Int \X Int
  /\ g.cells \in [(0 .. g.bins[1] - 1) \X (0 .. g.bins[2] - 1) -> Nat] /\ g.total \in Nat

\* How many of the rows are in a set of them.
Among(rows, R) == Cardinality({i \in DOMAIN rows : rows[i] \in R})

CompleteRow == {r \in Row : Complete(r)}
OnCell(g, c) == {r \in CompleteRow : Cell(g, r) = c}

Counts(g, rows) ==
  /\ Among(rows, CompleteRow) <= g.total
  /\ \A i \in DOMAIN rows : rows[i] \in CompleteRow => rows[i][1] \in g.a[1] .. g.a[2] /\ rows[i][2] \in g.b[1] .. g.b[2]
  /\ \A c \in DOMAIN g.cells : Among(rows, OnCell(g, c)) <= g.cells[c]

LEMMA RowsFinite ==
  ASSUME NEW rows \in Seq(Row), NEW R
  PROVE  IsFiniteSet({i \in DOMAIN rows : rows[i] \in R}) /\ Among(rows, R) \in Nat
<1>1. DOMAIN rows = 1 .. Len(rows) /\ Len(rows) \in Nat
  BY LenProperties
<1>2. IsFiniteSet(DOMAIN rows)
  BY <1>1, FS_Interval
<1>. DEFINE H == {i \in DOMAIN rows : rows[i] \in R}
<1>3. IsFiniteSet(H)
  BY <1>2, FS_Subset
<1>. QED  BY <1>3, FS_CardinalityType DEF Among

LEMMA RowOf ==
  ASSUME NEW rows \in Seq(Row), NEW i \in DOMAIN rows
  PROVE  /\ rows[i] \in Row
         /\ rows[i] \in CompleteRow <=> Complete(rows[i])
         /\ rows[i] \in CompleteRow => rows[i][1] \in Int /\ rows[i][2] \in Int
<1>1. rows[i] \in Row
  BY ElementOfSeq, LenProperties
<1>. QED  BY <1>1, ValueAssumption DEF Row, CompleteRow, Complete

\* Of two sequences on end, each counts its own.
LEMMA AmongMore ==
  ASSUME NEW rows \in Seq(Row), NEW more \in Seq(Row), NEW R
  PROVE  Among(rows \o more, R) <= Among(rows, R) + Among(more, R)
<1>. DEFINE all == rows \o more
            n == Len(rows)
            m == Len(more)
            A == {i \in DOMAIN rows : rows[i] \in R}
            B == {i \in DOMAIN more : more[i] \in R}
            C == {n + i : i \in B}
            D == {i \in DOMAIN all : all[i] \in R}
<1>1. /\ n \in Nat /\ m \in Nat
      /\ DOMAIN rows = 1 .. n /\ DOMAIN more = 1 .. m
  BY LenProperties
<1>2. /\ all \in Seq(Row) /\ Len(all) = n + m
      /\ \A i \in 1 .. n + m : all[i] = IF i <= n THEN rows[i] ELSE more[i - n]
  BY ConcatProperties
<1>3. DOMAIN all = 1 .. n + m
  BY <1>2, LenProperties
<1>4. IsFiniteSet(A) /\ IsFiniteSet(B)
  BY RowsFinite
<1>. HIDE DEF all, n, m
<1>5. D \subseteq A \cup C
  <2>. SUFFICES ASSUME NEW i \in D PROVE i \in A \cup C
    OBVIOUS
  <2>1. i \in 1 .. n + m /\ all[i] \in R
    BY <1>3
  <2>2. CASE i <= n
    BY <1>1, <1>2, <2>1, <2>2
  <2>3. CASE ~ i <= n
    <3>1. i - n \in DOMAIN more /\ more[i - n] \in R /\ i = n + (i - n)
      BY <1>1, <1>2, <2>1, <2>3
    <3>. QED  BY <3>1
  <2>. QED  BY <2>2, <2>3
<1>6. IsFiniteSet(C) /\ Cardinality(C) <= Cardinality(B)
  <2>. DEFINE shifted == [i \in B |-> n + i]
  <2>1. shifted \in Surjection(B, C)
    BY Fun_IsSurj
  <2>. HIDE DEF B, C, shifted
  <2>. QED  BY <1>4, <2>1, FS_Surjection
<1>. HIDE DEF A, B, C, D
<1>7. Cardinality(A \cup C) = Cardinality(A) + Cardinality(C) - Cardinality(A \cap C)
  BY <1>4, <1>6, FS_Union
<1>8. IsFiniteSet(A \cup C) /\ IsFiniteSet(A \cap C)
  BY <1>4, <1>6, FS_Union, FS_Intersection
<1>9. Cardinality(D) <= Cardinality(A \cup C) /\ IsFiniteSet(D)
  BY <1>5, <1>8, FS_Subset
<1>10. /\ Cardinality(A) \in Nat /\ Cardinality(B) \in Nat /\ Cardinality(C) \in Nat /\ Cardinality(D) \in Nat
       /\ Cardinality(A \cap C) \in Nat /\ Cardinality(A \cup C) \in Nat
  BY <1>4, <1>6, <1>8, <1>9, FS_CardinalityType
<1>11. Cardinality(D) <= Cardinality(A) + Cardinality(B)
  BY <1>6, <1>7, <1>9, <1>10
<1>. QED  BY <1>11 DEF Among, A, B, D, all

LEMMA NoneAmong ==
  ASSUME NEW rows \in Seq(Row), NEW R, Among(rows, R) <= 0
  PROVE  \A i \in DOMAIN rows : rows[i] \notin R
<1>. DEFINE H == {i \in DOMAIN rows : rows[i] \in R}
<1>1. IsFiniteSet(H) /\ Cardinality(H) \in Nat /\ Cardinality(H) <= 0
  BY RowsFinite DEF Among
<1>. HIDE DEF H
<1>2. H = {}
  BY <1>1, FS_EmptySet
<1>. QED  BY <1>2 DEF H

LEMMA Recounted ==
  ASSUME NEW n, NEW a, NEW b, NEW t, NEW c, NEW g, g = [bins |-> n, a |-> a, b |-> b, total |-> t, cells |-> c],
         NEW counts, NEW h, h = [g EXCEPT !.cells = counts]
  PROVE  h = [bins |-> n, a |-> a, b |-> b, total |-> t, cells |-> counts]
OBVIOUS

\* The grid of a batch.
LEMMA GridOfBatch ==
  ASSUME NEW pairs \in Seq(Row), NEW size \in GridSize
  PROVE  IsGrid(FromPairs(pairs, size)) /\ Counts(FromPairs(pairs, size), pairs)
<1>. DEFINE g0 == NewGrid(size)
            finite == {i \in DOMAIN pairs : Complete(pairs[i])}
            as == {pairs[i][1] : i \in finite}
            bs == {pairs[i][2] : i \in finite}
            aMin == Min(as)
            aMax == Max(as)
            bMin == Min(bs)
            bMax == Max(bs)
            g1 == [bins |-> size, a |-> <<aMin, aMax>>, b |-> <<bMin, bMax>>, total |-> Cardinality(finite),
                   cells |-> g0.cells]
            cells == [c \in DOMAIN g1.cells |-> Cardinality({i \in finite : Cell(g1, pairs[i]) = c})]
            g2 == [g1 EXCEPT !.cells = cells]
            domain == (0 .. size[1] - 1) \X (0 .. size[2] - 1)
<1>1. size \in (Nat \ {0}) \X (Nat \ {0})
  BY GridAssumption
<1>2. g0 = [bins |-> size, a |-> <<0, 0>>, b |-> <<0, 0>>, total |-> 0, cells |-> [c \in domain |-> 0]]
  BY DEF NewGrid
<1>3. finite = {i \in DOMAIN pairs : pairs[i] \in CompleteRow}
  BY RowOf
<1>4. IsFiniteSet(finite) /\ Cardinality(finite) \in Nat /\ Among(pairs, CompleteRow) = Cardinality(finite)
  BY <1>3, RowsFinite DEF Among
<1>5. CASE finite = {}
  <2>1. FromPairs(pairs, size) = g0
    BY <1>5 DEF FromPairs
  <2>2. IsGrid(g0)
    BY <1>1, <1>2 DEF IsGrid
  <2>3. \A i \in DOMAIN pairs : pairs[i] \notin CompleteRow
    BY <1>3, <1>5
  <2>4. \A c : Among(pairs, OnCell(g0, c)) = 0
    <3>1. \A c : {i \in DOMAIN pairs : pairs[i] \in OnCell(g0, c)} = {}
      BY <2>3 DEF OnCell
    <3>2. Cardinality({}) = 0
      BY FS_EmptySet
    <3>. QED  BY <3>1, <3>2 DEF Among
  <2>5. Among(pairs, CompleteRow) = 0
    BY <1>4, <1>5, FS_EmptySet
  <2>6. g0.total = 0 /\ \A c \in DOMAIN g0.cells : g0.cells[c] = 0
    BY <1>2
  <2>. HIDE DEF g0
  <2>. QED  BY <2>1, <2>2, <2>3, <2>4, <2>5, <2>6 DEF Counts
<1>6. CASE finite # {}
  <2>1. FromPairs(pairs, size) = g2
    BY <1>6 DEF FromPairs
  <2>2. \A i \in finite : pairs[i][1] \in Int /\ pairs[i][2] \in Int
    BY <1>3, RowOf
  <2>3. IsFiniteSet(as) /\ as # {} /\ as \subseteq Int
    <3>. DEFINE column == [i \in finite |-> pairs[i][1]]
    <3>1. column \in Surjection(finite, as)
      BY Fun_IsSurj
    <3>2. as # {} /\ as \subseteq Int
      BY <1>6, <2>2
    <3>. HIDE DEF finite, as, column
    <3>. QED  BY <1>4, <3>1, <3>2, FS_Surjection
  <2>4. IsFiniteSet(bs) /\ bs # {} /\ bs \subseteq Int
    <3>. DEFINE column == [i \in finite |-> pairs[i][2]]
    <3>1. column \in Surjection(finite, bs)
      BY Fun_IsSurj
    <3>2. bs # {} /\ bs \subseteq Int
      BY <1>6, <2>2
    <3>. HIDE DEF finite, bs, column
    <3>. QED  BY <1>4, <3>1, <3>2, FS_Surjection
  <2>5. \A i \in finite : pairs[i][1] \in as /\ pairs[i][2] \in bs
    OBVIOUS
  <2>. HIDE DEF as, bs, finite
  <2>6. /\ aMin \in Int /\ aMax \in Int /\ bMin \in Int /\ bMax \in Int
        /\ \A x \in as : aMin <= x /\ x <= aMax
        /\ \A x \in bs : bMin <= x /\ x <= bMax
    BY <2>3, <2>4, Extremes
  <2>. HIDE DEF aMin, aMax, bMin, bMax
  <2>7. g1 = [bins |-> size, a |-> <<aMin, aMax>>, b |-> <<bMin, bMax>>, total |-> Cardinality(finite),
              cells |-> [c \in domain |-> 0]]
    BY <1>2
  <2>8. DOMAIN g1.cells = domain
    BY <2>7
  <2>9. \A c \in domain : {i \in finite : Cell(g1, pairs[i]) = c} = {i \in DOMAIN pairs : pairs[i] \in OnCell(g1, c)}
    BY <1>3 DEF OnCell, finite
  <2>10. \A c \in domain : cells[c] = Among(pairs, OnCell(g1, c)) /\ cells[c] \in Nat
    BY <2>8, <2>9, RowsFinite DEF Among
  <2>11. DOMAIN cells = domain
    BY <2>8
  <2>12. cells \in [domain -> Nat]
    BY <2>8, <2>10, <2>11
  <2>. HIDE DEF cells, g0, g1, domain
  <2>13. g2 = [g1 EXCEPT !.cells = cells]
    OBVIOUS
  <2>. HIDE DEF g2
  <2>14. g2 = [bins |-> size, a |-> <<aMin, aMax>>, b |-> <<bMin, bMax>>, total |-> Cardinality(finite), cells |-> cells]
    BY <2>7, <2>13, Recounted
  <2>15. \A c : OnCell(g2, c) = OnCell(g1, c)
    <3>1. g2.bins = g1.bins /\ g2.a = g1.a /\ g2.b = g1.b
      BY <2>7, <2>14
    <3>. QED  BY <3>1 DEF OnCell, Cell
  <2>16. IsGrid(g2)
    <3>1. /\ g2.bins = size /\ g2.a = <<aMin, aMax>> /\ g2.b = <<bMin, bMax>>
          /\ g2.total = Cardinality(finite) /\ g2.cells = cells
      BY <2>14
    <3>2. g2 = [bins |-> g2.bins, a |-> g2.a, b |-> g2.b, total |-> g2.total, cells |-> g2.cells]
      BY <2>14, <3>1
    <3>3. g2.a \in Int \X Int /\ g2.b \in Int \X Int
      BY <2>6, <3>1
    <3>. QED  BY <1>1, <1>4, <2>12, <3>1, <3>2, <3>3 DEF IsGrid, domain
  <2>17. /\ g2.total = Cardinality(finite) /\ DOMAIN g2.cells = domain /\ g2.cells = cells
         /\ g2.a[1] = aMin /\ g2.a[2] = aMax /\ g2.b[1] = bMin /\ g2.b[2] = bMax
    BY <2>11, <2>14
  <2>18. \A c \in domain : Among(pairs, OnCell(g2, c)) <= g2.cells[c]
    BY <2>10, <2>15, <2>17
  <2>19. ASSUME NEW i \in DOMAIN pairs, pairs[i] \in CompleteRow
         PROVE  pairs[i][1] \in g2.a[1] .. g2.a[2] /\ pairs[i][2] \in g2.b[1] .. g2.b[2]
    <3>1. i \in finite
      BY <1>3, <2>19
    <3>2. pairs[i][1] \in Int /\ pairs[i][2] \in Int /\ pairs[i][1] \in as /\ pairs[i][2] \in bs
      BY <2>2, <2>5, <3>1
    <3>3. /\ aMin <= pairs[i][1] /\ pairs[i][1] <= aMax
          /\ bMin <= pairs[i][2] /\ pairs[i][2] <= bMax
      BY <2>6, <3>2
    <3>4. pairs[i][1] \in aMin .. aMax /\ pairs[i][2] \in bMin .. bMax
      BY <2>6, <3>2, <3>3
    <3>. QED  BY <2>17, <3>4
  <2>. QED  BY <1>4, <2>1, <2>16, <2>17, <2>18, <2>19 DEF Counts
<1>. QED  BY <1>5, <1>6

\* A merged grid counts both sides, whichever of them was empty.
LEMMA GridOfMerged ==
  ASSUME NEW rows \in Seq(Row), NEW more \in Seq(Row), NEW g, NEW o, IsGrid(g), IsGrid(o),
         Counts(g, rows), Counts(o, more), CompatibleGrids(g, o)
  PROVE  IsGrid(MergedGrids(g, o)) /\ Counts(MergedGrids(g, o), rows \o more)
<1>. DEFINE h == IF g.total = 0 THEN [g EXCEPT !.a = o.a, !.b = o.b] ELSE g
            cells == [c \in DOMAIN g.cells |-> g.cells[c] + o.cells[c]]
            m == MergedGrids(g, o)
            all == rows \o more
            n == Len(rows)
            domain == (0 .. g.bins[1] - 1) \X (0 .. g.bins[2] - 1)
<1>1. /\ g.bins = o.bins /\ DOMAIN g.cells = domain /\ DOMAIN o.cells = domain
      /\ g.total \in Nat /\ o.total \in Nat
      /\ \A c \in domain : g.cells[c] \in Nat /\ o.cells[c] \in Nat
  BY DEF IsGrid, CompatibleGrids
<1>2. h = [bins |-> g.bins, a |-> h.a, b |-> h.b, total |-> g.total, cells |-> g.cells]
  BY DEF IsGrid
<1>3. h.a = (IF g.total = 0 THEN o.a ELSE g.a) /\ h.b = (IF g.total = 0 THEN o.b ELSE g.b)
  BY DEF IsGrid
<1>4. cells \in [domain -> Nat] /\ \A c \in domain : cells[c] = g.cells[c] + o.cells[c]
  BY <1>1
<1>. HIDE DEF h
<1>5. m = [bins |-> g.bins, a |-> h.a, b |-> h.b, total |-> g.total + o.total, cells |-> cells]
  <2>1. m = [bins |-> h.bins, a |-> h.a, b |-> h.b, total |-> h.total + o.total,
             cells |-> [c \in DOMAIN h.cells |-> h.cells[c] + o.cells[c]]]
    BY DEF MergedGrids, Added, h
  <2>2. h.cells = g.cells /\ h.total = g.total /\ h.bins = g.bins
    BY <1>2
  <2>. HIDE DEF m
  <2>. QED  BY <2>1, <2>2
<1>. HIDE DEF m, cells
<1>6. IsGrid(m)
  <2>1. h.a \in Int \X Int /\ h.b \in Int \X Int
    BY <1>3 DEF IsGrid
  <2>2. m.bins = g.bins /\ m.a = h.a /\ m.b = h.b /\ m.total = g.total + o.total /\ m.cells = cells
    BY <1>5
  <2>3. m = [bins |-> m.bins, a |-> m.a, b |-> m.b, total |-> m.total, cells |-> m.cells]
    BY <1>5, <2>2
  <2>4. g.bins \in (Nat \ {0}) \X (Nat \ {0})
    BY DEF IsGrid
  <2>5. m.bins \in (Nat \ {0}) \X (Nat \ {0}) /\ m.a \in Int \X Int /\ m.b \in Int \X Int /\ m.total \in Nat
    BY <1>1, <2>1, <2>2, <2>4
  <2>6. m.cells \in [(0 .. m.bins[1] - 1) \X (0 .. m.bins[2] - 1) -> Nat]
    BY <1>4, <2>2
  <2>. QED  BY <2>3, <2>5, <2>6 DEF IsGrid
<1>7. all \in Seq(Row)
      /\ \A i \in DOMAIN all : (i \in DOMAIN rows /\ all[i] = rows[i]) \/ (i - n \in DOMAIN more /\ all[i] = more[i - n])
  <2>1. /\ n \in Nat /\ Len(more) \in Nat
        /\ DOMAIN rows = 1 .. n /\ DOMAIN more = 1 .. Len(more)
    BY LenProperties
  <2>2. /\ all \in Seq(Row) /\ Len(all) = n + Len(more)
        /\ \A i \in 1 .. n + Len(more) : all[i] = IF i <= n THEN rows[i] ELSE more[i - n]
    BY ConcatProperties
  <2>3. DOMAIN all = 1 .. n + Len(more)
    BY <2>2, LenProperties
  <2>. HIDE DEF all, n
  <2>. QED  BY <2>1, <2>2, <2>3
<1>8. /\ \A R : Among(all, R) <= Among(rows, R) + Among(more, R)
      /\ \A R : Among(all, R) \in Nat /\ Among(rows, R) \in Nat /\ Among(more, R) \in Nat
  BY <1>7, AmongMore, RowsFinite
<1>. HIDE DEF all, n, domain
<1>9. Among(all, CompleteRow) <= m.total
  <2>1. Among(rows, CompleteRow) <= g.total /\ Among(more, CompleteRow) <= o.total
    BY DEF Counts
  <2>2. m.total = g.total + o.total
    BY <1>5
  <2>. QED  BY <1>1, <1>8, <2>1, <2>2
<1>10. /\ (\A i \in DOMAIN rows : rows[i] \notin CompleteRow) \/ (m.a = g.a /\ m.b = g.b)
       /\ (\A i \in DOMAIN more : more[i] \notin CompleteRow) \/ (m.a = o.a /\ m.b = o.b)
  <2>0. m.a = h.a /\ m.b = h.b
    BY <1>5
  <2>1. CASE g.total = 0
    <3>1. \A i \in DOMAIN rows : rows[i] \notin CompleteRow
      BY <2>1, NoneAmong DEF Counts
    <3>. QED  BY <1>3, <2>0, <2>1, <3>1
  <2>2. CASE g.total # 0 /\ o.total = 0
    <3>1. \A i \in DOMAIN more : more[i] \notin CompleteRow
      BY <2>2, NoneAmong DEF Counts
    <3>. QED  BY <1>3, <2>0, <2>2, <3>1
  <2>3. CASE g.total # 0 /\ o.total # 0
    BY <1>3, <2>0, <2>3 DEF CompatibleGrids
  <2>. QED  BY <2>1, <2>2, <2>3
<1>11. ASSUME NEW i \in DOMAIN all, all[i] \in CompleteRow
       PROVE  all[i][1] \in m.a[1] .. m.a[2] /\ all[i][2] \in m.b[1] .. m.b[2]
  <2>1. CASE i \in DOMAIN rows /\ all[i] = rows[i]
    BY <1>10, <1>11, <2>1 DEF Counts
  <2>2. CASE i - n \in DOMAIN more /\ all[i] = more[i - n]
    BY <1>10, <1>11, <2>2 DEF Counts
  <2>. QED  BY <1>7, <2>1, <2>2
<1>12. ASSUME NEW c \in domain PROVE Among(all, OnCell(m, c)) <= m.cells[c]
  <2>0. m.bins = g.bins /\ m.bins = o.bins
    BY <1>1, <1>5
  <2>1. Among(rows, OnCell(m, c)) <= g.cells[c]
    <3>1. CASE \A i \in DOMAIN rows : rows[i] \notin CompleteRow
      <4>1. {i \in DOMAIN rows : rows[i] \in OnCell(m, c)} = {}
        BY <3>1 DEF OnCell
      <4>2. Among(rows, OnCell(m, c)) = 0
        BY <4>1, FS_EmptySet DEF Among
      <4>. QED  BY <1>1, <4>2
    <3>2. CASE m.a = g.a /\ m.b = g.b
      <4>1. OnCell(m, c) = OnCell(g, c)
        BY <2>0, <3>2 DEF OnCell, Cell
      <4>. QED  BY <1>1, <4>1 DEF Counts
    <3>. QED  BY <1>10, <3>1, <3>2
  <2>2. Among(more, OnCell(m, c)) <= o.cells[c]
    <3>1. CASE \A i \in DOMAIN more : more[i] \notin CompleteRow
      <4>1. {i \in DOMAIN more : more[i] \in OnCell(m, c)} = {}
        BY <3>1 DEF OnCell
      <4>2. Among(more, OnCell(m, c)) = 0
        BY <4>1, FS_EmptySet DEF Among
      <4>. QED  BY <1>1, <4>2
    <3>2. CASE m.a = o.a /\ m.b = o.b
      <4>1. OnCell(m, c) = OnCell(o, c)
        BY <2>0, <3>2 DEF OnCell, Cell
      <4>. QED  BY <1>1, <4>1 DEF Counts
    <3>. QED  BY <1>10, <3>1, <3>2
  <2>3. m.cells[c] = g.cells[c] + o.cells[c]
    BY <1>4, <1>5
  <2>. QED  BY <1>1, <1>8, <2>1, <2>2, <2>3
<1>13. DOMAIN m.cells = domain
  BY <1>4, <1>5
<1>. QED  BY <1>6, <1>9, <1>11, <1>12, <1>13 DEF Counts, m, all

\* The rows in a range fall on the cells of its spans, which count them.
LEMMA GridsCover ==
  ASSUME NEW rows \in Seq(Row), NEW g, IsGrid(g), Counts(g, rows),
         NEW aLo \in Int, NEW aHi \in Int, NEW bLo \in Int, NEW bHi \in Int
  PROVE  Cardinality({i \in DOMAIN rows :
             LET row == rows[i]
             IN Complete(row) /\ row[1] \in aLo .. aHi /\ row[2] \in bLo .. bHi})
           <= EstimateCells(g, aLo, aHi, bLo, bHi)
<1>. DEFINE M == {i \in DOMAIN rows : Complete(rows[i]) /\ rows[i][1] \in aLo .. aHi /\ rows[i][2] \in bLo .. bHi}
            A == BucketSpan(aLo, aHi, g.a, g.bins[1])
            B == BucketSpan(bLo, bHi, g.b, g.bins[2])
            C == A \X B
            on == [i \in M |-> Cell(g, rows[i])]
<1>1. M \subseteq {i \in DOMAIN rows : rows[i] \in CompleteRow}
  BY RowOf
<1>2. IsFiniteSet(M)
  BY <1>1, RowsFinite, FS_Subset
<1>3. CASE g.total = 0
  <2>1. \A i \in DOMAIN rows : rows[i] \notin CompleteRow
    BY <1>3, NoneAmong DEF Counts
  <2>2. M = {}
    BY <1>1, <2>1
  <2>. HIDE DEF M
  <2>3. Cardinality(M) = 0
    BY <2>2, FS_EmptySet
  <2>4. EstimateCells(g, aLo, aHi, bLo, bHi) = 0
    BY <1>3 DEF EstimateCells
  <2>5. Cardinality(M) <= EstimateCells(g, aLo, aHi, bLo, bHi)
    BY <2>3, <2>4
  <2>. QED  BY <2>5 DEF M
<1>4. CASE g.total # 0
  <2>1. /\ g.a \in Int \X Int /\ g.b \in Int \X Int /\ g.bins[1] \in Nat \ {0} /\ g.bins[2] \in Nat \ {0}
        /\ DOMAIN g.cells = (0 .. g.bins[1] - 1) \X (0 .. g.bins[2] - 1)
        /\ \A c \in DOMAIN g.cells : g.cells[c] \in Nat
    BY DEF IsGrid
  <2>2. ASSUME NEW i \in M
        PROVE  /\ rows[i][1] \in Int /\ rows[i][2] \in Int
               /\ rows[i][1] \in aLo .. aHi /\ rows[i][1] \in g.a[1] .. g.a[2]
               /\ rows[i][2] \in bLo .. bHi /\ rows[i][2] \in g.b[1] .. g.b[2]
    BY <1>1, RowOf DEF Counts
  <2>3. C \subseteq DOMAIN g.cells /\ IsFiniteSet(C)
    <3>1. A \subseteq 0 .. g.bins[1] - 1 /\ B \subseteq 0 .. g.bins[2] - 1
      BY <2>1, SpanInRange
    <3>2. g.bins[1] - 1 \in Int /\ g.bins[2] - 1 \in Int
      BY <2>1
    <3>. DEFINE x == g.bins[1] - 1
                y == g.bins[2] - 1
    <3>3. IsFiniteSet(0 .. x) /\ IsFiniteSet(0 .. y)
      <4>. HIDE DEF x, y
      <4>1. x \in Int /\ y \in Int
        BY <3>2 DEF x, y
      <4>. QED  BY <4>1, FS_Interval
    <3>. HIDE DEF A, B
    <3>4. IsFiniteSet(A) /\ IsFiniteSet(B)
      BY <3>1, <3>3, FS_Subset
    <3>. QED  BY <2>1, <3>1, <3>4, FS_Product
  <2>4. on \in [M -> C]
    <3>1. ASSUME NEW i \in M PROVE Cell(g, rows[i]) \in C
      <4>1. BucketIndex(rows[i][1], g.a, g.bins[1]) \in A
        BY <2>1, <2>2, SpanHoldsBucket
      <4>2. BucketIndex(rows[i][2], g.b, g.bins[2]) \in B
        BY <2>1, <2>2, SpanHoldsBucket
      <4>. HIDE DEF A, B
      <4>. QED  BY <4>1, <4>2 DEF Cell
    <3>. HIDE DEF M, C
    <3>. QED  BY <3>1
  <2>. DEFINE all == UNION {{c} \X (1 .. g.cells[c]) : c \in C}
              count == [c \in C |-> g.cells[c]]
  <2>5. EstimateCells(g, aLo, aHi, bLo, bHi) = Cardinality(all)
    BY <1>4 DEF EstimateCells
  <2>6. count \in [C -> Nat] /\ \A c \in C : count[c] = g.cells[c]
    BY <2>1, <2>3
  <2>7. ASSUME NEW c \in C PROVE Cardinality({i \in M : on[i] = c}) <= count[c]
    <3>. DEFINE X == {i \in M : on[i] = c}
                Y == {i \in DOMAIN rows : rows[i] \in OnCell(g, c)}
    <3>1. X \subseteq Y
      BY <1>1 DEF OnCell
    <3>2. IsFiniteSet(Y) /\ Cardinality(Y) \in Nat /\ Cardinality(Y) = Among(rows, OnCell(g, c))
      BY RowsFinite DEF Among
    <3>3. c \in DOMAIN g.cells
      BY <2>3
    <3>4. Cardinality(Y) <= g.cells[c] /\ g.cells[c] \in Nat
      BY <2>1, <3>2, <3>3 DEF Counts
    <3>. HIDE DEF X, Y
    <3>5. Cardinality(X) \in Nat /\ Cardinality(X) <= Cardinality(Y)
      BY <3>1, <3>2, FS_Subset, FS_CardinalityType
    <3>. HIDE DEF count
    <3>6. Cardinality(X) <= count[c]
      BY <2>6, <3>2, <3>4, <3>5
    <3>. QED  BY <3>6 DEF X
  <2>. HIDE DEF on, M, C, count
  <2>8. Cardinality(M) <= Cardinality(Places(count, C))
    <3>1. IsFiniteSet(C)
      BY <2>3
    <3>2. count \in [C -> Nat]
      BY <2>6
    <3>3. \A c \in C : Cardinality(FallOn(on, M, c)) <= count[c]
      BY <2>7 DEF FallOn
    <3>. QED  BY <1>2, <2>4, <3>1, <3>2, <3>3, CountedByCell
  <2>9. Places(count, C) = UNION {{c} \X (1 .. g.cells[c]) : c \in C}
    <3>1. {{c} \X (1 .. count[c]) : c \in C} = {{c} \X (1 .. g.cells[c]) : c \in C}
      BY <2>6
    <3>. QED  BY <3>1 DEF Places
  <2>10. Cardinality(M) <= EstimateCells(g, aLo, aHi, bLo, bHi)
    BY <2>5, <2>8, <2>9
  <2>. QED  BY <2>10 DEF M
<1>. QED  BY <1>3, <1>4

----------------------------------------------------------------------------
(* The invariant of the partitions.                                        *)

Summary(e, s) ==
  /\ e \in Engine
  /\ s.rows \in Seq(Row)
  /\ HasRegisters(s.hll) /\ s.hll.precision = Precision /\ Witnessed(s.hll, KeysOf(e, s.rows))
  /\ s.bloom # None => IsBloom(s.bloom) /\ Holds(s.bloom, KeysOf(e, s.rows))
  /\ s.grid # None => IsGrid(s.grid) /\ Counts(s.grid, s.rows)

ColumnInv ==
  /\ part = [p \in Part |-> part[p]]
  /\ \A p \in Part : part[p] = Nothing \/ Summary(engine, part[p])

\* One partition is given a summary by the engine in use.
LEMMA ReplacePart ==
  ASSUME ColumnInv, NEW p \in Part, NEW s, part' = [part EXCEPT ![p] = s],
         engine' = engine \/ engine = Null, Summary(engine', s)
  PROVE  ColumnInv'
<1>1. \A q \in Part : part'[q] = IF q = p THEN s ELSE part[q]
  BY DEF ColumnInv
<1>2. part' = [q \in Part |-> part'[q]]
  BY DEF ColumnInv
<1>3. ASSUME NEW q \in Part, Summary(engine, part[q]) PROVE Summary(engine', part[q])
  BY <1>3, EngineAssumption DEF Summary
<1>. QED  BY <1>1, <1>2, <1>3 DEF ColumnInv

LEMMA SummaryOfBatch ==
  ASSUME NEW e \in Engine, NEW batch \in Batch, NEW size \in BloomSize, NEW bins \in GridSize
  PROVE  Summary(e, [rows |-> batch, hll |-> HllOf(e, batch), bloom |-> BloomOf(size, e, batch),
                     grid |-> FromPairs(batch, bins)])
<1>. DEFINE keys == KeysOf(e, batch)
<1>1. batch \in Seq(Row) /\ keys \in SUBSET Item
  BY BatchAssumption, KeysTyped
<1>. HIDE DEF keys
<1>2. Fresh(Precision).precision = Precision
  BY DEF Fresh
<1>3. /\ HasRegisters(AddAll(Fresh(Precision), keys))
      /\ AddAll(Fresh(Precision), keys).precision = Precision
      /\ Witnessed(AddAll(Fresh(Precision), keys), {} \cup keys)
  BY <1>2, WitnessedFresh, WitnessedAll
<1>4. IsBloom(Insert(NewBloom(size), keys)) /\ Holds(Insert(NewBloom(size), keys), {} \cup keys)
  BY <1>1, FreshBloom, HoldsMore
<1>5. {} \cup keys = keys
  OBVIOUS
<1>6. HllOf(e, batch) = AddAll(Fresh(Precision), keys) /\ BloomOf(size, e, batch) = Insert(NewBloom(size), keys)
  BY DEF HllOf, BloomOf, keys
<1>7. IsGrid(FromPairs(batch, bins)) /\ Counts(FromPairs(batch, bins), batch)
  BY <1>1, GridOfBatch
<1>. QED  BY <1>1, <1>3, <1>4, <1>5, <1>6, <1>7 DEF Summary, keys

LEMMA SummaryOfMore ==
  ASSUME NEW e, NEW s, Summary(e, s), s.bloom # None, NEW batch \in Batch
  PROVE  Summary(e, [rows |-> s.rows \o batch, grid |-> None, hll |-> AddAll(s.hll, KeysOf(e, batch)),
                     bloom |-> Insert(s.bloom, KeysOf(e, batch))])
<1>. DEFINE held == KeysOf(e, s.rows)
            keys == KeysOf(e, batch)
            all == KeysOf(e, s.rows \o batch)
<1>1. batch \in Seq(Row) /\ keys \in SUBSET Item
  BY BatchAssumption, KeysTyped DEF Summary
<1>2. all = held \cup keys /\ s.rows \o batch \in Seq(Row)
  BY <1>1, KeysOfMore, ConcatProperties DEF Summary
<1>3. /\ HasRegisters(s.hll) /\ s.hll.precision = Precision /\ Witnessed(s.hll, held)
      /\ IsBloom(s.bloom) /\ Holds(s.bloom, held) /\ e \in Engine
  BY DEF Summary
<1>. HIDE DEF held, keys, all
<1>4. /\ HasRegisters(AddAll(s.hll, keys)) /\ AddAll(s.hll, keys).precision = Precision
      /\ Witnessed(AddAll(s.hll, keys), all)
  BY <1>2, <1>3, WitnessedAll
<1>5. IsBloom(Insert(s.bloom, keys)) /\ Holds(Insert(s.bloom, keys), all)
  BY <1>1, <1>2, <1>3, HoldsMore
<1>. QED  BY <1>2, <1>3, <1>4, <1>5 DEF Summary, keys, all

LEMMA SummaryOfMerged ==
  ASSUME NEW e, NEW s, Summary(e, s), NEW o, Summary(e, o), None \notin {s.grid, o.grid}, CompatibleGrids(s.grid, o.grid)
  PROVE  Summary(e, [rows |-> s.rows \o o.rows, bloom |-> None, hll |-> Merged(s.hll, o.hll),
                     grid |-> MergedGrids(s.grid, o.grid)])
<1>1. KeysOf(e, s.rows \o o.rows) = KeysOf(e, s.rows) \cup KeysOf(e, o.rows) /\ s.rows \o o.rows \in Seq(Row)
  BY KeysOfMore, ConcatProperties DEF Summary
<1>2. HasRegisters(Merged(s.hll, o.hll)) /\ Witnessed(Merged(s.hll, o.hll), KeysOf(e, s.rows) \cup KeysOf(e, o.rows))
  BY WitnessedMerge DEF Summary
<1>3. Merged(s.hll, o.hll).precision = Precision
  BY DEF Merged, Summary, HasRegisters
<1>4. IsGrid(MergedGrids(s.grid, o.grid)) /\ Counts(MergedGrids(s.grid, o.grid), s.rows \o o.rows)
  BY GridOfMerged DEF Summary
<1>. QED  BY <1>1, <1>2, <1>3, <1>4 DEF Summary

LEMMA ColumnInvariance == SummarySpec => []ColumnInv
<1>1. SummaryInit => ColumnInv
  BY DEF SummaryInit, ColumnInv
<1>2. ColumnInv /\ [SummaryNext]_summaryVars => ColumnInv'
  <2>. SUFFICES ASSUME ColumnInv, [SummaryNext]_summaryVars PROVE ColumnInv'
    OBVIOUS
  <2>0. /\ \A p \in Part : part[p] # Nothing => Summary(engine, part[p])
        /\ Nothing.grid = None /\ Nothing.bloom = None
    BY DEF ColumnInv, Nothing
  <2>1. ASSUME NEW p \in Part, NEW batch \in Batch, NEW size \in BloomSize, NEW bins \in GridSize,
               Summarise(p, batch, size, bins)
        PROVE  ColumnInv'
    <3>1. Summary(engine', [rows |-> batch, hll |-> HllOf(engine', batch), bloom |-> BloomOf(size, engine', batch),
                            grid |-> FromPairs(batch, bins)])
      BY <2>1, SummaryOfBatch DEF Summarise
    <3>. QED  BY <2>1, <3>1, ReplacePart DEF Summarise
  <2>2. ASSUME NEW p \in Part, NEW batch \in Batch, InsertMore(p, batch)
        PROVE  ColumnInv'
    <3>. DEFINE s == [rows |-> part[p].rows \o batch, grid |-> None, hll |-> AddAll(part[p].hll, KeysOf(engine, batch)),
                      bloom |-> Insert(part[p].bloom, KeysOf(engine, batch))]
    <3>1. Summary(engine, s)
      BY <2>0, <2>2, SummaryOfMore DEF InsertMore
    <3>2. part' = [part EXCEPT ![p] = s] /\ engine' = engine
      BY <2>2 DEF InsertMore
    <3>. HIDE DEF s
    <3>. QED  BY <3>1, <3>2, ReplacePart
  <2>3. ASSUME NEW p \in Part, NEW q \in Part, MergeParts(p, q)
        PROVE  ColumnInv'
    <3>. DEFINE s == [rows |-> part[p].rows \o part[q].rows, bloom |-> None,
                      hll |-> Merged(part[p].hll, part[q].hll), grid |-> MergedGrids(part[p].grid, part[q].grid)]
    <3>1. Summary(engine, part[p]) /\ Summary(engine, part[q])
      BY <2>0, <2>3 DEF MergeParts
    <3>2. Summary(engine, s)
      BY <2>3, <3>1, SummaryOfMerged DEF MergeParts
    <3>3. part' = [part EXCEPT ![p] = s] /\ engine' = engine
      BY <2>3 DEF MergeParts
    <3>. HIDE DEF s
    <3>. QED  BY <3>2, <3>3, ReplacePart
  <2>4. ASSUME NEW p \in Part, Reload(p)
        PROVE  ColumnInv'
    <3>. DEFINE f == IF part[p].bloom # None /\ ValidBloom(part[p].bloom) THEN part[p].bloom ELSE None
                h == IF Valid(part[p].hll) THEN part[p].hll ELSE None
                s == [rows |-> part[p].rows, grid |-> part[p].grid, hll |-> h, bloom |-> f]
    <3>1. Summary(engine, part[p])
      BY <2>0, <2>4 DEF Reload
    <3>2. Valid(part[p].hll)
      BY <3>1, PrecisionAssumption DEF Valid, Summary, HasRegisters
    <3>3. h = part[p].hll /\ f \in {part[p].bloom, None}
      BY <3>2
    <3>4. part' = [part EXCEPT ![p] = s] /\ engine' = engine
      BY <2>4 DEF Reload
    <3>. HIDE DEF f, h
    <3>5. Summary(engine, s)
      BY <3>1, <3>3 DEF Summary
    <3>. HIDE DEF s
    <3>. QED  BY <3>4, <3>5, ReplacePart
  <2>5. CASE UNCHANGED <<engine, part>>
    BY <2>5 DEF ColumnInv, Summary
  <2>. QED  BY <2>1, <2>2, <2>3, <2>4, <2>5 DEF SummaryNext, summaryVars
<1>. QED  BY <1>1, <1>2, PTL DEF SummarySpec

\* What holds of the sketches alone holds beside the partitions.
LEMMA SketchesAlone == SummarySpec => Spec
<1>1. SummaryInit => Init
  BY DEF SummaryInit
<1>2. [SummaryNext]_summaryVars => [Next]_vars
  BY DEF SummaryNext, summaryVars, vars, Summarise, InsertMore, MergeParts, Reload
<1>. QED  BY <1>1, <1>2, PTL DEF SummarySpec, Spec

----------------------------------------------------------------------------
(* Theorems of the partitions.                                             *)

\* Summarising columns beside them changes nothing about the sketches.
THEOREM DegreeIsSoundBeside == SummarySpec => []HllDegreeSound
BY SketchesAlone, DegreeIsSound, PTL

\* No Bloom filter, however it was sized, filled, extended and reloaded,
\* denies a key of its rows.
THEOREM FiltersMissNothing == SummarySpec => []NoFalseNegatives
<1>1. ColumnInv => NoFalseNegatives
  <2>. SUFFICES ASSUME ColumnInv, NEW p \in Part, part[p] # Nothing, part[p].bloom # None
                PROVE  /\ ValidBloom(part[p].bloom)
                       /\ \A k \in KeysOf(engine, part[p].rows) : BloomContains(part[p].bloom, k)
    BY DEF NoFalseNegatives, Touching
  <2>1. IsBloom(part[p].bloom) /\ Holds(part[p].bloom, KeysOf(engine, part[p].rows))
    BY DEF ColumnInv, Summary
  <2>. QED  BY <2>1 DEF IsBloom, Holds, ValidBloom, BloomContains
<1>. QED  BY ColumnInvariance, <1>1, PTL

\* The degree taken from the register floor of an ingested column and its row
\* count bounds every join key of it, whatever its engine does with nulls.
THEOREM IngestedDegreeIsSound == SummarySpec => []IngestedDegreeSound
<1>1. ColumnInv => IngestedDegreeSound
  <2>. SUFFICES ASSUME ColumnInv, NEW p \in Part, part[p] # Nothing, NEW v \in Value
                PROVE  Cardinality({i \in DOMAIN part[p].rows : part[p].rows[i][1] = v})
                         <= FromHllFloor(Len(part[p].rows), part[p].hll)
    BY DEF IngestedDegreeSound, Touching
  <2>. DEFINE rows == part[p].rows
              c == Cardinality({i \in DOMAIN rows : rows[i][1] = v})
              d == NonzeroRegisters(part[p].hll)
              keys == KeysOf(engine, rows)
  <2>1. Summary(engine, part[p])
    BY DEF ColumnInv
  <2>2. engine \in Engine /\ rows \in Seq(Row) /\ Witnessed(part[p].hll, keys)
    BY <2>1 DEF Summary
  <2>3. keys \in SUBSET Item
    BY <2>2, KeysTyped
  <2>4. d \in Nat /\ d <= Cardinality(keys)
    BY <2>2, <2>3, FloorOfWitnessed
  <2>5. /\ Len(rows) \in Nat /\ c \in 0 .. Len(rows) /\ Cardinality(keys) \in Nat
        /\ Cardinality(keys) <= Len(rows) - c + 1
    BY <2>2, KeysOfShared
  <2>. HIDE DEF c, d, keys
  <2>6. c <= FromDistinct(Len(rows), d)
    BY <2>4, <2>5 DEF FromDistinct
  <2>. QED  BY <2>6 DEF FromHllFloor, c, d
<1>. QED  BY ColumnInvariance, <1>1, PTL

\* A grid never answers less than the rows there are in a range, for any
\* integers, sizes and bounds, after any merges it allows.
THEOREM GridsCoverRanges == SummarySpec => []GridCovers
<1>1. Queries \subseteq Int
  <2>1. Min(Value) \in Int /\ Max(Value) \in Int
    BY ValueAssumption, Extremes
  <2>. QED  BY <2>1 DEF Queries
<1>2. ColumnInv => GridCovers
  <2>. SUFFICES ASSUME ColumnInv, NEW p \in Part, part[p] # Nothing, part[p].grid # None,
                       NEW aLo \in Queries, NEW aHi \in Queries, NEW bLo \in Queries, NEW bHi \in Queries
                PROVE  Cardinality({i \in DOMAIN part[p].rows :
                           LET row == part[p].rows[i]
                           IN Complete(row) /\ row[1] \in aLo .. aHi /\ row[2] \in bLo .. bHi})
                         <= EstimateCells(part[p].grid, aLo, aHi, bLo, bHi)
    BY DEF GridCovers, Touching
  <2>1. part[p].rows \in Seq(Row) /\ IsGrid(part[p].grid) /\ Counts(part[p].grid, part[p].rows)
    BY DEF ColumnInv, Summary
  <2>2. aLo \in Int /\ aHi \in Int /\ bLo \in Int /\ bHi \in Int
    BY <1>1
  <2>. QED  BY <2>1, <2>2, GridsCover
<1>. QED  BY ColumnInvariance, <1>2, PTL

----------------------------------------------------------------------------
(* Folds over finite sets.                                                 *)

Pick(s) == CHOOSE x \in s : TRUE

IsFold(g, U, base, step) ==
  g = [s \in U |-> IF s = {} THEN base ELSE step[<<Pick(s), g[s \ {Pick(s)}]>>]]

Small(S, k) == {s \in SUBSET S : Cardinality(s) <= k}
Folded(S, base, step, k) == \E g \in [Small(S, k) -> Int] : IsFold(g, Small(S, k), base, step)

LEMMA Smaller ==
  ASSUME NEW s, IsFiniteSet(s), s # {}
  PROVE  /\ Pick(s) \in s /\ IsFiniteSet(s \ {Pick(s)}) /\ Cardinality(s) \in Nat \ {0}
         /\ Cardinality(s \ {Pick(s)}) = Cardinality(s) - 1
<1>1. Pick(s) \in s
  BY DEF Pick
<1>. QED  BY <1>1, FS_RemoveElement, FS_CardinalityType, FS_EmptySet

LEMMA FoldFurther ==
  ASSUME NEW S, IsFiniteSet(S), NEW base \in Int, NEW step \in [S \X Int -> Int], NEW k \in Nat, Folded(S, base, step, k)
  PROVE  Folded(S, base, step, k + 1)
<1>. DEFINE U == Small(S, k)
            W == Small(S, k + 1)
            rest(s) == s \ {Pick(s)}
<1>1. PICK g \in [U -> Int] : IsFold(g, U, base, step)
  BY DEF Folded
<1>. DEFINE f == [s \in W |-> IF s = {} THEN base ELSE step[<<Pick(s), g[rest(s)]>>]]
<1>2. ASSUME NEW s \in W, s # {} PROVE rest(s) \in U /\ rest(s) \in W /\ Pick(s) \in S
  <2>1. s \in SUBSET S /\ Cardinality(s) <= k + 1 /\ IsFiniteSet(s)
    BY FS_Subset DEF Small
  <2>2. Pick(s) \in s /\ Cardinality(s) \in Nat /\ Cardinality(rest(s)) = Cardinality(s) - 1
    BY <1>2, <2>1, Smaller
  <2>3. Cardinality(rest(s)) <= k /\ Cardinality(rest(s)) <= k + 1
    BY <2>1, <2>2
  <2>4. rest(s) \in SUBSET S
    BY <2>1
  <2>. HIDE DEF rest
  <2>. QED  BY <2>1, <2>2, <2>3, <2>4 DEF Small
<1>3. f \in [W -> Int]
  <2>1. ASSUME NEW s \in W, s # {} PROVE step[<<Pick(s), g[rest(s)]>>] \in Int
    <3>. DEFINE r == rest(s)
    <3>1. r \in U /\ Pick(s) \in S
      BY <1>2, <2>1
    <3>. HIDE DEF r
    <3>2. g[r] \in Int
      BY <3>1
    <3>3. step[<<Pick(s), g[r]>>] \in Int
      BY <3>1, <3>2
    <3>. QED  BY <3>3 DEF r
  <2>. HIDE DEF rest
  <2>. QED  BY <2>1
<1>4. ASSUME NEW s \in U PROVE s \in W /\ f[s] = g[s]
  <2>1. s \in W
    <3>1. s \in SUBSET S /\ Cardinality(s) <= k /\ Cardinality(s) \in Nat
      BY FS_Subset, FS_CardinalityType DEF Small
    <3>2. Cardinality(s) <= k + 1
      BY <3>1
    <3>. QED  BY <3>1, <3>2 DEF Small
  <2>2. g[s] = IF s = {} THEN base ELSE step[<<Pick(s), g[rest(s)]>>]
    BY <1>1 DEF IsFold
  <2>. HIDE DEF U, W, rest
  <2>. QED  BY <2>1, <2>2
<1>5. ASSUME NEW s \in W, s # {} PROVE f[rest(s)] = g[rest(s)]
  BY <1>2, <1>4, <1>5
<1>6. IsFold(f, W, base, step)
  <2>1. f = [s \in W |-> IF s = {} THEN base ELSE step[<<Pick(s), g[rest(s)]>>]]
    OBVIOUS
  <2>. HIDE DEF f, rest
  <2>2. f = [s \in W |-> IF s = {} THEN base ELSE step[<<Pick(s), f[rest(s)]>>]]
    BY <1>5, <2>1
  <2>. QED  BY <2>2 DEF IsFold, rest
<1>. HIDE DEF f
<1>. QED  BY <1>3, <1>6 DEF Folded

\* A fold over a finite set is defined, in whatever order it picks.
LEMMA FoldExists ==
  ASSUME NEW S, IsFiniteSet(S), NEW base \in Int, NEW step \in [S \X Int -> Int]
  PROVE  \E g \in [SUBSET S -> Int] : IsFold(g, SUBSET S, base, step)
<1>. DEFINE R == {k \in Nat : ~ Folded(S, base, step, k)}
<1>1. R = {}
  <2>. SUFFICES ASSUME R # {} PROVE FALSE
    OBVIOUS
  <2>1. PICK k \in R : \A q \in R : k <= q
    BY LeastOf
  <2>2. Folded(S, base, step, 0)
    <3>. DEFINE U == Small(S, 0)
                f == [s \in U |-> base]
    <3>1. \A s \in U : s = {}
      <4>. SUFFICES ASSUME NEW s \in U PROVE s = {}
        OBVIOUS
      <4>1. IsFiniteSet(s) /\ Cardinality(s) <= 0
        BY FS_Subset DEF Small
      <4>. QED  BY <4>1, FS_CardinalityType, FS_EmptySet
    <3>2. f \in [U -> Int]
      OBVIOUS
    <3>. HIDE DEF U
    <3>3. f = [s \in U |-> IF s = {} THEN base ELSE step[<<Pick(s), f[s \ {Pick(s)}]>>]]
      BY <3>1
    <3>. HIDE DEF f
    <3>. QED  BY <3>2, <3>3 DEF Folded, IsFold, U
  <2>3. k \in Nat /\ k # 0 /\ ~ Folded(S, base, step, k)
    BY <2>1, <2>2
  <2>4. k - 1 \in Nat /\ (k - 1) + 1 = k /\ ~ (k <= k - 1)
    BY <2>3
  <2>5. k - 1 \notin R
    BY <2>1, <2>4
  <2>6. Folded(S, base, step, k - 1)
    BY <2>4, <2>5
  <2>7. Folded(S, base, step, (k - 1) + 1)
    BY <2>4, <2>6, FoldFurther
  <2>. QED  BY <2>3, <2>4, <2>7
<1>2. Cardinality(S) \in Nat
  BY FS_CardinalityType
<1>3. Small(S, Cardinality(S)) = SUBSET S
  BY FS_Subset DEF Small
<1>4. Folded(S, base, step, Cardinality(S))
  BY <1>1, <1>2
<1>. QED  BY <1>3, <1>4 DEF Folded

\* The function that a sum, or a product, is the value of at S.
IsSum(g, S, w) == g = [s \in SUBSET S |-> IF s = {} THEN 0 ELSE w[Pick(s)] + g[s \ {Pick(s)}]]
IsProduct(g, S, w) == g = [s \in SUBSET S |-> IF s = {} THEN 1 ELSE g[s \ {Pick(s)}] * w[Pick(s)]]

LEMMA SumExists ==
  ASSUME NEW S, IsFiniteSet(S), NEW w \in [S -> Int]
  PROVE  \E g \in [SUBSET S -> Int] : IsSum(g, S, w)
<1>. DEFINE step == [a \in S \X Int |-> w[a[1]] + a[2]]
<1>1. step \in [S \X Int -> Int]
  OBVIOUS
<1>2. \A x \in S, v \in Int : step[<<x, v>>] = w[x] + v
  OBVIOUS
<1>. HIDE DEF step
<1>3. PICK g \in [SUBSET S -> Int] : IsFold(g, SUBSET S, 0, step)
  <2>1. 0 \in Int
    OBVIOUS
  <2>. QED  BY <1>1, <2>1, FoldExists
<1>4. ASSUME NEW s \in SUBSET S, s # {} PROVE step[<<Pick(s), g[s \ {Pick(s)}]>>] = w[Pick(s)] + g[s \ {Pick(s)}]
  <2>1. Pick(s) \in S /\ s \ {Pick(s)} \in SUBSET S
    BY <1>4 DEF Pick
  <2>. QED  BY <1>2, <2>1
<1>5. g = [s \in SUBSET S |-> IF s = {} THEN 0 ELSE step[<<Pick(s), g[s \ {Pick(s)}]>>]]
  BY <1>3 DEF IsFold
<1>6. g = [s \in SUBSET S |-> IF s = {} THEN 0 ELSE w[Pick(s)] + g[s \ {Pick(s)}]]
  BY <1>4, <1>5
<1>. QED  BY <1>6 DEF IsSum

LEMMA ProductExists ==
  ASSUME NEW S, IsFiniteSet(S), NEW w \in [S -> Int]
  PROVE  \E g \in [SUBSET S -> Int] : IsProduct(g, S, w)
<1>. DEFINE step == [a \in S \X Int |-> a[2] * w[a[1]]]
<1>1. step \in [S \X Int -> Int]
  OBVIOUS
<1>2. \A x \in S, v \in Int : step[<<x, v>>] = v * w[x]
  OBVIOUS
<1>. HIDE DEF step
<1>3. PICK g \in [SUBSET S -> Int] : IsFold(g, SUBSET S, 1, step)
  <2>1. 1 \in Int
    OBVIOUS
  <2>. QED  BY <1>1, <2>1, FoldExists
<1>4. ASSUME NEW s \in SUBSET S, s # {} PROVE step[<<Pick(s), g[s \ {Pick(s)}]>>] = g[s \ {Pick(s)}] * w[Pick(s)]
  <2>1. Pick(s) \in S /\ s \ {Pick(s)} \in SUBSET S
    BY <1>4 DEF Pick
  <2>. QED  BY <1>2, <2>1
<1>5. g = [s \in SUBSET S |-> IF s = {} THEN 1 ELSE step[<<Pick(s), g[s \ {Pick(s)}]>>]]
  BY <1>3 DEF IsFold
<1>6. g = [s \in SUBSET S |-> IF s = {} THEN 1 ELSE g[s \ {Pick(s)}] * w[Pick(s)]]
  BY <1>4, <1>5
<1>. QED  BY <1>6 DEF IsProduct

All(piece, s) == UNION {piece[i] : i \in s}

\* Pieces that have no element in common and whose union is finite.
Apart(piece, S) ==
  /\ IsFiniteSet(All(piece, S))
  /\ \A i, j \in S : i # j => piece[i] \cap piece[j] = {}

LEMMA AllFinite ==
  ASSUME NEW S, NEW piece, Apart(piece, S), NEW s \in SUBSET S
  PROVE  IsFiniteSet(All(piece, s)) /\ Cardinality(All(piece, s)) \in Nat
<1>1. All(piece, s) \in SUBSET All(piece, S)
  BY DEF All
<1>2. IsFiniteSet(All(piece, s))
  BY <1>1, FS_Subset DEF Apart
<1>. QED  BY <1>2, FS_CardinalityType

LEMMA OnePieceMore ==
  ASSUME NEW S, NEW piece, Apart(piece, S), NEW s \in SUBSET S, NEW x \in s
  PROVE  /\ Cardinality(piece[x]) \in Nat /\ Cardinality(All(piece, s \ {x})) \in Nat
         /\ Cardinality(All(piece, s)) = Cardinality(All(piece, s \ {x})) + Cardinality(piece[x])
<1>. DEFINE A == All(piece, s \ {x})
            B == piece[x]
<1>1. A \in SUBSET All(piece, S) /\ B \in SUBSET All(piece, S)
  BY DEF All
<1>2. A \cap B = {}
  BY DEF Apart, All
<1>3. All(piece, s) = A \cup B
  BY DEF All
<1>4. IsFiniteSet(A) /\ IsFiniteSet(B)
  BY <1>1, FS_Subset DEF Apart
<1>. HIDE DEF A, B
<1>5. Cardinality(A) \in Nat /\ Cardinality(B) \in Nat /\ Cardinality({}) = 0
  BY <1>4, FS_CardinalityType, FS_EmptySet
<1>6. Cardinality(A \cup B) = Cardinality(A) + Cardinality(B) - Cardinality(A \cap B)
  BY <1>4, FS_Union
<1>7. Cardinality(A \cap B) = 0
  BY <1>2, <1>5, Zenon
<1>8. Cardinality(A \cup B) = Cardinality(A) + Cardinality(B)
  BY <1>5, <1>6, <1>7
<1>. QED  BY <1>3, <1>5, <1>8 DEF A, B

\* A sum of weights that are at most d for each element of a piece, and no
\* less for the pieces within.
Between(g, piece, within, d, s) ==
  /\ g[s] \in Int
  /\ d * Cardinality(All(piece, s \cap within)) <= g[s]
  /\ g[s] <= d * Cardinality(All(piece, s))

LEMMA SumBetween ==
  ASSUME NEW S, IsFiniteSet(S), NEW piece, Apart(piece, S), NEW w \in [S -> Int], NEW within, NEW d \in Nat,
         \A i \in S : 0 <= w[i] /\ w[i] <= d * Cardinality(piece[i]),
         \A i \in S \cap within : w[i] = d * Cardinality(piece[i]),
         NEW g, IsSum(g, S, w)
  PROVE  Between(g, piece, within, d, S)
<1>. DEFINE Bad == {s \in SUBSET S : ~ Between(g, piece, within, d, s)}
            R == {Cardinality(s) : s \in Bad}
<1>0. \A u \in SUBSET S : \A y \in u :
        /\ Cardinality(piece[y]) \in Nat /\ Cardinality(All(piece, u \ {y})) \in Nat
        /\ Cardinality(All(piece, u)) = Cardinality(All(piece, u \ {y})) + Cardinality(piece[y])
  BY OnePieceMore
<1>. SUFFICES ASSUME Bad # {} PROVE FALSE
  OBVIOUS
<1>1. \A s \in SUBSET S : IsFiniteSet(s) /\ Cardinality(s) \in Nat
  BY FS_Subset, FS_CardinalityType
<1>2. R \in SUBSET Nat /\ R # {}
  BY <1>1
<1>3. PICK k \in R : \A q \in R : k <= q
  BY <1>2, LeastOf
<1>4. PICK s \in Bad : k = Cardinality(s)
  OBVIOUS
<1>5. s \in SUBSET S /\ ~ Between(g, piece, within, d, s) /\ IsFiniteSet(s) /\ Cardinality(s) \in Nat
  BY <1>1, <1>4
<1>6. g[s] = IF s = {} THEN 0 ELSE w[Pick(s)] + g[s \ {Pick(s)}]
  <2>. HIDE DEF Bad
  <2>. QED  BY <1>5 DEF IsSum
<1>7. s # {}
  <2>. SUFFICES ASSUME s = {} PROVE FALSE
    OBVIOUS
  <2>1. All(piece, s) = {} /\ All(piece, s \cap within) = {}
    BY DEF All
  <2>2. d * Cardinality({}) = 0
    BY FS_EmptySet
  <2>3. g[s] = 0
    BY <1>6
  <2>4. d * Cardinality(All(piece, s)) = 0 /\ d * Cardinality(All(piece, s \cap within)) = 0
    BY <2>1, <2>2, Zenon
  <2>. HIDE DEF Bad
  <2>5. Between(g, piece, within, d, s)
    BY <2>3, <2>4 DEF Between
  <2>. QED  BY <1>5, <2>5
<1>. DEFINE x == Pick(s)
            t == s \ {x}
<1>8. x \in s /\ Cardinality(t) \in Nat /\ Cardinality(t) < Cardinality(s)
  <2>1. /\ Pick(s) \in s /\ IsFiniteSet(s \ {Pick(s)}) /\ Cardinality(s) \in Nat \ {0}
        /\ Cardinality(s \ {Pick(s)}) = Cardinality(s) - 1
    BY <1>5, <1>7, Smaller
  <2>. QED  BY <2>1
<1>9. Between(g, piece, within, d, t)
  <2>1. t \in SUBSET S
    BY <1>5
  <2>2. Cardinality(t) \notin R
    <3>. HIDE DEF R, t
    <3>1. Cardinality(t) \in R => k <= Cardinality(t)
      BY <1>3
    <3>. QED  BY <1>4, <1>5, <1>8, <3>1
  <2>. QED  BY <2>1, <2>2
<1>10. g[s] = w[x] + g[t]
  BY <1>6, <1>7
<1>. HIDE DEF x, t, Bad, R
<1>11. t = s \ {x}
  BY DEF t, x
<1>12. /\ Cardinality(piece[x]) \in Nat /\ Cardinality(All(piece, t)) \in Nat
       /\ Cardinality(All(piece, s)) = Cardinality(All(piece, t)) + Cardinality(piece[x])
  BY <1>0, <1>5, <1>8, <1>11
<1>13. x \in S /\ t \in SUBSET S /\ g[t] \in Int /\ w[x] \in Int
  BY <1>5, <1>8, <1>9, <1>11 DEF Between
<1>. DEFINE a == Cardinality(All(piece, t))
            e == Cardinality(piece[x])
            c == Cardinality(All(piece, t \cap within))
<1>14. g[s] <= d * Cardinality(All(piece, s))
  <2>1. g[t] <= d * a /\ w[x] <= d * e
    BY <1>9, <1>13 DEF Between
  <2>2. a \in Nat /\ e \in Nat /\ Cardinality(All(piece, s)) = a + e
    BY <1>12
  <2>. HIDE DEF a, e
  <2>3. d * (a + e) = d * a + d * e /\ d * a \in Int /\ d * e \in Int
    BY <2>2
  <2>. QED  BY <1>10, <1>13, <2>1, <2>2, <2>3
<1>15. d * Cardinality(All(piece, s \cap within)) <= g[s]
  <2>1. d * c <= g[t] /\ 0 <= w[x]
    BY <1>9, <1>13 DEF Between
  <2>2. CASE x \in within
    <3>1. s \cap within \in SUBSET S /\ x \in s \cap within /\ (s \cap within) \ {x} = t \cap within
      BY <1>5, <1>8, <1>11, <2>2
    <3>2. /\ e \in Nat /\ c \in Nat
          /\ Cardinality(All(piece, s \cap within)) = c + e
      <4>. DEFINE v == s \cap within
      <4>. HIDE DEF e, c, v
      <4>1. v \in SUBSET S /\ x \in v
        BY <3>1 DEF v
      <4>2. /\ Cardinality(piece[x]) \in Nat /\ Cardinality(All(piece, v \ {x})) \in Nat
            /\ Cardinality(All(piece, v)) = Cardinality(All(piece, v \ {x})) + Cardinality(piece[x])
        BY <1>0, <4>1
      <4>. QED  BY <3>1, <4>2 DEF e, c, v
    <3>3. w[x] = d * e
      BY <1>13, <2>2
    <3>. HIDE DEF c, e
    <3>4. d * (c + e) = d * c + d * e /\ d * c \in Int /\ d * e \in Int
      BY <3>2
    <3>. QED  BY <1>10, <1>13, <2>1, <3>2, <3>3, <3>4
  <2>3. CASE x \notin within
    <3>1. s \cap within = t \cap within
      BY <1>11, <2>3
    <3>2. c \in Nat
      <4>1. t \cap within \in SUBSET S
        BY <1>13
      <4>. QED  BY <4>1, AllFinite, ZenonT(30)
    <3>. HIDE DEF c
    <3>3. d * c \in Int
      BY <3>2
    <3>4. d * c <= g[s]
      BY <1>10, <1>13, <2>1, <3>3
    <3>. QED  BY <3>1, <3>4 DEF c
  <2>. QED  BY <2>2, <2>3
<1>16. g[s] \in Int
  BY <1>10, <1>13
<1>. QED  BY <1>5, <1>14, <1>15, <1>16 DEF Between

\* A product of positive numbers is positive, and a multiple of each.
Divided(g, S, w, s) ==
  g[s] \in Nat \ {0} /\ \A i \in s : \E c \in Nat : g[s] = c * w[i]

LEMMA ProductDivided ==
  ASSUME NEW S, IsFiniteSet(S), NEW w \in [S -> Nat \ {0}], NEW g, IsProduct(g, S, w)
  PROVE  Divided(g, S, w, S)
<1>. DEFINE Bad == {s \in SUBSET S : ~ Divided(g, S, w, s)}
            R == {Cardinality(s) : s \in Bad}
<1>. SUFFICES ASSUME Bad # {} PROVE FALSE
  OBVIOUS
<1>1. \A s \in SUBSET S : IsFiniteSet(s) /\ Cardinality(s) \in Nat
  BY FS_Subset, FS_CardinalityType
<1>2. R \in SUBSET Nat /\ R # {}
  BY <1>1
<1>3. PICK k \in R : \A q \in R : k <= q
  BY <1>2, LeastOf
<1>4. PICK s \in Bad : k = Cardinality(s)
  OBVIOUS
<1>5. s \in SUBSET S /\ ~ Divided(g, S, w, s) /\ IsFiniteSet(s) /\ Cardinality(s) \in Nat
  BY <1>1, <1>4
<1>6. g[s] = IF s = {} THEN 1 ELSE g[s \ {Pick(s)}] * w[Pick(s)]
  <2>. HIDE DEF Bad
  <2>. QED  BY <1>5 DEF IsProduct
<1>7. s # {}
  BY <1>5, <1>6 DEF Divided
<1>. DEFINE x == Pick(s)
            t == s \ {x}
<1>8. x \in s /\ Cardinality(t) \in Nat /\ Cardinality(t) < Cardinality(s)
  <2>1. /\ Pick(s) \in s /\ IsFiniteSet(s \ {Pick(s)}) /\ Cardinality(s) \in Nat \ {0}
        /\ Cardinality(s \ {Pick(s)}) = Cardinality(s) - 1
    BY <1>5, <1>7, Smaller
  <2>. QED  BY <2>1
<1>9. Divided(g, S, w, t)
  <2>1. t \in SUBSET S
    BY <1>5
  <2>2. Cardinality(t) \notin R
    <3>. HIDE DEF R, t
    <3>1. Cardinality(t) \in R => k <= Cardinality(t)
      BY <1>3
    <3>. QED  BY <1>4, <1>5, <1>8, <3>1
  <2>. QED  BY <2>1, <2>2
<1>10. g[s] = g[t] * w[x]
  BY <1>6, <1>7
<1>. HIDE DEF x, t, Bad, R
<1>11. t = s \ {x} /\ x \in S /\ s \subseteq S
  BY <1>5, <1>8 DEF t, x
<1>12. g[t] \in Nat \ {0} /\ w[x] \in Nat \ {0} /\ g[t] * w[x] \in Nat \ {0}
  <2>1. g[t] \in Nat \ {0} /\ w[x] \in Nat \ {0}
    BY <1>9, <1>11 DEF Divided
  <2>2. \A u, v \in Nat \ {0} : u * v \in Nat \ {0}
    OBVIOUS
  <2>. QED  BY <2>1, <2>2
<1>13. ASSUME NEW i \in s PROVE \E c \in Nat : g[s] = c * w[i]
  <2>1. CASE i = x
    BY <1>10, <1>12, <2>1
  <2>2. CASE i # x
    <3>1. PICK c \in Nat : g[t] = c * w[i]
      BY <1>9, <1>11, <2>2 DEF Divided
    <3>2. w[i] \in Nat /\ w[x] \in Nat
      BY <1>11
    <3>3. \A u, v, z \in Nat : (u * v) * z = (u * z) * v /\ u * z \in Nat
      OBVIOUS
    <3>4. g[s] = (c * w[x]) * w[i] /\ c * w[x] \in Nat
      BY <1>10, <3>1, <3>2, <3>3
    <3>. QED  BY <3>4
  <2>. QED  BY <2>1, <2>2
<1>. QED  BY <1>5, <1>10, <1>12, <1>13 DEF Divided

UpTo(p, i) == {j \in DOMAIN p : p[j] < p[i] \/ (p[j] = p[i] /\ j <= i)}

\* Places number the values, in their order.
LEMMA PlaceOrder ==
  ASSUME NEW m \in Nat, NEW p \in [1 .. m -> Int]
  PROVE  /\ \A i \in 1 .. m : Place(p, i) \in 1 .. m
         /\ \A i, j \in 1 .. m : Place(p, i) <= Place(p, j) => p[i] <= p[j]
         /\ \A i, j \in 1 .. m : Place(p, i) = Place(p, j) => i = j
         /\ \A rank \in 1 .. m : \E i \in 1 .. m : Place(p, i) = rank
         /\ \A rank \in 1 .. m : Indexed(p)[rank] \in 1 .. m /\ Place(p, Indexed(p)[rank]) = rank
<1>1. IsFiniteSet(1 .. m) /\ Cardinality(1 .. m) = m
  BY FS_Interval
<1>2. \A i \in 1 .. m : Place(p, i) = Cardinality(UpTo(p, i))
  BY DEF Place, UpTo
<1>3. ASSUME NEW i \in 1 .. m
      PROVE  IsFiniteSet(UpTo(p, i)) /\ Cardinality(UpTo(p, i)) \in 1 .. m
  <2>1. i \in UpTo(p, i) /\ UpTo(p, i) \subseteq 1 .. m
    BY DEF UpTo
  <2>2. IsFiniteSet(UpTo(p, i)) /\ Cardinality(UpTo(p, i)) <= m
    BY <1>1, <2>1, FS_Subset
  <2>3. Cardinality(UpTo(p, i)) \in Nat /\ Cardinality(UpTo(p, i)) # 0
    BY <2>1, <2>2, FS_CardinalityType, FS_EmptySet
  <2>. QED  BY <2>2, <2>3
<1>4. ASSUME NEW i \in 1 .. m, NEW j \in 1 .. m, p[j] < p[i] \/ (p[j] = p[i] /\ j < i)
      PROVE  Cardinality(UpTo(p, j)) < Cardinality(UpTo(p, i))
  <2>1. UpTo(p, j) \subseteq UpTo(p, i) /\ i \in UpTo(p, i) /\ i \notin UpTo(p, j)
    BY <1>4 DEF UpTo
  <2>2. UpTo(p, j) # UpTo(p, i)
    BY <2>1
  <2>. DEFINE a == UpTo(p, j)
              b == UpTo(p, i)
  <2>3. IsFiniteSet(a) /\ IsFiniteSet(b) /\ Cardinality(a) \in 1 .. m /\ Cardinality(b) \in 1 .. m
    BY <1>3
  <2>. HIDE DEF a, b
  <2>4. Cardinality(a) <= Cardinality(b) /\ Cardinality(b) # Cardinality(a)
    <3>1. a \in SUBSET b /\ a # b
      BY <2>1, <2>2 DEF a, b
    <3>. QED  BY <2>3, <3>1, FS_Subset
  <2>5. Cardinality(a) < Cardinality(b)
    BY <2>3, <2>4
  <2>. QED  BY <2>5 DEF a, b
<1>5. \A i \in 1 .. m : Place(p, i) \in 1 .. m
  BY <1>2, <1>3
<1>6. ASSUME NEW i \in 1 .. m, NEW j \in 1 .. m, Place(p, i) <= Place(p, j)
      PROVE  p[i] <= p[j] /\ (Place(p, i) = Place(p, j) => i = j)
  <2>1. Cardinality(UpTo(p, i)) <= Cardinality(UpTo(p, j)) /\ Cardinality(UpTo(p, i)) \in Int /\ Cardinality(UpTo(p, j)) \in Int
    BY <1>2, <1>3, <1>6
  <2>2. ~(p[j] < p[i] \/ (p[j] = p[i] /\ j < i))
    BY <1>4, <2>1
  <2>3. Place(p, i) = Place(p, j) => ~(p[i] < p[j] \/ (p[i] = p[j] /\ i < j))
    BY <1>2, <1>4, <2>1
  <2>. QED  BY <2>2, <2>3
<1>7. \A rank \in 1 .. m : \E i \in 1 .. m : Place(p, i) = rank
  <2>. DEFINE f == [i \in 1 .. m |-> Place(p, i)]
  <2>1. \A i, j \in 1 .. m : f[i] = f[j] => i = j
    BY <1>5, <1>6
  <2>2. f \in Injection(1 .. m, 1 .. m)
    BY <1>5, <2>1 DEF Injection, IsInjective
  <2>3. f \in Surjection(1 .. m, 1 .. m)
    BY <1>1, <2>2, FS_Injection
  <2>. QED  BY <2>3 DEF Surjection
<1>8. ASSUME NEW rank \in 1 .. m
      PROVE  Indexed(p)[rank] \in 1 .. m /\ Place(p, Indexed(p)[rank]) = rank
  <2>1. Indexed(p)[rank] = CHOOSE i \in 1 .. m : Place(p, i) = rank
    BY DEF Indexed
  <2>. QED  BY <1>7, <2>1
<1>9. \A i, j \in 1 .. m : Place(p, i) <= Place(p, j) => p[i] <= p[j]
  BY <1>6
<1>10. \A i, j \in 1 .. m : Place(p, i) = Place(p, j) => i = j
  BY <1>5, <1>6
<1>. QED  BY <1>5, <1>7, <1>8, <1>9, <1>10

Within(v, m, lo, hi) == {i \in 1 .. m : lo <= v[i] /\ v[i] <= hi}

\* A sort keeps the numbers and puts them in order.
LEMMA SortedKeeps ==
  ASSUME NEW m \in Nat, NEW v \in [1 .. m -> Int], NEW lo \in Int, NEW hi \in Int
  PROVE  /\ Sorted(v) \in [1 .. m -> Int]
         /\ \A j, k \in 1 .. m : j <= k => Sorted(v)[j] <= Sorted(v)[k]
         /\ Cardinality(Within(v, m, lo, hi)) = Cardinality(Within(Sorted(v), m, lo, hi))
<1>. DEFINE at(r) == Indexed(v)[r]
            A == {i \in 1 .. m : lo <= v[i] /\ v[i] <= hi}
            B == {i \in 1 .. m : lo <= Sorted(v)[i] /\ Sorted(v)[i] <= hi}
            f == [r \in B |-> at(r)]
<1>1. Sorted(v) = [r \in 1 .. m |-> v[at(r)]]
  BY DEF Sorted
<1>2. \A r \in 1 .. m : at(r) \in 1 .. m /\ Place(v, at(r)) = r
  BY PlaceOrder
<1>3. \A i, j \in 1 .. m : Place(v, i) <= Place(v, j) => v[i] <= v[j]
  BY PlaceOrder
<1>4. \A i, j \in 1 .. m : Place(v, i) = Place(v, j) => i = j
  BY PlaceOrder
<1>5. \A i \in 1 .. m : Place(v, i) \in 1 .. m
  BY PlaceOrder
<1>. HIDE DEF at
<1>6. Sorted(v) \in [1 .. m -> Int] /\ \A r \in 1 .. m : Sorted(v)[r] = v[at(r)]
  BY <1>1, <1>2
<1>7. \A j, k \in 1 .. m : j <= k => Sorted(v)[j] <= Sorted(v)[k]
  BY <1>2, <1>3, <1>6
<1>8. f \in [B -> A]
  BY <1>2, <1>6
<1>9. \A r, s \in B : f[r] = f[s] => r = s
  BY <1>2
<1>10. \A i \in A : \E r \in B : f[r] = i
  <2>. SUFFICES ASSUME NEW i \in A PROVE \E r \in B : f[r] = i
    OBVIOUS
  <2>. DEFINE r == Place(v, i)
  <2>1. r \in 1 .. m /\ at(r) \in 1 .. m /\ Place(v, at(r)) = Place(v, i)
    BY <1>2, <1>5
  <2>2. at(r) = i
    BY <1>4, <2>1
  <2>3. r \in B
    BY <1>6, <2>1, <2>2
  <2>. QED  BY <2>2, <2>3
<1>11. IsFiniteSet(A) /\ IsFiniteSet(B)
  <2>1. IsFiniteSet(1 .. m)
    BY FS_Interval
  <2>. QED  BY <2>1, FS_Subset
<1>. HIDE DEF A, B, f
<1>12. f \in Bijection(B, A)
  BY <1>8, <1>9, <1>10 DEF Bijection, Injection, IsInjective, Surjection
<1>13. Cardinality(A) = Cardinality(B)
  BY <1>11, <1>12, FS_Bijection DEF ExistsBijection
<1>. QED  BY <1>6, <1>7, <1>13 DEF A, B, Within

\* The chosen indices up to i.
Ahead(chosen, i) == {j \in chosen : j <= i}

\* The chosen elements in order.
LEMMA NthOf ==
  ASSUME NEW chosen \in SUBSET Int, IsFiniteSet(chosen), NEW k \in 1 .. Cardinality(chosen)
  PROVE  Nth(chosen, k) \in chosen /\ Cardinality(Ahead(chosen, Nth(chosen, k))) = k
<1>. DEFINE c == Cardinality(chosen)
            f == [i \in chosen |-> Cardinality(Ahead(chosen, i))]
<1>1. c \in Nat /\ IsFiniteSet(1 .. c) /\ Cardinality(1 .. c) = c
  BY FS_CardinalityType, FS_Interval
<1>2. ASSUME NEW i \in chosen PROVE IsFiniteSet(Ahead(chosen, i)) /\ i \in Ahead(chosen, i) /\ Cardinality(Ahead(chosen, i)) \in 1 .. c
  <2>1. i \in Ahead(chosen, i) /\ Ahead(chosen, i) \in SUBSET chosen
    BY DEF Ahead
  <2>2. IsFiniteSet(Ahead(chosen, i)) /\ Cardinality(Ahead(chosen, i)) <= c
    BY <2>1, FS_Subset
  <2>3. Cardinality(Ahead(chosen, i)) \in Nat /\ Cardinality(Ahead(chosen, i)) # 0
    BY <2>1, <2>2, FS_CardinalityType, FS_EmptySet
  <2>. QED  BY <1>1, <2>1, <2>2, <2>3
<1>3. ASSUME NEW i \in chosen, NEW j \in chosen, i < j PROVE Cardinality(Ahead(chosen, i)) # Cardinality(Ahead(chosen, j))
  <2>1. Ahead(chosen, i) \in SUBSET Ahead(chosen, j) /\ j \in Ahead(chosen, j) /\ j \notin Ahead(chosen, i)
    <3>1. i \in Int /\ j \in Int /\ \A y \in chosen : y \in Int
      OBVIOUS
    <3>2. \A y \in chosen : y <= i => y <= j
      BY <1>3, <3>1
    <3>3. Ahead(chosen, i) \in SUBSET Ahead(chosen, j)
      BY <3>2 DEF Ahead
    <3>4. ~ (j <= i) /\ j <= j
      BY <1>3, <3>1
    <3>. QED  BY <3>3, <3>4 DEF Ahead
  <2>2. IsFiniteSet(Ahead(chosen, j))
    BY <1>2
  <2>. QED  BY <2>1, <2>2, FS_Subset
<1>4. \A i, j \in chosen : f[i] = f[j] => i = j
  <2>. SUFFICES ASSUME NEW i \in chosen, NEW j \in chosen, f[i] = f[j] PROVE i = j
    OBVIOUS
  <2>1. i \in Int /\ j \in Int /\ Cardinality(Ahead(chosen, i)) = Cardinality(Ahead(chosen, j))
    OBVIOUS
  <2>2. ~ (i < j) /\ ~ (j < i)
    BY <1>3, <2>1
  <2>. QED  BY <2>1, <2>2
<1>5. f \in [chosen -> 1 .. c]
  BY <1>2
<1>. HIDE DEF f
<1>6. f \in Injection(chosen, 1 .. c)
  BY <1>4, <1>5 DEF Injection, IsInjective
<1>7. f \in Surjection(chosen, 1 .. c)
  BY <1>1, <1>6, FS_Injection
<1>8. PICK i \in chosen : f[i] = k
  BY <1>7 DEF Surjection
<1>9. Cardinality(Ahead(chosen, i)) = k
  BY <1>8 DEF f
<1>10. Nth(chosen, k) = CHOOSE j \in chosen : Cardinality(Ahead(chosen, j)) = k
  BY DEF Nth, Ahead
<1>. QED  BY <1>9, <1>10

LEMMA AtTyped ==
  ASSUME NEW m \in Nat, NEW s, NEW chosen \in SUBSET (1 .. m), NEW T, \A i \in chosen : s[i] \in T
  PROVE  IsFiniteSet(chosen) /\ Cardinality(chosen) \in Nat /\ At(s, chosen) \in [1 .. Cardinality(chosen) -> T]
<1>1. IsFiniteSet(chosen) /\ Cardinality(chosen) \in Nat
  <2>1. IsFiniteSet(1 .. m)
    BY FS_Interval
  <2>2. IsFiniteSet(chosen)
    BY <2>1, FS_Subset
  <2>. QED  BY <2>2, FS_CardinalityType
<1>2. chosen \in SUBSET Int
  OBVIOUS
<1>3. \A k \in 1 .. Cardinality(chosen) : Nth(chosen, k) \in chosen
  BY <1>1, <1>2, NthOf
<1>4. At(s, chosen) = [k \in 1 .. Cardinality(chosen) |-> s[Nth(chosen, k)]]
  BY DEF At
<1>. QED  BY <1>1, <1>3, <1>4

\* The last place of bucket i, of b buckets of n numbers.
Cursor(n, b, i) == i * (n \div b) + Min({i, n % b})
Run(n, b) == [i \in 1 .. b |-> Cursor(n, b, i - 1) + 1 .. Cursor(n, b, i)]

LEMMA MinOfTwo ==
  ASSUME NEW x \in Int, NEW y \in Int
  PROVE  Min({x, y}) = IF x <= y THEN x ELSE y
BY DEF Min

LEMMA MaxOfTwo ==
  ASSUME NEW x \in Int, NEW y \in Int
  PROVE  Max({x, y}) = IF x <= y THEN y ELSE x
BY DEF Max

LEMMA Cursors ==
  ASSUME NEW n \in Nat, NEW b \in 1 .. n
  PROVE  /\ Cursor(n, b, 0) = 0 /\ Cursor(n, b, b) = n
         /\ \A i \in 0 .. b : Cursor(n, b, i) \in 0 .. n
         /\ \A i \in 1 .. b : Cursor(n, b, i - 1) < Cursor(n, b, i)
         /\ \A i, j \in 0 .. b : i <= j => Cursor(n, b, i) <= Cursor(n, b, j)
<1>. DEFINE q == n \div b
            r == n % b
            c(i) == Cursor(n, b, i)
<1>1. q \in Nat /\ q # 0 /\ r \in 0 .. b - 1 /\ n = b * q + r
  <2>1. q \in Int /\ r \in 0 .. b - 1 /\ n = b * q + r
    OBVIOUS
  <2>2. ~ (q <= 0)
    <3>. SUFFICES ASSUME q <= 0 PROVE FALSE
      OBVIOUS
    <3>. HIDE DEF q, r
    <3>1. b * (0 - q) >= 0 /\ b * (0 - q) = 0 - b * q
      BY <2>1
    <3>2. b * q \in Int
      BY <2>1
    <3>. QED  BY <2>1, <3>1, <3>2
  <2>. HIDE DEF q, r
  <2>. QED  BY <2>1, <2>2
<1>2. \A i \in 0 .. b : c(i) = i * q + (IF i <= r THEN i ELSE r)
  <2>. SUFFICES ASSUME NEW i \in 0 .. b PROVE c(i) = i * q + (IF i <= r THEN i ELSE r)
    OBVIOUS
  <2>1. i \in Int /\ r \in Int
    BY <1>1
  <2>2. c(i) = i * q + Min({i, r})
    BY DEF Cursor
  <2>. HIDE DEF q, r, c
  <2>3. Min({i, r}) = IF i <= r THEN i ELSE r
    BY <2>1, MinOfTwo
  <2>. QED  BY <2>2, <2>3
<1>. HIDE DEF q, r, c
<1>3. c(0) = 0 /\ c(b) = n
  BY <1>1, <1>2
<1>4. ASSUME NEW i \in 0 .. b PROVE c(i) \in Int
  <2>1. i * q \in Int
    BY <1>1
  <2>. QED  BY <1>1, <1>2, <2>1
<1>5. ASSUME NEW i \in 0 .. b, NEW j \in 0 .. b, i <= j PROVE c(i) <= c(j)
  <2>1. i * q <= j * q /\ i * q \in Int /\ j * q \in Int
    <3>1. (j - i) * q >= 0 /\ (j - i) * q = j * q - i * q
      BY <1>1, <1>5
    <3>2. i * q \in Int /\ j * q \in Int
      BY <1>1
    <3>. QED  BY <3>1, <3>2
  <2>2. (IF i <= r THEN i ELSE r) <= (IF j <= r THEN j ELSE r)
    BY <1>1, <1>5
  <2>. QED  BY <1>1, <1>2, <2>1, <2>2
<1>6. ASSUME NEW i \in 1 .. b PROVE c(i - 1) < c(i)
  <2>1. i * q = (i - 1) * q + q /\ (i - 1) * q \in Int
    BY <1>1
  <2>2. (IF i - 1 <= r THEN i - 1 ELSE r) <= (IF i <= r THEN i ELSE r)
    BY <1>1
  <2>3. i - 1 \in 0 .. b /\ i \in 0 .. b
    OBVIOUS
  <2>4. c(i - 1) = (i - 1) * q + (IF i - 1 <= r THEN i - 1 ELSE r) /\ c(i) = i * q + (IF i <= r THEN i ELSE r)
    BY <1>2, <2>3
  <2>. QED  BY <1>1, <2>1, <2>2, <2>4
<1>7. \A i \in 0 .. b : c(i) \in 0 .. n
  <2>. SUFFICES ASSUME NEW i \in 0 .. b PROVE c(i) \in 0 .. n
    OBVIOUS
  <2>1. c(0) <= c(i) /\ c(i) <= c(b) /\ c(i) \in Int
    <3>1. 0 \in 0 .. b /\ b \in 0 .. b /\ 0 <= i /\ i <= b
      OBVIOUS
    <3>. QED  BY <1>4, <1>5, <3>1
  <2>. QED  BY <1>3, <2>1
<1>. QED  BY <1>3, <1>5, <1>6, <1>7 DEF c

\* The places fall into runs, one for each bucket.
LEMMA Runs ==
  ASSUME NEW n \in Nat, NEW b \in 1 .. n
  PROVE  /\ Apart(Run(n, b), 1 .. b) /\ All(Run(n, b), 1 .. b) = 1 .. n
         /\ \A i \in 1 .. b : /\ Cardinality(Run(n, b)[i]) = Cursor(n, b, i) - Cursor(n, b, i - 1)
                              /\ Cursor(n, b, i) - Cursor(n, b, i - 1) \in Nat \ {0}
<1>. DEFINE c(i) == Cursor(n, b, i)
            piece == Run(n, b)
<1>1. c(0) = 0 /\ c(b) = n
  BY Cursors
<1>2. \A i \in 0 .. b : c(i) \in 0 .. n
  BY Cursors
<1>3. \A i \in 1 .. b : c(i - 1) < c(i)
  BY Cursors
<1>4. \A i, j \in 0 .. b : i <= j => c(i) <= c(j)
  BY Cursors
<1>5. \A i \in 1 .. b : piece[i] = c(i - 1) + 1 .. c(i)
  BY DEF Run
<1>. HIDE DEF c, piece
<1>6. ASSUME NEW i \in 1 .. b, NEW j \in 1 .. b, i < j PROVE piece[i] \cap piece[j] = {}
  <2>1. c(i) <= c(j - 1) /\ c(i) \in Int /\ c(j - 1) \in Int /\ c(j) \in Int /\ c(i - 1) \in Int
    BY <1>2, <1>4, <1>6
  <2>. QED  BY <1>5, <2>1
<1>7. \A i, j \in 1 .. b : i # j => piece[i] \cap piece[j] = {}
  BY <1>6
<1>8. All(piece, 1 .. b) \subseteq 1 .. n
  <2>. SUFFICES ASSUME NEW i \in 1 .. b, NEW k \in piece[i] PROVE k \in 1 .. n
    BY DEF All
  <2>1. c(i - 1) \in 0 .. n /\ c(i) \in 0 .. n
    BY <1>2
  <2>. QED  BY <1>5, <2>1
<1>9. 1 .. n \subseteq All(piece, 1 .. b)
  <2>. SUFFICES ASSUME NEW k \in 1 .. n PROVE \E i \in 1 .. b : k \in piece[i]
    BY DEF All
  <2>. DEFINE R == {i \in 0 .. b : k <= c(i)}
  <2>1. R \in SUBSET Nat /\ b \in R
    BY <1>1
  <2>2. PICK i \in R : \A l \in R : i <= l
    BY <2>1, LeastOf
  <2>3. i \in 0 .. b /\ k <= c(i) /\ i # 0
    BY <1>1, <2>2
  <2>4. i \in 1 .. b /\ i - 1 \in 0 .. b /\ ~ (i <= i - 1)
    BY <2>3
  <2>5. ~ (k <= c(i - 1))
    BY <2>2, <2>4
  <2>6. c(i - 1) \in Int /\ c(i) \in Int
    BY <1>2, <2>4
  <2>. HIDE DEF R
  <2>7. k \in piece[i]
    BY <1>5, <2>3, <2>4, <2>5, <2>6
  <2>. QED  BY <2>4, <2>7
<1>10. ASSUME NEW i \in 1 .. b PROVE Cardinality(piece[i]) = c(i) - c(i - 1) /\ c(i) - c(i - 1) \in Nat \ {0}
  <2>1. c(i - 1) \in Int /\ c(i) \in Int /\ c(i - 1) < c(i)
    BY <1>2, <1>3
  <2>2. Cardinality(c(i - 1) + 1 .. c(i)) = IF c(i - 1) + 1 > c(i) THEN 0 ELSE c(i) - (c(i - 1) + 1) + 1
    BY <2>1, FS_Interval
  <2>. QED  BY <1>5, <2>1, <2>2
<1>11. All(piece, 1 .. b) = 1 .. n /\ IsFiniteSet(1 .. n)
  <2>1. 1 \in Int /\ n \in Int
    OBVIOUS
  <2>. QED  BY <1>8, <1>9, <2>1, FS_Interval
<1>12. Apart(piece, 1 .. b)
  BY <1>7, <1>11 DEF Apart
<1>. QED  BY <1>10, <1>11, <1>12 DEF c, piece

----------------------------------------------------------------------------
(* Equi-depth histograms.                                                  *)

LEMMA TotalIsSum ==
  ASSUME NEW S, IsFiniteSet(S), NEW w \in [S -> Int]
  PROVE  \E g : IsSum(g, S, w) /\ FoldFunction(+, 0, w) = g[S]
<1>. DEFINE P(g) == g = [s \in SUBSET S |-> IF s = {} THEN 0
                            ELSE w[CHOOSE x \in s : TRUE] + g[s \ {CHOOSE x \in s : TRUE}]]
            G == CHOOSE g : P(g)
<1>1. DOMAIN w = S
  OBVIOUS
<1>2. FoldFunction(+, 0, w) = G[S]
  BY <1>1 DEF FoldFunction, FoldFunctionOnSet, MapThenFoldSet
<1>3. \A g : P(g) <=> IsSum(g, S, w)
  BY DEF IsSum, Pick
<1>. HIDE DEF P
<1>4. \E g : P(g)
  <2>1. PICK g : IsSum(g, S, w)
    BY SumExists
  <2>. QED  BY <1>3, <2>1
<1>5. P(G)
  BY <1>4
<1>. QED  BY <1>2, <1>3, <1>5

Partial(h, lo, hi) == {i \in Touched(h, lo, hi) : ~ Inside(h, i, lo, hi)}
Denominator(h, lo, hi) == FoldSet(LAMBDA i, p : p * Width(h, i), 1, Partial(h, lo, hi))
Overlap(h, lo, hi, i) == Min({h.boundaries[i], hi}) - Max({h.boundaries[i - 1], lo})
Share(h, lo, hi, i) ==
  IF i \in Partial(h, lo, hi)
  THEN h.counts[i] * Overlap(h, lo, hi, i) * (Denominator(h, lo, hi) \div Width(h, i))
  ELSE h.counts[i] * Denominator(h, lo, hi)
Weighed(h, lo, hi) == FoldSet(LAMBDA i, sum : Share(h, lo, hi, i) + sum, 0, Touched(h, lo, hi))

LEMMA Estimated ==
  ASSUME NEW h, NEW lo, NEW hi
  PROVE  EstimateRange(h, lo, hi) = IF lo > hi THEN 0 ELSE Weighed(h, lo, hi) \div Denominator(h, lo, hi)
BY DEF EstimateRange, Weighed, Share, Overlap, Denominator, Partial, FoldSet, MapThenFoldSet

LEMMA DenominatorIsProduct ==
  ASSUME NEW h, NEW lo, NEW hi, IsFiniteSet(Partial(h, lo, hi)),
         \A i \in Partial(h, lo, hi) : Width(h, i) \in Int
  PROVE  LET w == [i \in Partial(h, lo, hi) |-> Width(h, i)]
         IN  \E g : IsProduct(g, Partial(h, lo, hi), w) /\ Denominator(h, lo, hi) = g[Partial(h, lo, hi)]
<1>. DEFINE S == Partial(h, lo, hi)
            w == [i \in S |-> Width(h, i)]
            P(g) == g = [s \in SUBSET S |-> IF s = {} THEN 1
                            ELSE g[s \ {CHOOSE x \in s : TRUE}] * Width(h, CHOOSE x \in s : TRUE)]
            G == CHOOSE g : P(g)
<1>1. Denominator(h, lo, hi) = G[S]
  BY DEF Denominator, FoldSet, MapThenFoldSet
<1>. HIDE DEF S
<1>2. \A s \in SUBSET S : s # {} => Pick(s) \in S
  BY DEF Pick
<1>3. \A s \in SUBSET S : s # {} => w[Pick(s)] = Width(h, Pick(s))
  BY <1>2
<1>. HIDE DEF w
<1>4. ASSUME NEW g PROVE P(g) <=> IsProduct(g, S, w)
  <2>1. [s \in SUBSET S |-> IF s = {} THEN 1 ELSE g[s \ {Pick(s)}] * Width(h, Pick(s))]
          = [s \in SUBSET S |-> IF s = {} THEN 1 ELSE g[s \ {Pick(s)}] * w[Pick(s)]]
    BY <1>3
  <2>. QED  BY <2>1 DEF IsProduct, Pick
<1>5. w \in [S -> Int]
  BY DEF w, S
<1>6. \E g : P(g)
  <2>1. PICK g : IsProduct(g, S, w)
    BY <1>5, ProductExists DEF S
  <2>. HIDE DEF P
  <2>. QED  BY <1>4, <2>1
<1>. HIDE DEF P
<1>7. P(G)
  BY <1>6
<1>8. IsProduct(G, S, w)
  BY <1>4, <1>7
<1>. QED  BY <1>1, <1>8 DEF S, w

LEMMA WeighedIsSum ==
  ASSUME NEW h, NEW lo, NEW hi, IsFiniteSet(Touched(h, lo, hi)),
         \A i \in Touched(h, lo, hi) : Share(h, lo, hi, i) \in Int
  PROVE  LET w == [i \in Touched(h, lo, hi) |-> Share(h, lo, hi, i)]
         IN  \E g : IsSum(g, Touched(h, lo, hi), w) /\ Weighed(h, lo, hi) = g[Touched(h, lo, hi)]
<1>. DEFINE S == Touched(h, lo, hi)
            share(i) == Share(h, lo, hi, i)
            w == [i \in S |-> share(i)]
            P(g) == g = [s \in SUBSET S |-> IF s = {} THEN 0
                            ELSE share(CHOOSE x \in s : TRUE) + g[s \ {CHOOSE x \in s : TRUE}]]
            G == CHOOSE g : P(g)
<1>1. Weighed(h, lo, hi) = G[S]
  BY DEF Weighed, FoldSet, MapThenFoldSet
<1>. HIDE DEF S, share
<1>2. \A s \in SUBSET S : s # {} => Pick(s) \in S
  BY DEF Pick
<1>3. \A s \in SUBSET S : s # {} => w[Pick(s)] = share(Pick(s))
  BY <1>2
<1>. HIDE DEF w
<1>4. ASSUME NEW g PROVE P(g) <=> IsSum(g, S, w)
  <2>1. [s \in SUBSET S |-> IF s = {} THEN 0 ELSE share(Pick(s)) + g[s \ {Pick(s)}]]
          = [s \in SUBSET S |-> IF s = {} THEN 0 ELSE w[Pick(s)] + g[s \ {Pick(s)}]]
    BY <1>3
  <2>. QED  BY <2>1 DEF IsSum, Pick
<1>5. w \in [S -> Int]
  BY DEF w, S, share
<1>6. \E g : P(g)
  <2>1. PICK g : IsSum(g, S, w)
    BY <1>5, SumExists DEF S
  <2>. HIDE DEF P
  <2>. QED  BY <1>4, <2>1
<1>. HIDE DEF P
<1>7. P(G)
  BY <1>6
<1>8. IsSum(G, S, w)
  BY <1>4, <1>7
<1>. QED  BY <1>1, <1>8 DEF S, w, share

\* The histogram h of n sorted numbers has b buckets of equal depth.
Equidepth(h, sorted, n, b) ==
  /\ n \in Nat /\ b \in 1 .. n /\ sorted \in [1 .. n -> Int]
  /\ \A j, k \in 1 .. n : j <= k => sorted[j] <= sorted[k]
  /\ h.counts \in [1 .. b -> Nat \ {0}] /\ h.total = n
  /\ \A i \in 1 .. b : h.counts[i] = Cardinality(Run(n, b)[i])
  /\ h.boundaries \in [0 .. b -> Int]
  /\ \A i, j \in 0 .. b : i <= j => h.boundaries[i] <= h.boundaries[j]
  /\ \A i \in 1 .. b : \A k \in Run(n, b)[i] : h.boundaries[i - 1] <= sorted[k] /\ sorted[k] <= h.boundaries[i]

LEMMA DepthsAreEqual ==
  ASSUME NEW n \in Nat, NEW sorted \in [1 .. n -> Int], n >= 1, NEW asked \in Nat, asked >= 1,
         \A j, k \in 1 .. n : j <= k => sorted[j] <= sorted[k]
  PROVE  Equidepth(Depths(sorted, asked), sorted, n, IF asked <= n THEN asked ELSE n)
<1>. DEFINE b == IF asked <= n THEN asked ELSE n
            c(i) == Cursor(n, b, i)
            at(i) == IF i = 0 THEN 1 ELSE c(i)
            boundaries == [i \in 0 .. b |-> sorted[at(i)]]
            counts == [i \in 1 .. b |-> c(i) - c(i - 1)]
            h == [boundaries |-> boundaries, counts |-> counts, total |-> n]
<1>1. b \in 1 .. n /\ Min({asked, n}) = b
  BY MinOfTwo
<1>2. Len(sorted) = n
  <2>1. sorted \in Seq(Int)
    BY SeqDef
  <2>2. Len(sorted) \in Nat /\ 1 .. Len(sorted) = 1 .. n
    BY <2>1, LenProperties
  <2>. QED  BY <2>2
<1>3. Depths(sorted, asked) = h
  <2>1. Depths(sorted, asked)
          = [boundaries |-> [i \in 0 .. b |-> sorted[IF i = 0 THEN 1 ELSE i * (n \div b) + Min({i, n % b})]],
             counts |-> [i \in 1 .. b |-> (i * (n \div b) + Min({i, n % b})) - ((i - 1) * (n \div b) + Min({i - 1, n % b}))],
             total |-> n]
    BY <1>1, <1>2 DEF Depths
  <2>. QED  BY <2>1 DEF Cursor
<1>. HIDE DEF b
<1>4. c(0) = 0 /\ c(b) = n
  BY <1>1, Cursors
<1>5. \A i \in 0 .. b : c(i) \in 0 .. n
  BY <1>1, Cursors
<1>6. \A i \in 1 .. b : c(i - 1) < c(i)
  BY <1>1, Cursors
<1>7. \A i, j \in 0 .. b : i <= j => c(i) <= c(j)
  BY <1>1, Cursors
<1>8. \A i \in 1 .. b : Cardinality(Run(n, b)[i]) = c(i) - c(i - 1) /\ c(i) - c(i - 1) \in Nat \ {0}
  BY <1>1, Runs
<1>9. \A i \in 1 .. b : Run(n, b)[i] = c(i - 1) + 1 .. c(i)
  BY DEF Run
<1>. HIDE DEF c
<1>10. ASSUME NEW i \in 0 .. b PROVE at(i) \in 1 .. n
  <2>1. CASE i = 0
    BY <1>1, <2>1
  <2>2. CASE i # 0
    <3>1. i \in 1 .. b /\ i - 1 \in 0 .. b
      BY <1>1, <2>2
    <3>2. c(i - 1) < c(i) /\ c(i - 1) \in 0 .. n /\ c(i) \in 0 .. n
      BY <1>5, <1>6, <3>1
    <3>. QED  BY <2>2, <3>2
  <2>. QED  BY <2>1, <2>2
<1>11. ASSUME NEW i \in 0 .. b, NEW j \in 0 .. b, i <= j PROVE at(i) <= at(j)
  <2>1. CASE i = 0
    BY <1>10, <2>1
  <2>2. CASE i # 0
    <3>1. j # 0
      BY <1>11, <2>2
    <3>. QED  BY <1>7, <1>11, <2>2, <3>1
  <2>. QED  BY <2>1, <2>2
<1>12. ASSUME NEW i \in 1 .. b, NEW k \in Run(n, b)[i] PROVE k \in 1 .. n /\ at(i - 1) <= k /\ k <= at(i)
  <2>1. i - 1 \in 0 .. b /\ i \in 0 .. b /\ i # 0
    BY <1>1
  <2>2. c(i - 1) \in 0 .. n /\ c(i) \in 0 .. n
    BY <1>5, <2>1
  <2>3. k \in c(i - 1) + 1 .. c(i)
    BY <1>9
  <2>. QED  BY <2>1, <2>2, <2>3
<1>. HIDE DEF at
<1>13. boundaries \in [0 .. b -> Int] /\ \A i \in 0 .. b : boundaries[i] = sorted[at(i)]
  BY <1>10
<1>14. counts \in [1 .. b -> Nat \ {0}] /\ \A i \in 1 .. b : counts[i] = Cardinality(Run(n, b)[i])
  BY <1>8
<1>. HIDE DEF boundaries, counts
<1>15. \A i, j \in 0 .. b : i <= j => boundaries[i] <= boundaries[j]
  BY <1>10, <1>11, <1>13
<1>16. ASSUME NEW i \in 1 .. b, NEW k \in Run(n, b)[i] PROVE boundaries[i - 1] <= sorted[k] /\ sorted[k] <= boundaries[i]
  <2>1. i - 1 \in 0 .. b /\ i \in 0 .. b
    BY <1>1
  <2>. QED  BY <1>10, <1>12, <1>13, <2>1
<1>17. h.boundaries = boundaries /\ h.counts = counts /\ h.total = n
  OBVIOUS
<1>. HIDE DEF h
<1>18. Equidepth(h, sorted, n, b)
  BY <1>1, <1>13, <1>14, <1>15, <1>16, <1>17 DEF Equidepth
<1>. QED  BY <1>3, <1>18 DEF b

LEMMA Quotient ==
  ASSUME NEW c \in Int, NEW d \in Nat \ {0}
  PROVE  (c * d) \div d = c
<1>. DEFINE q == (c * d) \div d
            r == (c * d) % d
<1>1. c * d \in Int
  OBVIOUS
<1>2. q \in Int /\ r \in 0 .. d - 1 /\ c * d = d * q + r
  BY <1>1
<1>. HIDE DEF q, r
<1>3. d * (c - q) = r /\ c - q \in Int
  BY <1>2
<1>4. CASE c - q >= 1
  <2>1. d * (c - q - 1) >= 0 /\ d * (c - q - 1) = d * (c - q) - d
    BY <1>2, <1>4
  <2>2. d * (c - q) \in Int
    BY <1>3
  <2>. QED  BY <1>2, <1>3, <2>1, <2>2
<1>5. CASE c - q <= -1
  <2>1. d * (q - c - 1) >= 0 /\ d * (q - c - 1) = 0 - d * (c - q) - d
    BY <1>2, <1>5
  <2>2. d * (c - q) \in Int
    BY <1>3
  <2>. QED  BY <1>2, <1>3, <2>1, <2>2
<1>. QED  BY <1>2, <1>3, <1>4, <1>5 DEF q

LEMMA ShareWithin ==
  ASSUME NEW n \in Nat, NEW v \in Nat, NEW w \in Nat, v <= w, NEW c \in Nat
  PROVE  n * v * c \in Int /\ 0 <= n * v * c /\ n * v * c <= (c * w) * n
<1>1. n * v \in Nat /\ n * w \in Nat /\ n * (w - v) \in Nat /\ n * (w - v) = n * w - n * v
  OBVIOUS
<1>2. n * v <= n * w
  BY <1>1
<1>3. \A x, y, z \in Nat : x <= y => x * z \in Nat /\ x * z <= y * z
  <2>. SUFFICES ASSUME NEW x \in Nat, NEW y \in Nat, NEW z \in Nat, x <= y PROVE x * z \in Nat /\ x * z <= y * z
    OBVIOUS
  <2>1. (y - x) * z \in Nat /\ (y - x) * z = y * z - x * z /\ x * z \in Nat /\ y * z \in Nat
    OBVIOUS
  <2>. QED  BY <2>1
<1>4. n * v * c \in Nat /\ n * v * c <= n * w * c
  BY <1>1, <1>2, <1>3
<1>5. n * w * c = (c * w) * n
  OBVIOUS
<1>. QED  BY <1>4, <1>5

\* The buckets that a range touches, and what they weigh in its estimate.
LEMMA TouchedBuckets ==
  ASSUME NEW h, NEW sorted, NEW n, NEW b, Equidepth(h, sorted, n, b), NEW lo \in Int, NEW hi \in Int, lo <= hi
  PROVE  /\ Touched(h, lo, hi) \in SUBSET (1 .. b) /\ IsFiniteSet(Touched(h, lo, hi))
         /\ Partial(h, lo, hi) \in SUBSET Touched(h, lo, hi) /\ IsFiniteSet(Partial(h, lo, hi))
         /\ \A i \in Touched(h, lo, hi) :
              /\ h.boundaries[i - 1] \in Int /\ h.boundaries[i] \in Int
              /\ h.boundaries[i - 1] <= h.boundaries[i] /\ lo <= h.boundaries[i] /\ h.boundaries[i - 1] <= hi
         /\ \A i \in Partial(h, lo, hi) :
              /\ Width(h, i) \in Nat \ {0} /\ Overlap(h, lo, hi, i) \in Nat /\ Overlap(h, lo, hi, i) <= Width(h, i)
              /\ \/ h.boundaries[i - 1] < lo /\ lo <= h.boundaries[i]
                 \/ h.boundaries[i - 1] <= hi /\ hi < h.boundaries[i]
<1>. DEFINE B(i) == h.boundaries[i]
            T == Touched(h, lo, hi)
            P == Partial(h, lo, hi)
<1>1. DOMAIN h.counts = 1 .. b /\ b \in Nat
  BY DEF Equidepth
<1>2. T \in SUBSET (1 .. b) /\ P \in SUBSET T
  BY <1>1 DEF Touched, Partial
<1>3. IsFiniteSet(T) /\ IsFiniteSet(P)
  <2>1. 1 \in Int /\ b \in Int
    BY <1>1
  <2>2. IsFiniteSet(1 .. b)
    BY <2>1, FS_Interval
  <2>. HIDE DEF T, P
  <2>3. IsFiniteSet(T)
    BY <1>2, <2>2, FS_Subset
  <2>. QED  BY <1>2, <2>3, FS_Subset
<1>4. ASSUME NEW i \in T PROVE B(i - 1) \in Int /\ B(i) \in Int /\ B(i - 1) <= B(i) /\ lo <= B(i) /\ B(i - 1) <= hi
  <2>1. i \in 1 .. b /\ i - 1 \in 0 .. b /\ i \in 0 .. b /\ i - 1 <= i
    BY <1>1, <1>2
  <2>2. B(i - 1) \in Int /\ B(i) \in Int /\ B(i - 1) <= B(i)
    BY <2>1 DEF Equidepth
  <2>3. ~ (B(i) < lo \/ B(i - 1) > hi)
    BY DEF Touched
  <2>. QED  BY <2>2, <2>3
<1>5. ASSUME NEW i \in P
      PROVE  /\ Width(h, i) \in Nat \ {0} /\ Overlap(h, lo, hi, i) \in Nat /\ Overlap(h, lo, hi, i) <= Width(h, i)
             /\ \/ B(i - 1) < lo /\ lo <= B(i)
                \/ B(i - 1) <= hi /\ hi < B(i)
  <2>. DEFINE x == B(i - 1)
              y == B(i)
  <2>1. x \in Int /\ y \in Int /\ x <= y /\ lo <= y /\ x <= hi
    BY <1>2, <1>4
  <2>2. ~ (x >= lo /\ y <= hi)
    BY DEF Partial, Inside
  <2>3. Width(h, i) = y - x
    BY DEF Width
  <2>4. Overlap(h, lo, hi, i) = Min({y, hi}) - Max({x, lo})
    BY DEF Overlap
  <2>. HIDE DEF x, y
  <2>5. Min({y, hi}) = (IF y <= hi THEN y ELSE hi) /\ Max({x, lo}) = (IF x <= lo THEN lo ELSE x)
    BY <2>1, MinOfTwo, MaxOfTwo
  <2>6. \/ x < lo /\ lo <= y
        \/ x <= hi /\ hi < y
    BY <2>1, <2>2
  <2>7. Width(h, i) \in Nat \ {0} /\ Overlap(h, lo, hi, i) \in Nat /\ Overlap(h, lo, hi, i) <= Width(h, i)
    BY <2>1, <2>3, <2>4, <2>5, <2>6
  <2>. QED  BY <2>6, <2>7 DEF x, y
<1>. QED  BY <1>2, <1>3, <1>4, <1>5

\* The estimate of a range counts all of the buckets inside of it, and no
\* more than those it touches.
LEMMA EstimateBetween ==
  ASSUME NEW h, NEW sorted, NEW n, NEW b, Equidepth(h, sorted, n, b), NEW lo \in Int, NEW hi \in Int, lo <= hi
  PROVE  LET inside == All(Run(n, b), Touched(h, lo, hi) \ Partial(h, lo, hi))
             touched == All(Run(n, b), Touched(h, lo, hi))
             e == EstimateRange(h, lo, hi)
         IN  /\ e \in Int /\ IsFiniteSet(touched) /\ Cardinality(touched) \in Nat
             /\ IsFiniteSet(inside) /\ Cardinality(inside) \in Nat
             /\ Cardinality(inside) <= e /\ e <= Cardinality(touched)
<1>. DEFINE T == Touched(h, lo, hi)
            P == Partial(h, lo, hi)
            D == Denominator(h, lo, hi)
            share(i) == Share(h, lo, hi, i)
            piece == Run(n, b)
<1>1. T \in SUBSET (1 .. b) /\ IsFiniteSet(T) /\ P \in SUBSET T /\ IsFiniteSet(P)
  BY TouchedBuckets
<1>2. \A i \in P : Width(h, i) \in Nat \ {0} /\ Overlap(h, lo, hi, i) \in Nat /\ Overlap(h, lo, hi, i) <= Width(h, i)
  BY TouchedBuckets
<1>3. D \in Nat \ {0} /\ \A i \in P : \E c \in Nat : D = c * Width(h, i)
  <2>. DEFINE w == [i \in P |-> Width(h, i)]
  <2>1. \A i \in P : Width(h, i) \in Int
    BY <1>2
  <2>2. PICK g : IsProduct(g, P, w) /\ D = g[P]
    BY <1>1, <2>1, DenominatorIsProduct
  <2>. HIDE DEF P, D
  <2>3. w \in [P -> Nat \ {0}]
    BY <1>2
  <2>4. \A i \in P : w[i] = Width(h, i)
    OBVIOUS
  <2>. HIDE DEF w
  <2>5. Divided(g, P, w, P)
    BY <1>1, <2>2, <2>3, ProductDivided
  <2>. QED  BY <2>2, <2>4, <2>5 DEF Divided
<1>4. ASSUME NEW i \in T
      PROVE  /\ share(i) \in Int /\ 0 <= share(i) /\ share(i) <= D * Cardinality(piece[i])
             /\ i \notin P => share(i) = D * Cardinality(piece[i])
  <2>. DEFINE m == h.counts[i]
  <2>1. m \in Nat /\ Cardinality(piece[i]) = m
    BY <1>1 DEF Equidepth
  <2>2. share(i) = IF i \in P THEN m * Overlap(h, lo, hi, i) * (D \div Width(h, i)) ELSE m * D
    BY DEF Share
  <2>. HIDE DEF share, D, P, m
  <2>3. CASE i \in P
    <3>. DEFINE v == Overlap(h, lo, hi, i)
                w == Width(h, i)
    <3>1. v \in Nat /\ w \in Nat \ {0} /\ v <= w
      BY <1>2, <2>3
    <3>2. PICK c \in Nat : D = c * w
      BY <1>3, <2>3
    <3>. HIDE DEF v, w
    <3>3. D \div w = c
      BY <3>1, <3>2, Quotient
    <3>4. m * v * c \in Int /\ 0 <= m * v * c /\ m * v * c <= (c * w) * m
      BY <2>1, <3>1, ShareWithin
    <3>5. share(i) = m * v * c
      BY <2>2, <2>3, <3>3 DEF v, w
    <3>. QED  BY <2>1, <2>3, <3>2, <3>4, <3>5
  <2>4. CASE i \notin P
    <3>1. share(i) = m * D
      BY <2>2, <2>4
    <3>2. m * D \in Nat /\ m * D = D * m
      BY <1>3, <2>1
    <3>. QED  BY <2>1, <3>1, <3>2
  <2>. QED  BY <2>3, <2>4
<1>5. Apart(piece, T)
  <2>1. Apart(piece, 1 .. b)
    BY Runs DEF Equidepth
  <2>2. IsFiniteSet(All(piece, T))
    BY <1>1, <2>1, AllFinite
  <2>. QED  BY <1>1, <2>1, <2>2 DEF Apart
<1>. DEFINE w == [i \in T |-> share(i)]
<1>6. PICK g : IsSum(g, T, w) /\ Weighed(h, lo, hi) = g[T]
  <2>1. \A i \in T : Share(h, lo, hi, i) \in Int
    BY <1>4
  <2>. QED  BY <1>1, <2>1, WeighedIsSum
<1>. HIDE DEF T, P, D, share, piece
<1>7. w \in [T -> Int] /\ \A i \in T : w[i] = share(i)
  BY <1>4
<1>. HIDE DEF w
<1>8. Between(g, piece, T \ P, D, T)
  <2>1. \A i \in T : 0 <= w[i] /\ w[i] <= D * Cardinality(piece[i])
    BY <1>4, <1>7
  <2>2. \A i \in T \cap (T \ P) : w[i] = D * Cardinality(piece[i])
    BY <1>4, <1>7
  <2>. QED  BY <1>1, <1>3, <1>5, <1>6, <1>7, <2>1, <2>2, SumBetween
<1>. DEFINE a == Cardinality(All(piece, T \ P))
            z == Cardinality(All(piece, T))
            e == EstimateRange(h, lo, hi)
<1>9. IsFiniteSet(All(piece, T)) /\ z \in Nat /\ IsFiniteSet(All(piece, T \ P)) /\ a \in Nat
  <2>1. T \ P \in SUBSET T /\ T \in SUBSET T
    OBVIOUS
  <2>. QED  BY <1>5, <2>1, AllFinite
<1>10. g[T] \in Int /\ D * a <= g[T] /\ g[T] <= D * z
  <2>1. T \cap (T \ P) = T \ P
    OBVIOUS
  <2>. QED  BY <1>8, <2>1 DEF Between
<1>11. e = g[T] \div D
  BY <1>6, Estimated DEF D
<1>. HIDE DEF a, z, e
<1>12. a * D \in Int /\ a * D = D * a /\ z * D \in Int /\ z * D = D * z
  BY <1>3, <1>9
<1>13. (a * D) \div D = a /\ (z * D) \div D = z
  BY <1>3, <1>9, Quotient
<1>14. (a * D) \div D <= g[T] \div D /\ g[T] \div D \in Int
  BY <1>3, <1>10, <1>12, DivMonotone
<1>15. g[T] \div D <= (z * D) \div D
  BY <1>3, <1>10, <1>12, DivMonotone
<1>16. e \in Int /\ a <= e /\ e <= z
  BY <1>11, <1>13, <1>14, <1>15
<1>. QED  BY <1>9, <1>16 DEF a, z, e, T, P, piece

\* One bucket, or none, holds at most as many numbers as the deepest one.
LEMMA OneBucketCut ==
  ASSUME NEW h, NEW sorted, NEW n, NEW b, Equidepth(h, sorted, n, b), NEW depth \in Nat,
         \A i \in 1 .. b : h.counts[i] <= depth,
         NEW C \in SUBSET (1 .. b), \A i, j \in C : i = j
  PROVE  /\ IsFiniteSet(All(Run(n, b), C)) /\ Cardinality(All(Run(n, b), C)) \in Nat
         /\ Cardinality(All(Run(n, b), C)) <= depth
<1>. DEFINE piece == Run(n, b)
<1>1. Apart(piece, 1 .. b)
  BY Runs DEF Equidepth
<1>2. IsFiniteSet(All(piece, C)) /\ Cardinality(All(piece, C)) \in Nat
  BY <1>1, AllFinite
<1>3. CASE C = {}
  <2>1. All(piece, C) = {}
    BY <1>3 DEF All
  <2>2. Cardinality(All(piece, C)) = 0
    BY <2>1, FS_EmptySet
  <2>. QED  BY <1>2, <2>2
<1>4. CASE C # {}
  <2>1. PICK i \in C : TRUE
    BY <1>4
  <2>2. All(piece, C) = piece[i]
    BY <2>1 DEF All
  <2>3. h.counts[i] = Cardinality(piece[i])
    BY DEF Equidepth
  <2>. QED  BY <1>2, <2>2, <2>3
<1>. QED  BY <1>3, <1>4

\* A range cuts at most one bucket at either end.
LEMMA EstimateErrs ==
  ASSUME NEW h, NEW sorted, NEW n, NEW b, Equidepth(h, sorted, n, b), NEW depth \in Nat,
         \A i \in 1 .. b : h.counts[i] <= depth, NEW lo \in Int, NEW hi \in Int
  PROVE  LET truth == Cardinality({k \in 1 .. n : lo <= sorted[k] /\ sorted[k] <= hi})
             e == EstimateRange(h, lo, hi)
         IN  /\ truth \in Nat /\ e \in Int
             /\ e <= truth + 2 * depth /\ truth <= e + 2 * depth
<1>. DEFINE X == {k \in 1 .. n : lo <= sorted[k] /\ sorted[k] <= hi}
            truth == Cardinality(X)
            e == EstimateRange(h, lo, hi)
            piece == Run(n, b)
            T == Touched(h, lo, hi)
            P == Partial(h, lo, hi)
            B(i) == h.boundaries[i]
<1>1. IsFiniteSet(X) /\ truth \in Nat
  <2>1. 1 \in Int /\ n \in Int
    BY DEF Equidepth
  <2>2. IsFiniteSet(1 .. n)
    BY <2>1, FS_Interval
  <2>. QED  BY <2>2, FS_Subset, FS_CardinalityType
<1>2. CASE lo > hi
  <2>1. e = 0
    BY <1>2, Estimated
  <2>2. X = {}
    <3>1. \A k \in 1 .. n : sorted[k] \in Int
      BY DEF Equidepth
    <3>. QED  BY <1>2, <3>1
  <2>3. truth = 0
    BY <2>2, FS_EmptySet
  <2>. QED  BY <2>1, <2>3
<1>3. CASE lo <= hi
  <2>1. T \in SUBSET (1 .. b) /\ IsFiniteSet(T) /\ P \in SUBSET T
    BY <1>3, TouchedBuckets
  <2>2. \A i \in T : B(i - 1) \in Int /\ B(i) \in Int /\ B(i - 1) <= B(i) /\ lo <= B(i) /\ B(i - 1) <= hi
    BY <1>3, TouchedBuckets
  <2>3. \A i \in P : \/ B(i - 1) < lo /\ lo <= B(i)
                     \/ B(i - 1) <= hi /\ hi < B(i)
    BY <1>3, TouchedBuckets
  <2>. DEFINE inside == All(piece, T \ P)
              touched == All(piece, T)
              low == {i \in P : B(i - 1) < lo /\ lo <= B(i)}
              high == {i \in P : B(i - 1) <= hi /\ hi < B(i)}
  <2>4. /\ e \in Int /\ IsFiniteSet(touched) /\ Cardinality(touched) \in Nat
        /\ IsFiniteSet(inside) /\ Cardinality(inside) \in Nat
        /\ Cardinality(inside) <= e /\ e <= Cardinality(touched)
    BY <1>3, EstimateBetween
  <2>5. b \in Nat /\ n \in Nat /\ \A i, j \in 0 .. b : i <= j => B(i) \in Int /\ B(j) \in Int /\ B(i) <= B(j)
    <3>1. b \in Nat /\ n \in Nat
      BY DEF Equidepth
    <3>2. \A i \in 0 .. b : B(i) \in Int
      BY DEF Equidepth
    <3>3. \A i, j \in 0 .. b : i <= j => B(i) <= B(j)
      BY DEF Equidepth
    <3>. HIDE DEF B
    <3>. QED  BY <3>1, <3>2, <3>3
  <2>6. All(piece, 1 .. b) = 1 .. n
    BY Runs DEF Equidepth
  <2>7. \A i \in 1 .. b : \A k \in piece[i] : B(i - 1) <= sorted[k] /\ sorted[k] <= B(i) /\ sorted[k] \in Int /\ k \in 1 .. n
    <3>1. \A i \in 1 .. b : \A k \in piece[i] : k \in 1 .. n
      BY <2>6 DEF All
    <3>. QED  BY <3>1 DEF Equidepth
  <2>8. inside \subseteq X
    <3>. SUFFICES ASSUME NEW i \in T \ P, NEW k \in piece[i] PROVE k \in X
      BY DEF All
    <3>1. lo <= B(i - 1) /\ B(i) <= hi
      BY DEF Partial, Inside
    <3>2. i \in 1 .. b /\ i \in T
      BY <2>1
    <3>3. B(i - 1) \in Int /\ B(i) \in Int
      BY <2>2, <3>2
    <3>4. B(i - 1) <= sorted[k] /\ sorted[k] <= B(i) /\ sorted[k] \in Int /\ k \in 1 .. n
      BY <2>7, <3>2
    <3>. QED  BY <3>1, <3>3, <3>4
  <2>9. X \subseteq touched
    <3>. SUFFICES ASSUME NEW k \in X PROVE \E i \in T : k \in piece[i]
      BY DEF All
    <3>1. PICK i \in 1 .. b : k \in piece[i]
      BY <2>6 DEF All
    <3>2. B(i - 1) <= sorted[k] /\ sorted[k] <= B(i) /\ sorted[k] \in Int /\ lo <= sorted[k] /\ sorted[k] <= hi
      BY <2>7, <3>1
    <3>3. i - 1 \in 0 .. b /\ i \in 0 .. b /\ i - 1 <= i
      BY <2>5
    <3>4. B(i - 1) \in Int /\ B(i) \in Int
      BY <2>5, <3>3
    <3>5. ~ (B(i) < lo \/ B(i - 1) > hi)
      BY <3>2, <3>4
    <3>6. i \in DOMAIN h.counts
      BY DEF Equidepth
    <3>7. i \in T
      BY <3>5, <3>6 DEF Touched
    <3>. QED  BY <3>1, <3>7
  <2>. HIDE DEF T, P, B, X, e, piece
  <2>10. \A i, j \in low : i = j
    <3>1. ASSUME NEW i \in low, NEW j \in low, i < j PROVE FALSE
      <4>1. i \in 0 .. b /\ j - 1 \in 0 .. b /\ i <= j - 1
        BY <2>1, <2>5, <3>1
      <4>2. B(i) <= B(j - 1) /\ B(i) \in Int /\ B(j - 1) \in Int
        BY <2>5, <4>1
      <4>. QED  BY <4>2
    <3>2. \A i \in low : i \in Int
      BY <2>1
    <3>. HIDE DEF low
    <3>. QED  BY <3>1, <3>2
  <2>11. \A i, j \in high : i = j
    <3>1. ASSUME NEW i \in high, NEW j \in high, i < j PROVE FALSE
      <4>1. i \in 0 .. b /\ j - 1 \in 0 .. b /\ i <= j - 1
        BY <2>1, <2>5, <3>1
      <4>2. B(i) <= B(j - 1) /\ B(i) \in Int /\ B(j - 1) \in Int
        BY <2>5, <4>1
      <4>. QED  BY <4>2
    <3>2. \A i \in high : i \in Int
      BY <2>1
    <3>. HIDE DEF high
    <3>. QED  BY <3>1, <3>2
  <2>12. low \in SUBSET (1 .. b) /\ high \in SUBSET (1 .. b) /\ P = low \cup high
    BY <2>1, <2>3
  <2>. HIDE DEF low, high
  <2>. DEFINE A == All(piece, low)
              Z == All(piece, high)
  <2>13. IsFiniteSet(A) /\ Cardinality(A) \in Nat /\ Cardinality(A) <= depth
    BY <2>10, <2>12, OneBucketCut DEF piece
  <2>14. IsFiniteSet(Z) /\ Cardinality(Z) \in Nat /\ Cardinality(Z) <= depth
    BY <2>11, <2>12, OneBucketCut DEF piece
  <2>15. touched = inside \cup (A \cup Z)
    <3>1. T = (T \ P) \cup (low \cup high)
      BY <2>1, <2>12
    <3>. QED  BY <3>1 DEF All
  <2>. HIDE DEF inside, touched, A, Z
  <2>16. IsFiniteSet(A \cup Z) /\ Cardinality(A \cup Z) \in Nat /\ Cardinality(A \cup Z) <= 2 * depth
    <3>1. IsFiniteSet(A \cup Z) /\ Cardinality(A \cup Z) = Cardinality(A) + Cardinality(Z) - Cardinality(A \cap Z)
      BY <2>13, <2>14, FS_Union
    <3>2. Cardinality(A \cap Z) \in Nat
      BY <2>13, FS_Intersection, FS_CardinalityType
    <3>3. Cardinality(A \cup Z) \in Nat
      BY <3>1, FS_CardinalityType
    <3>. QED  BY <2>13, <2>14, <3>1, <3>2, <3>3
  <2>17. Cardinality(touched) <= Cardinality(inside) + 2 * depth
    <3>. DEFINE Y == A \cup Z
    <3>. HIDE DEF Y
    <3>1. IsFiniteSet(Y) /\ Cardinality(Y) \in Nat /\ Cardinality(Y) <= 2 * depth
      BY <2>16 DEF Y
    <3>2. Cardinality(inside \cup Y) = Cardinality(inside) + Cardinality(Y) - Cardinality(inside \cap Y)
      BY <2>4, <3>1, FS_Union
    <3>3. Cardinality(inside \cap Y) \in Nat
      BY <3>1, FS_Intersection, FS_CardinalityType
    <3>4. Cardinality(touched) = Cardinality(inside \cup Y)
      BY <2>15 DEF Y
    <3>. QED  BY <2>4, <3>1, <3>2, <3>3, <3>4
  <2>18. Cardinality(inside) <= Cardinality(X)
    BY <1>1, <2>8, FS_Subset
  <2>19. Cardinality(X) <= Cardinality(touched)
    BY <2>4, <2>9, FS_Subset
  <2>20. Cardinality(X) \in Nat
    BY <1>1 DEF X
  <2>. QED  BY <2>4, <2>17, <2>18, <2>19, <2>20 DEF X, e
<1>4. n \in Nat
  BY DEF Equidepth
<1>. QED  BY <1>2, <1>3

\* The estimate of the whole support counts every number.
LEMMA WholeSupport ==
  ASSUME NEW h, NEW sorted, NEW n, NEW b, Equidepth(h, sorted, n, b)
  PROVE  EstimateRange(h, h.boundaries[0], h.boundaries[b]) = n
<1>. DEFINE lo == h.boundaries[0]
            hi == h.boundaries[b]
            B(i) == h.boundaries[i]
            piece == Run(n, b)
<1>1. b \in Nat /\ n \in Nat /\ \A i, j \in 0 .. b : i <= j => B(i) \in Int /\ B(j) \in Int /\ B(i) <= B(j)
  <2>1. b \in Nat /\ n \in Nat
    BY DEF Equidepth
  <2>2. \A i \in 0 .. b : B(i) \in Int
    BY DEF Equidepth
  <2>3. \A i, j \in 0 .. b : i <= j => B(i) <= B(j)
    BY DEF Equidepth
  <2>. HIDE DEF B
  <2>. QED  BY <2>1, <2>2, <2>3
<1>2. lo \in Int /\ hi \in Int /\ lo <= hi
  <2>1. 0 \in 0 .. b /\ b \in 0 .. b /\ 0 <= b
    BY <1>1
  <2>. QED  BY <1>1, <2>1
<1>3. ASSUME NEW i \in 1 .. b PROVE lo <= B(i - 1) /\ B(i - 1) <= B(i) /\ B(i) <= hi /\ B(i - 1) \in Int /\ B(i) \in Int
  <2>1. 0 \in 0 .. b /\ b \in 0 .. b /\ i \in 0 .. b /\ i - 1 \in 0 .. b /\ 0 <= i - 1 /\ i - 1 <= i /\ i <= b
    BY <1>1
  <2>. HIDE DEF B
  <2>2. B(0) <= B(i - 1) /\ B(i - 1) <= B(i) /\ B(i) <= B(b) /\ B(i - 1) \in Int /\ B(i) \in Int
    BY <1>1, <2>1
  <2>. QED  BY <2>2 DEF B
<1>4. DOMAIN h.counts = 1 .. b
  BY DEF Equidepth
<1>. DEFINE T == Touched(h, lo, hi)
            P == Partial(h, lo, hi)
<1>5. T = 1 .. b
  <2>1. ASSUME NEW i \in 1 .. b PROVE ~ (B(i) < lo \/ B(i - 1) > hi)
    <3>. HIDE DEF B, lo, hi
    <3>. QED  BY <1>2, <1>3
  <2>. QED  BY <1>4, <2>1 DEF Touched
<1>6. P = {}
  <2>1. ASSUME NEW i \in 1 .. b PROVE B(i - 1) >= lo /\ B(i) <= hi
    <3>. HIDE DEF B, lo, hi
    <3>. QED  BY <1>2, <1>3
  <2>. QED  BY <1>5, <2>1 DEF Partial, Inside
<1>. DEFINE e == EstimateRange(h, lo, hi)
<1>. HIDE DEF lo, hi
<1>7. /\ e \in Int /\ Cardinality(All(piece, T)) \in Nat
      /\ Cardinality(All(piece, T \ P)) <= e /\ e <= Cardinality(All(piece, T))
  BY <1>2, EstimateBetween
<1>8. T \ P = T
  BY <1>6
<1>9. Cardinality(All(piece, T)) = n
  <2>1. All(piece, 1 .. b) = 1 .. n
    BY Runs DEF Equidepth
  <2>2. 1 \in Int /\ n \in Int
    BY <1>1
  <2>3. Cardinality(1 .. n) = n
    BY <1>1, <2>2, FS_Interval
  <2>. QED  BY <1>5, <2>1, <2>3
<1>. HIDE DEF e, T, P, piece
<1>10. e = n
  BY <1>1, <1>7, <1>8, <1>9
<1>. QED  BY <1>10 DEF e, lo, hi

\* What is promised of the histogram h of some numbers.
Accurate(h, values, lo, hi) ==
  LET truth == Cardinality({i \in DOMAIN values : lo <= values[i] /\ values[i] <= hi})
      estimate == EstimateRange(h, lo, hi)
      depth == Max({h.counts[i] : i \in DOMAIN h.counts})
  IN estimate <= truth + 2 * depth /\ truth <= estimate + 2 * depth

LEMMA DepthIsLargest ==
  ASSUME NEW b \in Nat \ {0}, NEW counts \in [1 .. b -> Nat]
  PROVE  LET depth == Max({counts[i] : i \in DOMAIN counts})
         IN depth \in Nat /\ \A i \in 1 .. b : counts[i] <= depth
<1>. DEFINE T == {counts[i] : i \in 1 .. b}
            f == [i \in 1 .. b |-> counts[i]]
<1>1. f \in Surjection(1 .. b, T)
  BY Fun_IsSurj
<1>2. IsFiniteSet(1 .. b)
  <2>1. 1 \in Int /\ b \in Int
    OBVIOUS
  <2>. QED  BY <2>1, FS_Interval
<1>3. IsFiniteSet(T)
  BY <1>1, <1>2, FS_Surjection
<1>4. T \in SUBSET Nat /\ counts[1] \in T
  OBVIOUS
<1>5. \A i \in 1 .. b : counts[i] \in T
  OBVIOUS
<1>6. T = {counts[i] : i \in DOMAIN counts}
  OBVIOUS
<1>. HIDE DEF T
<1>7. T \in SUBSET Int /\ T # {}
  BY <1>4
<1>8. Max(T) \in T /\ \A y \in T : y <= Max(T)
  BY <1>3, <1>7, Extremes
<1>. QED  BY <1>4, <1>5, <1>6, <1>8

\* The histogram of any two numbers or more.
LEMMA HistogramOf ==
  ASSUME NEW n \in Nat, NEW values \in [1 .. n -> Int], n >= 2, NEW asked \in Nat, asked >= 2
  PROVE  LET h == FromValues(values, asked)
         IN  /\ ValidHistogram(h)
             /\ EstimateRange(h, h.boundaries[0], h.boundaries[Len(h.counts)]) = n
             /\ \A lo, hi \in Int : Accurate(h, values, lo, hi)
<1>. DEFINE sorted == Sorted(values)
            h == FromValues(values, asked)
            b == IF asked <= n THEN asked ELSE n
<1>1. sorted \in [1 .. n -> Int] /\ \A j, k \in 1 .. n : j <= k => sorted[j] <= sorted[k]
  <2>1. 0 \in Int
    OBVIOUS
  <2>. QED  BY <2>1, SortedKeeps
<1>2. ASSUME NEW lo \in Int, NEW hi \in Int
      PROVE  Cardinality({i \in 1 .. n : lo <= values[i] /\ values[i] <= hi})
               = Cardinality({i \in 1 .. n : lo <= sorted[i] /\ sorted[i] <= hi})
  <2>. HIDE DEF h, b, sorted
  <2>1. Cardinality(Within(values, n, lo, hi)) = Cardinality(Within(Sorted(values), n, lo, hi))
    BY SortedKeeps
  <2>2. /\ Within(values, n, lo, hi) = {i \in 1 .. n : lo <= values[i] /\ values[i] <= hi}
        /\ Within(sorted, n, lo, hi) = {i \in 1 .. n : lo <= sorted[i] /\ sorted[i] <= hi}
    BY DEF Within
  <2>. QED  BY <2>1, <2>2 DEF sorted
<1>. HIDE DEF sorted
<1>3. h = Depths(sorted, asked)
  BY DEF FromValues, sorted
<1>4. Equidepth(h, sorted, n, b)
  <2>1. Equidepth(Depths(sorted, asked), sorted, n, b)
    <3>. HIDE DEF b
    <3>1. n >= 1 /\ asked >= 1
      OBVIOUS
    <3>2. Equidepth(Depths(sorted, asked), sorted, n, IF asked <= n THEN asked ELSE n)
      BY <1>1, <3>1, DepthsAreEqual
    <3>. QED  BY <3>2 DEF b
  <2>. HIDE DEF h, b
  <2>. QED  BY <1>3, <2>1
<1>5. b \in 1 .. n /\ b >= 2 /\ b \in Nat \ {0}
  OBVIOUS
<1>. HIDE DEF h, b
<1>6. h.counts \in [1 .. b -> Nat \ {0}] /\ h.total = n /\ h.boundaries \in [0 .. b -> Int]
  BY <1>4 DEF Equidepth
<1>7. DOMAIN h.counts = 1 .. b /\ Len(h.counts) = b
  <2>1. DOMAIN h.counts = 1 .. b /\ h.counts \in Seq(Nat)
    BY <1>5, <1>6, SeqDef
  <2>2. Len(h.counts) \in Nat /\ 1 .. Len(h.counts) = 1 .. b
    BY <2>1, LenProperties
  <2>. QED  BY <1>5, <2>1, <2>2
<1>8. ValidHistogram(h)
  <2>1. \A i \in 1 .. b : h.boundaries[i - 1] <= h.boundaries[i]
    <3>. SUFFICES ASSUME NEW i \in 1 .. b PROVE h.boundaries[i - 1] <= h.boundaries[i]
      OBVIOUS
    <3>1. i - 1 \in 0 .. b /\ i \in 0 .. b /\ i - 1 <= i
      BY <1>5
    <3>. QED  BY <1>4, <3>1 DEF Equidepth
  <2>2. h.total = FoldFunction(+, 0, h.counts)
    <3>. DEFINE S == 1 .. b
                piece == Run(n, b)
    <3>1. IsFiniteSet(S)
      <4>1. 1 \in Int /\ b \in Int
        BY <1>5
      <4>. QED  BY <4>1, FS_Interval
    <3>2. h.counts \in [S -> Int]
      BY <1>6
    <3>3. PICK g : IsSum(g, S, h.counts) /\ FoldFunction(+, 0, h.counts) = g[S]
      BY <3>1, <3>2, TotalIsSum
    <3>4. Apart(piece, S) /\ All(piece, S) = 1 .. n
      BY <1>5, Runs
    <3>5. \A i \in S : h.counts[i] \in Nat /\ h.counts[i] = Cardinality(piece[i]) /\ 1 * Cardinality(piece[i]) = h.counts[i]
      <4>1. \A i \in S : h.counts[i] = Cardinality(piece[i])
        BY <1>4, Zenon DEF Equidepth
      <4>2. \A i \in S : h.counts[i] \in Nat
        BY <1>6
      <4>. HIDE DEF S, piece
      <4>. QED  BY <4>1, <4>2
    <3>. HIDE DEF S, piece
    <3>6. Between(g, piece, S, 1, S)
      <4>1. \A i \in S : 0 <= h.counts[i] /\ h.counts[i] <= 1 * Cardinality(piece[i])
        BY <3>5
      <4>2. \A i \in S \cap S : h.counts[i] = 1 * Cardinality(piece[i])
        BY <3>5
      <4>3. 1 \in Nat
        OBVIOUS
      <4>. QED  BY <3>1, <3>2, <3>3, <3>4, <4>1, <4>2, <4>3, SumBetween
    <3>7. Cardinality(All(piece, S)) = n
      <4>1. 1 \in Int /\ n \in Int
        OBVIOUS
      <4>. QED  BY <3>4, <4>1, FS_Interval
    <3>8. S \cap S = S
      OBVIOUS
    <3>9. g[S] \in Int /\ 1 * n <= g[S] /\ g[S] <= 1 * n
      BY <3>6, <3>7, <3>8 DEF Between
    <3>10. g[S] = n
      BY <3>9
    <3>. QED  BY <1>6, <3>3, <3>10, Zenon
  <2>3. DOMAIN h.boundaries = 0 .. b
    BY <1>6
  <2>. QED  BY <1>5, <1>7, <2>1, <2>2, <2>3 DEF ValidHistogram
<1>9. EstimateRange(h, h.boundaries[0], h.boundaries[Len(h.counts)]) = n
  BY <1>4, <1>7, WholeSupport
<1>10. ASSUME NEW lo \in Int, NEW hi \in Int PROVE Accurate(h, values, lo, hi)
  <2>. DEFINE depth == Max({h.counts[i] : i \in DOMAIN h.counts})
              truth == Cardinality({k \in 1 .. n : lo <= sorted[k] /\ sorted[k] <= hi})
              e == EstimateRange(h, lo, hi)
  <2>1. depth \in Nat /\ \A i \in 1 .. b : h.counts[i] <= depth
    BY <1>5, <1>6, DepthIsLargest
  <2>2. e <= truth + 2 * depth /\ truth <= e + 2 * depth
    <3>. HIDE DEF depth
    <3>1. LET t == Cardinality({k \in 1 .. n : lo <= sorted[k] /\ sorted[k] <= hi})
              v == EstimateRange(h, lo, hi)
          IN  /\ t \in Nat /\ v \in Int
              /\ v <= t + 2 * depth /\ t <= v + 2 * depth
      BY <1>4, <2>1, EstimateErrs
    <3>. QED  BY <3>1
  <2>3. truth = Cardinality({i \in 1 .. n : lo <= values[i] /\ values[i] <= hi})
    BY <1>2
  <2>4. DOMAIN values = 1 .. n
    OBVIOUS
  <2>. HIDE DEF truth, e, depth
  <2>. QED  BY <2>2, <2>3, <2>4 DEF Accurate, depth, e
<1>. QED  BY <1>8, <1>9, <1>10 DEF h

LEMMA NumbersTyped ==
  ASSUME NEW rows \in Seq(Row)
  PROVE  \E n \in Nat : NumbersOf(rows) \in [1 .. n -> Int] /\ Len(NumbersOf(rows)) = n
<1>. DEFINE chosen == {i \in DOMAIN rows : rows[i][1] # Null}
            m == Len(rows)
            c == Cardinality(chosen)
            s == Column(rows)
<1>1. m \in Nat /\ DOMAIN rows = 1 .. m
  BY LenProperties
<1>2. chosen \in SUBSET (1 .. m)
  BY <1>1
<1>3. ASSUME NEW i \in chosen PROVE s[i] \in Int
  <2>1. rows[i][1] \in Value \cup {Null} /\ rows[i][1] # Null
    BY CellsOf
  <2>2. s[i] = rows[i][1]
    BY DEF Column
  <2>. QED  BY <2>1, <2>2, ValueAssumption
<1>4. NumbersOf(rows) = At(s, chosen)
  BY DEF NumbersOf
<1>. HIDE DEF chosen, s
<1>5. c \in Nat /\ At(s, chosen) \in [1 .. c -> Int]
  BY <1>1, <1>2, <1>3, AtTyped
<1>. DEFINE v == NumbersOf(rows)
<1>6. v \in [1 .. c -> Int]
  BY <1>4, <1>5
<1>. HIDE DEF v, c
<1>7. Len(v) = c
  <2>1. v \in Seq(Int)
    BY <1>5, <1>6, SeqDef
  <2>2. Len(v) \in Nat /\ 1 .. Len(v) = 1 .. c
    BY <1>6, <2>1, LenProperties
  <2>. QED  BY <1>5, <2>2
<1>. QED  BY <1>5, <1>6, <1>7 DEF v

\* A range estimate of the histogram of any column errs by no more than the
\* two buckets the range cuts, counts the whole support exactly, and the
\* histogram can be loaded.
THEOREM HistogramsAreAccurate == SummarySpec => []HistogramWithinBuckets
<1>1. Queries \subseteq Int
  <2>1. Min(Value) \in Int /\ Max(Value) \in Int
    BY ValueAssumption, Extremes
  <2>. QED  BY <2>1 DEF Queries
<1>2. ColumnInv => HistogramWithinBuckets
  <2>. SUFFICES ASSUME ColumnInv, NEW p \in Part, part[p] # Nothing, NEW asked \in Buckets,
                       HasHistogram(NumbersOf(part[p].rows), asked)
                PROVE  LET values == NumbersOf(part[p].rows)
                           h == FromValues(values, asked)
                           depth == Max({h.counts[i] : i \in DOMAIN h.counts})
                       IN  /\ ValidHistogram(h)
                           /\ EstimateRange(h, h.boundaries[0], h.boundaries[Len(h.counts)]) = Len(values)
                           /\ \A lo, hi \in Queries :
                                LET truth == Cardinality({i \in DOMAIN values : lo <= values[i] /\ values[i] <= hi})
                                    estimate == EstimateRange(h, lo, hi)
                                IN estimate <= truth + 2 * depth /\ truth <= estimate + 2 * depth
    BY DEF HistogramWithinBuckets, Touching
  <2>. DEFINE values == NumbersOf(part[p].rows)
              h == FromValues(values, asked)
  <2>1. part[p].rows \in Seq(Row)
    BY DEF ColumnInv, Summary
  <2>2. PICK n \in Nat : values \in [1 .. n -> Int] /\ Len(values) = n
    BY <2>1, NumbersTyped
  <2>3. asked \in Nat /\ asked >= 2 /\ n >= 2
    BY <2>2, BucketAssumption DEF HasHistogram
  <2>. HIDE DEF values
  <2>4. /\ ValidHistogram(h)
        /\ EstimateRange(h, h.boundaries[0], h.boundaries[Len(h.counts)]) = n
        /\ \A lo, hi \in Int : Accurate(h, values, lo, hi)
    BY <2>2, <2>3, HistogramOf
  <2>. HIDE DEF h
  <2>5. \A lo, hi \in Queries : Accurate(h, values, lo, hi)
    BY <1>1, <2>4
  <2>. QED  BY <2>2, <2>4, <2>5 DEF Accurate, h, values
<1>. QED  BY ColumnInvariance, <1>2, PTL
=============================================================================
