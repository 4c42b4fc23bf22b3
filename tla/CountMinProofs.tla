--------------------------- MODULE CountMinProofs ---------------------------
(***************************************************************************)
(* A Count-Min sketch never undercounts its stream before it saturates,    *)
(* and the degree bound taken from it holds even when it has saturated,    *)
(* for every hash, every dimensions and every history of adds, merges,     *)
(* stores and loads; and a filter that is recommended to run first leaves  *)
(* no more points than its budget.                                         *)
(***************************************************************************)
EXTENDS FilterBounds, WellFoundedInduction, FiniteSetTheorems, SequenceTheorems, TLAPS

----------------------------------------------------------------------------
(* Bounds of sets.                                                         *)

\* A set of naturals has a smallest element, and Min is it.
LEMMA MinExists ==
  ASSUME NEW T \in SUBSET Nat, T # {}
  PROVE  Min(T) \in T /\ \A y \in T : Min(T) <= y
<1>1. \E x \in T : \A y \in T : ~ (<<y, x>> \in OpToRel(<, Nat))
  BY NatLessThanWellFounded, WFMin
<1>2. PICK x \in T : \A y \in T : ~ (<<y, x>> \in OpToRel(<, Nat))
  BY <1>1
<1>3. \A y \in T : x <= y
  <2>. SUFFICES ASSUME NEW y \in T PROVE x <= y
    OBVIOUS
  <2>1. ~(y < x)
    BY <1>2 DEF OpToRel
  <2>. QED  BY <2>1
<1>. QED  BY <1>3 DEF Min

\* A bounded set of naturals has a largest element, and Max is it.
LEMMA MaxExists ==
  ASSUME NEW m \in Nat, NEW T \in SUBSET (0 .. m), T # {}
  PROVE  Max(T) \in T /\ \A y \in T : y <= Max(T)
<1>. DEFINE U == {m - x : x \in T}
<1>1. U \in SUBSET Nat /\ U # {}
  <2>1. \A x \in T : m - x \in Nat
    OBVIOUS
  <2>2. \E x : x \in T
    OBVIOUS
  <2>. QED  BY <2>1, <2>2
<1>2. Min(U) \in U /\ \A y \in U : Min(U) <= y
  BY <1>1, MinExists
<1>3. PICK x \in T : Min(U) = m - x
  BY <1>2
<1>4. \A y \in T : y <= x
  <2>. SUFFICES ASSUME NEW y \in T PROVE y <= x
    OBVIOUS
  <2>1. m - y \in U
    OBVIOUS
  <2>2. m - x <= m - y
    BY <1>2, <1>3, <2>1
  <2>. QED  BY <2>2
<1>5. \E z \in T : \A y \in T : z >= y
  BY <1>4
<1>. QED  BY <1>5 DEF Max

----------------------------------------------------------------------------
(* The sketch.                                                             *)

\* Every row of a key's counters is there, and there is one.
LEMMA HitsInCells ==
  ASSUME NEW s, IsSketch(s), NEW i \in Item
  PROVE  Hits(s, i) \subseteq Cells(s.depth, s.width) /\ Hits(s, i) # {}
<1>1. s.depth \in Nat \ {0} /\ s.width \in Nat \ {0}
  BY DEF IsSketch
<1>2. ASSUME NEW row \in 0 .. s.depth - 1
      PROVE  Pos(s, i, row) \in Cells(s.depth, s.width)
  <2>. DEFINE h == Hash[i][row] % s.width
  <2>1. Hash[i][row] \in Nat
    BY HashAssumption DEF IsSketch
  <2>2. h \in 0 .. s.width - 1
    BY <1>1, <2>1
  <2>. DEFINE w == s.width
              d == s.depth
  <2>3. w \in Nat /\ d \in Nat /\ row \in Nat /\ row + 1 <= d /\ h \in Nat /\ h + 1 <= w
    BY <1>1, <2>2
  <2>. HIDE DEF h, w, d
  <2>4. row * w + h \in Nat /\ row * w + h <= d * w - 1
    <3>1. (d - row - 1) * w >= 0 /\ d * w = (d - row - 1) * w + row * w + w
      BY <2>3, Z3
    <3>2. row * w >= 0
      BY <2>3, Z3
    <3>. QED  BY <2>3, <3>1, <3>2, Z3
  <2>5. row * w + h \in 0 .. d * w - 1
    BY <2>3, <2>4, Z3
  <2>. QED  BY <2>5 DEF Pos, Cells, h, w, d
<1>3. 0 \in 0 .. s.depth - 1
  BY <1>1
<1>. QED  BY <1>2, <1>3 DEF Hits

\* The counters a key hits hold its rows, or are pinned.
Covers(s, f) ==
  \A i \in Item : \A c \in Hits(s, i) : s.counters[c] >= f[i] \/ s.counters[c] = MaxU32

LEMMA SaturatingAddProperties ==
  ASSUME NEW max \in Nat, NEW a \in 0 .. max, NEW b \in Nat
  PROVE  /\ SaturatingAdd(a, b, max) \in 0 .. max
         /\ SaturatingAdd(a, b, max) >= a
         /\ SaturatingAdd(a, b, max) = max \/ SaturatingAdd(a, b, max) = a + b
BY DEF SaturatingAdd

LEMMA FreshSketch ==
  ASSUME NEW d \in Dims, d.depth # 0, d.width # 0
  PROVE  IsSketch(Fresh(d.depth, d.width)) /\ Covers(Fresh(d.depth, d.width), Empty)
<1>. DEFINE s == Fresh(d.depth, d.width)
<1>1. /\ s.depth = d.depth /\ s.width = d.width /\ s.total = 0
      /\ s.counters = [c \in Cells(d.depth, d.width) |-> 0]
  BY DEF Fresh
<1>2. IsSketch(s)
  BY <1>1, DimsAssumption, LimitAssumption DEF IsSketch, Fresh
<1>3. \A i \in Item : \A c \in Hits(s, i) : s.counters[c] = 0
  BY <1>1, <1>2, HitsInCells
<1>. QED  BY <1>2, <1>3 DEF Covers, Empty

LEMMA AddToSketch ==
  ASSUME NEW s, IsSketch(s), NEW f \in Stream, Covers(s, f), NEW i \in Item, NEW n \in Nat
  PROVE  IsSketch(AddTo(s, i, n)) /\ Covers(AddTo(s, i, n), [f EXCEPT ![i] = @ + n])
<1>. DEFINE t == AddTo(s, i, n)
<1>1. n \in Nat /\ MaxU32 \in Nat /\ MaxU64 \in Nat
  BY LimitAssumption
<1>2. /\ s = [depth |-> s.depth, width |-> s.width, counters |-> s.counters, total |-> s.total]
      /\ s.counters \in [Cells(s.depth, s.width) -> 0 .. MaxU32] /\ s.total \in 0 .. MaxU64
  BY DEF IsSketch
<1>3. /\ t.depth = s.depth /\ t.width = s.width
      /\ t = [depth |-> t.depth, width |-> t.width, counters |-> t.counters, total |-> t.total]
      /\ t.total = SaturatingAdd(s.total, n, MaxU64)
      /\ t.counters = [c \in Cells(s.depth, s.width) |->
                         IF c \in Hits(s, i)
                         THEN SaturatingAdd(s.counters[c], n, MaxU32) ELSE s.counters[c]]
  <2>1. DOMAIN s.counters = Cells(s.depth, s.width)
    BY <1>2
  <2>. DEFINE counters == [c \in DOMAIN s.counters |->
                             IF c \in Hits(s, i)
                             THEN SaturatingAdd(s.counters[c], n, MaxU32) ELSE s.counters[c]]
              total == SaturatingAdd(s.total, n, MaxU64)
  <2>2. t = [s EXCEPT !.counters = counters, !.total = total]
    BY DEF AddTo
  <2>3. counters = [c \in Cells(s.depth, s.width) |->
                      IF c \in Hits(s, i)
                      THEN SaturatingAdd(s.counters[c], n, MaxU32) ELSE s.counters[c]]
    BY <2>1
  <2>. HIDE DEF t, counters
  <2>4. t = [depth |-> s.depth, width |-> s.width, counters |-> counters, total |-> total]
    BY <1>2, <2>2
  <2>. QED  BY <2>3, <2>4
<1>4. t.total \in 0 .. MaxU64
  BY <1>1, <1>2, <1>3, SaturatingAddProperties
<1>5. \A c \in Cells(s.depth, s.width) :
        /\ SaturatingAdd(s.counters[c], n, MaxU32) \in 0 .. MaxU32
        /\ \/ SaturatingAdd(s.counters[c], n, MaxU32) = MaxU32
           \/ SaturatingAdd(s.counters[c], n, MaxU32) = s.counters[c] + n
  BY <1>1, <1>2, SaturatingAddProperties
<1>. HIDE DEF t
<1>6. t.counters \in [Cells(s.depth, s.width) -> 0 .. MaxU32]
  BY <1>2, <1>3, <1>5
<1>7. IsSketch(t)
  BY <1>3, <1>4, <1>6 DEF IsSketch
<1>8. Covers(t, [f EXCEPT ![i] = @ + n])
  <2>. SUFFICES ASSUME NEW j \in Item, NEW c \in Hits(t, j)
                PROVE  t.counters[c] >= [f EXCEPT ![i] = @ + n][j] \/ t.counters[c] = MaxU32
    BY DEF Covers
  <2>1. c \in Hits(s, j) /\ c \in Cells(s.depth, s.width)
    BY <1>3, HitsInCells DEF Hits, Pos
  <2>2. s.counters[c] >= f[j] \/ s.counters[c] = MaxU32
    BY <2>1 DEF Covers
  <2>3. f[j] \in Nat /\ s.counters[c] \in 0 .. MaxU32
    BY <1>2, <2>1 DEF Stream
  <2>4. CASE j = i
    <3>1. t.counters[c] = SaturatingAdd(s.counters[c], n, MaxU32)
      BY <1>3, <2>1, <2>4
    <3>2. [f EXCEPT ![i] = @ + n][j] = f[j] + n
      BY <2>4 DEF Stream
    <3>3. t.counters[c] = MaxU32 \/ t.counters[c] = s.counters[c] + n
      BY <1>5, <2>1, <3>1
    <3>4. s.counters[c] = MaxU32 => t.counters[c] = MaxU32
      BY <1>1, <2>3, <3>1 DEF SaturatingAdd
    <3>. QED  BY <1>1, <2>2, <2>3, <3>2, <3>3, <3>4
  <2>5. CASE j # i
    <3>1. [f EXCEPT ![i] = @ + n][j] = f[j]
      BY <2>5 DEF Stream
    <3>2. t.counters[c] = s.counters[c] \/ t.counters[c] = SaturatingAdd(s.counters[c], n, MaxU32)
      BY <1>3, <2>1
    <3>3. t.counters[c] >= s.counters[c]
      BY <1>1, <2>3, <3>2, SaturatingAddProperties
    <3>4. t.counters[c] \in 0 .. MaxU32
      BY <1>6, <2>1
    <3>. QED  BY <1>1, <2>2, <2>3, <3>1, <3>3, <3>4
  <2>. QED  BY <2>4, <2>5
<1>. QED  BY <1>7, <1>8 DEF t

LEMMA MergedSketch ==
  ASSUME NEW s, IsSketch(s), NEW f \in Stream, Covers(s, f),
         NEW o, IsSketch(o), NEW g \in Stream, Covers(o, g), SameDims(s, o)
  PROVE  IsSketch(Merged(s, o)) /\ Covers(Merged(s, o), Plus(f, g))
<1>. DEFINE t == Merged(s, o)
<1>1. MaxU32 \in Nat /\ MaxU64 \in Nat /\ o.depth = s.depth /\ o.width = s.width
  BY LimitAssumption DEF SameDims
<1>2. /\ s = [depth |-> s.depth, width |-> s.width, counters |-> s.counters, total |-> s.total]
      /\ s.counters \in [Cells(s.depth, s.width) -> 0 .. MaxU32] /\ s.total \in 0 .. MaxU64
      /\ o.counters \in [Cells(s.depth, s.width) -> 0 .. MaxU32] /\ o.total \in 0 .. MaxU64
  BY <1>1 DEF IsSketch
<1>3. /\ t.depth = s.depth /\ t.width = s.width
      /\ t = [depth |-> t.depth, width |-> t.width, counters |-> t.counters, total |-> t.total]
      /\ t.total = SaturatingAdd(s.total, o.total, MaxU64)
      /\ t.counters = [c \in Cells(s.depth, s.width) |->
                         SaturatingAdd(s.counters[c], o.counters[c], MaxU32)]
  <2>1. DOMAIN s.counters = Cells(s.depth, s.width)
    BY <1>2
  <2>. DEFINE counters == [c \in DOMAIN s.counters |->
                             SaturatingAdd(s.counters[c], o.counters[c], MaxU32)]
              total == SaturatingAdd(s.total, o.total, MaxU64)
  <2>2. t = [s EXCEPT !.counters = counters, !.total = total]
    BY DEF Merged
  <2>3. counters = [c \in Cells(s.depth, s.width) |->
                      SaturatingAdd(s.counters[c], o.counters[c], MaxU32)]
    BY <2>1
  <2>. HIDE DEF t, counters
  <2>4. t = [depth |-> s.depth, width |-> s.width, counters |-> counters, total |-> total]
    BY <1>2, <2>2
  <2>. QED  BY <2>3, <2>4
<1>4. t.total \in 0 .. MaxU64
  <2>1. o.total \in Nat
    BY <1>1, <1>2
  <2>. QED  BY <1>1, <1>2, <1>3, <2>1, SaturatingAddProperties
<1>5. \A c \in Cells(s.depth, s.width) :
        /\ s.counters[c] \in 0 .. MaxU32 /\ o.counters[c] \in 0 .. MaxU32
        /\ t.counters[c] = SaturatingAdd(s.counters[c], o.counters[c], MaxU32)
  BY <1>2, <1>3
<1>. HIDE DEF t
<1>6. t.counters \in [Cells(s.depth, s.width) -> 0 .. MaxU32]
  BY <1>1, <1>3, <1>5 DEF SaturatingAdd
<1>7. IsSketch(t)
  BY <1>3, <1>4, <1>6 DEF IsSketch
<1>8. Covers(t, Plus(f, g))
  <2>. SUFFICES ASSUME NEW j \in Item, NEW c \in Hits(t, j)
                PROVE  t.counters[c] >= f[j] + g[j] \/ t.counters[c] = MaxU32
    BY DEF Covers, Plus
  <2>1. c \in Hits(s, j) /\ c \in Hits(o, j) /\ c \in Cells(s.depth, s.width)
    BY <1>1, <1>3, HitsInCells DEF Hits, Pos
  <2>2. /\ s.counters[c] >= f[j] \/ s.counters[c] = MaxU32
        /\ o.counters[c] >= g[j] \/ o.counters[c] = MaxU32
    BY <2>1 DEF Covers
  <2>3. f[j] \in Nat /\ g[j] \in Nat
    BY DEF Stream
  <2>. QED  BY <1>1, <1>5, <2>1, <2>2, <2>3 DEF SaturatingAdd
<1>. QED  BY <1>7, <1>8 DEF t

----------------------------------------------------------------------------
(* The inductive invariant.                                                *)

IInv ==
  /\ TypeOK
  /\ \A b \in Builder : sketch[b] # None => Covers(sketch[b], stream[b])
  /\ IsSketch(sidecar) => Covers(sidecar, stored)

LEMMA SketchIsNotNone == \A s : IsSketch(s) => s # None
BY DEF IsSketch, None

LEMMA InvalidPayloads ==
  ASSUME sidecar \in {None} \cup Malformed
  PROVE  ~Valid(sidecar)
BY MalformedAssumption DEF Valid, None

\* One builder is given a sketch of the stream f.
LEMMA Replace ==
  ASSUME IInv, NEW b \in Builder, NEW s, IsSketch(s), NEW f \in Stream, Covers(s, f),
         sketch' = [sketch EXCEPT ![b] = s], stream' = [stream EXCEPT ![b] = f],
         UNCHANGED <<sidecar, stored>>
  PROVE  IInv'
<1>1. sketch = [x \in Builder |-> sketch[x]] /\ stream \in [Builder -> Stream]
  BY DEF IInv, TypeOK
<1>2. \A x \in Builder :
        /\ sketch'[x] = IF x = b THEN s ELSE sketch[x]
        /\ stream'[x] = IF x = b THEN f ELSE stream[x]
  BY <1>1
<1>3. sketch' = [x \in Builder |-> sketch'[x]]
  BY <1>1
<1>4. stream' \in [Builder -> Stream]
  BY <1>1
<1>5. \A x \in Builder : sketch'[x] = None \/ IsSketch(sketch'[x])
  BY <1>2 DEF IInv, TypeOK
<1>6. \A x \in Builder : sketch'[x] # None => Covers(sketch'[x], stream'[x])
  BY <1>2 DEF IInv
<1>7. TypeOK'
  BY <1>3, <1>4, <1>5 DEF IInv, TypeOK
<1>8. (IsSketch(sidecar) => Covers(sidecar, stored))'
  BY DEF IInv
<1>. QED  BY <1>6, <1>7, <1>8 DEF IInv

LEMMA Initially ==
  ASSUME Init
  PROVE  IInv
BY SketchIsNotNone DEF Init, IInv, TypeOK, Stream, Empty

LEMMA Inductive ==
  ASSUME IInv, [Next]_vars
  PROVE  IInv'
<1>0. /\ \A b \in Builder : sketch[b] # None => IsSketch(sketch[b]) /\ Covers(sketch[b], stream[b])
      /\ stream \in [Builder -> Stream] /\ stored \in Stream
  BY DEF IInv, TypeOK
<1>1. ASSUME NEW b \in Builder, NEW d \in Dims, New(b, d)
      PROVE  IInv'
  <2>1. Empty \in Stream
    BY DEF Empty, Stream
  <2>. QED  BY <1>1, <2>1, FreshSketch, Replace DEF New
<1>2. ASSUME NEW b \in Builder, NEW i \in Item, NEW n \in Count, Add(b, i, n)
      PROVE  IInv'
  <2>1. stream[b] \in Stream /\ n \in Nat
    BY <1>0, CountAssumption, LimitAssumption
  <2>2. [stream[b] EXCEPT ![i] = @ + n] \in Stream
    BY <2>1 DEF Stream
  <2>3. stream' = [stream EXCEPT ![b] = [stream[b] EXCEPT ![i] = @ + n]]
    BY <1>2 DEF Add
  <2>4. IsSketch(AddTo(sketch[b], i, n))
        /\ Covers(AddTo(sketch[b], i, n), [stream[b] EXCEPT ![i] = @ + n])
    BY <1>0, <1>2, <2>1, AddToSketch DEF Add
  <2>5. sketch' = [sketch EXCEPT ![b] = AddTo(sketch[b], i, n)] /\ UNCHANGED <<sidecar, stored>>
    BY <1>2 DEF Add
  <2>. QED  BY <2>2, <2>3, <2>4, <2>5, Replace
<1>3. ASSUME NEW b \in Builder, NEW o \in Builder, Merge(b, o)
      PROVE  IInv'
  <2>1. stream[b] \in Stream /\ stream[o] \in Stream
    BY <1>0
  <2>2. Plus(stream[b], stream[o]) \in Stream
    BY <2>1 DEF Stream, Plus
  <2>3. IsSketch(Merged(sketch[b], sketch[o]))
        /\ Covers(Merged(sketch[b], sketch[o]), Plus(stream[b], stream[o]))
    BY <1>0, <1>3, <2>1, MergedSketch DEF Merge
  <2>4. /\ sketch' = [sketch EXCEPT ![b] = Merged(sketch[b], sketch[o])]
        /\ stream' = [stream EXCEPT ![b] = Plus(stream[b], stream[o])]
        /\ UNCHANGED <<sidecar, stored>>
    BY <1>3 DEF Merge
  <2>. QED  BY <2>2, <2>3, <2>4, Replace
<1>4. ASSUME NEW b \in Builder, Store(b)
      PROVE  IInv'
  BY <1>0, <1>4 DEF Store, IInv, TypeOK, IsSketch, Covers, Hits, Pos
<1>5. ASSUME NEW p \in Malformed, Damage(p)
      PROVE  IInv'
  <2>1. ~IsSketch(p)
    BY MalformedAssumption DEF IsSketch, Valid
  <2>. QED  BY <1>5, <2>1 DEF Damage, IInv, TypeOK, IsSketch, Covers, Hits, Pos, Stream, Empty
<1>6. ASSUME NEW b \in Builder, Load(b)
      PROVE  IInv'
  <2>1. IsSketch(sidecar) /\ Covers(sidecar, stored) /\ stored \in Stream
    BY <1>6, InvalidPayloads DEF Load, IInv, TypeOK
  <2>. QED  BY <1>6, <2>1, Replace DEF Load
<1>7. CASE UNCHANGED vars
  BY <1>7 DEF vars, IInv, TypeOK, IsSketch, Covers, Hits, Pos
<1>. QED  BY <1>1, <1>2, <1>3, <1>4, <1>5, <1>6, <1>7 DEF Next

\* The inductive invariant holds of every reachable state.
LEMMA Invariance == Spec => []IInv
BY Initially, Inductive, PTL DEF Spec

\* An unsaturated sketch's estimate is a bound.
LEMMA Undercounted ==
  ASSUME IInv, NEW b \in Builder, sketch[b] # None, ~IsSaturated(sketch[b]), NEW i \in Item
  PROVE  Estimate(sketch[b], i) \in Nat /\ Estimate(sketch[b], i) >= stream[b][i]
<1>. DEFINE s == sketch[b]
            T == {s.counters[c] : c \in Hits(s, i)}
<1>1. IsSketch(s) /\ Covers(s, stream[b])
  BY DEF IInv, TypeOK
<1>2. Hits(s, i) \subseteq Cells(s.depth, s.width) /\ Hits(s, i) # {}
  BY <1>1, HitsInCells
<1>3. s.counters \in [Cells(s.depth, s.width) -> 0 .. MaxU32] /\ MaxU32 \in Nat
  BY <1>1, LimitAssumption DEF IsSketch
<1>4. T \in SUBSET Nat /\ T # {}
  <2>1. \A c \in Hits(s, i) : s.counters[c] \in Nat
    BY <1>2, <1>3
  <2>. QED  BY <1>2, <2>1
<1>5. Min(T) \in T
  BY <1>4, MinExists
<1>6. \A c \in Hits(s, i) : s.counters[c] >= stream[b][i]
  BY <1>1, <1>2, <1>3 DEF Covers, IsSaturated
<1>7. Min(T) \in Nat /\ Min(T) >= stream[b][i]
  BY <1>4, <1>5, <1>6
<1>. QED  BY <1>7 DEF Estimate

\* A sketch's degree bounds every key's.
LEMMA DegreesHold ==
  ASSUME IInv
  PROVE  CountMinDegreeSound
<1>1. ASSUME NEW b \in Builder, sketch[b] # None, NEW rows \in 0 .. MaxRows,
             \A i \in Item : stream[b][i] <= rows, NEW i \in Item
      PROVE  stream[b][i] <= FromCountMin(rows, sketch[b])
  <2>. DEFINE s == sketch[b]
              T == {s.counters[c] : c \in DOMAIN s.counters}
  <2>1. IsSketch(s) /\ Covers(s, stream[b])
    BY <1>1 DEF IInv, TypeOK
  <2>2. Hits(s, i) \subseteq Cells(s.depth, s.width) /\ Hits(s, i) # {}
    BY <2>1, HitsInCells
  <2>3. /\ s.counters \in [Cells(s.depth, s.width) -> 0 .. MaxU32] /\ MaxU32 \in Nat
        /\ DOMAIN s.counters = Cells(s.depth, s.width)
    BY <2>1, LimitAssumption DEF IsSketch
  <2>4. T \in SUBSET (0 .. MaxU32) /\ T # {}
    <3>1. \A c \in DOMAIN s.counters : s.counters[c] \in 0 .. MaxU32
      BY <2>3
    <3>. QED  BY <2>2, <2>3, <3>1
  <2>5. Max(T) \in T /\ \A y \in T : y <= Max(T)
    BY <2>3, <2>4, MaxExists
  <2>6. PICK c \in Hits(s, i) : c \in DOMAIN s.counters
    BY <2>2, <2>3
  <2>7. CASE IsSaturated(s)
    BY <1>1, <2>7 DEF FromCountMin
  <2>8. CASE ~IsSaturated(s)
    <3>1. s.counters[c] >= stream[b][i]
      BY <2>1, <2>6, <2>8 DEF Covers, IsSaturated
    <3>2. s.counters[c] \in T
      BY <2>6
    <3>3. s.counters[c] <= Max(T) /\ s.counters[c] \in Nat /\ Max(T) \in Nat
      BY <2>3, <2>4, <2>5, <3>2
    <3>4. stream[b][i] \in Nat
      BY <1>1 DEF IInv, TypeOK, Stream
    <3>5. Largest(s) = Max(T)
      BY DEF Largest
    <3>. HIDE DEF T, s
    <3>6. stream[b][i] <= Largest(s)
      BY <3>1, <3>3, <3>4, <3>5
    <3>7. FromCountMin(rows, s) = rows \/ FromCountMin(rows, s) = Largest(s)
      BY DEF FromCountMin
    <3>. QED  BY <1>1, <3>6, <3>7 DEF s
  <2>. QED  BY <2>7, <2>8
<1>. QED  BY <1>1 DEF CountMinDegreeSound

----------------------------------------------------------------------------
(* The theorems.                                                           *)

\* Every sketch held or stored is well formed, whatever bytes were loaded.
THEOREM Typed == Spec => []TypeOK
<1>1. IInv => TypeOK
  BY DEF IInv
<1>. QED  BY Invariance, <1>1, PTL

\* The guarantee estimate() states: no key's count is ever under its rows
\* while no counter has reached u32::MAX.
THEOREM EstimateIsSound == Spec => []NeverUndercounts
<1>1. IInv => NeverUndercounts
  BY Undercounted DEF NeverUndercounts
<1>. QED  BY Invariance, <1>1, PTL

\* The obligation AttributeDegree::from_count_min owes to the join ceiling.
THEOREM DegreeIsSound == Spec => []CountMinDegreeSound
BY Invariance, DegreesHold, PTL

----------------------------------------------------------------------------
(* The bounds of filters.                                                  *)

\* The sum of the first i bounds, given those of fewer.
SumOf(bounds, f, i) == IF i = 0 THEN 0 ELSE Capped(f[i - 1] + bounds[i])

SumUpTo(bounds, i) == \E f : f = [j \in 0 .. i |-> SumOf(bounds, f, j)]

LEMMA SumFurther ==
  ASSUME NEW bounds, NEW i \in Nat, SumUpTo(bounds, i)
  PROVE  SumUpTo(bounds, i + 1)
<1>1. PICK f : f = [j \in 0 .. i |-> SumOf(bounds, f, j)]
  BY DEF SumUpTo
<1>. DEFINE g == [j \in 0 .. i + 1 |-> SumOf(bounds, f, j)]
<1>2. ASSUME NEW j \in 0 .. i + 1 PROVE SumOf(bounds, f, j) = SumOf(bounds, g, j)
  <2>1. CASE j = 0
    BY <2>1 DEF SumOf
  <2>2. CASE j # 0
    <3>1. j - 1 \in 0 .. i /\ j - 1 \in 0 .. i + 1
      BY <2>2
    <3>2. f[j - 1] = SumOf(bounds, f, j - 1)
      BY <1>1, <3>1
    <3>3. g[j - 1] = SumOf(bounds, f, j - 1)
      BY <3>1
    <3>. HIDE DEF g
    <3>. QED  BY <3>2, <3>3 DEF SumOf
  <2>. QED  BY <2>1, <2>2
<1>3. g = [j \in 0 .. i + 1 |-> SumOf(bounds, g, j)]
  BY <1>2
<1>. HIDE DEF g
<1>. QED  BY <1>3 DEF SumUpTo

LEMMA SumsExist ==
  ASSUME NEW bounds
  PROVE  \A i \in Nat : SumUpTo(bounds, i)
<1>. DEFINE T == {i \in Nat : ~ SumUpTo(bounds, i)}
<1>. SUFFICES ASSUME T # {} PROVE FALSE
  OBVIOUS
<1>1. Min(T) \in T /\ \A y \in T : Min(T) <= y
  BY MinExists
<1>. DEFINE i == Min(T)
<1>2. i # 0
  <2>. DEFINE f == [j \in 0 .. 0 |-> 0]
  <2>1. f = [j \in 0 .. 0 |-> SumOf(bounds, f, j)]
    BY DEF SumOf
  <2>. HIDE DEF f
  <2>. QED  BY <1>1, <2>1 DEF SumUpTo
<1>. HIDE DEF i
<1>3. i \in Nat /\ ~ SumUpTo(bounds, i)
  BY <1>1 DEF i
<1>4. i - 1 \in Nat /\ i - 1 \notin T
  <2>1. i - 1 \in Nat
    BY <1>2, <1>3
  <2>2. i - 1 \in T => i <= i - 1
    BY <1>1 DEF i
  <2>. QED  BY <1>3, <2>1, <2>2
<1>5. SumUpTo(bounds, i - 1)
  BY <1>4
<1>6. SumUpTo(bounds, (i - 1) + 1)
  BY <1>4, <1>5, SumFurther
<1>. QED  BY <1>3, <1>6

\* Sets of points that are within bounds are together within their sum.
LEMMA UnionWithinSum ==
  ASSUME IsFiniteSet(Point), NEW bounds \in Seq(Nat), NEW part,
         \A i \in 1 .. Len(bounds) :
           part[i] \in SUBSET Point /\ Cardinality(part[i]) <= bounds[i]
  PROVE  /\ Sum(bounds) \in Nat
         /\ Cardinality(UNION {part[i] : i \in 1 .. Len(bounds)}) <= Sum(bounds)
<1>. DEFINE n == Len(bounds)
            upTo == CHOOSE f : f = [i \in 0 .. n |-> SumOf(bounds, f, i)]
            all(i) == UNION {part[j] : j \in 1 .. i}
<1>1. n \in Nat /\ \A i \in 1 .. n : bounds[i] \in Nat
  BY ElementOfSeq, LenProperties
<1>2. upTo = [i \in 0 .. n |-> SumOf(bounds, upTo, i)]
  BY <1>1, SumsExist DEF SumUpTo
<1>3. Sum(bounds) = upTo[n]
  BY DEF Sum, SumOf
<1>4. Total \in Nat
  BY FS_CardinalityType DEF Total
<1>. HIDE DEF upTo, n
<1>5. \A i \in 0 .. n : upTo[i] \in Nat /\ Cardinality(all(i)) <= upTo[i]
  <2>. DEFINE T == {i \in 0 .. n : ~ (upTo[i] \in Nat /\ Cardinality(all(i)) <= upTo[i])}
  <2>. SUFFICES ASSUME T # {} PROVE FALSE
    OBVIOUS
  <2>1. PICK i \in T : \A y \in T : i <= y
    <3>1. T \in SUBSET Nat
      BY <1>1
    <3>. QED  BY <3>1, MinExists
  <2>2. i \in 0 .. n /\ ~ (upTo[i] \in Nat /\ Cardinality(all(i)) <= upTo[i])
    BY <2>1
  <2>3. upTo[i] = SumOf(bounds, upTo, i)
    BY <1>2, <2>2
  <2>4. i # 0
    <3>1. i = 0 => all(i) = {}
      OBVIOUS
    <3>2. i = 0 => Cardinality(all(i)) = 0
      BY <3>1, FS_EmptySet
    <3>3. i = 0 => upTo[i] = 0
      BY <2>3 DEF SumOf
    <3>. QED  BY <2>2, <3>2, <3>3
  <2>5. i - 1 \in 0 .. n /\ i \in 1 .. n /\ ~ (i <= i - 1)
    BY <1>1, <2>2, <2>4
  <2>6. i - 1 \notin T
    BY <2>1, <2>5
  <2>7. upTo[i - 1] \in Nat /\ Cardinality(all(i - 1)) <= upTo[i - 1]
    BY <2>5, <2>6
  <2>8. upTo[i] = Capped(upTo[i - 1] + bounds[i]) /\ bounds[i] \in Nat
    BY <1>1, <2>3, <2>4, <2>5 DEF SumOf
  <2>9. part[i] \in SUBSET Point /\ Cardinality(part[i]) <= bounds[i]
    BY <2>5 DEF n
  <2>10. all(i) = all(i - 1) \cup part[i]
    <3>1. 1 .. i = (1 .. i - 1) \cup {i}
      BY <2>5, <1>1
    <3>. QED  BY <3>1
  <2>11. all(i - 1) \in SUBSET Point /\ all(i) \in SUBSET Point
    <3>1. \A j \in 1 .. i : part[j] \in SUBSET Point
      BY <1>1, <2>5 DEF n
    <3>2. \A j \in 1 .. i - 1 : j \in 1 .. i
      BY <1>1, <2>5
    <3>. QED  BY <3>1, <3>2
  <2>. DEFINE A == all(i - 1)
              B == part[i]
              U == all(i)
  <2>12. IsFiniteSet(A) /\ IsFiniteSet(B) /\ IsFiniteSet(U)
    BY <2>9, <2>11, FS_Subset
  <2>13. Cardinality(U) <= Total
    BY <2>11, FS_Subset DEF Total
  <2>14. U = A \cup B
    BY <2>10
  <2>15. Cardinality(A) <= upTo[i - 1] /\ Cardinality(B) <= bounds[i]
    BY <2>7, <2>9
  <2>. HIDE DEF A, B, U
  <2>16. Cardinality(U) <= Cardinality(A) + Cardinality(B)
    <3>1. Cardinality(A \cup B) = Cardinality(A) + Cardinality(B) - Cardinality(A \cap B)
      BY <2>12, FS_Union
    <3>2. IsFiniteSet(A \cap B)
      BY <2>12, FS_Intersection
    <3>3. Cardinality(A) \in Nat /\ Cardinality(B) \in Nat /\ Cardinality(A \cap B) \in Nat
      BY <2>12, <3>2, FS_CardinalityType
    <3>. QED  BY <2>14, <3>1, <3>3
  <2>17. Cardinality(A) \in Nat /\ Cardinality(B) \in Nat /\ Cardinality(U) \in Nat
    BY <2>12, FS_CardinalityType
  <2>18. upTo[i] \in Nat /\ Cardinality(U) <= upTo[i]
    <3>. DEFINE a == upTo[i - 1]
                b == bounds[i]
                cA == Cardinality(A)
                cB == Cardinality(B)
                cU == Cardinality(U)
    <3>1. a \in Nat /\ b \in Nat /\ cA \in Nat /\ cB \in Nat /\ cU \in Nat
      BY <2>7, <2>8, <2>17
    <3>2. cU <= Total /\ cA <= a /\ cB <= b /\ cU <= cA + cB
      BY <2>13, <2>15, <2>16
    <3>3. upTo[i] = Capped(a + b)
      BY <2>8
    <3>. HIDE DEF a, b, cA, cB, cU
    <3>4. Capped(a + b) \in Nat /\ cU <= Capped(a + b)
      BY <1>4, <3>1, <3>2 DEF Capped
    <3>. QED  BY <3>3, <3>4 DEF cU
  <2>. QED  BY <2>2, <2>18 DEF U
<1>6. n \in 0 .. n
  BY <1>1
<1>. QED  BY <1>3, <1>5, <1>6 DEF n

----------------------------------------------------------------------------
(* A collection.                                                           *)

\* The points whose field b is v.
With(b, v) == {at \in Point : at[1][b] = v}

\* Once there are points, the fields' sketches count them and nothing else.
Tallied ==
  /\ points \in [Payload -> Nat] /\ IsFiniteSet(Point)
  /\ points # NoPoints =>
       \A b \in Field : sketch[b] # None /\ \A v \in Item : stream[b][v] = Cardinality(With(b, v))

\* An indexed point is one more, and its fields' values one more each.
LEMMA OneMore ==
  ASSUME Tallied, NEW p \in Payload, points' = [points EXCEPT ![p] = @ + 1]
  PROVE  /\ points' \in [Payload -> Nat] /\ IsFiniteSet(Point')
         /\ \A b \in Field, v \in Item :
              /\ Cardinality(With(b, v)) \in Nat
              /\ p[b] = v => Cardinality(With(b, v)') = Cardinality(With(b, v)) + 1
              /\ p[b] # v => Cardinality(With(b, v)') = Cardinality(With(b, v))
<1>. DEFINE at == <<p, points[p] + 1>>
<1>1. points \in [Payload -> Nat] /\ points' \in [Payload -> Nat]
  BY DEF Tallied
<1>2. Point' = Point \cup {at} /\ at \notin Point
  <2>1. \A q \in Payload : points'[q] = IF q = p THEN points[p] + 1 ELSE points[q]
    BY <1>1
  <2>2. 1 .. points[p] + 1 = (1 .. points[p]) \cup {points[p] + 1} /\ points[p] + 1 \notin 1 .. points[p]
    BY <1>1
  <2>3. Point' = UNION {{q} \X (1 .. points'[q]) : q \in Payload}
    BY DEF Point
  <2>4. ASSUME NEW x PROVE x \in Point' <=> x \in Point \/ x = at
    <3>1. x \in Point' <=> \E q \in Payload : \E k \in 1 .. points'[q] : x = <<q, k>>
      BY <2>3
    <3>2. x \in Point <=> \E q \in Payload : \E k \in 1 .. points[q] : x = <<q, k>>
      BY DEF Point
    <3>. QED  BY <2>1, <2>2, <3>1, <3>2
  <2>5. at \notin Point
    BY <2>2 DEF Point
  <2>. QED  BY <2>4, <2>5
<1>3. IsFiniteSet(Point) /\ IsFiniteSet(Point')
  BY <1>2, FS_AddElement DEF Tallied
<1>4. ASSUME NEW b \in Field, NEW v \in Item
      PROVE  /\ Cardinality(With(b, v)) \in Nat
             /\ p[b] = v => Cardinality(With(b, v)') = Cardinality(With(b, v)) + 1
             /\ p[b] # v => Cardinality(With(b, v)') = Cardinality(With(b, v))
  <2>1. IsFiniteSet(With(b, v))
    <3>1. With(b, v) \subseteq Point
      BY DEF With
    <3>. QED  BY <1>3, <3>1, FS_Subset
  <2>2. Cardinality(With(b, v)) \in Nat
    BY <2>1, FS_CardinalityType
  <2>3. With(b, v)' = {x \in Point' : x[1][b] = v}
    BY DEF With
  <2>4. at[1] = p
    OBVIOUS
  <2>. HIDE DEF at
  <2>5. p[b] = v => With(b, v)' = With(b, v) \cup {at} /\ at \notin With(b, v)
    BY <1>2, <2>3, <2>4 DEF With
  <2>6. p[b] # v => With(b, v)' = With(b, v)
    BY <1>2, <2>3, <2>4 DEF With
  <2>7. p[b] = v => Cardinality(With(b, v)') = Cardinality(With(b, v)) + 1
    BY <2>1, <2>5, FS_AddElement
  <2>. QED  BY <2>2, <2>6, <2>7
<1>. QED  BY <1>1, <1>3, <1>4

LEMMA IndexHolds ==
  ASSUME IInv, Tallied, NEW p \in Payload, Index(p)
  PROVE  IInv' /\ Tallied'
<1>1. /\ \A b \in Field : sketch[b] # None /\ (points = NoPoints => stream[b] = Empty)
      /\ points' = [points EXCEPT ![p] = @ + 1]
      /\ sketch' = [b \in Field |-> IF p[b] = Absent THEN sketch[b] ELSE AddTo(sketch[b], p[b], 1)]
      /\ stream' = [b \in Field |-> IF p[b] = Absent THEN stream[b] ELSE [stream[b] EXCEPT ![p[b]] = @ + 1]]
      /\ sidecar' = sidecar /\ stored' = stored
  BY DEF Index
<1>2. ASSUME NEW b \in Builder
      PROVE  /\ IsSketch(sketch[b]) /\ Covers(sketch[b], stream[b]) /\ stream[b] \in Stream
             /\ p[b] \in Item \/ p[b] = Absent
  BY <1>1, PayloadAssumption DEF IInv, TypeOK, Field
<1>3. ASSUME NEW b \in Builder
      PROVE  IsSketch(sketch'[b]) /\ Covers(sketch'[b], stream'[b]) /\ stream'[b] \in Stream
  <2>1. CASE p[b] = Absent
    BY <1>1, <1>2, <2>1 DEF Field
  <2>2. CASE p[b] # Absent
    <3>1. /\ sketch'[b] = AddTo(sketch[b], p[b], 1)
          /\ stream'[b] = [stream[b] EXCEPT ![p[b]] = @ + 1]
      BY <1>1, <2>2 DEF Field
    <3>2. p[b] \in Item /\ 1 \in Nat
      BY <1>2, <2>2
    <3>3. IsSketch(AddTo(sketch[b], p[b], 1)) /\ Covers(AddTo(sketch[b], p[b], 1), [stream[b] EXCEPT ![p[b]] = @ + 1])
      BY <1>2, <3>2, AddToSketch
    <3>4. [stream[b] EXCEPT ![p[b]] = @ + 1] \in Stream
      BY <1>2, <3>2 DEF Stream
    <3>. QED  BY <3>1, <3>3, <3>4
  <2>. QED  BY <2>1, <2>2
<1>4. IInv'
  <2>1. sketch' = [b \in Builder |-> sketch'[b]] /\ stream' \in [Builder -> Stream]
    BY <1>1, <1>3 DEF Field
  <2>2. TypeOK'
    BY <1>1, <1>3, <2>1 DEF IInv, TypeOK
  <2>3. (IsSketch(sidecar) => Covers(sidecar, stored))'
    BY <1>1 DEF IInv
  <2>4. \A b \in Builder : sketch'[b] # None => Covers(sketch'[b], stream'[b])
    BY <1>3
  <2>. QED  BY <2>2, <2>3, <2>4 DEF IInv
<1>5. Tallied'
  <2>1. points' \in [Payload -> Nat] /\ IsFiniteSet(Point')
    BY <1>1, OneMore
  <2>2. ASSUME NEW b \in Field PROVE sketch'[b] # None
    BY <1>3, SketchIsNotNone DEF Field
  <2>3. ASSUME NEW b \in Field, NEW v \in Item PROVE stream'[b][v] = Cardinality(With(b, v)')
    <3>1. stream[b][v] = Cardinality(With(b, v))
      <4>1. CASE points = NoPoints
        <5>1. Point = {}
          BY <4>1 DEF Point, NoPoints
        <5>2. With(b, v) = {}
          BY <5>1 DEF With
        <5>. QED  BY <1>1, <4>1, <5>2, FS_EmptySet DEF Empty
      <4>2. CASE points # NoPoints
        BY <4>2 DEF Tallied
      <4>. QED  BY <4>1, <4>2
    <3>2. /\ Cardinality(With(b, v)) \in Nat
          /\ p[b] = v => Cardinality(With(b, v)') = Cardinality(With(b, v)) + 1
          /\ p[b] # v => Cardinality(With(b, v)') = Cardinality(With(b, v))
      BY <1>1, OneMore
    <3>3. stream'[b] = IF p[b] = Absent THEN stream[b] ELSE [stream[b] EXCEPT ![p[b]] = @ + 1]
      BY <1>1
    <3>4. stream[b] \in [Item -> Nat] /\ (p[b] = v => p[b] # Absent)
      BY <1>2, PayloadAssumption DEF Stream, Field
    <3>5. stream'[b][v] = IF p[b] = v THEN stream[b][v] + 1 ELSE stream[b][v]
      BY <3>3, <3>4
    <3>. QED  BY <3>1, <3>2, <3>5
  <2>. QED  BY <2>1, <2>2, <2>3 DEF Tallied
<1>. QED  BY <1>4, <1>5

LEMMA FilterInitially ==
  ASSUME FilterInit
  PROVE  IInv /\ Tallied
<1>1. IInv
  BY Initially DEF FilterInit
<1>2. Point = {}
  BY DEF Point, FilterInit, NoPoints
<1>3. points \in [Payload -> Nat] /\ IsFiniteSet(Point)
  BY <1>2, FS_EmptySet DEF FilterInit, NoPoints
<1>. QED  BY <1>1, <1>3 DEF Tallied, FilterInit

LEMMA FilterInductive ==
  ASSUME IInv, Tallied, [FilterNext]_filterVars
  PROVE  IInv' /\ Tallied'
<1>1. CASE points = NoPoints /\ Next /\ UNCHANGED points
  <2>1. IInv'
    BY <1>1, Inductive
  <2>2. Point' = Point /\ points' = points
    BY <1>1 DEF Point
  <2>3. points' \in [Payload -> Nat] /\ IsFiniteSet(Point') /\ points' = NoPoints'
    BY <1>1, <2>2 DEF Tallied, NoPoints
  <2>. QED  BY <2>1, <2>3 DEF Tallied
<1>2. CASE Search \/ UNCHANGED filterVars
  <2>1. UNCHANGED vars /\ points' = points
    BY <1>2 DEF Search, filterVars
  <2>2. IInv'
    BY <2>1, Inductive
  <2>3. Point' = Point /\ NoPoints' = NoPoints
    BY <2>1 DEF Point, NoPoints
  <2>4. Tallied'
    BY <2>1, <2>3 DEF Tallied, With, vars
  <2>. QED  BY <2>2, <2>4
<1>3. CASE \E p \in Payload : Index(p)
  BY <1>3, IndexHolds
<1>. QED  BY <1>1, <1>2, <1>3 DEF FilterNext

LEMMA FilterInvariance == FilterSpec => [](IInv /\ Tallied)
<1>1. FilterInit => IInv /\ Tallied
  BY FilterInitially
<1>2. (IInv /\ Tallied) /\ [FilterNext]_filterVars => (IInv /\ Tallied)'
  BY FilterInductive
<1>. QED  BY <1>1, <1>2, PTL DEF FilterSpec

----------------------------------------------------------------------------
(* Filters.                                                                *)

LEMMA ValueWithinBound ==
  ASSUME IInv, Tallied, points # NoPoints, NEW indexed \in SUBSET Field, NEW b \in Field, NEW v \in Item
  PROVE  BoundValue(indexed, b, v) \in Nat /\ Cardinality(With(b, v)) <= BoundValue(indexed, b, v)
<1>1. Total \in Nat /\ Cardinality(With(b, v)) \in Nat /\ Cardinality(With(b, v)) <= Total
  <2>1. IsFiniteSet(Point) /\ With(b, v) \subseteq Point
    BY DEF Tallied, With
  <2>. QED  BY <2>1, FS_Subset, FS_CardinalityType DEF Total
<1>2. CASE b \notin indexed \/ IsSaturated(sketch[b])
  BY <1>1, <1>2 DEF BoundValue
<1>3. CASE ~ (b \notin indexed \/ IsSaturated(sketch[b]))
  <2>1. sketch[b] # None /\ stream[b][v] = Cardinality(With(b, v)) /\ b \in Builder
    BY DEF Tallied, Field
  <2>2. Estimate(sketch[b], v) \in Nat /\ Estimate(sketch[b], v) >= Cardinality(With(b, v))
    BY <1>3, <2>1, Undercounted
  <2>. QED  BY <1>1, <1>3, <2>2 DEF BoundValue, Capped
<1>. QED  BY <1>2, <1>3

\* The points that a condition holds of.
Holding(c) == {at \in Point : Holds(c, at[1])}

LEMMA ConditionWithinBound ==
  ASSUME IInv, Tallied, points # NoPoints, NEW indexed \in SUBSET Field, NEW c \in Condition
  PROVE  BoundCondition(indexed, c) \in Nat /\ Cardinality(Holding(c)) <= BoundCondition(indexed, c)
<1>1. IsFiniteSet(Point) /\ Holding(c) \subseteq Point
  BY DEF Tallied, Holding
<1>2. Total \in Nat /\ Cardinality(Holding(c)) <= Total
  BY <1>1, FS_Subset, FS_CardinalityType DEF Total
<1>3. CASE c.kind = "unbounded"
  BY <1>2, <1>3 DEF BoundCondition
<1>4. CASE c.kind # "unbounded"
  <2>. DEFINE n == Len(c.values)
              bounds == [i \in DOMAIN c.values |-> BoundValue(indexed, c.field, c.values[i])]
              part == [i \in 1 .. n |-> With(c.field, c.values[i])]
  <2>1. c.field \in Field /\ c.values \in Seq(Item)
    BY <1>4 DEF Condition, Unbounded
  <2>2. n \in Nat /\ DOMAIN c.values = 1 .. n /\ \A i \in 1 .. n : c.values[i] \in Item
    BY <2>1, ElementOfSeq, LenProperties
  <2>3. \A i \in 1 .. n :
          /\ BoundValue(indexed, c.field, c.values[i]) \in Nat
          /\ Cardinality(With(c.field, c.values[i])) <= BoundValue(indexed, c.field, c.values[i])
    BY <2>1, <2>2, ValueWithinBound
  <2>4. bounds \in Seq(Nat) /\ Len(bounds) = n
    BY <2>2, <2>3, IsASeq, LenProperties
  <2>5. \A i \in 1 .. Len(bounds) : part[i] \in SUBSET Point /\ Cardinality(part[i]) <= bounds[i]
    BY <2>2, <2>3, <2>4 DEF With
  <2>6. Sum(bounds) \in Nat /\ Cardinality(UNION {part[i] : i \in 1 .. n}) <= Sum(bounds)
    <3>. HIDE DEF bounds, part, n
    <3>. QED  BY <1>1, <2>4, <2>5, UnionWithinSum
  <2>7. Holding(c) = UNION {part[i] : i \in 1 .. n}
    <3>1. \A at \in Point : at \in Holding(c) <=> \E i \in 1 .. n : at[1][c.field] = c.values[i]
      BY <1>4, <2>2 DEF Holding, Holds, Range
    <3>2. \A at \in Point : \A i \in 1 .. n : at \in part[i] <=> at[1][c.field] = c.values[i]
      BY DEF With
    <3>3. \A i \in 1 .. n : part[i] \subseteq Point
      BY DEF With
    <3>4. Holding(c) \subseteq Point
      BY DEF Holding
    <3>. HIDE DEF part, n
    <3>5. ASSUME NEW at PROVE at \in Holding(c) <=> at \in UNION {part[i] : i \in 1 .. n}
      BY <3>1, <3>2, <3>3, <3>4
    <3>. QED  BY <3>5
  <2>8. BoundCondition(indexed, c) = Sum(bounds)
    BY <1>4 DEF BoundCondition
  <2>. QED  BY <2>6, <2>7, <2>8
<1>. QED  BY <1>3, <1>4

LEMMA MatchesWithinBound ==
  ASSUME IInv, Tallied, points # NoPoints, NEW indexed \in SUBSET Field, NEW f \in Filter
  PROVE  /\ Matches(f) \in Nat /\ BoundMatches(indexed, f) \in Nat /\ Total \in Nat
         /\ Matches(f) <= BoundMatches(indexed, f)
<1>. DEFINE bounds(conditions) == [i \in DOMAIN conditions |-> BoundCondition(indexed, conditions[i])]
            T == {Total} \cup Range(bounds(f.must)) \cup (IF f.should = <<>> THEN {} ELSE {Sum(bounds(f.should))})
<1>1. IsFiniteSet(Point) /\ Matching(f) \subseteq Point
  BY DEF Tallied, Matching
<1>2. Total \in Nat /\ Matches(f) \in Nat /\ Matches(f) <= Total
  BY <1>1, FS_Subset, FS_CardinalityType DEF Total, Matches
<1>3. f.must \in Seq(Condition) /\ f.should \in Seq(Condition)
  BY FilterAssumption
<1>4. ASSUME NEW x \in Range(bounds(f.must)) PROVE x \in Nat /\ Matches(f) <= x
  <2>1. PICK i \in DOMAIN f.must : x = BoundCondition(indexed, f.must[i])
    BY <1>4 DEF Range
  <2>2. f.must[i] \in Condition /\ f.must[i] \in Range(f.must)
    BY <1>3, <2>1, ElementOfSeq, LenProperties DEF Range
  <2>3. x \in Nat /\ Cardinality(Holding(f.must[i])) <= x
    BY <2>1, <2>2, ConditionWithinBound
  <2>4. Matching(f) \subseteq Holding(f.must[i]) /\ Holding(f.must[i]) \subseteq Point
    BY <2>2 DEF Matching, Holding
  <2>5. IsFiniteSet(Holding(f.must[i])) /\ Cardinality(Matching(f)) <= Cardinality(Holding(f.must[i]))
    BY <1>1, <2>4, FS_Subset
  <2>6. Cardinality(Holding(f.must[i])) \in Nat
    BY <2>5, FS_CardinalityType
  <2>. QED  BY <1>2, <2>3, <2>5, <2>6 DEF Matches
<1>5. ASSUME f.should # <<>> PROVE Sum(bounds(f.should)) \in Nat /\ Matches(f) <= Sum(bounds(f.should))
  <2>. DEFINE n == Len(f.should)
              sums == bounds(f.should)
              part == [i \in 1 .. n |-> Holding(f.should[i])]
  <2>1. n \in Nat /\ DOMAIN f.should = 1 .. n /\ \A i \in 1 .. n : f.should[i] \in Condition
    BY <1>3, ElementOfSeq, LenProperties
  <2>2. \A i \in 1 .. n :
          /\ BoundCondition(indexed, f.should[i]) \in Nat
          /\ Cardinality(Holding(f.should[i])) <= BoundCondition(indexed, f.should[i])
    BY <2>1, ConditionWithinBound
  <2>3. sums \in Seq(Nat) /\ Len(sums) = n
    BY <2>1, <2>2, IsASeq, LenProperties
  <2>4. \A i \in 1 .. Len(sums) : part[i] \in SUBSET Point /\ Cardinality(part[i]) <= sums[i]
    BY <2>1, <2>2, <2>3 DEF Holding
  <2>. DEFINE all == UNION {part[i] : i \in 1 .. n}
  <2>5. Sum(sums) \in Nat /\ Cardinality(all) <= Sum(sums)
    <3>. HIDE DEF sums, part, n
    <3>. QED  BY <1>1, <2>3, <2>4, UnionWithinSum
  <2>6. Matching(f) \subseteq all /\ all \subseteq Point
    <3>1. \A at \in Matching(f) : \E i \in 1 .. n : at \in Holding(f.should[i])
      BY <1>5, <2>1 DEF Matching, Holding, Range
    <3>. QED  BY <3>1 DEF Holding
  <2>. HIDE DEF all
  <2>7. IsFiniteSet(all) /\ Cardinality(Matching(f)) <= Cardinality(all)
    BY <1>1, <2>6, FS_Subset
  <2>8. Cardinality(all) \in Nat
    BY <2>7, FS_CardinalityType
  <2>9. Matches(f) <= Sum(sums)
    BY <1>2, <2>5, <2>7, <2>8 DEF Matches
  <2>. QED  BY <2>5, <2>9
<1>6. BoundMatches(indexed, f) = Min(T)
  BY DEF BoundMatches
<1>7. \A x \in T : x \in Nat /\ Matches(f) <= x
  BY <1>2, <1>4, <1>5
<1>8. T \in SUBSET Nat /\ T # {}
  BY <1>7
<1>. HIDE DEF T
<1>9. Min(T) \in T
  BY <1>8, MinExists
<1>. QED  BY <1>2, <1>6, <1>7, <1>9

\* A filter recommended to run first leaves no more points than the budget
\* it was recommended for, whatever was indexed, collides or has saturated
\* (choose_strategy).
THEOREM PreFiltersFit == FilterSpec => []PreFilterFits
<1>1. IInv /\ Tallied => PreFilterFits
  <2>. SUFFICES ASSUME IInv, Tallied, points # NoPoints, NEW f \in Filter, NEW indexed \in SUBSET Field,
                       NEW maxPoints \in 0 .. MaxRows, NEW fraction \in Fraction,
                       PreFilters(indexed, f, maxPoints, fraction)
                PROVE  Matches(f) <= maxPoints \/ Matches(f) * fraction[2] <= Total * fraction[1]
    BY DEF PreFilterFits
  <2>. DEFINE bound == BoundMatches(indexed, f)
              m == Matches(f)
              a == fraction[1]
              b == fraction[2]
              t == Total
  <2>1. m \in Nat /\ bound \in Nat /\ t \in Nat /\ m <= bound
    BY MatchesWithinBound
  <2>2. a \in Nat /\ b \in Nat /\ maxPoints \in Nat
    BY FractionAssumption, LimitAssumption
  <2>3. bound <= maxPoints \/ bound * b <= t * a
    BY DEF PreFilters
  <2>. HIDE DEF bound, m, a, b, t
  <2>4. m * b <= bound * b
    BY <2>1, <2>2, Z3
  <2>5. m * b \in Nat /\ bound * b \in Nat /\ t * a \in Nat
    BY <2>1, <2>2, Z3
  <2>6. m <= maxPoints \/ m * b <= t * a
    BY <2>1, <2>2, <2>3, <2>4, <2>5
  <2>. QED  BY <2>6 DEF m, a, b, t
<1>. QED  BY FilterInvariance, <1>1, PTL

\* The sketches of a collection's fields keep their promises as well.
THEOREM SoundBeside == FilterSpec => [](NeverUndercounts /\ CountMinDegreeSound)
<1>1. IInv => NeverUndercounts /\ CountMinDegreeSound
  BY Undercounted, DegreesHold DEF NeverUndercounts
<1>. QED  BY FilterInvariance, <1>1, PTL
=============================================================================
