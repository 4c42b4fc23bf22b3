------------------------ MODULE TableProviderProofs ------------------------
(***************************************************************************)
(* What a scan publishes is never below what the inner provider reported,  *)
(* belongs to the columns it is published for, and passes as exact only    *)
(* where nothing was corrected: for every table, snapshot, projection and  *)
(* history of overrides, bindings and changes of the table.                *)
(***************************************************************************)
EXTENDS Corpus, WellFoundedInduction, TLAPS

----------------------------------------------------------------------------
(* Bounds of sets.                                                         *)

\* A set of naturals has a smallest element, and Min is it.
LEMMA MinExists ==
  ASSUME NEW T \in SUBSET Nat, T # {}
  PROVE  Min(T) \in T /\ \A y \in T : Min(T) <= y
<1>1. \E x \in T : \A y \in T : ~ (<<y, x>> \in OpToRel(<, Nat))
  BY NatLessThanWellFounded, WFMin
<1>2. PICK x \in T : \A y \in T : ~ (<<y, x>> \in OpToRel(<, Nat))
  BY <1>1
<1>3. \A y \in T : x <= y
  <2>. SUFFICES ASSUME NEW y \in T PROVE x <= y
    OBVIOUS
  <2>1. ~(y < x)
    BY <1>2 DEF OpToRel
  <2>. QED  BY <2>1
<1>. QED  BY <1>3 DEF Min

\* A bounded set of naturals has a largest element, and Max is it.
LEMMA MaxExists ==
  ASSUME NEW m \in Nat, NEW T \in SUBSET (0 .. m), T # {}
  PROVE  Max(T) \in T /\ \A y \in T : y <= Max(T)
<1>. DEFINE U == {m - x : x \in T}
<1>1. U \in SUBSET Nat /\ U # {}
  <2>1. \A x \in T : m - x \in Nat
    OBVIOUS
  <2>2. \E x : x \in T
    OBVIOUS
  <2>. QED  BY <2>1, <2>2
<1>2. Min(U) \in U /\ \A y \in U : Min(U) <= y
  BY <1>1, MinExists
<1>3. PICK x \in T : Min(U) = m - x
  BY <1>2
<1>4. \A y \in T : y <= x
  <2>. SUFFICES ASSUME NEW y \in T PROVE y <= x
    OBVIOUS
  <2>1. m - y \in U
    OBVIOUS
  <2>2. m - x <= m - y
    BY <1>2, <1>3, <2>1
  <2>. QED  BY <2>2
<1>5. \E z \in T : \A y \in T : z >= y
  BY <1>4
<1>. QED  BY <1>5 DEF Max

----------------------------------------------------------------------------
(* Precision.                                                              *)

\* Any published value: a byte size need not fit a word.
Value == [is : {"absent", "exact", "inexact"}, n : Nat]

\* A count the engine reports is a word, and it is one when it is known.
LEMMA PrecisionTyped ==
  /\ Precision \subseteq Value
  /\ \A p \in Precision : p.n \in 0 .. MaxU64 /\ (p.is = "absent" => p = Absent)
BY WordAssumption DEF Precision, Value, Absent, Exact, Inexact

\* Native statistics are of the table's columns.
LEMMA NativeTyped ==
  ASSUME NEW s \in NativeStatistics
  PROVE  s.rows \in Precision /\ s.bytes \in Value /\ s.distinct \in [Ordinal -> Precision]
<1>1. Absent \in Precision /\ Absent \in Value
  BY DEF Precision, Value, Absent
<1>2. CASE s = NewUnknown
  BY <1>1, <1>2 DEF NewUnknown
<1>3. CASE s # NewUnknown
  <2>1. PICK r \in Precision \ {Absent}, d \in Precision :
          s = [rows |-> r, bytes |-> IF r.is = "exact" THEN Exact(8 * r.n) ELSE Absent,
               distinct |-> [i \in Ordinal |-> d]]
    BY <1>3 DEF NativeStatistics
  <2>2. r.n \in Nat
    BY PrecisionTyped DEF Value
  <2>3. Exact(8 * r.n) \in Value
    BY <2>2 DEF Exact, Value
  <2>. QED  BY <1>1, <2>1, <2>3
<1>. QED  BY <1>2, <1>3

\* The larger of one or two naturals.
LEMMA MaxOfTwo ==
  ASSUME NEW m \in Nat, NEW n \in Nat
  PROVE  /\ Max({m, n}) \in {m, n} /\ Max({m, n}) >= m /\ Max({m, n}) >= n
         /\ Max({m}) = m
<1>1. /\ {m, n} \in SUBSET (0 .. (m + n)) /\ {m, n} # {} /\ m + n \in Nat
      /\ {m} \in SUBSET (0 .. m) /\ {m} # {}
  OBVIOUS
<1>2. Max({m, n}) \in {m, n} /\ \A y \in {m, n} : y <= Max({m, n})
  BY <1>1, MaxExists
<1>3. Max({m}) \in {m}
  BY <1>1, MaxExists
<1>. QED  BY <1>2, <1>3

\* pick_max_usize never goes below either side, and leaves the base alone
\* only where it calls it inexact.
LEMMA PickMaxProperties ==
  ASSUME NEW base \in Precision, NEW n \in OptionU64
  PROVE  LET p == PickMax(base, Translated(n))
         IN  /\ p \in Value
             /\ p.is # "exact"
             /\ base # Absent => p # Absent /\ p.n >= base.n
             /\ n # Nothing => p = Inexact(Max({n, base.n}))
<1>. DEFINE o == Translated(n)
            p == PickMax(base, o)
            S == {q.n : q \in {base, o} \ {Absent}}
<1>1. base \in Value /\ base.n \in Nat
  BY PrecisionTyped DEF Value
<1>2. n # Nothing => n \in Nat /\ o = Inexact(n) /\ o # Absent /\ o.n = n
  BY WordAssumption DEF OptionU64, Translated, Inexact, Absent
<1>3. n = Nothing => o = Absent
  BY DEF Translated
<1>4. CASE n # Nothing /\ base # Absent
  <2>1. S = {n, base.n}
    BY <1>2, <1>4
  <2>2. p = Inexact(Max({n, base.n}))
    BY <1>2, <1>4, <2>1 DEF PickMax
  <2>3. Max({n, base.n}) \in Nat /\ Max({n, base.n}) >= base.n
    BY <1>1, <1>2, <1>4, MaxOfTwo
  <2>. QED  BY <1>4, <2>2, <2>3 DEF Inexact, Absent, Value
<1>5. CASE n # Nothing /\ base = Absent
  <2>1. S = {n}
    BY <1>2, <1>5
  <2>2. p = Inexact(Max({n}))
    BY <1>2, <1>5, <2>1 DEF PickMax
  <2>3. Max({n}) = n /\ n \in Nat /\ base.n = 0
    BY <1>2, <1>5, MaxOfTwo DEF Absent
  <2>4. Max({n, base.n}) = n
    <3>1. Max({n, 0}) \in {n, 0} /\ Max({n, 0}) >= n
      BY <2>3, MaxOfTwo
    <3>. QED  BY <2>3, <3>1
  <2>. QED  BY <1>5, <2>2, <2>3, <2>4 DEF Inexact, Value
<1>6. CASE n = Nothing /\ base # Absent
  <2>1. S = {base.n}
    BY <1>3, <1>6
  <2>2. p = Inexact(base.n)
    BY <1>1, <1>3, <1>6, <2>1, MaxOfTwo DEF PickMax
  <2>. QED  BY <1>1, <1>6, <2>2 DEF Inexact, Absent, Value
<1>7. CASE n = Nothing /\ base = Absent
  BY <1>3, <1>7 DEF PickMax, Absent, Value
<1>. QED  BY <1>4, <1>5, <1>6, <1>7

----------------------------------------------------------------------------
(* The invariant.                                                          *)

\* A bound column carries the distinct count its field has in the snapshot.
Bindings ==
  \A i \in Ordinal : bound[i] # Nothing =>
    /\ i \in DOMAIN overrides /\ bound[i] \in DOMAIN Portable
    /\ overrides[i].distinct = Portable[bound[i]] /\ Portable[bound[i]] # Nothing

Building ==
  /\ native \in NativeStatistics /\ built \in BOOLEAN
  /\ DOMAIN overrides \subseteq 0 .. Columns
  /\ \A i \in DOMAIN overrides : overrides[i] \in ColumnStats
  /\ bound \in [Ordinal -> Field \cup {Nothing}]
  /\ Bindings

Scanned ==
  /\ scan.rows \in Value /\ scan.bytes \in Value /\ Range(scan.distinct) \subseteq Value
  /\ MemoryMonotone /\ DistinctCountsAreOfTheirColumns /\ ExactIsNative

IInv == Building /\ Scanned /\ inner \in Precision

LEMMA Initially == Init => IInv
<1>. SUFFICES ASSUME Init PROVE IInv
  OBVIOUS
<1>1. Building
  BY DEF Init, Building, Bindings
<1>2. scan = NoScan
  BY DEF Init
<1>3. Scanned
  <2>1. scan.made = FALSE /\ scan.rows = Absent /\ scan.bytes = Absent /\ scan.distinct = <<>>
    BY <1>2 DEF NoScan
  <2>2. Range(scan.distinct) = {}
    BY <2>1 DEF Range
  <2>. QED  BY <2>1, <2>2 DEF Scanned, MemoryMonotone, DistinctCountsAreOfTheirColumns,
                             ExactIsNative, Absent, Value
<1>. QED  BY <1>1, <1>3 DEF IInv, Init

\* What statistics() answers: of the rows ...
LEMMA RowsAnswered ==
  ASSUME Building
  PROVE  /\ Statistics.rows \in Value /\ Statistics.bytes \in Value
         /\ native.rows # Absent =>
              Statistics.rows # Absent /\ Statistics.rows.n >= native.rows.n
         /\ Statistics.rows.is = "exact" => Statistics.rows = native.rows
         /\ Statistics.bytes.is = "exact" =>
              Statistics.bytes = native.bytes /\ Statistics.rows = native.rows
<1>. DEFINE rc == IF OverrideRowCounts = {} THEN Nothing ELSE Max(OverrideRowCounts)
<1>1. native.rows \in Precision /\ native.rows \in Value /\ native.bytes \in Value
  BY NativeTyped, PrecisionTyped DEF Building
<1>2. OverrideRowCounts \in SUBSET (0 .. MaxU64)
  BY DEF OverrideRowCounts, Building, ColumnStats, OptionU64
<1>3. rc = Nothing \/ rc \in Nat
  <2>1. OverrideRowCounts # {} => Max(OverrideRowCounts) \in OverrideRowCounts
    BY <1>2, WordAssumption, MaxExists
  <2>2. OverrideRowCounts \subseteq Nat
    BY <1>2, WordAssumption
  <2>. QED  BY <2>1, <2>2
<1>4. CASE rc = Nothing
  <2>1. Statistics.rows = native.rows /\ Statistics.bytes = native.bytes
    BY <1>4 DEF Statistics
  <2>. QED  BY <1>1, <2>1 DEF Value
<1>5. CASE rc # Nothing
  <2>1. Statistics.rows = GuardedRows(rc, native.rows)
        /\ Statistics.bytes = Relaxed(native.bytes)
    BY <1>5 DEF Statistics
  <2>2. rc \in Nat /\ native.rows.n \in Nat /\ native.bytes.n \in Nat
    BY <1>1, <1>3, <1>5 DEF Value
  <2>3. /\ Max({rc, native.rows.n}) \in Nat
        /\ Max({rc, native.rows.n}) >= native.rows.n
    BY <2>2, MaxOfTwo
  <2>4. /\ Statistics.rows \in Value /\ Statistics.rows.is = "inexact"
        /\ native.rows # Absent =>
             Statistics.rows # Absent /\ Statistics.rows.n >= native.rows.n
    BY <2>1, <2>2, <2>3 DEF GuardedRows, Inexact, Absent, Value
  <2>5. Statistics.bytes \in Value /\ Statistics.bytes.is # "exact"
    BY <2>1, <2>2 DEF Relaxed, Inexact, Absent, Value
  <2>. QED  BY <2>4, <2>5
<1>. QED  BY <1>4, <1>5

\* ... and of a column.
LEMMA ColumnAnswered ==
  ASSUME Building, NEW i \in Ordinal
  PROVE  LET p == Statistics.distinct[i]
             own == native.distinct[i]
         IN  /\ p \in Value
             /\ own # Absent => p # Absent /\ p.n >= own.n
             /\ p.is = "exact" => p = own
             /\ bound[i] # Nothing => p = Inexact(Max({Portable[bound[i]], own.n}))
             /\ i \notin DOMAIN overrides => p = own
<1>. DEFINE p == Statistics.distinct[i]
            own == native.distinct[i]
<1>1. own \in Precision /\ own \in Value /\ own.n \in Nat
  BY NativeTyped, PrecisionTyped DEF Building, Value
<1>2. CASE i \in DOMAIN overrides
  <2>. DEFINE n == overrides[i].distinct
  <2>1. n \in OptionU64
    BY <1>2 DEF Building, ColumnStats
  <2>2. p = PickMax(own, Translated(n))
    BY <1>2 DEF Statistics, MergeColumnStats
  <2>3. /\ p \in Value /\ p.is # "exact"
        /\ own # Absent => p # Absent /\ p.n >= own.n
        /\ n # Nothing => p = Inexact(Max({n, own.n}))
    BY <1>1, <2>1, <2>2, PickMaxProperties
  <2>4. bound[i] # Nothing => n = Portable[bound[i]] /\ n # Nothing
    BY DEF Building, Bindings
  <2>. QED  BY <1>2, <2>3, <2>4
<1>3. CASE i \notin DOMAIN overrides
  <2>1. p = own
    BY <1>3 DEF Statistics
  <2>2. bound[i] = Nothing
    BY <1>3 DEF Building, Bindings
  <2>. QED  BY <1>1, <1>3, <2>1, <2>2
<1>. QED  BY <1>2, <1>3

\* A scan publishes those answers for the columns it emits.
LEMMA ScanStep ==
  ASSUME Building, NEW projection \in Projections, Scan(projection)
  PROVE  Scanned'
<1>. DEFINE stats == OutputStatistics(projection)
<1>1. projection \in [1 .. Len(projection) -> Ordinal]
  BY ProjectionsAssumption
<1>2. /\ stats.rows = Statistics.rows /\ stats.bytes = Statistics.bytes
      /\ stats.distinct = [k \in 1 .. Len(projection) |-> Statistics.distinct[projection[k]]]
  BY DEF OutputStatistics, Project, Statistics
<1>3. /\ scan'.made /\ scan'.rows = Statistics.rows /\ scan'.bytes = Statistics.bytes
      /\ scan'.distinct = stats.distinct /\ scan'.projection = projection
      /\ scan'.native = native /\ scan'.bound = bound /\ scan'.overrides = overrides
  BY <1>2 DEF Scan
<1>4. \A k \in DOMAIN scan'.distinct :
        /\ scan'.projection[k] \in Ordinal
        /\ scan'.distinct[k] = Statistics.distinct[scan'.projection[k]]
  BY <1>1, <1>2, <1>3
<1>5. Range(scan'.distinct) \subseteq Value
  <2>1. \A k \in DOMAIN scan'.distinct : scan'.distinct[k] \in Value
    BY <1>4, ColumnAnswered
  <2>. QED  BY <2>1 DEF Range
<1>6. MemoryMonotone'
  <2>1. native.rows # Absent => scan'.rows # Absent /\ scan'.rows.n >= native.rows.n
    BY <1>3, RowsAnswered
  <2>2. ASSUME NEW k \in DOMAIN scan'.distinct, native.distinct[scan'.projection[k]] # Absent
        PROVE  /\ scan'.distinct[k] # Absent
               /\ scan'.distinct[k].n >= native.distinct[scan'.projection[k]].n
    BY <1>4, <2>2, ColumnAnswered
  <2>3. scan'.native = native
    BY <1>3
  <2>4. Known(native.rows) => Known(scan'.rows) /\ scan'.rows.n >= native.rows.n
    BY <2>1 DEF Known
  <2>5. \A k \in DOMAIN scan'.distinct :
          Known(native.distinct[scan'.projection[k]]) =>
            Known(scan'.distinct[k]) /\ scan'.distinct[k].n >= native.distinct[scan'.projection[k]].n
    BY <2>2 DEF Known
  <2>. QED  BY <2>3, <2>4, <2>5 DEF MemoryMonotone
<1>7. DistinctCountsAreOfTheirColumns'
  <2>1. scan'.native = native /\ scan'.bound = bound /\ scan'.overrides = overrides
    BY <1>3
  <2>2. ASSUME NEW k \in DOMAIN scan'.distinct
        PROVE  LET i == scan'.projection[k]
               IN  IF bound[i] # Nothing
                   THEN scan'.distinct[k] = Inexact(Max({Portable[bound[i]], native.distinct[i].n}))
                   ELSE i \notin DOMAIN overrides => scan'.distinct[k] = native.distinct[i]
    <3>. DEFINE i == scan'.projection[k]
    <3>1. i \in Ordinal /\ scan'.distinct[k] = Statistics.distinct[i]
      BY <1>4
    <3>. HIDE DEF i
    <3>2. bound[i] # Nothing => scan'.distinct[k] = Inexact(Max({Portable[bound[i]], native.distinct[i].n}))
      BY <3>1, ColumnAnswered
    <3>3. i \notin DOMAIN overrides => scan'.distinct[k] = native.distinct[i]
      BY <3>1, ColumnAnswered
    <3>. QED  BY <3>2, <3>3 DEF i
  <2>. QED  BY <2>1, <2>2 DEF DistinctCountsAreOfTheirColumns
<1>8. ExactIsNative'
  <2>1. scan'.native = native /\ scan'.rows = Statistics.rows /\ scan'.bytes = Statistics.bytes
    BY <1>3
  <2>2. \A k \in DOMAIN scan'.distinct :
          scan'.distinct[k].is = "exact" => scan'.distinct[k] = native.distinct[scan'.projection[k]]
    BY <1>4, ColumnAnswered
  <2>. QED  BY <2>1, <2>2, RowsAnswered DEF ExactIsNative
<1>. QED  BY <1>3, <1>5, <1>6, <1>7, <1>8, RowsAnswered DEF Scanned

\* An override is inserted, and the column is bound to a field or to none.
LEMMA InsertStep ==
  ASSUME Building, NEW i \in 0 .. Columns, NEW stats \in ColumnStats, NEW f \in Field \cup {Nothing},
         overrides' = Insert(overrides, i, stats),
         bound' = IF i \in Ordinal THEN [bound EXCEPT ![i] = f] ELSE bound,
         f # Nothing =>
           f \in DOMAIN Portable /\ stats.distinct = Portable[f] /\ Portable[f] # Nothing,
         native' = native, built' = built
  PROVE  Building'
<1>1. /\ DOMAIN overrides' = DOMAIN overrides \cup {i} /\ overrides'[i] = stats
      /\ \A j \in DOMAIN overrides : j # i => overrides'[j] = overrides[j]
  BY DEF Insert
<1>2. DOMAIN overrides' \subseteq 0 .. Columns /\ \A j \in DOMAIN overrides' : overrides'[j] \in ColumnStats
  BY <1>1 DEF Building
<1>3. bound' \in [Ordinal -> Field \cup {Nothing}]
  BY DEF Building
<1>4. Bindings'
  <2>. SUFFICES ASSUME NEW j \in Ordinal, bound'[j] # Nothing
                PROVE  /\ j \in DOMAIN overrides' /\ bound'[j] \in DOMAIN Portable
                       /\ overrides'[j].distinct = Portable[bound'[j]]
                       /\ Portable[bound'[j]] # Nothing
    BY DEF Bindings
  <2>1. CASE j = i
    <3>1. bound'[j] = f
      BY <2>1 DEF Building
    <3>. QED  BY <1>1, <2>1, <3>1
  <2>2. CASE j # i
    <3>1. bound'[j] = bound[j]
      BY <2>2 DEF Building
    <3>. QED  BY <1>1, <2>2, <3>1 DEF Building, Bindings
  <2>. QED  BY <2>1, <2>2
<1>. QED  BY <1>2, <1>3, <1>4 DEF Building

LEMMA ProviderStep ==
  ASSUME Building, Scanned, [Next]_vars
  PROVE  Building' /\ Scanned'
<1>0. ASSUME scan' = scan PROVE Scanned'
  BY <1>0 DEF Scanned, MemoryMonotone, DistinctCountsAreOfTheirColumns, ExactIsNative
<1>1. ASSUME NEW i \in 0 .. Columns, NEW stats \in Overrides, WithColumnStats(i, stats)
      PROVE  Building' /\ Scanned'
  <2>1. stats \in ColumnStats
    BY OverridesAssumption
  <2>2. Building'
    BY <1>1, <2>1, InsertStep DEF WithColumnStats
  <2>. QED  BY <1>0, <1>1, <2>2 DEF WithColumnStats
<1>2. ASSUME NEW f \in Field, NEW i \in 0 .. Columns, TryWithPortableStats(f, i)
      PROVE  Building' /\ Scanned'
  <2>. DEFINE stats == [NoOverride EXCEPT !.distinct = IF f \in DOMAIN Portable THEN Portable[f] ELSE Nothing]
  <2>1. native' = native /\ inner' = inner /\ scan' = scan
    BY <1>2 DEF TryWithPortableStats
  <2>2. CASE f > 0 /\ i < Columns /\ HasPlannerStats(stats)
    <3>1. /\ overrides' = Insert(overrides, i, stats) /\ bound' = [bound EXCEPT ![i] = f]
          /\ built' = built
      BY <1>2, <2>2 DEF TryWithPortableStats
    <3>2. i \in Ordinal
      BY <2>2, ColumnsAssumption DEF Ordinal
    <3>3. stats = [rows |-> Nothing, distinct |-> IF f \in DOMAIN Portable THEN Portable[f] ELSE Nothing]
      BY DEF NoOverride
    <3>4. f \in DOMAIN Portable /\ stats.distinct = Portable[f] /\ Portable[f] # Nothing
      BY <2>2, <3>3 DEF HasPlannerStats, NoOverride
    <3>5. stats \in ColumnStats
      BY <3>3, <3>4, PortableAssumption DEF ColumnStats, OptionU64
    <3>6. Building'
      BY <2>1, <3>1, <3>2, <3>4, <3>5, InsertStep
    <3>. QED  BY <1>0, <2>1, <3>6
  <2>3. CASE ~(f > 0 /\ i < Columns /\ HasPlannerStats(stats))
    <3>1. built' = FALSE /\ overrides' = overrides /\ bound' = bound
      BY <1>2, <2>3 DEF TryWithPortableStats
    <3>. QED  BY <1>0, <2>1, <3>1 DEF Building, Bindings
  <2>. QED  BY <2>2, <2>3
<1>3. ASSUME NEW projection \in Projections, Scan(projection) PROVE Building' /\ Scanned'
  <2>1. Building'
    BY <1>3 DEF Scan, Building, Bindings
  <2>. QED  BY <1>3, <2>1, ScanStep DEF Scan
<1>4. CASE Change
  BY <1>0, <1>4 DEF Change, Building, Bindings
<1>5. CASE UNCHANGED vars
  BY <1>0, <1>5 DEF vars, Building, Bindings
<1>. QED  BY <1>1, <1>2, <1>3, <1>4, <1>5 DEF Next

LEMMA Invariance == IInv /\ [Next]_vars => IInv'
<1>. SUFFICES ASSUME IInv, [Next]_vars PROVE inner' \in Precision
  BY ProviderStep DEF IInv
<1>. QED  BY DEF IInv, Next, vars, WithColumnStats, TryWithPortableStats, Scan, Change

LEMMA Invariant == Spec => []IInv
BY Initially, Invariance, PTL DEF Spec

----------------------------------------------------------------------------

\* Overrides are words or nothing, bindings are of fields, and what a scan
\* publishes is a count.
THEOREM Typed == Spec => []TypeOK
<1>1. IInv => TypeOK
  BY DEF IInv, Building, Scanned, TypeOK, Value
<1>. QED  BY <1>1, Invariant, PTL

\* A scan never publishes fewer rows or distinct values than the inner
\* provider reported when it was planned: statistics() and merge_column_stats.
THEOREM NeverBelowNative == Spec => []MemoryMonotone
<1>1. IInv => MemoryMonotone
  BY DEF IInv, Scanned
<1>. QED  BY <1>1, Invariant, PTL

\* A field's distinct count is published for the column it was bound to, and
\* for no other, through every projection: try_with_portable_stats and scan.
THEOREM FieldsAreNotOrdinals == Spec => []DistinctCountsAreOfTheirColumns
<1>1. IInv => DistinctCountsAreOfTheirColumns
  BY DEF IInv, Scanned
<1>. QED  BY <1>1, Invariant, PTL

\* Nothing that was corrected passes as exact: statistics().
THEOREM CorrectedIsInexact == Spec => []ExactIsNative
<1>1. IInv => ExactIsNative
  BY DEF IInv, Scanned
<1>. QED  BY <1>1, Invariant, PTL

----------------------------------------------------------------------------
(* The files of a corpus.                                                  *)

SidecarState ==
  [rows : OptionU64, distinct : {None} \cup [Ordinal -> 0 .. MaxU64], footer : BOOLEAN, exists : BOOLEAN]

\* What a sidecar says of the contents it was built from.
Told(v) == Whole(v, IF Imdb THEN v.rows ELSE Nothing)

\* The sidecar of a table is the one of the file a build would read.
Healed(t) == BuildSource(t) # None => BuildSource(t) \in Version /\ sidecar[t] = Told(BuildSource(t))

FilesTyped ==
  /\ corpus \in {"none", "csv", "parquet", "tpch", "synthetic"} /\ intact \in BOOLEAN
  /\ csv \in [Table -> File] /\ parquet \in [Table -> File] /\ sub \in [Table -> Version \cup {None}]
  /\ corpus = "synthetic" => parquet \in [Table -> Version]
  /\ corpus = "tpch" => ~ intact
  /\ sidecar \in [Table -> SidecarState]

\* A footer is written last: behind one there is one state of the table.
FooterLast == \A t \in Table : sidecar[t].footer => \E v \in Version : sidecar[t] = Told(v)

Command ==
  [name : {"convert", "build"}, at : Nat, step : {"none", "scanned", "created", "collected", "marked"}, failed : BOOLEAN]

\* Where a command is, and what it has done.
Walking ==
  command # Idle =>
    /\ context = Unmade /\ command.at \in 1 .. Len(Tables) + 1 /\ command.failed \in BOOLEAN
    /\ command \in Command
    /\ command.name = "convert" => corpus = "parquet"
    /\ command.name = "build" => corpus \in {"csv", "parquet", "synthetic"}
    /\ command.step # "none" => command.at \in DOMAIN Tables
    /\ command.step \in {"created", "collected", "marked"} => ~ intact

\* The sidecar under the build's hands.
UnderHands ==
  command.name = "build" /\ command.step # "none" =>
    /\ BuildSource(At) \in Version
    /\ command.step \in {"created", "collected"} => sidecar[At] = [NoSidecar EXCEPT !.exists = TRUE]
    /\ command.step = "marked" => Imdb /\ sidecar[At] = [NoSidecar EXCEPT !.exists = TRUE, !.rows = BuildSource(At).rows]

\* A build that has not failed has healed the tables behind it.
HealedBehind ==
  command.name = "build" /\ ~ command.failed =>
    \A j \in 1 .. command.at - 1 :
      Healed(Tables[j]) \/ (command.step \in {"created", "collected", "marked"} /\ Tables[j] = At)

HealedAll == intact => \A t \in Table : Healed(t)

\* A context is what the files there are make of it.
Registration ==
  corpus # "none" =>
    /\ native = NewUnknown /\ bound = [i \in Ordinal |-> Nothing]
    /\ IF context.status = "registered"
       THEN /\ \E baseline, sidecars \in BOOLEAN : context = BuildContext(baseline, sidecars)
            /\ overrides = context.overrides[Focus] /\ built = (overrides # <<>>)
       ELSE overrides = <<>> /\ built = FALSE /\ scan = NoScan
    /\ scan.made =>
         /\ scan.rows = Statistics.rows
         /\ scan.distinct = [k \in DOMAIN scan.distinct |-> Statistics.distinct[scan.projection[k]]]
         /\ \A k \in DOMAIN scan.distinct : scan.projection[k] \in Ordinal

Bystander == corpus = "none" => context = Unmade /\ command = Idle /\ intact = FALSE

FilesInv == FilesTyped /\ FooterLast /\ Walking /\ UnderHands /\ HealedBehind /\ HealedAll
CorpusInv == Building /\ Scanned /\ FilesInv /\ Registration /\ Bystander

LEMMA CorpusInitially == CorpusInit => CorpusInv
<1>. SUFFICES ASSUME CorpusInit PROVE CorpusInv
  OBVIOUS
<1>1. /\ command = Idle /\ intact = FALSE /\ context = Unmade /\ context.status # "registered"
      /\ command.name = "none" /\ command.step = "none"
  BY DEF CorpusInit, Idle, Unmade
<1>2. Walking /\ UnderHands /\ HealedBehind /\ HealedAll
  BY <1>1 DEF Walking, UnderHands, HealedBehind, HealedAll
<1>3. NoSidecar \in SidecarState /\ [NoSidecar EXCEPT !.exists = TRUE] \in SidecarState
      /\ NoSidecar.footer = FALSE /\ [NoSidecar EXCEPT !.exists = TRUE].footer = FALSE
  BY DEF NoSidecar, SidecarState, OptionU64
<1>4. ASSUME NEW v \in Version PROVE Whole(v, Nothing) \in SidecarState
  BY <1>4, VersionAssumption DEF Whole, SidecarState, OptionU64
<1>5. CASE corpus = "none" /\ Init /\ csv = [t \in Table |-> None] /\ parquet = csv /\ sub = csv
           /\ sidecar = [t \in Table |-> NoSidecar]
  <2>1. FilesTyped /\ FooterLast
    BY <1>1, <1>3, <1>5 DEF FilesTyped, FooterLast, File
  <2>2. Building /\ Scanned
    BY <1>5, Initially DEF IInv
  <2>. QED  BY <1>1, <1>2, <1>5, <2>1, <2>2 DEF CorpusInv, FilesInv, Registration, Bystander
<1>6. CASE corpus # "none"
  <2>1. /\ corpus \in {"csv", "parquet", "tpch", "synthetic"}
        /\ native = NewUnknown /\ overrides = <<>> /\ scan = NoScan
        /\ bound = [i \in Ordinal |-> Nothing] /\ built = FALSE
        /\ csv = [t \in Table |-> None]
        /\ parquet \in (IF corpus = "synthetic" THEN Generated ELSE [Table -> IF corpus = "tpch" THEN Version ELSE {None}])
        /\ sub \in IF corpus = "csv" THEN Legacy ELSE {[t \in Table |-> None]}
        /\ sidecar \in [Table -> IF corpus = "tpch" THEN {NoSidecar, [NoSidecar EXCEPT !.exists = TRUE]} \cup {Whole(v, Nothing) : v \in Version}
                                 ELSE {NoSidecar}]
    BY <1>6 DEF CorpusInit
  <2>2. /\ csv \in [Table -> File] /\ parquet \in [Table -> File] /\ sub \in [Table -> Version \cup {None}]
        /\ corpus = "synthetic" => parquet \in [Table -> Version]
    BY <2>1, LegacyAssumption DEF Generated, File
  <2>3. sidecar \in [Table -> SidecarState]
    <3>1. CASE corpus = "tpch"
      <4>. DEFINE S == {NoSidecar, [NoSidecar EXCEPT !.exists = TRUE]} \cup {Whole(v, Nothing) : v \in Version}
      <4>1. S \subseteq SidecarState
        BY <1>3, <1>4
      <4>2. sidecar \in [Table -> S]
        BY <2>1, <3>1
      <4>. HIDE DEF S
      <4>. QED  BY <4>1, <4>2
    <3>2. CASE corpus # "tpch"
      <4>1. sidecar \in [Table -> {NoSidecar}]
        BY <2>1, <3>2
      <4>. QED  BY <1>3, <4>1
    <3>. QED  BY <3>1, <3>2
  <2>4. FooterLast
    <3>. SUFFICES ASSUME NEW t \in Table, sidecar[t].footer PROVE \E v \in Version : sidecar[t] = Told(v)
      BY DEF FooterLast
    <3>1. corpus = "tpch"
      <4>. SUFFICES ASSUME corpus # "tpch" PROVE FALSE
        OBVIOUS
      <4>1. sidecar \in [Table -> {NoSidecar}]
        BY <2>1
      <4>. QED  BY <1>3, <4>1
    <3>2. sidecar[t] \in {NoSidecar, [NoSidecar EXCEPT !.exists = TRUE]} \cup {Whole(v, Nothing) : v \in Version}
      BY <2>1, <3>1
    <3>3. \E v \in Version : sidecar[t] = Whole(v, Nothing)
      BY <1>3, <3>2
    <3>. QED  BY <3>1, <3>3 DEF Told, Imdb
  <2>5. Scanned
    <3>1. scan.made = FALSE /\ scan.rows = Absent /\ scan.bytes = Absent /\ scan.distinct = <<>>
      BY <2>1 DEF NoScan
    <3>2. Range(scan.distinct) = {}
      BY <3>1 DEF Range
    <3>. QED  BY <3>1, <3>2 DEF Scanned, MemoryMonotone, DistinctCountsAreOfTheirColumns,
                               ExactIsNative, Absent, Value
  <2>6. Building
    <3>0. NewUnknown \in NativeStatistics
      BY DEF NativeStatistics
    <3>1. native \in NativeStatistics /\ built \in BOOLEAN
      BY <2>1, <3>0
    <3>2. DOMAIN overrides = {}
      BY <2>1
    <3>3. bound \in [Ordinal -> Field \cup {Nothing}] /\ \A i \in Ordinal : bound[i] = Nothing
      BY <2>1
    <3>. QED  BY <3>1, <3>2, <3>3 DEF Building, Bindings
  <2>7. Registration
    <3>1. scan.made = FALSE
      BY <2>1 DEF NoScan
    <3>. QED  BY <1>1, <2>1, <3>1 DEF Registration
  <2>. QED  BY <1>1, <1>2, <1>6, <2>1, <2>2, <2>3, <2>4, <2>5, <2>6, <2>7
            DEF CorpusInv, FilesInv, FilesTyped, Bystander
<1>. QED  BY <1>5, <1>6 DEF CorpusInit

----------------------------------------------------------------------------
(* The commands.                                                           *)

\* What a command does to the files leaves the provider and the session alone.
LEMMA OthersStay ==
  ASSUME CorpusInv, UNCHANGED <<vars, corpus, context>>, context = Unmade,
         corpus = "none" => command' = Idle /\ intact' = FALSE
  PROVE  (Building /\ Scanned /\ Registration /\ Bystander)'
<1>1. context.status # "registered"
  BY DEF Unmade
<1>2. Building' /\ Scanned'
  BY DEF CorpusInv, vars, Building, Bindings, Scanned, MemoryMonotone, DistinctCountsAreOfTheirColumns, ExactIsNative
<1>3. Registration'
  <2>1. scan.made = FALSE \/ corpus = "none"
    BY <1>1 DEF CorpusInv, Registration, NoScan
  <2>. QED  BY <1>1, <2>1 DEF CorpusInv, Registration, vars
<1>4. Bystander'
  BY DEF Bystander
<1>. QED  BY <1>2, <1>3, <1>4

\* What a step that leaves the files and the corpus alone keeps of them.
LEMMA FilesStay ==
  ASSUME FilesInv, UNCHANGED <<corpus, files>>
  PROVE  /\ FooterLast' /\ (Imdb' <=> Imdb)
         /\ \A t \in Table : BuildSource(t)' = BuildSource(t) /\ (Healed(t)' <=> Healed(t))
<1>1. Imdb' <=> Imdb
  BY DEF Imdb, files
<1>2. \A t : BuildSource(t)' = BuildSource(t)
  BY DEF BuildSource, files
<1>3. ASSUME NEW v PROVE Told(v)' = Told(v)
  BY <1>1 DEF Told, Whole
<1>4. FooterLast'
  BY <1>3 DEF FilesInv, FooterLast, files
<1>5. ASSUME NEW t \in Table PROVE Healed(t)' <=> Healed(t)
  BY <1>2, <1>3 DEF Healed, files
<1>. QED  BY <1>1, <1>2, <1>4, <1>5

\* A context is a function of the files.
LEMMA SameContext ==
  ASSUME UNCHANGED <<corpus, files>>, NEW baseline, NEW sidecars
  PROVE  BuildContext(baseline, sidecars)' = BuildContext(baseline, sidecars)
BY DEF BuildContext, Probes, ProbesImdb, ProbesTpch, Imdb, Registers, Registered, Wraps, Loads,
       OverridesOf, WrapsImdb, WrapsTpch, WrapsSynthetic, OrElse, ImdbOverrides, TpchOverrides,
       SyntheticOverrides, HardCoded, Override, files

\* A command that runs is at a table, or past the last.
LEMMA Underway ==
  ASSUME CorpusInv, command # Idle
  PROVE  /\ context = Unmade /\ corpus # "none" /\ command \in Command
         /\ command.at \in 1 .. Len(Tables) + 1 /\ Len(Tables) \in Nat /\ DOMAIN Tables = 1 .. Len(Tables)
         /\ \A j \in DOMAIN Tables : Tables[j] \in Table
         /\ command = [name |-> command.name, at |-> command.at, step |-> command.step, failed |-> command.failed]
BY TablesAssumption DEF CorpusInv, FilesInv, Walking, Bystander, Command

\* A command starts, is killed, or gives up.
LEMMA IdleStep ==
  ASSUME CorpusInv, UNCHANGED <<vars, corpus, files, intact, context>>,
         command' = Idle \/ (\E name \in {"convert", "build"} :
           /\ Start(name)
           /\ name = "convert" => corpus = "parquet"
           /\ name = "build" => corpus \notin {"none", "tpch"})
  PROVE  CorpusInv'
<1>1. /\ FooterLast' /\ HealedAll'
  BY FilesStay DEF CorpusInv, FilesInv, HealedAll
<1>2. FilesTyped'
  BY DEF CorpusInv, FilesInv, FilesTyped, files
<1>3. CASE command' = Idle
  <2>1. command'.name = "none"
    BY <1>3 DEF Idle
  <2>2. Walking' /\ UnderHands' /\ HealedBehind'
    BY <1>3, <2>1 DEF Walking, UnderHands, HealedBehind, Idle
  <2>3. (Building /\ Scanned /\ Registration /\ Bystander)'
    <3>1. Building' /\ Scanned'
      BY DEF CorpusInv, vars, Building, Bindings, Scanned, MemoryMonotone, DistinctCountsAreOfTheirColumns, ExactIsNative
    <3>2. Bystander'
      BY <1>3 DEF CorpusInv, Bystander
    <3>3. \A baseline, sidecars \in BOOLEAN :
            BuildContext(baseline, sidecars)' = BuildContext(baseline, sidecars)
      BY SameContext
    <3>4. Statistics' = Statistics
      BY DEF Statistics, OverrideRowCounts, vars
    <3>5. Registration'
      BY <3>3, <3>4 DEF CorpusInv, Registration, vars
    <3>. QED  BY <3>1, <3>2, <3>5
  <2>. QED  BY <1>1, <1>2, <2>2, <2>3 DEF CorpusInv, FilesInv
<1>4. ASSUME NEW name \in {"convert", "build"}, Start(name),
             name = "convert" => corpus = "parquet", name = "build" => corpus \notin {"none", "tpch"}
      PROVE  CorpusInv'
  <2>1. /\ command' = [name |-> name, at |-> 1, step |-> "none", failed |-> FALSE]
        /\ context = Unmade /\ command = Idle
    BY <1>4 DEF Start, Idle
  <2>2. Len(Tables) \in Nat /\ corpus \in {"none", "csv", "parquet", "tpch", "synthetic"}
    BY TablesAssumption DEF CorpusInv, FilesInv, FilesTyped
  <2>3. Walking'
    BY <1>4, <2>1, <2>2 DEF Walking, Command
  <2>4. UnderHands' /\ HealedBehind'
    BY <2>1 DEF UnderHands, HealedBehind
  <2>5. (Building /\ Scanned /\ Registration /\ Bystander)'
    BY <1>4, <2>1, OthersStay
  <2>. QED  BY <1>1, <1>2, <2>3, <2>4, <2>5 DEF CorpusInv, FilesInv
<1>. QED  BY <1>3, <1>4

\* A command goes on without touching a file.
LEMMA SkipStep ==
  ASSUME CorpusInv, ConvertSkips \/ BuildSkips \/ BuildScans \/ (BuildFails /\ Imdb)
  PROVE  CorpusInv'
<1>. DEFINE n == command.name  k == command.at  failed == command.failed
<1>1. /\ UNCHANGED <<vars, corpus, files, intact, context>>
      /\ n \in {"convert", "build"} /\ k \in DOMAIN Tables
  BY DEF ConvertSkips, BuildSkips, BuildScans, BuildFails, Running
<1>2. command # Idle
  BY <1>1 DEF Idle
<1>3. /\ context = Unmade /\ corpus # "none" /\ k \in 1 .. Len(Tables) /\ Len(Tables) \in Nat
      /\ command = [name |-> n, at |-> k, step |-> command.step, failed |-> failed]
      /\ At \in Table
  BY <1>1, <1>2, Underway DEF At
<1>4. /\ failed \in BOOLEAN
      /\ n = "convert" => corpus = "parquet"
      /\ n = "build" => corpus \in {"csv", "parquet", "synthetic"}
  BY <1>2 DEF CorpusInv, FilesInv, Walking
<1>5. /\ FooterLast' /\ HealedAll' /\ (Imdb' <=> Imdb)
      /\ \A t \in Table : BuildSource(t)' = BuildSource(t) /\ (Healed(t)' <=> Healed(t))
  BY <1>1, FilesStay DEF CorpusInv, FilesInv, HealedAll
<1>6. FilesTyped'
  BY <1>1 DEF CorpusInv, FilesInv, FilesTyped, files
<1>7. (Building /\ Scanned /\ Registration /\ Bystander)'
  BY <1>1, <1>3, OthersStay
<1>8. CASE BuildScans
  <2>1. /\ command' = [name |-> "build", at |-> k, step |-> "scanned", failed |-> failed] /\ n = "build"
        /\ BuildSource(At) \in Version /\ command.step = "none"
    BY <1>3, <1>8 DEF BuildScans, Done, Running
  <2>2. Walking'
    <3>1. k \in Nat /\ k \in 1 .. Len(Tables) + 1
      BY <1>3
    <3>. QED  BY <1>1, <1>3, <1>4, <2>1, <3>1 DEF Walking, Command
  <2>3. At' = At
    BY <2>1 DEF At
  <2>4. UnderHands'
    BY <1>3, <1>5, <2>1, <2>3 DEF UnderHands
  <2>5. HealedBehind'
    <3>. SUFFICES ASSUME ~ failed, NEW j \in 1 .. k - 1 PROVE Healed(Tables[j])'
      BY <2>1 DEF HealedBehind
    <3>1. Tables[j] \in Table
      BY <1>2, <1>3, Underway
    <3>2. Healed(Tables[j])
      BY <2>1 DEF CorpusInv, FilesInv, HealedBehind
    <3>. QED  BY <1>5, <3>1, <3>2
  <2>. QED  BY <1>5, <1>6, <1>7, <2>2, <2>4, <2>5 DEF CorpusInv, FilesInv
<1>9. CASE ConvertSkips \/ BuildSkips \/ (BuildFails /\ Imdb)
  <2>1. \E b \in BOOLEAN :
          /\ command' = [name |-> n, at |-> k + 1, step |-> "none", failed |-> b]
          /\ n = "build" /\ ~ b => ~ failed /\ BuildSource(At) = None /\ command.step = "none"
    <3>1. CASE ConvertSkips
      BY <1>3, <1>4, <3>1 DEF ConvertSkips, NextTable, Running
    <3>2. CASE BuildSkips
      BY <1>3, <1>4, <3>2 DEF BuildSkips, NextTable, Running, Builds
    <3>3. CASE BuildFails /\ Imdb
      BY <1>3, <1>4, <3>3 DEF BuildFails, FailsTable
    <3>. QED  BY <1>9, <3>1, <3>2, <3>3
  <2>2. PICK b \in BOOLEAN :
          /\ command' = [name |-> n, at |-> k + 1, step |-> "none", failed |-> b]
          /\ n = "build" /\ ~ b => ~ failed /\ BuildSource(At) = None /\ command.step = "none"
    BY <2>1
  <2>3. Walking'
    <3>1. k + 1 \in Nat /\ k + 1 \in 1 .. Len(Tables) + 1
      BY <1>3
    <3>. QED  BY <1>1, <1>3, <1>4, <2>2, <3>1 DEF Walking, Command
  <2>4. UnderHands'
    BY <2>2 DEF UnderHands
  <2>5. HealedBehind'
    <3>. SUFFICES ASSUME n = "build", ~ b, NEW j \in 1 .. k PROVE Healed(Tables[j])'
      BY <1>3, <2>2 DEF HealedBehind
    <3>1. Tables[j] \in Table
      BY <1>2, <1>3, Underway
    <3>2. CASE j = k
      BY <1>5, <2>2, <3>1, <3>2 DEF Healed, At
    <3>3. CASE j # k
      <4>1. j \in 1 .. k - 1
        BY <1>3, <3>3
      <4>2. Healed(Tables[j])
        BY <2>2, <4>1 DEF CorpusInv, FilesInv, HealedBehind
      <4>. QED  BY <1>5, <3>1, <4>2
    <3>. QED  BY <3>2, <3>3
  <2>. QED  BY <1>5, <1>6, <1>7, <2>3, <2>4, <2>5 DEF CorpusInv, FilesInv
<1>. QED  BY <1>8, <1>9

\* A build that went through every table without a failure has healed them all.
LEMMA EndStep ==
  ASSUME CorpusInv, CommandEnds
  PROVE  CorpusInv'
<1>1. /\ UNCHANGED <<vars, corpus, files, context>> /\ command.at = Len(Tables) + 1 /\ command' = Idle
      /\ intact' = IF command.name = "build" THEN ~ command.failed ELSE intact
  BY DEF CommandEnds
<1>2. command # Idle
  BY <1>1, TablesAssumption DEF Idle
<1>3. /\ context = Unmade /\ corpus # "none" /\ Len(Tables) \in Nat /\ command.at \notin DOMAIN Tables
      /\ \A j \in DOMAIN Tables : Tables[j] \in Table
  BY <1>1, <1>2, Underway
<1>4. /\ command.step \notin {"created", "collected", "marked"} /\ command.failed \in BOOLEAN
      /\ command.name = "build" => corpus # "tpch"
  BY <1>2, <1>3 DEF CorpusInv, FilesInv, Walking
<1>5. /\ FooterLast' /\ (Imdb' <=> Imdb)
      /\ \A t \in Table : BuildSource(t)' = BuildSource(t) /\ (Healed(t)' <=> Healed(t))
  BY <1>1, FilesStay DEF CorpusInv, FilesInv
<1>6. HealedAll'
  <2>. SUFFICES ASSUME intact', NEW t \in Table PROVE Healed(t)
    BY <1>5 DEF HealedAll
  <2>1. CASE command.name = "build"
    <3>1. ~ command.failed
      BY <1>1, <2>1
    <3>2. PICK j \in DOMAIN Tables : t = Tables[j]
      BY DEF Table, Range
    <3>3. j \in 1 .. command.at - 1
      BY <1>1, <1>3, <3>2, TablesAssumption
    <3>. QED  BY <1>4, <2>1, <3>1, <3>2, <3>3 DEF CorpusInv, FilesInv, HealedBehind
  <2>2. CASE command.name # "build"
    BY <1>1, <2>2 DEF CorpusInv, FilesInv, HealedAll
  <2>. QED  BY <2>1, <2>2
<1>7. FilesTyped'
  BY <1>1, <1>4 DEF CorpusInv, FilesInv, FilesTyped, files
<1>8. (Building /\ Scanned /\ Registration /\ Bystander)'
  BY <1>1, <1>3, OthersStay
<1>9. Walking' /\ UnderHands' /\ HealedBehind'
  BY <1>1 DEF Walking, UnderHands, HealedBehind, Idle
<1>. QED  BY <1>5, <1>6, <1>7, <1>8, <1>9 DEF CorpusInv, FilesInv

\* A dump that is replaced is none that a finished build has read.
LEMMA DownloadStep ==
  ASSUME CorpusInv, NEW t \in Table, NEW data \in Version \cup {Malformed, None}, Download(t, data)
  PROVE  CorpusInv'
<1>1. /\ Imdb /\ command = Idle /\ context = Unmade /\ csv' = [csv EXCEPT ![t] = data]
      /\ intact' = (intact /\ corpus = "parquet")
      /\ UNCHANGED <<vars, corpus, parquet, sub, sidecar, command, context>>
  BY DEF Download
<1>2. corpus \in {"csv", "parquet"} /\ (Imdb' <=> Imdb) /\ intact' \in BOOLEAN
  BY <1>1 DEF Imdb, CorpusInv, FilesInv, FilesTyped
<1>3. csv' \in [Table -> File]
  BY <1>1 DEF CorpusInv, FilesInv, FilesTyped, File
<1>4. FilesTyped'
  BY <1>1, <1>2, <1>3 DEF CorpusInv, FilesInv, FilesTyped
<1>5. ASSUME NEW v PROVE Told(v)' = Told(v)
  BY <1>2 DEF Told, Whole
<1>6. FooterLast'
  BY <1>1, <1>5 DEF CorpusInv, FilesInv, FooterLast
<1>7. HealedAll'
  <2>. SUFFICES ASSUME corpus = "parquet", intact, NEW u \in Table PROVE Healed(u)'
    BY <1>1 DEF HealedAll
  <2>1. BuildSource(u)' = BuildSource(u) /\ sidecar' = sidecar
    BY <1>1 DEF BuildSource
  <2>. QED  BY <1>5, <2>1 DEF CorpusInv, FilesInv, HealedAll, Healed
<1>8. Walking' /\ UnderHands' /\ HealedBehind'
  BY <1>1 DEF Walking, UnderHands, HealedBehind, Idle
<1>9. (Building /\ Scanned /\ Registration /\ Bystander)'
  BY <1>1, <1>2, OthersStay
<1>. QED  BY <1>4, <1>6, <1>7, <1>8, <1>9 DEF CorpusInv, FilesInv

\* A conversion truncates a file and writes it anew.
LEMMA ConvertStep ==
  ASSUME CorpusInv, ConvertOpens \/ ConvertCloses
  PROVE  CorpusInv'
<1>. DEFINE k == command.at  failed == command.failed
<1>1. /\ command.name = "convert" /\ k \in DOMAIN Tables
      /\ UNCHANGED <<vars, corpus, csv, sub, sidecar, context>>
  BY DEF ConvertOpens, ConvertCloses, Running
<1>2. command # Idle
  BY <1>1 DEF Idle
<1>3. /\ context = Unmade /\ corpus = "parquet" /\ k \in 1 .. Len(Tables) /\ Len(Tables) \in Nat
      /\ command = [name |-> "convert", at |-> k, step |-> command.step, failed |-> failed]
      /\ At \in Table /\ failed \in BOOLEAN
  BY <1>1, <1>2, Underway DEF At, CorpusInv, FilesInv, Walking, Command
<1>4. /\ intact' = FALSE
      /\ parquet' \in [Table -> File]
      /\ \/ command' = [command EXCEPT !.step = "created"]
         \/ command' = [command EXCEPT !.at = k + 1, !.step = "none"]
  <2>1. CASE ConvertOpens
    BY <1>3, <2>1 DEF ConvertOpens, Done, CorpusInv, FilesInv, FilesTyped, File
  <2>2. CASE ConvertCloses
    <3>1. intact' = FALSE
      BY <1>2, <2>2 DEF ConvertCloses, Running, CorpusInv, FilesInv, FilesTyped, Walking
    <3>2. parquet' \in [Table -> File]
      BY <1>3, <2>2 DEF ConvertCloses, CorpusInv, FilesInv, FilesTyped
    <3>3. command' = [command EXCEPT !.at = k + 1, !.step = "none"]
      BY <2>2 DEF ConvertCloses, NextTable
    <3>. QED  BY <3>1, <3>2, <3>3
  <2>. QED  BY <2>1, <2>2
<1>0. /\ command'.name = "convert" /\ command' \in Command /\ command'.at \in 1 .. Len(Tables) + 1
      /\ command'.step = "created" \/ command'.step = "none"
      /\ command'.step = "created" => command'.at = k
  <2>1. command \in Command /\ k + 1 \in Nat /\ k + 1 \in 1 .. Len(Tables) + 1 /\ k \in 1 .. Len(Tables) + 1
    BY <1>2, <1>3, Underway
  <2>. HIDE DEF k
  <2>2. CASE command' = [command EXCEPT !.step = "created"]
    BY <1>1, <2>1, <2>2 DEF Command, k
  <2>3. CASE command' = [command EXCEPT !.at = k + 1, !.step = "none"]
    BY <1>1, <2>1, <2>3 DEF Command
  <2>. QED  BY <1>4, <2>2, <2>3
<1>5. FilesTyped'
  BY <1>1, <1>3, <1>4 DEF CorpusInv, FilesInv, FilesTyped
<1>6. ASSUME NEW v PROVE Told(v)' = Told(v)
  BY <1>1 DEF Told, Whole, Imdb
<1>7. FooterLast'
  BY <1>1, <1>6 DEF CorpusInv, FilesInv, FooterLast
<1>8. HealedAll' /\ UnderHands' /\ HealedBehind'
  BY <1>0, <1>4 DEF HealedAll, UnderHands, HealedBehind
<1>9. Walking'
  BY <1>0, <1>1, <1>3, <1>4 DEF Walking, Command
<1>10. (Building /\ Scanned /\ Registration /\ Bystander)'
  BY <1>1, <1>3, OthersStay
<1>. QED  BY <1>5, <1>7, <1>8, <1>9, <1>10 DEF CorpusInv, FilesInv

\* A build writes the sidecar of the table it is at, its footer last.
LEMMA BuildStep ==
  ASSUME CorpusInv, BuildCreates \/ BuildCollects \/ BuildMarks \/ BuildFinishes
  PROVE  CorpusInv'
<1>. DEFINE k == command.at  failed == command.failed  source == BuildSource(At)
<1>1. /\ command.name = "build" /\ k \in DOMAIN Tables /\ (command.step # "none" \/ ~ Imdb)
      /\ UNCHANGED <<vars, corpus, csv, parquet, sub, context>>
  BY DEF BuildCreates, BuildCollects, BuildMarks, BuildFinishes, Running, files
<1>2. command # Idle
  BY <1>1 DEF Idle
<1>3. /\ context = Unmade /\ k \in 1 .. Len(Tables) /\ Len(Tables) \in Nat
      /\ command = [name |-> "build", at |-> k, step |-> command.step, failed |-> failed]
      /\ At \in Table /\ failed \in BOOLEAN /\ corpus \in {"csv", "parquet", "synthetic"}
      /\ \A j \in DOMAIN Tables : Tables[j] \in Table
  BY <1>1, <1>2, Underway DEF At, CorpusInv, FilesInv, Walking
<1>10. source \in Version
  <2>1. CASE command.step # "none"
    BY <1>1, <2>1 DEF CorpusInv, FilesInv, UnderHands
  <2>2. CASE ~ Imdb
    <3>1. corpus = "synthetic" /\ source = parquet[At]
      BY <1>3, <2>2 DEF Imdb, BuildSource
    <3>. QED  BY <1>3, <3>1 DEF CorpusInv, FilesInv, FilesTyped
  <2>. QED  BY <1>1, <2>1, <2>2
<1>4. /\ Imdb' <=> Imdb
      /\ \A t : BuildSource(t)' = BuildSource(t)
      /\ sidecar \in [Table -> SidecarState]
  BY <1>1 DEF Imdb, BuildSource, CorpusInv, FilesInv, FilesTyped
<1>5. \A v : Told(v)' = Told(v)
  BY <1>4 DEF Told, Whole
<1>6. source.rows \in OptionU64 /\ source.distinct \in [Ordinal -> 0 .. MaxU64]
  BY <1>10, VersionAssumption DEF OptionU64
<1>. HIDE DEF k, failed, source
<1>7. (Building /\ Scanned /\ Registration /\ Bystander)'
  BY <1>1, <1>3, OthersStay
<1>8. CASE BuildCreates \/ BuildCollects \/ BuildMarks
  <2>1. PICK new \in SidecarState, step \in {"created", "collected", "marked"} :
          /\ sidecar' = [sidecar EXCEPT ![At] = new] /\ new.footer = FALSE
          /\ command' = [name |-> "build", at |-> k, step |-> step, failed |-> failed]
          /\ step \in {"created", "collected"} => new = [NoSidecar EXCEPT !.exists = TRUE]
          /\ step = "marked" => Imdb /\ new = [NoSidecar EXCEPT !.exists = TRUE, !.rows = source.rows]
    <3>1. CASE BuildCreates
      <4>. DEFINE new == [NoSidecar EXCEPT !.exists = TRUE]
      <4>1. new \in SidecarState /\ new.footer = FALSE
        BY DEF NoSidecar, SidecarState, OptionU64
      <4>2. sidecar' = [sidecar EXCEPT ![At] = new]
        BY <3>1 DEF BuildCreates, Created
      <4>3. command' = [name |-> "build", at |-> k, step |-> "created", failed |-> failed]
        BY <1>3, <3>1 DEF BuildCreates, Done
      <4>. QED  BY <4>1, <4>2, <4>3
    <3>2. CASE BuildMarks
      <4>. DEFINE old == [NoSidecar EXCEPT !.exists = TRUE]
                  new == [NoSidecar EXCEPT !.exists = TRUE, !.rows = source.rows]
      <4>1. new \in SidecarState /\ new.footer = FALSE
        BY <1>6 DEF NoSidecar, SidecarState, OptionU64
      <4>2. sidecar[At] = old /\ Imdb
        BY <1>1, <3>2 DEF BuildMarks, Running, CorpusInv, FilesInv, UnderHands
      <4>3. [old EXCEPT !.rows = source.rows] = new
        BY DEF NoSidecar
      <4>4. sidecar' = [sidecar EXCEPT ![At] = [old EXCEPT !.rows = source.rows]]
        BY <3>2, <4>2 DEF BuildMarks, source
      <4>5. command' = [name |-> "build", at |-> k, step |-> "marked", failed |-> failed]
        BY <1>3, <3>2 DEF BuildMarks, Done
      <4>. QED  BY <4>1, <4>2, <4>3, <4>4, <4>5
    <3>3. CASE BuildCollects
      <4>. DEFINE new == sidecar[At]
      <4>1. new = [NoSidecar EXCEPT !.exists = TRUE]
        BY <1>1, <3>3 DEF BuildCollects, Running, CorpusInv, FilesInv, UnderHands
      <4>2. new \in SidecarState /\ new.footer = FALSE
        BY <4>1 DEF NoSidecar, SidecarState, OptionU64
      <4>3. sidecar' = [sidecar EXCEPT ![At] = new]
        BY <1>4, <3>3 DEF BuildCollects, files
      <4>4. command' = [name |-> "build", at |-> k, step |-> "collected", failed |-> failed]
        BY <1>3, <3>3 DEF BuildCollects, Done
      <4>. QED  BY <4>1, <4>2, <4>3, <4>4
    <3>. QED  BY <1>8, <3>1, <3>2, <3>3
  <2>2. intact' = FALSE
    BY <1>2, <1>8 DEF BuildCreates, BuildCollects, BuildMarks, Running, CorpusInv, FilesInv, FilesTyped, Walking
  <2>3. FilesTyped'
    BY <1>1, <1>4, <2>1, <2>2 DEF CorpusInv, FilesInv, FilesTyped
  <2>4. FooterLast'
    <3>. SUFFICES ASSUME NEW t \in Table, sidecar'[t].footer PROVE sidecar'[t] = sidecar[t]
      BY <1>5 DEF CorpusInv, FilesInv, FooterLast
    <3>. QED  BY <1>3, <1>4, <2>1
  <2>5. Walking'
    BY <1>1, <1>3, <2>1, <2>2 DEF Walking, Command
  <2>6. At' = At
    BY <2>1 DEF At, k
  <2>7. UnderHands'
    BY <1>3, <1>10, <1>4, <2>1, <2>6 DEF UnderHands, source
  <2>8. HealedBehind'
    <3>. SUFFICES ASSUME ~ failed, NEW j \in 1 .. k - 1, Tables[j] # At PROVE Healed(Tables[j])'
      BY <2>1, <2>6 DEF HealedBehind
    <3>1. Tables[j] \in Table
      BY <1>3
    <3>2. Healed(Tables[j])
      BY <1>1 DEF CorpusInv, FilesInv, HealedBehind, k, failed
    <3>3. sidecar'[Tables[j]] = sidecar[Tables[j]]
      BY <1>4, <2>1, <3>1
    <3>. QED  BY <1>4, <1>5, <3>2, <3>3 DEF Healed
  <2>. QED  BY <1>7, <2>2, <2>3, <2>4, <2>5, <2>7, <2>8 DEF CorpusInv, FilesInv, HealedAll
<1>9. CASE BuildFinishes
  <2>. DEFINE new == Told(source)
  <2>1. sidecar' = [sidecar EXCEPT ![At] = new]
    <3>. DEFINE rows == IF Imdb THEN source.rows ELSE Nothing
    <3>1. sidecar[At].rows = rows
      BY <1>1, <1>9 DEF BuildFinishes, Running, CorpusInv, FilesInv, UnderHands, NoSidecar, source
    <3>2. sidecar' = [sidecar EXCEPT ![At] = Whole(source, sidecar[At].rows)]
      BY <1>9 DEF BuildFinishes, source
    <3>. QED  BY <3>1, <3>2 DEF Told
  <2>2. new \in SidecarState
    BY <1>6 DEF Told, Whole, SidecarState, OptionU64
  <2>3. command' = [command EXCEPT !.at = k + 1, !.step = "none"]
    BY <1>9 DEF BuildFinishes, NextTable, k
  <2>0. /\ command'.name = "build" /\ command' \in Command /\ command'.at = k + 1
        /\ command'.step = "none" /\ command'.failed = failed
    <3>1. command \in Command /\ k + 1 \in Nat
      BY <1>2, <1>3, Underway
    <3>. QED  BY <1>1, <2>3, <3>1 DEF Command, failed
  <2>4. intact' = FALSE
    BY <1>2, <1>9 DEF BuildFinishes, Running, CorpusInv, FilesInv, FilesTyped, Walking
  <2>5. FilesTyped'
    BY <1>1, <1>4, <2>1, <2>2, <2>4 DEF CorpusInv, FilesInv, FilesTyped
  <2>6. sidecar'[At] = new /\ \A t \in Table : t # At => sidecar'[t] = sidecar[t]
    BY <1>3, <1>4, <2>1
  <2>. HIDE DEF new
  <2>7. FooterLast'
    <3>. SUFFICES ASSUME NEW t \in Table, sidecar'[t].footer
                  PROVE  \E v \in Version : sidecar'[t] = Told(v)
      BY <1>5 DEF FooterLast
    <3>1. CASE t = At
      BY <1>3, <1>10, <2>6, <3>1 DEF new
    <3>2. CASE t # At
      BY <2>6, <3>2 DEF CorpusInv, FilesInv, FooterLast
    <3>. QED  BY <3>1, <3>2
  <2>8. Walking'
    <3>1. k + 1 \in Nat /\ k + 1 \in 1 .. Len(Tables) + 1
      BY <1>3
    <3>. QED  BY <1>1, <1>3, <2>0, <2>4, <3>1 DEF Walking, Command
  <2>9. UnderHands'
    BY <2>0 DEF UnderHands
  <2>10. HealedBehind'
    <3>. SUFFICES ASSUME ~ failed, NEW j \in 1 .. k PROVE Healed(Tables[j])'
      BY <1>3, <2>0 DEF HealedBehind
    <3>1. Tables[j] \in Table
      BY <1>3
    <3>2. CASE Tables[j] = At
      BY <1>3, <1>10, <1>4, <1>5, <2>6, <3>2 DEF Healed, new, source
    <3>3. CASE Tables[j] # At
      <4>1. j \in 1 .. k - 1
        BY <1>3, <3>3 DEF At, k
      <4>2. Healed(Tables[j])
        BY <1>1, <3>3, <4>1 DEF CorpusInv, FilesInv, HealedBehind, k, failed
      <4>. QED  BY <1>4, <1>5, <2>6, <3>1, <3>3, <4>2 DEF Healed
    <3>. QED  BY <3>2, <3>3
  <2>. QED  BY <1>7, <2>4, <2>5, <2>7, <2>8, <2>9, <2>10 DEF CorpusInv, FilesInv, HealedAll
<1>. QED  BY <1>8, <1>9

----------------------------------------------------------------------------
(* The sessions.                                                           *)

\* The overrides of a table that can be registered are none, or one of each column.
LEMMA OverridesTyped ==
  ASSUME CorpusInv, corpus # "none", NEW t \in Table, NEW baseline \in BOOLEAN, NEW sidecars \in BOOLEAN
  PROVE  LET o == OverridesOf(t, baseline, sidecars)
         IN  o = <<>> \/ (DOMAIN o = Ordinal /\ \A i \in Ordinal : o[i] \in ColumnStats)
<1>. DEFINE o == OverridesOf(t, baseline, sidecars)
<1>1. SchemaOf(t) = Ordinal
  BY DEF SchemaOf
<1>2. ASSUME sidecar[t].footer, NEW rows \in OptionU64
      PROVE  DOMAIN Override(t, rows) = Ordinal /\ \A i \in Ordinal : Override(t, rows)[i] \in ColumnStats
  <2>1. PICK v \in Version : sidecar[t] = Told(v)
    BY <1>2 DEF CorpusInv, FilesInv, FooterLast
  <2>2. sidecar[t].distinct = v.distinct /\ v.distinct \in [Ordinal -> 0 .. MaxU64]
    BY <2>1, VersionAssumption DEF Told, Whole
  <2>3. \A i \in Ordinal : v.distinct[i] \in OptionU64
    BY <2>2 DEF OptionU64
  <2>. QED  BY <1>1, <1>2, <2>2, <2>3 DEF Override, ColumnStats
<1>3. corpus = "synthetic" => parquet[t].rows \in OptionU64
  BY VersionAssumption DEF CorpusInv, FilesInv, FilesTyped, OptionU64
<1>4. corpus = "synthetic" => DOMAIN HardCoded(t) = Ordinal /\ \A i \in Ordinal : HardCoded(t)[i] \in ColumnStats
  <2>1. \A i \in Ordinal : Declared[i] \in OptionU64
    BY DeclaredAssumption DEF OptionU64
  <2>. QED  BY <1>1, <1>3, <2>1 DEF HardCoded, ColumnStats
<1>5. sidecar[t].rows \in OptionU64 /\ Nothing \in OptionU64
  BY DEF CorpusInv, FilesInv, FilesTyped, SidecarState, OptionU64
<1>6. CASE Imdb
  <2>1. o = WrapsImdb(t, baseline)
    BY <1>6 DEF OverridesOf, Imdb
  <2>. QED  BY <1>2, <1>5, <2>1 DEF WrapsImdb, OrElse, Loads, ImdbOverrides
<1>7. CASE corpus = "tpch"
  <2>1. o = WrapsTpch(t)
    BY <1>7 DEF OverridesOf, Imdb
  <2>. QED  BY <1>2, <1>5, <2>1 DEF WrapsTpch, OrElse, Loads, TpchOverrides
<1>8. CASE corpus = "synthetic"
  <2>1. o = WrapsSynthetic(t, baseline, sidecars)
    BY <1>8 DEF OverridesOf, Imdb
  <2>2. WrapsSynthetic(t, baseline, sidecars) \in {<<>>, HardCoded(t), OrElse(t, SyntheticOverrides(t), HardCoded(t))}
    BY DEF WrapsSynthetic
  <2>3. OrElse(t, SyntheticOverrides(t), HardCoded(t)) = HardCoded(t)
        \/ (sidecar[t].footer /\ OrElse(t, SyntheticOverrides(t), HardCoded(t)) = Override(t, parquet[t].rows))
    BY DEF OrElse, Loads, SyntheticOverrides
  <2>. QED  BY <1>2, <1>3, <1>4, <1>8, <2>1, <2>2, <2>3
<1>. QED  BY <1>6, <1>7, <1>8 DEF Imdb, CorpusInv, FilesInv, FilesTyped

\* A step of a session leaves the files and the commands alone.
LEMMA SessionStep ==
  ASSUME CorpusInv, UNCHANGED <<corpus, files, command, intact>>, command = Idle
  PROVE  FilesInv'
<1>1. FooterLast' /\ HealedAll'
  BY FilesStay DEF CorpusInv, FilesInv, HealedAll
<1>2. FilesTyped'
  BY DEF CorpusInv, FilesInv, FilesTyped, files
<1>3. Walking' /\ UnderHands' /\ HealedBehind'
  BY DEF Walking, UnderHands, HealedBehind, Idle
<1>. QED  BY <1>1, <1>2, <1>3 DEF FilesInv

\* While a run is registered no command is at the files.
LEMMA Undisturbed ==
  ASSUME CorpusInv, context # Unmade
  PROVE  command = Idle
BY DEF CorpusInv, FilesInv, Walking

LEMMA RegisterStep ==
  ASSUME CorpusInv, NEW baseline \in BOOLEAN, NEW sidecars \in BOOLEAN, RegisterTables(baseline, sidecars)
  PROVE  CorpusInv'
<1>. DEFINE c == BuildContext(baseline, sidecars)
<1>1. /\ corpus # "none" /\ command = Idle /\ context = Unmade /\ context' = c
      /\ UNCHANGED <<native, bound, scan, corpus, files, command, intact>>
  BY DEF RegisterTables
<1>2. /\ native = NewUnknown /\ bound = [i \in Ordinal |-> Nothing]
      /\ overrides = <<>> /\ built = FALSE /\ scan = NoScan
  BY <1>1 DEF CorpusInv, Registration, Unmade
<1>3. FilesInv'
  BY <1>1, SessionStep
<1>4. Scanned'
  BY <1>1 DEF CorpusInv, Scanned, MemoryMonotone, DistinctCountsAreOfTheirColumns, ExactIsNative
<1>5. Bystander'
  BY <1>1 DEF Bystander
<1>6. scan'.made = FALSE
  BY <1>1, <1>2 DEF NoScan
<1>7. BuildContext(baseline, sidecars)' = c
  BY <1>1, SameContext
<1>8. CASE c.status = "registered"
  <2>1. c.baseline = baseline /\ c.sidecars = sidecars /\ c.overrides = [t \in Table |-> OverridesOf(t, baseline, sidecars)]
    BY <1>8 DEF BuildContext
  <2>. DEFINE o == OverridesOf(Focus, baseline, sidecars)
  <2>2. overrides' = o /\ built' = (o # <<>>)
    BY <1>1, <1>8, <2>1, TablesAssumption DEF RegisterTables
  <2>3. o = <<>> \/ (DOMAIN o = Ordinal /\ \A i \in Ordinal : o[i] \in ColumnStats)
    BY <1>1, OverridesTyped, TablesAssumption
  <2>. HIDE DEF o
  <2>4. Building'
    <3>1. DOMAIN overrides' \subseteq 0 .. Columns /\ \A i \in DOMAIN overrides' : overrides'[i] \in ColumnStats
      <4>1. CASE o = <<>>
        BY <2>2, <4>1
      <4>2. CASE o # <<>>
        BY <2>2, <2>3, <4>2, ColumnsAssumption DEF Ordinal
      <4>. QED  BY <4>1, <4>2
    <3>. QED  BY <1>1, <1>2, <2>2, <3>1 DEF CorpusInv, Building, Bindings
  <2>5. Registration'
    <3>1. context' = BuildContext(baseline, sidecars)'
      BY <1>1, <1>7
    <3>2. overrides' = context'.overrides[Focus]
      BY <1>1, <2>1, <2>2, TablesAssumption DEF o
    <3>. QED  BY <1>1, <1>2, <1>6, <1>8, <2>2, <3>1, <3>2 DEF Registration
  <2>. QED  BY <1>3, <1>4, <1>5, <2>4, <2>5 DEF CorpusInv
<1>9. CASE c.status # "registered"
  <2>1. UNCHANGED <<overrides, built>>
    BY <1>1, <1>9 DEF RegisterTables
  <2>2. Building'
    BY <1>1, <2>1 DEF CorpusInv, Building, Bindings
  <2>3. Registration'
    BY <1>1, <1>2, <1>6, <1>9, <2>1 DEF Registration
  <2>. QED  BY <1>3, <1>4, <1>5, <2>2, <2>3 DEF CorpusInv
<1>. QED  BY <1>8, <1>9

\* The session ends.
LEMMA RunEndsStep ==
  ASSUME CorpusInv, RunEnds
  PROVE  CorpusInv'
<1>1. /\ context # Unmade /\ context' = Unmade /\ overrides' = <<>> /\ built' = FALSE /\ scan' = NoScan
      /\ UNCHANGED <<native, bound, corpus, files, command, intact>>
  BY DEF RunEnds
<1>2. command = Idle /\ corpus # "none"
  BY <1>1, Undisturbed DEF CorpusInv, Bystander
<1>3. FilesInv'
  BY <1>1, <1>2, SessionStep
<1>4. scan'.made = FALSE /\ scan'.rows = Absent /\ scan'.bytes = Absent /\ scan'.distinct = <<>>
  BY <1>1 DEF NoScan
<1>5. Range(scan'.distinct) = {}
  BY <1>4 DEF Range
<1>6. Scanned'
  BY <1>4, <1>5 DEF Scanned, MemoryMonotone, DistinctCountsAreOfTheirColumns, ExactIsNative, Absent, Value
<1>7. native = NewUnknown /\ bound = [i \in Ordinal |-> Nothing]
  BY <1>2 DEF CorpusInv, Registration
<1>8. Building'
  <2>1. DOMAIN overrides' = {}
    BY <1>1
  <2>. QED  BY <1>1, <1>7, <2>1 DEF CorpusInv, Building, Bindings
<1>9. Registration'
  BY <1>1, <1>4, <1>7 DEF Registration, Unmade
<1>. QED  BY <1>1, <1>2, <1>3, <1>6, <1>8, <1>9 DEF CorpusInv, Bystander

\* A scan in a session.
LEMMA SessionScan ==
  ASSUME CorpusInv, context # Unmade, NEW projection \in Projections, Scan(projection), UNCHANGED corpusVars
  PROVE  CorpusInv'
<1>1. /\ command = Idle /\ corpus # "none" /\ built
      /\ UNCHANGED <<corpus, files, command, intact, context>>
      /\ UNCHANGED <<native, overrides, bound, built>>
  BY Undisturbed DEF CorpusInv, Bystander, Scan, corpusVars
<1>2. FilesInv' /\ Building'
  BY <1>1, SessionStep DEF CorpusInv, Building, Bindings
<1>3. Scanned'
  BY ScanStep DEF CorpusInv
<1>4. context.status = "registered"
  BY <1>1 DEF CorpusInv, Registration
<1>5. Statistics' = Statistics
  BY <1>1 DEF Statistics, OverrideRowCounts
<1>6. projection \in [1 .. Len(projection) -> Ordinal]
  BY ProjectionsAssumption
<1>7. /\ scan'.rows = Statistics.rows /\ scan'.projection = projection
      /\ scan'.distinct = [k \in 1 .. Len(projection) |-> Statistics.distinct[projection[k]]]
  BY DEF Scan, OutputStatistics, Project, Statistics
<1>8. Registration'
  <2>1. PICK baseline \in BOOLEAN, sidecars \in BOOLEAN : context = BuildContext(baseline, sidecars)
    BY <1>1, <1>4 DEF CorpusInv, Registration
  <2>2. BuildContext(baseline, sidecars)' = BuildContext(baseline, sidecars)
    BY <1>1, SameContext
  <2>. QED  BY <1>1, <1>4, <1>5, <1>6, <1>7, <2>1, <2>2 DEF CorpusInv, Registration
<1>9. Bystander'
  BY <1>1 DEF Bystander
<1>. QED  BY <1>2, <1>3, <1>8, <1>9 DEF CorpusInv

\* Where there is no corpus, the provider of any other caller.
LEMMA OtherCallers ==
  ASSUME CorpusInv, corpus = "none", Next, UNCHANGED corpusVars
  PROVE  CorpusInv'
<1>1. /\ context = Unmade /\ command = Idle /\ intact = FALSE
      /\ UNCHANGED <<corpus, files, command, intact, context>>
  BY DEF CorpusInv, Bystander, corpusVars
<1>2. FilesInv'
  BY <1>1, SessionStep
<1>3. Building' /\ Scanned'
  BY ProviderStep DEF CorpusInv
<1>. QED  BY <1>1, <1>2, <1>3 DEF CorpusInv, Registration, Bystander

LEMMA CorpusInvariance == CorpusInv /\ [CorpusNext]_allVars => CorpusInv'
<1>. SUFFICES ASSUME CorpusInv, [CorpusNext]_allVars PROVE CorpusInv'
  OBVIOUS
<1>1. CASE corpus = "none" /\ Next /\ UNCHANGED corpusVars
  BY <1>1, OtherCallers
<1>2. ASSUME context # Unmade, NEW projection \in Projections, Scan(projection), UNCHANGED corpusVars PROVE CorpusInv'
  BY <1>2, SessionScan
<1>3. ASSUME NEW t \in Table, NEW data \in Version \cup {Malformed, None}, Download(t, data) PROVE CorpusInv'
  BY <1>3, DownloadStep
<1>4. CASE Convert \/ Build
  BY <1>4, IdleStep DEF Convert, Build
<1>5. CASE ConvertFails \/ Kill \/ (BuildFails /\ ~ Imdb)
  BY <1>5, IdleStep DEF ConvertFails, Kill, BuildFails, Abandoned
<1>6. CASE ConvertSkips \/ BuildSkips \/ BuildScans \/ (BuildFails /\ Imdb)
  BY <1>6, SkipStep
<1>7. CASE ConvertOpens \/ ConvertCloses
  BY <1>7, ConvertStep
<1>8. CASE BuildCreates \/ BuildCollects \/ BuildMarks \/ BuildFinishes
  BY <1>8, BuildStep
<1>9. CASE CommandEnds
  BY <1>9, EndStep
<1>10. ASSUME NEW baseline \in BOOLEAN, NEW sidecars \in BOOLEAN, RegisterTables(baseline, sidecars) PROVE CorpusInv'
  BY <1>10, RegisterStep
<1>11. CASE RunEnds
  BY <1>11, RunEndsStep
<1>12. CASE UNCHANGED allVars
  <2>1. UNCHANGED <<vars, corpus, files, intact, context>> /\ command' = command /\ UNCHANGED corpusVars
    BY <1>12 DEF allVars, corpusVars
  <2>2. FilesInv'
    <3>1. FooterLast' /\ HealedAll' /\ \A t \in Table : BuildSource(t)' = BuildSource(t) /\ (Healed(t)' <=> Healed(t))
      BY <2>1, FilesStay DEF CorpusInv, FilesInv, HealedAll
    <3>2. FilesTyped' /\ Walking' /\ (Imdb' <=> Imdb)
      BY <2>1 DEF CorpusInv, FilesInv, FilesTyped, Walking, files, Imdb
    <3>3. command.name = "build" => command # Idle
      BY DEF Idle
    <3>4. UnderHands'
      BY <2>1, <3>2 DEF CorpusInv, FilesInv, UnderHands, files, BuildSource, At
    <3>5. HealedBehind'
      <4>. SUFFICES ASSUME command.name = "build", ~ command.failed, NEW j \in 1 .. command.at - 1
                    PROVE  Healed(Tables[j])' \/ (command.step \in {"created", "collected", "marked"} /\ Tables[j] = At)
        BY <2>1 DEF HealedBehind, At
      <4>1. Tables[j] \in Table
        BY <3>3, Underway
      <4>. QED  BY <3>1, <4>1 DEF CorpusInv, FilesInv, HealedBehind
    <3>. QED  BY <3>1, <3>2, <3>4, <3>5 DEF FilesInv
  <2>3. Building' /\ Scanned'
    BY <2>1 DEF CorpusInv, vars, Building, Bindings, Scanned, MemoryMonotone, DistinctCountsAreOfTheirColumns, ExactIsNative
  <2>4. Registration'
    <3>1. \A baseline, sidecars \in BOOLEAN : BuildContext(baseline, sidecars)' = BuildContext(baseline, sidecars)
      BY <2>1, SameContext
    <3>2. Statistics' = Statistics
      BY <2>1 DEF Statistics, OverrideRowCounts, vars
    <3>. QED  BY <2>1, <3>1, <3>2 DEF CorpusInv, Registration, vars
  <2>5. Bystander'
    BY <2>1 DEF CorpusInv, Bystander
  <2>. QED  BY <2>2, <2>3, <2>4, <2>5 DEF CorpusInv
<1>. QED  BY <1>1, <1>2, <1>3, <1>4, <1>5, <1>6, <1>7, <1>8, <1>9, <1>10, <1>11, <1>12 DEF CorpusNext

LEMMA CorpusInvariant == CorpusSpec => []CorpusInv
BY CorpusInitially, CorpusInvariance, PTL DEF CorpusSpec

----------------------------------------------------------------------------

\* The larger of no native count and a sidecar's is the sidecar's.
LEMMA PickFromSidecar ==
  ASSUME NEW d \in 0 .. MaxU64
  PROVE  PickMax(Absent, Translated(d)) = Inexact(d)
<1>1. Absent \in Precision /\ d \in OptionU64 /\ d # Nothing /\ d \in Nat /\ Absent.n = 0
  BY WordAssumption DEF Precision, OptionU64, Absent, Nothing
<1>2. PickMax(Absent, Translated(d)) = Inexact(Max({d, 0}))
  BY <1>1, PickMaxProperties
<1>3. Max({d, 0}) \in {d, 0} /\ Max({d, 0}) >= d
  BY <1>1, 0 \in Nat, MaxOfTwo
<1>. QED  BY <1>1, <1>2, <1>3

\* Once a build has gone through every table with the files that are there
\* now, a corrected run publishes what its data are, whatever was killed or
\* damaged before: build_puffin_sidecars_imdb_with_format and the loaders.
THEOREM BuildsHeal == CorpusSpec => []RebuildHeals
<1>1. CorpusInv => RebuildHeals
  <2>. SUFFICES ASSUME CorpusInv, intact, context.status = "registered",
                       ~ context.baseline, context.sidecars, ~ FromSub(Focus)
                PROVE  /\ built
                       /\ scan.made =>
                            /\ scan.rows = Inexact(context.data[Focus].rows)
                            /\ scan.distinct = [k \in DOMAIN scan.distinct |->
                                 Inexact(context.data[Focus].distinct[scan.projection[k]])]
    BY DEF RebuildHeals
  <2>1. corpus # "none" /\ context # Unmade
    BY DEF CorpusInv, Bystander, Unmade
  <2>2. PICK baseline \in BOOLEAN, sidecars \in BOOLEAN : context = BuildContext(baseline, sidecars)
    BY <2>1 DEF CorpusInv, Registration
  <2>3. /\ context.baseline = baseline /\ context.sidecars = sidecars
        /\ context.data = [t \in Table |-> Registered(t)]
        /\ context.overrides = [t \in Table |-> OverridesOf(t, baseline, sidecars)]
        /\ \A t \in Table : Registers(t)
    BY <2>2 DEF BuildContext
  <2>. DEFINE v == BuildSource(Focus)
  <2>4. Focus \in Table /\ Registered(Focus) = v
    BY TablesAssumption DEF Registered, FromSub, BuildSource
  <2>5. v \in Version /\ sidecar[Focus] = Told(v)
    BY <2>3, <2>4 DEF CorpusInv, FilesInv, HealedAll, Healed, Registers
  <2>6. corpus # "tpch"
    BY DEF CorpusInv, FilesInv, FilesTyped
  <2>7. /\ v.rows \in 0 .. MaxU64 /\ v.distinct \in [Ordinal -> 0 .. MaxU64]
        /\ sidecar[Focus].exists /\ Loads(Focus) /\ sidecar[Focus].distinct = v.distinct
        /\ sidecar[Focus].rows = IF Imdb THEN v.rows ELSE Nothing
    BY <2>5, VersionAssumption DEF Told, Whole, Loads
  <2>8. overrides = [i \in Ordinal |-> [rows |-> v.rows, distinct |-> v.distinct[i]]]
    <3>1. overrides = OverridesOf(Focus, FALSE, TRUE)
      BY <2>1, <2>3, <2>4, ZenonT(60) DEF CorpusInv, Registration
    <3>2. CASE Imdb
      <4>1. OverridesOf(Focus, FALSE, TRUE) = ImdbOverrides(Focus)
        BY <2>7, <3>2 DEF OverridesOf, WrapsImdb, OrElse, Imdb
      <4>2. SchemaOf(Focus) = Ordinal /\ sidecar[Focus].rows = v.rows /\ sidecar[Focus].distinct = v.distinct
        BY <2>4, <2>7, <3>2 DEF Imdb, SchemaOf
      <4>. QED  BY <3>1, <4>1, <4>2 DEF ImdbOverrides, Override
    <3>3. CASE corpus = "synthetic"
      <4>1. ~ Imdb /\ parquet[Focus] = v
        BY <3>3 DEF Imdb, BuildSource
      <4>2. OverridesOf(Focus, FALSE, TRUE) = SyntheticOverrides(Focus)
        BY <2>7, <3>3, <4>1 DEF OverridesOf, WrapsSynthetic, OrElse
      <4>. QED  BY <2>4, <2>7, <3>1, <4>1, <4>2 DEF SyntheticOverrides, Override, SchemaOf
    <3>. QED  BY <2>1, <2>6, <3>2, <3>3 DEF CorpusInv, FilesInv, FilesTyped, Imdb
  <2>9. 0 \in Ordinal
    BY ColumnsAssumption DEF Ordinal
  <2>10. built
    <3>1. DOMAIN overrides = Ordinal /\ DOMAIN <<>> = {}
      BY <2>8
    <3>2. overrides # <<>>
      BY <2>9, <3>1
    <3>. QED  BY <2>1, <3>2 DEF CorpusInv, Registration
  <2>11. ASSUME scan.made
         PROVE  /\ scan.rows = Inexact(v.rows)
                /\ scan.distinct = [k \in DOMAIN scan.distinct |-> Inexact(v.distinct[scan.projection[k]])]
    <3>1. /\ native = NewUnknown
          /\ scan.rows = Statistics.rows
          /\ scan.distinct = [k \in DOMAIN scan.distinct |-> Statistics.distinct[scan.projection[k]]]
          /\ \A k \in DOMAIN scan.distinct : scan.projection[k] \in Ordinal
      BY <2>1, <2>11 DEF CorpusInv, Registration
    <3>2. OverrideRowCounts = {v.rows}
      <4>1. \A i \in Ordinal : overrides[i].rows = v.rows
        BY <2>8
      <4>2. DOMAIN overrides = Ordinal
        BY <2>8
      <4>3. v.rows # Nothing
        BY <2>7, WordAssumption DEF Nothing
      <4>. QED  BY <2>9, <4>1, <4>2, <4>3 DEF OverrideRowCounts
    <3>3. Max({v.rows}) = v.rows /\ v.rows # Nothing
      <4>1. v.rows \in Nat
        BY <2>7, WordAssumption
      <4>. HIDE DEF v
      <4>. QED  BY <4>1, MaxOfTwo DEF Nothing
    <3>4. Statistics.rows = Inexact(v.rows)
      <4>1. native.rows = Absent
        BY <3>1 DEF NewUnknown
      <4>2. Statistics.rows = GuardedRows(v.rows, native.rows)
        BY <3>2, <3>3 DEF Statistics
      <4>. QED  BY <4>1, <4>2 DEF GuardedRows
    <3>5. ASSUME NEW i \in Ordinal PROVE Statistics.distinct[i] = Inexact(v.distinct[i])
      <4>1. native.distinct[i] = Absent
        BY <3>1 DEF NewUnknown
      <4>2. i \in DOMAIN overrides /\ overrides[i].distinct = v.distinct[i] /\ v.distinct[i] \in 0 .. MaxU64
        BY <2>7, <2>8
      <4>3. Statistics.distinct[i] = PickMax(Absent, Translated(v.distinct[i]))
        BY <4>1, <4>2 DEF Statistics, MergeColumnStats
      <4>. QED  BY <4>2, <4>3, PickFromSidecar
    <3>. QED  BY <3>1, <3>4, <3>5
  <2>12. context.data[Focus] = v
    BY <2>3, <2>4
  <2>. QED  BY <2>10, <2>11, <2>12
<1>. QED  BY <1>1, CorpusInvariant, PTL

\* What a run takes from a sidecar is of one state of its table: the footer
\* that makes it readable is written behind everything it says.
THEOREM OneBuildEach == CorpusSpec => []OneBuild
<1>1. CorpusInv => OneBuild
  <2>. SUFFICES ASSUME CorpusInv, Imdb, context.status = "registered", NEW t \in Table, context.overrides[t] # <<>>
                PROVE  \E v \in Version : context.overrides[t] = [i \in Ordinal |-> [rows |-> v.rows, distinct |-> v.distinct[i]]]
    BY DEF OneBuild
  <2>1. PICK baseline \in BOOLEAN, sidecars \in BOOLEAN : context = BuildContext(baseline, sidecars)
    BY DEF CorpusInv, Registration, Imdb
  <2>2. context.overrides[t] = WrapsImdb(t, baseline)
    BY <2>1 DEF BuildContext, OverridesOf, Imdb
  <2>3. sidecar[t].footer /\ context.overrides[t] = Override(t, sidecar[t].rows)
    BY <2>2 DEF WrapsImdb, OrElse, ImdbOverrides, Loads
  <2>4. PICK v \in Version : sidecar[t] = Told(v)
    BY <2>3 DEF CorpusInv, FilesInv, FooterLast
  <2>5. sidecar[t].rows = v.rows /\ sidecar[t].distinct = v.distinct
    BY <2>4 DEF Told, Whole
  <2>6. context.overrides[t] = [i \in Ordinal |-> [rows |-> v.rows, distinct |-> v.distinct[i]]]
    BY <2>3, <2>5 DEF Override, SchemaOf
  <2>. QED  BY <2>6
<1>. QED  BY <1>1, CorpusInvariant, PTL

\* The providers of a benchmark keep the promises of every provider: a scan is
\* never below what the engine knew, and speaks of the columns it emits.
THEOREM CorpusProviders == CorpusSpec => [](MemoryMonotone /\ DistinctCountsAreOfTheirColumns)
<1>1. CorpusInv => MemoryMonotone /\ DistinctCountsAreOfTheirColumns
  BY DEF CorpusInv, Scanned
<1>. QED  BY <1>1, CorpusInvariant, PTL
============================================================================
