--------------------------- MODULE TableProvider ---------------------------
(***************************************************************************)
(* SamkhyaTableProvider (samkhya-datafusion/src/table_provider.rs): a      *)
(* table provider around another that folds overrides into its statistics, *)
(* and the statistics its scans publish (physical_plan.rs).                *)
(*                                                                         *)
(* The engine keeps two kinds of native statistics, those of the inner     *)
(* provider and those of the plan its scan returns, and either may change  *)
(* while a session holds the wrapper and its plans.                        *)
(***************************************************************************)
EXTENDS Integers, Sequences, FiniteSetsExt, Functions

CONSTANTS
  Columns,       \* columns of the table; ordinals are 0 .. Columns - 1
  Field,         \* Iceberg field ids callers name
  Portable,      \* Portable[f]: the distinct count a snapshot holds for field f, or Nothing
  Overrides,     \* the [rows, distinct] a caller sets, Nothing where it has no value
  Counts,        \* row and distinct counts native statistics may report
  Projections,   \* projections scans ask for: sequences of ordinals
  MaxU64         \* u64::MAX, which is also usize::MAX

Nothing == -1
Ordinal == 0 .. Columns - 1

\* Option<u64>
OptionU64 == {Nothing} \cup 0 .. MaxU64
ColumnStats == [rows : OptionU64, distinct : OptionU64]

ASSUME ColumnsAssumption == Columns \in Nat \ {0}
ASSUME WordAssumption == MaxU64 \in Nat /\ Counts \subseteq 0 .. MaxU64
ASSUME OverridesAssumption == Overrides \subseteq ColumnStats
ASSUME PortableAssumption ==
  Field \subseteq Int /\ \A f \in DOMAIN Portable : Portable[f] \in OptionU64
ASSUME ProjectionsAssumption ==
  \A projection \in Projections : projection \in [1 .. Len(projection) -> Ordinal]

\* Precision<usize>
Absent == [is |-> "absent", n |-> 0]
Exact(n) == [is |-> "exact", n |-> n]
Inexact(n) == [is |-> "inexact", n |-> n]
Precision == {Absent} \cup {Exact(n) : n \in Counts} \cup {Inexact(n) : n \in Counts}

VARIABLES
  native,      \* the inner provider's statistics, or its answer that it has none
  inner,       \* num_rows of the plan the inner provider's scan returns
  overrides,   \* ordinal -> the last override set for it
  bound,       \* history: ordinal -> the field it is bound to, or Nothing
  built,       \* the wrapper exists: a failed binding drops it
  scan         \* the last scan: what it publishes, and what it was made of

vars == <<native, inner, overrides, bound, built, scan>>

NewUnknown == [rows |-> Absent, bytes |-> Absent, distinct |-> [i \in Ordinal |-> Absent]]

\* What providers answer: nothing, like a MemTable, or counts, and a byte size
\* when they have read the data.
NativeStatistics ==
  {NewUnknown} \cup
  {[rows |-> r, bytes |-> IF r.is = "exact" THEN Exact(8 * r.n) ELSE Absent,
    distinct |-> [i \in Ordinal |-> d]] : r \in Precision \ {Absent}, d \in Precision}

NoScan == [made |-> FALSE, rows |-> Absent, bytes |-> Absent, distinct |-> <<>>,
           projection |-> <<>>, native |-> NewUnknown, inner |-> Absent, bound |-> <<>>,
           overrides |-> <<>>]

NoOverride == [rows |-> Nothing, distinct |-> Nothing]

\* SamkhyaTableProvider::new
Init ==
  /\ native \in NativeStatistics
  /\ inner \in Precision
  /\ overrides = <<>>
  /\ bound = [i \in Ordinal |-> Nothing]
  /\ built = TRUE
  /\ scan = NoScan

----------------------------------------------------------------------------
(* Building the wrapper.                                                   *)

Insert(map, i, v) == [j \in DOMAIN map \cup {i} |-> IF j = i THEN v ELSE map[j]]

\* with_column_stats, for any index: an override replaces the one before it.
WithColumnStats(i, stats) ==
  /\ built
  /\ overrides' = Insert(overrides, i, stats)
  /\ bound' = IF i \in Ordinal THEN [bound EXCEPT ![i] = Nothing] ELSE bound
  /\ UNCHANGED <<native, inner, built, scan>>

\* has_datafusion_planner_stats, of what decode_column returns
HasPlannerStats(stats) == stats # NoOverride

\* try_with_portable_stats: the binding is of a field to an ordinal.  It takes
\* the wrapper, and gives it back only when it succeeds.
TryWithPortableStats(f, i) ==
  /\ built
  /\ LET stats == [NoOverride EXCEPT !.distinct = IF f \in DOMAIN Portable THEN Portable[f] ELSE Nothing]
     IN  IF f > 0 /\ i < Columns /\ HasPlannerStats(stats)
         THEN /\ overrides' = Insert(overrides, i, stats)
              /\ bound' = [bound EXCEPT ![i] = f]
              /\ built' = built
         ELSE built' = FALSE /\ UNCHANGED <<overrides, bound>>
  /\ UNCHANGED <<native, inner, scan>>

----------------------------------------------------------------------------
(* Statistics.                                                             *)

\* option_u64_to_precision_usize
TranslatedNone(n) == Inexact(n)
Translated(n) == IF n = Nothing THEN Absent ELSE Inexact(n)

\* pick_max_usize
PickMax(base, override) ==
  IF base = Absent /\ override = Absent THEN Absent
  ELSE Inexact(Max({p.n : p \in {base, override} \ {Absent}}))

\* merge_column_stats, of the one field it merges in a way of its own
MergeColumnStats(base, override) == PickMax(base, override)

OverrideRowCounts == {overrides[i].rows : i \in DOMAIN overrides} \ {Nothing}

\* The guard of the row count: the larger of the override and the native one.
UnguardedRows(override, rows) == Inexact(override)
GuardedRows(override, rows) ==
  IF rows = Absent THEN Inexact(override) ELSE Inexact(Max({override, rows.n}))

Relaxed(p) == IF p = Absent THEN Absent ELSE Inexact(p.n)

\* statistics()
Statistics ==
  LET rc == IF OverrideRowCounts = {} THEN Nothing ELSE Max(OverrideRowCounts)
  IN  [rows |-> IF rc = Nothing THEN native.rows ELSE GuardedRows(rc, native.rows),
       bytes |-> IF rc = Nothing THEN native.bytes ELSE Relaxed(native.bytes),
       distinct |-> [i \in Ordinal |->
         IF i \in DOMAIN overrides
         THEN MergeColumnStats(native.distinct[i], Translated(overrides[i].distinct))
         ELSE native.distinct[i]]]

\* Statistics::project
Project(columns, projection) == [k \in 1 .. Len(projection) |-> columns[projection[k]]]

\* The statistics of the columns a scan emits, in their order.
TableStatistics(projection) ==
  [Statistics EXCEPT !.distinct = [k \in 1 .. Len(projection) |-> @[k - 1]]]
OutputStatistics(projection) == [Statistics EXCEPT !.distinct = Project(@, projection)]

\* scan(): the plan of the inner scan, in a SamkhyaStatsExec with the
\* provider's own statistics.
Scan(projection) ==
  /\ built
  /\ LET stats == OutputStatistics(projection)
     IN  scan' = [made |-> TRUE, rows |-> stats.rows, bytes |-> stats.bytes,
                  distinct |-> stats.distinct, projection |-> projection,
                  native |-> native, inner |-> inner, bound |-> bound, overrides |-> overrides]
  /\ UNCHANGED <<native, inner, overrides, bound, built>>

\* The table changes under the wrapper and the plans already made.
Change ==
  /\ native' \in NativeStatistics /\ inner' \in Precision
  /\ UNCHANGED <<overrides, bound, built, scan>>

----------------------------------------------------------------------------

Next ==
  \/ \E i \in 0 .. Columns, stats \in Overrides : WithColumnStats(i, stats)
  \/ \E f \in Field, i \in 0 .. Columns : TryWithPortableStats(f, i)
  \/ \E projection \in Projections : Scan(projection)
  \/ Change

Spec == Init /\ [][Next]_vars

----------------------------------------------------------------------------
(* Properties.                                                             *)

Known(p) == p # Absent

\* The type invariant.
TypeOK ==
  /\ native \in NativeStatistics /\ inner \in Precision /\ built \in BOOLEAN
  /\ DOMAIN overrides \subseteq 0 .. Columns
  /\ \A i \in DOMAIN overrides : overrides[i] \in ColumnStats
  /\ bound \in [Ordinal -> Field \cup {Nothing}]
  /\ \A p \in {scan.rows, scan.bytes} \cup Range(scan.distinct) :
       p \in [is : {"absent", "exact", "inexact"}, n : Nat]

\* A scan never publishes fewer rows, or fewer distinct values of a column,
\* than the inner provider reported when it was planned, and never hides a
\* count it reported, whichever overrides were set, replaced or bound before:
\* the planner is not pushed to a smaller build side.
MemoryMonotone ==
  scan.made =>
    /\ Known(scan.native.rows) => Known(scan.rows) /\ scan.rows.n >= scan.native.rows.n
    /\ \A k \in DOMAIN scan.distinct :
         LET own == scan.native.distinct[scan.projection[k]]
         IN  Known(own) => Known(scan.distinct[k]) /\ scan.distinct[k].n >= own.n

\* What a scan says of an output column is of the table column the projection
\* puts there: the distinct count of the field bound to it, or the native one
\* where that is larger or nothing is bound.  Field ids are not ordinals.
DistinctCountsAreOfTheirColumns ==
  scan.made =>
    \A k \in DOMAIN scan.distinct :
      LET i == scan.projection[k]
          own == scan.native.distinct[i]
      IN  IF scan.bound[i] # Nothing
          THEN scan.distinct[k] = Inexact(Max({Portable[scan.bound[i]], own.n}))
          ELSE i \notin DOMAIN scan.overrides => scan.distinct[k] = own

\* A scan calls a count exact only if the engine did, of that count and of a
\* row count it has left alone: a byte size is not exact beside corrected rows.
ExactIsNative ==
  scan.made =>
    /\ scan.rows.is = "exact" => scan.rows = scan.native.rows
    /\ scan.bytes.is = "exact" => scan.bytes = scan.native.bytes /\ scan.rows = scan.native.rows
    /\ \A k \in DOMAIN scan.distinct :
         scan.distinct[k].is = "exact" => scan.distinct[k] = scan.native.distinct[scan.projection[k]]
============================================================================
