--------------------------- MODULE ColumnSketches ---------------------------
(***************************************************************************)
(* From the rows of a column to its summaries: the Bloom filter, the       *)
(* equi-depth histogram and the two-column grid of samkhya-core/sketches,  *)
(* and the engines' adapters, which decide what of a cell reaches them.    *)
(*                                                                         *)
(* Partitions of one table are summarised one batch at a time and their    *)
(* summaries merged, where they can be, and reloaded in any order.         *)
(* Numbers are integers and fractions exact, where the code has f64.       *)
(***************************************************************************)
EXTENDS HyperLogLog, Ranking, SequencesExt

CONSTANTS
  Part,        \* partitions of the table
  Null,        \* a missing value
  NullKey,     \* the token some adapters hash for it
  Value,       \* numbers
  Batch,       \* sequences of rows <<a, b>> that come in at once
  Engine,      \* the adapters a table may be summarised by
  BloomSize,   \* [bits, hashes]: the sizes try_new computes
  DoubleHash,  \* DoubleHash[k]: the two hashes of key k
  MaxU64,      \* u64::MAX, at which sums of hashes wrap
  Buckets,     \* bucket counts histograms are asked for
  GridSize,    \* <<a bins, b bins>> grids are asked for
  Precision,   \* the precision the adapters are called with
  MaxLen       \* bound: rows of a partition after merges

Row == (Value \cup {Null}) \X (Value \cup {Null})

ASSUME ValueAssumption == IsFiniteSet(Value) /\ Value # {} /\ Value \subseteq Int /\ Null \notin Value /\ NullKey \notin Value
ASSUME KeyAssumption == Value \cup {NullKey} \subseteq Item
ASSUME BatchAssumption == Batch \subseteq Seq(Row)
ASSUME EngineAssumption ==
  Engine \subseteq {"arrow", "unsupported", "polars", "duckdb", "cli", "bench"} \ {Null}
ASSUME BucketAssumption == Buckets \subseteq Nat
ASSUME GridAssumption == GridSize \subseteq (Nat \ {0}) \X (Nat \ {0})
ASSUME PrecisionAssumption == Precision \in Precisions
\* try_new clamps both sizes from below.
ASSUME BloomAssumption ==
  /\ \A size \in BloomSize : size.bits \in Nat \ {0} /\ size.hashes \in Nat \ {0}
  /\ MaxU64 \in Nat /\ \A k \in Item : DoubleHash[k] \in (0 .. MaxU64) \X (0 .. MaxU64)

VARIABLES
  engine,   \* the adapter in use, once one is: encodings are not to be mixed
  part      \* each partition's rows and summaries

summaryVars == <<vars, engine, part>>

----------------------------------------------------------------------------
(* What of a cell each adapter whose sketches a planner reads hashes: no   *)
(* key or one.                                                             *)

SkipNull(v) == {v} \ {Null}
TokenForNull(v) == {IF v = Null THEN NullKey ELSE v}

ArrowKeys(v) == SkipNull(v)
UnsupportedKeys(v) == {}
PolarsKeys(v) == SkipNull(v)
DuckdbKeys(v) == TokenForNull(v)
CliKeys(v) == TokenForNull(v)  \* the text of the cell, here the empty one
BenchKeys(v) == SkipNull(v)

Keys(e, v) ==
  CASE e = "arrow" -> ArrowKeys(v)
    [] e = "unsupported" -> UnsupportedKeys(v)
    [] e = "polars" -> PolarsKeys(v)
    [] e = "duckdb" -> DuckdbKeys(v)
    [] e = "cli" -> CliKeys(v)
    [] e = "bench" -> BenchKeys(v)

Column(rows) == [i \in DOMAIN rows |-> rows[i][1]]
KeysOf(e, rows) == UNION {Keys(e, rows[i][1]) : i \in DOMAIN rows}
NumbersOf(rows) == At(Column(rows), {i \in DOMAIN rows : rows[i][1] # Null})

\* add, for each of the keys: a register keeps the largest rank.
AddAll(s, keys) ==
  LET at(j) == {k \in keys : Index(s.precision, k) = j}
  IN [s EXCEPT !.registers = [j \in DOMAIN s.registers |->
        IF at(j) = {} THEN s.registers[j]
        ELSE Max({s.registers[j]} \cup {Rank(s.precision, k) : k \in at(j)})]]

HllOf(e, rows) == AddAll(Fresh(Precision), KeysOf(e, rows))

----------------------------------------------------------------------------
(* The Bloom filter.                                                       *)

NewBloom(size) == [num_bits |-> size.bits, num_hashes |-> size.hashes, bits |-> {}]

\* h1.wrapping_add(i.wrapping_mul(h2)) % m
BitIndex(h, i, m) == ((h[1] + i * h[2]) % (MaxU64 + 1)) % m

BitsOf(f, k) == {BitIndex(DoubleHash[k], i, f.num_bits) : i \in 0 .. f.num_hashes - 1}

\* insert, for each of the keys.
Insert(f, keys) == [f EXCEPT !.bits = @ \cup UNION {BitsOf(f, k) : k \in keys}]

\* Mutant: the sum wraps on insertion and not on lookup.
BloomContainsUnwrapped(f, k) ==
  {(DoubleHash[k][1] + i * DoubleHash[k][2]) % f.num_bits : i \in 0 .. f.num_hashes - 1} \subseteq f.bits

BloomContains(f, k) == BitsOf(f, k) \subseteq f.bits

ValidBloom(f) == f.num_bits > 0 /\ f.num_hashes > 0 /\ f.bits \subseteq 0 .. f.num_bits - 1

BloomOf(size, e, rows) == Insert(NewBloom(size), KeysOf(e, rows))

----------------------------------------------------------------------------
(* The equi-depth histogram.  A column with fewer than two numbers has     *)
(* none; boundaries are counted from 0 and buckets from 1.                 *)

Depths(sorted, asked) ==
  LET n == Len(sorted)
      b == Min({asked, n})
      cursor(i) == i * (n \div b) + Min({i, n % b})
  IN [boundaries |-> [i \in 0 .. b |-> sorted[IF i = 0 THEN 1 ELSE cursor(i)]],
      counts |-> [i \in 1 .. b |-> cursor(i) - cursor(i - 1)], total |-> n]

\* Mutant: the values are taken to be in order.
FromSorted(values, asked) == Depths(values, asked)

FromValues(values, asked) == Depths(Sorted(values), asked)

HasHistogram(values, asked) == asked >= 2 /\ Len(values) >= 2

ValidHistogram(h) ==
  LET b == Len(h.counts)
  IN /\ b >= 2 /\ DOMAIN h.boundaries = 0 .. b
     /\ \A i \in 1 .. b : h.boundaries[i - 1] <= h.boundaries[i]
     /\ h.total = FoldFunction(+, 0, h.counts)

Width(h, i) == h.boundaries[i] - h.boundaries[i - 1]
Touched(h, lo, hi) == {i \in DOMAIN h.counts : ~ (h.boundaries[i] < lo \/ h.boundaries[i - 1] > hi)}
Inside(h, i, lo, hi) == h.boundaries[i - 1] >= lo /\ h.boundaries[i] <= hi

\* Straddling buckets count by the part of their width that overlaps; the
\* common denominator stands for the sum of quotients.
EstimateRange(h, lo, hi) ==
  LET partial == {i \in Touched(h, lo, hi) : ~ Inside(h, i, lo, hi)}
      overlap(i) == Min({h.boundaries[i], hi}) - Max({h.boundaries[i - 1], lo})
      denominator == FoldSet(LAMBDA i, p : p * Width(h, i), 1, partial)
      share(i) == IF i \in partial THEN h.counts[i] * overlap(i) * (denominator \div Width(h, i))
                  ELSE h.counts[i] * denominator
  IN IF lo > hi THEN 0
     ELSE FoldSet(LAMBDA i, sum : share(i) + sum, 0, Touched(h, lo, hi)) \div denominator

----------------------------------------------------------------------------
(* The two-column grid.                                                    *)

NewGrid(size) ==
  [bins |-> size, a |-> <<0, 0>>, b |-> <<0, 0>>, total |-> 0,
   cells |-> [c \in (0 .. size[1] - 1) \X (0 .. size[2] - 1) |-> 0]]

BucketIndex(v, support, bins) ==
  IF support[2] <= support[1] \/ v <= support[1] THEN 0
  ELSE IF v >= support[2] THEN bins - 1
  ELSE ((v - support[1]) * bins) \div (support[2] - support[1])

Cell(g, row) == <<BucketIndex(row[1], g.a, g.bins[1]), BucketIndex(row[2], g.b, g.bins[2])>>

\* Pairs with a value that is no finite number are passed over.
Complete(row) == Null \notin {row[1], row[2]}

FromPairs(pairs, size) ==
  LET finite == {i \in DOMAIN pairs : Complete(pairs[i])}
      range(column) == LET vs == {pairs[i][column] : i \in finite} IN <<Min(vs), Max(vs)>>
      g == [bins |-> size, a |-> range(1), b |-> range(2), total |-> Cardinality(finite), cells |-> NewGrid(size).cells]
  IN IF finite = {} THEN NewGrid(size)
     ELSE [g EXCEPT !.cells = [c \in DOMAIN g.cells |-> Cardinality({i \in finite : Cell(g, pairs[i]) = c})]]

BucketSpan(lo, hi, support, bins) ==
  IF lo > hi \/ hi < support[1] \/ lo > support[2] THEN {}
  ELSE IF support[2] <= support[1] THEN 0 .. bins - 1
  ELSE BucketIndex(lo, support, bins) .. BucketIndex(hi, support, bins)

\* The sum of the counts of the cells in both spans, as the size of a disjoint
\* union.
EstimateCells(g, aLo, aHi, bLo, bHi) ==
  LET spanned == BucketSpan(aLo, aHi, g.a, g.bins[1]) \X BucketSpan(bLo, bHi, g.b, g.bins[2])
  IN IF g.total = 0 THEN 0 ELSE Cardinality(UNION {{c} \X (1 .. g.cells[c]) : c \in spanned})

\* Another layout is an error, unless one side is empty.
CompatibleGrids(g, o) == g.bins = o.bins /\ (g.total = 0 \/ o.total = 0 \/ (g.a = o.a /\ g.b = o.b))

Added(g, o) ==
  [bins |-> g.bins, a |-> g.a, b |-> g.b, total |-> g.total + o.total,
   cells |-> [c \in DOMAIN g.cells |-> g.cells[c] + o.cells[c]]]

\* Mutant: an empty grid keeps its own support.
MergedAsIs(g, o) == Added(g, o)

\* An empty grid takes the other's support.
MergedGrids(g, o) == Added(IF g.total = 0 THEN [g EXCEPT !.a = o.a, !.b = o.b] ELSE g, o)

----------------------------------------------------------------------------
(* The callers' operations.                                                *)

Nothing == [rows |-> <<>>, hll |-> None, bloom |-> None, grid |-> None]
Untouched == \A p \in Part : part[p] = Nothing

SummaryInit == Init /\ engine = Null /\ part = [p \in Part |-> Nothing]

\* A batch is summarised column by column.
Summarise(p, batch, size, bins) ==
  /\ part[p] = Nothing /\ sketch = [b \in Builder |-> None] /\ sidecar = None
  /\ engine' \in Engine /\ engine \in {Null, engine'}
  /\ part' = [part EXCEPT ![p] = [rows |-> batch, hll |-> HllOf(engine', batch), bloom |-> BloomOf(size, engine', batch),
                                  grid |-> FromPairs(batch, bins)]]
  /\ UNCHANGED vars

\* One partition's row by row filter goes on with another batch.
InsertMore(p, batch) ==
  /\ part[p] # Nothing /\ part[p].bloom # None /\ Len(part[p].rows) + Len(batch) <= MaxLen
  /\ part' = [part EXCEPT ![p] = [rows |-> @.rows \o batch, grid |-> None,
                                  hll |-> AddAll(@.hll, KeysOf(engine, batch)),
                                  bloom |-> Insert(@.bloom, KeysOf(engine, batch))]]
  /\ UNCHANGED <<vars, engine>>

\* Partitions whose grids fit are taken together; filters cannot be.
MergeParts(p, q) ==
  /\ p # q /\ None \notin {part[p].grid, part[q].grid}
  /\ CompatibleGrids(part[p].grid, part[q].grid)
  /\ Len(part[p].rows) + Len(part[q].rows) <= MaxLen
  /\ part' = [part EXCEPT ![p] = [rows |-> @.rows \o part[q].rows, bloom |-> None,
                                  hll |-> Merged(@.hll, part[q].hll), grid |-> MergedGrids(@.grid, part[q].grid)]]
  /\ UNCHANGED <<vars, engine>>

\* to_bytes and from_bytes; what validate() rejects is lost.
Reload(p) ==
  /\ part[p] # Nothing
  /\ part' = [part EXCEPT ![p] = [rows |-> @.rows, grid |-> @.grid, hll |-> IF Valid(@.hll) THEN @.hll ELSE None,
                                  bloom |-> IF @.bloom # None /\ ValidBloom(@.bloom) THEN @.bloom ELSE None]]
  /\ UNCHANGED <<vars, engine>>

SummaryNext ==
  \/ Untouched /\ Next /\ UNCHANGED <<engine, part>>
  \/ \E p \in Part, batch \in Batch, size \in BloomSize, bins \in GridSize : Summarise(p, batch, size, bins)
  \/ \E p \in Part, batch \in Batch : InsertMore(p, batch)
  \/ \E p, q \in Part : MergeParts(p, q)
  \/ \E p \in Part : Reload(p)

SummarySpec == SummaryInit /\ [][SummaryNext]_summaryVars

----------------------------------------------------------------------------
(* Properties.                                                             *)

Touching == {p \in Part : part[p] # Nothing}
Queries == Min(Value) - 1 .. Max(Value) + 1

\* "False negatives are impossible": a filter contains every key of its
\* rows, whatever size was computed for how many, and loads back.
NoFalseNegatives ==
  \A p \in Touching : part[p].bloom # None =>
    /\ ValidBloom(part[p].bloom)
    /\ \A k \in KeysOf(engine, part[p].rows) : BloomContains(part[p].bloom, k)

\* A range estimate errs by no more than the two buckets the range cuts, with
\* any duplicates and sizes that leave a remainder, is exact over the whole
\* support, and the histogram can be loaded.
HistogramWithinBuckets ==
  \A p \in Touching, asked \in Buckets :
    LET values == NumbersOf(part[p].rows)
        h == FromValues(values, asked)
        depth == Max({h.counts[i] : i \in DOMAIN h.counts})
    IN HasHistogram(values, asked) =>
         /\ ValidHistogram(h)
         /\ EstimateRange(h, h.boundaries[0], h.boundaries[Len(h.counts)]) = Len(values)
         /\ \A lo, hi \in Queries :
              LET truth == Cardinality({i \in DOMAIN values : lo <= values[i] /\ values[i] <= hi})
                  estimate == EstimateRange(h, lo, hi)
              IN estimate <= truth + 2 * depth /\ truth <= estimate + 2 * depth

\* A grid never answers less than the rows in a range, whose cells it counts
\* whole: at the ends of the support, when a column has one value only, and
\* after merges with partitions that were empty or had the same support.
GridCovers ==
  \A p \in Touching : part[p].grid # None =>
    \A aLo, aHi, bLo, bHi \in Queries :
      Cardinality({i \in DOMAIN part[p].rows :
          LET row == part[p].rows[i]
          IN Complete(row) /\ row[1] \in aLo .. aHi /\ row[2] \in bLo .. bHi})
        <= EstimateCells(part[p].grid, aLo, aHi, bLo, bHi)

\* The degree taken from a column's register floor and its row count bounds
\* every join key of it, whether the adapter that filled it skips nulls, counts them as one
\* more key, or does not know the column's type; nulls join nothing.
IngestedDegreeSound ==
  \A p \in Touching, v \in Value :
    LET rows == part[p].rows
    IN Cardinality({i \in DOMAIN rows : rows[i][1] = v}) <= FromHllFloor(Len(rows), part[p].hll)
=============================================================================
