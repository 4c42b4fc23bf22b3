# A formal model of samkhya

samkhya corrects the cardinality estimates of query engines. It gathers portable
statistics (sketches in Puffin sidecars), learns from recorded query outcomes,
and hands corrected row counts to an engine's optimizer, always below a
*provable ceiling* on what the query can return and never, by default, below
what the engine estimated itself. This directory holds TLA+ modules of the
parts where that promise is made, the TLC runs that check them on small
instances, and TLAPS proofs of the claims that matter most for every instance.

Paths below are relative to the repository; line numbers are at the modelled commit.

## 1. The system

Five layers, each used by the one below it:

| layer | what it does |
|---|---|
| portable statistics and sketches | summaries of columns, serialised into Puffin sidecars |
| feedback recorder | a SQLite file of (template, estimate, actual, features) |
| residual correctors | models that answer "the true row count is rather n", abstain or fail |
| ceiling | degree and product bounds that no correction may exceed |
| engine adapters | DataFusion, Iceberg, DuckDB, Postgres, Polars, Qdrant, Arrow, bindings |

### Inventory

**Join ceiling** (`samkhya-core/src/degree.rs`). State: a `JoinGraph` of relations
(row count, optional degree per attribute) and edges. Operations: three
`AttributeDegree` constructors, `with_degree`, `with_edge`, `ceiling()`. Sequential,
but with a union-find, a greedy tree for each root, early returns on saturation and
a fallback branch claimed to be unreachable. Correct when the number returned is never
below the true size of the join.

**Count-Min** (`sketches/cms.rs`) and **HyperLogLog** (`sketches/hll.rs`). State: an array
of saturating counters, or of registers. Operations: `try_new`, `add`, `merge`,
`to_bytes`, `from_bytes`. Partitions are sketched, merged and reloaded in any order. Correct
when the one-sided readings the ceiling trusts (`max_frequency_bound`, `nonzero_registers`)
really are one-sided.

**DataFusion pre-join rule** (`samkhya-datafusion/src/pre_join.rs`, with `SamkhyaStatsExec` of
`physical_plan.rs`). State: options, six shared atomic counters, the plan being rewritten.
Operations: install into a session; for each join input attempt, ask the corrector, clamp to a
ceiling, floor at the native estimate, scale the byte size, wrap. Concurrent planners share
the counters; joins higher up read statistics the rule has replaced below. Correct when a
correction can never make `join_selection` build on a side for being small, when the derived
ceiling is one, and when the counters tell what happened.

**Feedback store** (`samkhya-core/src/feedback.rs`). State: one SQLite file (table, version
stamp, columns, rows) and one connection per process. Operations: `open` (create, check
or stamp the version, add missing columns), `record`, `record_plan`, `history`, `plan_history`.
Several processes on one file, killed or told "busy" between statements. Correct when
an open handle is of a fully migrated store, history is faithful, ids are the right ones
and stores of newer builds are left alone.

**Legacy bounds** (`lpbound.rs`). `ProductBound`, `AgmBound`, `ChainBound`, `LpJoinBound` behind one trait, `UpperBound`, with a surface
that takes row counts, one that takes join predicates and one distinct count for each relation, and one for hypergraphs that solves a cover
program. Stateless calls. Correct when every answer keeps the trait's promise, an inclusive ceiling on the join as it was described.

**Bindings** (`samkhya-py`, `samkhya-wasm`). The same ceilings for Python and JavaScript, whose numbers are floats and whose
lists may be short, long or full of nonsense. Correct when what they turn into a join graph still bounds the join the caller described.

**Puffin** (`puffin.rs`), **portable statistics** (`portable.rs`, `stats.rs`) and **Iceberg loader**
(`samkhya-iceberg`). State: a byte stream with a position, a footer of blobs, the table's snapshots and statistics
entries, the load under way. Operations: add a blob, finish, open, find a blob, validate a bundle, load it fail-closed
or fail-open. Hard: partial writes, damaged footers, stale snapshots, one bad blob among good ones. Correct when
whatever is loaded is what was written for this snapshot, all of it or nothing, and nothing that is in order is refused.

**DataFusion table provider** (`table_provider.rs`, `stats_provider.rs`, `optimizer_rule.rs`). State: overrides by
ordinal around an inner provider. Operations: set an override, bind one from a portable snapshot, fold them into the
native statistics, scan. The table changes below it. Correct when an override never lowers a protected estimate, no
column gets another one's statistics, and nothing corrected passes as exact.

**Residual correctors** (`residual.rs`). Trained additive and tree models, and two HTTP clients with a timeout on each phase of a call. Operations:
fit, save, load, `correct`. They propose, abstain or fail. Correct when only usable outcomes train them, no answer exceeds its ceiling or is
made of a NaN, and no server can fail the query that asked; how long one may hold it is a finding (§6).

**Benchmark runner** (`samkhya-bench/src/runner.rs`, `report.rs`, `calibrate.rs`, `main.rs`). State: the feedback store, the model file, the JSON report
on disk, the outcomes in memory. Operations: `run`, `compare`, `train`, `calibrate`, query by query over trials. Hard: failing queries, servers and writes, time limits,
kills, reports that are rewritten in place. Correct when what is recorded is what the engine estimated and returned,
no model sees held-out queries, and nothing that finished is missing from the report.

**Benchmark data** (`imdb.rs`, `tpch.rs`, `synthetic.rs`, `puffin_io.rs`, `csv_to_parquet.rs`). State: raw files, converted files, sidecars. Operations: convert, build
sidecars, register a context, with or without corrections. Hard: rewrites in place that are killed half way, files that outlive their
source. Correct when a build heals whatever was there before, and the two arms of a comparison read the same data.

**Ablation runner and its statistics** (`bin/ablation_runner.rs`, `bench-results/scripts/*.py`). State: the feedback of one arm, its models, the records.
Operations: warm-up passes, training, measured cells, online refits; multiple-test correction and paired tests afterwards. Correct when
arms are compared cell by cell on the same data, models are asked with features like those they were trained on, and the tests are what their names say.

**Inference servers** (`samkhya-gpudb/scripts`). Two ports of an LLM server, two dummies and a TabPFN server. State: the process, its connections, upstream calls with timers.
Correct when the client gets a number or a neutral answer whatever the upstream does, in time where a call as a whole is limited, and a server told to stop does.

**Bloom filter, histograms, correlated pairs** (`sketches/`) and **column ingestion** (Arrow, Polars, DuckDB, CLI, benchmark sidecars). Summaries of a
column, fed by engines that each have their own idea of nulls. Correct when a filter has no false negatives, an estimate errs within its
buckets, a grid covers what it counted, and the distinct count of an ingested column may be trusted in a degree.

**Qdrant filter bounds** (`samkhya-qdrant`). Bounds on filters over one Count-Min sketch for each payload field. Correct when a recommended pre-filter fits its buffer.

**DuckDB adapter, DuckDB and Postgres extensions, GPU fallback, CLI, burst harness.** Glue, shims and stopwatches around the above.

PROJECT.json lists each of them with its source files and status, and under "hazards" the
lines where this code is hard to test.

### How the parts interact

A sketch enters the ceiling only through an `AttributeDegree`: `from_count_min` and `from_hll_floor` are
the two doors, and each comes with an obligation stated in its comment. JoinCeiling *assumes* those
obligations (its `HonestDegrees`), CountMin and HyperLogLog *establish* them (`CountMinDegreeSound`,
`HllDegreeSound`); together they give the path from a merged and reloaded sketch to a sound ceiling.
Sidecar treats a sketch as a payload of a column at a snapshot and says which ones a load hands out; TableProvider
takes a column's distinct count from such a load and publishes the statistics a scan starts with, which PreJoinRule then
reads as native. The ceiling, or one the rule derives from the plan, caps what a corrector answers in PreJoinRule. The
outcomes of executed queries go to FeedbackStore, from which correctors are trained offline: BenchRunner has that loop, with Correctors as
what a model and a call to a server may do, InferenceServer as the other end of that call, and FeedbackStore's history as the append-only log that ObservationLog describes. Corpus
stands where a benchmark's TableProvider gets its overrides from: it extends that module, and its contexts are the wrapped providers whose scans
TableProvider publishes. ColumnSketches extends HyperLogLog, FilterBounds CountMin, and LegacyBounds and Bindings build the graph whose
`ceiling()` JoinCeiling computes. UpperBound says, without any of this, what all of these ceilings promise.

## 2. The modules

| module | models | configuration | proofs |
|---|---|---|---|
| `UpperBound` | the trait's promise, abstractly | `MCJoinCeiling` (as `KeepsPromise`) | `JoinCeilingProofs` |
| `JoinCeiling` | `degree.rs`, `ProductBound` | `MCJoinCeiling` | `JoinCeilingProofs` |
| `LegacyBounds` | `lpbound.rs` | `MCJoinCeiling`, `MCChainBound` | `JoinCeilingProofs` |
| `Bindings` | `samkhya-py`, `samkhya-wasm` | `MCJoinCeiling` | `JoinCeilingProofs` |
| `CountMin` | `sketches/cms.rs`, `from_count_min` | `MCCountMin` | `CountMinProofs` |
| `FilterBounds` | `samkhya-qdrant` | `MCCountMin` | `CountMinProofs` |
| `HyperLogLog` | `sketches/hll.rs`, `from_hll_floor` | `MCHyperLogLog` | `HyperLogLogProofs` |
| `ColumnSketches` | Bloom, histogram, grid, ingestion by engine | `MCHyperLogLog` | `HyperLogLogProofs` |
| `PreJoinRule` | `pre_join.rs`, `physical_plan.rs` | `MCPreJoinRule`, `MCPreJoinOuter` | `PreJoinRuleProofs` |
| `TableProvider` | `table_provider.rs`, `stats_provider.rs`, `physical_plan.rs` | `MCTableProvider` | `TableProviderProofs` |
| `Corpus` | benchmark tables, conversions, sidecars, contexts | `MCTableProvider` | `TableProviderProofs` |
| `FeedbackStore` | `feedback.rs` | `MCFeedbackStore` | `StorageProofs` |
| `ObservationLog` | what the feedback store promises, abstractly | `MCFeedbackStore` (as `AppendOnlyLog`) | `StorageProofs` |
| `Sidecar` | `puffin.rs`, `portable.rs`, `samkhya-iceberg` | `MCSidecar` | `StorageProofs` |
| `Correctors` | `residual.rs` | `MCBenchRunner`, `MCDribble` (and inside `Ablation`) | `BenchRunnerProofs` |
| `PlanWalk` | the walks of `runner.rs` over physical plans | `MCBenchRunner` | `BenchRunnerProofs` |
| `BenchRunner` | `runner.rs`, `report.rs`, `calibrate.rs`, `main.rs` | `MCBenchRunner`, `MCDribble` | `BenchRunnerProofs` |
| `InferenceServer` | `samkhya-gpudb/scripts` | `MCInferenceServer` | `ExperimentProofs` |
| `Ablation` | `bin/ablation_runner.rs` | `MCAblation` | `ExperimentProofs` |
| `Aggregation` | `benjamini_hochberg.py`, `wilcoxon_paired.py`, pairing in `aggregate_ablation_16.py` | `MCAblation` | `ExperimentProofs` |
| `Ranking` | sorting by place, used by `ColumnSketches` and `Aggregation` | `MCHyperLogLog`, `MCAblation` | `HyperLogLogProofs`, `ExperimentProofs` |

### JoinCeiling

The state is that of `ceiling()`'s loops: `label` is what the union-find's `find` returns for each relation
(path compression changes no answer and is left out), `groups` the components still to bound, `component`,
`best`, `roots` the loop in `component_ceiling`, `visited` and `bound` the loop in `spanning_tree_ceiling`, `total`
the product in `ceiling()`. One action per loop iteration or branch: `Union`, `Group`, `NextComponent`,
`MultiplyRows`, `TryRoots`, `PlantTree`, `Attach`, `FinishTree`, `MultiplyComponent`, `Return`. `AddRelation` and
`WithEdge` are the builder calls; edges that leave the graph or join a relation to itself are dropped,
as `with_edge` does. Ties between factors and edges are broken as the code's loop does.

Beside this the state has what the code never sees: `table`, the instance. `Join(S)` is the set of row
combinations of the relations in S that agree on every edge between them. `HonestDegrees` is every degree a
caller that honours the constructors' comments can register, taken against a row count that may be
up to `Stale` rows old.

### UpperBound, LegacyBounds and Bindings

`UpperBound` has three variables: whether the join is being described, was asked about or is answered, the rows it emits, and the answer. It allows one answer, never
below the rows, with `MaxU64` as the answer that says nothing. `LegacyBounds` extends `JoinCeiling`: `DegreeGraph` is the loop of `degree_graph` that turns one distinct
count for each relation into degrees on every attribute it joins on, after which JoinCeiling's actions run; `CallProduct`, `FoldRows`, `ReturnProduct` are the
providers that only multiply; `CallHypergraph` is `ceiling_hypergraph`. Its cover program is solved by enumeration of half-integral weights, which is exact where attributes pair two relations, and its
objective as a product rather than as an exponential of a sum of logarithms. `EveryKey` says what a caller's distinct count is of: of every key of
the relation, or, as the text of `lpbound.rs:97-98` allows, of one of them.

`Bindings` adds the entry points of Python and JavaScript: numbers are multiples of a half, infinite or NaN, `ToRowCount` is
`to_row_counts`, which truncates, saturates and makes 0 of what is no count, and JavaScript's flat list of endpoints may have an odd one at its end. Row counts come in as such numbers too, one for each relation: `RowLists` are those that
`to_row_counts` reads as the rows of the tables, so that a table of no rows may come as NaN or a negative number, one of two rows as 2½. A list of distinct counts has any length up to `MaxLength`, what is behind the last relation being read by nobody. `KeepsPromise` is `UpperBound!Spec` under the mapping that calls a graph under construction
"describing", a running call "called" and a returned one "answered".

### CountMin and HyperLogLog

`sketch[b]` is a sketch somebody holds, `sidecar` the stored bytes, and `stream[b]`/`seen[b]` what the
sketch *stands for*, maintained by the actions and not visible to the sketch operators. `New`, `Add`, `Merge`,
`Store`, `Load` are the public operations; `Damage` replaces the stored bytes by some that decode to a structure
that is no sketch, which `validate()` must reject. Hashes are a constant function from
keys to words, so that TLC meets collisions and the proofs hold for any hash. `SaturatingAdd` is u32
and u64 `saturating_add`.

### FilterBounds

`Index` sets up a collection's points from scratch and the sketch of each payload field they fill; `Search` asks for every filter of a set, with any subset
of the fields sketched. A builder of CountMin stands for the field it counts, so that the same saturating sketches are used. `points` counts a collection's points by payload;
`Sum` is the code's loop, which stops at the collection's size.

### ColumnSketches

A partition (`part[p]`) holds the rows summarised so far and four summaries of them: HyperLogLog, Bloom, histogram, grid. `Summarise` ingests a batch, `InsertMore` adds
one to the summaries that take more, `MergeParts` merges two partitions, `Reload` goes through bytes and `validate`. `Keys` says for each engine which cells become keys: Arrow, Polars and the benchmarks skip nulls,
DuckDB and the CLI hash a token for them, and an unsupported Arrow type yields none. What a batch adds is the *set* of its keys: `add` and `insert`
are idempotent and commute, so that neither order nor repetition shows in a register or a bit. Two engines render one value to different bytes, so one table
is summarised by one engine here; §6 says what that leaves to callers. A sort is `Ranking`'s: the `Place` of an element is the number of elements at or before it, which is what a stable sort has, and the buckets of a histogram
are the runs of places between its cuts.

### PreJoinRule

Each planner walks its plan bottom-up as `transform_up` does. The steps of `correct_input`, between which
other planners may run, are actions: `Attempt` (counter, then the corrector is called), `Abstain`, `Fail`, `Propose`
(its three outcomes), `Clamp`, `Floor`, `Apply`. `Visit` reads the statistics of *both* inputs before
either is corrected, as `correct_join_inputs` does. `PublishedRows` is `statistics()`: a wrapper's own
statistics, a scan's, or DataFusion's estimate from the inputs' (an external constant operator). `TrueRows`
is what the nodes really emit. `Install` moves the rule in front of `join_selection`, removing earlier copies.
A plan is given by `Inputs`, and `Joins` is the order in which `transform_up` reaches its joins: DataFusion's, so a constant, of which
`OrderAssumption` says no more than that it comes from the leaves of a tree. `EstimateAssumption` says of DataFusion's
estimates no more than that they are row counts: its products are not checked for overflow (`pre_join.rs:35-42`), so that larger inputs may make an estimate smaller, and the run's estimates wrap around.

### FeedbackStore

A SQL statement is one action, because SQLite commits each on its own. `Open` creates the table, `CheckVersion` reads
the stamp, `Stamp` writes it, `Inspect` reads the column list, `AddColumn` is one `ALTER TABLE`, `Opened` returns
the handle; `Insert` and `Return` are the two statements of `record_plan` (insert, then `last_insert_rowid()`). `Crash` kills
a process between any two statements; `Busy` makes a statement of `open` fail while somebody else is connected.
`Encoded`, `PlanHistory` and `History` model the casts between u64 and SQLite's signed integers as the code does
them. `log` and `acked` record what the callers were told.

`ObservationLog` says what all this is good for without SQL, words or versions: an outcome is recorded in one step or not at all, is read as it was
recorded and stays where it is, and a caller is told the place of its own. `AppendOnlyLog` is `ObservationLog!Spec` under the mapping that
takes the log to be what the two histories give back of the rows (`ReadBack`), a caller to be pending once its insert is committed,
and every statement of an `open` to be a stutter.

### BenchRunner, PlanWalk and Correctors

A campaign is a sequence of commands on one store, model file and report. `Open` opens what a command needs, and then the suite is walked by position, passing over the queries a command does not ask for and those without SQL, and each query goes through `plan`, `correct`, `execute`, `record`, `flush`, with
an action for every outcome the code distinguishes: an engine that fails, a time limit, a corrector that abstains or fails, a write that fails.
A report is written by truncating and writing, two steps between which a kill leaves nothing. Plans, and with them estimates, features and joins, are indexed by the `--baseline`
flag: without the statistics of samkhya the engine may choose another plan (`runner.rs:766-771` beside 772-876), while the rows returned are the same. `compare` is a baseline and a corrected run in one process; `calibrate` collects, fits and runs again in memory. PlanWalk computes what
`walk_plan` computes from a plan, the pre-order list of joins before execution, and the second walk that pairs metrics with it by position. Correctors says which outcomes a model is
fitted to, which vector each becomes, and which set of answers `correct` may give: predictions are any number of `Prediction`, also NaN. A call to a server
has the phases connect, write and each read, each with the limit `timeout_ms`; the server may refuse, stall in any of them, answer a number, words or nothing, or send part after part without
ever ending (`Part` has no bound; parts are counted modulo `MaxParts + 1`).

### InferenceServer

One connection is a request, a task in the server and perhaps an upstream call with its age, its silence and its parts. `Checks` lists what each check answers, in the order of the code.
`Ask` calls the upstream, `Part`, `Answered`, `Fails`, `Misshapen` are what it may do (`Part` any number of times, which are counted up to `MaxParts`), `Neutral` and `Crash` what an exception becomes that is caught or is not, `Abort` is what a deadline does, `Deliver` hands the response to a client that is still there. A blocking backend in Python's async handler
holds up every other request and the health probe (`Blocked`). `Shutdown`, `Close` and `ForcedExit` are the signal handler with its grace
period, `Kill` a kill. A deployment may have a prompt template with braces of its own, which Python's `format` cannot render. Only what the server computes by itself takes no time; `Tick` advances all clocks and never passes a point at which something is due.

### Corpus

Two tables whose dump, converted file, legacy subdirectory and sidecar may each be there, hold one of two contents, be malformed or torn. `Convert` and `Build` are commands of several steps (read, open, mark the row count, add the columns, finish; the build of a synthetic table opens its sidecar before it reads, that of an IMDb table after), each of which may fail or be killed between
two writes. `RegisterTables` is what the runner does for the IMDb as CSV or Parquet, TPC-H or the synthetic tables: which files it
reads, which sidecars it loads, what it falls back to, and what makes it fail. A registration sees the files of one moment.
The provider of one table, `Focus`, is then scanned by TableProvider's action.

### Ablation and Aggregation

One arm at a time, its own store: `OpenStore`, `WarmUpQuery` for each pass, `Train`, `MeasureQuery` for each cell (the estimate is composed layer by layer before its
outcome is stored), `EndReplicate` with V3's refit, `WriteRecords`. A model is the length of the history it was fitted to, its predictions are
any number; the prior features are the history they were computed from. `Aggregation` has the two Python procedures over integers: p-values in
sixths, sorted by the `Place` each has among them (`Ranking`: how many are at or before it), the paired test with its three ways of `wilcoxon_paired.py`. Without SciPy and up to `MaxCounted` pairs that differ (25 in the code) the null distribution is enumerated over the sign assignments, and the
p-value is a count out of a power of two; above that it is the normal distribution's at a deviation, of which the model keeps the three numbers that decide it (`w`, `mu`, `var`). Where SciPy is installed its own test is called, which is
external: the answer says only that it is SciPy's. The properties state the tail and the moments with sums over sign assignments and mean ranks defined without sorting.

### Sidecar

A file is a sequence of cells: a magic number, the footer's JSON, its length, the flags and each part of a payload are a
cell, so that an offset or a length that is off by one shows. `Create`, `AddBlob` and `Finish` are the `PuffinWriter`; an
operation reaches the file in one step, and `Killed` leaves any proper prefix of what one writes. This loses no
interleaving: until the last cell of a footer is there a reader makes nothing of a file (`Opens`), so all it could see
of an operation under way is what `Killed` leaves. `given` and `finished` record what the callers handed to writers.

`Commit` and `AttachFile` are the Iceberg catalog, which is external. `LoadLocal` and `LoadTable` start the two loaders;
`OpenSidecar` opens one file and keeps its footer, `SkipBlob` and `LoadBlob` go blob by blob, `Publish` validates all
blobs together. `request` is what was asked for, and blob i of the n-th sidecar is `load.blobs[<<n, i>>]`, so that what was
loaded can be told apart by where it came from. Writers and the table take steps between any two of them. `LoadTable` keeps the table handle it was
called with, as the code does, so its snapshot is fixed at the call. `ColumnStatsFromPaths` is the fail-open projection to a schema.
The loader of a table reads through the iceberg crate, which is modelled as a reader of the same format that also demands a snapshot id
on every blob. Sidecars are written once, as `docs/SEMVER.md:45` has it; `puffin pack` truncates and rewrites in place, which is listed as
a hazard that no property covers. The `zstd` feature is on. Payloads decode when they have the kind's header and length: nothing in the format ties their parts
together, and the model does not pretend otherwise.

### TableProvider

`native` is what the inner provider's `statistics()` answers, `inner` the row count of the plan its `scan` returns; DataFusion
keeps these two apart, and `Change` lets both change at any moment. `WithColumnStats` and `TryWithPortableStats` are the two builder calls; a failed
binding consumes the wrapper (`built`). `Statistics` is the fold of `statistics()`: the distinct count of each column by `MergeColumnStats`, the
row count by `GuardedRows` over the largest override, the byte size by `Relaxed`. `Scan` publishes it under a projection, as the `SamkhyaStatsExec` around
the inner plan, and records the statistics it was made of, so that the properties compare what is published with what was there
when the scan was planned. Null counts, bounds and sums, for which an override simply wins, are left out.

## 3. The runs

**join_ceiling** (about 1.2 million states). A triangle of three relations over three
attributes: no edge, a chain, the cycle, a repeated edge among dropped ones; instances of at most two rows over two key
values (empty tables, hubs, duplicates, dangling rows); every mix of absent, exact and loose degrees, row counts one row
stale; `MaxU64 = 7`, so that 2·2·2 saturates and 2·2 does not. Two rows per table is the least at which degrees differ from row counts;
three relations the least with a cycle, and with a tree whose factor depends on the direction of an edge. The bindings' numbers are −½, 1½, 2, 20 and NaN: one below
zero, one that a cast truncates, one honest, one above every row count, one that is none; lists of distinct counts are up to one longer than the relations (`MaxLength = 4`). Shows that the ceiling is sound
(`CeilingSound`) and that every surface implements the abstract promise step by step (`KeepsPromise`).

**count_min** (about 368 000 states). Two places, three keys with collisions in either row of a 2×2 sketch, a 1×2 sketch, a refused 0×2
one; u32 saturates at 3 and u64 at 4 within streams of up to 4 rows. Shows that an unsaturated sketch never undercounts (`NeverUndercounts`), that the degree is a bound whether
it is saturated or not (`CountMinDegreeSound`), and, over collections of up to 4 points with two fields, missing values and six filters with unions, repeated values, negations and unbounded conditions, that a recommended
pre-filter fits (`PreFilterFits`).

**hyper_log_log**. Four keys under a 5-bit hash at precisions 1 and 2: keys that share a register with different ranks, a key
whose remaining bits are all zero, a precision that is refused. Two partitions of up to seven rows in batches with nulls, duplicates, one value only
and in descending order, for an engine that skips nulls, one that hashes them and a type that is not supported; Bloom filters whose positions wrap; histograms of two and three
buckets, which divide some of the lengths and not others; grids of 2×3 cells. Shows `HllDegreeSound`, `NoFalseNegatives`, `HistogramWithinBuckets`, `GridCovers` and
`IngestedDegreeSound`. The two builders are symmetric.

**pre_join** (about 437 000 states). Two planners: one plan of two joins over a filter, one over an empty scan and an unknown one. Scans
report stale counts and missing byte sizes. Four option records (floor on and off, derived ceilings on and off, a
tight and a loose operator ceiling). Correctors answer 2, 6 or 15 against `SAFE_MAX_ROWS = 7` and a u64 of 15, at which DataFusion's products wrap, abstain or fail,
while the rule is installed up to twice: an answer below, one between and one above what the scans have, and the largest word. Shows that no answer is published below what DataFusion itself says of the node over the inputs as they are by then,
nor above what the *already corrected* inputs, the operator and the sanity cap allow, and that a node comes below its native estimate only where DataFusion's product overflowed (`WithinEnvelope`), that a derived ceiling never cuts a correct correction of an inner join, filter or scan (`TruthSurvives`), and
that the counters agree with the plans at every moment, with no input corrected twice (`CountersAddUp`).

**feedback**. Two processes; a new file, one from before the stamp, one stamped but without the feature
columns, one half migrated by a kill, one of a newer build. Words of four and two bits, so that the
upper half is stored negative. Three of the six feature columns: one that may be unknown, one `record_plan` always sets, one more.
Three rows, two faults. Shows `OpenMeansMigrated`, `HistoryFaithful`, `OpensEventually`, `NewerUntouched` and, through the refinement `AppendOnlyLog`, that an id is that of the caller's own row and that nothing a caller can see is lost, changed or moved.

**sidecar** (about 4.6 million states). Two paths, one of which may hold a file of another tool: a readable one without snapshot ids, one
with half of them, one whose range leaves the payload region, one of a later schema version. Up to two blobs from an uncompressed HLL of field 1, a
compressed HLL of field 2 and a Bloom filter, each with or without a snapshot (`MaxAdded = 2`: two blobs in one file, or one in each, which is
where bundles conflict); one killed writer (`MaxTorn`), two snapshots (`MaxSnapshot`: the current and a stale one), two statistics entries
(`MaxAttached`). Callers name both files out of order, or one file twice, with or without a snapshot. One load: the constraint
`Bounded` stops at its end, since nothing depends on it later. Shows that a successful load holds exactly what finished writers were given
and a failed one nothing (`LoadsExactlyWhatWasWritten`), that what is loaded for a snapshot describes it (`SnapshotConsistent`), that a column's distinct
count is of the one sketch there is of it (`DistinctCountIsOfItsColumn`), and that sidecars with nothing wrong are never refused (`FailsForAReason`).

**table_provider** (about 115 000 states). Two columns, a snapshot with sketches of fields 1 and 2 and only a histogram of field 3; four override records, also on
an ordinal that does not exist; native counts absent, exact or not, below and above the overrides; projections that reorder and that drop
columns. The constraint `Bounded` stops at the first scan, which later steps do not look at. Two columns are the least at which a column can be
mistaken for another; two native counts give one below and one above each kind of override. Beside it two tables of two contents each in the four corpora, of which builds and conversions
are killed or fail between any two writes while dumps are replaced: two tables are the least at which a command may stop between them, two contents the least at which a file may be
stale. Shows `MemoryMonotone`, `DistinctCountsAreOfTheirColumns`, that one build over the files that are there heals everything (`RebuildHeals`),
and that the overrides of a table are all of one state of it (`OneBuild`).

**bench_runner** (about 177 000 states). Eleven campaigns of one to three commands: collect, train and evaluate; a corrector over HTTP, an additive one, one that fails, the stub; calibrate with and without a store;
compare; a suite whose data is absent. Four queries: one that is estimated too low, one without SQL, one without an estimate, one held out. Plans of eight nodes with every join operator the code names, nested and shared. `MaxFaults = 2`
failures of engine, disk or process, `MaxParts = 2` parts of a server's answer. One query is planned as another join without the statistics of samkhya, and one
campaign collects on such plans before it trains and evaluates on the others. Shows `ObservationsMatchOutcomes`, `HeldOutUnseen`, `LossIsTimeouts`, `CorrectorContract`, and that a call to a server ends unless the server sends parts for ever (`CallsEnd`).

**inference_server** (about 447 000 states). Two connections, the nine pairs of a server and a backend, a prompt template with braces for two of them, six requests of which one is a corrector's. Limits of 15, 55 and 60 seconds are 2, 3 and 4 ticks, which
keeps their order; parts of a body come in any number, of which the state only keeps whether there was one (`MaxParts = 1`): each restarts a timer. Shows `NeutralUnlessAnswered`, `OutlastsBackend` and `EveryRequestEnds`.
The latter promises an end of requests where a call as a whole has a limit (`Limited`): Python's local backend limits each read and the SDKs are the vendors', so of those it says only that a server told to stop exits. Two connections are the
least at which one can hold up the other.

**ablation** (about 1.1 million states). Two queries, one with a ceiling, three replicates, no refit or one every two replicates, one or two warm-up passes, the three variants, all arms together and each alone, three data sets in which
estimates collapse to zero, results are empty, or both; all vectors of up to four p-values in sixths at level one half, and all samples of up to four pairs out of three numbers and null, with SciPy and without, of which up to three pairs are enumerated (`MaxCounted = 3`): ties of opposite signs need three pairs to tell mean ranks from others, and a fourth gives the normal approximation every pattern of ties. Three replicates
are the least in which a refit is followed by a cell; four p-values leave room for failing ranks before one that passes, and for ties. Shows `PairedCells`, `TrainedAsUsed`, `StepUp`, `ExactTail` and `NormalMoments`.

**pre_join_outer** and **chain_bound** are disagreements met, see section 6; there are others that no run shows.

Every property of a passing run has a mutant, a plausible bug placed in a definition of the module
(a dropped guard, a factor taken from the wrong end of an edge, a maximum instead of a sum, a counter bumped on the wrong
path), under which TLC finds it violated. The mutated operators stand beside the definitions they replace.

### Fairness

`FeedbackStore!FairSpec` has weak fairness on the steps of `open` (a process that runs goes on to its next statement, and a caller
whose open failed calls it again) and on the return of an inserted row's id. Nothing is fair about inserts, closes, kills or busy
statements; kills and busy statements are bounded by `MaxFaults`, without which nothing could be promised.
`BenchRunner!FairSpec` has it on the runner's own steps, and on the limit of each connection, write and read of a call to a server, each by itself: a limit that starts over with every part (`residual.rs:865-870`, 1100-1104) is never continuously about to expire while parts arrive. Neither the engine nor a server is assumed to
answer, nor the query's own limit to be seen. `InferenceServer!FairSpec` has it on the passage of time and on what the server does by itself; an upstream and a client need never do anything. The other
specifications have no fairness and no liveness property.

`CHECK_DEADLOCK FALSE` stands only in `MCJoinCeiling.cfg` and `MCChainBound.cfg` (the call returns once), in `MCPreJoinRule.cfg` and
`MCPreJoinOuter.cfg` (the planners finish), and in `MCAblation.cfg` (a program that ends).

## 4. The proofs

All theorems are of the specifications above, for every value of the constants that satisfies the named assumptions, and rest on
nothing that is not proved in these files or in the library's theorem modules.

**JoinCeiling.** `Typed`, `SpanningTreeBound`, `CeilingIsSound`, `TreesSpan`. `CeilingSound` is not inductive: it speaks of the last
state only. The inductive invariant `IInv` adds, for every loop, what its running value bounds: registered degrees bound the
degrees of the tables (`Honest`), the tree bound the join over `visited`, `best` the join over `component`, `total` the
join over the relations of finished components, and that edges never cross components. The heart is `JoinOverEdge`: when relation
q is attached to S over an edge on a, the join over S ∪ {q} injects into Join(S) × 1..d, d a bound on how many rows
of q carry one value of a. `JoinOfDisjoint` gives the product over components. `FromDistinctSound` and `FromUpperBoundSound` show that
the constructors turn honest readings into bounds: of n rows with at least d distinct values at most n − d + 1 share one. `TreesSpan` needs a
second invariant, `Connected`: the labels partition the relations, and a set of relations with one label that is closed under the
edges seen so far is the whole class.

`SpanningTreeBound` and `TreesSpan` are facts about the loops that no run repeats.

**LegacyBounds.** `LegacyCeilingIsSound` and `LegacyBoundsKeepPromise`, for `LegacySpec` under the assumption that a distinct count is honest about every key of its relation (`EveryKey`). The first extends
JoinCeiling's invariant by the state of the fold: the running product bounds the join over the relations it has visited, as `JoinOfDisjoint` has it for
one relation more, and degrees made of one honest count are honest degrees. The second is the refinement of `UpperBound`: initial states map to initial states, the
step that leaves "build" is `Call`, the one that reaches "done" is `Answer`, every other step stutters. Without the assumption the first is false, which is what run chain_bound shows.

**Bindings.** `ScriptsAreSound`, `ScriptsKeepPromise`, for `ScriptSpec`: LegacyBounds and every call a Python or JavaScript caller can make of it, with row counts that `to_row_counts` reads as the tables' rows, lists of distinct counts of any numbers and any length (`MaxLength` is any number), pairs that leave the graph or join a relation to itself, and an odd index too many. Distinct counts are
understated or unknown (`Understated`), never above those of any key. `Flattened` is a recursive function; that it lists just the ends of the pairs is shown by the least length at which it would not (`FlatEnds`), and then
the pairs arrive as they were sent (`PairsArrive`). A degree made of a number, after Rust's cast, is absent, no more than honest, or the row count (`DegreeInSound`). The script also gives degrees to the ends of pairs that `with_edge` later drops, of which nothing honest can be said, so `Honest` speaks of the attributes
that edges join on alone, and the invariant adds that no edge is there before the relations are.

**CountMin.** `Typed`, `EstimateIsSound`, `DegreeIsSound`. Invariant: every held or stored sketch is well formed and *covers* its stream: each
counter a key hits is at least the key's count, or saturated.

**FilterBounds.** `PreFiltersFit`, `SoundBeside`, for any filters, payloads and sketches. The invariant adds `Tallied`: the streams count the points with each value. Then `BoundValue` bounds the points with one value (`ValueWithinBound`), and `Sum` a union of
sets within the bounds it adds up (`UnionWithinSum`, by the least prefix at which it would not), which serves the values of a condition and the conditions of `should` alike.

**HyperLogLog.** `FloorIsSound`, `DegreeIsSound`. Invariant: each nonzero register
has a witness among the keys that falls on it; since a key falls on one register, the nonzero registers inject into
the keys.

**FeedbackStore.** `Typed`, `HandlesAreMigrated`, `AcksAreDurable`, `HistoriesAreFaithful`, `StoreIsALog`, `NewerStoresAreLeft`, for any number of processes, columns and rows and any
bound on faults. Invariant: a connection past the stamp implies the version, one at column k has columns 1..k−1 in the table, whether it
saw them, added them or lost a race for them; the log is encoded in the rows, which only grow; and an insert that has not returned yet
holds its own row's id. `HistoriesAreFaithful` adds to this that a word comes back from the signed integer it is stored as, for any width, and that a history selects from the rows just
what the log has of its template. `StoreIsALog` is the refinement of `ObservationLog`: an insert appends what it was told (`RecordedTold`, which needs the same round trip through signed
integers), a return acknowledges the row that is still the caller's own, a kill of a process between the two is the abstract death, and everything else leaves log and callers alone. `NewerStoresAreLeft` says that the stamp, the columns and the rows of a newer build's store stay; a missing table may be created, since `SCHEMA_V1` runs before the version is looked at. `AcksAreDurable`, that
an acknowledged id names its observation's row in the file as well, is the part of the invariant it rests on; no run repeats it, `AppendOnlyLog` says it of what can be read.

**Sidecar.** `LoadsWhatWasWritten`, `LoadsOneSnapshot`, `CountsItsOwnColumn`, `LoadsWhatIsLoadable`, for any paths, blobs, kinds and sizes, any files another tool left, damaged ones included, and any number of writers,
kills, commits and attachments. `SidecarInv` is one invariant of each file and one of the load. Of a file (`FileInv`): under an open writer the blobs recorded for the footer account for its cells (`Ledger`: offset, length, codec and content of each,
and that a snapshot named is the one the sketch is of), and the flags cell is not there yet, nor in what a killed writer left, except as the last one, so that nothing opens it (`NothingToOpen`); one that was finished is `Whole`. A load opens files nobody writes any more
(`Sealed`), and every step of a writer, the table or the caller leaves those as they are (`FilesStep`). Of the load (`ReadUpTo`): of the finished sidecars it has passed it holds the supported blobs, each as `Delivered`, and no other. `ReadsBack` is the heart of it: a range that is accounted for is cut out and
decoded into the sketch that was added. A refusal is never of sidecars with nothing wrong (`RefusedForAReason`, in every failure branch).
`CellsDiffer` rests on the cells' tags, not on bytes: a writer killed where the bytes of a payload happen to end in a whole footer is outside the abstraction.

**TableProvider.** `Typed`, `NeverBelowNative`, `FieldsAreNotOrdinals`, `CorrectedIsInexact`, for any table, snapshot, projections, overrides and
native statistics. The invariant adds `Bindings`: a column bound to a field still holds that field's distinct count, since an override that
replaces it also ends the binding. `RowsAnswered` and `ColumnAnswered` say what `statistics()` answers in any such state, and a scan publishes
just that.

**Corpus.** `BuildsHeal`, `OneBuildEach`, `CorpusProviders`, for any tables and contents. `CorpusInv` says of every sidecar that has a footer that it was written whole from one
content (`FooterLast`), of a build under way what it holds in hand and has written (`Walking`, `UnderHands`), that the tables behind it are healed (`HealedBehind`), and of an intact corpus that all are. A change of a dump
ends `intact`; that a kill or a failure cannot leave a footer over a mixture is where the order of the writes matters. A registered context carries what it read (`Registration`), and `CorpusProviders` carries TableProvider's
theorems over to the providers of a corpus.

**ColumnSketches.** `FiltersMissNothing`, `GridsCoverRanges`, `HistogramsAreAccurate`, `IngestedDegreeIsSound`, `DegreeIsSoundBeside`, for any rows, engine, hashes and sizes. `ColumnInv`: the registers of a partition are witnessed by keys of its rows, and its filter
holds the bits of all of them. Of n rows whose keys are at least c distinct ones, at most n − c + 1 share a cell, since rows that share a cell share its key; nulls, which have a key or none depending on the engine, never join. Of a grid, the invariant says that every
row with both values lies in its support and that each cell counts at least the rows that fall on it (`Counts`), through merges with an empty side on either hand. Division is monotone, so the rows of a range fall on
cells between those of its bounds (`SpanHoldsBucket`), and they inject into what these count (`CountedByCell`). `Value` is finite and not empty, which only the range of the queries needs.
`HistogramsAreAccurate` is about one histogram: places put a column in order (equal values are next to each other), the buckets are runs of places that cover it, so that the counts of those between two bounds, a fold over a finite set, are the rows between two cuts; a range lies between cuts
except in the at most two buckets its bounds fall on, and the fraction taken of those is between nothing and their depth. Its attempt showed that `EstimateRange` lacked the early return of `histogram.rs:176` for a lower bound above the upper one, which the run's queries did not tell apart; the guard is there now.

**PreJoinRule.** `Typed`, `StaysWithinEnvelope`, `TruthIsNotCut`, `CountersAgree`, for any plans, number of planners, answers and options, and any estimates. What a node publishes is a recursion over the plan, and an
induction theorem cannot be instantiated; the proofs take a counterexample of least height instead (`FromTheLeaves`), from which they get that the recursive function exists (`Published`), its type, and that a wrapper changes nothing of a node it is not below (`Elsewhere`, `EngineElsewhere`).
The invariant has for each planner where it is (`Placed`), that the statistics noted before either input was corrected are still DataFusion's own of the inputs to come (`Noted`), that the
answer under way respects its ceiling and its floor (`Bounded`), and that what is wrapped lies behind the planner and is in its envelope (`Enveloped`): since the walk is from the leaves, nothing below a wrapped node changes later, which is why the
ceiling it was cut to is still the ceiling derived from its inputs, and the floor it was raised to still DataFusion's estimate. Nothing is assumed of that estimate but its type: a node published below its native estimate is traced down
to the lowest such node, whose estimate fell though those of its inputs did not (`Overflowed`). The counters need a second invariant, `Counted`, with the sets they count: the inputs tried so far,
the wrappers, and the planners between two steps. `Counted` gives each counter the planners that may still bump it, which `CountersAddUp` does not say.

**Correctors and BenchRunner.** `RecordsSuccesses`, `OutcomesMatch`, `NeverSeesHeldOut`, `ReportsEverything`, `CorrectorsKeepTheirContract`, for any suite, plans, commands, trials, limits and faults. The invariant says that what is done is the last command given (`AsGiven`), where each kind of
command can be (`Placed`), what the corrector has made of the estimate and the call (`Answered`), that every query passed has its outcome or timed out (`Covered`, `Fresh`), that rows with features, and those a corrector was fitted to, are of no query held out (`Untainted`), and that a report says of its successes what the plan of that baseline measured (`Joined`). Nothing is claimed of the features a fitted corrector is asked with: a baseline run's differ (section 6).
`OutcomesMatch` adds to `RecordsSuccesses` that each join reported of a query is one join of its plan, with its own estimate and its own count, for plans of any depth and width. It needs facts about the recursion of the walks, and gets them without an
induction theorem: of the nodes for which a claim fails, one of least `Height` has only children for which it holds (`FromTheLeaves`, from the well-foundedness of the naturals). So the recursive definition has a solution (`WalkOf`), a walk meets nothing higher than its root and each
join once (`WalksList`), and the joins by position are a bijection with the joins of the plan (`MeetsEveryJoin`). Assumed are finite plans whose nodes lie above their children, and no join below two children of one node: plans are trees.

**InferenceServer.** `AlwaysNeutral`, `AlwaysOutlasts`, for any number of connections, requests and upstream answers, any caps and any deadlines with Idle < Hard < MaxTimeout.
The invariant is one of each connection. `Paired` ties the client to the task: one that waits has a task, one that calls has an upstream that is pending, and nothing is queued when the process
is down. `Neutrally` is the property itself, of one connection: an accepted request is answered 200 with the baseline or with what the upstream replied, except for the two errors that the Python server does not catch (`Uncaught`, and `Crashed` for its reply). `InTime` bounds how long a client can have waited where the task is: not at all in a queue, the age of the call inside one, at most Hard after it, unless the server is
`Excused`, which it stays once it is. Time cannot pass a connection in the queue unless another one holds the thread (`TickStep`). `VerdictOfOurs` shows that a corrector's request passes the checks of every server, unless the
Python server has a prompt that it cannot render, and `OthersKept` that a step of one connection leaves the invariant of the rest alone.

**Ablation.** `PairsAreComplete`, `CorrectorsAreCurrent`, for any suite, tables, estimates, old records and plan of at least one replicate. The invariant says which cells are behind the run (`Behind`) and that each of them has a record (`Measured`), that a record has the
seed of its replicate and the count of its seed's tables (`OfCell`), and how far a corrector's training lies behind the history (`Lag`: the replicates since the last refit, times the suite, and the queries of this one). Then the keys of a group are just the
`Cells`, one for every query and replicate, and the last record of a key is as good as any.

**Aggregation.** `ControlsDiscoveries`, for any number of p-values. `Places` and `FirstPlaces`: places number the p-values in their order, so that k of them have one of the first k. `ConsistentUnion`: what is at or before the largest admitted place is
consistent, and the last place of a consistent set is admitted; scaling by a common multiple of the ranks loses nothing.
`TailsAreExact`, for the branch without SciPy and up to `MaxCounted` pairs that differ, whatever that limit is (the script has 25), of arrays without nulls: dropping pairs without a difference loses nothing of the statistic, the mid-rank of a run of ties is the mean of its places, and the sum over ranks does not depend on the order in which the script adds (sums over finite sets, by the least set for which it would). The script
enumerates sign assignments; they correspond one to one to the sets of positive ranks, so that the two counts of the tail are of one size. The invariant records what the script was given with what it answered.

Only model-checked, and why:

- All liveness: fairness and ENABLED are beyond the prover.
- `NormalMoments`: the mean and the variance of the sum of ranks over all sign assignments. A proof would need the sum of the squares of mid-ranks, an induction over the sorted sample with ties.
- The hypergraph bound, whose optimum is a minimum over a product over functions: the runs have `CeilingSound` of it, the theorems of all other bounds.

## 5. What is left out, and why

- `HllSketch::estimate`, the sizes of Bloom filters, the logarithms of the cover program, the exact values of tree models, bootstrap intervals, and the distribution function of the normal
  approximations in `wilcoxon_paired.py` (its mean and variance are modelled) and `ablation_aggregate.py`: floating point. Where a property could depend on them, any number of a set stands for them. NaN among a histogram's values is left out: the order of `from_values` is then unspecified.
- The rounding of a ceiling above 2^53 to the nearest `f64` on its way to Python and JavaScript: the model's numbers are exact.
- A second registration while sidecars are rewritten: contexts are registered from the files of one moment.
- uvicorn's own shutdown and the time limits inside the vendors' SDKs are external.
- The DuckDB adapter, the DuckDB and Postgres extensions, the GPU fallback, the CLI's other commands and the stopwatches (burst harness, latency probes, cold cache): one call each, or nothing but time; PROJECT.json gives the reasons.
- Latency of observations (NaN becomes NULL), file permissions, `count()`: no property depends on them.
- DataFusion's estimators, `transform_up` and SQLite are external: modelled from how the code uses them.
  Of an estimate nothing is assumed but that it is a row count; the runs' estimates wrap.
- SciPy's signed-rank test, which `wilcoxon_paired.py` prefers when SciPy imports, is external: any p-value may come from it, and no property is about it.
- `ablation_aggregate.py` has its own step-up procedure and its own signed-rank test. The modules model `benjamini_hochberg.py` and `wilcoxon_paired.py`.
- A suspension of the whole runtime: a query's timer fires only between polls, and planning or execution that never yields holds it off. No liveness of a run is claimed.
- `metrics()` loads six counters one by one; a snapshot may be torn. Nothing decides on it.
- A newer build that stamps a store between an older build's version check and its next statement: the newer code is not in
  this repository.

## 6. Disagreements between code and documentation

Two are shown by a run:

**pre_join_outer** (`pre_join.rs:415`). `derive_input_ceiling` takes the product of the children's rows as
a provable ceiling of any join. Full, left and right outer joins emit unmatched rows as well: over inputs of which one is empty
or of which few match, they emit more than the product. The run has a full join of inputs that publish 2 rows or 3 and 1, whose
4 rows exceed the product; a correct correction of 4 is clamped below the truth.

**chain_bound** (`lpbound.rs:193`). `degree_graph` gives every attribute a relation joins on the degree of one distinct count, which the documentation (97-98) takes to be
that of "the join key" the relation carries. The middle of a chain carries two. Given the count of the key with more values, both get a degree of 1, and a join over the other key exceeds
the ceiling. The callers in the repository pass one count for each relation of longer chains. Honest about every key (`EveryKey`), the bound is proved sound.

The others were met while modelling. No run has them as a property, most because the code that would have to differ is documentation, output or a caller.

Feedback and benchmark runs:

- `feedback.rs:407`: `add_feature_columns` says each column is added only when absent (389-391). It looks once and adds later, outside a transaction: of two processes that open an unmigrated store together the second
  fails with "duplicate column name". The store is not harmed and opening it again succeeds, which run `feedback` shows.
- `runner.rs:436` and 560 announce a JSON write after every query. The branch of a timeout leaves the loop body before it (500), and a write truncates the report first (1420). `LossIsTimeouts` states what holds instead.
- A suite whose data is absent writes no report and ends well. An observation of `calibrate` has the query's name as its plan fingerprint (`calibrate.rs:208`), one of a run the SQL (`runner.rs:527`).
- `runner.rs:570-577` describes an average that divided finite errors by an unfiltered count as fixed; `samkhya stats` still does so (`samkhya-cli/src/cmd/stats.rs:143`).
- `calibrate.rs:25-34` says the store persists no features; it does now. Calibration itself trains on vectors of a baseline alone and predicts with full ones, which is the documented mismatch.
- Features are skewed: `extract_features` sums distinct counts over a join side's columns and uses the depth of the whole plan, the pre-join rule takes the largest distinct count of one input.
- The list of joins in `walk_plan` lacks `SymmetricHashJoinExec`, which `join_node_type_name` has. A query that returns a single integer is taken to be a count of rows.
- The constructors cap `timeout_ms` so that a caller "cannot pin the optimizer for longer than 60 s on a single call" (`residual.rs:1003-1004`, and likewise 1019-1020). The cap is given to the connect, read and write phases (1100-1104, 865-870), and the read limit starts over with each read; nothing limits the request as a
  whole. A server that goes on sending parts, each in time, holds the call for ever, and since the call blocks, a query's own limit is not seen before it returns. `CallsEnd` excepts such a server (`[]<><<Part>>_call`); without the exception TLC finds it.
- `runner.rs:766-771` registers the tables of a baseline run without `SamkhyaTableProvider`, 772-876 those of any other run with it, so that statistics, and with them features, differ. `run --baseline --feedback`, `train`, `run --corrector gbt` asks a model with vectors unlike those it was trained on,
  and so does another `--puffin-dir`; the store does not say which rows are of which.
- `pre_join.rs:35-42` admits that two inputs at the cap overflow DataFusion's product. A node above them may then publish fewer rows than its native estimate although no correction lowered anything; run `pre_join` has such plans, and `WithinEnvelope` names the overflow as the only way.

Sidecars and corpora:

- `samkhya-cli/src/cmd/puffin.rs:65`: `puffin pack` names no field for the blobs it packs, and `PortableStatsSnapshot::validate` (`portable.rs:114`) rejects a sketch that does not name exactly one. The loaders therefore refuse every sidecar the
  command makes of one, `puffin verify` calls it good, and `samkhya-cli/README.md:7-10` describes it as the way to portable statistics. It also rewrites in place a file that loaders may have open.
- `physical_plan.rs:153`: the comments in `SamkhyaTableProvider::statistics` (`table_provider.rs:295-296`, 305-306) promise a guard in `SamkhyaStatsExec::statistics` that never publishes fewer rows than the native estimate at the physical layer. It returns what
  `scan()` gave it and never looks at the plan it wraps. A `MemTable` reports no statistics itself while its plan knows its rows, so the wrapper hides that count, or publishes an override below it.
- TPC-H has no unwrapped baseline. A damaged sidecar costs an IMDb or TPC-H table its wrapper, but fails the whole context of the synthetic tables. IMDb as CSV prefers files of a `parquet/` subdirectory and wraps them with the sidecars of the CSV.
- `build-puffin` of the IMDb tables logs a failure and returns success, which leaves the stale sidecar. The declared distinct counts of the synthetic tables may be above those of the random rows, which a degree must not be made of.

Sketches and bindings:

- Engines hash different bytes for one value (Arrow, DuckDB, CLI), so that sketches of one column built by two of them must not be merged; no marker in the format tells them apart.
- `samkhya-py/src/lib.rs:195`: `add` caps a count at `u32::MAX` and says the sketch "only over-counts". A capped counter undercounts, and Python has no `is_saturated` to see it.
- `samkhya-wasm/src/lib.rs:28-36` passes `hll.estimate()` to `joinCeiling` as a distinct count. The estimate may be above the truth and make the ceiling unsound; `IngestedDegreeSound` has that as its mutant.
- `HyperRelation::projected` is sound of relations without duplicate rows only, which its comment leaves to the reader.

- `samkhya-py/src/lib.rs:379-393` and `samkhya-wasm/src/lib.rs:250-260` read a row count that is infinite, negative or not a number as 0 rows, which makes the ceiling 0, where an unknown count should bound nothing. The properties are of row counts that are read as the tables' own.
- `samkhya-postgres/src/lib.rs:167-175`: `samkhya_hll_count` hashes the word of a Datum, which its comment takes for the on-disk representation. Of a type passed by reference the word is a pointer, so that equal values at two places count twice.

Inference servers:

- `llm_infer_server.py:271` parses an answer of the local backend outside the `try` around the call, so that an upstream whose `response` is not text is answered with 500, not with the baseline; `str.format` (179) raises for a configured prompt with braces of its own. `NeutralUnlessAnswered` excepts the two
  (`Uncaught`). The local backend's limit (264) is one of each read, so that an upstream that dribbles holds the server for ever.
- Documentation has 503 for a misconfigured backend. An upstream's failure is answered with 200 and the baseline, and logged as `ok`; the paths for `parse_err` and an unloaded backend are unreachable. The TypeScript port times a call as a whole and its silence, the Python one each
  read, and a blocking call in its async handler holds up all other requests and `/health`, although the two claim the same behaviour. The TabPFN server has no limits and accepts a baseline above u64.

Ablation and statistics:

- `wilcoxon_paired.py:25-27` has the script's own path yield "the same numerics" as SciPy, which is used where it imports. With ties SciPy may choose another method than the exact enumeration of the script, so that the p-value of one sample depends on what is installed.
- The first warm-up pass has the base seed, not a "fresh" one (`ablation_runner.rs:169`), so that recall in the first replicate returns that very cell's outcome; V3's default file of old records comes from the measured seeds too.
- Training fills `est_rows` with the estimate of 0 where inference is given the ceiling as its baseline, although a comment calls the two identical; old records hold estimates after L2 and L3, warm-up records those before. A4's last layer may return 0 after the floor at 1.
- Records are written at the very end only: a kill loses all of them.
- `ablation_aggregate.py` tests with the normal approximation and no tie correction at any size where `wilcoxon_paired.py` is exact. The loaders of the latter drop nulls from each array by itself, so that two arrays with nulls are paired wrongly
  (`ExactTail` is about arrays without), and the runner writes an infinite error as null. A BCa interval may come out with its ends crossed.

## 7. What could follow

The plan of the first version (chains, filters, Bloom, abstract specifications, proofs) is done except for what is listed here, in the order of what a wrong answer costs.

1. An abstract specification of a load as one step from finished sidecars to all or nothing, and the refinement.
2. Registration of a corpus file by file beside a build, once the code says what a run may see of it.
