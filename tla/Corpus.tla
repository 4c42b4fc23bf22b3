------------------------------- MODULE Corpus -------------------------------
(***************************************************************************)
(* Where the tables and the statistics of samkhya-bench come from: files   *)
(* that `convert-imdb-csv-to-parquet` and `build-puffin` write table by    *)
(* table and a run registers, behind a SamkhyaTableProvider where there is *)
(* a sidecar.  Commands are run one after another; each may fail or be     *)
(* killed between two writes, and the dump may be replaced in between.     *)
(*                                                                         *)
(* A corpus is the IMDb dump read as CSV or as Parquet, TPC-H, or the      *)
(* synthetic tables.  The provider of one table, Focus, is followed into   *)
(* its scans by the actions of TableProvider.                              *)
(***************************************************************************)
EXTENDS TableProvider

CONSTANTS
  Tables,       \* TABLES, in the order they are walked
  Focus,        \* one of them
  Version,      \* what a table may hold: [rows, distinct], distinct as estimate() has it
  Declared,     \* distinct counts the runner declares for a synthetic table
  Malformed,    \* a CSV file that does not decode
  Legacy,       \* contents of <dir>/parquet, which no command writes
  Torn, None

Table == Range(Tables)
File == Version \cup {Malformed, Torn, None}

ASSUME VersionAssumption == Version \subseteq [rows : 0 .. MaxU64, distinct : [Ordinal -> 0 .. MaxU64]]
ASSUME FileAssumption == Version \cap {Malformed, Torn, None} = {} /\ Torn # None
ASSUME DeclaredAssumption == Declared \in [Ordinal -> 0 .. MaxU64]
ASSUME TablesAssumption == Tables \in Seq(Table) /\ Focus \in Table
ASSUME LegacyAssumption == Legacy \subseteq [Table -> Version \cup {None}]

VARIABLES
  corpus,   \* csv, parquet, tpch, synthetic; or none, for other callers
  csv,      \* table -> its dump
  parquet,  \* table -> the Parquet file next to it
  sub,      \* table -> the Parquet file in <dir>/parquet
  sidecar,  \* table -> its sidecar: what its blobs say, and whether it has a footer
  command,  \* the command that runs: its name, the table it is at, what it has done of it
  intact,   \* history: the last build read every file that is there now, and none failed
  context   \* what a run registered

files == <<csv, parquet, sub, sidecar>>
corpusVars == <<corpus, files, command, intact, context>>
allVars == <<vars, corpusVars>>

Idle == [name |-> "none", at |-> 0, step |-> "none", failed |-> FALSE]
NoSidecar == [rows |-> Nothing, distinct |-> None, footer |-> FALSE, exists |-> FALSE]
Whole(v, rows) == [rows |-> rows, distinct |-> v.distinct, footer |-> TRUE, exists |-> TRUE]
Unmade == [status |-> "none"]

\* imdb_schemas: every table has the columns a provider has.
SchemaOf(t) == IF t \in Table THEN Ordinal ELSE {}

Imdb == corpus \in {"csv", "parquet"}

\* The generators draw the synthetic tables from one fixed seed: whatever
\* they make, every process makes it again.
Generated == [Table -> Version]

CorpusInit ==
  /\ command = Idle /\ intact = FALSE /\ context = Unmade
  /\ \/ corpus = "none" /\ Init
        /\ csv = [t \in Table |-> None] /\ parquet = csv /\ sub = csv /\ sidecar = [t \in Table |-> NoSidecar]
     \/ /\ corpus \in {"csv", "parquet", "tpch", "synthetic"}
        /\ native = NewUnknown /\ inner = Absent /\ overrides = <<>> /\ scan = NoScan
        /\ bound = [i \in Ordinal |-> Nothing] /\ built = FALSE
        /\ csv = [t \in Table |-> None]
        /\ parquet \in (IF corpus = "synthetic" THEN Generated ELSE [Table -> IF corpus = "tpch" THEN Version ELSE {None}])
        /\ sub \in IF corpus = "csv" THEN Legacy ELSE {[t \in Table |-> None]}
        /\ sidecar \in [Table -> IF corpus = "tpch" THEN {NoSidecar, [NoSidecar EXCEPT !.exists = TRUE]} \cup {Whole(v, Nothing) : v \in Version}
                                 ELSE {NoSidecar}]

----------------------------------------------------------------------------
(* The commands, which walk the tables.                                    *)

At == Tables[command.at]
Running(name, step) == command.name = name /\ command.at \in DOMAIN Tables /\ command.step = step
NextTable == command' = [command EXCEPT !.at = @ + 1, !.step = "none"]
FailsTable == command' = [command EXCEPT !.at = @ + 1, !.step = "none", !.failed = TRUE]
Done(step) == command' = [command EXCEPT !.step = step]
Abandoned == command' = Idle

Start(name) ==
  /\ command = Idle /\ context = Unmade
  /\ command' = [Idle EXCEPT !.name = name, !.at = 1]

\* The dump is downloaded anew, or removed.
Download(t, data) ==
  /\ Imdb /\ command = Idle /\ context = Unmade
  /\ csv' = [csv EXCEPT ![t] = data]
  /\ intact' = (intact /\ corpus = "parquet")
  /\ UNCHANGED <<vars, corpus, parquet, sub, sidecar, command, context>>

\* convert_imdb_csvs_to_parquet: a missing CSV is skipped, an error ends it.
Convert == corpus = "parquet" /\ Start("convert") /\ UNCHANGED <<vars, corpus, files, intact, context>>

ConvertSkips ==
  /\ Running("convert", "none") /\ csv[At] = None /\ NextTable
  /\ UNCHANGED <<vars, corpus, files, intact, context>>

\* File::create truncates the file of the conversion before.
ConvertOpens ==
  /\ Running("convert", "none") /\ csv[At] # None
  /\ Done("created")
  /\ parquet' = [parquet EXCEPT ![At] = Torn]
  /\ intact' = FALSE
  /\ UNCHANGED <<vars, corpus, csv, sub, sidecar, context>>

ConvertCloses ==
  /\ Running("convert", "created") /\ csv[At] # Malformed
  /\ NextTable
  /\ parquet' = [parquet EXCEPT ![At] = csv[At]]
  /\ UNCHANGED <<vars, corpus, csv, sub, sidecar, intact, context>>

\* A row does not decode, or a write fails.
ConvertFails ==
  /\ Running("convert", "created") /\ Abandoned
  /\ UNCHANGED <<vars, corpus, files, intact, context>>

\* What build-puffin reads of a table.
BuildSource(t) == IF corpus = "csv" THEN csv[t] ELSE parquet[t]

Build == corpus # "tpch" /\ corpus # "none" /\ Start("build") /\ UNCHANGED <<vars, corpus, files, intact, context>>

\* Mutant: a sidecar that is there is not built again.
BuildsMissing(t) == BuildSource(t) # None /\ ~ sidecar[t].exists

Builds(t) == BuildSource(t) # None

BuildSkips ==
  /\ Running("build", "none") /\ ~ Builds(At) /\ NextTable
  /\ UNCHANGED <<vars, corpus, files, intact, context>>

\* The IMDb build reads the table and sketches it before it opens the sidecar.
BuildScans ==
  /\ Running("build", "none") /\ Imdb /\ Builds(At) /\ BuildSource(At) \in Version
  /\ Done("scanned")
  /\ UNCHANGED <<vars, corpus, files, intact, context>>

\* Mutant: the sidecar is opened without truncating it.
Opened(old) == [old EXCEPT !.exists = TRUE]
Created(old) == [NoSidecar EXCEPT !.exists = TRUE]

BuildCreates ==
  /\ \/ Imdb /\ Running("build", "scanned")
     \/ ~ Imdb /\ Running("build", "none") /\ Builds(At)
  /\ Done("created")
  /\ sidecar' = [sidecar EXCEPT ![At] = Created(@)]
  /\ intact' = FALSE
  /\ UNCHANGED <<vars, corpus, csv, parquet, sub, context>>

\* write_table_sidecar reads a synthetic table when its sidecar is open.
BuildCollects ==
  /\ Running("build", "created") /\ ~ Imdb /\ Done("collected")
  /\ UNCHANGED <<vars, corpus, files, intact, context>>

\* The marker of the row count, which the IMDb build alone writes.
BuildMarks ==
  /\ Running("build", "created") /\ Imdb /\ Done("marked")
  /\ sidecar' = [sidecar EXCEPT ![At].rows = BuildSource(At).rows]
  /\ UNCHANGED <<vars, corpus, csv, parquet, sub, intact, context>>

\* The sketches and the footer.
BuildFinishes ==
  /\ Running("build", IF Imdb THEN "marked" ELSE "collected")
  /\ sidecar' = [sidecar EXCEPT ![At] = Whole(BuildSource(At), @.rows)]
  /\ NextTable
  /\ UNCHANGED <<vars, corpus, csv, parquet, sub, intact, context>>

\* A source does not decode, or a write fails: the IMDb build goes on with
\* the next table, the synthetic one stops.
BuildFails ==
  /\ command.name = "build" /\ command.at \in DOMAIN Tables /\ Builds(At)
  /\ IF Imdb THEN FailsTable ELSE Abandoned
  /\ UNCHANGED <<vars, corpus, files, intact, context>>

CommandEnds ==
  /\ command.at = Len(Tables) + 1
  /\ command' = Idle
  /\ intact' = IF command.name = "build" THEN ~ command.failed ELSE intact
  /\ UNCHANGED <<vars, corpus, files, context>>

Kill ==
  /\ command # Idle /\ command' = Idle
  /\ UNCHANGED <<vars, corpus, files, intact, context>>

----------------------------------------------------------------------------
(* A run registers its tables.                                             *)

\* The file a table is read from: <dir>/parquet comes before the CSV.
Registered(t) ==
  IF corpus = "csv" THEN IF sub[t] # None THEN sub[t] ELSE csv[t] ELSE parquet[t]

FromSub(t) == corpus = "csv" /\ sub[t] # None

\* The probes: one IMDb file is enough, all of TPC-H must be there.
ProbesImdb == \E t \in Table : {csv[t], parquet[t], sub[t]} # {None}
ProbesTpch == \A t \in Table : parquet[t] # None
Probes == (Imdb => ProbesImdb) /\ (corpus = "tpch" => ProbesTpch)

\* Parquet metadata is read at registration, a CSV with a schema is not.
Registers(t) == Registered(t) \notin {None, Torn}

\* load_*_sidecar fails on a file without a footer.
Loads(t) == sidecar[t].footer

\* The overrides of a table's columns.  The IMDb loader stamps the marker on
\* each, the runner the row count of a synthetic table; TPC-H has neither.
Override(t, rows) == [i \in SchemaOf(t) |-> [rows |-> rows, distinct |-> sidecar[t].distinct[i]]]
ImdbOverrides(t) == Override(t, sidecar[t].rows)
TpchOverrides(t) == Override(t, Nothing)
SyntheticOverrides(t) == Override(t, parquet[t].rows)

\* The counts the runner holds for the synthetic tables: the rows are the
\* generators', the distinct values what the draws are taken from.
HardCoded(t) == [i \in SchemaOf(t) |-> [rows |-> parquet[t].rows, distinct |-> Declared[i]]]

\* The overrides of a table; <<>> is a provider that is not wrapped.  Where a
\* sidecar is missing or damaged, a table of a file goes without, and a
\* synthetic one falls back to the runner's counts.
OrElse(t, overridesOf, fallback) == IF sidecar[t].exists /\ Loads(t) THEN overridesOf ELSE fallback
WrapsImdb(t, baseline) == IF baseline THEN <<>> ELSE OrElse(t, ImdbOverrides(t), <<>>)
WrapsTpch(t) == OrElse(t, TpchOverrides(t), <<>>)
WrapsSynthetic(t, baseline, sidecars) ==
  CASE baseline -> <<>>
    [] ~ baseline /\ sidecars -> OrElse(t, SyntheticOverrides(t), HardCoded(t))
    [] OTHER -> HardCoded(t)

OverridesOf(t, baseline, sidecars) ==
  CASE Imdb -> WrapsImdb(t, baseline)
    [] corpus = "tpch" -> WrapsTpch(t)
    [] corpus = "synthetic" -> WrapsSynthetic(t, baseline, sidecars)

\* TPC-H has no baseline arm.
Wraps(baseline) == ~ baseline \/ corpus = "tpch"

\* build_context.  Only the loader of the synthetic sidecars returns the
\* error of a damaged one.
BuildContext(baseline, sidecars) ==
  IF \/ ~ Probes \/ \E t \in Table : ~ Registers(t)
     \/ Wraps(baseline) /\ sidecars /\ corpus = "synthetic" /\ \E t \in Table : sidecar[t].exists /\ ~ Loads(t)
  THEN [status |-> "error"]
  ELSE [status |-> "registered", baseline |-> baseline, sidecars |-> sidecars,
        data |-> [t \in Table |-> Registered(t)],
        overrides |-> [t \in Table |-> OverridesOf(t, baseline, sidecars)]]

\* Sidecars are an option of the synthetic runs only.  Providers of files
\* and of memory tables report no statistics themselves.
RegisterTables(baseline, sidecars) ==
  /\ corpus # "none" /\ command = Idle /\ context = Unmade /\ (corpus # "synthetic" => sidecars \/ ~ baseline)
  /\ (corpus = "synthetic" \/ sidecars)
  /\ context' = BuildContext(baseline, sidecars)
  /\ IF context'.status = "registered"
     THEN /\ overrides' = context'.overrides[Focus]
          /\ built' = (context'.overrides[Focus] # <<>>)
          /\ inner' = IF corpus = "csv" /\ ~ FromSub(Focus) THEN Absent ELSE Exact(context'.data[Focus].rows)
     ELSE UNCHANGED <<overrides, built, inner>>
  /\ UNCHANGED <<native, bound, scan, corpus, files, command, intact>>

\* The session is dropped with the run.
RunEnds ==
  /\ context # Unmade /\ context' = Unmade
  /\ overrides' = <<>> /\ built' = FALSE /\ inner' = Absent /\ scan' = NoScan
  /\ UNCHANGED <<native, bound, corpus, files, command, intact>>

----------------------------------------------------------------------------

CorpusNext ==
  \/ corpus = "none" /\ Next /\ UNCHANGED corpusVars
  \/ context # Unmade /\ (\E projection \in Projections : Scan(projection)) /\ UNCHANGED corpusVars
  \/ \E t \in Table, data \in Version \cup {Malformed, None} : Download(t, data)
  \/ Convert \/ ConvertSkips \/ ConvertOpens \/ ConvertCloses \/ ConvertFails
  \/ Build \/ BuildSkips \/ BuildScans \/ BuildCreates \/ BuildCollects \/ BuildMarks \/ BuildFinishes \/ BuildFails
  \/ CommandEnds \/ Kill
  \/ \E baseline, sidecars \in BOOLEAN : RegisterTables(baseline, sidecars)
  \/ RunEnds

CorpusSpec == CorpusInit /\ [][CorpusNext]_allVars

----------------------------------------------------------------------------
(* Properties.                                                             *)

\* Whatever failed or was killed before, once a build has gone through every
\* table with the files that are there now, a run wraps each table it reads
\* from those files, and its scans publish the rows and the distinct counts
\* of the data they read: damaged and stale sidecars are all replaced.
RebuildHeals ==
  intact /\ context.status = "registered" =>
    context.baseline \/ ~ context.sidecars \/ FromSub(Focus) \/
      /\ built
      /\ scan.made =>
           /\ scan.rows = Inexact(context.data[Focus].rows)
           /\ scan.distinct = [k \in DOMAIN scan.distinct |-> Inexact(context.data[Focus].distinct[scan.projection[k]])]

\* The row count and the distinct counts a run takes from a sidecar are of
\* one and the same state of the table, whichever builds were killed between
\* two blobs of it.
OneBuild ==
  Imdb /\ context.status = "registered" =>
    \A t \in Table : context.overrides[t] # <<>> =>
      \E v \in Version : context.overrides[t] = [i \in Ordinal |-> [rows |-> v.rows, distinct |-> v.distinct[i]]]
=============================================================================
