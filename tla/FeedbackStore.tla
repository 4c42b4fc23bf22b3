--------------------------- MODULE FeedbackStore ---------------------------
(***************************************************************************)
(* FeedbackStore (samkhya-core/src/feedback.rs): the SQLite file in which  *)
(* query outcomes are recorded for training correctors.                    *)
(*                                                                         *)
(* Each client is a process with one connection to the same file.  Every   *)
(* SQL statement commits on its own and is atomic; what another client     *)
(* does between two statements of FeedbackStore::open, and where a process *)
(* is killed between them, is up to the scheduler.  SQLite is external: it *)
(* serialises the statements, keeps what was committed, and may give a     *)
(* statement up as busy while another client is connected.                 *)
(***************************************************************************)
EXTENDS Integers, Sequences, FiniteSets

CONSTANTS
  Client,          \* processes
  Template,        \* template hashes
  Observation,     \* observations that may be recorded
  Store,           \* the files to start from
  FeatureColumns,  \* FEATURE_COLUMNS, in order
  Current,         \* SCHEMA_USER_VERSION
  Null,            \* SQL NULL, and None
  MaxI64, MaxU32,  \* largest values of the words
  MaxRows,         \* bound: rows in the file
  MaxFaults        \* bound: crashes and busy statements

FeatureColumn == {FeatureColumns[k] : k \in 1 .. Len(FeatureColumns)}
MaxU64 == 2 * MaxI64 + 1
U64 == 0 .. MaxU64
I64 == -MaxI64 - 1 .. MaxI64
U32 == 0 .. MaxU32

\* An observation; left stands for the four optional features, predicates
\* for the two that record_plan always sets.
Observations == [template : Template, featured : BOOLEAN, est : U64, left : U64 \cup {Null}, predicates : U32]
Row == [template : Template, est : I64, left : I64 \cup {Null}, predicates : I64 \cup {Null}]

ASSUME WordAssumption == MaxI64 \in Nat /\ MaxU32 \in Nat /\ MaxU32 <= MaxI64
ASSUME NullAssumption == Null \notin Int
ASSUME ColumnAssumption ==
  /\ FeatureColumns \in Seq(FeatureColumn)
  /\ \A j, k \in 1 .. Len(FeatureColumns) : FeatureColumns[j] = FeatureColumns[k] => j = k
ASSUME ObservationAssumption == Observation \subseteq Observations
ASSUME VersionAssumption == Current \in Nat \ {0}
ASSUME StoreAssumption ==
  \A s \in Store :
    s.table \in BOOLEAN /\ s.version \in Int /\ s.columns \subseteq FeatureColumn /\ s.log \in Seq(Observation)
ASSUME BoundAssumption == MaxRows \in Nat /\ MaxFaults \in Nat

VARIABLES
  table,    \* whether the observations table exists
  version,  \* PRAGMA user_version
  columns,  \* the feature columns the table has
  rows,     \* the table; a row's id is its position
  conn,     \* conn[c]: client c's connection and how far its call has come
  refused,  \* refused[c]: why the last open of c failed
  log,      \* history: the observations inserted, in order
  acked,    \* history: [id, obs] of the inserts whose caller got an id
  faults

disk == <<table, version, columns, rows>>
vars == <<disk, conn, refused, log, acked, faults>>

Handle(pc, seen, id, obs) == [pc |-> pc, seen |-> seen, next |-> 1, id |-> id, obs |-> obs]
Closed == Handle("closed", {}, 0, Null)
Idle == Handle("open", {}, 0, Null)

----------------------------------------------------------------------------
(* What a statement stores and reads back.                                 *)

\* v as i64
AsI64(v) == IF v > MaxI64 THEN v - (MaxU64 + 1) ELSE v

\* n as u64, n as u32
AsU64(n) == n % (MaxU64 + 1)
AsU32(n) == n % (MaxU32 + 1)

\* The row inserted by record_plan or, without features, by record.
Encoded(obs) ==
  [template |-> obs.template,
   est |-> AsI64(obs.est),
   left |-> IF obs.featured /\ obs.left # Null THEN AsI64(obs.left) ELSE Null,
   predicates |-> IF obs.featured THEN obs.predicates ELSE Null]

HasInputRows(row) == row.left # Null

\* predicate_count IS NOT NULL
HasFeatures(row) == row.predicates # Null

ReadPlan(row) ==
  [est |-> AsU64(row.est),
   left |-> IF row.left = Null THEN Null ELSE AsU64(row.left),
   predicates |-> AsU32(row.predicates)]

\* plan_history: the observations that carry features, by their row's id.
PlanHistory(t) ==
  [k \in {k \in DOMAIN rows : rows[k].template = t /\ HasFeatures(rows[k])} |-> ReadPlan(rows[k])]

\* history: every observation, without its features.
History(t) == [k \in {k \in DOMAIN rows : rows[k].template = t} |-> AsU64(rows[k].est)]

----------------------------------------------------------------------------
(* FeedbackStore::open, a statement at a time.                             *)

Init ==
  /\ \E s \in Store :
       /\ table = s.table /\ version = s.version /\ columns = s.columns
       /\ log = s.log
       /\ rows = [k \in 1 .. Len(s.log) |-> Encoded(s.log[k])]
  /\ conn = [c \in Client |-> Closed]
  /\ refused = [c \in Client |-> "no"]
  /\ acked = {}
  /\ faults = 0

\* The connection is dropped and open returns an error.
Refuse(c, why) ==
  /\ conn' = [conn EXCEPT ![c] = Closed]
  /\ refused' = [refused EXCEPT ![c] = why]

\* SCHEMA_V1: CREATE TABLE IF NOT EXISTS, and two indexes that no result
\* depends on.
Open(c) ==
  /\ conn[c].pc = "closed"
  /\ table' = TRUE
  /\ conn' = [conn EXCEPT ![c].pc = "version"]
  /\ refused' = [refused EXCEPT ![c] = "no"]
  /\ UNCHANGED <<version, columns, rows, log, acked, faults>>

\* Mutant: any other version is stamped over.
CheckVersionOther(c) ==
  /\ conn[c].pc = "version"
  /\ conn' = [conn EXCEPT ![c].pc = IF version # Current THEN "stamp" ELSE "inspect"]
  /\ UNCHANGED <<disk, refused, log, acked, faults>>

\* check_or_stamp_schema_version reads user_version.
CheckVersion(c) ==
  /\ conn[c].pc = "version"
  /\ IF version > Current THEN Refuse(c, "newer")
     ELSE /\ conn' = [conn EXCEPT ![c].pc = IF version < Current THEN "stamp" ELSE "inspect"]
          /\ UNCHANGED refused
  /\ UNCHANGED <<disk, log, acked, faults>>

Stamp(c) ==
  /\ conn[c].pc = "stamp"
  /\ version' = Current
  /\ conn' = [conn EXCEPT ![c].pc = "inspect"]
  /\ UNCHANGED <<table, columns, rows, refused, log, acked, faults>>

\* add_feature_columns reads the columns once, before it adds any.
Inspect(c) ==
  /\ conn[c].pc = "inspect"
  /\ conn' = [conn EXCEPT ![c] = Handle("migrate", columns, 0, Null)]
  /\ UNCHANGED <<disk, refused, log, acked, faults>>

MigratedAlready(c) == conn[c].seen # {}

SeenNothing(c) == FALSE

\* The column is skipped when it was there on inspection.
Seen(c) == FeatureColumns[conn[c].next] \in conn[c].seen

\* ALTER TABLE ADD COLUMN fails on a column the table has.
AddColumn(c) ==
  /\ conn[c].pc = "migrate"
  /\ conn[c].next <= Len(FeatureColumns)
  /\ LET column == FeatureColumns[conn[c].next]
         onward == [conn EXCEPT ![c].next = @ + 1]
     IN  \/ /\ Seen(c)
            /\ conn' = onward
            /\ UNCHANGED <<columns, refused>>
         \/ /\ ~Seen(c) /\ column \notin columns
            /\ columns' = columns \cup {column}
            /\ conn' = onward
            /\ UNCHANGED refused
         \/ /\ ~Seen(c) /\ column \in columns
            /\ Refuse(c, "duplicate")
            /\ UNCHANGED columns
  /\ UNCHANGED <<table, version, rows, log, acked, faults>>

Opened(c) ==
  /\ conn[c].pc = "migrate"
  /\ conn[c].next > Len(FeatureColumns)
  /\ conn' = [conn EXCEPT ![c] = Idle]
  /\ UNCHANGED <<disk, refused, log, acked, faults>>

----------------------------------------------------------------------------
(* Recording.                                                              *)

\* record_plan and record: the INSERT.
Insert(c, obs) ==
  /\ conn[c].pc = "open"
  /\ Len(rows) < MaxRows
  /\ obs.featured => FeatureColumn \subseteq columns
  /\ rows' = Append(rows, Encoded(obs))
  /\ log' = Append(log, obs)
  /\ conn' = [conn EXCEPT ![c] = Handle("inserted", {}, Len(rows) + 1, obs)]
  /\ UNCHANGED <<table, version, columns, refused, acked, faults>>

\* Mutant: the last row of the table, whoever inserted it.
LargestRowid(c) == Len(rows)

\* last_insert_rowid(): of this connection.
LastInsertRowid(c) == conn[c].id

\* ... and the return of the new row's id.
Return(c) ==
  /\ conn[c].pc = "inserted"
  /\ acked' = acked \cup {[id |-> LastInsertRowid(c), obs |-> conn[c].obs]}
  /\ conn' = [conn EXCEPT ![c] = Idle]
  /\ UNCHANGED <<disk, refused, log, faults>>

\* The handle is dropped.
Close(c) ==
  /\ conn[c].pc = "open"
  /\ conn' = [conn EXCEPT ![c] = Closed]
  /\ UNCHANGED <<disk, refused, log, acked, faults>>

----------------------------------------------------------------------------
(* Faults.                                                                 *)

\* The process is killed.
Crash(c) ==
  /\ conn[c].pc # "closed"
  /\ faults < MaxFaults
  /\ faults' = faults + 1
  /\ conn' = [conn EXCEPT ![c] = Closed]
  /\ UNCHANGED <<disk, refused, log, acked>>

\* SQLITE_BUSY: open gives up; an insert returns the error and the handle
\* stays usable.
Busy(c) ==
  /\ conn[c].pc \in {"version", "stamp", "inspect", "migrate"}
  /\ \E d \in Client \ {c} : conn[d].pc # "closed"
  /\ faults < MaxFaults
  /\ faults' = faults + 1
  /\ Refuse(c, "busy")
  /\ UNCHANGED <<disk, log, acked>>

Opening(c) ==
  Open(c) \/ CheckVersion(c) \/ Stamp(c) \/ Inspect(c) \/ AddColumn(c) \/ Opened(c)

Step(c) ==
  \/ Open(c) \/ CheckVersion(c) \/ Stamp(c) \/ Inspect(c) \/ AddColumn(c) \/ Opened(c)
  \/ (\E obs \in Observation : Insert(c, obs))
  \/ Return(c) \/ Close(c)
  \/ Crash(c) \/ Busy(c)

Next == \E c \in Client : Step(c)

Spec == Init /\ [][Next]_vars

\* Processes run, and a caller whose open failed calls it again.
FairSpec == Spec /\ \A c \in Client : WF_vars(Opening(c)) /\ WF_vars(Return(c))

----------------------------------------------------------------------------
(* Properties.                                                             *)

\* Types of the state; integers fit SQLite's signed column.
TypeOK ==
  /\ table \in BOOLEAN
  /\ version \in Int
  /\ columns \subseteq FeatureColumn
  /\ rows \in Seq(Row)
  /\ conn \in [Client ->
       [pc : {"closed", "version", "stamp", "inspect", "migrate", "open", "inserted"},
        seen : SUBSET FeatureColumn, next : 1 .. Len(FeatureColumns) + 1,
        id : Nat, obs : Observation \cup {Null}]]
  /\ refused \in [Client -> {"no", "newer", "busy", "duplicate"}]
  /\ log \in Seq(Observation)
  /\ acked \in SUBSET [id : Nat, obs : Observation]
  /\ faults \in 0 .. MaxFaults

\* A handle that open returned is never of a store that lacks the table, a
\* feature column or the current version, whichever opens raced it or were
\* killed half way through the migration before it: no statement of record_plan
\* or plan_history can fail on a missing column.
OpenMeansMigrated ==
  \A c \in Client :
    conn[c].pc \in {"open", "inserted"} =>
      table /\ version = Current /\ columns = FeatureColumn

OfTemplate(t) == {k \in DOMAIN log : log[k].template = t}
Featured(t) == {k \in OfTemplate(t) : log[k].featured}

\* plan_history returns exactly the observations recorded with features, in
\* the order of their commits and with their 64-bit values intact, whoever
\* recorded them; history returns all of them (feedback.rs 272-279, 352).
HistoryFaithful ==
  \A t \in Template :
    /\ PlanHistory(t) =
         [k \in Featured(t) |-> [est |-> log[k].est, left |-> log[k].left, predicates |-> log[k].predicates]]
    /\ History(t) = [k \in OfTemplate(t) |-> log[k].est]

\* An id handed to a caller names the row of the observation that caller
\* recorded, for good: inserts of other processes between the INSERT and the
\* return of its id do not shift it, and no crash or migration loses the row.
AcksHold ==
  \A a \in acked : a.id \in 1 .. Len(rows) /\ log[a.id] = a.obs /\ rows[a.id] = Encoded(a.obs)

\* Of a store a newer build has stamped, no call of any process that races
\* another, is killed or tries again changes the stamp, the columns or a row.
\* SCHEMA_V1 runs before the check (feedback.rs 172-173), so that a table that
\* is missing is created, and one that is there stays.
NewerUntouched == [][version > Current => UNCHANGED <<version, columns, rows>> /\ (table => table')]_vars

\* Crashes, busy statements and lost races leave no store that cannot be
\* opened: a caller that tries again gets a handle in the end, unless the
\* store is a newer build's.
OpensEventually ==
  \A c \in Client : []<>(conn[c].pc \in {"open", "inserted"} \/ refused[c] = "newer")

\* What the two histories give back of a row, and what was recorded.
ReadBack(row) ==
  [template |-> row.template, est |-> AsU64(row.est), plan |-> IF HasFeatures(row) THEN ReadPlan(row) ELSE Null]
Told(obs) ==
  [template |-> obs.template, est |-> obs.est,
   plan |-> IF obs.featured THEN [est |-> obs.est, left |-> obs.left, predicates |-> obs.predicates] ELSE Null]

Recorded == [k \in DOMAIN rows |-> ReadBack(rows[k])]
Pending == [c \in Client |-> IF conn[c].pc = "inserted" THEN conn[c].id ELSE 0]
Answered == {[id |-> a.id, outcome |-> Told(a.obs)] : a \in acked}

Log == INSTANCE ObservationLog WITH
  Outcome <- {Told(obs) : obs \in Observation}, log <- Recorded, pending <- Pending, acked <- Answered

\* The store is an append-only log to everybody who records in it and reads it,
\* whatever opens, migrations, kills and other callers come between: what is
\* read only ever grows at its end, one whole observation at a time, and an id
\* is that of the caller's own (feedback.rs 246-377).
AppendOnlyLog == Log!Spec
=============================================================================
