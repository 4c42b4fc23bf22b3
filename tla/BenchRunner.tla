--------------------------- MODULE BenchRunner ---------------------------
(***************************************************************************)
(* The benchmark campaign of samkhya-bench: `run` (runner.rs), which       *)
(* executes a suite over several trials, records what it saw in a feedback *)
(* store and rewrites its JSON report as it goes; `train` (report.rs),     *)
(* which fits a model to the store; and `calibrate` (calibrate.rs), which  *)
(* runs, fits and runs again.  One command runs at a time and may be       *)
(* killed anywhere; the store, the model and the report are on disk.       *)
(*                                                                         *)
(* The engine is external: planning and executing a query succeed, fail or *)
(* take for ever, and a query returns the same rows each time.  The store  *)
(* is the append-only log that FeedbackStore implements.                   *)
(***************************************************************************)
EXTENDS PlanWalk, FiniteSets

CONSTANTS
  Suite,        \* the suite's queries, in order
  Placeholder,  \* those whose SQL is not imported yet
  Root,         \* Root[baseline][q]: the root of q's physical plan over the bare or the wrapped tables
  Result,       \* Result[q]: the batches q returns
  Campaign,     \* the sequences of commands an operator may give
  Legacy,       \* observations in the store at the start, without features
  MaxFaults     \* bound: kills and failed writes

Query == Range(Suite)

\* Estimate and row count of a query, as the runner reads them.  A baseline
\* run registers the bare tables, without the statistics of samkhya, and its
\* plans, estimates and features are others; the rows returned are the same.
Estimate == [b \in BOOLEAN |-> [q \in Query |-> RootEstimate(Root[b][q])]]
Actual == [q \in Query |-> ExtractActualCount(Result[q], MaxU64 + 1)]

Features == [b \in BOOLEAN |-> [q \in Query |-> ExtractFeatures(Root[b][q], Estimate[b][q])]]
Vectors == {Features[b][q] : b \in BOOLEAN, q \in Query}

\* Observation and PlanObservation; their template is the suite.
Observation == [query : Query, est : U64, actual : U64, features : Vectors \cup {None}]
Status == {"ok", "timeout", "error"}
Outcome == [query : Query, trial : Nat, status : Status, est : U64, cause : {"none", "engine", "corrector"},
            joins : Seq([type : JoinTypes, idx : Nat, est : Nat \cup {None}, actual : Nat \cup {None},
                         q : (Nat \X Nat) \cup {None}])]

\* --corrector, and what a caller of the library may hand to the runner.
CorrectorArg == {"none", "identity", "gbt"}
Attached == {"stub", "additive", "http", "faulty"}

\* Runner::new.
Default(kind, data) ==
  [kind |-> kind, data |-> data, baseline |-> FALSE, only |-> {}, exclude |-> {}, trials |-> 1, timeout |-> 0, corrector |-> "none",
   ceiling |-> MaxU64, feedback |-> FALSE, json |-> FALSE]

\* The arguments of the four commands; "data" is a suite whose tables are
\* made in memory or whose directory is given.
RunArgs ==
  [kind : {"run"}, data : BOOLEAN, baseline : BOOLEAN, only : SUBSET Query, exclude : SUBSET Query,
   trials : Nat, timeout : Nat, corrector : CorrectorArg \cup Attached, ceiling : U64,
   feedback : BOOLEAN, json : BOOLEAN]
CompareArgs == {[Default("compare", d) EXCEPT !.baseline = TRUE] : d \in BOOLEAN}
CalibrateArgs == {[Default("calibrate", d) EXCEPT !.feedback = f] : d, f \in BOOLEAN}
TrainArgs == {[Default("train", FALSE) EXCEPT !.feedback = TRUE]}

CommandType == RunArgs \cup CompareArgs \cup CalibrateArgs \cup TrainArgs

\* The builder's methods: at least one trial, and 0 is no time limit.
Configured(c) == [c EXCEPT !.trials = AtLeastOne(@), !.timeout = (@ > 0)]

\* A suite names a query once.
ASSUME SuiteAssumption == Suite \in Seq(Query) /\ IsInjective(Suite) /\ Placeholder \subseteq Query
ASSUME QueryAssumption ==
  Root \in [BOOLEAN -> [Query -> Node]] /\ Estimate \in [BOOLEAN -> [Query -> U64]] /\ Actual \in [Query -> U64]
ASSUME CampaignAssumption == Campaign \subseteq Seq(CommandType)
ASSUME LegacyAssumption == Legacy \in Seq({o \in Observation : o.features = None})
ASSUME BoundAssumption == MaxFaults \in Nat

VARIABLES
  store,     \* the feedback file's observations, oldest first
  model,     \* the model file: [state, trained], trained being the rows it was fitted to
  report,    \* the JSON file: [state, run, outcomes], run being the command that wrote it
  job,       \* the command under way
  phase,     \* of a calibration: collect, recollect, rerun; of a run: collect
  pc,        \* where the command is
  trial, position,
  corrected, \* corrected_estimate of the query under way
  outcomes,  \* the command's QueryOutcomes so far
  memory,    \* calibrate's in-memory store
  fitted,    \* the rows the corrector in memory was fitted to
  given,     \* history: the commands given
  first,     \* history: observations in the store when the command started
  ended,     \* history: how the last command ended
  faults     \* history: writes that failed and kills

disk == <<store, model, report>>
progress == <<trial, position, corrected, outcomes>>
history == <<given, first, ended, faults>>
vars == <<disk, job, phase, pc, progress, memory, fitted, history, call>>

Idle == [kind |-> "idle"]
Busy == job # Idle
number == Len(given)

\* selected_queries: the allowlist, when there is one, less the denylist.
Selected(c) == {q \in Query : (c.only = {} \/ q \in c.only) /\ q \notin c.exclude}

\* The queries that are executed: those without SQL are passed over.
Executed(c) == Selected(c) \ Placeholder

Current == Suite[position]

\* run() keeps outcomes, a timeout and a report; run_with_corrector does not.
Collecting == phase = "collect"

\* trials.max(1); run_with_corrector makes one pass.
Trials == IF Collecting /\ job.trials > 1 THEN job.trials ELSE 1

\* A baseline run corrects nothing.
ActiveCorrector ==
  CASE phase = "collect" -> IF job.baseline THEN "none" ELSE job.corrector
    [] phase = "recollect" -> "identity"
    [] phase = "rerun" -> "gbt"

\* Mutant: the features travel with the reported, corrected estimate.
ObservedCorrected ==
  [query |-> Current, est |-> corrected, actual |-> Actual[Current],
   features |-> IF Collecting THEN ExtractFeatures(Root[job.baseline][Current], corrected) ELSE None]

\* What run() records of the query under way: its plan's features, with the
\* estimate of the engine.
Observed ==
  [query |-> Current, est |-> Estimate[job.baseline][Current], actual |-> Actual[Current],
   features |-> IF Collecting THEN Features[job.baseline][Current] ELSE None]

\* pair_join_metrics after execution, on the estimates from before it.
MeasuredJoins ==
  [b \in BOOLEAN |-> [q \in Query |-> PairJoinMetrics(Root[b][q], CollectJoinEstimates(Root[b][q]))]]

\* Errors and timeouts have reached no measured plan.
Now(status, est, cause) ==
  [query |-> Current, trial |-> trial, status |-> status, est |-> est, cause |-> cause,
   joins |-> IF status = "ok" THEN MeasuredJoins[job.baseline][Current] ELSE <<>>]

----------------------------------------------------------------------------

Init ==
  /\ store = Legacy
  /\ model = [state |-> "absent", trained |-> {}]
  /\ report = [state |-> "absent", run |-> 0, outcomes |-> <<>>]
  /\ job = Idle /\ phase = "collect" /\ pc = "idle"
  /\ trial = 1 /\ position = 1 /\ corrected = 0 /\ outcomes = <<>>
  /\ memory = <<>> /\ fitted = {}
  /\ given = <<>> /\ first = Len(Legacy) /\ faults = 0 /\ ended = "none"
  /\ call = NoCall

End(how) ==
  /\ job' = Idle /\ pc' = "idle" /\ ended' = how
  /\ call' = NoCall /\ memory' = <<>> /\ fitted' = {}

Fault == faults < MaxFaults /\ faults' = faults + 1

\* GbtCorrector::load.
Loadable == model.state = "whole"

\* is_runnable: a suite without its directory is skipped, and all is well.
IsRunnable(c) == c.kind = "train" \/ c.data

\* main() has parsed a command.  A run loads its model first, and ends when
\* the file is none.
Give(c) ==
  /\ ~ Busy /\ \E s \in Campaign : IsPrefix(Append(given, c), s)
  /\ given' = Append(given, c) /\ first' = Len(store)
  /\ trial' = 1 /\ position' = 1 /\ corrected' = 0 /\ outcomes' = <<>> /\ phase' = "collect"
  /\ \/ c.corrector = "gbt" /\ ~ Loadable /\ End("error")
     \/ (c.corrector = "gbt" => Loadable) /\ ~ IsRunnable(c) /\ End("ok")
     \/ /\ (c.corrector = "gbt" => Loadable) /\ IsRunnable(c)
        /\ job' = Configured(c) /\ pc' = "open"
        /\ fitted' = IF c.corrector = "gbt" THEN model.trained ELSE {}
        /\ UNCHANGED <<ended, memory, call>>
  /\ UNCHANGED <<disk, faults>>

----------------------------------------------------------------------------
(* The loop over trials and queries.                                       *)

Continue(next) == pc' = next /\ UNCHANGED <<job, phase, memory, fitted, history>>
AbortOnFail == Fault /\ End("error") /\ UNCHANGED <<phase, given, first>>

\* The tables are registered and the store is opened, or one of them fails;
\* Corpus and FeedbackStore model how.
Open ==
  /\ pc = "open"
  /\ \/ Continue(IF job.kind = "train" THEN "fit" ELSE "next") /\ UNCHANGED call
     \/ AbortOnFail
  /\ UNCHANGED <<disk, progress>>

\* At the end of the last trial run() writes its last report, and
\* run_with_corrector() returns.
NextQuery ==
  /\ pc = "next"
  /\ \/ /\ position > Len(Suite) /\ trial < Trials
        /\ trial' = trial + 1 /\ position' = 1 /\ Continue("next")
     \/ /\ position > Len(Suite) /\ trial = Trials
        /\ Continue(IF Collecting THEN "final" ELSE "fit") /\ UNCHANGED <<trial, position>>
     \/ /\ position <= Len(Suite) /\ Current \notin Executed(job)
        /\ position' = position + 1 /\ Continue("next") /\ UNCHANGED trial
     \/ /\ position <= Len(Suite) /\ Current \in Executed(job)
        /\ Continue("plan") /\ UNCHANGED <<trial, position>>
  /\ UNCHANGED <<disk, corrected, outcomes, call>>

Reported(outcome) == IF Collecting THEN Append(outcomes, outcome) ELSE outcomes

\* Mutant: errors skip the flush as timeouts do.
FlushRecorded == IF Collecting /\ pc = "record" THEN "flush" ELSE "next"

Flushing == IF Collecting THEN "flush" ELSE "next"

Conclude(outcome, next) ==
  /\ outcomes' = Reported(outcome) /\ position' = position + 1
  /\ Continue(next)
  /\ UNCHANGED <<trial, corrected>>

Errored(cause) == Conclude(Now("error", 0, cause), Flushing)

\* create_physical_plan and the estimate at its root.
Plan ==
  /\ pc = "plan"
  /\ \/ Errored("engine")
     \/ /\ corrected' = Estimate[job.baseline][Current]
        /\ Continue(IF ActiveCorrector = "none" THEN "execute" ELSE "correct")
        /\ UNCHANGED <<trial, position, outcomes>>
  /\ UNCHANGED <<disk, call>>

\* What execute_query_with_corrector makes of correct()'s answer.
Corrected(answer) ==
  IF answer = Err THEN Errored("corrector")
  ELSE /\ corrected' = IF answer = None THEN corrected ELSE answer
       /\ Continue("execute")
       /\ UNCHANGED <<trial, position, outcomes>>

Correct ==
  /\ pc = "correct" /\ ActiveCorrector # "http"
  /\ \E answer \in Corrections(ActiveCorrector, Estimate[job.baseline][Current],
                               IF Collecting THEN job.ceiling ELSE MaxU64) :
       Corrected(answer)
  /\ UNCHANGED <<disk, call>>

\* The call blocks the thread: no timeout of the query interrupts it.
Calling(step) ==
  /\ pc = "correct" /\ ActiveCorrector = "http" /\ step
  /\ UNCHANGED <<disk, job, phase, pc, progress, memory, fitted, history>>

AskServer == Calling(Ask)
Answering == Calling(ServerStep(job.ceiling))
Abandon == Calling(GiveUp)

CallReturns ==
  /\ pc = "correct" /\ call.phase = "answered"
  /\ Corrected(call.answer)
  /\ call' = NoCall
  /\ UNCHANGED disk

Execute ==
  /\ pc = "execute"
  /\ Errored("engine") \/ (Continue("record") /\ UNCHANGED progress)
  /\ UNCHANGED <<disk, call>>

\* tokio::time::timeout drops the query at a point where it waits.
TimeOut ==
  /\ pc \in {"plan", "execute"} /\ Collecting /\ job.timeout
  /\ Conclude(Now("timeout", 0, "none"), "next")
  /\ UNCHANGED <<disk, call>>

\* A store that refuses the observation ends the run.
Record ==
  /\ pc = "record"
  /\ \/ /\ store' = IF Collecting /\ job.feedback THEN Append(store, Observed) ELSE store
        /\ memory' = IF phase = "recollect" THEN Append(memory, Observed) ELSE memory
        /\ outcomes' = Reported(Now("ok", corrected, "none")) /\ position' = position + 1
        /\ pc' = Flushing
        /\ UNCHANGED <<job, phase, fitted, history, call>>
     \/ /\ Collecting /\ Fault /\ End("error")
        /\ UNCHANGED <<store, phase, given, first, position, outcomes>>
  /\ UNCHANGED <<model, report, trial, corrected>>

----------------------------------------------------------------------------
(* The files a command writes.  fs::write truncates the file and fills it  *)
(* in place, and so does save_model.                                       *)

Torn(file) == [file EXCEPT !.state = "torn"]
Whole == [state |-> "whole", run |-> number, outcomes |-> outcomes]

StayOnFail(next) == Fault /\ pc' = next /\ UNCHANGED <<job, phase, memory, fitted, given, first, ended, call>>

\* The incremental flush: `let _ =` ignores its error.
Flush ==
  /\ pc = "flush"
  /\ \/ ~ job.json /\ Continue("next") /\ UNCHANGED <<report, call>>
     \/ job.json /\ report' = Torn(report) /\ Continue("flushing") /\ UNCHANGED call
     \/ job.json /\ StayOnFail("next") /\ UNCHANGED report
  /\ UNCHANGED <<store, model, progress>>

Flushed ==
  /\ pc = "flushing"
  /\ \/ report' = Whole /\ Continue("next") /\ UNCHANGED call
     \/ StayOnFail("next") /\ UNCHANGED report
  /\ UNCHANGED <<store, model, progress>>

\* The last write, whose error ends the command.
Final ==
  /\ pc = "final" /\ job.json
  /\ \/ report' = Torn(report) /\ Continue("finishing") /\ UNCHANGED call
     \/ AbortOnFail /\ UNCHANGED report
  /\ UNCHANGED <<store, model, progress>>

Finish ==
  /\ job.kind \in {"run", "compare"}
  /\ \/ pc = "finishing" /\ report' = Whole /\ End("ok") /\ UNCHANGED faults
     \/ pc = "finishing" /\ AbortOnFail /\ UNCHANGED report
     \/ /\ pc = "final" /\ ~ job.json /\ (job.kind = "compare" => ~ job.baseline)
        /\ End("ok") /\ UNCHANGED <<report, faults>>
  /\ UNCHANGED <<store, model, phase, progress, given, first>>

\* compare() runs the suite once more, with the statistics of samkhya.
CompareAgain ==
  /\ pc = "final" /\ job.kind = "compare" /\ job.baseline
  /\ job' = [job EXCEPT !.baseline = FALSE]
  /\ pc' = "open" /\ trial' = 1 /\ position' = 1 /\ outcomes' = <<>>
  /\ UNCHANGED <<disk, phase, corrected, memory, fitted, history, call>>

----------------------------------------------------------------------------
(* Training.                                                               *)

\* Without a feedback file the observations of run() are gone with its
\* store, and the suite runs once more to collect them in memory.
Recollect ==
  /\ pc = "final" /\ job.kind = "calibrate" /\ ~ job.feedback
  /\ phase' = "recollect" /\ pc' = "open" /\ trial' = 1 /\ position' = 1
  /\ UNCHANGED <<disk, job, corrected, outcomes, memory, fitted, history, call>>

\* history() of calibrate, plan_history() of train.
History == Range(IF job.feedback THEN store ELSE memory)

\* Mutant: training reads every observation, with what features it has.
AllHistory == {[o EXCEPT !.features = IF @ = None THEN BaselineOnly(o.est) ELSE @] : o \in Range(store)}

PlanHistory == {o \in Range(store) : o.features # None}
FittedTo(observations) == IF job.kind = "train" THEN TrainOnPlans(observations) ELSE TrainGbt(observations)

Calibrated == pc = IF job.feedback THEN "final" ELSE "fit"

\* Train in memory and run the suite again under the model.
Fit ==
  /\ job.kind = "calibrate" /\ phase # "rerun" /\ Calibrated
  /\ \/ /\ FittedTo(History) # {}
        /\ fitted' = FittedTo(History)
        /\ phase' = "rerun" /\ pc' = "open" /\ trial' = 1 /\ position' = 1
        /\ UNCHANGED <<job, memory, ended, call>>
     \/ /\ FittedTo(History) = {}
        /\ End(IF History = {} THEN "ok" ELSE "error") /\ UNCHANGED <<phase, trial, position>>
  /\ UNCHANGED <<disk, corrected, outcomes, given, first, faults>>

Calibration ==
  /\ pc = "fit" /\ phase = "rerun"
  /\ End("ok")
  /\ UNCHANGED <<disk, phase, progress, given, first, faults>>

\* train(): only observations with features.
Train ==
  /\ pc = "fit" /\ job.kind = "train"
  /\ \/ /\ FittedTo(PlanHistory) # {}
        /\ fitted' = FittedTo(PlanHistory) /\ pc' = "save"
        /\ UNCHANGED <<job, memory, ended, call>>
     \/ FittedTo(PlanHistory) = {} /\ End("error")
  /\ UNCHANGED <<disk, phase, progress, given, first, faults>>

Save ==
  /\ pc = "save"
  /\ \/ model' = Torn(model) /\ Continue("saving") /\ UNCHANGED call
     \/ AbortOnFail /\ UNCHANGED model
  /\ UNCHANGED <<store, report, progress>>

Saved ==
  /\ pc = "saving"
  /\ \/ model' = [state |-> "whole", trained |-> fitted] /\ End("ok") /\ UNCHANGED faults
     \/ AbortOnFail /\ UNCHANGED model
  /\ UNCHANGED <<store, report, phase, progress, given, first>>

\* Out of memory, or the operator: whatever was on disk stays as it was.
Kill ==
  /\ Busy /\ Fault /\ End("killed")
  /\ UNCHANGED <<disk, phase, progress, given, first>>

Step == Open \/ Correct \/ CallReturns \/ NextQuery \/ Record \/ Flush \/ Flushed \/ Final \/ Finish \/ CompareAgain
          \/ Recollect \/ Fit \/ Calibration \/ Train \/ Save \/ Saved

\* No more commands: the end of a campaign is no deadlock.
Done == ~ Busy /\ given \in Campaign /\ UNCHANGED vars

Command == UNION {Range(s) : s \in Campaign}

Next == (\E c \in Command : Give(c)) \/ Plan \/ AskServer \/ Answering \/ Abandon \/ Execute \/ TimeOut \/ Step \/ Kill \/ Done

Spec == Init /\ [][Next]_vars

\* The program goes on; and a connection, a write or a read of a call to a
\* server that takes too long ends by its limit, which starts over with the
\* next one.  Nothing says that the server or the engine answers, or lets go
\* of the thread for a query's own limit to be seen.
FairSpec ==
  /\ Spec /\ WF_vars(Step)
  /\ \A at \in Phases, parts \in 0 .. MaxParts : WF_vars(Abandon /\ call.phase = at /\ call.parts = parts)

----------------------------------------------------------------------------
(* Properties.                                                             *)

Running == Busy /\ Collecting /\ job.kind # "train"
Ok(outcome) == outcome.status = "ok"
Since(seq, n) == SubSeq(seq, n + 1, Len(seq))

\* The nodes of q's plan that join, and those among them with a given
\* estimate and measure.
JoinsOf == [b \in BOOLEAN |-> [q \in Query |-> {n \in Node : IsJoinNode(n) /\ n \in Range(PreOrder[Root[b][q]])}]]
Measured(b, q, j) == {n \in JoinsOf[b][q] : Operator[n] = j.type /\ Reports[n].rows = j.est /\ Emits[n] = j.actual}

\* How many of the first i queries that ended have succeeded.
Succeeded(i) == Cardinality({k \in 1 .. i : Ok(outcomes[k])})

\* The k-th observation that a run adds to the store is its k-th success's.
Recorded ==
  Running /\ job.feedback =>
    /\ Len(store) = first + Succeeded(Len(outcomes))
    /\ \A i \in DOMAIN outcomes : Ok(outcomes[i]) =>
         LET q == outcomes[i].query
         IN store[first + Succeeded(i)] =
              [query |-> q, est |-> Estimate[job.baseline][q], actual |-> Actual[q],
               features |-> Features[job.baseline][q]]

\* The joins reported of q are those of its plan, each with its own numbers.
WellMeasured(b, q, joins) ==
  /\ Len(joins) = Cardinality(JoinsOf[b][q])
  /\ \A n \in JoinsOf[b][q] : \E j \in Range(joins) : n \in Measured(b, q, j)
  /\ \A j \in Range(joins) : Measured(b, q, j) # {} /\ (j.q # None => j.q[1] >= j.q[2])

\* What a run adds to the feedback store is its successful queries, in
\* order, with the rows each returned and the features and the estimate of
\* the engine: a corrector's own answer must never become what the next
\* model learns from, and a timeout or an error no observation of zero rows.
\* And what it reports of every join of such a query is one join's: the rows
\* estimated before and counted after execution are not two nodes'.
ObservationsMatchOutcomes ==
  /\ Recorded
  /\ Running => \A i \in DOMAIN outcomes :
       Ok(outcomes[i]) => WellMeasured(job.baseline, outcomes[i].query, outcomes[i].joins)

\* The queries that no command so far could record.
HeldOut ==
  {q \in Query : \A c \in Range(given) :
     c.kind # "train" /\ c.feedback => q \in c.exclude \/ (c.only # {} /\ q \notin c.only)}

Seen(rows) == {r.query : r \in rows}

\* A model that comes from a file was fitted without the queries held out of
\* the campaign, although the store may name them in rows of older builds,
\* whatever ran, failed or was killed before.
HeldOutUnseen ==
  /\ Seen(model.trained) \cap HeldOut = {}
  /\ Busy /\ job.kind # "calibrate" => Seen(fitted) \cap HeldOut = {}

Unlost == {"next", "plan", "correct", "execute", "record"}

\* The report on disk lacks nothing of the outcomes but timeouts.
LacksTimeouts ==
  LET kept == IF report.run = number THEN Len(report.outcomes) ELSE 0
  IN /\ report.run = number => report.state = "whole" /\ IsPrefix(report.outcomes, outcomes)
     /\ \A i \in kept + 1 .. Len(outcomes) : outcomes[i].status = "timeout"

\* The loop has reached o before p.
Earlier(o, p) ==
  \/ o.trial < p.trial
  \/ o.trial = p.trial /\ \E a, b \in DOMAIN Suite : a < b /\ Suite[a] = o.query /\ Suite[b] = p.query

InOrder(reported) == \A i, j \in DOMAIN reported : i < j => Earlier(reported[i], reported[j])

\* Every query that c executes is reported in each of its trials.
Complete(reported, c) ==
  {<<o.trial, o.query>> : o \in Range(reported)} = (1 .. AtLeastOne(c.trials)) \X Executed(c)

\* Between two flushes that succeeded, the report on disk lacks nothing of
\* the run but timeouts that no later query has flushed; and a run that ends
\* well has reported every query it selected, once in every trial and in
\* order, whether it failed, timed out or was slow ("cherry-picking
\* forbidden").
LossIsTimeouts ==
  /\ Running /\ job.json /\ faults = 0 /\ pc \in Unlost => LacksTimeouts
  /\ ~ Busy /\ ended = "ok" /\ Last(given).kind = "run" /\ Last(given).json /\ Last(given).data =>
       /\ report.state = "whole" /\ report.run = number
       /\ InOrder(report.outcomes) /\ Complete(report.outcomes, Last(given))

\* The contract of the correctors, seen from the runner: only a caller's own
\* can fail a query, never a server that refuses, lies or stalls; and an
\* estimate that is not the engine's is within the ceiling.
CorrectorContract ==
  Running => \A i \in DOMAIN outcomes :
    /\ outcomes[i].cause = "corrector" => job.corrector = "faulty"
    /\ Ok(outcomes[i]) /\ outcomes[i].est # Estimate[job.baseline][outcomes[i].query] => outcomes[i].est <= job.ceiling

\* What the limits of a call to a server give, which blocks its caller and is
\* not interrupted by the query's own: it ends, although the server may stop
\* at any point, unless the server goes on sending parts of a body for ever,
\* each in time.
CallsEnd == []<><<Part>>_call \/ (call.phase # "idle" ~> call.phase = "idle")
=============================================================================
