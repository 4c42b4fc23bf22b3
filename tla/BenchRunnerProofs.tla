------------------------ MODULE BenchRunnerProofs ------------------------
(***************************************************************************)
(* What a campaign leaves on disk is right for any suite, plans, results,  *)
(* commands, number of trials and faults: the feedback store holds what    *)
(* the successful queries saw, the report lacks nothing but timeouts and   *)
(* in the end nothing, no model learns from a query held out, and only a   *)
(* caller's own corrector can fail one.                                    *)
(***************************************************************************)
EXTENDS BenchRunner, SequenceTheorems, FiniteSetTheorems, WellFoundedInduction, TLAPS

JobType ==
  [kind : {"run", "compare", "calibrate", "train"}, data : BOOLEAN, baseline : BOOLEAN, only : SUBSET Query,
   exclude : SUBSET Query, trials : Nat \ {0}, timeout : BOOLEAN, corrector : CorrectorArg \cup Attached,
   ceiling : U64, feedback : BOOLEAN, json : BOOLEAN]

\* The outcomes of a query: a success reports the joins of a plan.
Reportable ==
  [query : Query, trial : Nat, status : Status, est : U64, cause : {"none", "engine", "corrector"},
   joins : {MeasuredJoins[b][q] : b \in BOOLEAN, q \in Query} \cup {<<>>}]

Pcs == {"idle", "open", "next", "plan", "correct", "execute", "record", "flush", "flushing", "final", "finishing",
        "fit", "save", "saving"}

TypeOK ==
  /\ store \in Seq(Observation)
  /\ model = [state |-> model.state, trained |-> model.trained]
  /\ report = [state |-> report.state, run |-> report.run, outcomes |-> report.outcomes]
  /\ report.run \in 0 .. number /\ report.outcomes \in Seq(Reportable)
  /\ job \in JobType \cup {Idle}
  /\ phase \in {"collect", "recollect", "rerun"} /\ pc \in Pcs
  /\ trial \in Nat \ {0} /\ position \in Nat \ {0} /\ corrected \in U64
  /\ outcomes \in Seq(Reportable)
  /\ given \in Seq(CommandType) /\ first \in Nat /\ faults \in Nat
  /\ call \in [phase : Phases, parts : 0 .. MaxParts, answer : U64 \cup {None}]

\* The command under way is the last one given.
AsGiven ==
  LET c == given[number]
  IN  /\ number > 0
      /\ job.kind = c.kind /\ job.only = c.only /\ job.exclude = c.exclude
      /\ job.trials = AtLeastOne(c.trials)
      /\ job.feedback <=> c.feedback
      /\ job.json <=> c.json

\* Where each kind of command can be.
AtQuery == {"plan", "correct", "execute", "record"}
Placed ==
  /\ pc = "idle" <=> ~ Busy
  /\ Busy /\ job.kind # "calibrate" => Collecting
  /\ Busy /\ job.kind = "train" => pc \in {"open", "fit", "save", "saving"}
  /\ Busy /\ job.kind = "compare" => ~ job.json
  /\ pc \in {"save", "saving"} => job.kind = "train"
  /\ pc \in {"flush", "flushing", "final", "finishing"} => Collecting
  /\ Busy => trial <= Trials /\ position <= Len(Suite) + 1
  /\ pc \in AtQuery => position <= Len(Suite) /\ Current \in Executed(job)
  /\ pc \in {"final", "finishing"} => trial = Trials /\ position > Len(Suite)

\* The call to the server, and what the corrector made of the estimate.
Answered ==
  /\ call # NoCall => pc = "correct" /\ ActiveCorrector = "http"
  /\ call.answer # None => Busy /\ call.answer <= job.ceiling
  /\ pc = "correct" => ActiveCorrector # "none" /\ corrected = Estimate[job.baseline][Current]
  /\ pc \in {"execute", "record"} /\ Collecting => corrected = Estimate[job.baseline][Current] \/ corrected <= job.ceiling

\* The queries the loop has passed.
Passed(q) == \E k \in 1 .. position - 1 : Suite[k] = q
Covered ==
  Running =>
    /\ InOrder(outcomes)
    /\ \A o \in Range(outcomes) : o.trial < trial \/ (o.trial = trial /\ Passed(o.query))
    /\ \A t \in 1 .. Trials, q \in Executed(job) :
         t < trial \/ (t = trial /\ Passed(q)) => \E o \in Range(outcomes) : o.trial = t /\ o.query = q
    /\ \A o \in Range(outcomes) : o.trial \in 1 .. Trials /\ o.query \in Executed(job)

\* Before its first query a run has reported nothing.
Fresh == Running /\ pc = "open" => outcomes = <<>> /\ (job.json => report.run < number)

\* Rows with features are of no query held out; and so are those a model in a
\* file was fitted to.
Clean(rows) == \A r \in rows : r.query \notin HeldOut
Untainted ==
  /\ \A o \in Range(store) : o.features # None => o.query \notin HeldOut
  /\ Clean(model.trained)
  /\ Busy /\ job.kind # "calibrate" => Clean(fitted)

\* What a run says of its successes.
Joined ==
  Running => \A i \in DOMAIN outcomes :
    Ok(outcomes[i]) => outcomes[i].joins = MeasuredJoins[job.baseline][outcomes[i].query]
Reporting == CorrectorContract /\ Joined

IInv ==
  /\ TypeOK /\ (Busy => AsGiven) /\ Placed /\ Answered /\ Covered /\ Fresh
  /\ Untainted /\ Recorded /\ LossIsTimeouts /\ Reporting
----------------------------------------------------------------------------
(* The commands, the correctors and the outcomes.                          *)

\* What a command asks for is what is done.
LEMMA Configurations ==
  ASSUME NEW c \in CommandType
  PROVE  /\ Configured(c) \in JobType /\ Configured(c).kind = c.kind
         /\ Configured(c).only = c.only /\ Configured(c).exclude = c.exclude
         /\ Configured(c).trials = AtLeastOne(c.trials)
         /\ Configured(c).feedback <=> c.feedback
         /\ Configured(c).json <=> c.json
         /\ Configured(c).data <=> c.data
         /\ c.kind = "compare" => ~ c.json /\ ~ c.feedback
<1>1. PICK k \in {"run", "compare", "calibrate", "train"}, d \in BOOLEAN, b \in BOOLEAN, o \in SUBSET Query, x \in SUBSET Query,
        t \in Nat, s \in Nat, r \in CorrectorArg \cup Attached, m \in U64, f \in BOOLEAN, j \in BOOLEAN :
        /\ c = [kind |-> k, data |-> d, baseline |-> b, only |-> o, exclude |-> x, trials |-> t, timeout |-> s,
                corrector |-> r, ceiling |-> m, feedback |-> f, json |-> j]
        /\ k = "compare" => j = FALSE /\ f = FALSE
  <2>1. CASE c \in RunArgs
    BY <2>1 DEF RunArgs
  <2>2. MaxU64 \in U64 /\ 0 \in Nat /\ 1 \in Nat /\ "none" \in CorrectorArg /\ {} \in SUBSET Query
    BY WordAssumption DEF U64, CorrectorArg
  <2>3. CASE c \in CompareArgs
    <3>1. PICK d \in BOOLEAN : c = [Default("compare", d) EXCEPT !.baseline = TRUE]
      BY <2>3 DEF CompareArgs
    <3>2. c = [kind |-> "compare", data |-> d, baseline |-> TRUE, only |-> {}, exclude |-> {}, trials |-> 1, timeout |-> 0,
               corrector |-> "none", ceiling |-> MaxU64, feedback |-> FALSE, json |-> FALSE]
      BY <3>1 DEF Default
    <3> QED  BY <3>2, <2>2
  <2>4. CASE c \in CalibrateArgs
    <3>1. PICK d \in BOOLEAN, f \in BOOLEAN : c = [Default("calibrate", d) EXCEPT !.feedback = f]
      BY <2>4 DEF CalibrateArgs
    <3>2. c = [kind |-> "calibrate", data |-> d, baseline |-> FALSE, only |-> {}, exclude |-> {}, trials |-> 1, timeout |-> 0,
               corrector |-> "none", ceiling |-> MaxU64, feedback |-> f, json |-> FALSE]
      BY <3>1 DEF Default
    <3> QED  BY <3>2, <2>2
  <2>5. CASE c \in TrainArgs
    <3>1. c = [kind |-> "train", data |-> FALSE, baseline |-> FALSE, only |-> {}, exclude |-> {}, trials |-> 1, timeout |-> 0,
               corrector |-> "none", ceiling |-> MaxU64, feedback |-> TRUE, json |-> FALSE]
      BY <2>5 DEF TrainArgs, Default
    <3> QED  BY <3>1, <2>2
  <2> QED  BY <2>1, <2>3, <2>4, <2>5 DEF CommandType
<1>2. PICK z \in BOOLEAN : z <=> s > 0
  OBVIOUS
<1>3. AtLeastOne(t) \in Nat \ {0}
  BY DEF AtLeastOne
<1>4. Configured(c) = [kind |-> k, data |-> d, baseline |-> b, only |-> o, exclude |-> x, trials |-> AtLeastOne(t),
                       timeout |-> z, corrector |-> r, ceiling |-> m, feedback |-> f, json |-> j]
  <2>1. c.trials = t /\ c.timeout = s
    BY <1>1
  <2>2. (c.timeout > 0) = z
    BY <1>2, <2>1
  <2>3. Configured(c) = [c EXCEPT !.trials = AtLeastOne(t), !.timeout = z]
    BY <2>1, <2>2, Zenon DEF Configured
  <2> QED  BY <1>1, <2>3, ZenonT(60)
<1>5. Configured(c) \in JobType
  BY <1>3, <1>4 DEF JobType
<1> QED  BY <1>1, <1>4, <1>5

\* A command under way is not the idle one.
LEMMA Jobs == Idle \notin JobType
  BY DEF Idle, JobType

LEMMA Clamped ==
  ASSUME NEW x \in Int \cup {NaN}, NEW ceiling \in U64
  PROVE  SaturatingClamp(x, ceiling) \in U64 /\ SaturatingClamp(x, ceiling) <= ceiling
  BY WordAssumption DEF SaturatingClamp, Least, AtLeastZero, U64

\* What a corrector may answer, and which may fail.
LEMMA Answers ==
  ASSUME NEW kind \in (CorrectorArg \cup Attached) \ {"none", "http"}, NEW est \in U64, NEW ceiling \in U64,
         NEW answer \in Corrections(kind, est, ceiling)
  PROVE  /\ answer \in U64 \cup {None, Err}
         /\ answer = Err => kind = "faulty"
         /\ answer \in U64 => answer = est \/ answer <= ceiling
<1>0. U64 \subseteq Int /\ Err \notin U64 /\ None \notin U64 /\ None # Err
  BY PredictionAssumption DEF U64
<1>1. CASE kind = "identity"
  BY <1>0, <1>1 DEF Corrections, IdentityCorrector
<1>2. CASE kind = "stub"
  BY <1>0, <1>2 DEF Corrections, TabPfnStub
<1>3. CASE kind = "gbt"
  <2>1. PICK x \in Scaled(est) : answer = SaturatingClamp(x, ceiling)
    BY <1>3 DEF Corrections, GbtCorrector
  <2>2. x \in Int \cup {NaN}
    BY PredictionAssumption DEF Scaled
  <2> QED  BY <1>0, <1>3, <2>1, <2>2, Clamped
<1>4. CASE kind = "additive"
  <2>1. PICK x \in Prediction \cup {NaN} : answer = SaturatingClamp(AtLeastZero(x), ceiling)
    BY <1>4 DEF Corrections, AdditiveGbtCorrector
  <2>2. AtLeastZero(x) \in Int \cup {NaN}
    BY PredictionAssumption DEF AtLeastZero
  <2> QED  BY <1>0, <1>4, <2>1, <2>2, Clamped
<1>5. CASE kind = "faulty"
  BY <1>0, <1>5 DEF Corrections
<1> QED  BY <1>1, <1>2, <1>3, <1>4, <1>5 DEF CorrectorArg, Attached

\* The first to succeed are counted by their number.
LEMMA Successes ==
  ASSUME outcomes \in Seq(Reportable), NEW i \in 0 .. Len(outcomes)
  PROVE  Succeeded(i) \in Nat /\ IsFiniteSet({k \in 1 .. i : Ok(outcomes[k])})
<1>1. IsFiniteSet(1 .. i) /\ {k \in 1 .. i : Ok(outcomes[k])} \subseteq 1 .. i
  BY FS_Interval
<1> QED  BY <1>1, FS_Subset, FS_CardinalityType DEF Succeeded

----------------------------------------------------------------------------
(* What steps that are not about an invariant leave of it.                 *)

\* A step of a command that records nothing.
LEMMA StoreUndisturbed ==
  ASSUME IInv, Busy, UNCHANGED <<job, store, given, fitted>>, model'.trained = model.trained
  PROVE  (Busy => AsGiven)' /\ Untainted' /\ Busy'
<1>1. AsGiven' /\ Busy'
  BY DEF IInv, AsGiven, Busy, number
<1>2. HeldOut' = HeldOut
  BY DEF HeldOut
<1>3. Untainted'
  BY <1>2 DEF IInv, Untainted, Clean, Busy
<1> QED  BY <1>1, <1>3

\* Nor does a query end with it.
LEMMA Undisturbed ==
  ASSUME IInv, Busy, UNCHANGED <<job, phase, store, outcomes, first, given, fitted>>, model'.trained = model.trained
  PROVE  (Busy => AsGiven)' /\ Untainted' /\ Busy' /\ Recorded' /\ Reporting'
<1>1. Recorded'
  BY DEF IInv, Recorded, Running, Busy, Collecting, Succeeded
<1>2. Reporting'
  BY DEF IInv, Reporting, CorrectorContract, Joined, Running, Busy, Collecting
<1> QED  BY <1>1, <1>2, StoreUndisturbed

\* The loop has passed the same queries.
LEMMA CoverageUndisturbed ==
  ASSUME IInv, UNCHANGED <<job, phase, outcomes, trial, position>>
  PROVE  Covered'
BY DEF IInv, Covered, Running, Busy, Collecting, Trials, Passed, Executed, Selected

\* A step of the loop that reports nothing.
LEMMA ReportUndisturbed ==
  ASSUME IInv, Busy', UNCHANGED <<job, phase, outcomes, report, given>>, faults' = 0 => faults = 0,
         pc' \in Unlost => pc \in Unlost
  PROVE  LossIsTimeouts'
<1>1. LacksTimeouts' <=> LacksTimeouts
  BY DEF LacksTimeouts, number
<1> QED  BY <1>1 DEF IInv, LossIsTimeouts, Running, Busy, Collecting

\* When a command has ended there is less to say.
LEMMA Ended ==
  ASSUME IInv, NEW how, End(how), UNCHANGED store, HeldOut' \subseteq HeldOut, Clean(model'.trained)
  PROVE  /\ (Busy => AsGiven)'
         /\ Placed'
         /\ Answered'
         /\ Covered'
         /\ Fresh'
         /\ Recorded'
         /\ Reporting'
         /\ Untainted'
         /\ ~ Busy'
<1>1. ~ Busy' /\ pc' = "idle" /\ call' = NoCall
  BY DEF End, Busy
<1>2. Placed'
  BY <1>1 DEF Placed, AtQuery
<1>3. Answered'
  BY <1>1 DEF Answered, NoCall
<1>4. Untainted'
  BY <1>1 DEF IInv, Untainted, Clean
<1> QED  BY <1>1, <1>2, <1>3, <1>4 DEF Covered, Fresh, Recorded, Reporting, CorrectorContract, Joined, Running

LEMMA NoCallTyped == NoCall \in [phase : Phases, parts : 0 .. MaxParts, answer : U64 \cup {None}]
  BY PartsAssumption DEF NoCall, Phases

\* A command that stops: no run does so and says that all is well.
LEMMA Stops ==
  ASSUME IInv, Busy, NEW how, End(how), how = "ok" => job.kind # "run", faults' \in Nat,
         UNCHANGED <<store, phase, progress, given, first>>,
         model' = [state |-> model'.state, trained |-> model'.trained], Clean(model'.trained),
         report' = [state |-> report'.state, run |-> report'.run, outcomes |-> report'.outcomes],
         report'.run \in 0 .. number, report'.outcomes \in Seq(Reportable)
  PROVE  IInv'
<1>1. HeldOut' = HeldOut
  BY DEF HeldOut
<1>2. TypeOK'
  BY NoCallTyped DEF IInv, TypeOK, End, progress, number, Pcs
<1>3. LossIsTimeouts'
  BY DEF IInv, LossIsTimeouts, Running, Busy, End, AsGiven, Last, number
<1> QED  BY <1>1, <1>2, <1>3, Ended DEF IInv

\* A write that fails stops a command, and so does a kill.
LEMMA Aborts ==
  ASSUME IInv, Busy, NEW how, Fault, End(how), how # "ok", UNCHANGED <<disk, phase, progress, given, first>>
  PROVE  IInv'
<1>1. faults' \in Nat /\ TypeOK /\ Clean(model.trained)
  BY BoundAssumption DEF IInv, TypeOK, Fault, Untainted
<1>2. UNCHANGED <<store, model, report>>
  BY DEF disk
<1>3. report' = report /\ model' = model /\ UNCHANGED store
  BY <1>2
<1>4. /\ model' = [state |-> model'.state, trained |-> model'.trained]
      /\ report' = [state |-> report'.state, run |-> report'.run, outcomes |-> report'.outcomes]
      /\ report'.run \in 0 .. number /\ report'.outcomes \in Seq(Reportable) /\ Clean(model'.trained)
  BY <1>1, <1>3 DEF TypeOK
<1> QED  BY <1>1, <1>3, <1>4, Stops

----------------------------------------------------------------------------
(* What a query reports.                                                   *)

\* A query that ends is reported in its turn and the loop goes on.
LEMMA Turn ==
  ASSUME IInv, pc \in AtQuery, NEW status \in Status, NEW est \in U64, NEW cause \in {"none", "engine", "corrector"},
         outcomes' = Reported(Now(status, est, cause)), position' = position + 1, UNCHANGED <<job, phase, trial>>
  PROVE  /\ outcomes' \in Seq(Reportable)
         /\ position' \in Nat \ {0} /\ position' <= Len(Suite) + 1
         /\ Covered'
<1> DEFINE o == Now(status, est, cause)
<1>1. /\ position \in Nat \ {0} /\ position <= Len(Suite) /\ Len(Suite) \in Nat
      /\ Current \in Executed(job) /\ Current \in Query
      /\ trial \in Nat \ {0} /\ Busy /\ trial <= Trials
      /\ outcomes \in Seq(Reportable) /\ job \in JobType
  BY SuiteAssumption DEF IInv, TypeOK, Placed, AtQuery, Executed, Selected, Busy
<1>2. o \in Reportable /\ o.trial = trial /\ o.query = Current
  <2>1. MeasuredJoins[job.baseline][Current] \in {MeasuredJoins[b][q] : b \in BOOLEAN, q \in Query}
    BY <1>1 DEF JobType
  <2> QED  BY <1>1, <2>1 DEF Now, Reportable, Ok
<1> HIDE DEF o
<1>3. outcomes' \in Seq(Reportable)
  BY <1>1, <1>2 DEF Reported, o
<1>4. ASSUME Running' PROVE Covered'
  <2>1. Running /\ Covered /\ outcomes' = Append(outcomes, o)
    BY <1>4, <1>2 DEF Running, Busy, Collecting, IInv, Reported, o
  <2>2. Trials' = Trials /\ Executed(job)' = Executed(job)
    BY DEF Trials, Collecting, Executed, Selected
  <2>3. Range(outcomes') = Range(outcomes) \cup {o}
    BY <1>1, <1>2, <2>1 DEF Range
  <2>4. \A q : Passed(q)' <=> Passed(q) \/ q = Current
    BY <1>1 DEF Passed, Current
  <2>5. InOrder(outcomes)'
    <3>1. SUFFICES ASSUME NEW i \in DOMAIN outcomes', NEW j \in DOMAIN outcomes', i < j
                   PROVE  Earlier(outcomes'[i], outcomes'[j])
      BY DEF InOrder, Earlier
    <3>2. i \in DOMAIN outcomes /\ outcomes'[i] = outcomes[i] /\ outcomes[i] \in Range(outcomes)
      BY <1>1, <2>1, <3>1 DEF Range
    <3>3. CASE j \in DOMAIN outcomes
      BY <1>1, <2>1, <3>1, <3>2, <3>3 DEF Covered, InOrder
    <3>4. CASE j \notin DOMAIN outcomes
      <4>1. outcomes'[j] = o
        BY <1>1, <2>1, <3>1, <3>4
      <4>2. outcomes[i].trial < trial \/ (outcomes[i].trial = trial /\ Passed(outcomes[i].query))
        BY <2>1, <3>2 DEF Covered
      <4>3. Passed(outcomes[i].query) =>
              \E a, b \in DOMAIN Suite : a < b /\ Suite[a] = outcomes[i].query /\ Suite[b] = Current
        BY <1>1, SuiteAssumption DEF Passed, Current
      <4> QED  BY <1>2, <3>2, <4>1, <4>2, <4>3 DEF Earlier
    <3> QED  BY <3>3, <3>4
  <2>6. \A p \in Range(outcomes') : p.trial < trial \/ (p.trial = trial /\ Passed(p.query)')
    BY <1>2, <2>1, <2>3, <2>4 DEF Covered
  <2>7. ASSUME NEW t \in 1 .. Trials, NEW q \in Executed(job), t < trial \/ (t = trial /\ Passed(q)')
        PROVE  \E p \in Range(outcomes') : p.trial = t /\ p.query = q
    BY <1>2, <2>1, <2>3, <2>4, <2>7 DEF Covered
  <2>8. \A p \in Range(outcomes') : p.trial \in 1 .. Trials /\ p.query \in Executed(job)
    BY <1>1, <1>2, <2>1, <2>3 DEF Covered, Trials
  <2> QED  BY <2>2, <2>5, <2>6, <2>7, <2>8 DEF Covered, Passed
<1>5. ~ Running' => Covered'
  BY DEF Covered
<1> QED  BY <1>1, <1>3, <1>4, <1>5

\* A report adds itself to the successes, when it is one.
LEMMA Counting ==
  ASSUME outcomes \in Seq(Reportable), NEW o \in Reportable, outcomes' = Append(outcomes, o),
         NEW n \in Nat, n = Len(outcomes)
  PROVE  /\ \A i \in 0 .. n : Succeeded(i)' = Succeeded(i) /\ Succeeded(i) \in Nat
         /\ Len(outcomes') = n + 1
         /\ Succeeded(n + 1)' = IF Ok(o) THEN Succeeded(n) + 1 ELSE Succeeded(n)
<1>1. ASSUME NEW i \in 0 .. n PROVE Succeeded(i)' = Succeeded(i)
  <2>1. {k \in 1 .. i : Ok(outcomes'[k])} = {k \in 1 .. i : Ok(outcomes[k])}
    OBVIOUS
  <2> QED  BY <2>1 DEF Succeeded, Ok
<1>2. \A i \in 0 .. n : Succeeded(i) \in Nat
  BY Successes
<1> DEFINE S == {k \in 1 .. n : Ok(outcomes[k])}
           T == {k \in 1 .. n + 1 : Ok(outcomes'[k])}
<1>3. IsFiniteSet(S) /\ n + 1 \notin S /\ Succeeded(n) = Cardinality(S)
  <2>1. n \in 0 .. Len(outcomes) /\ n + 1 \notin S
    OBVIOUS
  <2>2. IsFiniteSet(S)
    BY <2>1, Successes
  <2> QED  BY <2>1, <2>2 DEF Succeeded
<1>4. Succeeded(n + 1)' = Cardinality(T) /\ Len(outcomes') = n + 1
  BY DEF Succeeded, Ok
<1>5. T = IF Ok(o) THEN S \cup {n + 1} ELSE S
  OBVIOUS
<1> HIDE DEF S, T
<1>6. Cardinality(S \cup {n + 1}) = Cardinality(S) + 1
  BY <1>3, FS_AddElement
<1> QED  BY <1>1, <1>2, <1>3, <1>4, <1>5, <1>6

\* A query that times out or fails.
LEMMA Unsuccessful ==
  ASSUME IInv, pc \in AtQuery, NEW status \in {"timeout", "error"}, NEW cause \in {"none", "engine", "corrector"},
         NEW next \in {"flush", "next"}, Conclude(Now(status, 0, cause), next), UNCHANGED disk, call' = NoCall,
         next = "flush" => Collecting,
         next = "next" => status = "timeout" \/ ~ Collecting,
         cause = "corrector" /\ Collecting => job.corrector = "faulty"
  PROVE  IInv'
<1> DEFINE o == Now(status, 0, cause)
<1>1. /\ outcomes' = Reported(o) /\ position' = position + 1 /\ pc' = next /\ call' = NoCall
      /\ UNCHANGED <<job, phase, memory, fitted, given, first, ended, faults, trial, corrected, store, model, report>>
  BY DEF Conclude, Continue, history, disk
<1>2. 0 \in U64 /\ status \in Status
  BY WordAssumption DEF U64, Status
<1>3. /\ outcomes' \in Seq(Reportable)
      /\ position' \in Nat \ {0} /\ position' <= Len(Suite) + 1
      /\ Covered'
  BY <1>1, <1>2, Turn
<1>4. /\ outcomes \in Seq(Reportable) /\ Busy /\ trial <= Trials /\ job.kind # "train" /\ position \in Nat \ {0}
      /\ position <= Len(Suite) /\ Current \in Query
  BY DEF IInv, TypeOK, Placed, AtQuery, Busy, Executed, Selected
<1>5. (Busy => AsGiven)' /\ Untainted' /\ Busy'
  BY <1>1, <1>4, StoreUndisturbed
<1>6. o.status = status /\ o.cause = cause /\ o.status # "ok" /\ o.est = 0
  BY DEF Now
<1>7. o \in Reportable
  BY <1>2, <1>4 DEF Now, Reportable, Ok, IInv, TypeOK
<1> HIDE DEF o
<1>8. Running' => Running /\ outcomes' = Append(outcomes, o)
  BY <1>1 DEF Running, Busy, Collecting, Reported
<1>9. TypeOK'
  BY <1>1, <1>3, NoCallTyped DEF IInv, TypeOK, Pcs, number
<1>10. Placed'
  BY <1>1, <1>3, <1>4 DEF IInv, Placed, AtQuery, Busy, Collecting, Trials
<1>11. Answered' /\ Fresh'
  BY <1>1 DEF Answered, Fresh, NoCall
<1>12. Recorded'
  <2>1. SUFFICES ASSUME Running', job.feedback
                 PROVE  /\ Len(store) = first + Succeeded(Len(outcomes))'
                        /\ \A i \in DOMAIN outcomes' : Ok(outcomes'[i]) =>
                             store[first + Succeeded(i)'] =
                               [query |-> outcomes'[i].query, est |-> Estimate[job.baseline][outcomes'[i].query],
                                actual |-> Actual[outcomes'[i].query], features |-> Features[job.baseline][outcomes'[i].query]]
    BY <1>1 DEF Recorded, Ok
  <2>2. PICK n \in Nat : n = Len(outcomes)
    BY <1>4
  <2>3. outcomes' = Append(outcomes, o) /\ Running
    BY <1>8, <2>1
  <2>4. /\ \A i \in 0 .. n : Succeeded(i)' = Succeeded(i)
        /\ Len(outcomes') = n + 1
        /\ Succeeded(n + 1)' = Succeeded(n)
    BY <1>4, <1>6, <1>7, <2>2, <2>3, Counting DEF Ok
  <2>5. Succeeded(Len(outcomes))' = Succeeded(n + 1)'
    BY <2>4 DEF Succeeded
  <2>6. ASSUME NEW i \in DOMAIN outcomes', Ok(outcomes'[i])
        PROVE  i \in 1 .. n /\ outcomes'[i] = outcomes[i]
    BY <1>4, <1>6, <2>2, <2>3, <2>4, <2>6 DEF Ok
  <2>7. Recorded
    BY DEF IInv
  <2> QED  BY <1>4, <2>1, <2>2, <2>3, <2>4, <2>5, <2>6, <2>7 DEF Recorded, Ok
<1>13. Reporting'
  <2>1. CorrectorContract'
    BY <1>1, <1>4, <1>6, <1>7, <1>8 DEF IInv, Reporting, CorrectorContract, Ok, Running
  <2>2. Joined'
    BY <1>1, <1>4, <1>6, <1>7, <1>8 DEF IInv, Reporting, Joined, Ok, Running
  <2> QED  BY <2>1, <2>2 DEF Reporting
<1>14. LossIsTimeouts'
  <2>1. SUFFICES ASSUME Running', job.json, faults = 0, next = "next" PROVE LacksTimeouts'
    BY <1>1, <1>5 DEF LossIsTimeouts, Unlost
  <2>2. outcomes' = Append(outcomes, o) /\ Running /\ o.status = "timeout"
    BY <1>6, <1>8, <2>1 DEF Running
  <2>3. LacksTimeouts
    BY <1>1, <2>1, <2>2 DEF IInv, LossIsTimeouts, Unlost, AtQuery
  <2>4. IsPrefix(report.outcomes, outcomes) => IsPrefix(report.outcomes, outcomes')
    BY <1>4, <1>7, <2>2 DEF IInv, TypeOK, IsPrefix
  <2> QED  BY <1>1, <1>4, <1>7, <2>2, <2>3, <2>4 DEF LacksTimeouts, number
<1> QED  BY <1>3, <1>5, <1>9, <1>10, <1>11, <1>12, <1>13, <1>14 DEF IInv

----------------------------------------------------------------------------
(* The loop.                                                               *)

LEMMA OpenStep ==
  ASSUME IInv, Open
  PROVE  IInv'
<1>1. CASE AbortOnFail
  <2>1. Busy
    BY DEF Open, IInv, Placed
  <2> QED  BY <1>1, <2>1, Aborts DEF Open, AbortOnFail
<1>2. CASE Continue(IF job.kind = "train" THEN "fit" ELSE "next") /\ UNCHANGED call
  <2>1. /\ pc' = (IF job.kind = "train" THEN "fit" ELSE "next") /\ pc = "open" /\ Busy
        /\ UNCHANGED <<store, model, report, trial, position, corrected, outcomes, job, phase, memory, fitted, given, first,
                       ended, faults, call>>
    BY <1>2 DEF Open, Continue, disk, progress, history, IInv, Placed
  <2>2. (Busy => AsGiven)' /\ Untainted' /\ Busy' /\ Recorded' /\ Reporting' /\ Covered'
    BY <2>1, Undisturbed, CoverageUndisturbed DEF IInv, Untainted
  <2>3. TypeOK'
    BY <2>1 DEF IInv, TypeOK, Pcs, number
  <2>4. Placed'
    BY <2>1, <2>2 DEF IInv, Placed, AtQuery, Trials, Collecting
  <2>5. Answered' /\ Fresh'
    BY <2>1 DEF IInv, Answered, Fresh, ActiveCorrector, Collecting, Busy
  <2>6. LossIsTimeouts'
    <3>1. SUFFICES ASSUME Running, job.json PROVE LacksTimeouts'
      BY <2>1, <2>2 DEF LossIsTimeouts, Running, Busy, Collecting
    <3>2. report.run # number /\ outcomes = <<>>
      BY <2>1, <3>1 DEF IInv, Fresh, TypeOK, number
    <3> QED  BY <2>1, <3>2 DEF LacksTimeouts, number
  <2> QED  BY <2>2, <2>3, <2>4, <2>5, <2>6 DEF IInv
<1> QED  BY <1>1, <1>2 DEF Open

LEMMA NextQueryStep ==
  ASSUME IInv, NextQuery
  PROVE  IInv'
<1>1. /\ pc = "next" /\ Busy /\ pc' \in {"next", "final", "fit", "plan"}
      /\ UNCHANGED <<store, model, report, corrected, outcomes, job, phase, memory, fitted, given, first, ended, faults, call>>
  BY DEF NextQuery, Continue, disk, history, IInv, Placed
<1>2. (Busy => AsGiven)' /\ Untainted' /\ Busy' /\ Recorded' /\ Reporting'
  BY <1>1, Undisturbed DEF IInv, Untainted
<1>3. /\ position \in Nat \ {0} /\ trial \in Nat \ {0} /\ Trials \in Nat /\ Len(Suite) \in Nat
      /\ trial <= Trials /\ position <= Len(Suite) + 1 /\ job \in JobType
  BY <1>1, SuiteAssumption DEF IInv, TypeOK, Placed, Trials, Busy, JobType
<1>4. TypeOK'
  <2>1. trial' \in Nat \ {0} /\ position' \in Nat \ {0}
    BY <1>3 DEF NextQuery
  <2>2. pc' \in Pcs
    BY <1>1 DEF Pcs
  <2>3. number' = number
    BY <1>1 DEF number
  <2>4. TypeOK
    BY DEF IInv
  <2> QED  BY <1>1, <2>1, <2>2, <2>3, <2>4 DEF TypeOK
<1>5. Placed'
  <2>1. Trials' = Trials /\ Collecting' = Collecting /\ Executed(job)' = Executed(job)
    BY <1>1 DEF Trials, Collecting, Executed, Selected
  <2>2. job.kind # "train" /\ (job.kind # "calibrate" => Collecting) /\ (job.kind = "compare" => ~ job.json)
    BY <1>1 DEF IInv, Placed
  <2>3. /\ pc' = "final" => Collecting /\ trial' = Trials /\ position' > Len(Suite)
        /\ trial' <= Trials /\ position' <= Len(Suite) + 1
        /\ pc' = "plan" => position <= Len(Suite) /\ position' = position /\ Current \in Executed(job)
    BY <1>3 DEF NextQuery, Continue
  <2>4. pc' = "plan" => Current' = Current
    BY <2>3 DEF Current
  <2> QED  BY <1>1, <1>2, <2>1, <2>2, <2>3, <2>4 DEF Placed, AtQuery
<1>6. Answered' /\ Fresh'
  BY <1>1 DEF IInv, Answered, Fresh, ActiveCorrector, Collecting, Busy
<1>7. Covered'
  <2>1. SUFFICES ASSUME Running, Running' PROVE Covered'
    BY <1>1 DEF Covered, Running, Busy, Collecting
  <2>2. Trials' = Trials /\ Executed(job)' = Executed(job)
    BY <1>1 DEF Trials, Collecting, Executed, Selected
  <2>3. Covered
    BY DEF IInv
  <2>4. CASE UNCHANGED <<trial, position>>
    BY <1>1, <2>4, CoverageUndisturbed
  <2>5. CASE position <= Len(Suite) /\ Current \notin Executed(job) /\ position' = position + 1 /\ trial' = trial
    <3>1. \A q \in Executed(job) : Passed(q)' <=> Passed(q)
      BY <1>3, <2>5 DEF Passed, Current
    <3> QED  BY <1>1, <2>1, <2>2, <2>3, <2>5, <3>1 DEF Covered
  <2>6. CASE position > Len(Suite) /\ trial' = trial + 1 /\ position' = 1
    <3>1. \A q \in Query : ~ Passed(q)' /\ Passed(q)
      BY <1>3, <2>6, SuiteAssumption DEF Passed, Query, Range
    <3>2. \A q \in Executed(job) : q \in Query
      BY DEF Executed, Selected
    <3> QED  BY <1>1, <1>3, <2>1, <2>2, <2>3, <2>6, <3>1, <3>2 DEF Covered
  <2> QED  BY <2>4, <2>5, <2>6 DEF NextQuery
<1>8. LossIsTimeouts'
  BY <1>1, <1>2, ReportUndisturbed DEF Unlost
<1> QED  BY <1>2, <1>4, <1>5, <1>6, <1>7, <1>8 DEF IInv

\* A query that goes on.
LEMMA GoesOn ==
  ASSUME IInv, pc \in AtQuery, pc' \in AtQuery, corrected' \in U64, Answered',
         call' \in [phase : Phases, parts : 0 .. MaxParts, answer : U64 \cup {None}],
         UNCHANGED <<disk, job, phase, trial, position, outcomes, memory, fitted, history>>
  PROVE  IInv'
<1>1. /\ Busy
      /\ UNCHANGED <<store, model, report, job, phase, trial, position, outcomes, memory, fitted, given, first, ended, faults>>
  BY DEF disk, history, IInv, Placed, AtQuery
<1>2. (Busy => AsGiven)' /\ Untainted' /\ Busy' /\ Recorded' /\ Reporting' /\ Covered'
  BY <1>1, Undisturbed, CoverageUndisturbed DEF IInv, Untainted
<1>3. TypeOK'
  BY <1>1 DEF IInv, TypeOK, Pcs, AtQuery, number
<1>4. Placed'
  <2>1. Executed(job)' = Executed(job) /\ Current' = Current /\ Trials' = Trials /\ Collecting' = Collecting
    BY <1>1 DEF Executed, Selected, Current, Trials, Collecting
  <2>2. /\ job.kind # "calibrate" => Collecting
        /\ job.kind # "train" /\ (job.kind = "compare" => ~ job.json)
        /\ trial <= Trials /\ position <= Len(Suite) + 1
        /\ position <= Len(Suite) /\ Current \in Executed(job)
    BY <1>1 DEF IInv, Placed, AtQuery
  <2> QED  BY <1>1, <1>2, <2>1, <2>2 DEF Placed, AtQuery
<1>5. Fresh'
  BY DEF Fresh, AtQuery
<1>6. LossIsTimeouts'
  BY <1>1, <1>2, ReportUndisturbed DEF Unlost, AtQuery
<1> QED  BY <1>2, <1>3, <1>4, <1>5, <1>6 DEF IInv

\* Where the query is, and what calls there are.
LEMMA Underway ==
  ASSUME IInv, pc \in AtQuery
  PROVE  /\ Busy /\ job \in JobType /\ job.kind # "train" /\ position \in DOMAIN Suite
         /\ Current \in Query /\ Estimate[job.baseline][Current] \in U64 /\ job.ceiling \in U64
         /\ Collecting => ActiveCorrector \in {job.corrector, "none"}
         /\ ActiveCorrector \in CorrectorArg \cup Attached
         /\ ~ Collecting => ActiveCorrector \in {"identity", "gbt"}
         /\ call.phase # "idle" => ActiveCorrector = "http" /\ pc = "correct"
<1>1. Busy /\ job \in JobType /\ job.kind # "train" /\ position \in DOMAIN Suite /\ Current \in Query
  BY SuiteAssumption DEF IInv, TypeOK, Placed, AtQuery, Busy, Executed, Selected
<1>2. Estimate[job.baseline][Current] \in U64 /\ job.ceiling \in U64 /\ job.corrector \in CorrectorArg \cup Attached
  BY <1>1, QueryAssumption DEF JobType
<1>3. call.phase # "idle" => ActiveCorrector = "http" /\ pc = "correct"
  BY DEF IInv, Answered, NoCall
<1> QED  BY <1>1, <1>2, <1>3 DEF ActiveCorrector, Collecting, IInv, TypeOK, CorrectorArg

LEMMA PlanStep ==
  ASSUME IInv, Plan
  PROVE  IInv'
<1>1. pc = "plan" /\ pc \in AtQuery /\ call' = call /\ UNCHANGED disk /\ call = NoCall
  BY DEF Plan, AtQuery, IInv, Answered
<1>2. CASE Errored("engine")
  BY <1>1, <1>2, Unsuccessful DEF Errored, Flushing
<1>3. CASE /\ corrected' = Estimate[job.baseline][Current] /\ Continue(IF ActiveCorrector = "none" THEN "execute" ELSE "correct")
           /\ UNCHANGED <<trial, position, outcomes>>
  <2>1. pc' \in {"execute", "correct"} /\ UNCHANGED <<job, phase, memory, fitted, history, trial, position, outcomes>>
    BY <1>3 DEF Continue
  <2>2. corrected' \in U64
    BY <1>1, <1>3, Underway
  <2>3. call' \in [phase : Phases, parts : 0 .. MaxParts, answer : U64 \cup {None}]
    BY <1>1, NoCallTyped
  <2>4. Answered'
    <3>1. Current' = Current /\ ActiveCorrector' = ActiveCorrector /\ (pc' = "correct" => ActiveCorrector # "none")
      BY <1>3, <2>1 DEF Current, ActiveCorrector, Collecting, Continue
    <3> QED  BY <1>1, <1>3, <2>1, <3>1 DEF Answered, NoCall
  <2> QED  BY <1>1, <2>1, <2>2, <2>3, <2>4, GoesOn DEF AtQuery
<1> QED  BY <1>2, <1>3 DEF Plan

\* What is made of an answer, when only a faulty corrector fails.
LEMMA CorrectedStep ==
  ASSUME IInv, pc = "correct", NEW answer \in U64 \cup {None, Err}, Corrected(answer), call' = NoCall, UNCHANGED disk,
         answer = Err /\ Collecting => job.corrector = "faulty",
         answer \in U64 /\ Collecting => answer = Estimate[job.baseline][Current] \/ answer <= job.ceiling
  PROVE  IInv'
<1>1. pc \in AtQuery /\ call' = NoCall /\ U64 \subseteq Int /\ corrected = Estimate[job.baseline][Current] /\ corrected \in U64
  BY DEF AtQuery, U64, IInv, Answered, TypeOK
<1>2. CASE answer = Err
  <2>1. Errored("corrector")
    BY <1>2 DEF Corrected
  <2> QED  BY <1>1, <1>2, <2>1, Unsuccessful DEF Errored, Flushing
<1>3. CASE answer # Err
  <2>1. /\ pc' = "execute" /\ UNCHANGED <<job, phase, memory, fitted, history, trial, position, outcomes>>
        /\ corrected' = IF answer = None THEN corrected ELSE answer
    BY <1>3 DEF Corrected, Continue
  <2>2. corrected' \in U64 /\ (Collecting => corrected' = Estimate[job.baseline][Current] \/ corrected' <= job.ceiling)
    BY <1>1, <1>3, <2>1
  <2>3. Current' = Current /\ Collecting' = Collecting
    BY <2>1 DEF Current, Collecting
  <2>4. Answered'
    BY <2>1, <2>2, <2>3 DEF Answered, NoCall
  <2> QED  BY <1>1, <2>1, <2>2, <2>4, NoCallTyped, GoesOn DEF AtQuery
<1> QED  BY <1>2, <1>3

LEMMA CorrectStep ==
  ASSUME IInv, Correct
  PROVE  IInv'
<1>1. pc = "correct" /\ pc \in AtQuery /\ ActiveCorrector # "http" /\ call' = call /\ UNCHANGED disk
  BY DEF Correct, AtQuery
<1>2. ActiveCorrector \in (CorrectorArg \cup Attached) \ {"none", "http"} /\ call = NoCall
  BY <1>1, Underway DEF IInv, Answered
<1>3. PICK answer \in Corrections(ActiveCorrector, Estimate[job.baseline][Current], IF Collecting THEN job.ceiling ELSE MaxU64) :
        Corrected(answer)
  BY DEF Correct
<1>4. MaxU64 \in U64
  BY WordAssumption DEF U64
<1>5. /\ answer \in U64 \cup {None, Err}
      /\ answer = Err => ActiveCorrector = "faulty"
      /\ answer \in U64 => answer = Estimate[job.baseline][Current] \/ answer <= IF Collecting THEN job.ceiling ELSE MaxU64
  BY <1>1, <1>2, <1>3, <1>4, Underway, Answers
<1>6. Collecting => ActiveCorrector = job.corrector
  BY <1>1, <1>2, Underway
<1> QED  BY <1>1, <1>2, <1>3, <1>5, <1>6, CorrectedStep

\* A step of a call to the server.
LEMMA CallStep ==
  ASSUME IInv, AskServer \/ Answering \/ Abandon
  PROVE  IInv'
<1>1. /\ pc = "correct" /\ pc' = pc /\ pc \in AtQuery /\ ActiveCorrector = "http"
      /\ UNCHANGED <<disk, job, phase, trial, position, corrected, outcomes, memory, fitted, history>>
  BY DEF AskServer, Answering, Abandon, Calling, progress, AtQuery
<1>2. job.ceiling \in U64 /\ corrected \in U64
  BY <1>1, Underway DEF IInv, TypeOK
<1>3. call = [phase |-> call.phase, parts |-> call.parts, answer |-> call.answer] /\ call.phase \in Phases
      /\ call.parts \in 0 .. MaxParts /\ call.answer \in U64 \cup {None}
      /\ (call.answer # None => call.answer <= job.ceiling)
  BY DEF IInv, TypeOK, Answered
<1>4. /\ call' \in [phase : Phases, parts : 0 .. MaxParts, answer : U64 \cup {None}]
      /\ call'.answer # None => call'.answer <= job.ceiling
  <2>1. CASE Ask
    BY <2>1, PartsAssumption DEF Ask, NoCall, Phases
  <2>2. CASE Advance \/ HeadersIn
    BY <1>3, <2>2 DEF Advance, HeadersIn, After, Phases
  <2>3. CASE Part
    BY <1>3, <2>3, PartsAssumption DEF Part, Phases
  <2>4. CASE Parsed(job.ceiling)
    <3>1. PICK x \in Prediction \cap U64 : call' = [call EXCEPT !.phase = "answered", !.answer = SaturatingClamp(x, job.ceiling)]
      BY <2>4 DEF Parsed
    <3>2. x \in Int
      BY PredictionAssumption
    <3>3. SaturatingClamp(x, job.ceiling) \in U64 /\ SaturatingClamp(x, job.ceiling) <= job.ceiling
      BY <1>2, <3>2, Clamped
    <3> QED  BY <1>3, <3>1, <3>3 DEF Phases
  <2>5. CASE GiveUp
    BY <1>3, <2>5 DEF GiveUp, Phases
  <2> QED  BY <2>1, <2>2, <2>3, <2>4, <2>5 DEF AskServer, Answering, Abandon, Calling, ServerStep
<1>5. Answered'
  <2>1. Current' = Current /\ ActiveCorrector' = ActiveCorrector /\ Busy' = Busy
    BY <1>1 DEF Current, ActiveCorrector, Collecting, Busy
  <2> QED  BY <1>1, <1>4, <2>1, Underway DEF IInv, Answered
<1> QED  BY <1>1, <1>2, <1>4, <1>5, GoesOn

LEMMA CallReturnsStep ==
  ASSUME IInv, CallReturns
  PROVE  IInv'
<1>1. pc = "correct" /\ Corrected(call.answer) /\ call' = NoCall /\ UNCHANGED disk
  BY DEF CallReturns
<1>2. call.answer \in U64 \cup {None} /\ (call.answer # None => call.answer <= job.ceiling)
  BY DEF IInv, TypeOK, Answered
<1>3. call.answer # Err /\ (call.answer \in U64 => call.answer # None)
  BY <1>2, PredictionAssumption DEF U64
<1> QED  BY <1>1, <1>2, <1>3, CorrectedStep

LEMMA ExecuteStep ==
  ASSUME IInv, Execute
  PROVE  IInv'
<1>1. pc = "execute" /\ pc \in AtQuery /\ call' = call /\ UNCHANGED disk /\ call = NoCall
  BY DEF Execute, AtQuery, IInv, Answered
<1>2. CASE Errored("engine")
  BY <1>1, <1>2, Unsuccessful DEF Errored, Flushing
<1>3. CASE Continue("record") /\ UNCHANGED progress
  <2>1. pc' = "record" /\ UNCHANGED <<job, phase, memory, fitted, history, trial, position, corrected, outcomes>>
    BY <1>3 DEF Continue, progress
  <2>2. corrected' \in U64 /\ call' \in [phase : Phases, parts : 0 .. MaxParts, answer : U64 \cup {None}]
    BY <1>1, <2>1 DEF IInv, TypeOK
  <2>3. Answered'
    <3>1. Current' = Current /\ Collecting' = Collecting
      BY <2>1 DEF Current, Collecting
    <3> QED  BY <1>1, <2>1, <3>1 DEF IInv, Answered, NoCall
  <2> QED  BY <1>1, <2>1, <2>2, <2>3, GoesOn DEF AtQuery
<1> QED  BY <1>2, <1>3 DEF Execute

LEMMA TimeOutStep ==
  ASSUME IInv, TimeOut
  PROVE  IInv'
<1>1. /\ pc \in {"plan", "execute"} /\ pc \in AtQuery /\ Conclude(Now("timeout", 0, "none"), "next")
      /\ call' = NoCall /\ UNCHANGED disk
  BY DEF TimeOut, AtQuery, IInv, Answered
<1> QED  BY <1>1, Unsuccessful

LEMMA RecordStep ==
  ASSUME IInv, Record
  PROVE  IInv'
<1>1. /\ pc = "record" /\ pc \in AtQuery /\ Busy /\ job \in JobType /\ job.kind # "train" /\ Current \in Query
      /\ UNCHANGED <<model, report, trial, corrected>> /\ call = NoCall
      /\ position \in DOMAIN Suite
  BY Underway DEF Record, AtQuery, IInv, Answered
<1>2. CASE /\ Collecting /\ Fault /\ End("error")
           /\ UNCHANGED <<store, phase, given, first, position, outcomes>>
  BY <1>1, <1>2, Aborts DEF disk, progress
<1>3. CASE /\ store' = IF Collecting /\ job.feedback THEN Append(store, Observed) ELSE store
           /\ memory' = IF phase = "recollect" THEN Append(memory, Observed) ELSE memory
           /\ outcomes' = Reported(Now("ok", corrected, "none")) /\ position' = position + 1
           /\ pc' = Flushing
           /\ UNCHANGED <<job, phase, fitted, history, call>>
  <2> DEFINE o == Now("ok", corrected, "none")
  <2>1. UNCHANGED <<job, phase, fitted, given, first, ended, faults, call>> /\ outcomes' = Reported(o)
    BY <1>3 DEF history
  <2>2. corrected \in U64 /\ "ok" \in Status /\ outcomes \in Seq(Reportable)
    BY DEF IInv, TypeOK, Status
  <2>3. /\ outcomes' \in Seq(Reportable)
        /\ position' \in Nat \ {0} /\ position' <= Len(Suite) + 1
        /\ Covered'
    BY <1>1, <1>3, <2>1, <2>2, Turn
  <2>4. o.status = "ok" /\ o.query = Current /\ o.cause = "none" /\ o.est = corrected /\ Ok(o)
    BY DEF Now, Ok
  <2>5. o \in Reportable
    <3>1. MeasuredJoins[job.baseline][Current] \in {MeasuredJoins[b][q] : b \in BOOLEAN, q \in Query}
      BY <1>1 DEF JobType
    <3> QED  BY <1>1, <2>2, <3>1 DEF Now, Reportable, Ok, IInv, TypeOK
  <2>6. /\ Collecting => Observed = [query |-> Current, est |-> Estimate[job.baseline][Current], actual |-> Actual[Current],
                                     features |-> Features[job.baseline][Current]]
        /\ Observed \in Observation
    <3>1. Features[job.baseline][Current] \in Vectors /\ job.baseline \in BOOLEAN
      BY <1>1 DEF Vectors, JobType
    <3> QED  BY <1>1, <3>1, QueryAssumption DEF Observed, Observation
  <2> HIDE DEF o
  <2>7. Running' => Running /\ outcomes' = Append(outcomes, o)
    BY <2>1 DEF Running, Busy, Collecting, Reported
  <2>8. store \in Seq(Observation) /\ store' \in Seq(Observation)
    BY <1>3, <2>6 DEF IInv, TypeOK
  <2>9. TypeOK'
    BY <1>1, <1>3, <2>1, <2>3, <2>8 DEF IInv, TypeOK, Pcs, number, Flushing
  <2>10. (Busy => AsGiven)' /\ Busy'
    BY <1>1, <2>1 DEF IInv, AsGiven, Busy, number
  <2>11. Placed'
    BY <1>1, <1>3, <2>1, <2>3, <2>10 DEF IInv, Placed, AtQuery, Busy, Collecting, Trials, Flushing
  <2>12. Answered' /\ Fresh'
    BY <1>1, <1>3, <2>1 DEF Answered, Fresh, NoCall, Flushing
  <2>13. Untainted'
    <3>1. HeldOut' = HeldOut
      BY <2>1 DEF HeldOut
    <3>2. job.feedback => Current \notin HeldOut
      <4>1. /\ number > 0 /\ given \in Seq(CommandType) /\ (job.feedback <=> given[number].feedback)
            /\ given[number].kind # "train" /\ Current \in Selected(given[number])
        BY <1>1 DEF IInv, TypeOK, AsGiven, Placed, AtQuery, Executed, Selected
      <4>2. given[number] \in Range(given)
        BY <4>1 DEF number, Range
      <4> QED  BY <4>1, <4>2 DEF HeldOut, Selected
    <3>3. Range(store') \subseteq Range(store) \cup IF Collecting /\ job.feedback THEN {Observed} ELSE {}
      BY <1>3, <2>6, <2>8 DEF Range
    <3>4. ASSUME NEW p \in Range(store'), p.features # None
          PROVE  p.query \notin HeldOut
      BY <2>6, <3>2, <3>3, <3>4 DEF IInv, Untainted
    <3> QED  BY <1>1, <2>1, <3>1, <3>4 DEF IInv, Untainted, Clean, Busy
  <2>14. Recorded'
    <3>1. SUFFICES ASSUME Running', job.feedback
                   PROVE  /\ Len(store') = first + Succeeded(Len(outcomes))'
                          /\ \A i \in DOMAIN outcomes' : Ok(outcomes'[i]) =>
                               store'[first + Succeeded(i)'] =
                                 [query |-> outcomes'[i].query, est |-> Estimate[job.baseline][outcomes'[i].query],
                                  actual |-> Actual[outcomes'[i].query], features |-> Features[job.baseline][outcomes'[i].query]]
      BY <2>1 DEF Recorded, Ok
    <3>2. PICK n \in Nat : n = Len(outcomes)
      BY <2>2
    <3>3. outcomes' = Append(outcomes, o) /\ Running /\ Collecting
      BY <2>7, <3>1 DEF Running
    <3>4. /\ \A i \in 0 .. n : Succeeded(i)' = Succeeded(i) /\ Succeeded(i) \in Nat
          /\ Len(outcomes') = n + 1
          /\ Succeeded(n + 1)' = Succeeded(n) + 1
      BY <2>2, <2>4, <2>5, <3>2, <3>3, Counting
    <3>5. Succeeded(Len(outcomes))' = Succeeded(n + 1)'
      BY <3>4 DEF Succeeded
    <3>6. store' = Append(store, Observed) /\ Len(store) = first + Succeeded(n) /\ first \in Nat
      BY <1>3, <3>1, <3>2, <3>3 DEF IInv, Recorded, TypeOK
    <3>7. Len(store') = first + Succeeded(Len(outcomes))'
      <4>0. n \in 0 .. n /\ store \in Seq(Observation) /\ Observed \in Observation /\ store' = Append(store, Observed)
        BY <2>6, <2>8, <3>6
      <4>1. Len(store') = Len(store) + 1 /\ Len(store) = first + Succeeded(n) /\ Succeeded(n) \in Nat
        <5>1. Len(store') = Len(store) + 1
          BY <4>0
        <5>2. Succeeded(n) \in Nat
          BY <3>4, <4>0
        <5> QED  BY <3>6, <5>1, <5>2
      <4>2. Len(store') = first + (Succeeded(n) + 1)
        BY <3>6, <4>1
      <4> QED  BY <3>4, <3>5, <4>2
    <3>8. ASSUME NEW i \in 1 .. n, Ok(outcomes[i])
          PROVE  store'[first + Succeeded(i)'] =
                   [query |-> outcomes[i].query, est |-> Estimate[job.baseline][outcomes[i].query],
                    actual |-> Actual[outcomes[i].query], features |-> Features[job.baseline][outcomes[i].query]]
      <4>1. Succeeded(i) \in Nat /\ Succeeded(i) # 0 /\ Succeeded(i) <= Succeeded(n)
        <5>1. i \in 0 .. n /\ n \in 0 .. n /\ i \in {k \in 1 .. i : Ok(outcomes[k])}
          BY <3>8
        <5>2. /\ {k \in 1 .. i : Ok(outcomes[k])} \subseteq {k \in 1 .. n : Ok(outcomes[k])}
              /\ {k \in 1 .. i : Ok(outcomes[k])} # {}
              /\ IsFiniteSet({k \in 1 .. i : Ok(outcomes[k])}) /\ IsFiniteSet({k \in 1 .. n : Ok(outcomes[k])})
          BY <2>2, <3>2, <5>1, Successes
        <5> QED  BY <3>4, <5>1, <5>2, FS_Subset, FS_EmptySet DEF Succeeded
      <4>2. store[first + Succeeded(i)] =
              [query |-> outcomes[i].query, est |-> Estimate[job.baseline][outcomes[i].query],
               actual |-> Actual[outcomes[i].query], features |-> Features[job.baseline][outcomes[i].query]]
        BY <2>2, <3>1, <3>2, <3>3, <3>8 DEF IInv, Recorded
      <4>3. store'[first + Succeeded(i)] = store[first + Succeeded(i)]
        BY <2>6, <2>8, <3>4, <3>6, <4>1
      <4> QED  BY <3>4, <4>2, <4>3
    <3>9. store'[first + Succeeded(n + 1)'] = Observed
      BY <2>6, <2>8, <3>4, <3>6
    <3>10. ASSUME NEW i \in DOMAIN outcomes'
           PROVE  (i \in 1 .. n /\ outcomes'[i] = outcomes[i]) \/ (i = n + 1 /\ outcomes'[i] = o)
      BY <2>2, <2>5, <3>2, <3>3, <3>4
    <3> QED  BY <2>4, <2>6, <3>3, <3>7, <3>8, <3>9, <3>10
  <2>15. Reporting'
    <3>1. Collecting => corrected = Estimate[job.baseline][Current] \/ corrected <= job.ceiling
      BY <1>1 DEF IInv, Answered
    <3>2. CorrectorContract'
      BY <2>1, <2>2, <2>4, <2>5, <2>7, <3>1 DEF IInv, Reporting, CorrectorContract, Ok, Running
    <3>3. o.joins = MeasuredJoins[job.baseline][o.query]
      BY DEF o, Now
    <3>4. Joined'
      BY <2>1, <2>2, <2>5, <2>7, <3>3 DEF IInv, Reporting, Joined, Ok, Running
    <3> QED  BY <3>2, <3>4 DEF Reporting
  <2>16. LossIsTimeouts'
    BY <1>3, <2>10 DEF LossIsTimeouts, Running, Unlost, Flushing, Collecting
  <2> QED  BY <2>3, <2>9, <2>10, <2>11, <2>12, <2>13, <2>14, <2>15, <2>16 DEF IInv
<1> QED  BY <1>2, <1>3 DEF Record

----------------------------------------------------------------------------
(* The files.                                                              *)

\* A step of the loop that writes the report.
LEMMA Writes ==
  ASSUME IInv, pc \in {"flush", "flushing", "final"}, pc' \in {"next", "flushing", "finishing"},
         pc' = "finishing" => pc = "final", pc' = "flushing" => pc = "flush",
         report' \in {report, Torn(report), Whole}, UNCHANGED <<store, model, progress, job, phase, fitted, given, first, call>>,
         faults' \in Nat, pc' = "next" /\ job.json => faults' # 0 \/ report' = Whole
  PROVE  IInv'
<1>1. /\ Busy /\ Collecting
      /\ UNCHANGED <<store, model, trial, position, corrected, outcomes, job, phase, fitted, given, first, call>>
      /\ pc' # "idle"
  BY DEF progress, IInv, Placed
<1>2. (Busy => AsGiven)' /\ Untainted' /\ Busy' /\ Recorded' /\ Reporting' /\ Covered'
  BY <1>1, Undisturbed, CoverageUndisturbed DEF IInv, Untainted
<1>3. /\ report' = [state |-> report'.state, run |-> report'.run, outcomes |-> report'.outcomes]
      /\ report'.run \in 0 .. number /\ report'.outcomes \in Seq(Reportable)
  <2>1. /\ report = [state |-> report.state, run |-> report.run, outcomes |-> report.outcomes]
        /\ report.run \in 0 .. number /\ report.outcomes \in Seq(Reportable)
        /\ outcomes \in Seq(Reportable) /\ number \in 0 .. number
    BY DEF IInv, TypeOK, number
  <2>2. CASE report' = report
    BY <2>1, <2>2
  <2>3. CASE report' = Torn(report)
    BY <2>1, <2>3 DEF Torn
  <2>4. CASE report' = Whole
    BY <2>1, <2>4 DEF Whole
  <2> QED  BY <2>2, <2>3, <2>4
<1>4. TypeOK'
  BY <1>1, <1>3 DEF IInv, TypeOK, Pcs, number
<1>5. Placed'
  BY <1>1, <1>2 DEF IInv, Placed, AtQuery, Busy, Collecting, Trials
<1>6. Answered' /\ Fresh'
  BY <1>1 DEF IInv, Answered, Fresh, NoCall, ActiveCorrector, Collecting, Busy
<1>7. LossIsTimeouts'
  <2>1. SUFFICES ASSUME job.json, faults' = 0, pc' = "next" PROVE LacksTimeouts'
    BY <1>1, <1>2 DEF LossIsTimeouts, Unlost
  <2>2. report' = [state |-> "whole", run |-> number, outcomes |-> outcomes]
    BY <2>1 DEF Whole
  <2>3. IsPrefix(outcomes, outcomes) /\ outcomes \in Seq(Reportable)
    BY DEF IInv, TypeOK, IsPrefix
  <2> QED  BY <1>1, <2>2, <2>3 DEF LacksTimeouts, number
<1> QED  BY <1>2, <1>4, <1>5, <1>6, <1>7 DEF IInv

LEMMA FaultCounted ==
  ASSUME IInv, Fault
  PROVE  faults' \in Nat \ {0}
BY BoundAssumption DEF IInv, TypeOK, Fault

LEMMA FlushStep ==
  ASSUME IInv, Flush \/ Flushed
  PROVE  IInv'
<1>1. CASE Flush /\ ~ job.json /\ Continue("next") /\ UNCHANGED <<report, call>>
  BY <1>1, Writes DEF Flush, Continue, history, IInv, TypeOK
<1>2. CASE Flush /\ job.json /\ report' = Torn(report) /\ Continue("flushing") /\ UNCHANGED call
  BY <1>2, Writes DEF Flush, Continue, history, IInv, TypeOK
<1>3. CASE (Flush \/ Flushed) /\ StayOnFail("next") /\ UNCHANGED report
  BY <1>3, Writes, FaultCounted DEF Flush, Flushed, StayOnFail
<1>4. CASE Flushed /\ report' = Whole /\ Continue("next") /\ UNCHANGED call
  BY <1>4, Writes DEF Flushed, Continue, history, IInv, TypeOK
<1> QED  BY <1>1, <1>2, <1>3, <1>4 DEF Flush, Flushed

LEMMA FinalStep ==
  ASSUME IInv, Final
  PROVE  IInv'
<1>1. CASE report' = Torn(report) /\ Continue("finishing") /\ UNCHANGED call
  BY <1>1, Writes DEF Final, Continue, history, IInv, TypeOK
<1>2. CASE AbortOnFail /\ UNCHANGED report
  <2>1. Busy
    BY DEF Final, IInv, Placed
  <2> QED  BY <1>2, <2>1, Aborts DEF Final, AbortOnFail, disk
<1> QED  BY <1>1, <1>2 DEF Final

LEMMA FinishStep ==
  ASSUME IInv, Finish
  PROVE  IInv'
<1>1. /\ Busy /\ job.kind \in {"run", "compare"} /\ pc \in {"final", "finishing"} /\ Collecting
      /\ UNCHANGED <<store, model, phase, progress, given, first>>
      /\ trial = Trials /\ position > Len(Suite) /\ Running
  BY DEF Finish, IInv, Placed, Running
<1>2. CASE pc = "finishing" /\ AbortOnFail /\ UNCHANGED report
  BY <1>1, <1>2, Aborts DEF AbortOnFail, disk
<1>3. CASE End("ok") /\ UNCHANGED faults /\ (report' = Whole \/ (report' = report /\ ~ job.json))
  <2>1. /\ Clean(model'.trained) /\ HeldOut' = HeldOut /\ store' = store
        /\ UNCHANGED <<trial, position, corrected, outcomes>> /\ ~ Busy'
    BY <1>1, <1>3 DEF IInv, Untainted, Clean, HeldOut, progress, End, Busy
  <2>2. TypeOK'
    <3>1. /\ report' = [state |-> report'.state, run |-> report'.run, outcomes |-> report'.outcomes]
          /\ report'.run \in 0 .. number /\ report'.outcomes \in Seq(Reportable)
      BY <1>3 DEF IInv, TypeOK, Whole, number
    <3> QED  BY <1>1, <1>3, <2>1, <3>1, NoCallTyped DEF IInv, TypeOK, End, number, Pcs
  <2>3. LossIsTimeouts'
    <3>1. SUFFICES ASSUME job.kind = "run", job.json
                   PROVE  /\ report'.state = "whole" /\ report'.run = number
                          /\ InOrder(report'.outcomes) /\ Complete(report'.outcomes, given[number])
      BY <1>1, <2>1 DEF LossIsTimeouts, Running, Last, number, IInv, AsGiven, InOrder, Earlier, Complete, Executed, Selected
    <3>2. report' = [state |-> "whole", run |-> number, outcomes |-> outcomes]
      BY <1>3, <3>1 DEF Whole
    <3>3. /\ job.trials = AtLeastOne(given[number].trials) /\ Executed(job) = Executed(given[number])
          /\ job \in JobType /\ job.trials \in Nat \ {0}
      BY <1>1 DEF IInv, AsGiven, Executed, Selected, TypeOK, Busy, JobType
    <3>4. Trials = job.trials /\ Covered
      BY <1>1, <3>3 DEF Trials, IInv
    <3>5. \A q \in Executed(job) : Passed(q)
      BY <1>1, SuiteAssumption DEF Executed, Selected, Query, Range, Passed, IInv, TypeOK
    <3>6. InOrder(outcomes)
      BY <1>1, <3>4 DEF Covered
    <3>7. {<<o.trial, o.query>> : o \in Range(outcomes)} = (1 .. job.trials) \X Executed(job)
      <4>1. ASSUME NEW o \in Range(outcomes) PROVE <<o.trial, o.query>> \in (1 .. job.trials) \X Executed(job)
        BY <1>1, <3>4 DEF Covered
      <4>2. ASSUME NEW t \in 1 .. job.trials, NEW q \in Executed(job)
            PROVE  \E o \in Range(outcomes) : <<t, q>> = <<o.trial, o.query>>
        <5>1. t < trial \/ t = trial
          BY <1>1, <3>3, <3>4
        <5>2. PICK o \in Range(outcomes) : o.trial = t /\ o.query = q
          BY <1>1, <3>4, <3>5, <5>1 DEF Covered
        <5> QED  BY <5>2
      <4> QED  BY <4>1, <4>2
    <3> QED  BY <3>2, <3>3, <3>6, <3>7 DEF Complete
  <2> QED  BY <1>3, <2>1, <2>2, <2>3, Ended DEF IInv
<1> QED  BY <1>2, <1>3 DEF Finish

LEMMA CompareAgainStep ==
  ASSUME IInv, CompareAgain
  PROVE  IInv'
<1>1. /\ pc = "final" /\ job.kind = "compare" /\ Busy /\ Collecting /\ ~ job.json /\ job \in JobType /\ call = NoCall
      /\ UNCHANGED <<store, model, report, phase, corrected, memory, fitted, given, first, ended, faults, call>>
      /\ trial' = 1 /\ position' = 1 /\ outcomes' = <<>> /\ pc' = "open"
  BY DEF CompareAgain, IInv, Placed, Answered, disk, history, TypeOK, Busy
<1>2. /\ job' \in JobType /\ job'.kind = job.kind /\ job'.only = job.only /\ job'.exclude = job.exclude
      /\ job'.trials = job.trials
      /\ job'.feedback <=> job.feedback
      /\ job'.json <=> job.json
  BY <1>1 DEF CompareAgain, JobType
<1>3. Busy' /\ Collecting'
  BY <1>1, <1>2, Jobs DEF Busy, Collecting
<1>4. TypeOK'
  BY <1>1, <1>2 DEF IInv, TypeOK, Pcs, number
<1>5. AsGiven'
  BY <1>1, <1>2 DEF IInv, AsGiven, number
<1>6. Placed'
  <2>1. Trials' \in Nat \ {0} /\ Len(Suite) \in Nat
    BY <1>2, SuiteAssumption DEF Trials, JobType
  <2> QED  BY <1>1, <1>2, <1>3, <2>1 DEF Placed, AtQuery
<1>7. Answered'
  BY <1>1 DEF Answered, NoCall
<1>8. Range(outcomes') = {} /\ DOMAIN outcomes' = {}
  BY <1>1 DEF Range
<1>9. Covered'
  <2>1. \A q \in Query : ~ Passed(q)'
    BY <1>1 DEF Passed
  <2> QED  BY <1>1, <1>8, <2>1 DEF Covered, InOrder, Executed, Selected
<1>10. Fresh'
  BY <1>1, <1>2 DEF Fresh
<1>11. Untainted'
  BY <1>1, <1>2 DEF IInv, Untainted, Clean, HeldOut
<1>12. Recorded' /\ Reporting'
  <2>1. given[number] \in CommandType /\ given[number].kind = "compare" /\ (job.feedback <=> given[number].feedback)
    BY <1>1 DEF IInv, AsGiven, TypeOK, number
  <2>2. ~ given[number].feedback
    BY <2>1, Configurations
  <2>3. ~ job'.feedback
    BY <1>2, <2>1, <2>2
  <2> QED  BY <1>8, <2>3 DEF Recorded, Reporting, CorrectorContract, Joined
<1>13. LossIsTimeouts'
  BY <1>1, <1>2, <1>3 DEF LossIsTimeouts
<1> QED  BY <1>3, <1>4, <1>5, <1>6, <1>7, <1>9, <1>10, <1>11, <1>12, <1>13 DEF IInv

----------------------------------------------------------------------------
(* Training.                                                               *)

\* A calibration that runs the suite again without a report.
LEMMA Reruns ==
  ASSUME IInv, Busy, job.kind = "calibrate", phase' \in {"recollect", "rerun"}, pc' = "open", trial' = 1, position' = 1,
         UNCHANGED <<disk, job, corrected, outcomes, given, first, faults, call>>, pc \in {"final", "fit"}
  PROVE  IInv'
<1>1. UNCHANGED <<store, model, report>> /\ Busy' /\ ~ Collecting' /\ ~ Running' /\ call' = NoCall
  BY DEF disk, Busy, Collecting, Running, IInv, Answered
<1>2. TypeOK'
  BY <1>1 DEF IInv, TypeOK, Pcs, number
<1>3. AsGiven'
  BY DEF IInv, AsGiven, number
<1>4. Placed'
  <2>1. Trials' = 1 /\ Len(Suite) \in Nat
    BY <1>1, SuiteAssumption DEF Trials
  <2> QED  BY <1>1, <2>1 DEF Placed, AtQuery
<1>5. Answered'
  BY <1>1 DEF Answered, NoCall
<1>6. Untainted'
  BY <1>1 DEF IInv, Untainted, Clean, HeldOut
<1>7. Covered' /\ Fresh' /\ Recorded' /\ Reporting' /\ LossIsTimeouts'
  BY <1>1 DEF Covered, Fresh, Recorded, Reporting, CorrectorContract, Joined, LossIsTimeouts
<1> QED  BY <1>1, <1>2, <1>3, <1>4, <1>5, <1>6, <1>7 DEF IInv

LEMMA RecollectStep ==
  ASSUME IInv, Recollect
  PROVE  IInv'
<1>1. Busy
  BY DEF Recollect, IInv, Placed
<1> QED  BY <1>1, Reruns DEF Recollect, history

\* A command that ends and leaves the files as they are.
LEMMA StopsQuietly ==
  ASSUME IInv, Busy, NEW how, End(how), how = "ok" => job.kind # "run", faults' \in Nat,
         UNCHANGED <<disk, phase, progress, given, first>>
  PROVE  IInv'
<1>1. TypeOK /\ Clean(model.trained) /\ UNCHANGED <<store, model, report>>
  BY DEF IInv, Untainted, disk
<1>2. /\ model' = [state |-> model'.state, trained |-> model'.trained]
      /\ report' = [state |-> report'.state, run |-> report'.run, outcomes |-> report'.outcomes]
      /\ report'.run \in 0 .. number /\ report'.outcomes \in Seq(Reportable) /\ Clean(model'.trained)
  BY <1>1 DEF TypeOK
<1> QED  BY <1>1, <1>2, Stops

LEMMA FitStep ==
  ASSUME IInv, Fit
  PROVE  IInv'
<1>1. Busy /\ job.kind = "calibrate" /\ pc \in {"final", "fit"}
  BY DEF Fit, IInv, Placed, Calibrated
<1>2. CASE /\ phase' = "rerun" /\ pc' = "open" /\ trial' = 1 /\ position' = 1
           /\ UNCHANGED <<job, memory, ended, call>>
  BY <1>1, <1>2, Reruns DEF Fit
<1>3. CASE End(IF History = {} THEN "ok" ELSE "error") /\ UNCHANGED <<phase, trial, position>>
  <2>1. faults' \in Nat
    BY DEF Fit, IInv, TypeOK
  <2> QED  BY <1>1, <1>3, <2>1, StopsQuietly DEF Fit, progress
<1> QED  BY <1>2, <1>3 DEF Fit

LEMMA CalibrationStep ==
  ASSUME IInv, Calibration
  PROVE  IInv'
<1>1. Busy /\ job.kind # "run" /\ faults' \in Nat
  BY DEF Calibration, IInv, Placed, Collecting, TypeOK
<1> QED  BY <1>1, StopsQuietly DEF Calibration

\* A step of train(), which has no queries.
LEMMA Trains ==
  ASSUME IInv, job.kind = "train", pc' \in {"save", "saving"}, Busy, UNCHANGED <<store, report, job, phase, progress, history, call>>,
         model' = [state |-> model'.state, trained |-> model.trained], Clean(fitted'),
         call = NoCall
  PROVE  IInv'
<1>1. /\ Busy' /\ ~ Running' /\ HeldOut' = HeldOut /\ model'.trained = model.trained /\ Collecting
      /\ UNCHANGED <<trial, position, corrected, outcomes, given, first, ended, faults>>
  BY DEF Busy, Running, HeldOut, progress, history, IInv, Placed
<1>2. TypeOK'
  BY <1>1 DEF IInv, TypeOK, Pcs, number
<1>3. AsGiven'
  BY <1>1 DEF IInv, AsGiven, number
<1>4. Placed'
  BY <1>1 DEF IInv, Placed, AtQuery, Trials, Collecting
<1>5. Answered'
  BY DEF Answered, NoCall
<1>6. Untainted'
  BY <1>1 DEF IInv, Untainted, Clean
<1>7. Covered' /\ Fresh' /\ Recorded' /\ Reporting' /\ LossIsTimeouts'
  BY <1>1 DEF Covered, Fresh, Recorded, Reporting, CorrectorContract, Joined, LossIsTimeouts
<1> QED  BY <1>1, <1>2, <1>3, <1>4, <1>5, <1>6, <1>7 DEF IInv

\* A model that train() fits knows of no query held out.
LEMMA FittedClean ==
  ASSUME IInv, job.kind = "train"
  PROVE  Clean(FittedTo(PlanHistory))
<1>1. SUFFICES ASSUME NEW r \in FittedTo(PlanHistory)
               PROVE  r.query \notin HeldOut
  BY DEF Clean
<1>2. PICK o \in PlanHistory : r = [query |-> o.query, vector |-> ToVec(o.features)]
  BY <1>1 DEF FittedTo, TrainOnPlans
<1>3. o \in Range(store) /\ o.features # None
  BY <1>2 DEF PlanHistory
<1>4. o.query \notin HeldOut
  BY <1>3 DEF IInv, Untainted
<1> QED  BY <1>2, <1>4

LEMMA TrainStep ==
  ASSUME IInv, Train
  PROVE  IInv'
<1>1. Busy /\ job.kind = "train" /\ call = NoCall /\ pc = "fit" /\ faults' \in Nat /\ UNCHANGED <<store, model, report>>
      /\ model = [state |-> model.state, trained |-> model.trained]
  BY DEF Train, IInv, Placed, Answered, TypeOK, disk
<1>2. CASE /\ fitted' = FittedTo(PlanHistory) /\ pc' = "save"
           /\ UNCHANGED <<job, memory, ended, call>>
  BY <1>1, <1>2, FittedClean, Trains DEF Train, history
<1>3. CASE End("error")
  BY <1>1, <1>3, StopsQuietly DEF Train
<1> QED  BY <1>2, <1>3 DEF Train

LEMMA SaveStep ==
  ASSUME IInv, Save
  PROVE  IInv'
<1>1. /\ Busy /\ job.kind = "train" /\ call = NoCall /\ pc = "save" /\ Clean(fitted)
      /\ model = [state |-> model.state, trained |-> model.trained]
  BY DEF Save, IInv, Placed, Answered, TypeOK, Untainted
<1>2. CASE model' = Torn(model) /\ Continue("saving") /\ UNCHANGED call
  <2>1. model' = [state |-> model'.state, trained |-> model.trained] /\ Clean(fitted')
    BY <1>1, <1>2 DEF Torn, Continue, Clean
  <2> QED  BY <1>1, <1>2, <2>1, Trains DEF Save, Continue
<1>3. CASE AbortOnFail /\ UNCHANGED model
  BY <1>1, <1>3, Aborts DEF Save, AbortOnFail, disk
<1> QED  BY <1>2, <1>3 DEF Save

LEMMA SavedStep ==
  ASSUME IInv, Saved
  PROVE  IInv'
<1>1. /\ Busy /\ job.kind = "train" /\ pc = "saving" /\ Clean(fitted) /\ TypeOK
      /\ UNCHANGED <<store, report, phase, progress, given, first>>
  BY DEF Saved, IInv, Placed, Untainted
<1>2. CASE model' = [state |-> "whole", trained |-> fitted] /\ End("ok") /\ UNCHANGED faults
  <2>1. /\ model' = [state |-> model'.state, trained |-> model'.trained] /\ Clean(model'.trained)
        /\ faults' \in Nat
        /\ report' = [state |-> report'.state, run |-> report'.run, outcomes |-> report'.outcomes]
        /\ report'.run \in 0 .. number /\ report'.outcomes \in Seq(Reportable)
    BY <1>1, <1>2 DEF TypeOK
  <2> QED  BY <1>1, <1>2, <2>1, Stops
<1>3. CASE AbortOnFail /\ UNCHANGED model
  BY <1>1, <1>3, Aborts DEF AbortOnFail, disk
<1> QED  BY <1>2, <1>3 DEF Saved

LEMMA KillStep ==
  ASSUME IInv, Kill
  PROVE  IInv'
BY Aborts DEF Kill

----------------------------------------------------------------------------
(* The commands.                                                           *)

LEMMA GiveStep ==
  ASSUME IInv, NEW c \in Command, Give(c)
  PROVE  IInv'
<1>1. c \in CommandType
  <2>1. PICK s \in Campaign : c \in Range(s)
    BY DEF Command
  <2> QED  BY <2>1, CampaignAssumption DEF Range
<1>2. /\ ~ Busy /\ pc = "idle" /\ given' = Append(given, c) /\ first' = Len(store)
      /\ trial' = 1 /\ position' = 1 /\ corrected' = 0 /\ outcomes' = <<>> /\ phase' = "collect"
      /\ UNCHANGED <<store, model, report, faults>> /\ call = NoCall
  BY DEF Give, disk, IInv, Placed, Answered
<1>3. /\ given' \in Seq(CommandType) /\ number' = number + 1 /\ number \in Nat /\ given'[number + 1] = c
      /\ Range(given') = Range(given) \cup {c}
  <2>1. given \in Seq(CommandType) /\ number = Len(given) /\ number \in Nat
    BY DEF IInv, TypeOK, number
  <2>2. given' \in Seq(CommandType) /\ Len(given') = number + 1 /\ given'[number + 1] = c
        /\ \A i \in 1 .. number : given'[i] = given[i]
    BY <1>1, <1>2, <2>1
  <2>3. Range(given') = Range(given) \cup {c}
    BY <2>1, <2>2 DEF Range
  <2> QED  BY <2>1, <2>2, <2>3 DEF number
<1>4. HeldOut' \subseteq HeldOut
  BY <1>3 DEF HeldOut
<1>5. Clean(model'.trained)
  BY <1>2 DEF IInv, Untainted
<1>6. Clean(model.trained)'
  BY <1>2, <1>4, <1>5 DEF Clean
<1>7. ASSUME job' \in JobType \cup {Idle}, pc' \in Pcs, call' = NoCall
      PROVE  TypeOK'
  <2>1. 0 \in U64 /\ store \in Seq(Observation) /\ Len(store) \in Nat /\ report.run \in 0 .. number + 1
    BY <1>3, WordAssumption DEF U64, IInv, TypeOK
  <2>2. /\ model' = [state |-> model'.state, trained |-> model'.trained]
        /\ report' = [state |-> report'.state, run |-> report'.run, outcomes |-> report'.outcomes]
        /\ report'.outcomes \in Seq(Reportable) /\ report'.run = report.run /\ faults' \in Nat
    BY <1>2 DEF IInv, TypeOK
  <2>3. outcomes' \in Seq(Reportable)
    BY <1>2
  <2> QED  BY <1>2, <1>3, <1>7, <2>1, <2>2, <2>3, NoCallTyped DEF TypeOK
<1>8. ASSUME NEW how, End(how), how = "ok" => ~ IsRunnable(c)
      PROVE  IInv'
  <2>1. TypeOK'
    BY <1>7, <1>8 DEF End, Pcs
  <2>2. LossIsTimeouts'
    <3>1. Last(given') = c /\ ended' = how /\ ~ Busy' /\ (c.kind = "run" /\ c.data => IsRunnable(c))
      BY <1>2, <1>3, <1>8 DEF Last, number, End, Busy, IsRunnable
    <3> QED  BY <1>8, <3>1 DEF LossIsTimeouts, Running
  <2> QED  BY <1>2, <1>4, <1>5, <1>8, <2>1, <2>2, Ended DEF IInv
<1>9. CASE c.corrector = "gbt" /\ ~ Loadable /\ End("error")
  BY <1>8, <1>9
<1>10. CASE ~ IsRunnable(c) /\ End("ok")
  BY <1>8, <1>10
<1>11. CASE /\ (c.corrector = "gbt" => Loadable) /\ IsRunnable(c)
            /\ job' = Configured(c) /\ pc' = "open"
            /\ fitted' = IF c.corrector = "gbt" THEN model.trained ELSE {}
            /\ UNCHANGED <<ended, memory, call>>
  <2>1. /\ job' \in JobType /\ job'.kind = c.kind /\ job'.only = c.only /\ job'.exclude = c.exclude
        /\ job'.trials = AtLeastOne(c.trials)
        /\ job'.feedback <=> c.feedback
        /\ job'.json <=> c.json
        /\ c.kind = "compare" => ~ c.json
    BY <1>1, <1>11, Configurations
  <2>2. Busy' /\ Collecting' /\ call' = NoCall
    BY <1>2, <1>11, <2>1, Jobs DEF Busy, Collecting
  <2>3. TypeOK'
    BY <1>7, <1>11, <2>1, <2>2 DEF Pcs
  <2>4. AsGiven'
    BY <1>3, <2>1 DEF AsGiven
  <2>5. Placed'
    <3>1. Trials' \in Nat \ {0} /\ Len(Suite) \in Nat
      BY <2>1, SuiteAssumption DEF Trials, JobType
    <3> QED  BY <1>2, <1>11, <2>1, <2>2, <3>1 DEF Placed, AtQuery
  <2>6. Answered'
    BY <1>11, <2>2 DEF Answered, NoCall
  <2>7. Range(outcomes') = {} /\ DOMAIN outcomes' = {}
    BY <1>2 DEF Range
  <2>8. Covered'
    <3>1. \A q \in Query : ~ Passed(q)'
      BY <1>2 DEF Passed
    <3> QED  BY <1>2, <2>7, <3>1 DEF Covered, InOrder, Executed, Selected
  <2>9. Fresh'
    BY <1>2, <1>3 DEF Fresh, IInv, TypeOK
  <2>10. Untainted'
    <3>1. Clean(fitted)'
      BY <1>2, <1>6, <1>11 DEF Clean
    <3> QED  BY <1>2, <1>4, <1>6, <3>1 DEF IInv, Untainted
  <2>11. Recorded'
    <3>1. Succeeded(Len(outcomes))' = 0
      <4>1. {k \in 1 .. Len(outcomes') : Ok(outcomes'[k])} = {}
        BY <1>2
      <4> QED  BY <4>1, FS_EmptySet DEF Succeeded, Ok
    <3>2. Len(store) \in Nat
      BY DEF IInv, TypeOK
    <3> QED  BY <1>2, <2>7, <3>1, <3>2 DEF Recorded
  <2>12. Reporting'
    BY <2>7 DEF Reporting, CorrectorContract, Joined
  <2>13. LossIsTimeouts'
    BY <1>11, <2>2 DEF LossIsTimeouts, Unlost
  <2> QED  BY <2>2, <2>3, <2>4, <2>5, <2>6, <2>8, <2>9, <2>10, <2>11, <2>12, <2>13 DEF IInv
<1> QED  BY <1>9, <1>10, <1>11 DEF Give

LEMMA DoneStep ==
  ASSUME IInv, UNCHANGED vars
  PROVE  IInv'
<1> USE DEF vars, disk, progress, history
<1>1. TypeOK' /\ (Busy => AsGiven)' /\ Fresh'
  BY DEF IInv, TypeOK, Busy, AsGiven, Fresh, Running, Collecting, number
<1>2. Placed' /\ Answered'
  BY DEF IInv, Placed, Answered, Busy, Collecting, ActiveCorrector, Current, Executed, Selected, Trials
<1>3. Covered'
  BY CoverageUndisturbed
<1>4. Recorded' /\ Reporting'
  BY DEF IInv, Recorded, Reporting, CorrectorContract, Joined, Running, Busy, Collecting, Succeeded
<1>5. Untainted'
  BY DEF IInv, Untainted, Clean, Busy, HeldOut
<1>6. LossIsTimeouts'
  BY DEF IInv, LossIsTimeouts, Running, Busy, Collecting, LacksTimeouts, number, InOrder, Earlier, Complete, Executed,
         Selected, Last
<1> QED  BY <1>1, <1>2, <1>3, <1>4, <1>5, <1>6 DEF IInv

----------------------------------------------------------------------------
(* The theorems.                                                           *)

LEMMA Initially == Init => IInv
<1> SUFFICES ASSUME Init PROVE IInv
  OBVIOUS
<1>1. ~ Busy /\ ~ Running
  BY DEF Init, Busy, Running
<1>2. TypeOK
  <2>1. Legacy \in Seq(Observation) /\ Len(Legacy) \in Nat
    BY LegacyAssumption
  <2>2. /\ model = [state |-> model.state, trained |-> model.trained]
        /\ report = [state |-> report.state, run |-> report.run, outcomes |-> report.outcomes]
        /\ report.run = 0 /\ report.outcomes = <<>> /\ number = 0
    BY DEF Init, number
  <2>3. 0 \in U64
    BY WordAssumption DEF U64
  <2> QED  BY <2>1, <2>2, <2>3, NoCallTyped DEF Init, TypeOK, Pcs
<1>3. Placed
  BY <1>1 DEF Init, Placed, AtQuery
<1>4. Answered
  BY DEF Init, Answered, NoCall
<1>5. Untainted
  <2>1. \A o \in Range(Legacy) : o.features = None
    BY LegacyAssumption DEF Range
  <2> QED  BY <1>1, <2>1 DEF Init, Untainted, Clean
<1>6. LossIsTimeouts
  BY <1>1 DEF Init, LossIsTimeouts
<1> QED  BY <1>1, <1>2, <1>3, <1>4, <1>5, <1>6 DEF IInv, Covered, Fresh, Recorded, Reporting, CorrectorContract, Joined

LEMMA Invariance == IInv /\ [Next]_vars => IInv'
<1> SUFFICES ASSUME IInv, [Next]_vars PROVE IInv'
  OBVIOUS
<1>1. CASE \E c \in Command : Give(c)
  BY <1>1, GiveStep
<1>2. CASE Plan \/ Execute \/ TimeOut \/ Kill
  BY <1>2, PlanStep, ExecuteStep, TimeOutStep, KillStep
<1>3. CASE AskServer \/ Answering \/ Abandon
  BY <1>3, CallStep
<1>4. CASE Step
  BY <1>4, OpenStep, CorrectStep, CallReturnsStep, NextQueryStep, RecordStep, FlushStep, FinalStep, FinishStep,
     CompareAgainStep, RecollectStep, FitStep, CalibrationStep, TrainStep, SaveStep, SavedStep DEF Step
<1>5. CASE Done \/ UNCHANGED vars
  BY <1>5, DoneStep DEF Done
<1> QED  BY <1>1, <1>2, <1>3, <1>4, <1>5 DEF Next

LEMMA CampaignInvariant == Spec => []IInv
BY Initially, Invariance, PTL DEF Spec

\* The k-th observation a run of the runner adds to its store is that of its
\* k-th successful query, with the engine's estimate and features, whatever
\* corrector was at work and whatever failed.
THEOREM RecordsSuccesses == Spec => []Recorded
<1>1. IInv => Recorded
  BY DEF IInv
<1> QED  BY <1>1, CampaignInvariant, PTL

----------------------------------------------------------------------------
(* The walks over a plan.                                                  *)

LEMMA LeastOf ==
  ASSUME NEW T \in SUBSET Nat, T # {}
  PROVE  \E x \in T : \A y \in T : x <= y
<1>1. PICK x \in T : \A y \in T : ~ (<<y, x>> \in OpToRel(<, Nat))
  BY NatLessThanWellFounded, WFMin
<1>2. \A y \in T : x <= y
  <2>. SUFFICES ASSUME NEW y \in T PROVE x <= y
    OBVIOUS
  <2>1. ~(y < x)
    BY <1>1 DEF OpToRel
  <2>. QED  BY <2>1
<1>. QED  BY <1>2

LEMMA Heights ==
  /\ Cardinality(Node) \in Nat
  /\ \A n \in Node : Height[n] \in Nat /\ Height[n] <= Cardinality(Node) /\ Children[n] \in Seq(Node)
  /\ \A n \in Node : \A k \in DOMAIN Children[n] :
       Children[n][k] \in Node /\ Height[Children[n][k]] < Height[n]
<1>1. Cardinality(Node) \in Nat
  BY FS_CardinalityType, TreeAssumption
<1>2. \A n \in Node : \A k \in DOMAIN Children[n] : Children[n][k] \in Node
  BY TreeAssumption
<1>. QED  BY <1>1, <1>2, TreeAssumption

\* What holds of a node whenever it holds of its children holds of all.
LEMMA FromTheLeaves ==
  ASSUME NEW S \in SUBSET Node,
         \A n \in Node : (\A k \in DOMAIN Children[n] : Children[n][k] \in S) => n \in S
  PROVE  S = Node
<1>. DEFINE T == {Height[n] : n \in Node \ S}
<1>. SUFFICES ASSUME S # Node PROVE FALSE
  OBVIOUS
<1>1. T \in SUBSET Nat /\ T # {}
  <2>1. \E n \in Node : n \notin S
    OBVIOUS
  <2>2. \A n \in Node : Height[n] \in Nat
    BY Heights
  <2>. QED  BY <2>1, <2>2
<1>2. PICK h \in T : \A y \in T : h <= y
  BY <1>1, LeastOf
<1>3. PICK n \in Node \ S : h = Height[n]
  BY <1>2
<1>4. PICK k \in DOMAIN Children[n] : Children[n][k] \notin S
  BY <1>3
<1>5. Children[n][k] \in Node \ S /\ Height[Children[n][k]] < Height[n]
  BY <1>3, <1>4, Heights
<1>6. Height[Children[n][k]] \in T
  BY <1>5
<1>7. h <= Height[Children[n][k]]
  BY <1>2, <1>6
<1>8. Height[n] \in Nat /\ Height[Children[n][k]] \in Nat
  BY <1>5, Heights
<1>. QED  BY <1>3, <1>5, <1>7, <1>8

\* What a walk makes of a node when its walks of the children are f's.
Below(f, n) == [k \in DOMAIN Children[n] |-> f[Children[n][k]]]
Visit(f, n) == <<n>> \o FlattenSeq(Below(f, n))

\* The nodes lower than h are walked.
Walked(h) == \E f : f = [n \in {m \in Node : Height[m] < h} |-> Visit(f, n)]

LEMMA WalkedHigher ==
  ASSUME NEW h \in Nat, Walked(h)
  PROVE  Walked(h + 1)
<1>. DEFINE Lower == {m \in Node : Height[m] < h}
            Low == {m \in Node : Height[m] < h + 1}
<1>1. PICK f : f = [n \in Lower |-> Visit(f, n)]
  BY DEF Walked
<1>. DEFINE g == [n \in Low |-> Visit(f, n)]
<1>2. ASSUME NEW n \in Low PROVE Visit(f, n) = Visit(g, n)
  <2>1. ASSUME NEW k \in DOMAIN Children[n] PROVE f[Children[n][k]] = g[Children[n][k]]
    <3>. DEFINE m == Children[n][k]
    <3>1. m \in Lower /\ m \in Low
      BY Heights
    <3>2. f[m] = Visit(f, m)
      BY <1>1, <3>1
    <3>3. g[m] = Visit(f, m)
      BY <3>1
    <3>. QED  BY <3>2, <3>3
  <2>. HIDE DEF g, Low
  <2>2. Below(f, n) = Below(g, n)
    BY <2>1 DEF Below
  <2>. QED  BY <2>2 DEF Visit
<1>3. g = [n \in Low |-> Visit(g, n)]
  <2>. HIDE DEF Low
  <2>. QED  BY <1>2
<1>. HIDE DEF g
<1>. QED  BY <1>3 DEF Walked

\* A walk visits a node before its children, from left to right.
LEMMA WalkOf == PreOrder = [n \in Node |-> Visit(PreOrder, n)]
<1>1. \A h \in Nat : Walked(h)
  <2>. DEFINE T == {h \in Nat : ~ Walked(h)}
  <2>. SUFFICES ASSUME T # {} PROVE FALSE
    OBVIOUS
  <2>1. PICK h \in T : \A y \in T : h <= y
    BY LeastOf
  <2>2. h # 0
    <3>. DEFINE f == [n \in {} |-> 0]
    <3>1. {m \in Node : Height[m] < 0} = {}
      BY Heights
    <3>2. f = [n \in {m \in Node : Height[m] < 0} |-> Visit(f, n)]
      BY <3>1
    <3>. QED  BY <2>1, <3>2 DEF Walked
  <2>3. h - 1 \in Nat /\ h - 1 \notin T
    BY <2>1, <2>2
  <2>4. Walked((h - 1) + 1)
    BY <2>3, WalkedHigher
  <2>. QED  BY <2>1, <2>2, <2>4
<1>2. {m \in Node : Height[m] < Cardinality(Node) + 1} = Node
  BY Heights
<1>3. \E f : f = [n \in Node |-> Visit(f, n)]
  <2>1. Cardinality(Node) + 1 \in Nat
    BY Heights
  <2>2. Walked(Cardinality(Node) + 1)
    BY <1>1, <2>1
  <2>3. \E f : f = [n \in {m \in Node : Height[m] < Cardinality(Node) + 1} |-> Visit(f, n)]
    BY <2>2 DEF Walked
  <2>. QED  BY <1>2, <2>3, Zenon
<1>. QED  BY <1>3 DEF PreOrder, Visit, Below

\* Walks that meet a join once, and two that share none.
Listing == {s \in Seq(Node) : \A i, j \in DOMAIN s : s[i] = s[j] /\ IsJoinNode(s[i]) => i = j}
Apart(s, t) == \A i \in DOMAIN s, j \in DOMAIN t : s[i] = t[j] => ~ IsJoinNode(s[i])

LEMMA Listed ==
  ASSUME NEW s \in Listing
  PROVE  /\ s \in Seq(Node) /\ Len(s) \in Nat /\ DOMAIN s = 1 .. Len(s) /\ \A i \in 1 .. Len(s) : s[i] \in Node
         /\ \A i, j \in 1 .. Len(s) : s[i] = s[j] /\ IsJoinNode(s[i]) => i = j
<1>1. s \in Seq(Node)
  BY DEF Listing
<1>2. Len(s) \in Nat /\ DOMAIN s = 1 .. Len(s) /\ \A i \in 1 .. Len(s) : s[i] \in Node
  BY <1>1, LenProperties, ElementOfSeq
<1>. QED  BY <1>1, <1>2 DEF Listing

LEMMA ListingsJoin ==
  ASSUME NEW s \in Listing, NEW t \in Listing, Apart(s, t)
  PROVE  s \o t \in Listing /\ Range(s \o t) = Range(s) \cup Range(t)
<1>. DEFINE a == Len(s)
            b == Len(t)
            u == s \o t
<1>1. /\ s \in Seq(Node) /\ a \in Nat /\ DOMAIN s = 1 .. a /\ \A i, j \in 1 .. a : s[i] = s[j] /\ IsJoinNode(s[i]) => i = j
      /\ t \in Seq(Node) /\ b \in Nat /\ DOMAIN t = 1 .. b /\ \A i, j \in 1 .. b : t[i] = t[j] /\ IsJoinNode(t[i]) => i = j
  BY Listed
<1>2. u \in Seq(Node) /\ Len(u) = a + b /\ \A i \in 1 .. a + b : u[i] = IF i <= a THEN s[i] ELSE t[i - a]
  BY <1>1, ConcatProperties
<1>3. DOMAIN u = 1 .. a + b
  BY <1>2, LenProperties
<1>4. \A i \in 1 .. a, j \in 1 .. b : s[i] = t[j] => ~ IsJoinNode(s[i])
  BY <1>1 DEF Apart
<1>. HIDE DEF a, b, u
<1>5. ASSUME NEW i \in 1 .. a + b, NEW j \in 1 .. a + b, u[i] = u[j], IsJoinNode(u[i]) PROVE i = j
  <2>1. CASE i <= a /\ j <= a
    <3>1. i \in 1 .. a /\ j \in 1 .. a /\ u[i] = s[i] /\ u[j] = s[j]
      BY <1>1, <1>2, <2>1
    <3>. QED  BY <1>1, <1>5, <3>1
  <2>2. CASE i <= a /\ ~ (j <= a)
    <3>1. i \in 1 .. a /\ j - a \in 1 .. b /\ u[i] = s[i] /\ u[j] = t[j - a]
      BY <1>1, <1>2, <2>2
    <3>. QED  BY <1>4, <1>5, <3>1
  <2>3. CASE ~ (i <= a) /\ j <= a
    <3>1. i - a \in 1 .. b /\ j \in 1 .. a /\ u[i] = t[i - a] /\ u[j] = s[j]
      BY <1>1, <1>2, <2>3
    <3>. QED  BY <1>4, <1>5, <3>1
  <2>4. CASE ~ (i <= a) /\ ~ (j <= a)
    <3>1. i - a \in 1 .. b /\ j - a \in 1 .. b /\ u[i] = t[i - a] /\ u[j] = t[j - a]
      BY <1>1, <1>2, <2>4
    <3>2. i - a = j - a
      BY <1>1, <1>5, <3>1
    <3>. QED  BY <1>1, <3>2
  <2>. QED  BY <2>1, <2>2, <2>3, <2>4
<1>6. u \in Listing
  BY <1>2, <1>3, <1>5 DEF Listing
<1>7. Range(u) = Range(s) \cup Range(t)
  <2>1. \A i \in 1 .. a : i \in 1 .. a + b /\ u[i] = s[i]
    BY <1>1, <1>2
  <2>2. \A j \in 1 .. b : j + a \in 1 .. a + b /\ u[j + a] = t[j]
    BY <1>1, <1>2
  <2>3. \A i \in 1 .. a + b : (i \in 1 .. a /\ u[i] = s[i]) \/ (i - a \in 1 .. b /\ u[i] = t[i - a])
    BY <1>1, <1>2
  <2>4. Range(u) \subseteq Range(s) \cup Range(t)
    <3>. SUFFICES ASSUME NEW i \in 1 .. a + b PROVE u[i] \in Range(s) \cup Range(t)
      BY <1>3 DEF Range
    <3>. QED  BY <1>1, <2>3 DEF Range
  <2>5. Range(s) \subseteq Range(u)
    <3>. SUFFICES ASSUME NEW i \in 1 .. a PROVE s[i] \in Range(u)
      BY <1>1 DEF Range
    <3>. QED  BY <1>3, <2>1 DEF Range
  <2>6. Range(t) \subseteq Range(u)
    <3>. SUFFICES ASSUME NEW j \in 1 .. b PROVE t[j] \in Range(u)
      BY <1>1 DEF Range
    <3>. QED  BY <1>3, <2>2 DEF Range
  <2>. QED  BY <2>4, <2>5, <2>6
<1>. QED  BY <1>6, <1>7 DEF u

\* The first h of a list of walks, one after the other.
Flat(f, seqs, i) == IF i = 1 THEN seqs[i] ELSE f[i - 1] \o seqs[i]
Flats(seqs, h) == \E f : f = [i \in 1 .. h |-> Flat(f, seqs, i)]

LEMMA FlatsHigher ==
  ASSUME NEW seqs, NEW h \in Nat, Flats(seqs, h)
  PROVE  Flats(seqs, h + 1)
<1>1. PICK f : f = [i \in 1 .. h |-> Flat(f, seqs, i)]
  BY DEF Flats
<1>. DEFINE g == [i \in 1 .. h + 1 |-> Flat(f, seqs, i)]
<1>2. ASSUME NEW i \in 1 .. h + 1 PROVE Flat(f, seqs, i) = Flat(g, seqs, i)
  <2>1. CASE i = 1
    BY <2>1 DEF Flat
  <2>2. CASE i # 1
    <3>1. i - 1 \in 1 .. h /\ i - 1 \in 1 .. h + 1
      BY <2>2
    <3>2. f[i - 1] = Flat(f, seqs, i - 1) /\ g[i - 1] = Flat(f, seqs, i - 1)
      BY <1>1, <3>1
    <3>. HIDE DEF g
    <3>3. f[i - 1] = g[i - 1]
      BY <3>2
    <3>. QED  BY <2>2, <3>3 DEF Flat
  <2>. QED  BY <2>1, <2>2
<1>3. g = [i \in 1 .. h + 1 |-> Flat(g, seqs, i)]
  BY <1>2
<1>. HIDE DEF g
<1>. QED  BY <1>3 DEF Flats

LEMMA FlatOf ==
  ASSUME NEW seqs, Len(seqs) \in Nat, Len(seqs) # 0
  PROVE  \E f : f = [i \in 1 .. Len(seqs) |-> Flat(f, seqs, i)] /\ FlattenSeq(seqs) = f[Len(seqs)]
<1>1. \A h \in Nat : Flats(seqs, h)
  <2>. DEFINE T == {h \in Nat : ~ Flats(seqs, h)}
  <2>. SUFFICES ASSUME T # {} PROVE FALSE
    OBVIOUS
  <2>1. PICK h \in T : \A y \in T : h <= y
    BY LeastOf
  <2>2. h # 0
    <3>. DEFINE f == [i \in {} |-> 0]
    <3>1. 1 .. 0 = {}
      OBVIOUS
    <3>2. f = [i \in 1 .. 0 |-> Flat(f, seqs, i)]
      BY <3>1
    <3>. QED  BY <2>1, <3>2 DEF Flats
  <2>3. h - 1 \in Nat /\ h - 1 \notin T
    BY <2>1, <2>2
  <2>4. Flats(seqs, (h - 1) + 1)
    BY <2>3, FlatsHigher
  <2>. QED  BY <2>1, <2>2, <2>4
<1>. DEFINE F == CHOOSE f : f = [i \in 1 .. Len(seqs) |-> Flat(f, seqs, i)]
<1>2. F = [i \in 1 .. Len(seqs) |-> Flat(F, seqs, i)]
  BY <1>1 DEF Flats
<1>3. FlattenSeq(seqs) = F[Len(seqs)]
  BY DEF FlattenSeq, Flat
<1>. HIDE DEF F
<1>. QED  BY <1>2, <1>3

\* Walks that share no join, one after the other, meet a join once.
LEMMA ListingsFlatten ==
  ASSUME NEW seqs \in Seq(Listing),
         \A j, k \in 1 .. Len(seqs) : j # k => Apart(seqs[j], seqs[k])
  PROVE  /\ FlattenSeq(seqs) \in Listing
         /\ \A m \in Range(FlattenSeq(seqs)) : \E k \in 1 .. Len(seqs) : m \in Range(seqs[k])
<1>. DEFINE c == Len(seqs)
<1>1. c \in Nat /\ \A k \in 1 .. c : seqs[k] \in Listing
  BY LenProperties, ElementOfSeq
<1>2. CASE c = 0
  <2>1. seqs = <<>>
    BY <1>2, EmptySeq
  <2>2. FlattenSeq(seqs) = <<>>
    BY <1>2, <2>1 DEF FlattenSeq
  <2>3. <<>> \in Seq(Node) /\ DOMAIN <<>> = {}
    OBVIOUS
  <2>. QED  BY <2>2, <2>3 DEF Listing, Range
<1>3. CASE c # 0
  <2>1. PICK f : f = [i \in 1 .. c |-> Flat(f, seqs, i)] /\ FlattenSeq(seqs) = f[c]
    BY <1>1, <1>3, FlatOf
  <2>2. \A i \in 1 .. c : f[i] = IF i = 1 THEN seqs[i] ELSE f[i - 1] \o seqs[i]
    BY <2>1 DEF Flat
  <2>. DEFINE Upto(i) == \A m \in Range(f[i]) : \E k \in 1 .. i : m \in Range(seqs[k])
              Bad == {i \in 1 .. c : ~ (f[i] \in Listing /\ Upto(i))}
  <2>3. Bad = {}
    <3>. SUFFICES ASSUME Bad # {} PROVE FALSE
      OBVIOUS
    <3>1. Bad \in SUBSET Nat
      BY <1>1
    <3>2. PICK i \in Bad : \A j \in Bad : i <= j
      BY <3>1, LeastOf
    <3>3. i \in 1 .. c /\ seqs[i] \in Listing
      BY <1>1
    <3>4. i # 1
      <4>. SUFFICES ASSUME i = 1 PROVE FALSE
        OBVIOUS
      <4>1. f[i] = seqs[i]
        BY <2>2, <3>3
      <4>2. f[i] \in Listing /\ Upto(i)
        BY <3>3, <4>1
      <4>. QED  BY <4>2
    <3>5. i - 1 \in 1 .. c /\ i - 1 \notin Bad
      <4>. HIDE DEF Bad
      <4>1. i - 1 \in 1 .. c /\ ~ (i <= i - 1)
        BY <1>1, <3>3, <3>4
      <4>. QED  BY <3>2, <4>1
    <3>6. f[i - 1] \in Listing /\ Upto(i - 1)
      BY <3>5
    <3>7. f[i] = f[i - 1] \o seqs[i]
      BY <2>2, <3>3, <3>4
    <3>8. Apart(f[i - 1], seqs[i])
      <4>1. ASSUME NEW x \in DOMAIN f[i - 1], NEW y \in DOMAIN seqs[i], f[i - 1][x] = seqs[i][y]
            PROVE  ~ IsJoinNode(f[i - 1][x])
        <5>1. f[i - 1][x] \in Range(f[i - 1])
          BY DEF Range
        <5>2. PICK k \in 1 .. i - 1 : f[i - 1][x] \in Range(seqs[k])
          BY <3>6, <5>1
        <5>3. PICK z \in DOMAIN seqs[k] : seqs[k][z] = f[i - 1][x]
          BY <5>2 DEF Range
        <5>4. k \in 1 .. c /\ k # i
          BY <1>1, <3>3, <5>2
        <5>5. Apart(seqs[k], seqs[i])
          BY <3>3, <5>4
        <5>. QED  BY <4>1, <5>3, <5>5 DEF Apart
      <4>. QED  BY <4>1 DEF Apart
    <3>9. f[i] \in Listing /\ Range(f[i]) = Range(f[i - 1]) \cup Range(seqs[i])
      BY <3>3, <3>6, <3>7, <3>8, ListingsJoin
    <3>10. Upto(i)
      <4>1. \A k \in 1 .. i - 1 : k \in 1 .. i
        BY <1>1, <3>3
      <4>2. i \in 1 .. i
        BY <1>1, <3>3
      <4>. QED  BY <3>6, <3>9, <4>1, <4>2
    <3>. QED  BY <3>9, <3>10
  <2>4. c \in 1 .. c /\ c \notin Bad
    <3>. HIDE DEF Bad
    <3>. QED  BY <1>1, <1>3, <2>3
  <2>5. f[c] \in Listing /\ Upto(c)
    BY <2>4
  <2>. QED  BY <2>1, <2>5
<1>. QED  BY <1>2, <1>3

\* A plan's walk meets a join once, and nothing higher than its root.
LEMMA WalksList ==
  ASSUME NEW root \in Node
  PROVE  PreOrder[root] \in Listing
<1>. DEFINE Lower(n) == \A m \in Range(PreOrder[n]) : Height[m] \in Nat /\ Height[m] <= Height[n]
            S == {n \in Node : PreOrder[n] \in Listing /\ Lower(n)}
<1>1. ASSUME NEW n \in Node, \A k \in DOMAIN Children[n] : Children[n][k] \in S
      PROVE  n \in S
  <2>. DEFINE seqs == Below(PreOrder, n)
              flat == FlattenSeq(seqs)
              c == Len(Children[n])
  <2>0. c \in Nat /\ DOMAIN Children[n] = 1 .. c
    BY Heights, LenProperties
  <2>1. PreOrder[n] = <<n>> \o flat
    BY WalkOf DEF Visit
  <2>2. \A k \in 1 .. c : seqs[k] = PreOrder[Children[n][k]] /\ seqs[k] \in Listing /\ Lower(Children[n][k])
    BY <1>1, <2>0 DEF Below
  <2>3. seqs \in Seq(Listing) /\ Len(seqs) = c
    <3>1. seqs \in [1 .. c -> Listing]
      BY <2>0, <2>2 DEF Below
    <3>. HIDE DEF seqs, c
    <3>. QED  BY <2>0, <3>1, SeqDef, LenProperties
  <2>4. \A j, k \in 1 .. Len(seqs) : j # k => Apart(seqs[j], seqs[k])
    <3>. SUFFICES ASSUME NEW j \in 1 .. c, NEW k \in 1 .. c, j # k PROVE Apart(seqs[j], seqs[k])
      BY <2>3
    <3>1. \A m \in Range(PreOrder[Children[n][j]]) \cap Range(PreOrder[Children[n][k]]) : ~ IsJoinNode(m)
      BY <2>0, JoinsAssumption
    <3>2. seqs[j] = PreOrder[Children[n][j]] /\ seqs[k] = PreOrder[Children[n][k]]
      BY <2>2
    <3>. QED  BY <3>1, <3>2 DEF Apart, Range
  <2>. HIDE DEF seqs
  <2>5. flat \in Listing /\ \A m \in Range(flat) : \E k \in 1 .. c : m \in Range(seqs[k])
    BY <2>3, <2>4, ListingsFlatten
  <2>. HIDE DEF flat, c
  <2>6. \A m \in Range(flat) : Height[m] \in Nat /\ Height[m] < Height[n]
    <3>. SUFFICES ASSUME NEW m \in Range(flat) PROVE Height[m] \in Nat /\ Height[m] < Height[n]
      OBVIOUS
    <3>1. PICK k \in 1 .. c : m \in Range(seqs[k])
      BY <2>5
    <3>2. Height[m] \in Nat /\ Height[m] <= Height[Children[n][k]]
      BY <2>2, <3>1
    <3>3. Children[n][k] \in Node /\ Height[Children[n][k]] < Height[n]
      BY <2>0, Heights
    <3>4. Height[Children[n][k]] \in Nat /\ Height[n] \in Nat
      BY <3>3, Heights
    <3>. QED  BY <3>2, <3>3, <3>4
  <2>7. Height[n] \in Nat
    BY Heights
  <2>8. <<n>> \in Listing /\ Range(<<n>>) = {n} /\ DOMAIN <<n>> = {1} /\ <<n>>[1] = n
    BY DEF Listing, Range
  <2>9. Apart(<<n>>, flat)
    <3>1. n \notin Range(flat)
      BY <2>6, <2>7
    <3>. QED  BY <2>8, <3>1 DEF Apart, Range
  <2>10. PreOrder[n] \in Listing /\ Range(PreOrder[n]) = {n} \cup Range(flat)
    BY <2>1, <2>5, <2>8, <2>9, ListingsJoin
  <2>11. Lower(n)
    BY <2>6, <2>7, <2>10
  <2>. QED  BY <2>10, <2>11
<1>2. S = Node
  <2>. HIDE DEF S
  <2>1. S \in SUBSET Node
    BY DEF S
  <2>. QED  BY <1>1, <2>1, FromTheLeaves
<1>. QED  BY <1>2

\* The chosen indices up to i.
Ahead(chosen, i) == {j \in chosen : j <= i}

\* The chosen elements in order.
LEMMA NthOf ==
  ASSUME NEW chosen \in SUBSET Int, IsFiniteSet(chosen), NEW k \in 1 .. Cardinality(chosen)
  PROVE  Nth(chosen, k) \in chosen /\ Cardinality(Ahead(chosen, Nth(chosen, k))) = k
<1>. DEFINE c == Cardinality(chosen)
            f == [i \in chosen |-> Cardinality(Ahead(chosen, i))]
<1>1. c \in Nat /\ IsFiniteSet(1 .. c) /\ Cardinality(1 .. c) = c
  BY FS_CardinalityType, FS_Interval
<1>2. ASSUME NEW i \in chosen PROVE IsFiniteSet(Ahead(chosen, i)) /\ i \in Ahead(chosen, i) /\ Cardinality(Ahead(chosen, i)) \in 1 .. c
  <2>1. i \in Ahead(chosen, i) /\ Ahead(chosen, i) \in SUBSET chosen
    BY DEF Ahead
  <2>2. IsFiniteSet(Ahead(chosen, i)) /\ Cardinality(Ahead(chosen, i)) <= c
    BY <2>1, FS_Subset
  <2>3. Cardinality(Ahead(chosen, i)) \in Nat /\ Cardinality(Ahead(chosen, i)) # 0
    BY <2>1, <2>2, FS_CardinalityType, FS_EmptySet
  <2>. QED  BY <1>1, <2>1, <2>2, <2>3
<1>3. ASSUME NEW i \in chosen, NEW j \in chosen, i < j PROVE Cardinality(Ahead(chosen, i)) # Cardinality(Ahead(chosen, j))
  <2>1. Ahead(chosen, i) \in SUBSET Ahead(chosen, j) /\ j \in Ahead(chosen, j) /\ j \notin Ahead(chosen, i)
    <3>1. i \in Int /\ j \in Int /\ \A y \in chosen : y \in Int
      OBVIOUS
    <3>2. \A y \in chosen : y <= i => y <= j
      BY <1>3, <3>1
    <3>3. Ahead(chosen, i) \in SUBSET Ahead(chosen, j)
      BY <3>2 DEF Ahead
    <3>4. ~ (j <= i) /\ j <= j
      BY <1>3, <3>1
    <3>. QED  BY <3>3, <3>4 DEF Ahead
  <2>2. IsFiniteSet(Ahead(chosen, j))
    BY <1>2
  <2>. QED  BY <2>1, <2>2, FS_Subset
<1>4. \A i, j \in chosen : f[i] = f[j] => i = j
  <2>. SUFFICES ASSUME NEW i \in chosen, NEW j \in chosen, f[i] = f[j] PROVE i = j
    OBVIOUS
  <2>1. i \in Int /\ j \in Int /\ Cardinality(Ahead(chosen, i)) = Cardinality(Ahead(chosen, j))
    OBVIOUS
  <2>2. ~ (i < j) /\ ~ (j < i)
    BY <1>3, <2>1
  <2>. QED  BY <2>1, <2>2
<1>5. f \in [chosen -> 1 .. c]
  BY <1>2
<1>. HIDE DEF f
<1>6. f \in Injection(chosen, 1 .. c)
  BY <1>4, <1>5 DEF Injection, IsInjective
<1>7. f \in Surjection(chosen, 1 .. c)
  BY <1>1, <1>6, FS_Injection
<1>8. PICK i \in chosen : f[i] = k
  BY <1>7 DEF Surjection
<1>9. Cardinality(Ahead(chosen, i)) = k
  BY <1>8 DEF f
<1>10. Nth(chosen, k) = CHOOSE j \in chosen : Cardinality(Ahead(chosen, j)) = k
  BY DEF Nth, Ahead
<1>. QED  BY <1>9, <1>10

LEMMA NthNumbers ==
  ASSUME NEW chosen \in SUBSET Int, IsFiniteSet(chosen)
  PROVE  /\ Cardinality(chosen) \in Nat
         /\ \A k \in 1 .. Cardinality(chosen) : Nth(chosen, k) \in chosen
         /\ \A k, l \in 1 .. Cardinality(chosen) : Nth(chosen, k) = Nth(chosen, l) => k = l
         /\ \A i \in chosen : \E k \in 1 .. Cardinality(chosen) : Nth(chosen, k) = i
<1>. DEFINE c == Cardinality(chosen)
            f == [k \in 1 .. c |-> Nth(chosen, k)]
<1>1. c \in Nat
  BY FS_CardinalityType
<1>2. IsFiniteSet(1 .. c) /\ Cardinality(1 .. c) = c
  <2>1. 1 \in Int /\ c \in Int
    BY <1>1
  <2>. QED  BY <1>1, <2>1, FS_Interval
<1>3. \A k \in 1 .. c : Nth(chosen, k) \in chosen /\ Cardinality(Ahead(chosen, Nth(chosen, k))) = k
  BY NthOf
<1>4. \A k, l \in 1 .. c : Nth(chosen, k) = Nth(chosen, l) => k = l
  BY <1>3
<1>5. f \in [1 .. c -> chosen] /\ \A k, l \in 1 .. c : f[k] = f[l] => k = l
  BY <1>3, <1>4
<1>. HIDE DEF f
<1>6. f \in Injection(1 .. c, chosen)
  BY <1>5 DEF Injection, IsInjective
<1>7. f \in Surjection(1 .. c, chosen)
  <2>. HIDE DEF c
  <2>1. Cardinality(1 .. c) = Cardinality(chosen)
    BY <1>2 DEF c
  <2>. QED  BY <1>6, <2>1, FS_Injection
<1>8. \A i \in chosen : \E k \in 1 .. c : f[k] = i
  BY <1>7 DEF Surjection
<1>. QED  BY <1>1, <1>3, <1>4, <1>8 DEF f

\* The q-error of two numbers of rows has the greater of them on top.
LEMMA QErrorOrdered ==
  ASSUME NEW est \in Nat \cup {None}, NEW act \in Nat \cup {None}, QErrorOf(est, act) # None
  PROVE  QErrorOf(est, act)[1] >= QErrorOf(est, act)[2]
<1>. DEFINE x == AtLeastOne(est)
            y == AtLeastOne(act)
<1>1. est # None /\ act # None /\ QErrorOf(est, act) = Ratio(x, y)
  BY DEF QErrorOf, Moerkotte
<1>2. x \in Nat /\ y \in Nat
  BY <1>1 DEF AtLeastOne
<1>. HIDE DEF x, y
<1>3. CASE x >= y
  BY <1>1, <1>3 DEF Ratio
<1>4. CASE ~ (x >= y)
  <2>1. Ratio(x, y) = <<y, x>>
    BY <1>4 DEF Ratio
  <2>. QED  BY <1>1, <1>2, <1>4, <2>1
<1>. QED  BY <1>3, <1>4

\* The joins met are those of the plan, each once.
LEMMA MeetsEveryJoin ==
  ASSUME NEW b \in BOOLEAN, NEW q \in Query
  PROVE  LET c == Cardinality(JoinsOf[b][q])
             joins == JoinsMet(Root[b][q])
         IN  /\ c \in Nat /\ DOMAIN joins = 1 .. c
             /\ \A k \in 1 .. c : joins[k] \in JoinsOf[b][q]
             /\ \A n \in JoinsOf[b][q] : \E k \in 1 .. c : joins[k] = n
<1>. DEFINE order == PreOrder[Root[b][q]]
            chosen == {i \in DOMAIN order : IsJoinNode(order[i])}
            d == Cardinality(chosen)
            joins == JoinsMet(Root[b][q])
<1>1. Root[b][q] \in Node
  BY QueryAssumption
<1>2. order \in Listing
  BY <1>1, WalksList
<1>3. /\ Len(order) \in Nat /\ DOMAIN order = 1 .. Len(order)
      /\ \A i \in 1 .. Len(order) : order[i] \in Node
      /\ \A i, j \in 1 .. Len(order) : order[i] = order[j] /\ IsJoinNode(order[i]) => i = j
  BY <1>2, Listed
<1>. HIDE DEF order
<1>4. chosen \in SUBSET Int /\ IsFiniteSet(chosen)
  <2>1. IsFiniteSet(1 .. Len(order))
    BY <1>3, FS_Interval
  <2>2. chosen \in SUBSET (1 .. Len(order))
    BY <1>3
  <2>. QED  BY <2>1, <2>2, FS_Subset
<1>5. /\ d \in Nat
      /\ \A k \in 1 .. d : Nth(chosen, k) \in chosen
      /\ \A k, l \in 1 .. d : Nth(chosen, k) = Nth(chosen, l) => k = l
      /\ \A i \in chosen : \E k \in 1 .. d : Nth(chosen, k) = i
  <2>. HIDE DEF chosen
  <2>. QED  BY <1>4, NthNumbers
<1>6. joins = [k \in 1 .. d |-> order[Nth(chosen, k)]]
  BY DEF JoinsMet, At, order
<1>7. JoinsOf[b][q] = {n \in Node : IsJoinNode(n) /\ n \in Range(order)}
  BY DEF JoinsOf, order
<1>8. ASSUME NEW k \in 1 .. d PROVE joins[k] = order[Nth(chosen, k)] /\ joins[k] \in JoinsOf[b][q]
  <2>. DEFINE i == Nth(chosen, k)
  <2>1. i \in chosen
    BY <1>5
  <2>2. joins[k] = order[i]
    BY <1>6
  <2>. HIDE DEF i, joins
  <2>3. i \in DOMAIN order /\ IsJoinNode(order[i]) /\ order[i] \in Node
    BY <1>3, <2>1
  <2>4. order[i] \in Range(order)
    BY <2>3 DEF Range
  <2>5. joins[k] \in JoinsOf[b][q]
    BY <1>7, <2>2, <2>3, <2>4
  <2>. QED  BY <2>2, <2>5 DEF i
<1>9. ASSUME NEW n \in JoinsOf[b][q] PROVE \E k \in 1 .. d : joins[k] = n
  <2>1. PICK i \in DOMAIN order : order[i] = n
    BY <1>7 DEF Range
  <2>2. i \in chosen
    BY <1>7, <2>1
  <2>3. PICK k \in 1 .. d : Nth(chosen, k) = i
    BY <1>5, <2>2
  <2>4. joins[k] = order[i]
    BY <1>8, <2>3
  <2>. QED  BY <2>1, <2>4
<1>10. ASSUME NEW k \in 1 .. d, NEW l \in 1 .. d, joins[k] = joins[l] PROVE k = l
  <2>1. Nth(chosen, k) \in chosen /\ Nth(chosen, l) \in chosen
    BY <1>5
  <2>2. Nth(chosen, k) = Nth(chosen, l)
    BY <1>3, <1>8, <1>10, <2>1
  <2>. QED  BY <1>5, <2>2
<1>11. DOMAIN joins = 1 .. d
  BY <1>6
<1>. HIDE DEF joins, d
<1>12. d = Cardinality(JoinsOf[b][q])
  <2>1. joins \in [1 .. d -> JoinsOf[b][q]]
    <3>. HIDE DEF chosen
    <3>1. joins = [k \in 1 .. d |-> joins[k]]
      BY <1>6, <1>11
    <3>. QED  BY <1>8, <3>1
  <2>2. joins \in Bijection(1 .. d, JoinsOf[b][q])
    BY <1>9, <1>10, <2>1 DEF Bijection, Injection, IsInjective, Surjection
  <2>3. IsFiniteSet(1 .. d) /\ Cardinality(1 .. d) = d
    <3>1. 1 \in Int /\ d \in Int
      BY <1>5
    <3>. QED  BY <1>5, <3>1, FS_Interval
  <2>4. ExistsBijection(1 .. d, JoinsOf[b][q])
    BY <2>2 DEF ExistsBijection
  <2>. HIDE DEF chosen
  <2>. QED  BY <2>3, <2>4, FS_Bijection
<1>. QED  BY <1>5, <1>8, <1>9, <1>11, <1>12 DEF joins

\* The two walks pair every join of a plan with itself.
LEMMA PairsItself ==
  ASSUME NEW b \in BOOLEAN, NEW q \in Query
  PROVE  WellMeasured(b, q, MeasuredJoins[b][q])
<1>. DEFINE c == Cardinality(JoinsOf[b][q])
            joins == JoinsMet(Root[b][q])
            snaps == CollectJoinEstimates(Root[b][q])
            m == PairJoinMetrics(Root[b][q], snaps)
<1>1. /\ c \in Nat /\ DOMAIN joins = 1 .. c
      /\ \A k \in 1 .. c : joins[k] \in JoinsOf[b][q]
      /\ \A n \in JoinsOf[b][q] : \E k \in 1 .. c : joins[k] = n
  BY MeetsEveryJoin
<1>2. MeasuredJoins[b][q] = m
  BY DEF MeasuredJoins
<1>3. DOMAIN snaps = 1 .. c /\ \A i \in 1 .. c : snaps[i].type = Operator[joins[i]] /\ snaps[i].est = Reports[joins[i]].rows
  BY <1>1 DEF CollectJoinEstimates
<1>4. /\ DOMAIN m = 1 .. c
      /\ \A i \in 1 .. c :
           /\ m[i].type = snaps[i].type /\ m[i].est = snaps[i].est /\ m[i].actual = Emits[joins[i]]
           /\ m[i].q = QErrorOf(snaps[i].est, Emits[joins[i]])
  <2>. HIDE DEF snaps
  <2>. QED  BY <1>1, <1>3 DEF PairJoinMetrics
<1>5. m = [i \in 1 .. c |-> m[i]]
  <2>. HIDE DEF snaps
  <2>. QED  BY <1>1 DEF PairJoinMetrics
<1>. HIDE DEF m, snaps, joins
<1>6. Len(m) = c
  <2>1. m \in [1 .. c -> Range(m)]
    BY <1>4, <1>5 DEF Range
  <2>0. c \in Nat
    BY <1>1
  <2>. HIDE DEF c
  <2>2. m \in Seq(Range(m))
    BY <2>0, <2>1, SeqDef
  <2>3. Len(m) \in Nat /\ DOMAIN m = 1 .. Len(m)
    BY <2>2, LenProperties
  <2>4. 1 .. Len(m) = 1 .. c
    BY <1>4, <2>3
  <2>5. \A x, y \in Nat : 1 .. x = 1 .. y => x = y
    <3>1. ASSUME NEW x \in Nat, NEW y \in Nat, \A k \in 1 .. x : k \in 1 .. y PROVE x <= y
      <4>1. CASE x = 0
        BY <4>1
      <4>2. CASE x # 0
        <5>1. x \in 1 .. x
          BY <4>2
        <5>. QED  BY <3>1, <5>1
      <4>. QED  BY <4>1, <4>2
    <3>2. ASSUME NEW x \in Nat, NEW y \in Nat, 1 .. x = 1 .. y PROVE x = y
      <4>1. x <= y /\ y <= x
        BY <3>1, <3>2, Zenon
      <4>. QED  BY <4>1
    <3>. QED  BY <3>2
  <2>. QED  BY <2>0, <2>3, <2>4, <2>5, Zenon
<1>7. ASSUME NEW i \in 1 .. c
      PROVE  joins[i] \in Measured(b, q, m[i]) /\ (m[i].q # None => m[i].q[1] >= m[i].q[2])
  <2>1. joins[i] \in JoinsOf[b][q] /\ joins[i] \in Node
    BY <1>1 DEF JoinsOf
  <2>2. m[i].type = Operator[joins[i]] /\ m[i].est = Reports[joins[i]].rows /\ m[i].actual = Emits[joins[i]]
    BY <1>3, <1>4
  <2>3. joins[i] \in Measured(b, q, m[i])
    BY <2>1, <2>2 DEF Measured
  <2>4. m[i].q = QErrorOf(Reports[joins[i]].rows, Emits[joins[i]])
    BY <1>3, <1>4
  <2>5. Reports[joins[i]].rows \in Nat \cup {None} /\ Emits[joins[i]] \in Nat \cup {None}
    BY <2>1, ReportsAssumption, EmitsAssumption
  <2>. QED  BY <2>3, <2>4, <2>5, QErrorOrdered
<1>8. \A n \in JoinsOf[b][q] : \E j \in Range(m) : n \in Measured(b, q, j)
  <2>. SUFFICES ASSUME NEW n \in JoinsOf[b][q] PROVE \E j \in Range(m) : n \in Measured(b, q, j)
    OBVIOUS
  <2>1. PICK k \in 1 .. c : joins[k] = n
    BY <1>1
  <2>2. m[k] \in Range(m)
    BY <1>4 DEF Range
  <2>. QED  BY <1>7, <2>1, <2>2
<1>9. \A j \in Range(m) : Measured(b, q, j) # {} /\ (j.q # None => j.q[1] >= j.q[2])
  <2>. SUFFICES ASSUME NEW i \in 1 .. c PROVE Measured(b, q, m[i]) # {} /\ (m[i].q # None => m[i].q[1] >= m[i].q[2])
    BY <1>4 DEF Range
  <2>. QED  BY <1>7
<1>. QED  BY <1>2, <1>6, <1>8, <1>9 DEF WellMeasured

----------------------------------------------------------------------------

\* All that a run records and reports matches what the queries did: the
\* observations are the successes', and the two walks over a plan meet each
\* of its joins once and in one order, so that each is reported with its own
\* estimate and its own count.
THEOREM OutcomesMatch == Spec => []ObservationsMatchOutcomes
<1>1. IInv => ObservationsMatchOutcomes
  <2> SUFFICES ASSUME IInv PROVE ObservationsMatchOutcomes
    OBVIOUS
  <2>1. ASSUME Running, NEW i \in DOMAIN outcomes, Ok(outcomes[i])
        PROVE  WellMeasured(job.baseline, outcomes[i].query, outcomes[i].joins)
    <3>1. outcomes[i] \in Reportable /\ job.baseline \in BOOLEAN
      BY <2>1 DEF IInv, TypeOK, Running, Busy, JobType
    <3>2. outcomes[i].query \in Query /\ outcomes[i].joins = MeasuredJoins[job.baseline][outcomes[i].query]
      BY <2>1, <3>1 DEF Reportable, IInv, Reporting, Joined
    <3> QED  BY <3>1, <3>2, PairsItself
  <2> QED  BY <2>1 DEF IInv, ObservationsMatchOutcomes
<1> QED  BY <1>1, CampaignInvariant, PTL

\* No model that comes from a file was fitted to a query held out of the
\* campaign.
THEOREM NeverSeesHeldOut == Spec => []HeldOutUnseen
<1>1. IInv => HeldOutUnseen
  BY DEF IInv, Untainted, Clean, HeldOutUnseen, Seen
<1> QED  BY <1>1, CampaignInvariant, PTL

\* The report lacks nothing but timeouts, and in the end nothing.
THEOREM ReportsEverything == Spec => []LossIsTimeouts
<1>1. IInv => LossIsTimeouts
  BY DEF IInv
<1> QED  BY <1>1, CampaignInvariant, PTL

\* Only a caller's own corrector can fail a query, and an estimate that is
\* not the engine's is within the ceiling.
THEOREM CorrectorsKeepTheirContract == Spec => []CorrectorContract
<1>1. IInv => CorrectorContract
  BY DEF IInv, Reporting
<1> QED  BY <1>1, CampaignInvariant, PTL
=============================================================================
