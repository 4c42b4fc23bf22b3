------------------------------ MODULE Ablation ------------------------------
(***************************************************************************)
(* samkhya-bench/src/bin/ablation_runner.rs: the arms A0 .. A4, each with  *)
(* one more layer between DataFusion's estimate and the one it reports.    *)
(* An arm opens a feedback store of its own, fills it by warm-up passes    *)
(* over the suite, trains its correctors on it, and then measures every    *)
(* query of every replicate, storing what it saw.                          *)
(*                                                                         *)
(* The tables a seed makes are data: what DataFusion estimates and counts  *)
(* over them for each query.  A tree model is the history it was fitted    *)
(* to; what it predicts is any number of Prediction.                       *)
(***************************************************************************)
EXTENDS Aggregation

CONSTANTS
  Largest, Absent,         \* MaxU64 and None of Correctors
  Prediction, NaN, Err,    \* as there
  Queries,     \* the suite, in its order
  Chain,       \* query -> what ChainBound answers for its topology
  Dataset,     \* what the tables may be: seed -> query -> [est, actual]
  RawFile,     \* what --seed-from-raw may find
  WarmUp,      \* values of --warmup-passes
  V3WarmUp,    \* the warm-up passes of V3 (60)
  Refit,       \* values of --refit-every
  Replicates   \* --replicates

Model == INSTANCE Correctors WITH MaxU64 <- Largest, None <- Absent, MaxParts <- 0, call <- Absent

Query == Range(Queries)
BaseSeed == 0
Seed == (0 - V3WarmUp) .. Replicates

ASSUME SuiteAssumption ==
  /\ Queries \in Seq(Query) \ {<<>>} /\ IsInjective(Queries)
  /\ Chain \in [Query -> 0 .. Largest]
ASSUME DatasetAssumption == Dataset \subseteq [Seed -> [Query -> [est : 0 .. Largest, actual : 0 .. Largest]]]
ASSUME PlanAssumption ==
  /\ WarmUp \subseteq 0 .. V3WarmUp /\ Refit \subseteq Nat
  /\ {Replicates, V3WarmUp} \subseteq Nat \ {0}

ASSUME RawAssumption == \A raw \in RawFile : raw \in Seq(Range(raw))

VARIABLES
  cli,      \* the command line, what its file of old records holds, and the data
  arm,      \* place in cli.arms of the arm that runs
  phase,    \* seed, warm, train, measure, refit, write, done
  round,    \* the warm-up pass or the replicate
  at,       \* place of the query in the suite
  history,  \* the arm's feedback store, oldest first
  l4, l5,   \* what gbt, gbt_v2 or gbt_v3, and additive, are fitted to
  prior,    \* the history prior_log_live was computed from, by its length
  records   \* of all arms so far

runVars == <<cli, arm, phase, round, at, history, l4, l5, prior, records>>
allVars == <<runVars, script>>

Arms == <<"A0", "A1", "A2", "A3", "A4">>
Commands ==
  [variant : {"V1", "V2", "V3"}, arms : {Arms} \cup {<<Arms[i]>> : i \in DOMAIN Arms},
   passes : WarmUp, refit : Refit, raw : RawFile, data : Dataset]

RunInit ==
  /\ cli \in Commands /\ arm = 1 /\ phase = "seed" /\ round = 0 /\ at = 1 /\ history = <<>>
  /\ l4 = Absent /\ l5 = Absent /\ prior = 0 /\ records = <<>>

NoRun ==
  /\ cli = Absent /\ arm = 0 /\ phase = "done" /\ round = 0 /\ at = 0 /\ history = <<>>
  /\ l4 = Absent /\ l5 = Absent /\ prior = 0 /\ records = <<>>

Name == cli.arms[arm]
Corrects == Name \in {"A3", "A4"}

----------------------------------------------------------------------------
(* Seeds and tables                                                        *)

\* V3 raises the default of one pass; no variant goes without.
Passes == IF cli.variant = "V3" /\ cli.passes = 1 THEN V3WarmUp ELSE Max({cli.passes, 1})

\* Mutant: the arms go on counting.
RunningSeed(replicate) == BaseSeed + ((replicate + arm - 1) % (Replicates + 1))

\* The first pass keeps the base seed; the others have seeds of their own.
PassSeed(pass) == IF pass = 0 THEN BaseSeed ELSE BaseSeed - pass
ReplicateSeed(replicate) == BaseSeed + replicate

\* The four tables a seed makes.
Tables(seed) == cli.data[seed]

\* build_ctx: every arm registers them with the statistics of L1.
BuildCtx(seed) == Tables(seed)

\* probe: an absent row count is an estimate of 0.
Probe(ctx, q) == ctx[q]

Observation(q, probe) == [query |-> q, est |-> probe.est, actual |-> probe.actual]

----------------------------------------------------------------------------
(* The layers                                                              *)

Ceiling(q) == IF Chain[q] = 0 THEN Largest ELSE Chain[q]

\* apply_l2: the newest observation of the query
Recalled(q, fallback) ==
  LET seen == {i \in DOMAIN history : history[i].query = q}
  IN IF seen = {} THEN fallback ELSE history[Max(seen)].actual

\* apply_l3: an estimate of 0 becomes the ceiling.
Clamped(prev, q) == IF prev = 0 THEN Ceiling(q) ELSE Min({prev, Ceiling(q)})

\* prior_residual_log: the outcomes whose mean it is; of none, 0.0.
PriorResidualLog(observations) == SelectSeq(observations, Model!Usable)

\* compute_prior_log_by_query over the first n observations
Prior(q, n) == PriorResidualLog(SelectSeq(SubSeq(history, 1, n), LAMBDA o : o.query = q))

\* featurize_v2: beside the estimate and the prior, what the query fixes
Features(est, q, n) == <<est, q, Prior(q, n)>>

\* A model of the ratios needs an outcome whose two counts are not zero, the
\* additive one of V3 an outcome with a count that is not.
RatioRows(n) == {i \in 1 .. n : Model!Usable(history[i])}
AdditiveRows(n) == {i \in 1 .. n : history[i].est # 0 \/ history[i].actual # 0}
Fitted(n) == [upto |-> n, ratio |-> RatioRows(n) # {}, rows |-> AdditiveRows(n) # {}]

\* AdditiveGbtCorrector::train(..).ok(): without rows there is no corrector.
FittedAdditive(n) == IF Model!TrainAdditive(Range(SubSeq(history, 1, n))) = {} THEN Absent ELSE n

\* apply_l4
CorrectedV1(prev, q) ==
  IF l4.ratio THEN {Model!SaturatingClamp(v, Ceiling(q)) : v \in Model!GbtCorrector(prev, Largest)}
  ELSE {Min({prev, Ceiling(q)})}

AtLeastOne(x) == Max({x, 1})
Kept(prev, q) == AtLeastOne(Min({prev, Ceiling(q)}))
Predicted(raws, q) == {AtLeastOne(Model!SaturatingClamp(raw, Ceiling(q))) : raw \in raws}

\* apply_l4_v2
CorrectedV2(prev, q) == IF l4.ratio THEN Predicted(Model!Scaled(prev), q) ELSE {Kept(prev, q)}

\* apply_l4_v3: where L3 had nothing to clamp, a ratio would not help.
CorrectedV3(prev, preL3, q) ==
  CASE preL3 = 0 /\ l4.rows -> Predicted({Model!AtLeastZero(x) : x \in Prediction \cup {NaN}}, q)
    [] preL3 # 0 /\ l4.ratio -> Predicted(Model!Scaled(prev), q)
    [] OTHER -> {Kept(prev, q)}

Corrected(prev, preL3, q) ==
  CASE cli.variant = "V1" -> CorrectedV1(prev, q)
    [] cli.variant = "V2" -> CorrectedV2(prev, q)
    [] cli.variant = "V3" -> CorrectedV3(prev, preL3, q)

\* apply_l5
Added(prev, q) ==
  IF l5 = Absent THEN {Min({prev, Ceiling(q)})}
  ELSE {Model!SaturatingClamp(v, Ceiling(q)) : v \in Model!AdditiveGbtCorrector(Largest)}

\* The layers of the arm, one on top of the other.
Composed(est0, q) ==
  LET recalled == Recalled(q, est0)
      clamped == Clamped(recalled, q)
      corrected == Corrected(clamped, recalled, q)
  IN CASE Name = "A0" -> {est0}
       [] Name = "A1" -> {recalled}
       [] Name = "A2" -> {clamped}
       [] Name = "A3" -> corrected
       [] Name = "A4" -> UNION {Added(v, q) : v \in corrected}

\* JSON has no infinity: serde_json writes null.
QError(est, actual) ==
  IF est = 0 \/ actual = 0 THEN Null ELSE [over |-> Max({est, actual}), under |-> Min({est, actual})]

----------------------------------------------------------------------------
(* run_one_ablation, and main around it                                    *)

\* The records of A2 that name a query of the suite, in their order.
SeededFrom(raw) ==
  LET kept == {i \in DOMAIN raw : raw[i].arm = "A2" /\ raw[i].query \in Query}
      nth(k) == CHOOSE i \in kept : Cardinality({j \in kept : j <= i}) = k
  IN [k \in 1 .. Cardinality(kept) |-> Observation(raw[nth(k)].query, raw[nth(k)])]

OpenStore ==
  /\ phase = "seed" /\ phase' = "warm" /\ round' = 0 /\ at' = 1
  /\ history' = IF cli.variant = "V3" THEN SeededFrom(cli.raw) ELSE <<>>
  /\ l4' = Absent /\ l5' = Absent /\ prior' = 0
  /\ UNCHANGED <<cli, arm, records>>

WarmUpQuery ==
  /\ phase = "warm"
  /\ history' = Append(history, Observation(Queries[at], Probe(BuildCtx(PassSeed(round)), Queries[at])))
  /\ IF at < Len(Queries) THEN at' = at + 1 /\ UNCHANGED <<round, phase>>
     ELSE /\ at' = 1 /\ round' = IF round + 1 < Passes THEN round + 1 ELSE 0
          /\ phase' = IF round + 1 < Passes THEN phase ELSE "train"
  /\ UNCHANGED <<cli, arm, l4, l5, prior, records>>

Train ==
  /\ phase = "train" /\ phase' = "measure"
  /\ l4' = (IF Corrects THEN Fitted(Len(history)) ELSE Absent)
  /\ l5' = (IF Name = "A4" THEN FittedAdditive(Len(history)) ELSE Absent)
  /\ prior' = Len(history)
  /\ UNCHANGED <<cli, arm, round, at, history, records>>

\* One cell: the estimate is composed before its own outcome is stored.
MeasureQuery ==
  /\ phase = "measure"
  /\ LET q == Queries[at]
         seed == ReplicateSeed(round)
         probe == Probe(BuildCtx(seed), q)
     IN /\ \E est \in Composed(probe.est, q) :
             records' = Append(records,
               [arm |-> Name, query |-> q, replicate |-> round, seed |-> seed, est |-> est,
                actual |-> probe.actual, error |-> QError(est, probe.actual)])
        /\ history' = Append(history, Observation(q, probe))
  /\ IF at < Len(Queries) THEN at' = at + 1 /\ UNCHANGED phase ELSE at' = 1 /\ phase' = "refit"
  /\ UNCHANGED <<cli, arm, round, l4, l5, prior>>

RefitDue == cli.variant = "V3" /\ cli.refit > 0 /\ (round + 1) % cli.refit = 0 /\ Corrects

AfterReplicate ==
  \/ round + 1 < Replicates /\ phase' = "measure" /\ round' = round + 1 /\ UNCHANGED arm
  \/ round + 1 = Replicates /\ arm < Len(cli.arms) /\ phase' = "seed" /\ round' = 0 /\ arm' = arm + 1
  \/ round + 1 = Replicates /\ arm = Len(cli.arms) /\ phase' = "write" /\ UNCHANGED <<round, arm>>

\* Mutant: the refit keeps the old priors for inference.
EndReplicateStale ==
  /\ phase = "refit" /\ AfterReplicate
  /\ IF RefitDue THEN /\ l4' = Fitted(Len(history)) /\ l5' = IF Name = "A4" THEN FittedAdditive(Len(history)) ELSE l5
     ELSE UNCHANGED <<l4, l5>>
  /\ UNCHANGED <<cli, at, history, records, prior>>

\* The end of a replicate, where V3 refits.
EndReplicate ==
  /\ phase = "refit" /\ AfterReplicate
  /\ IF RefitDue THEN /\ l4' = Fitted(Len(history)) /\ prior' = Len(history)
                      /\ l5' = IF Name = "A4" THEN FittedAdditive(Len(history)) ELSE l5
     ELSE UNCHANGED <<l4, l5, prior>>
  /\ UNCHANGED <<cli, at, history, records>>

\* All records at once, at the very end; the aggregation reads what was written.
WriteRecords == phase = "write" /\ phase' = "done" /\ UNCHANGED <<cli, arm, round, at, history, l4, l5, prior, records>>

RunStep == OpenStore \/ WarmUpQuery \/ Train \/ MeasureQuery \/ EndReplicate \/ WriteRecords

AblationInit ==
  \/ RunInit /\ script = NoScript
  \/ NoRun /\ ScriptInit

AblationNext ==
  \/ RunStep /\ UNCHANGED script
  \/ RunScript /\ UNCHANGED runVars

AblationSpec == AblationInit /\ [][AblationNext]_allVars

----------------------------------------------------------------------------
\* The aggregation pairs what two arms measured on one query, replicate and
\* seed.  When all arms are written, no pair is missing, so that each arm
\* ran on the tables of the others whatever it recalled, fitted and refitted
\* in between; and the two counts of a pair are of the same rows.
PairedCells ==
  phase = "done" /\ cli # Absent =>
    LET groups == GroupByKey(records)
    IN \A i, j \in DOMAIN cli.arms : i <= j =>
         LET a == cli.arms[i]
             b == cli.arms[j]
         IN /\ Cardinality(PairVector(groups, a, b)) = Replicates * Len(Queries)
            /\ \A k \in PairVector(groups, a, b) : groups[k][a].actual = groups[k][b].actual

\* The comments of train and refit: the priors a V2 or V3 corrector is asked
\* with are those of its own training, and while it is refitted it is less
\* than one refit behind what the arm has stored.
TrainedAsUsed ==
  phase = "measure" /\ Corrects /\ cli.variant # "V1" =>
    /\ \A q \in Query, est \in 0 .. Largest : Features(est, q, prior) = Features(est, q, l4.upto)
    /\ cli.variant = "V3" /\ cli.refit > 0 => Len(history) - l4.upto < cli.refit * Len(Queries)
=============================================================================
