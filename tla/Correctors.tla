---------------------------- MODULE Correctors ----------------------------
(***************************************************************************)
(* The residual correctors of samkhya-core/src/residual.rs: which outcomes *)
(* a model may be trained on, what correct() may answer, and the call to   *)
(* an inference server, phase by phase.                                    *)
(*                                                                         *)
(* A tree model's prediction is floating point and taken to be any number  *)
(* of Prediction; so is what a server answers.  The server and the network *)
(* are external: each phase of a call succeeds, fails, or takes longer     *)
(* than the client waits for it.                                           *)
(***************************************************************************)
EXTENDS Integers, Sequences

CONSTANTS
  MaxU64,      \* largest row count
  Prediction,  \* numbers a model may predict or a server answer
  NaN,         \* the f64 that is no number
  None,        \* Ok(None): the corrector abstains
  Err,         \* correct() fails
  MaxParts     \* bound: pieces of an answer are counted modulo MaxParts + 1

ASSUME WordAssumption == MaxU64 \in Nat
ASSUME PredictionAssumption == Prediction \subseteq Int /\ {NaN, None, Err} \cap Int = {} /\ None # Err
ASSUME PartsAssumption == MaxParts \in Nat

U64 == 0 .. MaxU64

VARIABLE call  \* the call to the server: its phase, the pieces read, the answer

AtLeastZero(x) == IF x = NaN \/ x < 0 THEN 0 ELSE x
Least(x, y) == IF x < y THEN x ELSE y

\* saturating_clamp
SaturatingClamp(x, ceiling) == Least(Least(AtLeastZero(x), MaxU64), ceiling)

\* CorrectionFeatures: what is known of the outermost join's sides.
NoSide == [rows |-> None, distinct |-> None]
BaselineOnly(est) == [baseline |-> est, left |-> NoSide, right |-> NoSide, predicates |-> 0, depth |-> 0]

\* to_vec: what is unknown is a zero.
OrZero(x) == IF x = None THEN 0 ELSE x
ToVec(f) ==
  <<f.baseline, OrZero(f.left.rows), OrZero(f.right.rows), OrZero(f.left.distinct), OrZero(f.right.distinct),
    f.predicates, f.depth>>

\* The outcomes GbtCorrector learns from: it fits the logarithm of a ratio.
Usable(obs) == obs.est # 0 /\ obs.actual # 0

\* baseline_estimate * exp(log_ratio); the ratio may vanish or overflow.
Scaled(est) == IF est = 0 THEN {0, NaN} ELSE {x \in Prediction : x >= 0}

\* GbtCorrector::train, which has nothing but the estimates, and
\* train_on_plans.  The rows a model is fitted to; without any there is none.
TrainGbt(observations) ==
  {[query |-> o.query, vector |-> ToVec(BaselineOnly(o.est))] : o \in {o \in observations : Usable(o)}}
TrainOnPlans(observations) ==
  {[query |-> o.query, vector |-> ToVec(o.features)] :
     o \in {o \in observations : o.features.baseline # 0 /\ o.actual # 0}}

\* AdditiveGbtCorrector::train keeps the zeros, which it is there to correct:
\* it fits the rows themselves.
TrainAdditive(observations) ==
  {[query |-> o.query, vector |-> ToVec(BaselineOnly(o.est)), target |-> o.actual] : o \in observations}

\* What correct() may answer.
IdentityCorrector(est) == {est}
TabPfnStub == {None}
GbtCorrector(est, ceiling) == {SaturatingClamp(x, ceiling) : x \in Scaled(est)}
AdditiveGbtCorrector(ceiling) == {SaturatingClamp(AtLeastZero(x), ceiling) : x \in Prediction \cup {NaN}}

\* The implementations of the trait.  A "faulty" one is a caller's own, which
\* may fail.
Corrections(kind, est, ceiling) ==
  CASE kind = "identity" -> IdentityCorrector(est)
    [] kind = "stub" -> TabPfnStub
    [] kind = "gbt" -> GbtCorrector(est, ceiling)
    [] kind = "additive" -> AdditiveGbtCorrector(ceiling)
    [] kind = "faulty" -> {None, Err}

----------------------------------------------------------------------------
(* TabPfnHttpCorrector and LlmHttpCorrector.                               *)

Phases == {"idle", "connect", "send", "head", "body", "answered"}
NoCall == [phase |-> "idle", parts |-> 0, answer |-> None]
Calls == [phase : Phases, parts : 0 .. MaxParts, answer : U64 \cup {None, Err}]

Ask == call.phase = "idle" /\ call' = [NoCall EXCEPT !.phase = "connect"]

After(phase) == IF phase = "connect" THEN "send" ELSE "head"

\* The connection is made; the request is written.
Advance == call.phase \in {"connect", "send"} /\ call' = [call EXCEPT !.phase = After(@)]

\* The status line and the headers are in; a piece of the body is, and then
\* another: nothing limits how many.
HeadersIn == call.phase = "head" /\ call' = [call EXCEPT !.phase = "body"]
Part == call.phase = "body" /\ call' = [call EXCEPT !.parts = IF @ = MaxParts THEN 0 ELSE @ + 1]

\* The body is an estimate, an integer.
Parsed(ceiling) ==
  /\ call.phase = "body"
  /\ \E x \in Prediction \cap U64 : call' = [call EXCEPT !.phase = "answered", !.answer = SaturatingClamp(x, ceiling)]

\* Mutant: a failed call is an error.
GiveUpWithError ==
  call.phase \notin {"idle", "answered"} /\ call' = [call EXCEPT !.phase = "answered", !.answer = Err]

\* Mutant: only the connection has a time limit.
GiveUpConnecting ==
  call.phase = "connect" /\ call' = [call EXCEPT !.phase = "answered", !.answer = None]

\* try_infer is None after a refused connection, a status that is no
\* success, a body that does not parse, and whenever the client has waited
\* for one phase, or for one piece of the body, as long as its timeout.
GiveUp == call.phase \notin {"idle", "answered"} /\ call' = [call EXCEPT !.phase = "answered", !.answer = None]

ServerStep(ceiling) == Advance \/ HeadersIn \/ Part \/ Parsed(ceiling)
=============================================================================
