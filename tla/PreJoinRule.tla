---------------------------- MODULE PreJoinRule ----------------------------
(***************************************************************************)
(* SamkhyaPreJoinRule (samkhya-datafusion/src/pre_join.rs): the physical   *)
(* optimizer rule that replaces the row counts reported by the inputs of   *)
(* each join before DataFusion chooses build sides.                        *)
(*                                                                         *)
(* Planner threads share one rule and its atomic counters.  Each walks its *)
(* own plan bottom-up and, for both inputs of every join, asks the         *)
(* corrector, clamps the answer, floors it at the native estimate and      *)
(* wraps the input in a SamkhyaStatsExec, whose statistics the joins above *)
(* then see.  DataFusion's estimators are external constants, and so is    *)
(* what the plan's nodes really emit.                                      *)
(***************************************************************************)
EXTENDS Integers, SequencesExt

CONSTANTS
  Planner,      \* threads that plan queries
  Node,         \* plan nodes
  Kind,         \* Kind[n]: "scan", "filter", "inner", "full" (outer join) or "other"
  Inputs,       \* Inputs[n]: the children of n, a sequence
  Height,       \* Height[n]: how far n is above the leaves
  Joins,        \* Joins[p]: the joins of p's plan, in the order transform_up reaches them
  ScanRows,     \* ScanRows[n]: the rows a scan reports, or Absent
  Bytes,        \* Bytes[n]: the bytes n reports unwrapped, or Absent
  TrueRows,     \* TrueRows[n]: the rows n really emits
  Estimate(_, _),  \* DataFusion's estimate of a node from its inputs' rows
  Options,      \* PreJoinCorrectionOptions to try
  Proposals,    \* values correctors answer with
  SafeMaxRows,  \* SAFE_MAX_ROWS
  MaxU64,       \* u64::MAX
  MaxInstalls   \* bound: installations of the rule

Absent == -1      \* Precision::Absent
Unwrapped == [rows |-> Absent, bytes |-> Absent]

Min2(a, b) == IF a < b THEN a ELSE b
IsJoin(n) == Kind[n] \in {"inner", "full"}

RowCount == {Absent} \cup 0 .. MaxU64

\* The nodes of the plan below n, n itself among them.
Under(n) ==
  {m \in Node :
     \A S \in SUBSET Node :
       (n \in S /\ \A x \in S : \A k \in DOMAIN Inputs[x] : Inputs[x][k] \in S) => m \in S}

ASSUME PlanAssumption ==
  /\ IsFiniteSet(Planner) /\ IsFiniteSet(Node)
  /\ \A n \in Node : Inputs[n] \in Seq(Node)
  /\ Height \in [Node -> 0 .. Cardinality(Node)]
  /\ \A n \in Node : \A k \in DOMAIN Inputs[n] : Height[Inputs[n][k]] < Height[n]
  /\ \A n \in Node : IsJoin(n) => Len(Inputs[n]) = 2
  /\ \A n \in Node : Kind[n] = "filter" => Len(Inputs[n]) = 1
\* A plan is a tree, walked from its leaves: no input visited later is below
\* one visited before, or is that one, and the inputs of a join are apart.
ASSUME OrderAssumption ==
  \A p \in Planner :
    /\ Joins[p] \in Seq({n \in Node : IsJoin(n)})
    /\ \A i, j \in DOMAIN Joins[p], s, t \in {1, 2} :
         (i < j \/ (i = j /\ s # t)) => Inputs[Joins[p][j]][t] \notin Under(Inputs[Joins[p][i]][s])
ASSUME StatisticsAssumption ==
  /\ MaxU64 \in Nat /\ SafeMaxRows \in Nat /\ Proposals \subseteq 0 .. MaxU64
  /\ \A n \in Node : ScanRows[n] \in RowCount /\ Bytes[n] \in RowCount /\ TrueRows[n] \in Nat
\* An estimate is a row count, and no more is known of it: DataFusion does not
\* check its products for overflow, so larger inputs may make it smaller.
ASSUME EstimateAssumption ==
  \A n \in Node : \A rows \in [DOMAIN Inputs[n] -> RowCount] : Estimate(n, rows) \in RowCount
\* An inner join emits at most every pair of input rows, a filter at most
\* its input.
ASSUME TruthAssumption ==
  \A n \in Node :
    /\ Kind[n] = "inner" => TrueRows[n] <= TrueRows[Inputs[n][1]] * TrueRows[Inputs[n][2]]
    /\ Kind[n] = "filter" => TrueRows[n] <= TrueRows[Inputs[n][1]]
ASSUME OptionsAssumption ==
  \A o \in Options : o \in [ceiling : 0 .. MaxU64, below : BOOLEAN, derive : BOOLEAN]

VARIABLES
  options,    \* the rule's options
  chain,      \* names of the session's physical optimizer rules, in order
  installs,
  counter,    \* the rule's atomic counters
  plan,       \* plan[p][n]: statistics of the SamkhyaStatsExec around n
  job         \* job[p]: where planner p is in correct_input

vars == <<options, chain, installs, counter, plan, job>>

RuleName == "samkhya_pre_join_correction"
Counters == {"attempts", "applied", "abstained", "errors", "clamped", "floored"}

----------------------------------------------------------------------------
(* Statistics of a plan.                                                   *)

\* DataFusion's own statistics of n: a scan's, or the estimate from what the
\* inputs publish.
EngineRows(rows, n) ==
  IF Kind[n] = "scan" THEN ScanRows[n]
  ELSE Estimate(n, [k \in DOMAIN Inputs[n] |-> rows[Inputs[n][k]]])

\* statistics() of n: a wrapper's, or DataFusion's own.
RowsOf(w, rows, n) == IF w[n] # Unwrapped THEN w[n].rows ELSE EngineRows(rows, n)

PublishedRows(w) == LET rows[n \in Node] == RowsOf(w, rows, n) IN rows

PublishedBytes(w, n) == IF w[n] # Unwrapped THEN w[n].bytes ELSE Bytes[n]

Native == PublishedRows([n \in Node |-> Unwrapped])

\* Nothing is claimed of a node that is neither a join nor a filter, as a
\* wrapped one is, or that has an input of unknown rows.
Unclaimed(w, n) ==
  \/ w[n] # Unwrapped \/ ~ (IsJoin(n) \/ Kind[n] = "filter")
  \/ \E k \in DOMAIN Inputs[n] : PublishedRows(w)[Inputs[n][k]] = Absent

DerivedCeilingOfSums(w, n) ==
  LET in(k) == PublishedRows(w)[Inputs[n][k]]
  IN  IF Unclaimed(w, n) THEN MaxU64
      ELSE IF IsJoin(n) THEN Min2(MaxU64, in(1) + in(2))
      ELSE in(1)

\* derive_input_ceiling; MaxU64 is none.
DerivedCeiling(w, n) ==
  LET in(k) == PublishedRows(w)[Inputs[n][k]]
  IN  IF Unclaimed(w, n) THEN MaxU64
      ELSE IF IsJoin(n) THEN Min2(MaxU64, in(1) * in(2))
      ELSE in(1)

EffectiveCeilingBlind(w, n) == Min2(SafeMaxRows, options.ceiling)

EffectiveCeiling(w, n) ==
  Min2(SafeMaxRows,
       IF options.derive THEN Min2(options.ceiling, DerivedCeiling(w, n)) ELSE options.ceiling)

\* scale_byte_size
ScaleByteSize(bytes, native, rows) ==
  IF bytes = Absent \/ native = 0 THEN Absent
  ELSE Min2(MaxU64, (bytes * rows + native - 1) \div native)

----------------------------------------------------------------------------
(* Installing the rule.                                                    *)

Init ==
  /\ options \in Options
  /\ chain \in {<<"early", "join_selection", "late">>, <<"early", "late">>}
  /\ installs = 0
  /\ counter = [c \in Counters |-> 0]
  /\ plan = [p \in Planner |-> [n \in Node |-> Unwrapped]]
  /\ job = [p \in Planner |->
              [pc |-> "start", passes |-> 0, at |-> 1, side |-> 1,
               native |-> <<Absent, Absent>>, proposed |-> 0, rows |-> 0]]

\* Vec::retain: the rules that are not this one.
Retained(rules) ==
  LET kept[i \in 0 .. Len(rules)] ==
        IF i = 0 THEN <<>>
        ELSE IF rules[i] = RuleName THEN kept[i - 1]
        ELSE Append(kept[i - 1], rules[i])
  IN  kept[Len(rules)]

InsertBeforeJoinSelection(rules) ==
  InsertAt(rules, SelectInSeq(rules, LAMBDA r : r = "join_selection"), RuleName)

\* install_pre_join_corrector
Installed(rules) == InsertBeforeJoinSelection(Retained(rules))

\* A session without join_selection is refused.
Install ==
  /\ "join_selection" \in ToSet(Retained(chain))
  /\ installs < MaxInstalls
  /\ installs' = installs + 1
  /\ chain' = Installed(chain)
  /\ UNCHANGED <<options, counter, plan, job>>

----------------------------------------------------------------------------
(* A planner.                                                              *)

Input(p) == Inputs[Joins[p][job[p].at]][job[p].side]

\* The planner's session runs its rules in order: one pass over the plan for
\* every time the rule comes before join_selection.
Optimize(p) ==
  /\ job[p].pc = "start"
  /\ job' = [job EXCEPT ![p].pc = "visit",
                        ![p].passes = Cardinality({i \in DOMAIN chain : chain[i] = RuleName})]
  /\ UNCHANGED <<options, chain, installs, counter, plan>>

\* correct_join_inputs: the statistics of both inputs are read before either
\* is corrected.  A pass that has no join left ends.
Visit(p) ==
  /\ job[p].pc = "visit"
  /\ IF job[p].passes = 0
       THEN job' = [job EXCEPT ![p].pc = "planned"]
     ELSE IF job[p].at > Len(Joins[p])
       THEN job' = [job EXCEPT ![p].passes = @ - 1, ![p].at = 1]
     ELSE LET rows == PublishedRows(plan[p])
              pair == Inputs[Joins[p][job[p].at]]
          IN  job' = [job EXCEPT ![p].pc = "input", ![p].side = 1,
                                 ![p].native = <<rows[pair[1]], rows[pair[2]]>>]
  /\ UNCHANGED <<options, chain, installs, counter, plan>>

\* The planner goes on to the other input, or to the next join.
Onward(p) ==
  IF job[p].side = 1 THEN [job[p] EXCEPT !.pc = "input", !.side = 2, !.proposed = 0, !.rows = 0]
  ELSE [job[p] EXCEPT !.pc = "visit", !.at = @ + 1, !.side = 1, !.proposed = 0, !.rows = 0,
                      !.native = <<Absent, Absent>>]

Bump(c) == counter' = [counter EXCEPT ![c] = @ + 1]

NativeRows(p) == job[p].native[job[p].side]

\* An input without a native estimate is left alone and not counted.
Attempt(p) ==
  /\ job[p].pc = "input"
  /\ IF NativeRows(p) = Absent
     THEN job' = [job EXCEPT ![p] = Onward(p)] /\ UNCHANGED counter
     ELSE job' = [job EXCEPT ![p].pc = "ask"] /\ Bump("attempts")
  /\ UNCHANGED <<options, chain, installs, plan>>

\* Corrector::correct: Ok(None), Err, or a proposal.
Abstain(p) ==
  /\ job[p].pc = "ask"
  /\ Bump("abstained")
  /\ job' = [job EXCEPT ![p] = Onward(p)]
  /\ UNCHANGED <<options, chain, installs, plan>>

Fail(p) ==
  /\ job[p].pc = "ask"
  /\ Bump("errors")
  /\ job' = [job EXCEPT ![p] = Onward(p)]
  /\ UNCHANGED <<options, chain, installs, plan>>

Propose(p, rows) ==
  /\ job[p].pc = "ask"
  /\ job' = [job EXCEPT ![p].pc = "clamp", ![p].proposed = rows]
  /\ UNCHANGED <<options, chain, installs, counter, plan>>

Clamp(p) ==
  /\ job[p].pc = "clamp"
  /\ LET clamped == Min2(job[p].proposed, EffectiveCeiling(plan[p], Input(p)))
     IN  /\ job' = [job EXCEPT ![p].pc = "floor", ![p].rows = clamped]
         /\ IF clamped # job[p].proposed THEN Bump("clamped") ELSE UNCHANGED counter
  /\ UNCHANGED <<options, chain, installs, plan>>

NoFloor(native, rows) == rows

\* The native estimate is the floor, and wins over the ceiling.
Floored(native, rows) == IF ~options.below /\ rows < native THEN native ELSE rows

Floor(p) ==
  /\ job[p].pc = "floor"
  /\ LET rows == Floored(NativeRows(p), job[p].rows)
     IN  /\ job' = [job EXCEPT ![p].pc = "apply", ![p].rows = rows]
         /\ IF rows # job[p].rows THEN Bump("floored") ELSE UNCHANGED counter
  /\ UNCHANGED <<options, chain, installs, plan>>

\* The statistics of the SamkhyaStatsExec around the input.
Corrected(p) ==
  [rows |-> job[p].rows,
   bytes |-> ScaleByteSize(PublishedBytes(plan[p], Input(p)), NativeRows(p), job[p].rows)]

ApplyCountedEarly(p) ==
  /\ job[p].pc = "apply"
  /\ plan' = IF job[p].rows = NativeRows(p) THEN plan ELSE [plan EXCEPT ![p][Input(p)] = Corrected(p)]
  /\ Bump("applied")
  /\ job' = [job EXCEPT ![p] = Onward(p)]
  /\ UNCHANGED <<options, chain, installs>>

\* An input whose row count stays the same is not wrapped.
Apply(p) ==
  /\ job[p].pc = "apply"
  /\ IF job[p].rows = NativeRows(p) THEN UNCHANGED <<plan, counter>>
     ELSE plan' = [plan EXCEPT ![p][Input(p)] = Corrected(p)] /\ Bump("applied")
  /\ job' = [job EXCEPT ![p] = Onward(p)]
  /\ UNCHANGED <<options, chain, installs>>

----------------------------------------------------------------------------
Step(p) ==
  \/ Optimize(p) \/ Visit(p) \/ Attempt(p)
  \/ Abstain(p) \/ Fail(p) \/ (\E v \in Proposals : Propose(p, v))
  \/ Clamp(p) \/ Floor(p) \/ Apply(p)

Next ==
  \/ Install
  \/ \E p \in Planner : Step(p)

Spec == Init /\ [][Next]_vars

----------------------------------------------------------------------------
(* Properties.                                                             *)

\* Inside correct_input the answer is clamped and floored but not applied.
InFlight == {p \in Planner : job[p].pc \in {"ask", "clamp", "floor", "apply"}}

Wrapped(p) == {n \in Node : plan[p][n] # Unwrapped}
Wrappers == {at \in Planner \X Node : at[2] \in Wrapped(at[1])}

\* The inputs of p's joins.
Targets(p) == {Inputs[Joins[p][i]][s] : i \in DOMAIN Joins[p], s \in {1, 2}}
JoinInputs == {at \in Planner \X Node : at[2] \in Targets(at[1])}

\* The counters the planners share tell what happened to the plans: however
\* often the rule was installed no join input is attempted twice, applied
\* counts exactly the wrappers in the plans, every attempt ends in at most
\* one outcome, and only answered attempts are clamped or floored.
CountersAddUp ==
  LET answered == counter.attempts - counter.abstained - counter.errors
  IN  /\ counter.attempts <= Cardinality(JoinInputs)
      /\ counter.applied = Cardinality(Wrappers)
      /\ counter.applied + Cardinality(InFlight) <= answered
      /\ counter.clamped <= answered
      /\ counter.floored <= answered

\* The children of n publish no fewer rows than they emit.
ChildrenHonest(w, n) ==
  \A k \in DOMAIN Inputs[n] :
    PublishedRows(w)[Inputs[n][k]] = Absent \/ PublishedRows(w)[Inputs[n][k]] >= TrueRows[Inputs[n][k]]

\* Where n's children are honest, a proposal that reaches the row count n
\* really emits is published at least that high: only the operator's ceiling
\* and the sanity cap may cut below the truth.
TruthSurvivesIn(kinds) ==
  \A p \in Planner :
    (job[p].pc = "apply" /\ Kind[Input(p)] \in kinds /\ ChildrenHonest(plan[p], Input(p))) =>
      job[p].rows >= Min2(Min2(job[p].proposed, TrueRows[Input(p)]), Min2(options.ceiling, SafeMaxRows))

\* The derived ceiling never removes a correct correction of an inner join, a
\* filter, a scan or any other operator.
TruthSurvives == TruthSurvivesIn({"inner", "filter", "scan", "other"})

\* The same of every join, as the comment on derive_input_ceiling has it: a
\* join emits at most the product of its children's row counts.
EveryJoinWithinProduct == TruthSurvivesIn({"inner", "full"})

\* Unless the operator opts into smaller estimates, no wrapper publishes fewer
\* rows or bytes than DataFusion itself says of that node, over whatever the
\* plan below it publishes by then (pre_join.rs 59-65); bytes may only become
\* unknown.  The estimate is read before the other input is corrected and used
\* after joins further up have been, so it must not go stale.
NeverLowered ==
  ~options.below =>
    \A p \in Planner : \A n \in Wrapped(p) :
      /\ plan[p][n].rows >= EngineRows(PublishedRows(plan[p]), n)
      /\ plan[p][n].bytes # Absent => plan[p][n].bytes >= Bytes[n]

\* DataFusion's estimate of n has fallen below its native one although no
\* input publishes fewer rows: a product of raised row counts overflowed.
Overflowed(p, n) ==
  LET rows == PublishedRows(plan[p])
  IN  /\ EngineRows(rows, n) < Native[n]
      /\ \A k \in DOMAIN Inputs[n] : rows[Inputs[n][k]] >= Native[Inputs[n][k]]

\* So nothing in a plan is published below what DataFusion alone would have
\* said of it, except where its own arithmetic overflowed further down, which
\* SAFE_MAX_ROWS makes rare and does not exclude (pre_join.rs 35-42).
MemoryMonotone ==
  ~options.below =>
    \A p \in Planner, n \in Node :
      PublishedRows(plan[p])[n] >= Native[n] \/ \E m \in Under(n) : Overflowed(p, m)

\* An answer that changes an estimate is published within every ceiling: the
\* operator's, the sanity cap and, where it is asked for, the one the inputs'
\* statistics -- themselves corrected before, bottom-up -- allow.
BoundedByInputs ==
  \A p \in Planner : \A n \in Wrapped(p) :
    /\ plan[p][n].rows <= Min2(options.ceiling, SafeMaxRows)
    /\ options.derive => plan[p][n].rows <= DerivedCeiling([plan[p] EXCEPT ![n] = Unwrapped], n)

\* What a correction may publish is bounded on both sides: by DataFusion's
\* own statistics from below, unless smaller estimates are asked for, and by
\* the inputs, the operator's ceiling and the sanity cap from above.
WithinEnvelope == NeverLowered /\ MemoryMonotone /\ BoundedByInputs

=============================================================================
