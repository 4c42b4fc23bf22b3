---------------------------- MODULE UpperBound ----------------------------
(***************************************************************************)
(* What the trait UpperBound (samkhya-core/src/lpbound.rs) and JoinGraph   *)
(* (samkhya-core/src/degree.rs) promise a planner: a join is described, a  *)
(* ceiling is asked for, and the one answer is never below the rows the    *)
(* join emits.  An answer of MaxU64 promises nothing.                      *)
(***************************************************************************)
EXTENDS Naturals

CONSTANTS
  Relations,  \* the relations of the join
  MaxU64      \* u64::MAX

VARIABLES
  status,   \* describing the join, called, answered
  size,     \* rows the join emits, from the call on
  ceiling

vars == <<status, size, ceiling>>

Init == status = "describing" /\ size = 0 /\ ceiling = 0

Call ==
  /\ status = "describing" /\ status' = "called"
  /\ size' \in Nat
  /\ UNCHANGED ceiling

Answer ==
  /\ status = "called" /\ status' = "answered"
  /\ ceiling' \in Nat /\ (ceiling' = MaxU64 \/ size <= ceiling')
  /\ UNCHANGED size

\* Call and answer in one step: a bound in closed form, or a join of nothing,
\* of which nothing is said.
AnswerAtOnce ==
  /\ status = "describing" /\ status' = "answered"
  /\ size' \in Nat /\ ceiling' \in Nat
  /\ Relations # {} => (ceiling' = MaxU64 \/ size' <= ceiling')

Next == Call \/ Answer \/ AnswerAtOnce

Spec == Init /\ [][Next]_vars
=============================================================================
