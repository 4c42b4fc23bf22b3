--------------------------- MODULE ObservationLog ---------------------------
(***************************************************************************)
(* What FeedbackStore (samkhya-core/src/feedback.rs) promises to who       *)
(* records outcomes and to who trains on them: a log.  An outcome is       *)
(* recorded in one step or not at all, is read as it was recorded and      *)
(* stays where it is; the id a caller gets is the place of its own.        *)
(***************************************************************************)
EXTENDS Naturals, Sequences

CONSTANTS
  Client,
  Outcome  \* what can be read of a recorded observation

VARIABLES
  log,      \* the outcomes, oldest first
  pending,  \* pending[c]: the place of c's outcome until c is told, or 0
  acked     \* [id, outcome] as the callers were told

vars == <<log, pending, acked>>

Init == log \in Seq(Outcome) /\ pending = [c \in Client |-> 0] /\ acked = {}

Record(c, outcome) ==
  /\ pending[c] = 0
  /\ log' = Append(log, outcome)
  /\ pending' = [pending EXCEPT ![c] = Len(log')]
  /\ UNCHANGED acked

Acknowledge(c) ==
  /\ pending[c] # 0
  /\ acked' = acked \cup {[id |-> pending[c], outcome |-> log[pending[c]]]}
  /\ pending' = [pending EXCEPT ![c] = 0]
  /\ UNCHANGED log

\* The caller dies before it is told; its outcome stays.
Die(c) ==
  /\ pending[c] # 0
  /\ pending' = [pending EXCEPT ![c] = 0]
  /\ UNCHANGED <<log, acked>>

Next == \E c \in Client : (\E outcome \in Outcome : Record(c, outcome)) \/ Acknowledge(c) \/ Die(c)

Spec == Init /\ [][Next]_vars
=============================================================================
