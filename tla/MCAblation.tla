----------------------------- MODULE MCAblation -----------------------------
(***************************************************************************)
(* Two queries, a join with a ceiling and one without, under three         *)
(* replicates and two warm-up passes.  Estimates collapse, are too large   *)
(* or too small; outcomes are empty, or not, from seed to seed.            *)
(***************************************************************************)
EXTENDS Ablation

CONSTANTS join, scan, other

MCQueries == <<join, scan>>
MCChain == [q \in {join, scan} |-> IF q = join THEN 2 ELSE 0]

Outcome(est, actual) == [est |-> est, actual |-> actual]

MCDataset ==
  {[s \in Seed |-> [q \in {join, scan} |-> IF q = join THEN Outcome(0, 1) ELSE Outcome(1, IF s > 0 THEN 0 ELSE 3)]],
   [s \in Seed |-> [q \in {join, scan} |-> IF q = join THEN Outcome(3, IF s < 0 THEN 2 ELSE 0) ELSE Outcome(0, 0)]],
   [s \in Seed |-> [q \in {join, scan} |-> IF s = 1 THEN Outcome(2, 2) ELSE Outcome(0, 0)]]}

Old(a, q, est, actual) == [arm |-> a, query |-> q, est |-> est, actual |-> actual]

MCRawFile ==
  {<<>>, <<Old("A2", join, 2, 1), Old("A3", join, 3, 3), Old("A2", other, 1, 1), Old("A2", scan, 3, 0)>>}

MCPrediction == {-1, 0, 5}
MCValue == {0, 1, 3}
=============================================================================
