-------------------------- MODULE MCFeedbackStore --------------------------
(***************************************************************************)
(* Two processes on one file that is new, written before the version stamp *)
(* or before the feature columns, left half migrated by a kill, or stamped *)
(* by a newer build.  64-bit words have four bits, 32-bit words two.       *)
(***************************************************************************)
EXTENDS FeedbackStore

CONSTANTS q1, q2

MCTemplate == {q1, q2}

Obs(t, featured, est, left) ==
  [template |-> t, featured |-> featured, est |-> est, left |-> left, predicates |-> IF featured THEN 3 ELSE 0]

\* Row counts at both ends of the word, a feature that is unknown, and an
\* observation without features.
Legacy == Obs(q1, FALSE, 8, Null)
MCObservation == {Obs(q1, TRUE, 15, Null), Obs(q2, TRUE, 1, 15), Legacy}

MCFeatureColumns == <<"left_input_rows", "predicate_count", "join_depth">>

File(t, v, cs, l) == [table |-> t, version |-> v, columns |-> cs, log |-> l]
MCStore ==
  {File(FALSE, 0, {}, <<>>), File(TRUE, 0, {}, <<Legacy>>), File(TRUE, 1, {}, <<Legacy>>),
   File(TRUE, 1, {"left_input_rows"}, <<Legacy>>), File(TRUE, 2, FeatureColumn, <<Legacy>>), File(FALSE, 2, {}, <<>>)}
=============================================================================
