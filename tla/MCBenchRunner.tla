-------------------------- MODULE MCBenchRunner --------------------------
(***************************************************************************)
(* A suite of four queries: one that is estimated too low, one without     *)
(* SQL, one that the engine has no estimate for, and one held out of every *)
(* recorded run but named by a row of an older build.  The commands are a  *)
(* held-out campaign and runs with each kind of corrector.                 *)
(***************************************************************************)
EXTENDS BenchRunner

CONSTANTS q1, q2, q3, q4

MCSuite == <<q1, q2, q3, q4>>

\* q1 is a union of a symmetric join and of a join of two joins, q3 a scan
\* without statistics, q2 and q4 a filtered scan.
MCOperator == <<"UnionExec", "SymmetricHashJoinExec", "HashJoinExec", "CrossJoinExec", "SortMergeJoinExec",
                "DataSourceExec", "FilterExec", "MemoryExec">>
MCChildren == <<<<2, 3>>, <<6, 7>>, <<4, 5>>, <<6, 6>>, <<7, 8>>, <<>>, <<6>>, <<>>>>
MCHeight == <<4, 2, 3, 1, 2, 0, 1, 0>>
Rows(r) == [rows |-> r, distinct |-> <<>>]
MCReports == <<Rows(1), Rows(2), Rows(3), [rows |-> 4, distinct |-> <<2, None, 1>>], Rows(None), Rows(2), Rows(1), Rows(None)>>
MCEmits == <<3, 0, 4, 2, 3, 2, 1, 1>>
\* Without the statistics of samkhya q1 is planned as a hash join, and its
\* estimate is another.
MCRoot ==
  [b \in BOOLEAN |-> [q \in {q1, q2, q3, q4} |->
     CASE q = q1 -> (IF b THEN 3 ELSE 1) [] q = q3 -> 8 [] OTHER -> 7]]

\* q1 returns the value of COUNT(*), q3 a sum that is null, the others rows.
Batch(r, s) == [rows |-> r, scalar |-> s]
MCResult == [q \in {q1, q2, q3, q4} |->
              CASE q = q1 -> <<Batch(1, 3)>> [] q = q3 -> <<Batch(1, None)>> [] OTHER -> <<Batch(0, None), Batch(1, None)>>]
MCPrediction == {-1, 3, 9}
MCLegacy == <<[query |-> q4, est |-> 1, actual |-> 2, features |-> None]>>

Run == [Default("run", TRUE) EXCEPT !.exclude = {q4}, !.ceiling = 2, !.json = TRUE]

Collect == [Run EXCEPT !.trials = 2, !.feedback = TRUE, !.timeout = 9]
Ask1 == [Run EXCEPT !.corrector = "http", !.feedback = TRUE, !.timeout = 9, !.only = {q1}]
Additive == [Run EXCEPT !.corrector = "additive", !.feedback = TRUE, !.json = FALSE, !.only = {q1}]
Faulty == [Run EXCEPT !.corrector = "faulty", !.trials = 0, !.only = {q1}]
Stub == [Run EXCEPT !.corrector = "stub", !.only = {q2}]
Native == [Run EXCEPT !.corrector = "faulty", !.baseline = TRUE, !.feedback = TRUE, !.only = {q1}]
Evaluate == [Run EXCEPT !.corrector = "gbt", !.only = {q3, q4}, !.exclude = {}, !.ceiling = 4]
Absent == [Run EXCEPT !.data = FALSE]
Fitting == CHOOSE c \in TrainArgs : TRUE
Calibrate == CHOOSE c \in CalibrateArgs : c.data /\ ~ c.feedback
Compare == CHOOSE c \in CompareArgs : c.data

MCCampaign ==
  {<<Collect, Fitting, Evaluate>>, <<Collect, Ask1>>, <<Ask1, Fitting, Evaluate>>, <<Additive, Fitting, Collect>>,
   <<Faulty, Stub>>, <<Evaluate, Fitting>>, <<Absent, Fitting>>, <<Calibrate>>, <<Compare>>, <<Native, Fitting, Evaluate>>, <<[Calibrate EXCEPT !.feedback = TRUE], Fitting>>}
=============================================================================
