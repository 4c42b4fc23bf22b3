-------------------------- MODULE MCTableProvider --------------------------
(***************************************************************************)
(* A table of two columns and a snapshot with a sketch of fields 1 and 2   *)
(* and only a histogram of field 3; and corpora of two tables, each of     *)
(* which holds one of two contents.                                        *)
(***************************************************************************)
EXTENDS Corpus, TLC

MCField == 0 .. 4
MCPortable == <<2, 5, Nothing>>
MCOverrides ==
  {[rows |-> 1, distinct |-> Nothing], [rows |-> 6, distinct |-> 1],
   [rows |-> Nothing, distinct |-> 4], NoOverride}
MCCounts == {1, 3}

\* No later step looks at a scan.
Bounded == ~scan.made

MCProjections == {<<0, 1>>, <<1, 0>>, <<1>>}

MCDeclared == (0 :> 3) @@ (1 :> 3)
MCTables == <<"t", "u">>
MCVersion == {[rows |-> 3, distinct |-> (0 :> 3) @@ (1 :> 2)], [rows |-> 1, distinct |-> (0 :> 1) @@ (1 :> 1)]}
MCLegacy == {[t \in Table |-> None], [t \in Table |-> IF t = "t" THEN [rows |-> 1, distinct |-> (0 :> 1) @@ (1 :> 1)] ELSE None]}
============================================================================
