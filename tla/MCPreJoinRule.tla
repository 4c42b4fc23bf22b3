--------------------------- MODULE MCPreJoinRule ---------------------------
(***************************************************************************)
(* Two planner threads.  deep joins (a filtered scan with a scan) with a   *)
(* scan that reports no byte size; wide joins an empty scan with one whose *)
(* size is unknown.  outer is a full outer join below another join.        *)
(***************************************************************************)
EXTENDS PreJoinRule

MCNode == {"a", "b", "c", "f", "low", "deep", "e", "u", "wide"}

MCInputs ==
  [n \in MCNode |->
     CASE n = "f" -> <<"a">>
       [] n = "low" -> <<"f", "b">>
       [] n = "deep" -> <<"low", "c">>
       [] n = "wide" -> <<"e", "u">>
       [] OTHER -> <<>>]

Joined(kind) ==
  [n \in MCNode |->
     CASE n = "f" -> "filter"
       [] n = "low" -> kind
       [] n \in {"deep", "wide"} -> "inner"
       [] OTHER -> "scan"]

MCKind == Joined("inner")
MCKindOuter == Joined("full")

\* The joins below a node, its inputs' first, and the longest way down.
JoinsBelow[n \in MCNode] ==
  FlattenSeq([k \in DOMAIN MCInputs[n] |-> JoinsBelow[MCInputs[n][k]]])
    \o (IF n \in {"low", "deep", "wide"} THEN <<n>> ELSE <<>>)
MCJoins == [p \in {"deep", "wide"} |-> JoinsBelow[p]]

HeightOf[n \in MCNode] == Max({0} \cup {1 + HeightOf[MCInputs[n][k]] : k \in DOMAIN MCInputs[n]})
MCHeight == HeightOf

\* The statistics of a, b and e are stale: the scans report too many or too
\* few rows.
MCScanRows == [n \in MCNode |-> CASE n = "a" -> 5 [] n = "c" -> 3 [] n = "b" -> 1 [] n = "e" -> 0 [] OTHER -> Absent]
MCBytes == [n \in MCNode |-> CASE n = "a" -> 5 [] n = "b" -> 5 [] n = "e" -> 4 [] OTHER -> Absent]
MCTrueRows ==
  [n \in MCNode |-> CASE n = "a" -> 3 [] n = "b" -> 2 [] n = "c" -> 3 [] n = "f" -> 3
                      [] n = "low" -> 6 [] n = "deep" -> 9 [] OTHER -> 2]
\* Nothing in f matches b's only row: the outer join keeps the rows of both.
MCTrueRowsOuter == [MCTrueRows EXCEPT !["b"] = 1, !["low"] = 4]

\* DataFusion's default filter selectivity, and equi-joins over two distinct
\* keys, whose product wraps around; a full join adds the unmatched rows of
\* either side.
Halved(n) == (n + 1) \div 2
Larger(a, b) == IF a > b THEN a ELSE b
MCEstimate(n, rows) ==
  IF rows = <<>> \/ \E k \in 1 .. Len(rows) : rows[k] = Absent THEN Absent
  ELSE IF Kind[n] = "filter" THEN Halved(rows[1])
  ELSE LET matched == Halved((rows[1] * rows[2]) % (MaxU64 + 1))
           kept(k) == Larger(rows[k], matched)
       IN  (IF Kind[n] = "full" THEN kept(1) + kept(2) - matched ELSE matched) % (MaxU64 + 1)

Choice(ceiling, below, derive) == [ceiling |-> ceiling, below |-> below, derive |-> derive]
MCOptions ==
  {Choice(15, FALSE, TRUE), Choice(15, TRUE, TRUE), Choice(4, TRUE, TRUE), Choice(4, FALSE, FALSE)}
MCOptionsDefault == {Choice(15, FALSE, TRUE)}
=============================================================================
