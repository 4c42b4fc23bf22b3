----------------------------- MODULE MCCountMin -----------------------------
(***************************************************************************)
(* Three keys over a 2 x 2 sketch, where two collide in one row and another *)
(* two in the other, over a 1 x 2 sketch and over a rejected 0 x 2 one;    *)
(* counters saturate at 3, before the longest stream ends.  Two of the     *)
(* keys are the values of the collection's two fields.                     *)
(***************************************************************************)
EXTENDS FilterBounds, TLC

CONSTANTS b1, b2

MCItem == {"x", "y", "z"}
MCDims == {[depth |-> 2, width |-> 2], [depth |-> 1, width |-> 2], [depth |-> 0, width |-> 2]}
MCHash == [i \in MCItem |-> CASE i = "x" -> (0 :> 0) @@ (1 :> 5)
                            [] i = "y" -> (0 :> 4) @@ (1 :> 2)
                            [] i = "z" -> (0 :> 7) @@ (1 :> 6)]
MCMalformed ==
  { [depth |-> 0, width |-> 2, counters |-> <<>>, total |-> 1],
    [depth |-> 2, width |-> 2, counters |-> [c \in 0 .. 1 |-> 1], total |-> 2] }

Holding(x, y) == (b1 :> x) @@ (b2 :> y)
MCPayload ==
  {Holding("x", "y"), Holding("x", "x"), Holding("y", "z"), Holding("z", Absent), Holding(Absent, "z")}

MCFraction == {<<1, 2>>}

MCFilter ==
  {FilterOf(<<>>, <<>>, <<>>), FilterOf(<<Match(b1, "x")>>, <<>>, <<>>),
   FilterOf(<<AnyOf(b1, <<"x", "z">>), Match(b2, "y")>>, <<>>, <<>>),
   FilterOf(<<Unbounded>>, <<Match(b1, "y"), AnyOf(b2, <<"z", "z">>)>>, <<>>),
   FilterOf(<<>>, <<Match(b2, "x"), Unbounded>>, <<Match(b1, "x")>>),
   FilterOf(<<Match(b2, "z")>>, <<Match(b1, "x"), Match(b1, "y"), Match(b2, "z")>>, <<AnyOf(b1, <<>>)>>)}
=============================================================================
