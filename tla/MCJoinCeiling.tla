--------------------------- MODULE MCJoinCeiling ---------------------------
(* Three relations in a triangle of three attributes, two key values, and  *)
(* tables of at most two rows: every chain, the cycle, a disconnected      *)
(* graph, a repeated edge, dropped edges, and the graph with no edge.      *)
EXTENDS Bindings

MCRelation == 0 .. 2
MCAttribute == {"a", "b", "c"}
MCSchema == (0 :> {"a", "c"}) @@ (1 :> {"a", "b"}) @@ (2 :> {"b", "c"})
MCValue == {1, 2}

E(l, r, a) == [left |-> l, right |-> r, attribute |-> a]

MCEdgeList ==
  { <<>>,
    <<E(1, 2, "b"), E(0, 1, "a")>>,
    <<E(0, 1, "a"), E(1, 2, "b"), E(2, 0, "c")>>,
    <<E(2, 0, "c"), E(0, 2, "c"), E(1, 1, "a"), E(0, 9, "a")>> }

\* Tables as bags of pairs, columns in a fixed order per relation: keys,
\* one key shared by every row, duplicate rows, matching and dangling rows.
Columns(r) == SetToSeq(MCSchema[r])
Bag(r, pairs) ==
  [i \in 1 .. Len(pairs) |-> (Columns(r)[1] :> pairs[i][1]) @@ (Columns(r)[2] :> pairs[i][2])]

MCInstance ==
  LET Both == <<1, 1>>  Other == <<2, 2>>
      Hubs  == {<<Both>>, <<Both, Both>>, <<Both, Other>>, <<Both, <<1, 2>>>>}
      Rest  == {<<>>, <<Both, Both>>, <<Other, <<1, 2>>>>}
  IN  {(0 :> Bag(0, t0)) @@ (1 :> Bag(1, t1)) @@ (2 :> Bag(2, t2)) :
         t0 \in Hubs \ {<<Both>>}, t1 \in Hubs \ {<<Both, <<1, 2>>>>}, t2 \in Rest}

MCNumber ==
  {[kind |-> "finite", halves |-> h] : h \in {-1, 3, 4, 40}} \cup {[kind |-> "nan", halves |-> 0]}

\* A chain whose middle joins on two keys, of which one has a single value.
MCChain == {<<E(1, 2, "b"), E(0, 1, "a")>>}
MCTwoKeys ==
  {(0 :> Bag(0, <<<<1, 1>>, <<1, 2>>>>)) @@ (1 :> Bag(1, <<<<1, 1>>, <<1, 2>>>>)) @@ (2 :> Bag(2, t)) :
     t \in {<<<<1, 1>>>>, <<<<1, 1>>, <<2, 2>>>>}}
============================================================================
