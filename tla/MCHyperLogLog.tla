--------------------------- MODULE MCHyperLogLog ---------------------------
(***************************************************************************)
(* Four keys under a five-bit hash: two share a slot under precision 2 and *)
(* rank differently there, one has a rest of zeros; precision 1 puts them  *)
(* on two slots; precision 5 is refused.  The keys are also the cells of   *)
(* two partitions, whose batches bring duplicates, nulls, a column of one  *)
(* value and one without any, in and out of order.                         *)
(***************************************************************************)
EXTENDS ColumnSketches

MCItem == {0, 1, 3, NullKey}
MCHash == (0 :> 9) @@ (1 :> 13) @@ (3 :> 24) @@ (NullKey :> 3)
MCMalformed ==
  { [precision |-> 5, registers |-> [j \in 0 .. 31 |-> 0]],
    [precision |-> 2, registers |-> [j \in 0 .. 1 |-> 1]] }

MCDoubleHash == (0 :> <<30, 7>>) @@ (1 :> <<3, 29>>) @@ (3 :> <<17, 12>>) @@ (NullKey :> <<0, 31>>)
MCBloomSize == {[bits |-> 5, hashes |-> 3], [bits |-> 7, hashes |-> 1]}
MCGridSize == {<<2, 3>>}
MCBatch ==
  {<<>>, <<<<Null, 1>>, <<3, Null>>>>, <<<<3, 0>>, <<0, 3>>, <<1, 1>>>>, <<<<1, 3>>, <<1, 0>>>>,
   <<<<0, 1>>, <<3, 3>>, <<3, 0>>, <<Null, 0>>>>, <<<<1, 1>>, <<0, 0>>, <<1, 0>>, <<3, 3>>, <<1, 1>>>>}
Builders == Permutations(Builder)
=============================================================================
