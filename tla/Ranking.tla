------------------------------ MODULE Ranking ------------------------------
(***************************************************************************)
(* Sequences of numbers by place: a sort that keeps the order of equal     *)
(* values, and the elements at some of the places.                         *)
(***************************************************************************)
EXTENDS Integers, FiniteSets

\* Where a stable sort puts the i-th element.
Place(s, i) == Cardinality({j \in DOMAIN s : s[j] < s[i] \/ (s[j] = s[i] /\ j <= i)})
Indexed(s) == [rank \in DOMAIN s |-> CHOOSE i \in DOMAIN s : Place(s, i) = rank]

Sorted(s) == [rank \in DOMAIN s |-> s[Indexed(s)[rank]]]

\* The k-th smallest of a set of indices, and the elements at them in order.
Nth(chosen, k) == CHOOSE i \in chosen : Cardinality({j \in chosen : j <= i}) = k
At(s, chosen) == [k \in 1 .. Cardinality(chosen) |-> s[Nth(chosen, k)]]
=============================================================================
