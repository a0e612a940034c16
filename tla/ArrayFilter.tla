----------------------------- MODULE ArrayFilter -----------------------------
(***************************************************************************)
(* Array.prototype.filter by positions: the array of the items of q at the *)
(* positions K, in their order.                                            *)
(***************************************************************************)
EXTENDS Integers, Sequences, FiniteSets

Rank(K, i) == Cardinality({j \in K : j <= i})
KeepOnly(q, K) == [k \in 1..Cardinality(K) |-> q[CHOOSE i \in K : Rank(K, i) = k]]
==============================================================================
