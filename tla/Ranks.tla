------------------------------- MODULE Ranks --------------------------------
(***************************************************************************)
(* The n-th of a finite set of numbers: what an ordered container, or a    *)
(* walk that visits each member once, comes to as its n-th.                *)
(***************************************************************************)
EXTENDS Integers, FiniteSets

Nth(S, n) == CHOOSE k \in S : Cardinality({j \in S : j <= k}) = n

InOrder(S) == [n \in 1..Cardinality(S) |-> Nth(S, n)]
=============================================================================
