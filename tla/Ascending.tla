------------------------------ MODULE Ascending ------------------------------
(***************************************************************************)
(* The elements of a finite set of naturals in ascending order, each one   *)
(* found by its rank: what SelectSeq and SetToSortSeq are for, in a form   *)
(* that says which element comes where without a recursion.                *)
(***************************************************************************)
EXTENDS Integers, FiniteSets

UpTo(S, i) == {j \in S : j <= i}
Nth(S, n) == CHOOSE i \in S : Cardinality(UpTo(S, i)) = n
Ascending(S) == [n \in 1..Cardinality(S) |-> Nth(S, n)]
=============================================================================
