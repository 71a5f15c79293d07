---------------------------------- MODULE Order ---------------------------------
(***************************************************************************)
(* Numbers in ascending order, and what is left of a list when only some of *)
(* its places are kept.                                                     *)
(***************************************************************************)
EXTENDS Naturals, FiniteSets, Sequences

Below(S, x) == {y \in S : y < x}

\* The n-th number of S.
Nth(S, n) == CHOOSE x \in S : Cardinality(Below(S, x)) = n - 1

\* The entries of s at the places K, in order.
Kept(s, K) == [n \in 1..Cardinality(K) |-> s[Nth(K, n)]]
================================================================================
