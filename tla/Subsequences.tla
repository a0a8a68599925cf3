---------------------------- MODULE Subsequences ----------------------------
(***************************************************************************)
(* What is left of a queue when a loop takes elements out of it.           *)
(***************************************************************************)
EXTENDS Integers, FiniteSets, Sequences

(* The elements of s at the places in I, in their order.                   *)
AtPlaces(s, I) ==
  [n \in 1..Cardinality(I) |-> s[CHOOSE i \in I : Cardinality({k \in I : k <= i}) = n]]
=============================================================================
