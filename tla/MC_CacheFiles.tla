--------------------------- MODULE MC_CacheFiles ----------------------------
(* Small instances of CacheFiles for TLC: a page p, p with a fragment, and *)
(* another page q.                                                         *)
EXTENDS CacheFiles, TLC

CONSTANTS p, px, q, l1, l2, s1

MCPage == [u \in Urls |-> IF u = px THEN p ELSE u]
LoadSymmetry == Permutations({l1, l2} \cap Loads)
=============================================================================
