--------------------------- MODULE MC_MemoryCache ---------------------------
(* Small instances of MemoryCache for TLC: objects r1, r2 and r3 for the   *)
(* URL u, and elements h1 and h2.                                          *)
EXTENDS MemoryCache, TLC

CONSTANTS r1, r2, r3, u, h1, h2

MCSymmetry == Permutations(Resources) \cup Permutations(Holders)
=============================================================================
