--------------------------- MODULE MC_LocalStorage ---------------------------
(* A small instance of LocalStorage for TLC: the items k1 and k2.          *)
EXTENDS LocalStorage, TLC

CONSTANTS k1, k2
=============================================================================
