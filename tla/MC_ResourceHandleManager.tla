---------------------- MODULE MC_ResourceHandleManager ----------------------
(* Small instances of ResourceHandleManager for TLC.                       *)
EXTENDS ResourceHandleManager, TLC

CONSTANTS h1, h2, d1, f1, u1, b1

HttpSymmetry == Permutations({h1, h2} \cap Jobs)
=============================================================================
