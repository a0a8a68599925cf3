-------------------------- MODULE MC_XMLHttpRequest -------------------------
(* Small instances of XMLHttpRequest for TLC.                              *)
EXTENDS XMLHttpRequest, TLC

CONSTANTS l1, l2, l3

LoaderSymmetry == Permutations(Loaders)
=============================================================================
