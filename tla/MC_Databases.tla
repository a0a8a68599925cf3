---------------------------- MODULE MC_Databases ----------------------------
(* Small instances of Databases for TLC.                                   *)
EXTENDS Databases

CONSTANTS d1, x1, x2

OnSuccess == [cb |-> TRUE, ecb |-> FALSE]
OnError == [cb |-> FALSE, ecb |-> TRUE]
Kinds == {OnSuccess, OnError}

(* A changeVersion does what a transaction does, or fails before or after. *)
Asked == {[listens |-> {}, wrapper |-> FALSE],
          [listens |-> {"error", "success"}, wrapper |-> TRUE]}
=============================================================================
