---------------------------- MODULE MC_LoaderHost ---------------------------
(* Small instances of LoaderHost for TLC: a script s1 and an image i1 of   *)
(* document d1, and an image j1 of d2.                                     *)
EXTENDS LoaderHost

CONSTANTS d1, d2, s1, i1, j1

MCDocOf == [r \in Requests |-> IF r = j1 THEN d2 ELSE d1]
MCPriorityOf == [r \in Requests |-> IF r \in {i1, j1} THEN Low ELSE Medium]
=============================================================================
