---------------------------- MODULE StorageService ---------------------------
(***************************************************************************)
(* What a local storage area promises to the pages of an origin about what *)
(* is kept: each item follows the changes the pages were told of, in their *)
(* order.  It may lag behind and pass over some, and when the browser ends *)
(* without warning the changes it had not come to are lost; but it never   *)
(* goes back, and never has a value that no page has stored.               *)
(***************************************************************************)
EXTENDS Integers, Sequences

CONSTANTS Keys, Values

VARIABLES
  saved,     \* the value of each item on disk
  changes    \* of each item: the changes that are not on disk yet

Init ==
  /\ saved \in [Keys -> Values]
  /\ changes = [k \in Keys |-> <<>>]

(* A page changes items: one, or all of them.                              *)
Change ==
  /\ UNCHANGED saved
  /\ \A k \in Keys :
       \/ changes'[k] = changes[k]
       \/ \E v \in Values : changes'[k] = Append(changes[k], v)

Save ==
  \A k \in Keys :
    \/ saved'[k] = saved[k] /\ changes'[k] = changes[k]
    \/ \E i \in DOMAIN changes[k] :
         /\ saved'[k] = changes[k][i]
         /\ changes'[k] = SubSeq(changes[k], i + 1, Len(changes[k]))

Restart ==
  /\ UNCHANGED saved
  /\ changes' = [k \in Keys |-> <<>>]

Next == Change \/ Save \/ Restart

Spec == Init /\ [][Next]_<<saved, changes>>
=============================================================================
