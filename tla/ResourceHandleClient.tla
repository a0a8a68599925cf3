------------------------ MODULE ResourceHandleClient ------------------------
(***************************************************************************)
(* What the loader behind a ResourceHandle may rely on                     *)
(* (WebCore/platform/network/ResourceHandleClient.h), seen from the        *)
(* loader: it is told nothing before it has started the load, is told one  *)
(* end, has had a response by the time it is told that the load finished,  *)
(* and is told nothing after that end or after it cancelled.  This is the  *)
(* abstract specification of one transfer back end.                        *)
(***************************************************************************)
CONSTANT Loads

VARIABLE load

Ends == {"finished", "failed", "cancelled"}

Init == load = [l \in Loads |-> "idle"]

Moves(l, from, to) ==
  /\ load[l] \in from
  /\ load' = [load EXCEPT ![l] = to]

Start(l) == Moves(l, {"idle"}, "waiting")

(* didReceiveResponse; didReceiveData may only follow it.                  *)
Response(l) == Moves(l, {"waiting", "responded"}, "responded")

Finish(l) == Moves(l, {"responded"}, "finished")

Fail(l) == Moves(l, {"waiting", "responded"}, "failed")

Cancel(l) == Moves(l, {"waiting", "responded"}, "cancelled")

Next == \E l \in Loads : Start(l) \/ Response(l) \/ Finish(l) \/ Fail(l) \/ Cancel(l)

Spec == Init /\ [][Next]_load
=============================================================================
