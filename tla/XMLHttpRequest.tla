---------------------------- MODULE XMLHttpRequest ---------------------------
(***************************************************************************)
(* An XMLHttpRequest object: XMLHttpRequest.cpp of WebCore/xml, with the   *)
(* order in which SubresourceLoader.cpp calls it.                          *)
(*                                                                         *)
(* Every event the object dispatches runs scripts, which may call open,    *)
(* send and abort of the same object while the method that dispatches is   *)
(* not done.  `stack' holds what is in progress, the innermost first:      *)
(* events being dispatched, and the places where methods go on when the    *)
(* event above them has returned.                                          *)
(*                                                                         *)
(* Requests are asynchronous.  URL and headers are reduced to a target: of *)
(* the same origin, cross-site and simple, or cross-site and in need of a  *)
(* preflight.  The text of the response and uploads are left out.          *)
(***************************************************************************)
EXTENDS Integers, FiniteSetsExt, SequencesExt

CONSTANTS
  Loaders,    \* SubresourceLoaders, each created at most once
  None,
  MaxDepth    \* bound: nested events

ASSUME RequestAssumption ==
  /\ IsFiniteSet(Loaders) /\ None \notin Loaders
  /\ MaxDepth \in Nat \ {0}

VARIABLES
  xhr,
  net,      \* loaders that were created, are at work, got their response
  doc,      \* m_doc: in a frame, without one, or 0
  stack,
  asked,    \* history: what has become of the last send()
  lost      \* history: loaders at work that the object forgot

vars == <<xhr, net, doc, stack, asked, lost>>

Targets == {"same", "simple", "preflighted"}

UNSENT == 0
OPENED == 1
HEADERS_RECEIVED == 2
LOADING == 3
DONE == 4

(* refs counts the ref() of loadRequestAsynchronously.                     *)
Init ==
  /\ xhr = [state |-> UNSENT, error |-> FALSE, loader |-> None, target |-> "same",
            sameOrigin |-> TRUE, inPreflight |-> FALSE, refs |-> 0]
  /\ net = [created |-> {}, live |-> {}, answered |-> {}]
  /\ doc = "framed"
  /\ stack = <<>>
  /\ asked = "no"
  /\ lost = {}

-----------------------------------------------------------------------------
Events == {"loadstart", "readystatechange", "progress", "load", "error", "abort"}

Place(at, l) == <<[at |-> at, l |-> l]>>
Event(e) == Place(e, None)

Top == Head(stack)
At(at) == stack # <<>> /\ Top.at = at
GoOn(frames) == stack' = frames \o Tail(stack)

ScriptRuns == IF stack = <<>> THEN TRUE ELSE Top.at \in Events
Nesting == Cardinality({i \in DOMAIN stack : stack[i].at \in Events})
ScriptCalls(frames) == ScriptRuns /\ Nesting < MaxDepth /\ stack' = frames \o stack

callReadyStateChangeListener == IF doc = "framed" THEN Event("readystatechange") ELSE <<>>
changeState(from, to) == IF from = to THEN <<>> ELSE callReadyStateChangeListener

Ended(n, l) == [n EXCEPT !.live = @ \ {l}, !.answered = @ \ {l}]

(* Mutant: the loader is let go, not cancelled.                            *)
internalAbort_LetGo ==
  [x |-> [xhr EXCEPT !.error = TRUE, !.loader = None,
                     !.refs = IF xhr.loader = None THEN @ ELSE @ - 1],
   n |-> net]

(* Mutant: the protection is dropped also when there is no loader.         *)
internalAbort_DropsTwice ==
  [x |-> [xhr EXCEPT !.error = TRUE, !.loader = None, !.refs = @ - 1],
   n |-> Ended(net, xhr.loader)]

(* What internalAbort makes of the object and of its loader, which calls   *)
(* didFail when it is cancelled; that returns at once, for m_error is set. *)
internalAbort ==
  [x |-> [xhr EXCEPT !.error = TRUE, !.loader = None,
                     !.refs = IF xhr.loader = None THEN @ ELSE @ - 1],
   n |-> Ended(net, xhr.loader)]

(* clearRequest: without headers a request needs no preflight.             *)
clearRequest(x) == [x EXCEPT !.target = IF @ = "preflighted" THEN "simple" ELSE @]
genericError(x) == [clearRequest(x) EXCEPT !.error = TRUE]

(* The page hears of the request it waits for.                             *)
Heard == asked' = IF asked = "waiting" THEN "heard" ELSE asked

(* m_loader is written over, which l's method did not mean to do unless    *)
(* it held l.                                                              *)
Forgets(l) == lost' = lost \cup ((net.live \ {l}) \cap {xhr.loader})

-----------------------------------------------------------------------------
(* What a script calls.                                                    *)

(* A method that is not allowed leaves the object UNSENT, with its old URL.*)
open(target, allowed) ==
  LET from == xhr.state
      a == internalAbort IN
  /\ ScriptCalls(IF allowed /\ from # OPENED THEN changeState(UNSENT, OPENED) ELSE <<>>)
  /\ xhr' = [a.x EXCEPT !.error = FALSE,
                        !.target = IF allowed THEN target ELSE clearRequest(a.x).target,
                        !.state = IF allowed THEN OPENED ELSE UNSENT]
  /\ net' = a.n
  /\ asked' = "no"
  /\ UNCHANGED <<doc, lost>>

(* A header that is not on the simple list.                                *)
setRequestHeader ==
  /\ ScriptRuns /\ doc # "none"
  /\ xhr.state = OPENED /\ xhr.loader = None /\ xhr.target = "simple"
  /\ xhr' = [xhr EXCEPT !.target = "preflighted"]
  /\ UNCHANGED <<net, doc, stack, asked, lost>>

(* initSend, and the event that comes before the request.                  *)
send ==
  /\ doc # "none" /\ xhr.state = OPENED /\ xhr.loader = None
  /\ ScriptCalls(Event("loadstart") \o Place("createRequest", None))
  /\ xhr' = [xhr EXCEPT !.error = FALSE]
  /\ asked' = "waiting"
  /\ UNCHANGED <<net, doc, lost>>

abort ==
  LET a == internalAbort
      x == clearRequest(a.x) IN
  /\ \/ /\ xhr.state = DONE \/ (xhr.state <= OPENED /\ xhr.loader = None)
        /\ ScriptCalls(Event("abort"))
        /\ xhr' = [x EXCEPT !.state = UNSENT]
     \/ /\ xhr.state # DONE
        /\ xhr.state <= OPENED => xhr.loader # None
        /\ ScriptCalls(changeState(xhr.state, DONE) \o Place("abort()", None))
        /\ xhr' = [x EXCEPT !.state = DONE]
  /\ net' = a.n
  /\ asked' = "no"
  /\ UNCHANGED <<doc, lost>>

(* XMLHttpRequest::cancelRequests, when a frame stops loading.             *)
cancelRequests ==
  /\ ScriptRuns
  /\ xhr' = internalAbort.x /\ net' = internalAbort.n
  /\ asked' = "no"
  /\ UNCHANGED <<doc, stack, lost>>

(* The document loses its frame, or is deleted: detachRequests.            *)
LeaveFrame ==
  /\ ScriptRuns /\ doc = "framed"
  /\ doc' = "frameless"
  /\ UNCHANGED <<xhr, net, stack, asked, lost>>

detachRequests ==
  /\ stack = <<>> /\ doc = "frameless"
  /\ doc' = "none"
  /\ xhr' = internalAbort.x /\ net' = internalAbort.n
  /\ asked' = "no"
  /\ UNCHANGED <<stack, lost>>

-----------------------------------------------------------------------------
(* loadRequestAsynchronously, from state x of the object and n of the      *)
(* loaders: SubresourceLoader::create may give none.                       *)

(* Mutant: the object does not keep itself alive.                          *)
loadRequestAsynchronously_Unprotected(x, n) ==
  \/ /\ doc = "framed"
     /\ \E l \in Loaders \ n.created :
          /\ xhr' = [x EXCEPT !.loader = l]
          /\ net' = [n EXCEPT !.created = @ \cup {l}, !.live = @ \cup {l}]
     /\ UNCHANGED asked
  \/ /\ xhr' = [x EXCEPT !.loader = None]
     /\ net' = n
     /\ asked' = IF asked = "waiting" THEN "refused" ELSE asked

loadRequestAsynchronously(x, n) ==
  \/ /\ doc = "framed"
     /\ \E l \in Loaders \ n.created :
          /\ xhr' = [x EXCEPT !.loader = l, !.refs = @ + 1]
          /\ net' = [n EXCEPT !.created = @ \cup {l}, !.live = @ \cup {l}]
     /\ UNCHANGED asked
  \/ /\ xhr' = [x EXCEPT !.loader = None]
     /\ net' = n
     /\ asked' = IF asked = "waiting" THEN "refused" ELSE asked

(* createRequest after the loadstart event.  A preflight may be skipped    *)
(* when the result of an earlier one is in the cache.                      *)
CreateRequest ==
  /\ At("createRequest")
  /\ \E preflight \in BOOLEAN :
       /\ preflight => xhr.target = "preflighted"
       /\ loadRequestAsynchronously(
            [xhr EXCEPT !.sameOrigin = xhr.target = "same",
                        !.inPreflight = @ \/ preflight], net)
  /\ Forgets(None)
  /\ GoOn(<<>>)
  /\ UNCHANGED doc

(* abort() after the events of changeState(DONE).                          *)
AbortGoesOn ==
  /\ At("abort()")
  /\ xhr' = [xhr EXCEPT !.state = UNSENT]
  /\ GoOn(Event("abort"))
  /\ UNCHANGED <<net, doc, asked, lost>>

(* The listeners return; after those of readystatechange the load event    *)
(* follows if the object is DONE now.                                      *)
EventReturns ==
  /\ stack # <<>> /\ Top.at \in Events
  /\ IF Top.at = "readystatechange" /\ xhr.state = DONE
     THEN GoOn(Event("load")) /\ Heard
     ELSE GoOn(<<>>) /\ UNCHANGED asked
  /\ UNCHANGED <<xhr, net, doc, lost>>

-----------------------------------------------------------------------------
(* What the loader l calls.                                                *)

Calls(l) == stack = <<>> /\ l \in net.live

(* A redirect to another origin.  Any other one is followed.               *)
willSendRequest(l) ==
  /\ Calls(l) /\ l \notin net.answered
  /\ xhr' = genericError(internalAbort.x) /\ net' = internalAbort.n
  /\ stack' = Event("error")
  /\ Heard
  /\ UNCHANGED <<doc, lost>>

(* Access may be denied across sites, and to a preflight.                  *)
didReceiveResponse(l, denied) ==
  /\ Calls(l) /\ l \notin net.answered
  /\ denied => xhr.inPreflight \/ ~xhr.sameOrigin
  /\ net' = [net EXCEPT !.answered = @ \cup {l}]
  /\ IF denied
     THEN xhr' = genericError(xhr) /\ stack' = Event("error") /\ Heard
     ELSE UNCHANGED <<xhr, stack, asked>>
  /\ UNCHANGED <<doc, lost>>

(* Mutant: the state is set at every block.                                *)
didReceiveData_EveryBlock(l) ==
  /\ Calls(l) /\ l \in net.answered /\ ~xhr.inPreflight
  /\ xhr' = [xhr EXCEPT !.state = HEADERS_RECEIVED]
  /\ stack' = changeState(xhr.state, xhr'.state) \o Place("didReceiveData", l)
  /\ UNCHANGED <<net, doc, asked, lost>>

didReceiveData(l) ==
  /\ Calls(l) /\ l \in net.answered /\ ~xhr.inPreflight
  /\ xhr' = [xhr EXCEPT !.state = Max({@, HEADERS_RECEIVED})]
  /\ stack' = changeState(xhr.state, xhr'.state) \o Place("didReceiveData", l)
  /\ UNCHANGED <<net, doc, asked, lost>>

DataDecoded ==
  /\ At("didReceiveData")
  /\ GoOn(IF xhr.error THEN <<>> ELSE Event("progress") \o Place("updateAndDispatch", Top.l))
  /\ UNCHANGED <<xhr, net, doc, asked, lost>>

(* The listener is called for every block.                                 *)
ProgressReported ==
  /\ At("updateAndDispatch")
  /\ xhr' = [xhr EXCEPT !.state = LOADING]
  /\ GoOn(callReadyStateChangeListener)
  /\ UNCHANGED <<net, doc, asked, lost>>

(* Mutant: the end of a preflight is the end of the request.               *)
didFinishLoading_Preflight(l) ==
  /\ Calls(l)
  /\ IF xhr.error \/ xhr.inPreflight
     THEN net' = Ended(net, l) /\ UNCHANGED <<xhr, stack, asked, lost>>
     ELSE /\ xhr' = [xhr EXCEPT !.state = Max({@, HEADERS_RECEIVED})]
          /\ stack' = changeState(xhr.state, xhr'.state) \o Place("didFinishLoading", l)
          /\ UNCHANGED <<net, asked, lost>>
  /\ UNCHANGED doc

(* After an error nothing is done; after a preflight the request itself is *)
(* sent.                                                                   *)
didFinishLoading(l) ==
  /\ Calls(l)
  /\ \/ /\ xhr.error
        /\ net' = Ended(net, l)
        /\ UNCHANGED <<xhr, stack, asked, lost>>
     \/ /\ ~xhr.error /\ xhr.inPreflight
        /\ loadRequestAsynchronously([xhr EXCEPT !.inPreflight = FALSE], Ended(net, l))
        /\ Forgets(l)
        /\ UNCHANGED stack
     \/ /\ ~xhr.error /\ ~xhr.inPreflight
        /\ xhr' = [xhr EXCEPT !.state = Max({@, HEADERS_RECEIVED})]
        /\ stack' = changeState(xhr.state, xhr'.state) \o Place("didFinishLoading", l)
        /\ UNCHANGED <<net, asked, lost>>
  /\ UNCHANGED doc

AllReceived ==
  /\ At("didFinishLoading")
  /\ xhr' = [xhr EXCEPT !.state = DONE, !.loader = None]
  /\ GoOn(changeState(xhr.state, DONE)
          \o Place(IF xhr.loader = None THEN "ended" ELSE "dropProtection", Top.l))
  /\ Forgets(Top.l)
  /\ UNCHANGED <<net, doc, asked>>

(* The loader itself, after its client's method.                           *)
LoaderEnds ==
  /\ At("ended") \/ At("dropProtection")
  /\ xhr' = IF At("ended") THEN xhr ELSE [xhr EXCEPT !.refs = @ - 1]
  /\ net' = Ended(net, Top.l)
  /\ GoOn(<<>>)
  /\ UNCHANGED <<doc, asked, lost>>

(* didFail, from the network, or when the loader is cancelled by others,   *)
(* which scripts may bring about.                                          *)
didFail(l, event) ==
  /\ l \in net.live
  /\ IF event = "error" THEN stack = <<>> ELSE ScriptRuns
  /\ IF xhr.error
     THEN net' = Ended(net, l) /\ UNCHANGED <<xhr, stack, asked>>
     ELSE /\ xhr' = genericError(xhr)
          /\ stack' = Event(event) \o Place("ended", l) \o stack
          /\ Heard
          /\ UNCHANGED net
  /\ UNCHANGED <<doc, lost>>

-----------------------------------------------------------------------------
Script ==
  \/ \E target \in {"same", "simple"}, allowed \in BOOLEAN : open(target, allowed)
  \/ setRequestHeader \/ send \/ abort \/ cancelRequests \/ LeaveFrame \/ detachRequests

GoesOn ==
  \/ EventReturns \/ CreateRequest \/ AbortGoesOn \/ DataDecoded \/ ProgressReported
  \/ AllReceived \/ LoaderEnds

Loader(l) ==
  \/ willSendRequest(l) \/ didReceiveData(l) \/ didFinishLoading(l)
  \/ \E denied \in BOOLEAN : didReceiveResponse(l, denied)
  \/ \E event \in {"error", "abort"} : didFail(l, event)

Next == Script \/ GoesOn \/ \E l \in Loaders : Loader(l)

Spec == Init /\ [][Next]_vars

-----------------------------------------------------------------------------
(* Properties.                                                             *)

Places ==
  Events \cup {"createRequest", "abort()", "didReceiveData", "updateAndDispatch",
               "didFinishLoading", "dropProtection", "ended"}

Objects ==
  [state : UNSENT..DONE, error : BOOLEAN, loader : Loaders \cup {None}, target : Targets,
   sameOrigin : BOOLEAN, inPreflight : BOOLEAN, refs : 0..Cardinality(Loaders)]
Nets == [created : SUBSET Loaders, live : SUBSET Loaders, answered : SUBSET Loaders]
Frames == [at : Places, l : Loaders \cup {None}]

(* Every variable has its type.                                            *)
TypeOK ==
  /\ xhr \in Objects
  /\ net \in Nets
  /\ net.live \subseteq net.created /\ net.answered \subseteq net.live
  /\ doc \in {"framed", "frameless", "none"}
  /\ stack \in Seq(Frames)
  /\ asked \in {"no", "waiting", "refused", "heard"}
  /\ lost \subseteq Loaders

Placed(at) == {i \in DOMAIN stack : stack[i].at = at}
Ending == {stack[i].l : i \in Placed("ended") \cup Placed("dropProtection")}
AtWork == net.live \ Ending

(* The object, which the loaders only point to, keeps itself alive for the *)
(* loader at work that it knows, for a loader it has not let go of after   *)
(* its end, and for a dropProtection that is due (the comment in           *)
(* loadRequestAsynchronously).                                             *)
ProtectedWhileLoading ==
  xhr.refs >= Cardinality(AtWork \ lost) + Cardinality(Placed("dropProtection"))
              + (IF xhr.loader \in AtWork \cup {None} THEN 0 ELSE 1)

(* What open, abort and cancelRequests cancel is all that works for the    *)
(* object, in every nesting of events but the two in which send() is called*)
(* inside loadstart or a finished request is replaced (lost).              *)
AbortReachesAll == AtWork \subseteq {xhr.loader} \cup lost

(* A page that called send() and got a loader hears load, error or abort,  *)
(* unless it calls open or abort or leaves: as long as it waits, a loader  *)
(* is at work and what that calls is not ignored.                          *)
NobodyWaitsInVain ==
  stack = <<>> /\ asked = "waiting" /\ doc = "framed" => ~xhr.error /\ net.live # {}

(* Only open and abort lower readyState: no late data or end of a request  *)
(* takes the object back to HEADERS_RECEIVED or LOADING.                   *)
ReadyStateForward ==
  [][xhr'.state < xhr.state /\ lost = {} => xhr'.state \in {UNSENT, OPENED}]_vars
=============================================================================
