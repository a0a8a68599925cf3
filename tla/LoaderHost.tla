----------------------------- MODULE LoaderHost -----------------------------
(***************************************************************************)
(* Scheduling of subresource loads: WebCore::Loader and one Loader::Host   *)
(* (WebCore/loader/loader.cpp), with the request count and the pending     *)
(* preloads of DocLoader.cpp.                                              *)
(*                                                                         *)
(* Everything runs on one thread, but the methods nest: telling a resource *)
(* that its data has come runs its clients, and a script run by one of     *)
(* them may load resources or stop a document, which calls the host again  *)
(* while the outer method is not finished.  `stack' holds the methods in   *)
(* progress, the innermost first, each with the place it has reached; `at' *)
(* is a client point when client code is running.                          *)
(***************************************************************************)
EXTENDS Integers, SequencesExt, Subsequences

CONSTANTS
  Requests,      \* the Requests made in a behaviour, each for its own resource
  Docs,          \* the documents (and DocLoaders) they are made for
  DocOf,         \* the document of each request
  PriorityOf,    \* determinePriority of its resource: Low, Medium or High
  Revalidations, \* requests whose resource is a cache validator
  Preloads,      \* requests the preload scanner may make ahead of the parser
  IsHTTP,        \* the host is not m_nonHTTPProtocolHost
  MaxInFlight,   \* m_maxRequestsInFlight
  MaxDepth       \* bound: nested methods

Low == 0
Medium == 1
High == 2
Priorities == Low..High

ASSUME HostAssumption ==
  /\ IsFiniteSet(Requests)
  /\ DocOf \in [Requests -> Docs]
  /\ PriorityOf \in [Requests -> Priorities]
  /\ Revalidations \subseteq Requests
  /\ Preloads \subseteq Requests
  /\ IsHTTP \in BOOLEAN
  /\ MaxInFlight \in Nat \ {0}
  /\ MaxDepth \in Nat \ {0}

VARIABLES
  fresh,         \* requests not made yet
  pending,       \* m_requestsPending, a queue per priority
  loading,       \* the requests in m_requestsLoading
  count,         \* DocLoader::m_requestCount
  inProgress,    \* documents whose m_loadInProgress is set
  multipart,     \* requests with m_multipart
  validators,    \* requests whose resource still is a cache validator
  errored,       \* requests whose resource had a 4xx answer
  timer,         \* m_requestTimer.isActive()
  settled,       \* documents parsed, with all stylesheets loaded
  rendered,      \* documents whose body has a renderer
  preloads,      \* DocLoader::m_pendingPreloads
  dropped,       \* history: requests whose handle the host itself cancelled
  stack

requestVars == <<fresh, pending, loading, multipart, validators, errored, dropped>>
docVars     == <<count, inProgress, settled, rendered, preloads>>
vars == <<requestVars, docVars, timer, stack>>

-----------------------------------------------------------------------------
(* Frames of the stack.                                                    *)

ClientPoints == {"resource", "done"}

Top == Head(stack)
In(op, at) == stack # <<>> /\ Top.op = op /\ Top.at = at
ClientMayRun == IF stack = <<>> THEN TRUE ELSE Top.at \in ClientPoints
MayNest == Len(stack) < MaxDepth

Call(frame) == stack' = <<frame>> \o stack
GoOn(at) == stack' = <<[Top EXCEPT !.at = at]>> \o Tail(stack)
Return == stack' = Tail(stack)

(* Mutant: only the queue of the given priority is looked at.              *)
ServeFrom_OneQueue(min) == [op |-> "serve", at |-> "loop", queue |-> min, min |-> min]

(* servePendingRequests(minimumPriority), at the queue it starts with.     *)
ServeFrom(min) == [op |-> "serve", at |-> "loop", queue |-> High, min |-> min]

(* didFinishLoading, didFail, didReceiveData, or the 304 part of           *)
(* didReceiveResponse, about request r.                                    *)
About(op, at, r) == [op |-> op, at |-> at, req |-> r, next |-> 1, n |-> 0]

Init ==
  /\ fresh = Requests
  /\ pending = [p \in Priorities |-> <<>>]
  /\ loading = {}
  /\ count = [d \in Docs |-> 0]
  /\ inProgress = {}
  /\ multipart = {}
  /\ validators = Revalidations
  /\ errored = {}
  /\ timer = FALSE
  /\ settled = {}
  /\ rendered = {}
  /\ preloads = [d \in Docs |-> <<>>]
  /\ dropped = {}
  /\ stack = <<>>

hasRequests == loading # {} \/ \E p \in Priorities : pending[p] # <<>>
Pending == {r \in Requests : \E p \in Priorities : \E i \in 1..Len(pending[p]) :
                               pending[p][i] = r}
Counted(d) == {r \in Pending \cup (loading \ multipart) : DocOf[r] = d}

incrementRequestCount(d) == count' = [count EXCEPT ![d] = @ + 1]
decrementRequestCount(d) == count' = [count EXCEPT ![d] = @ - 1]
requestCount(d) == count[d] + (IF d \in inProgress THEN 1 ELSE 0)

-----------------------------------------------------------------------------
(* Loader::load: the request is queued; important ones, and the first of a *)
(* host, are served on the spot, the others from the timer.  `under' is    *)
(* the stack to which servePendingRequests is pushed.                      *)
load(r, under) ==
  /\ r \in fresh
  /\ fresh' = fresh \ {r}
  /\ pending' = [pending EXCEPT ![PriorityOf[r]] = Append(@, r)]
  /\ incrementRequestCount(DocOf[r])
  /\ IF PriorityOf[r] > Low \/ ~IsHTTP \/ ~hasRequests
     THEN stack' = <<ServeFrom(PriorityOf[r])>> \o under /\ UNCHANGED timer
     ELSE stack' = under /\ timer' = TRUE
  /\ UNCHANGED <<loading, multipart, validators, errored, dropped, inProgress,
                 settled, rendered, preloads>>

Load(r) ==
  /\ ClientMayRun /\ MayNest
  /\ load(r, stack)

(* DocLoader::preload, while there is nothing to render: kept for later.   *)
Preload(r) ==
  /\ ClientMayRun
  /\ r \in Preloads \cap fresh
  /\ DocOf[r] \notin rendered
  /\ \A i \in 1..Len(preloads[DocOf[r]]) : preloads[DocOf[r]][i] # r
  /\ preloads' = [preloads EXCEPT ![DocOf[r]] = Append(@, r)]
  /\ UNCHANGED <<requestVars, count, inProgress, settled, rendered, timer, stack>>

(* The document gets its body and its renderer; the parser and the         *)
(* stylesheets are done, or a new stylesheet is asked for.  The renderer   *)
(* is looked at only where there may be preloads.                          *)
Render(d) ==
  /\ ClientMayRun
  /\ \E r \in Preloads : DocOf[r] = d
  /\ rendered' = rendered \cup {d}
  /\ UNCHANGED <<requestVars, count, inProgress, settled, preloads, timer, stack>>

Settle(d) ==
  /\ ClientMayRun
  /\ settled' = settled \cup {d} \/ settled' = settled \ {d}
  /\ UNCHANGED <<requestVars, count, inProgress, rendered, preloads, timer, stack>>

RequestTimerFired ==
  /\ stack = <<>>
  /\ timer
  /\ timer' = FALSE
  /\ Call(ServeFrom(Low))
  /\ UNCHANGED <<requestVars, docVars>>

-----------------------------------------------------------------------------
(* Host::servePendingRequests.                                             *)

MayStart(r) ==
  DocOf[r] \in settled \/ r \in validators \/ Cardinality(loading) < MaxInFlight

(* Mutant: one queue too many is looked at.                                *)
ServeNextQueue_PastTheLast ==
  /\ In("serve", "loop")
  /\ pending[Top.queue] = <<>>
  /\ IF Top.queue >= Top.min
     THEN stack' = <<[Top EXCEPT !.queue = @ - 1]>> \o Tail(stack)
     ELSE Return
  /\ UNCHANGED <<requestVars, docVars, timer>>

ServeNextQueue ==
  /\ In("serve", "loop")
  /\ pending[Top.queue] = <<>>
  /\ IF Top.queue > Top.min
     THEN stack' = <<[Top EXCEPT !.queue = @ - 1]>> \o Tail(stack)
     ELSE Return
  /\ UNCHANGED <<requestVars, docVars, timer>>

ServeNoMore ==
  /\ In("serve", "loop")
  /\ pending[Top.queue] # <<>>
  /\ ~MayStart(Head(pending[Top.queue]))
  /\ Return
  /\ UNCHANGED <<requestVars, docVars, timer>>

Dequeue == pending' = [pending EXCEPT ![Top.queue] = Tail(@)]

ServeRequest ==
  /\ In("serve", "loop")
  /\ pending[Top.queue] # <<>>
  /\ MayStart(Head(pending[Top.queue]))
  /\ Dequeue
  /\ loading' = loading \cup {Head(pending[Top.queue])}
  /\ UNCHANGED <<fresh, multipart, validators, errored, dropped, docVars, timer, stack>>

(* SubresourceLoader::create returns 0 (no frame, or a frame that is about *)
(* to show another document): the resource's error() runs its clients.     *)
ServeFails ==
  LET r == Head(pending[Top.queue]) IN
  /\ In("serve", "loop")
  /\ pending[Top.queue] # <<>>
  /\ MayStart(r)
  /\ Dequeue
  /\ decrementRequestCount(DocOf[r])
  /\ inProgress' = inProgress \cup {DocOf[r]}
  /\ stack' = <<[op |-> "serve", at |-> "resource", queue |-> Top.queue, min |-> Top.min,
                  req |-> r]>> \o Tail(stack)
  /\ UNCHANGED <<fresh, loading, multipart, validators, errored, dropped, settled,
                 rendered, preloads, timer>>

(* setLoadInProgress(false) looks whether the document is complete, which  *)
(* may run client code again.                                              *)
ServeFailedDone ==
  \/ /\ In("serve", "resource")
     /\ inProgress' = inProgress \ {DocOf[Top.req]}
     /\ GoOn("done")
     /\ UNCHANGED <<requestVars, count, settled, rendered, preloads, timer>>
  \/ /\ In("serve", "done")
     /\ stack' = <<[op |-> "serve", at |-> "loop", queue |-> Top.queue, min |-> Top.min]>>
                   \o Tail(stack)
     /\ UNCHANGED <<requestVars, docVars, timer>>

-----------------------------------------------------------------------------
(* The SubresourceLoaderClient callbacks, from the transfer.               *)

(* Mutant: a request of several parts, already not counted, is again       *)
(* subtracted when it ends.                                                *)
Forget_CountedTwice(r) ==
  /\ loading' = loading \ {r}
  /\ decrementRequestCount(DocOf[r])

Forget(r) ==
  /\ loading' = loading \ {r}
  /\ IF r \in multipart THEN UNCHANGED count ELSE decrementRequestCount(DocOf[r])

DidFinishLoading(r) ==
  /\ stack = <<>>
  /\ r \in loading \ dropped
  /\ Forget(r)
  /\ IF r \in errored
     THEN inProgress' = inProgress \ {DocOf[r]} /\ Call(About("finish", "done", r))
     ELSE inProgress' = inProgress \cup {DocOf[r]} /\ Call(About("finish", "resource", r))
  /\ UNCHANGED <<fresh, pending, multipart, validators, errored, dropped, settled,
                 rendered, preloads, timer>>

(* didFail of a cancelled request does not tell the resource.              *)
fail(r, cancelled, under) ==
  /\ Forget(r)
  /\ IF cancelled
     THEN /\ inProgress' = inProgress \ {DocOf[r]}
          /\ stack' = <<About("fail", "done", r)>> \o under
     ELSE /\ inProgress' = inProgress \cup {DocOf[r]}
          /\ stack' = <<About("fail", "resource", r)>> \o under
  /\ UNCHANGED <<fresh, pending, multipart, validators, errored, dropped, settled,
                 rendered, preloads, timer>>

DidFail(r) ==
  /\ stack = <<>>
  /\ r \in loading \ dropped
  /\ fail(r, FALSE, stack)

(* SubresourceLoader::didCancel, when client code stops the loaders of a   *)
(* document one by one: the host hears of a failure.                       *)
DidCancel(r) ==
  /\ ClientMayRun /\ MayNest
  /\ r \in loading
  /\ fail(r, FALSE, stack)

ResourceToldDone ==
  /\ In("finish", "resource") \/ In("fail", "resource")
  /\ inProgress' = inProgress \ {DocOf[Top.req]}
  /\ GoOn("done")
  /\ UNCHANGED <<requestVars, count, settled, rendered, preloads, timer>>

(* Mutant: the end of a request does not serve the queues.                 *)
CheckForPendingPreloads_NoServe ==
  /\ In("finish", "done") \/ In("fail", "done")
  /\ LET d == DocOf[Top.req] IN
       IF d \in rendered /\ preloads[d] # <<>>
       THEN stack' = <<[Top EXCEPT !.at = "preloads", !.n = Len(preloads[d])]>> \o Tail(stack)
       ELSE Return
  /\ UNCHANGED <<requestVars, docVars, timer>>

(* checkForPendingPreloads; then servePendingRequests.                     *)
CheckForPendingPreloads ==
  /\ In("finish", "done") \/ In("fail", "done")
  /\ LET d == DocOf[Top.req] IN
       IF d \in rendered /\ preloads[d] # <<>>
       THEN stack' = <<[Top EXCEPT !.at = "preloads", !.n = Len(preloads[d])]>> \o Tail(stack)
       ELSE stack' = <<ServeFrom(Low)>> \o Tail(stack)
  /\ UNCHANGED <<requestVars, docVars, timer>>

InPreloads == In("finish", "preloads") \/ In("fail", "preloads")

(* requestPreload makes a request unless the resource is in the cache.     *)
RequestPreload ==
  LET d == DocOf[Top.req] IN
  /\ InPreloads
  /\ Top.next <= Top.n /\ Top.next <= Len(preloads[d])
  /\ LET r == preloads[d][Top.next]
         rest == <<[Top EXCEPT !.next = @ + 1]>> \o Tail(stack)
     IN \/ load(r, rest)
        \/ /\ r \notin fresh
           /\ stack' = rest
           /\ UNCHANGED <<requestVars, docVars, timer>>

PreloadsDone ==
  LET d == DocOf[Top.req] IN
  /\ InPreloads
  /\ Top.next > Top.n \/ Top.next > Len(preloads[d])
  /\ preloads' = [preloads EXCEPT ![d] = <<>>]
  /\ stack' = <<ServeFrom(Low)>> \o Tail(stack)
  /\ UNCHANGED <<requestVars, count, inProgress, settled, rendered, timer>>

(* didReceiveResponse with 304 for a cache validator: the clients move to  *)
(* the resource that was validated, which may notify them at once.         *)
Revalidated(r) ==
  /\ stack = <<>>
  /\ r \in loading \cap validators
  /\ loading' = loading \ {r}
  /\ decrementRequestCount(DocOf[r])
  /\ Call(About("revalidated", "resource", r))
  /\ UNCHANGED <<fresh, pending, multipart, validators, errored, dropped, inProgress,
                 settled, rendered, preloads, timer>>

(* Mutant: the early return for 304 forgets to serve the queues.           *)
RevalidatedDone_NoServe ==
  /\ In("revalidated", "resource")
  /\ Return
  /\ UNCHANGED <<requestVars, docVars, timer>>

RevalidatedDone ==
  /\ In("revalidated", "resource")
  /\ stack' = <<ServeFrom(Low)>> \o Tail(stack)
  /\ UNCHANGED <<requestVars, docVars, timer>>

(* didReceiveResponse with another answer: an ordinary one, one of several *)
(* parts (after the first part of which the document is looked at), or 4xx *)
(* of which didReceiveData will tell the resource.  Several parts are for  *)
(* images only; the handle of another resource's load is cancelled.        *)
DidReceiveResponse(r) ==
  /\ stack = <<>>
  /\ r \in loading \ dropped
  /\ validators' = validators \ {r}
  /\ \/ UNCHANGED <<multipart, count, dropped, stack>>
     \/ /\ r \notin multipart
        /\ multipart' = multipart \cup {r}
        /\ decrementRequestCount(DocOf[r])
        /\ dropped' = IF PriorityOf[r] = Low THEN dropped ELSE dropped \cup {r}
        /\ UNCHANGED stack
     \/ /\ r \in multipart
        /\ Call(About("data", "done", r))
        /\ UNCHANGED <<multipart, count, dropped>>
  /\ UNCHANGED <<fresh, pending, loading, errored, inProgress, settled, rendered,
                 preloads, timer>>

DidReceiveData(r) ==
  /\ stack = <<>>
  /\ r \in loading \ (validators \cup dropped \cup errored)
  /\ Call(About("data", "resource", r))
  /\ errored' = errored \/ errored' = errored \cup {r}
  /\ UNCHANGED <<fresh, pending, loading, multipart, validators, dropped, docVars, timer>>

DataDone ==
  /\ In("data", "resource") \/ In("data", "done")
  /\ Return
  /\ UNCHANGED <<requestVars, docVars, timer>>

-----------------------------------------------------------------------------
(* Loader::cancelRequests, when a document is stopped.                     *)

(* The requests that cancelPendingRequests leaves in a queue.              *)
Others(q, d) == AtPlaces(q, {i \in 1..Len(q) : DocOf[q[i]] # d})

CancelRequests(d) ==
  /\ ClientMayRun /\ MayNest
  /\ pending' = [p \in Priorities |-> Others(pending[p], d)]
  /\ count' = [count EXCEPT ![d] = @ - Cardinality({r \in Pending : DocOf[r] = d})]
  /\ Call([op |-> "cancel", at |-> "loop", doc |-> d,
           todo |-> {r \in loading : DocOf[r] = d}])
  /\ UNCHANGED <<fresh, loading, multipart, validators, errored, dropped, inProgress,
                 settled, rendered, preloads, timer>>

CancelNext ==
  /\ In("cancel", "loop")
  /\ \E r \in Top.todo :
       LET rest == <<[Top EXCEPT !.todo = @ \ {r}]>> \o Tail(stack) IN
       \/ r \in loading /\ fail(r, TRUE, rest)
       \/ /\ r \notin loading
          /\ stack' = rest
          /\ UNCHANGED <<requestVars, docVars, timer>>

CancelDone ==
  /\ In("cancel", "loop")
  /\ Top.todo = {}
  /\ timer' = TRUE
  /\ Return
  /\ UNCHANGED <<requestVars, docVars>>

-----------------------------------------------------------------------------
Host ==
  \/ RequestTimerFired \/ ServeNextQueue \/ ServeNoMore \/ ServeRequest \/ ServeFails
  \/ ServeFailedDone \/ ResourceToldDone \/ CheckForPendingPreloads \/ RequestPreload
  \/ PreloadsDone \/ RevalidatedDone \/ DataDone \/ CancelNext \/ CancelDone

Transfer(r) == DidFinishLoading(r) \/ DidFail(r) \/ Revalidated(r)

Client ==
  \/ \E r \in Requests : Load(r) \/ Preload(r) \/ DidCancel(r)
  \/ \E d \in Docs : Render(d) \/ Settle(d) \/ CancelRequests(d)

Next ==
  \/ Host
  \/ Client
  \/ \E r \in Requests : Transfer(r) \/ DidReceiveResponse(r) \/ DidReceiveData(r)

Spec == Init /\ [][Next]_vars

(* A method runs to its end, the client code it calls returns, the timer   *)
(* fires, and every transfer ends unless it is of several parts or was     *)
(* cancelled by the host.  Nothing is assumed of the client otherwise: it  *)
(* may stop a document again and again.                                    *)
ClientReturned ==
  ServeFailedDone \/ ResourceToldDone \/ CheckForPendingPreloads \/ RevalidatedDone \/ DataDone

Fairness ==
  /\ WF_vars(Host)
  /\ SF_vars(ClientReturned)
  /\ SF_vars(RequestTimerFired)
  /\ \A r \in Requests : SF_vars(r \notin multipart /\ Transfer(r))

FairSpec == Spec /\ Fairness
-----------------------------------------------------------------------------
(* Properties.                                                             *)

(* servePendingRequests, and with the request that could not be started;   *)
(* the callbacks; cancelRequests.                                          *)
ServeFrames == [op : {"serve"}, at : {"loop"}, queue : Priorities, min : Priorities]
FailedFrames ==
  [op : {"serve"}, at : {"resource", "done"}, queue : Priorities, min : Priorities,
   req : Requests]
AboutFrames ==
  [op : {"finish", "fail", "revalidated", "data"}, at : {"resource", "done", "preloads"},
   req : Requests, next : Nat, n : Nat]
CancelFrames == [op : {"cancel"}, at : {"loop"}, doc : Docs, todo : SUBSET Requests]

Frames == ServeFrames \cup FailedFrames \cup AboutFrames \cup CancelFrames

(* Every variable has its type.                                            *)
TypeOK ==
  /\ fresh \subseteq Requests
  /\ pending \in [Priorities -> Seq(Requests)]
  /\ loading \subseteq Requests
  /\ count \in [Docs -> Int]
  /\ inProgress \subseteq Docs
  /\ multipart \subseteq Requests
  /\ validators \subseteq Requests
  /\ errored \subseteq Requests
  /\ timer \in BOOLEAN
  /\ settled \subseteq Docs
  /\ rendered \subseteq Docs
  /\ preloads \in [Docs -> Seq(Requests)]
  /\ dropped \subseteq Requests
  /\ stack \in Seq(Frames)

(* m_requestCount, which keeps a document from being complete, counts its  *)
(* queued requests and those of its transfers that are not of several      *)
(* parts, each once, whatever nests; in particular it never is negative    *)
(* (ASSERT, DocLoader.cpp:293).                                            *)
CountsRequests == \A d \in Docs : count[d] = Cardinality(Counted(d))

(* When nothing runs, a queued request has something to wait for: the      *)
(* timer, or a transfer whose end will serve the queue.                    *)
NoStrandedRequests == stack = <<>> /\ Pending # {} => timer \/ loading # {}

(* A request is started before a queued one of higher priority only when   *)
(* the host is full, and so is started beyond the limit, which its         *)
(* document or being a cache validator allows: a free slot never goes to   *)
(* the less important, also when client code queues more in the middle of  *)
(* servePendingRequests.                                                   *)
HigherFirst ==
  [][\A p, q \in Priorities :
       Len(pending'[p]) < Len(pending[p]) /\ ServeRequest /\ q > p /\ pending[q] # <<>>
         => Cardinality(loading) >= MaxInFlight]_vars

(* Every queued request is started, failed or cancelled, unless transfers  *)
(* of several parts, the dropped ones among them, hold every slot.         *)
EveryRequestServed ==
  \A r \in Requests :
    r \in Pending ~> r \notin Pending \/ Cardinality(loading \cap multipart) >= MaxInFlight

=============================================================================
