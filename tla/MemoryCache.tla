----------------------------- MODULE MemoryCache ----------------------------
(***************************************************************************)
(* The memory cache: Cache.cpp and CachedResource.cpp of WebCore/loader,   *)
(* with what Loader::Host and DocLoader do to a resource.                  *)
(*                                                                         *)
(* A resource is an object without reference counting: it lives while it   *)
(* is in the cache or canDelete() finds a reason to keep it.  There may be *)
(* several objects for one URL: one in m_resources, and older ones that    *)
(* clients still use or that are being revalidated.  The model is about    *)
(* which object is in use, listed and counted at each moment; the bytes    *)
(* and headers are left out, and so is the order inside an LRU list.       *)
(*                                                                         *)
(* As in LoaderHost, everything runs on one thread and nests through       *)
(* client code, and `stack' holds the methods in progress.                 *)
(***************************************************************************)
EXTENDS Integers, FiniteSetsExt, SequencesExt

CONSTANTS
  Resources,        \* CachedResource objects, each allocated at most once
  Urls,
  Holders,          \* elements with a CachedResourceHandle, also its clients
  Preload,          \* the preload scanner, which has neither
  None,
  Capacity,         \* m_capacity
  MinDeadCapacity,
  MaxDeadCapacity,
  MaxAccess,        \* bound: access counts saturate
  MaxDepth          \* bound: nested methods

ASSUME CacheAssumption ==
  /\ IsFiniteSet(Resources) /\ IsFiniteSet(Holders)
  /\ None \notin Resources \cup Urls \cup Nat
  /\ Preload \notin Holders
  /\ {Capacity, MinDeadCapacity, MaxDeadCapacity} \subseteq Nat
  /\ MinDeadCapacity <= MaxDeadCapacity /\ MaxDeadCapacity <= Capacity
  /\ MaxAccess \in Nat \ {0} /\ MaxDepth \in Nat \ {0}

VARIABLES
  cache,   \* the objects, m_resources, m_liveSize and m_deadSize
  told,    \* history: holders whose notifyFinished was called
  stack

vars == <<cache, told, stack>>

res == cache.res

(* Sizes of a body half way and complete, and of an image when decoded.    *)
Partial == 1
Whole == 2
Decoded == 2

Unborn ==
  [life |-> "unborn", url |-> None, inCache |-> FALSE, enc |-> 0, dec |-> 0,
   access |-> 0, queue |-> None, listed |-> FALSE, clients |-> {}, handles |-> {},
   request |-> "none", preload |-> 0, referenced |-> FALSE, reval |-> None,
   isReval |-> FALSE, loading |-> FALSE, errored |-> FALSE]

Gone == [Unborn EXCEPT !.life = "deleted"]
NewResource(u) == [Unborn EXCEPT !.life = "alive", !.url = u]

Init ==
  /\ cache = [res |-> [r \in Resources |-> Unborn], map |-> [u \in Urls |-> None],
              live |-> 0, dead |-> 0]
  /\ told = {}
  /\ stack = <<>>

-----------------------------------------------------------------------------
(* CachedResource and Cache, as functions from one state c of the cache to *)
(* the next.                                                               *)

size(x) == x.enc + x.dec

(* Mutant: being revalidated does not keep an object.                      *)
canDelete_Revalidated(x) ==
  x.clients = {} /\ x.handles = {} /\ x.request = "none" /\ x.preload = 0
  /\ x.reval = None

canDelete(x) ==
  x.clients = {} /\ x.handles = {} /\ x.request = "none" /\ x.preload = 0
  /\ x.reval = None /\ ~x.isReval

deleteIfPossible(c, r) ==
  IF canDelete(c.res[r]) /\ ~c.res[r].inCache THEN [c EXCEPT !.res[r] = Gone] ELSE c

adjustSize(c, isLive, delta) ==
  IF isLive THEN [c EXCEPT !.live = @ + delta] ELSE [c EXCEPT !.dead = @ + delta]

(* lruListFor: fastLog2 rounds up, so it counts the powers of two below.   *)
PowersOfTwo == {1, 2}      \* those below Whole + Decoded
fastLog2(n) == Cardinality({p \in PowersOfTwo : p < n})
lruIndex(x) == fastLog2(size(x) \div Max({x.access, 1}))
MaxIndex == fastLog2(Whole + Decoded)

resourceAccessed(c, r) ==
  LET x == [c.res[r] EXCEPT !.access = Min({@ + 1, MaxAccess})]
  IN [c EXCEPT !.res[r] = [x EXCEPT !.queue = lruIndex(x)]]

(* The new size of an object in the cache: other list, other totals.       *)
Resized(c, r, x) ==
  IF x.inCache
  THEN adjustSize([c EXCEPT !.res[r] = [x EXCEPT !.queue = lruIndex(x)]],
                  x.clients # {}, size(x) - size(c.res[r]))
  ELSE [c EXCEPT !.res[r] = x]

setEncodedSize(c, r, n) ==
  IF n = c.res[r].enc THEN c ELSE Resized(c, r, [c.res[r] EXCEPT !.enc = n])

setDecodedSize(c, r, n) ==
  LET x == c.res[r] IN
  IF n = x.dec THEN c
  ELSE Resized(c, r, [x EXCEPT !.dec = n,
                               !.listed = x.inCache /\ n > 0 /\ (@ \/ x.clients # {})])

(* Cache::remove forgets the URL, whatever object the map has for it.      *)
(* Only one that is being revalidated may come back, and have its access   *)
(* count looked at again; the model drops that of the others.              *)
remove(c, r) ==
  LET x == c.res[r] IN
  deleteIfPossible(
    IF x.inCache
    THEN adjustSize([c EXCEPT !.map[x.url] = None,
                       !.res[r] = [x EXCEPT !.inCache = FALSE, !.queue = None, !.listed = FALSE,
                                            !.access = IF x.isReval THEN @ ELSE 0]],
                    x.clients # {}, -size(x))
    ELSE c, r)

(* Mutant: the size moves to the live total with every client.             *)
addClient_EveryClient(c, r, h) ==
  LET n == IF c.res[r].inCache THEN size(c.res[r]) ELSE 0
  IN [c EXCEPT !.res[r].clients = @ \cup {h}, !.res[r].referenced = TRUE,
               !.live = @ + n, !.dead = @ - n]

addClient(c, r, h) ==
  LET x == c.res[r]
      n == IF x.clients = {} /\ x.inCache THEN size(x) ELSE 0
  IN [c EXCEPT !.res[r].clients = @ \cup {h}, !.res[r].referenced = TRUE,
               !.live = @ + n, !.dead = @ - n]

(* removeClient, up to the prune at its end.                               *)
removeClient(c, r, h) ==
  LET c1 == [c EXCEPT !.res[r].clients = @ \ {h}]
      last == c1.res[r].clients = {} /\ c1.res[r].inCache
      n == IF last THEN size(c.res[r]) ELSE 0
  IN deleteIfPossible([c1 EXCEPT !.res[r].listed = @ /\ ~last,
                                 !.live = @ - n, !.dead = @ + n], r)

(* Mutant: the object that was to be revalidated is not let go.            *)
clearResourceToRevalidate_NotDeleted(c, n) ==
  LET c1 == [c EXCEPT !.res[c.res[n].reval].isReval = FALSE, !.res[n].reval = None]
  IN deleteIfPossible(c1, n)

(* clearResourceToRevalidate, which is also revalidationFailed.            *)
clearResourceToRevalidate(c, n) ==
  LET r == c.res[n].reval
      c1 == deleteIfPossible([c EXCEPT !.res[r].isReval = FALSE], r)
  IN deleteIfPossible([c1 EXCEPT !.res[n].reval = None], n)

revalidationFailed(c, r) ==
  IF c.res[r].reval = None THEN c ELSE clearResourceToRevalidate(c, r)

(* delete request: ~Request calls setRequest(0).                           *)
deleteRequest(c, r) == deleteIfPossible([c EXCEPT !.res[r].request = "none"], r)

(* error() of an image; of other resources the sizes are 0 before.         *)
error(c, r) ==
  LET c1 == setEncodedSize(setDecodedSize(c, r, 0), r, 0)
  IN [c1 EXCEPT !.res[r].loading = FALSE, !.res[r].errored = TRUE]

-----------------------------------------------------------------------------
(* Methods in progress.                                                    *)

ClientPoints == {"notify", "switch"}

Top == Head(stack)
In(op) == stack # <<>> /\ Top.op = op
ClientMayRun == IF stack = <<>> THEN TRUE ELSE Top.op \in ClientPoints /\ Top.called
MayNest == ClientMayRun /\ Len(stack) < MaxDepth
HostMayRun == IF stack = <<>> THEN TRUE ELSE Top.op = "load"

Push(frame) == stack' = <<frame>> \o stack
Replace(frame) == stack' = <<frame>> \o Tail(stack)
Pop == stack' = Tail(stack)

Telling(r, then) ==
  [op |-> "notify", r |-> r, todo |-> res[r].clients, called |-> FALSE, then |-> then]

(* Cache::prune and pruneDeadResources, up to their loops.                 *)
deadCapacity(c) ==
  Min({MaxDeadCapacity, Max({MinDeadCapacity, Capacity - Min({c.live, Capacity})})})
liveCapacity(c) == Capacity - deadCapacity(c)
targetSize(capacity) == (capacity * 95) \div 100

PruneLive(c) ==
  IF c.live <= liveCapacity(c) THEN <<>>
  ELSE <<[op |-> "prune", pass |-> "live", i |-> 0, target |-> targetSize(liveCapacity(c))]>>

Prune(c) ==
  IF c.live + c.dead <= Capacity /\ c.dead <= MaxDeadCapacity THEN <<>>
  ELSE IF c.dead <= deadCapacity(c) THEN PruneLive(c)
  ELSE <<[op |-> "prune", pass |-> "flush", i |-> MaxIndex, target |-> targetSize(deadCapacity(c))]>>

Born == {r \in Resources : res[r].life # "unborn"}
Alive == {r \in Resources : res[r].life = "alive"}
HandleOf(h) == {r \in Alive : h \in res[r].handles}
Requesters == Holders \cup {Preload}

(* The model ends where an ASSERT fails or a deleted object is used.       *)
Stop(why, r) == stack' = <<[op |-> "stop", why |-> why, r |-> r]>> /\ UNCHANGED told

Busy(h) == \E i \in 1..Len(stack) : stack[i].op \in {"lookup", "load", "release"} /\ stack[i].h = h

-----------------------------------------------------------------------------
(* DocLoader::requestResource for holder h, or the preload scanner.        *)

(* What the caller does with the resource it gets.                         *)
Deliver(c, r, h) ==
  IF h = Preload
  THEN /\ cache' = [c EXCEPT !.res[r].preload = 1]
       /\ UNCHANGED told
  ELSE /\ cache' = addClient([c EXCEPT !.res[r].handles = @ \cup {h}], r, h)
       /\ told' = IF c.res[r].loading THEN told \ {h} ELSE told \cup {h}

(* Cache::requestResource, when the cache is c, and what is in progress    *)
(* after it.  A new resource is not put in the map before load() returns.  *)
(* When FrameLoader::canLoad refuses, the caller gets 0.                   *)
requestResource(c, h, u, rest) ==
  LET e == c.map[u] IN
  \/ /\ e # None
     /\ IF h = Preload /\ c.res[e].preload = 0
        THEN cache' = c /\ UNCHANGED told
        ELSE Deliver(resourceAccessed(c, e), e, h)
     /\ stack' = rest
  \/ /\ e = None
     /\ \E n \in Resources \ Born :
          /\ cache' = [c EXCEPT !.res[n] = [NewResource(u) EXCEPT !.inCache = TRUE,
                                                                 !.request = "queued"]]
          /\ stack' = <<[op |-> "load", r |-> n, h |-> h, u |-> u, new |-> TRUE]>> \o rest
     /\ UNCHANGED told
  \/ cache' = c /\ stack' = rest /\ UNCHANGED told

MayRequest(h) == MayNest /\ ~Busy(h) /\ HandleOf(h) = {}

Request(h, u) == MayRequest(h) /\ requestResource(cache, h, u, stack)

(* checkForReload with a policy to reload, or when the resource must be    *)
(* revalidated but has no validator.                                       *)
RequestReloading(h, u) ==
  LET e == cache.map[u] IN
  /\ MayRequest(h)
  /\ e # None
  /\ res[e].preload = 0
  /\ requestResource(remove(cache, e), h, u, stack)

(* revalidateResource: another object n takes the place of the old one.    *)
RequestRevalidating(h, u) ==
  LET e == cache.map[u] IN
  /\ MayRequest(h)
  /\ e # None
  /\ res[e].preload = 0 /\ ~res[e].loading /\ res[e].reval = None /\ res[e].enc > 0
  /\ ~res[e].isReval
  /\ \E n \in Resources \ Born :
       LET c1 == [cache EXCEPT !.res[n] = [NewResource(u) EXCEPT !.reval = e],
                               !.res[e].isReval = TRUE]
           c2 == [remove(c1, e) EXCEPT !.map[u] = n, !.res[n].inCache = TRUE]
       IN /\ cache' = [resourceAccessed(c2, n) EXCEPT !.res[n].request = "queued"]
          /\ stack' = <<[op |-> "load", r |-> n, h |-> h, u |-> u, new |-> FALSE],
                        [op |-> "lookup", h |-> h, u |-> u]>> \o stack
  /\ UNCHANGED told

(* setResourceToRevalidate while the clients are still being moved to it.  *)
RevalidatingAgain(h, u) ==
  LET e == cache.map[u] IN
  /\ MayRequest(h)
  /\ e # None
  /\ res[e].preload = 0 /\ ~res[e].loading /\ res[e].reval = None /\ res[e].isReval
  /\ Stop("revalidated once", e)
  /\ UNCHANGED cache

(* The lookup that follows.                                                *)
Lookup == In("lookup") /\ requestResource(cache, Top.h, Top.u, Tail(stack))

(* CachedResource::load sets m_loading when Loader::load has returned, and *)
(* Cache::requestResource then puts the object in the map and has it       *)
(* accessed.  Neither looks whether the object was cancelled and deleted   *)
(* meanwhile: setInCache(true) keeps it from canDelete(), not from remove. *)
LoadReturns ==
  /\ In("load")
  /\ LET c1 == [cache EXCEPT !.res[Top.r].loading = TRUE]
         c2 == IF Top.new THEN [c1 EXCEPT !.map[Top.u] = Top.r] ELSE c1
     IN IF res[Top.r].life = "deleted"
        THEN cache' = c2 /\ Stop("was deleted", Top.r)
        ELSE /\ IF Top.new THEN Deliver(resourceAccessed(c2, Top.r), Top.r, Top.h)
                ELSE cache' = c2 /\ UNCHANGED told
             /\ Pop

-----------------------------------------------------------------------------
(* The holder gives the resource back: removeClient, then the handle.      *)

Release(h) ==
  /\ MayNest
  /\ ~Busy(h)
  /\ \E r \in HandleOf(h) :
       LET c1 == removeClient(cache, r, h)
           last == c1.res[r].clients = {} /\ c1.res[r].inCache
       IN /\ h \in res[r].clients
          /\ cache' = c1
          /\ stack' = (IF last THEN Prune(c1) ELSE <<>>)
                        \o <<[op |-> "release", h |-> h, r |-> r]>> \o stack
  /\ told' = told \ {h}

(* A client that has its handle moved already but is not added yet leaves. *)
ReleaseMoved(h) ==
  /\ MayNest
  /\ ~Busy(h)
  /\ \E r \in HandleOf(h) : h \notin res[r].clients /\ Stop("is a client", r)
  /\ UNCHANGED cache

ReleaseHandle ==
  /\ In("release")
  /\ cache' = deleteIfPossible([cache EXCEPT !.res[Top.r].handles = @ \ {Top.h}], Top.r)
  /\ Pop
  /\ UNCHANGED told

(* An image is painted: it is decoded, and noted as accessed.              *)
Draw(h) ==
  /\ stack = <<>>
  /\ \E r \in HandleOf(h) :
       LET c1 == setDecodedSize(cache, r, Decoded) IN
       /\ res[r].enc > 0 /\ ~res[r].errored
       /\ cache' = c1
       /\ stack' = IF res[r].inCache THEN Prune(c1) ELSE <<>>
  /\ UNCHANGED told

(* DocLoader::clearPreloads: its loop, in which nothing else runs.         *)
ClearPreloads ==
  /\ ClientMayRun
  /\ \E r \in Resources : res[r].preload > 0
  /\ Push([op |-> "clear", todo |-> {r \in Resources : res[r].preload > 0}])
  /\ UNCHANGED <<cache, told>>

ClearPreload(r, c) ==
  LET c1 == [c EXCEPT !.res[r].preload = 0] IN
  IF canDelete(c1.res[r]) /\ ~c1.res[r].inCache THEN deleteIfPossible(c1, r)
  ELSE IF ~c1.res[r].referenced THEN remove(c1, r)
  ELSE c1

ClearNext ==
  /\ In("clear")
  /\ \E r \in Top.todo :
       /\ cache' = ClearPreload(r, cache)
       /\ IF Top.todo = {r} THEN Pop ELSE Replace([Top EXCEPT !.todo = @ \ {r}])
  /\ UNCHANGED told

-----------------------------------------------------------------------------
(* What Loader::Host does to the resource of a request.                    *)

(* servePendingRequests: the request is given to the network, or there is  *)
(* no frame to load for, and it fails at once.                             *)
Serve(r) ==
  /\ HostMayRun
  /\ res[r].request = "queued"
  /\ cache' = [cache EXCEPT !.res[r].request = "loading"]
  /\ UNCHANGED <<told, stack>>

ServeFails(r) ==
  /\ HostMayRun
  /\ res[r].request = "queued"
  /\ cache' = [error(cache, r) EXCEPT !.res[r].request = "ending"]
  /\ Push(Telling(r, "refused"))
  /\ UNCHANGED told

Loading(r) == stack = <<>> /\ res[r].request = "loading"

(* didReceiveData of an image.                                             *)
Data(r) ==
  /\ Loading(r)
  /\ res[r].reval = None /\ ~res[r].errored /\ res[r].enc = 0
  /\ cache' = setEncodedSize(cache, r, Partial)
  /\ UNCHANGED <<told, stack>>

(* didReceiveData of a 4xx answer.                                         *)
HttpError(r) ==
  /\ Loading(r)
  /\ res[r].reval = None /\ ~res[r].errored
  /\ cache' = error(cache, r)
  /\ Push(Telling(r, "return"))
  /\ UNCHANGED told

(* An image that is complete may turn out to be none.                      *)
DidFinishLoading(r) ==
  /\ Loading(r)
  /\ res[r].reval = None
  /\ \/ /\ res[r].errored
        /\ cache' = deleteRequest(cache, r)
        /\ UNCHANGED stack
     \/ /\ ~res[r].errored
        /\ cache' = [setEncodedSize(cache, r, Whole) EXCEPT !.res[r].loading = FALSE,
                                                            !.res[r].request = "ending"]
        /\ Push(Telling(r, "delete request"))
     \/ /\ ~res[r].errored
        /\ cache' = [error(cache, r) EXCEPT !.res[r].request = "ending"]
        /\ Push(Telling(r, "broken"))
  /\ UNCHANGED told

(* Mid-method when a client stops the loads of its document, whose loaders *)
(* fail then and there (SubresourceLoader::didCancel).                     *)
DidFail(r) ==
  /\ MayNest
  /\ res[r].request = "loading"
  /\ cache' = [error(revalidationFailed(cache, r), r) EXCEPT !.res[r].request = "ending"]
  /\ Push(Telling(r, "remove"))
  /\ UNCHANGED told

(* cancelRequests, for a request not served yet and for one in flight.     *)
Cancel(r) ==
  /\ ClientMayRun
  /\ \/ /\ res[r].request = "queued"
        /\ cache' = deleteRequest(remove(cache, r), r)
     \/ /\ res[r].request = "loading"
        /\ cache' = deleteRequest(remove(revalidationFailed(cache, r), r), r)
  /\ UNCHANGED <<told, stack>>

(* didReceiveResponse for a resource that validates another one.           *)
Modified(r) ==
  /\ Loading(r)
  /\ res[r].reval # None
  /\ cache' = clearResourceToRevalidate(cache, r)
  /\ UNCHANGED <<told, stack>>

(* revalidationSucceeded, up to the clients: the old object is put back in *)
(* the cache and takes the handles over.                                   *)
NotModified(n) ==
  LET r == res[n].reval
      c1 == remove(cache, n)
      x == [c1.res[r] EXCEPT !.inCache = TRUE, !.queue = lruIndex(c1.res[r]),
                             !.listed = c1.res[r].dec > 0 /\ c1.res[r].clients # {},
                             !.handles = @ \cup res[n].handles]
  IN
  /\ Loading(n)
  /\ r # None
  /\ cache' = adjustSize([c1 EXCEPT !.map[x.url] = r, !.res[r] = x,
                                    !.res[n].handles = {}, !.res[n].clients = {},
                                    !.res[n].request = "ending"],
                         x.clients # {}, size(x))
  /\ Push([op |-> "switch", r |-> r, n |-> n, todo |-> res[n].clients, called |-> FALSE])
  /\ UNCHANGED told

(* Mutant: the clients are not told that the resource is there.            *)
SwitchNext_NotTold ==
  /\ In("switch")
  /\ \E h \in Top.todo :
       /\ cache' = addClient(cache, Top.r, h)
       /\ Replace([Top EXCEPT !.todo = @ \ {h}, !.called = TRUE])
  /\ UNCHANGED told

(* switchClientsToRevalidatedResource: addClient, which tells the client.  *)
SwitchNext ==
  /\ In("switch")
  /\ \E h \in Top.todo :
       /\ cache' = addClient(cache, Top.r, h)
       /\ told' = told \cup {h}
       /\ Replace([Top EXCEPT !.todo = @ \ {h}, !.called = TRUE])

SwitchDone ==
  /\ In("switch")
  /\ Top.todo = {}
  /\ cache' = deleteRequest(clearResourceToRevalidate(cache, Top.n), Top.n)
  /\ Pop
  /\ UNCHANGED told

(* checkNotify, with a walker that skips clients that have left.  It looks *)
(* in the set of an object that its clients may have deleted, unless the   *)
(* caller has kept it.                                                     *)
NotifyNext ==
  /\ In("notify")
  /\ \E h \in Top.todo :
       IF res[Top.r].life = "deleted" THEN Stop("was deleted", Top.r)
       ELSE /\ told' = IF h \in res[Top.r].clients THEN told \cup {h} ELSE told
            /\ Replace([Top EXCEPT !.todo = @ \ {h}, !.called = h \in res[Top.r].clients])
  /\ UNCHANGED cache

(* setLoadInProgress(false) may find the document complete, which its      *)
(* scripts hear of before the request is deleted.                          *)
LoadDone ==
  /\ In("notify")
  /\ Top.todo = {} /\ ~Top.called /\ Top.then \in {"refused", "remove"}
  /\ Replace([Top EXCEPT !.called = TRUE])
  /\ UNCHANGED <<cache, told>>

NotifyDone ==
  /\ In("notify")
  /\ Top.todo = {}
  /\ LET removes == Top.then = "broken" \/ (Top.then = "remove" /\ res[Top.r].preload = 0)
     IN cache' = IF Top.then = "return" THEN cache
                 ELSE deleteRequest(IF removes THEN remove(cache, Top.r) ELSE cache, Top.r)
  /\ Pop
  /\ UNCHANGED told

-----------------------------------------------------------------------------
(* The loops of pruneDeadResources, queue by queue from the largest        *)
(* objects: decoded data is flushed, then objects are evicted.  And of     *)
(* pruneLiveResources, which gives up at the first object drawn lately.    *)

Victims == {r \in Alive : res[r].inCache /\ res[r].queue = Top.i /\ res[r].clients = {}
                          /\ res[r].preload = 0}
Flushable == {r \in Victims : ~res[r].loading /\ res[r].dec > 0 /\ ~res[r].errored}

InPass(pass) == In("prune") /\ Top.pass = pass
PruneDeadDone(c) == stack' = PruneLive(c) \o Tail(stack)

Flush ==
  /\ InPass("flush")
  /\ IF Flushable = {}
     THEN Replace([Top EXCEPT !.pass = "evict"]) /\ UNCHANGED cache
     ELSE \E r \in Flushable :
            /\ cache' = setDecodedSize(cache, r, 0)
            /\ IF cache'.dead <= Top.target THEN PruneDeadDone(cache') ELSE UNCHANGED stack
  /\ UNCHANGED told

(* Mutant: objects are evicted from the largest queue only.                *)
Evict_OneQueue ==
  /\ InPass("evict")
  /\ IF Victims = {}
     THEN IF Top.i = MaxIndex - 1 THEN PruneDeadDone(cache) /\ UNCHANGED cache
          ELSE Replace([Top EXCEPT !.pass = "flush", !.i = @ - 1]) /\ UNCHANGED cache
     ELSE \E r \in Victims :
            /\ cache' = remove(cache, r)
            /\ IF cache'.dead <= Top.target THEN PruneDeadDone(cache') ELSE UNCHANGED stack
  /\ UNCHANGED told

Evict ==
  /\ InPass("evict")
  /\ IF Victims = {}
     THEN IF Top.i = 0 THEN PruneDeadDone(cache) /\ UNCHANGED cache
          ELSE Replace([Top EXCEPT !.pass = "flush", !.i = @ - 1]) /\ UNCHANGED cache
     ELSE \E r \in Victims :
            /\ cache' = remove(cache, r)
            /\ IF cache'.dead <= Top.target THEN PruneDeadDone(cache') ELSE UNCHANGED stack
  /\ UNCHANGED told

FlushLive ==
  /\ InPass("live")
  /\ \/ \E r \in Alive :
          /\ res[r].listed /\ ~res[r].loading /\ res[r].dec > 0
          /\ cache' = setDecodedSize(cache, r, 0)
          /\ IF cache'.live <= Top.target THEN Pop ELSE UNCHANGED stack
     \/ Pop /\ UNCHANGED cache
  /\ UNCHANGED told

-----------------------------------------------------------------------------
Client ==
  \/ \E h \in Holders : Release(h) \/ ReleaseMoved(h) \/ Draw(h)
  \/ \E h \in Requesters, u \in Urls :
       \/ Request(h, u) \/ RequestReloading(h, u)
       \/ RequestRevalidating(h, u) \/ RevalidatingAgain(h, u)
  \/ ClearPreloads
  \/ \E r \in Resources : Cancel(r)

Network(r) ==
  \/ Serve(r) \/ ServeFails(r) \/ Data(r) \/ HttpError(r) \/ DidFinishLoading(r)
  \/ DidFail(r) \/ Modified(r) \/ NotModified(r)

Internal ==
  \/ Lookup \/ LoadReturns \/ ReleaseHandle \/ ClearNext
  \/ SwitchNext \/ SwitchDone \/ NotifyNext \/ LoadDone \/ NotifyDone
  \/ Flush \/ Evict \/ FlushLive

Next == Client \/ Internal \/ \E r \in Resources : Network(r)

Spec == Init /\ [][Next]_vars
-----------------------------------------------------------------------------
(* Properties.                                                             *)

ResourceType ==
  [life : {"unborn", "alive", "deleted"}, url : Urls \cup {None}, inCache : BOOLEAN,
   enc : 0..Whole, dec : {0, Decoded}, access : 0..MaxAccess,
   queue : (0..MaxIndex) \cup {None}, listed : BOOLEAN, clients : SUBSET Holders,
   handles : SUBSET Holders, request : {"none", "queued", "loading", "ending"},
   preload : 0..1, referenced : BOOLEAN, reval : Resources \cup {None},
   isReval : BOOLEAN, loading : BOOLEAN, errored : BOOLEAN]

Frames ==
  [op : {"lookup"}, h : Holders \cup {Preload}, u : Urls]
  \cup [op : {"load"}, r : Resources, h : Holders \cup {Preload}, u : Urls, new : BOOLEAN]
  \cup [op : {"clear"}, todo : SUBSET Resources]
  \cup [op : {"release"}, h : Holders, r : Resources]
  \cup [op : {"notify"}, r : Resources, todo : SUBSET Holders, called : BOOLEAN,
        then : {"return", "refused", "delete request", "broken", "remove"}]
  \cup [op : {"switch"}, r : Resources, n : Resources, todo : SUBSET Holders, called : BOOLEAN]
  \cup [op : {"stop"}, why : {"revalidated once", "is a client", "was deleted"}, r : Resources]
  \cup [op : {"prune"}, pass : {"flush", "evict", "live"}, i : 0..MaxIndex, target : 0..Capacity]

(* Every variable has its type; the totals never wrap below zero.          *)
TypeOK ==
  /\ cache.res \in [Resources -> ResourceType]
  /\ cache.map \in [Urls -> Resources \cup {None}]
  /\ cache.live \in Nat /\ cache.dead \in Nat
  /\ told \subseteq Holders
  /\ stack \in Seq(Frames)

InCache == {r \in Resources : res[r].inCache}
SizeOf(S) == Cardinality({p \in S \X (1..(Whole + Decoded)) : p[2] <= size(res[p[1]])})

(* m_liveSize and m_deadSize, kept by deltas at a dozen places, are the    *)
(* sizes of the objects in the cache with and without clients.             *)
SizesExact ==
  /\ cache.live = SizeOf({r \in InCache : res[r].clients # {}})
  /\ cache.dead = SizeOf({r \in InCache : res[r].clients = {}})

(* An object of the cache that was accessed is in the LRU list its size    *)
(* and access count lead to, and so can be found and taken out again       *)
(* (ASSERT(found), Cache.cpp:457); an object out of the cache is in none.  *)
FoundInItsList ==
  \A r \in Resources :
    /\ res[r].queue = IF res[r].inCache /\ res[r].access > 0 THEN lruIndex(res[r]) ELSE None
    /\ res[r].listed => res[r].inCache /\ res[r].clients # {} /\ res[r].dec > 0

(* The books of the cache are in order: types, totals and lists.           *)
BooksExact == TypeOK /\ SizesExact /\ FoundInItsList

(* The objects that methods in progress go on with, but for two that have  *)
(* no hold on theirs: load() before it returns, and error() of a 4xx       *)
(* answer (loader.cpp:433).                                                *)
Keeps(f) == f.op \in {"release", "switch"} \/ (f.op = "notify" /\ f.then # "return")
InUse ==
  {stack[i].r : i \in {k \in 1..Len(stack) : Keeps(stack[k])}}
  \cup {stack[i].n : i \in {k \in 1..Len(stack) : stack[k].op = "switch"}}

(* These two do use an object after it was deleted (CachedResource.cpp:98  *)
(* and Cache.cpp:129, CachedResourceClientWalker.cpp:48).                  *)
UsedWhenDeleted(r) == In("stop") /\ Top.why = "was deleted" /\ Top.r = r

(* Whatever nests, an object that the map, another object or a method in   *)
(* progress points to has not been deleted, and none that was is written   *)
(* to; except by the two methods that have no hold on theirs.              *)
ReferencedIsAlive ==
  /\ InUse \subseteq Alive
  /\ \A r \in Resources : ~UsedWhenDeleted(r) =>
       /\ res[r].life = "deleted" => res[r] = Gone
       /\ res[r].reval # None => res[res[r].reval].life = "alive" /\ res[res[r].reval].isReval
       /\ \A u \in Urls : cache.map[u] = r => res[r].life = "alive" /\ res[r].inCache

(* When nothing runs, an object outside the cache that could be deleted    *)
(* has been: the last of its clients, handles, requests and preloads to go *)
(* deletes it.                                                             *)
DeletableIsDeleted ==
  stack = <<>> => \A r \in Alive : ~(canDelete(res[r]) /\ ~res[r].inCache)

(* When nothing runs, the clients of a loaded object have been told,       *)
(* those included that came while the others were being told or that were  *)
(* moved to it by a revalidation.                                          *)
LoadedIsTold ==
  stack = <<>> => \A r \in Alive : ~res[r].loading => res[r].clients \subseteq told

(* pruneDeadResources stops below its target, or with nothing left that    *)
(* it may evict, though objects change lists while it walks them.          *)
PrunedEnough ==
  [][\A c \in {cache'} :
       In("prune") /\ Top.pass # "live" /\ (stack' = <<>> \/ Head(stack').op # "prune"
                                             \/ Head(stack').pass = "live")
         => \/ c.dead <= Top.target
            \/ \A r \in Resources : c.res[r].inCache /\ c.res[r].clients = {} /\ c.res[r].access > 0
                                     => c.res[r].preload > 0]_vars
=============================================================================
