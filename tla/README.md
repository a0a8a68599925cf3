# A TLA+ model of iSee's loading, timers and storage

iSee (`src/ iseebrowser/`) is a port of WebKit (2008) to Windows CE: the WebKit
libraries `JavaScriptCore` and `WebCore`, a shell of its own in `iSee`, a disk
cache written for the port, and vendored libraries under `iSee/iSeeLibs`. This
project models the parts in which almost everything that can go wrong is a matter
of order: **how resources are requested, scheduled, transferred by libcurl and
cached in memory and on disk; the timers that drive all of it; and the storage
that pages use from two threads.**

The build that is modelled is the port's: `BUILDING_ISEE__=1`, hence `USE(CURL)`
(`WebCore/config.h:146-158`), `PLATFORM(ISEE)`, `DIRECT_GET_FILE 0`
(`CacheFiles.h:7`), `REQUEST_MANAGEMENT_ENABLED 1`. Local storage is the one
exception: `DOM_STORAGE` is off in the port's own build; the code is modelled as
the repository's other ports build it.

## 1. Inventory

Paths below are relative to `src/ iseebrowser/`. *WPN* is
`WebCore/platform/network`, *WL* is `WebCore/loader`.

| Component | State it keeps | Operations | Hard part | Status |
|---|---|---|---|---|
| Curl transfer manager, *WPN*`/curl/ResourceHandleManager.cpp` | queue of jobs, count of running jobs, one-shot timer, easy handle and flags of each job | `add`, `cancel`, `downloadTimerCallback`, libcurl callbacks, `parseDataUrl`, restart on a cached file | client code runs inside its callbacks and calls it back; slots; who re-arms the timer; cancelled jobs; several header blocks | modelled |
| Resource handle, *WPN*`/ResourceHandle.cpp`, `curl/ResourceHandleCurl.cpp` | client pointer, failure timer | `create`, `start`, `cancel`, `fireFailure`, synchronous load | failure timer against cancellation; handles that outlive their loader | modelled |
| Upload stream, *WPN*`/curl/FormDataStreamCurl.cpp` | position in the form | `read` | end of the form and errors look alike | partly |
| Resource loaders, *WL*`/ResourceLoader.cpp`, `SubresourceLoader.cpp` | handle, `m_cancelled`, terminal state | `load`, `cancel`, the callbacks | cancellation inside a callback | partly |
| Disk cache, `iSee/iSee/WebCoreSupport/CacheFiles.cpp` | entry per URL: date, file, open `FILE*` | `openFile`, `writeFile`, `closeFile`, `updateUrl`, look-ups | transfers of one URL that overlap, answers out of order, I/O errors, stopped transfers | modelled |
| Subresource scheduler, *WL*`/loader.cpp` | per host: a queue per priority, requests in flight; a timer | `load`, `servePendingRequests`, the callbacks, `cancelRequests` | every method nests in every other through client code | modelled |
| Document's loader, *WL*`/DocLoader.cpp` | request count, load-in-progress flag, pending preloads | `preload`, `checkForPendingPreloads`, `requestResource`, `checkForReload` | count exact under nesting | partly |
| Memory cache, *WL*`/Cache.cpp`, `CachedResource.cpp`, `CachedImage.cpp` | map by URL, LRU lists, live and dead sizes; per object its clients, handles, request, preload count, revalidation | request, reload, revalidate, prune, remove, delete | no reference count; several objects for a URL; size deltas; lists that change while they are walked | partly |
| Timers, `WebCore/platform/Timer.cpp`, `iSee/iSee/platform/SharedTimerISee.cpp` | heap, timers ready to fire, deferral; shared timer, last chance timer | start, stop, fire, defer | nested event loops; one wake-up for all; lost WM_TIMER | modelled |
| Main thread and queues, `JavaScriptCore/wtf/MainThread.cpp`, `MessageQueue.h` | queue of calls, queues of tasks | append, prepend, wait, kill | lost wake-ups, calls that outlive their purpose | partly (as the databases use them) |
| Client databases, `WebCore/storage/SQLTransaction.cpp`, `Database.cpp`, `DatabaseThread.cpp` | a transaction's next step, statements and callbacks; a queue of transactions per database; a queue of tasks | `transaction`, `executeSql`, the steps, open, close, delete, stop | two threads, errors at every step, quota, shutdown | partly |
| Local storage, `WebCore/storage/LocalStorage*.cpp`, `StorageArea.cpp`, `StorageMap.cpp` | map in memory, changed items, items pending, the rows on disk | set, remove, clear, read, import, sync, close | import thread; batches; sudden end | partly |
| XMLHttpRequest, `WebCore/xml/XMLHttpRequest.cpp` | ready state, error flag, loader, preflight flag, its own protection | `open`, `send`, `abort`, the loader's callbacks | every event may call every method | partly |
| Frame and document loaders, *WL*`/FrameLoader.cpp`, `DocumentLoader.cpp`, `MainResourceLoader.cpp` | provisional/committed state, loaders | navigate, commit, stop, complete | re-entrancy; completeness | not modelled |
| Icon database, *WL*`/icon` | icons, retain counts, pending work of two threads | retain, release, sync | interleaving | not modelled |
| History and page cache, `WebCore/history` | back/forward list, LRU list of cached pages | go back, prune | shared items | not modelled |
| Application cache, *WL*`/appcache` | | | not built (`ENABLE_OFFLINE_WEB_APPLICATIONS` off) | not modelled |
| JavaScript engine, DOM, CSS, rendering, SVG, shell | heaps and trees | | data structures, not protocols; seen here as "client code" | not modelled |
| libcurl, SQLite, cairo, freetype, libxml, ... | | | third-party; libcurl and SQLite are environments, from how the code uses them | not modelled |

How the modelled parts interact:

    DocLoader / parser / elements            scripts
        |   MemoryCache.tla                     |  XMLHttpRequest.tla
        | Loader::load, cancelRequests          |  ^ data, finish, error
        v                                       |  |
    Loader::Host        (LoaderHost.tla)        |  |
        | SubresourceLoader::create             |  |
        v                                       v  |
    SubresourceLoader, ResourceLoader  (ResourceHandleClient.tla: what they rely on)
        | ResourceHandle::create, cancel    ^  ResourceHandleClient callbacks
        v                                   |
    ResourceHandleManager  (ResourceHandleManager.tla)  <---> libcurl
        | openFile, writeFile, closeFile, updateUrl, getCacheUrl, getIfModifiedSince
        v
    CacheFiles             (CacheFiles.tla)

    Timers.tla             wakes the manager, the hosts and the storage sync
    Databases.tla          main thread <-> database thread, through two queues
    LocalStorage.tla       main thread <-> local storage thread, through one queue,
                           two locks and a condition

Everything but the last two runs on one thread. Concurrency comes there from
*nesting*: a callback runs client code, which may call any entry point of any of
these parts while the caller is in the middle of its work. The models keep, for
that reason, an explicit record of what is in progress (`pc` and `cb`, or `stack`),
and enable the client's actions whenever client code may be running. The storage
components have real threads: there an action is what happens between two points
at which the other thread can be seen to act.

The hazards the code is exposed to are listed, each at its line, under
`hazards` in `PROJECT.json`, with the properties aimed at them or the reason
why there is none yet.

## 2. Modules

### ResourceHandleManager.tla

| Variable | Code |
|---|---|
| `list`, `running`, `timerActive` | `m_resourceHandleList`, `m_runningJobs`, `m_downloadTimer.isActive()` |
| `pc`, `started`, `stillRunning` | the stage of `downloadTimerCallback`; its locals `started` and `runningHandles > 0` |
| `cb` | the `ResourceHandleClient` method being called, and for which job |
| `curl` | each job's easy handle: none, refused by `curl_multi_add_handle`, active, or done (`ok`, `failed`) with its message unread |
| `cancelled`, `fired`, `fromCache`, `failing` | `m_cancelled`, `responseFired()`, `m_readFromCache`, `m_failureTimer` |
| `local` | the handle delivers no header block (file: URL, or a restart on the cached file) |
| `moved` | what a `Location` left in `m_response` does to later header blocks |
| `client` | what the loader has been told: the history the properties talk about |
| `addErrors`, `selectErrors`, `stalled` | environment errors so far; the last pass ended in the error return |

A pass of the timer callback is `TimerFires`, `StartDataJob`/`StartTransfer`/
`StartScheduledDone`, `SelectReturns` (or `SelectFails`), the libcurl callbacks
(`HeaderBlock`, `BodyBlock`, `UploadRunsDry`, and the ends `Completes`, `Breaks`)
up to `PerformReturns`, the message loop (`ReapCancelled`, `RestartFromCache`,
`TellOutcome`) up to `DrainDone`, and again the start of scheduled jobs, whose
end decides whether the timer is re-armed. Each call of the client is two
actions, `Begin` and `...Returns`, between which `Add`, `Refuse`, `Cancel` and
`LoadSynchronously` are enabled. `Refuse` and `FireFailure` are the failure
timer of a refused URL.

Messages are taken in any order and the network does anything libcurl can
report. What is *not* in the model: re-entry of the timer callback from a nested
event loop (it would enter `curl_multi_perform` recursively, whose behaviour is
libcurl's and undefined), the contents of requests and responses, cookies and
proxies.

### ResourceHandleClient.tla

The abstract specification of one back end: per load, a start, responses, one
end, nothing afterwards. `ResourceHandleManager` implements it for http loads
(`HttpClientProtocol`, an `INSTANCE ... WITH` a refinement mapping). The mapping
shows a job whose last header block was misread (a redirect's `Location` that
outlives the redirect, section 4) as having responded: the exception is stated,
not hidden. For data: and file: URLs the code violates the protocol (section 4),
which is why the mapping is restricted to `HttpJobs`.

### CacheFiles.tla

The entries (`known`, `date`, `holder` = `fpCache`, `file`), the transfers that
use them (`phase`, `url`, `since`, `moved`, `reply`, `handle` = `m_cacheFile`,
`received`, `buffered`) and a server whose pages have a `version` that grows. A
version is both the content and the Last-Modified date; a body is cut into
`Blocks` blocks, each of which `writeFile` may put in the stdio buffer
(`buffered`), on the disk, or nowhere. `Start`, `Redirected`, `NewFile`,
`NotModified`, `Misread`, `Body`, `Complete`, `Restart`, `ReadFile` and `Break` are
the places of the transfer manager that use the cache; the server's answers are
fixed when they are sent (`Answer`) and read later, so two answers may be
overtaken. `LoadSynchronously` is the same for `dispatchSynchronousJob`, which
never closes the file.

The code gives up the truth of an entry in a number of ways. They are named one
by one in `SpoiltBy`, `Redated` and in `Body`, and recorded in the history
variable `tainted`: a failing `fopen`, a 304 that finds no entry, an undated answer
over a dated entry, the error page a redirect led to (it counts as dated, with the redirect's
date: `stampedError`), an answer older than a date the entry has had, a 304 to a later date than
the entry's own, a write through a `FILE*` the entry no longer has, a failed write.
`CacheTruth` and `ServedWhole` say that *nothing else* spoils one. The newest date an
entry ever had is the history variable `newest`: when an undated answer has removed
the date, a reader may still hold a 304 to it, and an older answer then spoils the entry
for that reader though it is newer than anything the entry now knows. An entry that is
still held open, by a transfer that stopped, is outside them too (section 4).

Left out: MIME types and ages, the wrap of `cacheFileId` at 100000, keys that
differ only in case, interim 100 answers (which reopen the file), HEAD requests
(which truncate it), the unused size limit and `haveExpire`; `startCaches` and
`endCaches`, which run before the first and after the last load.

### LoaderHost.tla

`Loader` with one `Host`: `pending` (a queue per priority), `loading`, the
request `count` and `inProgress` flag of each document, `multipart`,
`validators`, `errored`, the request `timer`, `settled` (parsed and all
stylesheets there), `rendered`, `preloads`. `stack` holds the methods in
progress, each with the place it has reached; `"resource"` and `"done"` are the
places where client code runs (`resource->data/finish/error`, and
`setLoadInProgress(false)`, which checks whether the document is complete).
`Load`, `Preload`, `CancelRequests` and `DidCancel` (a page stops its loaders, and each
fails then and there) are enabled there as well as on an empty
stack, so `didFinishLoading` may contain a `cancelRequests` that contains a
`load`, and so on.

`Subsequences.tla` has the one operator for what a loop leaves of a queue, `AtPlaces`:
the elements at some of its places, in order. `cancelPendingRequests` is that, and so
is `unscheduleDatabaseTasks` in `Databases`.

`dropped` records the requests whose handle the host itself cancelled: the
transfer manager never calls back for those (see `ResourceHandleManager`).
The deletion of empty hosts is not modelled; the lookup in the memory cache that
precedes a `load` is in `MemoryCache`.

### MemoryCache.tla

`cache` is `Cache` with its `CachedResource` objects: `res[r]` has, for each object,
whether it is alive, `inCache`, sizes (encoded and decoded), access count, the
LRU list it is in (`queue`) and whether it is in the list of live decoded objects
(`listed`), its clients, handles, request, preload count and the two ends of a
revalidation (`reval` = `m_resourceToRevalidate`, `isReval`). `map` is
`m_resources`, `live` and `dead` are the two sizes. Operators named after the methods
(`addClient`, `removeClient`, `remove`, `setDecodedSize`, ...) take a state of the
cache to the next; actions compose them as the code does. `stack` holds the methods
in progress: `lookup`, `load` (inside `Loader::load`), `release`, `notify` (the
walk of the clients), `switch` (the move of the clients of a validated object), `clear`
(the walk of `m_preloads`, during which nobody else runs: `ClearNext` is one object of it)
and `prune` with its three loops. Deleting an object is irrevocable (`Gone`), and a write
to one that is gone shows in `ReferencedIsAlive`. Two methods of the code do use an object
that the client code they called may have deleted (section 4): `LoadReturns` and
`NotifyNext` have no guard against it, write to the deleted object and put it in the map
as the code does, and the model ends there (`Stop`), since what follows is undefined. It
also ends where an ASSERT fails that client code can make fail (`RevalidatingAgain`,
`ReleaseMoved`), as a debug build does.

`Serve` to `NotModified` are what `Loader::Host` does to an object; `LoadDone` is the
client code inside `setLoadInProgress(false)`, and `"broken"` the end of an image that cannot be
decoded. Kept out: the
order inside a list (a victim is any object the loop may reach, and the neighbour that the
loops of `Cache.cpp:306` keep is not there), all kinds
of resource but images, the disabled cache, multipart images.

### Timers.tla

| Variable | Code |
|---|---|
| `heap`, `time`, `interval` | `timerHeap` as the order in which it gives its timers, `m_nextFireTime` (relative to now), `m_repeatInterval` |
| `ready` | `timersReadyToFire` |
| `shared` | `pendingTimers` with its message, `sharedTimerID`, `lastChanceTimerID`, `processingCustomTimerMessage` |
| `stack` | the calls of `sharedTimerFired` in progress, with what is left of each one's loop |
| `dropped` | history: collected timers that no loop will fire |

`Until` is the moment for which the shared timer is set, that of the first timer of the
heap. `Tick` passes time; `Start`, `Stop`, `DeferAndResume` and `FireTimersInNestedEventLoop` are enabled wherever
code runs. `TimerFiredMessage`, `WmTimer` and `LastChance` are the three ways
the shared timer reaches `sharedTimerFired`; a `WM_TIMER` may be lost
(`SharedTimerISee.cpp:249` says that Windows does so).

### DatabaseService.tla and Databases.tla

`DatabaseService` says what pages are promised: one transaction of a database at a
time, in order; each is told of its outcome once, success only after the commit;
only a database that is gone ends one in silence. `Databases` implements it
(`ServesPage`).

In `Databases`, `tx[x].next` is `m_nextStep`; `tasks` and `callbacks` are the two
queues; `waiting` is `m_transactionQueue`; `thread` and `main` say what each thread is
doing. A step of the database thread is three actions (`CheckClosed`, the step,
`StepReturns`), since the main thread may run the callback that the step has
scheduled before the step returns. Each callback of the page is a `BeginCallback` and
one of the `End...` actions, which is where the page decides what happens next.
A step fails nondeterministically where SQLite may fail, BEGIN included. `stopDatabases` and
`markAsDeletedAndClose` come at any moment; the latter is the tracker's API, which
the iSee shell itself does not call.

Kept out: page callbacks that nest in one another (a modal dialog in one), object
lifetimes (the destructor of a transaction that is never scheduled), table names,
versions. Raising the quota is the client's choice; `ChromeClientISee.cpp:300` never
does.

### XMLHttpRequest.tla

`xhr` has `m_state`, `m_error`, `m_loader`, `m_sameOriginRequest`, `m_inPreflight`, the
kind of request (`target`) and the count of `ref()`s of itself (`refs`); `net` the
loaders; `stack` the events being dispatched and, beneath each, the place where the
method that dispatched it goes on. `Script` is enabled on an empty stack and inside
every event; `Loader(l)` only on an empty stack, since loaders call from the message
loop. `asked` and `lost` are history: what became of the last `send()`, and which
loaders the object has overwritten without cancelling them.

### StorageService.tla and LocalStorage.tla

`StorageService` says what is promised of the disk: each item follows the changes the
pages were told of, may skip some, loses the last ones in a sudden end, and never goes
back. `LocalStorage` implements it with `saved <- disk` and the history `changes`
(`SavesInOrder`).

| Variable | Code |
|---|---|
| `area` | `m_storageMap`, `m_importComplete`, `m_changedItems`, `m_itemsCleared`, `m_syncTimer`; `early` is history: items removed before they were imported |
| `sync` | under `m_syncLock`: `m_itemsPendingSync`, `m_clearItemsWhileSyncing`, `m_syncScheduled` |
| `queue`, `thread` | the thread's `m_queue`; what it does, the batch it has swapped out, and whether its database is open |
| `main` | running, waiting for the import (`reading`), for the thread to end (`closing`), or for itself (`locked out`) |
| `disk` | the rows of `ItemTable` |

`PerformImport`, `ImportItem` and `ImportDone` are the import, with `m_importLock` held
from the first item to the last (`MayLock`); `PerformSync` swaps the batch,
`ClearItems` and `WriteItem` write it row by row (there is no transaction), `SyncFails`
is a failing statement. `Restart` ends the browser at any moment, closed or not.
`clear()` takes no lock: racing an import it replaces the map under it, which the model
has as the items that come back; the C++ data race itself is undefined.

### *_proofs.tla

The theorems (section 5). Each component's are in a module of their own, which extends
the component's and begins with the lemmas about sequences and numbers that its proofs
cite, so that each can be read and checked by itself.

### MC_*.tla

Give the constants their small values for TLC. Every operator of a module whose
name ends in `_Something` after the name of another (`Forget_CountedTwice`) is a
plausible slip in that operator; no specification uses one. They document which
mistakes each property would catch.

## 3. Runs

Passing runs. Sizes are distinct states.

| Run | Instance | Properties | States |
|---|---|---|---|
| `transfers` | 2 http jobs, a data: and a refused one, 1 slot, 1 refused handle, 1 select error | `TypeOK`, `SlotAccounting`, `NoStrandedWork`, `HttpClientProtocol` | 1.0 M |
| `transfers_live` | a file: job and an upload, 1 slot | `EveryLoadEnds`, `CancelledSlotsComeBack` | 31 k |
| `cache` | a page with and without fragment and another page, 3 loads, one synchronous, 2 versions, 1 fault | `TypeOK`, `CacheTruth`, `ServedWhole` | 2.7 M |
| `loader_host` | 2 documents: a script the scanner may preload, an image to revalidate, another image; 1 slot | `TypeOK`, `CountsRequests`, `NoStrandedRequests`, `HigherFirst` | 3.3 M |
| `loader_live` | script and image, 1 slot | `EveryRequestServed` | 16 k |
| `memory_cache` | 3 objects for one URL, 2 elements, the preload scanner, capacity 3 | `BooksExact`, `ReferencedIsAlive`, `DeletableIsDeleted`, `LoadedIsTold`, `PrunedEnough` | 1.2 M |
| `timers` | 2 timers, 2 nested calls | `TypeOK`, `SharedTimerArmed`, `StartedIsActive`, `FiresInOrder`, `EveryTimerFires` | 95 k |
| `databases` | 1 database, 2 transactions, 2 statements in all | `TypeOK`, `StepsMatch`, `NoneLeftOpen`, `ServesPage`, `EveryTransactionEnds`, `MainThreadReturns` | 213 k |
| `xhr` | 3 loaders, 2 nested events | `TypeOK`, `ProtectedWhileLoading`, `AbortReachesAll`, `NobodyWaitsInVain`, `ReadyStateForward` | 1.6 M |
| `local_storage` | 2 items, 2 writes, 1 fault or sudden end | `ChangesAreScheduled`, `MapIsCurrent`, `SavesInOrder`, `MainThreadReturns`, `ChangesReachDisk` | 351 k |

What the properties say:

- `SlotAccounting`: `m_runningJobs` is the number of jobs with an easy handle, at most
  `maxRunningJobs`, through cancellations, restarts and refused handles. (That a job
  is queued once and without a handle, `QueuedOnce`, is proved with it.)
- `NoStrandedWork`: with no timer armed there is nothing to do. Two exceptions are
  the code's own: the error return after `select()`, and every slot lost to a handle
  that curl refused (each such refusal loses a slot for good).
- `HttpClientProtocol`: what an http loader sees is a run of `ResourceHandleClient`.
- `EveryLoadEnds`, `CancelledSlotsComeBack`: the liveness counterparts. The instance has no
  refused URL, so the race of its failure timer with a cancellation
  (`ResourceHandle.cpp:73`) is in `transfers` alone.
- `CacheTruth`: the file of an entry that nobody holds open and nothing has spoilt is
  the whole of the version for which the server would answer 304 to its date.
- `ServedWhole`: a job told 304 reads a whole version, no older than vouched for.
- `CountsRequests`: `m_requestCount`, which decides when a page is complete, is exact at
  every place of every method, however they nest.
- `NoStrandedRequests`, `EveryRequestServed`: a queued request always has something
  to wait for, and is served in the end.
- `HigherFirst`: a free slot never goes to a less important request.

- `BooksExact` (the types, `SizesExact` and `FoundInItsList`): the totals and the lists of the memory cache, kept by
  deltas and by recomputed indices at a dozen places, are exact at every place of every
  method; otherwise pruning runs wild or an object is unlinked from the wrong list.
- `ReferencedIsAlive`, `DeletableIsDeleted`: no object is deleted while the map, another
  object or a method in progress points to it, and no method writes to one that was;
  and the last thing to let go of an object deletes it. Two methods have no hold on their
  object and are exceptions to the first, named in it: `load()` before it returns, and
  `error()` of a 4xx answer. Whatever they do to a deleted object, the rest of the cache
  stays in order.
- `LoadedIsTold`: whoever is a client of a loaded object has been notified, also one that
  came during the notification or was moved by a revalidation.
- `PrunedEnough`: pruning stops below its target or with nothing left to evict, though
  objects change lists while it walks them. It says nothing of the loops' neighbour pointer.
- `SharedTimerArmed`, `StartedIsActive`, `FiresInOrder`, `EveryTimerFires`: the one wake-up is
  never later than the first timer; a started timer is in the heap or among the collected
  ones that the innermost loop will reach; none fires early or before an earlier one;
  and an overdue one fires. Timers dropped by a nested loop are the code's exception.
- `StepsMatch`, `NoneLeftOpen`: a transaction is with one thread at a time, and none that
  is over leaves SQLite's transaction open.
- `ServesPage`: the two threads implement `DatabaseService`.
- `EveryTransactionEnds`, `MainThreadReturns` (databases): the liveness counterparts.
- `ProtectedWhileLoading`: an `XMLHttpRequest` has a reference of its own for every loader
  it knows, so no loader calls one that is deleted.
- `AbortReachesAll`: a loader at work is the one `abort()` would cancel, except those the
  code is known to overwrite (section 4).
- `NobodyWaitsInVain`: a page that waits after `send()` has a loader at work whose
  callbacks are not ignored.
- `ReadyStateForward`: only `open` and `abort` lower `readyState`.
- `ChangesAreScheduled` (with the types), `MapIsCurrent`: every change of local storage is in
  the hands of a timer, a task or the thread; after the import the map has the last
  value of every item.
- `SavesInOrder`: the disk implements `StorageService` through crashes and failures. Of a
  value that is in an item's history more than once (only a removal can be) it takes the
  first place, so that after a second removal the value between the two is not yet ruled out.
- `MainThreadReturns` (local storage), `ChangesReachDisk`: whoever waits is woken, and
  every change reaches the disk unless SQLite fails or the page locked itself out. (A nested
  write does not: the Windows mutex is recursive. A nested read does, as its wait gives up one
  hold of two.)

Runs that show a disagreement (`expect: violation`, quoted in `findings`):

| Run | What TLC shows |
|---|---|
| `timers_dropped` | a timer that was collected together with one whose `fired()` runs a nested event loop never fires |
| `databases_quota` | the error of a statement that exceeded the quota fails the transaction although the page has handled it |

### Bounds, and why they are enough

- `MaxRunning`, `MaxInFlight` 1 for the code's 5 and 4 (20 for schemes other than http): the code only
  compares the count with the limit; what matters is that more jobs than slots exist,
  that a slot is free, taken, given back and taken again.
- `MaxAddErrors`, `MaxSelectErrors`, `MaxFaults` 1: one error at any place; a second one
  meets no state the first has not made.
- `MaxVersion` 1: an older and a newer content are all `CacheTruth` tells apart.
  `Blocks` 1: a body is buffered, on the disk or missing; parts of several blocks behave
  as one that is missing.
- `MaxDepth` 2 (loader host, memory cache, timers, xhr): a method with another, and a
  call of client code inside it; the frames the code itself pushes come on top.
- Memory cache: 3 objects, the one in the map, the one it revalidates and one left over
  from a reload; 2 elements, so that one comes or leaves while the other is told.
  `Capacity` 3 is less than two whole images, so every load prunes. `MaxAccess` 2
  reaches every list that sizes up to 4 have.
- Timers: delays 0 and 1. With `Quick = 1` both are below `USER_TIMER_MINIMUM`, and
  which of the posted message and `SetTimer` is used depends on the state of the
  thread's queue, which the model leaves open: both are taken at either delay; lateness up to 1 orders overdue timers.
- Databases: 2 transactions, the smallest number that can overlap; 2 statements in all,
  in one transaction or one in each; the quota raised once.
- XMLHttpRequest: 3 loaders, for the two that a forgotten one needs beside its successor.
- Local storage: 2 items, since a batch may be half written; 2 writes, each with a value
  of its own, and any number of removals and clears; one failure of SQLite or one
  sudden end at any moment (`MaxTroubles`).
- Symmetry: over http jobs, loads, cache objects and holders, and XHR loaders, where all
  are alike; never in a run with a liveness property.
- `CHECK_DEADLOCK FALSE` in all runs but `timers`: once every job has ended, or the
  browser is closed, the system rightly stops. Timers never stop, and `timers` and
  `timers_dropped` check it.

### Fairness

`transfers_live`: `WF(Manager)` - the shared timer fires (its comment: "Failure to fire a
timer is fatal to the cross-platform Timer code") and callbacks return;
`SF(PerformReturns)` - `curl_multi_perform` does a bounded amount of work per call;
`SF(Completes \/ Breaks)` - a peer answers or the connection breaks (libcurl has no
overall time limit here: a silent peer is outside the promise); `SF(FireFailure)`,
a zero timer competing with the download timer. Strong fairness is needed because
each is disabled again and again while the manager is in another stage. Nothing is
assumed of the client.

`loader_live`: the methods run on (`WF(Host)`), the client code they call returns
(`SF(ClientReturned)`), the request timer fires, each transfer ends. Requests of
several parts never end and are excused by the property when they hold every slot.

`timers`: time passes (`WF(Tick)`), loops that fire timers go on (`WF(Firing)`), posted
messages and `WM_TIMER`s that were not lost arrive. `SF(LastChance)`: the timer that
replaces a lost message, which competes with every other message.

`databases`: the thread is scheduled (`WF(DatabaseThread)`), the main thread dispatches its
queue (`WF(Dispatch)`) and a callback of the page returns (`WF(CallbackReturns)`).

`local_storage`: the thread is scheduled (`WF(Thread)`), a waiter whose condition is
signalled wakes (`WF(ReadReturns)`), the sync timer fires when the main thread is idle
(`WF(SyncTimerFired)`).

## 4. Disagreements without a run

Met while modelling; the model has each, and a property that would trip over one names
the exception.

Transfers (*RHM* is `ResourceHandleManager.cpp`):

- A loader that cancels in a callback of a data: URL is called again (*RHM*:541, 556, against
  `ResourceLoader.cpp:98`): `parseDataUrl` keeps the client it read.
- A chunked upload is cancelled by the manager at the end of its form (*RHM*:270, 401) and
  nobody is told. `EveryLoadEnds` excepts it.
- A redirected load that is answered 304 ends without a response (*RHM*:194, 149): the
  `Location` of the redirect is still in `m_response`.
- What a stopped transfer left of a file is served as the page (*RHM*:334): neither
  the file is closed nor its date taken back.
- A 304 to `URL#fragment` finds no entry: the date is looked up without the fragment, the
  file with it (*RHM*:715).
- Every handle that `curl_multi_add_handle` refuses loses a slot for good (*RHM*:606).

Loading:

- `cancelRequests` starts preloads of the document it cancels (`loader.cpp:177`, 354).
- A multipart request that is refused keeps its slot until its document is stopped.
- The ASSERTs at `CachedResource.cpp:146` and 239 can fail: while the clients of a validated
  resource are moved, one may leave that is not added yet, or ask again and revalidate
  a second time.
- `CachedResource::load` sets `m_loading` after `Loader::load` may have failed the
  resource at once (`CachedResource.cpp:98`).
- A new resource can be deleted before `load()` returns, against "Pretend the resource is in
  the cache, to prevent it from being deleted during the load() call." (`Cache.cpp:122`).
  `Loader::load` serves the queues; an earlier request that is refused calls
  `resource->error()`, whose client may stop the document, and `cancelPendingRequests` then takes
  the new object out of the cache and deletes its request (`loader.cpp:457`), with which it
  goes (`CachedResource.cpp:125`). The code goes on to set `m_loading` in it
  (`CachedResource.cpp:98`), maps it (`Cache.cpp:129`) and has it accessed (line 156).
- The clients of a 4xx answer may let go of the resource while they are told. `error()`
  (`loader.cpp:433`) has no hold on it, and the walker looks for the next client in
  the set of a deleted object (`CachedResourceClientWalker.cpp:48`).

Databases:

- A failing COMMIT is taken for a success (`SQLiteTransaction.cpp:58`), and leaves a
  transaction open that keeps every later one from beginning (`spoiled`).
- The ASSERT at `SQLTransaction.cpp:225` can fail for the same reason.
- Opening a database after the document was stopped waits for ever (`Database.cpp:186`).
- A transaction between two steps is never heard of again when its database is deleted
  (`Database.cpp:291`).

XMLHttpRequest (`XMLHttpRequest.cpp`):

- A handler of HEADERS_RECEIVED of an empty answer that calls `open` and `send` loses the new
  loader: `didFinishLoading` goes on and clears `m_loader` and drops its protection
  (lines 1080-1088, against the comment at 763).
- `send` inside `loadstart` creates two loaders, and the first is forgotten (ASSERT at 1062).
- `m_inPreflight` stays set when a preflight is aborted, and the next response is taken
  for one of a preflight (ASSERT at 1195).
- The reference taken for a loader outlives a failed load until `open` or `abort`; the
  second one, taken after a preflight, is given back by nobody.
- `abort` in a progress listener leaves the object LOADING; `abort` dispatches `load`.

Local storage (`LocalStorageArea.cpp`):

- An item removed or cleared before the import comes back with it in memory, while it is
  deleted on disk; `removeItem` of an item that is not imported yet does nothing at all.
- Storage events are dispatched with `m_importLock` held until the import is complete
  (lines 143-145): a page that uses the storage in its handler waits for itself.
- When the database does not open `m_syncScheduled` stays set (line 354), and nothing is
  ever written or reported.
- A failing statement drops the rest of its batch.

## 5. Proofs

tlapm checks every step. Where a run shows a property on a small instance, the theorem
holds for all values of the constants that satisfy the module's assumption: any number of
jobs, URLs, loaders, timers, transactions, cached objects, any limit, any depth of
nesting (what a definition fixes stays fixed: an image of the memory cache has up to two
units, and two more when decoded). The assumptions
say no more than that the constants are what their comments say (finite sets, positive
limits, `None` different from what it is not). Each theorem `Spec => []P` is proved from an
inductive invariant, which TLC checked on the run's instance before the proof; its initial
states and one lemma per action are the body of each module.

| Module | Theorem | Says |
|---|---|---|
| `ResourceHandleManager_proofs` | `TypeCorrect`, `SlotsAccounted`, `NothingStranded` | `TypeOK`, `SlotAccounting` (with `QueuedOnce`), `NoStrandedWork` |
| | `ClientProtocol` | `Spec => HttpClientProtocol`: implements `ResourceHandleClient` |
| `CacheFiles_proofs` | `TypeCorrect`, `CacheIsTrue`, `ReadersServed` | `TypeOK`, `CacheTruth`, `ServedWhole` |
| `LoaderHost_proofs` | `TypeCorrect`, `CountsExact`, `NothingStranded` | `TypeOK`, `CountsRequests`, `NoStrandedRequests` |
| | `HigherServedFirst` | `HigherFirst`, of every step |
| `Timers_proofs` | `TypeCorrect`, `AlwaysArmed`, `NoTimerIsLost` | `TypeOK`, `SharedTimerArmed`, `StartedIsActive` |
| | `InOrder` | `FiresInOrder`, of every step |
| `Databases_proofs` | `TypeCorrect`, `StepsInOrder`, `NothingLeftOpen` | `TypeOK`, `StepsMatch`, `NoneLeftOpen` |
| | `ServesThePage` | `Spec => ServesPage`: implements `DatabaseService` |
| `XMLHttpRequest_proofs` | `TypeCorrect`, `Protected`, `AbortReaches`, `NobodyWaits` | `TypeOK`, `ProtectedWhileLoading`, `AbortReachesAll`, `NobodyWaitsInVain` |
| | `StateForward` | `ReadyStateForward`, of every step |
| `MemoryCache_proofs` | `BooksAreExact`, `NothingReferencedIsDeleted` | `BooksExact`, `ReferencedIsAlive` |
| | `NothingLeaks`, `EveryClientIsTold` | `DeletableIsDeleted`, `LoadedIsTold` |
| | `PruningIsEnough` | `PrunedEnough`, of every step |
| `LocalStorage_proofs` | `ChangesScheduled`, `MapCurrent` | `ChangesAreScheduled`, `MapIsCurrent` |
| | `StorageImplements` | `Spec => SavesInOrder`: implements `StorageService` |

What each invariant needs beyond the property, which is why the property is not inductive
by itself:

**Transfer manager.** Slots: `Add` needs that a job not yet started is not in the list and
has no handle (`FreshJobs`), `OutcomeReturns`, which frees a slot, that the job whose outcome
is being told still has its handle although its client may have cancelled it meanwhile
(`OutcomeHasHandle`). Stranded work: `PassInv` says how far a pass has got - in the message
loop an active transfer implies `stillRunning`; in the second `startScheduledJobs` no
message is unread and an active transfer implies `stillRunning` or `started`. This is the
reason for line 360 of the code, which sets `runningHandles` by hand when a job was restarted on the
cached file. The refinement maps each step to one of the protocol's or to a stutter; that
it may, `ClientInv` says: a job in curl that was not cancelled has a client to call
(`ClientOpen`), `responseFired()` is set after the client was told (`FiredIsTold`), a queued job's
client waits (`QueueWaits`), and what a client knows inside each callback (`CallsInOrder`).

**Disk cache.** `CacheInv`: a load has a `FILE*` and a buffer only while it receives
(`OpenWhileReceiving`); what is known of an answer between its dispatch and its last byte
(`AnswersKnown`); what has come through the `FILE*` of a sound entry is a version no older
than any date the entry had, each block in the buffer or on the disk (`OpenFileTrue`), and a
closed file is the whole of one (`ClosedFileTrue`); whoever was told 304 left its date in the
entry (`ReadersDated`). The proof failed for `ServedWhole` as it stood first: an
entry that loses its date to an undated answer and then takes an answer older than a 304
that is still being read is not vouched for, which takes more URLs and versions than
the run has. `newest` names that case.

**Scheduler.** `HostInv`: a request is fresh, queued or in transfer, once (`OnePlace`),
without which the count could not be exact; a queue that waits for neither the timer nor a
transfer is attended by a method in progress (`QueuesAttended`), and while a slot is free, a
queue that a `servePendingRequests` has left behind is empty or belongs to a later one
(`HigherServed`). The last two quantify over `stack`: the frames of the
nested calls, of which only the innermost moves.

**Timers.** `TimersInv`: the heap is sorted and timed; collected timers were due when the
innermost call began and the heap's were not (`CollectedFirst`), the loop reaches them in order
(`RestSorted`); every outer call is inside a `fired()` (`OthersFiring`); a loop that goes on has a ready
set (`LoopIsReady`); a dropped timer stays so until it is set again; a `WM_TIMER` never comes without the last
chance timer (`LastChanceComes`).

**Databases.** `DatabasesInv`: a transaction is in one of five places, once - the thread's
queue, the main thread's, the database's, at work, in a callback (`OnePlace`) - and its
`m_nextStep` fits the place (`AllFit`); one that is at its end has nothing left to do and nothing
open (`AllSound`); who holds SQLite's transaction is one, and a database in one that was neither
stopped nor spoilt has a holder (`OpenKnown`); opening tasks find their
database unopened, once (`Openings`). The steps of the database thread are proved by what
they make of one transaction and its database (`Becomes`, `Outcome`), the callbacks likewise
(`Answer`), so that the invariant is shown once for each thread and not once for each step.
For the refinement `ServiceInv` adds who has the turn: of the transactions of a database
that have left its queue one at most is not over, or is but its last step has still to return,
and then the database is marked busy (`HoldersKnown`) - without it `transaction` could start a
second one beside it, and what is pending would not be a sequence. It adds that only a deleted
database is closed (`ClosedKnown`), since a transaction that cannot begin may then end in
silence, and what each transaction was told and whether it is committed at each of its
steps (`AllKeep`). A step of the transaction that has the turn is one of seven kinds to
the page (`Fate`): it goes on, commits, loses its database, is refused, ends, tells, or
nothing; each action that moves a transaction is shown to be such a step (`Serves`); those that
take a task, give the turn to the next, open, close, stop or ask are shown one by one (`Served`).

**XMLHttpRequest.** `RequestInv`: the reference count is one for the loader the object has and one for
a pending drop (`RefsCounted`); the frames of methods in progress know only created loaders, and
a loader's callback is the outermost of them (`FramesKnown`, `AtBottom`); a waiting page has a loader,
will have one, or is being told (`WaitingIsServed`); at DONE either `abort()` is in progress or the
request is over (`DoneIsOver`), which is what `AbortReachesAll` needs when `didFinishLoading` goes on.

**Local storage.** `StorageInv`: an import is the first task and done once, a sync is queued only when one is
scheduled (`QueueInv`); what is left to write has a timer, a task or the thread (`SyncInv`);
what is on the way from memory to disk follows what the disk has, in order, and ends with
the last change (`InOrder`), which is the refinement's core; and what the page finds of each
item (`MapInv`).

**Memory cache.** `IInv`, proved by `Inductive`, is about the cache, the methods in progress
and what they have still to do.

- The cache (`Inv`): the totals count the bytes of each object once (`Exact`); an object is
  in the list of its size, its clients have handles, and it is deleted when it may be
  (`AllSound`); the map has only accessed objects of its URLs (`Mapped`); an object is
  revalidated by one other, and lives as long (`Revalidates`); an element has one handle
  (`OneHandle`), without which the move of the clients after a revalidation could find one
  that is already there.
- The methods (`FramesOK`, `Shape`): what each of them read before it called client code and
  relies on when that returns (`FrameOK`) - the new object inside `Loader::load` is still
  nobody's, the validator whose clients are moved still refers to the object they are moved
  to, and no object that a prune may evict is in a queue above the one it has reached; and
  that no two of them are about the same thing (`Apart`), since one that returns would
  otherwise take what the other relies on.
- What is still to do: an object that nobody was given has a `load` that will give it
  (`Loaded`), a validator of an object that came back has a `switch` (`Switching`), and a
  client of an object that is not loading was told or is in a walk (`Heard`). They are
  implications from the cache to `stack`, and the reason why the properties, which speak of
  the moment when nothing runs, hold then: `stack` is empty and so nothing is left to do.

An action is several methods of the code in a row, and between two of them some object may
be out of order. So the lemmas about the code's functions - `addClient`, `remove`,
`setDecodedSize`, `deleteIfPossible`, ... - are not about `cache'` but about any cache `c`,
stack `s` and set `E` of objects with something still to do that no method in progress
stands for (`Running(c, t, s, E)`), and say that the function keeps `Running`.
An action's proof is the chain of those it calls. As a function changes one object
(`Becomes`), the totals change by what that object counts for before and after: a total is
the cardinality of a set of pairs of an object and a unit of its size, and the bytes of the
other objects are the same set. The model stops where an assertion of the code fails
or a deleted object is used (`Stopped`); that is the invariant's second disjunct, in which
the books and the references are in order but for that object, although the method is not over.

The proof changed the model in two places. `None` could have been a number, and then an
object in no list would have been in the list `None`, which no run shows, since there `None`
is a model value: `CacheAssumption` now excludes it. And `clearPreloads` was one action that
folded over the set of preloads, about which nothing could be proved: it is now a method in
progress that takes one object after the other, in any order, as the code takes them in the
order of its list.

The lemmas at the head of the modules say what an operator on sequences does by its
elements: the first place with a property, removal and insertion at a place, a push, `Head`
and `Tail`, the smallest and largest of a set, and `AtPlacesProperties`, that what is left
of a queue has its elements in its order, each once. Induction over data is out of the
prover's reach, so `SmallestExists` takes the smallest element from the well-foundedness of
inclusion of finite sets (of the intervals up to each number), and places are counted with
the library's facts on cardinalities. `AtPlaces` has its form, the timer heap is a sequence
and the totals of the memory cache are cardinalities, because folds and `SelectSeq` have no
facts to cite.

Only model-checked:

- liveness (`EveryLoadEnds`, `CancelledSlotsComeBack`, `EveryRequestServed`, `EveryTimerFires`,
  `EveryTransactionEnds`, both `MainThreadReturns`, `ChangesReachDisk`): fairness and `ENABLED` are out
  of the prover's reach;
- that the runs' instances reach each disjunct of the next-state relations, and that the
  mutants are caught: a theorem does not say that anything happens.

Every invariant and every property of a step that a run checks is the conclusion of a theorem,
and so is each refinement.

## 6. Not modelled

- `FrameLoader`, `DocumentLoader`, `MainResourceLoader`: the state machine of navigation is
  entangled with policy callbacks, history and rendering, and needs a reading of its own.
- `IconDatabase`, `PageCache` and `BackForwardList`: the last stateful parts of the loading
  code; left for want of room, not because they are out of reach.
- The nested re-entry of `downloadTimerCallback`; hosts that come and go in `loader.cpp`;
  keys of the disk cache that fold case and file numbers that wrap at 100000; the vector
  walked by `checkForPendingPreloads`.
- JavaScriptCore, DOM, CSS, SVG, rendering: data structures with no protocol of their own.
- Vendored libraries and generated tables, which are most of the lines of the repository
  (SQLite, libxml, ICU data, cairo, freetype, curl).

## 7. Plan

1. *(done)* The transfer manager, the disk cache, the scheduler, the memory cache, timers,
   databases, local storage and XMLHttpRequest, with runs and findings.
2. *(done)* Proofs of the safety properties of all of these and of the three refinements
   (section 5).
3. `IconDatabase`; `PageCache` with `BackForwardList`.
