----------------------- MODULE ResourceHandleManager -----------------------
(***************************************************************************)
(* The transfer manager of WebCore's libcurl port                          *)
(* (WebCore/platform/network/curl/ResourceHandleManager.cpp).              *)
(*                                                                         *)
(* One thread polls every transfer from a one-shot timer.  A job is queued *)
(* by ResourceHandle::start, given one of maxRunningJobs slots, driven by  *)
(* curl_multi_perform and taken out of curl when its completion message is *)
(* read.  The loader that owns the job is called back synchronously while  *)
(* all of that is in progress, and may start or cancel jobs from inside    *)
(* the callback: `cb' is the callback the manager is in, and the client    *)
(* actions are enabled when the manager is idle or inside a callback.      *)
(***************************************************************************)
EXTENDS Integers, SequencesExt

CONSTANTS
  Jobs,             \* the ResourceHandles started in a behaviour
  DataJobs,         \* those whose URL has the data: scheme
  FileJobs,         \* those fetched without a header block: file: URLs (the reply of
                    \* an HTTP/0.9 server takes the same path); the rest is http
  UploadJobs,       \* http jobs that POST more than one form element
  RefusedJobs,      \* jobs with an invalid URL or a blocked port
  MaxRunning,       \* maxRunningJobs, line 66
  MaxAddErrors,     \* bound: how often curl_multi_add_handle fails
  MaxSelectErrors   \* bound: how often select() fails

ASSUME JobsAssumption ==
  /\ IsFiniteSet(Jobs)
  /\ DataJobs \subseteq Jobs
  /\ FileJobs \subseteq Jobs \ DataJobs
  /\ UploadJobs \subseteq Jobs \ (DataJobs \cup FileJobs)
  /\ RefusedJobs \subseteq Jobs

ASSUME BoundsAssumption ==
  /\ MaxRunning \in Nat \ {0}
  /\ MaxAddErrors \in Nat
  /\ MaxSelectErrors \in Nat

VARIABLES
  list,          \* m_resourceHandleList, the jobs waiting for a slot
  running,       \* m_runningJobs
  timerActive,   \* m_downloadTimer.isActive()
  pc,            \* where in downloadTimerCallback the manager is
  cb,            \* the client callback it is inside, or NoCall
  started,       \* startScheduledJobs has started a job in this pass
  stillRunning,  \* runningHandles > 0
  curl,          \* the easy handle of each job, as libcurl sees it
  local,         \* jobs whose easy handle is fed without headers (file: URLs)
  failing,       \* jobs whose d->m_failureTimer is active
  cancelled,     \* jobs with d->m_cancelled
  fired,         \* jobs with d->m_response.responseFired()
  fromCache,     \* jobs with d->m_readFromCache
  moved,         \* what the Location left in d->m_response did to each job
  client,        \* what the loader behind each job has been told
  addErrors, selectErrors,   \* environment errors so far
  stalled        \* the last pass of the timer callback ended in the error return

curlVars   == <<curl, local, fromCache, moved>>
clientVars == <<failing, cancelled, client>>
errorVars  == <<addErrors, selectErrors, stalled>>
passVars   == <<started, stillRunning>>
vars == <<list, running, timerActive, pc, cb, curlVars, fired, clientVars,
          errorVars, passVars>>

-----------------------------------------------------------------------------
(* "idle" is outside the timer callback; the others are its stages in      *)
(* order: the first startScheduledJobs, select, curl_multi_perform, the    *)
(* loop over curl_multi_info_read, and the second startScheduledJobs.      *)
Stages == {"idle", "starting", "polling", "performing", "draining", "restarting"}

(* The state of an easy handle: absent, refused by curl_multi_add_handle,  *)
(* in progress, or done with its completion message not yet read.          *)
HandleStates == {"none", "orphan", "active", "ok", "failed"}

NoCall == [call |-> "none"]
HeaderCalls == {"redirect", "response", "notModified"}
DataUrlCalls == {"dataResponse", "dataBody", "dataFinish"}
Calls == HeaderCalls \cup DataUrlCalls \cup {"bodyResponse", "body", "finish", "fail", "blocked"}

(* The loader's state.  "late" records that it was called back after it    *)
(* had been told the end of the load, or had cancelled it.                 *)
Terminal == {"finished", "failed", "cancelled"}
ClientStates == {"idle", "waiting", "responded", "late"} \cup Terminal

(* A job that has been redirected is "followed": the Location header stays *)
(* in m_response, where later header blocks add to it.  It is "misread"    *)
(* once its last block, a 3xx without a Location of its own, was taken for *)
(* another redirect.                                                       *)
Redirects == {"none", "followed", "misread"}

HttpJobs == Jobs \ (DataJobs \cup FileJobs)
Orphans == {j \in Jobs : curl[j] = "orphan"}
Handles == {j \in Jobs : curl[j] # "none"}
InCurl  == {j \in Jobs : curl[j] \in {"active", "ok", "failed"}}
Listed  == {list[i] : i \in 1..Len(list)}

Init ==
  /\ list = <<>>
  /\ running = 0
  /\ timerActive = FALSE
  /\ pc = "idle"
  /\ cb = NoCall
  /\ started = FALSE
  /\ stillRunning = FALSE
  /\ curl = [j \in Jobs |-> "none"]
  /\ local = FileJobs
  /\ failing = {}
  /\ cancelled = {}
  /\ fired = {}
  /\ fromCache = {}
  /\ moved = [j \in Jobs |-> "none"]
  /\ client = [j \in Jobs |-> "idle"]
  /\ addErrors = 0
  /\ selectErrors = 0
  /\ stalled = FALSE

-----------------------------------------------------------------------------
(* The client.                                                             *)

ClientMayCall == pc = "idle" \/ cb # NoCall

(* Defects.  An operator named X_Defect is X as a plausible slip would have *)
(* it; no specification uses one.  Each shows that a property can fail.    *)

Add_NoTimer(j) ==
  /\ ClientMayCall
  /\ j \notin RefusedJobs
  /\ client[j] = "idle"
  /\ client' = [client EXCEPT ![j] = "waiting"]
  /\ list' = Append(list, j)
  /\ UNCHANGED <<running, timerActive, pc, cb, curlVars, fired, failing, cancelled,
                 errorVars, passVars>>

(* ResourceHandle::create and start: the job is only queued, never started *)
(* here.                                                                   *)
Add(j) ==
  /\ ClientMayCall
  /\ j \notin RefusedJobs
  /\ client[j] = "idle"
  /\ client' = [client EXCEPT ![j] = "waiting"]
  /\ list' = Append(list, j)
  /\ timerActive' = TRUE
  /\ UNCHANGED <<running, pc, cb, curlVars, fired, failing, cancelled, errorVars,
                 passVars>>

(* ResourceHandle::create for a URL it will not load: scheduleFailure.     *)
Refuse(j) ==
  /\ ClientMayCall
  /\ j \in RefusedJobs
  /\ client[j] = "idle"
  /\ client' = [client EXCEPT ![j] = "waiting"]
  /\ failing' = failing \cup {j}
  /\ UNCHANGED <<list, running, timerActive, pc, cb, curlVars, fired, cancelled,
                 errorVars, passVars>>

(* loadResourceSynchronously blocks in curl_easy_perform outside the list  *)
(* and the slots; all it leaves behind is what ~ResourceHandle does by     *)
(* calling cancel.                                                         *)
LoadSynchronously ==
  /\ ClientMayCall
  /\ timerActive' = TRUE
  /\ UNCHANGED <<list, running, pc, cb, curlVars, fired, clientVars, errorVars, passVars>>

(* Enabled when the job waits in the list, and takes it out.               *)
removeScheduledJob(j) ==
  \E i \in 1..Len(list) : list[i] = j /\ list' = RemoveAt(list, i)

(* ResourceLoader::cancel, which returns early for a load that reached its *)
(* end, and then ResourceHandleManager::cancel: a queued job is dropped, a *)
(* running one is only marked and the timer armed to reap it.  A handle    *)
(* that was never started dies with its loader, and its failure timer too. *)
Cancel(j) ==
  /\ ClientMayCall
  /\ client[j] \in {"waiting", "responded"}
  /\ client' = [client EXCEPT ![j] = "cancelled"]
  /\ failing' = failing \ {j}
  /\ \/ /\ removeScheduledJob(j)
        /\ UNCHANGED <<cancelled, timerActive>>
     \/ /\ j \notin Listed
        /\ cancelled' = cancelled \cup {j}
        /\ timerActive' = TRUE
        /\ UNCHANGED list
  /\ UNCHANGED <<running, pc, cb, curlVars, fired, errorVars, passVars>>

(* A callback of kind c on job j begins.  didFinishLoading and didFail     *)
(* take effect on the loader when they return: until then it may still     *)
(* cancel, and "cancelling wins".                                          *)
Told(j, news) ==
  client' = [client EXCEPT ![j] = IF @ \in Terminal \cup {"late"} THEN "late" ELSE news]

Begin(c, j) ==
  /\ cb' = [call |-> c, job |-> j]
  /\ Told(j, IF c \in {"finish", "fail", "blocked", "dataFinish", "redirect"} THEN client[j]
             ELSE "responded")

Settle_CallName(j, outcome) ==
  client' = [client EXCEPT ![j] = IF @ \in Terminal \cup {"late"} THEN @ ELSE cb.call]

Settle(j, outcome) ==
  client' = [client EXCEPT ![j] = IF @ \in Terminal \cup {"late"} THEN @ ELSE outcome]

-----------------------------------------------------------------------------
(* startScheduledJobs and startJob.                                        *)

(* downloadTimerCallback is entered; a one-shot timer that fires is no     *)
(* longer active.                                                          *)
TimerFires ==
  /\ pc = "idle" /\ cb = NoCall
  /\ timerActive
  /\ timerActive' = FALSE
  /\ pc' = "starting"
  /\ started' = FALSE
  /\ stalled' = FALSE
  /\ UNCHANGED <<list, running, cb, curlVars, fired, clientVars, addErrors,
                 selectErrors, stillRunning>>

InStartScheduledJobs == pc \in {"starting", "restarting"} /\ cb = NoCall

MayStart_OneTooMany == list # <<>> /\ running <= MaxRunning

MayStart == list # <<>> /\ running < MaxRunning

(* A data: URL is decoded on the spot; it takes no slot.                   *)
StartDataJob ==
  /\ InStartScheduledJobs
  /\ MayStart
  /\ Head(list) \in DataJobs
  /\ list' = Tail(list)
  /\ started' = TRUE
  /\ Begin("dataResponse", Head(list))
  /\ UNCHANGED <<running, timerActive, pc, curlVars, fired, failing, cancelled,
                 errorVars, stillRunning>>

(* curl_multi_add_handle accepts the handle, or refuses it and startJob    *)
(* cancels the job, which is no longer in the list.                        *)
AddHandle(j) ==
  \/ /\ curl' = [curl EXCEPT ![j] = "active"]
     /\ UNCHANGED <<timerActive, failing, cancelled, addErrors>>
  \/ /\ addErrors < MaxAddErrors
     /\ addErrors' = addErrors + 1
     /\ curl' = [curl EXCEPT ![j] = "orphan"]
     /\ cancelled' = cancelled \cup {j}
     /\ timerActive' = TRUE

StartTransfer ==
  /\ InStartScheduledJobs
  /\ MayStart
  /\ Head(list) \notin DataJobs
  /\ list' = Tail(list)
  /\ started' = TRUE
  /\ running' = running + 1
  /\ AddHandle(Head(list))
  /\ UNCHANGED <<pc, cb, local, fromCache, moved, fired, failing, client,
                 selectErrors, stalled, stillRunning>>

StartScheduledDone_NewJobsOnly ==
  /\ InStartScheduledJobs
  /\ ~MayStart
  /\ IF pc = "starting"
     THEN pc' = "polling" /\ UNCHANGED timerActive
     ELSE pc' = "idle" /\ timerActive' = (timerActive \/ started)
  /\ UNCHANGED <<list, running, cb, curlVars, fired, clientVars, errorVars, passVars>>

StartScheduledDone ==
  /\ InStartScheduledJobs
  /\ ~MayStart
  /\ IF pc = "starting"
     THEN pc' = "polling" /\ UNCHANGED timerActive
     ELSE /\ pc' = "idle"
          /\ timerActive' = (timerActive \/ started \/ stillRunning)
  /\ UNCHANGED <<list, running, cb, curlVars, fired, clientVars, errorVars, passVars>>

-----------------------------------------------------------------------------
(* select() and curl_multi_perform.                                        *)

(* select() is only called when libcurl has a socket to wait for; on an    *)
(* error other than EINTR the callback returns without arming the timer.   *)
SelectFails ==
  /\ pc = "polling"
  /\ selectErrors < MaxSelectErrors
  /\ \E j \in Jobs \ local : curl[j] = "active"
  /\ selectErrors' = selectErrors + 1
  /\ stalled' = TRUE
  /\ pc' = "idle"
  /\ UNCHANGED <<list, running, timerActive, cb, curlVars, fired, clientVars,
                 addErrors, passVars>>

SelectReturns ==
  /\ pc = "polling"
  /\ pc' = "performing"
  /\ UNCHANGED <<list, running, timerActive, cb, curlVars, fired, clientVars,
                 errorVars, passVars>>

InPerform(j) == pc = "performing" /\ cb = NoCall /\ curl[j] = "active"

HeaderBlock_IgnoresCancel(j) ==
  /\ InPerform(j)
  /\ j \notin local \cup fromCache
  /\ moved[j] = "none"
  /\ Begin("response", j)
  /\ UNCHANGED <<list, running, timerActive, pc, curlVars, fired, failing,
                 cancelled, errorVars, passVars>>

(* headerCallback at the blank line that ends a header block: any 3xx      *)
(* while m_response has a Location (of this block, which libcurl follows,  *)
(* or of an earlier one, which it does not), a 304 for which CacheFiles    *)
(* has an entry, or any other response (an interim 100 response is one).   *)
HeaderBlock(j) ==
  /\ InPerform(j)
  /\ j \notin local \cup cancelled \cup fromCache
  /\ moved[j] # "misread"
  /\ \/ /\ Begin("redirect", j)
        /\ \/ moved' = [moved EXCEPT ![j] = "followed"]
           \/ moved[j] = "followed" /\ moved' = [moved EXCEPT ![j] = "misread"]
     \/ moved[j] = "none" /\ Begin("notModified", j) /\ UNCHANGED moved
     \/ Begin("response", j) /\ UNCHANGED moved
  /\ UNCHANGED <<list, running, timerActive, pc, curl, local, fromCache, fired, failing,
                 cancelled, errorVars, passVars>>

HeaderBlockReturns ==
  /\ cb.call \in HeaderCalls
  /\ fired' = IF cb.call = "redirect" THEN fired ELSE fired \cup {cb.job}
  /\ fromCache' = IF cb.call = "notModified" THEN fromCache \cup {cb.job} ELSE fromCache
  /\ cb' = NoCall
  /\ UNCHANGED <<list, running, timerActive, pc, curl, local, moved, clientVars,
                 errorVars, passVars>>

(* writeCallback: data that arrives before any header block makes up for   *)
(* the missing didReceiveResponse, then the data is passed on; m_cancelled *)
(* is looked at once, before both.                                         *)
BodyBlock(j) ==
  /\ InPerform(j)
  /\ j \notin cancelled \cup fromCache
  /\ IF j \in fired THEN Begin("body", j)
     ELSE j \in local /\ Begin("bodyResponse", j)
  /\ UNCHANGED <<list, running, timerActive, pc, curlVars, fired, failing, cancelled,
                 errorVars, passVars>>

BodyResponseReturns ==
  /\ cb.call = "bodyResponse"
  /\ fired' = fired \cup {cb.job}
  /\ Begin("body", cb.job)
  /\ UNCHANGED <<list, running, timerActive, pc, curlVars, failing, cancelled,
                 errorVars, passVars>>

BodyReturns ==
  /\ cb.call = "body"
  /\ cb' = NoCall
  /\ UNCHANGED <<list, running, timerActive, pc, curlVars, fired, clientVars,
                 errorVars, passVars>>

(* parseDataUrl: the three callbacks follow each other unconditionally.    *)
DataCallReturns ==
  /\ cb.call \in DataUrlCalls
  /\ CASE cb.call = "dataResponse" -> Begin("dataBody", cb.job)
       [] cb.call = "dataBody"     -> Begin("dataFinish", cb.job)
       [] cb.call = "dataFinish"   -> cb' = NoCall /\ Settle(cb.job, "finished")
  /\ UNCHANGED <<list, running, timerActive, pc, curlVars, fired, failing, cancelled,
                 errorVars, passVars>>

(* readCallback: FormDataStream::read returns 0 at the end of the form (or *)
(* at an empty or unreadable file), which is taken for an error: the       *)
(* manager cancels the job itself.  This may be after an interim 100 or an *)
(* early answer; a file that takes the place of the answer reads no form.  *)
UploadRunsDry(j) ==
  /\ InPerform(j)
  /\ j \in UploadJobs \ (cancelled \cup local)
  /\ cancelled' = cancelled \cup {j}
  /\ timerActive' = TRUE
  /\ UNCHANGED <<list, running, pc, cb, curlVars, fired, failing, client,
                 errorVars, passVars>>

(* The transfer ends.  An http transfer that libcurl calls successful has  *)
(* had a final header block; an empty file ends without one.  It may fail  *)
(* at any time, and does when a callback returns 0 for a cancelled job.    *)
Completes(j) ==
  /\ InPerform(j)
  /\ j \in fired \cup local \/ moved[j] = "misread"
  /\ curl' = [curl EXCEPT ![j] = "ok"]
  /\ UNCHANGED <<list, running, timerActive, pc, cb, local, fromCache, moved, fired,
                 clientVars, errorVars, passVars>>

Breaks(j) ==
  /\ InPerform(j)
  /\ curl' = [curl EXCEPT ![j] = "failed"]
  /\ UNCHANGED <<list, running, timerActive, pc, cb, local, fromCache, moved, fired,
                 clientVars, errorVars, passVars>>

PerformReturns ==
  /\ pc = "performing" /\ cb = NoCall
  /\ pc' = "draining"
  /\ stillRunning' = \E j \in Jobs : curl[j] = "active"
  /\ UNCHANGED <<list, running, timerActive, cb, curlVars, fired, clientVars,
                 errorVars, started>>

-----------------------------------------------------------------------------
(* The loop over curl_multi_info_read.  Messages are taken in any order.   *)

InDrain == pc = "draining" /\ cb = NoCall

removeFromCurl(j) ==
  /\ running' = running - 1
  /\ curl' = [curl EXCEPT ![j] = "none"]

ReapCancelled(j) ==
  /\ InDrain
  /\ curl[j] \in {"ok", "failed"}
  /\ j \in cancelled
  /\ removeFromCurl(j)
  /\ UNCHANGED <<list, timerActive, pc, cb, local, fromCache, moved, fired, clientVars,
                 errorVars, passVars>>

RestartFromCache_NotPolled(j) ==
  /\ InDrain
  /\ curl[j] = "ok"
  /\ j \in fromCache \ cancelled
  /\ AddHandle(j)
  /\ local' = local \cup {j}
  /\ fromCache' = fromCache \ {j}
  /\ UNCHANGED <<list, running, pc, cb, moved, fired, failing, client, selectErrors,
                 stalled, passVars>>

(* The 304 answer has been received: the same job is started again at once *)
(* on the cached file, in the slot it has just given up.                   *)
RestartFromCache(j) ==
  /\ InDrain
  /\ curl[j] = "ok"
  /\ j \in fromCache \ cancelled
  /\ AddHandle(j)
  /\ local' = local \cup {j}
  /\ fromCache' = fromCache \ {j}
  /\ stillRunning' = TRUE
  /\ UNCHANGED <<list, running, pc, cb, moved, fired, failing, client,
                 selectErrors, stalled, started>>

TellOutcome(j) ==
  /\ InDrain
  /\ j \notin cancelled
  /\ \/ curl[j] = "ok" /\ j \notin fromCache /\ Begin("finish", j)
     \/ curl[j] = "failed" /\ Begin("fail", j)
  /\ UNCHANGED <<list, running, timerActive, pc, curlVars, fired, failing, cancelled,
                 errorVars, passVars>>

OutcomeReturns ==
  /\ cb.call \in {"finish", "fail"}
  /\ removeFromCurl(cb.job)
  /\ Settle(cb.job, IF cb.call = "finish" THEN "finished" ELSE "failed")
  /\ cb' = NoCall
  /\ UNCHANGED <<list, timerActive, pc, local, fromCache, moved, fired, failing, cancelled,
                 errorVars, passVars>>

DrainDone ==
  /\ InDrain
  /\ \A j \in Jobs : curl[j] \notin {"ok", "failed"}
  /\ pc' = "restarting"
  /\ started' = FALSE
  /\ UNCHANGED <<list, running, timerActive, cb, curlVars, fired, clientVars,
                 errorVars, stillRunning>>

-----------------------------------------------------------------------------
(* ResourceHandle::fireFailure, from a timer of its own.                   *)
FireFailure(j) ==
  /\ pc = "idle" /\ cb = NoCall
  /\ j \in failing
  /\ failing' = failing \ {j}
  /\ Begin("blocked", j)
  /\ UNCHANGED <<list, running, timerActive, pc, curlVars, fired, cancelled,
                 errorVars, passVars>>

(* The handle dies with its loader and cancels itself, in no list by then. *)
FailureReturns ==
  /\ cb.call = "blocked"
  /\ Settle(cb.job, "failed")
  /\ cb' = NoCall
  /\ cancelled' = cancelled \cup {cb.job}
  /\ timerActive' = TRUE
  /\ UNCHANGED <<list, running, pc, curlVars, fired, failing, errorVars, passVars>>

-----------------------------------------------------------------------------
Returns == HeaderBlockReturns \/ BodyResponseReturns \/ BodyReturns
           \/ DataCallReturns \/ OutcomeReturns \/ FailureReturns

Manager ==
  \/ TimerFires \/ StartDataJob \/ StartTransfer \/ StartScheduledDone
  \/ SelectFails \/ SelectReturns \/ PerformReturns \/ DrainDone \/ Returns
  \/ \E j \in Jobs : ReapCancelled(j) \/ RestartFromCache(j) \/ TellOutcome(j)

Network ==
  \E j \in Jobs : \/ HeaderBlock(j) \/ BodyBlock(j) \/ UploadRunsDry(j)
                 \/ Completes(j) \/ Breaks(j)

Client == LoadSynchronously \/ \E j \in Jobs : Add(j) \/ Refuse(j) \/ Cancel(j)

Next == Client \/ Manager \/ Network \/ \E j \in Jobs : FireFailure(j)

Spec == Init /\ [][Next]_vars

(* The shared timer fires, callbacks return, and curl_multi_perform does a *)
(* bounded amount of work per call; every peer eventually answers or the   *)
(* connection breaks.  Nothing is assumed of the client.                   *)
Fairness ==
  /\ WF_vars(Manager)
  /\ \A j \in Jobs : SF_vars(FireFailure(j))
  /\ SF_vars(PerformReturns)
  /\ \A j \in Jobs : SF_vars(Completes(j) \/ Breaks(j))

FairSpec == Spec /\ Fairness
-----------------------------------------------------------------------------
(* Properties.                                                             *)

(* Every variable has its type.                                            *)
TypeOK ==
  /\ list \in Seq(Jobs)
  /\ running \in Int
  /\ timerActive \in BOOLEAN
  /\ pc \in Stages
  /\ cb \in {NoCall} \cup [call : Calls, job : Jobs]
  /\ started \in BOOLEAN
  /\ stillRunning \in BOOLEAN
  /\ curl \in [Jobs -> HandleStates]
  /\ local \subseteq Jobs
  /\ failing \subseteq Jobs
  /\ cancelled \subseteq Jobs
  /\ fired \subseteq Jobs
  /\ fromCache \subseteq Jobs
  /\ moved \in [Jobs -> Redirects]
  /\ client \in [Jobs -> ClientStates]
  /\ addErrors \in 0..MaxAddErrors
  /\ selectErrors \in 0..MaxSelectErrors
  /\ stalled \in BOOLEAN

(* m_runningJobs counts exactly the jobs that hold an easy handle, through *)
(* cancellations, restarts on the cached file and refused handles, and     *)
(* never exceeds maxRunningJobs.                                           *)
SlotAccounting ==
  /\ running = Cardinality(Handles)
  /\ running <= MaxRunning

(* A job is in the list at most once, and never while it has an easy       *)
(* handle: startJob runs on a job that has none (ASSERT(!d->m_url), line   *)
(* 699, and the slot it would count twice).                                *)
QueuedOnce ==
  /\ \A i, k \in 1..Len(list) : list[i] = list[k] => i = k
  /\ \A i \in 1..Len(list) : curl[list[i]] = "none"

(* When the manager sleeps with no timer armed, nothing is waiting for it: *)
(* no job is queued and no transfer or unread message is in curl.  The two *)
(* ways the code gives that up are named: the error return after select(), *)
(* and every slot held by a handle curl refused.                           *)
NoStrandedWork ==
  pc = "idle" /\ ~timerActive /\ ~stalled /\ Cardinality(Orphans) < MaxRunning
    => list = <<>> /\ InCurl = {}

(* What an http load's client observes is a run of the client interface:   *)
(* a response before the end, one end, and not a word after the end or     *)
(* after the loader cancelled, whatever else starts, stops or is cancelled *)
(* from inside the callbacks.  One exception is named in the mapping: a    *)
(* job whose last header block was misread counts as having answered.      *)
HttpClient == INSTANCE ResourceHandleClient
                WITH Loads <- HttpJobs,
                     load <- [j \in HttpJobs |->
                                IF moved[j] = "misread" /\ client[j] = "waiting"
                                THEN "responded" ELSE client[j]]
HttpClientProtocol == HttpClient!Spec

(* Every load that was asked for ends, unless the manager cancelled it on  *)
(* its own (curl refused the handle, or an upload ran dry), refused        *)
(* handles hold every slot, or a select() error put the manager to sleep.  *)
EveryLoadEnds ==
  \A j \in Jobs :
    client[j] = "waiting" ~>
      \/ client[j] \in Terminal \cup {"late"}
      \/ j \in cancelled
      \/ Cardinality(Orphans) >= MaxRunning
      \/ stalled

(* The slot of a job that was cancelled while in curl is given back.       *)
CancelledSlotsComeBack ==
  \A j \in Jobs : j \in cancelled /\ j \in InCurl ~> j \notin InCurl \/ stalled
=============================================================================
