----------------------------- MODULE CacheFiles -----------------------------
(***************************************************************************)
(* The disk cache: iSee/iSee/WebCoreSupport/CacheFiles.cpp and the places  *)
(* of ResourceHandleManager.cpp that use it.                               *)
(*                                                                         *)
(* The cache maps a URL to one file and to the Last-Modified date of its   *)
(* content.  A transfer sends If-Modified-Since when there is an entry;    *)
(* every answer with a header block of its own rewrites the file while the *)
(* body arrives; an answer 304 restarts the same job on the file.  Several *)
(* transfers may be about one URL at a time, and their answers may arrive  *)
(* in any order.                                                           *)
(*                                                                         *)
(* A page is its version on the server, counted up each time the server    *)
(* modifies it; a version also stands for its Last-Modified date.  The     *)
(* body of an answer is cut into blocks, and stdio may keep blocks in the  *)
(* buffer of a FILE* until fclose.                                         *)
(***************************************************************************)
EXTENDS Integers, FiniteSets

CONSTANTS
  Urls,          \* the keys of cacheFiles, as CaseFoldingHash tells them apart
  Page,          \* Page[u] is u without its fragment
  Loads,         \* the transfers of a behaviour
  SyncLoads,     \* those run by dispatchSynchronousJob
  Blocks,        \* the number of blocks of a body
  MaxVersion,    \* bound: how often the server modifies a page
  MaxFaults      \* bound: how often fopen or fwrite fails

ASSUME CacheAssumption ==
  /\ Page \in [Urls -> Urls]
  /\ \A u \in Urls : Page[Page[u]] = Page[u]
  /\ SyncLoads \subseteq Loads
  /\ Blocks \in Nat \ {0}
  /\ MaxVersion \in Nat
  /\ MaxFaults \in Nat

VARIABLES
  version,    \* the version of each page that the server has now
  known,      \* the URLs with an entry in cacheFiles
  date,       \* lastModified of each entry, NoDate when it is empty
  newest,     \* history: the newest date each entry had
  holder,     \* {l} when fpCache is the FILE* that load l opened, {} when it is NULL
  file,       \* what is on disk for each entry, by block
  tainted,    \* history: the entries spoilt in one of the ways named below
  phase,      \* how far each load is
  url,        \* job->request().url()
  since,      \* the If-Modified-Since date the load has sent
  moved,      \* loads that followed a redirect
  reply,      \* the answer on its way to, or read by, each load
  handle,     \* loads with d->m_cacheFile, a FILE* on the file of url[l]
  received,   \* the number of body blocks a load has been given
  buffered,   \* blocks of the load's FILE* not yet on disk
  faults      \* failures of fopen and fwrite so far

entryVars == <<known, date, newest, holder, file, tainted>>
loadVars  == <<phase, url, since, moved, reply>>
writeVars == <<handle, received, buffered>>
vars == <<version, entryVars, loadVars, writeVars, faults>>

-----------------------------------------------------------------------------
NoDate == -1
Hole == -1          \* nothing was written here
ErrorPage == -2     \* the body of an error answer
Versions == 0..MaxVersion
Contents == Versions \cup {Hole, ErrorPage}
Files == [1..Blocks -> Contents]
Empty == [b \in 1..Blocks |-> Hole]
Whole(v) == [b \in 1..Blocks |-> v]

Phases == {"idle", "sent", "answered", "receiving", "notModified", "reading", "gone"}
Errors == {"error", "stampedError"}
Kinds == {"none", "full", "notModified", "redirect"} \cup Errors
Answers == [kind : Kinds, of : Versions, to : Urls]

Init ==
  /\ version = [u \in Urls |-> 0]
  /\ known = {}
  /\ date = [u \in Urls |-> NoDate]
  /\ newest = [u \in Urls |-> NoDate]
  /\ holder = [u \in Urls |-> {}]
  /\ file = [u \in Urls |-> Empty]
  /\ tainted = {}
  /\ phase = [l \in Loads |-> "idle"]
  /\ url \in [Loads -> Urls]
  /\ since = [l \in Loads |-> NoDate]
  /\ moved = {}
  /\ reply = [l \in Loads |-> [kind |-> "none", of |-> 0, to |-> url[l]]]
  /\ handle = {}
  /\ received = [l \in Loads |-> 0]
  /\ buffered = [l \in Loads |-> {}]
  /\ faults = 0

(* The job is destroyed, and its buffer with it.                           *)
End(l) ==
  /\ phase' = [phase EXCEPT ![l] = "gone"]
  /\ since' = [since EXCEPT ![l] = NoDate]
  /\ moved' = moved \ {l}
  /\ reply' = [reply EXCEPT ![l].kind = "none", ![l].of = 0]
  /\ handle' = handle \ {l}
  /\ received' = [received EXCEPT ![l] = 0]
  /\ buffered' = [buffered EXCEPT ![l] = {}]

-----------------------------------------------------------------------------
(* The functions of CacheFiles.  A URL without an entry has no date.       *)

getIfModifiedSince(u) == date[u]

getCacheUrl(u) == u \in known

(* An answer without a Last-Modified header leaves the old date in place.  *)
NewDate(u, d) ==
  /\ date' = [date EXCEPT ![u] = IF d = NoDate THEN @ ELSE d]
  /\ newest' = [newest EXCEPT ![u] = IF d > @ THEN d ELSE @]

updateUrl(u, d) == NewDate(u, d)

(* Mutant: the new FILE* is kept beside the one the entry has.             *)
openFile_KeepsBoth(l, u, d) ==
  /\ known' = known \cup {u}
  /\ NewDate(u, d)
  /\ \/ /\ holder' = [holder EXCEPT ![u] = @ \cup {l}]
        /\ file' = [file EXCEPT ![u] = Empty]
        /\ handle' = handle \cup {l}
        /\ UNCHANGED faults
     \/ /\ faults < MaxFaults
        /\ faults' = faults + 1
        /\ UNCHANGED <<holder, file, handle>>

(* openFile truncates the file and takes fpCache over from whoever had it, *)
(* without closing that one.  When fopen fails the entry has the new date  *)
(* and the old content.                                                    *)
openFile(l, u, d) ==
  /\ known' = known \cup {u}
  /\ NewDate(u, d)
  /\ \/ /\ holder' = [holder EXCEPT ![u] = {l}]
        /\ file' = [file EXCEPT ![u] = Empty]
        /\ handle' = handle \cup {l}
        /\ UNCHANGED faults
     \/ /\ faults < MaxFaults
        /\ faults' = faults + 1
        /\ holder' = [holder EXCEPT ![u] = {}]
        /\ UNCHANGED <<file, handle>>

Content(a) == IF a.kind \in Errors THEN ErrorPage ELSE a.of

(* The blocks in bs reach the disk.                                        *)
Flush(l, bs) ==
  file' = [file EXCEPT ![url[l]] =
             [b \in 1..Blocks |-> IF b \in bs THEN Content(reply[l]) ELSE @[b]]]

(* Mutant: m_cacheFile is not compared with fpCache.                       *)
closeFile_AnyHandle(l) ==
  IF l \in handle
  THEN /\ Flush(l, buffered[l])
       /\ holder' = [holder EXCEPT ![url[l]] = {}]
  ELSE UNCHANGED <<file, holder>>

(* Mutant: fpCache is reset without fclose.                                *)
closeFile_NoFlush(l) ==
  IF l \in handle /\ holder[url[l]] = {l}
  THEN holder' = [holder EXCEPT ![url[l]] = {}] /\ UNCHANGED file
  ELSE UNCHANGED <<file, holder>>

(* closeFile closes the FILE* only while the entry still has it.           *)
closeFile(l) ==
  IF l \in handle /\ holder[url[l]] = {l}
  THEN /\ Flush(l, buffered[l])
       /\ holder' = [holder EXCEPT ![url[l]] = {}]
  ELSE UNCHANGED <<file, holder>>

-----------------------------------------------------------------------------
(* The server.                                                             *)

Modify(u) ==
  /\ Page[u] = u
  /\ version[u] < MaxVersion
  /\ version' = [version EXCEPT ![u] = @ + 1]
  /\ UNCHANGED <<entryVars, loadVars, writeVars, faults>>

(* What the server may answer to load l with the If-Modified-Since date d: *)
(* the page, an error page without a Last-Modified, a redirect (bound: one *)
(* per load), or 304 when it has not modified the page since d.  m_response *)
(* collects the headers of all blocks, so the error page of a load that    *)
(* was redirected may count as stamped with the date of the redirect; any  *)
(* other is of no version.                                                 *)
PossibleAnswers(l, d) ==
  LET now == version[Page[url[l]]]
      Unmodified == d # NoDate /\ now <= d
  IN {a \in Answers :
        /\ a.of = CASE a.kind = "stampedError" -> reply[l].of
                    [] a.kind = "error" -> 0
                    [] OTHER -> now
        /\ a.kind = "stampedError" => l \in moved
        /\ a.kind = "redirect" => l \notin moved /\ Page[a.to] # Page[url[l]]
        /\ a.kind # "redirect" => a.to = url[l]
        /\ a.kind = "notModified" => Unmodified
        /\ a.kind # "none"}

Answer(l) ==
  /\ phase[l] = "sent"
  /\ \E a \in PossibleAnswers(l, since[l]) : reply' = [reply EXCEPT ![l] = a]
  /\ phase' = [phase EXCEPT ![l] = "answered"]
  /\ UNCHANGED <<version, entryVars, url, since, moved, writeVars, faults>>

-----------------------------------------------------------------------------
(* ResourceHandleManager.                                                  *)

(* initializeHandle looks the date up under the URL without its fragment.  *)
Start(l) ==
  /\ l \notin SyncLoads
  /\ phase[l] = "idle"
  /\ phase' = [phase EXCEPT ![l] = "sent"]
  /\ since' = [since EXCEPT ![l] = getIfModifiedSince(Page[url[l]])]
  /\ UNCHANGED <<version, entryVars, url, moved, reply, writeVars, faults>>

(* The redirected request keeps its If-Modified-Since date.                *)
Redirected(l) ==
  /\ phase[l] = "answered"
  /\ reply[l].kind = "redirect"
  /\ url' = [url EXCEPT ![l] = reply[l].to]
  /\ moved' = moved \cup {l}
  /\ phase' = [phase EXCEPT ![l] = "sent"]
  /\ UNCHANGED <<version, entryVars, since, reply, writeVars, faults>>

ReplyDate(a) == IF a.kind = "error" THEN NoDate ELSE a.of

(* The ways an entry is spoilt when an answer rewrites it: fopen fails; a  *)
(* 304 finds no entry and makes an empty one; an error page without a date *)
(* keeps that of other content, or brings that of a redirect; an answer that was delayed puts an older   *)
(* version in the place of a newer one (the entry's own date does not tell,*)
(* for a delayed 304 sets it back).  A 304 spoils an entry when it         *)
(* answers to a later date than the entry's own: the date was looked up    *)
(* under the URL without its fragment.                                     *)
SpoiltBy(a, opened) ==
  \/ ~opened
  \/ a.kind = "notModified"
  \/ a.kind = "error" /\ date[a.to] # NoDate
  \/ a.kind = "stampedError"
  \/ a.of < newest[a.to]

Taint(u, spoilt) == tainted' = IF spoilt THEN tainted \cup {u} ELSE tainted \ {u}

Redated(u, d) == tainted' = IF date[u] < d THEN tainted \cup {u} ELSE tainted

(* headerCallback for an answer that is neither a redirect nor a 304 for   *)
(* which there is an entry.  A 304 has no body.                            *)
NewFile(l) ==
  /\ phase[l] = "answered"
  /\ \/ reply[l].kind \in {"full"} \cup Errors
     \/ reply[l].kind = "notModified" /\ l \notin moved /\ ~getCacheUrl(url[l])
  /\ openFile(l, url[l], ReplyDate(reply[l]))
  /\ Taint(url[l], SpoiltBy(reply[l], l \in handle'))
  /\ received' = [received EXCEPT ![l] = IF reply[l].kind = "notModified" THEN Blocks ELSE 0]
  /\ phase' = [phase EXCEPT ![l] = "receiving"]
  /\ UNCHANGED <<version, url, since, moved, reply, buffered>>

NotModified(l) ==
  /\ phase[l] = "answered"
  /\ reply[l].kind = "notModified"
  /\ l \notin moved
  /\ getCacheUrl(url[l])
  /\ updateUrl(url[l], reply[l].of)
  /\ Redated(url[l], reply[l].of)
  /\ phase' = [phase EXCEPT ![l] = "notModified"]
  /\ UNCHANGED <<version, known, holder, file, url, since, moved, reply,
                 writeVars, faults>>

(* After a redirect the response still has a Location: a 304 is taken for  *)
(* another redirect and the load ends without content.                     *)
Misread(l) ==
  /\ phase[l] = "answered"
  /\ reply[l].kind = "notModified"
  /\ l \in moved
  /\ received' = [received EXCEPT ![l] = Blocks]
  /\ phase' = [phase EXCEPT ![l] = "receiving"]
  /\ UNCHANGED <<version, entryVars, url, since, moved, reply, handle, buffered, faults>>

(* writeCallback; the result of writeFile is not looked at.  A block that  *)
(* reaches the disk through a FILE* the entry no longer has spoils it.     *)
Body(l) ==
  LET b == received[l] + 1 IN
  /\ phase[l] = "receiving"
  /\ received[l] < Blocks
  /\ received' = [received EXCEPT ![l] = b]
  /\ \/ /\ l \in handle
        /\ Flush(l, buffered[l] \cup {b})
        /\ buffered' = [buffered EXCEPT ![l] = {}]
        /\ tainted' = IF holder[url[l]] = {l} THEN tainted ELSE tainted \cup {url[l]}
        /\ UNCHANGED faults
     \/ /\ l \in handle
        /\ buffered' = [buffered EXCEPT ![l] = @ \cup {b}]
        /\ UNCHANGED <<file, tainted, faults>>
     \/ /\ l \in handle
        /\ faults < MaxFaults
        /\ faults' = faults + 1
        /\ tainted' = tainted \cup {url[l]}
        /\ UNCHANGED <<file, buffered>>
     \/ l \notin handle /\ UNCHANGED <<file, tainted, buffered, faults>>
  /\ UNCHANGED <<version, known, date, newest, holder, loadVars, handle>>

(* The completion message of a transfer that wrote the cache is read.      *)
Complete(l) ==
  /\ phase[l] = "receiving"
  /\ received[l] = Blocks
  /\ closeFile(l)
  /\ End(l)
  /\ UNCHANGED <<version, known, date, newest, tainted, url, faults>>

(* That of a 304: the job is started again on the file.                    *)
Restart(l) ==
  /\ phase[l] = "notModified"
  /\ phase' = [phase EXCEPT ![l] = "reading"]
  /\ UNCHANGED <<version, entryVars, url, since, moved, reply, writeVars, faults>>

(* libcurl reads a file to its end in one call.                            *)
ReadFile(l) ==
  /\ phase[l] = "reading"
  /\ End(l)
  /\ UNCHANGED <<version, entryVars, url, faults>>

(* The transfer fails or is cancelled: nobody closes its FILE*.            *)
Break(l) ==
  /\ phase[l] \in {"sent", "answered", "receiving", "notModified", "reading"}
  /\ End(l)
  /\ UNCHANGED <<version, entryVars, url, faults>>

(* dispatchSynchronousJob: the callbacks are the same, but nothing closes  *)
(* the file, of which n blocks reach the disk, and a 304 is never followed *)
(* by reading it.  (Redirects and a failing fopen are left to async loads.) *)
LoadSynchronously(l) ==
  LET u == url[l] IN
  /\ l \in SyncLoads
  /\ phase[l] = "idle"
  /\ phase' = [phase EXCEPT ![l] = "gone"]
  /\ \E a \in PossibleAnswers(l, getIfModifiedSince(Page[u])) :
       \/ /\ a.kind \in {"full", "error"} \/ (a.kind = "notModified" /\ ~getCacheUrl(u))
          /\ known' = known \cup {u}
          /\ NewDate(u, ReplyDate(a))
          /\ holder' = [holder EXCEPT ![u] = {l}]
          /\ \E n \in IF a.kind = "notModified" THEN {0} ELSE 0..Blocks :
               file' = [file EXCEPT ![u] =
                          [b \in 1..Blocks |-> IF b <= n THEN Content(a) ELSE Hole]]
          /\ Taint(u, SpoiltBy(a, TRUE))
       \/ /\ a.kind = "notModified"
          /\ getCacheUrl(u)
          /\ updateUrl(u, a.of)
          /\ Redated(u, a.of)
          /\ UNCHANGED <<known, holder, file>>
  /\ UNCHANGED <<version, url, since, moved, reply, writeVars, faults>>

Next ==
  \/ \E u \in Urls : Modify(u)
  \/ \E l \in Loads : \/ Start(l) \/ Answer(l) \/ Redirected(l) \/ NewFile(l)
                      \/ NotModified(l) \/ Misread(l) \/ Body(l) \/ Complete(l)
                      \/ Restart(l) \/ ReadFile(l) \/ Break(l) \/ LoadSynchronously(l)

Spec == Init /\ [][Next]_vars
-----------------------------------------------------------------------------
(* Properties.                                                             *)

(* Every variable has its type.                                            *)
TypeOK ==
  /\ version \in [Urls -> Versions]
  /\ known \subseteq Urls
  /\ date \in [Urls -> Versions \cup {NoDate}]
  /\ newest \in [Urls -> Versions \cup {NoDate}]
  /\ holder \in [Urls -> {S \in SUBSET Loads : Cardinality(S) <= 1}]
  /\ file \in [Urls -> Files]
  /\ tainted \subseteq Urls
  /\ phase \in [Loads -> Phases]
  /\ url \in [Loads -> Urls]
  /\ since \in [Loads -> Versions \cup {NoDate}]
  /\ moved \subseteq Loads
  /\ reply \in [Loads -> Answers]
  /\ handle \subseteq Loads
  /\ received \in [Loads -> 0..Blocks]
  /\ buffered \in [Loads -> SUBSET (1..Blocks)]
  /\ faults \in 0..MaxFaults

(* An entry that no transfer holds open and none has spoilt in a way named *)
(* above keeps the promise its date makes: if the server would answer 304  *)
(* to that date, the file is the whole of the version it would vouch for.  *)
CacheTruth ==
  \A u \in known \ tainted :
    holder[u] = {} /\ date[u] # NoDate /\ version[Page[u]] <= date[u]
      => file[u] = Whole(version[Page[u]])

(* A job that was told 304 and is about to read such a file reads a whole  *)
(* version, no older than the one the server vouched for, whatever other   *)
(* transfers did to the entry since.                                       *)
ServedWhole ==
  \A l \in Loads :
    phase[l] = "reading" /\ url[l] \notin tainted /\ holder[url[l]] = {}
      => \E v \in reply[l].of..MaxVersion : file[url[l]] = Whole(v)

=============================================================================
