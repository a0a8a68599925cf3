------------------------- MODULE CacheFiles_proofs -------------------------
(***************************************************************************)
(* Theorems about the disk cache, for every set of URLs and loads, every   *)
(* number of blocks and of versions.                                       *)
(***************************************************************************)
EXTENDS CacheFiles, FiniteSetTheorems, TLAPS

Holders == {S \in SUBSET Loads : Cardinality(S) <= 1}

(* At most one FILE* belongs to an entry: fpCache is replaced, not added.  *)
LEMMA HolderTypes == {} \in Holders /\ \A l \in Loads : {l} \in Holders
<1>1. Cardinality({}) = 0 /\ \A l \in Loads : Cardinality({l}) = 1
  BY FS_EmptySet, FS_Singleton
<1>2. QED
  BY <1>1 DEF Holders

(* The date of an answer is a version, or none (NewDate).                  *)
LEMMA DateTypes ==
  ASSUME TypeOK, NEW u \in Urls, NEW d \in Versions \cup {NoDate}, NewDate(u, d)
  PROVE  /\ date' \in [Urls -> Versions \cup {NoDate}]
         /\ newest' \in [Urls -> Versions \cup {NoDate}]
  BY DEF NewDate, TypeOK

(* The blocks of an answer are of its version, or of an error page.        *)
LEMMA ContentTypes ==
  ASSUME NEW a \in Answers
  PROVE  Content(a) \in Contents /\ ReplyDate(a) \in Versions \cup {NoDate}
  BY DEF Answers, Content, ReplyDate, Contents

(* What is written to a file is blocks.                                    *)
LEMMA FlushTypes ==
  ASSUME TypeOK, NEW l \in Loads, NEW bs, Flush(l, bs)
  PROVE  file' \in [Urls -> Files]
<1>1. Content(reply[l]) \in Contents
  BY ContentTypes DEF TypeOK
<1>2. file[url[l]] \in [1..Blocks -> Contents]
  BY DEF TypeOK, Files
<1>3. [b \in 1..Blocks |-> IF b \in bs THEN Content(reply[l]) ELSE file[url[l]][b]] \in Files
  BY <1>1, <1>2 DEF Files
<1>4. QED
  BY <1>3 DEF Flush, TypeOK

(* openFile leaves an entry with one FILE*, or with none.                  *)
LEMMA OpenTypes ==
  ASSUME TypeOK, NEW l \in Loads, NEW u \in Urls, NEW d \in Versions \cup {NoDate},
         openFile(l, u, d)
  PROVE  /\ known' \subseteq Urls
         /\ date' \in [Urls -> Versions \cup {NoDate}]
         /\ newest' \in [Urls -> Versions \cup {NoDate}]
         /\ holder' \in [Urls -> Holders]
         /\ file' \in [Urls -> Files]
         /\ handle' \subseteq Loads
         /\ faults' \in 0..MaxFaults
<1>1. Empty \in Files
  BY DEF Empty, Files, Contents
<1>2. /\ date' \in [Urls -> Versions \cup {NoDate}]
      /\ newest' \in [Urls -> Versions \cup {NoDate}]
  BY DateTypes DEF openFile
<1>3. {} \in Holders /\ {l} \in Holders /\ holder \in [Urls -> Holders]
  BY HolderTypes DEF TypeOK, Holders
<1>4. known \subseteq Urls /\ file \in [Urls -> Files] /\ handle \subseteq Loads
  BY DEF TypeOK
<1>5. known' \subseteq Urls /\ file' \in [Urls -> Files] /\ handle' \subseteq Loads
  BY <1>1, <1>4 DEF openFile
<1>6. holder' \in [Urls -> Holders]
  BY <1>3 DEF openFile
<1>7. faults' \in 0..MaxFaults
  BY CacheAssumption DEF openFile, TypeOK, CacheAssumption
<1>8. QED
  BY <1>2, <1>5, <1>6, <1>7

(* closeFile leaves an entry without a FILE*, or as it is.                 *)
LEMMA CloseTypes ==
  ASSUME TypeOK, NEW l \in Loads, closeFile(l)
  PROVE  file' \in [Urls -> Files] /\ holder' \in [Urls -> Holders]
<1>1. CASE l \in handle /\ holder[url[l]] = {l}
  BY <1>1, FlushTypes, HolderTypes DEF closeFile, TypeOK, Holders
<1>2. CASE ~(l \in handle /\ holder[url[l]] = {l})
  BY <1>2 DEF closeFile, TypeOK, Holders
<1>3. QED
  BY <1>1, <1>2

(* A job that ends has no answer, FILE* or buffer.                         *)
LEMMA EndTypes ==
  ASSUME TypeOK, NEW l \in Loads, End(l)
  PROVE  /\ phase' \in [Loads -> Phases]
         /\ since' \in [Loads -> Versions \cup {NoDate}]
         /\ moved' \subseteq Loads
         /\ reply' \in [Loads -> Answers]
         /\ handle' \subseteq Loads
         /\ received' \in [Loads -> 0..Blocks]
         /\ buffered' \in [Loads -> SUBSET (1..Blocks)]
<1>1. 0 \in Versions /\ 0 \in 0..Blocks
  BY CacheAssumption DEF CacheAssumption, Versions
<1>2. reply' \in [Loads -> Answers]
  BY <1>1, ZenonT(60) DEF End, TypeOK, Answers, Kinds
<1>3. QED
  BY <1>1, <1>2 DEF End, TypeOK, Phases

-----------------------------------------------------------------------------
(* In every reachable state every variable has its type.                   *)
THEOREM TypeCorrect == Spec => []TypeOK
<1> USE CacheAssumption DEF CacheAssumption
<1>1. Init => TypeOK
  <2> SUFFICES ASSUME Init PROVE TypeOK
    OBVIOUS
  <2>1. 0 \in Versions /\ 0 \in 0..MaxFaults /\ 0 \in 0..Blocks
    BY DEF Versions
  <2>2. Empty \in Files
    BY DEF Empty, Files, Contents
  <2>3. holder \in [Urls -> Holders]
    BY HolderTypes DEF Init
  <2>4. reply \in [Loads -> Answers]
    BY <2>1 DEF Init, Answers, Kinds
  <2>5. QED
    BY <2>1, <2>2, <2>3, <2>4 DEF Init, TypeOK, Phases, Holders
<1>2. TypeOK /\ [Next]_vars => TypeOK'
  <2> SUFFICES ASSUME TypeOK, [Next]_vars PROVE TypeOK'
    OBVIOUS
  <2> USE DEF entryVars, loadVars, writeVars
  <2>1. ASSUME NEW u \in Urls, Modify(u) PROVE TypeOK'
    <3>1. version' \in [Urls -> Versions]
      BY <2>1 DEF Modify, TypeOK, Versions
    <3>2. QED
      BY <2>1, <3>1 DEF Modify, TypeOK
  <2>2. ASSUME NEW l \in Loads, Start(l) PROVE TypeOK'
    BY <2>2 DEF Start, TypeOK, Phases, getIfModifiedSince
  <2>3. ASSUME NEW l \in Loads, Answer(l) PROVE TypeOK'
    BY <2>3 DEF Answer, TypeOK, Phases, PossibleAnswers
  <2>4. ASSUME NEW l \in Loads, Redirected(l) PROVE TypeOK'
    BY <2>4 DEF Redirected, TypeOK, Phases, Answers
  <2>5. ASSUME NEW l \in Loads, NewFile(l) PROVE TypeOK'
    <3>1. ReplyDate(reply[l]) \in Versions \cup {NoDate} /\ url[l] \in Urls
      BY ContentTypes DEF TypeOK
    <3>2. /\ known' \subseteq Urls
          /\ date' \in [Urls -> Versions \cup {NoDate}]
          /\ newest' \in [Urls -> Versions \cup {NoDate}]
          /\ holder' \in [Urls -> Holders]
          /\ file' \in [Urls -> Files]
          /\ handle' \subseteq Loads
          /\ faults' \in 0..MaxFaults
      BY <2>5, <3>1, OpenTypes DEF NewFile
    <3>3. /\ tainted' \subseteq Urls
          /\ received' \in [Loads -> 0..Blocks]
          /\ phase' \in [Loads -> Phases]
      BY <2>5, <3>1 DEF NewFile, Taint, TypeOK, Phases
    <3>4. QED
      BY <2>5, <3>2, <3>3 DEF NewFile, TypeOK, Holders
  <2>6. ASSUME NEW l \in Loads, NotModified(l) PROVE TypeOK'
    <3>1. reply[l].of \in Versions /\ url[l] \in Urls
      BY DEF TypeOK, Answers
    <3>2. /\ date' \in [Urls -> Versions \cup {NoDate}]
          /\ newest' \in [Urls -> Versions \cup {NoDate}]
      BY <2>6, <3>1, DateTypes DEF NotModified, updateUrl
    <3>3. tainted' \subseteq Urls /\ phase' \in [Loads -> Phases]
      BY <2>6, <3>1 DEF NotModified, Redated, TypeOK, Phases
    <3>4. QED
      BY <2>6, <3>2, <3>3 DEF NotModified, TypeOK
  <2>7. ASSUME NEW l \in Loads, Misread(l) PROVE TypeOK'
    BY <2>7 DEF Misread, TypeOK, Phases
  <2>8. ASSUME NEW l \in Loads, Body(l) PROVE TypeOK'
    <3>1. received' \in [Loads -> 0..Blocks] /\ received[l] + 1 \in 1..Blocks
      BY <2>8 DEF Body, TypeOK
    <3>2. file' \in [Urls -> Files]
      BY <2>8, FlushTypes DEF Body, TypeOK
    <3>3. buffered' \in [Loads -> SUBSET (1..Blocks)]
      BY <2>8, <3>1 DEF Body, TypeOK
    <3>4. tainted' \subseteq Urls /\ faults' \in 0..MaxFaults
      BY <2>8 DEF Body, TypeOK
    <3>5. QED
      BY <2>8, <3>1, <3>2, <3>3, <3>4 DEF Body, TypeOK
  <2>9. ASSUME NEW l \in Loads, Complete(l) PROVE TypeOK'
    BY <2>9, CloseTypes, EndTypes DEF Complete, TypeOK, Holders
  <2>10. ASSUME NEW l \in Loads, Restart(l) PROVE TypeOK'
    BY <2>10 DEF Restart, TypeOK, Phases
  <2>11. ASSUME NEW l \in Loads, ReadFile(l) PROVE TypeOK'
    BY <2>11, EndTypes DEF ReadFile, TypeOK
  <2>12. ASSUME NEW l \in Loads, Break(l) PROVE TypeOK'
    BY <2>12, EndTypes DEF Break, TypeOK
  <2>13. ASSUME NEW l \in Loads, LoadSynchronously(l) PROVE TypeOK'
    <3> DEFINE u == url[l]
    <3>1. u \in Urls
      BY DEF TypeOK
    <3>2. PICK a \in PossibleAnswers(l, getIfModifiedSince(Page[u])) :
            \/ /\ a.kind \in {"full", "error"} \/ (a.kind = "notModified" /\ ~getCacheUrl(u))
               /\ known' = known \cup {u}
               /\ NewDate(u, ReplyDate(a))
               /\ holder' = [holder EXCEPT ![u] = {l}]
               /\ \E n \in IF a.kind = "notModified" THEN {0} ELSE 0..Blocks :
                    file' = [file EXCEPT ![u] =
                               [b \in 1..Blocks |-> IF b <= n THEN Content(a) ELSE Hole]]
               /\ Taint(u, SpoiltBy(a, TRUE))
            \/ /\ a.kind = "notModified"
               /\ getCacheUrl(u)
               /\ updateUrl(u, a.of)
               /\ Redated(u, a.of)
               /\ UNCHANGED <<known, holder, file>>
      BY <2>13 DEF LoadSynchronously
    <3>3. /\ a \in Answers /\ a.of \in Versions /\ Content(a) \in Contents
          /\ ReplyDate(a) \in Versions \cup {NoDate}
      BY <3>2, ContentTypes DEF PossibleAnswers, Answers
    <3>4. /\ date' \in [Urls -> Versions \cup {NoDate}]
          /\ newest' \in [Urls -> Versions \cup {NoDate}]
      BY <3>1, <3>2, <3>3, DateTypes DEF updateUrl
    <3>5. holder' \in [Urls -> Holders] /\ known' \subseteq Urls
      <4>1. {l} \in Holders /\ holder \in [Urls -> Holders]
        BY HolderTypes DEF TypeOK, Holders
      <4>2. known' \in {known, known \cup {u}} /\ holder' \in {holder, [holder EXCEPT ![u] = {l}]}
        BY <3>2
      <4>3. known \subseteq Urls
        BY DEF TypeOK
      <4>4. [holder EXCEPT ![u] = {l}] \in [Urls -> Holders]
        BY <4>1
      <4>5. QED
        BY <3>1, <4>1, <4>2, <4>3, <4>4
    <3>6. file' \in [Urls -> Files]
      <4>1. ASSUME NEW n \in 0..Blocks
            PROVE  [b \in 1..Blocks |-> IF b <= n THEN Content(a) ELSE Hole] \in Files
        BY <3>3 DEF Files, Contents
      <4>2. CASE UNCHANGED file
        BY <4>2 DEF TypeOK
      <4>3. ASSUME NEW n \in 0..Blocks,
                   file' = [file EXCEPT ![u] =
                              [b \in 1..Blocks |-> IF b <= n THEN Content(a) ELSE Hole]]
            PROVE  file' \in [Urls -> Files]
        BY <3>1, <4>1, <4>3 DEF TypeOK
      <4>4. 0 \in 0..Blocks
        OBVIOUS
      <4>5. QED
        BY <3>2, <4>2, <4>3, <4>4, Zenon
    <3>7. tainted' \subseteq Urls
      BY <3>1, <3>2 DEF TypeOK, Taint, Redated
    <3>8. phase' \in [Loads -> Phases]
      BY <2>13 DEF LoadSynchronously, TypeOK, Phases
    <3>9. QED
      BY <2>13, <3>4, <3>5, <3>6, <3>7, <3>8 DEF LoadSynchronously, TypeOK, Holders
  <2>14. CASE UNCHANGED vars
    BY <2>14 DEF vars, TypeOK
  <2>15. QED
    BY <2>1, <2>2, <2>3, <2>4, <2>5, <2>6, <2>7, <2>8, <2>9, <2>10, <2>11, <2>12,
       <2>13, <2>14 DEF Next
<1>3. QED
  BY <1>1, <1>2, PTL DEF Spec
-----------------------------------------------------------------------------
(* The inductive invariant.                                                *)

(* A load has a FILE*, and blocks in its buffer, only while it receives.   *)
OpenWhileReceiving ==
  \A l \in Loads : phase[l] # "receiving" => l \notin handle /\ buffered[l] = {}

Answered == {"answered", "receiving", "notModified", "reading"}

(* An answer is about the page of the load's URL, which may be newer now.  *)
AnswersKnown ==
  \A l \in Loads : phase[l] \in Answered =>
    /\ reply[l].kind # "stampedError" => reply[l].of <= version[Page[url[l]]]
    /\ reply[l].kind # "redirect" => reply[l].to = url[l]
    /\ phase[l] # "answered" => reply[l].kind # "redirect"

DatesGrow == \A u \in Urls : date[u] <= newest[u]

(* An entry whose date promises something.                                 *)
Sound(u) == u \in known \ tainted /\ date[u] # NoDate

(* What has come through the FILE* of an entry is the content of a version *)
(* no older than any date the entry had.                                   *)
OpenFileTrue(u, l) ==
  Sound(u) /\ holder[u] = {l} /\ l \in handle /\ url[l] = u =>
    /\ reply[l].kind = "full"
    /\ newest[u] <= reply[l].of
    /\ \A b \in 1..received[l] : b \in buffered[l] \/ file[u][b] = reply[l].of

(* A closed file is the whole of such a version.                           *)
ClosedFileTrue(u) ==
  Sound(u) /\ holder[u] = {} =>
    \E v \in newest[u]..version[Page[u]] : file[u] = Whole(v)

(* Whoever was told 304 left its date in the entry.                        *)
ReadersDated ==
  \A l \in Loads : phase[l] \in {"notModified", "reading"} =>
    /\ url[l] \in known
    /\ date[url[l]] # NoDate
    /\ reply[l].of <= newest[url[l]]

CacheInv ==
  /\ OpenWhileReceiving
  /\ AnswersKnown
  /\ DatesGrow
  /\ \A u \in Urls, l \in Loads : OpenFileTrue(u, l)
  /\ \A u \in Urls : ClosedFileTrue(u)
  /\ ReadersDated

(* What a step may leave as it is: an entry, but for being spoilt and for  *)
(* an older date, and a load.                                              *)
SameEntry(u) ==
  /\ u \in known' \ tainted' => u \in known \ tainted
  /\ date'[u] # NoDate => date[u] # NoDate
  /\ newest'[u] = newest[u]
  /\ holder'[u] = holder[u] /\ file'[u] = file[u]

SameLoad(l) ==
  /\ l \in handle' => l \in handle
  /\ url'[l] = url[l] /\ reply'[l] = reply[l]
  /\ received'[l] = received[l] /\ buffered'[l] = buffered[l]

(* The server only ever modifies a page into a newer version.              *)
LEMMA VersionsGrow ==
  ASSUME TypeOK, TypeOK', [Next]_vars
  PROVE  \A u \in Urls : version[u] <= version'[u]
<1>1. CASE UNCHANGED version
  BY <1>1 DEF TypeOK, Versions
<1>2. ASSUME NEW u \in Urls, Modify(u) PROVE \A w \in Urls : version[w] <= version'[w]
  BY <1>2 DEF Modify, TypeOK, Versions
<1>3. QED
  BY <1>1, <1>2 DEF Next, vars, Start, Answer, Redirected, NewFile, NotModified, Misread,
     Body, Complete, Restart, ReadFile, Break, LoadSynchronously

(* What is true of a closed file stays true while its entry stays and the  *)
(* server goes on modifying the page.                                      *)
LEMMA ClosedFrame ==
  ASSUME TypeOK, TypeOK', NEW u \in Urls, ClosedFileTrue(u), SameEntry(u),
         version[Page[u]] <= version'[Page[u]]
  PROVE  ClosedFileTrue(u)'
<1> SUFFICES ASSUME Sound(u)', holder'[u] = {}
             PROVE  \E v \in newest'[u]..version'[Page[u]] : file'[u] = Whole(v)
  BY DEF ClosedFileTrue, Sound, Whole
<1>1. PICK v \in newest[u]..version[Page[u]] : file[u] = Whole(v)
  BY DEF ClosedFileTrue, Sound, SameEntry
<1>2. /\ Page[u] \in Urls /\ newest[u] \in Int
      /\ version[Page[u]] \in Int /\ version'[Page[u]] \in Int
  BY CacheAssumption DEF CacheAssumption, TypeOK, Versions, NoDate
<1>3. v \in newest'[u]..version'[Page[u]]
  BY <1>1, <1>2 DEF SameEntry
<1>4. QED
  BY <1>1, <1>3 DEF SameEntry

(* What is true of an open file stays true while nobody touches it.        *)
LEMMA OpenFrame ==
  ASSUME TypeOK, NEW u \in Urls, NEW l \in Loads, OpenFileTrue(u, l),
         SameEntry(u), SameLoad(l)
  PROVE  OpenFileTrue(u, l)'
  BY DEF OpenFileTrue, Sound, SameEntry, SameLoad

(* What is to be shown of a step of load k, which may change its entry w.  *)
LEMMA EntriesTrue ==
  ASSUME TypeOK, TypeOK', CacheInv, [Next]_vars,
         NEW w \in Urls, NEW k \in Loads,
         \A u \in Urls : u # w => SameEntry(u),
         \A l \in Loads : l # k => SameLoad(l),
         k \in handle' => url'[k] = w,
         OpenFileTrue(w, k)',
         Sound(w)' => \/ SameEntry(w)
                      \/ holder'[w] = {k}
                      \/ holder'[w] = {} /\ ClosedFileTrue(w)'
  PROVE  /\ \A u \in Urls, l \in Loads : OpenFileTrue(u, l)'
         /\ \A u \in Urls : ClosedFileTrue(u)'
<1>1. \A u \in Urls : Page[u] \in Urls
  BY CacheAssumption DEF CacheAssumption
<1>2. \A u \in Urls : version[Page[u]] <= version'[Page[u]]
  BY <1>1, VersionsGrow
<1>3. ASSUME NEW u \in Urls PROVE ClosedFileTrue(u)'
  <2>1. CASE SameEntry(u)
    BY <1>2, <2>1, ClosedFrame DEF CacheInv
  <2>2. CASE u = w /\ holder'[w] = {k}
    BY <2>2 DEF ClosedFileTrue
  <2>3. CASE ~Sound(u)'
    BY <2>3 DEF ClosedFileTrue
  <2>4. CASE u = w /\ ClosedFileTrue(w)'
    BY <2>4
  <2>5. QED
    BY <2>1, <2>2, <2>3, <2>4
<1>4. ASSUME NEW u \in Urls, NEW l \in Loads PROVE OpenFileTrue(u, l)'
  <2>1. CASE u # w /\ l # k
    BY <2>1, OpenFrame DEF CacheInv
  <2>2. CASE u # w /\ l = k
    BY <2>2 DEF OpenFileTrue
  <2>3. CASE u = w /\ l = k
    BY <2>3
  <2>4. CASE u = w /\ l # k
    <3>1. CASE SameEntry(w)
      BY <2>4, <3>1, OpenFrame DEF CacheInv
    <3>2. CASE holder'[w] \in {{k}, {}} \/ ~Sound(w)'
      BY <2>4, <3>2 DEF OpenFileTrue
    <3>3. QED
      BY <3>1, <3>2
  <2>5. QED
    BY <2>1, <2>2, <2>3, <2>4
<1>5. QED
  BY <1>3, <1>4

(* The steps that leave the entries alone.                                 *)
LEMMA QuietStep ==
  ASSUME TypeOK, TypeOK', CacheInv, [Next]_vars, NEW k \in Loads,
         UNCHANGED <<entryVars>>, \A l \in Loads : l # k => SameLoad(l),
         k \notin handle'
  PROVE  /\ \A u \in Urls, l \in Loads : OpenFileTrue(u, l)'
         /\ \A u \in Urls : ClosedFileTrue(u)'
<1>1. \A u \in Urls : SameEntry(u)
  BY DEF SameEntry, entryVars
<1>2. url[k] \in Urls
  BY DEF TypeOK
<1>3. OpenFileTrue(url[k], k)' /\ \A w \in Urls : OpenFileTrue(w, k)'
  BY DEF OpenFileTrue
<1>4. QED
  BY <1>1, <1>2, <1>3, EntriesTrue

(* Every step of the cache preserves the invariant.                        *)
LEMMA CacheStep ==
  ASSUME TypeOK, TypeOK', CacheInv, [Next]_vars
  PROVE  CacheInv'
<1> USE CacheAssumption DEF CacheAssumption, entryVars, loadVars, writeVars
<1>1. ASSUME NEW u \in Urls, Modify(u) PROVE CacheInv'
  <2>1. OpenWhileReceiving' /\ DatesGrow'
    BY <1>1 DEF Modify, CacheInv, OpenWhileReceiving, DatesGrow
  <2>2. AnswersKnown' /\ ReadersDated'
    BY <1>1 DEF Modify, CacheInv, TypeOK, Versions, Answers, AnswersKnown, Answered, ReadersDated
  <2>3. /\ \A w \in Urls : SameEntry(w) /\ version[Page[w]] <= version'[Page[w]]
        /\ \A l \in Loads : SameLoad(l)
    BY <1>1, VersionsGrow DEF Modify, SameEntry, SameLoad
  <2>4. /\ \A w \in Urls, l \in Loads : OpenFileTrue(w, l)'
        /\ \A w \in Urls : ClosedFileTrue(w)'
    BY <2>3, OpenFrame, ClosedFrame DEF CacheInv
  <2>5. QED
    BY <2>1, <2>2, <2>4 DEF CacheInv
<1>2. ASSUME NEW k \in Loads, Start(k) PROVE CacheInv'
  <2>1. OpenWhileReceiving' /\ k \notin handle'
    BY <1>2 DEF Start, getIfModifiedSince, CacheInv, TypeOK, OpenWhileReceiving
  <2>2. AnswersKnown' /\ DatesGrow' /\ ReadersDated'
    BY <1>2 DEF Start, getIfModifiedSince, CacheInv, TypeOK, Answers, AnswersKnown, Answered, DatesGrow, ReadersDated
  <2>3. UNCHANGED <<entryVars>> /\ \A l \in Loads : l # k => SameLoad(l)
    BY <1>2 DEF Start, getIfModifiedSince, SameLoad, TypeOK
  <2>4. /\ \A w \in Urls, l \in Loads : OpenFileTrue(w, l)'
        /\ \A w \in Urls : ClosedFileTrue(w)'
    BY <2>1, <2>3, QuietStep
  <2>5. QED
    BY <2>1, <2>2, <2>4 DEF CacheInv
<1>3. ASSUME NEW k \in Loads, Answer(k) PROVE CacheInv'
  <2>1. OpenWhileReceiving' /\ k \notin handle'
    BY <1>3 DEF Answer, PossibleAnswers, CacheInv, TypeOK, OpenWhileReceiving
  <2>2. AnswersKnown'
    <3>1. PICK a \in PossibleAnswers(k, since[k]) : reply' = [reply EXCEPT ![k] = a]
      BY <1>3 DEF Answer
    <3>2. /\ reply'[k] = a /\ (a.kind # "redirect" => a.to = url[k])
          /\ a.kind # "stampedError" => a.of = version[Page[url[k]]] \/ a.of = 0
      BY <3>1 DEF PossibleAnswers, TypeOK
    <3>3. version[Page[url[k]]] \in Nat
      BY DEF TypeOK, Versions
    <3>4. /\ phase'[k] = "answered" /\ UNCHANGED <<version, url>>
          /\ \A l \in Loads : l # k => reply'[l] = reply[l] /\ phase'[l] = phase[l]
      BY <1>3, <3>1 DEF Answer, TypeOK
    <3>5. QED
      BY <3>2, <3>3, <3>4 DEF CacheInv, AnswersKnown
  <2>3. DatesGrow' /\ ReadersDated'
    BY <1>3 DEF Answer, CacheInv, TypeOK, DatesGrow, ReadersDated
  <2>4. UNCHANGED <<entryVars>> /\ \A l \in Loads : l # k => SameLoad(l)
    BY <1>3 DEF Answer, PossibleAnswers, SameLoad, TypeOK
  <2>5. /\ \A w \in Urls, l \in Loads : OpenFileTrue(w, l)'
        /\ \A w \in Urls : ClosedFileTrue(w)'
    BY <2>1, <2>4, QuietStep
  <2>6. QED
    BY <2>1, <2>2, <2>3, <2>5 DEF CacheInv
<1>4. ASSUME NEW k \in Loads, Redirected(k) PROVE CacheInv'
  <2>1. OpenWhileReceiving' /\ k \notin handle'
    BY <1>4 DEF Redirected, CacheInv, TypeOK, OpenWhileReceiving
  <2>2. AnswersKnown' /\ DatesGrow' /\ ReadersDated'
    BY <1>4 DEF Redirected, CacheInv, TypeOK, Answers, AnswersKnown, Answered, DatesGrow, ReadersDated
  <2>3. UNCHANGED <<entryVars>> /\ \A l \in Loads : l # k => SameLoad(l)
    BY <1>4 DEF Redirected, SameLoad, TypeOK
  <2>4. /\ \A w \in Urls, l \in Loads : OpenFileTrue(w, l)'
        /\ \A w \in Urls : ClosedFileTrue(w)'
    BY <2>1, <2>3, QuietStep
  <2>5. QED
    BY <2>1, <2>2, <2>4 DEF CacheInv
<1>5. ASSUME NEW k \in Loads, Misread(k) PROVE CacheInv'
  <2>1. OpenWhileReceiving' /\ k \notin handle'
    BY <1>5 DEF Misread, CacheInv, TypeOK, OpenWhileReceiving
  <2>2. AnswersKnown' /\ DatesGrow' /\ ReadersDated'
    BY <1>5 DEF Misread, CacheInv, TypeOK, Answers, AnswersKnown, Answered, DatesGrow, ReadersDated
  <2>3. UNCHANGED <<entryVars>> /\ \A l \in Loads : l # k => SameLoad(l)
    BY <1>5 DEF Misread, SameLoad, TypeOK
  <2>4. /\ \A w \in Urls, l \in Loads : OpenFileTrue(w, l)'
        /\ \A w \in Urls : ClosedFileTrue(w)'
    BY <2>1, <2>3, QuietStep
  <2>5. QED
    BY <2>1, <2>2, <2>4 DEF CacheInv
<1>6. ASSUME NEW k \in Loads, Restart(k) PROVE CacheInv'
  <2>1. OpenWhileReceiving' /\ k \notin handle'
    BY <1>6 DEF Restart, CacheInv, TypeOK, OpenWhileReceiving
  <2>2. AnswersKnown' /\ DatesGrow' /\ ReadersDated'
    BY <1>6 DEF Restart, CacheInv, TypeOK, Answers, AnswersKnown, Answered, DatesGrow, ReadersDated
  <2>3. UNCHANGED <<entryVars>> /\ \A l \in Loads : l # k => SameLoad(l)
    BY <1>6 DEF Restart, SameLoad, TypeOK
  <2>4. /\ \A w \in Urls, l \in Loads : OpenFileTrue(w, l)'
        /\ \A w \in Urls : ClosedFileTrue(w)'
    BY <2>1, <2>3, QuietStep
  <2>5. QED
    BY <2>1, <2>2, <2>4 DEF CacheInv
<1>7. ASSUME NEW k \in Loads, ReadFile(k) PROVE CacheInv'
  <2>1. OpenWhileReceiving' /\ k \notin handle'
    BY <1>7 DEF ReadFile, End, CacheInv, TypeOK, OpenWhileReceiving
  <2>2. AnswersKnown' /\ DatesGrow' /\ ReadersDated'
    BY <1>7 DEF ReadFile, End, CacheInv, TypeOK, Answers, AnswersKnown, Answered, DatesGrow, ReadersDated
  <2>3. UNCHANGED <<entryVars>> /\ \A l \in Loads : l # k => SameLoad(l)
    BY <1>7 DEF ReadFile, End, SameLoad, TypeOK
  <2>4. /\ \A w \in Urls, l \in Loads : OpenFileTrue(w, l)'
        /\ \A w \in Urls : ClosedFileTrue(w)'
    BY <2>1, <2>3, QuietStep
  <2>5. QED
    BY <2>1, <2>2, <2>4 DEF CacheInv
<1>8. ASSUME NEW k \in Loads, Break(k) PROVE CacheInv'
  <2>1. OpenWhileReceiving' /\ k \notin handle'
    BY <1>8 DEF Break, End, CacheInv, TypeOK, OpenWhileReceiving
  <2>2. AnswersKnown' /\ DatesGrow' /\ ReadersDated'
    BY <1>8 DEF Break, End, CacheInv, TypeOK, Answers, AnswersKnown, Answered, DatesGrow, ReadersDated
  <2>3. UNCHANGED <<entryVars>> /\ \A l \in Loads : l # k => SameLoad(l)
    BY <1>8 DEF Break, End, SameLoad, TypeOK
  <2>4. /\ \A w \in Urls, l \in Loads : OpenFileTrue(w, l)'
        /\ \A w \in Urls : ClosedFileTrue(w)'
    BY <2>1, <2>3, QuietStep
  <2>5. QED
    BY <2>1, <2>2, <2>4 DEF CacheInv
<1>9. ASSUME NEW k \in Loads, NewFile(k) PROVE CacheInv'
  <2>. PICK w \in Urls : w = url[k]
    BY DEF TypeOK
  <2>1. OpenWhileReceiving'
    BY <1>9 DEF NewFile, openFile, NewDate, Taint, SpoiltBy, ReplyDate, CacheInv, TypeOK, OpenWhileReceiving
  <2>2. AnswersKnown'
    BY <1>9 DEF NewFile, openFile, NewDate, Taint, SpoiltBy, ReplyDate, CacheInv, TypeOK, Answers, AnswersKnown, Answered, Errors
  <2>3. DatesGrow'
    BY <1>9 DEF NewFile, openFile, NewDate, Taint, SpoiltBy, ReplyDate, CacheInv, TypeOK, Answers, Versions, NoDate, DatesGrow
  <2>4. ReadersDated'
    BY <1>9 DEF NewFile, openFile, NewDate, Taint, SpoiltBy, ReplyDate, CacheInv, TypeOK, Answers, Versions, NoDate, ReadersDated
  <2>5. \A u \in Urls : u # w => SameEntry(u)
    BY <1>9 DEF NewFile, openFile, NewDate, Taint, SpoiltBy, ReplyDate, SameEntry, TypeOK
  <2>6. \A l \in Loads : l # k => SameLoad(l)
    BY <1>9 DEF NewFile, openFile, NewDate, Taint, SpoiltBy, ReplyDate, SameLoad, TypeOK
  <2>7. url'[k] = w
    BY <1>9 DEF NewFile, openFile, NewDate, Taint, SpoiltBy, ReplyDate
  <2>8. ASSUME SpoiltBy(reply[k], k \in handle')
        PROVE  /\ \A u \in Urls, l \in Loads : OpenFileTrue(u, l)'
               /\ \A u \in Urls : ClosedFileTrue(u)'
    <3>1. w \in tainted'
      BY <1>9, <2>8 DEF NewFile, Taint
    <3>2. ~Sound(w)'
      BY <3>1 DEF Sound
    <3>3. OpenFileTrue(w, k)'
      BY <3>2 DEF OpenFileTrue
    <3>4. QED
      BY <2>5, <2>6, <2>7, <3>2, <3>3, EntriesTrue
  <2>9. ASSUME ~SpoiltBy(reply[k], k \in handle')
        PROVE  /\ \A u \in Urls, l \in Loads : OpenFileTrue(u, l)'
               /\ \A u \in Urls : ClosedFileTrue(u)'
    <3>1. k \in handle' /\ reply[k].kind \in {"full", "error"}
      BY <1>9, <2>9 DEF NewFile, SpoiltBy, Errors
    <3>2. reply[k].to = w
      BY <1>9, <3>1 DEF NewFile, CacheInv, AnswersKnown, Answered
    <3>3. newest[w] <= reply[k].of /\ (reply[k].kind = "error" => date[w] = NoDate)
      <4>1. ~(reply[k].of < newest[w]) /\ (reply[k].kind = "error" => date[w] = NoDate)
        BY <2>9, <3>2 DEF SpoiltBy
      <4>2. reply[k].of \in Int /\ newest[w] \in Int
        BY DEF TypeOK, Answers, Versions, NoDate
      <4>3. QED
        BY <4>1, <4>2
    <3>4. holder'[w] = {k} /\ received'[k] = 0 /\ reply'[k] = reply[k]
      <4>1. k \notin handle
        BY <1>9 DEF NewFile, CacheInv, OpenWhileReceiving
      <4>2. holder'[w] = {k}
        BY <1>9, <3>1, <4>1 DEF NewFile, openFile, TypeOK
      <4>3. QED
        BY <1>9, <3>1, <4>2 DEF NewFile, TypeOK
    <3>5. Sound(w)' => reply[k].kind = "full" /\ newest'[w] <= reply[k].of
      <4>1. NewDate(w, ReplyDate(reply[k]))
        BY <1>9 DEF NewFile, openFile
      <4>2. reply[k].kind = "error" => date'[w] = NoDate
        BY <3>3, <4>1 DEF NewDate, ReplyDate, TypeOK
      <4>3. reply[k].kind = "full" => newest'[w] <= reply[k].of
        BY <3>3, <4>1 DEF NewDate, ReplyDate, TypeOK, Answers, Versions, NoDate
      <4>4. QED
        BY <3>1, <4>2, <4>3 DEF Sound
    <3>6. OpenFileTrue(w, k)'
      BY <3>4, <3>5 DEF OpenFileTrue
    <3>7. QED
      BY <2>5, <2>6, <2>7, <3>4, <3>6, EntriesTrue
  <2>10. QED
    BY <2>1, <2>2, <2>3, <2>4, <2>8, <2>9 DEF CacheInv
<1>10. ASSUME NEW k \in Loads, NotModified(k) PROVE CacheInv'
  <2>. PICK w \in Urls : w = url[k]
    BY DEF TypeOK
  <2>1. OpenWhileReceiving'
    BY <1>10 DEF NotModified, updateUrl, NewDate, Redated, getCacheUrl, CacheInv, TypeOK, OpenWhileReceiving
  <2>2. AnswersKnown'
    BY <1>10 DEF NotModified, updateUrl, NewDate, Redated, getCacheUrl, CacheInv, TypeOK, Answers, AnswersKnown, Answered
  <2>3. DatesGrow'
    BY <1>10 DEF NotModified, updateUrl, NewDate, Redated, getCacheUrl, CacheInv, TypeOK, Answers, Versions, NoDate, DatesGrow
  <2>4. ReadersDated'
    BY <1>10 DEF NotModified, updateUrl, NewDate, Redated, getCacheUrl, CacheInv, TypeOK, Answers, Versions, NoDate, ReadersDated
  <2>5. \A u \in Urls : u # w => SameEntry(u)
    BY <1>10 DEF NotModified, updateUrl, NewDate, Redated, getCacheUrl, SameEntry, TypeOK
  <2>6. \A l \in Loads : l # k => SameLoad(l)
    BY <1>10 DEF NotModified, updateUrl, NewDate, Redated, getCacheUrl, SameLoad, TypeOK
  <2>7. url'[k] = w
    BY <1>10 DEF NotModified, updateUrl, NewDate, Redated, getCacheUrl
  <2>8. k \notin handle'
    BY <1>10 DEF NotModified, CacheInv, OpenWhileReceiving
  <2>9. Sound(w)' => SameEntry(w)
    <3>1. reply[k].of \in Versions
      BY DEF TypeOK, Answers
    <3>2. SUFFICES ASSUME w \notin tainted' PROVE SameEntry(w)
      BY DEF Sound
    <3>3. reply[k].of <= date[w] /\ tainted' = tainted
      BY <1>10, <3>1, <3>2 DEF NotModified, Redated, TypeOK, Versions, NoDate
    <3>4. newest'[w] = newest[w] /\ date[w] # NoDate
      BY <1>10, <3>1, <3>3 DEF NotModified, updateUrl, NewDate, CacheInv, DatesGrow, TypeOK, Versions, NoDate
    <3>5. QED
      BY <1>10, <3>3, <3>4 DEF NotModified, SameEntry
  <2>10. /\ \A u \in Urls, l \in Loads : OpenFileTrue(u, l)'
         /\ \A u \in Urls : ClosedFileTrue(u)'
    BY <2>5, <2>6, <2>7, <2>8, <2>9, EntriesTrue DEF OpenFileTrue
  <2>11. QED
    BY <2>1, <2>2, <2>3, <2>4, <2>10 DEF CacheInv
<1>11. ASSUME NEW k \in Loads, Body(k) PROVE CacheInv'
  <2>. PICK w \in Urls : w = url[k]
    BY DEF TypeOK
  <2>1. OpenWhileReceiving'
    BY <1>11, ZenonT(60) DEF Body, Flush, CacheInv, TypeOK, OpenWhileReceiving
  <2>2. AnswersKnown'
    BY <1>11 DEF Body, Flush, CacheInv, TypeOK, Answers, AnswersKnown, Answered
  <2>3. DatesGrow'
    BY <1>11 DEF Body, Flush, CacheInv, TypeOK, Answers, Versions, NoDate, DatesGrow
  <2>4. ReadersDated'
    BY <1>11 DEF Body, Flush, CacheInv, TypeOK, Answers, Versions, NoDate, ReadersDated
  <2>5. \A u \in Urls : u # w => SameEntry(u)
    BY <1>11 DEF Body, Flush, SameEntry, TypeOK
  <2>6. \A l \in Loads : l # k => SameLoad(l)
    BY <1>11 DEF Body, Flush, SameLoad, TypeOK
  <2>7. url'[k] = w
    BY <1>11 DEF Body, Flush
  <2>8. OpenFileTrue(w, k)'
    <3> SUFFICES ASSUME Sound(w)', holder'[w] = {k}, k \in handle'
                 PROVE  /\ reply'[k].kind = "full"
                        /\ newest'[w] <= reply'[k].of
                        /\ \A b \in 1..received'[k] :
                             b \in buffered'[k] \/ file'[w][b] = reply'[k].of
      BY DEF OpenFileTrue
    <3>1. /\ UNCHANGED <<known, date, newest, holder, url, reply, handle>>
          /\ tainted \subseteq tainted'
      BY <1>11 DEF Body
    <3>2. /\ reply[k].kind = "full"
          /\ newest[w] <= reply[k].of
          /\ \A b \in 1..received[k] : b \in buffered[k] \/ file[w][b] = reply[k].of
      BY <3>1 DEF Sound, CacheInv, OpenFileTrue
    <3>3. received[k] \in 0..Blocks /\ received'[k] = received[k] + 1 /\ received[k] < Blocks
      BY <1>11 DEF Body, TypeOK
    <3>4. ASSUME Flush(k, buffered[k] \cup {received[k] + 1})
          PROVE  \A b \in 1..received'[k] : file'[w][b] = reply[k].of
      <4>1. \A b \in 1..Blocks : file'[w][b] =
              IF b \in buffered[k] \cup {received[k] + 1} THEN reply[k].of ELSE file[w][b]
        BY <3>2, <3>4 DEF Flush, Content, Errors, TypeOK
      <4>2. \A b \in 1..received'[k] : b \in 1..Blocks /\ (b = received[k] + 1 \/ b \in 1..received[k])
        BY <3>3
      <4>3. QED
        BY <3>2, <4>1, <4>2
    <3>5. ASSUME buffered' = [buffered EXCEPT ![k] = @ \cup {received[k] + 1}], UNCHANGED file
          PROVE  \A b \in 1..received'[k] : b \in buffered'[k] \/ file'[w][b] = reply[k].of
      <4>1. buffered'[k] = buffered[k] \cup {received[k] + 1}
        BY <3>5 DEF TypeOK
      <4>2. \A b \in 1..received'[k] : b = received[k] + 1 \/ b \in 1..received[k]
        BY <3>3
      <4>3. QED
        BY <3>2, <3>5, <4>1, <4>2
    <3>6. w \notin tainted'
      BY DEF Sound
    <3>7. QED
      BY <1>11, <3>1, <3>2, <3>4, <3>5, <3>6 DEF Body
  <2>9. Sound(w)' => SameEntry(w) \/ holder'[w] = {k}
    <3>1. /\ UNCHANGED <<known, date, newest, holder>>
          /\ tainted \subseteq tainted'
      BY <1>11 DEF Body
    <3>2. w \in tainted' \/ UNCHANGED file \/ holder'[w] = {k}
      BY <1>11 DEF Body
    <3>3. QED
      BY <3>1, <3>2 DEF Sound, SameEntry
  <2>10. /\ \A u \in Urls, l \in Loads : OpenFileTrue(u, l)'
         /\ \A u \in Urls : ClosedFileTrue(u)'
    BY <2>5, <2>6, <2>7, <2>8, <2>9, EntriesTrue
  <2>11. QED
    BY <2>1, <2>2, <2>3, <2>4, <2>10 DEF CacheInv
<1>12. ASSUME NEW k \in Loads, Complete(k) PROVE CacheInv'
  <2>. PICK w \in Urls : w = url[k]
    BY DEF TypeOK
  <2>1. OpenWhileReceiving'
    BY <1>12 DEF Complete, closeFile, Flush, End, CacheInv, TypeOK, OpenWhileReceiving
  <2>2. AnswersKnown'
    BY <1>12 DEF Complete, closeFile, Flush, End, CacheInv, TypeOK, Answers, AnswersKnown, Answered
  <2>3. DatesGrow'
    BY <1>12 DEF Complete, closeFile, Flush, End, CacheInv, TypeOK, Answers, Versions, NoDate, DatesGrow
  <2>4. ReadersDated'
    BY <1>12 DEF Complete, closeFile, Flush, End, CacheInv, TypeOK, Answers, Versions, NoDate, ReadersDated
  <2>5. \A u \in Urls : u # w => SameEntry(u)
    BY <1>12 DEF Complete, closeFile, Flush, End, SameEntry, TypeOK
  <2>6. \A l \in Loads : l # k => SameLoad(l)
    BY <1>12 DEF Complete, closeFile, Flush, End, SameLoad, TypeOK
  <2>7. url'[k] = w
    BY <1>12 DEF Complete, closeFile, Flush, End
  <2>8. OpenFileTrue(w, k)'
    BY <1>12 DEF Complete, End, OpenFileTrue
  <2>9. Sound(w)' => SameEntry(w) \/ (holder'[w] = {} /\ ClosedFileTrue(w)')
    <3> SUFFICES ASSUME Sound(w)' PROVE SameEntry(w) \/ (holder'[w] = {} /\ ClosedFileTrue(w)')
      OBVIOUS
    <3>1. UNCHANGED <<known, date, newest, tainted, version>> /\ received[k] = Blocks
      BY <1>12 DEF Complete
    <3>2. CASE UNCHANGED <<file, holder>>
      BY <3>1, <3>2 DEF SameEntry
    <3>3. CASE /\ k \in handle /\ holder[w] = {k}
               /\ Flush(k, buffered[k])
               /\ holder' = [holder EXCEPT ![w] = {}]
      <4>1. /\ reply[k].kind = "full"
            /\ newest[w] <= reply[k].of
            /\ \A b \in 1..Blocks : b \in buffered[k] \/ file[w][b] = reply[k].of
        BY <3>1, <3>3 DEF Sound, CacheInv, OpenFileTrue
      <4>2. file'[w] = Whole(reply[k].of)
        BY <3>3, <4>1 DEF Flush, Content, Errors, Whole, TypeOK
      <4>3. reply[k].of \in newest[w]..version[Page[w]]
        <5>1. reply[k].of <= version[Page[w]]
          BY <1>12, <4>1 DEF Complete, CacheInv, AnswersKnown, Answered
        <5>2. Page[w] \in Urls
          OBVIOUS
        <5>3. reply[k].of \in Int /\ newest[w] \in Int /\ version[Page[w]] \in Int
          BY <5>2 DEF TypeOK, Answers, Versions, NoDate
        <5>4. QED
          BY <4>1, <5>1, <5>3
      <4>4. \E v \in newest'[w]..version'[Page[w]] : file'[w] = Whole(v)
        BY <3>1, <4>2, <4>3
      <4>5. ClosedFileTrue(w)'
        BY <4>4 DEF ClosedFileTrue, Whole
      <4>6. holder'[w] = {}
        BY <3>3 DEF TypeOK
      <4>7. QED
        BY <4>5, <4>6
    <3>4. QED
      BY <1>12, <3>2, <3>3 DEF Complete, closeFile
  <2>10. /\ \A u \in Urls, l \in Loads : OpenFileTrue(u, l)'
         /\ \A u \in Urls : ClosedFileTrue(u)'
    BY <2>5, <2>6, <2>7, <2>8, <2>9, EntriesTrue
  <2>11. QED
    BY <2>1, <2>2, <2>3, <2>4, <2>10 DEF CacheInv
<1>13. ASSUME NEW k \in Loads, LoadSynchronously(k) PROVE CacheInv'
  <2>. PICK w \in Urls : w = url[k]
    BY DEF TypeOK
  <2>1. PICK a \in PossibleAnswers(k, getIfModifiedSince(Page[w])) :
          \/ /\ a.kind \in {"full", "error"} \/ (a.kind = "notModified" /\ ~getCacheUrl(w))
             /\ known' = known \cup {w}
             /\ NewDate(w, ReplyDate(a))
             /\ holder' = [holder EXCEPT ![w] = {k}]
             /\ \E n \in IF a.kind = "notModified" THEN {0} ELSE 0..Blocks :
                  file' = [file EXCEPT ![w] =
                             [b \in 1..Blocks |-> IF b <= n THEN Content(a) ELSE Hole]]
             /\ Taint(w, SpoiltBy(a, TRUE))
          \/ /\ a.kind = "notModified"
             /\ getCacheUrl(w)
             /\ updateUrl(w, a.of)
             /\ Redated(w, a.of)
             /\ UNCHANGED <<known, holder, file>>
    BY <1>13 DEF LoadSynchronously
  <2>2. /\ phase' = [phase EXCEPT ![k] = "gone"] /\ phase[k] = "idle"
        /\ UNCHANGED <<version, url, since, moved, reply, writeVars, faults>>
    BY <1>13 DEF LoadSynchronously
  <2>3. OpenWhileReceiving' /\ k \notin handle'
    BY <2>2 DEF CacheInv, TypeOK, OpenWhileReceiving
  <2>4. AnswersKnown'
    BY <2>2 DEF CacheInv, TypeOK, AnswersKnown, Answered
  <2>5. a.of \in Versions /\ ReplyDate(a) \in Versions \cup {NoDate}
    BY ContentTypes DEF PossibleAnswers, Answers
  <2>6. PICK d \in Versions \cup {NoDate} : NewDate(w, d)
    BY <2>1, <2>5 DEF updateUrl
  <2>7. DatesGrow'
    BY <2>6 DEF NewDate, CacheInv, TypeOK, Versions, NoDate, DatesGrow
  <2>8. ReadersDated'
    <3>1. known \subseteq known'
      BY <2>1
    <3>2. \A u \in Urls : newest[u] <= newest'[u] /\ (date'[u] = NoDate => date[u] = NoDate)
      <4>1. d \in Int /\ newest[w] \in Int /\ \A u \in Urls : newest[u] \in Int
        BY DEF TypeOK, Versions, NoDate
      <4>2. \A u \in Urls : u # w => newest'[u] = newest[u] /\ date'[u] = date[u]
        BY <2>6 DEF NewDate, TypeOK
      <4>3. newest'[w] = IF d > newest[w] THEN d ELSE newest[w]
        BY <2>6 DEF NewDate, TypeOK
      <4>4. date'[w] = IF d = NoDate THEN date[w] ELSE d
        BY <2>6 DEF NewDate, TypeOK
      <4>5. newest[w] <= newest'[w] /\ (date'[w] = NoDate => date[w] = NoDate)
        BY <4>1, <4>3, <4>4
      <4>6. QED
        BY <4>1, <4>2, <4>5
    <3>3. \A l \in Loads : phase'[l] \in {"notModified", "reading"} =>
            phase[l] \in {"notModified", "reading"} /\ url'[l] = url[l] /\ reply'[l] = reply[l]
      BY <2>2 DEF TypeOK
    <3>4. \A l \in Loads : url[l] \in Urls /\ reply[l].of \in Int
      BY DEF TypeOK, Answers, Versions
    <3>5. \A u \in Urls : newest[u] \in Int /\ newest'[u] \in Int
      BY DEF TypeOK, Versions, NoDate
    <3>6. QED
      BY <3>1, <3>2, <3>3, <3>4, <3>5 DEF CacheInv, ReadersDated
  <2>9. \A u \in Urls : u # w => SameEntry(u)
    <3>1. \A u \in Urls : u # w =>
            date'[u] = date[u] /\ newest'[u] = newest[u]
      BY <2>6 DEF NewDate, TypeOK
    <3>2. \A u \in Urls : u # w => holder'[u] = holder[u] /\ file'[u] = file[u]
      BY <2>1 DEF TypeOK
    <3>3. \A u \in Urls : u # w => (u \in known' \ tainted' => u \in known \ tainted)
      BY <2>1 DEF Taint, Redated
    <3>4. QED
      BY <3>1, <3>2, <3>3 DEF SameEntry
  <2>10. \A l \in Loads : l # k => SameLoad(l)
    BY <2>2 DEF SameLoad
  <2>11. Sound(w)' => SameEntry(w) \/ holder'[w] = {k}
    <3>1. CASE holder' = [holder EXCEPT ![w] = {k}]
      BY <3>1 DEF TypeOK
    <3>2. CASE /\ UNCHANGED <<known, holder, file>> /\ Redated(w, a.of)
               /\ updateUrl(w, a.of)
      <4>1. SUFFICES ASSUME w \notin tainted' PROVE SameEntry(w)
        BY DEF Sound
      <4>2. a.of <= date[w] /\ tainted' = tainted
        <5>1. date[w] \in Int /\ a.of \in Int
          BY <2>5 DEF TypeOK, Versions, NoDate
        <5>2. ~(date[w] < a.of) /\ tainted' = tainted
          BY <3>2, <4>1 DEF Redated
        <5>3. QED
          BY <5>1, <5>2
      <4>3. newest'[w] = newest[w] /\ date[w] # NoDate
        BY <2>5, <3>2, <4>2 DEF updateUrl, NewDate, CacheInv, DatesGrow, TypeOK, Versions, NoDate
      <4>4. QED
        BY <3>2, <4>2, <4>3 DEF SameEntry
    <3>3. QED
      BY <2>1, <3>1, <3>2
  <2>12. /\ \A u \in Urls, l \in Loads : OpenFileTrue(u, l)'
         /\ \A u \in Urls : ClosedFileTrue(u)'
    <3>1. OpenFileTrue(w, k)'
      BY <2>3 DEF OpenFileTrue
    <3>2. QED
      BY <2>3, <2>9, <2>10, <2>11, <3>1, EntriesTrue
  <2>13. QED
    BY <2>3, <2>4, <2>7, <2>8, <2>12 DEF CacheInv
<1>14. CASE UNCHANGED vars
  <2>1. OpenWhileReceiving' /\ AnswersKnown' /\ DatesGrow' /\ ReadersDated'
    BY <1>14 DEF vars, CacheInv, OpenWhileReceiving, AnswersKnown, Answered, DatesGrow, ReadersDated
  <2>2. /\ \A u \in Urls, l \in Loads : OpenFileTrue(u, l)'
        /\ \A u \in Urls : ClosedFileTrue(u)'
    BY <1>14 DEF vars, CacheInv, OpenFileTrue, ClosedFileTrue, Sound, Whole
  <2>3. QED
    BY <2>1, <2>2 DEF CacheInv
<1>15. QED
  BY <1>1, <1>2, <1>3, <1>4, <1>5, <1>6, <1>7, <1>8, <1>9, <1>10, <1>11, <1>12, <1>13, <1>14 DEF Next

(* What is known of an entry whose file is closed.                         *)
LEMMA ClosedTruth ==
  ASSUME TypeOK, CacheInv, NEW u \in Urls, Sound(u), holder[u] = {}
  PROVE  \E v \in Versions : /\ file[u] = Whole(v)
                             /\ date[u] <= v /\ newest[u] <= v /\ v <= version[Page[u]]
<1>1. PICK v \in newest[u]..version[Page[u]] : file[u] = Whole(v)
  BY DEF CacheInv, ClosedFileTrue
<1>2. Page[u] \in Urls
  BY CacheAssumption DEF CacheAssumption
<1>3. /\ newest[u] \in Int /\ date[u] \in Versions
      /\ version[Page[u]] \in Versions
  BY <1>2 DEF TypeOK, Versions, NoDate, Sound
<1>4. date[u] <= newest[u]
  BY DEF CacheInv, DatesGrow
<1>5. QED
  BY <1>1, <1>3, <1>4, CacheAssumption DEF Versions, CacheAssumption

-----------------------------------------------------------------------------
(* CacheInv is true of every reachable state.                              *)
THEOREM CacheInvariant == Spec => [](TypeOK /\ CacheInv)
<1>1. Init => CacheInv
  <2> SUFFICES ASSUME Init PROVE CacheInv
    OBVIOUS
  <2>1. OpenWhileReceiving /\ AnswersKnown /\ DatesGrow /\ ReadersDated
    BY DEF Init, OpenWhileReceiving, AnswersKnown, Answered, DatesGrow, ReadersDated, NoDate
  <2>2. \A u \in Urls : ~Sound(u)
    BY DEF Init, Sound
  <2>3. QED
    BY <2>1, <2>2 DEF CacheInv, OpenFileTrue, ClosedFileTrue
<1>2. TypeOK /\ TypeOK' /\ CacheInv /\ [Next]_vars => CacheInv'
  BY CacheStep
<1>3. QED
  BY <1>1, <1>2, TypeCorrect, PTL DEF Spec

(* An entry that no transfer holds open and none has spoilt keeps the      *)
(* promise of its date: whenever the server would answer 304 to that date, *)
(* the file is the whole of the version vouched for (writeFile, closeFile  *)
(* and the If-Modified-Since header).                                      *)
THEOREM CacheIsTrue == Spec => []CacheTruth
<1>1. TypeOK /\ CacheInv => CacheTruth
  <2> SUFFICES ASSUME TypeOK, CacheInv,
                      NEW u \in known \ tainted,
                      holder[u] = {}, date[u] # NoDate, version[Page[u]] <= date[u]
               PROVE  file[u] = Whole(version[Page[u]])
    BY DEF CacheTruth
  <2>1. u \in Urls /\ Sound(u)
    BY DEF TypeOK, Sound
  <2>2. PICK v \in Versions : file[u] = Whole(v) /\ date[u] <= v /\ v <= version[Page[u]]
    BY <2>1, ClosedTruth
  <2>3. date[u] \in Int /\ version[Page[u]] \in Int /\ v \in Int
    BY <2>1, CacheAssumption DEF CacheAssumption, TypeOK, Versions, NoDate
  <2>4. v = version[Page[u]]
    BY <2>2, <2>3
  <2>5. QED
    BY <2>2, <2>4
<1>2. QED
  BY <1>1, CacheInvariant, PTL

(* A job that was told 304 reads, from an unspoilt entry nobody holds      *)
(* open, the whole of a version no older than the one the server vouched   *)
(* for, although other transfers may have rewritten the file between       *)
(* headerCallback and the restarted read.                                  *)
THEOREM ReadersServed == Spec => []ServedWhole
<1>1. TypeOK /\ CacheInv => ServedWhole
  <2> SUFFICES ASSUME TypeOK, CacheInv, NEW l \in Loads,
                      phase[l] = "reading", url[l] \notin tainted, holder[url[l]] = {}
               PROVE  \E v \in reply[l].of..MaxVersion : file[url[l]] = Whole(v)
    BY DEF ServedWhole
  <2>1. url[l] \in Urls /\ Sound(url[l]) /\ reply[l].of <= newest[url[l]]
    BY DEF TypeOK, CacheInv, ReadersDated, Sound
  <2>2. PICK v \in Versions : file[url[l]] = Whole(v) /\ newest[url[l]] <= v
    BY <2>1, ClosedTruth
  <2>3. reply[l].of \in Int /\ newest[url[l]] \in Int
    BY <2>1 DEF TypeOK, Answers, Versions, NoDate
  <2>4. v \in reply[l].of..MaxVersion
    BY <2>1, <2>2, <2>3, CacheAssumption DEF Versions, CacheAssumption
  <2>5. QED
    BY <2>2, <2>4
<1>2. QED
  BY <1>1, CacheInvariant, PTL
=============================================================================
