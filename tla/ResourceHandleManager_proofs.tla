-------------------- MODULE ResourceHandleManager_proofs --------------------
(***************************************************************************)
(* Theorems about the transfer manager, for every set of jobs and every    *)
(* number of slots.                                                        *)
(***************************************************************************)
EXTENDS ResourceHandleManager, FiniteSetTheorems, FunctionTheorems, SequenceTheorems, TLAPS

-----------------------------------------------------------------------------
(* Facts about the operators on sequences and sets of numbers that the     *)
(* model is built from.                                                    *)

(* The element at i is left out.                                           *)
LEMMA RemoveAtProperties ==
  ASSUME NEW S, NEW s \in Seq(S), NEW i \in 1..Len(s)
  PROVE  /\ RemoveAt(s, i) \in Seq(S)
         /\ Len(RemoveAt(s, i)) = Len(s) - 1
         /\ \A j \in 1..(Len(s) - 1) : RemoveAt(s, i)[j] = IF j < i THEN s[j] ELSE s[j + 1]
<1>1. Len(s) \in Nat /\ \A j \in 1..Len(s) : s[j] \in S
  BY LenProperties, ElementOfSeq
<1>2. /\ SubSeq(s, 1, i - 1) \in Seq(S) /\ Len(SubSeq(s, 1, i - 1)) = i - 1
      /\ \A j \in 1..(i - 1) : SubSeq(s, 1, i - 1)[j] = s[j]
  <2>1. 1 \in Int /\ i - 1 \in Int /\ \A j \in 1..(i - 1) : s[j] \in S
    BY <1>1
  <2>2. i - 1 = (i - 1) - 1 + 1
    BY <2>1
  <2>3. QED
    BY <1>1, <2>1, <2>2, SubSeqProperties
<1>3. /\ SubSeq(s, i + 1, Len(s)) \in Seq(S) /\ Len(SubSeq(s, i + 1, Len(s))) = Len(s) - i
      /\ \A j \in 1..(Len(s) - i) : SubSeq(s, i + 1, Len(s))[j] = s[i + j]
  <2>1. i + 1 \in Int /\ Len(s) \in Int /\ \A j \in (i + 1)..Len(s) : s[j] \in S
    BY <1>1
  <2> DEFINE m == i + 1
  <2>2. /\ SubSeq(s, m, Len(s)) \in Seq(S)
        /\ Len(SubSeq(s, m, Len(s))) = IF m <= Len(s) THEN Len(s) - m + 1 ELSE 0
        /\ \A j \in 1..(Len(s) - m + 1) : SubSeq(s, m, Len(s))[j] = s[m + j - 1]
    <3> HIDE DEF m
    <3> QED BY <2>1, SubSeqProperties DEF m
  <2>3. (i + 1 <= Len(s) \/ Len(s) - i = 0) /\ 1..(Len(s) - m + 1) = 1..(Len(s) - i)
    BY <1>1
  <2>4. Len(SubSeq(s, m, Len(s))) = Len(s) - i
    BY <1>1, <2>2, <2>3
  <2>5. ASSUME NEW j \in 1..(Len(s) - i) PROVE SubSeq(s, m, Len(s))[j] = s[i + j]
    <3>1. m + j - 1 = i + j /\ j \in 1..(Len(s) - m + 1)
      BY <1>1
    <3>2. QED
      BY <2>2, <3>1
  <2>6. QED
    BY <2>2, <2>4, <2>5
<1> DEFINE a == SubSeq(s, 1, i - 1)
           b == SubSeq(s, i + 1, Len(s))
<1>4. RemoveAt(s, i) = a \o b
  BY DEF RemoveAt
<1>5. /\ a \in Seq(S) /\ Len(a) = i - 1 /\ b \in Seq(S) /\ Len(b) = Len(s) - i
      /\ \A j \in 1..(i - 1) : a[j] = s[j]
      /\ \A j \in 1..(Len(s) - i) : b[j] = s[i + j]
  BY <1>2, <1>3
<1> HIDE DEF a, b
<1>6. /\ RemoveAt(s, i) \in Seq(S)
      /\ Len(RemoveAt(s, i)) = (i - 1) + (Len(s) - i)
      /\ \A j \in 1..((i - 1) + (Len(s) - i)) :
           RemoveAt(s, i)[j] = IF j <= i - 1 THEN a[j]
                               ELSE b[j - (i - 1)]
  <2>1. /\ a \o b \in Seq(S) /\ Len(a \o b) = Len(a) + Len(b)
        /\ \A j \in 1..(Len(a) + Len(b)) :
             (a \o b)[j] = IF j <= Len(a) THEN a[j] ELSE b[j - Len(a)]
    BY <1>5, ConcatProperties
  <2>2. QED
    BY <1>5, <1>4, <2>1
<1>7. ASSUME NEW j \in 1..(Len(s) - 1)
      PROVE  RemoveAt(s, i)[j] = IF j < i THEN s[j] ELSE s[j + 1]
  <2>1. j \in 1..((i - 1) + (Len(s) - i)) /\ (j <= i - 1 <=> j < i)
    BY <1>1
  <2>2. CASE j < i
    <3>1. j \in 1..(i - 1)
      BY <2>2
    <3>2. QED
      BY <1>5, <1>6, <2>1, <2>2, <3>1
  <2>3. CASE ~(j < i)
    <3>1. j - (i - 1) \in 1..(Len(s) - i) /\ i + (j - (i - 1)) = j + 1
      BY <1>1, <2>3
    <3>2. QED
      BY <1>5, <1>6, <2>1, <2>3, <3>1
  <2>4. QED
    BY <2>2, <2>3
<1>8. QED
  BY <1>1, <1>6, <1>7

LEMMA AddHandleTypes ==
  ASSUME TypeOK, NEW j \in Jobs, AddHandle(j)
  PROVE  /\ addErrors' \in 0..MaxAddErrors
         /\ cancelled' \subseteq Jobs
         /\ curl' \in [Jobs -> HandleStates]
         /\ timerActive' \in BOOLEAN
<1>1. CASE /\ curl' = [curl EXCEPT ![j] = "active"]
           /\ UNCHANGED <<timerActive, cancelled, addErrors>>
  BY <1>1 DEF TypeOK, HandleStates
<1>2. CASE /\ addErrors < MaxAddErrors
           /\ addErrors' = addErrors + 1
           /\ curl' = [curl EXCEPT ![j] = "orphan"]
           /\ cancelled' = cancelled \cup {j}
           /\ timerActive' = TRUE
  <2>1. addErrors' \in 0..MaxAddErrors
    BY <1>2, BoundsAssumption DEF TypeOK, BoundsAssumption
  <2>2. QED
    BY <1>2, <2>1 DEF TypeOK, HandleStates
<1>3. QED
  BY <1>1, <1>2 DEF AddHandle

-----------------------------------------------------------------------------
(* Type correctness: in every reachable state every variable has its type. *)
THEOREM TypeCorrect == Spec => []TypeOK
<1> USE DEF TypeOK, Stages, HandleStates, ClientStates, Terminal, Calls, NoCall,
            HeaderCalls, DataUrlCalls, Redirects, vars, curlVars, clientVars, errorVars, passVars
<1>1. Init => TypeOK
  <2>1. <<>> \in Seq(Jobs)
    BY EmptySeq
  <2>2. FileJobs \subseteq Jobs /\ 0 \in 0..MaxAddErrors /\ 0 \in 0..MaxSelectErrors
    BY JobsAssumption, BoundsAssumption DEF JobsAssumption, BoundsAssumption
  <2>3. ASSUME Init
        PROVE  /\ list \in Seq(Jobs) /\ running \in Int
               /\ addErrors \in 0..MaxAddErrors /\ selectErrors \in 0..MaxSelectErrors
    BY <2>1, <2>2, <2>3 DEF Init
  <2>4. ASSUME Init
        PROVE  /\ curl \in [Jobs -> HandleStates] /\ client \in [Jobs -> ClientStates]
               /\ cb \in {NoCall} /\ pc \in Stages
               /\ timerActive \in BOOLEAN /\ started \in BOOLEAN
               /\ stillRunning \in BOOLEAN /\ stalled \in BOOLEAN
               /\ failing \subseteq Jobs /\ cancelled \subseteq Jobs /\ local \subseteq Jobs
               /\ fired \subseteq Jobs /\ fromCache \subseteq Jobs
               /\ moved \in [Jobs -> Redirects]
    BY <2>2, <2>4 DEF Init
  <2>5. QED
    BY <2>3, <2>4
<1>2. TypeOK /\ [Next]_vars => TypeOK'
  <2> SUFFICES ASSUME TypeOK, [Next]_vars PROVE TypeOK'
    OBVIOUS
  <2> USE BoundsAssumption DEF BoundsAssumption
  <2>1. ASSUME NEW j \in Jobs, Add(j) PROVE TypeOK'
    BY <2>1 DEF Add
  <2>2. ASSUME NEW j \in Jobs, Refuse(j) PROVE TypeOK'
    BY <2>2 DEF Refuse
  <2>3. CASE LoadSynchronously
    BY <2>3 DEF LoadSynchronously
  <2>4. ASSUME NEW j \in Jobs, Cancel(j) PROVE TypeOK'
    <3>1. list' \in Seq(Jobs)
      BY <2>4, RemoveAtProperties DEF Cancel, removeScheduledJob
    <3>2. /\ client' \in [Jobs -> ClientStates]
          /\ failing' \subseteq Jobs
      BY <2>4 DEF Cancel
    <3>3. /\ cancelled' \subseteq Jobs
          /\ timerActive' \in BOOLEAN
      BY <2>4 DEF Cancel
    <3>4. UNCHANGED <<running, pc, cb, curlVars, fired, errorVars, passVars>>
      BY <2>4 DEF Cancel
    <3>5. QED
      BY <3>1, <3>2, <3>3, <3>4
  <2>5. CASE TimerFires
    BY <2>5 DEF TimerFires
  <2>6. CASE StartDataJob
    BY <2>6, HeadTailProperties DEF StartDataJob, MayStart, Begin, Told
  <2>7. CASE StartTransfer
    <3>1. Head(list) \in Jobs /\ Tail(list) \in Seq(Jobs)
      BY <2>7, HeadTailProperties DEF StartTransfer, MayStart
    <3>2. /\ addErrors' \in 0..MaxAddErrors
          /\ cancelled' \subseteq Jobs
          /\ curl' \in [Jobs -> HandleStates]
          /\ timerActive' \in BOOLEAN
      BY <2>7, <3>1, AddHandleTypes DEF StartTransfer
    <3>3. QED
      BY <2>7, <3>1, <3>2 DEF StartTransfer
  <2>8. CASE StartScheduledDone
    BY <2>8 DEF StartScheduledDone
  <2>9. CASE SelectFails
    BY <2>9 DEF SelectFails
  <2>10. CASE SelectReturns
    BY <2>10 DEF SelectReturns
  <2>11. ASSUME NEW j \in Jobs, HeaderBlock(j) PROVE TypeOK'
    <3>1. moved' \in [Jobs -> Redirects]
      BY <2>11 DEF HeaderBlock
    <3>2. /\ cb' \in [call : Calls, job : Jobs]
          /\ client' \in [Jobs -> ClientStates]
      BY <2>11 DEF HeaderBlock, Begin, Told
    <3>3. QED
      BY <2>11, <3>1, <3>2 DEF HeaderBlock
  <2>12. CASE HeaderBlockReturns
    BY <2>12 DEF HeaderBlockReturns
  <2>13. ASSUME NEW j \in Jobs, BodyBlock(j) PROVE TypeOK'
    BY <2>13 DEF BodyBlock, Begin, Told
  <2>14. CASE BodyResponseReturns
    BY <2>14 DEF BodyResponseReturns, Begin, Told
  <2>15. CASE BodyReturns
    BY <2>15 DEF BodyReturns
  <2>16. CASE DataCallReturns
    <3>1. cb.call \in DataUrlCalls /\ cb \in [call : Calls, job : Jobs]
      BY <2>16 DEF DataCallReturns
    <3>2. /\ cb' \in {NoCall} \cup [call : Calls, job : Jobs]
          /\ client' \in [Jobs -> ClientStates]
      <4>1. CASE cb.call = "dataResponse"
        BY <2>16, <3>1, <4>1 DEF DataCallReturns, Begin, Told
      <4>2. CASE cb.call = "dataBody"
        BY <2>16, <3>1, <4>2 DEF DataCallReturns, Begin, Told
      <4>3. CASE cb.call = "dataFinish"
        BY <2>16, <3>1, <4>3 DEF DataCallReturns, Settle
      <4>4. QED
        BY <3>1, <4>1, <4>2, <4>3
    <3>3. QED
      BY <2>16, <3>2 DEF DataCallReturns
  <2>17. ASSUME NEW j \in Jobs, UploadRunsDry(j) PROVE TypeOK'
    BY <2>17 DEF UploadRunsDry
  <2>18. ASSUME NEW j \in Jobs, Completes(j) PROVE TypeOK'
    BY <2>18 DEF Completes
  <2>19. ASSUME NEW j \in Jobs, Breaks(j) PROVE TypeOK'
    BY <2>19 DEF Breaks
  <2>20. CASE PerformReturns
    BY <2>20 DEF PerformReturns
  <2>21. ASSUME NEW j \in Jobs, ReapCancelled(j) PROVE TypeOK'
    BY <2>21 DEF ReapCancelled, removeFromCurl
  <2>22. ASSUME NEW j \in Jobs, RestartFromCache(j) PROVE TypeOK'
    <3>1. /\ addErrors' \in 0..MaxAddErrors
          /\ cancelled' \subseteq Jobs
          /\ curl' \in [Jobs -> HandleStates]
          /\ timerActive' \in BOOLEAN
      BY <2>22, AddHandleTypes DEF RestartFromCache
    <3>2. QED
      BY <2>22, <3>1 DEF RestartFromCache
  <2>23. ASSUME NEW j \in Jobs, TellOutcome(j) PROVE TypeOK'
    BY <2>23 DEF TellOutcome, Begin, Told
  <2>24. CASE OutcomeReturns
    BY <2>24 DEF OutcomeReturns, removeFromCurl, Settle
  <2>25. CASE DrainDone
    BY <2>25 DEF DrainDone
  <2>26. ASSUME NEW j \in Jobs, FireFailure(j) PROVE TypeOK'
    BY <2>26 DEF FireFailure, Begin, Told
  <2>27. CASE FailureReturns
    BY <2>27 DEF FailureReturns, Settle
  <2>28. CASE UNCHANGED vars
    BY <2>28
  <2>29. QED
    BY <2>1, <2>2, <2>3, <2>4, <2>5, <2>6, <2>7, <2>8, <2>9, <2>10, <2>11, <2>12,
       <2>13, <2>14, <2>15, <2>16, <2>17, <2>18, <2>19, <2>20, <2>21, <2>22, <2>23,
       <2>24, <2>25, <2>26, <2>27, <2>28
       DEF Next, Client, Manager, Network, Returns
<1>3. QED
  BY <1>1, <1>2, PTL DEF Spec
-----------------------------------------------------------------------------
(* Slot accounting.                                                        *)

(* Only a job in the list, or one whose handle is in hand, is about to     *)
(* change its slot: what SlotAccounting needs to be inductive.             *)
FreshJobs ==
  \A j \in Jobs : client[j] = "idle" =>
    curl[j] = "none" /\ \A i \in 1..Len(list) : list[i] # j

OutcomeHasHandle ==
  \A j \in Jobs : cb \in {[call |-> "finish", job |-> j], [call |-> "fail", job |-> j]}
    => curl[j] # "none"

SlotInv == SlotAccounting /\ QueuedOnce /\ FreshJobs /\ OutcomeHasHandle

(* An easy handle that comes or goes moves the count by one.               *)
LEMMA HandleCount ==
  ASSUME TypeOK, NEW j \in Jobs, NEW h \in HandleStates,
         curl' = [curl EXCEPT ![j] = h]
  PROVE  /\ Cardinality(Handles) \in Nat
         /\ Cardinality(Handles') =
              IF curl[j] = "none"
              THEN IF h = "none" THEN Cardinality(Handles) ELSE Cardinality(Handles) + 1
              ELSE IF h = "none" THEN Cardinality(Handles) - 1 ELSE Cardinality(Handles)
<1>1. IsFiniteSet(Handles) /\ Cardinality(Handles) \in Nat
  BY JobsAssumption, FS_Subset, FS_CardinalityType DEF JobsAssumption, Handles
<1>2. CASE h = "none"
  <2>1. Handles' = Handles \ {j}
    BY <1>2 DEF Handles, TypeOK
  <2>2. j \in Handles <=> curl[j] # "none"
    BY DEF Handles
  <2>3. QED
    BY <1>1, <1>2, <2>1, <2>2, FS_RemoveElement
<1>3. CASE h # "none"
  <2>1. Handles' = Handles \cup {j}
    BY <1>3 DEF Handles, TypeOK
  <2>2. j \in Handles <=> curl[j] # "none"
    BY DEF Handles
  <2>3. QED
    BY <1>1, <1>3, <2>1, <2>2, FS_AddElement
<1>4. QED
  BY <1>2, <1>3

(* A step that touches neither the list nor a handle, does not make a job  *)
(* fresh again and begins no outcome call on a job without a handle.       *)
LEMMA SlotFrame ==
  ASSUME SlotInv,
         UNCHANGED <<list, running, curl>>,
         \A j \in Jobs : client'[j] = "idle" => client[j] = "idle",
         \A j \in Jobs : cb' \in {[call |-> "finish", job |-> j], [call |-> "fail", job |-> j]}
           => cb' = cb \/ curl[j] # "none"
  PROVE  SlotInv'
<1>1. SlotAccounting' /\ QueuedOnce'
  BY DEF SlotInv, SlotAccounting, QueuedOnce, Handles
<1>2. FreshJobs'
  BY DEF SlotInv, FreshJobs
<1>3. OutcomeHasHandle'
  BY DEF SlotInv, OutcomeHasHandle
<1>4. QED
  BY <1>1, <1>2, <1>3 DEF SlotInv

(* What the slots need to stay in order, in every reachable state.         *)
LEMMA SlotInvariant == Spec => []SlotInv
<1>1. Init => SlotInv
  <2> SUFFICES ASSUME Init PROVE SlotInv
    OBVIOUS
  <2>1. Handles = {} /\ Cardinality(Handles) = 0
    BY FS_EmptySet DEF Init, Handles
  <2>2. SlotAccounting
    BY <2>1, BoundsAssumption DEF Init, SlotAccounting, BoundsAssumption
  <2>3. QED
    BY <2>2 DEF Init, SlotInv, QueuedOnce, FreshJobs, OutcomeHasHandle, NoCall
<1>2. TypeOK /\ SlotInv /\ [Next]_vars => SlotInv'
  <2> SUFFICES ASSUME TypeOK, SlotInv, [Next]_vars PROVE SlotInv'
    OBVIOUS
  <2> USE DEF curlVars, clientVars
  <2> Len(list) \in Nat /\ list \in [1..Len(list) -> Jobs]
    BY LenProperties DEF TypeOK
  <2>1. CASE LoadSynchronously
    BY <2>1, SlotFrame DEF LoadSynchronously, TypeOK
  <2>2. CASE TimerFires
    BY <2>2, SlotFrame DEF TimerFires, TypeOK
  <2>3. CASE StartScheduledDone
    BY <2>3, SlotFrame DEF StartScheduledDone, TypeOK
  <2>4. CASE SelectFails
    BY <2>4, SlotFrame DEF SelectFails, TypeOK
  <2>5. CASE SelectReturns
    BY <2>5, SlotFrame DEF SelectReturns, TypeOK
  <2>6. ASSUME NEW j \in Jobs, HeaderBlock(j) PROVE SlotInv'
    BY <2>6, SlotFrame DEF HeaderBlock, Begin, Told, HeaderCalls, TypeOK
  <2>7. CASE HeaderBlockReturns
    BY <2>7, SlotFrame DEF HeaderBlockReturns, NoCall, TypeOK
  <2>8. ASSUME NEW j \in Jobs, BodyBlock(j) PROVE SlotInv'
    BY <2>8, SlotFrame DEF BodyBlock, Begin, Told, TypeOK
  <2>9. CASE BodyResponseReturns
    BY <2>9, SlotFrame DEF BodyResponseReturns, Begin, Told, TypeOK
  <2>10. CASE BodyReturns
    BY <2>10, SlotFrame DEF BodyReturns, NoCall, TypeOK
  <2>11. CASE DataCallReturns
    <3>1. /\ cb.call \in DataUrlCalls
          /\ UNCHANGED <<list, running, curl>>
      BY <2>11 DEF DataCallReturns
    <3>2. CASE cb.call = "dataFinish"
      BY <2>11, <3>1, <3>2, SlotFrame DEF DataCallReturns, Settle, NoCall, TypeOK
    <3>3. CASE cb.call = "dataResponse"
      BY <2>11, <3>1, <3>3, SlotFrame DEF DataCallReturns, Begin, Told, TypeOK
    <3>4. CASE cb.call = "dataBody"
      BY <2>11, <3>1, <3>4, SlotFrame DEF DataCallReturns, Begin, Told, TypeOK
    <3>5. QED
      BY <3>1, <3>2, <3>3, <3>4 DEF DataUrlCalls
  <2>12. ASSUME NEW j \in Jobs, UploadRunsDry(j) PROVE SlotInv'
    BY <2>12, SlotFrame DEF UploadRunsDry, TypeOK
  <2>13. CASE PerformReturns
    BY <2>13, SlotFrame DEF PerformReturns, TypeOK
  <2>14. ASSUME NEW j \in Jobs, TellOutcome(j) PROVE SlotInv'
    BY <2>14, SlotFrame DEF TellOutcome, Begin, Told, TypeOK
  <2>15. CASE DrainDone
    BY <2>15, SlotFrame DEF DrainDone, TypeOK
  <2>16. ASSUME NEW j \in Jobs, Refuse(j) PROVE SlotInv'
    BY <2>16, SlotFrame DEF Refuse, TypeOK
  <2>17. ASSUME NEW j \in Jobs, FireFailure(j) PROVE SlotInv'
    BY <2>17, SlotFrame DEF FireFailure, Begin, Told, TypeOK
  <2>18. CASE FailureReturns
    BY <2>18, SlotFrame DEF FailureReturns, Settle, NoCall, TypeOK
  <2>19. ASSUME NEW j \in Jobs, Add(j) PROVE SlotInv'
    <3>1. /\ client[j] = "idle" /\ client' = [client EXCEPT ![j] = "waiting"]
          /\ list' = Append(list, j)
          /\ UNCHANGED <<running, curl, cb>>
      BY <2>19 DEF Add
    <3>2. /\ Len(list') = Len(list) + 1
          /\ \A i \in 1..Len(list) : list'[i] = list[i]
          /\ list'[Len(list) + 1] = j
      BY <3>1, AppendProperties DEF TypeOK
    <3>3. curl[j] = "none" /\ \A i \in 1..Len(list) : list[i] # j
      BY <3>1 DEF SlotInv, FreshJobs
    <3>4. SlotAccounting'
      BY <3>1 DEF SlotInv, SlotAccounting, Handles
    <3>5. QueuedOnce'
      BY <3>1, <3>2, <3>3 DEF SlotInv, QueuedOnce
    <3>6. FreshJobs'
      BY <3>1, <3>2 DEF SlotInv, FreshJobs, TypeOK
    <3>7. OutcomeHasHandle'
      BY <3>1 DEF SlotInv, OutcomeHasHandle
    <3>8. QED
      BY <3>4, <3>5, <3>6, <3>7 DEF SlotInv
  <2>20. ASSUME NEW j \in Jobs, Cancel(j) PROVE SlotInv'
    <3>1. /\ client[j] # "idle" /\ client' = [client EXCEPT ![j] = "cancelled"]
          /\ UNCHANGED <<running, curl, cb>>
      BY <2>20 DEF Cancel, removeScheduledJob
    <3>2. CASE UNCHANGED list
      BY <3>1, <3>2, SlotFrame DEF TypeOK
    <3>3. ASSUME NEW i \in 1..Len(list), list' = RemoveAt(list, i)
          PROVE  SlotInv'
      <4>1. /\ Len(list') = Len(list) - 1
            /\ \A k \in 1..(Len(list) - 1) :
                 list'[k] = IF k < i THEN list[k] ELSE list[k + 1]
        BY <3>3, RemoveAtProperties DEF TypeOK
      <4>2. SlotAccounting'
        BY <3>1 DEF SlotInv, SlotAccounting, Handles
      <4>3. QueuedOnce'
        BY <3>1, <4>1 DEF SlotInv, QueuedOnce
      <4>4. FreshJobs'
        BY <3>1, <4>1 DEF SlotInv, FreshJobs, TypeOK
      <4>5. OutcomeHasHandle'
        BY <3>1 DEF SlotInv, OutcomeHasHandle
      <4>6. QED
        BY <4>2, <4>3, <4>4, <4>5 DEF SlotInv
    <3>4. QED
      BY <2>20, <3>2, <3>3 DEF Cancel, removeScheduledJob
  <2>21. ASSUME MayStart, list' = Tail(list), client' = client \/ Told(Head(list), "responded")
         PROVE  /\ Len(list') = Len(list) - 1
                /\ \A i \in 1..(Len(list) - 1) : list'[i] = list[i + 1]
                /\ Head(list) = list[1] /\ Len(list) > 0
                /\ FreshJobs' \/ curl' # curl
                /\ QueuedOnce' \/ curl' # curl
    <3>1. list # <<>> /\ Head(list) = list[1] /\ Len(list) > 0
      BY <2>21, EmptySeq DEF MayStart, TypeOK
    <3>2. /\ Len(list') = Len(list) - 1
          /\ \A i \in 1..(Len(list) - 1) : list'[i] = list[i + 1]
      BY <2>21, <3>1, HeadTailProperties DEF TypeOK
    <3>3. FreshJobs' \/ curl' # curl
      BY <2>21, <3>2 DEF SlotInv, FreshJobs, Told, TypeOK
    <3>4. QueuedOnce' \/ curl' # curl
      BY <3>2 DEF SlotInv, QueuedOnce
    <3>5. QED
      BY <3>1, <3>2, <3>3, <3>4
  <2>22. CASE StartDataJob
    <3>1. /\ MayStart /\ list' = Tail(list) /\ Told(Head(list), "responded")
          /\ cb' = [call |-> "dataResponse", job |-> Head(list)]
          /\ UNCHANGED <<running, curl>>
      BY <2>22 DEF StartDataJob, Begin
    <3>2. SlotAccounting'
      BY <3>1 DEF SlotInv, SlotAccounting, Handles
    <3>3. OutcomeHasHandle'
      BY <3>1 DEF OutcomeHasHandle
    <3>4. QED
      BY <2>21, <3>1, <3>2, <3>3 DEF SlotInv
  <2>23. CASE StartTransfer
    <3>1. /\ MayStart /\ list' = Tail(list) /\ running' = running + 1
          /\ AddHandle(Head(list))
          /\ UNCHANGED <<client, cb>>
      BY <2>23 DEF StartTransfer
    <3>2. /\ Len(list') = Len(list) - 1
          /\ \A i \in 1..(Len(list) - 1) : list'[i] = list[i + 1]
          /\ Head(list) = list[1] /\ Len(list) > 0
      BY <2>21, <3>1
    <3>3. PICK h \in {"active", "orphan"} : curl' = [curl EXCEPT ![list[1]] = h]
      BY <3>1, <3>2 DEF AddHandle
    <3>4. list[1] \in Jobs /\ curl[list[1]] = "none"
      BY <3>2 DEF SlotInv, QueuedOnce
    <3>5. SlotAccounting'
      <4>1. Cardinality(Handles') = Cardinality(Handles) + 1 /\ Cardinality(Handles) \in Nat
        BY <3>3, <3>4, HandleCount DEF HandleStates
      <4>2. running < MaxRunning
        BY <3>1 DEF MayStart
      <4>3. QED
        BY <3>1, <4>1, <4>2, BoundsAssumption DEF SlotInv, SlotAccounting, BoundsAssumption
    <3>6. QueuedOnce'
      BY <3>2, <3>3, <3>4 DEF SlotInv, QueuedOnce, TypeOK
    <3>7. FreshJobs'
      BY <3>1, <3>2, <3>3, <3>4 DEF SlotInv, FreshJobs, TypeOK
    <3>8. OutcomeHasHandle'
      BY <3>1, <3>3 DEF SlotInv, OutcomeHasHandle, TypeOK
    <3>9. QED
      BY <3>5, <3>6, <3>7, <3>8 DEF SlotInv
  <2>24. ASSUME NEW j \in Jobs, NEW h \in {"active", "orphan", "ok", "failed"},
                curl[j] # "none", curl' = [curl EXCEPT ![j] = h],
                UNCHANGED <<list, running, client, cb>>
         PROVE  SlotInv'
    <3>1. SlotAccounting'
      BY <2>24, HandleCount DEF SlotInv, SlotAccounting, HandleStates
    <3>2. QueuedOnce' /\ FreshJobs' /\ OutcomeHasHandle'
      BY <2>24 DEF SlotInv, QueuedOnce, FreshJobs, OutcomeHasHandle, TypeOK
    <3>3. QED
      BY <3>1, <3>2 DEF SlotInv
  <2>25. ASSUME NEW j \in Jobs, Completes(j) PROVE SlotInv'
    BY <2>24, <2>25 DEF Completes, InPerform
  <2>26. ASSUME NEW j \in Jobs, Breaks(j) PROVE SlotInv'
    BY <2>24, <2>26 DEF Breaks, InPerform
  <2>27. ASSUME NEW j \in Jobs, RestartFromCache(j) PROVE SlotInv'
    <3>1. curl[j] # "none" /\ UNCHANGED <<list, running, client, cb>> /\ AddHandle(j)
      BY <2>27 DEF RestartFromCache
    <3>2. PICK h \in {"active", "orphan"} : curl' = [curl EXCEPT ![j] = h]
      BY <3>1 DEF AddHandle
    <3>3. QED
      BY <2>24, <3>1, <3>2
  <2>28. ASSUME NEW j \in Jobs, curl[j] # "none", removeFromCurl(j), UNCHANGED list,
                \A k \in Jobs : client'[k] = "idle" => client[k] = "idle",
                cb' = NoCall
         PROVE  SlotInv'
    <3>1. SlotAccounting'
      <4>1. Cardinality(Handles') = Cardinality(Handles) - 1 /\ Cardinality(Handles) \in Nat
        BY <2>28, HandleCount DEF removeFromCurl, HandleStates
      <4>2. QED
        BY <2>28, <4>1, BoundsAssumption
           DEF SlotInv, SlotAccounting, removeFromCurl, TypeOK, BoundsAssumption
    <3>2. QueuedOnce' /\ FreshJobs' /\ OutcomeHasHandle'
      BY <2>28 DEF SlotInv, QueuedOnce, FreshJobs, OutcomeHasHandle, TypeOK,
                   removeFromCurl, NoCall
    <3>3. QED
      BY <3>1, <3>2 DEF SlotInv
  <2>29. ASSUME NEW j \in Jobs, ReapCancelled(j) PROVE SlotInv'
    BY <2>28, <2>29 DEF ReapCancelled, InDrain
  <2>30. CASE OutcomeReturns
    <3>1. PICK j \in Jobs : cb \in {[call |-> "finish", job |-> j], [call |-> "fail", job |-> j]}
      BY <2>30 DEF OutcomeReturns, TypeOK, NoCall
    <3>2. cb.job = j /\ curl[j] # "none"
      BY <3>1 DEF SlotInv, OutcomeHasHandle
    <3>3. \A k \in Jobs : client'[k] = "idle" => client[k] = "idle"
      BY <2>30, <3>2 DEF OutcomeReturns, Settle, TypeOK
    <3>4. QED
      BY <2>28, <2>30, <3>2, <3>3 DEF OutcomeReturns
  <2>31. CASE UNCHANGED vars
    BY <2>31, SlotFrame DEF vars
  <2>32. QED
    BY <2>1, <2>2, <2>3, <2>4, <2>5, <2>6, <2>7, <2>8, <2>9, <2>10, <2>11, <2>12,
       <2>13, <2>14, <2>15, <2>16, <2>17, <2>18, <2>19, <2>20, <2>22, <2>23, <2>25,
       <2>26, <2>27, <2>29, <2>30, <2>31
       DEF Next, Client, Manager, Network, Returns
<1>3. QED
  BY <1>1, <1>2, TypeCorrect, PTL DEF Spec

(* SlotAccounting: m_runningJobs is the number of easy handles and never   *)
(* exceeds maxRunningJobs; a job in the list has no handle.                *)
THEOREM SlotsAccounted == Spec => [](SlotAccounting /\ QueuedOnce)
<1>1. SlotInv => SlotAccounting /\ QueuedOnce
  BY DEF SlotInv
<1>2. QED
  BY <1>1, SlotInvariant, PTL
-----------------------------------------------------------------------------
(* The poll timer.                                                         *)

Active == {j \in Jobs : curl[j] = "active"}
Done   == {j \in Jobs : curl[j] \in {"ok", "failed"}}

(* Past curl_multi_perform, a transfer in progress is known to the rest of *)
(* the pass as stillRunning or started, which is what re-arms the timer;   *)
(* an outcome is told while messages are read, and none is left unread.    *)
PassInv ==
  /\ pc = "draining" /\ Active # {} => stillRunning
  /\ pc = "restarting" => Done = {} /\ (Active # {} => stillRunning \/ started)
  /\ cb.call \in {"finish", "fail"} => pc = "draining"

PollInv == NoStrandedWork /\ PassInv

(* Steps that leave the handles, the list and the stage alone, and at most *)
(* arm the timer.                                                          *)
LEMMA PollFrame ==
  ASSUME PollInv, UNCHANGED <<list, pc, curl, stalled, passVars>>,
         timerActive' \in {timerActive, TRUE},
         cb' # cb => cb'.call \notin {"finish", "fail"}
  PROVE  PollInv'
BY DEF PollInv, NoStrandedWork, PassInv, Active, Done, Orphans, InCurl, passVars

(* NoStrandedWork: the manager never sleeps without a timer on a queued or *)
(* unfinished job, short of a select() error or of every slot being lost.  *)
THEOREM NothingStranded == Spec => []NoStrandedWork
<1>1. Init => PollInv
  BY DEF Init, PollInv, NoStrandedWork, PassInv, NoCall, InCurl
<1>2. TypeOK /\ SlotAccounting /\ PollInv /\ [Next]_vars => PollInv'
  <2> SUFFICES ASSUME TypeOK, SlotAccounting, PollInv, [Next]_vars PROVE PollInv'
    OBVIOUS
  <2> USE DEF curlVars, errorVars, passVars
  <2>1. CASE HeaderBlockReturns
    BY <2>1, PollFrame DEF HeaderBlockReturns, NoCall
  <2>2. CASE BodyReturns
    BY <2>2, PollFrame DEF BodyReturns, NoCall
  <2>3. CASE FailureReturns
    BY <2>3, PollFrame DEF FailureReturns, NoCall
  <2>4. CASE BodyResponseReturns
    BY <2>4, PollFrame DEF BodyResponseReturns, Begin
  <2>5. CASE DataCallReturns
    <3>1. /\ cb.call \in DataUrlCalls
          /\ UNCHANGED <<list, timerActive, pc, curl, stalled, passVars>>
      BY <2>5 DEF DataCallReturns
    <3>2. cb'.call \notin {"finish", "fail"}
      <4>1. CASE cb.call = "dataResponse"
        BY <2>5, <4>1 DEF DataCallReturns, Begin
      <4>2. CASE cb.call = "dataBody"
        BY <2>5, <4>2 DEF DataCallReturns, Begin
      <4>3. CASE cb.call = "dataFinish"
        BY <2>5, <4>3 DEF DataCallReturns, NoCall
      <4>4. QED
        BY <3>1, <4>1, <4>2, <4>3 DEF DataUrlCalls
    <3>3. QED
      BY <3>1, <3>2, PollFrame
  <2>6. ASSUME NEW j \in Jobs, HeaderBlock(j) PROVE PollInv'
    BY <2>6, PollFrame DEF HeaderBlock, Begin, HeaderCalls
  <2>7. ASSUME NEW j \in Jobs, BodyBlock(j) PROVE PollInv'
    BY <2>7, PollFrame DEF BodyBlock, Begin
  <2>8. ASSUME NEW j \in Jobs, FireFailure(j) PROVE PollInv'
    BY <2>8, PollFrame DEF FireFailure, Begin
  <2>9. ASSUME NEW j \in Jobs, Refuse(j) PROVE PollInv'
    BY <2>9, PollFrame DEF Refuse
  <2>10. CASE LoadSynchronously
    BY <2>10 DEF LoadSynchronously, PollInv, NoStrandedWork, PassInv, Active, Done, Orphans, InCurl
  <2>11. CASE TimerFires
    BY <2>11 DEF TimerFires, PollInv, NoStrandedWork, PassInv, Active, Done, Orphans, InCurl
  <2>12. CASE SelectFails
    BY <2>12 DEF SelectFails, PollInv, NoStrandedWork, PassInv, Active, Done, Orphans, InCurl
  <2>13. CASE SelectReturns
    BY <2>13 DEF SelectReturns, PollInv, NoStrandedWork, PassInv, Active, Done, Orphans, InCurl
  <2>14. CASE StartDataJob
    BY <2>14 DEF StartDataJob, InStartScheduledJobs, Begin, PollInv, NoStrandedWork, PassInv, Active, Done, Orphans, InCurl
  <2>15. CASE PerformReturns
    BY <2>15 DEF PerformReturns, NoCall, PollInv, NoStrandedWork, PassInv, Active, Done, Orphans, InCurl
  <2>16. ASSUME NEW j \in Jobs, Add(j) PROVE PollInv'
    BY <2>16 DEF Add, PollInv, NoStrandedWork, PassInv, Active, Done, Orphans, InCurl
  <2>17. ASSUME NEW j \in Jobs, UploadRunsDry(j) PROVE PollInv'
    BY <2>17 DEF UploadRunsDry, InPerform, PollInv, NoStrandedWork, PassInv, Active, Done, Orphans, InCurl
  <2>18. ASSUME NEW j \in Jobs, Completes(j) PROVE PollInv'
    BY <2>18 DEF Completes, InPerform, NoCall, PollInv, NoStrandedWork, PassInv, Active, Done, Orphans, InCurl
  <2>19. ASSUME NEW j \in Jobs, Breaks(j) PROVE PollInv'
    BY <2>19 DEF Breaks, InPerform, NoCall, PollInv, NoStrandedWork, PassInv, Active, Done, Orphans, InCurl
  <2>20. ASSUME NEW j \in Jobs, TellOutcome(j) PROVE PollInv'
    BY <2>20 DEF TellOutcome, InDrain, Begin, PollInv, NoStrandedWork, PassInv, Active, Done, Orphans, InCurl
  <2>21. ASSUME NEW j \in Jobs, Cancel(j) PROVE PollInv'
    <3>1. UNCHANGED <<pc, cb, curl, stalled, passVars>>
      BY <2>21 DEF Cancel, removeScheduledJob
    <3>2. timerActive' \/ (timerActive' = timerActive /\ list # <<>>)
      BY <2>21 DEF Cancel, removeScheduledJob
    <3>3. QED
      BY <3>1, <3>2 DEF PollInv, NoStrandedWork, PassInv, Active, Done, Orphans, InCurl
  <2>22. CASE StartTransfer
    <3>1. /\ pc \in {"starting", "restarting"} /\ cb = NoCall
          /\ started' = TRUE
          /\ UNCHANGED <<pc, cb, stillRunning>>
          /\ list # <<>>
      BY <2>22 DEF StartTransfer, InStartScheduledJobs, MayStart
    <3>2. PICK h \in {"active", "orphan"} : curl' = [curl EXCEPT ![Head(list)] = h]
      BY <2>22 DEF StartTransfer, AddHandle
    <3>3. pc = "restarting" => Done' = {}
      BY <3>1, <3>2 DEF PollInv, PassInv, Done, TypeOK
    <3>4. QED
      BY <3>1, <3>3 DEF PollInv, PassInv, NoStrandedWork, NoCall
  <2>23. CASE StartScheduledDone
    <3>1. CASE pc = "starting"
      BY <2>23, <3>1 DEF StartScheduledDone, InStartScheduledJobs, PollInv, PassInv,
                         NoStrandedWork, NoCall
    <3>2. CASE pc = "restarting"
      <4>1. /\ pc' = "idle" /\ cb' = NoCall
            /\ timerActive' = (timerActive \/ started \/ stillRunning)
            /\ UNCHANGED <<list, curl, stalled>>
            /\ ~MayStart
        BY <2>23, <3>2 DEF StartScheduledDone, InStartScheduledJobs
      <4>2. ASSUME ~timerActive', Cardinality(Orphans) < MaxRunning
            PROVE  list = <<>> /\ InCurl = {}
        <5>1. Done = {} /\ Active = {}
          BY <3>2, <4>1, <4>2 DEF PollInv, PassInv
        <5>2. InCurl = {}
          BY <5>1 DEF InCurl, Done, Active
        <5>3. Handles = Orphans
          BY <5>2 DEF Handles, Orphans, InCurl, TypeOK, HandleStates
        <5>4. running < MaxRunning
          BY <4>2, <5>3 DEF SlotAccounting
        <5>5. QED
          BY <4>1, <5>2, <5>4 DEF MayStart
      <4>3. NoStrandedWork'
        BY <4>1, <4>2 DEF NoStrandedWork, Orphans, InCurl
      <4>4. QED
        BY <4>1, <4>3 DEF PollInv, PassInv, NoCall
    <3>3. QED
      BY <2>23, <3>1, <3>2 DEF StartScheduledDone, InStartScheduledJobs
  <2>24. ASSUME NEW j \in Jobs, ReapCancelled(j) PROVE PollInv'
    <3>1. /\ pc = "draining" /\ UNCHANGED <<pc, cb, passVars>>
          /\ curl' = [curl EXCEPT ![j] = "none"]
      BY <2>24 DEF ReapCancelled, InDrain, removeFromCurl
    <3>2. Active' \subseteq Active
      BY <3>1 DEF Active, TypeOK
    <3>3. QED
      BY <3>1, <3>2 DEF PollInv, PassInv, NoStrandedWork
  <2>25. ASSUME NEW j \in Jobs, RestartFromCache(j) PROVE PollInv'
    BY <2>25 DEF RestartFromCache, InDrain, PollInv, PassInv, NoStrandedWork, NoCall
  <2>26. CASE OutcomeReturns
    <3>1. /\ pc = "draining" /\ UNCHANGED <<pc, passVars>>
          /\ cb' = NoCall
          /\ curl' = [curl EXCEPT ![cb.job] = "none"]
      BY <2>26 DEF OutcomeReturns, removeFromCurl, PollInv, PassInv
    <3>2. Active' \subseteq Active
      BY <3>1 DEF Active, TypeOK
    <3>3. QED
      BY <3>1, <3>2 DEF PollInv, PassInv, NoStrandedWork, NoCall
  <2>27. CASE DrainDone
    <3>1. /\ pc = "draining" /\ pc' = "restarting" /\ cb = NoCall
          /\ UNCHANGED <<cb, curl, stillRunning>>
          /\ Done = {}
      BY <2>27 DEF DrainDone, InDrain, Done
    <3>2. QED
      BY <3>1 DEF PollInv, PassInv, NoStrandedWork, Active, Done, NoCall
  <2>28. CASE UNCHANGED vars
    BY <2>28, PollFrame DEF vars
  <2>29. QED
    BY <2>1, <2>2, <2>3, <2>4, <2>5, <2>6, <2>7, <2>8, <2>9, <2>10, <2>11, <2>12,
       <2>13, <2>14, <2>15, <2>16, <2>17, <2>18, <2>19, <2>20, <2>21, <2>22, <2>23,
       <2>24, <2>25, <2>26, <2>27, <2>28
       DEF Next, Client, Manager, Network, Returns
<1>3. PollInv => NoStrandedWork
  BY DEF PollInv
<1>4. QED
  BY <1>1, <1>2, <1>3, TypeCorrect, SlotsAccounted, PTL DEF Spec
-----------------------------------------------------------------------------
(* The client protocol of http loads.                                      *)

(* A loader that can still be called back has neither been told an end nor *)
(* cancelled; one that could be told an end too many is "late".            *)
ClientOpen ==
  \A j \in HttpJobs :
    /\ client[j] # "late"
    /\ j \in InCurl \ cancelled => client[j] \in {"waiting", "responded"}

(* m_response has fired only after the client was told of a response, and  *)
(* a transfer that curl calls successful had one, or was misread.          *)
FiredIsTold ==
  \A j \in HttpJobs :
    /\ j \in fired => client[j] \notin {"idle", "waiting"}
    /\ j \in fromCache \cup local => j \in fired
    /\ curl[j] = "ok" => j \in fired \/ moved[j] = "misread"
    /\ moved[j] # "none" => client[j] # "idle"

(* Jobs in the list wait; refused ones are neither there nor in curl.      *)
QueueWaits ==
  /\ \A i \in 1..Len(list) : /\ list[i] \in HttpJobs => client[list[i]] = "waiting"
                             /\ list[i] \notin RefusedJobs
  /\ \A j \in RefusedJobs : curl[j] = "none"
  /\ failing \subseteq RefusedJobs
  /\ \A j \in HttpJobs : j \in failing => client[j] = "waiting"

(* What is known of the client while it is inside a callback.              *)
CallsInOrder ==
  \A j \in HttpJobs : cb # NoCall /\ cb.job = j =>
    /\ cb.call \notin DataUrlCalls \cup {"bodyResponse"}
    /\ client[j] # "idle"
    /\ cb.call \in {"response", "notModified"} => client[j] # "waiting"
    /\ cb.call = "finish" => client[j] # "waiting" \/ moved[j] = "misread"
    /\ cb.call = "blocked" => j \in RefusedJobs \ failing

ClientInv == ClientOpen /\ FiredIsTold /\ QueueWaits /\ CallsInOrder

(* The queue, when it loses an entry or nothing.                           *)
LEMMA ShorterQueue ==
  ASSUME TypeOK, QueueWaits,
         \A k \in 1..Len(list') : \E i \in 1..Len(list) : list'[k] = list[i],
         \A k \in 1..Len(list') : list'[k] \in HttpJobs =>
           client'[list'[k]] = client[list'[k]]
  PROVE  \A k \in 1..Len(list') :
           /\ list'[k] \in HttpJobs => client'[list'[k]] = "waiting"
           /\ list'[k] \notin RefusedJobs
BY DEF QueueWaits

LEMMA ClientInvInit == Init => ClientInv
<1> SUFFICES ASSUME Init PROVE ClientInv
  OBVIOUS
<1>1. Len(list) = 0 /\ 1..Len(list) = {}
  BY DEF Init
<1>2. RefusedJobs \subseteq Jobs
  BY JobsAssumption DEF JobsAssumption
<1>3. QED
  BY <1>1, <1>2 DEF Init, ClientInv, ClientOpen, FiredIsTold, QueueWaits, CallsInOrder,
     HttpJobs, InCurl, NoCall

LEMMA ClientInvStep ==
  ASSUME TypeOK, SlotInv, ClientInv, [Next]_vars
  PROVE  ClientInv'
<1> USE DEF curlVars, clientVars
<1> RefusedJobs \subseteq Jobs /\ DataJobs \subseteq Jobs /\ HttpJobs \subseteq Jobs
  BY JobsAssumption DEF JobsAssumption, HttpJobs
<1> Len(list) \in Nat /\ list \in [1..Len(list) -> Jobs]
  BY LenProperties DEF TypeOK
<1> curl \in [Jobs -> HandleStates] /\ moved \in [Jobs -> Redirects] /\ client \in [Jobs -> ClientStates]
  BY DEF TypeOK
<1>1. ASSUME UNCHANGED <<list, cb, curlVars, fired, failing, client>>,
             cancelled \subseteq cancelled'
      PROVE  ClientInv'
  BY <1>1 DEF ClientInv, ClientOpen, FiredIsTold, QueueWaits, CallsInOrder, InCurl
<1>2. CASE LoadSynchronously
  BY <1>1, <1>2 DEF LoadSynchronously
<1>3. CASE TimerFires
  BY <1>1, <1>3 DEF TimerFires
<1>4. CASE StartScheduledDone
  BY <1>1, <1>4 DEF StartScheduledDone
<1>5. CASE SelectFails
  BY <1>1, <1>5 DEF SelectFails
<1>6. CASE SelectReturns
  BY <1>1, <1>6 DEF SelectReturns
<1>7. CASE PerformReturns
  BY <1>1, <1>7 DEF PerformReturns
<1>8. CASE DrainDone
  BY <1>1, <1>8 DEF DrainDone
<1>9. ASSUME NEW j \in Jobs, UploadRunsDry(j) PROVE ClientInv'
  BY <1>1, <1>9 DEF UploadRunsDry
<1>10. CASE UNCHANGED vars
  BY <1>1, <1>10 DEF vars
<1>11. ASSUME NEW j \in Jobs, Add(j) PROVE ClientInv'
  <2>1. /\ client[j] = "idle" /\ client' = [client EXCEPT ![j] = "waiting"]
        /\ list' = Append(list, j) /\ j \notin RefusedJobs
        /\ UNCHANGED <<cb, curlVars, fired, failing, cancelled>>
    BY <1>11 DEF Add
  <2>2. /\ Len(list') = Len(list) + 1
        /\ \A i \in 1..Len(list) : list'[i] = list[i]
        /\ list'[Len(list) + 1] = j
    BY <2>1, AppendProperties DEF TypeOK
  <2>3. ClientOpen' /\ FiredIsTold' /\ CallsInOrder'
    BY <2>1 DEF ClientInv, ClientOpen, FiredIsTold, CallsInOrder, InCurl
  <2>4. ASSUME NEW i \in 1..Len(list')
        PROVE  /\ list'[i] \in HttpJobs => client'[list'[i]] = "waiting"
               /\ list'[i] \notin RefusedJobs
    <3>1. CASE i \in 1..Len(list)
      BY <2>1, <2>2, <3>1 DEF ClientInv, QueueWaits
    <3>2. CASE i = Len(list) + 1
      BY <2>1, <2>2, <3>2
    <3>3. QED
      BY <2>2, <3>1, <3>2
  <2>5. QueueWaits'
    BY <2>1, <2>4 DEF ClientInv, QueueWaits
  <2>6. QED
    BY <2>3, <2>5 DEF ClientInv
<1>12. ASSUME NEW j \in Jobs, Refuse(j) PROVE ClientInv'
  <2>1. /\ client[j] = "idle" /\ client' = [client EXCEPT ![j] = "waiting"]
        /\ failing' = failing \cup {j} /\ j \in RefusedJobs
        /\ UNCHANGED <<list, cb, curlVars, fired, cancelled>>
    BY <1>12 DEF Refuse
  <2>2. QED
    BY <2>1 DEF ClientInv, ClientOpen, FiredIsTold, QueueWaits, CallsInOrder, InCurl
<1>13. ASSUME NEW j \in Jobs, Cancel(j) PROVE ClientInv'
  <2>1. /\ client[j] \in {"waiting", "responded"}
        /\ client' = [client EXCEPT ![j] = "cancelled"]
        /\ failing' = failing \ {j}
        /\ UNCHANGED <<cb, curlVars, fired>>
    BY <1>13 DEF Cancel, removeScheduledJob
  <2>2. FiredIsTold' /\ CallsInOrder'
    BY <2>1 DEF ClientInv, FiredIsTold, CallsInOrder
  <2>3. CASE j \notin Listed /\ cancelled' = cancelled \cup {j} /\ UNCHANGED list
    <3>1. \A i \in 1..Len(list) : list[i] # j
      BY <2>3 DEF Listed
    <3>2. ClientOpen' /\ QueueWaits'
      BY <2>1, <2>3, <3>1 DEF ClientInv, ClientOpen, QueueWaits, InCurl
    <3>3. QED
      BY <2>2, <3>2 DEF ClientInv
  <2>4. ASSUME NEW i \in 1..Len(list), list[i] = j, list' = RemoveAt(list, i),
               UNCHANGED cancelled
        PROVE  ClientInv'
    <3>1. /\ Len(list') = Len(list) - 1
          /\ \A k \in 1..(Len(list) - 1) :
               list'[k] = IF k < i THEN list[k] ELSE list[k + 1]
      BY <2>4, RemoveAtProperties DEF TypeOK
    <3>2. curl[j] = "none" /\ \A k \in 1..Len(list) : k # i => list[k] # j
      BY <2>4 DEF SlotInv, QueuedOnce
    <3>3. \A k \in 1..Len(list') : list'[k] # j /\ \E n \in 1..Len(list) : list'[k] = list[n]
      BY <3>1, <3>2
    <3>4. \A k \in 1..Len(list') :
           /\ list'[k] \in HttpJobs => client'[list'[k]] = "waiting"
           /\ list'[k] \notin RefusedJobs
      BY <2>1, <3>3, ShorterQueue DEF ClientInv
    <3>5. ClientOpen' /\ QueueWaits'
      BY <2>1, <2>4, <3>2, <3>4 DEF ClientInv, ClientOpen, QueueWaits, InCurl
    <3>6. QED
      BY <2>2, <3>5 DEF ClientInv
  <2>5. QED
    BY <1>13, <2>3, <2>4 DEF Cancel, removeScheduledJob
<1>14. ASSUME MayStart
       PROVE  /\ Head(list) = list[1] /\ 1 \in 1..Len(list)
              /\ Len(Tail(list)) = Len(list) - 1
              /\ \A k \in 1..Len(Tail(list)) : \E i \in 1..Len(list) : Tail(list)[k] = list[i]
  <2>1. list # <<>> /\ Len(list) > 0
    BY <1>14, EmptySeq DEF MayStart, TypeOK
  <2>2. /\ Head(list) = list[1] /\ Len(Tail(list)) = Len(list) - 1
        /\ \A k \in 1..Len(Tail(list)) : Tail(list)[k] = list[k + 1]
    BY <2>1, HeadTailProperties DEF TypeOK
  <2>3. QED
    BY <2>1, <2>2
<1>15. CASE StartDataJob
  <2>1. /\ MayStart /\ Head(list) \in DataJobs /\ list' = Tail(list)
        /\ client' = [client EXCEPT ![Head(list)] =
             IF @ \in Terminal \cup {"late"} THEN "late" ELSE "responded"]
        /\ cb' = [call |-> "dataResponse", job |-> Head(list)]
        /\ UNCHANGED <<curlVars, fired, failing, cancelled>>
    BY <1>15 DEF StartDataJob, Begin, Told
  <2>2. \A j \in HttpJobs : j # Head(list) /\ client'[j] = client[j]
    BY <2>1 DEF HttpJobs
  <2>3. \A k \in 1..Len(list') :
           /\ list'[k] \in HttpJobs => client'[list'[k]] = "waiting"
           /\ list'[k] \notin RefusedJobs
    BY <1>14, <2>1, <2>2, ShorterQueue DEF ClientInv
  <2>4. QED
    BY <2>1, <2>2, <2>3 DEF ClientInv, ClientOpen, FiredIsTold, QueueWaits, CallsInOrder, InCurl
<1>16. CASE StartTransfer
  <2>1. /\ MayStart /\ list' = Tail(list) /\ AddHandle(Head(list))
        /\ UNCHANGED <<client, cb, local, fromCache, moved, fired, failing>>
    BY <1>16 DEF StartTransfer
  <2>2. PICK j \in Jobs : j = Head(list) /\ j = list[1]
    BY <1>14, <2>1
  <2>3. /\ j \notin RefusedJobs /\ (j \in HttpJobs => client[j] = "waiting")
    BY <1>14, <2>1, <2>2 DEF ClientInv, QueueWaits
  <2>4. PICK h \in {"active", "orphan"} : curl' = [curl EXCEPT ![j] = h]
    BY <2>1, <2>2 DEF AddHandle
  <2>5. cancelled \subseteq cancelled'
    BY <2>1 DEF AddHandle
  <2>6. \A k \in 1..Len(list') :
           /\ list'[k] \in HttpJobs => client'[list'[k]] = "waiting"
           /\ list'[k] \notin RefusedJobs
    BY <1>14, <2>1, ShorterQueue DEF ClientInv
  <2>7. ClientOpen' /\ FiredIsTold' /\ CallsInOrder'
    BY <2>1, <2>3, <2>4, <2>5 DEF ClientInv, ClientOpen, FiredIsTold, CallsInOrder, InCurl
  <2>8. QueueWaits'
    BY <2>1, <2>3, <2>4, <2>6 DEF ClientInv, QueueWaits
  <2>9. QED
    BY <2>7, <2>8 DEF ClientInv
<1>17. ASSUME NEW j \in Jobs, curl[j] # "none", j \notin failing
       PROVE  \A i \in 1..Len(list) : list[i] # j
  BY <1>17 DEF SlotInv, QueuedOnce
<1>18. ASSUME NEW j \in Jobs, HeaderBlock(j) PROVE ClientInv'
  <2>1. /\ curl[j] = "active" /\ j \notin cancelled
        /\ UNCHANGED <<list, curl, local, fromCache, fired, failing, cancelled>>
        /\ \A k \in Jobs \ {j} : client'[k] = client[k] /\ moved'[k] = moved[k]
    BY <1>18 DEF HeaderBlock, InPerform, Begin, Told
  <2>2. /\ cb'.job = j /\ cb'.call \in HeaderCalls
        /\ j \in HttpJobs => client[j] \in {"waiting", "responded"}
        /\ client'[j] = IF client[j] \in Terminal \cup {"late"} THEN "late"
                        ELSE IF cb'.call = "redirect" THEN client[j] ELSE "responded"
    BY <1>18, <2>1 DEF HeaderBlock, Begin, Told, HeaderCalls, ClientInv, ClientOpen, InCurl
  <2>3. j \in HttpJobs => client'[j] \in {"waiting", "responded"}
                          /\ (client[j] = "responded" => client'[j] = "responded")
                          /\ (cb'.call # "redirect" => client'[j] = "responded")
    BY <2>2 DEF Terminal
  <2>4. j \notin RefusedJobs /\ \A i \in 1..Len(list) : list[i] # j
    BY <2>1 DEF SlotInv, QueuedOnce, ClientInv, QueueWaits
  <2>5. ClientOpen' /\ FiredIsTold'
    BY <2>1, <2>3 DEF ClientInv, ClientOpen, FiredIsTold, InCurl
  <2>6. QueueWaits'
    BY <2>1, <2>4 DEF ClientInv, QueueWaits
  <2>7. CallsInOrder'
    BY <2>2, <2>3 DEF CallsInOrder, HeaderCalls, DataUrlCalls
  <2>8. QED
    BY <2>5, <2>6, <2>7 DEF ClientInv
<1>19. CASE HeaderBlockReturns
  <2>1. PICK j \in Jobs : cb.job = j /\ cb \in [call : Calls, job : Jobs]
    BY <1>19 DEF HeaderBlockReturns, TypeOK, NoCall, HeaderCalls
  <2>2. /\ cb.call \in HeaderCalls /\ cb # NoCall
        /\ fired' = IF cb.call = "redirect" THEN fired ELSE fired \cup {j}
        /\ fromCache' = IF cb.call = "notModified" THEN fromCache \cup {j} ELSE fromCache
        /\ cb' = NoCall
        /\ UNCHANGED <<list, curl, local, moved, clientVars>>
    BY <1>19, <2>1 DEF HeaderBlockReturns, NoCall
  <2>3. j \in HttpJobs /\ cb.call # "redirect" => client[j] \notin {"idle", "waiting"}
    BY <2>1, <2>2 DEF ClientInv, CallsInOrder, HeaderCalls
  <2>4. ClientOpen' /\ QueueWaits' /\ CallsInOrder'
    BY <2>2 DEF ClientInv, ClientOpen, QueueWaits, CallsInOrder, InCurl
  <2>5. FiredIsTold'
    BY <2>2, <2>3 DEF ClientInv, FiredIsTold, HeaderCalls
  <2>6. QED
    BY <2>4, <2>5 DEF ClientInv
<1>20. ASSUME NEW j \in Jobs, BodyBlock(j) PROVE ClientInv'
  <2>1. /\ curl[j] = "active" /\ j \notin cancelled
        /\ UNCHANGED <<list, curlVars, fired, failing, cancelled>>
        /\ \A k \in Jobs \ {j} : client'[k] = client[k]
        /\ j \in fired \/ j \in local
    BY <1>20 DEF BodyBlock, InPerform, Begin, Told
  <2>2. j \in HttpJobs => j \in fired /\ client[j] \in {"waiting", "responded"}
    BY <2>1 DEF ClientInv, FiredIsTold, ClientOpen, InCurl
  <2>3. /\ cb'.job = j
        /\ client'[j] = IF client[j] \in Terminal \cup {"late"} THEN "late" ELSE "responded"
        /\ j \in HttpJobs => cb'.call = "body"
    BY <1>20, <2>2 DEF BodyBlock, Begin, Told
  <2>4. j \in HttpJobs => client'[j] = "responded"
    BY <2>2, <2>3 DEF Terminal
  <2>5. j \notin RefusedJobs /\ \A i \in 1..Len(list) : list[i] # j
    BY <2>1 DEF SlotInv, QueuedOnce, ClientInv, QueueWaits
  <2>6. ClientOpen' /\ FiredIsTold'
    BY <2>1, <2>4 DEF ClientInv, ClientOpen, FiredIsTold, InCurl
  <2>7. QueueWaits'
    BY <2>1, <2>5 DEF ClientInv, QueueWaits
  <2>8. CallsInOrder'
    BY <2>3, <2>4 DEF CallsInOrder, DataUrlCalls
  <2>9. QED
    BY <2>6, <2>7, <2>8 DEF ClientInv
<1>21. ASSUME NEW j \in Jobs \ HttpJobs, cb'.job = j \/ cb' = NoCall,
              \A k \in Jobs \ {j} : client'[k] = client[k],
              UNCHANGED <<list, curlVars, failing>>, cancelled \subseteq cancelled',
              fired' \in {fired, fired \cup {j}}
       PROVE  ClientInv'
  BY <1>21 DEF ClientInv, ClientOpen, FiredIsTold, QueueWaits, CallsInOrder, InCurl
<1>22. CASE BodyResponseReturns
  <2>1. PICK j \in Jobs : cb.job = j /\ cb.call = "bodyResponse" /\ cb # NoCall
    BY <1>22 DEF BodyResponseReturns, TypeOK, NoCall
  <2>2. j \notin HttpJobs
    BY <2>1 DEF ClientInv, CallsInOrder
  <2>3. /\ cb'.job = j
        /\ \A k \in Jobs \ {j} : client'[k] = client[k]
        /\ UNCHANGED <<list, curlVars, failing, cancelled>>
        /\ fired' = fired \cup {j}
    BY <1>22, <2>1 DEF BodyResponseReturns, Begin, Told
  <2>4. QED
    BY <1>21, <2>2, <2>3
<1>23. CASE DataCallReturns
  <2>1. PICK j \in Jobs : cb.job = j /\ cb.call \in DataUrlCalls /\ cb # NoCall
    BY <1>23 DEF DataCallReturns, TypeOK, NoCall, DataUrlCalls
  <2>2. j \notin HttpJobs
    BY <2>1 DEF ClientInv, CallsInOrder
  <2>3. UNCHANGED <<list, curlVars, fired, failing, cancelled>>
    BY <1>23 DEF DataCallReturns
  <2>4. (cb'.job = j \/ cb' = NoCall) /\ \A k \in Jobs \ {j} : client'[k] = client[k]
    <3>1. CASE cb.call = "dataResponse"
      BY <1>23, <2>1, <3>1 DEF DataCallReturns, Begin, Told
    <3>2. CASE cb.call = "dataBody"
      BY <1>23, <2>1, <3>2 DEF DataCallReturns, Begin, Told
    <3>3. CASE cb.call = "dataFinish"
      BY <1>23, <2>1, <3>3 DEF DataCallReturns, Settle
    <3>4. QED
      BY <2>1, <3>1, <3>2, <3>3 DEF DataUrlCalls
  <2>5. QED
    BY <1>21, <2>2, <2>3, <2>4
<1>24. CASE BodyReturns
  BY <1>24 DEF BodyReturns, ClientInv, ClientOpen, FiredIsTold, QueueWaits, CallsInOrder, InCurl
<1>25. ASSUME NEW j \in Jobs, Completes(j) PROVE ClientInv'
  <2>1. /\ curl[j] = "active" /\ curl' = [curl EXCEPT ![j] = "ok"]
        /\ j \in fired \cup local \/ moved[j] = "misread"
        /\ UNCHANGED <<list, cb, local, fromCache, moved, fired, clientVars>>
    BY <1>25 DEF Completes, InPerform
  <2>2. QED
    BY <2>1 DEF ClientInv, ClientOpen, FiredIsTold, QueueWaits, CallsInOrder, InCurl
<1>26. ASSUME NEW j \in Jobs, Breaks(j) PROVE ClientInv'
  <2>1. /\ curl[j] = "active" /\ curl' = [curl EXCEPT ![j] = "failed"]
        /\ UNCHANGED <<list, cb, local, fromCache, moved, fired, clientVars>>
    BY <1>26 DEF Breaks, InPerform
  <2>2. QED
    BY <2>1 DEF ClientInv, ClientOpen, FiredIsTold, QueueWaits, CallsInOrder, InCurl
<1>27. ASSUME NEW j \in Jobs, ReapCancelled(j) PROVE ClientInv'
  <2>1. /\ curl' = [curl EXCEPT ![j] = "none"]
        /\ UNCHANGED <<list, cb, local, fromCache, moved, fired, clientVars>>
    BY <1>27 DEF ReapCancelled, removeFromCurl
  <2>2. QED
    BY <2>1 DEF ClientInv, ClientOpen, FiredIsTold, QueueWaits, CallsInOrder, InCurl
<1>28. ASSUME NEW j \in Jobs, RestartFromCache(j) PROVE ClientInv'
  <2>1. /\ curl[j] = "ok" /\ j \in fromCache \ cancelled
        /\ local' = local \cup {j} /\ fromCache' = fromCache \ {j}
        /\ AddHandle(j)
        /\ UNCHANGED <<list, cb, moved, fired, failing, client>>
    BY <1>28 DEF RestartFromCache
  <2>2. PICK h \in {"active", "orphan"} : curl' = [curl EXCEPT ![j] = h]
    BY <2>1 DEF AddHandle
  <2>3. cancelled \subseteq cancelled'
    BY <2>1 DEF AddHandle
  <2>4. QED
    BY <2>1, <2>2, <2>3 DEF ClientInv, ClientOpen, FiredIsTold, QueueWaits, CallsInOrder, InCurl
<1>29. ASSUME NEW j \in Jobs, TellOutcome(j) PROVE ClientInv'
  <2>1. /\ j \notin cancelled /\ curl[j] \in {"ok", "failed"}
        /\ UNCHANGED <<list, curlVars, fired, failing, cancelled>>
        /\ cb'.job = j /\ cb'.call \in {"finish", "fail"}
        /\ cb'.call = "finish" => curl[j] = "ok" /\ j \notin fromCache
        /\ client' = [client EXCEPT ![j] = IF @ \in Terminal \cup {"late"} THEN "late" ELSE client[j]]
    BY <1>29 DEF TellOutcome, Begin, Told
  <2>2. j \in HttpJobs => client[j] \in {"waiting", "responded"}
    BY <2>1 DEF ClientInv, ClientOpen, InCurl
  <2>3. \A k \in HttpJobs : client'[k] = client[k]
    BY <2>1, <2>2 DEF Terminal
  <2>4. j \in HttpJobs /\ cb'.call = "finish" => client[j] # "waiting" \/ moved[j] = "misread"
    BY <2>1 DEF ClientInv, FiredIsTold
  <2>5. ClientOpen' /\ FiredIsTold' /\ QueueWaits'
    BY <2>1, <2>3 DEF ClientInv, ClientOpen, FiredIsTold, QueueWaits, InCurl
  <2>6. CallsInOrder'
    BY <2>1, <2>2, <2>3, <2>4 DEF CallsInOrder, DataUrlCalls
  <2>7. QED
    BY <2>5, <2>6 DEF ClientInv
<1>30. ASSUME NEW j \in Jobs, NEW outcome \in {"finished", "failed"},
              curl'[j] = "none", \A k \in Jobs \ {j} : curl'[k] = curl[k],
              \A i \in 1..Len(list) : list[i] # j,
              j \notin failing, cb' = NoCall,
              j \in HttpJobs => client[j] # "idle",
              client' = [client EXCEPT ![j] = IF @ \in Terminal \cup {"late"} THEN @ ELSE outcome],
              UNCHANGED <<list, local, fromCache, moved, fired, failing>>,
              cancelled \subseteq cancelled'
       PROVE  ClientInv'
  <2>1. \A k \in Jobs \ {j} : client'[k] = client[k]
    BY <1>30
  <2>2. j \in HttpJobs => client'[j] \in Terminal
    BY <1>30 DEF ClientInv, ClientOpen, Terminal
  <2>3. ClientOpen' /\ FiredIsTold'
    BY <1>30, <2>1, <2>2 DEF ClientInv, ClientOpen, FiredIsTold, InCurl, Terminal
  <2>4. QueueWaits' /\ CallsInOrder'
    BY <1>30, <2>1 DEF ClientInv, QueueWaits, CallsInOrder
  <2>5. QED
    BY <2>3, <2>4 DEF ClientInv
<1>31. CASE OutcomeReturns
  <2>1. PICK j \in Jobs : cb \in {[call |-> "finish", job |-> j], [call |-> "fail", job |-> j]}
    BY <1>31 DEF OutcomeReturns, TypeOK, NoCall
  <2>2. cb.job = j /\ cb # NoCall /\ cb.call \in {"finish", "fail"} /\ curl[j] # "none"
    BY <2>1 DEF SlotInv, OutcomeHasHandle, NoCall
  <2>3. PICK outcome \in {"finished", "failed"} :
          client' = [client EXCEPT ![j] = IF @ \in Terminal \cup {"late"} THEN @ ELSE outcome]
    BY <1>31, <2>2 DEF OutcomeReturns, Settle
  <2>4. /\ curl' = [curl EXCEPT ![j] = "none"] /\ cb' = NoCall
        /\ UNCHANGED <<list, local, fromCache, moved, fired, failing, cancelled>>
    BY <1>31, <2>2 DEF OutcomeReturns, removeFromCurl
  <2>5. j \notin failing /\ \A i \in 1..Len(list) : list[i] # j
    BY <2>2 DEF SlotInv, QueuedOnce, ClientInv, QueueWaits
  <2>6. j \in HttpJobs => client[j] # "idle"
    BY <2>2 DEF ClientInv, CallsInOrder
  <2>7. QED
    BY <1>30, <2>3, <2>4, <2>5, <2>6
<1>32. ASSUME NEW j \in Jobs, FireFailure(j) PROVE ClientInv'
  <2>1. /\ j \in failing /\ failing' = failing \ {j} /\ j \in RefusedJobs
        /\ cb' = [call |-> "blocked", job |-> j]
        /\ client' = [client EXCEPT ![j] = IF @ \in Terminal \cup {"late"} THEN "late" ELSE client[j]]
        /\ UNCHANGED <<list, curlVars, fired, cancelled>>
    BY <1>32 DEF FireFailure, Begin, Told, ClientInv, QueueWaits
  <2>2. j \in HttpJobs => client[j] = "waiting"
    BY <2>1 DEF ClientInv, QueueWaits
  <2>3. \A k \in HttpJobs : client'[k] = client[k]
    BY <2>1, <2>2 DEF Terminal
  <2>4. QED
    BY <2>1, <2>2, <2>3 DEF ClientInv, ClientOpen, FiredIsTold, QueueWaits, CallsInOrder,
       InCurl, DataUrlCalls
<1>33. CASE FailureReturns
  <2>1. PICK j \in Jobs : cb.job = j /\ cb.call = "blocked" /\ cb # NoCall
    BY <1>33 DEF FailureReturns, TypeOK, NoCall
  <2>2. /\ client' = [client EXCEPT ![j] = IF @ \in Terminal \cup {"late"} THEN @ ELSE "failed"]
        /\ cb' = NoCall
        /\ UNCHANGED <<list, curlVars, fired, failing>>
        /\ cancelled \subseteq cancelled'
    BY <1>33, <2>1 DEF FailureReturns, Settle
  <2>3. CASE j \in HttpJobs
    <3>1. j \in RefusedJobs \ failing /\ client[j] # "idle"
      BY <2>1, <2>3 DEF ClientInv, CallsInOrder
    <3>2. curl[j] = "none" /\ \A i \in 1..Len(list) : list[i] # j
      BY <3>1 DEF ClientInv, QueueWaits
    <3>3. QED
      BY <1>30, <2>2, <3>1, <3>2
  <2>4. CASE j \notin HttpJobs
    BY <1>21, <2>2, <2>4
  <2>5. QED
    BY <2>3, <2>4
<1>34. QED
  BY <1>2, <1>3, <1>4, <1>5, <1>6, <1>7, <1>8, <1>9, <1>10, <1>11, <1>12, <1>13, <1>15,
     <1>16, <1>18, <1>19, <1>20, <1>22, <1>23, <1>24, <1>25, <1>26, <1>27, <1>28, <1>29,
     <1>31, <1>32, <1>33
     DEF Next, Client, Manager, Network, Returns

(* ClientInv holds of every reachable state.                               *)
LEMMA ClientInvariant == Spec => []ClientInv
BY ClientInvInit, ClientInvStep, TypeCorrect, SlotInvariant, PTL DEF Spec
-----------------------------------------------------------------------------
(* The refinement, step by step.  Observed is the mapping of HttpClient.   *)
Observed == [j \in HttpJobs |->
               IF moved[j] = "misread" /\ client[j] = "waiting" THEN "responded" ELSE client[j]]

(* A step that tells one client something maps to a step of that client's. *)
LEMMA OneIsTold ==
  ASSUME NEW j \in HttpJobs,
         \A k \in HttpJobs \ {j} : client'[k] = client[k] /\ moved'[k] = moved[k],
         NEW to, Observed'[j] = to
  PROVE  Observed' = [Observed EXCEPT ![j] = to]
BY DEF Observed

LEMMA ClientStep ==
  ASSUME NEW j \in HttpJobs,
         \A k \in HttpJobs \ {j} : client'[k] = client[k] /\ moved'[k] = moved[k],
         \/ Observed'[j] = Observed[j]
         \/ Observed[j] = "idle" /\ Observed'[j] = "waiting"
         \/ Observed[j] \in {"waiting", "responded"} /\ Observed'[j] = "responded"
         \/ Observed[j] = "responded" /\ Observed'[j] = "finished"
         \/ Observed[j] \in {"waiting", "responded"} /\ Observed'[j] = "failed"
         \/ Observed[j] \in {"waiting", "responded"} /\ Observed'[j] = "cancelled"
  PROVE  HttpClient!Next \/ UNCHANGED Observed
<1>1. CASE Observed'[j] = Observed[j]
  BY <1>1 DEF Observed
<1>2. ASSUME NEW to, Observed'[j] = to PROVE Observed' = [Observed EXCEPT ![j] = to]
  BY <1>2, OneIsTold
<1>3. CASE Observed[j] = "idle" /\ Observed'[j] = "waiting"
  <2>1. HttpClient!Start(j)
    BY <1>2, <1>3 DEF HttpClient!Start, HttpClient!Moves, Observed
  <2>2. QED
    BY <2>1 DEF HttpClient!Next
<1>4. CASE Observed[j] \in {"waiting", "responded"} /\ Observed'[j] = "responded"
  <2>1. HttpClient!Response(j)
    BY <1>2, <1>4 DEF HttpClient!Response, HttpClient!Moves, Observed
  <2>2. QED
    BY <2>1 DEF HttpClient!Next
<1>5. CASE Observed[j] = "responded" /\ Observed'[j] = "finished"
  <2>1. HttpClient!Finish(j)
    BY <1>2, <1>5 DEF HttpClient!Finish, HttpClient!Moves, Observed
  <2>2. QED
    BY <2>1 DEF HttpClient!Next
<1>6. CASE Observed[j] \in {"waiting", "responded"} /\ Observed'[j] = "failed"
  <2>1. HttpClient!Fail(j)
    BY <1>2, <1>6 DEF HttpClient!Fail, HttpClient!Moves, Observed
  <2>2. QED
    BY <2>1 DEF HttpClient!Next
<1>7. CASE Observed[j] \in {"waiting", "responded"} /\ Observed'[j] = "cancelled"
  <2>1. HttpClient!Cancel(j)
    BY <1>2, <1>7 DEF HttpClient!Cancel, HttpClient!Moves, Observed
  <2>2. QED
    BY <2>1 DEF HttpClient!Next
<1>8. QED
  BY <1>1, <1>3, <1>4, <1>5, <1>6, <1>7

LEMMA StepIsClientStep ==
  ASSUME TypeOK, SlotInv, ClientInv, [Next]_vars
  PROVE  HttpClient!Next \/ UNCHANGED Observed
<1> USE DEF curlVars, clientVars
<1> HttpJobs \subseteq Jobs
  BY DEF HttpJobs
<1> moved \in [Jobs -> Redirects] /\ client \in [Jobs -> ClientStates]
  BY DEF TypeOK
<1>1. ASSUME UNCHANGED <<client, moved>>
      PROVE  UNCHANGED Observed
  BY <1>1 DEF Observed
<1>2. ASSUME NEW j \in Jobs \ HttpJobs, \A k \in Jobs \ {j} : client'[k] = client[k],
             UNCHANGED moved
      PROVE  UNCHANGED Observed
  BY <1>2 DEF Observed
<1>3. CASE \/ LoadSynchronously \/ TimerFires \/ StartScheduledDone \/ SelectFails
           \/ SelectReturns \/ PerformReturns \/ DrainDone \/ BodyReturns
           \/ HeaderBlockReturns \/ StartTransfer
  BY <1>1, <1>3 DEF LoadSynchronously, TimerFires, StartScheduledDone, SelectFails,
     SelectReturns, PerformReturns, DrainDone, BodyReturns, HeaderBlockReturns, StartTransfer
<1>4. ASSUME NEW j \in Jobs,
             \/ UploadRunsDry(j) \/ Completes(j) \/ Breaks(j) \/ ReapCancelled(j)
             \/ RestartFromCache(j)
      PROVE  UNCHANGED Observed
  BY <1>1, <1>4 DEF UploadRunsDry, Completes, Breaks, ReapCancelled, RestartFromCache
<1>5. ASSUME NEW j \in Jobs, Add(j) \/ Refuse(j)
      PROVE  HttpClient!Next \/ UNCHANGED Observed
  <2>1. /\ client[j] = "idle" /\ client' = [client EXCEPT ![j] = "waiting"]
        /\ UNCHANGED moved
    BY <1>5 DEF Add, Refuse
  <2>2. CASE j \notin HttpJobs
    BY <1>2, <2>1, <2>2
  <2>3. CASE j \in HttpJobs
    <3>1. moved[j] = "none"
      BY <2>1, <2>3 DEF ClientInv, FiredIsTold
    <3>2. Observed[j] = "idle" /\ Observed'[j] = "waiting"
      BY <2>1, <2>3, <3>1 DEF Observed
    <3>3. QED
      BY <2>1, <2>3, <3>2, ClientStep
  <2>4. QED
    BY <2>2, <2>3
<1>6. ASSUME NEW j \in Jobs, Cancel(j)
      PROVE  HttpClient!Next \/ UNCHANGED Observed
  <2>1. /\ client[j] \in {"waiting", "responded"}
        /\ client' = [client EXCEPT ![j] = "cancelled"]
        /\ UNCHANGED moved
    BY <1>6 DEF Cancel, removeScheduledJob
  <2>2. CASE j \notin HttpJobs
    BY <1>2, <2>1, <2>2
  <2>3. CASE j \in HttpJobs
    <3>1. Observed[j] \in {"waiting", "responded"} /\ Observed'[j] = "cancelled"
      BY <2>1, <2>3 DEF Observed
    <3>2. QED
      BY <2>1, <2>3, <3>1, ClientStep
  <2>4. QED
    BY <2>2, <2>3
<1>7. CASE StartDataJob
  <2>1. PICK j \in DataJobs : j = Head(list)
    BY <1>7 DEF StartDataJob
  <2>2. j \in Jobs \ HttpJobs
    BY <2>1, JobsAssumption DEF JobsAssumption, HttpJobs
  <2>3. UNCHANGED moved /\ \A k \in Jobs \ {j} : client'[k] = client[k]
    BY <1>7, <2>1 DEF StartDataJob, Begin, Told
  <2>4. QED
    BY <1>2, <2>2, <2>3
<1>8. ASSUME NEW j \in Jobs, HeaderBlock(j)
      PROVE  HttpClient!Next \/ UNCHANGED Observed
  <2>1. /\ curl[j] = "active" /\ j \notin cancelled /\ moved[j] # "misread"
        /\ \A k \in Jobs \ {j} : client'[k] = client[k] /\ moved'[k] = moved[k]
    BY <1>8 DEF HeaderBlock, InPerform, Begin, Told
  <2>2. client'[j] = IF client[j] \in Terminal \cup {"late"} THEN "late"
                     ELSE IF cb'.call = "redirect" THEN client[j] ELSE "responded"
    BY <1>8 DEF HeaderBlock, Begin, Told
  <2>3. CASE j \notin HttpJobs
    BY <2>1, <2>3 DEF Observed
  <2>4. CASE j \in HttpJobs
    <3>1. client[j] \in {"waiting", "responded"}
      BY <2>1, <2>4 DEF ClientInv, ClientOpen, InCurl
    <3>2. client'[j] = client[j] \/ client'[j] = "responded"
      BY <2>2, <3>1 DEF Terminal
    <3>3. /\ Observed[j] = client[j]
          /\ Observed'[j] = client[j] \/ Observed'[j] = "responded"
      BY <2>1, <2>4, <3>1, <3>2 DEF Observed
    <3>4. QED
      BY <2>1, <2>4, <3>1, <3>3, ClientStep
  <2>5. QED
    BY <2>3, <2>4
<1>9. ASSUME NEW j \in Jobs, BodyBlock(j)
      PROVE  HttpClient!Next \/ UNCHANGED Observed
  <2>1. /\ curl[j] = "active" /\ j \notin cancelled /\ UNCHANGED moved
        /\ client' = [client EXCEPT ![j] = IF @ \in Terminal \cup {"late"} THEN "late" ELSE "responded"]
    BY <1>9 DEF BodyBlock, InPerform, Begin, Told
  <2>2. CASE j \notin HttpJobs
    BY <1>2, <2>1, <2>2
  <2>3. CASE j \in HttpJobs
    <3>1. client[j] \in {"waiting", "responded"}
      BY <2>1, <2>3 DEF ClientInv, ClientOpen, InCurl
    <3>2. client'[j] = "responded"
      BY <2>1, <3>1 DEF Terminal
    <3>3. Observed[j] \in {"waiting", "responded"} /\ Observed'[j] = "responded"
      BY <2>3, <3>1, <3>2 DEF Observed
    <3>4. QED
      BY <2>1, <2>3, <3>3, ClientStep
  <2>4. QED
    BY <2>2, <2>3
<1>10. CASE BodyResponseReturns
  <2>1. PICK j \in Jobs : cb.job = j /\ cb.call = "bodyResponse" /\ cb # NoCall
    BY <1>10 DEF BodyResponseReturns, TypeOK, NoCall
  <2>2. j \notin HttpJobs
    BY <2>1 DEF ClientInv, CallsInOrder
  <2>3. UNCHANGED moved /\ \A k \in Jobs \ {j} : client'[k] = client[k]
    BY <1>10, <2>1 DEF BodyResponseReturns, Begin, Told
  <2>4. QED
    BY <1>2, <2>2, <2>3
<1>11. CASE DataCallReturns
  <2>1. PICK j \in Jobs : cb.job = j /\ cb.call \in DataUrlCalls /\ cb # NoCall
    BY <1>11 DEF DataCallReturns, TypeOK, NoCall, DataUrlCalls
  <2>2. j \notin HttpJobs /\ UNCHANGED moved
    BY <1>11, <2>1 DEF ClientInv, CallsInOrder, DataCallReturns
  <2>3. \A k \in Jobs \ {j} : client'[k] = client[k]
    <3>1. CASE cb.call = "dataResponse"
      BY <1>11, <2>1, <3>1 DEF DataCallReturns, Begin, Told
    <3>2. CASE cb.call = "dataBody"
      BY <1>11, <2>1, <3>2 DEF DataCallReturns, Begin, Told
    <3>3. CASE cb.call = "dataFinish"
      BY <1>11, <2>1, <3>3 DEF DataCallReturns, Settle
    <3>4. QED
      BY <2>1, <3>1, <3>2, <3>3 DEF DataUrlCalls
  <2>4. QED
    BY <1>2, <2>2, <2>3
<1>12. ASSUME NEW j \in Jobs, TellOutcome(j) \/ FireFailure(j)
       PROVE  UNCHANGED Observed
  <2>1. /\ UNCHANGED moved
        /\ client' = [client EXCEPT ![j] = IF @ \in Terminal \cup {"late"} THEN "late" ELSE client[j]]
    BY <1>12 DEF TellOutcome, FireFailure, Begin, Told
  <2>2. (curl[j] \in {"ok", "failed"} /\ j \notin cancelled) \/ j \in failing
    BY <1>12 DEF TellOutcome, FireFailure
  <2>3. j \in HttpJobs => client[j] \in {"waiting", "responded"}
    BY <2>2 DEF ClientInv, ClientOpen, QueueWaits, InCurl
  <2>4. \A k \in HttpJobs : client'[k] = client[k]
    BY <2>1, <2>3 DEF Terminal
  <2>5. QED
    BY <2>1, <2>4 DEF Observed
<1>13. CASE OutcomeReturns \/ FailureReturns
  <2>1. PICK j \in Jobs : cb.job = j /\ cb.call \in {"finish", "fail", "blocked"} /\ cb # NoCall
    BY <1>13 DEF OutcomeReturns, FailureReturns, TypeOK, NoCall
  <2>2. PICK outcome \in {"finished", "failed"} :
          /\ client' = [client EXCEPT ![j] = IF @ \in Terminal \cup {"late"} THEN @ ELSE outcome]
          /\ outcome = "finished" => cb.call = "finish"
          /\ UNCHANGED moved
    BY <1>13, <2>1 DEF OutcomeReturns, FailureReturns, Settle
  <2>3. CASE j \notin HttpJobs
    BY <1>2, <2>2, <2>3
  <2>4. CASE j \in HttpJobs
    <3>1. /\ client[j] \in ClientStates \ {"idle", "late"}
          /\ cb.call = "finish" => client[j] # "waiting" \/ moved[j] = "misread"
      BY <2>1, <2>4 DEF ClientInv, ClientOpen, CallsInOrder
    <3>2. CASE client[j] \in Terminal
      BY <2>2, <2>4, <3>2 DEF Observed
    <3>3. CASE client[j] \in {"waiting", "responded"}
      <4>1. client'[j] = outcome
        BY <2>2, <3>3 DEF Terminal
      <4>2. /\ Observed[j] \in {"waiting", "responded"} /\ Observed'[j] = outcome
            /\ outcome = "finished" => Observed[j] = "responded"
        BY <2>2, <2>4, <3>1, <3>3, <4>1 DEF Observed
      <4>3. QED
        BY <2>2, <2>4, <4>2, ClientStep
    <3>4. QED
      BY <3>1, <3>2, <3>3 DEF ClientStates
  <2>5. QED
    BY <2>3, <2>4
<1>14. CASE UNCHANGED vars
  BY <1>1, <1>14 DEF vars
<1>15. QED
  BY <1>3, <1>4, <1>5, <1>6, <1>7, <1>8, <1>9, <1>10, <1>11, <1>12, <1>13, <1>14
     DEF Next, Client, Manager, Network, Returns

(* HttpClientProtocol: what every http loader is told is a run of the      *)
(* client interface, whatever is started, stopped or cancelled from inside *)
(* the callbacks of whichever other job.                                   *)
THEOREM ClientProtocol == Spec => HttpClientProtocol
<1>1. Init => HttpClient!Init
  BY JobsAssumption DEF Init, HttpClient!Init, HttpJobs
<1>2. TypeOK /\ SlotInv /\ ClientInv /\ [Next]_vars => [HttpClient!Next]_Observed
  BY StepIsClientStep
<1>3. QED
  BY <1>1, <1>2, TypeCorrect, SlotInvariant, ClientInvariant, PTL
     DEF Spec, HttpClientProtocol, HttpClient!Spec, Observed
=============================================================================
