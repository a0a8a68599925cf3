------------------------------- MODULE Timers -------------------------------
(***************************************************************************)
(* The timers of WebCore: Timer.cpp, and SharedTimerISee.cpp which gives   *)
(* it one wake-up, the shared timer, from the Windows message queue.       *)
(*                                                                         *)
(* Time is relative: time[t] is how far away the fire time of t is, and    *)
(* negative when it has passed.  The heap is a sequence in firing order.   *)
(* A timer that is collected leaves the heap and its m_nextFireTime is 0;  *)
(* the model remembers its time until it fires, is stopped or restarted.   *)
(*                                                                         *)
(* Timers fire from inside sharedTimerFired, whose calls nest when what a  *)
(* timer does runs an event loop.  `stack' holds the calls in progress,    *)
(* the innermost first.                                                    *)
(***************************************************************************)
EXTENDS Integers, FiniteSetsExt, SequencesExt

CONSTANTS
  Timers,
  None,
  Off,         \* timersReadyToFire = 0
  Lost,        \* a WM_TIMER that will not come
  MaxDelay,    \* bound: delays and repeat intervals
  Quick,       \* the delays below USER_TIMER_MINIMUM
  MaxLate,     \* bound: how late a timer may be when it fires
  MaxDepth     \* bound: nested calls of sharedTimerFired

ASSUME TimersAssumption ==
  /\ IsFiniteSet(Timers)
  /\ {MaxDelay, Quick, MaxLate, MaxDepth} \subseteq Nat
  /\ None \notin Int /\ Lost \notin Int /\ None # Lost
  /\ \A S \in SUBSET Timers : S # Off

VARIABLES
  heap,      \* timerHeap
  time,
  interval,  \* m_repeatInterval
  ready,     \* timersReadyToFire
  shared,    \* the shared timer
  stack,
  dropped    \* history: timers that were collected and then forgotten

vars == <<heap, time, interval, ready, shared, stack, dropped>>

(* posted: pendingTimers > 0 and a timerFiredMessage is in the queue;      *)
(* wm: what is left until the WM_TIMER of sharedTimerID;                   *)
(* lastChance: lastChanceTimerID; custom: processingCustomTimerMessage.    *)
Init ==
  /\ heap = <<>>
  /\ time = [t \in Timers |-> None]
  /\ interval = [t \in Timers |-> 0]
  /\ ready = Off
  /\ shared = [posted |-> FALSE, wm |-> None, lastChance |-> FALSE, custom |-> FALSE]
  /\ stack = <<>>
  /\ dropped = {}

-----------------------------------------------------------------------------
InHeap(t) == t \in Range(heap)
IsFirst(t, h) == h # <<>> /\ Head(h) = t

(* How many timers at the beginning of h fire at d or before.              *)
Until(h, d) ==
  CHOOSE n \in 0..Len(h) :
    /\ \A i \in 1..n : time[h[i]] <= d
    /\ n < Len(h) => time[h[n + 1]] > d

(* Mutant: a timer that is in the heap is inserted again.                  *)
Placed_Again(t, d) ==
  IF d = None THEN RemoveFirst(heap, t) ELSE InsertAt(heap, Until(heap, d) + 1, t)

(* The heap with t at its place for d, or out of it.                       *)
Placed(t, d) ==
  LET h == RemoveFirst(heap, t)
  IN IF d = None THEN h ELSE InsertAt(h, Until(h, d) + 1, t)

(* Mutant: the last chance timer is not started.                           *)
setSharedTimerFireTime_NoLastChance(d) ==
  {[shared EXCEPT !.wm = Max({d, 0})]}
  \cup {s \in {[shared EXCEPT !.posted = TRUE, !.wm = None]} : d <= Quick /\ ~shared.custom}

(* A message is posted at once when the delay is short and the queue has   *)
(* neither input nor a paint in it; otherwise SetTimer.                    *)
setSharedTimerFireTime(d) ==
  {[shared EXCEPT !.wm = Max({d, 0}), !.lastChance = TRUE]}
  \cup {s \in {[shared EXCEPT !.posted = TRUE, !.wm = None]} : d <= Quick /\ ~shared.custom}

stopSharedTimer == [shared EXCEPT !.wm = None]

updateSharedTimer(r, h, tm) ==
  IF r # Off \/ h = <<>> THEN {stopSharedTimer} ELSE setSharedTimerFireTime(tm[Head(h)])

(* Mutant: a timer that is set again stays in the ready set.               *)
setNextFireTime_StaysReady(t, d) ==
  /\ time' = [time EXCEPT ![t] = d]
  /\ ready' = ready
  /\ dropped' = dropped \ {t}
  /\ \/ /\ heap' = Placed(t, d)
        /\ shared' \in IF IsFirst(t, heap) \/ IsFirst(t, heap')
                       THEN updateSharedTimer(ready', heap', time') ELSE {shared}
     \/ /\ InHeap(t) /\ time[t] = d
        /\ UNCHANGED <<heap, shared>>

(* The second disjunct: the clock shows the fire time t has already.       *)
setNextFireTime(t, d) ==
  /\ time' = [time EXCEPT ![t] = d]
  /\ ready' = IF ready = Off THEN Off ELSE ready \ {t}
  /\ dropped' = dropped \ {t}
  /\ \/ /\ heap' = Placed(t, d)
        /\ shared' \in IF IsFirst(t, heap) \/ IsFirst(t, heap')
                       THEN updateSharedTimer(ready', heap', time') ELSE {shared}
     \/ /\ InHeap(t) /\ time[t] = d
        /\ UNCHANGED <<heap, shared>>

-----------------------------------------------------------------------------
(* What code outside does: anything that runs from the message loop, and   *)
(* the fired() of the timer that is being fired.                           *)

Top == Head(stack)
CodeMayRun == IF stack = <<>> THEN TRUE ELSE Top.firing

Start(t, d, repeat) ==
  /\ CodeMayRun
  /\ interval' = [interval EXCEPT ![t] = repeat]
  /\ setNextFireTime(t, d)
  /\ UNCHANGED stack

Stop(t) ==
  /\ CodeMayRun
  /\ interval' = [interval EXCEPT ![t] = 0]
  /\ setNextFireTime(t, None)
  /\ UNCHANGED stack

(* fireTimersInNestedEventLoop, before a modal dialog.                     *)
FireTimersInNestedEventLoop ==
  /\ CodeMayRun
  /\ ready' = Off
  /\ shared' \in updateSharedTimer(Off, heap, time)
  /\ dropped' = IF ready = Off THEN dropped ELSE dropped \cup ready
  /\ UNCHANGED <<heap, time, interval, stack>>

(* downloadTimerCallback defers the timers while it is in select().        *)
DeferAndResume ==
  /\ CodeMayRun
  /\ shared' \in updateSharedTimer(ready, heap, time)
  /\ UNCHANGED <<heap, time, interval, ready, stack, dropped>>

Tick ==
  /\ \A t \in Timers \ dropped : time[t] # None => time[t] > -MaxLate
  /\ time' = [t \in Timers |-> IF time[t] = None \/ t \in dropped THEN time[t] ELSE time[t] - 1]
  /\ shared' = [shared EXCEPT !.wm = IF @ \in {None, Lost, 0} THEN @ ELSE @ - 1]
  /\ stack' = [i \in DOMAIN stack |->
                 [stack[i] EXCEPT !.elapsed = Min({@ + 1, MaxDelay + MaxLate})]]
  /\ UNCHANGED <<heap, interval, ready, dropped>>

-----------------------------------------------------------------------------
(* sharedTimerFired, called by TimerWindowWndProc.                         *)

(* collectFiringTimers                                                     *)
Due == SubSeq(heap, 1, Until(heap, 0))
NotDue == SubSeq(heap, Until(heap, 0) + 1, Len(heap))

(* Mutant: no re-entrancy check.                                           *)
sharedTimerFired_Reentered(s, isCustom) ==
  /\ Len(stack) < MaxDepth
  /\ ready' = Range(Due)
  /\ heap' = NotDue
  /\ shared' = [s EXCEPT !.custom = isCustom \/ @]
  /\ stack' = <<[rest |-> Due, firing |-> FALSE, elapsed |-> 0, custom |-> isCustom]>> \o stack
  /\ UNCHANGED <<time, interval, dropped>>

(* s is the shared timer after the message was taken; a posted message     *)
(* sets processingCustomTimerMessage around the call.                      *)
sharedTimerFired(s, isCustom) ==
  IF ready # Off
  THEN /\ shared' = [s EXCEPT !.custom = @ /\ ~isCustom]
       /\ UNCHANGED <<heap, time, interval, ready, stack, dropped>>
  ELSE /\ Len(stack) < MaxDepth
       /\ ready' = Range(Due)
       /\ heap' = NotDue
       /\ shared' = [s EXCEPT !.custom = isCustom \/ @]
       /\ stack' = <<[rest |-> Due, firing |-> FALSE, elapsed |-> 0, custom |-> isCustom]>> \o stack
       /\ UNCHANGED <<time, interval, dropped>>

TimerFiredMessage ==
  /\ CodeMayRun
  /\ shared.posted
  /\ sharedTimerFired([shared EXCEPT !.posted = FALSE], TRUE)

WmTimer ==
  /\ CodeMayRun
  /\ shared.wm = 0
  /\ sharedTimerFired([shared EXCEPT !.wm = None], FALSE)

LastChance ==
  /\ CodeMayRun
  /\ shared.lastChance
  /\ sharedTimerFired([shared EXCEPT !.wm = None], FALSE)

(* "We lose WM_TIMER messages occasionally" (SharedTimerISee.cpp:249).     *)
LoseWmTimer ==
  /\ shared.wm = 0
  /\ shared' = [shared EXCEPT !.wm = Lost]
  /\ UNCHANGED <<heap, time, interval, ready, stack, dropped>>

(* fireTimers: the next of the collected timers ...                        *)
SetTop(frame) == stack' = <<frame>> \o Tail(stack)

FireNext ==
  /\ stack # <<>> /\ ~Top.firing /\ Top.rest # <<>>
  /\ Head(Top.rest) \in ready
  /\ LET t == Head(Top.rest) IN
       setNextFireTime(t, IF interval[t] = 0 THEN None
                          ELSE Max({interval[t] - Top.elapsed, -MaxLate}))
  /\ SetTop([Top EXCEPT !.rest = Tail(@), !.firing = TRUE])
  /\ UNCHANGED interval

(* ... which is passed over when it was deleted or set again.              *)
SkipNext ==
  /\ stack # <<>> /\ ~Top.firing /\ Top.rest # <<>>
  /\ Head(Top.rest) \notin ready
  /\ SetTop([Top EXCEPT !.rest = Tail(@)])
  /\ UNCHANGED <<heap, time, interval, ready, shared, dropped>>

(* fired() returns; the loop ends if it let timers fire in a nested loop.  *)
FiredReturns ==
  /\ stack # <<>> /\ Top.firing
  /\ SetTop([Top EXCEPT !.firing = FALSE, !.rest = IF ready = Off THEN <<>> ELSE @])
  /\ UNCHANGED <<heap, time, interval, ready, shared, dropped>>

(* Mutant: the shared timer is left as it is.                              *)
SharedTimerFiredDone_NoUpdate ==
  /\ stack # <<>> /\ ~Top.firing /\ Top.rest = <<>>
  /\ ready' = Off
  /\ shared' = [shared EXCEPT !.custom = @ /\ ~Top.custom]
  /\ stack' = Tail(stack)
  /\ UNCHANGED <<heap, time, interval, dropped>>

SharedTimerFiredDone ==
  /\ stack # <<>> /\ ~Top.firing /\ Top.rest = <<>>
  /\ ready' = Off
  /\ \E s \in updateSharedTimer(Off, heap, time) :
       shared' = [s EXCEPT !.custom = @ /\ ~Top.custom]
  /\ stack' = Tail(stack)
  /\ UNCHANGED <<heap, time, interval, dropped>>

-----------------------------------------------------------------------------
Delays == 0..MaxDelay

Code ==
  \/ \E t \in Timers : Stop(t) \/ \E d, repeat \in Delays : Start(t, d, repeat)
  \/ FireTimersInNestedEventLoop \/ DeferAndResume

Firing == FireNext \/ SkipNext \/ FiredReturns \/ SharedTimerFiredDone

Next == Code \/ Tick \/ TimerFiredMessage \/ WmTimer \/ LastChance \/ LoseWmTimer \/ Firing

Spec == Init /\ [][Next]_vars

(* The clock runs, messages are dispatched, what a timer does returns, and *)
(* the last chance timer comes every five seconds.                         *)
FairSpec ==
  /\ Spec
  /\ WF_vars(Tick) /\ WF_vars(Firing)
  /\ WF_vars(TimerFiredMessage) /\ WF_vars(WmTimer) /\ SF_vars(LastChance)

-----------------------------------------------------------------------------
(* Properties.                                                             *)

Times == (-MaxLate)..MaxDelay

SharedTimers ==
  [posted : BOOLEAN, wm : Delays \cup {None, Lost}, lastChance : BOOLEAN, custom : BOOLEAN]
Frames ==
  [rest : Seq(Timers), firing : BOOLEAN, elapsed : Nat, custom : BOOLEAN]

(* Every variable has its type, and a timer is in the heap at most once.   *)
TypeOK ==
  /\ heap \in Seq(Timers) /\ IsInjective(heap)
  /\ time \in [Timers -> Times \cup {None}]
  /\ interval \in [Timers -> Delays]
  /\ ready = Off \/ ready \subseteq Timers
  /\ shared \in SharedTimers
  /\ stack \in Seq(Frames)
  /\ dropped \subseteq Timers

Ready == IF ready = Off THEN {} ELSE ready
Active(t) == InHeap(t) \/ t \in Ready

(* When no timer is being fired and one is set, the shared timer is armed  *)
(* for a time no later than its, though setNextFireTime arms it only when  *)
(* the head of the heap changes and every message in between disarms it;   *)
(* and if the message is lost there is the last chance timer.              *)
SharedTimerArmed ==
  stack = <<>> /\ heap # <<>> =>
    \/ shared.posted
    \/ shared.wm = Lost /\ shared.lastChance
    \/ shared.wm \in Nat /\ shared.wm <= Max({time[Head(heap)], 0})

(* A timer that was started is active until it fires or is stopped, but    *)
(* for the timers that a nested event loop has dropped; and a stopped one  *)
(* is not.  A timer is never both in the heap and about to fire, and one   *)
(* that is about to fire will be reached by the innermost loop.            *)
StartedIsActive ==
  /\ \A t \in Timers \ dropped : time[t] # None <=> Active(t)
  /\ Ready \cap Range(heap) = {}
  /\ ready # Off => stack # <<>> /\ ready \subseteq Range(Top.rest)

Fires(t) == FireNext /\ t = Head(Top.rest)

(* A timer fires when its last start said, not before, however often it is *)
(* restarted while it waits among the collected ones; and no active timer  *)
(* with an earlier time is left behind.                                    *)
FiresInOrder ==
  [][\A t \in Timers :
       Fires(t) =>
         /\ time[t] # None /\ time[t] <= 0
         /\ ~\E u \in Timers : Active(u) /\ time[u] # None /\ time[u] < time[t]]_vars

(* A timer that is overdue and stays so, unless a nested event loop has    *)
(* dropped it, fires again and again if it repeats, or else somebody never *)
(* stops restarting it.                                                    *)
Restarts(t) == \E d, repeat \in Delays : Start(t, d, repeat)

EveryTimerFires ==
  \A t \in Timers :
    <>[](time[t] # None /\ t \notin dropped /\ time[t] <= 0)
      => []<><<Fires(t) \/ Restarts(t)>>_vars

(* Timer.cpp:337: a timer that was collected and does not fire was deleted *)
(* or re-scheduled.                                                        *)
CollectedTimersFire == dropped = {}
=============================================================================
