----------------------- MODULE XMLHttpRequest_proofs -----------------------
(***************************************************************************)
(* Theorems about XMLHttpRequest, for every set of loaders and any depth   *)
(* of nested events: what the object is protected by, what abort() reaches,*)
(* that no page waits in vain, and that readyState goes forward.           *)
(*                                                                         *)
(* What an operation does to `stack' is either to dispatch an event        *)
(* (Dispatches) or to leave a place where it will go on (WillGoOn); one    *)
(* lemma for each operation says which, and what becomes of the other      *)
(* variables.  The steps of the invariant use these lemmas, and no         *)
(* sequences.                                                              *)
(***************************************************************************)
EXTENDS XMLHttpRequest, FiniteSetTheorems, SequenceTheorems, TLAPS

-----------------------------------------------------------------------------
(* What is in progress.                                                    *)

(* The m innermost frames are done, and those of f are begun.              *)
Becomes(f, m) ==
  /\ stack \in Seq(Frames) /\ stack' \in Seq(Frames) /\ f \in Seq(Frames)
  /\ Len(stack) \in Nat /\ Len(stack') \in Nat /\ Len(f) \in Nat
  /\ m \in 0..1 /\ m <= Len(stack)
  /\ Len(stack') = Len(f) + Len(stack) - m
  /\ \A i \in 1..Len(f) : stack'[i] = f[i]
  /\ \A i \in (m + 1)..Len(stack) : stack'[(Len(f) - m) + i] = stack[i]
  /\ \A i \in (Len(f) + 1)..Len(stack') : stack'[i] = stack[i - (Len(f) - m)]

(* Methods are called, and events dispatched, from what is in progress;    *)
LEMMA Pushed ==
  ASSUME stack \in Seq(Frames), NEW f \in Seq(Frames), stack' = f \o stack
  PROVE  Becomes(f, 0)
<1>1. Len(stack) \in Nat /\ Len(f) \in Nat
  BY LenProperties
<1>2. /\ stack' \in Seq(Frames) /\ Len(stack') = Len(f) + Len(stack)
      /\ \A i \in 1..(Len(f) + Len(stack)) :
           stack'[i] = IF i <= Len(f) THEN f[i] ELSE stack[i - Len(f)]
  BY ConcatProperties
<1>3. \A i \in 1..Len(stack) : stack'[Len(f) + i] = stack[i]
  BY <1>1, <1>2
<1>4. QED
  BY <1>1, <1>2, <1>3 DEF Becomes

(* or they go on, and then are no more what is innermost.                  *)
LEMMA GoneOn ==
  ASSUME stack \in Seq(Frames), stack # <<>>, NEW f \in Seq(Frames), GoOn(f)
  PROVE  Becomes(f, 1) /\ Top = stack[1] /\ Top \in Frames
<1>1. Len(stack) \in Nat /\ Len(f) \in Nat /\ Len(stack) # 0
  BY LenProperties, EmptySeq
<1>2. /\ Tail(stack) \in Seq(Frames) /\ Len(Tail(stack)) = Len(stack) - 1
      /\ \A i \in 1..(Len(stack) - 1) : Tail(stack)[i] = stack[i + 1]
  BY <1>1, HeadTailProperties
<1>3. stack' = f \o Tail(stack)
  BY DEF GoOn
<1>4. /\ stack' \in Seq(Frames) /\ Len(stack') = Len(f) + Len(Tail(stack))
      /\ \A i \in 1..(Len(f) + Len(Tail(stack))) :
           stack'[i] = IF i <= Len(f) THEN f[i] ELSE Tail(stack)[i - Len(f)]
  BY <1>2, <1>3, ConcatProperties
<1>5. \A i \in 2..Len(stack) : stack'[(Len(f) - 1) + i] = stack[i]
  <2> SUFFICES ASSUME NEW i \in 2..Len(stack) PROVE stack'[(Len(f) - 1) + i] = stack[i]
    OBVIOUS
  <2>1. /\ (Len(f) - 1) + i \in 1..(Len(f) + Len(Tail(stack)))
        /\ ~((Len(f) - 1) + i <= Len(f)) /\ (Len(f) - 1) + i - Len(f) = i - 1
        /\ i - 1 \in 1..(Len(stack) - 1)
    BY <1>1, <1>2
  <2>2. QED
    BY <1>2, <1>4, <2>1
<1>6. \A i \in (Len(f) + 1)..Len(stack') : stack'[i] = stack[i - (Len(f) - 1)]
  <2> SUFFICES ASSUME NEW i \in (Len(f) + 1)..Len(stack') PROVE stack'[i] = stack[i - (Len(f) - 1)]
    OBVIOUS
  <2>1. /\ i \in 1..(Len(f) + Len(Tail(stack))) /\ ~(i <= Len(f))
        /\ i - Len(f) \in 1..(Len(stack) - 1) /\ (i - Len(f)) + 1 = i - (Len(f) - 1)
    BY <1>1, <1>2, <1>4
  <2>2. QED
    BY <1>2, <1>4, <2>1
<1>7. Top = stack[1] /\ Top \in Frames
  BY <1>1 DEF Top
<1>8. QED
  BY <1>1, <1>2, <1>4, <1>5, <1>6, <1>7 DEF Becomes

(* The sequences of frames that methods put on the stack.                  *)
Frame(at, l) == [at |-> at, l |-> l]

(* A place is a sequence of one frame.                                     *)
LEMMA FrameTypes ==
  ASSUME NEW at \in Places, NEW l \in Loaders \cup {None}
  PROVE  /\ Frame(at, l) \in Frames
         /\ Place(at, l) = <<Frame(at, l)>>
         /\ Place(at, l) \in Seq(Frames)
         /\ Len(Place(at, l)) = 1 /\ Place(at, l)[1] = Frame(at, l)
         /\ Frame(at, l).at = at /\ Frame(at, l).l = l
  BY DEF Frame, Frames, Place

(* What methods put there: at most one event,                              *)
OnlyEvent(f) ==
  /\ f \in Seq(Frames) /\ Len(f) \in 0..1
  /\ \A i \in 1..Len(f) : f[i].at \in Events /\ f[i].l = None

(* or the place where they go on, perhaps after an event.                  *)
PlaceFor(f, at, l) ==
  /\ f \in Seq(Frames) /\ Len(f) \in 1..2
  /\ f[Len(f)].at = at /\ f[Len(f)].l = l
  /\ Len(f) = 2 => f[1].at \in Events /\ f[1].l = None

(* Nothing, an event and what changeState and callReadyStateChangeListener *)
(* dispatch are at most one event.                                         *)
LEMMA EventFrames ==
  /\ OnlyEvent(<<>>)
  /\ \A e \in Events : OnlyEvent(Event(e)) /\ Len(Event(e)) = 1 /\ Event(e)[1].at = e
  /\ OnlyEvent(callReadyStateChangeListener)
  /\ \A from, to : OnlyEvent(changeState(from, to))
<1>1. OnlyEvent(<<>>)
  BY EmptySeq DEF OnlyEvent
<1>2. ASSUME NEW e \in Events PROVE OnlyEvent(Event(e)) /\ Len(Event(e)) = 1 /\ Event(e)[1].at = e
  <2>1. e \in Places
    BY DEF Places
  <2>2. QED
    BY <2>1, FrameTypes DEF OnlyEvent, Event
<1>3. "readystatechange" \in Events
  BY DEF Events
<1>4. QED
  BY <1>1, <1>2, <1>3 DEF callReadyStateChangeListener, changeState

(* An event, or none, followed by a place is where a method goes on at     *)
(* that place.                                                             *)
LEMMA PlaceFrames ==
  ASSUME NEW f, OnlyEvent(f), NEW at \in Places, NEW l \in Loaders \cup {None}
  PROVE  /\ PlaceFor(f \o Place(at, l), at, l)
         /\ Len(f \o Place(at, l)) = Len(f) + 1
         /\ Len(f) = 1 => (f \o Place(at, l))[1] = f[1]
<1>1. /\ f \in Seq(Frames) /\ Len(f) \in 0..1 /\ Len(f) + 1 \in 1..2
      /\ \A i \in 1..Len(f) : f[i].at \in Events /\ f[i].l = None
  BY DEF OnlyEvent
<1>2. /\ Place(at, l) \in Seq(Frames) /\ Len(Place(at, l)) = 1
      /\ Place(at, l)[1].at = at /\ Place(at, l)[1].l = l
  BY FrameTypes
<1>3. /\ f \o Place(at, l) \in Seq(Frames) /\ Len(f \o Place(at, l)) = Len(f) + 1
      /\ \A i \in 1..(Len(f) + 1) :
           (f \o Place(at, l))[i] = IF i <= Len(f) THEN f[i] ELSE Place(at, l)[i - Len(f)]
  BY <1>1, <1>2, ConcatProperties
<1>4. (f \o Place(at, l))[Len(f) + 1] = Place(at, l)[1]
  BY <1>1, <1>3
<1>5. Len(f) = 1 => (f \o Place(at, l))[1] = f[1]
  BY <1>1, <1>3
<1>6. QED
  BY <1>1, <1>2, <1>3, <1>4, <1>5 DEF PlaceFor

-----------------------------------------------------------------------------
(* The parts of the invariant.                                             *)

Has(at) == \E i \in 1..Len(stack) : stack[i].at = at

FramesKnown == \A i \in 1..Len(stack) : stack[i].l \in net.created \cup {None}

AtBottom ==
  \A i \in 1..Len(stack) : stack[i].at \in {"didFinishLoading", "dropProtection"} => i = Len(stack)

(* No method, event or return of one brings a frame of a loader that was   *)
(* not created.                                                            *)
LEMMA KnownStep ==
  ASSUME FramesKnown, NEW f, NEW m, Becomes(f, m), net.created \subseteq net'.created,
         \/ OnlyEvent(f)
         \/ \E at, l : PlaceFor(f, at, l) /\ l \in net'.created \cup {None}
  PROVE  FramesKnown'
<1>1. \A i \in 1..Len(f) : f[i].l \in net'.created \cup {None}
  BY DEF OnlyEvent, PlaceFor
<1>2. ASSUME NEW i \in 1..Len(stack'), i > Len(f) PROVE stack'[i].l \in net'.created \cup {None}
  <2>1. i - (Len(f) - m) \in 1..Len(stack) /\ stack'[i] = stack[i - (Len(f) - m)]
    BY <1>2 DEF Becomes
  <2>2. QED
    BY <2>1 DEF FramesKnown
<1>3. ASSUME NEW i \in 1..Len(stack'), ~(i > Len(f)) PROVE stack'[i].l \in net'.created \cup {None}
  BY <1>1, <1>3 DEF Becomes
<1>4. QED
  BY <1>2, <1>3 DEF FramesKnown

(* The frame in which didFinishLoading goes on, and the dropProtection     *)
(* that follows, stay below all others: they are put there when nothing    *)
(* else is in progress.                                                    *)
LEMMA BottomStep ==
  ASSUME AtBottom, NEW f, NEW m, Becomes(f, m),
         \/ OnlyEvent(f)
         \/ \E at, l : /\ PlaceFor(f, at, l)
                       /\ at \in {"didFinishLoading", "dropProtection"} => m = Len(stack)
  PROVE  AtBottom'
<1> DEFINE bottom == {"didFinishLoading", "dropProtection"}
<1>1. \A i \in 1..Len(f) : f[i].at \in bottom => i = Len(f) /\ m = Len(stack)
  <2>1. ASSUME OnlyEvent(f) PROVE \A i \in 1..Len(f) : f[i].at \notin bottom
    BY <2>1 DEF OnlyEvent, Events
  <2>2. ASSUME NEW at, NEW l, PlaceFor(f, at, l), at \in bottom => m = Len(stack),
               NEW i \in 1..Len(f), f[i].at \in bottom
        PROVE  i = Len(f) /\ m = Len(stack)
    <3>1. i = Len(f) \/ (Len(f) = 2 /\ i = 1)
      BY <2>2 DEF PlaceFor
    <3>2. i = Len(f)
      BY <2>2, <3>1 DEF PlaceFor, Events
    <3>3. QED
      BY <2>2, <3>2 DEF PlaceFor
  <2>3. QED
    BY <2>1, <2>2
<1>2. ASSUME NEW i \in 1..Len(stack'), i > Len(f), stack'[i].at \in bottom PROVE i = Len(stack')
  <2>1. i - (Len(f) - m) \in 1..Len(stack) /\ stack'[i] = stack[i - (Len(f) - m)]
    BY <1>2 DEF Becomes
  <2>2. i - (Len(f) - m) = Len(stack)
    BY <1>2, <2>1 DEF AtBottom
  <2>3. QED
    BY <2>2 DEF Becomes
<1>3. ASSUME NEW i \in 1..Len(stack'), ~(i > Len(f)), stack'[i].at \in bottom PROVE i = Len(stack')
  <2>1. i \in 1..Len(f) /\ stack'[i] = f[i]
    BY <1>3 DEF Becomes
  <2>2. i = Len(f) /\ m = Len(stack)
    BY <1>1, <1>3, <2>1
  <2>3. QED
    BY <2>2 DEF Becomes
<1>4. QED
  BY <1>2, <1>3 DEF AtBottom

(* Where the object goes on after a step, from where it did before.        *)
LEMMA HasStep ==
  ASSUME NEW f, NEW m, Becomes(f, m), NEW at
  PROVE  /\ Has(at)' => Has(at) \/ \E i \in 1..Len(f) : f[i].at = at
         /\ Has(at) /\ (m = 0 \/ stack[1].at # at) => Has(at)'
         /\ (\E i \in 1..Len(f) : f[i].at = at) => Has(at)'
<1>1. ASSUME Has(at)' PROVE Has(at) \/ \E i \in 1..Len(f) : f[i].at = at
  <2>1. PICK i \in 1..Len(stack') : stack'[i].at = at
    BY <1>1 DEF Has
  <2>2. CASE i > Len(f)
    <3>1. i - (Len(f) - m) \in 1..Len(stack) /\ stack'[i] = stack[i - (Len(f) - m)]
      BY <2>2 DEF Becomes
    <3>2. QED
      BY <2>1, <3>1 DEF Has
  <2>3. CASE ~(i > Len(f))
    <3>1. i \in 1..Len(f) /\ stack'[i] = f[i]
      BY <2>3 DEF Becomes
    <3>2. QED
      BY <2>1, <3>1
  <2>4. QED
    BY <2>2, <2>3
<1>2. ASSUME Has(at), m = 0 \/ stack[1].at # at PROVE Has(at)'
  <2>1. PICK i \in 1..Len(stack) : stack[i].at = at
    BY <1>2 DEF Has
  <2>2. i \in (m + 1)..Len(stack)
    BY <1>2, <2>1 DEF Becomes
  <2>3. (Len(f) - m) + i \in 1..Len(stack') /\ stack'[(Len(f) - m) + i] = stack[i]
    BY <2>2 DEF Becomes
  <2>4. QED
    BY <2>1, <2>3 DEF Has
<1>3. ASSUME NEW i \in 1..Len(f), f[i].at = at PROVE Has(at)'
  <2>1. i \in 1..Len(stack') /\ stack'[i] = f[i]
    BY DEF Becomes
  <2>2. QED
    BY <1>3, <2>1 DEF Has
<1>4. QED
  BY <1>1, <1>2, <1>3

(* The loaders that are about to end.                                      *)
Ends(frame, l) == frame.l = l /\ frame.at \in {"ended", "dropProtection"}

(* Which loaders are about to end after a step: those of the new frames,   *)
(* and those that were before but the one of the frame that is done.       *)
LEMMA EndingStep ==
  ASSUME NEW f, NEW m, Becomes(f, m), NEW l
  PROVE  /\ l \in Ending <=> \E i \in 1..Len(stack) : Ends(stack[i], l)
         /\ l \in Ending' => l \in Ending \/ \E i \in 1..Len(f) : Ends(f[i], l)
         /\ l \in Ending => l \in Ending' \/ (m = 1 /\ Ends(stack[1], l))
         /\ (\E i \in 1..Len(f) : Ends(f[i], l)) => l \in Ending'
<1>1. DOMAIN stack = 1..Len(stack) /\ DOMAIN stack' = 1..Len(stack')
  BY LenProperties DEF Becomes
<1>2. /\ l \in Ending <=> \E i \in 1..Len(stack) : Ends(stack[i], l)
      /\ l \in Ending' <=> \E i \in 1..Len(stack') : Ends(stack'[i], l)
  BY <1>1 DEF Ending, Placed, Ends
<1>3. ASSUME l \in Ending' PROVE l \in Ending \/ \E i \in 1..Len(f) : Ends(f[i], l)
  <2>1. PICK i \in 1..Len(stack') : Ends(stack'[i], l)
    BY <1>2, <1>3
  <2>2. CASE i > Len(f)
    <3>1. i - (Len(f) - m) \in 1..Len(stack) /\ stack'[i] = stack[i - (Len(f) - m)]
      BY <2>2 DEF Becomes
    <3>2. \E j \in 1..Len(stack) : Ends(stack[j], l)
      BY <2>1, <3>1
    <3>3. QED
      BY <1>2, <3>2
  <2>3. CASE ~(i > Len(f))
    <3>1. i \in 1..Len(f) /\ stack'[i] = f[i]
      BY <2>3 DEF Becomes
    <3>2. QED
      BY <2>1, <3>1
  <2>4. QED
    BY <2>2, <2>3
<1>4. ASSUME l \in Ending PROVE l \in Ending' \/ (m = 1 /\ Ends(stack[1], l))
  <2>1. PICK i \in 1..Len(stack) : Ends(stack[i], l)
    BY <1>2, <1>4
  <2>2. CASE i \in (m + 1)..Len(stack)
    <3>1. (Len(f) - m) + i \in 1..Len(stack') /\ stack'[(Len(f) - m) + i] = stack[i]
      BY <2>2 DEF Becomes
    <3>2. Ends(stack'[(Len(f) - m) + i], l)
      BY <2>1, <3>1
    <3>3. l \in Ending'
      BY <1>2, <3>1, <3>2
    <3>4. QED
      BY <3>3
  <2>3. CASE i \notin (m + 1)..Len(stack)
    <3>1. m = 1 /\ i = 1
      BY <2>3 DEF Becomes
    <3>2. QED
      BY <2>1, <3>1
  <2>4. QED
    BY <2>2, <2>3
<1>5. ASSUME NEW i \in 1..Len(f), Ends(f[i], l) PROVE l \in Ending'
  <2>1. i \in 1..Len(stack') /\ stack'[i] = f[i]
    BY DEF Becomes
  <2>2. QED
    BY <1>2, <1>5, <2>1
<1>6. QED
  BY <1>2, <1>3, <1>4, <1>5

-----------------------------------------------------------------------------
(* What each operation does.                                               *)

(* internalAbort has let the loader go and cancelled it.                   *)
Aborted ==
  /\ xhr'.loader = None
  /\ xhr'.refs = IF xhr.loader = None THEN xhr.refs ELSE xhr.refs - 1
  /\ net'.created = net.created /\ net'.live = net.live \ {xhr.loader}
  /\ net'.answered = net.answered \ {xhr.loader}

(* Nothing has become of the loaders that the object knows.                *)
Untouched ==
  /\ xhr'.loader = xhr.loader /\ xhr'.refs = xhr.refs
  /\ net'.created = net.created /\ net'.live = net.live

(* An event may be dispatched, with m frames done.                         *)
Dispatches(m) == \E f : OnlyEvent(f) /\ Becomes(f, m)

(* A method will go on at a place, with m frames done.                     *)
WillGoOn(m, at, l) == \E f : PlaceFor(f, at, l) /\ Becomes(f, m)

(* A step that leaves the stack alone dispatches nothing.                  *)
LEMMA Unmoved == ASSUME stack \in Seq(Frames), stack' = stack PROVE Dispatches(0)
<1>1. stack' = <<>> \o stack
  BY ConcatEmptySeq
<1>2. OnlyEvent(<<>>) /\ <<>> \in Seq(Frames)
  BY EventFrames DEF OnlyEvent
<1>3. QED
  BY <1>1, <1>2, Pushed DEF Dispatches

(* internalAbort forgets the loader, cancels it and gives its reference    *)
(* back.                                                                   *)
LEMMA AbortDoes ==
  ASSUME TypeOK
  PROVE  /\ internalAbort.x.error = TRUE /\ internalAbort.x.loader = None
         /\ internalAbort.x.refs = IF xhr.loader = None THEN xhr.refs ELSE xhr.refs - 1
         /\ internalAbort.x.state = xhr.state
         /\ internalAbort.n.created = net.created /\ internalAbort.n.live = net.live \ {xhr.loader}
         /\ internalAbort.n.answered = net.answered \ {xhr.loader}
         /\ internalAbort.n \in Nets
  BY DEF internalAbort, Ended, TypeOK, Objects, Nets

(* open() cancels the request and dispatches at most one event.            *)
LEMMA OpenDoes ==
  ASSUME TypeOK, NEW target, NEW allowed, open(target, allowed)
  PROVE  /\ Aborted /\ Dispatches(0)
         /\ ~xhr'.error /\ xhr'.state \in {UNSENT, OPENED}
         /\ asked' = "no" /\ doc' = doc /\ lost' = lost
<1>1. /\ Aborted /\ ~xhr'.error /\ xhr'.state \in {UNSENT, OPENED}
      /\ asked' = "no" /\ doc' = doc /\ lost' = lost
  BY AbortDoes DEF open, Aborted, internalAbort, TypeOK, Objects
<1>2. Dispatches(0)
  <2>1. PICK f : OnlyEvent(f) /\ stack' = f \o stack
    BY EventFrames DEF open, ScriptCalls
  <2>2. QED
    BY <2>1, Pushed DEF Dispatches, OnlyEvent, TypeOK
<1>3. QED
  BY <1>1, <1>2

(* send() makes the page wait, for a request that createRequest will make. *)
LEMMA SendDoes ==
  ASSUME TypeOK, send
  PROVE  /\ Untouched /\ WillGoOn(0, "createRequest", None)
         /\ ~xhr'.error /\ xhr'.state = OPENED
         /\ asked' = "waiting" /\ doc' = doc /\ lost' = lost
<1>1. /\ Untouched /\ ~xhr'.error /\ xhr'.state = OPENED
      /\ asked' = "waiting" /\ doc' = doc /\ lost' = lost
  BY DEF send, Untouched, TypeOK, Objects
<1>2. WillGoOn(0, "createRequest", None)
  <2> DEFINE f == Event("loadstart") \o Place("createRequest", None)
  <2>1. OnlyEvent(Event("loadstart")) /\ "createRequest" \in Places
    BY EventFrames DEF Events, Places
  <2>2. PlaceFor(f, "createRequest", None)
    BY <2>1, PlaceFrames
  <2>3. stack' = f \o stack
    BY DEF send, ScriptCalls
  <2>4. QED
    BY <2>2, <2>3, Pushed DEF WillGoOn, PlaceFor, TypeOK
<1>3. QED
  BY <1>1, <1>2

(* abort() cancels the request; it goes to UNSENT at once, or is DONE and  *)
(* goes on after the event.                                                *)
LEMMA AbortCallDoes ==
  ASSUME TypeOK, abort
  PROVE  /\ Aborted /\ xhr'.error
         /\ asked' = "no" /\ doc' = doc /\ lost' = lost
         /\ \/ Dispatches(0) /\ xhr'.state = UNSENT
            \/ WillGoOn(0, "abort()", None) /\ xhr'.state = DONE
<1>1. /\ Aborted /\ xhr'.error /\ asked' = "no" /\ doc' = doc /\ lost' = lost
  BY AbortDoes DEF abort, Aborted, internalAbort, clearRequest, TypeOK, Objects
<1>2. CASE ScriptCalls(Event("abort")) /\ xhr' = [clearRequest(internalAbort.x) EXCEPT !.state = UNSENT]
  <2>1. OnlyEvent(Event("abort")) /\ stack' = Event("abort") \o stack
    BY <1>2, EventFrames DEF Events, ScriptCalls
  <2>2. Dispatches(0)
    BY <2>1, Pushed DEF Dispatches, OnlyEvent, TypeOK
  <2>3. xhr'.state = UNSENT
    BY <1>2 DEF clearRequest, internalAbort, TypeOK, Objects
  <2>4. QED
    BY <1>1, <2>2, <2>3
<1>3. CASE /\ ScriptCalls(changeState(xhr.state, DONE) \o Place("abort()", None))
           /\ xhr' = [clearRequest(internalAbort.x) EXCEPT !.state = DONE]
  <2> DEFINE f == changeState(xhr.state, DONE) \o Place("abort()", None)
  <2>1. PlaceFor(f, "abort()", None) /\ stack' = f \o stack
    BY <1>3, EventFrames, PlaceFrames DEF Places, ScriptCalls
  <2>2. WillGoOn(0, "abort()", None)
    BY <2>1, Pushed DEF WillGoOn, PlaceFor, TypeOK
  <2>3. xhr'.state = DONE
    BY <1>3 DEF clearRequest, internalAbort, TypeOK, Objects
  <2>4. QED
    BY <1>1, <2>2, <2>3
<1>4. QED
  BY <1>2, <1>3 DEF abort

(* cancelRequests and detachRequests cancel the request and dispatch       *)
(* nothing.                                                                *)
LEMMA QuietAbortDoes ==
  ASSUME TypeOK, cancelRequests \/ detachRequests
  PROVE  /\ Aborted /\ Dispatches(0) /\ xhr'.error /\ xhr'.state = xhr.state
         /\ asked' = "no" /\ (doc' = doc \/ doc' = "none") /\ lost' = lost /\ stack' = stack
  BY AbortDoes, Unmoved DEF cancelRequests, detachRequests, Aborted, TypeOK

(* setRequestHeader and a page that leaves its frame do nothing to the     *)
(* loaders and to what is in progress.                                     *)
LEMMA PageDoes ==
  ASSUME TypeOK, setRequestHeader \/ LeaveFrame
  PROVE  /\ Untouched /\ Dispatches(0)
         /\ xhr'.error = xhr.error /\ xhr'.state = xhr.state
         /\ asked' = asked /\ (doc' = doc \/ doc' = "frameless") /\ lost' = lost /\ stack' = stack
  BY Unmoved DEF setRequestHeader, LeaveFrame, Untouched, TypeOK, Objects

(* The frame in which a method goes on is the innermost.                   *)
LEMMA TopProperties ==
  ASSUME TypeOK, stack # <<>>
  PROVE  Top = stack[1] /\ Top \in Frames /\ Len(stack) \in Nat /\ Len(stack) >= 1
<1>1. stack \in Seq(Frames)
  BY DEF TypeOK
<1>2. Len(stack) \in Nat /\ Len(stack) # 0
  BY <1>1, LenProperties, EmptySeq
<1>3. QED
  BY <1>1, <1>2 DEF Top

(* A method that goes on dispatches an event, or will go on again.         *)
LEMMA GoesOnDoes ==
  ASSUME TypeOK, stack # <<>>, NEW f, GoOn(f)
  PROVE  /\ OnlyEvent(f) => Dispatches(1)
         /\ \A at, l : PlaceFor(f, at, l) => WillGoOn(1, at, l)
<1>1. OnlyEvent(f) => Becomes(f, 1)
  BY GoneOn DEF OnlyEvent, TypeOK
<1>2. \A at, l : PlaceFor(f, at, l) => Becomes(f, 1)
  BY GoneOn DEF PlaceFor, TypeOK
<1>3. QED
  BY <1>1, <1>2 DEF Dispatches, WillGoOn

(* The second part of abort() makes the object UNSENT.                     *)
LEMMA AbortGoesOnDoes ==
  ASSUME TypeOK, AbortGoesOn
  PROVE  /\ Untouched /\ Dispatches(1) /\ stack[1].at = "abort()"
         /\ xhr'.error = xhr.error /\ xhr'.state = UNSENT
         /\ asked' = asked /\ doc' = doc /\ lost' = lost
<1>1. stack # <<>> /\ stack[1].at = "abort()"
  BY TopProperties DEF AbortGoesOn, At
<1>2. OnlyEvent(Event("abort"))
  BY EventFrames DEF Events
<1>3. Dispatches(1)
  BY <1>1, <1>2, GoesOnDoes DEF AbortGoesOn
<1>4. QED
  BY <1>1, <1>3 DEF AbortGoesOn, Untouched, TypeOK, Objects

(* The end of an event: a page that waits has heard, when that was the     *)
(* readystatechange of DONE.                                               *)
LEMMA EventReturnsDoes ==
  ASSUME TypeOK, EventReturns
  PROVE  /\ Untouched /\ Dispatches(1) /\ stack[1].at \in Events
         /\ xhr' = xhr /\ net' = net /\ doc' = doc /\ lost' = lost
         /\ IF stack[1].at = "readystatechange" /\ xhr.state = DONE
            THEN asked' # "waiting" ELSE asked' = asked
<1>1. stack # <<>> /\ stack[1].at \in Events /\ Top = stack[1]
  BY TopProperties DEF EventReturns
<1>2. OnlyEvent(Event("load")) /\ OnlyEvent(<<>>)
  BY EventFrames DEF Events
<1>3. Dispatches(1)
  BY <1>1, <1>2, GoesOnDoes DEF EventReturns
<1>4. QED
  BY <1>1, <1>3 DEF EventReturns, Untouched, Heard

(* The second part of didReceiveData changes what is in progress only.     *)
LEMMA DataDecodedDoes ==
  ASSUME TypeOK, DataDecoded
  PROVE  /\ Untouched /\ stack[1].at = "didReceiveData"
         /\ xhr' = xhr /\ net' = net /\ doc' = doc /\ lost' = lost /\ asked' = asked
         /\ Dispatches(1) \/ WillGoOn(1, "updateAndDispatch", stack[1].l)
<1>1. stack # <<>> /\ stack[1].at = "didReceiveData" /\ Top = stack[1] /\ stack[1].l \in Loaders \cup {None}
  BY TopProperties DEF DataDecoded, At, Frames
<1>2. /\ OnlyEvent(Event("progress")) /\ OnlyEvent(<<>>) /\ "updateAndDispatch" \in Places
  BY EventFrames DEF Events, Places
<1>3. PlaceFor(Event("progress") \o Place("updateAndDispatch", stack[1].l), "updateAndDispatch", stack[1].l)
  BY <1>1, <1>2, PlaceFrames
<1>4. GoOn(<<>>) \/ GoOn(Event("progress") \o Place("updateAndDispatch", stack[1].l))
  BY <1>1 DEF DataDecoded
<1>5. Dispatches(1) \/ WillGoOn(1, "updateAndDispatch", stack[1].l)
  BY <1>1, <1>2, <1>3, <1>4, GoesOnDoes
<1>6. QED
  BY <1>1, <1>5 DEF DataDecoded, Untouched

(* The third part of didReceiveData makes the object LOADING, whatever it  *)
(* was.                                                                    *)
LEMMA ProgressReportedDoes ==
  ASSUME TypeOK, ProgressReported
  PROVE  /\ Untouched /\ Dispatches(1) /\ stack[1].at = "updateAndDispatch"
         /\ xhr'.error = xhr.error /\ xhr'.state = LOADING
         /\ asked' = asked /\ doc' = doc /\ lost' = lost
<1>1. stack # <<>> /\ stack[1].at = "updateAndDispatch"
  BY TopProperties DEF ProgressReported, At
<1>2. Dispatches(1)
  BY <1>1, EventFrames, GoesOnDoes DEF ProgressReported
<1>3. QED
  BY <1>1, <1>2 DEF ProgressReported, Untouched, TypeOK, Objects

(* The second part of didFinishLoading: the object is DONE and forgets its *)
(* loader, the one that ended or another.                                  *)
LEMMA AllReceivedDoes ==
  ASSUME TypeOK, AllReceived
  PROVE  /\ stack[1].at = "didFinishLoading" /\ stack[1].l \in Loaders \cup {None}
         /\ xhr'.error = xhr.error /\ xhr'.state = DONE
         /\ xhr'.loader = None /\ xhr'.refs = xhr.refs /\ net' = net
         /\ asked' = asked /\ doc' = doc
         /\ lost' = lost \cup ((net.live \ {stack[1].l}) \cap {xhr.loader})
         /\ \E g : /\ PlaceFor(g, IF xhr.loader = None THEN "ended" ELSE "dropProtection", stack[1].l)
                   /\ Becomes(g, 1)
                   /\ doc = "framed" /\ xhr.state # DONE =>
                        Len(g) = 2 /\ g[1].at = "readystatechange"
<1>1. stack # <<>> /\ stack[1].at = "didFinishLoading" /\ Top = stack[1] /\ stack[1].l \in Loaders \cup {None}
  BY TopProperties DEF AllReceived, At, Frames
<1> DEFINE at == IF xhr.loader = None THEN "ended" ELSE "dropProtection"
           f == changeState(xhr.state, DONE) \o Place(at, stack[1].l)
<1>2. at \in Places
  BY DEF Places
<1>3. OnlyEvent(changeState(xhr.state, DONE))
  BY EventFrames
<1>4. /\ PlaceFor(f, at, stack[1].l) /\ Len(f) = Len(changeState(xhr.state, DONE)) + 1
      /\ Len(changeState(xhr.state, DONE)) = 1 => f[1] = changeState(xhr.state, DONE)[1]
  <2> HIDE DEF at
  <2> QED BY <1>1, <1>2, <1>3, PlaceFrames
<1>5. Becomes(f, 1)
  <2>1. GoOn(f)
    BY <1>1 DEF AllReceived
  <2>2. QED
    BY <1>1, <1>4, <2>1, GoneOn DEF PlaceFor, TypeOK
<1>6. doc = "framed" /\ xhr.state # DONE => Len(f) = 2 /\ f[1].at = "readystatechange"
  <2>1. "readystatechange" \in Events
    BY DEF Events
  <2>2. SUFFICES ASSUME doc = "framed", xhr.state # DONE PROVE Len(f) = 2 /\ f[1].at = "readystatechange"
    OBVIOUS
  <2>3. changeState(xhr.state, DONE) = Event("readystatechange")
    BY <2>2 DEF changeState, callReadyStateChangeListener
  <2>4. Len(changeState(xhr.state, DONE)) = 1 /\ changeState(xhr.state, DONE)[1].at = "readystatechange"
    BY <2>1, <2>3, EventFrames
  <2> HIDE DEF f
  <2>5. QED
    BY <1>4, <2>4
<1>7. /\ xhr'.error = xhr.error /\ xhr'.state = DONE
      /\ xhr'.loader = None /\ xhr'.refs = xhr.refs /\ net' = net
      /\ asked' = asked /\ doc' = doc
      /\ lost' = lost \cup ((net.live \ {stack[1].l}) \cap {xhr.loader})
  BY <1>1 DEF AllReceived, Forgets, TypeOK, Objects
<1> HIDE DEF f
<1>8. QED
  BY <1>1, <1>4, <1>5, <1>6, <1>7

(* A loader ends, and gives its reference back if dropProtection was due.  *)
LEMMA LoaderEndsDoes ==
  ASSUME TypeOK, LoaderEnds
  PROVE  /\ Dispatches(1) /\ stack[1].at \in {"ended", "dropProtection"}
         /\ xhr'.error = xhr.error /\ xhr'.state = xhr.state /\ xhr'.loader = xhr.loader
         /\ xhr'.refs = IF stack[1].at = "ended" THEN xhr.refs ELSE xhr.refs - 1
         /\ net'.created = net.created /\ net'.live = net.live \ {stack[1].l}
         /\ asked' = asked /\ doc' = doc /\ lost' = lost
<1>1. stack # <<>> /\ stack[1].at \in {"ended", "dropProtection"} /\ Top = stack[1]
  BY TopProperties DEF LoaderEnds, At
<1>2. Dispatches(1)
  BY <1>1, EventFrames, GoesOnDoes DEF LoaderEnds
<1>3. QED
  BY <1>1, <1>2 DEF LoaderEnds, At, Ended, TypeOK, Objects, Nets

(* A loader is created, or none is given, when those in live are at work.  *)
Loads(live) ==
  \/ /\ \E l \in Loaders \ net.created :
          /\ xhr'.loader = l /\ xhr'.refs = xhr.refs + 1
          /\ net'.created = net.created \cup {l} /\ net'.live = live \cup {l}
     /\ asked' = asked
  \/ /\ xhr'.loader = None /\ xhr'.refs = xhr.refs
     /\ net'.created = net.created /\ net'.live = live
     /\ asked' # "waiting"

(* createRequest asks for a loader and forgets the one the object had.     *)
LEMMA CreateRequestDoes ==
  ASSUME TypeOK, CreateRequest
  PROVE  /\ Loads(net.live) /\ Dispatches(1) /\ stack[1].at = "createRequest"
         /\ xhr'.error = xhr.error /\ xhr'.state = xhr.state
         /\ doc' = doc /\ lost' = lost \cup (net.live \cap {xhr.loader})
<1>1. stack # <<>> /\ stack[1].at = "createRequest"
  BY TopProperties DEF CreateRequest, At
<1>2. Dispatches(1)
  BY <1>1, EventFrames, GoesOnDoes DEF CreateRequest
<1>3. lost' = lost \cup (net.live \cap {xhr.loader})
  BY RequestAssumption DEF CreateRequest, Forgets, TypeOK, Nets, RequestAssumption
<1>4. PICK preflight \in BOOLEAN :
        loadRequestAsynchronously(
          [xhr EXCEPT !.sameOrigin = xhr.target = "same", !.inPreflight = @ \/ preflight], net)
  BY <1>1 DEF CreateRequest
<1>5. /\ Loads(net.live)
      /\ xhr'.error = xhr.error /\ xhr'.state = xhr.state
  BY <1>4 DEF loadRequestAsynchronously, Loads, TypeOK, Objects, Nets
<1>6. QED
  BY <1>1, <1>2, <1>3, <1>5 DEF CreateRequest

(* A redirect to another origin cancels the request in error.              *)
LEMMA WillSendRequestDoes ==
  ASSUME TypeOK, NEW l, willSendRequest(l)
  PROVE  /\ Aborted /\ Dispatches(0) /\ stack = <<>>
         /\ xhr'.error /\ xhr'.state = xhr.state
         /\ asked' # "waiting" /\ doc' = doc /\ lost' = lost
<1>1. OnlyEvent(Event("error")) /\ Event("error") \in Seq(Frames)
  BY EventFrames DEF Events, OnlyEvent
<1>2. stack = <<>> /\ stack' = Event("error") \o stack
  BY <1>1, ConcatEmptySeq DEF willSendRequest, Calls
<1>3. Dispatches(0)
  BY <1>1, <1>2, Pushed DEF Dispatches, TypeOK
<1>4. QED
  BY <1>2, <1>3, AbortDoes DEF willSendRequest, Aborted, internalAbort, genericError, clearRequest, Heard,
                               TypeOK, Objects

(* A response may be denied; the loader stays at work.                     *)
LEMMA DidReceiveResponseDoes ==
  ASSUME TypeOK, NEW l, NEW denied, didReceiveResponse(l, denied)
  PROVE  /\ Untouched /\ Dispatches(0) /\ stack = <<>>
         /\ xhr'.state = xhr.state /\ doc' = doc /\ lost' = lost
         /\ \/ xhr'.error = xhr.error /\ asked' = asked
            \/ xhr'.error /\ asked' # "waiting"
<1>1. OnlyEvent(Event("error")) /\ Event("error") \in Seq(Frames)
  BY EventFrames DEF Events, OnlyEvent
<1>2. stack = <<>> /\ (stack' = Event("error") \o stack \/ stack' = stack)
  BY <1>1, ConcatEmptySeq DEF didReceiveResponse, Calls
<1>3. Dispatches(0)
  BY <1>1, <1>2, Pushed, Unmoved DEF Dispatches, TypeOK
<1>4. QED
  BY <1>2, <1>3 DEF didReceiveResponse, Untouched, genericError, clearRequest, Heard, TypeOK, Objects, Nets

(* The higher of two states.                                               *)
LEMMA HigherState ==
  ASSUME NEW s \in UNSENT..DONE
  PROVE  Max({s, HEADERS_RECEIVED}) = IF s >= HEADERS_RECEIVED THEN s ELSE HEADERS_RECEIVED
  BY DEF Max, HEADERS_RECEIVED, UNSENT, DONE

(* The first parts of didReceiveData and didFinishLoading.                 *)
LEMMA BlockDoes ==
  ASSUME TypeOK, NEW l \in Loaders, Calls(l), NEW at \in Places,
         xhr' = [xhr EXCEPT !.state = Max({@, HEADERS_RECEIVED})],
         stack' = changeState(xhr.state, xhr'.state) \o Place(at, l)
  PROVE  /\ WillGoOn(0, at, l) /\ stack = <<>> /\ Len(stack) = 0
         /\ xhr'.error = xhr.error /\ xhr'.loader = xhr.loader /\ xhr'.refs = xhr.refs
         /\ xhr'.state = IF xhr.state >= HEADERS_RECEIVED THEN xhr.state ELSE HEADERS_RECEIVED
<1> DEFINE f == changeState(xhr.state, xhr'.state) \o Place(at, l)
<1>1. PlaceFor(f, at, l)
  BY EventFrames, PlaceFrames
<1>2. stack = <<>> /\ stack' = f \o stack /\ Len(stack) = 0
  BY <1>1, ConcatEmptySeq, EmptySeq DEF Calls, PlaceFor
<1>3. WillGoOn(0, at, l)
  BY <1>1, <1>2, Pushed DEF WillGoOn, PlaceFor, TypeOK
<1>4. xhr.state \in UNSENT..DONE
  BY DEF TypeOK, Objects
<1>5. xhr'.error = xhr.error /\ xhr'.loader = xhr.loader /\ xhr'.refs = xhr.refs
      /\ xhr'.state = Max({xhr.state, HEADERS_RECEIVED})
  BY DEF TypeOK, Objects
<1>6. QED
  BY <1>2, <1>3, <1>4, <1>5, HigherState

(* A block of data raises the state to HEADERS_RECEIVED.                   *)
LEMMA DidReceiveDataDoes ==
  ASSUME TypeOK, NEW l \in Loaders, didReceiveData(l)
  PROVE  /\ Untouched /\ WillGoOn(0, "didReceiveData", l) /\ stack = <<>> /\ l \in net.live
         /\ xhr'.error = xhr.error
         /\ xhr'.state = IF xhr.state >= HEADERS_RECEIVED THEN xhr.state ELSE HEADERS_RECEIVED
         /\ asked' = asked /\ doc' = doc /\ lost' = lost
<1>1. "didReceiveData" \in Places /\ Calls(l)
  BY DEF Places, didReceiveData
<1>2. QED
  BY <1>1, BlockDoes DEF didReceiveData, Untouched, Calls

(* The end of a load is ignored after an error, starts the request after a *)
(* preflight, and else will make the object DONE.                          *)
LEMMA DidFinishLoadingDoes ==
  ASSUME TypeOK, NEW l \in Loaders, didFinishLoading(l)
  PROVE  /\ stack = <<>> /\ l \in net.live
         /\ xhr'.error = xhr.error /\ doc' = doc
         /\ \/ /\ xhr.error /\ xhr' = xhr /\ Dispatches(0) /\ stack' = stack
               /\ net'.created = net.created /\ net'.live = net.live \ {l}
               /\ asked' = asked /\ lost' = lost
            \/ /\ Loads(net.live \ {l}) /\ Dispatches(0) /\ stack' = stack
               /\ xhr'.state = xhr.state
               /\ lost' = lost \cup ((net.live \ {l}) \cap {xhr.loader})
            \/ /\ Untouched /\ WillGoOn(0, "didFinishLoading", l) /\ Len(stack) = 0
               /\ xhr'.state = IF xhr.state >= HEADERS_RECEIVED THEN xhr.state ELSE HEADERS_RECEIVED
               /\ asked' = asked /\ lost' = lost
<1>1. "didFinishLoading" \in Places /\ Calls(l) /\ stack = <<>> /\ l \in net.live /\ doc' = doc
  BY DEF Places, didFinishLoading, Calls
<1>2. CASE /\ xhr.error
           /\ net' = Ended(net, l)
           /\ UNCHANGED <<xhr, stack, asked, lost>>
  BY <1>1, <1>2, Unmoved DEF Ended, TypeOK, Nets
<1>3. CASE /\ ~xhr.error /\ xhr.inPreflight
           /\ loadRequestAsynchronously([xhr EXCEPT !.inPreflight = FALSE], Ended(net, l))
           /\ Forgets(l)
           /\ UNCHANGED stack
  <2>1. Loads(net.live \ {l}) /\ xhr'.error = xhr.error /\ xhr'.state = xhr.state
    BY <1>3 DEF loadRequestAsynchronously, Loads, Ended, TypeOK, Objects, Nets
  <2>2. Dispatches(0)
    BY <1>3, Unmoved DEF TypeOK
  <2>3. QED
    BY <1>1, <1>3, <2>1, <2>2 DEF Forgets
<1>4. CASE /\ ~xhr.error /\ ~xhr.inPreflight
           /\ xhr' = [xhr EXCEPT !.state = Max({@, HEADERS_RECEIVED})]
           /\ stack' = changeState(xhr.state, xhr'.state) \o Place("didFinishLoading", l)
           /\ UNCHANGED <<net, asked, lost>>
  BY <1>1, <1>4, BlockDoes DEF Untouched
<1>5. QED
  BY <1>2, <1>3, <1>4 DEF didFinishLoading

(* A failure is ignored after an error, and else told to the page; the     *)
(* loader ends now or after the event.                                     *)
LEMMA DidFailDoes ==
  ASSUME TypeOK, NEW l \in Loaders, NEW event \in {"error", "abort"}, didFail(l, event)
  PROVE  /\ xhr'.error /\ xhr'.state = xhr.state /\ xhr'.loader = xhr.loader /\ xhr'.refs = xhr.refs
         /\ l \in net.live /\ net'.created = net.created /\ doc' = doc /\ lost' = lost
         /\ \/ /\ xhr.error /\ net'.live = net.live \ {l}
               /\ Dispatches(0) /\ stack' = stack /\ asked' = asked
            \/ /\ ~xhr.error /\ net'.live = net.live
               /\ WillGoOn(0, "ended", l) /\ asked' # "waiting"
<1>1. CASE xhr.error
  BY <1>1, Unmoved DEF didFail, Ended, TypeOK, Objects, Nets
<1>2. CASE ~xhr.error
  <2> DEFINE f == Event(event) \o Place("ended", l)
  <2>1. OnlyEvent(Event(event)) /\ "ended" \in Places
    BY EventFrames DEF Events, Places
  <2>2. PlaceFor(f, "ended", l)
    BY <2>1, PlaceFrames
  <2>3. stack' = f \o stack
    <3>1. stack' = Event(event) \o Place("ended", l) \o stack
      BY <1>2 DEF didFail
    <3>2. QED
      BY <3>1
  <2>4. WillGoOn(0, "ended", l)
    BY <2>2, <2>3, Pushed DEF WillGoOn, PlaceFor, TypeOK
  <2>5. QED
    BY <1>2, <2>4 DEF didFail, genericError, clearRequest, Heard, TypeOK, Objects
<1>3. QED
  BY <1>1, <1>2

-----------------------------------------------------------------------------
(* What a dispatch and a method that will go on make of the stack.         *)

(* A dispatch keeps the frames of the methods in progress and adds none.   *)
LEMMA Dispatched ==
  ASSUME FramesKnown, AtBottom, NEW m, Dispatches(m), net.created \subseteq net'.created
  PROVE  /\ stack' \in Seq(Frames) /\ FramesKnown' /\ AtBottom'
         /\ \A at : Has(at)' => Has(at) \/ at \in Events
         /\ \A at : Has(at) /\ (m = 0 \/ stack[1].at # at) => Has(at)'
         /\ \A l : l \in Ending' => l \in Ending
         /\ \A l : l \in Ending => l \in Ending' \/ (m = 1 /\ Ends(stack[1], l))
<1>1. PICK f : OnlyEvent(f) /\ Becomes(f, m)
  BY DEF Dispatches
<1>2. \A i \in 1..Len(f) : f[i].at \in Events
  BY <1>1 DEF OnlyEvent
<1>3. stack' \in Seq(Frames) /\ FramesKnown' /\ AtBottom'
  BY <1>1, KnownStep, BottomStep DEF Becomes
<1>4. \A at : Has(at)' => Has(at) \/ at \in Events
  BY <1>1, <1>2, HasStep
<1>5. \A at : Has(at) /\ (m = 0 \/ stack[1].at # at) => Has(at)'
  BY <1>1, HasStep
<1>6. \A l : l \in Ending' => l \in Ending
  <2>1. \A i \in 1..Len(f) : \A l : ~Ends(f[i], l)
    BY <1>2 DEF Ends, Events
  <2>2. QED
    BY <1>1, <2>1, EndingStep
<1>7. \A l : l \in Ending => l \in Ending' \/ (m = 1 /\ Ends(stack[1], l))
  BY <1>1, EndingStep
<1>8. QED
  BY <1>3, <1>4, <1>5, <1>6, <1>7

(* A method that will go on adds one frame for that, and keeps the others. *)
LEMMA WentOn ==
  ASSUME FramesKnown, AtBottom, NEW f, NEW m, NEW at, NEW l, PlaceFor(f, at, l), Becomes(f, m),
         net.created \subseteq net'.created, l \in net'.created \cup {None},
         at \in {"didFinishLoading", "dropProtection"} => m = Len(stack)
  PROVE  /\ stack' \in Seq(Frames) /\ FramesKnown' /\ AtBottom' /\ Has(at)'
         /\ \A b : Has(b)' => Has(b) \/ b = at \/ b \in Events
         /\ \A b : Has(b) /\ (m = 0 \/ stack[1].at # b) => Has(b)'
         /\ \A k : k \in Ending' => k \in Ending \/ Ends([at |-> at, l |-> l], k)
         /\ \A k : k \in Ending => k \in Ending' \/ (m = 1 /\ Ends(stack[1], k))
         /\ at \in {"ended", "dropProtection"} => l \in Ending'
<1>1. /\ \A i \in 1..Len(f) : f[i].at \in Events \/ (f[i].at = at /\ f[i].l = l)
      /\ Len(f) \in 1..Len(f) /\ f[Len(f)].at = at /\ f[Len(f)].l = l
  <2>1. Len(f) = 1 \/ Len(f) = 2
    BY DEF PlaceFor
  <2>2. Len(f) \in 1..Len(f) /\ \A i \in 1..Len(f) : i = Len(f) \/ (Len(f) = 2 /\ i = 1)
    <3>1. 1 \in 1..1 /\ 2 \in 1..2 /\ (\A i \in 1..1 : i = 1) /\ (\A i \in 1..2 : i = 2 \/ i = 1)
      OBVIOUS
    <3>2. QED
      BY <2>1, <3>1
  <2>3. QED
    BY <2>1, <2>2 DEF PlaceFor
<1>2. stack' \in Seq(Frames) /\ FramesKnown'
  BY KnownStep DEF Becomes
<1>3. AtBottom'
  BY BottomStep
<1>4. /\ \A b : Has(b)' => Has(b) \/ b = at \/ b \in Events
      /\ Has(at)'
      /\ \A b : Has(b) /\ (m = 0 \/ stack[1].at # b) => Has(b)'
  BY <1>1, HasStep
<1>5. \A k : k \in Ending' => k \in Ending \/ Ends([at |-> at, l |-> l], k)
  <2>1. \A i \in 1..Len(f) : \A k : Ends(f[i], k) => Ends([at |-> at, l |-> l], k)
    BY <1>1 DEF Ends, Events
  <2>2. QED
    BY <2>1, EndingStep
<1>6. /\ \A k : k \in Ending => k \in Ending' \/ (m = 1 /\ Ends(stack[1], k))
      /\ at \in {"ended", "dropProtection"} => l \in Ending'
  <2>1. at \in {"ended", "dropProtection"} => Ends(f[Len(f)], l)
    BY <1>1 DEF Ends
  <2>2. QED
    BY <1>1, <2>1, EndingStep
<1>7. QED
  BY <1>2, <1>3, <1>4, <1>5, <1>6

(* Frames know only loaders that were created, and the end of a load is    *)
(* below all else.                                                         *)
LEMMA StackStep ==
  ASSUME TypeOK, FramesKnown, AtBottom, [Next]_vars
  PROVE  /\ stack' \in Seq(Frames) /\ FramesKnown' /\ AtBottom'
         /\ net.created \subseteq net'.created
<1> DEFINE Kept == /\ stack' \in Seq(Frames) /\ FramesKnown' /\ AtBottom'
                   /\ net.created \subseteq net'.created
<1>1. ASSUME NEW m, Dispatches(m), net.created \subseteq net'.created PROVE Kept
  BY <1>1, Dispatched
<1>2. ASSUME NEW m, NEW at, NEW l \in net'.created \cup {None}, WillGoOn(m, at, l),
             at \in {"didFinishLoading", "dropProtection"} => m = Len(stack),
             net.created \subseteq net'.created
      PROVE  Kept
  BY <1>2, WentOn DEF WillGoOn
<1>3. \A live : Loads(live) => net.created \subseteq net'.created
  BY DEF Loads
<1>4. net.live \subseteq net.created
  BY DEF TypeOK
<1>5. stack # <<>> => stack[1].l \in net.created \cup {None}
  BY TopProperties DEF FramesKnown
<1>6. ASSUME NEW target, NEW allowed, open(target, allowed) PROVE Kept
  BY <1>1, <1>6, OpenDoes DEF Aborted
<1>7. ASSUME send PROVE Kept
  BY <1>2, <1>7, SendDoes DEF Untouched
<1>8. ASSUME abort PROVE Kept
  BY <1>1, <1>2, <1>8, AbortCallDoes DEF Aborted
<1>9. ASSUME cancelRequests \/ detachRequests PROVE Kept
  BY <1>1, <1>9, QuietAbortDoes DEF Aborted
<1>10. ASSUME setRequestHeader \/ LeaveFrame PROVE Kept
  BY <1>1, <1>10, PageDoes DEF Untouched
<1>11. ASSUME CreateRequest PROVE Kept
  BY <1>1, <1>3, <1>11, CreateRequestDoes
<1>12. ASSUME AbortGoesOn PROVE Kept
  BY <1>1, <1>12, AbortGoesOnDoes DEF Untouched
<1>13. ASSUME EventReturns PROVE Kept
  BY <1>1, <1>13, EventReturnsDoes DEF Untouched
<1>14. ASSUME DataDecoded PROVE Kept
  <2>1. stack # <<>>
    BY <1>14 DEF DataDecoded, At
  <2>2. QED
    BY <1>1, <1>2, <1>5, <1>14, <2>1, DataDecodedDoes
<1>15. ASSUME ProgressReported PROVE Kept
  BY <1>1, <1>15, ProgressReportedDoes DEF Untouched
<1>16. ASSUME AllReceived PROVE Kept
  <2>1. stack # <<>>
    BY <1>16 DEF AllReceived, At
  <2>2. stack[1].l \in net'.created \cup {None} /\ net' = net
    BY <1>5, <1>16, <2>1, AllReceivedDoes
  <2>3. Len(stack) = 1
    <3>1. 1 \in 1..Len(stack) /\ stack[1].at = "didFinishLoading"
      BY <1>16, <2>1, AllReceivedDoes, TopProperties
    <3>2. QED
      BY <3>1 DEF AtBottom
  <2>4. PICK at : WillGoOn(1, at, stack[1].l)
    BY <1>16, AllReceivedDoes DEF WillGoOn
  <2>5. QED
    BY <1>2, <2>2, <2>3, <2>4
<1>17. ASSUME LoaderEnds PROVE Kept
  BY <1>1, <1>17, LoaderEndsDoes
<1>18. ASSUME NEW l, willSendRequest(l) PROVE Kept
  BY <1>1, <1>18, WillSendRequestDoes DEF Aborted
<1>19. ASSUME NEW l, NEW denied, didReceiveResponse(l, denied) PROVE Kept
  BY <1>1, <1>19, DidReceiveResponseDoes DEF Untouched
<1>20. ASSUME NEW l \in Loaders, didReceiveData(l) PROVE Kept
  BY <1>2, <1>4, <1>20, DidReceiveDataDoes DEF Untouched
<1>21. ASSUME NEW l \in Loaders, didFinishLoading(l) PROVE Kept
  <2>1. /\ l \in net.live
        /\ \/ Dispatches(0) /\ net.created \subseteq net'.created
           \/ WillGoOn(0, "didFinishLoading", l) /\ Len(stack) = 0 /\ net'.created = net.created
    BY <1>3, <1>21, DidFinishLoadingDoes DEF Untouched
  <2>2. QED
    BY <1>1, <1>2, <1>4, <2>1
<1>22. ASSUME NEW l \in Loaders, NEW event \in {"error", "abort"}, didFail(l, event) PROVE Kept
  BY <1>1, <1>2, <1>4, <1>22, DidFailDoes
<1>23. ASSUME UNCHANGED vars PROVE Kept
  BY <1>23 DEF vars, TypeOK, FramesKnown, AtBottom
<1>24. QED
  BY <1>6, <1>7, <1>8, <1>9, <1>10, <1>11, <1>12, <1>13, <1>14, <1>15, <1>16, <1>17, <1>18, <1>19, <1>20,
     <1>21, <1>22, <1>23
     DEF Next, Script, GoesOn, Loader

-----------------------------------------------------------------------------
(* The reference count: one for the loader the object has, and one for a   *)
(* dropProtection that is due; and none that no loader has brought.        *)
RefsCounted ==
  /\ xhr.refs <= Cardinality(net.created)
  /\ xhr.refs >= (IF xhr.loader = None THEN 0 ELSE 1) + (IF Has("dropProtection") THEN 1 ELSE 0)

(* The loaders that were created are finitely many, and never more than    *)
(* there are.                                                              *)
LEMMA CreatedTypes ==
  ASSUME TypeOK
  PROVE  /\ xhr.refs \in Int /\ Cardinality(Loaders) \in Nat
         /\ Cardinality(net.created) \in Nat /\ Cardinality(net.created) <= Cardinality(Loaders)
         /\ \A l \in Loaders \ net.created :
              /\ Cardinality(net.created \cup {l}) = Cardinality(net.created) + 1
              /\ Cardinality(net.created \cup {l}) <= Cardinality(Loaders)
<1>1. IsFiniteSet(Loaders) /\ net.created \in SUBSET Loaders
  BY RequestAssumption DEF RequestAssumption, TypeOK, Nets
<1>2. /\ \A S \in SUBSET Loaders : IsFiniteSet(S) /\ Cardinality(S) <= Cardinality(Loaders) /\ Cardinality(S) \in Nat
      /\ Cardinality(Loaders) \in Nat
  BY <1>1, FS_Subset, FS_CardinalityType
<1>3. \A l \in Loaders \ net.created : Cardinality(net.created \cup {l}) = Cardinality(net.created) + 1
  BY <1>1, <1>2, FS_AddElement
<1>4. xhr.refs \in Int
  BY <1>2 DEF TypeOK, Objects
<1>5. QED
  BY <1>1, <1>2, <1>3, <1>4

(* Every step keeps the reference count right, and within its bounds.      *)
LEMMA RefsStep ==
  ASSUME TypeOK, FramesKnown, AtBottom, RefsCounted, [Next]_vars
  PROVE  RefsCounted' /\ xhr'.refs \in 0..Cardinality(Loaders)
<1> DEFINE drop == "dropProtection"
           Kept == RefsCounted' /\ xhr'.refs \in 0..Cardinality(Loaders)
           NoDrop == Has(drop)' => Has(drop)
<1>1. net.live \subseteq net.created
  BY DEF TypeOK
<1>2. stack # <<>> => /\ stack[1].l \in net.created \cup {None}
                      /\ 1 \in 1..Len(stack)
                      /\ stack[1].at \in {"didFinishLoading", drop} => Len(stack) = 1
  BY TopProperties DEF FramesKnown, AtBottom
<1>3. drop \notin Events
  BY DEF Events
<1>4. ASSUME NEW m, Dispatches(m), net.created \subseteq net'.created PROVE NoDrop
  BY <1>3, <1>4, Dispatched
<1>5. ASSUME NEW m, NEW at, NEW l \in net'.created \cup {None}, WillGoOn(m, at, l), at # drop,
             at = "didFinishLoading" => m = Len(stack), net.created \subseteq net'.created
      PROVE  NoDrop
  BY <1>3, <1>5, WentOn DEF WillGoOn
<1>6. ASSUME xhr'.loader = xhr.loader, xhr'.refs = xhr.refs, net'.created = net.created, NoDrop PROVE Kept
  <2>1. xhr'.refs \in 0..Cardinality(Loaders)
    BY <1>6 DEF TypeOK, Objects
  <2>2. QED
    BY <1>6, <2>1, CreatedTypes DEF RefsCounted
<1>7. ASSUME Aborted, NoDrop PROVE Kept
  BY <1>7, CreatedTypes DEF RefsCounted, Aborted
<1>8. ASSUME NEW live, Loads(live), NoDrop PROVE Kept
  <2>1. CASE /\ xhr'.loader = None /\ xhr'.refs = xhr.refs
             /\ net'.created = net.created
    BY <1>8, <2>1, CreatedTypes DEF RefsCounted
  <2>2. ASSUME NEW l \in Loaders \ net.created, xhr'.loader = l, xhr'.refs = xhr.refs + 1,
               net'.created = net.created \cup {l}
        PROVE  Kept
    BY <1>8, <2>2, CreatedTypes DEF RefsCounted
  <2>3. QED
    BY <1>8, <2>1, <2>2 DEF Loads
<1>9. \A live : Loads(live) => net.created \subseteq net'.created
  BY DEF Loads
<1>10. ASSUME NEW target, NEW allowed, open(target, allowed) PROVE Kept
  <2>1. Aborted /\ Dispatches(0)
    BY <1>10, OpenDoes
  <2>2. QED
    BY <1>4, <1>7, <2>1 DEF Aborted
<1>11. ASSUME send PROVE Kept
  <2>1. Untouched /\ WillGoOn(0, "createRequest", None)
    BY <1>11, SendDoes
  <2>2. QED
    BY <1>5, <1>6, <2>1 DEF Untouched
<1>12. ASSUME abort PROVE Kept
  <2>1. Aborted /\ (Dispatches(0) \/ WillGoOn(0, "abort()", None))
    BY <1>12, AbortCallDoes
  <2>2. net'.created = net.created
    BY <2>1 DEF Aborted
  <2>3. NoDrop
    BY <1>4, <1>5, <2>1, <2>2
  <2>4. QED
    BY <1>7, <2>1, <2>3
<1>13. ASSUME cancelRequests \/ detachRequests PROVE Kept
  <2>1. Aborted /\ Dispatches(0)
    BY <1>13, QuietAbortDoes
  <2>2. QED
    BY <1>4, <1>7, <2>1 DEF Aborted
<1>14. ASSUME setRequestHeader \/ LeaveFrame PROVE Kept
  <2>1. Untouched /\ Dispatches(0)
    BY <1>14, PageDoes
  <2>2. QED
    BY <1>4, <1>6, <2>1 DEF Untouched
<1>15. ASSUME CreateRequest PROVE Kept
  <2>1. Loads(net.live) /\ Dispatches(1)
    BY <1>15, CreateRequestDoes
  <2>2. QED
    BY <1>4, <1>8, <1>9, <2>1
<1>16. ASSUME AbortGoesOn \/ EventReturns \/ ProgressReported PROVE Kept
  <2>1. Untouched /\ Dispatches(1)
    BY <1>16, AbortGoesOnDoes, EventReturnsDoes, ProgressReportedDoes
  <2>2. QED
    BY <1>4, <1>6, <2>1 DEF Untouched
<1>17. ASSUME DataDecoded PROVE Kept
  <2>1. stack # <<>>
    BY <1>17 DEF DataDecoded, At
  <2>2. Untouched /\ net' = net /\ (Dispatches(1) \/ WillGoOn(1, "updateAndDispatch", stack[1].l))
    BY <1>17, DataDecodedDoes
  <2>3. NoDrop
    BY <1>2, <1>4, <1>5, <2>1, <2>2
  <2>4. QED
    BY <1>6, <2>2, <2>3 DEF Untouched
<1>18. ASSUME AllReceived PROVE Kept
  <2>1. stack # <<>>
    BY <1>18 DEF AllReceived, At
  <2>2. /\ stack[1].at = "didFinishLoading" /\ Len(stack) = 1 /\ net' = net
        /\ xhr'.loader = None /\ xhr'.refs = xhr.refs
        /\ WillGoOn(1, IF xhr.loader = None THEN "ended" ELSE drop, stack[1].l)
    BY <1>18, <1>2, <2>1, AllReceivedDoes DEF WillGoOn
  <2>3. xhr.loader = None => NoDrop
    BY <1>2, <1>5, <2>1, <2>2
  <2>4. xhr.refs >= (IF Has(drop)' THEN 1 ELSE 0)
    BY <2>3, CreatedTypes DEF RefsCounted
  <2>5. xhr.refs \in 0..Cardinality(Loaders)
    BY DEF TypeOK, Objects
  <2>6. QED
    BY <2>2, <2>4, <2>5, CreatedTypes DEF RefsCounted
<1>19. ASSUME LoaderEnds PROVE Kept
  <2>1. stack # <<>>
    BY <1>19 DEF LoaderEnds, At
  <2>2. /\ Dispatches(1) /\ stack[1].at \in {"ended", drop} /\ xhr'.loader = xhr.loader
        /\ xhr'.refs = IF stack[1].at = "ended" THEN xhr.refs ELSE xhr.refs - 1
        /\ net'.created = net.created
    BY <1>19, LoaderEndsDoes
  <2>3. CASE stack[1].at = "ended"
    BY <1>4, <1>6, <2>2, <2>3
  <2>4. CASE stack[1].at = drop
    <3>1. Len(stack) = 1 /\ Has(drop)
      BY <1>2, <2>1, <2>4 DEF Has
    <3>2. ~Has(drop)'
      <4>1. PICK f : OnlyEvent(f) /\ Becomes(f, 1)
        BY <2>2 DEF Dispatches
      <4>2. \A i \in 1..Len(stack') : i \in 1..Len(f) /\ stack'[i] = f[i]
        BY <3>1, <4>1 DEF Becomes
      <4>3. QED
        BY <1>3, <4>1, <4>2 DEF Has, OnlyEvent
    <3>3. xhr.refs >= (IF xhr.loader = None THEN 0 ELSE 1) + 1
      BY <3>1 DEF RefsCounted
    <3>4. QED
      BY <2>2, <2>4, <3>2, <3>3, CreatedTypes DEF RefsCounted
  <2>5. QED
    BY <2>2, <2>3, <2>4
<1>20. ASSUME NEW l, willSendRequest(l) PROVE Kept
  <2>1. Aborted /\ Dispatches(0)
    BY <1>20, WillSendRequestDoes
  <2>2. QED
    BY <1>4, <1>7, <2>1 DEF Aborted
<1>21. ASSUME NEW l, NEW denied, didReceiveResponse(l, denied) PROVE Kept
  <2>1. Untouched /\ Dispatches(0)
    BY <1>21, DidReceiveResponseDoes
  <2>2. QED
    BY <1>4, <1>6, <2>1 DEF Untouched
<1>22. ASSUME NEW l \in Loaders, didReceiveData(l) PROVE Kept
  <2>1. Untouched /\ WillGoOn(0, "didReceiveData", l) /\ l \in net.live
    BY <1>22, DidReceiveDataDoes
  <2>2. QED
    BY <1>1, <1>5, <1>6, <2>1 DEF Untouched
<1>23. ASSUME NEW l \in Loaders, didFinishLoading(l) PROVE Kept
  <2>1. CASE xhr' = xhr /\ Dispatches(0) /\ net'.created = net.created
    BY <1>4, <1>6, <2>1
  <2>2. CASE Loads(net.live \ {l}) /\ Dispatches(0)
    BY <1>4, <1>8, <1>9, <2>2
  <2>3. CASE Untouched /\ WillGoOn(0, "didFinishLoading", l) /\ Len(stack) = 0 /\ l \in net.live
    BY <1>1, <1>5, <1>6, <2>3 DEF Untouched
  <2>4. QED
    BY <1>23, <2>1, <2>2, <2>3, DidFinishLoadingDoes
<1>24. ASSUME NEW l \in Loaders, NEW event \in {"error", "abort"}, didFail(l, event) PROVE Kept
  <2>1. /\ xhr'.loader = xhr.loader /\ xhr'.refs = xhr.refs /\ net'.created = net.created
        /\ l \in net.live /\ (Dispatches(0) \/ WillGoOn(0, "ended", l))
    BY <1>24, DidFailDoes
  <2>2. NoDrop
    BY <1>1, <1>4, <1>5, <2>1
  <2>3. QED
    BY <1>6, <2>1, <2>2
<1>25. ASSUME UNCHANGED vars PROVE Kept
  <2>1. NoDrop
    BY <1>25 DEF vars, Has
  <2>2. QED
    BY <1>6, <1>25, <2>1 DEF vars
<1>26. QED
  BY <1>10, <1>11, <1>12, <1>13, <1>14, <1>15, <1>16, <1>17, <1>18, <1>19, <1>20, <1>21, <1>22,
     <1>23, <1>24, <1>25
     DEF Next, Script, GoesOn, Loader

(* The object, but for its reference count.                                *)
Shapes ==
  [state : UNSENT..DONE, error : BOOLEAN, loader : Loaders \cup {None}, target : Targets,
   sameOrigin : BOOLEAN, inPreflight : BOOLEAN, refs : Int]

LoadersTyped(n) == n \in Nets /\ n.live \subseteq n.created /\ n.answered \subseteq n.live

(* The values that the operations give the object and the loaders have     *)
(* their types.                                                            *)
LEMMA ShapeFacts ==
  ASSUME TypeOK
  PROVE  /\ xhr \in Shapes /\ LoadersTyped(net)
         /\ internalAbort.x \in Shapes /\ LoadersTyped(internalAbort.n)
         /\ \A x \in Shapes : clearRequest(x) \in Shapes /\ genericError(x) \in Shapes
         /\ \A l : LoadersTyped(Ended(net, l))
         /\ UNSENT \in UNSENT..DONE /\ OPENED \in UNSENT..DONE /\ HEADERS_RECEIVED \in UNSENT..DONE
         /\ LOADING \in UNSENT..DONE /\ DONE \in UNSENT..DONE
<1>1. UNSENT \in UNSENT..DONE /\ OPENED \in UNSENT..DONE /\ HEADERS_RECEIVED \in UNSENT..DONE
         /\ LOADING \in UNSENT..DONE /\ DONE \in UNSENT..DONE
  BY DEF UNSENT, OPENED, HEADERS_RECEIVED, LOADING, DONE
<1>2. xhr \in Shapes /\ LoadersTyped(net)
  <2>1. 0..Cardinality(Loaders) \subseteq Int
    BY CreatedTypes
  <2>2. QED
    BY <2>1 DEF TypeOK, Objects, Shapes, LoadersTyped
<1>3. \A l : LoadersTyped(Ended(net, l))
  BY <1>2 DEF LoadersTyped, Nets, Ended
<1>4. internalAbort.x \in Shapes /\ LoadersTyped(internalAbort.n)
  <2>1. /\ internalAbort.x = [xhr EXCEPT !.error = TRUE, !.loader = None,
                                         !.refs = IF xhr.loader = None THEN @ ELSE @ - 1]
        /\ internalAbort.n = Ended(net, xhr.loader)
    BY DEF internalAbort
  <2>2. \A r \in Int : [xhr EXCEPT !.error = TRUE, !.loader = None, !.refs = r] \in Shapes
    BY <1>2 DEF Shapes
  <2>3. xhr.refs \in Int /\ xhr.refs - 1 \in Int
    BY <1>2 DEF Shapes
  <2>4. internalAbort.x \in Shapes
    BY <2>1, <2>2, <2>3
  <2>5. QED
    BY <1>3, <2>1, <2>4
<1>5. ASSUME NEW x \in Shapes PROVE clearRequest(x) \in Shapes /\ genericError(x) \in Shapes
  BY DEF clearRequest, genericError, Shapes, Targets
<1>6. QED
  BY <1>1, <1>2, <1>3, <1>4, <1>5

(* Every step keeps the types of all but the reference count and the       *)
(* stack.                                                                  *)
LEMMA ShapeStep ==
  ASSUME TypeOK, [Next]_vars
  PROVE  /\ xhr' \in Shapes /\ LoadersTyped(net') /\ lost' \subseteq Loaders
         /\ doc' \in {"framed", "frameless", "none"}
         /\ asked' \in {"no", "waiting", "refused", "heard"}
<1> DEFINE Typed == /\ xhr' \in Shapes /\ LoadersTyped(net') /\ lost' \subseteq Loaders
                    /\ doc' \in {"framed", "frameless", "none"}
                    /\ asked' \in {"no", "waiting", "refused", "heard"}
<1>1. /\ lost \subseteq Loaders /\ doc \in {"framed", "frameless", "none"}
      /\ asked \in {"no", "waiting", "refused", "heard"} /\ net.live \subseteq Loaders
  BY DEF TypeOK, Nets
<1>2. xhr \in Shapes /\ LoadersTyped(net) /\ internalAbort.x \in Shapes /\ LoadersTyped(internalAbort.n)
  BY ShapeFacts
<1>3. ASSUME NEW x \in Shapes, NEW n, LoadersTyped(n), loadRequestAsynchronously(x, n)
      PROVE  /\ xhr' \in Shapes /\ LoadersTyped(net')
             /\ asked' \in {"no", "waiting", "refused", "heard"}
  <2>1. \A l \in Loaders : [x EXCEPT !.loader = l, !.refs = @ + 1] \in Shapes
    <3>1. x.refs \in Int /\ x.refs + 1 \in Int
      BY DEF Shapes
    <3>2. \A l \in Loaders, r \in Int : [x EXCEPT !.loader = l, !.refs = r] \in Shapes
      BY DEF Shapes
    <3>3. QED
      BY <3>1, <3>2
  <2>2. [x EXCEPT !.loader = None] \in Shapes
    BY DEF Shapes
  <2>3. \A l \in Loaders : LoadersTyped([n EXCEPT !.created = @ \cup {l}, !.live = @ \cup {l}])
    BY <1>3 DEF LoadersTyped, Nets
  <2>4. xhr' \in Shapes /\ LoadersTyped(net')
    BY <1>3, <2>1, <2>2, <2>3 DEF loadRequestAsynchronously
  <2>5. asked' \in {"no", "waiting", "refused", "heard"}
    BY <1>1, <1>3 DEF loadRequestAsynchronously
  <2>6. QED
    BY <2>5, <2>4
<1>4. \A l : Forgets(l) => lost' \subseteq Loaders
  BY <1>1 DEF Forgets
<1>5. Heard => asked' \in {"no", "waiting", "refused", "heard"}
  BY <1>1 DEF Heard
<1>6. ASSUME NEW target \in {"same", "simple"}, NEW allowed \in BOOLEAN, open(target, allowed) PROVE Typed
  <2>1. xhr' \in Shapes
    BY <1>2, <1>6, ShapeFacts DEF open, Shapes, Targets
  <2>2. QED
    BY <1>1, <1>2, <1>6, <2>1 DEF open
<1>7. ASSUME setRequestHeader \/ send PROVE Typed
  <2>1. xhr' \in Shapes
    BY <1>2, <1>7 DEF setRequestHeader, send, Shapes, Targets
  <2>2. QED
    BY <1>1, <1>2, <1>7, <2>1 DEF setRequestHeader, send
<1>8. ASSUME abort PROVE Typed
  <2>1. clearRequest(internalAbort.x) \in Shapes /\ UNSENT \in UNSENT..DONE /\ DONE \in UNSENT..DONE
    BY <1>2, ShapeFacts
  <2>2. xhr' \in Shapes
    BY <1>8, <2>1 DEF abort, Shapes
  <2>3. QED
    BY <1>1, <1>2, <1>8, <2>2 DEF abort
<1>9. ASSUME cancelRequests \/ LeaveFrame \/ detachRequests PROVE Typed
  BY <1>1, <1>2, <1>9 DEF cancelRequests, LeaveFrame, detachRequests
<1>10. ASSUME CreateRequest PROVE Typed
  <2>1. PICK preflight \in BOOLEAN :
          loadRequestAsynchronously(
            [xhr EXCEPT !.sameOrigin = xhr.target = "same", !.inPreflight = @ \/ preflight], net)
    BY <1>10 DEF CreateRequest
  <2>2. [xhr EXCEPT !.sameOrigin = xhr.target = "same", !.inPreflight = @ \/ preflight] \in Shapes
    BY <1>2 DEF Shapes
  <2>3. QED
    BY <1>1, <1>2, <1>3, <1>4, <1>10, <2>1, <2>2 DEF CreateRequest
<1>11. ASSUME AbortGoesOn \/ ProgressReported PROVE Typed
  <2>1. xhr' \in Shapes
    BY <1>2, <1>11, ShapeFacts DEF AbortGoesOn, ProgressReported, Shapes
  <2>2. QED
    BY <1>1, <1>2, <1>11, <2>1 DEF AbortGoesOn, ProgressReported
<1>12. ASSUME EventReturns \/ DataDecoded PROVE Typed
  BY <1>1, <1>2, <1>5, <1>12 DEF EventReturns, DataDecoded
<1>13. ASSUME AllReceived PROVE Typed
  <2>1. xhr' \in Shapes
    BY <1>2, <1>13, ShapeFacts DEF AllReceived, Shapes
  <2>2. QED
    BY <1>1, <1>2, <1>4, <1>13, <2>1 DEF AllReceived
<1>14. ASSUME LoaderEnds PROVE Typed
  <2>1. xhr' \in Shapes
    BY <1>2, <1>14 DEF LoaderEnds, Shapes
  <2>2. QED
    BY <1>1, <1>14, <2>1, ShapeFacts DEF LoaderEnds
<1>15. ASSUME NEW l \in Loaders, willSendRequest(l) PROVE Typed
  BY <1>1, <1>2, <1>5, <1>15, ShapeFacts DEF willSendRequest
<1>16. ASSUME NEW l \in Loaders, NEW denied \in BOOLEAN, didReceiveResponse(l, denied) PROVE Typed
  <2>1. LoadersTyped(net')
    BY <1>2, <1>16 DEF didReceiveResponse, Calls, LoadersTyped, Nets
  <2>2. QED
    BY <1>1, <1>2, <1>5, <1>16, <2>1, ShapeFacts DEF didReceiveResponse
<1>17. ASSUME xhr' = [xhr EXCEPT !.state = Max({@, HEADERS_RECEIVED})] PROVE xhr' \in Shapes
  <2>1. xhr.state \in UNSENT..DONE
    BY DEF TypeOK, Objects
  <2>2. Max({xhr.state, HEADERS_RECEIVED}) \in UNSENT..DONE
    BY <2>1, HigherState, ShapeFacts
  <2>3. QED
    BY <1>2, <1>17, <2>2 DEF Shapes
<1>18. ASSUME NEW l \in Loaders, didReceiveData(l) PROVE Typed
  BY <1>1, <1>2, <1>17, <1>18 DEF didReceiveData
<1>19. ASSUME NEW l \in Loaders, didFinishLoading(l) PROVE Typed
  <2>1. [xhr EXCEPT !.inPreflight = FALSE] \in Shapes /\ LoadersTyped(Ended(net, l))
    BY <1>2, ShapeFacts DEF Shapes
  <2>2. QED
    BY <1>1, <1>2, <1>3, <1>4, <1>17, <1>19, <2>1 DEF didFinishLoading
<1>20. ASSUME NEW l \in Loaders, NEW event \in {"error", "abort"}, didFail(l, event) PROVE Typed
  BY <1>1, <1>2, <1>5, <1>20, ShapeFacts DEF didFail
<1>21. ASSUME UNCHANGED vars PROVE Typed
  BY <1>1, <1>2, <1>21 DEF vars
<1>22. QED
  BY <1>6, <1>7, <1>8, <1>9, <1>10, <1>11, <1>12, <1>13, <1>14, <1>15, <1>16, <1>18, <1>19, <1>20, <1>21
     DEF Next, Script, GoesOn, Loader

(* Every step keeps the type invariant.                                    *)
LEMMA TypeStep ==
  ASSUME TypeOK, FramesKnown, AtBottom, RefsCounted, [Next]_vars
  PROVE  TypeOK'
<1>1. stack' \in Seq(Frames) /\ xhr'.refs \in 0..Cardinality(Loaders)
  BY StackStep, RefsStep
<1>2. /\ xhr' \in Shapes /\ LoadersTyped(net') /\ lost' \subseteq Loaders
      /\ doc' \in {"framed", "frameless", "none"}
      /\ asked' \in {"no", "waiting", "refused", "heard"}
  BY ShapeStep
<1>3. xhr' \in Objects
  BY <1>1, <1>2 DEF Shapes, Objects
<1>4. QED
  BY <1>1, <1>2, <1>3 DEF TypeOK, LoadersTyped

-----------------------------------------------------------------------------
(* Every step keeps it so that what works for the object is its loader or  *)
(* lost: each loader that the object lets go of is cancelled, about to end *)
(* or counted as lost.                                                     *)
LEMMA AbortReachStep ==
  ASSUME TypeOK, FramesKnown, AtBottom, AbortReachesAll, [Next]_vars
  PROVE  AbortReachesAll'
<1>1. /\ net.live \subseteq net.created /\ net.created \subseteq Loaders
      /\ net.created \subseteq net'.created
  BY StackStep DEF TypeOK, Nets
<1>2. \A k : k \in AtWork' <=> k \in net'.live /\ k \notin Ending'
  BY DEF AtWork
<1>3. \A k \in net.live : k \in Ending \/ k = xhr.loader \/ k \in lost
  BY DEF AtWork, AbortReachesAll
<1>4. stack # <<>> => /\ stack[1].l \in net.created \cup {None}
                      /\ 1 \in 1..Len(stack)
                      /\ stack[1].at \in {"didFinishLoading", "dropProtection"} => Len(stack) = 1
  <2>1. stack # <<>> => 1 \in 1..Len(stack)
    BY TopProperties
  <2>2. QED
    BY <2>1 DEF FramesKnown, AtBottom
<1> DEFINE Stays(m) ==
             \A k : k \in Ending => k \in Ending' \/ (m = 1 /\ Ends(stack[1], k))
<1>5. \A m : Dispatches(m) => Stays(m)
  BY <1>1, Dispatched
<1>6. ASSUME NEW m, NEW at, NEW l \in net.created \cup {None}, WillGoOn(m, at, l),
             at \in {"didFinishLoading", "dropProtection"} => m = Len(stack)
      PROVE  Stays(m) /\ (at \in {"ended", "dropProtection"} => l \in Ending')
  BY <1>1, <1>6, WentOn DEF WillGoOn
<1>7. ASSUME xhr'.loader = xhr.loader, net'.live \subseteq net.live, lost' = lost, Ending \subseteq Ending'
      PROVE  AbortReachesAll'
  BY <1>2, <1>3, <1>7 DEF AbortReachesAll
<1>8. ASSUME Aborted, lost' = lost, Ending \subseteq Ending'
      PROVE  AbortReachesAll'
  BY <1>2, <1>3, <1>8 DEF AbortReachesAll, Aborted
<1>9. ASSUME NEW live, live \subseteq net.live, Loads(live), lost' = lost \cup (live \cap {xhr.loader}),
             Ending \subseteq Ending'
      PROVE  AbortReachesAll'
  <2>1. \A k \in net'.live : k = xhr'.loader \/ k \in live
    BY <1>9 DEF Loads
  <2>2. QED
    BY <1>2, <1>3, <1>9, <2>1 DEF AbortReachesAll
<1>10. ASSUME NEW target, NEW allowed, open(target, allowed) PROVE AbortReachesAll'
  <2>1. Aborted /\ Dispatches(0) /\ lost' = lost
    BY <1>10, OpenDoes
  <2>2. QED
    BY <1>5, <1>8, <2>1
<1>11. ASSUME send PROVE AbortReachesAll'
  <2>1. Untouched /\ WillGoOn(0, "createRequest", None) /\ lost' = lost
    BY <1>11, SendDoes
  <2>2. Ending \subseteq Ending'
    BY <1>6, <2>1
  <2>3. QED
    BY <1>7, <2>1, <2>2 DEF Untouched
<1>12. ASSUME abort PROVE AbortReachesAll'
  <2>1. Aborted /\ (Dispatches(0) \/ WillGoOn(0, "abort()", None)) /\ lost' = lost
    BY <1>12, AbortCallDoes
  <2>2. Ending \subseteq Ending'
    BY <1>5, <1>6, <2>1
  <2>3. QED
    BY <1>8, <2>1, <2>2
<1>13. ASSUME cancelRequests \/ detachRequests PROVE AbortReachesAll'
  <2>1. Aborted /\ Dispatches(0) /\ lost' = lost
    BY <1>13, QuietAbortDoes
  <2>2. QED
    BY <1>5, <1>8, <2>1
<1>14. ASSUME setRequestHeader \/ LeaveFrame PROVE AbortReachesAll'
  <2>1. Untouched /\ Dispatches(0) /\ lost' = lost
    BY <1>14, PageDoes
  <2>2. QED
    BY <1>5, <1>7, <2>1 DEF Untouched
<1>15. ASSUME CreateRequest PROVE AbortReachesAll'
  <2>1. /\ Loads(net.live) /\ Dispatches(1) /\ stack[1].at = "createRequest"
        /\ lost' = lost \cup (net.live \cap {xhr.loader})
    BY <1>15, CreateRequestDoes
  <2>2. Ending \subseteq Ending'
    BY <1>5, <2>1 DEF Ends
  <2>3. QED
    BY <1>9, <2>1, <2>2
<1>16. ASSUME AbortGoesOn \/ EventReturns \/ ProgressReported PROVE AbortReachesAll'
  <2>1. /\ Untouched /\ Dispatches(1) /\ lost' = lost
        /\ stack[1].at \in {"abort()", "updateAndDispatch"} \cup Events
    BY <1>16, AbortGoesOnDoes, EventReturnsDoes, ProgressReportedDoes
  <2>2. Ending \subseteq Ending'
    BY <1>5, <2>1 DEF Ends, Events
  <2>3. QED
    BY <1>7, <2>1, <2>2 DEF Untouched
<1>17. ASSUME DataDecoded PROVE AbortReachesAll'
  <2>1. stack # <<>>
    BY <1>17 DEF DataDecoded, At
  <2>2. /\ Untouched /\ stack[1].at = "didReceiveData" /\ lost' = lost
        /\ Dispatches(1) \/ WillGoOn(1, "updateAndDispatch", stack[1].l)
    BY <1>17, DataDecodedDoes
  <2>3. Ending \subseteq Ending'
    BY <1>4, <1>5, <1>6, <2>1, <2>2 DEF Ends
  <2>4. QED
    BY <1>7, <2>2, <2>3 DEF Untouched
<1>18. ASSUME AllReceived PROVE AbortReachesAll'
  <2>1. stack # <<>>
    BY <1>18 DEF AllReceived, At
  <2>2. /\ stack[1].at = "didFinishLoading" /\ Len(stack) = 1 /\ net' = net
        /\ lost' = lost \cup ((net.live \ {stack[1].l}) \cap {xhr.loader})
        /\ WillGoOn(1, IF xhr.loader = None THEN "ended" ELSE "dropProtection", stack[1].l)
    BY <1>18, <1>4, <2>1, AllReceivedDoes DEF WillGoOn
  <2>3. Ending \subseteq Ending' /\ stack[1].l \in Ending'
    BY <1>4, <1>6, <2>1, <2>2 DEF Ends
  <2>4. QED
    BY <1>2, <1>3, <2>2, <2>3 DEF AbortReachesAll
<1>19. ASSUME LoaderEnds PROVE AbortReachesAll'
  <2>1. /\ Dispatches(1) /\ xhr'.loader = xhr.loader /\ net'.live = net.live \ {stack[1].l} /\ lost' = lost
    BY <1>19, LoaderEndsDoes
  <2>2. \A k : k \in Ending => k \in Ending' \/ k = stack[1].l
    BY <1>5, <2>1 DEF Ends
  <2>3. QED
    BY <1>2, <1>3, <2>1, <2>2 DEF AbortReachesAll
<1>20. ASSUME NEW l, willSendRequest(l) PROVE AbortReachesAll'
  <2>1. Aborted /\ Dispatches(0) /\ lost' = lost
    BY <1>20, WillSendRequestDoes
  <2>2. QED
    BY <1>5, <1>8, <2>1
<1>21. ASSUME NEW l, NEW denied, didReceiveResponse(l, denied) PROVE AbortReachesAll'
  <2>1. Untouched /\ Dispatches(0) /\ lost' = lost
    BY <1>21, DidReceiveResponseDoes
  <2>2. QED
    BY <1>5, <1>7, <2>1 DEF Untouched
<1>22. ASSUME NEW l \in Loaders, didReceiveData(l) PROVE AbortReachesAll'
  <2>1. Untouched /\ WillGoOn(0, "didReceiveData", l) /\ l \in net.live /\ lost' = lost
    BY <1>22, DidReceiveDataDoes
  <2>2. Ending \subseteq Ending'
    BY <1>1, <1>6, <2>1
  <2>3. QED
    BY <1>7, <2>1, <2>2 DEF Untouched
<1>23. ASSUME NEW l \in Loaders, didFinishLoading(l) PROVE AbortReachesAll'
  <2>1. CASE xhr' = xhr /\ Dispatches(0) /\ net'.live = net.live \ {l} /\ lost' = lost
    BY <1>5, <1>7, <2>1
  <2>2. CASE Loads(net.live \ {l}) /\ Dispatches(0) /\ lost' = lost \cup ((net.live \ {l}) \cap {xhr.loader})
    <3>1. Ending \subseteq Ending'
      BY <1>5, <2>2
    <3>2. CASE xhr.loader # l
      BY <1>9, <2>2, <3>1, <3>2
    <3>3. CASE xhr.loader = l
      BY <1>9, <2>2, <3>1, <3>3
    <3>4. QED
      BY <3>2, <3>3
  <2>3. CASE Untouched /\ WillGoOn(0, "didFinishLoading", l) /\ Len(stack) = 0 /\ l \in net.live /\ lost' = lost
    <3>1. Ending \subseteq Ending'
      BY <1>1, <1>6, <2>3
    <3>2. QED
      BY <1>7, <2>3, <3>1 DEF Untouched
  <2>4. QED
    BY <1>23, <2>1, <2>2, <2>3, DidFinishLoadingDoes
<1>24. ASSUME NEW l \in Loaders, NEW event \in {"error", "abort"}, didFail(l, event) PROVE AbortReachesAll'
  <2>1. /\ xhr'.loader = xhr.loader /\ net'.live \subseteq net.live /\ lost' = lost
        /\ l \in net.live /\ (Dispatches(0) \/ WillGoOn(0, "ended", l))
    BY <1>24, DidFailDoes
  <2>2. Ending \subseteq Ending'
    BY <1>1, <1>5, <1>6, <2>1
  <2>3. QED
    BY <1>7, <2>1, <2>2
<1>25. ASSUME UNCHANGED vars PROVE AbortReachesAll'
  BY <1>25 DEF vars, AbortReachesAll, AtWork, Ending, Placed
<1>26. QED
  BY <1>10, <1>11, <1>12, <1>13, <1>14, <1>15, <1>16, <1>17, <1>18, <1>19, <1>20, <1>21, <1>22, <1>23, <1>24, <1>25
     DEF Next, Script, GoesOn, Loader

-----------------------------------------------------------------------------
(* A request for which the page waits is not in error, and a loader is at  *)
(* work for it, or will be; or the events of its end are being dispatched. *)
Served == Has("createRequest") \/ AtWork # {}

EndIsTold ==
  /\ Len(stack) = 2
  /\ stack[1].at = "readystatechange"
  /\ stack[2].at \in {"ended", "dropProtection"}

WaitingIsServed ==
  asked = "waiting" =>
    /\ ~xhr.error
    /\ doc = "framed" => IF xhr.state = DONE THEN EndIsTold ELSE Served

(* Every step keeps a waiting page served.                                 *)
LEMMA WaitingStep ==
  ASSUME TypeOK, FramesKnown, AtBottom, WaitingIsServed, [Next]_vars
  PROVE  WaitingIsServed'
<1>1. /\ net.live \subseteq net.created /\ net.created \subseteq Loaders
      /\ net.created \subseteq net'.created /\ None \notin Loaders
  BY StackStep, RequestAssumption DEF TypeOK, Nets, RequestAssumption
<1>2. /\ \A k : k \in AtWork <=> k \in net.live /\ k \notin Ending
      /\ \A k : k \in AtWork' <=> k \in net'.live /\ k \notin Ending'
  BY DEF AtWork
<1>3. stack # <<>> => /\ stack[1].l \in net.created \cup {None}
                      /\ 1 \in 1..Len(stack)
                      /\ stack[1].at \in {"didFinishLoading", "dropProtection"} => Len(stack) = 1
  <2>1. stack # <<>> => 1 \in 1..Len(stack)
    BY TopProperties
  <2>2. QED
    BY <2>1 DEF FramesKnown, AtBottom
<1>4. stack = <<>> => Len(stack) # 2
  BY EmptySeq
<1>5. "createRequest" \notin Events /\ DONE # UNSENT /\ DONE # OPENED /\ DONE # LOADING /\ DONE # HEADERS_RECEIVED
  BY DEF Events, DONE, UNSENT, OPENED, LOADING, HEADERS_RECEIVED
<1> DEFINE Early == xhr.state = DONE => ~EndIsTold
<1>6. stack = <<>> \/ stack[1].at # "readystatechange" => Early
  BY <1>4 DEF EndIsTold
<1>7. ASSUME NEW m, m = 0 \/ stack[1].at # "createRequest",
             Dispatches(m) \/ \E at : \E l \in net.created \cup {None} :
                                /\ WillGoOn(m, at, l) /\ at \notin {"ended", "dropProtection"}
                                /\ at = "didFinishLoading" => m = Len(stack)
      PROVE  (Has("createRequest") => Has("createRequest")') /\ (Ending' \subseteq Ending)
  <2>1. CASE Dispatches(m)
    BY <1>1, <1>7, <2>1, Dispatched
  <2>2. ASSUME NEW at, NEW l \in net.created \cup {None}, WillGoOn(m, at, l),
               at \notin {"ended", "dropProtection"}, at = "didFinishLoading" => m = Len(stack)
        PROVE  (Has("createRequest") => Has("createRequest")') /\ (Ending' \subseteq Ending)
    <3>1. /\ Has("createRequest") => Has("createRequest")'
          /\ \A k : k \in Ending' => k \in Ending \/ Ends([at |-> at, l |-> l], k)
      BY <1>1, <1>7, <2>2, WentOn DEF WillGoOn
    <3>2. QED
      BY <2>2, <3>1 DEF Ends
  <2>3. QED
    BY <1>7, <2>1, <2>2
<1>8. ASSUME asked' = "waiting" => asked = "waiting", asked' = "waiting" => ~xhr'.error \/ xhr'.error = xhr.error,
             doc' = "framed" => doc = "framed",
             Early, Has("createRequest") => Has("createRequest")', Ending' \subseteq Ending,
             net'.live = net.live, xhr'.state = DONE => xhr.state = DONE
      PROVE  WaitingIsServed'
  BY <1>2, <1>8 DEF WaitingIsServed, Served
<1>9. ASSUME NEW live, Loads(live), Ending' \subseteq Ending, xhr'.error = xhr.error, doc' = doc,
             xhr'.state = xhr.state, Early
      PROVE  WaitingIsServed'
  <2>1. SUFFICES ASSUME asked' = "waiting" PROVE WaitingIsServed'
    BY DEF WaitingIsServed
  <2>2. PICK l \in Loaders \ net.created : l \in net'.live /\ asked' = asked
    BY <1>9, <2>1 DEF Loads
  <2>3. l \notin Ending
    BY <1>1, <2>2 DEF FramesKnown, Ending, Placed, TypeOK
  <2>4. AtWork' # {}
    BY <1>2, <1>9, <2>2, <2>3
  <2>5. QED
    BY <1>9, <2>1, <2>2, <2>4 DEF WaitingIsServed, Served
<1>10. ASSUME NEW target, NEW allowed, open(target, allowed) PROVE WaitingIsServed'
  BY <1>10, OpenDoes DEF WaitingIsServed
<1>11. ASSUME send PROVE WaitingIsServed'
  <2>1. /\ WillGoOn(0, "createRequest", None) /\ ~xhr'.error /\ xhr'.state = OPENED
    BY <1>11, SendDoes
  <2>2. Has("createRequest")'
    BY <1>1, <2>1, WentOn DEF WillGoOn
  <2>3. QED
    BY <1>5, <2>1, <2>2 DEF WaitingIsServed, Served
<1>12. ASSUME abort \/ cancelRequests \/ detachRequests PROVE WaitingIsServed'
  BY <1>12, AbortCallDoes, QuietAbortDoes DEF WaitingIsServed
<1>13. ASSUME setRequestHeader \/ LeaveFrame PROVE WaitingIsServed'
  <2>1. /\ net'.live = net.live /\ xhr'.error = xhr.error /\ xhr'.state = xhr.state
        /\ asked' = asked /\ (doc' = doc \/ doc' = "frameless") /\ stack' = stack
    BY <1>13, PageDoes DEF Untouched
  <2>2. QED
    BY <2>1 DEF WaitingIsServed, Served, EndIsTold, Has, AtWork, Ending, Placed
<1>14. ASSUME CreateRequest PROVE WaitingIsServed'
  <2>1. /\ Loads(net.live) /\ Dispatches(1) /\ stack[1].at = "createRequest"
        /\ xhr'.error = xhr.error /\ xhr'.state = xhr.state /\ doc' = doc
    BY <1>14, CreateRequestDoes
  <2>2. Ending' \subseteq Ending
    BY <1>1, <2>1, Dispatched
  <2>3. QED
    BY <1>6, <1>9, <2>1, <2>2
<1>15. ASSUME AbortGoesOn \/ ProgressReported PROVE WaitingIsServed'
  <2>1. /\ Dispatches(1) /\ net'.live = net.live /\ xhr'.error = xhr.error
        /\ stack[1].at \in {"abort()", "updateAndDispatch"} /\ xhr'.state \in {UNSENT, LOADING}
        /\ asked' = asked /\ doc' = doc
    BY <1>15, AbortGoesOnDoes, ProgressReportedDoes DEF Untouched
  <2>2. QED
    BY <1>5, <1>6, <1>7, <1>8, <2>1
<1>16. ASSUME EventReturns PROVE WaitingIsServed'
  <2>1. /\ Dispatches(1) /\ stack[1].at \in Events
        /\ xhr' = xhr /\ net' = net /\ doc' = doc
        /\ IF stack[1].at = "readystatechange" /\ xhr.state = DONE
           THEN asked' # "waiting" ELSE asked' = asked
    BY <1>16, EventReturnsDoes
  <2>2. CASE stack[1].at = "readystatechange" /\ xhr.state = DONE
    BY <2>1, <2>2 DEF WaitingIsServed
  <2>3. CASE ~(stack[1].at = "readystatechange" /\ xhr.state = DONE)
    <3>1. Early
      BY <2>3 DEF EndIsTold
    <3>2. QED
      BY <1>5, <1>7, <1>8, <2>1, <2>3, <3>1
  <2>4. QED
    BY <2>2, <2>3
<1>17. ASSUME DataDecoded PROVE WaitingIsServed'
  <2>1. stack # <<>>
    BY <1>17 DEF DataDecoded, At
  <2>2. /\ stack[1].at = "didReceiveData" /\ xhr' = xhr /\ net' = net /\ doc' = doc /\ asked' = asked
        /\ Dispatches(1) \/ WillGoOn(1, "updateAndDispatch", stack[1].l)
    BY <1>17, DataDecodedDoes
  <2>3. (Has("createRequest") => Has("createRequest")') /\ (Ending' \subseteq Ending)
    BY <1>3, <1>7, <2>1, <2>2
  <2>4. QED
    BY <1>6, <1>8, <2>2, <2>3
<1>18. ASSUME AllReceived PROVE WaitingIsServed'
  <2>1. stack # <<>>
    BY <1>18 DEF AllReceived, At
  <2>2. PICK g : /\ PlaceFor(g, IF xhr.loader = None THEN "ended" ELSE "dropProtection", stack[1].l)
                 /\ Becomes(g, 1)
                 /\ doc = "framed" /\ xhr.state # DONE => Len(g) = 2 /\ g[1].at = "readystatechange"
    BY <1>18, AllReceivedDoes
  <2>3. /\ stack[1].at = "didFinishLoading" /\ Len(stack) = 1
        /\ xhr'.error = xhr.error /\ xhr'.state = DONE /\ asked' = asked /\ doc' = doc
    BY <1>18, <1>3, <2>1, AllReceivedDoes
  <2>4. SUFFICES ASSUME asked = "waiting", doc = "framed" PROVE EndIsTold'
    BY <2>3 DEF WaitingIsServed
  <2>5. Len(g) = 2 /\ g[1].at = "readystatechange" /\ g[2].at \in {"ended", "dropProtection"}
    BY <1>6, <2>2, <2>3, <2>4 DEF WaitingIsServed, PlaceFor
  <2>6. Len(stack') = 2 /\ stack'[1] = g[1] /\ stack'[2] = g[2]
    BY <2>2, <2>3, <2>5 DEF Becomes
  <2>7. QED
    BY <2>5, <2>6 DEF EndIsTold
<1>19. ASSUME LoaderEnds PROVE WaitingIsServed'
  <2>1. stack # <<>>
    BY <1>19 DEF LoaderEnds, At
  <2>2. /\ Dispatches(1) /\ stack[1].at \in {"ended", "dropProtection"}
        /\ xhr'.error = xhr.error /\ xhr'.state = xhr.state
        /\ net'.live = net.live \ {stack[1].l} /\ asked' = asked /\ doc' = doc
    BY <1>19, LoaderEndsDoes
  <2>3. (Has("createRequest") => Has("createRequest")') /\ (Ending' \subseteq Ending)
    BY <1>7, <2>2
  <2>4. stack[1].l \in Ending
    <3>1. 1 \in DOMAIN stack
      BY <1>3, <2>1, LenProperties DEF TypeOK
    <3>2. QED
      BY <2>2, <3>1 DEF Ending, Placed
  <2>5. AtWork \subseteq AtWork'
    BY <1>2, <2>2, <2>3, <2>4
  <2>6. QED
    BY <1>6, <2>2, <2>3, <2>5 DEF WaitingIsServed, Served
<1>20. ASSUME NEW l, willSendRequest(l) PROVE WaitingIsServed'
  BY <1>20, WillSendRequestDoes DEF WaitingIsServed
<1>21. ASSUME NEW l, NEW denied, didReceiveResponse(l, denied) PROVE WaitingIsServed'
  <2>1. /\ Dispatches(0) /\ stack = <<>> /\ net'.live = net.live /\ xhr'.state = xhr.state /\ doc' = doc
        /\ asked' = "waiting" => xhr'.error = xhr.error /\ asked' = asked
    BY <1>21, DidReceiveResponseDoes DEF Untouched
  <2>2. QED
    BY <1>6, <1>7, <1>8, <2>1
<1>22. ASSUME NEW l \in Loaders, NEW at \in {"didReceiveData", "didFinishLoading"},
              net'.live = net.live, WillGoOn(0, at, l), stack = <<>>, Len(stack) = 0, l \in net.live,
              xhr'.error = xhr.error,
              xhr'.state = IF xhr.state >= HEADERS_RECEIVED THEN xhr.state ELSE HEADERS_RECEIVED,
              asked' = asked, doc' = doc
       PROVE  WaitingIsServed'
  <2>1. xhr'.state = DONE => xhr.state = DONE
    BY <1>5, <1>22
  <2>2. (Has("createRequest") => Has("createRequest")') /\ (Ending' \subseteq Ending)
    BY <1>1, <1>7, <1>22
  <2>3. QED
    BY <1>6, <1>8, <1>22, <2>1, <2>2
<1>23. ASSUME NEW l \in Loaders, didReceiveData(l) PROVE WaitingIsServed'
  <2>1. stack = <<>> => Len(stack) = 0
    BY EmptySeq
  <2>2. QED
    BY <1>22, <1>23, <2>1, DidReceiveDataDoes DEF Untouched
<1>24. ASSUME NEW l \in Loaders, didFinishLoading(l) PROVE WaitingIsServed'
  <2>1. CASE xhr.error /\ xhr' = xhr /\ asked' = asked
    BY <2>1 DEF WaitingIsServed
  <2>2. CASE /\ Loads(net.live \ {l}) /\ Dispatches(0) /\ xhr'.state = xhr.state
             /\ xhr'.error = xhr.error /\ doc' = doc /\ stack = <<>>
    BY <1>6, <1>7, <1>9, <2>2
  <2>3. QED
    BY <1>22, <1>24, <2>1, <2>2, DidFinishLoadingDoes DEF Untouched
<1>25. ASSUME NEW l \in Loaders, NEW event \in {"error", "abort"}, didFail(l, event) PROVE WaitingIsServed'
  BY <1>25, DidFailDoes DEF WaitingIsServed
<1>26. ASSUME UNCHANGED vars PROVE WaitingIsServed'
  BY <1>26 DEF vars, WaitingIsServed, Served, EndIsTold, Has, AtWork, Ending, Placed
<1>27. QED
  BY <1>10, <1>11, <1>12, <1>13, <1>14, <1>15, <1>16, <1>17, <1>18, <1>19, <1>20, <1>21, <1>23, <1>24, <1>25, <1>26
     DEF Next, Script, GoesOn, Loader

-----------------------------------------------------------------------------
(* When the object is DONE and has forgotten no loader, either abort() is  *)
(* in progress, which ends in UNSENT, or the request is over.              *)
AbortInProgress ==
  /\ xhr.error
  /\ \E i \in 1..Len(stack) : /\ stack[i].at = "abort()"
                              /\ \A j \in 1..(i - 1) : stack[j].at \in Events

RequestOver ==
  /\ xhr.loader = None
  /\ \A i \in 1..Len(stack) : stack[i].at \in Events \cup {"ended", "dropProtection"}

DoneIsOver == xhr.state = DONE /\ lost = {} => AbortInProgress \/ RequestOver

(* A request that is over stays over as long as it is not followed by      *)
(* another.                                                                *)
LEMMA OverStep ==
  ASSUME RequestOver, xhr'.loader = None,
         NEW m, \/ Dispatches(m)
                \/ \E at, l : WillGoOn(m, at, l) /\ at \in {"ended", "dropProtection"}
  PROVE  RequestOver'
<1> DEFINE last == Events \cup {"ended", "dropProtection"}
<1>1. PICK f : Becomes(f, m) /\ \A i \in 1..Len(f) : f[i].at \in last
  <2>1. CASE Dispatches(m)
    BY <2>1 DEF Dispatches, OnlyEvent
  <2>2. ASSUME NEW at \in {"ended", "dropProtection"}, NEW l, NEW f, PlaceFor(f, at, l)
        PROVE  \A i \in 1..Len(f) : f[i].at \in last
    <3>1. \A i \in 1..Len(f) : i = Len(f) \/ (Len(f) = 2 /\ i = 1)
      BY <2>2 DEF PlaceFor
    <3>2. QED
      BY <2>2, <3>1 DEF PlaceFor
  <2>3. QED
    BY <2>1, <2>2 DEF WillGoOn
<1>2. ASSUME NEW i \in 1..Len(stack') PROVE stack'[i].at \in last
  <2>1. CASE i > Len(f)
    <3>1. i - (Len(f) - m) \in 1..Len(stack) /\ stack'[i] = stack[i - (Len(f) - m)]
      BY <1>1, <2>1 DEF Becomes
    <3>2. QED
      BY <3>1 DEF RequestOver
  <2>2. CASE ~(i > Len(f))
    <3>1. i \in 1..Len(f) /\ stack'[i] = f[i]
      BY <1>1, <2>2 DEF Becomes
    <3>2. QED
      BY <1>1, <3>1
  <2>3. QED
    BY <2>1, <2>2
<1>3. QED
  BY <1>2 DEF RequestOver

(* An abort() in progress stays in progress while events above it come and *)
(* go.                                                                     *)
LEMMA AbortingStep ==
  ASSUME AbortInProgress, xhr'.error, NEW m, Dispatches(m), m = 1 => stack[1].at \in Events
  PROVE  AbortInProgress'
<1>1. PICK f : OnlyEvent(f) /\ Becomes(f, m)
  BY DEF Dispatches
<1>2. PICK i \in 1..Len(stack) : stack[i].at = "abort()" /\ \A j \in 1..(i - 1) : stack[j].at \in Events
  BY DEF AbortInProgress
<1>3. i \in (m + 1)..Len(stack)
  <2>1. m = 1 => i # 1
    BY <1>2 DEF Events
  <2>2. QED
    BY <1>1, <1>2, <2>1 DEF Becomes
<1> DEFINE k == (Len(f) - m) + i
<1>4. k \in 1..Len(stack') /\ stack'[k].at = "abort()"
  BY <1>1, <1>2, <1>3 DEF Becomes
<1>5. ASSUME NEW j \in 1..(k - 1) PROVE stack'[j].at \in Events
  <2>1. CASE j > Len(f)
    <3>1. /\ j \in (Len(f) + 1)..Len(stack') /\ j - (Len(f) - m) \in 1..(i - 1)
      BY <1>1, <1>4, <2>1 DEF Becomes
    <3>2. stack'[j] = stack[j - (Len(f) - m)]
      BY <1>1, <3>1 DEF Becomes
    <3>3. QED
      BY <1>2, <3>1, <3>2
  <2>2. CASE ~(j > Len(f))
    <3>1. j \in 1..Len(f) /\ stack'[j] = f[j]
      BY <1>1, <1>4, <2>2 DEF Becomes
    <3>2. QED
      BY <1>1, <3>1 DEF OnlyEvent
  <2>3. QED
    BY <2>1, <2>2
<1> HIDE DEF k
<1>6. QED
  BY <1>4, <1>5 DEF AbortInProgress

(* The first part of abort() leaves it in progress.                        *)
LEMMA AbortStarts ==
  ASSUME xhr'.error, WillGoOn(0, "abort()", None)
  PROVE  AbortInProgress'
<1>1. PICK f : PlaceFor(f, "abort()", None) /\ Becomes(f, 0)
  BY DEF WillGoOn
<1>2. Len(f) \in 1..Len(stack') /\ stack'[Len(f)].at = "abort()"
  <2>1. /\ Len(f) \in 1..2 /\ f[Len(f)].at = "abort()"
        /\ Len(stack) \in Nat /\ Len(stack') = Len(f) + Len(stack) - 0
        /\ \A i \in 1..Len(f) : stack'[i] = f[i]
    BY <1>1 DEF PlaceFor, Becomes
  <2>2. Len(f) \in 1..Len(f) /\ Len(f) \in 1..Len(stack')
    BY <2>1
  <2>3. QED
    BY <2>1, <2>2
<1>3. ASSUME NEW j \in 1..(Len(f) - 1) PROVE stack'[j].at \in Events
  <2>1. Len(f) = 2 /\ j = 1
    BY <1>1 DEF PlaceFor
  <2>2. 1 \in 1..Len(f)
    BY <2>1
  <2>3. QED
    BY <1>1, <2>1, <2>2 DEF PlaceFor, Becomes
<1>4. QED
  BY <1>2, <1>3 DEF AbortInProgress

(* Above abort() there are events only, and the rest of a request that is  *)
(* over is its end: a DONE object has no other method in progress.         *)
LEMMA DoneTop ==
  ASSUME TypeOK, DoneIsOver, xhr.state = DONE, lost = {}, stack # <<>>
  PROVE  stack[1].at \in Events \cup {"ended", "dropProtection", "abort()"}
<1>1. 1 \in 1..Len(stack)
  BY TopProperties
<1>2. CASE RequestOver
  BY <1>1, <1>2 DEF RequestOver
<1>3. CASE AbortInProgress
  <2>1. PICK i \in 1..Len(stack) : stack[i].at = "abort()" /\ \A j \in 1..(i - 1) : stack[j].at \in Events
    BY <1>3 DEF AbortInProgress
  <2>2. i = 1 \/ 1 \in 1..(i - 1)
    BY <1>1
  <2>3. QED
    BY <2>1, <2>2
<1>4. QED
  BY <1>2, <1>3 DEF DoneIsOver

(* Every step keeps it so that a DONE object has ended its request.        *)
LEMMA DoneStep ==
  ASSUME TypeOK, FramesKnown, AtBottom, AbortReachesAll, DoneIsOver, [Next]_vars
  PROVE  DoneIsOver'
<1>1. net.live \subseteq Loaders /\ None \notin Loaders
  BY RequestAssumption DEF TypeOK, Nets, RequestAssumption
<1>2. stack # <<>> => 1 \in 1..Len(stack)
  BY TopProperties
<1>3. stack = <<>> => Len(stack) = 0
  BY EmptySeq
<1>4. DONE # UNSENT /\ DONE # OPENED /\ DONE # LOADING /\ DONE # HEADERS_RECEIVED
  BY DEF DONE, UNSENT, OPENED, LOADING, HEADERS_RECEIVED
<1>5. ASSUME xhr.state = DONE, lost = {}, stack = <<>> \/ stack[1].at \in {"ended", "dropProtection"}
      PROVE  RequestOver
  <2>1. ~AbortInProgress
    <3>1. ASSUME NEW i \in 1..Len(stack), stack[i].at = "abort()", \A j \in 1..(i - 1) : stack[j].at \in Events
          PROVE  FALSE
      <4>1. stack # <<>> /\ i # 1
        BY <1>3, <1>5, <3>1
      <4>2. 1 \in 1..(i - 1)
        BY <1>2, <4>1
      <4>3. QED
        BY <1>5, <3>1, <4>1, <4>2 DEF Events
    <3>2. QED
      BY <3>1 DEF AbortInProgress
  <2>2. QED
    BY <1>5, <2>1 DEF DoneIsOver
<1>6. ASSUME xhr.state = DONE, lost = {}, stack = <<>>, NEW l \in net.live PROVE FALSE
  <2>1. xhr.loader = None
    BY <1>5, <1>6 DEF RequestOver
  <2>2. l \notin Ending
    BY <1>6 DEF Ending, Placed
  <2>3. l \in AtWork
    BY <1>6, <2>2 DEF AtWork
  <2>4. QED
    BY <1>1, <1>6, <2>1, <2>3 DEF AbortReachesAll
<1>7. ASSUME NEW target, NEW allowed, open(target, allowed) PROVE DoneIsOver'
  BY <1>4, <1>7, OpenDoes DEF DoneIsOver
<1>8. ASSUME send PROVE DoneIsOver'
  BY <1>4, <1>8, SendDoes DEF DoneIsOver
<1>9. ASSUME abort PROVE DoneIsOver'
  BY <1>4, <1>9, AbortCallDoes, AbortStarts DEF DoneIsOver
<1>10. ASSUME cancelRequests \/ detachRequests PROVE DoneIsOver'
  <2>1. /\ xhr'.loader = None /\ Dispatches(0) /\ xhr'.error /\ xhr'.state = xhr.state /\ lost' = lost
    BY <1>10, QuietAbortDoes DEF Aborted
  <2>2. QED
    BY <2>1, OverStep, AbortingStep DEF DoneIsOver
<1>11. ASSUME setRequestHeader \/ LeaveFrame PROVE DoneIsOver'
  <2>1. /\ xhr'.loader = xhr.loader /\ xhr'.error = xhr.error /\ xhr'.state = xhr.state
        /\ stack' = stack /\ lost' = lost
    BY <1>11, PageDoes DEF Untouched
  <2>2. QED
    BY <2>1 DEF DoneIsOver, AbortInProgress, RequestOver
<1>12. ASSUME CreateRequest PROVE DoneIsOver'
  <2>1. /\ stack # <<>> /\ stack[1].at = "createRequest" /\ xhr'.state = xhr.state
        /\ lost \subseteq lost'
    BY <1>12, CreateRequestDoes DEF CreateRequest, At
  <2>2. QED
    BY <2>1, DoneTop DEF DoneIsOver, Events
<1>13. ASSUME AbortGoesOn \/ ProgressReported PROVE DoneIsOver'
  BY <1>4, <1>13, AbortGoesOnDoes, ProgressReportedDoes DEF DoneIsOver
<1>14. ASSUME EventReturns PROVE DoneIsOver'
  <2>1. /\ Dispatches(1) /\ stack[1].at \in Events /\ xhr' = xhr /\ lost' = lost
    BY <1>14, EventReturnsDoes
  <2>2. AbortInProgress => AbortInProgress'
    BY <2>1, AbortingStep DEF AbortInProgress
  <2>3. RequestOver => RequestOver'
    BY <2>1, OverStep DEF RequestOver
  <2>4. QED
    BY <2>1, <2>2, <2>3 DEF DoneIsOver
<1>15. ASSUME DataDecoded PROVE DoneIsOver'
  <2>1. stack # <<>> /\ stack[1].at = "didReceiveData" /\ xhr' = xhr /\ lost' = lost
    BY <1>15, DataDecodedDoes DEF DataDecoded, At
  <2>2. QED
    BY <2>1, DoneTop DEF DoneIsOver, Events
<1>16. ASSUME AllReceived PROVE DoneIsOver'
  <2>1. stack # <<>>
    BY <1>16 DEF AllReceived, At
  <2>2. PICK g : /\ PlaceFor(g, IF xhr.loader = None THEN "ended" ELSE "dropProtection", stack[1].l)
                 /\ Becomes(g, 1)
    BY <1>16, AllReceivedDoes
  <2>3. Len(stack) = 1 /\ xhr'.loader = None
    BY <1>2, <1>16, <2>1, AllReceivedDoes DEF AtBottom
  <2>4. ASSUME NEW i \in 1..Len(stack') PROVE stack'[i].at \in Events \cup {"ended", "dropProtection"}
    <3>1. /\ Len(g) \in 1..2 /\ Len(stack') = Len(g) + 1 - 1
          /\ \A j \in 1..Len(g) : stack'[j] = g[j]
      BY <2>2, <2>3 DEF Becomes, PlaceFor
    <3>2. i \in 1..Len(g) /\ (i = Len(g) \/ (Len(g) = 2 /\ i = 1))
      BY <3>1
    <3>3. QED
      BY <2>2, <3>1, <3>2 DEF PlaceFor
  <2>5. QED
    BY <2>3, <2>4 DEF DoneIsOver, RequestOver
<1>17. ASSUME LoaderEnds PROVE DoneIsOver'
  <2>1. /\ Dispatches(1) /\ stack[1].at \in {"ended", "dropProtection"}
        /\ xhr'.state = xhr.state /\ xhr'.loader = xhr.loader /\ lost' = lost
    BY <1>17, LoaderEndsDoes
  <2>2. RequestOver => RequestOver'
    BY <2>1, OverStep DEF RequestOver
  <2>3. QED
    BY <1>5, <2>1, <2>2 DEF DoneIsOver
<1>18. ASSUME NEW l, willSendRequest(l) PROVE DoneIsOver'
  <2>1. /\ xhr'.loader = None /\ Dispatches(0) /\ stack = <<>> /\ xhr'.state = xhr.state /\ lost' = lost
    BY <1>18, WillSendRequestDoes DEF Aborted
  <2>2. RequestOver => RequestOver'
    BY <2>1, OverStep
  <2>3. QED
    BY <1>5, <2>1, <2>2 DEF DoneIsOver
<1>19. ASSUME NEW l, NEW denied, didReceiveResponse(l, denied) PROVE DoneIsOver'
  <2>1. /\ xhr'.loader = xhr.loader /\ Dispatches(0) /\ stack = <<>> /\ xhr'.state = xhr.state /\ lost' = lost
    BY <1>19, DidReceiveResponseDoes DEF Untouched
  <2>2. RequestOver => RequestOver'
    BY <2>1, OverStep DEF RequestOver
  <2>3. QED
    BY <1>5, <2>1, <2>2 DEF DoneIsOver
<1>20. ASSUME NEW l \in Loaders, didReceiveData(l) \/ didFinishLoading(l) PROVE DoneIsOver'
  <2>1. stack = <<>> /\ l \in net.live /\ (xhr'.state = DONE => xhr.state = DONE) /\ lost \subseteq lost'
    BY <1>4, <1>20, DidReceiveDataDoes, DidFinishLoadingDoes
  <2>2. QED
    BY <1>6, <2>1 DEF DoneIsOver
<1>21. ASSUME NEW l \in Loaders, NEW event \in {"error", "abort"}, didFail(l, event) PROVE DoneIsOver'
  <2>1. xhr'.error /\ xhr'.state = xhr.state /\ xhr'.loader = xhr.loader /\ lost' = lost
    BY <1>21, DidFailDoes
  <2>2. CASE stack' = stack
    BY <2>1, <2>2 DEF DoneIsOver, AbortInProgress, RequestOver
  <2>3. CASE ~xhr.error /\ WillGoOn(0, "ended", l)
    <3>1. RequestOver => RequestOver'
      BY <2>1, <2>3, OverStep DEF RequestOver
    <3>2. QED
      BY <2>1, <2>3, <3>1 DEF DoneIsOver, AbortInProgress
  <2>4. QED
    BY <1>21, <2>2, <2>3, DidFailDoes
<1>22. ASSUME UNCHANGED vars PROVE DoneIsOver'
  BY <1>22 DEF vars, DoneIsOver, AbortInProgress, RequestOver
<1>23. QED
  BY <1>7, <1>8, <1>9, <1>10, <1>11, <1>12, <1>13, <1>14, <1>15, <1>16, <1>17, <1>18, <1>19, <1>20, <1>21, <1>22
     DEF Next, Script, GoesOn, Loader

-----------------------------------------------------------------------------
(* The inductive invariant.                                                *)
RequestInv ==
  /\ TypeOK
  /\ FramesKnown /\ AtBottom
  /\ RefsCounted
  /\ AbortReachesAll
  /\ WaitingIsServed
  /\ DoneIsOver

(* A new object, with nothing in progress.                                 *)
LEMMA InitInv == Init => RequestInv
<1> SUFFICES ASSUME Init PROVE RequestInv
  OBVIOUS
<1>1. stack = <<>> /\ Len(stack) = 0 /\ stack \in Seq(Frames)
  BY EmptySeq DEF Init
<1>2. Cardinality(Loaders) \in Nat /\ Cardinality({}) = 0
  BY RequestAssumption, FS_CardinalityType, FS_EmptySet DEF RequestAssumption
<1>3. TypeOK
  <2>1. xhr \in Objects
    BY <1>2 DEF Init, Objects, Targets, UNSENT, DONE
  <2>2. net \in Nets /\ net.live \subseteq net.created /\ net.answered \subseteq net.live
    BY DEF Init, Nets
  <2>3. QED
    BY <1>1, <2>1, <2>2 DEF Init, TypeOK
<1>4. FramesKnown /\ AtBottom /\ ~Has("dropProtection")
  BY <1>1 DEF FramesKnown, AtBottom, Has
<1>5. RefsCounted
  BY <1>2, <1>4 DEF Init, RefsCounted
<1>6. AbortReachesAll /\ WaitingIsServed /\ DoneIsOver
  BY DEF Init, AbortReachesAll, AtWork, WaitingIsServed, DoneIsOver, UNSENT, DONE
<1>7. QED
  BY <1>3, <1>4, <1>5, <1>6 DEF RequestInv

(* The invariant is inductive: every script, return and loader keeps it.   *)
LEMMA StepInv == RequestInv /\ [Next]_vars => RequestInv'
BY TypeStep, StackStep, RefsStep, AbortReachStep, WaitingStep, DoneStep DEF RequestInv

(* The parts of the inductive invariant hold in every reachable state.     *)
THEOREM RequestInvariant == Spec => []RequestInv
BY InitInv, StepInv, PTL DEF Spec

(* Every variable has its type, whatever scripts and loaders do: the       *)
(* reference count too, which never falls below zero.                      *)
THEOREM TypeCorrect == Spec => []TypeOK
<1>1. RequestInv => TypeOK
  BY DEF RequestInv
<1>2. QED
  BY <1>1, RequestInvariant, PTL

(* open(), abort() and cancelRequests() reach every loader that works for  *)
(* the object, but those that a send() inside an event of another made it  *)
(* forget.                                                                 *)
THEOREM AbortReaches == Spec => []AbortReachesAll
<1>1. RequestInv => AbortReachesAll
  BY DEF RequestInv
<1>2. QED
  BY <1>1, RequestInvariant, PTL

(* At most one dropProtection is due.                                      *)
LEMMA DropsDue ==
  ASSUME TypeOK, AtBottom
  PROVE  Cardinality(Placed("dropProtection")) = IF Has("dropProtection") THEN 1 ELSE 0
<1>1. DOMAIN stack = 1..Len(stack)
  BY LenProperties DEF TypeOK
<1>2. CASE Has("dropProtection")
  <2>1. Placed("dropProtection") = {Len(stack)}
    BY <1>1, <1>2 DEF Placed, Has, AtBottom
  <2>2. QED
    BY <1>2, <2>1, FS_Singleton
<1>3. CASE ~Has("dropProtection")
  <2>1. Placed("dropProtection") = {}
    BY <1>1, <1>3 DEF Placed, Has
  <2>2. QED
    BY <1>3, <2>1, FS_EmptySet
<1>4. QED
  BY <1>2, <1>3

(* The invariant keeps the object alive: a loader at work that is not lost *)
(* is the one it has, and that has its reference.                          *)
LEMMA KeptAlive == RequestInv => ProtectedWhileLoading
<1> SUFFICES ASSUME RequestInv PROVE ProtectedWhileLoading
  OBVIOUS
<1>1. /\ TypeOK /\ AtBottom /\ RefsCounted /\ AbortReachesAll
      /\ xhr.refs \in Int /\ None \notin AtWork
  BY CreatedTypes, RequestAssumption DEF RequestInv, AtWork, TypeOK, Nets, RequestAssumption
<1> DEFINE w == Cardinality(AtWork \ lost)
           d == Cardinality(Placed("dropProtection"))
           h == IF Has("dropProtection") THEN 1 ELSE 0
<1>2. d = h /\ h \in 0..1
  BY <1>1, DropsDue
<1>3. AtWork \ lost \subseteq {xhr.loader}
  BY <1>1 DEF AbortReachesAll
<1>4. Cardinality({}) = 0 /\ \A l : Cardinality({l}) = 1
  BY FS_EmptySet, FS_Singleton
<1>5. w = 0 \/ (w = 1 /\ xhr.loader \in AtWork)
  BY <1>3, <1>4
<1>6. xhr.refs >= (IF xhr.loader = None THEN 0 ELSE 1) + h
  BY <1>1 DEF RefsCounted
<1>7. ProtectedWhileLoading <=> xhr.refs >= w + d + (IF xhr.loader \in AtWork \cup {None} THEN 0 ELSE 1)
  BY DEF ProtectedWhileLoading
<1> HIDE DEF w, d, h
<1>8. CASE xhr.loader = None
  BY <1>1, <1>2, <1>5, <1>6, <1>7, <1>8
<1>9. CASE xhr.loader # None
  BY <1>1, <1>2, <1>5, <1>6, <1>7, <1>9
<1>10. QED
  BY <1>8, <1>9

(* The object keeps itself alive for its loader and for the dropProtection *)
(* that is due, in every nesting of scripts inside its events.             *)
THEOREM Protected == Spec => []ProtectedWhileLoading
BY RequestInvariant, KeptAlive, PTL

(* A page that called send() and was given a loader does not wait in vain. *)
THEOREM NobodyWaits == Spec => []NobodyWaitsInVain
<1>1. RequestInv => NobodyWaitsInVain
  <2> SUFFICES ASSUME RequestInv, stack = <<>>, asked = "waiting", doc = "framed"
               PROVE  ~xhr.error /\ net.live # {}
    BY DEF NobodyWaitsInVain
  <2>1. Len(stack) = 0
    BY EmptySeq
  <2>2. ~EndIsTold /\ ~Has("createRequest")
    BY <2>1 DEF EndIsTold, Has
  <2>3. ~xhr.error /\ AtWork # {}
    BY <2>2 DEF RequestInv, WaitingIsServed, Served
  <2>4. QED
    BY <2>3 DEF AtWork
<1>2. QED
  BY <1>1, RequestInvariant, PTL

(* No step but a call of open() or abort() lowers the state of an object   *)
(* that has forgotten no loader.                                           *)
LEMMA ForwardStep ==
  ASSUME RequestInv, [Next]_vars, xhr'.state < xhr.state, lost = {}
  PROVE  xhr'.state \in {UNSENT, OPENED}
<1>1. TypeOK /\ DoneIsOver /\ xhr.state \in UNSENT..DONE
  BY DEF RequestInv, TypeOK, Objects
<1>2. ~(xhr'.state = xhr.state)
  BY <1>1 DEF UNSENT, DONE
<1>3. xhr'.state # DONE
  BY <1>1 DEF UNSENT, DONE
<1>4. ~(xhr'.state = IF xhr.state >= HEADERS_RECEIVED THEN xhr.state ELSE HEADERS_RECEIVED)
  BY <1>1 DEF UNSENT, DONE, HEADERS_RECEIVED
<1>5. ~ProgressReported
  <2> SUFFICES ASSUME ProgressReported PROVE FALSE
    OBVIOUS
  <2>1. stack # <<>> /\ stack[1].at = "updateAndDispatch" /\ xhr'.state = LOADING
    BY <1>1, ProgressReportedDoes DEF ProgressReported, At
  <2>2. xhr.state = DONE
    BY <1>1, <2>1 DEF UNSENT, LOADING, DONE
  <2>3. QED
    BY <1>1, <2>1, <2>2, DoneTop DEF Events
<1>6. ASSUME Script PROVE xhr'.state \in {UNSENT, OPENED}
  BY <1>1, <1>2, <1>3, <1>6, OpenDoes, SendDoes, AbortCallDoes, QuietAbortDoes, PageDoes DEF Script
<1>7. ASSUME GoesOn PROVE xhr'.state \in {UNSENT, OPENED}
  <2>1. CASE AbortGoesOn
    BY <1>1, <2>1, AbortGoesOnDoes
  <2>2. CASE EventReturns \/ CreateRequest \/ DataDecoded \/ LoaderEnds
    BY <1>1, <1>2, <2>2, EventReturnsDoes, CreateRequestDoes, DataDecodedDoes, LoaderEndsDoes
  <2>3. CASE AllReceived
    BY <1>1, <1>3, <2>3, AllReceivedDoes
  <2>4. QED
    BY <1>5, <1>7, <2>1, <2>2, <2>3 DEF GoesOn
<1>8. ASSUME NEW l \in Loaders, Loader(l) PROVE FALSE
  <2>1. ~willSendRequest(l) /\ \A denied \in BOOLEAN : ~didReceiveResponse(l, denied)
    BY <1>1, <1>2, WillSendRequestDoes, DidReceiveResponseDoes
  <2>2. ~didReceiveData(l) /\ ~didFinishLoading(l)
    BY <1>1, <1>2, <1>4, DidReceiveDataDoes, DidFinishLoadingDoes
  <2>3. \A event \in {"error", "abort"} : ~didFail(l, event)
    BY <1>1, <1>2, DidFailDoes
  <2>4. QED
    BY <1>8, <2>1, <2>2, <2>3 DEF Loader
<1>9. ~UNCHANGED vars
  BY <1>2 DEF vars
<1>10. QED
  BY <1>6, <1>7, <1>8, <1>9 DEF Next

(* No late data and no late end of a request lower readyState: the part of *)
(* didReceiveData that sets LOADING without looking does not run when the  *)
(* object is DONE.                                                         *)
THEOREM StateForward == Spec => ReadyStateForward
<1>1. RequestInv /\ [Next]_vars =>
        [xhr'.state < xhr.state /\ lost = {} => xhr'.state \in {UNSENT, OPENED}]_vars
  BY ForwardStep
<1>2. QED
  BY <1>1, RequestInvariant, PTL DEF Spec, ReadyStateForward
=============================================================================
