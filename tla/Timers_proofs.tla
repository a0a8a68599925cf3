--------------------------- MODULE Timers_proofs ---------------------------
(***************************************************************************)
(* Proofs about Timers: the shared timer is armed whenever a timer is set, *)
(* no timer is lost between the heap and the ready set, and timers fire in *)
(* the order of their times.                                               *)
(***************************************************************************)
EXTENDS Timers, FiniteSetTheorems, FunctionTheorems, SequenceTheorems, TLAPS

-----------------------------------------------------------------------------
(* Facts about the operators on sequences and sets of numbers that the     *)
(* model is built from.                                                    *)

(* A set of natural numbers that is not empty has a smallest element.      *)
LEMMA SmallestExists ==
  ASSUME NEW S \in SUBSET Nat, S # {}
  PROVE  \E m \in S : \A n \in S : m <= n
<1> DEFINE T == {1..i : i \in S}
           R == StrictSubsetOrdering(Int)
<1>1. T \subseteq FiniteSubsetsOf(Int)
  <2> SUFFICES ASSUME NEW i \in S PROVE 1..i \in FiniteSubsetsOf(Int)
    OBVIOUS
  <2>1. IsFiniteSet(1..i)
    BY FS_Interval
  <2>2. QED
    BY <2>1 DEF FiniteSubsetsOf
<1>2. IsWellFoundedOn(R, FiniteSubsetsOf(Int))
  BY FS_StrictSubsetOrderingWellFounded
<1>3. T # {}
  OBVIOUS
<1>4. \E x \in T : \A y \in T : ~(<<y, x>> \in R)
  <2> HIDE DEF T, R
  <2> QED BY <1>1, <1>2, <1>3, WFMin
<1>5. PICK m \in S : \A n \in S : ~(<<1..n, 1..m>> \in R)
  BY <1>4
<1>6. ASSUME NEW n \in S, n < m PROVE FALSE
  <2>1. 1..n \subseteq 1..m /\ m \in 1..m /\ m \notin 1..n
    BY <1>6
  <2>2. <<1..n, 1..m>> \in (SUBSET Int) \X (SUBSET Int)
    OBVIOUS
  <2>3. QED
    BY <1>5, <2>1, <2>2 DEF StrictSubsetOrdering
<1>7. QED
  BY <1>6

(* Min of the community modules is that element.                           *)
LEMMA MinProperties ==
  ASSUME NEW S \in SUBSET Nat, S # {}
  PROVE  Min(S) \in S /\ \A n \in S : Min(S) <= n
  BY SmallestExists DEF Min

(* Max of two numbers.                                                     *)
LEMMA MaxProperties ==
  ASSUME NEW a \in Int, NEW b \in Int
  PROVE  Max({a, b}) = IF a >= b THEN a ELSE b
<1>1. \A x \in {a, b} : (\A y \in {a, b} : x >= y) => x = IF a >= b THEN a ELSE b
  OBVIOUS
<1>2. \E x \in {a, b} : \A y \in {a, b} : x >= y
  OBVIOUS
<1>3. QED
  BY <1>1, <1>2 DEF Max

(* Min of two numbers.                                                     *)
LEMMA MinOfTwo ==
  ASSUME NEW a \in Int, NEW b \in Int
  PROVE  Min({a, b}) = IF a <= b THEN a ELSE b
<1>1. \A x \in {a, b} : (\A y \in {a, b} : x <= y) => x = IF a <= b THEN a ELSE b
  OBVIOUS
<1>2. \E x \in {a, b} : \A y \in {a, b} : x <= y
  OBVIOUS
<1>3. QED
  BY <1>1, <1>2 DEF Min

(* The element at i is left out.                                           *)
LEMMA RemoveAtProperties ==
  ASSUME NEW S, NEW s \in Seq(S), NEW i \in 1..Len(s)
  PROVE  /\ RemoveAt(s, i) \in Seq(S)
         /\ Len(RemoveAt(s, i)) = Len(s) - 1
         /\ \A j \in 1..(Len(s) - 1) : RemoveAt(s, i)[j] = IF j < i THEN s[j] ELSE s[j + 1]
<1>1. Len(s) \in Nat /\ \A j \in 1..Len(s) : s[j] \in S
  BY LenProperties, ElementOfSeq
<1>2. /\ SubSeq(s, 1, i - 1) \in Seq(S) /\ Len(SubSeq(s, 1, i - 1)) = i - 1
      /\ \A j \in 1..(i - 1) : SubSeq(s, 1, i - 1)[j] = s[j]
  <2>1. 1 \in Int /\ i - 1 \in Int /\ \A j \in 1..(i - 1) : s[j] \in S
    BY <1>1
  <2>2. i - 1 = (i - 1) - 1 + 1
    BY <2>1
  <2>3. QED
    BY <1>1, <2>1, <2>2, SubSeqProperties
<1>3. /\ SubSeq(s, i + 1, Len(s)) \in Seq(S) /\ Len(SubSeq(s, i + 1, Len(s))) = Len(s) - i
      /\ \A j \in 1..(Len(s) - i) : SubSeq(s, i + 1, Len(s))[j] = s[i + j]
  <2>1. i + 1 \in Int /\ Len(s) \in Int /\ \A j \in (i + 1)..Len(s) : s[j] \in S
    BY <1>1
  <2> DEFINE m == i + 1
  <2>2. /\ SubSeq(s, m, Len(s)) \in Seq(S)
        /\ Len(SubSeq(s, m, Len(s))) = IF m <= Len(s) THEN Len(s) - m + 1 ELSE 0
        /\ \A j \in 1..(Len(s) - m + 1) : SubSeq(s, m, Len(s))[j] = s[m + j - 1]
    <3> HIDE DEF m
    <3> QED BY <2>1, SubSeqProperties DEF m
  <2>3. (i + 1 <= Len(s) \/ Len(s) - i = 0) /\ 1..(Len(s) - m + 1) = 1..(Len(s) - i)
    BY <1>1
  <2>4. Len(SubSeq(s, m, Len(s))) = Len(s) - i
    BY <1>1, <2>2, <2>3
  <2>5. ASSUME NEW j \in 1..(Len(s) - i) PROVE SubSeq(s, m, Len(s))[j] = s[i + j]
    <3>1. m + j - 1 = i + j /\ j \in 1..(Len(s) - m + 1)
      BY <1>1
    <3>2. QED
      BY <2>2, <3>1
  <2>6. QED
    BY <2>2, <2>4, <2>5
<1> DEFINE a == SubSeq(s, 1, i - 1)
           b == SubSeq(s, i + 1, Len(s))
<1>4. RemoveAt(s, i) = a \o b
  BY DEF RemoveAt
<1>5. /\ a \in Seq(S) /\ Len(a) = i - 1 /\ b \in Seq(S) /\ Len(b) = Len(s) - i
      /\ \A j \in 1..(i - 1) : a[j] = s[j]
      /\ \A j \in 1..(Len(s) - i) : b[j] = s[i + j]
  BY <1>2, <1>3
<1> HIDE DEF a, b
<1>6. /\ RemoveAt(s, i) \in Seq(S)
      /\ Len(RemoveAt(s, i)) = (i - 1) + (Len(s) - i)
      /\ \A j \in 1..((i - 1) + (Len(s) - i)) :
           RemoveAt(s, i)[j] = IF j <= i - 1 THEN a[j]
                               ELSE b[j - (i - 1)]
  <2>1. /\ a \o b \in Seq(S) /\ Len(a \o b) = Len(a) + Len(b)
        /\ \A j \in 1..(Len(a) + Len(b)) :
             (a \o b)[j] = IF j <= Len(a) THEN a[j] ELSE b[j - Len(a)]
    BY <1>5, ConcatProperties
  <2>2. QED
    BY <1>5, <1>4, <2>1
<1>7. ASSUME NEW j \in 1..(Len(s) - 1)
      PROVE  RemoveAt(s, i)[j] = IF j < i THEN s[j] ELSE s[j + 1]
  <2>1. j \in 1..((i - 1) + (Len(s) - i)) /\ (j <= i - 1 <=> j < i)
    BY <1>1
  <2>2. CASE j < i
    <3>1. j \in 1..(i - 1)
      BY <2>2
    <3>2. QED
      BY <1>5, <1>6, <2>1, <2>2, <3>1
  <2>3. CASE ~(j < i)
    <3>1. j - (i - 1) \in 1..(Len(s) - i) /\ i + (j - (i - 1)) = j + 1
      BY <1>1, <2>3
    <3>2. QED
      BY <1>5, <1>6, <2>1, <2>3, <3>1
  <2>4. QED
    BY <2>2, <2>3
<1>8. QED
  BY <1>1, <1>6, <1>7

(* An element is put at i, before what was there.                          *)
LEMMA InsertAtProperties ==
  ASSUME NEW S, NEW s \in Seq(S), NEW i \in 1..(Len(s) + 1), NEW e \in S
  PROVE  /\ InsertAt(s, i, e) \in Seq(S)
         /\ Len(InsertAt(s, i, e)) = Len(s) + 1
         /\ \A j \in 1..(Len(s) + 1) :
              InsertAt(s, i, e)[j] = IF j < i THEN s[j] ELSE IF j = i THEN e ELSE s[j - 1]
<1>1. Len(s) \in Nat /\ \A j \in 1..Len(s) : s[j] \in S
  BY LenProperties, ElementOfSeq
<1>2. /\ SubSeq(s, 1, i - 1) \in Seq(S) /\ Len(SubSeq(s, 1, i - 1)) = i - 1
      /\ \A j \in 1..(i - 1) : SubSeq(s, 1, i - 1)[j] = s[j]
  <2>1. 1 \in Int /\ i - 1 \in Int /\ \A j \in 1..(i - 1) : s[j] \in S
    BY <1>1
  <2>2. i - 1 = (i - 1) - 1 + 1
    BY <2>1
  <2>3. QED
    BY <1>1, <2>1, <2>2, SubSeqProperties
<1>3. /\ SubSeq(s, i, Len(s)) \in Seq(S) /\ Len(SubSeq(s, i, Len(s))) = Len(s) - i + 1
      /\ \A j \in 1..(Len(s) - i + 1) : SubSeq(s, i, Len(s))[j] = s[i + j - 1]
  <2>1. i \in Int /\ Len(s) \in Int /\ \A j \in i..Len(s) : s[j] \in S
    BY <1>1
  <2>2. i <= Len(s) \/ Len(s) - i + 1 = 0
    BY <1>1
  <2>3. QED
    BY <1>1, <2>1, <2>2, SubSeqProperties
<1> DEFINE f == SubSeq(s, 1, i - 1) \o <<e>>
<1>4. <<e>> \in Seq(S) /\ Len(<<e>>) = 1 /\ <<e>>[1] = e
  OBVIOUS
<1>5. /\ f \in Seq(S) /\ Len(f) = i
      /\ \A j \in 1..i : f[j] = IF j < i THEN s[j] ELSE e
  <2>1. /\ f \in Seq(S) /\ Len(f) = (i - 1) + 1
        /\ \A j \in 1..((i - 1) + 1) :
             f[j] = IF j <= i - 1 THEN SubSeq(s, 1, i - 1)[j] ELSE <<e>>[j - (i - 1)]
    BY <1>2, <1>4, ConcatProperties
  <2>2. ASSUME NEW j \in 1..i PROVE f[j] = IF j < i THEN s[j] ELSE e
    <3>1. CASE j < i
      <4>1. j \in 1..(i - 1) /\ j <= i - 1 /\ j \in 1..((i - 1) + 1)
        BY <3>1
      <4>2. QED
        BY <1>2, <2>1, <3>1, <4>1
    <3>2. CASE ~(j < i)
      <4>1. j = i /\ ~(j <= i - 1) /\ j \in 1..((i - 1) + 1) /\ j - (i - 1) = 1
        BY <3>2
      <4>2. QED
        BY <1>4, <2>1, <3>2, <4>1
    <3>3. QED
      BY <3>1, <3>2
  <2>3. QED
    BY <2>1, <2>2
<1>6. InsertAt(s, i, e) = f \o SubSeq(s, i, Len(s))
  BY DEF InsertAt
<1> HIDE DEF f
<1>7. /\ InsertAt(s, i, e) \in Seq(S)
      /\ Len(InsertAt(s, i, e)) = i + (Len(s) - i + 1)
      /\ \A j \in 1..(i + (Len(s) - i + 1)) :
           InsertAt(s, i, e)[j] = IF j <= i THEN f[j] ELSE SubSeq(s, i, Len(s))[j - i]
  BY <1>3, <1>5, <1>6, ConcatProperties
<1>8. ASSUME NEW j \in 1..(Len(s) + 1)
      PROVE  InsertAt(s, i, e)[j] = IF j < i THEN s[j] ELSE IF j = i THEN e ELSE s[j - 1]
  <2>1. j \in 1..(i + (Len(s) - i + 1))
    BY <1>1
  <2>2. CASE j <= i
    <3>1. j \in 1..i /\ (j < i \/ j = i) /\ (j = i => ~(j < i))
      BY <2>2
    <3>2. QED
      BY <1>5, <1>7, <2>1, <2>2, <3>1
  <2>3. CASE ~(j <= i)
    <3>1. j - i \in 1..(Len(s) - i + 1) /\ i + (j - i) - 1 = j - 1 /\ ~(j < i) /\ j # i
      BY <1>1, <2>3
    <3>2. QED
      BY <1>3, <1>7, <2>1, <2>3, <3>1
  <2>4. QED
    BY <2>2, <2>3
<1>9. QED
  BY <1>1, <1>7, <1>8

(* RemoveFirst leaves a value out where it finds it.                       *)
LEMMA RemoveFirstProperties ==
  ASSUME NEW S, NEW s \in Seq(S), NEW v
  PROVE  \/ /\ RemoveFirst(s, v) = s
            /\ \A i \in 1..Len(s) : s[i] # v
         \/ \E p \in 1..Len(s) :
              /\ s[p] = v
              /\ RemoveFirst(s, v) \in Seq(S)
              /\ Len(RemoveFirst(s, v)) = Len(s) - 1
              /\ \A i \in 1..(Len(s) - 1) :
                   RemoveFirst(s, v)[i] = IF i < p THEN s[i] ELSE s[i + 1]
<1>1. CASE \E i \in 1..Len(s) : s[i] = v
  <2> DEFINE I == {i \in 1..Len(s) : s[i] = v}
             p == Min(I)
  <2>1. SelectInSeq(s, LAMBDA w : w = v) = p
    BY <1>1 DEF SelectInSeq
  <2>2. RemoveFirst(s, v) = RemoveAt(s, p)
    BY <1>1, <2>1 DEF RemoveFirst
  <2>3. I # {} /\ I \in SUBSET Nat
    BY <1>1
  <2>4. p \in I
    <3> HIDE DEF I
    <3> QED BY <2>3, MinProperties
  <2>5. p \in 1..Len(s) /\ s[p] = v
    BY <2>4
  <2> HIDE DEF p
  <2>6. QED
    <3>1. p \in 1..Len(s)
      BY <2>5
    <3>2. /\ RemoveAt(s, p) \in Seq(S) /\ Len(RemoveAt(s, p)) = Len(s) - 1
          /\ \A j \in 1..(Len(s) - 1) : RemoveAt(s, p)[j] = IF j < p THEN s[j] ELSE s[j + 1]
      BY <3>1, RemoveAtProperties
    <3>3. QED
      BY <2>2, <2>5, <3>2
<1>2. CASE ~\E i \in 1..Len(s) : s[i] = v
  BY <1>2 DEF RemoveFirst
<1>3. QED
  BY <1>1, <1>2

(* What Range collects, by place.                                           *)
LEMMA InRange ==
  ASSUME NEW S, NEW s \in Seq(S), NEW v
  PROVE  v \in Range(s) <=> \E i \in 1..Len(s) : s[i] = v
  BY LenProperties DEF Range

(* IsInjective of a sequence, by place: nothing is in it twice.            *)
LEMMA OncePerPlace ==
  ASSUME NEW S, NEW s \in Seq(S)
  PROVE  IsInjective(s) <=> \A i, j \in 1..Len(s) : s[i] = s[j] => i = j
<1>1. DOMAIN s = 1..Len(s)
  BY LenProperties
<1>2. QED
  BY <1>1 DEF IsInjective

(* The empty sequence has no elements.                                     *)
LEMMA NothingInEmpty ==
  \A u : u \notin Range(<<>>)
<1>1. <<>> \in Seq({}) /\ Len(<<>>) = 0
  BY EmptySeq
<1>2. \A u : u \in Range(<<>>) <=> \E i \in 1..Len(<<>>) : <<>>[i] = u
  BY <1>1, InRange
<1>3. QED
  BY <1>1, <1>2

(* An element put before a sequence.                                       *)
LEMMA PushProperties ==
  ASSUME NEW S, NEW s \in Seq(S), NEW e \in S
  PROVE  /\ <<e>> \o s \in Seq(S) /\ <<e>> \o s # <<>>
         /\ Head(<<e>> \o s) = e /\ Tail(<<e>> \o s) = s
<1>1. <<e>> \in Seq(S) /\ Len(<<e>>) = 1 /\ <<e>>[1] = e
  OBVIOUS
<1>2. /\ <<e>> \o s \in Seq(S) /\ Len(<<e>> \o s) = 1 + Len(s)
      /\ \A i \in 1..(1 + Len(s)) : (<<e>> \o s)[i] = IF i <= 1 THEN <<e>>[i] ELSE s[i - 1]
  BY <1>1, ConcatProperties
<1>3. Len(s) \in Nat /\ 1 \in 1..(1 + Len(s))
  BY LenProperties
<1>4. <<e>> \o s # <<>>
  BY <1>2, <1>3, EmptySeq
<1>5. (<<e>> \o s)[1] = e
  BY <1>1, <1>2, <1>3
<1> DEFINE q == <<e>> \o s
<1>6. Head(q) = q[1]
  <2> HIDE DEF q
  <2> QED OBVIOUS
<1>7. Tail(q) = s
  <2>1. q \in Seq(S) /\ q # <<>> /\ Len(q) = 1 + Len(s)
    BY <1>2, <1>4
  <2>2. /\ Tail(q) \in Seq(S) /\ Len(Tail(q)) = Len(q) - 1
        /\ \A i \in 1..Len(Tail(q)) : Tail(q)[i] = q[i + 1]
    <3> HIDE DEF q
    <3> QED BY <2>1, HeadTailProperties
  <2>3. Len(Tail(q)) = Len(s)
    BY <1>3, <2>1, <2>2
  <2>4. ASSUME NEW i \in 1..Len(s) PROVE q[i + 1] = s[i]
    <3>1. i + 1 \in 1..(1 + Len(s)) /\ ~(i + 1 <= 1) /\ (i + 1) - 1 = i
      BY <1>3
    <3>2. QED
      BY <1>2, <3>1
  <2>5. \A i \in 1..Len(Tail(q)) : Tail(q)[i] = s[i]
    BY <2>2, <2>3, <2>4
  <2>6. QED
    <3> HIDE DEF q
    <3> QED BY <2>2, <2>3, <2>5, SeqEqual
<1>8. QED
  BY <1>2, <1>4, <1>5, <1>6, <1>7

(* The elements of a sequence are the first and those after it.            *)
LEMMA HeadAndTail ==
  ASSUME NEW S, NEW s \in Seq(S), s # <<>>
  PROVE  /\ Head(s) \in S /\ Tail(s) \in Seq(S) /\ 1 \in 1..Len(s) /\ s[1] = Head(s)
         /\ \A u : u \in Range(s) <=> u = Head(s) \/ u \in Range(Tail(s))
         /\ \A i \in 1..Len(Tail(s)) : i + 1 \in 1..Len(s) /\ Tail(s)[i] = s[i + 1]
<1>1. /\ Head(s) \in S /\ Tail(s) \in Seq(S) /\ Len(Tail(s)) = Len(s) - 1
      /\ \A i \in 1..Len(Tail(s)) : Tail(s)[i] = s[i + 1]
  BY HeadTailProperties
<1>2. Len(s) \in Nat \ {0}
  BY EmptySeq
<1>3. 1 \in 1..Len(s) /\ s[1] = Head(s)
  BY <1>2
<1>4. \A i \in 1..Len(Tail(s)) : i + 1 \in 1..Len(s)
  BY <1>1, <1>2
<1>5. \A u : u \in Range(s) <=> \E i \in 1..Len(s) : s[i] = u
  BY InRange
<1>6. \A u : u \in Range(Tail(s)) <=> \E i \in 1..Len(Tail(s)) : Tail(s)[i] = u
  BY <1>1, InRange
<1>7. ASSUME NEW u, u \in Range(s), u # Head(s) PROVE u \in Range(Tail(s))
  <2>1. PICK i \in 1..Len(s) : s[i] = u /\ i # 1
    BY <1>3, <1>5, <1>7
  <2>2. i - 1 \in 1..Len(Tail(s)) /\ (i - 1) + 1 = i
    BY <1>1, <1>2, <2>1
  <2>3. Tail(s)[i - 1] = u
    BY <1>1, <2>1, <2>2
  <2>4. QED
    BY <1>6, <2>2, <2>3
<1>8. ASSUME NEW u, u \in Range(Tail(s)) PROVE u \in Range(s)
  <2>1. PICK i \in 1..Len(Tail(s)) : Tail(s)[i] = u
    BY <1>6, <1>8
  <2>2. s[i + 1] = u /\ i + 1 \in 1..Len(s)
    BY <1>1, <1>4, <2>1
  <2>3. QED
    BY <1>5, <2>2
<1>9. Head(s) \in Range(s)
  BY <1>3, <1>5
<1>10. QED
  BY <1>1, <1>3, <1>4, <1>7, <1>8, <1>9

-----------------------------------------------------------------------------
(* The inductive invariant.                                                *)

Sorted(h, tm) == \A i, j \in 1..Len(h) : i < j => tm[h[i]] <= tm[h[j]]

(* The heap is in order, and what is in it has a time.                     *)
HeapTimed == \A t \in Range(heap) : time[t] # None
HeapSorted == Sorted(heap, time)

(* A timer that was dropped stays so until it is set again.                *)
NoneForgotten == dropped \cap (Range(heap) \cup Ready) = {}

(* Whoever sets the WM_TIMER also sets the last chance timer.              *)
LastChanceComes == shared.wm # None => shared.lastChance

(* While timers are fired, what was collected was due when the innermost   *)
(* call began, and what is in the heap was not, or was set since.          *)
CollectedFirst ==
  ready # Off =>
    /\ \A t \in ready : time[t] # None /\ time[t] <= -Top.elapsed
    /\ \A u \in Range(heap) : time[u] >= -Top.elapsed

(* What is ready is reached in the order of its times.                     *)
RestSorted ==
  ready # Off =>
    \A i, j \in 1..Len(Top.rest) :
      i < j /\ Top.rest[i] \in ready /\ Top.rest[j] \in ready
        => time[Top.rest[i]] <= time[Top.rest[j]]

(* Every call but the innermost is in the fired() of a timer, and a loop   *)
(* that goes on has a ready set to look at.                                *)
OthersFiring == stack # <<>> => \A f \in Range(Tail(stack)) : f.firing
LoopIsReady == stack # <<>> /\ ~Top.firing /\ Top.rest # <<>> => ready # Off

TimersInv ==
  /\ TypeOK
  /\ HeapTimed /\ HeapSorted
  /\ StartedIsActive /\ NoneForgotten
  /\ CollectedFirst /\ RestSorted
  /\ OthersFiring /\ LoopIsReady
  /\ SharedTimerArmed /\ LastChanceComes

-----------------------------------------------------------------------------
(* The heap.                                                               *)

(* A time that is set is a number within its bounds.                       *)
LEMMA TimesAreNumbers ==
  ASSUME TypeOK
  PROVE  /\ MaxDelay \in Nat /\ MaxLate \in Nat
         /\ \A t \in Timers : time[t] # None =>
              time[t] \in Int /\ time[t] >= -MaxLate /\ time[t] <= MaxDelay
         /\ \A d \in Times : d \in Int /\ d # None
  BY TimersAssumption DEF TypeOK, Times

(* t is taken out of the heap: the others stay, in order, and the first of *)
(* them stays first unless it was t.                                       *)
LEMMA RemovedProperties ==
  ASSUME NEW h \in Seq(Timers), IsInjective(h), NEW tm, Sorted(h, tm), NEW t \in Timers
  PROVE  LET r == RemoveFirst(h, t) IN
         /\ r \in Seq(Timers) /\ IsInjective(r) /\ Sorted(r, tm)
         /\ \A u : u \in Range(r) <=> u \in Range(h) /\ u # t
         /\ r # <<>> /\ ~IsFirst(t, h) => h # <<>> /\ Head(r) = Head(h)
<1> DEFINE r == RemoveFirst(h, t)
<1>1. Len(h) \in Nat /\ \A i \in 1..Len(h) : h[i] \in Timers
  BY LenProperties, ElementOfSeq
<1>2. \A i, j \in 1..Len(h) : h[i] = h[j] => i = j
  BY OncePerPlace
<1>3. \A u : u \in Range(h) <=> \E i \in 1..Len(h) : h[i] = u
  BY InRange
<1>4. CASE r = h /\ \A i \in 1..Len(h) : h[i] # t
  BY <1>3, <1>4
<1>5. ASSUME NEW p \in 1..Len(h), h[p] = t, r \in Seq(Timers), Len(r) = Len(h) - 1,
             \A i \in 1..(Len(h) - 1) : r[i] = IF i < p THEN h[i] ELSE h[i + 1]
      PROVE  /\ r \in Seq(Timers) /\ IsInjective(r) /\ Sorted(r, tm)
             /\ \A u : u \in Range(r) <=> u \in Range(h) /\ u # t
             /\ r # <<>> /\ ~IsFirst(t, h) => h # <<>> /\ Head(r) = Head(h)
  <2> HIDE DEF r
  <2> DEFINE from(i) == IF i < p THEN i ELSE i + 1
  <2>1. \A i \in 1..Len(r) : from(i) \in 1..Len(h) /\ from(i) # p /\ r[i] = h[from(i)]
    BY <1>1, <1>5
  <2>2. \A i, j \in 1..Len(r) : (i < j => from(i) < from(j)) /\ (from(i) = from(j) => i = j)
    BY <1>1, <1>5
  <2>3. \A k \in 1..Len(h) : k # p => \E i \in 1..Len(r) : from(i) = k
    <3> SUFFICES ASSUME NEW k \in 1..Len(h), k # p PROVE \E i \in 1..Len(r) : from(i) = k
      OBVIOUS
    <3>1. CASE k < p
      <4>1. k \in 1..Len(r) /\ from(k) = k
        BY <1>1, <1>5, <3>1
      <4>2. QED
        BY <4>1
    <3>2. CASE ~(k < p)
      <4>1. k - 1 \in 1..Len(r) /\ from(k - 1) = k
        BY <1>1, <1>5, <3>2
      <4>2. QED
        BY <4>1
    <3>3. QED
      BY <3>1, <3>2
  <2>4. Len(r) > 0 => 1 \in 1..Len(r) /\ 1 \in 1..Len(h) /\ (p # 1 => from(1) = 1)
    BY <1>1, <1>5
  <2> HIDE DEF from
  <2>5. IsInjective(r)
    <3>1. \A i, j \in 1..Len(r) : r[i] = r[j] => i = j
      BY <1>2, <2>1, <2>2
    <3>2. QED
      BY <1>5, <3>1, OncePerPlace
  <2>6. Sorted(r, tm)
    BY <2>1, <2>2 DEF Sorted
  <2>7. \A u : u \in Range(r) <=> u \in Range(h) /\ u # t
    <3>1. \A u : u \in Range(r) <=> \E i \in 1..Len(r) : r[i] = u
      BY <1>5, InRange
    <3>2. \A u : u \in Range(r) => u \in Range(h) /\ u # t
      BY <1>2, <1>3, <1>5, <2>1, <3>1
    <3>3. \A u : u \in Range(h) /\ u # t => u \in Range(r)
      <4> SUFFICES ASSUME NEW u, u \in Range(h), u # t PROVE u \in Range(r)
        OBVIOUS
      <4>1. PICK k \in 1..Len(h) : h[k] = u /\ k # p
        BY <1>3, <1>5
      <4>2. PICK i \in 1..Len(r) : from(i) = k
        BY <2>3, <4>1
      <4>3. r[i] = u
        BY <2>1, <4>1, <4>2
      <4>4. QED
        BY <3>1, <4>3
    <3>4. QED
      BY <3>2, <3>3
  <2>8. ASSUME r # <<>>, ~IsFirst(t, h) PROVE h # <<>> /\ Head(r) = Head(h)
    <3>1. Len(r) > 0 /\ Head(r) = r[1] /\ h # <<>> /\ Head(h) = h[1]
      BY <1>1, <1>5, <2>8, EmptySeq, HeadTailProperties, LenProperties
    <3>2. p # 1
      BY <1>5, <2>8, <3>1 DEF IsFirst
    <3>3. QED
      BY <2>1, <2>4, <3>1, <3>2
  <2>9. QED
    BY <1>5, <2>5, <2>6, <2>7, <2>8
<1>6. (r = h /\ \A i \in 1..Len(h) : h[i] # t) \/
      \E p \in 1..Len(h) :
         /\ h[p] = t
         /\ r \in Seq(Timers)
         /\ Len(r) = Len(h) - 1
         /\ \A i \in 1..(Len(h) - 1) : r[i] = IF i < p THEN h[i] ELSE h[i + 1]
  BY RemoveFirstProperties
<1>7. QED
  BY <1>4, <1>5, <1>6

(* Until is where the timers that fire at d or before end: the smallest    *)
(* place that is the end or whose timer fires later.                       *)
LEMMA UntilProperties ==
  ASSUME NEW h \in Seq(Timers), NEW d \in Int,
         \A i \in 1..Len(h) : time[h[i]] \in Int
  PROVE  /\ Until(h, d) \in 0..Len(h)
         /\ \A i \in 1..Until(h, d) : time[h[i]] <= d
         /\ Until(h, d) < Len(h) => time[h[Until(h, d) + 1]] > d
<1> DEFINE N == {n \in 0..Len(h) : n < Len(h) => time[h[n + 1]] > d}
           P(n) == /\ \A i \in 1..n : time[h[i]] <= d
                   /\ n < Len(h) => time[h[n + 1]] > d
<1>1. Len(h) \in Nat
  BY LenProperties
<1>2. N \subseteq Nat /\ Len(h) \in N
  BY <1>1
<1>3. \E n \in N : \A k \in N : n <= k
  <2> HIDE DEF N
  <2> QED BY <1>2, SmallestExists
<1>4. PICK n \in N : \A k \in N : n <= k
  BY <1>3
<1>5. n \in 0..Len(h) /\ (n < Len(h) => time[h[n + 1]] > d)
  OBVIOUS
<1>6. ASSUME NEW i \in 1..n PROVE time[h[i]] <= d
  <2>1. i - 1 \in 0..Len(h) /\ i - 1 < Len(h) /\ (i - 1) + 1 = i /\ i \in 1..Len(h) /\ ~(n <= i - 1)
    BY <1>1, <1>5
  <2>2. i - 1 \notin N
    BY <1>4, <2>1
  <2>3. ~(time[h[(i - 1) + 1]] > d)
    BY <2>1, <2>2
  <2>4. ~(time[h[i]] > d) /\ time[h[i]] \in Int
    BY <2>1, <2>3
  <2>5. QED
    BY <2>4
<1>7. \E k \in 0..Len(h) : P(k)
  BY <1>5, <1>6
<1>8. Until(h, d) = CHOOSE k \in 0..Len(h) : P(k)
  BY DEF Until
<1>9. Until(h, d) \in 0..Len(h) /\ P(Until(h, d))
  <2> HIDE DEF P
  <2> QED BY <1>7, <1>8
<1>10. QED
  BY <1>9

(* t is put in at its place: the heap is in order again, and its first is  *)
(* t or what it was.                                                       *)
LEMMA InsertedProperties ==
  ASSUME NEW h \in Seq(Timers), IsInjective(h), Sorted(h, time),
         \A i \in 1..Len(h) : time[h[i]] \in Int,
         NEW t \in Timers, t \notin Range(h), NEW d \in Int,
         time \in [Timers -> Times \cup {None}]
  PROVE  LET g == InsertAt(h, Until(h, d) + 1, t)
             tm == [time EXCEPT ![t] = d] IN
         /\ g \in Seq(Timers) /\ IsInjective(g) /\ Sorted(g, tm)
         /\ \A u : u \in Range(g) <=> u \in Range(h) \/ u = t
         /\ g # <<>>
         /\ ~IsFirst(t, g) => h # <<>> /\ Head(g) = Head(h)
<1> DEFINE n == Until(h, d)
           p == n + 1
           g == InsertAt(h, p, t)
           tm == [time EXCEPT ![t] = d]
           from(j) == IF j < p THEN j ELSE j - 1
<1>1. Len(h) \in Nat /\ \A i \in 1..Len(h) : h[i] \in Timers
  BY LenProperties, ElementOfSeq
<1>2. \A i, j \in 1..Len(h) : h[i] = h[j] => i = j
  BY OncePerPlace
<1>3. \A u : u \in Range(h) <=> \E i \in 1..Len(h) : h[i] = u
  BY InRange
<1>4. /\ n \in 0..Len(h)
      /\ \A i \in 1..n : time[h[i]] <= d
      /\ n < Len(h) => time[h[n + 1]] > d
  BY UntilProperties
<1> HIDE DEF n
<1>5. p \in 1..(Len(h) + 1)
  BY <1>1, <1>4
<1> HIDE DEF p
<1>6. /\ g \in Seq(Timers) /\ Len(g) = Len(h) + 1
      /\ \A j \in 1..(Len(h) + 1) : g[j] = IF j < p THEN h[j] ELSE IF j = p THEN t ELSE h[j - 1]
  BY <1>5, InsertAtProperties
<1> HIDE DEF g
<1>7. \A j \in 1..Len(g) : j # p => from(j) \in 1..Len(h) /\ g[j] = h[from(j)]
  BY <1>1, <1>5, <1>6
<1>8. p \in 1..Len(g) /\ g[p] = t
  BY <1>1, <1>5, <1>6
<1>9. \A i, j \in 1..Len(g) : i # p /\ j # p => (i < j => from(i) < from(j)) /\ (from(i) = from(j) => i = j)
  BY <1>1, <1>5, <1>6
<1>10. \A k \in 1..Len(h) : \E j \in 1..Len(g) : j # p /\ from(j) = k
  <2> SUFFICES ASSUME NEW k \in 1..Len(h) PROVE \E j \in 1..Len(g) : j # p /\ from(j) = k
    OBVIOUS
  <2>1. CASE k < p
    <3>1. k \in 1..Len(g) /\ k # p /\ from(k) = k
      BY <1>1, <1>5, <1>6, <2>1
    <3>2. QED
      BY <3>1
  <2>2. CASE ~(k < p)
    <3>1. k + 1 \in 1..Len(g) /\ k + 1 # p /\ from(k + 1) = k
      BY <1>1, <1>5, <1>6, <2>2
    <3>2. QED
      BY <3>1
  <2>3. QED
    BY <2>1, <2>2
<1>11. \A j \in 1..Len(g) : /\ j < p => from(j) \in 1..n
                            /\ j > p => from(j) \in (n + 1)..Len(h) /\ n < Len(h)
                            /\ j < p \/ j = p \/ j > p
  BY <1>1, <1>4, <1>5, <1>6 DEF p
<1>12. (p # 1 => from(1) = 1) /\ 1 \in 1..Len(g) /\ Len(g) > 0
  BY <1>1, <1>5, <1>6
<1>13. \A k \in 1..Len(h) : h[k] # t /\ tm[h[k]] = time[h[k]]
  BY <1>1, <1>3
<1>14. tm[t] = d
  OBVIOUS
<1> HIDE DEF tm, from
<1>15. IsInjective(g)
  <2>1. \A j \in 1..Len(g) : g[j] = t => j = p
    BY <1>7, <1>13
  <2>2. \A i, j \in 1..Len(g) : i # p /\ j # p /\ g[i] = g[j] => i = j
    BY <1>2, <1>7, <1>9
  <2>3. \A i, j \in 1..Len(g) : g[i] = g[j] => i = j
    BY <1>8, <2>1, <2>2
  <2>4. QED
    BY <1>6, <2>3, OncePerPlace
<1>16. \A k \in (n + 1)..Len(h) : n < Len(h) => time[h[k]] >= d
  <2> SUFFICES ASSUME NEW k \in (n + 1)..Len(h), n < Len(h) PROVE time[h[k]] >= d
    OBVIOUS
  <2>1. n + 1 \in 1..Len(h) /\ k \in 1..Len(h) /\ (k = n + 1 \/ n + 1 < k)
    BY <1>1, <1>4
  <2>2. time[h[n + 1]] \in Int /\ time[h[k]] \in Int /\ time[h[n + 1]] > d
    BY <1>4, <2>1
  <2>3. k = n + 1 \/ time[h[n + 1]] <= time[h[k]]
    BY <2>1 DEF Sorted
  <2>4. CASE k = n + 1
    BY <2>2, <2>4
  <2>5. CASE time[h[n + 1]] <= time[h[k]]
    BY <2>2, <2>5
  <2>6. QED
    BY <2>3, <2>4, <2>5
<1>17. Sorted(g, tm)
  <2> SUFFICES ASSUME NEW i \in 1..Len(g), NEW j \in 1..Len(g), i < j PROVE tm[g[i]] <= tm[g[j]]
    BY DEF Sorted
  <2>1. CASE i # p /\ j # p
    <3>1. /\ from(i) \in 1..Len(h) /\ from(j) \in 1..Len(h) /\ from(i) < from(j)
          /\ g[i] = h[from(i)] /\ g[j] = h[from(j)]
      BY <1>7, <1>9, <2>1
    <3>2. time[h[from(i)]] <= time[h[from(j)]]
      BY <3>1 DEF Sorted
    <3>3. QED
      BY <1>13, <3>1, <3>2
  <2>2. CASE i = p
    <3>1. j > p /\ j # p
      BY <2>2
    <3>2. from(j) \in (n + 1)..Len(h) /\ n < Len(h) /\ from(j) \in 1..Len(h) /\ g[j] = h[from(j)]
      BY <1>7, <1>11, <3>1
    <3>3. tm[g[j]] >= d
      BY <1>13, <1>16, <3>2
    <3>4. tm[g[i]] = d /\ tm[g[j]] \in Int
      BY <1>8, <1>13, <1>14, <2>2, <3>2
    <3>5. QED
      BY <3>3, <3>4
  <2>3. CASE j = p
    <3>1. i < p /\ i # p
      BY <1>5, <2>3
    <3>2. from(i) \in 1..n /\ from(i) \in 1..Len(h) /\ g[i] = h[from(i)]
      BY <1>7, <1>11, <3>1
    <3>3. tm[g[i]] <= d
      BY <1>4, <1>13, <3>2
    <3>4. QED
      BY <1>8, <1>14, <2>3, <3>3
  <2>4. QED
    BY <2>1, <2>2, <2>3
<1>18. \A u : u \in Range(g) <=> u \in Range(h) \/ u = t
  <2>1. \A u : u \in Range(g) <=> \E i \in 1..Len(g) : g[i] = u
    BY <1>6, InRange
  <2>2. \A u : u \in Range(g) => u \in Range(h) \/ u = t
    BY <1>3, <1>7, <1>8, <2>1
  <2>3. \A u : u \in Range(h) => u \in Range(g)
    BY <1>3, <1>7, <1>10, <2>1
  <2>4. t \in Range(g)
    BY <1>8, <2>1
  <2>5. QED
    BY <2>2, <2>3, <2>4
<1>19. g # <<>>
  BY <1>6, <1>12, EmptySeq
<1>20. ASSUME ~IsFirst(t, g) PROVE h # <<>> /\ Head(g) = Head(h)
  <2>1. Head(g) = g[1]
    BY <1>6, <1>19, HeadTailProperties
  <2>2. p # 1
    BY <1>8, <1>19, <1>20, <2>1 DEF IsFirst
  <2>3. 1 \in 1..Len(h) /\ g[1] = h[1]
    BY <1>7, <1>12, <2>2
  <2>4. h # <<>>
    BY <2>3, EmptySeq
  <2>5. QED
    BY <2>1, <2>3, <2>4, HeadTailProperties
<1>21. QED
  BY <1>6, <1>15, <1>17, <1>18, <1>19, <1>20 DEF g, tm, p, n

(* The heap after setNextFireTime has put t at its place.                  *)
LEMMA PlacedProperties ==
  ASSUME TypeOK, HeapTimed, HeapSorted, NEW t \in Timers, NEW d \in Times \cup {None}
  PROVE  LET g == Placed(t, d)
             tm == [time EXCEPT ![t] = d] IN
         /\ g \in Seq(Timers) /\ IsInjective(g) /\ Sorted(g, tm)
         /\ \A u : u \in Range(g) <=> (u \in Range(heap) /\ u # t) \/ (u = t /\ d # None)
         /\ g # <<>> /\ ~IsFirst(t, heap) /\ ~IsFirst(t, g)
              => heap # <<>> /\ Head(g) = Head(heap)
<1> DEFINE h == RemoveFirst(heap, t)
           tm == [time EXCEPT ![t] = d]
<1>1. heap \in Seq(Timers) /\ IsInjective(heap) /\ Sorted(heap, time)
  BY DEF TypeOK, HeapSorted
<1>2. /\ h \in Seq(Timers) /\ IsInjective(h) /\ Sorted(h, time)
      /\ \A u : u \in Range(h) <=> u \in Range(heap) /\ u # t
      /\ h # <<>> /\ ~IsFirst(t, heap) => heap # <<>> /\ Head(h) = Head(heap)
  BY <1>1, RemovedProperties
<1> HIDE DEF h
<1>3. \A u \in Range(h) : u \in Timers /\ time[u] \in Int /\ u # t
  <2>1. \A i \in 1..Len(heap) : heap[i] \in Timers
    BY <1>1, ElementOfSeq
  <2>2. \A u \in Range(heap) : u \in Timers
    BY <1>1, <2>1, InRange
  <2>3. QED
    BY <1>2, <2>2, TimesAreNumbers DEF HeapTimed
<1>4. \A i \in 1..Len(h) : h[i] \in Range(h)
  BY <1>2, InRange
<1>5. time \in [Timers -> Times \cup {None}]
  BY DEF TypeOK
<1>6. CASE d = None
  <2>1. Placed(t, d) = h
    BY <1>6 DEF Placed, h
  <2>2. \A i \in 1..Len(h) : tm[h[i]] = time[h[i]]
    BY <1>3, <1>4, <1>5
  <2>3. Sorted(h, tm)
    BY <1>2, <2>2 DEF Sorted
  <2>4. QED
    BY <1>2, <1>6, <2>1, <2>3
<1>7. CASE d # None
  <2>1. d \in Int
    BY <1>7, TimesAreNumbers
  <2>2. Placed(t, d) = InsertAt(h, Until(h, d) + 1, t)
    BY <1>7 DEF Placed, h
  <2> DEFINE g == InsertAt(h, Until(h, d) + 1, t)
  <2>3. \A i \in 1..Len(h) : time[h[i]] \in Int
    BY <1>3, <1>4
  <2>4. t \notin Range(h)
    BY <1>2
  <2>5. /\ g \in Seq(Timers) /\ IsInjective(g) /\ Sorted(g, tm)
        /\ \A u : u \in Range(g) <=> u \in Range(h) \/ u = t
        /\ g # <<>>
        /\ ~IsFirst(t, g) => h # <<>> /\ Head(g) = Head(h)
    <3>1. h \in Seq(Timers) /\ IsInjective(h) /\ Sorted(h, time)
      BY <1>2
    <3> HIDE DEF HeapTimed, HeapSorted, TypeOK
    <3>2. QED
      BY <1>5, <2>1, <2>3, <2>4, <3>1, InsertedProperties
  <2> HIDE DEF g, tm
  <2>6. \A u : u \in Range(g) <=> (u \in Range(heap) /\ u # t) \/ (u = t /\ d # None)
    BY <1>2, <1>7, <2>5
  <2>7. ~IsFirst(t, heap) /\ ~IsFirst(t, g) => heap # <<>> /\ Head(g) = Head(heap)
    BY <1>2, <2>5
  <2>8. Placed(t, d) = g
    BY <2>2 DEF g
  <2>9. QED
    BY <2>5, <2>6, <2>7, <2>8 DEF tm
<1>8. QED
  BY <1>6, <1>7

(* What setNextFireTime does: either the shared timer is updated, or the   *)
(* head of the heap and its time are what they were.                       *)
LEMMA SetProperties ==
  ASSUME TypeOK, HeapTimed, HeapSorted, NEW t \in Timers, NEW d \in Times \cup {None},
         setNextFireTime(t, d)
  PROVE  /\ time' \in [Timers -> Times \cup {None}] /\ time' = [time EXCEPT ![t] = d]
         /\ heap' \in Seq(Timers) /\ IsInjective(heap') /\ Sorted(heap', time')
         /\ \A u : u \in Range(heap') <=> (u \in Range(heap) /\ u # t) \/ (u = t /\ d # None)
         /\ ready' = IF ready = Off THEN Off ELSE ready \ {t}
         /\ dropped' = dropped \ {t}
         /\ \/ shared' \in updateSharedTimer(ready', heap', time')
            \/ /\ shared' = shared
               /\ heap' # <<>> => /\ heap # <<>> /\ Head(heap') = Head(heap)
                                  /\ time'[Head(heap)] = time[Head(heap)]
<1>1. time \in [Timers -> Times \cup {None}] /\ heap \in Seq(Timers) /\ IsInjective(heap) /\ Sorted(heap, time)
  BY DEF TypeOK, HeapSorted
<1>2. time' = [time EXCEPT ![t] = d] /\ time' \in [Timers -> Times \cup {None}]
  BY <1>1 DEF setNextFireTime
<1>3. /\ ready' = IF ready = Off THEN Off ELSE ready \ {t}
      /\ dropped' = dropped \ {t}
  BY DEF setNextFireTime
<1>4. CASE heap' = Placed(t, d) /\ shared' \in IF IsFirst(t, heap) \/ IsFirst(t, heap')
                       THEN updateSharedTimer(ready', heap', time') ELSE {shared}
  <2>1. /\ heap' \in Seq(Timers) /\ IsInjective(heap') /\ Sorted(heap', time')
        /\ \A u : u \in Range(heap') <=> (u \in Range(heap) /\ u # t) \/ (u = t /\ d # None)
        /\ heap' # <<>> /\ ~IsFirst(t, heap) /\ ~IsFirst(t, heap')
              => heap # <<>> /\ Head(heap') = Head(heap)
    BY <1>2, <1>4, PlacedProperties
  <2>2. CASE shared' \in updateSharedTimer(ready', heap', time')
    BY <1>2, <1>3, <2>1, <2>2
  <2>3. CASE ~IsFirst(t, heap) /\ ~IsFirst(t, heap') /\ shared' = shared
    <3>1. ASSUME heap' # <<>>
          PROVE  heap # <<>> /\ Head(heap') = Head(heap) /\ time'[Head(heap)] = time[Head(heap)]
      <4>1. heap # <<>> /\ Head(heap') = Head(heap)
        BY <2>1, <2>3, <3>1
      <4>2. Head(heap) \in Timers
        BY <1>1, <4>1, HeadTailProperties
      <4>3. Head(heap) # t
        BY <2>3, <4>1 DEF IsFirst
      <4>4. time'[Head(heap)] = time[Head(heap)]
        BY <1>1, <1>2, <4>2, <4>3
      <4>5. QED
        BY <4>1, <4>4
    <3>2. QED
      BY <1>2, <1>3, <2>1, <2>3, <3>1
  <2>4. QED
    BY <1>4, <2>2, <2>3
<1>5. CASE InHeap(t) /\ time[t] = d /\ UNCHANGED <<heap, shared>>
  <2>1. t \in Range(heap) /\ d # None
    BY <1>5 DEF InHeap, HeapTimed
  <2>2. time' = time
    BY <1>1, <1>2, <1>5
  <2>3. QED
    BY <1>1, <1>2, <1>3, <1>5, <2>1, <2>2
<1>6. QED
  BY <1>4, <1>5 DEF setNextFireTime

-----------------------------------------------------------------------------
(* The shared timer.                                                       *)

(* The shared timer s will come for a timer that fires at d.               *)
ArmedFor(s, d) ==
  \/ s.posted
  \/ s.wm = Lost /\ s.lastChance
  \/ s.wm \in Nat /\ s.wm <= Max({d, 0})

(* updateSharedTimer arms the shared timer for the head of the heap,       *)
(* unless timers are being fired or none is set.                           *)
LEMMA UpdateProperties ==
  ASSUME TypeOK, NEW r, NEW h \in Seq(Timers), NEW tm \in [Timers -> Times \cup {None}],
         h # <<>> => tm[Head(h)] # None, NEW s \in updateSharedTimer(r, h, tm)
  PROVE  /\ s \in SharedTimers
         /\ s.wm # None => s.lastChance
         /\ r = Off /\ h # <<>> => ArmedFor(s, tm[Head(h)])
<1>1. shared \in SharedTimers
  BY DEF TypeOK
<1>2. CASE s = stopSharedTimer /\ (r # Off \/ h = <<>>)
  <2>1. s \in SharedTimers /\ s.wm = None
    BY <1>1, <1>2 DEF stopSharedTimer, SharedTimers
  <2>2. QED
    BY <1>2, <2>1
<1>3. CASE h # <<>> /\ s \in setSharedTimerFireTime(tm[Head(h)])
  <2>1. PICK d \in Times : d = tm[Head(h)]
    <3>1. Head(h) \in Timers
      BY <1>3, HeadTailProperties
    <3>2. QED
      BY <1>3, <3>1
  <2>2. d \in Int /\ d <= MaxDelay /\ MaxDelay \in Nat
    BY TimersAssumption DEF Times
  <2>3. PICK m \in Nat : m = Max({d, 0}) /\ m <= MaxDelay
    BY <2>2, MaxProperties
  <2>4. m \in Delays /\ None \in Delays \cup {None, Lost} /\ m \in Delays \cup {None, Lost}
    BY <2>2, <2>3 DEF Delays
  <2>5. s = [shared EXCEPT !.wm = m, !.lastChance = TRUE] \/ s = [shared EXCEPT !.posted = TRUE, !.wm = None]
    BY <1>3, <2>1, <2>3 DEF setSharedTimerFireTime
  <2>6. CASE s = [shared EXCEPT !.wm = m, !.lastChance = TRUE]
    <3>1. s \in SharedTimers /\ s.wm = m /\ s.lastChance
      BY <1>1, <2>4, <2>6 DEF SharedTimers
    <3>2. s.wm <= Max({d, 0})
      BY <2>3, <3>1
    <3>3. QED
      BY <2>1, <3>1, <3>2 DEF ArmedFor
  <2>7. CASE s = [shared EXCEPT !.posted = TRUE, !.wm = None]
    <3>1. s \in SharedTimers /\ s.wm = None /\ s.posted
      BY <1>1, <2>4, <2>7 DEF SharedTimers
    <3>2. QED
      BY <3>1 DEF ArmedFor
  <2>8. QED
    BY <2>5, <2>6, <2>7
<1>4. QED
  BY <1>2, <1>3 DEF updateSharedTimer

(* collectFiringTimers splits the heap: what is due is in order, and       *)
(* nothing that is due is left.                                            *)
LEMMA DueProperties ==
  ASSUME TypeOK, HeapTimed, HeapSorted
  PROVE  /\ Due \in Seq(Timers) /\ Sorted(Due, time)
         /\ NotDue \in Seq(Timers) /\ IsInjective(NotDue) /\ Sorted(NotDue, time)
         /\ \A u : u \in Range(heap) <=> u \in Range(Due) \/ u \in Range(NotDue)
         /\ \A u : ~(u \in Range(Due) /\ u \in Range(NotDue))
         /\ \A u \in Range(Due) : time[u] <= 0
         /\ \A u \in Range(NotDue) : time[u] >= 0
<1> DEFINE n == Until(heap, 0)
<1>1. heap \in Seq(Timers) /\ IsInjective(heap) /\ Sorted(heap, time)
  BY DEF TypeOK, HeapSorted
<1>2. Len(heap) \in Nat /\ \A i \in 1..Len(heap) : heap[i] \in Timers
  BY <1>1, LenProperties, ElementOfSeq
<1>3. \A u : u \in Range(heap) <=> \E i \in 1..Len(heap) : heap[i] = u
  BY <1>1, InRange
<1>4. \A i, j \in 1..Len(heap) : heap[i] = heap[j] => i = j
  BY <1>1, OncePerPlace
<1>5. \A i \in 1..Len(heap) : time[heap[i]] \in Int
  BY <1>2, <1>3, TimesAreNumbers DEF HeapTimed
<1>6. /\ n \in 0..Len(heap)
      /\ \A i \in 1..n : time[heap[i]] <= 0
      /\ n < Len(heap) => time[heap[n + 1]] > 0
  BY <1>1, <1>5, UntilProperties
<1>7. Due = SubSeq(heap, 1, n) /\ NotDue = SubSeq(heap, n + 1, Len(heap))
  BY DEF Due, NotDue
<1> HIDE DEF n
<1>8. /\ Due \in Seq(Timers) /\ Len(Due) = n
      /\ \A i \in 1..n : Due[i] = heap[i] /\ i \in 1..Len(heap)
  <2>1. 1 \in Int /\ n \in Int /\ \A i \in 1..n : heap[i] \in Timers
    BY <1>2, <1>6
  <2>2. /\ SubSeq(heap, 1, n) \in Seq(Timers)
        /\ Len(SubSeq(heap, 1, n)) = IF 1 <= n THEN n - 1 + 1 ELSE 0
        /\ \A i \in 1..(n - 1 + 1) : SubSeq(heap, 1, n)[i] = heap[1 + i - 1]
    BY <2>1, SubSeqProperties
  <2>3. Len(SubSeq(heap, 1, n)) = n
    BY <1>2, <1>6, <2>2
  <2>4. ASSUME NEW i \in 1..n PROVE SubSeq(heap, 1, n)[i] = heap[i] /\ i \in 1..Len(heap)
    <3>1. i \in 1..(n - 1 + 1) /\ 1 + i - 1 = i /\ i \in 1..Len(heap)
      BY <1>2, <1>6
    <3>2. QED
      BY <2>2, <3>1
  <2>5. QED
    BY <1>7, <2>2, <2>3, <2>4
<1>9. /\ NotDue \in Seq(Timers) /\ Len(NotDue) = Len(heap) - n
      /\ \A i \in 1..(Len(heap) - n) : NotDue[i] = heap[n + i] /\ n + i \in 1..Len(heap)
  <2> DEFINE m == n + 1
  <2>1. m \in Int /\ Len(heap) \in Int /\ \A i \in m..Len(heap) : heap[i] \in Timers
    BY <1>2, <1>6
  <2>2. /\ SubSeq(heap, m, Len(heap)) \in Seq(Timers)
        /\ Len(SubSeq(heap, m, Len(heap))) = IF m <= Len(heap) THEN Len(heap) - m + 1 ELSE 0
        /\ \A i \in 1..(Len(heap) - m + 1) : SubSeq(heap, m, Len(heap))[i] = heap[m + i - 1]
    <3> HIDE DEF m
    <3> QED BY <2>1, SubSeqProperties
  <2>3. (m <= Len(heap) => Len(heap) - m + 1 = Len(heap) - n) /\ (~(m <= Len(heap)) => Len(heap) - n = 0)
    BY <1>2, <1>6
  <2>4. Len(SubSeq(heap, m, Len(heap))) = Len(heap) - n
    BY <2>2, <2>3
  <2>5. ASSUME NEW i \in 1..(Len(heap) - n)
        PROVE  SubSeq(heap, m, Len(heap))[i] = heap[n + i] /\ n + i \in 1..Len(heap)
    <3>1. i \in 1..(Len(heap) - m + 1) /\ m + i - 1 = n + i /\ n + i \in 1..Len(heap)
      BY <1>2, <1>6
    <3>2. QED
      BY <2>2, <3>1
  <2>6. QED
    BY <1>7, <2>2, <2>4, <2>5
<1>10. \A u : u \in Range(Due) <=> \E i \in 1..n : Due[i] = u
  BY <1>8, InRange
<1>11. \A u : u \in Range(NotDue) <=> \E i \in 1..(Len(heap) - n) : NotDue[i] = u
  BY <1>9, InRange
<1>12. Sorted(Due, time)
  BY <1>1, <1>8 DEF Sorted
<1>13. Sorted(NotDue, time)
  <2>1. \A i, j \in 1..(Len(heap) - n) : i < j => n + i < n + j
    BY <1>2, <1>6
  <2>2. QED
    BY <1>1, <1>9, <2>1 DEF Sorted
<1>14. IsInjective(NotDue)
  <2>1. \A i, j \in 1..(Len(heap) - n) : n + i = n + j => i = j
    BY <1>2, <1>6
  <2>2. \A i, j \in 1..Len(NotDue) : NotDue[i] = NotDue[j] => i = j
    BY <1>4, <1>9, <2>1
  <2>3. QED
    BY <1>9, <2>2, OncePerPlace
<1>15. ASSUME NEW u, u \in Range(heap) PROVE u \in Range(Due) \/ u \in Range(NotDue)
  <2>1. PICK i \in 1..Len(heap) : heap[i] = u
    BY <1>3, <1>15
  <2>2. CASE i \in 1..n
    BY <1>8, <1>10, <2>1, <2>2
  <2>3. CASE i \notin 1..n
    <3>1. i - n \in 1..(Len(heap) - n) /\ n + (i - n) = i
      BY <1>2, <1>6, <2>3
    <3>2. NotDue[i - n] = u
      BY <1>9, <2>1, <3>1
    <3>3. QED
      BY <1>11, <3>1, <3>2
  <2>4. QED
    BY <2>2, <2>3
<1>16. ASSUME NEW u, u \in Range(Due) \/ u \in Range(NotDue) PROVE u \in Range(heap)
  <2>1. CASE u \in Range(Due)
    <3>1. PICK i \in 1..n : Due[i] = u
      BY <1>10, <2>1
    <3>2. QED
      BY <1>3, <1>8, <3>1
  <2>2. CASE u \in Range(NotDue)
    <3>1. PICK i \in 1..(Len(heap) - n) : NotDue[i] = u
      BY <1>11, <2>2
    <3>2. heap[n + i] = u /\ n + i \in 1..Len(heap)
      BY <1>9, <3>1
    <3>3. QED
      BY <1>3, <3>2
  <2>3. QED
    BY <1>16, <2>1, <2>2
<1>17. ASSUME NEW u, u \in Range(Due), u \in Range(NotDue) PROVE FALSE
  <2>1. PICK i \in 1..n : Due[i] = u
    BY <1>10, <1>17
  <2>2. PICK j \in 1..(Len(heap) - n) : NotDue[j] = u
    BY <1>11, <1>17
  <2>3. heap[i] = u /\ i \in 1..Len(heap)
    BY <1>8, <2>1
  <2>4. heap[n + j] = u /\ n + j \in 1..Len(heap)
    BY <1>9, <2>2
  <2>5. i = n + j
    BY <1>4, <2>3, <2>4
  <2>6. QED
    BY <1>2, <1>6, <2>5
<1>18. \A u \in Range(Due) : time[u] <= 0
  BY <1>6, <1>8, <1>10
<1>19. ASSUME NEW u \in Range(NotDue) PROVE time[u] >= 0
  <2>1. PICK j \in 1..(Len(heap) - n) : NotDue[j] = u
    BY <1>11
  <2>2. n + 1 \in 1..Len(heap) /\ n + j \in 1..Len(heap) /\ n < Len(heap) /\ (j = 1 \/ n + 1 < n + j)
    BY <1>2, <1>6
  <2>3. time[heap[n + 1]] > 0 /\ time[heap[n + 1]] \in Int /\ time[heap[n + j]] \in Int /\ u = heap[n + j]
    BY <1>5, <1>6, <1>9, <2>1, <2>2
  <2>4. j = 1 \/ time[heap[n + 1]] <= time[heap[n + j]]
    BY <1>1, <2>2 DEF Sorted
  <2>5. CASE j = 1
    BY <2>3, <2>5
  <2>6. CASE time[heap[n + 1]] <= time[heap[n + j]]
    BY <2>3, <2>6
  <2>7. QED
    BY <2>4, <2>5, <2>6
<1>20. QED
  BY <1>8, <1>9, <1>12, <1>13, <1>14, <1>15, <1>16, <1>17, <1>18, <1>19

-----------------------------------------------------------------------------
(* Heads and tops.                                                         *)

(* The innermost call of sharedTimerFired.                                 *)
LEMMA TopProperties ==
  ASSUME TypeOK, stack # <<>>
  PROVE  /\ Top \in Frames /\ Tail(stack) \in Seq(Frames)
         /\ Top.rest \in Seq(Timers) /\ Top.elapsed \in Nat
<1>1. stack \in Seq(Frames)
  BY DEF TypeOK
<1>2. Top \in Frames /\ Tail(stack) \in Seq(Frames)
  BY <1>1, HeadTailProperties DEF Top
<1>3. QED
  BY <1>2 DEF Frames

(* The heap holds timers.                                                  *)
LEMMA HeapElements ==
  ASSUME TypeOK
  PROVE  \A u \in Range(heap) : u \in Timers
<1>1. heap \in Seq(Timers) /\ \A i \in 1..Len(heap) : heap[i] \in Timers
  BY ElementOfSeq DEF TypeOK
<1>2. QED
  BY <1>1, InRange

(* So does its first place.                                                *)
LEMMA HeadOfHeap ==
  ASSUME TypeOK, heap # <<>>
  PROVE  Head(heap) \in Range(heap) /\ Head(heap) \in Timers
  BY HeadAndTail DEF TypeOK

(* The first timer of the heap is set.                                     *)
LEMMA HeadTimed ==
  ASSUME TypeOK, HeapTimed
  PROVE  heap # <<>> => time[Head(heap)] # None
  BY HeadOfHeap DEF HeapTimed

(* SharedTimerArmed, said of a value of the shared timer.                  *)
LEMMA Armed ==
  SharedTimerArmed <=> (stack = <<>> /\ heap # <<>> => ArmedFor(shared, time[Head(heap)]))
  BY DEF SharedTimerArmed, ArmedFor

(* Outside sharedTimerFired no timer is about to fire.                     *)
LEMMA IdleIsOff ==
  ASSUME StartedIsActive, stack = <<>>
  PROVE  ready = Off
  BY DEF StartedIsActive

-----------------------------------------------------------------------------
(* Setting a timer.                                                        *)

(* What setNextFireTime keeps of the invariant, whoever calls it: all but  *)
(* what is said of the innermost call.                                     *)
LEMMA SetKeeps ==
  ASSUME TimersInv, NEW t \in Timers, NEW d \in Times \cup {None}, setNextFireTime(t, d)
  PROVE  /\ heap' \in Seq(Timers) /\ IsInjective(heap')
         /\ time' \in [Timers -> Times \cup {None}]
         /\ (ready = Off => ready' = Off) /\ (ready # Off => ready' = ready \ {t} /\ ready' # Off)
         /\ ready' = Off \/ ready' \subseteq Timers
         /\ shared' \in SharedTimers /\ dropped' \subseteq Timers
         /\ HeapTimed' /\ HeapSorted' /\ NoneForgotten'
         /\ \A u \in Timers \ dropped' : time'[u] # None <=> Active(u)'
         /\ Ready' \cap Range(heap') = {}
         /\ LastChanceComes'
         /\ stack' = stack => SharedTimerArmed'
         /\ \A u \in Range(heap') : u # t => u \in Range(heap) /\ time'[u] = time[u]
         /\ t \in Range(heap') <=> d # None
         /\ time'[t] = d
         /\ \A u \in Timers : u # t => time'[u] = time[u]
<1>1. TypeOK /\ HeapTimed /\ HeapSorted /\ StartedIsActive /\ NoneForgotten /\ SharedTimerArmed /\ LastChanceComes
  BY DEF TimersInv
<1>2. /\ time \in [Timers -> Times \cup {None}] /\ (ready = Off \/ ready \subseteq Timers)
      /\ dropped \subseteq Timers /\ shared \in SharedTimers
  BY <1>1 DEF TypeOK
<1>3. /\ time' \in [Timers -> Times \cup {None}] /\ time' = [time EXCEPT ![t] = d]
      /\ heap' \in Seq(Timers) /\ IsInjective(heap') /\ Sorted(heap', time')
      /\ \A u : u \in Range(heap') <=> (u \in Range(heap) /\ u # t) \/ (u = t /\ d # None)
      /\ ready' = IF ready = Off THEN Off ELSE ready \ {t}
      /\ dropped' = dropped \ {t}
      /\ \/ shared' \in updateSharedTimer(ready', heap', time')
         \/ /\ shared' = shared
            /\ heap' # <<>> => /\ heap # <<>> /\ Head(heap') = Head(heap)
                               /\ time'[Head(heap)] = time[Head(heap)]
  BY <1>1, SetProperties
<1>4. time'[t] = d /\ \A u \in Timers : u # t => time'[u] = time[u]
  BY <1>2, <1>3
<1>5. /\ ready = Off => ready' = Off
      /\ ready # Off => ready' = ready \ {t} /\ ready' # Off /\ ready' \subseteq Timers
  <2>1. CASE ready = Off
    BY <1>3, <2>1
  <2>2. CASE ready # Off
    <3>1. ready' = ready \ {t} /\ ready' \in SUBSET Timers
      BY <1>2, <1>3, <2>2
    <3>2. ready' # Off
      BY <3>1, TimersAssumption
    <3>3. QED
      BY <2>2, <3>1, <3>2
  <2>3. QED
    BY <2>1, <2>2
<1>6. \A u : u \in Ready' <=> u \in Ready /\ u # t
  BY <1>5 DEF Ready
<1>7. HeapTimed'
  <2>1. \A u \in Range(heap) : time[u] # None /\ u \in Timers
    BY <1>1, HeapElements DEF HeapTimed
  <2>2. \A u \in Range(heap') : time'[u] # None
    BY <1>3, <1>4, <2>1
  <2>3. QED
    BY <2>2 DEF HeapTimed
<1>8. HeapSorted'
  BY <1>3 DEF HeapSorted
<1>9. NoneForgotten'
  <2>1. \A u : u \in dropped => u \notin Range(heap) /\ u \notin Ready
    BY <1>1 DEF NoneForgotten
  <2>2. \A u : u \in dropped' => u \notin Range(heap') /\ u \notin Ready'
    BY <1>3, <1>6, <2>1
  <2>3. QED
    BY <2>2 DEF NoneForgotten
<1>10. \A u \in Timers \ dropped : time[u] # None <=> u \in Range(heap) \/ u \in Ready
  BY <1>1 DEF StartedIsActive, Active, InHeap
<1>11. ASSUME NEW u \in Timers \ dropped'
       PROVE  time'[u] # None <=> u \in Range(heap') \/ u \in Ready'
  BY <1>3, <1>4, <1>6, <1>10
<1>12. \A u \in Timers \ dropped' : time'[u] # None <=> Active(u)'
  BY <1>11 DEF Active, InHeap
<1>13. Ready' \cap Range(heap') = {}
  <2>1. \A u : ~(u \in Ready /\ u \in Range(heap))
    BY <1>1 DEF StartedIsActive
  <2>2. \A u : ~(u \in Ready' /\ u \in Range(heap'))
    BY <1>3, <1>6, <2>1
  <2>3. QED
    BY <2>2
<1>14. heap' # <<>> => time'[Head(heap')] # None
  <2>1. heap' # <<>> => Head(heap') \in Range(heap')
    BY <1>3, HeadAndTail
  <2>2. QED
    BY <1>7, <2>1 DEF HeapTimed
<1>15. shared' \in SharedTimers /\ (shared'.wm # None => shared'.lastChance)
  <2>1. CASE shared' \in updateSharedTimer(ready', heap', time')
    BY <1>1, <1>3, <1>14, <2>1, UpdateProperties
  <2>2. CASE shared' = shared
    BY <1>1, <1>2, <2>2 DEF LastChanceComes
  <2>3. QED
    BY <1>3, <2>1, <2>2
<1>16. ASSUME stack' = stack PROVE SharedTimerArmed'
  <2>1. SUFFICES ASSUME stack = <<>>, heap' # <<>> PROVE ArmedFor(shared', time'[Head(heap')])
    BY <1>16 DEF SharedTimerArmed, ArmedFor
  <2>2. ready' = Off
    BY <1>1, <1>5, <2>1, IdleIsOff
  <2>3. CASE shared' \in updateSharedTimer(ready', heap', time')
    BY <1>1, <1>3, <1>14, <2>1, <2>2, <2>3, UpdateProperties
  <2>4. CASE /\ shared' = shared
             /\ heap' # <<>> => /\ heap # <<>> /\ Head(heap') = Head(heap)
                                /\ time'[Head(heap)] = time[Head(heap)]
    BY <1>1, <2>1, <2>4, Armed
  <2>5. QED
    BY <1>3, <2>3, <2>4
<1>17. QED
  BY <1>2, <1>3, <1>4, <1>5, <1>7, <1>8, <1>9, <1>12, <1>13, <1>15, <1>16 DEF LastChanceComes

(* Code outside, or fired(), sets a timer: it is not set for an earlier    *)
(* time than any that is being fired.                                      *)
LEMMA SetStep ==
  ASSUME TimersInv, NEW t \in Timers, NEW d \in Delays \cup {None}, NEW repeat \in Delays,
         interval' = [interval EXCEPT ![t] = repeat], setNextFireTime(t, d), stack' = stack
  PROVE  TimersInv'
<1>1. /\ TypeOK /\ StartedIsActive /\ CollectedFirst /\ RestSorted
  BY DEF TimersInv
<1>2. interval' = [interval EXCEPT ![t] = repeat] /\ setNextFireTime(t, d) /\ stack' = stack
  OBVIOUS
<1>3. (d # None => d \in Int /\ d >= 0) /\ d \in Times \cup {None}
  BY TimersAssumption DEF Delays, Times
<1>4. /\ heap' \in Seq(Timers) /\ IsInjective(heap')
      /\ time' \in [Timers -> Times \cup {None}]
      /\ (ready = Off => ready' = Off) /\ (ready # Off => ready' = ready \ {t} /\ ready' # Off)
      /\ ready' = Off \/ ready' \subseteq Timers
      /\ shared' \in SharedTimers /\ dropped' \subseteq Timers
      /\ HeapTimed' /\ HeapSorted' /\ NoneForgotten'
      /\ \A u \in Timers \ dropped' : time'[u] # None <=> Active(u)'
      /\ Ready' \cap Range(heap') = {}
      /\ LastChanceComes'
      /\ SharedTimerArmed'
      /\ \A u \in Range(heap') : u # t => u \in Range(heap) /\ time'[u] = time[u]
      /\ t \in Range(heap') <=> d # None
      /\ time'[t] = d
      /\ \A u \in Timers : u # t => time'[u] = time[u]
  BY <1>2, <1>3, SetKeeps
<1>5. TypeOK'
  BY <1>1, <1>2, <1>4 DEF TypeOK
<1>6. StartedIsActive'
  <2>1. ready' # Off => stack' # <<>> /\ ready' \subseteq Range(Top.rest)'
    BY <1>1, <1>2, <1>4 DEF StartedIsActive, Top
  <2>2. QED
    BY <1>4, <2>1 DEF StartedIsActive
<1>7. ASSUME ready' # Off
      PROVE  /\ stack # <<>> /\ Top' = Top /\ Top.elapsed \in Nat /\ Top.rest \in Seq(Timers)
             /\ ready # Off /\ ready' = ready \ {t} /\ ready \subseteq Timers
  <2>1. stack # <<>> /\ Top' = Top /\ ready # Off /\ ready' = ready \ {t} /\ ready \subseteq Timers
    BY <1>1, <1>2, <1>4, <1>7 DEF StartedIsActive, Top, TypeOK
  <2>2. QED
    BY <1>1, <2>1, TopProperties
<1>8. CollectedFirst'
  <2>1. SUFFICES ASSUME ready' # Off
                 PROVE  /\ \A u \in ready' : time'[u] # None /\ time'[u] <= -(Top'.elapsed)
                        /\ \A u \in Range(heap') : time'[u] >= -(Top'.elapsed)
    BY DEF CollectedFirst
  <2>2. /\ \A u \in ready : time[u] # None /\ time[u] <= -Top.elapsed
        /\ \A u \in Range(heap) : time[u] >= -Top.elapsed
    BY <1>1, <1>7, <2>1 DEF CollectedFirst
  <2>3. \A u \in ready' : time'[u] # None /\ time'[u] <= -(Top'.elapsed)
    BY <1>4, <1>7, <2>1, <2>2
  <2>4. d # None => d >= -(Top'.elapsed)
    BY <1>3, <1>7, <2>1
  <2>5. \A u \in Range(heap') : time'[u] >= -(Top'.elapsed)
    BY <1>4, <1>7, <2>1, <2>2, <2>4
  <2>6. QED
    BY <2>3, <2>5
<1>9. RestSorted'
  <2>1. SUFFICES ASSUME ready' # Off, NEW i \in 1..Len(Top'.rest), NEW j \in 1..Len(Top'.rest), i < j,
                        Top'.rest[i] \in ready', Top'.rest[j] \in ready'
                 PROVE  time'[Top'.rest[i]] <= time'[Top'.rest[j]]
    BY DEF RestSorted
  <2>2. /\ Top.rest[i] \in ready /\ Top.rest[j] \in ready
        /\ time'[Top.rest[i]] = time[Top.rest[i]] /\ time'[Top.rest[j]] = time[Top.rest[j]]
    BY <1>4, <1>7, <2>1
  <2>3. time[Top.rest[i]] <= time[Top.rest[j]]
    BY <1>1, <1>7, <2>1, <2>2 DEF RestSorted
  <2>4. QED
    BY <1>7, <2>1, <2>2, <2>3
<1>10. OthersFiring' /\ LoopIsReady'
  BY <1>2, <1>4 DEF TimersInv, OthersFiring, LoopIsReady, Top
<1>11. QED
  BY <1>4, <1>5, <1>6, <1>8, <1>9, <1>10 DEF TimersInv

(* Start.                                                                  *)
LEMMA StartStep ==
  ASSUME TimersInv, NEW t \in Timers, NEW d \in Delays, NEW repeat \in Delays, Start(t, d, repeat)
  PROVE  TimersInv'
  BY SetStep DEF Start

(* Stop.                                                                   *)
LEMMA StopStep ==
  ASSUME TimersInv, NEW t \in Timers, Stop(t)
  PROVE  TimersInv'
<1>1. 0 \in Delays
  BY TimersAssumption DEF Delays
<1>2. QED
  BY <1>1, SetStep DEF Stop

-----------------------------------------------------------------------------
(* Other steps of the code outside.                                        *)

(* The timers that were collected are dropped, or there are none.          *)
LEMMA NestedStep ==
  ASSUME TimersInv, FireTimersInNestedEventLoop
  PROVE  TimersInv'
<1>1. /\ TypeOK /\ HeapTimed /\ HeapSorted /\ StartedIsActive /\ NoneForgotten
  BY DEF TimersInv
<1>2. /\ ready' = Off
      /\ shared' \in updateSharedTimer(Off, heap, time)
      /\ dropped' = IF ready = Off THEN dropped ELSE dropped \cup ready
      /\ heap' = heap /\ time' = time /\ interval' = interval /\ stack' = stack
  BY DEF FireTimersInNestedEventLoop
<1>3. \A u : (u \in dropped' <=> u \in dropped \/ u \in Ready) /\ u \notin Ready'
  BY <1>2 DEF Ready
<1>4. /\ shared' \in SharedTimers
      /\ shared'.wm # None => shared'.lastChance
      /\ heap # <<>> => ArmedFor(shared', time[Head(heap)])
  <2>1. heap \in Seq(Timers) /\ time \in [Timers -> Times \cup {None}]
    BY <1>1 DEF TypeOK
  <2>2. QED
    BY <1>1, <1>2, <2>1, HeadTimed, UpdateProperties
<1>5. TypeOK'
  <2>1. \A u : u \in Ready => u \in Timers
    BY <1>1 DEF TypeOK, Ready
  <2>2. dropped' \subseteq Timers
    BY <1>1, <1>3, <2>1 DEF TypeOK
  <2>3. QED
    BY <1>1, <1>2, <1>4, <2>2 DEF TypeOK
<1>6. HeapTimed' /\ HeapSorted'
  BY <1>1, <1>2 DEF HeapTimed, HeapSorted
<1>7. \A u : u \in Ready => u \notin Range(heap)
  BY <1>1 DEF StartedIsActive
<1>8. StartedIsActive'
  <2>1. \A u \in Timers \ dropped : time[u] # None <=> u \in Range(heap) \/ u \in Ready
    BY <1>1 DEF StartedIsActive, Active, InHeap
  <2>2. \A u \in Timers \ dropped' : time'[u] # None <=> u \in Range(heap') \/ u \in Ready'
    BY <1>2, <1>3, <2>1
  <2>3. QED
    BY <1>2, <1>3, <2>2 DEF StartedIsActive, Active, InHeap
<1>9. NoneForgotten'
  <2>1. \A u : u \in dropped => u \notin Range(heap)
    BY <1>1 DEF NoneForgotten
  <2>2. \A u : u \in dropped' => u \notin Range(heap') /\ u \notin Ready'
    BY <1>2, <1>3, <1>7, <2>1
  <2>3. QED
    BY <2>2 DEF NoneForgotten
<1>10. CollectedFirst' /\ RestSorted'
  BY <1>2 DEF CollectedFirst, RestSorted
<1>11. SharedTimerArmed' /\ LastChanceComes'
  BY <1>2, <1>4 DEF SharedTimerArmed, ArmedFor, LastChanceComes
<1>12. OthersFiring' /\ LoopIsReady'
  <2>1. stack # <<>> => Top.firing
    BY DEF FireTimersInNestedEventLoop, CodeMayRun
  <2>2. QED
    BY <1>2, <2>1 DEF TimersInv, OthersFiring, LoopIsReady, Top
<1>13. QED
  BY <1>5, <1>6, <1>8, <1>9, <1>10, <1>11, <1>12 DEF TimersInv

(* Steps after which only the shared timer is different.                   *)
LEMMA SharedStep ==
  ASSUME TimersInv, UNCHANGED <<heap, time, interval, ready, stack, dropped>>,
         shared' \in SharedTimers, LastChanceComes',
         stack = <<>> /\ heap # <<>> => ArmedFor(shared', time[Head(heap)])
  PROVE  TimersInv'
<1>1. TypeOK'
  BY DEF TimersInv, TypeOK
<1>2. HeapTimed' /\ HeapSorted' /\ NoneForgotten'
  BY DEF TimersInv, HeapTimed, HeapSorted, NoneForgotten, Ready
<1>3. StartedIsActive'
  BY DEF TimersInv, StartedIsActive, Active, InHeap, Ready, Top
<1>4. CollectedFirst' /\ RestSorted'
  BY DEF TimersInv, CollectedFirst, RestSorted, Top
<1>5. SharedTimerArmed'
  BY DEF SharedTimerArmed, ArmedFor
<1>6. OthersFiring' /\ LoopIsReady'
  BY DEF TimersInv, OthersFiring, LoopIsReady, Top
<1>7. QED
  BY <1>1, <1>2, <1>3, <1>4, <1>5, <1>6 DEF TimersInv

(* Deferring and resuming updates the shared timer.                        *)
LEMMA DeferStep ==
  ASSUME TimersInv, DeferAndResume
  PROVE  TimersInv'
<1>1. TypeOK /\ HeapTimed /\ StartedIsActive
  BY DEF TimersInv
<1>2. shared' \in updateSharedTimer(ready, heap, time) /\ UNCHANGED <<heap, time, interval, ready, stack, dropped>>
  BY DEF DeferAndResume
<1>3. /\ shared' \in SharedTimers
      /\ shared'.wm # None => shared'.lastChance
      /\ ready = Off /\ heap # <<>> => ArmedFor(shared', time[Head(heap)])
  <2>1. heap \in Seq(Timers) /\ time \in [Timers -> Times \cup {None}]
    BY <1>1 DEF TypeOK
  <2>2. QED
    BY <1>1, <1>2, <2>1, HeadTimed, UpdateProperties
<1>4. stack = <<>> /\ heap # <<>> => ArmedFor(shared', time[Head(heap)])
  BY <1>1, <1>3, IdleIsOff
<1>5. LastChanceComes'
  BY <1>3 DEF LastChanceComes
<1>6. QED
  BY <1>2, <1>3, <1>4, <1>5, SharedStep

(* A WM_TIMER is lost: the last chance timer is there, since SetTimer was  *)
(* called.                                                                 *)
LEMMA LoseStep ==
  ASSUME TimersInv, LoseWmTimer
  PROVE  TimersInv'
<1>1. /\ shared.wm = 0 /\ shared' = [shared EXCEPT !.wm = Lost]
      /\ UNCHANGED <<heap, time, interval, ready, stack, dropped>>
  BY DEF LoseWmTimer
<1>2. shared \in SharedTimers /\ LastChanceComes
  BY DEF TimersInv, TypeOK
<1>3. shared.lastChance
  BY <1>1, <1>2, TimersAssumption DEF LastChanceComes
<1>4. shared' \in SharedTimers /\ shared'.wm = Lost /\ shared'.lastChance
  BY <1>1, <1>2, <1>3 DEF SharedTimers
<1>5. QED
  BY <1>1, <1>4, SharedStep DEF LastChanceComes, ArmedFor

-----------------------------------------------------------------------------
(* Time passes.                                                            *)

(* Everything that is set comes nearer, all of it by the same, and the     *)
(* calls in progress have taken as much longer.                            *)
LEMMA TickStep ==
  ASSUME TimersInv, Tick
  PROVE  TimersInv'
<1>1. /\ TypeOK /\ HeapTimed /\ HeapSorted /\ StartedIsActive /\ NoneForgotten
      /\ CollectedFirst /\ RestSorted /\ SharedTimerArmed /\ LastChanceComes
  BY DEF TimersInv
<1>2. /\ \A t \in Timers \ dropped : time[t] # None => time[t] > -MaxLate
      /\ time' = [t \in Timers |-> IF time[t] = None \/ t \in dropped THEN time[t] ELSE time[t] - 1]
      /\ heap' = heap /\ interval' = interval /\ ready' = ready /\ dropped' = dropped
  BY DEF Tick
<1>3. shared' = [shared EXCEPT !.wm = IF shared.wm \in {None, Lost, 0} THEN shared.wm ELSE shared.wm - 1]
  BY DEF Tick
<1>4. stack' = [i \in DOMAIN stack |->
                 [stack[i] EXCEPT !.elapsed = Min({stack[i].elapsed + 1, MaxDelay + MaxLate})]]
  BY DEF Tick
<1>5. /\ MaxDelay \in Nat /\ MaxLate \in Nat /\ None \notin Int /\ Lost \notin Int /\ None # Lost
  BY TimersAssumption
<1>6. /\ heap \in Seq(Timers) /\ time \in [Timers -> Times \cup {None}] /\ shared \in SharedTimers
      /\ stack \in Seq(Frames)
  BY <1>1 DEF TypeOK
<1>7. ASSUME NEW t \in Timers
      PROVE  /\ time[t] = None \/ t \in dropped => time'[t] = time[t]
             /\ time[t] # None /\ t \notin dropped =>
                  time'[t] = time[t] - 1 /\ time[t] \in Int /\ time[t] > -MaxLate /\ time'[t] \in Int
             /\ time'[t] \in Times \cup {None}
             /\ time'[t] = None <=> time[t] = None
  <2>1. time'[t] = IF time[t] = None \/ t \in dropped THEN time[t] ELSE time[t] - 1
    BY <1>2
  <2>2. CASE time[t] = None \/ t \in dropped
    BY <1>6, <2>1, <2>2
  <2>3. CASE time[t] # None /\ t \notin dropped
    <3>1. time[t] \in Int /\ time[t] <= MaxDelay /\ time[t] > -MaxLate
      BY <1>1, <1>2, <2>3, TimesAreNumbers
    <3>2. time[t] - 1 \in Times
      BY <1>5, <3>1 DEF Times
    <3>3. QED
      BY <1>5, <2>1, <2>3, <3>1, <3>2
  <2>4. QED
    BY <2>2, <2>3
<1>8. time' \in [Timers -> Times \cup {None}]
  BY <1>2, <1>7
<1>9. \A u : u \in Range(heap) => u \in Timers /\ u \notin dropped /\ time[u] # None
  BY <1>1, HeapElements DEF NoneForgotten, HeapTimed
<1>10. \A u : ready # Off /\ u \in ready => u \in Timers /\ u \notin dropped /\ time[u] # None
  BY <1>1 DEF NoneForgotten, CollectedFirst, TypeOK, Ready
<1>11. /\ shared' \in SharedTimers
       /\ (shared'.wm # None => shared'.lastChance)
       /\ shared'.posted = shared.posted /\ shared'.lastChance = shared.lastChance
       /\ shared'.wm = IF shared.wm \in {None, Lost, 0} THEN shared.wm ELSE shared.wm - 1
  <2>1. \A x : [shared EXCEPT !.wm = x].wm = x /\ [shared EXCEPT !.wm = x].lastChance = shared.lastChance
               /\ [shared EXCEPT !.wm = x].posted = shared.posted
    BY <1>6 DEF SharedTimers
  <2>2. \A x \in Delays \cup {None, Lost} : [shared EXCEPT !.wm = x] \in SharedTimers
    BY <1>6 DEF SharedTimers
  <2>3. (IF shared.wm \in {None, Lost, 0} THEN shared.wm ELSE shared.wm - 1) \in Delays \cup {None, Lost}
    <3>1. shared.wm \in Delays \cup {None, Lost}
      BY <1>6 DEF SharedTimers
    <3>2. CASE shared.wm \in {None, Lost, 0}
      BY <3>1, <3>2
    <3>3. CASE shared.wm \notin {None, Lost, 0}
      <4>1. shared.wm \in Int /\ shared.wm >= 0 /\ shared.wm <= MaxDelay /\ shared.wm # 0
        BY <1>5, <3>1, <3>3 DEF Delays
      <4>2. shared.wm - 1 \in Delays
        BY <1>5, <4>1 DEF Delays
      <4>3. QED
        BY <3>3, <4>2
    <3>4. QED
      BY <3>2, <3>3
  <2>4. shared'.wm # None => shared.wm # None
    BY <1>3, <2>1
  <2>5. QED
    BY <1>1, <1>3, <2>1, <2>2, <2>3, <2>4 DEF LastChanceComes
<1>12. /\ stack' \in Seq(Frames) /\ (stack' = <<>> <=> stack = <<>>)
       /\ stack # <<>> => /\ Top'.rest = Top.rest /\ Top.elapsed \in Nat
                          /\ Top'.firing = Top.firing
                          /\ \A f \in Range(Tail(stack')) :
                               \E g \in Range(Tail(stack)) : f.firing = g.firing
                          /\ Top'.elapsed = Min({Top.elapsed + 1, MaxDelay + MaxLate})
  <2>1. DOMAIN stack = 1..Len(stack) /\ Len(stack) \in Nat /\ \A i \in 1..Len(stack) : stack[i] \in Frames
    BY <1>6, LenProperties, ElementOfSeq
  <2>2. ASSUME NEW i \in 1..Len(stack)
        PROVE  /\ stack'[i] \in Frames /\ stack'[i].rest = stack[i].rest /\ stack[i].elapsed \in Nat
               /\ stack'[i].firing = stack[i].firing
               /\ stack'[i].elapsed = Min({stack[i].elapsed + 1, MaxDelay + MaxLate})
    <3>1. stack[i].elapsed \in Nat /\ stack[i] \in Frames
      BY <2>1 DEF Frames
    <3>2. PICK m \in Nat : m = Min({stack[i].elapsed + 1, MaxDelay + MaxLate})
      BY <1>5, <3>1, MinOfTwo
    <3>3. stack'[i] = [stack[i] EXCEPT !.elapsed = m]
      BY <1>4, <2>1, <3>2
    <3>4. QED
      BY <3>1, <3>2, <3>3 DEF Frames
  <2>3. stack' \in [1..Len(stack) -> Frames]
    <3>1. stack' = [i \in 1..Len(stack) |-> stack'[i]]
      BY <1>4, <2>1
    <3>2. QED
      BY <2>2, <3>1
  <2>4. stack' \in Seq(Frames) /\ Len(stack') = Len(stack)
    BY <2>1, <2>3, SeqDef, LenProperties
  <2>5. stack' = <<>> <=> stack = <<>>
    BY <1>6, <2>4, EmptySeq
  <2>6. ASSUME stack # <<>>
        PROVE  1 \in 1..Len(stack) /\ Top = stack[1] /\ Top' = stack'[1]
    <3>1. 1 \in 1..Len(stack) /\ Top = stack[1]
      BY <1>6, <2>6, HeadAndTail DEF Top
    <3>2. Head(stack') = stack'[1]
      BY <2>4, <2>5, <2>6, HeadAndTail
    <3>3. QED
      BY <3>1, <3>2 DEF Top
  <2>7. ASSUME stack # <<>>, NEW f \in Range(Tail(stack'))
        PROVE  \E g \in Range(Tail(stack)) : f.firing = g.firing
    <3>1. /\ Tail(stack) \in Seq(Frames) /\ Len(Tail(stack)) = Len(stack) - 1
          /\ \A i \in 1..Len(Tail(stack)) : Tail(stack)[i] = stack[i + 1]
      BY <1>6, <2>7, HeadTailProperties
    <3>2. /\ Tail(stack') \in Seq(Frames) /\ Len(Tail(stack')) = Len(stack') - 1
          /\ \A i \in 1..Len(Tail(stack')) : Tail(stack')[i] = stack'[i + 1]
      BY <2>4, <2>5, <2>7, HeadTailProperties
    <3>3. PICK i \in 1..Len(Tail(stack')) : Tail(stack')[i] = f
      BY <3>2, InRange
    <3>4. i \in 1..Len(Tail(stack)) /\ i + 1 \in 1..Len(stack)
      BY <2>1, <2>4, <3>1, <3>2
    <3>5. Tail(stack)[i] \in Range(Tail(stack))
      BY <3>1, <3>4, InRange
    <3>6. f = stack'[i + 1] /\ Tail(stack)[i] = stack[i + 1]
      BY <3>1, <3>2, <3>3, <3>4
    <3>7. f.firing = Tail(stack)[i].firing
      BY <2>2, <3>4, <3>6
    <3>8. QED
      BY <3>5, <3>7
  <2>8. QED
    BY <2>2, <2>4, <2>5, <2>6, <2>7
<1>13. TypeOK'
  BY <1>1, <1>2, <1>8, <1>11, <1>12 DEF TypeOK
<1>14. HeapTimed'
  <2>1. \A u \in Range(heap) : time'[u] # None
    BY <1>7, <1>9
  <2>2. QED
    BY <1>2, <2>1 DEF HeapTimed
<1>15. HeapSorted'
  <2>1. SUFFICES ASSUME NEW i \in 1..Len(heap), NEW j \in 1..Len(heap), i < j
                 PROVE  time'[heap[i]] <= time'[heap[j]]
    BY <1>2 DEF HeapSorted, Sorted
  <2>2. heap[i] \in Range(heap) /\ heap[j] \in Range(heap)
    BY <1>6, InRange
  <2>3. time[heap[i]] <= time[heap[j]]
    BY <1>1, <2>1 DEF HeapSorted, Sorted
  <2>4. /\ time'[heap[i]] = time[heap[i]] - 1 /\ time[heap[i]] \in Int
        /\ time'[heap[j]] = time[heap[j]] - 1 /\ time[heap[j]] \in Int
    BY <1>7, <1>9, <2>2
  <2>5. QED
    BY <2>3, <2>4
<1>16. NoneForgotten'
  BY <1>1, <1>2 DEF NoneForgotten, Ready
<1>17. StartedIsActive'
  <2>1. \A u \in Timers \ dropped' : time'[u] # None <=> Active(u)'
    BY <1>1, <1>2, <1>7 DEF StartedIsActive, Active, InHeap, Ready
  <2>2. Ready' \cap Range(heap') = {}
    BY <1>1, <1>2 DEF StartedIsActive, Ready
  <2>3. ready' # Off => stack' # <<>> /\ ready' \subseteq Range(Top'.rest)
    BY <1>1, <1>2, <1>12 DEF StartedIsActive
  <2>4. QED
    BY <2>1, <2>2, <2>3 DEF StartedIsActive
<1>18. CollectedFirst'
  <2>1. SUFFICES ASSUME ready # Off
                 PROVE  /\ \A u \in ready : time'[u] # None /\ time'[u] <= -(Top'.elapsed)
                        /\ \A u \in Range(heap) : time'[u] >= -(Top'.elapsed)
    BY <1>2 DEF CollectedFirst
  <2>2. /\ \A u \in ready : time[u] # None /\ time[u] <= -Top.elapsed
        /\ \A u \in Range(heap) : time[u] >= -Top.elapsed
    BY <1>1, <2>1 DEF CollectedFirst
  <2>3. /\ Top.elapsed \in Nat
        /\ Top'.elapsed = IF Top.elapsed + 1 <= MaxDelay + MaxLate THEN Top.elapsed + 1 ELSE MaxDelay + MaxLate
    BY <1>1, <1>5, <1>12, <2>1, MinOfTwo DEF StartedIsActive
  <2>4. Top'.elapsed \in Int /\ Top'.elapsed <= Top.elapsed + 1
    BY <1>5, <2>3
  <2>5. ASSUME NEW u \in ready PROVE time'[u] # None /\ time'[u] <= -(Top'.elapsed)
    <3>1. time'[u] = time[u] - 1 /\ time[u] \in Int /\ time'[u] # None
      BY <1>7, <1>10, <2>1
    <3>2. QED
      BY <2>2, <2>3, <2>4, <3>1
  <2>6. ASSUME NEW u \in Range(heap) PROVE time'[u] >= -(Top'.elapsed)
    <3>1. u \in Timers /\ u \notin dropped /\ time[u] # None
      BY <1>9
    <3>2. time'[u] = time[u] - 1 /\ time[u] \in Int /\ time[u] > -MaxLate /\ time[u] <= MaxDelay
      BY <1>1, <1>7, <3>1, TimesAreNumbers
    <3>3. CASE Top.elapsed + 1 <= MaxDelay + MaxLate
      BY <2>2, <2>3, <3>2, <3>3
    <3>4. CASE ~(Top.elapsed + 1 <= MaxDelay + MaxLate)
      BY <1>5, <2>2, <2>3, <3>2, <3>4
    <3>5. QED
      BY <3>3, <3>4
  <2>7. QED
    BY <2>5, <2>6
<1>19. RestSorted'
  <2>1. SUFFICES ASSUME ready # Off, NEW i \in 1..Len(Top.rest), NEW j \in 1..Len(Top.rest), i < j,
                        Top.rest[i] \in ready, Top.rest[j] \in ready
                 PROVE  time'[Top.rest[i]] <= time'[Top.rest[j]]
    BY <1>1, <1>2, <1>12 DEF RestSorted, StartedIsActive
  <2>2. time[Top.rest[i]] <= time[Top.rest[j]]
    BY <1>1, <2>1 DEF RestSorted
  <2>3. /\ time'[Top.rest[i]] = time[Top.rest[i]] - 1 /\ time[Top.rest[i]] \in Int
        /\ time'[Top.rest[j]] = time[Top.rest[j]] - 1 /\ time[Top.rest[j]] \in Int
    BY <1>7, <1>10, <2>1
  <2>4. QED
    BY <2>2, <2>3
<1>20. SharedTimerArmed'
  <2>1. SUFFICES ASSUME stack = <<>>, heap # <<>> PROVE ArmedFor(shared', time'[Head(heap)])
    BY <1>2, <1>12 DEF SharedTimerArmed, ArmedFor
  <2>2. PICK d \in Int : d = time[Head(heap)] /\ time'[Head(heap)] = d - 1
    BY <1>1, <1>7, <1>9, <2>1, HeadOfHeap
  <2>3. ArmedFor(shared, d)
    BY <1>1, <2>1, <2>2, Armed
  <2>4. Max({d, 0}) = (IF d >= 0 THEN d ELSE 0) /\ Max({d - 1, 0}) = (IF d - 1 >= 0 THEN d - 1 ELSE 0)
    BY <2>2, MaxProperties
  <2>5. CASE shared.wm \in Nat /\ shared.wm <= Max({d, 0})
    <3>1. CASE shared.wm = 0
      <4>1. shared'.wm = 0
        BY <1>11, <3>1
      <4>2. QED
        BY <2>2, <2>4, <4>1 DEF ArmedFor
    <3>2. CASE shared.wm # 0
      <4>1. shared'.wm = shared.wm - 1 /\ shared.wm > 0
        BY <1>5, <1>11, <2>5, <3>2
      <4>2. shared'.wm \in Nat /\ shared'.wm <= Max({d - 1, 0})
        BY <2>4, <2>5, <4>1
      <4>3. QED
        BY <2>2, <4>2 DEF ArmedFor
    <3>3. QED
      BY <3>1, <3>2
  <2>6. CASE shared.posted \/ (shared.wm = Lost /\ shared.lastChance)
    BY <1>11, <2>6 DEF ArmedFor
  <2>7. QED
    BY <2>3, <2>5, <2>6 DEF ArmedFor
<1>21. LastChanceComes'
  BY <1>11 DEF LastChanceComes
<1>22. OthersFiring' /\ LoopIsReady'
  <2>1. OthersFiring /\ LoopIsReady
    BY DEF TimersInv
  <2>2. OthersFiring'
    BY <1>12, <2>1 DEF OthersFiring
  <2>3. LoopIsReady'
    BY <1>2, <1>12, <2>1 DEF LoopIsReady
  <2>4. QED
    BY <2>2, <2>3
<1>23. QED
  BY <1>13, <1>14, <1>15, <1>16, <1>17, <1>18, <1>19, <1>20, <1>21, <1>22 DEF TimersInv

-----------------------------------------------------------------------------
(* sharedTimerFired.                                                       *)

(* sharedTimerFired, for s the shared timer after its message was taken:   *)
(* it does nothing, or collects what is due.                               *)
LEMMA FiredStep ==
  ASSUME TimersInv, CodeMayRun, NEW s \in SharedTimers, s.wm # None => s.lastChance,
         NEW isCustom \in BOOLEAN, sharedTimerFired(s, isCustom)
  PROVE  TimersInv'
<1>1. /\ TypeOK /\ HeapTimed /\ HeapSorted /\ StartedIsActive /\ NoneForgotten
      /\ CollectedFirst /\ RestSorted /\ SharedTimerArmed /\ LastChanceComes
  BY DEF TimersInv
<1>2. ASSUME NEW b \in BOOLEAN, shared' = [s EXCEPT !.custom = b]
      PROVE  shared' \in SharedTimers /\ LastChanceComes'
  BY <1>2 DEF SharedTimers, LastChanceComes
<1>3. CASE ready # Off
  <2>1. shared' = [s EXCEPT !.custom = s.custom /\ ~isCustom] /\ UNCHANGED <<heap, time, interval, ready, stack, dropped>>
    BY <1>3 DEF sharedTimerFired
  <2>2. shared' \in SharedTimers /\ LastChanceComes'
    <3>1. (s.custom /\ ~isCustom) \in BOOLEAN
      OBVIOUS
    <3>2. QED
      BY <1>2, <2>1, <3>1
  <2>3. stack # <<>>
    BY <1>1, <1>3 DEF StartedIsActive
  <2>4. QED
    BY <2>1, <2>2, <2>3, SharedStep
<1>4. CASE ready = Off
  <2> DEFINE frame == [rest |-> Due, firing |-> FALSE, elapsed |-> 0, custom |-> isCustom]
  <2>1. /\ ready' = Range(Due) /\ heap' = NotDue
        /\ shared' = [s EXCEPT !.custom = isCustom \/ s.custom]
        /\ stack' = <<frame>> \o stack
        /\ time' = time /\ interval' = interval /\ dropped' = dropped
    BY <1>4 DEF sharedTimerFired
  <2>2. shared' \in SharedTimers /\ LastChanceComes'
    <3>1. s.custom \in BOOLEAN
      BY DEF SharedTimers
    <3>2. (isCustom \/ s.custom) \in BOOLEAN
      BY <3>1
    <3>3. QED
      BY <1>2, <2>1, <3>2
  <2>3. /\ Due \in Seq(Timers) /\ Sorted(Due, time)
        /\ NotDue \in Seq(Timers) /\ IsInjective(NotDue) /\ Sorted(NotDue, time)
        /\ \A u : u \in Range(heap) <=> u \in Range(Due) \/ u \in Range(NotDue)
        /\ \A u : ~(u \in Range(Due) /\ u \in Range(NotDue))
        /\ \A u \in Range(Due) : time[u] <= 0
        /\ \A u \in Range(NotDue) : time[u] >= 0
    BY <1>1, DueProperties
  <2>4. frame \in Frames /\ frame.rest = Due /\ frame.elapsed = 0
    BY <2>3 DEF Frames
  <2> HIDE DEF frame
  <2>5. stack' \in Seq(Frames) /\ stack' # <<>> /\ Top' = frame /\ Tail(stack') = stack
    <3>1. stack \in Seq(Frames)
      BY <1>1 DEF TypeOK
    <3>2. QED
      BY <2>1, <2>4, <3>1, PushProperties DEF Top
  <2>6. Top'.rest = Due /\ Top'.elapsed = 0
    BY <2>4, <2>5
  <2>7. \A u \in Range(heap) : u \in Timers /\ time[u] # None
    BY <1>1, HeapElements DEF HeapTimed
  <2>8. ready' \subseteq Timers /\ ready' # Off
    <3>1. ready' \in SUBSET Timers
      BY <2>1, <2>3, <2>7
    <3>2. QED
      BY <3>1, TimersAssumption
  <2>9. \A u : (u \in Ready' <=> u \in Range(Due)) /\ u \notin Ready
    BY <1>4, <2>1, <2>8 DEF Ready
  <2>10. TypeOK'
    BY <1>1, <2>1, <2>2, <2>3, <2>5, <2>8 DEF TypeOK
  <2>11. HeapTimed'
    BY <2>1, <2>3, <2>7 DEF HeapTimed
  <2>12. HeapSorted'
    BY <2>1, <2>3 DEF HeapSorted
  <2>13. NoneForgotten'
    <3>1. \A u : u \in dropped => u \notin Range(heap)
      BY <1>1 DEF NoneForgotten
    <3>2. \A u : u \in dropped' => u \notin Range(heap') /\ u \notin Ready'
      BY <2>1, <2>3, <2>9, <3>1
    <3>3. QED
      BY <3>2 DEF NoneForgotten
  <2>14. StartedIsActive'
    <3>1. \A u \in Timers \ dropped : time[u] # None <=> u \in Range(heap) \/ u \in Ready
      BY <1>1 DEF StartedIsActive, Active, InHeap
    <3>2. \A u \in Timers \ dropped' : time'[u] # None <=> u \in Range(heap') \/ u \in Ready'
      BY <2>1, <2>3, <2>9, <3>1
    <3>3. \A u : ~(u \in Ready' /\ u \in Range(heap'))
      BY <2>1, <2>3, <2>9
    <3>4. ready' # Off => stack' # <<>> /\ ready' \subseteq Range(Top'.rest)
      BY <2>1, <2>5, <2>6
    <3>5. QED
      BY <3>2, <3>3, <3>4 DEF StartedIsActive, Active, InHeap
  <2>15. CollectedFirst'
    <3>1. PICK e \in Int : Top'.elapsed = e /\ -e <= 0 /\ -e >= 0
      <4>1. 0 \in Int /\ -0 <= 0 /\ -0 >= 0
        OBVIOUS
      <4>2. QED
        BY <2>6, <4>1
    <3>2. \A u \in Range(heap) : time[u] \in Int
      BY <1>1, <2>7, TimesAreNumbers
    <3>3. \A u \in ready' : time'[u] # None /\ time'[u] <= -e
      BY <2>1, <2>3, <2>7, <3>1, <3>2
    <3>4. \A u \in Range(heap') : time'[u] >= -e
      BY <2>1, <2>3, <3>1, <3>2
    <3>5. QED
      BY <3>1, <3>3, <3>4 DEF CollectedFirst
  <2>16. RestSorted'
    BY <2>1, <2>3, <2>6 DEF RestSorted, Sorted
  <2>17. SharedTimerArmed'
    BY <2>5 DEF SharedTimerArmed
  <2>18. OthersFiring'
    <3>1. CASE stack = <<>>
      <4>1. \A f : f \notin Range(<<>>)
        BY NothingInEmpty
      <4>2. QED
        BY <2>5, <3>1, <4>1 DEF OthersFiring
    <3>2. CASE stack # <<>>
      <4>1. stack \in Seq(Frames) /\ OthersFiring
        BY DEF TimersInv, TypeOK
      <4>2. \A f : f \in Range(stack) <=> f = Top \/ f \in Range(Tail(stack))
        BY <3>2, <4>1, HeadAndTail DEF Top
      <4>3. Top.firing
        BY <3>2 DEF CodeMayRun
      <4>4. \A f \in Range(stack) : f.firing
        BY <3>2, <4>1, <4>2, <4>3 DEF OthersFiring
      <4>5. QED
        BY <2>5, <4>4 DEF OthersFiring
    <3>3. QED
      BY <3>1, <3>2
  <2>19. LoopIsReady'
    BY <2>8 DEF LoopIsReady
  <2>20. QED
    BY <2>2, <2>10, <2>11, <2>12, <2>13, <2>14, <2>15, <2>16, <2>17, <2>18, <2>19 DEF TimersInv
<1>5. QED
  BY <1>3, <1>4

(* The three messages that call sharedTimerFired.                          *)
LEMMA MessageStep ==
  ASSUME TimersInv, TimerFiredMessage \/ WmTimer \/ LastChance
  PROVE  TimersInv'
<1>1. shared \in SharedTimers /\ LastChanceComes
  BY DEF TimersInv, TypeOK
<1>2. TRUE \in BOOLEAN /\ FALSE \in BOOLEAN
  OBVIOUS
<1>3. CASE TimerFiredMessage
  <2> DEFINE s == [shared EXCEPT !.posted = FALSE]
  <2>1. s \in SharedTimers /\ (s.wm # None => s.lastChance)
    BY <1>1 DEF SharedTimers, LastChanceComes
  <2>2. CodeMayRun /\ sharedTimerFired(s, TRUE)
    BY <1>3 DEF TimerFiredMessage
  <2> HIDE DEF s
  <2>3. QED
    BY <1>2, <2>1, <2>2, FiredStep
<1>4. CASE WmTimer \/ LastChance
  <2> DEFINE s == [shared EXCEPT !.wm = None]
  <2>1. s \in SharedTimers /\ (s.wm # None => s.lastChance)
    BY <1>1 DEF SharedTimers
  <2>2. CodeMayRun /\ sharedTimerFired(s, FALSE)
    BY <1>4 DEF WmTimer, LastChance
  <2> HIDE DEF s
  <2>3. QED
    BY <1>2, <2>1, <2>2, FiredStep
<1>5. QED
  BY <1>3, <1>4

(* Only the innermost call is different.                                   *)
LEMMA SetTopProperties ==
  ASSUME TypeOK, NEW frame \in Frames, stack # <<>>, SetTop(frame)
  PROVE  stack' \in Seq(Frames) /\ stack' # <<>> /\ Top' = frame /\ Tail(stack') = Tail(stack)
<1>1. Tail(stack) \in Seq(Frames)
  BY TopProperties
<1>2. QED
  BY <1>1, PushProperties DEF SetTop, Top

(* The next timer fires: a timer that repeats goes back for a time no      *)
(* earlier than that of the others.                                        *)
LEMMA FireNextStep ==
  ASSUME TimersInv, FireNext
  PROVE  TimersInv'
<1> DEFINE t == Head(Top.rest)
           d == IF interval[t] = 0 THEN None ELSE Max({interval[t] - Top.elapsed, -MaxLate})
           frame == [Top EXCEPT !.rest = Tail(Top.rest), !.firing = TRUE]
<1>1. /\ TypeOK /\ StartedIsActive /\ CollectedFirst /\ RestSorted
  BY DEF TimersInv
<1>2. /\ stack # <<>> /\ Top.rest # <<>> /\ t \in ready
      /\ setNextFireTime(t, d) /\ SetTop(frame) /\ interval' = interval
  BY DEF FireNext
<1>3. /\ Top \in Frames /\ Top.rest \in Seq(Timers) /\ Top.elapsed \in Nat
  BY <1>1, <1>2, TopProperties
<1>4. /\ t \in Timers /\ Tail(Top.rest) \in Seq(Timers)
      /\ \A u : u \in Range(Top.rest) <=> u = t \/ u \in Range(Tail(Top.rest))
      /\ \A i \in 1..Len(Tail(Top.rest)) :
           i + 1 \in 1..Len(Top.rest) /\ Tail(Top.rest)[i] = Top.rest[i + 1]
  BY <1>2, <1>3, HeadAndTail
<1>5. frame \in Frames /\ frame.rest = Tail(Top.rest) /\ frame.elapsed = Top.elapsed /\ frame.firing
  BY <1>3, <1>4 DEF Frames
<1> HIDE DEF frame
<1>6. stack' \in Seq(Frames) /\ stack' # <<>> /\ Top' = frame /\ Tail(stack') = Tail(stack)
  BY <1>1, <1>2, <1>5, SetTopProperties
<1> HIDE DEF t
<1>7. /\ d \in Times \cup {None}
      /\ d # None => d \in Int /\ d >= -Top.elapsed
  <2>1. interval[t] \in Int /\ interval[t] >= 0 /\ interval[t] <= MaxDelay /\ MaxDelay \in Nat /\ MaxLate \in Nat
    BY <1>1, <1>4, TimersAssumption DEF TypeOK, Delays
  <2>2. CASE interval[t] = 0
    BY <2>2
  <2>3. CASE interval[t] # 0
    <3>1. d = IF interval[t] - Top.elapsed >= -MaxLate THEN interval[t] - Top.elapsed ELSE -MaxLate
      BY <1>3, <2>1, <2>3, MaxProperties
    <3>2. d \in Int /\ d >= -Top.elapsed /\ d >= -MaxLate /\ d <= MaxDelay
      BY <1>3, <2>1, <3>1
    <3>3. QED
      BY <3>2 DEF Times
  <2>4. QED
    BY <2>2, <2>3
<1> HIDE DEF d
<1>8. /\ heap' \in Seq(Timers) /\ IsInjective(heap')
      /\ time' \in [Timers -> Times \cup {None}]
      /\ (ready # Off => ready' = ready \ {t} /\ ready' # Off)
      /\ ready' = Off \/ ready' \subseteq Timers
      /\ shared' \in SharedTimers /\ dropped' \subseteq Timers
      /\ HeapTimed' /\ HeapSorted' /\ NoneForgotten'
      /\ \A u \in Timers \ dropped' : time'[u] # None <=> Active(u)'
      /\ Ready' \cap Range(heap') = {}
      /\ LastChanceComes'
      /\ \A u \in Range(heap') : u # t => u \in Range(heap) /\ time'[u] = time[u]
      /\ t \in Range(heap') <=> d # None
      /\ time'[t] = d
      /\ \A u \in Timers : u # t => time'[u] = time[u]
  BY <1>2, <1>4, <1>7, SetKeeps
<1>9. TypeOK'
  BY <1>1, <1>2, <1>6, <1>8 DEF TypeOK
<1>10. SharedTimerArmed'
  BY <1>6 DEF SharedTimerArmed
<1>11. OthersFiring' /\ LoopIsReady'
  BY <1>2, <1>5, <1>6 DEF TimersInv, OthersFiring, LoopIsReady
<1>12. ready # Off
  BY <1>2 DEF FireNext, TimersInv, LoopIsReady
<1>13. QED
  <2>1. ready' = ready \ {t} /\ ready \subseteq Timers /\ ready \subseteq Range(Top.rest)
    BY <1>1, <1>8, <1>12 DEF StartedIsActive, TypeOK
  <2>2. StartedIsActive'
    <3>1. ready' \subseteq Range(Top'.rest)
      BY <1>4, <1>5, <1>6, <2>1
    <3>2. QED
      BY <1>6, <1>8, <3>1 DEF StartedIsActive
  <2>3. /\ \A u \in ready : time[u] # None /\ time[u] <= -Top.elapsed
        /\ \A u \in Range(heap) : time[u] >= -Top.elapsed
    BY <1>1, <1>12 DEF CollectedFirst
  <2>4. CollectedFirst'
    <3>1. \A u \in ready' : time'[u] # None /\ time'[u] <= -(Top'.elapsed)
      BY <1>5, <1>6, <1>8, <2>1, <2>3
    <3>2. \A u \in Range(heap') : time'[u] >= -(Top'.elapsed)
      BY <1>5, <1>6, <1>7, <1>8, <2>3
    <3>3. QED
      BY <3>1, <3>2 DEF CollectedFirst
  <2>5. RestSorted'
    <3>1. SUFFICES ASSUME NEW i \in 1..Len(Tail(Top.rest)), NEW j \in 1..Len(Tail(Top.rest)), i < j,
                          Tail(Top.rest)[i] \in ready', Tail(Top.rest)[j] \in ready'
                   PROVE  time'[Tail(Top.rest)[i]] <= time'[Tail(Top.rest)[j]]
      BY <1>5, <1>6 DEF RestSorted
    <3>2. /\ Tail(Top.rest)[i] = Top.rest[i + 1] /\ i + 1 \in 1..Len(Top.rest)
          /\ Tail(Top.rest)[j] = Top.rest[j + 1] /\ j + 1 \in 1..Len(Top.rest) /\ i + 1 < j + 1
      BY <1>4, <3>1
    <3>3. time[Top.rest[i + 1]] <= time[Top.rest[j + 1]]
      BY <1>1, <1>12, <2>1, <3>1, <3>2 DEF RestSorted
    <3>4. /\ time'[Top.rest[i + 1]] = time[Top.rest[i + 1]]
          /\ time'[Top.rest[j + 1]] = time[Top.rest[j + 1]]
      BY <1>8, <2>1, <3>1, <3>2
    <3>5. QED
      BY <3>2, <3>3, <3>4
  <2>6. QED
    BY <1>8, <1>9, <1>10, <1>11, <2>2, <2>4, <2>5 DEF TimersInv

(* Steps of the loop that fire nothing.                                    *)
LEMMA LoopStep ==
  ASSUME TimersInv, UNCHANGED <<heap, time, interval, ready, shared, dropped>>,
         stack # <<>>, stack' \in Seq(Frames), stack' # <<>>, Tail(stack') = Tail(stack),
         ~Top'.firing /\ Top'.rest # <<>> => ready # Off,
         ready # Off => /\ ready \subseteq Range(Top'.rest) /\ Top'.elapsed = Top.elapsed
                        /\ \/ Top'.rest = Top.rest
                           \/ Top'.rest = Tail(Top.rest) /\ Top.rest # <<>>
  PROVE  TimersInv'
<1>1. /\ TypeOK /\ HeapTimed /\ HeapSorted /\ StartedIsActive /\ NoneForgotten
      /\ CollectedFirst /\ RestSorted /\ SharedTimerArmed /\ LastChanceComes
  BY DEF TimersInv
<1>2. TypeOK' /\ HeapTimed' /\ HeapSorted' /\ NoneForgotten' /\ LastChanceComes' /\ SharedTimerArmed'
  BY <1>1 DEF TypeOK, HeapTimed, HeapSorted, NoneForgotten, Ready, LastChanceComes, SharedTimerArmed
<1>3. StartedIsActive'
  <2>1. ready' # Off => stack' # <<>> /\ ready' \subseteq Range(Top'.rest)
    OBVIOUS
  <2>2. QED
    BY <1>1, <2>1 DEF StartedIsActive, Active, InHeap, Ready
<1>4. CollectedFirst'
  BY <1>1 DEF CollectedFirst
<1>5. RestSorted'
  <2>1. CASE ready = Off
    BY <2>1 DEF RestSorted
  <2>2. CASE ready # Off /\ Top'.rest = Top.rest
    BY <1>1, <2>2 DEF RestSorted
  <2>3. CASE ready # Off /\ Top'.rest = Tail(Top.rest) /\ Top.rest # <<>>
    <3>1. \A i \in 1..Len(Tail(Top.rest)) :
             i + 1 \in 1..Len(Top.rest) /\ Tail(Top.rest)[i] = Top.rest[i + 1]
      BY <1>1, <2>3, TopProperties, HeadAndTail
    <3>2. \A i, j \in 1..Len(Tail(Top.rest)) : i < j => i + 1 < j + 1
      OBVIOUS
    <3>3. QED
      BY <1>1, <2>3, <3>1, <3>2 DEF RestSorted
  <2>4. QED
    BY <2>1, <2>2, <2>3
<1>6. OthersFiring' /\ LoopIsReady'
  BY DEF TimersInv, OthersFiring, LoopIsReady
<1>7. QED
  BY <1>2, <1>3, <1>4, <1>5, <1>6 DEF TimersInv

(* A timer that is not ready any more is passed over.                      *)
LEMMA SkipNextStep ==
  ASSUME TimersInv, SkipNext
  PROVE  TimersInv'
<1> DEFINE frame == [Top EXCEPT !.rest = Tail(Top.rest)]
<1>1. TypeOK /\ StartedIsActive
  BY DEF TimersInv
<1>2. /\ stack # <<>> /\ Top.rest # <<>> /\ Head(Top.rest) \notin ready /\ SetTop(frame)
      /\ UNCHANGED <<heap, time, interval, ready, shared, dropped>>
  BY DEF SkipNext
<1>3. Top \in Frames /\ Top.rest \in Seq(Timers)
  BY <1>1, <1>2, TopProperties
<1>4. /\ Tail(Top.rest) \in Seq(Timers)
      /\ \A u : u \in Range(Top.rest) <=> u = Head(Top.rest) \/ u \in Range(Tail(Top.rest))
  BY <1>2, <1>3, HeadAndTail
<1>5. frame \in Frames /\ frame.rest = Tail(Top.rest) /\ frame.elapsed = Top.elapsed
  BY <1>3, <1>4 DEF Frames
<1> HIDE DEF frame
<1>6. stack' \in Seq(Frames) /\ stack' # <<>> /\ Top' = frame /\ Tail(stack') = Tail(stack)
  BY <1>1, <1>2, <1>5, SetTopProperties
<1>7. ready # Off => ready \subseteq Range(Tail(Top.rest))
  BY <1>1, <1>2, <1>4 DEF StartedIsActive
<1>8. ready # Off
  BY <1>2 DEF SkipNext, TimersInv, LoopIsReady
<1>9. QED
  BY <1>2, <1>5, <1>6, <1>7, <1>8, LoopStep

(* fired() returns.                                                        *)
LEMMA FiredReturnsStep ==
  ASSUME TimersInv, FiredReturns
  PROVE  TimersInv'
<1> DEFINE frame == [Top EXCEPT !.firing = FALSE, !.rest = IF ready = Off THEN <<>> ELSE Top.rest]
<1>1. TypeOK /\ StartedIsActive
  BY DEF TimersInv
<1>2. /\ stack # <<>> /\ SetTop(frame)
      /\ UNCHANGED <<heap, time, interval, ready, shared, dropped>>
  BY DEF FiredReturns
<1>3. Top \in Frames /\ Top.rest \in Seq(Timers) /\ <<>> \in Seq(Timers)
  BY <1>1, <1>2, TopProperties
<1>4. /\ frame \in Frames /\ frame.elapsed = Top.elapsed
      /\ ready # Off => frame.rest = Top.rest
      /\ ready = Off => frame.rest = <<>>
  BY <1>3 DEF Frames
<1> HIDE DEF frame
<1>5. stack' \in Seq(Frames) /\ stack' # <<>> /\ Top' = frame /\ Tail(stack') = Tail(stack)
  BY <1>1, <1>2, <1>4, SetTopProperties
<1>6. ready # Off => ready \subseteq Range(Top.rest)
  BY <1>1 DEF StartedIsActive
<1>7. QED
  <2>1. /\ Top'.elapsed = Top.elapsed
        /\ ready # Off => Top'.rest = Top.rest
        /\ ready = Off => Top'.rest = <<>>
    BY <1>4, <1>5
  <2>2. ready # Off => ready \subseteq Range(Top'.rest)
    BY <1>6, <2>1
  <2>3. ~Top'.firing /\ Top'.rest # <<>> => ready # Off
    BY <2>1
  <2>4. ready # Off => /\ ready \subseteq Range(Top'.rest) /\ Top'.elapsed = Top.elapsed
                       /\ \/ Top'.rest = Top.rest
                          \/ Top'.rest = Tail(Top.rest) /\ Top.rest # <<>>
    BY <2>1, <2>2
  <2>5. QED
    BY <1>2, <1>5, <2>3, <2>4, LoopStep

(* The loop is over: no timer is ready, and the calls around it are in     *)
(* fired().                                                                *)
LEMMA DoneStep ==
  ASSUME TimersInv, SharedTimerFiredDone
  PROVE  TimersInv'
<1>1. /\ TypeOK /\ HeapTimed /\ HeapSorted /\ StartedIsActive /\ NoneForgotten
  BY DEF TimersInv
<1>2. PICK s \in updateSharedTimer(Off, heap, time) :
        shared' = [s EXCEPT !.custom = s.custom /\ ~Top.custom]
  BY DEF SharedTimerFiredDone
<1>3. /\ stack # <<>> /\ Top.rest = <<>> /\ ready' = Off /\ stack' = Tail(stack)
      /\ heap' = heap /\ time' = time /\ interval' = interval /\ dropped' = dropped
  BY DEF SharedTimerFiredDone
<1>4. /\ s \in SharedTimers /\ (s.wm # None => s.lastChance)
      /\ heap # <<>> => ArmedFor(s, time[Head(heap)])
  <2>1. heap \in Seq(Timers) /\ time \in [Timers -> Times \cup {None}]
    BY <1>1 DEF TypeOK
  <2>2. QED
    BY <1>1, <2>1, HeadTimed, UpdateProperties
<1>5. /\ shared' \in SharedTimers /\ shared'.wm = s.wm /\ shared'.lastChance = s.lastChance
      /\ shared'.posted = s.posted
  <2>1. s.custom \in BOOLEAN /\ Top.custom \in BOOLEAN
    BY <1>1, <1>3, <1>4, TopProperties DEF SharedTimers, Frames
  <2>2. PICK b \in BOOLEAN : b = (s.custom /\ ~Top.custom)
    BY <2>1
  <2>3. shared' = [s EXCEPT !.custom = b]
    BY <1>2, <2>2
  <2>4. QED
    BY <1>4, <2>3 DEF SharedTimers
<1>6. TypeOK'
  <2>1. stack' \in Seq(Frames)
    BY <1>1, <1>3, TopProperties
  <2>2. QED
    BY <1>1, <1>3, <1>5, <2>1 DEF TypeOK
<1>7. \A u : u \notin Ready /\ u \notin Ready'
  BY <1>1, <1>3, NothingInEmpty DEF Ready, StartedIsActive
<1>8. HeapTimed' /\ HeapSorted'
  BY <1>1, <1>3 DEF HeapTimed, HeapSorted
<1>9. StartedIsActive'
  <2>1. \A u \in Timers \ dropped : time[u] # None <=> u \in Range(heap) \/ u \in Ready
    BY <1>1 DEF StartedIsActive, Active, InHeap
  <2>2. \A u \in Timers \ dropped' : time'[u] # None <=> u \in Range(heap') \/ u \in Ready'
    BY <1>3, <1>7, <2>1
  <2>3. QED
    BY <1>3, <1>7, <2>2 DEF StartedIsActive, Active, InHeap
<1>10. NoneForgotten'
  BY <1>1, <1>3, <1>7 DEF NoneForgotten
<1>11. CollectedFirst' /\ RestSorted'
  BY <1>3 DEF CollectedFirst, RestSorted
<1>12. SharedTimerArmed' /\ LastChanceComes'
  BY <1>3, <1>4, <1>5 DEF SharedTimerArmed, ArmedFor, LastChanceComes
<1>13. OthersFiring' /\ LoopIsReady'
  <2>1. OthersFiring /\ stack \in Seq(Frames)
    BY DEF TimersInv, TypeOK
  <2>2. Tail(stack) \in Seq(Frames) /\ \A f \in Range(Tail(stack)) : f.firing
    BY <1>3, <2>1, HeadTailProperties DEF OthersFiring
  <2>3. CASE Tail(stack) = <<>>
    BY <1>3, <2>3 DEF OthersFiring, LoopIsReady
  <2>4. CASE Tail(stack) # <<>>
    <3>1. \A f : f \in Range(Tail(stack)) <=> f = Head(Tail(stack)) \/ f \in Range(Tail(Tail(stack)))
      BY <2>2, <2>4, HeadAndTail
    <3>2. Head(Tail(stack)).firing /\ \A f \in Range(Tail(Tail(stack))) : f.firing
      BY <2>2, <3>1
    <3>3. QED
      BY <1>3, <3>2 DEF OthersFiring, LoopIsReady, Top
  <2>5. QED
    BY <2>3, <2>4
<1>14. QED
  BY <1>6, <1>8, <1>9, <1>10, <1>11, <1>12, <1>13 DEF TimersInv

-----------------------------------------------------------------------------
(* The theorems.                                                           *)

(* At the beginning nothing is set.                                        *)
LEMMA InitInv ==
  ASSUME Init
  PROVE  TimersInv
<1>1. /\ heap = <<>> /\ time = [t \in Timers |-> None] /\ interval = [t \in Timers |-> 0]
      /\ ready = Off /\ stack = <<>> /\ dropped = {}
      /\ shared = [posted |-> FALSE, wm |-> None, lastChance |-> FALSE, custom |-> FALSE]
  BY DEF Init
<1>2. heap \in Seq(Timers) /\ Len(heap) = 0
  BY <1>1
<1>3. (\A u : u \notin Range(heap)) /\ IsInjective(heap)
  <2>1. \A u : u \notin Range(heap)
    BY <1>1, NothingInEmpty
  <2>2. \A i, j \in 1..Len(heap) : heap[i] = heap[j] => i = j
    BY <1>2
  <2>3. QED
    BY <1>2, <2>1, <2>2, OncePerPlace
<1>4. TypeOK
  <2>1. 0 \in Delays
    BY TimersAssumption DEF Delays
  <2>2. shared \in SharedTimers
    BY <1>1 DEF SharedTimers
  <2>3. stack \in Seq(Frames)
    BY <1>1
  <2>4. QED
    BY <1>1, <1>2, <1>3, <2>1, <2>2, <2>3 DEF TypeOK
<1>5. HeapTimed /\ HeapSorted /\ NoneForgotten
  BY <1>1, <1>2, <1>3 DEF HeapTimed, HeapSorted, Sorted, NoneForgotten
<1>6. StartedIsActive
  BY <1>1, <1>3 DEF StartedIsActive, Active, InHeap, Ready
<1>7. CollectedFirst /\ RestSorted /\ OthersFiring /\ LoopIsReady /\ SharedTimerArmed /\ LastChanceComes
  BY <1>1 DEF CollectedFirst, RestSorted, OthersFiring, LoopIsReady, SharedTimerArmed, LastChanceComes
<1>8. QED
  BY <1>4, <1>5, <1>6, <1>7 DEF TimersInv

(* Every step keeps the invariant.                                         *)
LEMMA NextInv ==
  ASSUME TimersInv, [Next]_vars
  PROVE  TimersInv'
<1>1. ASSUME NEW t \in Timers, Stop(t) PROVE TimersInv'
  BY <1>1, StopStep
<1>2. ASSUME NEW t \in Timers, NEW d \in Delays, NEW repeat \in Delays, Start(t, d, repeat)
      PROVE  TimersInv'
  BY <1>2, StartStep
<1>3. CASE FireTimersInNestedEventLoop
  BY <1>3, NestedStep
<1>4. CASE DeferAndResume
  BY <1>4, DeferStep
<1>5. CASE Tick
  BY <1>5, TickStep
<1>6. CASE TimerFiredMessage \/ WmTimer \/ LastChance
  BY <1>6, MessageStep
<1>7. CASE LoseWmTimer
  BY <1>7, LoseStep
<1>8. CASE FireNext
  BY <1>8, FireNextStep
<1>9. CASE SkipNext
  BY <1>9, SkipNextStep
<1>10. CASE FiredReturns
  BY <1>10, FiredReturnsStep
<1>11. CASE SharedTimerFiredDone
  BY <1>11, DoneStep
<1>12. CASE UNCHANGED vars
  <2>1. UNCHANGED <<heap, time, interval, ready, stack, dropped>> /\ shared' = shared
    BY <1>12 DEF vars
  <2>2. shared' \in SharedTimers /\ LastChanceComes' /\
        (stack = <<>> /\ heap # <<>> => ArmedFor(shared', time[Head(heap)]))
    BY <2>1, Armed DEF TimersInv, TypeOK, LastChanceComes
  <2>3. QED
    BY <2>1, <2>2, SharedStep
<1>13. QED
  BY <1>1, <1>2, <1>3, <1>4, <1>5, <1>6, <1>7, <1>8, <1>9, <1>10, <1>11, <1>12 DEF Next, Code, Firing

(* The inductive invariant holds in every state of Timer.cpp's timers and  *)
(* of the shared timer.                                                    *)
THEOREM TimersInvariant == Spec => []TimersInv
<1>1. Init => TimersInv
  BY InitInv
<1>2. TimersInv /\ [Next]_vars => TimersInv'
  BY NextInv
<1>3. QED
  BY <1>1, <1>2, PTL DEF Spec

(* Every variable keeps its type, however late timers fire and however     *)
(* deep sharedTimerFired nests.                                            *)
THEOREM TypeCorrect == Spec => []TypeOK
<1>1. TimersInv => TypeOK
  BY DEF TimersInv
<1>2. QED
  BY <1>1, TimersInvariant, PTL

(* Whenever no timer is being fired and one is set, updateSharedTimer has  *)
(* left the shared timer armed for it, or the last chance timer is there.  *)
THEOREM AlwaysArmed == Spec => []SharedTimerArmed
<1>1. TimersInv => SharedTimerArmed
  BY DEF TimersInv
<1>2. QED
  BY <1>1, TimersInvariant, PTL

(* A timer that was started is in the heap or about to be reached by       *)
(* fireTimers, but for those a nested event loop has dropped.              *)
THEOREM NoTimerIsLost == Spec => []StartedIsActive
<1>1. TimersInv => StartedIsActive
  BY DEF TimersInv
<1>2. QED
  BY <1>1, TimersInvariant, PTL

(* The timer that fireTimers fires is due, and no active timer has an      *)
(* earlier time.                                                           *)
LEMMA FiresFirst ==
  ASSUME TimersInv, NEW t \in Timers, Fires(t)
  PROVE  /\ time[t] # None /\ time[t] <= 0
         /\ ~\E u \in Timers : Active(u) /\ time[u] # None /\ time[u] < time[t]
<1>1. /\ TypeOK /\ StartedIsActive /\ CollectedFirst /\ RestSorted
  BY DEF TimersInv
<1>2. stack # <<>> /\ Top.rest # <<>> /\ t = Head(Top.rest) /\ t \in ready
  BY DEF Fires, FireNext
<1>3. ready # Off
  BY DEF TimersInv, LoopIsReady, Fires, FireNext
<1>4. QED
  <2>1. /\ \A u \in ready : time[u] # None /\ time[u] <= -Top.elapsed
        /\ \A u \in Range(heap) : time[u] >= -Top.elapsed
        /\ ready \subseteq Range(Top.rest)
    BY <1>1, <1>3 DEF CollectedFirst, StartedIsActive
  <2>2. Top.elapsed \in Nat /\ Top.rest \in Seq(Timers)
    BY <1>1, <1>2, TopProperties
  <2>3. /\ 1 \in 1..Len(Top.rest) /\ Top.rest[1] = t
        /\ \A u : u \in Range(Top.rest) <=> \E i \in 1..Len(Top.rest) : Top.rest[i] = u
    BY <1>2, <2>2, HeadAndTail, InRange
  <2>4. time[t] # None /\ time[t] <= -Top.elapsed /\ time[t] \in Int
    BY <1>1, <1>2, <2>1, TimesAreNumbers
  <2>5. time[t] <= 0
    BY <2>2, <2>4
  <2>6. ASSUME NEW u \in Timers, Active(u), time[u] # None, time[u] < time[t] PROVE FALSE
    <3>1. time[u] \in Int
      BY <1>1, <2>6, TimesAreNumbers
    <3>2. CASE u \in Range(heap)
      BY <2>1, <2>2, <2>4, <2>6, <3>1, <3>2
    <3>3. CASE u \in ready
      <4>1. PICK i \in 1..Len(Top.rest) : Top.rest[i] = u
        BY <2>1, <2>3, <3>3
      <4>2. i = 1 \/ 1 < i
        BY <4>1
      <4>3. CASE i = 1
        BY <2>3, <2>4, <2>6, <4>1, <4>3
      <4>4. CASE 1 < i
        <5>1. time[t] <= time[u]
          BY <1>1, <1>2, <1>3, <2>3, <3>3, <4>1, <4>4 DEF RestSorted
        <5>2. QED
          BY <2>4, <2>6, <3>1, <5>1
      <4>5. QED
        BY <4>2, <4>3, <4>4
    <3>4. QED
      BY <1>3, <2>6, <3>2, <3>3 DEF Active, InHeap, Ready
  <2>7. QED
    BY <2>4, <2>5, <2>6

(* Timers fire when they are due and in the order of their times, for any  *)
(* number of timers, whatever restarts them in between.                    *)
THEOREM InOrder == Spec => FiresInOrder
<1>1. TimersInv => \A t \in Timers :
       Fires(t) =>
         /\ time[t] # None /\ time[t] <= 0
         /\ ~\E u \in Timers : Active(u) /\ time[u] # None /\ time[u] < time[t]
  BY FiresFirst
<1>2. QED
  BY <1>1, TimersInvariant, PTL DEF FiresInOrder
=============================================================================
