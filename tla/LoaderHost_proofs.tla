------------------------- MODULE LoaderHost_proofs -------------------------
(***************************************************************************)
(* Theorems about the scheduling of subresource loads, for every set of    *)
(* requests and documents, every limit and every depth of nesting.         *)
(***************************************************************************)
EXTENDS LoaderHost, FiniteSetTheorems, FunctionTheorems, SequenceTheorems, TLAPS

-----------------------------------------------------------------------------
(* Facts about the operators on sequences and sets of numbers that the     *)
(* model is built from.                                                    *)

(* What Range collects, by place.                                           *)
LEMMA InRange ==
  ASSUME NEW S, NEW s \in Seq(S), NEW v
  PROVE  v \in Range(s) <=> \E i \in 1..Len(s) : s[i] = v
  BY LenProperties DEF Range

(* An element put before a sequence.                                       *)
LEMMA PushProperties ==
  ASSUME NEW S, NEW s \in Seq(S), NEW e \in S
  PROVE  /\ <<e>> \o s \in Seq(S) /\ <<e>> \o s # <<>>
         /\ Head(<<e>> \o s) = e /\ Tail(<<e>> \o s) = s
<1>1. <<e>> \in Seq(S) /\ Len(<<e>>) = 1 /\ <<e>>[1] = e
  OBVIOUS
<1>2. /\ <<e>> \o s \in Seq(S) /\ Len(<<e>> \o s) = 1 + Len(s)
      /\ \A i \in 1..(1 + Len(s)) : (<<e>> \o s)[i] = IF i <= 1 THEN <<e>>[i] ELSE s[i - 1]
  BY <1>1, ConcatProperties
<1>3. Len(s) \in Nat /\ 1 \in 1..(1 + Len(s))
  BY LenProperties
<1>4. <<e>> \o s # <<>>
  BY <1>2, <1>3, EmptySeq
<1>5. (<<e>> \o s)[1] = e
  BY <1>1, <1>2, <1>3
<1> DEFINE q == <<e>> \o s
<1>6. Head(q) = q[1]
  <2> HIDE DEF q
  <2> QED OBVIOUS
<1>7. Tail(q) = s
  <2>1. q \in Seq(S) /\ q # <<>> /\ Len(q) = 1 + Len(s)
    BY <1>2, <1>4
  <2>2. /\ Tail(q) \in Seq(S) /\ Len(Tail(q)) = Len(q) - 1
        /\ \A i \in 1..Len(Tail(q)) : Tail(q)[i] = q[i + 1]
    <3> HIDE DEF q
    <3> QED BY <2>1, HeadTailProperties
  <2>3. Len(Tail(q)) = Len(s)
    BY <1>3, <2>1, <2>2
  <2>4. ASSUME NEW i \in 1..Len(s) PROVE q[i + 1] = s[i]
    <3>1. i + 1 \in 1..(1 + Len(s)) /\ ~(i + 1 <= 1) /\ (i + 1) - 1 = i
      BY <1>3
    <3>2. QED
      BY <1>2, <3>1
  <2>5. \A i \in 1..Len(Tail(q)) : Tail(q)[i] = s[i]
    BY <2>2, <2>3, <2>4
  <2>6. QED
    <3> HIDE DEF q
    <3> QED BY <2>2, <2>3, <2>5, SeqEqual
<1>8. QED
  BY <1>2, <1>4, <1>5, <1>6, <1>7

(* The elements of a sequence are the first and those after it.            *)
LEMMA HeadAndTail ==
  ASSUME NEW S, NEW s \in Seq(S), s # <<>>
  PROVE  /\ Head(s) \in S /\ Tail(s) \in Seq(S) /\ 1 \in 1..Len(s) /\ s[1] = Head(s)
         /\ \A u : u \in Range(s) <=> u = Head(s) \/ u \in Range(Tail(s))
         /\ \A i \in 1..Len(Tail(s)) : i + 1 \in 1..Len(s) /\ Tail(s)[i] = s[i + 1]
<1>1. /\ Head(s) \in S /\ Tail(s) \in Seq(S) /\ Len(Tail(s)) = Len(s) - 1
      /\ \A i \in 1..Len(Tail(s)) : Tail(s)[i] = s[i + 1]
  BY HeadTailProperties
<1>2. Len(s) \in Nat \ {0}
  BY EmptySeq
<1>3. 1 \in 1..Len(s) /\ s[1] = Head(s)
  BY <1>2
<1>4. \A i \in 1..Len(Tail(s)) : i + 1 \in 1..Len(s)
  BY <1>1, <1>2
<1>5. \A u : u \in Range(s) <=> \E i \in 1..Len(s) : s[i] = u
  BY InRange
<1>6. \A u : u \in Range(Tail(s)) <=> \E i \in 1..Len(Tail(s)) : Tail(s)[i] = u
  BY <1>1, InRange
<1>7. ASSUME NEW u, u \in Range(s), u # Head(s) PROVE u \in Range(Tail(s))
  <2>1. PICK i \in 1..Len(s) : s[i] = u /\ i # 1
    BY <1>3, <1>5, <1>7
  <2>2. i - 1 \in 1..Len(Tail(s)) /\ (i - 1) + 1 = i
    BY <1>1, <1>2, <2>1
  <2>3. Tail(s)[i - 1] = u
    BY <1>1, <2>1, <2>2
  <2>4. QED
    BY <1>6, <2>2, <2>3
<1>8. ASSUME NEW u, u \in Range(Tail(s)) PROVE u \in Range(s)
  <2>1. PICK i \in 1..Len(Tail(s)) : Tail(s)[i] = u
    BY <1>6, <1>8
  <2>2. s[i + 1] = u /\ i + 1 \in 1..Len(s)
    BY <1>1, <1>4, <2>1
  <2>3. QED
    BY <1>5, <2>2
<1>9. Head(s) \in Range(s)
  BY <1>3, <1>5
<1>10. QED
  BY <1>1, <1>3, <1>4, <1>7, <1>8, <1>9

(* Places taken in order: the n-th of a set of places is the one with n of *)
(* them up to it.                                                          *)
LEMMA PlacesInOrder ==
  ASSUME NEW m \in Nat, NEW I \in SUBSET (1..m)
  PROVE  /\ IsFiniteSet(I) /\ Cardinality(I) \in Nat
         /\ \A i \in I : Cardinality({k \in I : k <= i}) \in 1..Cardinality(I)
         /\ \A i, j \in I : i < j =>
              Cardinality({k \in I : k <= i}) < Cardinality({k \in I : k <= j})
         /\ \A n \in 1..Cardinality(I) : \E i \in I : Cardinality({k \in I : k <= i}) = n
<1> DEFINE R(i) == {k \in I : k <= i}
<1>1. IsFiniteSet(I) /\ Cardinality(I) \in Nat
  <2>1. IsFiniteSet(1..m)
    BY FS_Interval
  <2>2. QED
    BY <2>1, FS_Subset, FS_CardinalityType
<1>2. \A i \in I : i \in Int
  OBVIOUS
<1>3. ASSUME NEW i \in I PROVE IsFiniteSet(R(i)) /\ Cardinality(R(i)) \in 1..Cardinality(I)
  <2>1. R(i) \in SUBSET I /\ i \in R(i)
    BY <1>2
  <2>2. IsFiniteSet(R(i)) /\ Cardinality(R(i)) \in Nat /\ Cardinality(R(i)) <= Cardinality(I)
    BY <1>1, <2>1, FS_Subset, FS_CardinalityType
  <2>3. Cardinality(R(i)) # 0
    BY <2>1, <2>2, FS_EmptySet
  <2> HIDE DEF R
  <2>4. QED
    BY <1>1, <2>2, <2>3
<1>4. ASSUME NEW i \in I, NEW j \in I, i < j PROVE Cardinality(R(i)) < Cardinality(R(j))
  <2>1. R(i) \in SUBSET R(j) /\ j \in R(j) /\ j \notin R(i)
    <3>1. i \in Int /\ j \in Int /\ ~(j <= i) /\ j <= j
      BY <1>2, <1>4
    <3>2. \A k \in I : k <= i => k <= j
      BY <1>2, <1>4, <3>1
    <3>3. QED
      BY <3>1, <3>2
  <2>2. IsFiniteSet(R(j)) /\ Cardinality(R(i)) \in Nat /\ Cardinality(R(j)) \in Nat
    BY <1>3
  <2> HIDE DEF R
  <2>3. Cardinality(R(i)) <= Cardinality(R(j)) /\ Cardinality(R(i)) # Cardinality(R(j))
    BY <2>1, <2>2, FS_Subset
  <2>4. QED
    BY <2>2, <2>3
<1>5. ASSUME NEW n \in 1..Cardinality(I) PROVE \E i \in I : Cardinality(R(i)) = n
  <2> DEFINE rank == [i \in I |-> Cardinality(R(i))]
             N == 1..Cardinality(I)
  <2>1. rank \in [I -> N]
    BY <1>3
  <2>2. \A i, j \in I : rank[i] = rank[j] => i = j
    <3>1. SUFFICES ASSUME NEW i \in I, NEW j \in I, i # j PROVE rank[i] # rank[j]
      OBVIOUS
    <3>2. i < j \/ j < i
      BY <1>2, <3>1
    <3>3. Cardinality(R(i)) \in Nat /\ Cardinality(R(j)) \in Nat
      BY <1>3
    <3>4. rank[i] = Cardinality(R(i)) /\ rank[j] = Cardinality(R(j))
      OBVIOUS
    <3> HIDE DEF R, rank
    <3>5. QED
      BY <1>4, <3>2, <3>3, <3>4
  <2>3. rank \in Injection(I, N)
    <3> HIDE DEF rank, N
    <3>1. QED
      BY <2>1, <2>2, Fun_IsInj
  <2>4. IsFiniteSet(N) /\ Cardinality(N) = Cardinality(I)
    <3>1. 1 \in Int /\ Cardinality(I) \in Int /\ (1 > Cardinality(I) => Cardinality(I) = 0)
      BY <1>1
    <3>2. QED
      BY <1>1, <3>1, FS_Interval
  <2>5. rank \in Surjection(I, N)
    <3> HIDE DEF rank, N
    <3>1. QED
      BY <2>3, <2>4, FS_Injection
  <2>6. \E i \in I : rank[i] = n
    BY <2>5 DEF Surjection
  <2>7. QED
    BY <2>6
<1>6. QED
  BY <1>1, <1>3, <1>4, <1>5

(* AtPlaces(s, I) takes the elements of s at the places in I, in order:    *)
(* `place' says where each one was.                                        *)
LEMMA AtPlacesProperties ==
  ASSUME NEW S, NEW s \in Seq(S), NEW I \in SUBSET (1..Len(s))
  PROVE  /\ AtPlaces(s, I) \in Seq(S)
         /\ Len(AtPlaces(s, I)) = Cardinality(I)
         /\ \E place \in [1..Cardinality(I) -> I] :
              /\ \A n \in 1..Cardinality(I) : AtPlaces(s, I)[n] = s[place[n]]
              /\ \A n, m \in 1..Cardinality(I) : n < m => place[n] < place[m]
              /\ \A i \in I : \E n \in 1..Cardinality(I) : place[n] = i
<1> DEFINE C == Cardinality(I)
           rank(i) == Cardinality({k \in I : k <= i})
           place == [n \in 1..C |-> CHOOSE i \in I : rank(i) = n]
<1>1. Len(s) \in Nat /\ \A i \in 1..Len(s) : s[i] \in S
  BY LenProperties, ElementOfSeq
<1>2. /\ C \in Nat
      /\ \A i \in I : rank(i) \in 1..C
      /\ \A i, j \in I : i < j => rank(i) < rank(j)
      /\ \A n \in 1..C : \E i \in I : rank(i) = n
  BY <1>1, PlacesInOrder
<1> HIDE DEF rank, C
<1>3. \A n \in 1..C : place[n] \in I /\ rank(place[n]) = n
  BY <1>2
<1>4. place \in [1..C -> I]
  BY <1>3
<1>5. \A i, j \in I : rank(i) = rank(j) => i = j
  BY <1>2
<1>6. ASSUME NEW n \in 1..C, NEW m \in 1..C, n < m PROVE place[n] < place[m]
  <2>1. PICK a \in I, b \in I : a = place[n] /\ b = place[m] /\ rank(a) = n /\ rank(b) = m
    BY <1>3
  <2>2. a \in Int /\ b \in Int /\ n \in Int /\ m \in Int
    BY <1>1, <1>2
  <2>3. b < a => m < n
    BY <1>2, <2>1
  <2>4. a # b
    BY <1>6, <2>1, <2>2
  <2>5. a < b
    BY <1>6, <2>2, <2>3, <2>4
  <2>6. QED
    BY <2>1, <2>5
<1>7. ASSUME NEW i \in I PROVE \E n \in 1..C : place[n] = i
  <2>1. rank(i) \in 1..C
    BY <1>2
  <2>2. place[rank(i)] = i
    BY <1>3, <1>5, <2>1
  <2>3. QED
    BY <2>1, <2>2
<1>8. AtPlaces(s, I) = [n \in 1..C |-> s[place[n]]]
  BY DEF AtPlaces, C, rank
<1> HIDE DEF place
<1>9. \A n \in 1..C : s[place[n]] \in S
  BY <1>1, <1>4
<1>10. AtPlaces(s, I) \in Seq(S) /\ Len(AtPlaces(s, I)) = C
  BY <1>2, <1>8, <1>9
<1>11. QED
  BY <1>4, <1>6, <1>7, <1>8, <1>10 DEF C

-----------------------------------------------------------------------------
(* Frames.                                                                 *)

LEMMA FrameKinds ==
  ASSUME NEW f \in Frames
  PROVE  /\ f.op = "serve" /\ f.at = "loop" => f \in ServeFrames
         /\ f.op = "serve" /\ f.at \in {"resource", "done"} => f \in FailedFrames
         /\ f.op \in {"finish", "fail", "revalidated", "data"} => f \in AboutFrames
         /\ f.op = "cancel" => f \in CancelFrames
         /\ f.op = "serve" => f.queue \in Priorities /\ f.min \in Priorities
<1>1. CASE f \in ServeFrames
  BY <1>1 DEF ServeFrames
<1>2. CASE f \in FailedFrames
  BY <1>2 DEF FailedFrames
<1>3. CASE f \in AboutFrames
  BY <1>3 DEF AboutFrames
<1>4. CASE f \in CancelFrames
  BY <1>4 DEF CancelFrames
<1>5. QED
  BY <1>1, <1>2, <1>3, <1>4 DEF Frames

LEMMA NewFrames ==
  /\ \A p \in Priorities : ServeFrom(p) \in Frames
  /\ \A op \in {"finish", "fail", "revalidated", "data"}, at \in {"resource", "done"} :
       \A r \in Requests : About(op, at, r) \in Frames
  /\ \A d \in Docs : \A T \in SUBSET Requests :
       [op |-> "cancel", at |-> "loop", doc |-> d, todo |-> T] \in Frames
<1>1. \A p \in Priorities : ServeFrom(p) \in ServeFrames
  BY DEF ServeFrom, ServeFrames, Priorities, Low, High
<1>2. \A op \in {"finish", "fail", "revalidated", "data"}, at \in {"resource", "done"} :
       \A r \in Requests : About(op, at, r) \in AboutFrames
  BY DEF About, AboutFrames
<1>3. \A d \in Docs : \A T \in SUBSET Requests :
       [op |-> "cancel", at |-> "loop", doc |-> d, todo |-> T] \in CancelFrames
  BY DEF CancelFrames
<1>4. QED
  BY <1>1, <1>2, <1>3 DEF Frames

LEMMA TopIs ==
  ASSUME stack \in Seq(Frames), stack # <<>>
  PROVE  Top \in Frames /\ Tail(stack) \in Seq(Frames)
BY HeadAndTail DEF Top

LEMMA Pushed ==
  ASSUME NEW s \in Seq(Frames), NEW f \in Frames
  PROVE  <<f>> \o s \in Seq(Frames)
BY PushProperties

LEMMA WentOn ==
  ASSUME stack \in Seq(Frames), stack # <<>>, NEW at \in {"resource", "done", "preloads"},
         Top \in AboutFrames \/ (Top \in FailedFrames /\ at # "preloads")
  PROVE  /\ [Top EXCEPT !.at = at] \in Frames
         /\ GoOn(at) => stack' \in Seq(Frames)
<1>1. CASE Top \in AboutFrames
  <2>1. [Top EXCEPT !.at = at] \in AboutFrames
    BY <1>1 DEF AboutFrames
  <2>2. QED
    BY <2>1, TopIs, Pushed DEF GoOn, Frames
<1>2. CASE Top \in FailedFrames /\ at # "preloads"
  <2>1. [Top EXCEPT !.at = at] \in FailedFrames
    BY <1>2 DEF FailedFrames
  <2>2. QED
    BY <2>1, TopIs, Pushed DEF GoOn, Frames
<1>3. QED
  BY <1>1, <1>2

-----------------------------------------------------------------------------
(* The queues.                                                             *)

InQueues(pend) ==
  {r \in Requests : \E p \in Priorities : \E i \in 1..Len(pend[p]) : pend[p][i] = r}

(* A request waits in one place.                                           *)
Distinct(pend) ==
  \A p, q \in Priorities : \A i \in 1..Len(pend[p]), j \in 1..Len(pend[q]) :
    pend[p][i] = pend[q][j] => p = q /\ i = j

Queues == [Priorities -> Seq(Requests)]

LEMMA Enqueued ==
  ASSUME NEW pend \in Queues, Distinct(pend), NEW r \in Requests, r \notin InQueues(pend),
         NEW p \in Priorities
  PROVE  LET new == [pend EXCEPT ![p] = Append(@, r)] IN
         /\ new \in Queues /\ Distinct(new) /\ InQueues(new) = InQueues(pend) \cup {r}
         /\ \A q \in Priorities : new[q] # <<>> => pend[q] # <<>> \/ q = p
<1> DEFINE new == [pend EXCEPT ![p] = Append(@, r)]
<1>1. \A q \in Priorities : /\ pend[q] \in Seq(Requests) /\ Len(pend[q]) \in Nat
                            /\ \A i \in 1..Len(pend[q]) : pend[q][i] \in Requests /\ pend[q][i] # r
  <2> SUFFICES ASSUME NEW q \in Priorities
               PROVE  /\ pend[q] \in Seq(Requests) /\ Len(pend[q]) \in Nat
                      /\ \A i \in 1..Len(pend[q]) : pend[q][i] \in Requests /\ pend[q][i] # r
    OBVIOUS
  <2>1. pend[q] \in Seq(Requests)
    BY DEF Queues
  <2>2. Len(pend[q]) \in Nat /\ \A i \in 1..Len(pend[q]) : pend[q][i] \in Requests
    BY <2>1, LenProperties, ElementOfSeq
  <2>3. QED
    BY <2>1, <2>2 DEF InQueues
<1>2. /\ new[p] \in Seq(Requests) /\ Len(new[p]) = Len(pend[p]) + 1
      /\ \A i \in 1..Len(pend[p]) : new[p][i] = pend[p][i]
      /\ new[p][Len(pend[p]) + 1] = r
  BY <1>1, AppendProperties DEF Queues
<1>3. \A q \in Priorities : q # p => new[q] = pend[q]
  BY DEF Queues
<1>4. new \in Queues
  BY <1>1, <1>2 DEF Queues
<1>5. \A q \in Priorities : \A i \in 1..Len(new[q]) :
        (q = p /\ i = Len(pend[p]) + 1 /\ new[q][i] = r)
        \/ (i \in 1..Len(pend[q]) /\ new[q][i] = pend[q][i])
  <2> HIDE DEF new
  <2> SUFFICES ASSUME NEW q \in Priorities, NEW i \in 1..Len(new[q])
               PROVE  (q = p /\ i = Len(pend[p]) + 1 /\ new[q][i] = r)
                      \/ (i \in 1..Len(pend[q]) /\ new[q][i] = pend[q][i])
    OBVIOUS
  <2>1. CASE q = p
    BY <1>1, <1>2, <2>1
  <2>2. CASE q # p
    BY <1>3, <2>2
  <2>3. QED
    BY <2>1, <2>2
<1>6. \A q \in Priorities : \A i \in 1..Len(pend[q]) :
        i \in 1..Len(new[q]) /\ new[q][i] = pend[q][i]
  <2> HIDE DEF new
  <2> QED BY <1>1, <1>2, <1>3
<1>7. Len(pend[p]) + 1 \in 1..Len(new[p])
  BY <1>1, <1>2
<1> HIDE DEF new
<1>8. InQueues(new) = InQueues(pend) \cup {r}
  <2>1. ASSUME NEW u \in InQueues(new) PROVE u \in InQueues(pend) \cup {r}
    BY <1>5, <2>1 DEF InQueues
  <2>2. ASSUME NEW u \in InQueues(pend) PROVE u \in InQueues(new)
    BY <1>6, <2>2 DEF InQueues
  <2>3. r \in InQueues(new)
    BY <1>2, <1>7 DEF InQueues
  <2>4. QED
    BY <2>1, <2>2, <2>3
<1>9. Distinct(new)
  <2> SUFFICES ASSUME NEW q1 \in Priorities, NEW q2 \in Priorities,
                      NEW i \in 1..Len(new[q1]), NEW j \in 1..Len(new[q2]),
                      new[q1][i] = new[q2][j]
               PROVE  q1 = q2 /\ i = j
    BY DEF Distinct
  <2>1. CASE new[q1][i] = r
    <3>1. q1 = p /\ i = Len(pend[p]) + 1
      <4>1. i \in 1..Len(pend[q1]) => pend[q1][i] # r
        BY <1>1
      <4>2. QED
        BY <1>5, <2>1, <4>1
    <3>2. q2 = p /\ j = Len(pend[p]) + 1
      <4>1. j \in 1..Len(pend[q2]) => pend[q2][j] # r
        BY <1>1
      <4>2. new[q2][j] = r
        BY <2>1
      <4>3. QED
        BY <1>5, <4>1, <4>2
    <3>3. QED
      BY <3>1, <3>2
  <2>2. CASE new[q1][i] # r
    <3>1. i \in 1..Len(pend[q1]) /\ new[q1][i] = pend[q1][i]
      BY <1>5, <2>2
    <3>2. j \in 1..Len(pend[q2]) /\ new[q2][j] = pend[q2][j]
      BY <1>5, <2>2
    <3>3. pend[q1][i] = pend[q2][j]
      BY <3>1, <3>2
    <3>4. QED
      BY <3>1, <3>2, <3>3 DEF Distinct
  <2>3. QED
    BY <2>1, <2>2
<1>10. \A q \in Priorities : new[q] # <<>> => pend[q] # <<>> \/ q = p
  BY <1>3
<1>11. QED
  BY <1>4, <1>8, <1>9, <1>10 DEF new

LEMMA Dequeued ==
  ASSUME NEW pend \in Queues, Distinct(pend), NEW p \in Priorities, pend[p] # <<>>
  PROVE  LET new == [pend EXCEPT ![p] = Tail(@)] IN
         /\ Head(pend[p]) \in InQueues(pend)
         /\ new \in Queues /\ Distinct(new)
         /\ InQueues(new) = InQueues(pend) \ {Head(pend[p])}
         /\ \A q \in Priorities : new[q] # <<>> => pend[q] # <<>>
         /\ Len(new[p]) < Len(pend[p]) /\ \A q \in Priorities : q # p => new[q] = pend[q]
<1> DEFINE new == [pend EXCEPT ![p] = Tail(@)]
           r == Head(pend[p])
<1>1. \A q \in Priorities : pend[q] \in Seq(Requests) /\ Len(pend[q]) \in Nat
  BY LenProperties DEF Queues
<1>2. /\ r \in Requests /\ Tail(pend[p]) \in Seq(Requests)
      /\ 1 \in 1..Len(pend[p]) /\ pend[p][1] = r
      /\ \A i \in 1..Len(Tail(pend[p])) : Tail(pend[p])[i] = pend[p][i + 1]
      /\ Len(Tail(pend[p])) = Len(pend[p]) - 1
  BY <1>1, HeadAndTail, HeadTailProperties
<1>3. new[p] = Tail(pend[p]) /\ \A q \in Priorities : q # p => new[q] = pend[q]
  BY DEF Queues
<1>4. new \in Queues
  BY <1>1, <1>2 DEF Queues
<1> HIDE DEF new, r
<1>5. \A q \in Priorities : \A i \in 1..Len(new[q]) :
        \/ q = p /\ i + 1 \in 1..Len(pend[p]) /\ new[q][i] = pend[p][i + 1]
        \/ q # p /\ i \in 1..Len(pend[q]) /\ new[q][i] = pend[q][i]
  <2> SUFFICES ASSUME NEW q \in Priorities, NEW i \in 1..Len(new[q])
               PROVE  \/ q = p /\ i + 1 \in 1..Len(pend[p]) /\ new[q][i] = pend[p][i + 1]
                      \/ q # p /\ i \in 1..Len(pend[q]) /\ new[q][i] = pend[q][i]
    OBVIOUS
  <2>1. CASE q = p
    <3>1. new[q] = Tail(pend[p]) /\ Len(new[q]) = Len(pend[p]) - 1
      BY <1>2, <1>3, <2>1
    <3>2. i \in 1..Len(Tail(pend[p])) /\ i + 1 \in 1..Len(pend[p])
      BY <1>1, <1>2, <3>1
    <3>3. QED
      BY <1>2, <2>1, <3>1, <3>2
  <2>2. CASE q # p
    BY <1>3, <2>2
  <2>3. QED
    BY <2>1, <2>2
<1>6. \A q \in Priorities : \A i \in 1..Len(pend[q]) :
        \/ q = p /\ i = 1 /\ pend[q][i] = r
        \/ q = p /\ i - 1 \in 1..Len(new[q]) /\ new[q][i - 1] = pend[q][i]
        \/ q # p /\ i \in 1..Len(new[q]) /\ new[q][i] = pend[q][i]
  <2> SUFFICES ASSUME NEW q \in Priorities, NEW i \in 1..Len(pend[q])
               PROVE  \/ q = p /\ i = 1 /\ pend[q][i] = r
                      \/ q = p /\ i - 1 \in 1..Len(new[q]) /\ new[q][i - 1] = pend[q][i]
                      \/ q # p /\ i \in 1..Len(new[q]) /\ new[q][i] = pend[q][i]
    OBVIOUS
  <2>1. CASE q = p /\ i = 1
    BY <1>2, <2>1
  <2>2. CASE q = p /\ i # 1
    <3>1. i - 1 \in 1..(Len(pend[p]) - 1) /\ (i - 1) + 1 = i
      BY <1>1, <2>2
    <3>2. QED
      BY <1>2, <1>3, <2>2, <3>1
  <2>3. CASE q # p
    BY <1>3, <2>3
  <2>4. QED
    BY <2>1, <2>2, <2>3
<1>7. r \in InQueues(pend)
  BY <1>2 DEF InQueues
<1>8. InQueues(new) = InQueues(pend) \ {r}
  <2>1. ASSUME NEW u \in InQueues(new) PROVE u \in InQueues(pend) /\ u # r
    <3>1. PICK q \in Priorities : \E i \in 1..Len(new[q]) : new[q][i] = u
      BY <2>1 DEF InQueues
    <3> PICK i \in 1..Len(new[q]) : new[q][i] = u
      BY <3>1
    <3>2. u \in Requests
      BY DEF InQueues
    <3>3. CASE q = p
      <4>1. i + 1 \in 1..Len(pend[p]) /\ u = pend[p][i + 1]
        BY <1>5, <3>1, <3>3
      <4>2. i + 1 # 1
        OBVIOUS
      <4>3. u # r
        BY <1>2, <4>1, <4>2 DEF Distinct
      <4>4. QED
        BY <3>2, <4>1, <4>3 DEF InQueues
    <3>4. CASE q # p
      <4>1. i \in 1..Len(pend[q]) /\ u = pend[q][i]
        BY <1>5, <3>1, <3>4
      <4>2. u # r
        BY <1>2, <3>4, <4>1 DEF Distinct
      <4>3. QED
        BY <3>2, <4>1, <4>2 DEF InQueues
    <3>5. QED
      BY <3>3, <3>4
  <2>2. ASSUME NEW u \in InQueues(pend), u # r PROVE u \in InQueues(new)
    BY <1>6, <2>2 DEF InQueues
  <2>3. QED
    BY <2>1, <2>2
<1>9. Distinct(new)
  <2> SUFFICES ASSUME NEW q1 \in Priorities, NEW q2 \in Priorities,
                      NEW i \in 1..Len(new[q1]), NEW j \in 1..Len(new[q2]),
                      new[q1][i] = new[q2][j]
               PROVE  q1 = q2 /\ i = j
    BY DEF Distinct
  <2>1. PICK a \in {i, i + 1} : a \in 1..Len(pend[q1]) /\ new[q1][i] = pend[q1][a] /\ (a = i + 1 <=> q1 = p)
    BY <1>5
  <2>2. PICK b \in {j, j + 1} : b \in 1..Len(pend[q2]) /\ new[q2][j] = pend[q2][b] /\ (b = j + 1 <=> q2 = p)
    BY <1>5
  <2>3. pend[q1][a] = pend[q2][b]
    BY <2>1, <2>2
  <2>4. q1 = q2 /\ a = b
    BY <2>1, <2>2, <2>3 DEF Distinct
  <2>5. CASE q1 = p
    <3>1. a = i + 1 /\ b = j + 1
      BY <2>1, <2>2, <2>4, <2>5
    <3>2. i \in Int /\ j \in Int
      OBVIOUS
    <3>3. i + 1 = j + 1
      BY <2>4, <3>1
    <3>4. i = j
      BY <3>2, <3>3
    <3>5. QED
      BY <2>4, <3>4
  <2>6. CASE q1 # p
    <3>1. a = i /\ b = j
      BY <2>1, <2>2, <2>4, <2>6
    <3>2. QED
      BY <2>4, <3>1
  <2>7. QED
    BY <2>5, <2>6
<1>10. \A q \in Priorities : new[q] # <<>> => pend[q] # <<>>
  BY <1>3
<1>11. Len(new[p]) < Len(pend[p])
  BY <1>1, <1>2, <1>3
<1>12. QED
  BY <1>3, <1>4, <1>7, <1>8, <1>9, <1>10, <1>11 DEF new, r

(* cancelPendingRequests keeps the requests of the other documents.        *)
LEMMA OthersLeft ==
  ASSUME NEW pend \in Queues, Distinct(pend), NEW d
  PROVE  LET new == [p \in Priorities |-> Others(pend[p], d)] IN
         /\ new \in Queues /\ Distinct(new)
         /\ InQueues(new) = {r \in InQueues(pend) : DocOf[r] # d}
         /\ \A p \in Priorities : new[p] # <<>> => pend[p] # <<>>
<1> DEFINE new == [p \in Priorities |-> Others(pend[p], d)]
           I(p) == {i \in 1..Len(pend[p]) : DocOf[pend[p][i]] # d}
<1>1. ASSUME NEW p \in Priorities
      PROVE  /\ new[p] \in Seq(Requests)
             /\ \E place \in [1..Len(new[p]) -> I(p)] :
                  /\ \A n \in 1..Len(new[p]) : new[p][n] = pend[p][place[n]]
                  /\ \A n, m \in 1..Len(new[p]) : place[n] = place[m] => n = m
                  /\ \A i \in I(p) : \E n \in 1..Len(new[p]) : place[n] = i
  <2> DEFINE s == pend[p]
             J == I(p)
  <2>1. s \in Seq(Requests) /\ J \in SUBSET (1..Len(s))
    BY DEF Queues
  <2>2. new[p] = AtPlaces(s, J)
    BY DEF Others
  <2> HIDE DEF s, J, new
  <2>3. /\ new[p] \in Seq(Requests) /\ Len(new[p]) = Cardinality(J)
        /\ \E place \in [1..Cardinality(J) -> J] :
             /\ \A n \in 1..Cardinality(J) : new[p][n] = s[place[n]]
             /\ \A n, m \in 1..Cardinality(J) : n < m => place[n] < place[m]
             /\ \A i \in J : \E n \in 1..Cardinality(J) : place[n] = i
    BY <2>1, <2>2, AtPlacesProperties
  <2>4. PICK place \in [1..Cardinality(J) -> J] :
             /\ \A n \in 1..Cardinality(J) : new[p][n] = s[place[n]]
             /\ \A n, m \in 1..Cardinality(J) : n < m => place[n] < place[m]
             /\ \A i \in J : \E n \in 1..Cardinality(J) : place[n] = i
    BY <2>3
  <2>5. ASSUME NEW n \in 1..Cardinality(J), NEW m \in 1..Cardinality(J), place[n] = place[m]
        PROVE  n = m
    <3>1. n \in Int /\ m \in Int /\ place[n] \in Int
      <4>1. place[n] \in J /\ \A i \in J : i \in Int
        BY <2>1
      <4>2. n \in Int /\ m \in Int
        OBVIOUS
      <4>3. QED
        BY <4>1, <4>2
    <3>2. ~(place[n] < place[m]) /\ ~(place[m] < place[n])
      BY <2>5, <3>1
    <3>3. ~(n < m) /\ ~(m < n)
      BY <2>4, <3>2
    <3>4. QED
      BY <3>1, <3>3
  <2>6. /\ \A n \in 1..Len(new[p]) : new[p][n] = s[place[n]]
        /\ \A n, m \in 1..Len(new[p]) : place[n] = place[m] => n = m
        /\ \A i \in J : \E n \in 1..Len(new[p]) : place[n] = i
        /\ place \in [1..Len(new[p]) -> J]
    BY <2>3, <2>4, <2>5
  <2>7. QED
    BY <2>3, <2>6 DEF s, J
<1>2. new \in Queues
  BY <1>1 DEF Queues
<1>3. \A p \in Priorities : \A i \in 1..Len(pend[p]) : pend[p][i] \in Requests
  <2> SUFFICES ASSUME NEW p \in Priorities
               PROVE  \A i \in 1..Len(pend[p]) : pend[p][i] \in Requests
    OBVIOUS
  <2>1. pend[p] \in Seq(Requests)
    BY DEF Queues
  <2>2. QED
    BY <2>1, ElementOfSeq
<1> HIDE DEF new
<1>4. InQueues(new) = {r \in InQueues(pend) : DocOf[r] # d}
  <2>1. ASSUME NEW u \in InQueues(new) PROVE u \in InQueues(pend) /\ DocOf[u] # d
    <3>1. PICK p \in Priorities : \E n \in 1..Len(new[p]) : new[p][n] = u
      BY <2>1 DEF InQueues
    <3>2. PICK n \in 1..Len(new[p]) : new[p][n] = u
      BY <3>1
    <3>3. PICK i \in I(p) : new[p][n] = pend[p][i]
      <4>1. PICK place \in [1..Len(new[p]) -> I(p)] :
              \A k \in 1..Len(new[p]) : new[p][k] = pend[p][place[k]]
        BY <1>1
      <4>2. place[n] \in I(p) /\ new[p][n] = pend[p][place[n]]
        BY <4>1
      <4>3. QED
        BY <4>2
    <3>4. u \in Requests /\ i \in 1..Len(pend[p]) /\ DocOf[pend[p][i]] # d
      BY DEF InQueues
    <3>5. QED
      BY <3>2, <3>3, <3>4 DEF InQueues
  <2>2. ASSUME NEW u \in InQueues(pend), DocOf[u] # d PROVE u \in InQueues(new)
    <3>1. PICK p \in Priorities : \E i \in 1..Len(pend[p]) : pend[p][i] = u
      BY <2>2 DEF InQueues
    <3>2. PICK i \in 1..Len(pend[p]) : pend[p][i] = u
      BY <3>1
    <3>3. i \in I(p)
      BY <2>2, <3>2
    <3>4. \E n \in 1..Len(new[p]) : new[p][n] = pend[p][i]
      BY <1>1, <3>3
    <3>5. QED
      BY <3>2, <3>4 DEF InQueues
  <2>3. QED
    BY <2>1, <2>2
<1>5. Distinct(new)
  <2> SUFFICES ASSUME NEW q1 \in Priorities, NEW q2 \in Priorities,
                      NEW n \in 1..Len(new[q1]), NEW m \in 1..Len(new[q2]),
                      new[q1][n] = new[q2][m]
               PROVE  q1 = q2 /\ n = m
    BY DEF Distinct
  <2>1. PICK f \in [1..Len(new[q1]) -> I(q1)] :
          /\ \A k \in 1..Len(new[q1]) : new[q1][k] = pend[q1][f[k]]
          /\ \A k, l \in 1..Len(new[q1]) : f[k] = f[l] => k = l
    BY <1>1
  <2>2. PICK i \in I(q1), j \in I(q2) : i = f[n] /\ new[q2][m] = pend[q2][j]
    <3>1. f[n] \in I(q1)
      BY <2>1
    <3>2. PICK g \in [1..Len(new[q2]) -> I(q2)] :
            \A k \in 1..Len(new[q2]) : new[q2][k] = pend[q2][g[k]]
      BY <1>1
    <3>3. g[m] \in I(q2) /\ new[q2][m] = pend[q2][g[m]]
      BY <3>2
    <3>4. QED
      BY <3>1, <3>3
  <2>3. pend[q1][i] = pend[q2][j] /\ i \in 1..Len(pend[q1]) /\ j \in 1..Len(pend[q2])
    BY <2>1, <2>2
  <2>4. q1 = q2 /\ i = j
    BY <2>3 DEF Distinct
  <2>5. m \in 1..Len(new[q1]) /\ f[m] \in I(q1) /\ pend[q1][f[m]] = pend[q1][i]
    BY <2>1, <2>2, <2>4
  <2>6. f[m] = i
    <3>1. f[m] \in 1..Len(pend[q1])
      BY <2>5
    <3>2. QED
      BY <2>3, <2>5, <3>1 DEF Distinct
  <2>7. n = m
    BY <2>1, <2>2, <2>5, <2>6
  <2>8. QED
    BY <2>4, <2>7
<1>6. ASSUME NEW p \in Priorities, new[p] # <<>> PROVE pend[p] # <<>>
  <2>1. new[p] \in Seq(Requests) /\ Len(new[p]) \in Nat /\ Len(new[p]) # 0
    BY <1>1, <1>6, EmptySeq, LenProperties
  <2>2. 1 \in 1..Len(new[p])
    BY <2>1
  <2>3. \E i \in I(p) : TRUE
    BY <1>1, <2>2
  <2>4. \E i \in 1..Len(pend[p]) : TRUE
    BY <2>3
  <2>5. pend[p] = <<>> => Len(pend[p]) = 0
    BY EmptySeq
  <2>6. QED
    BY <2>4, <2>5
<1>7. QED
  BY <1>2, <1>4, <1>5, <1>6 DEF new

-----------------------------------------------------------------------------
(* The invariant.                                                          *)

(* A request not yet made, a queued one and one in transfer are different; *)
(* one of several parts is in transfer, or was.                            *)
OnePlace ==
  /\ Distinct(pending)
  /\ fresh \cap (Pending \cup loading) = {}
  /\ Pending \cap loading = {}
  /\ multipart \cap (fresh \cup Pending \cup validators) = {}

LEMMA PendingIs == Pending = InQueues(pending)
BY DEF Pending, InQueues

-----------------------------------------------------------------------------
(* Types.                                                                  *)

LEMMA LoadTyped ==
  ASSUME TypeOK, NEW r \in Requests, NEW under \in Seq(Frames), load(r, under)
  PROVE  TypeOK'
<1>1. pending' \in [Priorities -> Seq(Requests)]
  BY AppendProperties DEF load, TypeOK
<1>2. DocOf[r] \in Docs /\ PriorityOf[r] \in Priorities
  BY HostAssumption DEF HostAssumption
<1>3. count' \in [Docs -> Int] /\ fresh' \subseteq Requests
  BY <1>2 DEF load, TypeOK, incrementRequestCount
<1>4. timer' \in BOOLEAN
  <2>1. timer' = timer \/ timer' = TRUE
    BY DEF load
  <2>2. QED
    BY <2>1 DEF TypeOK
<1>5. stack' \in Seq(Frames)
  BY <1>2, NewFrames, Pushed DEF load
<1>6. UNCHANGED <<loading, multipart, validators, errored, dropped, inProgress,
                 settled, rendered, preloads>>
  BY DEF load
<1>7. QED
  BY <1>1, <1>3, <1>5, <1>6, <1>4 DEF TypeOK

LEMMA FailTyped ==
  ASSUME TypeOK, NEW r \in Requests, NEW under \in Seq(Frames), NEW c \in BOOLEAN, fail(r, c, under)
  PROVE  TypeOK'
<1>1. DocOf[r] \in Docs
  BY HostAssumption DEF HostAssumption
<1>2. loading' \subseteq Requests /\ count' \in [Docs -> Int] /\ inProgress' \subseteq Docs
  BY <1>1 DEF fail, Forget, decrementRequestCount, TypeOK
<1>3. stack' \in Seq(Frames)
  BY NewFrames, Pushed DEF fail
<1>4. UNCHANGED <<fresh, pending, multipart, validators, errored, dropped, settled,
                 rendered, preloads, timer>>
  BY DEF fail
<1>5. QED
  BY <1>2, <1>3, <1>4 DEF TypeOK

(* Steps that change nothing but the stack, and flags.                     *)
LEMMA StackTyped ==
  ASSUME TypeOK, stack' \in Seq(Frames), inProgress' \subseteq Docs, timer' \in BOOLEAN,
         UNCHANGED <<requestVars, count, settled, rendered, preloads>>
  PROVE  TypeOK'
BY DEF TypeOK, requestVars

LEMMA TypeStep ==
  ASSUME TypeOK, OnePlace, [Next]_vars
  PROVE  TypeOK'
<1> stack \in Seq(Frames) /\ inProgress \subseteq Docs /\ timer \in BOOLEAN
  BY DEF TypeOK
<1> DocOf \in [Requests -> Docs] /\ Preloads \subseteq Requests
  BY HostAssumption DEF HostAssumption
<1> USE DEF requestVars, docVars
<1>1. ASSUME stack # <<>>, Top.op \in {"finish", "fail", "revalidated", "data"}
      PROVE  Top \in AboutFrames /\ Top.req \in Requests
  BY <1>1, TopIs, FrameKinds DEF AboutFrames
<1>2. ASSUME stack # <<>> PROVE Tail(stack) \in Seq(Frames) /\ Top \in Frames
  BY <1>2, TopIs
<1>3. ASSUME NEW r \in Requests, Load(r) PROVE TypeOK'
  BY <1>3, LoadTyped DEF Load
<1>4. ASSUME NEW r \in Requests, Preload(r) PROVE TypeOK'
  <2>1. preloads' \in [Docs -> Seq(Requests)]
    BY <1>4, AppendProperties DEF Preload, TypeOK
  <2>2. QED
    BY <1>4, <2>1 DEF Preload, TypeOK
<1>5. ASSUME NEW d \in Docs, Render(d) PROVE TypeOK'
  BY <1>5 DEF Render, TypeOK
<1>6. ASSUME NEW d \in Docs, Settle(d) PROVE TypeOK'
  BY <1>6 DEF Settle, TypeOK
<1>7. CASE RequestTimerFired
  <2>1. stack' \in Seq(Frames)
    BY <1>7, NewFrames, Pushed DEF RequestTimerFired, Call, Priorities, Low, High
  <2>2. QED
    BY <1>7, <2>1, StackTyped DEF RequestTimerFired
<1>8. CASE ServeNextQueue
  <2>1. stack # <<>> /\ Top \in ServeFrames
    BY <1>8, <1>2, FrameKinds DEF ServeNextQueue, In
  <2>2. CASE Top.queue > Top.min
    <3>1. [Top EXCEPT !.queue = @ - 1] \in ServeFrames
      BY <2>1, <2>2 DEF ServeFrames, Priorities, Low, High
    <3>2. stack' \in Seq(Frames)
      BY <1>2, <1>8, <2>1, <2>2, <3>1, Pushed DEF ServeNextQueue, Frames
    <3>3. QED
      BY <1>8, <3>2, StackTyped DEF ServeNextQueue
  <2>3. CASE ~(Top.queue > Top.min)
    BY <1>2, <1>8, <2>1, <2>3, StackTyped DEF ServeNextQueue, Return
  <2>4. QED
    BY <2>2, <2>3
<1>9. CASE ServeNoMore
  BY <1>2, <1>9, StackTyped DEF ServeNoMore, In, Return
<1>10. CASE ServeRequest
  <2>1. stack # <<>> /\ Top.queue \in Priorities /\ pending[Top.queue] # <<>>
    BY <1>2, <1>10, FrameKinds DEF ServeRequest, In
  <2>2. pending[Top.queue] \in Seq(Requests)
    BY <2>1 DEF TypeOK
  <2>3. Head(pending[Top.queue]) \in Requests /\ Tail(pending[Top.queue]) \in Seq(Requests)
    BY <2>1, <2>2, HeadTailProperties
  <2>4. pending' \in [Priorities -> Seq(Requests)] /\ loading' \subseteq Requests
    BY <1>10, <2>3 DEF ServeRequest, Dequeue, TypeOK
  <2>5. QED
    BY <1>10, <2>4 DEF ServeRequest, TypeOK
<1>11. CASE ServeFails
  <2>1. stack # <<>> /\ Top.queue \in Priorities /\ Top.min \in Priorities
        /\ pending[Top.queue] # <<>>
    BY <1>2, <1>11, FrameKinds DEF ServeFails, In
  <2>2. pending[Top.queue] \in Seq(Requests)
    BY <2>1 DEF TypeOK
  <2>3. PICK r \in Requests : r = Head(pending[Top.queue]) /\ Tail(pending[Top.queue]) \in Seq(Requests)
    BY <2>1, <2>2, HeadTailProperties
  <2>4. pending' \in [Priorities -> Seq(Requests)]
    BY <1>11, <2>3 DEF ServeFails, Dequeue, TypeOK
  <2>5. count' \in [Docs -> Int] /\ inProgress' \subseteq Docs
    BY <1>11, <2>3 DEF ServeFails, decrementRequestCount, TypeOK
  <2>6. stack' \in Seq(Frames)
    <3>1. stack' = <<[op |-> "serve", at |-> "resource", queue |-> Top.queue, min |-> Top.min,
                      req |-> r]>> \o Tail(stack)
      BY <1>11, <2>3 DEF ServeFails
    <3>2. [op |-> "serve", at |-> "resource", queue |-> Top.queue, min |-> Top.min,
           req |-> r] \in FailedFrames
      BY <2>1 DEF FailedFrames
    <3>3. QED
      BY <1>2, <2>1, <3>1, <3>2, Pushed DEF Frames
  <2>7. QED
    BY <1>11, <2>4, <2>5, <2>6 DEF ServeFails, TypeOK
<1>12. CASE ServeFailedDone
  <2>1. /\ stack # <<>> /\ Top.op = "serve" /\ Top.at \in {"resource", "done"}
        /\ UNCHANGED <<requestVars, count, settled, rendered, preloads, timer>>
        /\ inProgress' \subseteq inProgress
    BY <1>12 DEF ServeFailedDone, In
  <2>2. Top \in FailedFrames
    BY <1>2, <2>1, FrameKinds
  <2>3. CASE GoOn("done")
    BY <2>1, <2>2, <2>3, WentOn, StackTyped
  <2>4. CASE stack' = <<[op |-> "serve", at |-> "loop", queue |-> Top.queue, min |-> Top.min]>>
                      \o Tail(stack)
    <3>1. [op |-> "serve", at |-> "loop", queue |-> Top.queue, min |-> Top.min] \in ServeFrames
      BY <2>2 DEF FailedFrames, ServeFrames
    <3>2. stack' \in Seq(Frames)
      BY <1>2, <2>1, <2>4, <3>1, Pushed DEF Frames
    <3>3. QED
      BY <2>1, <3>2, StackTyped
  <2>5. QED
    BY <1>12, <2>3, <2>4 DEF ServeFailedDone
<1>13. ASSUME NEW r \in Requests, DidFinishLoading(r) PROVE TypeOK'
  <2>1. loading' \subseteq Requests /\ count' \in [Docs -> Int]
    BY <1>13 DEF DidFinishLoading, Forget, decrementRequestCount, TypeOK
  <2>2. inProgress' \subseteq Docs
    BY <1>13 DEF DidFinishLoading, TypeOK
  <2>3. stack' \in Seq(Frames)
    BY <1>13, NewFrames, Pushed DEF DidFinishLoading, Call
  <2>4. QED
    BY <1>13, <2>1, <2>2, <2>3 DEF DidFinishLoading, TypeOK
<1>14. ASSUME NEW r \in Requests, DidFail(r) \/ DidCancel(r) PROVE TypeOK'
  BY <1>14, FailTyped DEF DidFail, DidCancel
<1>15. CASE ResourceToldDone
  <2>1. /\ stack # <<>> /\ Top.op \in {"finish", "fail"} /\ GoOn("done")
        /\ UNCHANGED <<requestVars, count, settled, rendered, preloads, timer>>
        /\ inProgress' \subseteq inProgress
    BY <1>15 DEF ResourceToldDone, In
  <2>2. QED
    BY <1>1, <2>1, WentOn, StackTyped
<1>16. CASE CheckForPendingPreloads
  <2>1. /\ stack # <<>> /\ Top.op \in {"finish", "fail"}
        /\ UNCHANGED <<requestVars, docVars, timer>>
    BY <1>16 DEF CheckForPendingPreloads, In
  <2>2. Top \in AboutFrames /\ DocOf[Top.req] \in Docs
    BY <1>1, <2>1
  <2>3. Len(preloads[DocOf[Top.req]]) \in Nat
    BY <2>2, LenProperties DEF TypeOK
  <2>4. [Top EXCEPT !.at = "preloads", !.n = Len(preloads[DocOf[Top.req]])] \in Frames
    BY <2>2, <2>3 DEF AboutFrames, Frames
  <2>5. ServeFrom(Low) \in Frames
    BY NewFrames DEF Priorities, Low, High
  <2>6. stack' \in Seq(Frames)
    BY <1>2, <1>16, <2>1, <2>4, <2>5, Pushed DEF CheckForPendingPreloads
  <2>7. QED
    BY <2>1, <2>6, StackTyped
<1>17. CASE RequestPreload
  <2>1. stack # <<>> /\ Top.op \in {"finish", "fail"}
    BY <1>17 DEF RequestPreload, InPreloads, In
  <2>2. Top \in AboutFrames /\ DocOf[Top.req] \in Docs /\ Top.next \in Nat
    BY <1>1, <2>1 DEF AboutFrames
  <2>3. preloads[DocOf[Top.req]] \in Seq(Requests)
    BY <2>2 DEF TypeOK
  <2>4. PICK rest : rest = <<[Top EXCEPT !.next = @ + 1]>> \o Tail(stack)
    OBVIOUS
  <2>5. rest \in Seq(Frames)
    <3>1. [Top EXCEPT !.next = @ + 1] \in AboutFrames
      BY <2>2 DEF AboutFrames
    <3>2. QED
      BY <1>2, <2>1, <2>4, <3>1, Pushed DEF Frames
  <2>6. CASE stack' = rest /\ UNCHANGED <<requestVars, docVars, timer>>
    BY <2>5, <2>6, StackTyped
  <2>7. CASE load(preloads[DocOf[Top.req]][Top.next], rest)
    <3>1. Top.next \in Nat /\ preloads[DocOf[Top.req]][Top.next] \in fresh
      BY <2>2, <2>7 DEF load
    <3>2. preloads[DocOf[Top.req]][Top.next] \in Requests
      BY <3>1 DEF TypeOK
    <3>3. QED
      BY <2>5, <2>7, <3>2, LoadTyped
  <2>8. QED
    BY <1>17, <2>4, <2>6, <2>7 DEF RequestPreload
<1>18. CASE PreloadsDone
  <2>1. /\ stack # <<>> /\ Top.op \in {"finish", "fail"}
        /\ preloads' = [preloads EXCEPT ![DocOf[Top.req]] = <<>>]
        /\ stack' = <<ServeFrom(Low)>> \o Tail(stack)
        /\ UNCHANGED <<requestVars, count, inProgress, settled, rendered, timer>>
    BY <1>18 DEF PreloadsDone, InPreloads, In
  <2>2. ServeFrom(Low) \in Frames
    BY NewFrames DEF Priorities, Low, High
  <2>3. stack' \in Seq(Frames)
    BY <1>2, <2>1, <2>2, Pushed
  <2>4. preloads' \in [Docs -> Seq(Requests)]
    <3>1. <<>> \in Seq(Requests)
      BY EmptySeq
    <3>2. QED
      BY <2>1, <3>1 DEF TypeOK
  <2>5. QED
    BY <2>1, <2>3, <2>4 DEF TypeOK
<1>19. ASSUME NEW r \in Requests, Revalidated(r) PROVE TypeOK'
  <2>1. loading' \subseteq Requests /\ count' \in [Docs -> Int]
    BY <1>19 DEF Revalidated, decrementRequestCount, TypeOK
  <2>2. stack' \in Seq(Frames)
    BY <1>19, NewFrames, Pushed DEF Revalidated, Call
  <2>3. QED
    BY <1>19, <2>1, <2>2 DEF Revalidated, TypeOK
<1>20. CASE RevalidatedDone
  <2>1. ServeFrom(Low) \in Frames
    BY NewFrames DEF Priorities, Low, High
  <2>2. stack' \in Seq(Frames)
    BY <1>2, <1>20, <2>1, Pushed DEF RevalidatedDone, In
  <2>3. QED
    BY <1>20, <2>2, StackTyped DEF RevalidatedDone
<1>21. ASSUME NEW r \in Requests, DidReceiveResponse(r) PROVE TypeOK'
  <2>1. stack' \in Seq(Frames)
    BY <1>21, NewFrames, Pushed DEF DidReceiveResponse, Call
  <2>2. /\ validators' \subseteq Requests /\ multipart' \subseteq Requests
        /\ dropped' \subseteq Requests /\ count' \in [Docs -> Int]
    BY <1>21 DEF DidReceiveResponse, decrementRequestCount, TypeOK
  <2>3. QED
    BY <1>21, <2>1, <2>2 DEF DidReceiveResponse, TypeOK
<1>22. ASSUME NEW r \in Requests, DidReceiveData(r) PROVE TypeOK'
  <2>1. stack' \in Seq(Frames)
    BY <1>22, NewFrames, Pushed DEF DidReceiveData, Call
  <2>2. errored' \subseteq Requests
    BY <1>22 DEF DidReceiveData, TypeOK
  <2>3. QED
    BY <1>22, <2>1, <2>2 DEF DidReceiveData, TypeOK
<1>23. CASE DataDone
  BY <1>2, <1>23, StackTyped DEF DataDone, In, Return
<1>24. ASSUME NEW d \in Docs, CancelRequests(d) PROVE TypeOK'
  <2>1. pending' \in [Priorities -> Seq(Requests)]
    BY <1>24, OthersLeft DEF CancelRequests, OnePlace, TypeOK, Queues
  <2>2. IsFiniteSet(Requests) /\ {r \in Pending : DocOf[r] = d} \in SUBSET Requests
    BY HostAssumption DEF HostAssumption, Pending
  <2>3. Cardinality({r \in Pending : DocOf[r] = d}) \in Nat
    BY <2>2, FS_Subset, FS_CardinalityType
  <2>4. count' \in [Docs -> Int]
    BY <1>24, <2>3 DEF CancelRequests, TypeOK
  <2>5. {r \in loading : DocOf[r] = d} \in SUBSET Requests
    BY DEF TypeOK
  <2>6. stack' \in Seq(Frames)
    BY <1>24, <2>5, NewFrames, Pushed DEF CancelRequests, Call
  <2>7. QED
    BY <1>24, <2>1, <2>4, <2>6 DEF CancelRequests, TypeOK
<1>25. CASE CancelNext
  <2>1. stack # <<>> /\ Top.op = "cancel"
    BY <1>25 DEF CancelNext, In
  <2>2. Top \in CancelFrames
    BY <1>2, <2>1, FrameKinds
  <2>3. PICK r \in Top.todo :
          \/ fail(r, TRUE, <<[Top EXCEPT !.todo = @ \ {r}]>> \o Tail(stack))
          \/ /\ stack' = <<[Top EXCEPT !.todo = @ \ {r}]>> \o Tail(stack)
             /\ UNCHANGED <<requestVars, docVars, timer>>
    BY <1>25 DEF CancelNext
  <2>4. r \in Requests
    BY <2>2 DEF CancelFrames
  <2>5. [Top EXCEPT !.todo = @ \ {r}] \in CancelFrames
    BY <2>2 DEF CancelFrames
  <2>6. PICK rest \in Seq(Frames) : rest = <<[Top EXCEPT !.todo = @ \ {r}]>> \o Tail(stack)
    BY <1>2, <2>1, <2>5, Pushed DEF Frames
  <2>7. QED
    BY <2>3, <2>4, <2>6, FailTyped, StackTyped
<1>26. CASE CancelDone
  BY <1>2, <1>26, StackTyped DEF CancelDone, In, Return
<1>27. CASE UNCHANGED vars
  BY <1>27 DEF vars, TypeOK
<1>28. QED
  BY <1>3, <1>4, <1>5, <1>6, <1>7, <1>8, <1>9, <1>10, <1>11, <1>12, <1>13, <1>14, <1>15,
     <1>16, <1>17, <1>18, <1>19, <1>20, <1>21, <1>22, <1>23, <1>24, <1>25, <1>26, <1>27
     DEF Next, Host, Client, Transfer

-----------------------------------------------------------------------------
(* The methods in progress.                                                *)

(* The queues a frame will still look at, also when it serves them only    *)
(* after what it does now.                                                 *)
Serves(f) ==
  IF f.op = "serve" THEN f.min..f.queue
  ELSE IF f.op \in {"finish", "fail", "revalidated"} THEN Priorities ELSE {}

(* Those it will look at, or start the timer for.                          *)
Attends(f) == IF f.op = "cancel" THEN Priorities ELSE Serves(f)

(* Every queue of W is attended by a frame of s.                           *)
AttendedIn(s, W) == \A q \in W : \E i \in 1..Len(s) : q \in Attends(s[i])

(* A servePendingRequests that has left behind a queue of W is beneath a   *)
(* frame that will look at this queue.                                     *)
HigherIn(s, W) ==
  \A i \in 1..Len(s) : s[i].op = "serve" =>
    \A q \in W : q > s[i].queue => \E k \in 1..(i - 1) : q \in Serves(s[k])

LEMMA FirstFrame ==
  ASSUME NEW s \in Seq(Frames), NEW f \in Frames
  PROVE  /\ Len(s) \in Nat
         /\ 1 \in 1..Len(<<f>> \o s) /\ (<<f>> \o s)[1] = f
         /\ \A i \in 1..Len(s) : i + 1 \in 1..Len(<<f>> \o s) /\ (<<f>> \o s)[i + 1] = s[i]
         /\ \A j \in 1..Len(<<f>> \o s) :
              j = 1 \/ \E i \in 1..Len(s) : j = i + 1
<1>1. Len(s) \in Nat
  BY LenProperties
<1>2. Len(<<f>> \o s) = Len(s) + 1
  BY PushProperties
<1>3. \A j \in 1..Len(<<f>> \o s) : j = 1 \/ \E i \in 1..Len(s) : j = i + 1
  <2> SUFFICES ASSUME NEW j \in 1..Len(<<f>> \o s), j # 1
               PROVE  \E i \in 1..Len(s) : j = i + 1
    OBVIOUS
  <2>1. j - 1 \in 1..Len(s) /\ j = (j - 1) + 1
    BY <1>1, <1>2
  <2>2. QED
    BY <2>1
<1>4. \A i \in 1..Len(s) : i + 1 \in 1..Len(<<f>> \o s)
  BY <1>1, <1>2
<1>5. 1 \in 1..Len(<<f>> \o s)
  BY <1>1, <1>2
<1>6. (<<f>> \o s)[1] = f /\ \A i \in 1..Len(s) : (<<f>> \o s)[i + 1] = s[i]
  BY PushProperties
<1>7. QED
  BY <1>1, <1>3, <1>4, <1>5, <1>6

LEMMA AttendedPushed ==
  ASSUME NEW s \in Seq(Frames), NEW f \in Frames, NEW W
  PROVE  AttendedIn(<<f>> \o s, W) <=> AttendedIn(s, W \ Attends(f))
<1>1. PICK t : t = <<f>> \o s
  OBVIOUS
<1>2. /\ 1 \in 1..Len(t) /\ t[1] = f
      /\ \A i \in 1..Len(s) : i + 1 \in 1..Len(t) /\ t[i + 1] = s[i]
      /\ \A j \in 1..Len(t) : j = 1 \/ \E i \in 1..Len(s) : j = i + 1
  BY <1>1, FirstFrame
<1>3. ASSUME AttendedIn(t, W) PROVE AttendedIn(s, W \ Attends(f))
  BY <1>2, <1>3 DEF AttendedIn
<1>4. ASSUME AttendedIn(s, W \ Attends(f)) PROVE AttendedIn(t, W)
  BY <1>2, <1>4 DEF AttendedIn
<1>5. QED
  BY <1>1, <1>3, <1>4

LEMMA HigherPushed ==
  ASSUME NEW s \in Seq(Frames), NEW f \in Frames, NEW W
  PROVE  HigherIn(<<f>> \o s, W)
           <=> /\ f.op = "serve" => \A q \in W : ~(q > f.queue)
               /\ HigherIn(s, W \ Serves(f))
<1>1. PICK t : t = <<f>> \o s
  OBVIOUS
<1>2. /\ 1 \in 1..Len(t) /\ t[1] = f
      /\ \A i \in 1..Len(s) : i + 1 \in 1..Len(t) /\ t[i + 1] = s[i]
      /\ \A j \in 1..Len(t) : j = 1 \/ \E i \in 1..Len(s) : j = i + 1
  BY <1>1, FirstFrame
<1>3. Len(s) \in Nat
  BY LenProperties
<1>4. ASSUME NEW i \in 1..Len(s), NEW q
      PROVE  (\E k \in 1..((i + 1) - 1) : q \in Serves(t[k]))
               <=> (q \in Serves(f) \/ \E k \in 1..(i - 1) : q \in Serves(s[k]))
  <2>1. ASSUME NEW k \in 1..((i + 1) - 1), q \in Serves(t[k])
        PROVE  q \in Serves(f) \/ \E l \in 1..(i - 1) : q \in Serves(s[l])
    <3>1. CASE k = 1
      BY <1>2, <2>1, <3>1
    <3>2. CASE k # 1
      <4>1. k - 1 \in 1..(i - 1) /\ k - 1 \in 1..Len(s) /\ (k - 1) + 1 = k
        BY <1>3, <3>2
      <4>2. t[k] = s[k - 1]
        BY <1>2, <4>1
      <4>3. QED
        BY <2>1, <4>1, <4>2
    <3>3. QED
      BY <3>1, <3>2
  <2>2. ASSUME q \in Serves(f) PROVE \E k \in 1..((i + 1) - 1) : q \in Serves(t[k])
    <3>1. 1 \in 1..((i + 1) - 1)
      OBVIOUS
    <3>2. QED
      BY <1>2, <2>2, <3>1
  <2>3. ASSUME NEW l \in 1..(i - 1), q \in Serves(s[l])
        PROVE  \E k \in 1..((i + 1) - 1) : q \in Serves(t[k])
    <3>1. l + 1 \in 1..((i + 1) - 1) /\ l \in 1..Len(s)
      BY <1>3
    <3>2. t[l + 1] = s[l]
      BY <1>2, <3>1
    <3>3. QED
      BY <2>3, <3>1, <3>2
  <2>4. QED
    BY <2>1, <2>2, <2>3
<1>5. \A q : ~ \E k \in 1..(1 - 1) : q \in Serves(t[k])
  <2>1. 1..(1 - 1) = {}
    OBVIOUS
  <2>2. QED
    BY <2>1
<1>6. ASSUME HigherIn(t, W)
      PROVE  /\ f.op = "serve" => \A q \in W : ~(q > f.queue)
             /\ HigherIn(s, W \ Serves(f))
  <2>1. f.op = "serve" => \A q \in W : ~(q > f.queue)
    BY <1>2, <1>5, <1>6 DEF HigherIn
  <2>2. HigherIn(s, W \ Serves(f))
    <3> SUFFICES ASSUME NEW i \in 1..Len(s), s[i].op = "serve",
                        NEW q \in W \ Serves(f), q > s[i].queue
                 PROVE  \E k \in 1..(i - 1) : q \in Serves(s[k])
      BY DEF HigherIn
    <3>1. i + 1 \in 1..Len(t) /\ t[i + 1] = s[i]
      BY <1>2
    <3>2. \E k \in 1..((i + 1) - 1) : q \in Serves(t[k])
      BY <1>6, <3>1 DEF HigherIn
    <3>3. QED
      BY <1>4, <3>2
  <2>3. QED
    BY <2>1, <2>2
<1>7. ASSUME f.op = "serve" => \A q \in W : ~(q > f.queue), HigherIn(s, W \ Serves(f))
      PROVE  HigherIn(t, W)
  <2> SUFFICES ASSUME NEW j \in 1..Len(t), t[j].op = "serve", NEW q \in W, q > t[j].queue
               PROVE  \E k \in 1..(j - 1) : q \in Serves(t[k])
    BY DEF HigherIn
  <2>1. CASE j = 1
    BY <1>2, <1>7, <2>1
  <2>2. CASE j # 1
    <3>1. PICK i \in 1..Len(s) : j = i + 1
      BY <1>2, <2>2
    <3>2. t[j] = s[i]
      BY <1>2, <3>1
    <3>3. q \in Serves(f) \/ \E k \in 1..(i - 1) : q \in Serves(s[k])
      BY <1>7, <3>2 DEF HigherIn
    <3>4. \E k \in 1..((i + 1) - 1) : q \in Serves(t[k])
      BY <1>4, <3>3
    <3>5. QED
      BY <3>1, <3>4
  <2>3. QED
    BY <2>1, <2>2
<1>8. QED
  BY <1>1, <1>6, <1>7

(* Fewer queues need less; the lowest needs nothing of a serving frame.    *)
LEMMA FewerQueues ==
  ASSUME NEW s \in Seq(Frames), NEW W, NEW V
  PROVE  /\ V \subseteq W => (AttendedIn(s, W) => AttendedIn(s, V))
         /\ V \subseteq W \cup {Low} => (HigherIn(s, W) => HigherIn(s, V))
<1>1. V \subseteq W => (AttendedIn(s, W) => AttendedIn(s, V))
  BY DEF AttendedIn
<1>2. ASSUME V \subseteq W \cup {Low}, HigherIn(s, W) PROVE HigherIn(s, V)
  <2> SUFFICES ASSUME NEW i \in 1..Len(s), s[i].op = "serve",
                      NEW q \in V, q > s[i].queue
               PROVE  \E k \in 1..(i - 1) : q \in Serves(s[k])
    BY DEF HigherIn
  <2>1. q # Low
    <3>1. s[i] \in Frames
      BY ElementOfSeq
    <3>2. s[i].queue \in Priorities
      BY <3>1, FrameKinds
    <3>3. s[i].queue \in Nat
      BY <3>2 DEF Priorities, Low, High
    <3>4. ~(Low > s[i].queue)
      BY <3>3 DEF Low
    <3>5. QED
      BY <3>4
  <2>2. q \in W
    BY <1>2, <2>1
  <2>3. QED
    BY <1>2, <2>2 DEF HigherIn
<1>3. QED
  BY <1>1, <1>2

-----------------------------------------------------------------------------
(* The places of the requests, and the counts.                             *)

(* cnt counts the requests of A for each document.                         *)
CountsOf(cnt, A) == \A d \in Docs : cnt[d] = Cardinality({r \in A : DocOf[r] = d})

LEMMA OneMore ==
  ASSUME NEW cnt \in [Docs -> Int], NEW A \in SUBSET Requests, CountsOf(cnt, A),
         NEW r \in Requests, r \notin A
  PROVE  CountsOf([cnt EXCEPT ![DocOf[r]] = @ + 1], A \cup {r})
<1> SUFFICES ASSUME NEW d \in Docs
             PROVE  [cnt EXCEPT ![DocOf[r]] = @ + 1][d]
                      = Cardinality({u \in A \cup {r} : DocOf[u] = d})
  BY DEF CountsOf
<1> DEFINE B == {u \in A : DocOf[u] = d}
<1>1. IsFiniteSet(B) /\ cnt[d] = Cardinality(B) /\ Cardinality(B) \in Nat
  <2>1. IsFiniteSet(Requests) /\ B \in SUBSET Requests
    BY HostAssumption DEF HostAssumption
  <2>2. IsFiniteSet(B)
    BY <2>1, FS_Subset
  <2>3. Cardinality(B) \in Nat
    BY <2>2, FS_CardinalityType
  <2>4. QED
    BY <2>2, <2>3 DEF CountsOf
<1>2. CASE DocOf[r] = d
  <2>1. {u \in A \cup {r} : DocOf[u] = d} = B \cup {r} /\ r \notin B
    BY <1>2
  <2>2. Cardinality(B \cup {r}) = Cardinality(B) + 1
    BY <1>1, <2>1, FS_AddElement
  <2>3. [cnt EXCEPT ![DocOf[r]] = @ + 1][d] = cnt[d] + 1
    BY <1>2
  <2>4. QED
    BY <1>1, <2>1, <2>2, <2>3
<1>3. CASE DocOf[r] # d
  <2>1. {u \in A \cup {r} : DocOf[u] = d} = B
    BY <1>3
  <2>2. [cnt EXCEPT ![DocOf[r]] = @ + 1][d] = cnt[d]
    BY <1>3
  <2>3. QED
    BY <1>1, <2>1, <2>2
<1>4. QED
  BY <1>2, <1>3

(* The requests of D, which are those of document d, are subtracted.       *)
LEMMA SomeLess ==
  ASSUME NEW cnt \in [Docs -> Int], NEW A \in SUBSET Requests, CountsOf(cnt, A),
         NEW d \in Docs, NEW D \in SUBSET A, \A u \in D : DocOf[u] = d
  PROVE  CountsOf([cnt EXCEPT ![d] = @ - Cardinality(D)], A \ D)
<1> SUFFICES ASSUME NEW e \in Docs
             PROVE  [cnt EXCEPT ![d] = @ - Cardinality(D)][e]
                      = Cardinality({u \in A \ D : DocOf[u] = e})
  BY DEF CountsOf
<1> DEFINE B == {u \in A : DocOf[u] = e}
<1>1. IsFiniteSet(B) /\ cnt[e] = Cardinality(B)
  <2>1. IsFiniteSet(Requests) /\ B \in SUBSET Requests
    BY HostAssumption DEF HostAssumption
  <2>2. QED
    BY <2>1, FS_Subset DEF CountsOf
<1>2. CASE d = e
  <2>1. {u \in A \ D : DocOf[u] = e} = B \ D /\ B \cap D = D
    BY <1>2
  <2>2. Cardinality(B \ D) = Cardinality(B) - Cardinality(B \cap D)
    BY <1>1, FS_Difference
  <2>3. [cnt EXCEPT ![d] = @ - Cardinality(D)][e] = cnt[e] - Cardinality(D)
    BY <1>2
  <2>4. QED
    BY <1>1, <2>1, <2>2, <2>3
<1>3. CASE d # e
  <2>1. {u \in A \ D : DocOf[u] = e} = B
    BY <1>3
  <2>2. [cnt EXCEPT ![d] = @ - Cardinality(D)][e] = cnt[e]
    BY <1>3
  <2>3. QED
    BY <1>1, <2>1, <2>2
<1>4. QED
  BY <1>2, <1>3

LEMMA OneLess ==
  ASSUME NEW cnt \in [Docs -> Int], NEW A \in SUBSET Requests, CountsOf(cnt, A),
         NEW r \in A
  PROVE  CountsOf([cnt EXCEPT ![DocOf[r]] = @ - 1], A \ {r})
<1>1. Cardinality({r}) = 1
  BY FS_Singleton
<1>2. DocOf[r] \in Docs
  BY HostAssumption DEF HostAssumption
<1>3. PICK n : n = Cardinality({r})
  OBVIOUS
<1>4. CountsOf([cnt EXCEPT ![DocOf[r]] = @ - n], A \ {r})
  BY <1>2, <1>3, SomeLess
<1>5. QED
  BY <1>1, <1>3, <1>4

(* What the steps of the host do to the places: r leaves the requests in   *)
(* transfer.                                                               *)
PlacesInv == OnePlace /\ CountsRequests

Alive == Pending \cup (loading \ multipart)

LEMMA CountsAre == CountsRequests <=> CountsOf(count, Alive)
BY DEF CountsRequests, CountsOf, Counted, Alive

LEMMA PlacesSame ==
  ASSUME PlacesInv, UNCHANGED <<fresh, pending, loading, multipart, validators, count>>
  PROVE  PlacesInv'
BY DEF PlacesInv, OnePlace, Distinct, CountsRequests, Counted, Pending

LEMMA LoadPlaces ==
  ASSUME TypeOK, PlacesInv, NEW r \in Requests, NEW under, load(r, under)
  PROVE  PlacesInv'
<1> USE DEF PlacesInv
<1>1. PriorityOf[r] \in Priorities
  BY HostAssumption DEF HostAssumption
<1>2. /\ r \in fresh /\ fresh' = fresh \ {r}
      /\ pending' = [pending EXCEPT ![PriorityOf[r]] = Append(@, r)]
      /\ count' = [count EXCEPT ![DocOf[r]] = @ + 1]
      /\ UNCHANGED <<loading, multipart, validators>>
  BY DEF load, incrementRequestCount
<1>3. r \notin Pending /\ r \notin loading /\ r \notin multipart
  BY <1>2 DEF OnePlace
<1>4. Distinct(pending') /\ InQueues(pending') = InQueues(pending) \cup {r}
  BY <1>1, <1>2, <1>3, Enqueued, PendingIs DEF TypeOK, Queues, OnePlace
<1>5. Pending' = Pending \cup {r}
  BY <1>4 DEF Pending, InQueues
<1>6. OnePlace'
  BY <1>2, <1>3, <1>4, <1>5 DEF OnePlace
<1>7. Alive' = Alive \cup {r} /\ r \notin Alive /\ Alive \subseteq Requests
  BY <1>2, <1>3, <1>5 DEF Alive, TypeOK, Pending
<1>8. CountsOf(count', Alive')
  BY <1>2, <1>7, OneMore, CountsAre DEF TypeOK
<1>9. QED
  BY <1>6, <1>8 DEF CountsRequests, CountsOf, Counted, Alive

LEMMA ForgetPlaces ==
  ASSUME TypeOK, PlacesInv, NEW r \in loading, loading' = loading \ {r},
         \/ r \in multipart /\ UNCHANGED count
         \/ r \notin multipart /\ decrementRequestCount(DocOf[r]),
         UNCHANGED <<fresh, pending, multipart, validators>>
  PROVE  PlacesInv'
<1> USE DEF PlacesInv
<1>1. Pending' = Pending /\ r \notin Pending
  BY DEF Pending, OnePlace
<1>2. OnePlace'
  BY <1>1 DEF OnePlace, Distinct
<1>3. Alive \subseteq Requests
  BY DEF Alive, TypeOK, Pending
<1>4. CASE r \in multipart
  <2>1. Alive' = Alive /\ count' = count
    BY <1>1, <1>4 DEF Alive
  <2>2. CountsOf(count', Alive')
    BY <2>1, CountsAre
  <2>3. QED
    BY <1>2, <2>2 DEF CountsRequests, CountsOf, Counted, Alive
<1>5. CASE r \notin multipart
  <2>1. Alive' = Alive \ {r} /\ r \in Alive /\ count' = [count EXCEPT ![DocOf[r]] = @ - 1]
    BY <1>1, <1>5 DEF Alive, decrementRequestCount
  <2>2. CountsOf(count', Alive')
    BY <1>3, <2>1, OneLess, CountsAre DEF TypeOK
  <2>3. QED
    BY <1>2, <2>2 DEF CountsRequests, CountsOf, Counted, Alive
<1>6. QED
  BY <1>4, <1>5

(* What servePendingRequests takes from a queue.                           *)
LEMMA TakenPlaces ==
  ASSUME TypeOK, PlacesInv, NEW p \in Priorities, pending[p] # <<>>,
         pending' = [pending EXCEPT ![p] = Tail(@)],
         UNCHANGED <<fresh, multipart, validators>>,
         \/ loading' = loading \cup {Head(pending[p])} /\ UNCHANGED count
         \/ decrementRequestCount(DocOf[Head(pending[p])]) /\ UNCHANGED loading
  PROVE  PlacesInv'
<1> USE DEF PlacesInv
<1>1. PICK r : r = Head(pending[p])
  OBVIOUS
<1>2. /\ r \in InQueues(pending) /\ Distinct(pending')
      /\ InQueues(pending') = InQueues(pending) \ {r}
  BY <1>1, Dequeued DEF TypeOK, Queues, OnePlace
<1>3. r \in Pending /\ Pending' = Pending \ {r} /\ r \in Requests
  BY <1>2 DEF Pending, InQueues
<1>4. r \notin loading /\ r \notin fresh /\ r \notin multipart
  BY <1>3 DEF OnePlace
<1>5. Alive \subseteq Requests /\ r \in Alive
  BY <1>3 DEF Alive, TypeOK, Pending
<1>6. CASE loading' = loading \cup {r} /\ UNCHANGED count
  <2>1. OnePlace'
    BY <1>2, <1>3, <1>4, <1>6 DEF OnePlace
  <2>2. Alive' = Alive
    BY <1>3, <1>4, <1>6 DEF Alive
  <2>3. CountsOf(count', Alive')
    BY <1>6, <2>2, CountsAre
  <2>4. QED
    BY <2>1, <2>3 DEF CountsRequests, CountsOf, Counted, Alive
<1>7. CASE decrementRequestCount(DocOf[r]) /\ UNCHANGED loading
  <2>1. OnePlace'
    BY <1>2, <1>3, <1>7 DEF OnePlace
  <2>2. Alive' = Alive \ {r}
    BY <1>3, <1>4, <1>7 DEF Alive
  <2>3. CountsOf(count', Alive')
    BY <1>5, <1>7, <2>2, OneLess, CountsAre DEF TypeOK, decrementRequestCount
  <2>4. QED
    BY <2>1, <2>3 DEF CountsRequests, CountsOf, Counted, Alive
<1>8. QED
  BY <1>1, <1>6, <1>7

LEMMA PlacesStep ==
  ASSUME TypeOK, PlacesInv, [Next]_vars
  PROVE  PlacesInv'
<1> USE DEF requestVars, docVars
<1>1. ASSUME stack # <<>>, Top.op = "serve" PROVE Top.queue \in Priorities
  BY <1>1, TopIs, FrameKinds DEF TypeOK
<1>2. ASSUME NEW r \in Requests, Load(r) PROVE PlacesInv'
  BY <1>2, LoadPlaces DEF Load
<1>3. ASSUME NEW r \in Requests, Preload(r) PROVE PlacesInv'
  BY <1>3, PlacesSame DEF Preload
<1>4. ASSUME NEW d \in Docs, Render(d) \/ Settle(d) PROVE PlacesInv'
  BY <1>4, PlacesSame DEF Render, Settle
<1>5. CASE RequestTimerFired \/ ServeNextQueue \/ ServeNoMore
  BY <1>5, PlacesSame DEF RequestTimerFired, ServeNextQueue, ServeNoMore
<1>6. CASE ServeRequest
  BY <1>1, <1>6, TakenPlaces DEF ServeRequest, In, Dequeue
<1>7. CASE ServeFails
  BY <1>1, <1>7, TakenPlaces DEF ServeFails, In, Dequeue
<1>8. CASE ServeFailedDone
  BY <1>8, PlacesSame DEF ServeFailedDone
<1>9. ASSUME NEW r \in Requests, DidFinishLoading(r) PROVE PlacesInv'
  BY <1>9, ForgetPlaces DEF DidFinishLoading, Forget
<1>10. ASSUME NEW r \in loading, NEW c \in BOOLEAN, NEW under, fail(r, c, under) PROVE PlacesInv'
  BY <1>10, ForgetPlaces DEF fail, Forget
<1>11. ASSUME NEW r \in Requests, DidFail(r) \/ DidCancel(r) PROVE PlacesInv'
  BY <1>10, <1>11 DEF DidFail, DidCancel
<1>12. CASE ResourceToldDone \/ CheckForPendingPreloads
  BY <1>12, PlacesSame DEF ResourceToldDone, CheckForPendingPreloads
<1>13. CASE RequestPreload
  <2>1. PICK r, rest : \/ load(r, rest)
                       \/ UNCHANGED <<requestVars, docVars, timer>>
    BY <1>13 DEF RequestPreload
  <2>2. CASE load(r, rest)
    <3>1. r \in Requests
      BY <2>2 DEF load, TypeOK
    <3>2. QED
      BY <2>2, <3>1, LoadPlaces
  <2>3. CASE UNCHANGED <<requestVars, docVars, timer>>
    BY <2>3, PlacesSame
  <2>4. QED
    BY <2>1, <2>2, <2>3
<1>14. CASE PreloadsDone \/ RevalidatedDone \/ DataDone \/ CancelDone
  BY <1>14, PlacesSame DEF PreloadsDone, RevalidatedDone, DataDone, CancelDone
<1>15. ASSUME NEW r \in Requests, Revalidated(r) PROVE PlacesInv'
  <2>1. r \in loading /\ r \notin multipart
    BY <1>15 DEF Revalidated, PlacesInv, OnePlace
  <2>2. QED
    BY <1>15, <2>1, ForgetPlaces DEF Revalidated
<1>16. ASSUME NEW r \in Requests, DidReceiveResponse(r) PROVE PlacesInv'
  <2>1. /\ r \in loading /\ validators' = validators \ {r} /\ loading' = loading
        /\ fresh' = fresh /\ pending' = pending
    BY <1>16 DEF DidReceiveResponse
  <2>2. Pending' = Pending /\ r \notin Pending /\ r \notin fresh
    BY <2>1 DEF Pending, PlacesInv, OnePlace
  <2>3. CASE UNCHANGED <<multipart, count>>
    <3>1. OnePlace'
      BY <2>1, <2>2, <2>3 DEF PlacesInv, OnePlace, Distinct
    <3>2. CountsRequests'
      BY <2>1, <2>2, <2>3 DEF PlacesInv, CountsRequests, Counted
    <3>3. QED
      BY <3>1, <3>2 DEF PlacesInv
  <2>4. CASE /\ r \notin multipart /\ multipart' = multipart \cup {r}
             /\ decrementRequestCount(DocOf[r])
    <3>1. OnePlace'
      BY <2>1, <2>2, <2>4 DEF PlacesInv, OnePlace, Distinct
    <3>2. Alive' = Alive \ {r} /\ r \in Alive /\ Alive \subseteq Requests
      BY <2>1, <2>2, <2>4 DEF Alive, TypeOK, Pending
    <3>3. CountsOf(count', Alive')
      BY <2>4, <3>2, OneLess, CountsAre DEF TypeOK, decrementRequestCount, PlacesInv
    <3>4. QED
      BY <3>1, <3>3 DEF PlacesInv, CountsRequests, CountsOf, Counted, Alive
  <2>5. QED
    BY <1>16, <2>3, <2>4 DEF DidReceiveResponse
<1>17. ASSUME NEW r \in Requests, DidReceiveData(r) PROVE PlacesInv'
  BY <1>17, PlacesSame DEF DidReceiveData
<1>18. ASSUME NEW d \in Docs, CancelRequests(d) PROVE PlacesInv'
  <2>1. PICK D : D = {r \in Pending : DocOf[r] = d}
    OBVIOUS
  <2>2. /\ Distinct(pending') /\ InQueues(pending') = {r \in InQueues(pending) : DocOf[r] # d}
    BY <1>18, OthersLeft DEF CancelRequests, TypeOK, Queues, PlacesInv, OnePlace
  <2>3. Pending' = Pending \ D
    BY <2>1, <2>2 DEF Pending, InQueues
  <2>4. UNCHANGED <<fresh, loading, multipart, validators>>
    BY <1>18 DEF CancelRequests
  <2>5. OnePlace'
    BY <2>2, <2>3, <2>4 DEF PlacesInv, OnePlace
  <2>6. /\ Alive' = Alive \ D /\ Alive \subseteq Requests /\ D \subseteq Alive
        /\ \A u \in D : DocOf[u] = d
    BY <2>1, <2>3, <2>4 DEF Alive, TypeOK, Pending, PlacesInv, OnePlace
  <2>7. count' = [count EXCEPT ![d] = @ - Cardinality(D)]
    BY <1>18, <2>1 DEF CancelRequests
  <2>8. CountsOf(count', Alive')
    BY <2>6, <2>7, SomeLess, CountsAre DEF TypeOK, PlacesInv
  <2>9. QED
    BY <2>5, <2>8 DEF PlacesInv, CountsRequests, CountsOf, Counted, Alive
<1>19. CASE CancelNext
  <2>1. PICK r, rest : \/ r \in loading /\ fail(r, TRUE, rest)
                       \/ UNCHANGED <<requestVars, docVars, timer>>
    BY <1>19 DEF CancelNext
  <2>2. QED
    BY <1>10, <2>1, PlacesSame
<1>20. CASE UNCHANGED vars
  BY <1>20, PlacesSame DEF vars
<1>21. QED
  BY <1>2, <1>3, <1>4, <1>5, <1>6, <1>7, <1>8, <1>9, <1>11, <1>12, <1>13, <1>14, <1>15,
     <1>16, <1>17, <1>18, <1>19, <1>20 DEF Next, Host, Client, Transfer

-----------------------------------------------------------------------------
(* The queues that need somebody.                                          *)

(* Queues with nothing to wait for, and with a free slot.                  *)
Idle == {p \in Priorities : pending[p] # <<>> /\ ~timer /\ loading = {}}
Short == {p \in Priorities : pending[p] # <<>> /\ Cardinality(loading) < MaxInFlight}

(* A queue that waits for neither the timer nor a transfer is attended by  *)
(* a method in progress.                                                   *)
QueuesAttended == AttendedIn(stack, Idle)

(* While there is a free slot, a queue that servePendingRequests has left  *)
(* behind is empty, or will be looked at before it goes on.                *)
HigherServed == HigherIn(stack, Short)

ServedIn(s) == AttendedIn(s, Idle) /\ HigherIn(s, Short)

LEMMA StackIs ==
  ASSUME stack \in Seq(Frames), stack # <<>>
  PROVE  /\ Top \in Frames /\ Tail(stack) \in Seq(Frames)
         /\ stack = <<Top>> \o Tail(stack)
BY HeadTailProperties DEF Top

LEMMA ServesWhat ==
  /\ \A f : f.op = "serve" => Serves(f) = f.min..f.queue /\ Attends(f) = f.min..f.queue
  /\ \A f : f.op \in {"finish", "fail", "revalidated"} =>
              Serves(f) = Priorities /\ Attends(f) = Priorities
  /\ \A f : f.op = "data" => Serves(f) = {} /\ Attends(f) = {}
  /\ \A f : f.op = "cancel" => Serves(f) = {} /\ Attends(f) = Priorities
BY DEF Serves, Attends

LEMMA ServesNew ==
  /\ \A p \in Priorities : /\ ServeFrom(p).op = "serve" /\ ServeFrom(p).queue = High
                           /\ Serves(ServeFrom(p)) = p..High
                           /\ Attends(ServeFrom(p)) = p..High
  /\ \A op, at, r : About(op, at, r).op = op
  /\ \A q \in Priorities : ~(q > High)
<1>1. \A p \in Priorities : /\ ServeFrom(p).op = "serve" /\ ServeFrom(p).queue = High
                            /\ ServeFrom(p).min = p
  BY DEF ServeFrom
<1>2. \A op, at, r : About(op, at, r).op = op
  BY DEF About
<1>3. \A q \in Priorities : ~(q > High)
  BY DEF Priorities, Low, High
<1>4. QED
  BY <1>1, <1>2, <1>3, ServesWhat

(* A method is called, goes on, and returns, at the constant level.        *)
LEMMA CalledIn ==
  ASSUME NEW s \in Seq(Frames), NEW g \in Frames, NEW I, NEW S, NEW I2, NEW S2,
         AttendedIn(s, I), HigherIn(s, S),
         I2 \ Attends(g) \subseteq I, S2 \ Serves(g) \subseteq S \cup {Low},
         g.op = "serve" => \A q \in S2 : ~(q > g.queue)
  PROVE  AttendedIn(<<g>> \o s, I2) /\ HigherIn(<<g>> \o s, S2)
<1>1. AttendedIn(s, I2 \ Attends(g)) /\ HigherIn(s, S2 \ Serves(g))
  BY FewerQueues
<1>2. QED
  BY <1>1, AttendedPushed, HigherPushed

LEMMA ReplacedIn ==
  ASSUME NEW s \in Seq(Frames), NEW f \in Frames, NEW g \in Frames,
         NEW I, NEW S, NEW I2, NEW S2,
         AttendedIn(<<f>> \o s, I), HigherIn(<<f>> \o s, S),
         I2 \ Attends(g) \subseteq I \ Attends(f),
         S2 \ Serves(g) \subseteq S \ Serves(f),
         g.op = "serve" => \A q \in S2 : ~(q > g.queue)
  PROVE  AttendedIn(<<g>> \o s, I2) /\ HigherIn(<<g>> \o s, S2)
<1>1. AttendedIn(s, I \ Attends(f)) /\ HigherIn(s, S \ Serves(f))
  BY AttendedPushed, HigherPushed
<1>2. AttendedIn(s, I2 \ Attends(g)) /\ HigherIn(s, S2 \ Serves(g))
  BY <1>1, FewerQueues
<1>3. QED
  BY <1>2, AttendedPushed, HigherPushed

LEMMA ReturnedIn ==
  ASSUME NEW s \in Seq(Frames), NEW f \in Frames, NEW I, NEW S, NEW I2, NEW S2,
         AttendedIn(<<f>> \o s, I), HigherIn(<<f>> \o s, S),
         I2 \subseteq I \ Attends(f), S2 \subseteq S \ Serves(f)
  PROVE  AttendedIn(s, I2) /\ HigherIn(s, S2)
<1>1. AttendedIn(s, I \ Attends(f)) /\ HigherIn(s, S \ Serves(f))
  BY AttendedPushed, HigherPushed
<1>2. QED
  BY <1>1, FewerQueues

(* The same of the steps of the host.                                      *)
ServeInv == QueuesAttended /\ HigherServed

LEMMA ServeSame ==
  ASSUME TypeOK, ServeInv, UNCHANGED stack, Idle' \subseteq Idle, Short' \subseteq Short
  PROVE  ServeInv'
BY FewerQueues DEF TypeOK, ServeInv, QueuesAttended, HigherServed

LEMMA Called ==
  ASSUME NEW s \in Seq(Frames), NEW g \in Frames, ServedIn(s), stack' = <<g>> \o s,
         Idle' \ Attends(g) \subseteq Idle, Short' \ Serves(g) \subseteq Short \cup {Low},
         g.op = "serve" => g.queue = High
  PROVE  ServeInv'
<1>1. g.op = "serve" => \A q \in Short' : ~(q > g.queue)
  BY ServesNew DEF Short
<1>2. AttendedIn(<<g>> \o s, Idle') /\ HigherIn(<<g>> \o s, Short')
  BY <1>1, CalledIn DEF ServedIn
<1>3. QED
  BY <1>2 DEF ServeInv, QueuesAttended, HigherServed

(* The method goes on, with no other queues to look at.                    *)
LEMMA SameServes ==
  ASSUME TypeOK, ServeInv, stack # <<>>, NEW g \in Frames,
         g.op = Top.op \/ (g = ServeFrom(Low) /\ Top.op \in {"finish", "fail", "revalidated"}),
         g.op = "serve" /\ Top.op = "serve" => g.queue = Top.queue /\ g.min = Top.min
  PROVE  ServedIn(<<g>> \o Tail(stack))
         /\ (stack' = <<g>> \o Tail(stack) /\ Idle' \subseteq Idle /\ Short' \subseteq Short
               => ServeInv')
<1>1. /\ Top \in Frames /\ Tail(stack) \in Seq(Frames)
      /\ AttendedIn(<<Top>> \o Tail(stack), Idle) /\ HigherIn(<<Top>> \o Tail(stack), Short)
  BY StackIs DEF TypeOK, ServeInv, QueuesAttended, HigherServed
<1>2. Attends(g) = Attends(Top) /\ Serves(g) = Serves(Top)
  <2>1. CASE g.op = Top.op
    BY <2>1 DEF Serves, Attends
  <2>2. CASE g = ServeFrom(Low) /\ Top.op \in {"finish", "fail", "revalidated"}
    <3>1. Low \in Priorities /\ Low..High = Priorities
      BY DEF Priorities, Low, High
    <3>2. Serves(g) = Priorities /\ Attends(g) = Priorities
      BY <2>2, <3>1, ServesNew
    <3>3. Serves(Top) = Priorities /\ Attends(Top) = Priorities
      BY <2>2, ServesWhat
    <3>4. QED
      BY <3>2, <3>3
  <2>3. QED
    BY <2>1, <2>2
<1>3. g.op = "serve" => \A q \in Short : ~(q > g.queue)
  <2>1. CASE Top.op = "serve"
    BY <1>1, <2>1, HigherPushed, ServesNew
  <2>2. CASE g = ServeFrom(Low)
    BY <2>2, ServesNew DEF Short, Priorities, Low, High
  <2>3. QED
    BY <2>1, <2>2
<1>4. ServedIn(<<g>> \o Tail(stack))
  BY <1>1, <1>2, <1>3, ReplacedIn DEF ServedIn
<1>5. ASSUME stack' = <<g>> \o Tail(stack), Idle' \subseteq Idle, Short' \subseteq Short
      PROVE  ServeInv'
  <2>1. <<g>> \o Tail(stack) \in Seq(Frames)
    BY <1>1, Pushed
  <2>2. AttendedIn(<<g>> \o Tail(stack), Idle') /\ HigherIn(<<g>> \o Tail(stack), Short')
    BY <1>4, <1>5, <2>1, FewerQueues DEF ServedIn
  <2>3. QED
    BY <1>5, <2>2 DEF ServeInv, QueuesAttended, HigherServed
<1>6. QED
  BY <1>4, <1>5

LEMMA Returned ==
  ASSUME TypeOK, ServeInv, stack # <<>>, Return,
         Idle' \subseteq Idle \ Attends(Top), Short' \subseteq Short \ Serves(Top)
  PROVE  ServeInv'
<1>1. /\ Top \in Frames /\ Tail(stack) \in Seq(Frames)
      /\ AttendedIn(<<Top>> \o Tail(stack), Idle) /\ HigherIn(<<Top>> \o Tail(stack), Short)
  BY StackIs DEF TypeOK, ServeInv, QueuesAttended, HigherServed
<1>2. AttendedIn(Tail(stack), Idle') /\ HigherIn(Tail(stack), Short')
  BY <1>1, ReturnedIn
<1>3. QED
  BY <1>2 DEF Return, ServeInv, QueuesAttended, HigherServed

LEMMA LoadServes ==
  ASSUME TypeOK, OnePlace, NEW r \in Requests, NEW under \in Seq(Frames), ServedIn(under),
         load(r, under)
  PROVE  ServeInv'
<1>1. PICK P \in Priorities : P = PriorityOf[r]
  BY HostAssumption DEF HostAssumption
<1>2. \A q \in Priorities : pending'[q] # <<>> => pending[q] # <<>> \/ q = P
  <2>1. r \notin InQueues(pending) /\ pending' = [pending EXCEPT ![P] = Append(@, r)]
    BY <1>1, PendingIs DEF load, OnePlace
  <2>2. QED
    BY <2>1, Enqueued DEF TypeOK, Queues, OnePlace
<1>3. loading' = loading
  BY DEF load
<1>4. CASE stack' = <<ServeFrom(P)>> \o under /\ UNCHANGED timer
  <2>1. P \in P..High
    BY DEF Priorities, Low, High
  <2>2. Idle' \ Attends(ServeFrom(P)) \subseteq Idle
    BY <1>2, <1>3, <1>4, <2>1, ServesNew DEF Idle
  <2>3. Short' \ Serves(ServeFrom(P)) \subseteq Short
    BY <1>2, <1>3, <2>1, ServesNew DEF Short
  <2>4. ServeFrom(P) \in Frames /\ ServeFrom(P).queue = High
    BY NewFrames, ServesNew
  <2>5. QED
    BY <1>4, <2>2, <2>3, <2>4, Called
<1>5. CASE stack' = under /\ timer' = TRUE /\ ~(P > Low)
  <2>1. Idle' = {}
    BY <1>5 DEF Idle
  <2>2. P = Low
    BY <1>5 DEF Priorities, Low, High
  <2>3. Short' \subseteq Short \cup {Low}
    BY <1>2, <1>3, <2>2 DEF Short
  <2>4. AttendedIn(under, Idle')
    BY <2>1 DEF AttendedIn
  <2>5. HigherIn(under, Short) => HigherIn(under, Short')
    BY <2>3, FewerQueues
  <2>6. QED
    BY <1>5, <2>4, <2>5 DEF ServedIn, ServeInv, QueuesAttended, HigherServed
<1>6. QED
  BY <1>1, <1>4, <1>5 DEF load

LEMMA FailServes ==
  ASSUME TypeOK, NEW r \in Requests, NEW c \in BOOLEAN, NEW under \in Seq(Frames),
         ServedIn(under), fail(r, c, under)
  PROVE  ServeInv'
<1>1. PICK at \in {"resource", "done"} : stack' = <<About("fail", at, r)>> \o under
  BY DEF fail
<1>2. /\ About("fail", at, r) \in Frames /\ About("fail", at, r).op = "fail"
      /\ Serves(About("fail", at, r)) = Priorities /\ Attends(About("fail", at, r)) = Priorities
  BY NewFrames, ServesNew, ServesWhat
<1>3. Idle' \subseteq Priorities /\ Short' \subseteq Priorities
  BY DEF Idle, Short
<1>4. QED
  BY <1>1, <1>2, <1>3, Called

(* Full, a host starts no more; and something is in transfer.              *)
LEMMA FullHost ==
  ASSUME TypeOK, ~(Cardinality(loading) < MaxInFlight)
  PROVE  Short = {} /\ Idle = {}
<1>1. Cardinality({}) = 0 /\ MaxInFlight \in Nat \ {0}
  BY FS_EmptySet, HostAssumption DEF HostAssumption
<1>2. loading # {}
  BY <1>1
<1>3. QED
  BY <1>2 DEF Short, Idle

LEMMA ServeStep ==
  ASSUME TypeOK, OnePlace, ServeInv, [Next]_vars
  PROVE  ServeInv'
<1> USE DEF requestVars, docVars
<1> stack \in Seq(Frames) /\ pending \in Queues /\ Distinct(pending)
  BY DEF TypeOK, OnePlace, Queues
<1> IsFiniteSet(loading) /\ Cardinality(loading) \in Nat
  BY HostAssumption, FS_Subset, FS_CardinalityType DEF HostAssumption, TypeOK
<1> MaxInFlight \in Nat \ {0}
  BY HostAssumption DEF HostAssumption
<1> Low \in Priorities /\ Low..High = Priorities
  BY DEF Priorities, Low, High
<1>1. Idle' \subseteq Priorities /\ Short' \subseteq Priorities
  BY DEF Idle, Short
<1>2. ASSUME UNCHANGED <<pending, loading, timer>> PROVE Idle' = Idle /\ Short' = Short
  BY <1>2 DEF Idle, Short
<1>3. ServedIn(stack)
  BY DEF ServeInv, QueuesAttended, HigherServed, ServedIn
<1>4. ASSUME stack # <<>>
      PROVE  /\ Top \in Frames /\ Tail(stack) \in Seq(Frames)
             /\ Top.op = "serve" => Top.queue \in Priorities /\ Top.min \in Priorities
  BY <1>4, TopIs, FrameKinds
<1>5. ASSUME NEW r \in Requests, NEW op \in {"finish", "fail", "revalidated"},
             NEW at \in {"resource", "done"}, Call(About(op, at, r))
      PROVE  ServeInv'
  <2>1. About(op, at, r) \in Frames /\ About(op, at, r).op = op
    BY NewFrames, ServesNew
  <2>2. Serves(About(op, at, r)) = Priorities /\ Attends(About(op, at, r)) = Priorities
    BY <2>1, ServesWhat
  <2>3. QED
    BY <1>1, <1>3, <1>5, <2>1, <2>2, Called DEF Call
<1>6. ASSUME NEW r \in Requests, NEW at \in {"resource", "done"}, Call(About("data", at, r)),
             UNCHANGED <<pending, loading, timer>>
      PROVE  ServeInv'
  <2>1. About("data", at, r) \in Frames /\ About("data", at, r).op = "data"
    BY NewFrames, ServesNew
  <2>2. QED
    BY <1>2, <1>3, <1>6, <2>1, Called DEF Call
<1>7. ASSUME stack # <<>>, Top.op \in {"finish", "fail", "revalidated"},
             stack' = <<ServeFrom(Low)>> \o Tail(stack), UNCHANGED <<pending, loading, timer>>
      PROVE  ServeInv'
  <2>1. ServeFrom(Low) \in Frames
    BY NewFrames
  <2>2. QED
    BY <1>2, <1>7, <2>1, SameServes
<1>8. ASSUME NEW r \in Requests, Load(r) PROVE ServeInv'
  BY <1>3, <1>8, LoadServes DEF Load
<1>9. ASSUME NEW r \in Requests, Preload(r) PROVE ServeInv'
  BY <1>2, <1>9, ServeSame DEF Preload
<1>10. ASSUME NEW d \in Docs, Render(d) \/ Settle(d) PROVE ServeInv'
  BY <1>2, <1>10, ServeSame DEF Render, Settle
<1>11. CASE RequestTimerFired
  <2>1. /\ ServeFrom(Low) \in Frames /\ ServeFrom(Low).queue = High
        /\ Serves(ServeFrom(Low)) = Priorities /\ Attends(ServeFrom(Low)) = Priorities
    BY NewFrames, ServesNew
  <2>2. QED
    BY <1>1, <1>3, <1>11, <2>1, Called DEF RequestTimerFired, Call
<1>12. CASE ServeNextQueue
  <2>1. /\ stack # <<>> /\ Top.op = "serve" /\ pending[Top.queue] = <<>>
        /\ UNCHANGED <<pending, loading, timer>>
    BY <1>12 DEF ServeNextQueue, In
  <2>2. /\ Top.queue \in Int /\ Top.min \in Int
        /\ Serves(Top) = Top.min..Top.queue /\ Attends(Top) = Top.min..Top.queue
    BY <1>4, <2>1, ServesWhat DEF Priorities, Low, High
  <2>3. Top.queue \notin Idle /\ Top.queue \notin Short
    BY <2>1 DEF Idle, Short
  <2>4. CASE Top.queue > Top.min
    <3>1. PICK g : g = [Top EXCEPT !.queue = @ - 1]
      OBVIOUS
    <3>2. Top \in ServeFrames
      BY <1>4, <1>12, <2>1, FrameKinds DEF ServeNextQueue, In
    <3>3. g \in ServeFrames
      BY <2>4, <3>1, <3>2 DEF ServeFrames, Priorities, Low, High
    <3>4. g \in Frames /\ g.op = "serve" /\ g.queue = Top.queue - 1 /\ g.min = Top.min
      BY <3>1, <3>2, <3>3 DEF ServeFrames, Frames
    <3>5. Serves(g) = Top.min..(Top.queue - 1) /\ Attends(g) = Top.min..(Top.queue - 1)
      BY <3>4, ServesWhat
    <3>6. \A q \in Priorities : q \in Top.min..Top.queue /\ q # Top.queue
                                  => q \in Top.min..(Top.queue - 1)
      BY <2>2 DEF Priorities, Low, High
    <3>7. Idle \ Attends(g) \subseteq Idle \ Attends(Top)
      BY <2>2, <2>3, <3>5, <3>6 DEF Idle
    <3>8. Short \ Serves(g) \subseteq Short \ Serves(Top)
      BY <2>2, <2>3, <3>5, <3>6 DEF Short
    <3>9. AttendedIn(<<Top>> \o Tail(stack), Idle) /\ HigherIn(<<Top>> \o Tail(stack), Short)
      BY <1>3, <2>1, StackIs DEF ServedIn
    <3>10. \A q \in Short : ~(q > g.queue)
      <4>1. \A q \in Short : ~(q > Top.queue)
        BY <1>4, <2>1, <3>9, HigherPushed
      <4>2. \A q \in Short : q # Top.queue /\ q \in Int
        BY <2>3 DEF Short, Priorities, Low, High
      <4>3. QED
        BY <2>2, <3>4, <4>1, <4>2
    <3>11. AttendedIn(<<g>> \o Tail(stack), Idle) /\ HigherIn(<<g>> \o Tail(stack), Short)
      <4>1. Top \in Frames /\ Tail(stack) \in Seq(Frames)
        BY <1>4, <2>1
      <4>2. /\ AttendedIn(Tail(stack), Idle \ Attends(Top))
            /\ HigherIn(Tail(stack), Short \ Serves(Top))
        BY <3>9, <4>1, AttendedPushed, HigherPushed
      <4>3. /\ AttendedIn(Tail(stack), Idle \ Attends(g))
            /\ HigherIn(Tail(stack), Short \ Serves(g))
        BY <3>7, <3>8, <4>1, <4>2, FewerQueues
      <4>4. AttendedIn(<<g>> \o Tail(stack), Idle)
        BY <3>4, <4>1, <4>3, AttendedPushed
      <4>5. HigherIn(<<g>> \o Tail(stack), Short)
        BY <3>4, <3>10, <4>1, <4>3, HigherPushed
      <4>6. QED
        BY <4>4, <4>5
    <3>12. stack' = <<g>> \o Tail(stack)
      BY <1>12, <2>4, <3>1 DEF ServeNextQueue
    <3>13. QED
      BY <1>2, <2>1, <3>11, <3>12 DEF ServeInv, QueuesAttended, HigherServed
  <2>5. CASE ~(Top.queue > Top.min)
    <3>1. Return
      BY <1>12, <2>5 DEF ServeNextQueue
    <3>2. \A q \in Priorities : q \in Top.min..Top.queue => q = Top.queue
      BY <2>2, <2>5 DEF Priorities, Low, High
    <3>3. Idle \subseteq Idle \ Attends(Top)
      BY <2>2, <2>3, <3>2 DEF Idle
    <3>4. Short \subseteq Short \ Serves(Top)
      BY <2>2, <2>3, <3>2 DEF Short
    <3>5. QED
      BY <1>2, <2>1, <3>1, <3>3, <3>4, Returned
  <2>6. QED
    BY <2>4, <2>5
<1>13. CASE ServeNoMore
  <2>1. /\ stack # <<>> /\ Return /\ UNCHANGED <<pending, loading, timer>>
        /\ ~(Cardinality(loading) < MaxInFlight)
    BY <1>13 DEF ServeNoMore, In, MayStart
  <2>2. QED
    BY <1>2, <2>1, FullHost, Returned
<1>14. ASSUME stack # <<>>, Top.op = "serve", pending[Top.queue] # <<>>, Dequeue
       PROVE  \A q \in Priorities : pending'[q] # <<>> => pending[q] # <<>>
  BY <1>4, <1>14, Dequeued DEF Dequeue
<1>15. CASE ServeRequest
  <2>1. /\ stack # <<>> /\ Top.op = "serve" /\ pending[Top.queue] # <<>> /\ Dequeue
        /\ loading' = loading \cup {Head(pending[Top.queue])} /\ UNCHANGED stack
    BY <1>15 DEF ServeRequest, In
  <2>2. PICK r : loading' = loading \cup {r}
    BY <2>1
  <2>3. PICK n \in Nat : n = Cardinality(loading)
    OBVIOUS
  <2>4. Cardinality(loading') = IF r \in loading THEN n ELSE n + 1
    BY <2>2, <2>3, FS_AddElement
  <2>5. Cardinality(loading') \in Nat /\ Cardinality(loading') >= n
    BY <2>4
  <2>6. Idle' = {}
    BY <2>1 DEF Idle
  <2>7. Short' \subseteq Short
    BY <1>14, <2>1, <2>5, <2>3 DEF Short
  <2>8. QED
    BY <2>1, <2>6, <2>7, ServeSame
<1>16. CASE ServeFails
  <2>1. /\ stack # <<>> /\ Top.op = "serve" /\ pending[Top.queue] # <<>> /\ Dequeue
        /\ UNCHANGED <<loading, timer>>
    BY <1>16 DEF ServeFails, In
  <2>2. PICK r \in Requests : r = Head(pending[Top.queue])
    BY <1>4, <2>1, Dequeued DEF InQueues
  <2>3. PICK g : g = [op |-> "serve", at |-> "resource", queue |-> Top.queue, min |-> Top.min,
                      req |-> r]
    OBVIOUS
  <2>4. stack' = <<g>> \o Tail(stack)
    BY <1>16, <2>2, <2>3 DEF ServeFails
  <2>5. g \in Frames /\ g.op = "serve" /\ g.queue = Top.queue /\ g.min = Top.min
    <3>1. g \in FailedFrames
      BY <1>4, <2>1, <2>3 DEF FailedFrames
    <3>2. QED
      BY <2>3, <3>1 DEF Frames
  <2>6. Idle' \subseteq Idle /\ Short' \subseteq Short
    BY <1>14, <2>1 DEF Idle, Short
  <2>7. QED
    BY <2>1, <2>4, <2>5, <2>6, SameServes
<1>17. CASE ServeFailedDone
  <2>1. /\ stack # <<>> /\ Top.op = "serve" /\ Top.at \in {"resource", "done"}
        /\ UNCHANGED <<pending, loading, timer>>
    BY <1>17 DEF ServeFailedDone, In
  <2>2. Top \in FailedFrames
    BY <1>4, <2>1, FrameKinds
  <2>3. PICK g \in Frames : /\ g.op = "serve" /\ g.queue = Top.queue /\ g.min = Top.min
                            /\ stack' = <<g>> \o Tail(stack)
    <3>1. CASE GoOn("done")
      <4>1. [Top EXCEPT !.at = "done"] \in FailedFrames
        BY <2>2 DEF FailedFrames
      <4>2. /\ [Top EXCEPT !.at = "done"].op = "serve"
            /\ [Top EXCEPT !.at = "done"].queue = Top.queue
            /\ [Top EXCEPT !.at = "done"].min = Top.min
        BY <2>2 DEF FailedFrames
      <4>3. QED
        BY <3>1, <4>1, <4>2 DEF GoOn, Frames
    <3>2. CASE stack' = <<[op |-> "serve", at |-> "loop", queue |-> Top.queue,
                           min |-> Top.min]>> \o Tail(stack)
      <4>1. [op |-> "serve", at |-> "loop", queue |-> Top.queue, min |-> Top.min] \in ServeFrames
        BY <2>2 DEF FailedFrames, ServeFrames
      <4>2. QED
        BY <3>2, <4>1 DEF Frames
    <3>3. QED
      BY <1>17, <3>1, <3>2 DEF ServeFailedDone
  <2>4. QED
    BY <1>2, <2>1, <2>3, SameServes
<1>18. ASSUME NEW r \in Requests, DidFinishLoading(r) PROVE ServeInv'
  BY <1>5, <1>18 DEF DidFinishLoading
<1>19. ASSUME NEW r \in Requests, DidFail(r) \/ DidCancel(r) PROVE ServeInv'
  BY <1>3, <1>19, FailServes DEF DidFail, DidCancel
<1>20. ASSUME stack # <<>>, Top.op \in {"finish", "fail"} PROVE Top \in AboutFrames
  BY <1>4, <1>20, FrameKinds
<1>21. CASE ResourceToldDone
  <2>1. /\ stack # <<>> /\ Top.op \in {"finish", "fail"} /\ GoOn("done")
        /\ UNCHANGED <<pending, loading, timer>>
    BY <1>21 DEF ResourceToldDone, In
  <2>2. /\ [Top EXCEPT !.at = "done"] \in Frames
        /\ [Top EXCEPT !.at = "done"].op = Top.op
    BY <1>20, <2>1 DEF AboutFrames, Frames
  <2>3. QED
    BY <1>2, <2>1, <2>2, SameServes DEF GoOn
<1>22. CASE CheckForPendingPreloads
  <2>1. /\ stack # <<>> /\ Top.op \in {"finish", "fail"} /\ UNCHANGED <<pending, loading, timer>>
    BY <1>22 DEF CheckForPendingPreloads, In
  <2>2. CASE stack' = <<ServeFrom(Low)>> \o Tail(stack)
    BY <1>7, <2>1, <2>2
  <2>3. CASE stack' = <<[Top EXCEPT !.at = "preloads",
                                    !.n = Len(preloads[DocOf[Top.req]])]>> \o Tail(stack)
    <3>1. Top \in AboutFrames /\ Top.req \in Requests
      BY <1>20, <2>1 DEF AboutFrames
    <3>2. PICK n \in Nat : n = Len(preloads[DocOf[Top.req]])
      <4>1. DocOf[Top.req] \in Docs
        BY <3>1, HostAssumption DEF HostAssumption
      <4>2. QED
        BY <4>1, LenProperties DEF TypeOK
    <3>3. /\ [Top EXCEPT !.at = "preloads", !.n = n] \in AboutFrames
          /\ [Top EXCEPT !.at = "preloads", !.n = n].op = Top.op
      BY <3>1 DEF AboutFrames
    <3>4. QED
      BY <1>2, <2>1, <2>3, <3>2, <3>3, SameServes DEF Frames
  <2>4. QED
    BY <1>22, <2>2, <2>3 DEF CheckForPendingPreloads
<1>23. CASE RequestPreload
  <2>1. stack # <<>> /\ Top.op \in {"finish", "fail"}
    BY <1>23 DEF RequestPreload, InPreloads, In
  <2>2. PICK g : g = [Top EXCEPT !.next = @ + 1]
    OBVIOUS
  <2>3. g \in Frames /\ g.op = Top.op
    <3>1. g \in AboutFrames /\ g.op = Top.op
      BY <1>20, <2>1, <2>2 DEF AboutFrames
    <3>2. QED
      BY <3>1 DEF Frames
  <2>4. ServedIn(<<g>> \o Tail(stack)) /\ <<g>> \o Tail(stack) \in Seq(Frames)
    BY <1>4, <2>1, <2>3, SameServes, Pushed
  <2>5. CASE stack' = <<g>> \o Tail(stack) /\ UNCHANGED <<requestVars, docVars, timer>>
    BY <1>2, <2>1, <2>3, <2>5, SameServes
  <2>6. CASE load(preloads[DocOf[Top.req]][Top.next], <<g>> \o Tail(stack))
    <3>1. preloads[DocOf[Top.req]][Top.next] \in Requests
      BY <2>6 DEF load, TypeOK
    <3>2. QED
      BY <2>4, <2>6, <3>1, LoadServes
  <2>7. QED
    BY <1>23, <2>2, <2>5, <2>6 DEF RequestPreload
<1>24. CASE PreloadsDone
  BY <1>7, <1>24 DEF PreloadsDone, InPreloads, In
<1>25. ASSUME NEW r \in Requests, Revalidated(r) PROVE ServeInv'
  BY <1>5, <1>25 DEF Revalidated
<1>26. CASE RevalidatedDone
  BY <1>7, <1>26 DEF RevalidatedDone, In
<1>27. ASSUME NEW r \in Requests, DidReceiveResponse(r) PROVE ServeInv'
  <2>1. UNCHANGED <<pending, loading, timer>>
    BY <1>27 DEF DidReceiveResponse
  <2>2. UNCHANGED stack \/ Call(About("data", "done", r))
    BY <1>27 DEF DidReceiveResponse
  <2>3. QED
    BY <1>2, <1>6, <2>1, <2>2, ServeSame
<1>28. ASSUME NEW r \in Requests, DidReceiveData(r) PROVE ServeInv'
  BY <1>6, <1>28 DEF DidReceiveData
<1>29. CASE DataDone
  <2>1. /\ stack # <<>> /\ Top.op = "data" /\ Return /\ UNCHANGED <<pending, loading, timer>>
    BY <1>29 DEF DataDone, In
  <2>2. Serves(Top) = {} /\ Attends(Top) = {}
    BY <2>1, ServesWhat
  <2>3. QED
    BY <1>2, <2>1, <2>2, Returned
<1>30. ASSUME NEW d \in Docs, CancelRequests(d) PROVE ServeInv'
  <2>1. PICK g : g = [op |-> "cancel", at |-> "loop", doc |-> d,
                      todo |-> {r \in loading : DocOf[r] = d}]
    OBVIOUS
  <2>2. stack' = <<g>> \o stack /\ UNCHANGED <<loading, timer>>
    BY <1>30, <2>1 DEF CancelRequests, Call
  <2>3. g \in Frames /\ g.op = "cancel"
    <3>1. {r \in loading : DocOf[r] = d} \in SUBSET Requests
      BY DEF TypeOK
    <3>2. QED
      BY <2>1, <3>1, NewFrames
  <2>4. \A q \in Priorities : pending'[q] # <<>> => pending[q] # <<>>
    BY <1>30, OthersLeft DEF CancelRequests
  <2>5. Short' \subseteq Short
    BY <2>2, <2>4 DEF Short
  <2>6. Attends(g) = Priorities
    BY <2>3, ServesWhat
  <2>7. QED
    BY <1>1, <1>3, <2>2, <2>3, <2>5, <2>6, Called
<1>31. CASE CancelNext
  <2>1. stack # <<>> /\ Top.op = "cancel" /\ Top \in CancelFrames
    BY <1>4, <1>31, FrameKinds DEF CancelNext, In
  <2>2. PICK r \in Top.todo :
          \/ fail(r, TRUE, <<[Top EXCEPT !.todo = @ \ {r}]>> \o Tail(stack))
          \/ /\ stack' = <<[Top EXCEPT !.todo = @ \ {r}]>> \o Tail(stack)
             /\ UNCHANGED <<requestVars, docVars, timer>>
    BY <1>31 DEF CancelNext
  <2>3. PICK g : g = [Top EXCEPT !.todo = @ \ {r}]
    OBVIOUS
  <2>4. r \in Requests /\ g \in Frames /\ g.op = "cancel"
    <3>1. r \in Requests /\ g \in CancelFrames /\ g.op = "cancel"
      BY <2>1, <2>3 DEF CancelFrames
    <3>2. QED
      BY <3>1 DEF Frames
  <2>5. ServedIn(<<g>> \o Tail(stack)) /\ <<g>> \o Tail(stack) \in Seq(Frames)
    BY <1>4, <2>1, <2>4, SameServes, Pushed
  <2>6. CASE fail(r, TRUE, <<g>> \o Tail(stack))
    BY <2>4, <2>5, <2>6, FailServes
  <2>7. CASE stack' = <<g>> \o Tail(stack) /\ UNCHANGED <<requestVars, docVars, timer>>
    BY <1>2, <2>1, <2>4, <2>7, SameServes
  <2>8. QED
    BY <2>2, <2>3, <2>6, <2>7
<1>32. CASE CancelDone
  <2>1. /\ stack # <<>> /\ Top.op = "cancel" /\ Return /\ timer' = TRUE
        /\ UNCHANGED <<pending, loading>>
    BY <1>32 DEF CancelDone, In
  <2>2. Idle' = {} /\ Short' = Short /\ Serves(Top) = {}
    BY <2>1, ServesWhat DEF Idle, Short
  <2>3. QED
    BY <2>1, <2>2, Returned
<1>33. CASE UNCHANGED vars
  BY <1>2, <1>33, ServeSame DEF vars
<1>34. QED
  BY <1>8, <1>9, <1>10, <1>11, <1>12, <1>13, <1>15, <1>16, <1>17, <1>18, <1>19, <1>21, <1>22,
     <1>23, <1>24, <1>25, <1>26, <1>27, <1>28, <1>29, <1>30, <1>31, <1>32, <1>33
     DEF Next, Host, Client, Transfer

-----------------------------------------------------------------------------
(* The inductive invariant: the types, the place of each request with the  *)
(* counts, and the queues that need somebody with those that look after    *)
(* them.                                                                   *)
HostInv == TypeOK /\ OnePlace /\ CountsRequests /\ QueuesAttended /\ HigherServed

LEMMA HostInvInit == Init => HostInv
<1> SUFFICES ASSUME Init PROVE HostInv
  OBVIOUS
<1>1. TypeOK
  <2>1. <<>> \in Seq(Requests) /\ <<>> \in Seq(Frames)
    BY EmptySeq
  <2>2. \A d \in Docs : 0 \in Int
    OBVIOUS
  <2>3. pending \in [Priorities -> Seq(Requests)] /\ preloads \in [Docs -> Seq(Requests)]
        /\ stack \in Seq(Frames)
    BY <2>1 DEF Init
  <2>4. count \in [Docs -> Int]
    BY DEF Init
  <2>5. validators \subseteq Requests
    BY HostAssumption DEF Init, HostAssumption
  <2>6. QED
    BY <2>3, <2>4, <2>5 DEF Init, TypeOK
<1>2. Len(<<>>) = 0 /\ 1..0 = {}
  BY EmptySeq
<1>3. Pending = {} /\ Distinct(pending)
  BY <1>2 DEF Init, Pending, Distinct
<1>4. OnePlace
  BY <1>3 DEF Init, OnePlace
<1>5. CountsRequests
  <2>1. \A d \in Docs : Counted(d) = {}
    BY <1>3 DEF Init, Counted
  <2>2. QED
    BY <2>1, FS_EmptySet DEF Init, CountsRequests
<1>6. Idle = {} /\ Short = {}
  BY DEF Init, Idle, Short
<1>7. QED
  BY <1>1, <1>4, <1>5, <1>6
     DEF HostInv, QueuesAttended, HigherServed, AttendedIn, HigherIn

THEOREM HostInvariant == Spec => []HostInv
<1>1. HostInv /\ [Next]_vars => HostInv'
  BY TypeStep, PlacesStep, ServeStep DEF HostInv, PlacesInv, ServeInv
<1>2. QED
  BY HostInvInit, <1>1, PTL DEF Spec

(* Every variable has its type.                                            *)
THEOREM TypeCorrect == Spec => []TypeOK
<1>1. HostInv => TypeOK
  BY DEF HostInv
<1>2. QED
  BY HostInvariant, <1>1, PTL

(* m_requestCount counts each queued request and each transfer that is not *)
(* of several parts once, whatever nests: a document neither waits for a   *)
(* request that is gone nor is complete before one that is not.            *)
THEOREM CountsExact == Spec => []CountsRequests
<1>1. HostInv => CountsRequests
  BY DEF HostInv
<1>2. QED
  BY HostInvariant, <1>1, PTL

(* A request that is queued when nothing runs waits for the timer or for   *)
(* the end of a transfer.                                                  *)
THEOREM NothingStranded == Spec => []NoStrandedRequests
<1>1. HostInv => NoStrandedRequests
  <2> SUFFICES ASSUME HostInv, stack = <<>>, NEW r \in Pending
               PROVE  timer \/ loading # {}
    BY DEF NoStrandedRequests
  <2>1. PICK p \in Priorities : \E i \in 1..Len(pending[p]) : pending[p][i] = r
    BY DEF Pending
  <2>2. pending[p] # <<>>
    <3>1. Len(<<>>) = 0 /\ 1..0 = {}
      BY EmptySeq
    <3>2. QED
      BY <2>1, <3>1
  <2>3. p \notin Idle
    <3>1. Len(stack) = 0 /\ 1..0 = {}
      BY EmptySeq
    <3>2. QED
      BY <3>1 DEF HostInv, QueuesAttended, AttendedIn
  <2>4. QED
    BY <2>2, <2>3 DEF Idle
<1>2. QED
  BY HostInvariant, <1>1, PTL

(* A request is started before a queued one of higher priority only when   *)
(* the host is full.                                                       *)
THEOREM HigherServedFirst == Spec => HigherFirst
<1> DEFINE Order ==
      \A p, q \in Priorities :
        Len(pending'[p]) < Len(pending[p]) /\ ServeRequest /\ q > p /\ pending[q] # <<>>
          => Cardinality(loading) >= MaxInFlight
<1>1. HostInv => Order
  <2> SUFFICES ASSUME HostInv, NEW p \in Priorities, NEW q \in Priorities,
                      Len(pending'[p]) < Len(pending[p]), ServeRequest, q > p,
                      pending[q] # <<>>
               PROVE  Cardinality(loading) >= MaxInFlight
    OBVIOUS
  <2>1. stack # <<>> /\ Top.op = "serve" /\ pending[Top.queue] # <<>> /\ Dequeue
    BY DEF ServeRequest, In
  <2>2. stack \in Seq(Frames) /\ pending \in Queues /\ Distinct(pending)
    BY DEF HostInv, TypeOK, OnePlace, Queues
  <2>3. Top \in Frames /\ Tail(stack) \in Seq(Frames) /\ Top.queue \in Priorities
        /\ stack = <<Top>> \o Tail(stack)
    BY <2>1, <2>2, StackIs, FrameKinds
  <2>4. p = Top.queue
    <3>1. \A u \in Priorities : u # Top.queue => pending'[u] = pending[u]
      BY <2>1, <2>2, <2>3, Dequeued DEF Dequeue
    <3>2. Len(pending[p]) \in Nat
      BY <2>2, LenProperties DEF Queues
    <3>3. QED
      BY <3>1, <3>2
  <2>5. q \notin Short
    BY <2>1, <2>3, <2>4, HigherPushed DEF HostInv, HigherServed
  <2>6. Cardinality(loading) \in Nat /\ MaxInFlight \in Nat
    BY HostAssumption, FS_Subset, FS_CardinalityType DEF HostAssumption, HostInv, TypeOK
  <2>7. QED
    BY <2>5, <2>6 DEF Short
<1>2. HostInv /\ [Next]_vars => [Order]_vars
  BY <1>1
<1>3. QED
  BY HostInvariant, <1>2, PTL DEF Spec, HigherFirst

=============================================================================
