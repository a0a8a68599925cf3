------------------------- MODULE Databases_proofs --------------------------
(***************************************************************************)
(* Theorems about the client-side databases, for every set of databases,   *)
(* transactions and kinds of statements, and every bound on them.          *)
(***************************************************************************)
EXTENDS Databases, FiniteSetTheorems, FunctionTheorems, SequenceTheorems, TLAPS

-----------------------------------------------------------------------------
(* Facts about the operators on sequences and sets of numbers that the     *)
(* model is built from.                                                    *)

(* What Range collects, by place.                                           *)
LEMMA InRange ==
  ASSUME NEW S, NEW s \in Seq(S), NEW v
  PROVE  v \in Range(s) <=> \E i \in 1..Len(s) : s[i] = v
  BY LenProperties DEF Range

(* An element put before a sequence.                                       *)
LEMMA PushProperties ==
  ASSUME NEW S, NEW s \in Seq(S), NEW e \in S
  PROVE  /\ <<e>> \o s \in Seq(S) /\ <<e>> \o s # <<>>
         /\ Head(<<e>> \o s) = e /\ Tail(<<e>> \o s) = s
<1>1. <<e>> \in Seq(S) /\ Len(<<e>>) = 1 /\ <<e>>[1] = e
  OBVIOUS
<1>2. /\ <<e>> \o s \in Seq(S) /\ Len(<<e>> \o s) = 1 + Len(s)
      /\ \A i \in 1..(1 + Len(s)) : (<<e>> \o s)[i] = IF i <= 1 THEN <<e>>[i] ELSE s[i - 1]
  BY <1>1, ConcatProperties
<1>3. Len(s) \in Nat /\ 1 \in 1..(1 + Len(s))
  BY LenProperties
<1>4. <<e>> \o s # <<>>
  BY <1>2, <1>3, EmptySeq
<1>5. (<<e>> \o s)[1] = e
  BY <1>1, <1>2, <1>3
<1> DEFINE q == <<e>> \o s
<1>6. Head(q) = q[1]
  <2> HIDE DEF q
  <2> QED OBVIOUS
<1>7. Tail(q) = s
  <2>1. q \in Seq(S) /\ q # <<>> /\ Len(q) = 1 + Len(s)
    BY <1>2, <1>4
  <2>2. /\ Tail(q) \in Seq(S) /\ Len(Tail(q)) = Len(q) - 1
        /\ \A i \in 1..Len(Tail(q)) : Tail(q)[i] = q[i + 1]
    <3> HIDE DEF q
    <3> QED BY <2>1, HeadTailProperties
  <2>3. Len(Tail(q)) = Len(s)
    BY <1>3, <2>1, <2>2
  <2>4. ASSUME NEW i \in 1..Len(s) PROVE q[i + 1] = s[i]
    <3>1. i + 1 \in 1..(1 + Len(s)) /\ ~(i + 1 <= 1) /\ (i + 1) - 1 = i
      BY <1>3
    <3>2. QED
      BY <1>2, <3>1
  <2>5. \A i \in 1..Len(Tail(q)) : Tail(q)[i] = s[i]
    BY <2>2, <2>3, <2>4
  <2>6. QED
    <3> HIDE DEF q
    <3> QED BY <2>2, <2>3, <2>5, SeqEqual
<1>8. QED
  BY <1>2, <1>4, <1>5, <1>6, <1>7

(* The elements of a sequence are the first and those after it.            *)
LEMMA HeadAndTail ==
  ASSUME NEW S, NEW s \in Seq(S), s # <<>>
  PROVE  /\ Head(s) \in S /\ Tail(s) \in Seq(S) /\ 1 \in 1..Len(s) /\ s[1] = Head(s)
         /\ \A u : u \in Range(s) <=> u = Head(s) \/ u \in Range(Tail(s))
         /\ \A i \in 1..Len(Tail(s)) : i + 1 \in 1..Len(s) /\ Tail(s)[i] = s[i + 1]
<1>1. /\ Head(s) \in S /\ Tail(s) \in Seq(S) /\ Len(Tail(s)) = Len(s) - 1
      /\ \A i \in 1..Len(Tail(s)) : Tail(s)[i] = s[i + 1]
  BY HeadTailProperties
<1>2. Len(s) \in Nat \ {0}
  BY EmptySeq
<1>3. 1 \in 1..Len(s) /\ s[1] = Head(s)
  BY <1>2
<1>4. \A i \in 1..Len(Tail(s)) : i + 1 \in 1..Len(s)
  BY <1>1, <1>2
<1>5. \A u : u \in Range(s) <=> \E i \in 1..Len(s) : s[i] = u
  BY InRange
<1>6. \A u : u \in Range(Tail(s)) <=> \E i \in 1..Len(Tail(s)) : Tail(s)[i] = u
  BY <1>1, InRange
<1>7. ASSUME NEW u, u \in Range(s), u # Head(s) PROVE u \in Range(Tail(s))
  <2>1. PICK i \in 1..Len(s) : s[i] = u /\ i # 1
    BY <1>3, <1>5, <1>7
  <2>2. i - 1 \in 1..Len(Tail(s)) /\ (i - 1) + 1 = i
    BY <1>1, <1>2, <2>1
  <2>3. Tail(s)[i - 1] = u
    BY <1>1, <2>1, <2>2
  <2>4. QED
    BY <1>6, <2>2, <2>3
<1>8. ASSUME NEW u, u \in Range(Tail(s)) PROVE u \in Range(s)
  <2>1. PICK i \in 1..Len(Tail(s)) : Tail(s)[i] = u
    BY <1>6, <1>8
  <2>2. s[i + 1] = u /\ i + 1 \in 1..Len(s)
    BY <1>1, <1>4, <2>1
  <2>3. QED
    BY <1>5, <2>2
<1>9. Head(s) \in Range(s)
  BY <1>3, <1>5
<1>10. QED
  BY <1>1, <1>3, <1>4, <1>7, <1>8, <1>9

(* Places taken in order: the n-th of a set of places is the one with n of *)
(* them up to it.                                                          *)
LEMMA PlacesInOrder ==
  ASSUME NEW m \in Nat, NEW I \in SUBSET (1..m)
  PROVE  /\ IsFiniteSet(I) /\ Cardinality(I) \in Nat
         /\ \A i \in I : Cardinality({k \in I : k <= i}) \in 1..Cardinality(I)
         /\ \A i, j \in I : i < j =>
              Cardinality({k \in I : k <= i}) < Cardinality({k \in I : k <= j})
         /\ \A n \in 1..Cardinality(I) : \E i \in I : Cardinality({k \in I : k <= i}) = n
<1> DEFINE R(i) == {k \in I : k <= i}
<1>1. IsFiniteSet(I) /\ Cardinality(I) \in Nat
  <2>1. IsFiniteSet(1..m)
    BY FS_Interval
  <2>2. QED
    BY <2>1, FS_Subset, FS_CardinalityType
<1>2. \A i \in I : i \in Int
  OBVIOUS
<1>3. ASSUME NEW i \in I PROVE IsFiniteSet(R(i)) /\ Cardinality(R(i)) \in 1..Cardinality(I)
  <2>1. R(i) \in SUBSET I /\ i \in R(i)
    BY <1>2
  <2>2. IsFiniteSet(R(i)) /\ Cardinality(R(i)) \in Nat /\ Cardinality(R(i)) <= Cardinality(I)
    BY <1>1, <2>1, FS_Subset, FS_CardinalityType
  <2>3. Cardinality(R(i)) # 0
    BY <2>1, <2>2, FS_EmptySet
  <2> HIDE DEF R
  <2>4. QED
    BY <1>1, <2>2, <2>3
<1>4. ASSUME NEW i \in I, NEW j \in I, i < j PROVE Cardinality(R(i)) < Cardinality(R(j))
  <2>1. R(i) \in SUBSET R(j) /\ j \in R(j) /\ j \notin R(i)
    <3>1. i \in Int /\ j \in Int /\ ~(j <= i) /\ j <= j
      BY <1>2, <1>4
    <3>2. \A k \in I : k <= i => k <= j
      BY <1>2, <1>4, <3>1
    <3>3. QED
      BY <3>1, <3>2
  <2>2. IsFiniteSet(R(j)) /\ Cardinality(R(i)) \in Nat /\ Cardinality(R(j)) \in Nat
    BY <1>3
  <2> HIDE DEF R
  <2>3. Cardinality(R(i)) <= Cardinality(R(j)) /\ Cardinality(R(i)) # Cardinality(R(j))
    BY <2>1, <2>2, FS_Subset
  <2>4. QED
    BY <2>2, <2>3
<1>5. ASSUME NEW n \in 1..Cardinality(I) PROVE \E i \in I : Cardinality(R(i)) = n
  <2> DEFINE rank == [i \in I |-> Cardinality(R(i))]
             N == 1..Cardinality(I)
  <2>1. rank \in [I -> N]
    BY <1>3
  <2>2. \A i, j \in I : rank[i] = rank[j] => i = j
    <3>1. SUFFICES ASSUME NEW i \in I, NEW j \in I, i # j PROVE rank[i] # rank[j]
      OBVIOUS
    <3>2. i < j \/ j < i
      BY <1>2, <3>1
    <3>3. Cardinality(R(i)) \in Nat /\ Cardinality(R(j)) \in Nat
      BY <1>3
    <3>4. rank[i] = Cardinality(R(i)) /\ rank[j] = Cardinality(R(j))
      OBVIOUS
    <3> HIDE DEF R, rank
    <3>5. QED
      BY <1>4, <3>2, <3>3, <3>4
  <2>3. rank \in Injection(I, N)
    <3> HIDE DEF rank, N
    <3>1. QED
      BY <2>1, <2>2, Fun_IsInj
  <2>4. IsFiniteSet(N) /\ Cardinality(N) = Cardinality(I)
    <3>1. 1 \in Int /\ Cardinality(I) \in Int /\ (1 > Cardinality(I) => Cardinality(I) = 0)
      BY <1>1
    <3>2. QED
      BY <1>1, <3>1, FS_Interval
  <2>5. rank \in Surjection(I, N)
    <3> HIDE DEF rank, N
    <3>1. QED
      BY <2>3, <2>4, FS_Injection
  <2>6. \E i \in I : rank[i] = n
    BY <2>5 DEF Surjection
  <2>7. QED
    BY <2>6
<1>6. QED
  BY <1>1, <1>3, <1>4, <1>5

(* AtPlaces(s, I) takes the elements of s at the places in I, in order:    *)
(* `place' says where each one was.                                        *)
LEMMA AtPlacesProperties ==
  ASSUME NEW S, NEW s \in Seq(S), NEW I \in SUBSET (1..Len(s))
  PROVE  /\ AtPlaces(s, I) \in Seq(S)
         /\ Len(AtPlaces(s, I)) = Cardinality(I)
         /\ \E place \in [1..Cardinality(I) -> I] :
              /\ \A n \in 1..Cardinality(I) : AtPlaces(s, I)[n] = s[place[n]]
              /\ \A n, m \in 1..Cardinality(I) : n < m => place[n] < place[m]
              /\ \A i \in I : \E n \in 1..Cardinality(I) : place[n] = i
<1> DEFINE C == Cardinality(I)
           rank(i) == Cardinality({k \in I : k <= i})
           place == [n \in 1..C |-> CHOOSE i \in I : rank(i) = n]
<1>1. Len(s) \in Nat /\ \A i \in 1..Len(s) : s[i] \in S
  BY LenProperties, ElementOfSeq
<1>2. /\ C \in Nat
      /\ \A i \in I : rank(i) \in 1..C
      /\ \A i, j \in I : i < j => rank(i) < rank(j)
      /\ \A n \in 1..C : \E i \in I : rank(i) = n
  BY <1>1, PlacesInOrder
<1> HIDE DEF rank, C
<1>3. \A n \in 1..C : place[n] \in I /\ rank(place[n]) = n
  BY <1>2
<1>4. place \in [1..C -> I]
  BY <1>3
<1>5. \A i, j \in I : rank(i) = rank(j) => i = j
  BY <1>2
<1>6. ASSUME NEW n \in 1..C, NEW m \in 1..C, n < m PROVE place[n] < place[m]
  <2>1. PICK a \in I, b \in I : a = place[n] /\ b = place[m] /\ rank(a) = n /\ rank(b) = m
    BY <1>3
  <2>2. a \in Int /\ b \in Int /\ n \in Int /\ m \in Int
    BY <1>1, <1>2
  <2>3. b < a => m < n
    BY <1>2, <2>1
  <2>4. a # b
    BY <1>6, <2>1, <2>2
  <2>5. a < b
    BY <1>6, <2>2, <2>3, <2>4
  <2>6. QED
    BY <2>1, <2>5
<1>7. ASSUME NEW i \in I PROVE \E n \in 1..C : place[n] = i
  <2>1. rank(i) \in 1..C
    BY <1>2
  <2>2. place[rank(i)] = i
    BY <1>3, <1>5, <2>1
  <2>3. QED
    BY <2>1, <2>2
<1>8. AtPlaces(s, I) = [n \in 1..C |-> s[place[n]]]
  BY DEF AtPlaces, C, rank
<1> HIDE DEF place
<1>9. \A n \in 1..C : s[place[n]] \in S
  BY <1>1, <1>4
<1>10. AtPlaces(s, I) \in Seq(S) /\ Len(AtPlaces(s, I)) = C
  BY <1>2, <1>8, <1>9
<1>11. QED
  BY <1>4, <1>6, <1>7, <1>8, <1>10 DEF C

-----------------------------------------------------------------------------
(* Records.                                                                *)

Steps == ThreadSteps \cup MainSteps

LEMMA NoneIsNone ==
  None \notin Steps /\ None \notin Transactions /\ None \notin Databases /\ None \notin Statement
BY DatabasesAssumption DEF DatabasesAssumption, Steps, ThreadSteps, MainSteps, Statement

(* What most steps leave alone in a transaction.                           *)
Alike(r, s) == s.db = r.db /\ s.listens = r.listens

LEMMA NextSet ==
  ASSUME NEW r \in Transaction, NEW s \in Steps \cup {None}
  PROVE  LET n == [r EXCEPT !.next = s] IN
         /\ n \in Transaction /\ Alike(r, n) /\ n.next = s
         /\ n.todo = r.todo /\ n.cur = r.cur /\ n.sqlite = r.sqlite /\ n.retry = r.retry
BY DEF Transaction, Alike, Steps

LEMMA SqliteSet ==
  ASSUME NEW r \in Transaction, NEW s \in {"none", "on", "off"}
  PROVE  LET n == [r EXCEPT !.sqlite = s] IN
         /\ n \in Transaction /\ Alike(r, n) /\ n.sqlite = s
         /\ n.todo = r.todo /\ n.cur = r.cur /\ n.next = r.next /\ n.retry = r.retry
         /\ n.onSuccess = r.onSuccess /\ n.commits = r.commits
BY DEF Transaction, Alike

LEMMA Cleaned ==
  ASSUME NEW r \in Transaction
  PROVE  LET n == [r EXCEPT !.sqlite = "none", !.todo = <<>>, !.next = None, !.onError = FALSE] IN
         /\ n \in Transaction /\ Alike(r, n) /\ n.sqlite = "none"
         /\ n.todo = <<>> /\ n.cur = r.cur /\ n.next = None /\ n.retry = r.retry
<1>1. <<>> \in Seq(Statement)
  BY EmptySeq
<1>2. QED
  BY <1>1 DEF Transaction, Alike

LEMMA Closed ==
  ASSUME NEW r \in Transaction
  PROVE  /\ closedChecked(r) \in Transaction /\ Alike(r, closedChecked(r))
         /\ closedChecked(r).cur = r.cur /\ closedChecked(r).retry = r.retry
         /\ ~db[r.db].stopped => closedChecked(r) = r
         /\ db[r.db].stopped => /\ closedChecked(r).next = None /\ closedChecked(r).todo = <<>>
                                /\ closedChecked(r).sqlite = "none"
<1>1. <<>> \in Seq(Statement)
  BY EmptySeq
<1>2. CASE db[r.db].stopped
  <2>1. closedChecked(r) = [r EXCEPT !.todo = <<>>, !.next = None, !.sqlite = "none"]
    BY <1>2 DEF closedChecked
  <2>2. QED
    BY <1>1, <1>2, <2>1 DEF Transaction, Alike
<1>3. CASE ~db[r.db].stopped
  BY <1>3 DEF closedChecked, Alike
<1>4. QED
  BY <1>2, <1>3

LEMMA FlagsSet ==
  ASSUME NEW r \in Transaction, NEW b \in BOOLEAN, NEW o \in {"error", "success"}
  PROVE  /\ LET n == [r EXCEPT !.commits = b] IN
              /\ n \in Transaction /\ Alike(r, n) /\ n.next = r.next
              /\ n.todo = r.todo /\ n.cur = r.cur /\ n.sqlite = r.sqlite /\ n.retry = r.retry
         /\ LET n == [r EXCEPT !.onError = FALSE] IN
              /\ n \in Transaction /\ Alike(r, n) /\ n.next = r.next
              /\ n.todo = r.todo /\ n.cur = r.cur /\ n.sqlite = r.sqlite /\ n.retry = r.retry
         /\ LET n == [r EXCEPT !.onSuccess = FALSE] IN
              /\ n \in Transaction /\ Alike(r, n) /\ n.next = r.next
              /\ n.todo = r.todo /\ n.cur = r.cur /\ n.sqlite = r.sqlite /\ n.retry = r.retry
         /\ LET n == [r EXCEPT !.told = @ \cup {o}] IN
              /\ n \in Transaction /\ Alike(r, n) /\ n.next = r.next
              /\ n.todo = r.todo /\ n.cur = r.cur /\ n.sqlite = r.sqlite /\ n.retry = r.retry
<1>1. LET n == [r EXCEPT !.commits = b] IN
      /\ n \in Transaction /\ Alike(r, n) /\ n.next = r.next
      /\ n.todo = r.todo /\ n.cur = r.cur /\ n.sqlite = r.sqlite /\ n.retry = r.retry
  BY DEF Transaction, Alike
<1>2. LET n == [r EXCEPT !.onError = FALSE] IN
      /\ n \in Transaction /\ Alike(r, n) /\ n.next = r.next
      /\ n.todo = r.todo /\ n.cur = r.cur /\ n.sqlite = r.sqlite /\ n.retry = r.retry
  BY DEF Transaction, Alike
<1>3. LET n == [r EXCEPT !.onSuccess = FALSE] IN
      /\ n \in Transaction /\ Alike(r, n) /\ n.next = r.next
      /\ n.todo = r.todo /\ n.cur = r.cur /\ n.sqlite = r.sqlite /\ n.retry = r.retry
  BY DEF Transaction, Alike
<1>4. LET n == [r EXCEPT !.told = @ \cup {o}] IN
      /\ n \in Transaction /\ Alike(r, n) /\ n.next = r.next
      /\ n.todo = r.todo /\ n.cur = r.cur /\ n.sqlite = r.sqlite /\ n.retry = r.retry
  BY DEF Transaction, Alike
<1>5. QED
  BY <1>1, <1>2, <1>3, <1>4

LEMMA Advances ==
  ASSUME NEW r \in Transaction, r.retry => r.cur # None
  PROVE  LET n == Advanced(r) IN
         /\ n \in Transaction /\ Alike(r, n) /\ n.next = r.next /\ n.sqlite = r.sqlite
         /\ n.retry = FALSE
         /\ n.cur = None => n.todo = <<>>
<1>1. CASE r.retry
  <2>1. Advanced(r) = [r EXCEPT !.retry = FALSE]
    BY <1>1 DEF Advanced
  <2>2. QED
    BY <1>1, <2>1 DEF Transaction, Alike
<1>2. CASE ~r.retry /\ r.todo = <<>>
  <2>1. Advanced(r) = [r EXCEPT !.cur = None]
    BY <1>2 DEF Advanced, getNextStatement
  <2>2. QED
    BY <1>2, <2>1 DEF Transaction, Alike
<1>3. CASE ~r.retry /\ r.todo # <<>>
  <2>1. Advanced(r) = [r EXCEPT !.cur = Head(r.todo), !.todo = Tail(r.todo)]
    BY <1>3 DEF Advanced, getNextStatement
  <2>2. r.todo \in Seq(Statement)
    BY DEF Transaction
  <2>3. PICK c \in Statement, t \in Seq(Statement) : c = Head(r.todo) /\ t = Tail(r.todo)
    BY <1>3, <2>2, HeadTailProperties
  <2>4. Advanced(r) = [r EXCEPT !.cur = c, !.todo = t]
    BY <2>1, <2>3
  <2>5. c # None
    BY NoneIsNone
  <2>6. PICK n : n = [r EXCEPT !.cur = c, !.todo = t]
    OBVIOUS
  <2>7. n \in Transaction
    BY <2>3, <2>6 DEF Transaction
  <2>8. /\ Alike(r, n) /\ n.next = r.next /\ n.sqlite = r.sqlite
        /\ n.retry = r.retry /\ n.cur = c
    BY <2>6 DEF Transaction, Alike
  <2>9. r.retry = FALSE
    BY <1>3 DEF Transaction
  <2>10. QED
    BY <2>4, <2>5, <2>6, <2>7, <2>8, <2>9
<1>4. QED
  BY <1>1, <1>2, <1>3

LEMMA ErrSet ==
  ASSUME NEW r \in Transaction, r.cur # None, NEW e \in {"no", "fault", "quota"}
  PROVE  LET n == [r EXCEPT !.cur.err = e] IN
         /\ n \in Transaction /\ Alike(r, n) /\ n.next = r.next
         /\ n.todo = r.todo /\ n.sqlite = r.sqlite /\ n.retry = r.retry
         /\ n.cur \in Statement /\ n.cur # None
         /\ n.cur.err = e /\ n.cur.cb = r.cur.cb /\ n.cur.ecb = r.cur.ecb
<1>1. r.cur \in Statement
  BY DEF Transaction
<1>2. PICK c : c = [r.cur EXCEPT !.err = e]
  OBVIOUS
<1>3. c \in Statement /\ c.err = e /\ c.cb = r.cur.cb /\ c.ecb = r.cur.ecb
  BY <1>1, <1>2 DEF Statement
<1>4. c # None
  BY <1>3, NoneIsNone
<1>5. [r EXCEPT !.cur.err = e] = [r EXCEPT !.cur = c]
  BY <1>2 DEF Transaction
<1>6. QED
  BY <1>3, <1>4, <1>5 DEF Transaction, Alike

-----------------------------------------------------------------------------
(* Queues.  Every step takes elements out of a queue or puts one in, and   *)
(* the invariants below only say what is in a queue, and how often.        *)

(* b has elements of a, each of its own place.                             *)
Part(b, a) ==
  \E p \in [1..Len(b) -> 1..Len(a)] :
    /\ \A i, j \in 1..Len(b) : p[i] = p[j] => i = j
    /\ \A i \in 1..Len(b) : b[i] = a[p[i]]

(* The same but for one element, e, at the place n.                        *)
More(b, a, e) ==
  \E n \in 1..Len(b) :
    /\ b[n] = e
    /\ \E p \in [(1..Len(b)) \ {n} -> 1..Len(a)] :
         /\ \A i, j \in (1..Len(b)) \ {n} : p[i] = p[j] => i = j
         /\ \A i \in (1..Len(b)) \ {n} : b[i] = a[p[i]]

LEMMA SamePart ==
  ASSUME NEW S, NEW a \in Seq(S)
  PROVE  Part(a, a)
<1>1. PICK p : p = [i \in 1..Len(a) |-> i]
  OBVIOUS
<1>2. p \in [1..Len(a) -> 1..Len(a)] /\ \A i \in 1..Len(a) : p[i] = i
  BY <1>1
<1>3. QED
  BY <1>2 DEF Part

LEMMA TailPart ==
  ASSUME NEW S, NEW a \in Seq(S), a # <<>>
  PROVE  /\ Tail(a) \in Seq(S) /\ Head(a) \in S /\ Part(Tail(a), a)
         /\ 1 \in 1..Len(a) /\ a[1] = Head(a)
         /\ \E p \in [1..Len(Tail(a)) -> 1..Len(a)] :
              /\ \A i, j \in 1..Len(Tail(a)) : p[i] = p[j] => i = j
              /\ \A i \in 1..Len(Tail(a)) : Tail(a)[i] = a[p[i]] /\ p[i] # 1
<1>1. /\ Head(a) \in S /\ Tail(a) \in Seq(S) /\ 1 \in 1..Len(a) /\ a[1] = Head(a)
      /\ \A i \in 1..Len(Tail(a)) : i + 1 \in 1..Len(a) /\ Tail(a)[i] = a[i + 1]
  BY HeadAndTail
<1>2. PICK p : p = [i \in 1..Len(Tail(a)) |-> i + 1]
  OBVIOUS
<1>3. p \in [1..Len(Tail(a)) -> 1..Len(a)] /\ \A i \in 1..Len(Tail(a)) : p[i] = i + 1
  BY <1>1, <1>2
<1>4. Len(Tail(a)) \in Nat
  BY <1>1, LenProperties
<1>5. \A i \in 1..Len(Tail(a)) : i \in Nat /\ i + 1 # 1
  BY <1>4
<1>6. \A i, j \in 1..Len(Tail(a)) : p[i] = p[j] => i = j
  BY <1>3, <1>4
<1>7. \A i \in 1..Len(Tail(a)) : Tail(a)[i] = a[p[i]] /\ p[i] # 1
  BY <1>1, <1>3, <1>5
<1>8. QED
  BY <1>1, <1>3, <1>6, <1>7 DEF Part

LEMMA PlacesPart ==
  ASSUME NEW S, NEW a \in Seq(S), NEW I \in SUBSET (1..Len(a))
  PROVE  AtPlaces(a, I) \in Seq(S) /\ Part(AtPlaces(a, I), a)
<1>1. PICK b, C : b = AtPlaces(a, I) /\ C = Cardinality(I)
  OBVIOUS
<1>2. /\ b \in Seq(S) /\ Len(b) = Cardinality(I)
      /\ \E place \in [1..Cardinality(I) -> I] :
           /\ \A n \in 1..Cardinality(I) : b[n] = a[place[n]]
           /\ \A n, m \in 1..Cardinality(I) : n < m => place[n] < place[m]
           /\ \A i \in I : \E n \in 1..Cardinality(I) : place[n] = i
  BY <1>1, AtPlacesProperties
<1>3. PICK p \in [1..C -> I] :
              /\ \A n \in 1..C : b[n] = a[p[n]]
              /\ \A n, m \in 1..C : n < m => p[n] < p[m]
  BY <1>1, <1>2
<1>4. Len(b) = C /\ C \in Nat
  BY <1>1, <1>2, LenProperties
<1>5. \A i, j \in 1..C : p[i] = p[j] => i = j
  <2> SUFFICES ASSUME NEW i \in 1..C, NEW j \in 1..C, p[i] = p[j] PROVE i = j
    OBVIOUS
  <2>1. i \in Nat /\ j \in Nat /\ p[i] \in I /\ p[j] \in I
    BY <1>3, <1>4
  <2>2. ~(p[i] < p[j]) /\ ~(p[j] < p[i])
    <3>1. Len(a) \in Nat
      BY LenProperties
    <3>2. I \subseteq Nat
      BY <3>1
    <3>3. p[i] \in Nat /\ p[j] \in Nat
      BY <2>1, <3>2
    <3>4. QED
      BY <2>1, <3>3
  <2>3. ~(i < j) /\ ~(j < i)
    BY <1>3, <2>2
  <2>4. QED
    BY <2>1, <2>3
<1>6. p \in [1..Len(b) -> 1..Len(a)]
  BY <1>3, <1>4
<1>7. Part(b, a)
  BY <1>3, <1>4, <1>5, <1>6 DEF Part
<1>8. QED
  BY <1>1, <1>2, <1>7

LEMMA AppendMore ==
  ASSUME NEW S, NEW a \in Seq(S), NEW e \in S
  PROVE  Append(a, e) \in Seq(S) /\ More(Append(a, e), a, e)
<1>1. PICK b : b = Append(a, e)
  OBVIOUS
<1>2. /\ b \in Seq(S) /\ Len(b) = Len(a) + 1 /\ b[Len(a) + 1] = e
      /\ \A i \in 1..Len(a) : b[i] = a[i]
  BY <1>1, AppendProperties
<1>3. Len(a) \in Nat
  BY LenProperties
<1>4. (1..Len(b)) \ {Len(a) + 1} = 1..Len(a) /\ Len(a) + 1 \in 1..Len(b)
  BY <1>2, <1>3
<1>5. PICK p : p = [i \in 1..Len(a) |-> i]
  OBVIOUS
<1>6. p \in [1..Len(a) -> 1..Len(a)] /\ \A i \in 1..Len(a) : p[i] = i
  BY <1>5
<1>7. PICK n : n = Len(a) + 1
  OBVIOUS
<1>8. /\ n \in 1..Len(b) /\ b[n] = e
      /\ p \in [(1..Len(b)) \ {n} -> 1..Len(a)]
      /\ \A i, j \in (1..Len(b)) \ {n} : p[i] = p[j] => i = j
      /\ \A i \in (1..Len(b)) \ {n} : b[i] = a[p[i]]
  BY <1>2, <1>4, <1>6, <1>7
<1>9. More(b, a, e)
  BY <1>8 DEF More
<1>10. QED
  BY <1>1, <1>2, <1>9

LEMMA PushMore ==
  ASSUME NEW S, NEW a \in Seq(S), NEW e \in S
  PROVE  <<e>> \o a \in Seq(S) /\ More(<<e>> \o a, a, e)
<1>1. PICK b : b = <<e>> \o a
  OBVIOUS
<1>2. b \in Seq(S) /\ b # <<>> /\ Head(b) = e /\ Tail(b) = a
  BY <1>1, PushProperties
<1>3. /\ 1 \in 1..Len(b) /\ b[1] = Head(b)
      /\ \A i \in 1..Len(Tail(b)) : i + 1 \in 1..Len(b) /\ Tail(b)[i] = b[i + 1]
  BY <1>2, HeadAndTail
<1>4. Len(a) = Len(b) - 1
  BY <1>2, HeadTailProperties
<1>5. Len(a) \in Nat /\ Len(b) \in Nat
  BY <1>2, LenProperties
<1>6. PICK p : p = [i \in (1..Len(b)) \ {1} |-> i - 1]
  OBVIOUS
<1>7. \A i \in (1..Len(b)) \ {1} : i - 1 \in 1..Len(a) /\ (i - 1) + 1 = i
  BY <1>4, <1>5
<1>8. p \in [(1..Len(b)) \ {1} -> 1..Len(a)]
  BY <1>6, <1>7
<1>9. \A i, j \in (1..Len(b)) \ {1} : p[i] = p[j] => i = j
  BY <1>5, <1>6
<1>10. \A i \in (1..Len(b)) \ {1} : b[i] = a[p[i]]
  BY <1>2, <1>3, <1>6, <1>7
<1>11. More(b, a, e)
  BY <1>2, <1>3, <1>8, <1>9, <1>10 DEF More
<1>12. QED
  BY <1>1, <1>2, <1>11

(* What is in a queue of transactions.                                     *)
Once(q) == \A i, j \in 1..Len(q) : q[i] = q[j] => i = j

LEMMA QueueGrows ==
  ASSUME NEW S, NEW a \in Seq(S), NEW e \in S
  PROVE  /\ Append(a, e) \in Seq(S)
         /\ \A u : u \in Range(Append(a, e)) <=> u \in Range(a) \/ u = e
         /\ Once(a) /\ e \notin Range(a) => Once(Append(a, e))
<1>1. PICK b : b = Append(a, e)
  OBVIOUS
<1>2. /\ b \in Seq(S) /\ Len(b) = Len(a) + 1 /\ b[Len(a) + 1] = e
      /\ \A i \in 1..Len(a) : b[i] = a[i]
  BY <1>1, AppendProperties
<1>3. Len(a) \in Nat
  BY LenProperties
<1>4. 1..Len(b) = (1..Len(a)) \cup {Len(a) + 1}
  BY <1>2, <1>3
<1>5. \A u : u \in Range(b) <=> \E i \in 1..Len(b) : b[i] = u
  BY <1>2, InRange
<1>6. \A u : u \in Range(a) <=> \E i \in 1..Len(a) : a[i] = u
  BY InRange
<1>7. \A u : u \in Range(b) <=> u \in Range(a) \/ u = e
  BY <1>2, <1>4, <1>5, <1>6
<1>8. ASSUME Once(a), e \notin Range(a) PROVE Once(b)
  BY <1>2, <1>4, <1>6, <1>8 DEF Once
<1>9. QED
  BY <1>1, <1>2, <1>7, <1>8

LEMMA QueueShrinks ==
  ASSUME NEW S, NEW a \in Seq(S), a # <<>>
  PROVE  /\ Tail(a) \in Seq(S) /\ Head(a) \in S /\ Head(a) \in Range(a)
         /\ \A u : u \in Range(Tail(a)) => u \in Range(a)
         /\ Once(a) => Once(Tail(a)) /\ Head(a) \notin Range(Tail(a))
<1>1. /\ Head(a) \in S /\ Tail(a) \in Seq(S) /\ 1 \in 1..Len(a) /\ a[1] = Head(a)
      /\ \A u : u \in Range(a) <=> u = Head(a) \/ u \in Range(Tail(a))
  BY HeadAndTail
<1>2. PICK b : b = Tail(a)
  OBVIOUS
<1>3. PICK p \in [1..Len(b) -> 1..Len(a)] :
              /\ \A i, j \in 1..Len(b) : p[i] = p[j] => i = j
              /\ \A i \in 1..Len(b) : b[i] = a[p[i]] /\ p[i] # 1
  BY <1>2, TailPart
<1>4. b \in Seq(S)
  BY <1>1, <1>2
<1>5. \A u : u \in Range(b) <=> \E i \in 1..Len(b) : b[i] = u
  BY <1>4, InRange
<1>6. ASSUME Once(a) PROVE Once(b) /\ a[1] \notin Range(b)
  <2>1. Once(b)
    BY <1>3, <1>6 DEF Once
  <2>2. \A i \in 1..Len(b) : b[i] # a[1]
    BY <1>1, <1>3, <1>6 DEF Once
  <2>3. QED
    BY <1>5, <2>1, <2>2
<1>7. QED
  BY <1>1, <1>2, <1>6

-----------------------------------------------------------------------------
(* What is in the queue of tasks.                                          *)
Of(q) == {q[i].x : i \in 1..Len(q)}

TaskKind(t) == t.kind = "transaction" <=> t.x \in Transactions
KindsIn(q) == \A i \in 1..Len(q) : TaskKind(q[i])
OneTaskEach(q) == \A i, j \in 1..Len(q) : q[i].x = q[j].x /\ q[i].x # None => i = j

Twice(s, t) == s.kind = "open" /\ t.kind = "open" /\ s.d = t.d
OneOpening(q) == \A i, j \in 1..Len(q) : Twice(q[i], q[j]) => i = j

(* A task that opens or closes a database finds it so.                     *)
Finds(t, b) ==
  /\ t.kind = "open" => b[t.d].sqlite = "opening"
  /\ t.kind = "close" => b[t.d].sqlite \in {"open", "begun", "closed"}
AllFind(q, b) == \A i \in 1..Len(q) : Finds(q[i], b)

LEMMA TasksShrink ==
  ASSUME NEW a, NEW b, Part(b, a)
  PROVE  /\ Of(b) \subseteq Of(a)
         /\ KindsIn(a) => KindsIn(b)
         /\ OneTaskEach(a) => OneTaskEach(b)
         /\ OneOpening(a) => OneOpening(b)
         /\ \A s : AllFind(a, s) => AllFind(b, s)
<1>1. PICK p \in [1..Len(b) -> 1..Len(a)] :
    /\ \A i, j \in 1..Len(b) : p[i] = p[j] => i = j
    /\ \A i \in 1..Len(b) : b[i] = a[p[i]]
  BY DEF Part
<1>2. Of(b) \subseteq Of(a)
  BY <1>1 DEF Of
<1>3. KindsIn(a) => KindsIn(b)
  BY <1>1 DEF KindsIn
<1>4. OneTaskEach(a) => OneTaskEach(b)
  BY <1>1 DEF OneTaskEach
<1>5. ASSUME OneOpening(a), NEW i \in 1..Len(b), NEW j \in 1..Len(b), Twice(b[i], b[j])
      PROVE  i = j
  <2>1. p[i] \in 1..Len(a) /\ p[j] \in 1..Len(a) /\ b[i] = a[p[i]] /\ b[j] = a[p[j]]
    BY <1>1
  <2>2. p[i] = p[j]
    BY <1>5, <2>1 DEF OneOpening
  <2>3. QED
    BY <1>1, <2>2
<1>6. \A s : AllFind(a, s) => AllFind(b, s)
  BY <1>1 DEF AllFind
<1>7. QED
  BY <1>2, <1>3, <1>4, <1>5, <1>6 DEF OneOpening

LEMMA TasksGrow ==
  ASSUME NEW a, NEW b, NEW e, More(b, a, e)
  PROVE  /\ \A u : u \in Of(b) => u \in Of(a) \/ u = e.x
         /\ KindsIn(a) /\ TaskKind(e) => KindsIn(b)
         /\ OneTaskEach(a) /\ (e.x = None \/ e.x \notin Of(a)) => OneTaskEach(b)
         /\ OneOpening(a) /\ (\A i \in 1..Len(a) : ~Twice(e, a[i])) => OneOpening(b)
         /\ \A s : AllFind(a, s) /\ Finds(e, s) => AllFind(b, s)
<1>1. PICK n \in 1..Len(b) :
    /\ b[n] = e
    /\ \E p \in [(1..Len(b)) \ {n} -> 1..Len(a)] :
         /\ \A i, j \in (1..Len(b)) \ {n} : p[i] = p[j] => i = j
         /\ \A i \in (1..Len(b)) \ {n} : b[i] = a[p[i]]
  BY DEF More
<1>2. PICK p \in [(1..Len(b)) \ {n} -> 1..Len(a)] :
         /\ \A i, j \in (1..Len(b)) \ {n} : p[i] = p[j] => i = j
         /\ \A i \in (1..Len(b)) \ {n} : b[i] = a[p[i]]
  BY <1>1
<1>3. \A i \in 1..Len(b) : i = n \/ (i \in (1..Len(b)) \ {n} /\ p[i] \in 1..Len(a) /\ b[i] = a[p[i]])
  BY <1>2
<1>4. \A u : u \in Of(b) => u \in Of(a) \/ u = e.x
  BY <1>1, <1>3 DEF Of
<1>5. KindsIn(a) /\ TaskKind(e) => KindsIn(b)
  BY <1>1, <1>3 DEF KindsIn
<1>6. OneTaskEach(a) /\ (e.x = None \/ e.x \notin Of(a)) => OneTaskEach(b)
  <2> SUFFICES ASSUME OneTaskEach(a), e.x = None \/ e.x \notin Of(a),
                      NEW i \in 1..Len(b), NEW j \in 1..Len(b), b[i].x = b[j].x, b[i].x # None
               PROVE  i = j
    BY DEF OneTaskEach
  <2>1. \A k \in 1..Len(a) : a[k].x \in Of(a)
    BY DEF Of
  <2>2. CASE i = n /\ j # n
    BY <1>1, <1>3, <2>1, <2>2
  <2>3. CASE i # n /\ j = n
    BY <1>1, <1>3, <2>1, <2>3
  <2>4. CASE i # n /\ j # n
    BY <1>2, <1>3, <2>4 DEF OneTaskEach
  <2>5. QED
    BY <2>2, <2>3, <2>4
<1>7. OneOpening(a) /\ (\A i \in 1..Len(a) : ~Twice(e, a[i])) => OneOpening(b)
  <2> SUFFICES ASSUME OneOpening(a), \A i \in 1..Len(a) : ~Twice(e, a[i]),
                      NEW i \in 1..Len(b), NEW j \in 1..Len(b), Twice(b[i], b[j])
               PROVE  i = j
    BY DEF OneOpening
  <2>1. Twice(b[j], b[i])
    BY DEF Twice
  <2>2. CASE i = n /\ j # n
    BY <1>1, <1>3, <2>2
  <2>3. CASE i # n /\ j = n
    BY <1>1, <1>3, <2>1, <2>3
  <2>4. CASE i # n /\ j # n
    BY <1>2, <1>3, <2>4 DEF OneOpening
  <2>5. QED
    BY <2>2, <2>3, <2>4
<1>8. \A s : AllFind(a, s) /\ Finds(e, s) => AllFind(b, s)
  BY <1>1, <1>3 DEF AllFind
<1>9. QED
  BY <1>4, <1>5, <1>6, <1>7, <1>8

-----------------------------------------------------------------------------
(* The inductive invariant.                                                *)

(* What kind of task a task is, and when a thread has something to do.     *)
WorkKnown ==
  /\ KindsIn(tasks)
  /\ thread.pc \in {"check", "step", "return"} => thread.task \in Task /\ TaskKind(thread.task)
  /\ thread.pc \in {"step", "return"} => thread.task.kind = "transaction"
  /\ main.at = "idle" <=> main.x = None

(* Where a transaction is.                                                 *)
Waiting == UNION {Range(waiting[d]) : d \in Databases}
Working == {x \in Transactions : Performing(x, "check") \/ Performing(x, "step")}
AtMain == {main.x} \cap Transactions

Apart(A, B, C, D, E) ==
  /\ A \cap B = {} /\ A \cap C = {} /\ A \cap D = {} /\ A \cap E = {}
  /\ B \cap C = {} /\ B \cap D = {} /\ B \cap E = {}
  /\ C \cap D = {} /\ C \cap E = {} /\ D \cap E = {}

(* A transaction is in one place, once.                                    *)
OnePlace ==
  /\ Apart(Of(tasks), Range(callbacks), Waiting, Working, AtMain)
  /\ OneTaskEach(tasks) /\ Once(callbacks)
  /\ \A d \in Databases : Once(waiting[d])

(* What a transaction always is, wherever it is: at its successful end it  *)
(* has nothing left to do and nothing open.                                *)
Sound(r) ==
  /\ r.next \in {"success", "cleanSuccess", None} => r.todo = <<>> /\ r.sqlite # "on"
  /\ r.next \in {"statement", "quota"} \/ r.retry => r.cur # None
  /\ r.listens # None => r.db \in Databases
  /\ r.listens = None => r.next = None

(* What it is in its place: t, in the queue of tasks, c, of callbacks, W,  *)
(* the queues of transactions it is in, k, at work, A, what the main       *)
(* thread does with it, e, its step returns.                               *)
Fit(r, t, c, W, k, A, e) ==
  /\ t \/ k => r.next \in ThreadSteps
  /\ c \/ A # {} => r.next \in MainSteps
  /\ \A a \in A : a = "error" \/ a = r.next
  /\ \A d \in W : r.next = "open" /\ r.db = d
  /\ t \/ c \/ W # {} \/ k \/ A # {} \/ e => r.listens # None
  /\ (c \/ "statement" \in A) /\ r.next = "statement" /\ r.cur.err # "no" => r.cur.ecb

WaitsIn(x) == {d \in Databases : x \in Range(waiting[d])}
Doing(x) == {a \in {main.at} : main.x = x}
Fits(x) ==
  Fit(tx[x], x \in Of(tasks), x \in Range(callbacks), WaitsIn(x), x \in Working, Doing(x),
      Performing(x, "return"))

AllSound == \A x \in Transactions : Sound(tx[x])
AllFit == \A x \in Transactions : Fits(x)

(* Who has SQLite's transaction of a database open.                        *)
On(d) == {x \in Transactions : tx[x].db = d /\ tx[x].sqlite = "on"}
Held(H, b) ==
  /\ H # {} => b.sqlite \in {"begun", "closed"}
  /\ \A x, y \in H : x = y
  /\ b.sqlite = "begun" /\ ~b.stopped /\ ~b.spoiled => H # {}
OpenKnown == \A d \in Databases : Held(On(d), db[d])

(* No database is opened twice, and none is closed before it is open.      *)
Openings ==
  /\ AllFind(tasks, db) /\ OneOpening(tasks)
  /\ thread.pc = "check" =>
       Finds(thread.task, db) /\ \A i \in 1..Len(tasks) : ~Twice(thread.task, tasks[i])

DatabasesInv ==
  TypeOK /\ WorkKnown /\ OnePlace /\ AllSound /\ AllFit /\ OpenKnown /\ Openings

-----------------------------------------------------------------------------
(* What a step of the database thread makes of a transaction.              *)

Turned(x, r0, b0, r, b) ==
  /\ b.stopped = b0.stopped
  /\ b.sqlite = b0.sqlite \/ {b0.sqlite, b.sqlite} \subseteq {"open", "begun"}
  /\ \A H \in SUBSET Transactions :
       (x \in H <=> r0.sqlite = "on") /\ Held(H, b0)
         => Held({u \in Transactions : IF u = x THEN r.sqlite = "on" ELSE u \in H}, b)

Becomes(x, r, b) ==
  /\ r \in Transaction /\ b \in Database /\ Alike(tx[x], r) /\ Sound(r)
  /\ tx' = [tx EXCEPT ![x] = r]
  /\ db' = [db EXCEPT ![tx[x].db] = b]
  /\ committed' \subseteq Transactions
  /\ UNCHANGED tasks
  /\ Turned(x, tx[x], db[tx[x].db], r, b)

Outcome(x, r, b) ==
  /\ Becomes(x, r, b)
  /\ \/ /\ callbacks' = Append(callbacks, x)
        /\ r.next \in MainSteps
        /\ r.next = "statement" /\ r.cur.err # "no" => r.cur.ecb
     \/ UNCHANGED callbacks /\ r.next = None

Known(x) == x \in Transactions /\ tx[x].listens # None /\ tx[x].db \in Databases

LEMMA SameTurned ==
  ASSUME NEW x, NEW r0, NEW b0, NEW r, r.sqlite = "on" <=> r0.sqlite = "on", x \in Transactions
  PROVE  Turned(x, r0, b0, r, b0)
<1> SUFFICES ASSUME NEW H \in SUBSET Transactions, x \in H <=> r0.sqlite = "on", Held(H, b0)
             PROVE  Held({u \in Transactions : IF u = x THEN r.sqlite = "on" ELSE u \in H}, b0)
  BY DEF Turned
<1>1. {u \in Transactions : IF u = x THEN r.sqlite = "on" ELSE u \in H} = H
  OBVIOUS
<1>2. QED
  BY <1>1

(* The end of x's own hold on its database.                                *)
LEMMA LeavesTurned ==
  ASSUME NEW x \in Transactions, NEW r0, NEW b0 \in Database, NEW r, NEW b \in Database,
         r0.sqlite = "on", r.sqlite # "on",
         b.stopped = b0.stopped, b0.spoiled => b.spoiled,
         b.sqlite = b0.sqlite \/ {b0.sqlite, b.sqlite} \subseteq {"open", "begun"},
         b.sqlite = "begun" => b.spoiled
  PROVE  Turned(x, r0, b0, r, b)
<1> SUFFICES ASSUME NEW H \in SUBSET Transactions, x \in H <=> r0.sqlite = "on", Held(H, b0)
             PROVE  Held({u \in Transactions : IF u = x THEN r.sqlite = "on" ELSE u \in H}, b)
  BY DEF Turned
<1>1. x \in H /\ \A u \in H : u = x
  BY DEF Held
<1>2. {u \in Transactions : IF u = x THEN r.sqlite = "on" ELSE u \in H} = {}
  BY <1>1
<1>3. Held({}, b)
  BY DEF Held
<1>4. QED
  BY <1>2, <1>3

(* Nobody holds a database that is not in a transaction of SQLite.         *)
LEMMA BeginsTurned ==
  ASSUME NEW x \in Transactions, NEW r0, NEW b0 \in Database, NEW r,
         b0.sqlite = "open", r.sqlite = "on"
  PROVE  Turned(x, r0, b0, r, [b0 EXCEPT !.sqlite = "begun"])
<1>1. PICK b : b = [b0 EXCEPT !.sqlite = "begun"]
  OBVIOUS
<1>2. b.stopped = b0.stopped /\ b.sqlite = "begun" /\ b.spoiled = b0.spoiled
  BY <1>1 DEF Database
<1>3. ASSUME NEW H \in SUBSET Transactions, x \in H <=> r0.sqlite = "on", Held(H, b0)
      PROVE  Held({u \in Transactions : IF u = x THEN r.sqlite = "on" ELSE u \in H}, b)
  <2>1. H = {}
    BY <1>3 DEF Held
  <2>2. {u \in Transactions : IF u = x THEN r.sqlite = "on" ELSE u \in H} = {x}
    BY <2>1
  <2>3. Held({x}, b)
    BY <1>2 DEF Held
  <2>4. QED
    BY <2>2, <2>3
<1>4. QED
  BY <1>1, <1>2, <1>3 DEF Turned

(* The outcomes of a COMMIT.                                               *)
LEMMA Commits ==
  ASSUME TypeOK, NEW d \in Databases, NEW r \in Transaction, NEW o \in commit(d, r)
  PROVE  /\ o.b \in Database /\ o.b.stopped = db[d].stopped
         /\ db[d].spoiled => o.b.spoiled
         /\ o.b.sqlite = db[d].sqlite \/ {db[d].sqlite, o.b.sqlite} \subseteq {"open", "begun"}
         /\ \/ r.sqlite # "on" /\ o.r = r /\ o.b = db[d]
            \/ /\ r.sqlite = "on" /\ o.r = [r EXCEPT !.sqlite = "off"]
               /\ o.b.sqlite = "begun" => o.b.spoiled
         /\ o.r.sqlite # "on"
<1>1. db[d] \in Database
  BY DEF TypeOK
<1>2. CASE r.sqlite # "on"
  <2>1. o = [r |-> r, b |-> db[d], ok |-> FALSE]
    BY <1>2 DEF commit
  <2>2. QED
    BY <1>1, <1>2, <2>1
<1>3. PICK off : off = [r EXCEPT !.sqlite = "off"]
  OBVIOUS
<1>4. off.sqlite # "on"
  BY <1>3 DEF Transaction
<1>5. CASE r.sqlite = "on" /\ db[d].sqlite # "begun"
  <2>1. o = [r |-> off, b |-> db[d], ok |-> FALSE]
    BY <1>3, <1>5 DEF commit
  <2>2. QED
    BY <1>1, <1>3, <1>4, <1>5, <2>1
<1>6. CASE r.sqlite = "on" /\ db[d].sqlite = "begun"
  <2>1. \/ o = [r |-> off, b |-> [db[d] EXCEPT !.sqlite = "open"], ok |-> TRUE]
        \/ \E s \in {"open", "begun"} :
             o = [r |-> off, b |-> [db[d] EXCEPT !.sqlite = s, !.spoiled = TRUE], ok |-> FALSE]
    BY <1>3, <1>6 DEF commit
  <2>2. CASE o = [r |-> off, b |-> [db[d] EXCEPT !.sqlite = "open"], ok |-> TRUE]
    <3>1. /\ o.b \in Database /\ o.b.stopped = db[d].stopped /\ o.b.spoiled = db[d].spoiled
          /\ o.b.sqlite = "open"
      BY <1>1, <2>2 DEF Database
    <3>2. QED
      BY <1>3, <1>4, <1>6, <2>2, <3>1
  <2>3. ASSUME NEW s \in {"open", "begun"},
               o = [r |-> off, b |-> [db[d] EXCEPT !.sqlite = s, !.spoiled = TRUE], ok |-> FALSE]
        PROVE  /\ o.b \in Database /\ o.b.stopped = db[d].stopped /\ o.b.spoiled
               /\ o.b.sqlite = s /\ o.r = off
    BY <1>1, <2>3 DEF Database
  <2>4. CASE \E s \in {"open", "begun"} :
             o = [r |-> off, b |-> [db[d] EXCEPT !.sqlite = s, !.spoiled = TRUE], ok |-> FALSE]
    <3>1. /\ o.b \in Database /\ o.b.stopped = db[d].stopped /\ o.b.spoiled
          /\ o.b.sqlite \in {"open", "begun"} /\ o.r = off
      BY <2>3, <2>4
    <3>2. QED
      BY <1>3, <1>4, <1>6, <3>1
  <2>5. QED
    BY <2>1, <2>2, <2>4
<1>7. QED
  BY <1>2, <1>5, <1>6

(* scheduleTransactionCallback at the end of a step.                       *)
LEMMA ToMainOutcome ==
  ASSUME TypeOK, NEW x, Known(x), NEW r \in Transaction, Alike(tx[x], r),
         r.sqlite = "on" <=> tx[x].sqlite = "on", r.retry => r.cur # None,
         NEW s \in MainSteps \ {"success"}, s \in {"statement", "quota"} => r.cur # None,
         s = "statement" /\ r.cur.err # "no" => r.cur.ecb,
         ToMain(x, r, s), db' = db, committed' = committed
  PROVE  \E n, b : Outcome(x, n, b)
<1>1. PICK n : n = [r EXCEPT !.next = s]
  OBVIOUS
<1>2. /\ n \in Transaction /\ Alike(r, n) /\ n.next = s
      /\ n.todo = r.todo /\ n.cur = r.cur /\ n.sqlite = r.sqlite /\ n.retry = r.retry
  BY <1>1, NextSet DEF Steps
<1>3. Alike(tx[x], n)
  BY <1>2 DEF Alike
<1>4. s \notin {"success", "cleanSuccess", None}
  BY NoneIsNone DEF MainSteps, Steps
<1>5. Sound(n)
  BY <1>2, <1>3, <1>4 DEF Sound, Known, Alike
<1>6. PICK b : b = db[tx[x].db]
  OBVIOUS
<1>7. b \in Database /\ db' = [db EXCEPT ![tx[x].db] = b]
  BY <1>6 DEF Known, TypeOK
<1>8. Turned(x, tx[x], b, n, b)
  BY <1>2, SameTurned DEF Known
<1>9. /\ tx' = [tx EXCEPT ![x] = n] /\ callbacks' = Append(callbacks, x) /\ tasks' = tasks
  BY <1>1 DEF ToMain
<1>10. Becomes(x, n, b)
  BY <1>2, <1>3, <1>5, <1>6, <1>7, <1>8, <1>9 DEF Becomes, TypeOK
<1>11. n.next \in MainSteps /\ (n.next = "statement" /\ n.cur.err # "no" => n.cur.ecb)
  BY <1>2
<1>12. QED
  BY <1>9, <1>10, <1>11 DEF Outcome

-----------------------------------------------------------------------------
LEMMA CleanupOutcome ==
  ASSUME TypeOK, NEW x, Known(x), NEW r \in Transaction, Alike(tx[x], r),
         r.sqlite = tx[x].sqlite, r.retry => r.cur # None,
         cleanupAfterTransactionErrorCallback(x, r)
  PROVE  \E n, b : Outcome(x, n, b)
<1> DEFINE Ends == IF r.commits THEN commit(r.db, r) ELSE {[r |-> r, b |-> db[r.db], ok |-> FALSE]}
<1>1. PICK o \in Ends :
        /\ db' = [db EXCEPT ![r.db] = IF o.r.sqlite = "on" THEN rolledBack(r.db) ELSE o.b]
        /\ committed' = IF o.ok THEN committed \cup {x} ELSE committed
        /\ Stays(x, [o.r EXCEPT !.sqlite = "none", !.todo = <<>>, !.next = None, !.onError = FALSE])
  BY DEF cleanupAfterTransactionErrorCallback
<1>2. PICK d \in Databases : d = r.db /\ d = tx[x].db
  BY DEF Known, Alike
<1>3. PICK n, b : /\ n = [o.r EXCEPT !.sqlite = "none", !.todo = <<>>, !.next = None, !.onError = FALSE]
                  /\ b = IF o.r.sqlite = "on" THEN rolledBack(d) ELSE o.b
  OBVIOUS
<1>4. db[d] \in Database
  BY DEF TypeOK
<1>5. /\ b \in Database /\ b.stopped = db[d].stopped
      /\ db[d].spoiled => b.spoiled
      /\ b.sqlite = db[d].sqlite \/ {db[d].sqlite, b.sqlite} \subseteq {"open", "begun"}
      /\ r.sqlite # "on" => b = db[d]
      /\ r.sqlite = "on" => (b.sqlite = "begun" => b.spoiled)
      /\ o.r \in Transaction /\ o.r.cur = r.cur /\ o.r.retry = r.retry /\ Alike(r, o.r)
  <2>1. CASE r.commits
    <3>1. o \in commit(d, r)
      BY <1>1, <1>2, <2>1
    <3>2. PICK off : off = [r EXCEPT !.sqlite = "off"]
      OBVIOUS
    <3>3. off \in Transaction /\ off.cur = r.cur /\ off.retry = r.retry /\ Alike(r, off)
      BY <3>2, SqliteSet
    <3>4. /\ o.b \in Database /\ o.b.stopped = db[d].stopped
          /\ db[d].spoiled => o.b.spoiled
          /\ o.b.sqlite = db[d].sqlite \/ {db[d].sqlite, o.b.sqlite} \subseteq {"open", "begun"}
          /\ \/ r.sqlite # "on" /\ o.r = r /\ o.b = db[d]
             \/ r.sqlite = "on" /\ o.r = off /\ (o.b.sqlite = "begun" => o.b.spoiled)
          /\ o.r.sqlite # "on"
      BY <3>1, <3>2, Commits
    <3>5. b = o.b
      BY <1>3, <3>4
    <3>6. Alike(r, r)
      BY DEF Alike
    <3>7. QED
      BY <3>3, <3>4, <3>5, <3>6
  <2>2. CASE ~r.commits
    <3>1. o = [r |-> r, b |-> db[d], ok |-> FALSE]
      BY <1>1, <1>2, <2>2
    <3>2. o.r = r /\ o.b = db[d] /\ Alike(r, r)
      BY <3>1 DEF Alike
    <3>3. CASE r.sqlite = "on" /\ db[d].sqlite = "begun"
      <4>1. b = [db[d] EXCEPT !.sqlite = "open"]
        BY <1>3, <3>2, <3>3 DEF rolledBack
      <4>2. /\ b \in Database /\ b.stopped = db[d].stopped /\ b.spoiled = db[d].spoiled
            /\ b.sqlite = "open"
        BY <1>4, <4>1 DEF Database
      <4>3. QED
        BY <3>2, <3>3, <4>2
    <3>4. CASE r.sqlite # "on" \/ db[d].sqlite # "begun"
      <4>1. b = db[d]
        BY <1>3, <3>2, <3>4 DEF rolledBack
      <4>2. QED
        BY <1>4, <3>2, <3>4, <4>1
    <3>5. QED
      BY <3>3, <3>4
  <2>3. QED
    BY <2>1, <2>2
<1>6. /\ n \in Transaction /\ Alike(o.r, n) /\ n.sqlite = "none"
      /\ n.todo = <<>> /\ n.cur = o.r.cur /\ n.next = None /\ n.retry = o.r.retry
  BY <1>3, <1>5, Cleaned
<1>7. Alike(tx[x], n)
  BY <1>5, <1>6 DEF Alike
<1>8. None \notin {"statement", "quota"}
  BY NoneIsNone DEF Steps, MainSteps
<1>9. Sound(n)
  BY <1>5, <1>6, <1>7, <1>8 DEF Sound, Known, Alike
<1>10. Turned(x, tx[x], db[d], n, b)
  <2>1. CASE r.sqlite # "on"
    BY <1>5, <1>6, <2>1, SameTurned DEF Known
  <2>2. CASE r.sqlite = "on"
    <3>1. x \in Transactions /\ n.sqlite # "on" /\ tx[x].sqlite = "on"
      BY <1>6, <2>2 DEF Known
    <3>2. QED
      BY <1>4, <1>5, <2>2, <3>1, LeavesTurned
  <2>3. QED
    BY <2>1, <2>2
<1>11. committed' \subseteq Transactions
  BY <1>1 DEF TypeOK, Known
<1>12. tx' = [tx EXCEPT ![x] = n] /\ tasks' = tasks /\ callbacks' = callbacks
  BY <1>1, <1>3 DEF Stays
<1>13. db' = [db EXCEPT ![tx[x].db] = b]
  BY <1>1, <1>2, <1>3
<1>14. Becomes(x, n, b)
  BY <1>2, <1>5, <1>6, <1>7, <1>9, <1>10, <1>11, <1>12, <1>13 DEF Becomes
<1>15. QED
  BY <1>6, <1>12, <1>14 DEF Outcome

LEMMA ErrorOutcome ==
  ASSUME TypeOK, NEW x, Known(x), NEW r \in Transaction, Alike(tx[x], r),
         r.sqlite = tx[x].sqlite, r.retry => r.cur # None,
         handleTransactionError(x, r)
  PROVE  \E n, b : Outcome(x, n, b)
<1>1. CASE ToMain(x, r, "error") /\ UNCHANGED <<db, committed>>
  <2>1. "error" \in MainSteps \ {"success"} /\ "error" \notin {"statement", "quota"}
    BY DEF MainSteps
  <2>2. db' = db /\ committed' = committed
    BY <1>1
  <2>3. QED
    BY <1>1, <2>1, <2>2, ToMainOutcome
<1>2. CASE cleanupAfterTransactionErrorCallback(x, [r EXCEPT !.commits = FALSE])
  <2>1. PICK s : s = [r EXCEPT !.commits = FALSE]
    OBVIOUS
  <2>2. /\ s \in Transaction /\ Alike(r, s) /\ s.cur = r.cur /\ s.sqlite = r.sqlite
        /\ s.retry = r.retry
    BY <2>1, FlagsSet
  <2>3. Alike(tx[x], s) /\ s.sqlite = tx[x].sqlite /\ (s.retry => s.cur # None)
    BY <2>2 DEF Alike
  <2>4. cleanupAfterTransactionErrorCallback(x, s)
    BY <1>2, <2>1
  <2>5. QED
    BY <2>2, <2>3, <2>4, CleanupOutcome
<1>3. QED
  BY <1>1, <1>2 DEF handleTransactionError

LEMMA StatementErrorOutcome ==
  ASSUME TypeOK, NEW x, Known(x), NEW r \in Transaction, Alike(tx[x], r),
         r.sqlite = tx[x].sqlite, r.cur # None,
         handleCurrentStatementError(x, r)
  PROVE  \E n, b : Outcome(x, n, b)
<1>1. CASE r.cur.ecb /\ ToMain(x, r, "statement") /\ UNCHANGED <<db, committed>>
  <2>1. "statement" \in MainSteps \ {"success"}
    BY DEF MainSteps
  <2>2. db' = db /\ committed' = committed
    BY <1>1
  <2>3. QED
    BY <1>1, <2>1, <2>2, ToMainOutcome
<1>2. CASE handleTransactionError(x, r)
  BY <1>2, ErrorOutcome
<1>3. QED
  BY <1>1, <1>2 DEF handleCurrentStatementError

-----------------------------------------------------------------------------
(* Every step of a transaction has such an outcome.                        *)

Stepped(x) ==
  /\ x \in Transactions /\ Performing(x, "step")
  /\ \/ (\E r, b : Outcome(x, r, b)) /\ Returns
     \/ /\ \E r, b : Becomes(x, r, b) /\ r.next = tx[x].next
        /\ UNCHANGED <<callbacks, thread>>
  /\ StepFrame

LEMMA WorkingKnown ==
  ASSUME DatabasesInv, NEW x \in Transactions, x \in Working \/ Performing(x, "return")
  PROVE  Known(x)
<1>1. Fits(x) /\ Sound(tx[x])
  BY DEF DatabasesInv, AllFit, AllSound
<1>2. tx[x].listens # None
  BY <1>1 DEF Fits, Fit
<1>3. QED
  BY <1>1, <1>2 DEF Known, Sound

LEMMA InStepKnown ==
  ASSUME DatabasesInv, NEW x \in Transactions, NEW s, InStep(x, s)
  PROVE  Known(x) /\ TypeOK /\ tx[x] \in Transaction /\ Alike(tx[x], tx[x]) /\ Sound(tx[x])
<1>1. x \in Working
  BY DEF InStep, Working
<1>2. Known(x)
  BY <1>1, WorkingKnown
<1>3. QED
  BY <1>2 DEF DatabasesInv, TypeOK, Alike, AllSound

LEMMA PreflightSteps ==
  ASSUME DatabasesInv, NEW x \in Transactions, openTransactionAndPreflight(x)
  PROVE  Stepped(x)
<1>1. InStep(x, "open") /\ Returns /\ StepFrame
  BY DEF openTransactionAndPreflight
<1>2. Known(x) /\ TypeOK /\ tx[x] \in Transaction /\ Alike(tx[x], tx[x]) /\ Sound(tx[x])
  BY <1>1, InStepKnown
<1>3. tx[x].retry => tx[x].cur # None
  BY <1>2 DEF Sound
<1>4. CASE handleTransactionError(x, tx[x])
  BY <1>1, <1>2, <1>3, <1>4, ErrorOutcome DEF Stepped, InStep
<1>5. PICK d \in Databases : d = tx[x].db
  BY <1>2 DEF Known
<1>6. CASE /\ db[d].sqlite = "open" /\ db' = [db EXCEPT ![d].sqlite = "begun"]
           /\ ToMain(x, [tx[x] EXCEPT !.sqlite = "on"], "transaction")
           /\ UNCHANGED committed
  <2>1. PICK s : s = [tx[x] EXCEPT !.sqlite = "on"]
    OBVIOUS
  <2>2. /\ s \in Transaction /\ Alike(tx[x], s) /\ s.sqlite = "on" /\ s.cur = tx[x].cur
        /\ s.retry = tx[x].retry
    BY <1>2, <2>1, SqliteSet
  <2>3. PICK n : n = [s EXCEPT !.next = "transaction"]
    OBVIOUS
  <2>4. "transaction" \in Steps \cup {None}
    BY DEF Steps, MainSteps
  <2>5. /\ n \in Transaction /\ Alike(s, n) /\ n.next = "transaction"
        /\ n.cur = s.cur /\ n.sqlite = "on" /\ n.retry = s.retry
    BY <2>2, <2>3, <2>4, NextSet
  <2>6. Alike(tx[x], n)
    BY <2>2, <2>5 DEF Alike
  <2>7. "transaction" # None /\ "transaction" \in MainSteps
    BY <2>4, NoneIsNone DEF Steps, MainSteps
  <2>8. Sound(n)
    BY <1>2, <1>3, <2>2, <2>5, <2>6, <2>7 DEF Sound, Alike, Known
  <2>9. db[d] \in Database
    BY <1>2 DEF TypeOK
  <2>10. PICK b : b = [db[d] EXCEPT !.sqlite = "begun"]
    OBVIOUS
  <2>11. b \in Database /\ db' = [db EXCEPT ![d] = b]
    BY <1>6, <2>9, <2>10 DEF Database
  <2>12. Turned(x, tx[x], db[d], n, b)
    BY <1>6, <2>5, <2>9, <2>10, BeginsTurned
  <2>13. tx' = [tx EXCEPT ![x] = n] /\ callbacks' = Append(callbacks, x) /\ tasks' = tasks
    BY <1>6, <2>1, <2>3 DEF ToMain
  <2>14. committed' \subseteq Transactions
    BY <1>2, <1>6 DEF TypeOK
  <2>15. Becomes(x, n, b)
    BY <1>5, <2>5, <2>6, <2>8, <2>11, <2>12, <2>13, <2>14 DEF Becomes
  <2>16. Outcome(x, n, b)
    BY <2>5, <2>7, <2>13, <2>15 DEF Outcome
  <2>17. QED
    BY <1>1, <2>16 DEF Stepped, InStep
<1>7. QED
  BY <1>4, <1>5, <1>6 DEF openTransactionAndPreflight

LEMMA QuotaFailedSteps ==
  ASSUME DatabasesInv, NEW x \in Transactions, RunQuotaFailed(x)
  PROVE  Stepped(x)
<1>1. InStep(x, "run") /\ Returns /\ StepFrame /\ handleCurrentStatementError(x, tx[x])
  BY DEF RunQuotaFailed
<1>2. Known(x) /\ TypeOK /\ tx[x] \in Transaction /\ Alike(tx[x], tx[x]) /\ Sound(tx[x])
  BY <1>1, InStepKnown
<1>3. tx[x].cur # None
  BY DEF RunQuotaFailed, QuotaFailed
<1>4. \E r, b : Outcome(x, r, b)
  BY <1>1, <1>2, <1>3, StatementErrorOutcome
<1>5. QED
  BY <1>1, <1>4 DEF Stepped, InStep

LEMMA StatementSteps ==
  ASSUME DatabasesInv, NEW x \in Transactions, runCurrentStatement(x)
  PROVE  Stepped(x)
<1>1. PICK next : next = Advanced(tx[x])
  OBVIOUS
<1>2. /\ InStep(x, "run") /\ StepFrame /\ next.cur # None
      /\ \E e \in Executed(next.db, next.cur) :
            LET r == [next EXCEPT !.cur.err = e] IN
            \/ /\ e = "no" /\ r.cur.cb
               /\ ToMain(x, r, "statement") /\ Returns
               /\ UNCHANGED <<db, committed>>
            \/ /\ e = "no" /\ ~r.cur.cb
               /\ Stays(x, r)
               /\ UNCHANGED <<thread, db, committed>>
            \/ /\ e = "quota"
               /\ ToMain(x, r, "quota") /\ Returns
               /\ UNCHANGED <<db, committed>>
            \/ /\ e = "fault"
               /\ handleCurrentStatementError(x, r) /\ Returns
  BY <1>1 DEF runCurrentStatement
<1>3. PICK e \in Executed(next.db, next.cur) :
            LET r == [next EXCEPT !.cur.err = e] IN
            \/ /\ e = "no" /\ r.cur.cb
               /\ ToMain(x, r, "statement") /\ Returns
               /\ UNCHANGED <<db, committed>>
            \/ /\ e = "no" /\ ~r.cur.cb
               /\ Stays(x, r)
               /\ UNCHANGED <<thread, db, committed>>
            \/ /\ e = "quota"
               /\ ToMain(x, r, "quota") /\ Returns
               /\ UNCHANGED <<db, committed>>
            \/ /\ e = "fault"
               /\ handleCurrentStatementError(x, r) /\ Returns
  BY <1>2
<1>4. PICK r : r = [next EXCEPT !.cur.err = e]
  OBVIOUS
<1>5. Known(x) /\ TypeOK /\ tx[x] \in Transaction /\ Alike(tx[x], tx[x]) /\ Sound(tx[x])
  BY <1>2, InStepKnown
<1>6. tx[x].retry => tx[x].cur # None
  BY <1>5 DEF Sound
<1>7. /\ next \in Transaction /\ Alike(tx[x], next) /\ next.next = tx[x].next
      /\ next.sqlite = tx[x].sqlite /\ next.retry = FALSE
  BY <1>1, <1>5, <1>6, Advances
<1>8. e \in {"no", "fault", "quota"}
  BY DEF Executed
<1>9. /\ r \in Transaction /\ Alike(next, r) /\ r.next = next.next
      /\ r.todo = next.todo /\ r.sqlite = next.sqlite /\ r.retry = next.retry
      /\ r.cur \in Statement /\ r.cur # None /\ r.cur.err = e
  BY <1>2, <1>4, <1>7, <1>8, ErrSet
<1>10. Alike(tx[x], r) /\ r.sqlite = tx[x].sqlite /\ ~r.retry
  BY <1>7, <1>9 DEF Alike
<1>11. CASE e = "no" /\ ToMain(x, r, "statement") /\ Returns /\ UNCHANGED <<db, committed>>
  <2>1. "statement" \in MainSteps \ {"success"}
    BY DEF MainSteps
  <2>2. db' = db /\ committed' = committed
    BY <1>11
  <2>3. \E n, b : Outcome(x, n, b)
    BY <1>5, <1>9, <1>10, <1>11, <2>1, <2>2, ToMainOutcome
  <2>4. QED
    BY <1>2, <1>11, <2>3 DEF Stepped, InStep
<1>12. CASE Stays(x, r) /\ UNCHANGED <<thread, db, committed>>
  <2>1. PICK b : b = db[tx[x].db]
    OBVIOUS
  <2>2. b \in Database /\ db' = [db EXCEPT ![tx[x].db] = b]
    BY <1>5, <1>12, <2>1 DEF Known, TypeOK
  <2>3. Turned(x, tx[x], b, r, b)
    BY <1>10, SameTurned
  <2>4. tx' = [tx EXCEPT ![x] = r] /\ tasks' = tasks /\ callbacks' = callbacks
    BY <1>12 DEF Stays
  <2>5. r.next = "run" /\ "run" \notin {"success", "cleanSuccess", None}
    BY <1>2, <1>7, <1>9, NoneIsNone DEF InStep, Steps, ThreadSteps
  <2>6. Sound(r)
    BY <1>5, <1>9, <1>10, <2>5 DEF Sound, Alike, Known
  <2>7. committed' \subseteq Transactions
    BY <1>5, <1>12 DEF TypeOK
  <2>8. Becomes(x, r, b)
    BY <1>9, <1>10, <2>1, <2>2, <2>3, <2>4, <2>6, <2>7 DEF Becomes
  <2>9. QED
    BY <1>2, <1>7, <1>9, <1>12, <2>4, <2>8 DEF Stepped, InStep
<1>13. CASE ToMain(x, r, "quota") /\ Returns /\ UNCHANGED <<db, committed>>
  <2>1. "quota" \in MainSteps \ {"success"} /\ "quota" # "statement"
    BY DEF MainSteps
  <2>2. db' = db /\ committed' = committed
    BY <1>13
  <2>3. \E n, b : Outcome(x, n, b)
    BY <1>5, <1>9, <1>10, <1>13, <2>1, <2>2, ToMainOutcome
  <2>4. QED
    BY <1>2, <1>13, <2>3 DEF Stepped, InStep
<1>14. CASE handleCurrentStatementError(x, r) /\ Returns
  <2>1. \E n, b : Outcome(x, n, b)
    BY <1>5, <1>9, <1>10, <1>14, StatementErrorOutcome
  <2>2. QED
    BY <1>2, <1>14, <2>1 DEF Stepped, InStep
<1>15. QED
  BY <1>3, <1>4, <1>11, <1>12, <1>13, <1>14

LEMMA CommitSteps ==
  ASSUME DatabasesInv, NEW x \in Transactions, postflightAndCommit(x)
  PROVE  Stepped(x)
<1>1. PICK r : r = Advanced(tx[x])
  OBVIOUS
<1>2. /\ InStep(x, "run") /\ Returns /\ StepFrame /\ r.cur = None
      /\ \/ handleTransactionError(x, r)
         \/ \E o \in commit(r.db, r) :
               LET done == [o.r EXCEPT !.onError = FALSE] IN
               /\ db' = [db EXCEPT ![r.db] = o.b]
               /\ committed' = IF o.ok THEN committed \cup {x} ELSE committed
               /\ \/ r.onSuccess /\ ToMain(x, done, "success")
                  \/ ~r.onSuccess /\ Stays(x, [done EXCEPT !.next = None])
  BY <1>1 DEF postflightAndCommit
<1>3. Known(x) /\ TypeOK /\ tx[x] \in Transaction /\ Alike(tx[x], tx[x]) /\ Sound(tx[x])
  BY <1>2, InStepKnown
<1>4. tx[x].retry => tx[x].cur # None
  BY <1>3 DEF Sound
<1>5. /\ r \in Transaction /\ Alike(tx[x], r) /\ r.next = tx[x].next
      /\ r.sqlite = tx[x].sqlite /\ r.retry = FALSE /\ r.todo = <<>>
  BY <1>1, <1>2, <1>3, <1>4, Advances
<1>6. CASE handleTransactionError(x, r)
  <2>1. \E n, b : Outcome(x, n, b)
    BY <1>3, <1>5, <1>6, ErrorOutcome
  <2>2. QED
    BY <1>2, <2>1 DEF Stepped, InStep
<1>7. PICK d \in Databases : d = r.db /\ d = tx[x].db
  BY <1>3, <1>5 DEF Known, Alike
<1>8. ASSUME NEW o \in commit(d, r), db' = [db EXCEPT ![d] = o.b],
             committed' = IF o.ok THEN committed \cup {x} ELSE committed,
             LET done == [o.r EXCEPT !.onError = FALSE] IN
               \/ ToMain(x, done, "success")
               \/ Stays(x, [done EXCEPT !.next = None])
      PROVE  \E n, b : Outcome(x, n, b)
  <2>1. PICK off : off = [r EXCEPT !.sqlite = "off"]
    OBVIOUS
  <2>2. /\ off \in Transaction /\ Alike(r, off) /\ off.retry = r.retry /\ off.todo = r.todo
    BY <1>5, <2>1, SqliteSet
  <2>3. /\ o.b \in Database /\ o.b.stopped = db[d].stopped
        /\ db[d].spoiled => o.b.spoiled
        /\ o.b.sqlite = db[d].sqlite \/ {db[d].sqlite, o.b.sqlite} \subseteq {"open", "begun"}
        /\ \/ r.sqlite # "on" /\ o.r = r /\ o.b = db[d]
           \/ r.sqlite = "on" /\ o.r = off /\ (o.b.sqlite = "begun" => o.b.spoiled)
        /\ o.r.sqlite # "on"
    BY <1>3, <1>5, <1>8, <2>1, Commits
  <2>4. /\ o.r \in Transaction /\ o.r.retry = FALSE /\ o.r.todo = <<>> /\ Alike(r, o.r)
    BY <1>5, <2>2, <2>3 DEF Alike
  <2>5. PICK done : done = [o.r EXCEPT !.onError = FALSE]
    OBVIOUS
  <2>6. /\ done \in Transaction /\ Alike(o.r, done) /\ done.todo = <<>>
        /\ done.sqlite = o.r.sqlite /\ done.retry = FALSE
    BY <2>4, <2>5, FlagsSet
  <2>7. PICK s \in {"success", None} :
          /\ tx' = [tx EXCEPT ![x] = [done EXCEPT !.next = s]] /\ tasks' = tasks
          /\ \/ callbacks' = Append(callbacks, x) /\ s = "success"
             \/ callbacks' = callbacks /\ s = None
    BY <1>8, <2>5 DEF ToMain, Stays
  <2>8. PICK n : n = [done EXCEPT !.next = s]
    OBVIOUS
  <2>9. s \in Steps \cup {None}
    BY DEF Steps, MainSteps
  <2>10. /\ n \in Transaction /\ Alike(done, n) /\ n.next = s /\ n.todo = <<>>
         /\ n.sqlite = o.r.sqlite /\ n.retry = FALSE
    BY <2>6, <2>8, <2>9, NextSet
  <2>11. Alike(tx[x], n)
    BY <1>5, <2>4, <2>6, <2>10 DEF Alike
  <2>12. s \notin {"statement", "quota"}
    BY NoneIsNone DEF Steps, MainSteps
  <2>13. Sound(n)
    BY <1>3, <2>3, <2>10, <2>11, <2>12 DEF Sound, Alike, Known
  <2>14. Turned(x, tx[x], db[d], n, o.b)
    <3>1. CASE r.sqlite # "on"
      BY <1>5, <2>3, <2>10, <3>1, SameTurned
    <3>2. CASE r.sqlite = "on"
      <4>1. db[d] \in Database
        BY <1>3 DEF TypeOK
      <4>2. QED
        BY <1>5, <2>3, <2>10, <3>2, <4>1, LeavesTurned
    <3>3. QED
      BY <3>1, <3>2
  <2>15. committed' \subseteq Transactions
    BY <1>3, <1>8 DEF TypeOK
  <2>16. Becomes(x, n, o.b)
    BY <1>7, <1>8, <2>3, <2>7, <2>8, <2>10, <2>11, <2>13, <2>14, <2>15 DEF Becomes
  <2>17. "success" \in MainSteps /\ "success" # "statement"
    BY DEF MainSteps
  <2>18. QED
    BY <2>7, <2>10, <2>16, <2>17 DEF Outcome
<1>9. CASE \E o \in commit(r.db, r) :
               LET done == [o.r EXCEPT !.onError = FALSE] IN
               /\ db' = [db EXCEPT ![r.db] = o.b]
               /\ committed' = IF o.ok THEN committed \cup {x} ELSE committed
               /\ \/ r.onSuccess /\ ToMain(x, done, "success")
                  \/ ~r.onSuccess /\ Stays(x, [done EXCEPT !.next = None])
  <2>1. \E n, b : Outcome(x, n, b)
    BY <1>7, <1>8, <1>9
  <2>2. QED
    BY <1>2, <2>1 DEF Stepped, InStep
<1>10. QED
  BY <1>2, <1>6, <1>9

LEMMA SuccessSteps ==
  ASSUME DatabasesInv, NEW x \in Transactions, cleanupAfterSuccessCallback(x)
  PROVE  Stepped(x)
<1>1. /\ InStep(x, "cleanSuccess") /\ Returns /\ StepFrame /\ UNCHANGED <<db, committed>>
      /\ Stays(x, [tx[x] EXCEPT !.next = None])
  BY DEF cleanupAfterSuccessCallback
<1>2. Known(x) /\ TypeOK /\ tx[x] \in Transaction /\ Alike(tx[x], tx[x]) /\ Sound(tx[x])
  BY <1>1, InStepKnown
<1>3. PICK n : n = [tx[x] EXCEPT !.next = None]
  OBVIOUS
<1>4. /\ n \in Transaction /\ Alike(tx[x], n) /\ n.next = None
      /\ n.todo = tx[x].todo /\ n.cur = tx[x].cur /\ n.sqlite = tx[x].sqlite
      /\ n.retry = tx[x].retry
  BY <1>2, <1>3, NextSet
<1>5. None \notin {"statement", "quota"} /\ tx[x].next = "cleanSuccess"
  BY <1>1, NoneIsNone DEF Steps, MainSteps, InStep
<1>6. Sound(n)
  BY <1>2, <1>4, <1>5 DEF Sound, Alike, Known
<1>7. PICK b : b = db[tx[x].db]
  OBVIOUS
<1>8. b \in Database /\ db' = [db EXCEPT ![tx[x].db] = b]
  BY <1>1, <1>2, <1>7 DEF Known, TypeOK
<1>9. Turned(x, tx[x], b, n, b)
  BY <1>4, SameTurned
<1>10. tx' = [tx EXCEPT ![x] = n] /\ tasks' = tasks /\ callbacks' = callbacks
  BY <1>1, <1>3 DEF Stays
<1>11. committed' \subseteq Transactions
  BY <1>1, <1>2 DEF TypeOK
<1>12. Becomes(x, n, b)
  BY <1>4, <1>6, <1>7, <1>8, <1>9, <1>10, <1>11 DEF Becomes
<1>13. Outcome(x, n, b)
  BY <1>4, <1>10, <1>12 DEF Outcome
<1>14. QED
  BY <1>1, <1>13 DEF Stepped, InStep

LEMMA CleanupSteps ==
  ASSUME DatabasesInv, NEW x \in Transactions, CleanupError(x)
  PROVE  Stepped(x)
<1>1. /\ InStep(x, "cleanError") /\ Returns /\ StepFrame
      /\ cleanupAfterTransactionErrorCallback(x, tx[x])
  BY DEF CleanupError
<1>2. Known(x) /\ TypeOK /\ tx[x] \in Transaction /\ Alike(tx[x], tx[x]) /\ Sound(tx[x])
  BY <1>1, InStepKnown
<1>3. \E n, b : Outcome(x, n, b)
  BY <1>1, <1>2, CleanupOutcome DEF Sound
<1>4. QED
  BY <1>1, <1>3 DEF Stepped, InStep

-----------------------------------------------------------------------------
(* Places.                                                                 *)

(* A transaction keeps to what its place demands when it leaves it.        *)
LEMMA FitLess ==
  ASSUME NEW r, NEW t \in BOOLEAN, NEW c \in BOOLEAN, NEW W, NEW k \in BOOLEAN, NEW A,
         NEW e \in BOOLEAN, Fit(r, t, c, W, k, A, e),
         NEW t2 \in BOOLEAN, NEW c2 \in BOOLEAN, NEW W2, NEW k2 \in BOOLEAN, NEW A2,
         NEW e2 \in BOOLEAN,
         t2 => t, c2 => c, W2 \subseteq W, k2 => k, A2 \subseteq A, e2 => e \/ k
  PROVE  Fit(r, t2, c2, W2, k2, A2, e2)
<1>1. t2 \/ k2 => r.next \in ThreadSteps
  BY DEF Fit
<1>2. c2 \/ A2 # {} => r.next \in MainSteps
  BY DEF Fit
<1>3. /\ \A a \in A2 : a = "error" \/ a = r.next
      /\ \A d \in W2 : r.next = "open" /\ r.db = d
  BY DEF Fit
<1>4. t2 \/ c2 \/ W2 # {} \/ k2 \/ A2 # {} \/ e2 => r.listens # None
  BY DEF Fit
<1>5. (c2 \/ "statement" \in A2) /\ r.next = "statement" /\ r.cur.err # "no" => r.cur.ecb
  BY DEF Fit
<1>6. QED
  BY <1>1, <1>2, <1>3, <1>4, <1>5 DEF Fit

(* The places of u, after a step that leaves u alone.                      *)
Stay(u) ==
  /\ u \in Of(tasks') => u \in Of(tasks)
  /\ u \in Range(callbacks') => u \in Range(callbacks)
  /\ \A d \in Databases : u \in Range(waiting'[d]) => u \in Range(waiting[d])
  /\ u \in Working' => u \in Working
  /\ main'.x = u => main' = main
  /\ Performing(u, "return")' => u \in Working \/ Performing(u, "return")

LEMMA StaysFit ==
  ASSUME AllFit, NEW u \in Transactions, tx'[u] = tx[u], Stay(u)
  PROVE  Fits(u)'
<1>1. PICK W, A, W2, A2 :
        W = WaitsIn(u) /\ A = Doing(u) /\ W2 = WaitsIn(u)' /\ A2 = Doing(u)'
  OBVIOUS
<1>2. W2 \subseteq W
  BY <1>1 DEF WaitsIn, Stay
<1>3. A2 \subseteq A
  BY <1>1 DEF Doing, Stay
<1>4. PICK t, c, k, e : /\ t = (u \in Of(tasks)) /\ c = (u \in Range(callbacks))
                        /\ k = (u \in Working) /\ e = Performing(u, "return")
  OBVIOUS
<1>5. PICK t2, c2, k2, e2 : /\ t2 = (u \in Of(tasks)') /\ c2 = (u \in Range(callbacks)')
                            /\ k2 = (u \in Working)' /\ e2 = Performing(u, "return")'
  OBVIOUS
<1>6. Fit(tx[u], t, c, W, k, A, e)
  BY <1>1, <1>4 DEF AllFit, Fits
<1>7. /\ t \in BOOLEAN /\ c \in BOOLEAN /\ k \in BOOLEAN /\ e \in BOOLEAN
      /\ t2 \in BOOLEAN /\ c2 \in BOOLEAN /\ k2 \in BOOLEAN /\ e2 \in BOOLEAN
  BY <1>4, <1>5 DEF Performing
<1>8. (t2 => t) /\ (c2 => c) /\ (k2 => k) /\ (e2 => e \/ k)
  BY <1>4, <1>5 DEF Stay
<1>9. Fit(tx[u], t2, c2, W2, k2, A2, e2)
  BY <1>2, <1>3, <1>6, <1>7, <1>8, FitLess
<1>10. QED
  BY <1>1, <1>5, <1>9 DEF Fits

(* One transaction moves, the others at most leave.                        *)
LEMMA ApartMoves ==
  ASSUME NEW A, NEW B, NEW C, NEW D, NEW E, Apart(A, B, C, D, E),
         NEW A2, NEW B2, NEW C2, NEW D2, NEW E2, NEW x,
         \A u : u # x => /\ u \in A2 => u \in A
                         /\ u \in B2 => u \in B
                         /\ u \in C2 => u \in C
                         /\ u \in D2 => u \in D
                         /\ u \in E2 => u \in E,
         \/ x \notin B2 /\ x \notin C2 /\ x \notin D2 /\ x \notin E2
         \/ x \notin A2 /\ x \notin C2 /\ x \notin D2 /\ x \notin E2
         \/ x \notin A2 /\ x \notin B2 /\ x \notin D2 /\ x \notin E2
         \/ x \notin A2 /\ x \notin B2 /\ x \notin C2 /\ x \notin E2
         \/ x \notin A2 /\ x \notin B2 /\ x \notin C2 /\ x \notin D2
  PROVE  Apart(A2, B2, C2, D2, E2)
<1>1. A2 \cap B2 = {} /\ A2 \cap C2 = {} /\ A2 \cap D2 = {} /\ A2 \cap E2 = {}
  BY DEF Apart
<1>2. B2 \cap C2 = {} /\ B2 \cap D2 = {} /\ B2 \cap E2 = {}
  BY DEF Apart
<1>3. C2 \cap D2 = {} /\ C2 \cap E2 = {} /\ D2 \cap E2 = {}
  BY DEF Apart
<1>4. QED
  BY <1>1, <1>2, <1>3 DEF Apart

-----------------------------------------------------------------------------
(* Databases.                                                              *)

(* Steps that do not matter to what SQLite has open.                       *)
LEMMA OpenStill ==
  ASSUME OpenKnown,
         \A d \in Databases : On(d)' = On(d) /\ (Held(On(d), db[d]) => Held(On(d), db'[d]))
  PROVE  OpenKnown'
BY DEF OpenKnown

LEMMA BecomesOpen ==
  ASSUME DatabasesInv, NEW x, Known(x), NEW r, NEW b, Becomes(x, r, b)
  PROVE  OpenKnown'
<1>1. PICK d \in Databases : d = tx[x].db
  BY DEF Known
<1>2. tx \in [Transactions -> Transaction] /\ db \in [Databases -> Database] /\ x \in Transactions
  BY DEF DatabasesInv, TypeOK, Known
<1>3. tx' = [tx EXCEPT ![x] = r] /\ db' = [db EXCEPT ![d] = b] /\ r.db = d
  BY <1>1 DEF Becomes, Alike
<1>4. tx'[x] = r /\ \A u \in Transactions \ {x} : tx'[u] = tx[u]
  BY <1>2, <1>3
<1>5. db'[d] = b /\ \A e \in Databases \ {d} : db'[e] = db[e]
  BY <1>2, <1>3
<1>6. \A e \in Databases : Held(On(e), db[e])
  BY DEF DatabasesInv, OpenKnown
<1>7. ASSUME NEW e \in Databases \ {d} PROVE Held(On(e)', db'[e])
  <2>1. On(e)' = On(e)
    BY <1>1, <1>3, <1>4 DEF On
  <2>2. QED
    BY <1>5, <1>6, <2>1
<1>8. Held(On(d)', db'[d])
  <2>1. PICK H : H = On(d)
    OBVIOUS
  <2>2. H \in SUBSET Transactions /\ (x \in H <=> tx[x].sqlite = "on")
    BY <1>1, <1>2, <2>1 DEF On
  <2>3. Held({u \in Transactions : IF u = x THEN r.sqlite = "on" ELSE u \in H}, b)
    BY <1>1, <1>6, <2>1, <2>2 DEF Becomes, Turned
  <2>4. On(d)' = {u \in Transactions : IF u = x THEN r.sqlite = "on" ELSE u \in H}
    BY <1>3, <1>4, <2>1 DEF On
  <2>5. QED
    BY <1>5, <2>3, <2>4
<1>9. QED
  BY <1>7, <1>8 DEF OpenKnown

(* A task finds its database as before, when SQLite's state only goes      *)
(* from open to begun and back.                                            *)
LEMMA FindsStill ==
  ASSUME NEW q \in Seq(Task),
         \A d \in Databases : \/ db'[d].sqlite = db[d].sqlite
                              \/ {db[d].sqlite, db'[d].sqlite} \subseteq {"open", "begun"}
  PROVE  /\ \A t \in Task : Finds(t, db) => Finds(t, db')
         /\ AllFind(q, db) => AllFind(q, db')
<1>1. ASSUME NEW t \in Task, Finds(t, db) PROVE Finds(t, db')
  <2>1. t.d \in Databases
    BY DEF Task
  <2>2. QED
    BY <1>1, <2>1 DEF Finds
<1>2. \A i \in 1..Len(q) : q[i] \in Task
  BY ElementOfSeq
<1>3. QED
  BY <1>1, <1>2 DEF AllFind

-----------------------------------------------------------------------------
(* The steps of the database thread keep the invariant.                    *)

(* What a transaction becomes is typed and sound.                          *)
LEMMA BecomesTyped ==
  ASSUME DatabasesInv, NEW x, Known(x), NEW r, NEW b, Becomes(x, r, b)
  PROVE  /\ tx' \in [Transactions -> Transaction] /\ db' \in [Databases -> Database]
         /\ tx'[x] = r /\ \A u \in Transactions \ {x} : tx'[u] = tx[u]
         /\ AllSound'
         /\ \A u \in Transactions : tx'[u].next = None => tx'[u].todo = <<>>
         /\ \A d \in Databases : \/ db'[d].sqlite = db[d].sqlite
                                 \/ {db[d].sqlite, db'[d].sqlite} \subseteq {"open", "begun"}
<1>1. tx \in [Transactions -> Transaction] /\ db \in [Databases -> Database] /\ x \in Transactions
  BY DEF DatabasesInv, TypeOK, Known
<1>2. PICK d \in Databases : d = tx[x].db
  BY DEF Known
<1>3. tx' = [tx EXCEPT ![x] = r] /\ db' = [db EXCEPT ![d] = b] /\ r \in Transaction /\ b \in Database
  BY <1>2 DEF Becomes
<1>4. tx' \in [Transactions -> Transaction] /\ db' \in [Databases -> Database]
  BY <1>1, <1>3
<1>5. tx'[x] = r /\ \A u \in Transactions \ {x} : tx'[u] = tx[u]
  BY <1>1, <1>3
<1>6. \A u \in Transactions : Sound(tx'[u])
  BY <1>5 DEF Becomes, DatabasesInv, AllSound
<1>7. \A u \in Transactions : tx'[u].next = None => tx'[u].todo = <<>>
  BY <1>6 DEF Sound
<1>8. \A e \in Databases : \/ db'[e].sqlite = db[e].sqlite
                           \/ {db[e].sqlite, db'[e].sqlite} \subseteq {"open", "begun"}
  <2>1. b.sqlite = db[d].sqlite \/ {db[d].sqlite, b.sqlite} \subseteq {"open", "begun"}
    BY <1>2 DEF Becomes, Turned
  <2>2. db'[d] = b /\ \A e \in Databases \ {d} : db'[e] = db[e]
    BY <1>1, <1>3
  <2>3. QED
    BY <2>1, <2>2
<1>9. QED
  BY <1>4, <1>5, <1>6, <1>7, <1>8 DEF AllSound

(* The thread after a step.                                                *)
LEMMA SteppedThread ==
  ASSUME DatabasesInv, NEW x, Stepped(x)
  PROVE  /\ thread' \in [pc : {"idle", "check", "step", "return", "ended"}, task : Task \cup {None}]
         /\ thread'.task = thread.task /\ thread.pc = "step"
         /\ thread' = thread \/ thread'.pc = "return"
<1>1. thread \in [pc : {"idle", "check", "step", "return", "ended"}, task : Task \cup {None}]
  BY DEF DatabasesInv, TypeOK
<1>2. CASE thread' = [thread EXCEPT !.pc = "return"]
  BY <1>1, <1>2 DEF Stepped, Performing
<1>3. CASE thread' = thread
  BY <1>1, <1>3 DEF Stepped, Performing
<1>4. QED
  BY <1>2, <1>3 DEF Stepped, Returns

LEMMA SteppedKnown ==
  ASSUME DatabasesInv, NEW x, Stepped(x)
  PROVE  /\ Known(x) /\ x \in Working
         /\ x \notin Of(tasks) /\ x \notin Range(callbacks) /\ main.x # x
         /\ \A d \in Databases : x \notin Range(waiting[d])
<1>1. x \in Transactions /\ x \in Working
  BY DEF Stepped, Working
<1>2. Known(x)
  BY <1>1, WorkingKnown
<1>3. Apart(Of(tasks), Range(callbacks), Waiting, Working, AtMain)
  BY DEF DatabasesInv, OnePlace
<1>4. x \notin Of(tasks) /\ x \notin Range(callbacks) /\ x \notin Waiting /\ x \notin AtMain
  BY <1>1, <1>3 DEF Apart
<1>5. QED
  BY <1>1, <1>2, <1>4 DEF Waiting, AtMain

LEMMA SteppedInv ==
  ASSUME DatabasesInv, NEW x, Stepped(x)
  PROVE  DatabasesInv'
<1>1. /\ Known(x) /\ x \in Working
      /\ x \notin Of(tasks) /\ x \notin Range(callbacks) /\ main.x # x
      /\ \A d \in Databases : x \notin Range(waiting[d])
  BY SteppedKnown
<1>2. /\ thread' \in [pc : {"idle", "check", "step", "return", "ended"}, task : Task \cup {None}]
      /\ thread'.task = thread.task /\ thread.pc = "step"
      /\ thread' = thread \/ thread'.pc = "return"
  BY SteppedThread
<1>3. PICK r, b :
        /\ Becomes(x, r, b)
        /\ \/ /\ callbacks' = Append(callbacks, x) /\ r.next \in MainSteps
              /\ r.next = "statement" /\ r.cur.err # "no" => r.cur.ecb
              /\ thread'.pc = "return"
           \/ callbacks' = callbacks /\ thread'.pc = "return"
           \/ callbacks' = callbacks /\ thread' = thread /\ r.next = tx[x].next
  <2>1. CASE (\E r, b : Outcome(x, r, b)) /\ Returns
    <3>1. PICK r, b : Outcome(x, r, b)
      BY <2>1
    <3>2. thread'.pc = "return"
      BY <2>1 DEF Returns, DatabasesInv, TypeOK
    <3>3. QED
      BY <3>1, <3>2 DEF Outcome
  <2>2. CASE (\E r, b : Becomes(x, r, b) /\ r.next = tx[x].next) /\ UNCHANGED <<callbacks, thread>>
    BY <2>2
  <2>3. QED
    BY <2>1, <2>2 DEF Stepped
<1>4. /\ tx' \in [Transactions -> Transaction] /\ db' \in [Databases -> Database]
      /\ tx'[x] = r /\ \A u \in Transactions \ {x} : tx'[u] = tx[u]
      /\ AllSound'
      /\ \A u \in Transactions : tx'[u].next = None => tx'[u].todo = <<>>
      /\ \A d \in Databases : \/ db'[d].sqlite = db[d].sqlite
                              \/ {db[d].sqlite, db'[d].sqlite} \subseteq {"open", "begun"}
  BY <1>1, <1>3, BecomesTyped
<1>5. waiting' = waiting /\ killed' = killed /\ main' = main /\ sync' = sync
      /\ tasks' = tasks /\ committed' \subseteq Transactions
  BY <1>3 DEF Stepped, StepFrame, Becomes
<1>6. /\ callbacks \in Seq(Transactions) /\ x \in Transactions /\ Once(callbacks)
      /\ tasks \in Seq(Task)
  BY <1>1 DEF DatabasesInv, TypeOK, OnePlace, Known
<1>7. /\ callbacks' \in Seq(Transactions) /\ Once(callbacks')
      /\ \A u : u \in Range(callbacks') => u \in Range(callbacks) \/ u = x
      /\ thread' = thread => callbacks' = callbacks
  <2>1. CASE callbacks' = Append(callbacks, x) /\ thread'.pc = "return"
    <3>1. /\ Append(callbacks, x) \in Seq(Transactions)
          /\ \A u : u \in Range(Append(callbacks, x)) <=> u \in Range(callbacks) \/ u = x
          /\ Once(callbacks) /\ x \notin Range(callbacks) => Once(Append(callbacks, x))
      BY <1>6, QueueGrows
    <3>2. thread' # thread
      BY <1>2, <2>1
    <3>3. QED
      BY <1>1, <1>6, <2>1, <3>1, <3>2
  <2>2. CASE callbacks' = callbacks
    BY <1>6, <2>2
  <2>3. QED
    BY <1>3, <2>1, <2>2
<1>8. TypeOK'
  BY <1>2, <1>4, <1>5, <1>7 DEF DatabasesInv, TypeOK
<1>9. WorkKnown'
  BY <1>2, <1>5 DEF DatabasesInv, WorkKnown
<1>10. \A u \in Transactions : /\ Performing(u, "check")' => Performing(u, "check")
                               /\ Performing(u, "step")' => Performing(u, "step")
                               /\ Performing(u, "return")' => Performing(u, "step")
  BY <1>2 DEF Performing
<1>11. /\ \A u : u \in Working' => u \in Working
       /\ x \in Working' => thread' = thread
  BY <1>2, <1>10 DEF Working, Performing
<1>12. \A u \in Transactions \ {x} : Stay(u)
  BY <1>5, <1>7, <1>10, <1>11 DEF Stay, Working
<1>13. \A u \in Transactions \ {x} : Fits(u)'
  BY <1>4, <1>12, StaysFit DEF DatabasesInv
<1>14. Fits(x)'
  <2>1. x \notin Of(tasks)' /\ WaitsIn(x)' = {} /\ Doing(x)' = {}
    BY <1>1, <1>5 DEF WaitsIn, Doing
  <2>2. r.listens # None
    BY <1>1, <1>3 DEF Known, Becomes, Alike
  <2>3. CASE callbacks' = callbacks /\ thread' = thread /\ r.next = tx[x].next
    <3>1. r.next \in ThreadSteps
      BY <1>1, <2>3 DEF DatabasesInv, AllFit, Fits, Fit, Known
    <3>2. x \notin Range(callbacks)'
      BY <1>1, <2>3
    <3>3. QED
      BY <1>4, <2>1, <2>2, <3>1, <3>2 DEF Fits, Fit
  <2>4. CASE thread'.pc = "return"
    <3>1. x \notin Working'
      BY <2>4 DEF Working, Performing
    <3>2. x \in Range(callbacks)' =>
            r.next \in MainSteps /\ (r.next = "statement" /\ r.cur.err # "no" => r.cur.ecb)
      BY <1>1, <1>2, <1>3, <2>4
    <3>3. QED
      BY <1>4, <2>1, <2>2, <3>1, <3>2 DEF Fits, Fit
  <2>5. QED
    BY <1>3, <2>3, <2>4
<1>15. AllFit'
  BY <1>13, <1>14 DEF AllFit
<1>16. OnePlace'
  <2>1. Waiting' = Waiting /\ AtMain' = AtMain /\ Of(tasks)' = Of(tasks)
    BY <1>5 DEF Waiting, AtMain
  <2>2. x \notin Waiting /\ x \notin AtMain
    BY <1>1 DEF Waiting, AtMain
  <2>3. x \notin Range(callbacks)' \/ x \notin Working'
    BY <1>1, <1>7, <1>11
  <2>4. Apart(Of(tasks), Range(callbacks), Waiting, Working, AtMain)
    BY DEF DatabasesInv, OnePlace
  <2>5. PICK C2, W2 : C2 = Range(callbacks)' /\ W2 = Working'
    OBVIOUS
  <2>6. \A u : u # x => (u \in C2 => u \in Range(callbacks)) /\ (u \in W2 => u \in Working)
    BY <1>7, <1>11, <2>5
  <2>7. Apart(Of(tasks), C2, Waiting, W2, AtMain)
    BY <1>1, <2>2, <2>3, <2>4, <2>5, <2>6, ApartMoves
  <2>8. QED
    BY <1>5, <1>7, <2>1, <2>5, <2>7 DEF DatabasesInv, OnePlace
<1>17. OpenKnown'
  BY <1>1, <1>3, BecomesOpen
<1>18. Openings'
  <2>1. AllFind(tasks, db')
    BY <1>4, <1>6, FindsStill DEF DatabasesInv, Openings
  <2>2. thread'.pc # "check"
    BY <1>2
  <2>3. QED
    BY <1>5, <2>1, <2>2 DEF DatabasesInv, Openings
<1>19. QED
  BY <1>4, <1>8, <1>9, <1>15, <1>16, <1>17, <1>18 DEF DatabasesInv

-----------------------------------------------------------------------------
(* The end of a callback: the transaction goes back to the database        *)
(* thread, or the error callback runs at once.                             *)

Answer(x, r) ==
  /\ r \in Transaction /\ Alike(tx[x], r) /\ Sound(r) /\ r.sqlite = tx[x].sqlite
  /\ tx' = [tx EXCEPT ![x] = r]
  /\ UNCHANGED callbacks
  /\ \/ /\ tasks' = Append(tasks, TransactionTask(tx[x].db, x))
        /\ r.next \in ThreadSteps
        /\ main' = [at |-> "idle", x |-> None]
     \/ /\ UNCHANGED tasks
        /\ r.next = tx[x].next
        /\ main' = [at |-> "error", x |-> x]

Answered(x) ==
  /\ x \in Transactions /\ main.x = x
  /\ \E r : Answer(x, r)
  /\ MainFrame

LEMMA MainKnown ==
  ASSUME DatabasesInv, NEW x \in Transactions, main.x = x
  PROVE  /\ Known(x) /\ tx[x] \in Transaction /\ Alike(tx[x], tx[x]) /\ Sound(tx[x])
         /\ tx[x].next \in MainSteps
         /\ main.at # "error" => tx[x].next = main.at
         /\ x \notin Of(tasks) /\ x \notin Range(callbacks) /\ x \notin Working
         /\ \A d \in Databases : x \notin Range(waiting[d])
<1>1. Fits(x) /\ Sound(tx[x]) /\ main.at \in Doing(x)
  BY DEF DatabasesInv, AllFit, AllSound, Doing
<1>2. /\ tx[x].listens # None /\ tx[x].next \in MainSteps
      /\ main.at # "error" => tx[x].next = main.at
  BY <1>1 DEF Fits, Fit
<1>3. Apart(Of(tasks), Range(callbacks), Waiting, Working, AtMain) /\ x \in AtMain
  BY DEF DatabasesInv, OnePlace, AtMain
<1>4. x \notin Of(tasks) /\ x \notin Range(callbacks) /\ x \notin Waiting /\ x \notin Working
  BY <1>3 DEF Apart
<1>5. QED
  BY <1>1, <1>2, <1>4 DEF Known, Sound, Waiting, Alike, DatabasesInv, TypeOK

LEMMA ToThreadAnswer ==
  ASSUME DatabasesInv, NEW x, Known(x), NEW r \in Transaction, Alike(tx[x], r),
         r.sqlite = tx[x].sqlite, r.retry => r.cur # None, NEW s \in ThreadSteps,
         s = "cleanSuccess" => r.todo = <<>> /\ r.sqlite # "on",
         ToThread(x, r, s), MainIdle
  PROVE  \E n : Answer(x, n)
<1>1. PICK n : n = [r EXCEPT !.next = s]
  OBVIOUS
<1>2. /\ n \in Transaction /\ Alike(r, n) /\ n.next = s
      /\ n.todo = r.todo /\ n.cur = r.cur /\ n.sqlite = r.sqlite /\ n.retry = r.retry
  BY <1>1, NextSet DEF Steps
<1>3. Alike(tx[x], n)
  BY <1>2 DEF Alike
<1>4. s \notin {"success", "statement", "quota", None}
  BY NoneIsNone DEF ThreadSteps, Steps
<1>5. Sound(n)
  BY <1>2, <1>3, <1>4 DEF Sound, Known, Alike
<1>6. r.db = tx[x].db
  BY DEF Alike
<1>7. /\ tx' = [tx EXCEPT ![x] = n] /\ callbacks' = callbacks
      /\ tasks' = Append(tasks, TransactionTask(tx[x].db, x))
  BY <1>1, <1>6 DEF ToThread
<1>8. QED
  BY <1>2, <1>3, <1>5, <1>7 DEF Answer, MainIdle

LEMMA ErrorAnswer ==
  ASSUME DatabasesInv, NEW x, Known(x), NEW r \in Transaction, Alike(tx[x], r),
         r.sqlite = tx[x].sqlite, r.next = tx[x].next, Sound(r), ErrorInCallback(x, r)
  PROVE  \E n : Answer(x, n)
<1>1. CASE main' = [at |-> "error", x |-> x] /\ Stays(x, [r EXCEPT !.told = @ \cup {"error"}])
  <2>1. PICK n : n = [r EXCEPT !.told = @ \cup {"error"}]
    OBVIOUS
  <2>2. /\ n \in Transaction /\ Alike(r, n) /\ n.next = r.next
        /\ n.todo = r.todo /\ n.cur = r.cur /\ n.sqlite = r.sqlite /\ n.retry = r.retry
    BY <2>1, FlagsSet
  <2>3. Alike(tx[x], n)
    BY <2>2 DEF Alike
  <2>4. Sound(n)
    BY <2>2 DEF Sound, Alike
  <2>5. tx' = [tx EXCEPT ![x] = n] /\ tasks' = tasks /\ callbacks' = callbacks
    BY <1>1, <2>1 DEF Stays
  <2>6. QED
    BY <1>1, <2>2, <2>3, <2>4, <2>5 DEF Answer
<1>2. CASE ToThread(x, [r EXCEPT !.commits = FALSE], "cleanError") /\ MainIdle
  <2>1. PICK s : s = [r EXCEPT !.commits = FALSE]
    OBVIOUS
  <2>2. /\ s \in Transaction /\ Alike(r, s) /\ s.cur = r.cur /\ s.sqlite = r.sqlite
        /\ s.retry = r.retry
    BY <2>1, FlagsSet
  <2>3. Alike(tx[x], s) /\ s.sqlite = tx[x].sqlite /\ (s.retry => s.cur # None)
    BY <2>2 DEF Alike, Sound
  <2>4. "cleanError" \in ThreadSteps /\ "cleanError" # "cleanSuccess"
    BY DEF ThreadSteps
  <2>5. ToThread(x, s, "cleanError") /\ MainIdle
    BY <1>2, <2>1
  <2>6. QED
    BY <2>2, <2>3, <2>4, <2>5, ToThreadAnswer
<1>3. QED
  BY <1>1, <1>2 DEF ErrorInCallback

LEMMA TransactionCallbackAnswers ==
  ASSUME DatabasesInv, NEW x \in Transactions, NEW raised, EndTransactionCallback(x, raised)
  PROVE  Answered(x)
<1>1. main.x = x /\ MainFrame
  BY DEF EndTransactionCallback, Returning
<1>2. Known(x) /\ tx[x] \in Transaction /\ Alike(tx[x], tx[x]) /\ Sound(tx[x])
  BY <1>1, MainKnown
<1>3. CASE ErrorInCallback(x, tx[x])
  BY <1>1, <1>2, <1>3, ErrorAnswer DEF Answered
<1>4. CASE ToThread(x, tx[x], "run") /\ MainIdle
  <2>1. "run" \in ThreadSteps /\ "run" # "cleanSuccess" /\ (tx[x].retry => tx[x].cur # None)
    BY <1>2 DEF ThreadSteps, Sound
  <2>2. \E n : Answer(x, n)
    BY <1>2, <1>4, <2>1, ToThreadAnswer
  <2>3. QED
    BY <1>1, <2>2 DEF Answered
<1>5. QED
  BY <1>3, <1>4 DEF EndTransactionCallback

LEMMA StatementCallbackAnswers ==
  ASSUME DatabasesInv, NEW x \in Transactions, NEW failed \in BOOLEAN,
         EndStatementCallback(x, failed)
  PROVE  Answered(x)
<1>1. main = [at |-> "statement", x |-> x] /\ MainFrame
  BY DEF EndStatementCallback, Returning
<1>2. /\ Known(x) /\ tx[x] \in Transaction /\ Alike(tx[x], tx[x]) /\ Sound(tx[x])
      /\ tx[x].next = "statement"
  <2>1. main.x = x /\ main.at # "error" /\ main.at = "statement"
    BY <1>1
  <2>2. QED
    BY <2>1, MainKnown
<1>3. tx[x].cur # None /\ tx[x].cur \in Statement
  BY <1>2 DEF Sound, Transaction
<1>4. PICK c : c = [tx[x].cur EXCEPT !.cb = FALSE, !.ecb = FALSE,
                                     !.handled = tx[x].cur.err # "no" /\ ~failed]
  OBVIOUS
<1>5. c \in Statement
  BY <1>3, <1>4 DEF Statement
<1>6. PICK r : r = [tx[x] EXCEPT !.cur = c]
  OBVIOUS
<1>7. /\ r \in Transaction /\ Alike(tx[x], r) /\ r.sqlite = tx[x].sqlite /\ r.next = tx[x].next
      /\ r.cur # None /\ r.todo = tx[x].todo /\ r.retry = tx[x].retry
  BY <1>2, <1>5, <1>6, NoneIsNone DEF Transaction, Alike
<1>8. Sound(r)
  BY <1>2, <1>7 DEF Sound, Alike
<1>9. \/ ErrorInCallback(x, r)
      \/ ToThread(x, r, "run") /\ MainIdle
  BY <1>4, <1>6 DEF EndStatementCallback
<1>10. CASE ErrorInCallback(x, r)
  BY <1>1, <1>2, <1>7, <1>8, <1>10, ErrorAnswer DEF Answered
<1>11. CASE ToThread(x, r, "run") /\ MainIdle
  <2>1. "run" \in ThreadSteps /\ "run" # "cleanSuccess"
    BY DEF ThreadSteps
  <2>2. \E n : Answer(x, n)
    BY <1>2, <1>7, <1>11, <2>1, ToThreadAnswer
  <2>3. QED
    BY <1>1, <2>2 DEF Answered
<1>12. QED
  BY <1>9, <1>10, <1>11

LEMMA ErrorCallbackAnswers ==
  ASSUME DatabasesInv, NEW x \in Transactions, NEW keeps \in BOOLEAN, EndErrorCallback(x, keeps)
  PROVE  Answered(x)
<1>1. main.x = x /\ MainFrame /\ MainIdle
  BY DEF EndErrorCallback, Returning
<1>2. Known(x) /\ tx[x] \in Transaction /\ Alike(tx[x], tx[x]) /\ Sound(tx[x])
  BY <1>1, MainKnown
<1>3. PICK b, r : /\ b \in BOOLEAN /\ r = [tx[x] EXCEPT !.commits = b]
                  /\ ToThread(x, r, "cleanError")
  <2>1. PICK b : b = (tx[x].commits /\ keeps)
    OBVIOUS
  <2>2. [tx[x] EXCEPT !.commits = @ /\ keeps] = [tx[x] EXCEPT !.commits = b]
    BY <1>2, <2>1 DEF Transaction
  <2>3. b \in BOOLEAN
    BY <2>1
  <2>4. QED
    BY <2>2, <2>3 DEF EndErrorCallback
<1>4. /\ r \in Transaction /\ Alike(tx[x], r) /\ r.cur = tx[x].cur /\ r.sqlite = tx[x].sqlite
      /\ r.retry = tx[x].retry
  BY <1>2, <1>3, FlagsSet
<1>5. "cleanError" \in ThreadSteps /\ "cleanError" # "cleanSuccess"
  BY DEF ThreadSteps
<1>6. r.retry => r.cur # None
  BY <1>2, <1>4 DEF Sound
<1>7. \E n : Answer(x, n)
  BY <1>1, <1>2, <1>3, <1>4, <1>5, <1>6, ToThreadAnswer
<1>8. QED
  BY <1>1, <1>7 DEF Answered

LEMMA SuccessCallbackAnswers ==
  ASSUME DatabasesInv, NEW x \in Transactions, EndSuccessCallback(x)
  PROVE  Answered(x)
<1>1. main = [at |-> "success", x |-> x] /\ MainFrame /\ MainIdle
  BY DEF EndSuccessCallback, Returning
<1>2. /\ Known(x) /\ tx[x] \in Transaction /\ Alike(tx[x], tx[x]) /\ Sound(tx[x])
      /\ tx[x].next = "success"
  <2>1. main.x = x /\ main.at # "error" /\ main.at = "success"
    BY <1>1
  <2>2. QED
    BY <2>1, MainKnown
<1>3. PICK r : r = [tx[x] EXCEPT !.onSuccess = FALSE]
  OBVIOUS
<1>4. /\ r \in Transaction /\ Alike(tx[x], r) /\ r.cur = tx[x].cur /\ r.sqlite = tx[x].sqlite
      /\ r.todo = tx[x].todo /\ r.retry = tx[x].retry
  BY <1>2, <1>3, FlagsSet
<1>5. ToThread(x, r, "cleanSuccess") /\ "cleanSuccess" \in ThreadSteps
  BY <1>3 DEF EndSuccessCallback, ThreadSteps
<1>6. r.todo = <<>> /\ r.sqlite # "on" /\ (r.retry => r.cur # None)
  BY <1>2, <1>4 DEF Sound
<1>7. \E n : Answer(x, n)
  BY <1>1, <1>2, <1>4, <1>5, <1>6, ToThreadAnswer
<1>8. QED
  BY <1>1, <1>7 DEF Answered

(* A task for x at the end of the queue.                                   *)
LEMMA TaskAdded ==
  ASSUME DatabasesInv, NEW x \in Transactions, NEW d \in Databases, x \notin Of(tasks),
         tasks' = Append(tasks, TransactionTask(d, x))
  PROVE  /\ tasks' \in Seq(Task)
         /\ \A u : u \in Of(tasks)' => u \in Of(tasks) \/ u = x
         /\ KindsIn(tasks)' /\ OneTaskEach(tasks)' /\ OneOpening(tasks)'
         /\ \A s : AllFind(tasks, s) => AllFind(tasks', s)
         /\ \A t : (\A i \in 1..Len(tasks) : ~Twice(t, tasks[i]))
                     => \A i \in 1..Len(tasks') : ~Twice(t, tasks'[i])
<1>1. PICK e, q : e = TransactionTask(d, x) /\ q = Append(tasks, e)
  OBVIOUS
<1>2. e \in Task /\ e.kind = "transaction" /\ e.x = x
  BY <1>1 DEF TransactionTask, Task
<1>3. tasks \in Seq(Task) /\ KindsIn(tasks) /\ OneTaskEach(tasks) /\ OneOpening(tasks)
  BY DEF DatabasesInv, TypeOK, WorkKnown, OnePlace, Openings
<1>4. q \in Seq(Task) /\ More(q, tasks, e)
  BY <1>1, <1>2, <1>3, AppendMore
<1>5. TaskKind(e) /\ (\A t : ~Twice(e, t) /\ ~Twice(t, e)) /\ \A s : Finds(e, s)
  BY <1>2 DEF TaskKind, Twice, Finds
<1>6. /\ \A u : u \in Of(q) => u \in Of(tasks) \/ u = e.x
      /\ KindsIn(tasks) /\ TaskKind(e) => KindsIn(q)
      /\ OneTaskEach(tasks) /\ (e.x = None \/ e.x \notin Of(tasks)) => OneTaskEach(q)
      /\ OneOpening(tasks) /\ (\A i \in 1..Len(tasks) : ~Twice(e, tasks[i])) => OneOpening(q)
      /\ \A s : AllFind(tasks, s) /\ Finds(e, s) => AllFind(q, s)
  BY <1>4, TasksGrow
<1>7. ASSUME NEW t, \A i \in 1..Len(tasks) : ~Twice(t, tasks[i])
      PROVE  \A i \in 1..Len(q) : ~Twice(t, q[i])
  BY <1>4, <1>5, <1>7 DEF More
<1>8. tasks' = q
  BY <1>1
<1>9. QED
  BY <1>2, <1>3, <1>4, <1>5, <1>6, <1>7, <1>8

-----------------------------------------------------------------------------
(* The record of one transaction changes.                                  *)
LEMMA RecordSet ==
  ASSUME DatabasesInv, NEW x \in Transactions, NEW r \in Transaction, Sound(r),
         tx' = [tx EXCEPT ![x] = r]
  PROVE  /\ tx' \in [Transactions -> Transaction]
         /\ tx'[x] = r /\ \A u \in Transactions \ {x} : tx'[u] = tx[u]
         /\ AllSound'
         /\ \A u \in Transactions : tx'[u].next = None => tx'[u].todo = <<>>
<1>1. tx \in [Transactions -> Transaction]
  BY DEF DatabasesInv, TypeOK
<1>2. tx' \in [Transactions -> Transaction]
  BY <1>1
<1>3. tx'[x] = r /\ \A u \in Transactions \ {x} : tx'[u] = tx[u]
  BY <1>1
<1>4. \A u \in Transactions : Sound(tx'[u])
  BY <1>3 DEF DatabasesInv, AllSound
<1>5. \A u \in Transactions : tx'[u].next = None => tx'[u].todo = <<>>
  BY <1>4 DEF Sound
<1>6. QED
  BY <1>2, <1>3, <1>4, <1>5 DEF AllSound

LEMMA RecordOpen ==
  ASSUME DatabasesInv, NEW x \in Transactions, NEW r, tx' = [tx EXCEPT ![x] = r],
         r.db = tx[x].db \/ tx[x].sqlite # "on", r.sqlite = "on" <=> tx[x].sqlite = "on",
         \A d \in Databases : Held(On(d), db[d]) => Held(On(d), db'[d])
  PROVE  OpenKnown'
<1>1. tx'[x] = r /\ \A u \in Transactions \ {x} : tx'[u] = tx[u]
  BY DEF DatabasesInv, TypeOK
<1>2. \A d \in Databases : On(d)' = On(d)
  BY <1>1 DEF On
<1>3. QED
  BY <1>2, OpenStill DEF DatabasesInv

(* Nothing that matters to the tasks in hand.                              *)
LEMMA OpeningsStill ==
  ASSUME DatabasesInv, UNCHANGED <<tasks, db, thread>>
  PROVE  Openings'
BY DEF DatabasesInv, Openings

LEMMA AnsweredInv ==
  ASSUME DatabasesInv, NEW x, Answered(x)
  PROVE  DatabasesInv'
<1>1. PICK r : Answer(x, r)
  BY DEF Answered
<1>2. x \in Transactions /\ main.x = x /\ MainFrame
  BY DEF Answered
<1>3. /\ waiting' = waiting /\ db' = db /\ killed' = killed /\ thread' = thread /\ sync' = sync
      /\ committed' = committed /\ callbacks' = callbacks
  BY <1>1, <1>2 DEF MainFrame, Answer
<1>4. /\ Known(x) /\ tx[x].next \in MainSteps
      /\ x \notin Of(tasks) /\ x \notin Range(callbacks) /\ x \notin Working
      /\ \A d \in Databases : x \notin Range(waiting[d])
  BY <1>2, MainKnown
<1>5. /\ r \in Transaction /\ Alike(tx[x], r) /\ Sound(r) /\ r.sqlite = tx[x].sqlite
      /\ tx' = [tx EXCEPT ![x] = r]
  BY <1>1 DEF Answer
<1>6. /\ tx' \in [Transactions -> Transaction]
      /\ tx'[x] = r /\ \A u \in Transactions \ {x} : tx'[u] = tx[u]
      /\ AllSound'
      /\ \A u \in Transactions : tx'[u].next = None => tx'[u].todo = <<>>
  BY <1>2, <1>5, RecordSet
<1>7. OpenKnown'
  BY <1>2, <1>3, <1>5, RecordOpen DEF Alike
<1>8. PICK d \in Databases : d = tx[x].db
  BY <1>4 DEF Known
<1>9. /\ tasks' \in Seq(Task)
      /\ \A u : u \in Of(tasks)' => u \in Of(tasks) \/ u = x
      /\ KindsIn(tasks)' /\ OneTaskEach(tasks)' /\ OneOpening(tasks)'
      /\ \A s : AllFind(tasks, s) => AllFind(tasks', s)
      /\ \A t : (\A i \in 1..Len(tasks) : ~Twice(t, tasks[i]))
                  => \A i \in 1..Len(tasks') : ~Twice(t, tasks'[i])
  <2>1. CASE tasks' = Append(tasks, TransactionTask(d, x))
    BY <1>2, <1>4, <2>1, TaskAdded
  <2>2. CASE tasks' = tasks
    BY <2>2 DEF DatabasesInv, TypeOK, WorkKnown, OnePlace, Openings
  <2>3. QED
    BY <1>1, <1>8, <2>1, <2>2 DEF Answer
<1>10. \/ /\ r.next \in ThreadSteps
          /\ main' = [at |-> "idle", x |-> None]
       \/ /\ tasks' = tasks
          /\ r.next = tx[x].next
          /\ main' = [at |-> "error", x |-> x]
  BY <1>1 DEF Answer
<1>11. main' \in [at : {"idle"} \cup MainSteps, x : Transactions \cup {None}]
  BY <1>2, <1>10 DEF MainSteps
<1>12. TypeOK'
  BY <1>3, <1>6, <1>9, <1>11 DEF DatabasesInv, TypeOK
<1>13. WorkKnown'
  <2>1. main'.at = "idle" <=> main'.x = None
    BY <1>2, <1>10, NoneIsNone
  <2>2. QED
    BY <1>3, <1>9, <2>1 DEF DatabasesInv, WorkKnown
<1>14. Openings'
  BY <1>3, <1>9 DEF DatabasesInv, Openings
<1>15. Working' = Working
  BY <1>3 DEF Working, Performing
<1>16. \A u \in Transactions \ {x} : Stay(u)
  BY <1>2, <1>3, <1>9, <1>10, <1>15, NoneIsNone DEF Stay, Performing
<1>17. \A u \in Transactions \ {x} : Fits(u)'
  BY <1>6, <1>16, StaysFit DEF DatabasesInv
<1>18. Fits(x)'
  <2>1. x \notin Range(callbacks)' /\ WaitsIn(x)' = {} /\ x \notin Working'
    BY <1>3, <1>4, <1>15 DEF WaitsIn
  <2>2. r.listens # None
    BY <1>4, <1>5 DEF Known, Alike
  <2>3. CASE r.next \in ThreadSteps /\ main' = [at |-> "idle", x |-> None]
    <3>1. Doing(x)' = {}
      BY <1>2, <2>3, NoneIsNone DEF Doing
    <3>2. QED
      BY <1>6, <2>1, <2>2, <2>3, <3>1 DEF Fits, Fit
  <2>4. CASE tasks' = tasks /\ r.next = tx[x].next /\ main' = [at |-> "error", x |-> x]
    <3>1. Doing(x)' = {"error"} /\ x \notin Of(tasks)' /\ r.next \in MainSteps
      BY <1>4, <2>4 DEF Doing
    <3>2. QED
      BY <1>6, <2>1, <2>2, <3>1 DEF Fits, Fit
  <2>5. QED
    BY <1>10, <2>3, <2>4
<1>19. AllFit'
  BY <1>17, <1>18 DEF AllFit
<1>20. OnePlace'
  <2>1. Waiting' = Waiting /\ Range(callbacks)' = Range(callbacks)
    BY <1>3 DEF Waiting
  <2>2. x \notin Waiting
    BY <1>4 DEF Waiting
  <2>3. x \notin Of(tasks)' \/ x \notin AtMain'
    BY <1>2, <1>4, <1>10, NoneIsNone DEF AtMain
  <2>4. Apart(Of(tasks), Range(callbacks), Waiting, Working, AtMain)
    BY DEF DatabasesInv, OnePlace
  <2>5. PICK T2, M2 : T2 = Of(tasks)' /\ M2 = AtMain'
    OBVIOUS
  <2>6. \A u : u # x => (u \in T2 => u \in Of(tasks)) /\ (u \in M2 => u \in AtMain)
    BY <1>9, <1>10, <2>5, NoneIsNone DEF AtMain
  <2>7. Apart(T2, Range(callbacks), Waiting, Working, M2)
    BY <1>4, <2>2, <2>3, <2>4, <2>5, <2>6, ApartMoves
  <2>8. QED
    BY <1>3, <1>9, <1>15, <2>1, <2>5, <2>7 DEF DatabasesInv, OnePlace
<1>21. QED
  BY <1>6, <1>7, <1>12, <1>13, <1>14, <1>19, <1>20 DEF DatabasesInv

(* What the main thread finds in its queue.                                *)
LEMMA CallbackKnown ==
  ASSUME DatabasesInv, NEW x \in Transactions, Dispatched(x)
  PROVE  /\ Known(x) /\ tx[x] \in Transaction /\ Alike(tx[x], tx[x]) /\ Sound(tx[x])
         /\ tx[x].next \in MainSteps
         /\ tx[x].next = "statement" /\ tx[x].cur.err # "no" => tx[x].cur.ecb
         /\ x \notin Of(tasks) /\ x \notin Working /\ main.x = None
         /\ \A d \in Databases : x \notin Range(waiting[d])
         /\ Tail(callbacks) \in Seq(Transactions) /\ Once(Tail(callbacks))
         /\ x \in Range(callbacks) /\ x \notin Range(Tail(callbacks))
         /\ \A u : u \in Range(Tail(callbacks)) => u \in Range(callbacks)
<1>1. callbacks \in Seq(Transactions) /\ callbacks # <<>> /\ Head(callbacks) = x /\ Once(callbacks)
  BY DEF DatabasesInv, TypeOK, OnePlace, Dispatched
<1>2. /\ Tail(callbacks) \in Seq(Transactions) /\ Head(callbacks) \in Range(callbacks)
      /\ \A u : u \in Range(Tail(callbacks)) => u \in Range(callbacks)
      /\ Once(callbacks) => Once(Tail(callbacks)) /\ Head(callbacks) \notin Range(Tail(callbacks))
  BY <1>1, QueueShrinks
<1>3. x \in Range(callbacks)
  BY <1>1, <1>2
<1>4. Fits(x) /\ Sound(tx[x])
  BY DEF DatabasesInv, AllFit, AllSound
<1>5. /\ tx[x].listens # None /\ tx[x].next \in MainSteps
      /\ tx[x].next = "statement" /\ tx[x].cur.err # "no" => tx[x].cur.ecb
  BY <1>3, <1>4 DEF Fits, Fit
<1>6. Apart(Of(tasks), Range(callbacks), Waiting, Working, AtMain)
  BY DEF DatabasesInv, OnePlace
<1>7. x \notin Of(tasks) /\ x \notin Waiting /\ x \notin Working
  BY <1>3, <1>6 DEF Apart
<1>8. main.x = None
  BY DEF DatabasesInv, WorkKnown, Dispatched, Idle
<1>9. QED
  BY <1>1, <1>2, <1>3, <1>4, <1>5, <1>7, <1>8 DEF Known, Sound, Waiting, Alike, DatabasesInv, TypeOK

-----------------------------------------------------------------------------
(* A transaction whose database was stopped is over.                       *)
LEMMA StoppedBecomes ==
  ASSUME DatabasesInv, NEW x, Known(x), NEW r, r = closedChecked(tx[x]),
         tx' = [tx EXCEPT ![x] = r], UNCHANGED <<db, tasks, committed>>
  PROVE  /\ Becomes(x, r, db[tx[x].db])
         /\ ~db[tx[x].db].stopped => r = tx[x]
         /\ db[tx[x].db].stopped => r.next = None
<1>1. TypeOK /\ tx[x] \in Transaction /\ Sound(tx[x])
  BY DEF DatabasesInv, TypeOK, AllSound, Known
<1>2. PICK b : b = db[tx[x].db]
  OBVIOUS
<1>3. b \in Database
  BY <1>1, <1>2 DEF TypeOK, Known
<1>4. /\ r \in Transaction /\ Alike(tx[x], r) /\ r.cur = tx[x].cur /\ r.retry = tx[x].retry
      /\ ~b.stopped => r = tx[x]
      /\ b.stopped => r.next = None /\ r.todo = <<>> /\ r.sqlite = "none"
  BY <1>1, <1>2, Closed
<1>5. None \notin {"statement", "quota"}
  BY NoneIsNone DEF Steps, MainSteps
<1>6. Sound(r)
  BY <1>1, <1>4, <1>5 DEF Sound, Alike, Known
<1>7. Turned(x, tx[x], b, r, b)
  <2>1. CASE b.stopped
    <3>1. ASSUME NEW H \in SUBSET Transactions, Held(H, b)
          PROVE  Held({u \in Transactions : IF u = x THEN r.sqlite = "on" ELSE u \in H}, b)
      <4>1. {u \in Transactions : IF u = x THEN r.sqlite = "on" ELSE u \in H} \subseteq H
        BY <1>4, <2>1
      <4>2. QED
        BY <2>1, <3>1, <4>1 DEF Held
    <3>2. QED
      BY <3>1 DEF Turned
  <2>2. CASE ~b.stopped
    BY <1>4, <2>2, SameTurned DEF Known
  <2>3. QED
    BY <2>1, <2>2
<1>8. db' = [db EXCEPT ![tx[x].db] = b] /\ tasks' = tasks /\ committed' \subseteq Transactions
  BY <1>1, <1>2 DEF TypeOK
<1>9. QED
  BY <1>2, <1>3, <1>4, <1>6, <1>7, <1>8 DEF Becomes

LEMMA CheckClosedInv ==
  ASSUME DatabasesInv, NEW x \in Transactions, CheckClosed(x)
  PROVE  DatabasesInv'
<1>1. PICK r : r = closedChecked(tx[x])
  OBVIOUS
<1>2. /\ Performing(x, "check") /\ tx' = [tx EXCEPT ![x] = r]
      /\ thread' = [thread EXCEPT !.pc = IF r.next = None THEN "return" ELSE "step"]
      /\ waiting' = waiting /\ db' = db /\ killed' = killed /\ main' = main /\ sync' = sync
      /\ committed' = committed /\ tasks' = tasks /\ callbacks' = callbacks
  BY <1>1 DEF CheckClosed, Stays
<1>3. x \in Working
  BY <1>2 DEF Working
<1>4. Known(x)
  BY <1>3, WorkingKnown
<1>5. PICK b : b = db[tx[x].db]
  OBVIOUS
<1>6. /\ Becomes(x, r, b)
      /\ ~b.stopped => r = tx[x]
      /\ b.stopped => r.next = None
  BY <1>1, <1>2, <1>4, <1>5, StoppedBecomes
<1>7. /\ tx' \in [Transactions -> Transaction]
      /\ tx'[x] = r /\ \A u \in Transactions \ {x} : tx'[u] = tx[u]
      /\ AllSound'
      /\ \A u \in Transactions : tx'[u].next = None => tx'[u].todo = <<>>
  BY <1>4, <1>6, BecomesTyped
<1>8. OpenKnown'
  BY <1>4, <1>6, BecomesOpen
<1>9. thread \in [pc : {"idle", "check", "step", "return", "ended"}, task : Task \cup {None}]
  BY DEF DatabasesInv, TypeOK
<1>10. /\ thread' \in [pc : {"idle", "check", "step", "return", "ended"}, task : Task \cup {None}]
       /\ thread'.task = thread.task
       /\ thread'.pc \in {"step", "return"} /\ (thread'.pc = "step" <=> r.next # None)
  BY <1>2, <1>9
<1>11. thread.pc = "check" /\ thread.task.kind = "transaction" /\ thread.task.x = x
  BY <1>2 DEF Performing
<1>12. TypeOK'
  BY <1>2, <1>7, <1>10 DEF DatabasesInv, TypeOK
<1>13. WorkKnown'
  BY <1>2, <1>10, <1>11 DEF DatabasesInv, WorkKnown
<1>14. Openings'
  BY <1>2, <1>10 DEF DatabasesInv, Openings
<1>15. \A u \in Transactions \ {x} : ~Performing(u, "return")' /\ u \notin Working'
  BY <1>10, <1>11 DEF Performing, Working
<1>16. \A u \in Transactions \ {x} : Stay(u)
  BY <1>2, <1>15 DEF Stay
<1>17. \A u \in Transactions \ {x} : Fits(u)'
  BY <1>7, <1>16, StaysFit DEF DatabasesInv
<1>18. /\ x \notin Of(tasks) /\ x \notin Range(callbacks) /\ main.x # x
       /\ \A d \in Databases : x \notin Range(waiting[d])
  <2>1. Apart(Of(tasks), Range(callbacks), Waiting, Working, AtMain)
    BY DEF DatabasesInv, OnePlace
  <2>2. x \notin Of(tasks) /\ x \notin Range(callbacks) /\ x \notin Waiting /\ x \notin AtMain
    BY <1>3, <2>1 DEF Apart
  <2>3. QED
    BY <2>2 DEF Waiting, AtMain
<1>19. Fits(x)'
  <2>1. x \notin Of(tasks)' /\ x \notin Range(callbacks)' /\ WaitsIn(x)' = {} /\ Doing(x)' = {}
    BY <1>2, <1>18 DEF WaitsIn, Doing
  <2>2. r.listens # None
    BY <1>4, <1>6 DEF Known, Becomes, Alike
  <2>3. x \in Working' => r.next \in ThreadSteps
    <3>1. tx[x].next \in ThreadSteps
      BY <1>3 DEF DatabasesInv, AllFit, Fits, Fit
    <3>2. x \in Working' => thread'.pc # "return"
      BY <1>10 DEF Working, Performing
    <3>3. QED
      BY <1>6, <1>10, <3>1, <3>2
  <2>4. QED
    BY <1>7, <2>1, <2>2, <2>3 DEF Fits, Fit
<1>20. AllFit'
  BY <1>17, <1>19 DEF AllFit
<1>21. OnePlace'
  <2>1. /\ Waiting' = Waiting /\ AtMain' = AtMain /\ Of(tasks)' = Of(tasks)
        /\ Range(callbacks)' = Range(callbacks)
    BY <1>2 DEF Waiting, AtMain
  <2>2. Working' \subseteq Working
    BY <1>3, <1>15 DEF Working
  <2>3. Apart(Of(tasks), Range(callbacks), Waiting, Working, AtMain)
    BY DEF DatabasesInv, OnePlace
  <2>4. Apart(Of(tasks), Range(callbacks), Waiting, Working', AtMain)
    BY <2>2, <2>3 DEF Apart
  <2>5. QED
    BY <1>2, <2>1, <2>4 DEF DatabasesInv, OnePlace
<1>22. QED
  BY <1>7, <1>8, <1>12, <1>13, <1>14, <1>20, <1>21 DEF DatabasesInv

LEMMA DropCallbackInv ==
  ASSUME DatabasesInv, NEW x \in Transactions, DropCallback(x)
  PROVE  DatabasesInv'
<1>1. PICK r : r = closedChecked(tx[x])
  OBVIOUS
<1>2. /\ Dispatched(x) /\ tx' = [tx EXCEPT ![x] = r] /\ callbacks' = Tail(callbacks)
      /\ waiting' = waiting /\ db' = db /\ killed' = killed /\ main' = main /\ sync' = sync
      /\ committed' = committed /\ tasks' = tasks /\ thread' = thread
  BY <1>1 DEF DropCallback, MainFrame
<1>3. /\ Known(x)
      /\ x \notin Of(tasks) /\ x \notin Working /\ main.x = None
      /\ \A d \in Databases : x \notin Range(waiting[d])
      /\ Tail(callbacks) \in Seq(Transactions) /\ Once(Tail(callbacks))
      /\ x \in Range(callbacks) /\ x \notin Range(Tail(callbacks))
      /\ \A u : u \in Range(Tail(callbacks)) => u \in Range(callbacks)
  BY <1>2, CallbackKnown
<1>4. Becomes(x, r, db[tx[x].db])
  BY <1>1, <1>2, <1>3, StoppedBecomes
<1>5. /\ tx' \in [Transactions -> Transaction]
      /\ tx'[x] = r /\ \A u \in Transactions \ {x} : tx'[u] = tx[u]
      /\ AllSound'
      /\ \A u \in Transactions : tx'[u].next = None => tx'[u].todo = <<>>
  BY <1>3, <1>4, BecomesTyped
<1>6. OpenKnown'
  BY <1>3, <1>4, BecomesOpen
<1>7. TypeOK'
  BY <1>2, <1>3, <1>5 DEF DatabasesInv, TypeOK
<1>8. WorkKnown'
  BY <1>2 DEF DatabasesInv, WorkKnown
<1>9. Openings'
  BY <1>2, OpeningsStill
<1>10. Working' = Working
  BY <1>2 DEF Working, Performing
<1>11. \A u \in Transactions \ {x} : Stay(u)
  BY <1>2, <1>3, <1>10 DEF Stay, Performing
<1>12. \A u \in Transactions \ {x} : Fits(u)'
  BY <1>5, <1>11, StaysFit DEF DatabasesInv
<1>13. Fits(x)'
  <2>1. /\ x \notin Of(tasks)' /\ x \notin Range(callbacks)' /\ WaitsIn(x)' = {} /\ Doing(x)' = {}
        /\ x \notin Working'
    BY <1>2, <1>3, <1>10, NoneIsNone DEF WaitsIn, Doing
  <2>2. r.listens # None
    BY <1>3, <1>4 DEF Known, Becomes, Alike
  <2>3. QED
    BY <1>5, <2>1, <2>2 DEF Fits, Fit
<1>14. AllFit'
  BY <1>12, <1>13 DEF AllFit
<1>15. OnePlace'
  <2>1. Waiting' = Waiting /\ AtMain' = AtMain /\ Of(tasks)' = Of(tasks)
    BY <1>2 DEF Waiting, AtMain
  <2>2. Range(callbacks)' \subseteq Range(callbacks)
    BY <1>2, <1>3
  <2>3. Apart(Of(tasks), Range(callbacks), Waiting, Working, AtMain)
    BY DEF DatabasesInv, OnePlace
  <2>4. Apart(Of(tasks), Range(callbacks)', Waiting, Working, AtMain)
    BY <2>2, <2>3 DEF Apart
  <2>5. QED
    BY <1>2, <1>3, <1>10, <2>1, <2>4 DEF DatabasesInv, OnePlace
<1>16. QED
  BY <1>5, <1>6, <1>7, <1>8, <1>9, <1>14, <1>15 DEF DatabasesInv

LEMMA BeginCallbackInv ==
  ASSUME DatabasesInv, NEW x \in Transactions, BeginCallback(x)
  PROVE  DatabasesInv'
<1>1. PICK s : s = tx[x].next
  OBVIOUS
<1>2. /\ Dispatched(x) /\ callbacks' = Tail(callbacks)
      /\ s \in {"transaction", "statement", "error", "success"}
      /\ tx' = IF s \in {"error", "success"} THEN [tx EXCEPT ![x].told = @ \cup {s}] ELSE tx
      /\ main' = [at |-> s, x |-> x]
      /\ waiting' = waiting /\ db' = db /\ killed' = killed /\ sync' = sync
      /\ committed' = committed /\ tasks' = tasks /\ thread' = thread
  BY <1>1 DEF BeginCallback, MainFrame
<1>3. /\ Known(x) /\ tx[x] \in Transaction /\ Sound(tx[x])
      /\ tx[x].next = "statement" /\ tx[x].cur.err # "no" => tx[x].cur.ecb
      /\ x \notin Of(tasks) /\ x \notin Working /\ main.x = None
      /\ \A d \in Databases : x \notin Range(waiting[d])
      /\ Tail(callbacks) \in Seq(Transactions) /\ Once(Tail(callbacks))
      /\ x \in Range(callbacks) /\ x \notin Range(Tail(callbacks))
      /\ \A u : u \in Range(Tail(callbacks)) => u \in Range(callbacks)
  BY <1>2, CallbackKnown
<1>4. PICK r \in Transaction :
        /\ tx' = [tx EXCEPT ![x] = r] /\ Alike(tx[x], r) /\ r.next = s
        /\ r.todo = tx[x].todo /\ r.cur = tx[x].cur /\ r.sqlite = tx[x].sqlite
        /\ r.retry = tx[x].retry
  <2>1. CASE s \in {"error", "success"}
    <3>1. PICK r : r = [tx[x] EXCEPT !.told = @ \cup {s}]
      OBVIOUS
    <3>2. /\ r \in Transaction /\ Alike(tx[x], r) /\ r.next = tx[x].next
          /\ r.todo = tx[x].todo /\ r.cur = tx[x].cur /\ r.sqlite = tx[x].sqlite
          /\ r.retry = tx[x].retry
      BY <1>3, <2>1, <3>1, FlagsSet
    <3>3. tx' = [tx EXCEPT ![x] = r]
      BY <1>2, <2>1, <3>1
    <3>4. QED
      BY <1>1, <3>2, <3>3
  <2>2. CASE s \notin {"error", "success"}
    <3>1. tx' = [tx EXCEPT ![x] = tx[x]]
      BY <1>2, <2>2 DEF DatabasesInv, TypeOK
    <3>2. QED
      BY <1>1, <1>3, <3>1 DEF Alike
  <2>3. QED
    BY <2>1, <2>2
<1>5. Sound(r)
  BY <1>1, <1>3, <1>4 DEF Sound, Alike
<1>6. /\ tx' \in [Transactions -> Transaction]
      /\ tx'[x] = r /\ \A u \in Transactions \ {x} : tx'[u] = tx[u]
      /\ AllSound'
      /\ \A u \in Transactions : tx'[u].next = None => tx'[u].todo = <<>>
  BY <1>4, <1>5, RecordSet
<1>7. OpenKnown'
  BY <1>2, <1>4, RecordOpen DEF Alike
<1>8. main' \in [at : {"idle"} \cup MainSteps, x : Transactions \cup {None}] /\ s # "idle"
      /\ s \in MainSteps
  BY <1>2 DEF MainSteps
<1>9. TypeOK'
  BY <1>2, <1>3, <1>6, <1>8 DEF DatabasesInv, TypeOK
<1>10. WorkKnown'
  BY <1>2, <1>8, NoneIsNone DEF DatabasesInv, WorkKnown
<1>11. Openings'
  BY <1>2, OpeningsStill
<1>12. Working' = Working
  BY <1>2 DEF Working, Performing
<1>13. \A u \in Transactions \ {x} : Stay(u)
  BY <1>2, <1>3, <1>12 DEF Stay, Performing
<1>14. \A u \in Transactions \ {x} : Fits(u)'
  BY <1>6, <1>13, StaysFit DEF DatabasesInv
<1>15. Fits(x)'
  <2>1. /\ x \notin Of(tasks)' /\ x \notin Range(callbacks)' /\ WaitsIn(x)' = {} /\ Doing(x)' = {s}
        /\ x \notin Working'
    BY <1>2, <1>3, <1>12 DEF WaitsIn, Doing
  <2>2. r.listens # None
    BY <1>3, <1>4 DEF Known, Alike
  <2>3. r.next = "statement" /\ r.cur.err # "no" => r.cur.ecb
    BY <1>1, <1>3, <1>4
  <2>4. QED
    BY <1>4, <1>6, <1>8, <2>1, <2>2, <2>3 DEF Fits, Fit
<1>16. AllFit'
  BY <1>14, <1>15 DEF AllFit
<1>17. OnePlace'
  <2>1. Waiting' = Waiting /\ Of(tasks)' = Of(tasks) /\ AtMain' = {x}
    BY <1>2 DEF Waiting, AtMain
  <2>2. PICK C2 : C2 = Range(callbacks)'
    OBVIOUS
  <2>3. x \notin C2 /\ (\A u : u \in C2 => u \in Range(callbacks)) /\ x \notin Waiting
    BY <1>2, <1>3, <2>2 DEF Waiting
  <2>4. Apart(Of(tasks), Range(callbacks), Waiting, Working, AtMain)
    BY DEF DatabasesInv, OnePlace
  <2>5. Apart(Of(tasks), C2, Waiting, Working, {x})
    BY <1>3, <2>3, <2>4, ApartMoves
  <2>6. QED
    BY <1>2, <1>3, <1>12, <2>1, <2>2, <2>5 DEF DatabasesInv, OnePlace
<1>18. QED
  BY <1>6, <1>7, <1>9, <1>10, <1>11, <1>16, <1>17 DEF DatabasesInv

-----------------------------------------------------------------------------
LEMMA QuotaRecord ==
  ASSUME NEW r \in Transaction, Sound(r), r.next = "quota", NEW raise \in BOOLEAN,
         raise => r.cur.raises < MaxRaises
  PROVE  LET n == [r EXCEPT !.next = "run", !.retry = raise,
                            !.cur.raises = IF raise THEN @ + 1 ELSE @] IN
         n \in Transaction /\ Sound(n) /\ Alike(r, n) /\ n.next = "run" /\ n.sqlite = r.sqlite
<1>1. r.cur # None /\ r.cur \in Statement
  BY DEF Sound, Transaction
<1>2. PICK c : c = [r.cur EXCEPT !.raises = IF raise THEN @ + 1 ELSE @]
  OBVIOUS
<1>3. MaxRaises \in Nat /\ r.cur.raises \in 0 .. MaxRaises
  BY <1>1, DatabasesAssumption DEF DatabasesAssumption, Statement
<1>4. PICK m : m = IF raise THEN r.cur.raises + 1 ELSE r.cur.raises
  OBVIOUS
<1>5. m \in 0 .. MaxRaises
  BY <1>3, <1>4
<1>6. c = [r.cur EXCEPT !.raises = m]
  BY <1>2, <1>4
<1>7. c \in Statement
  BY <1>1, <1>5, <1>6 DEF Statement
<1>8. PICK n : n = [r EXCEPT !.next = "run", !.retry = raise, !.cur = c]
  OBVIOUS
<1>9. [r EXCEPT !.next = "run", !.retry = raise, !.cur.raises = IF raise THEN @ + 1 ELSE @] = n
  BY <1>2, <1>8 DEF Transaction
<1>10. "run" \in ThreadSteps
  BY DEF ThreadSteps
<1>11. n \in Transaction /\ Alike(r, n) /\ n.next = "run" /\ n.sqlite = r.sqlite /\ n.cur = c
  BY <1>7, <1>8, <1>10 DEF Transaction, Alike
<1>12. /\ "run" \notin {"success", "cleanSuccess", "statement", "quota", None} /\ c # None
       /\ r.listens # None
  BY <1>7, <1>10, NoneIsNone DEF Steps, MainSteps, Sound
<1>13. Sound(n)
  BY <1>11, <1>12 DEF Sound, Alike
<1>14. QED
  BY <1>9, <1>11, <1>13

LEMMA QuotaCallbackInv ==
  ASSUME DatabasesInv, NEW x \in Transactions, NEW raise \in BOOLEAN,
         deliverQuotaIncreaseCallback(x, raise)
  PROVE  DatabasesInv'
<1>1. PICK r : r = [tx[x] EXCEPT !.next = "run", !.retry = raise,
                                 !.cur.raises = IF raise THEN @ + 1 ELSE @]
  OBVIOUS
<1>2. /\ Dispatched(x) /\ callbacks' = Tail(callbacks)
      /\ tx[x].next = "quota" /\ (raise => tx[x].cur.raises < MaxRaises)
      /\ tasks' = Append(tasks, TransactionTask(tx[x].db, x))
      /\ waiting' = waiting /\ db' = db /\ killed' = killed /\ sync' = sync /\ main' = main
      /\ committed' = committed /\ thread' = thread
  BY DEF deliverQuotaIncreaseCallback, MainFrame
<1>3. /\ Known(x) /\ tx[x] \in Transaction /\ Sound(tx[x])
      /\ x \notin Of(tasks) /\ x \notin Working /\ main.x = None
      /\ \A d \in Databases : x \notin Range(waiting[d])
      /\ Tail(callbacks) \in Seq(Transactions) /\ Once(Tail(callbacks))
      /\ x \in Range(callbacks) /\ x \notin Range(Tail(callbacks))
      /\ \A u : u \in Range(Tail(callbacks)) => u \in Range(callbacks)
  BY <1>2, CallbackKnown
<1>4. tx' = [tx EXCEPT ![x] = r]
  BY <1>1 DEF deliverQuotaIncreaseCallback
<1>5. r \in Transaction /\ Sound(r) /\ Alike(tx[x], r) /\ r.next = "run" /\ r.sqlite = tx[x].sqlite
  BY <1>1, <1>2, <1>3, QuotaRecord
<1>6. /\ tx' \in [Transactions -> Transaction]
      /\ tx'[x] = r /\ \A u \in Transactions \ {x} : tx'[u] = tx[u]
      /\ AllSound'
      /\ \A u \in Transactions : tx'[u].next = None => tx'[u].todo = <<>>
  BY <1>4, <1>5, RecordSet
<1>7. OpenKnown'
  BY <1>2, <1>4, <1>5, RecordOpen DEF Alike
<1>8. PICK d \in Databases : d = tx[x].db
  BY <1>3 DEF Known
<1>9. /\ tasks' \in Seq(Task)
      /\ \A u : u \in Of(tasks)' => u \in Of(tasks) \/ u = x
      /\ KindsIn(tasks)' /\ OneTaskEach(tasks)' /\ OneOpening(tasks)'
      /\ \A s : AllFind(tasks, s) => AllFind(tasks', s)
      /\ \A t : (\A i \in 1..Len(tasks) : ~Twice(t, tasks[i]))
                  => \A i \in 1..Len(tasks') : ~Twice(t, tasks'[i])
  BY <1>2, <1>3, <1>8, TaskAdded
<1>10. TypeOK'
  BY <1>2, <1>3, <1>6, <1>9 DEF DatabasesInv, TypeOK
<1>11. WorkKnown'
  BY <1>2, <1>9 DEF DatabasesInv, WorkKnown
<1>12. Openings'
  BY <1>2, <1>9 DEF DatabasesInv, Openings
<1>13. Working' = Working
  BY <1>2 DEF Working, Performing
<1>14. \A u \in Transactions \ {x} : Stay(u)
  BY <1>2, <1>3, <1>9, <1>13 DEF Stay, Performing
<1>15. \A u \in Transactions \ {x} : Fits(u)'
  BY <1>6, <1>14, StaysFit DEF DatabasesInv
<1>16. Fits(x)'
  <2>1. /\ x \notin Range(callbacks)' /\ WaitsIn(x)' = {} /\ Doing(x)' = {}
        /\ x \notin Working'
    BY <1>2, <1>3, <1>13, NoneIsNone DEF WaitsIn, Doing
  <2>2. r.listens # None /\ r.next \in ThreadSteps
    BY <1>3, <1>5 DEF Known, Alike, ThreadSteps
  <2>3. QED
    BY <1>6, <2>1, <2>2 DEF Fits, Fit
<1>17. AllFit'
  BY <1>15, <1>16 DEF AllFit
<1>18. OnePlace'
  <2>1. Waiting' = Waiting /\ AtMain' = AtMain
    BY <1>2 DEF Waiting, AtMain
  <2>2. PICK C2, T2 : C2 = Range(callbacks)' /\ T2 = Of(tasks)'
    OBVIOUS
  <2>3. /\ x \notin C2 /\ (\A u : u \in C2 => u \in Range(callbacks)) /\ x \notin Waiting
        /\ \A u : u # x => (u \in T2 => u \in Of(tasks))
        /\ x \notin AtMain
    BY <1>2, <1>3, <1>9, <2>2, NoneIsNone DEF Waiting, AtMain
  <2>4. Apart(Of(tasks), Range(callbacks), Waiting, Working, AtMain)
    BY DEF DatabasesInv, OnePlace
  <2>5. Apart(T2, C2, Waiting, Working, AtMain)
    BY <1>3, <2>3, <2>4, ApartMoves
  <2>6. QED
    BY <1>2, <1>3, <1>9, <1>13, <2>1, <2>2, <2>5 DEF DatabasesInv, OnePlace
<1>19. QED
  BY <1>6, <1>7, <1>10, <1>11, <1>12, <1>17, <1>18 DEF DatabasesInv

(* Where nobody moves.                                                     *)
LEMMA PlacesStill ==
  ASSUME DatabasesInv, UNCHANGED <<waiting, callbacks, main>>,
         \A u : u \in Of(tasks') => u \in Of(tasks) \/ u = None,
         OneTaskEach(tasks'),
         \A u \in Transactions : /\ u \in Working' => u \in Working
                                 /\ Performing(u, "return")' => Performing(u, "return"),
         \A u \in Transactions : tx'[u] = tx[u]
  PROVE  AllFit' /\ OnePlace' /\ AllSound'
<1>1. \A u \in Transactions : Stay(u)
  BY NoneIsNone DEF Stay
<1>2. \A u \in Transactions : Fits(u)'
  BY <1>1, StaysFit DEF DatabasesInv
<1>3. Waiting' = Waiting /\ AtMain' = AtMain /\ Range(callbacks)' = Range(callbacks)
  BY DEF Waiting, AtMain
<1>4. Working' \subseteq Working
  BY DEF Working
<1>5. Apart(Of(tasks), Range(callbacks), Waiting, Working, AtMain)
  BY DEF DatabasesInv, OnePlace
<1>6. None \notin Range(callbacks) /\ None \notin Waiting /\ None \notin Working /\ None \notin AtMain
  <2>1. callbacks \in Seq(Transactions) /\ \A d \in Databases : waiting[d] \in Seq(Transactions)
    BY DEF DatabasesInv, TypeOK
  <2>2. None \notin Range(callbacks)
    BY <2>1, InRange, NoneIsNone, ElementOfSeq
  <2>3. \A d \in Databases : None \notin Range(waiting[d])
    BY <2>1, InRange, NoneIsNone, ElementOfSeq
  <2>4. QED
    BY <2>2, <2>3, NoneIsNone DEF Waiting, Working, AtMain
<1>7. PICK T2 : T2 = Of(tasks')
  OBVIOUS
<1>8. T2 \subseteq Of(tasks) \cup {None}
  BY <1>7
<1>9. Apart(T2, Range(callbacks), Waiting, Working', AtMain)
  BY <1>4, <1>5, <1>6, <1>8 DEF Apart
<1>10. OnePlace'
  BY <1>3, <1>7, <1>9 DEF OnePlace, DatabasesInv
<1>11. AllSound'
  BY DEF DatabasesInv, AllSound
<1>12. QED
  BY <1>2, <1>10, <1>11 DEF AllFit

LEMMA PerformOpenInv ==
  ASSUME DatabasesInv, NEW opens \in BOOLEAN, PerformOpen(opens)
  PROVE  DatabasesInv'
<1>1. PICK d, s : d = thread.task.d /\ s = IF opens THEN "open" ELSE "failed"
  OBVIOUS
<1>2. /\ thread.pc = "check" /\ thread.task.kind = "open"
      /\ db' = [db EXCEPT ![d].sqlite = s]
      /\ sync' = None
      /\ thread' = [pc |-> "idle", task |-> None]
      /\ tx' = tx /\ waiting' = waiting /\ tasks' = tasks /\ killed' = killed
      /\ callbacks' = callbacks /\ main' = main /\ committed' = committed
  BY <1>1 DEF PerformOpen
<1>3. /\ thread.task \in Task /\ Finds(thread.task, db)
      /\ \A i \in 1..Len(tasks) : ~Twice(thread.task, tasks[i])
      /\ AllFind(tasks, db)
  BY <1>2 DEF DatabasesInv, WorkKnown, Openings
<1>4. d \in Databases /\ db[d].sqlite = "opening"
  BY <1>1, <1>2, <1>3 DEF Task, Finds
<1>5. /\ db \in [Databases -> Database] /\ tasks \in Seq(Task) /\ s \in {"open", "failed"}
      /\ \A e \in Databases : Held(On(e), db[e])
  BY <1>1 DEF DatabasesInv, TypeOK, OpenKnown
<1>6. PICK b : b = [db[d] EXCEPT !.sqlite = s]
  OBVIOUS
<1>7. b \in Database /\ b.sqlite = s
  BY <1>4, <1>5, <1>6 DEF Database
<1>8. db' = [db EXCEPT ![d] = b]
  BY <1>2, <1>6
<1>9. db' \in [Databases -> Database] /\ db'[d] = b /\ \A e \in Databases \ {d} : db'[e] = db[e]
  BY <1>4, <1>5, <1>7, <1>8
<1>10. TypeOK'
  BY <1>2, <1>9 DEF DatabasesInv, TypeOK
<1>11. WorkKnown'
  BY <1>2 DEF DatabasesInv, WorkKnown
<1>12. OpenKnown'
  <2>1. \A e \in Databases : On(e)' = On(e)
    BY <1>2 DEF On
  <2>2. Held(On(d), b)
    BY <1>4, <1>5, <1>7 DEF Held
  <2>3. QED
    BY <1>5, <1>9, <2>1, <2>2 DEF OpenKnown
<1>13. Openings'
  <2>1. ASSUME NEW i \in 1..Len(tasks) PROVE Finds(tasks[i], db')
    <3>1. tasks[i] \in Task
      BY <1>5, ElementOfSeq
    <3>2. tasks[i].d \in Databases /\ Finds(tasks[i], db) /\ ~Twice(thread.task, tasks[i])
      BY <1>3, <3>1 DEF Task, AllFind
    <3>3. CASE tasks[i].d = d
      BY <1>1, <1>2, <1>4, <3>2, <3>3 DEF Finds, Twice
    <3>4. CASE tasks[i].d # d
      BY <1>9, <3>2, <3>4 DEF Finds
    <3>5. QED
      BY <3>3, <3>4
  <2>2. QED
    BY <1>2, <2>1 DEF DatabasesInv, Openings, AllFind
<1>14. /\ \A u : u \in Of(tasks') => u \in Of(tasks) \/ u = None
       /\ \A u \in Transactions : (u \in Working' => u \in Working) /\ ~Performing(u, "return")'
  BY <1>2 DEF Working, Performing
<1>15. AllFit' /\ OnePlace' /\ AllSound'
  <2>1. /\ UNCHANGED <<waiting, callbacks, main>> /\ OneTaskEach(tasks')
        /\ \A u \in Transactions : tx'[u] = tx[u]
    BY <1>2 DEF DatabasesInv, OnePlace
  <2>2. QED
    BY <1>14, <2>1, PlacesStill
<1>16. QED
  BY <1>10, <1>11, <1>12, <1>13, <1>15 DEF DatabasesInv

LEMMA PerformCloseInv ==
  ASSUME DatabasesInv, PerformClose
  PROVE  DatabasesInv'
<1>1. PICK d : d = thread.task.d
  OBVIOUS
<1>2. /\ thread.pc = "check" /\ thread.task.kind = "close"
      /\ db' = [db EXCEPT ![d].sqlite = "closed"]
      /\ sync' = None
      /\ thread' = [pc |-> "idle", task |-> None]
      /\ tx' = tx /\ waiting' = waiting /\ tasks' = tasks /\ killed' = killed
      /\ callbacks' = callbacks /\ main' = main /\ committed' = committed
  BY <1>1 DEF PerformClose
<1>3. /\ thread.task \in Task /\ Finds(thread.task, db) /\ AllFind(tasks, db)
  BY <1>2 DEF DatabasesInv, WorkKnown, Openings
<1>4. d \in Databases /\ db[d].sqlite \in {"open", "begun", "closed"}
  BY <1>1, <1>2, <1>3 DEF Task, Finds
<1>5. /\ db \in [Databases -> Database] /\ tasks \in Seq(Task)
      /\ \A e \in Databases : Held(On(e), db[e])
  BY DEF DatabasesInv, TypeOK, OpenKnown
<1>6. PICK b : b = [db[d] EXCEPT !.sqlite = "closed"]
  OBVIOUS
<1>7. b \in Database /\ b.sqlite = "closed"
  BY <1>4, <1>5, <1>6 DEF Database
<1>8. db' = [db EXCEPT ![d] = b]
  BY <1>2, <1>6
<1>9. db' \in [Databases -> Database] /\ db'[d] = b /\ \A e \in Databases \ {d} : db'[e] = db[e]
  BY <1>4, <1>5, <1>7, <1>8
<1>10. TypeOK'
  BY <1>2, <1>9 DEF DatabasesInv, TypeOK
<1>11. WorkKnown'
  BY <1>2 DEF DatabasesInv, WorkKnown
<1>12. OpenKnown'
  <2>1. \A e \in Databases : On(e)' = On(e)
    BY <1>2 DEF On
  <2>2. Held(On(d), b)
    BY <1>4, <1>5, <1>7 DEF Held
  <2>3. QED
    BY <1>5, <1>9, <2>1, <2>2 DEF OpenKnown
<1>13. Openings'
  <2>1. ASSUME NEW i \in 1..Len(tasks) PROVE Finds(tasks[i], db')
    <3>1. tasks[i] \in Task
      BY <1>5, ElementOfSeq
    <3>2. tasks[i].d \in Databases /\ Finds(tasks[i], db)
      BY <1>3, <3>1 DEF Task, AllFind
    <3>3. CASE tasks[i].d = d
      BY <1>4, <1>7, <1>9, <3>2, <3>3 DEF Finds
    <3>4. CASE tasks[i].d # d
      BY <1>9, <3>2, <3>4 DEF Finds
    <3>5. QED
      BY <3>3, <3>4
  <2>2. QED
    BY <1>2, <2>1 DEF DatabasesInv, Openings, AllFind
<1>14. /\ \A u : u \in Of(tasks') => u \in Of(tasks) \/ u = None
       /\ \A u \in Transactions : (u \in Working' => u \in Working) /\ ~Performing(u, "return")'
  BY <1>2 DEF Working, Performing
<1>15. AllFit' /\ OnePlace' /\ AllSound'
  <2>1. /\ UNCHANGED <<waiting, callbacks, main>> /\ OneTaskEach(tasks')
        /\ \A u \in Transactions : tx'[u] = tx[u]
    BY <1>2 DEF DatabasesInv, OnePlace
  <2>2. QED
    BY <1>14, <2>1, PlacesStill
<1>16. QED
  BY <1>10, <1>11, <1>12, <1>13, <1>15 DEF DatabasesInv

LEMMA ThreadEndsInv ==
  ASSUME DatabasesInv, ThreadEnds
  PROVE  DatabasesInv'
<1>1. /\ thread' = [pc |-> "ended", task |-> None]
      /\ tx' = tx /\ waiting' = waiting /\ tasks' = tasks /\ killed' = killed /\ db' = db
      /\ callbacks' = callbacks /\ main' = main /\ committed' = committed /\ sync' = sync
  BY DEF ThreadEnds
<1>2. TypeOK'
  BY <1>1 DEF DatabasesInv, TypeOK
<1>3. WorkKnown' /\ Openings'
  BY <1>1 DEF DatabasesInv, WorkKnown, Openings
<1>4. OpenKnown'
  BY <1>1 DEF DatabasesInv, OpenKnown, On
<1>5. /\ \A u : u \in Of(tasks') => u \in Of(tasks) \/ u = None
      /\ \A u \in Transactions : (u \in Working' => u \in Working) /\ ~Performing(u, "return")'
  BY <1>1 DEF Working, Performing
<1>6. AllFit' /\ OnePlace' /\ AllSound'
  <2>1. /\ UNCHANGED <<waiting, callbacks, main>> /\ OneTaskEach(tasks')
        /\ \A u \in Transactions : tx'[u] = tx[u]
    BY <1>1 DEF DatabasesInv, OnePlace
  <2>2. QED
    BY <1>5, <2>1, PlacesStill
<1>7. QED
  BY <1>2, <1>3, <1>4, <1>6 DEF DatabasesInv

-----------------------------------------------------------------------------
LEMMA TakeTaskInv ==
  ASSUME DatabasesInv, TakeTask
  PROVE  DatabasesInv'
<1>1. PICK t : t = Head(tasks)
  OBVIOUS
<1>2. /\ thread.pc = "idle" /\ tasks # <<>>
      /\ thread' = [pc |-> "check", task |-> t]
      /\ tasks' = Tail(tasks)
      /\ tx' = tx /\ waiting' = waiting /\ killed' = killed /\ db' = db
      /\ callbacks' = callbacks /\ main' = main /\ committed' = committed /\ sync' = sync
  BY <1>1 DEF TakeTask
<1>3. /\ tasks \in Seq(Task) /\ KindsIn(tasks) /\ OneTaskEach(tasks) /\ OneOpening(tasks)
      /\ AllFind(tasks, db)
  BY DEF DatabasesInv, TypeOK, WorkKnown, OnePlace, Openings
<1>4. PICK q : q = Tail(tasks)
  OBVIOUS
<1>5. /\ q \in Seq(Task) /\ t \in Task /\ Part(q, tasks) /\ 1 \in 1..Len(tasks) /\ tasks[1] = t
      /\ \E p \in [1..Len(q) -> 1..Len(tasks)] :
           /\ \A i, j \in 1..Len(q) : p[i] = p[j] => i = j
           /\ \A i \in 1..Len(q) : q[i] = tasks[p[i]] /\ p[i] # 1
  <2>1. /\ Tail(tasks) \in Seq(Task) /\ Head(tasks) \in Task /\ Part(Tail(tasks), tasks)
        /\ 1 \in 1..Len(tasks) /\ tasks[1] = Head(tasks)
    BY <1>2, <1>3, TailPart
  <2>2. \E p \in [1..Len(q) -> 1..Len(tasks)] :
           /\ \A i, j \in 1..Len(q) : p[i] = p[j] => i = j
           /\ \A i \in 1..Len(q) : q[i] = tasks[p[i]] /\ p[i] # 1
    <3>1. \E p \in [1..Len(Tail(tasks)) -> 1..Len(tasks)] :
             /\ \A i, j \in 1..Len(Tail(tasks)) : p[i] = p[j] => i = j
             /\ \A i \in 1..Len(Tail(tasks)) : Tail(tasks)[i] = tasks[p[i]] /\ p[i] # 1
      BY <1>2, <1>3, TailPart
    <3>2. QED
      BY <1>4, <3>1
  <2>3. QED
    BY <1>1, <1>4, <2>1, <2>2
<1>6. PICK p \in [1..Len(q) -> 1..Len(tasks)] : \A i \in 1..Len(q) : q[i] = tasks[p[i]] /\ p[i] # 1
  BY <1>5
<1>7. /\ Of(q) \subseteq Of(tasks) /\ KindsIn(q) /\ OneTaskEach(q) /\ OneOpening(q)
      /\ AllFind(q, db)
  BY <1>3, <1>5, TasksShrink
<1>8. TaskKind(t) /\ Finds(t, db) /\ t.x \in Of(tasks)
  BY <1>3, <1>5 DEF KindsIn, AllFind, Of
<1>9. \A i \in 1..Len(q) : ~Twice(t, q[i])
  BY <1>3, <1>5, <1>6 DEF OneOpening
<1>10. t.x # None => t.x \notin Of(q)
  <2> SUFFICES ASSUME t.x # None, t.x \in Of(q) PROVE FALSE
    OBVIOUS
  <2>1. PICK i \in 1..Len(q) : q[i].x = t.x
    BY DEF Of
  <2>2. tasks[p[i]].x = tasks[1].x /\ p[i] # 1 /\ p[i] \in 1..Len(tasks)
    BY <1>5, <1>6, <2>1
  <2>3. QED
    BY <1>3, <1>5, <2>2 DEF OneTaskEach
<1>11. tasks' = q /\ thread'.pc = "check" /\ thread'.task = t
  BY <1>2, <1>4
<1>12. TypeOK'
  BY <1>2, <1>5, <1>11 DEF DatabasesInv, TypeOK
<1>13. WorkKnown'
  BY <1>2, <1>5, <1>7, <1>8, <1>11 DEF DatabasesInv, WorkKnown
<1>14. Openings'
  BY <1>2, <1>7, <1>8, <1>9, <1>11 DEF Openings
<1>15. OpenKnown' /\ AllSound'
  BY <1>2 DEF DatabasesInv, OpenKnown, On, AllSound
<1>16. /\ \A u \in Transactions : Performing(u, "check")' => u = t.x /\ t.kind = "transaction"
       /\ \A u \in Transactions : ~Performing(u, "step")' /\ ~Performing(u, "return")'
       /\ Working = {}
  BY <1>2, <1>11 DEF Performing, Working
<1>17. \A u \in Transactions : u # t.x => Stay(u)
  BY <1>2, <1>7, <1>11, <1>16 DEF Stay, Working
<1>18. ASSUME NEW u \in Transactions, u # t.x PROVE Fits(u)'
  BY <1>2, <1>17, <1>18, StaysFit DEF DatabasesInv
<1>19. ASSUME t.x \in Transactions PROVE Fits(t.x)'
  <2>1. PICK x \in Transactions : x = t.x
    BY <1>19
  <2>2. x \in Of(tasks) /\ x # None
    BY <1>8, <2>1, NoneIsNone
  <2>3. Apart(Of(tasks), Range(callbacks), Waiting, Working, AtMain)
    BY DEF DatabasesInv, OnePlace
  <2>4. x \notin Range(callbacks) /\ x \notin Waiting /\ x \notin AtMain
    BY <2>2, <2>3 DEF Apart
  <2>5. /\ x \notin Of(tasks)' /\ x \notin Range(callbacks)' /\ WaitsIn(x)' = {} /\ Doing(x)' = {}
        /\ ~Performing(x, "return")'
    BY <1>2, <1>10, <1>11, <1>16, <2>1, <2>2, <2>4 DEF WaitsIn, Doing, Waiting, AtMain
  <2>6. tx[x].listens # None /\ tx[x].next \in ThreadSteps
    BY <2>2 DEF DatabasesInv, AllFit, Fits, Fit
  <2>7. Fits(x)'
    BY <1>2, <2>5, <2>6 DEF Fits, Fit
  <2>8. QED
    BY <2>1, <2>7
<1>20. AllFit'
  BY <1>18, <1>19 DEF AllFit
<1>21. OnePlace'
  <2>1. Waiting' = Waiting /\ AtMain' = AtMain /\ Range(callbacks)' = Range(callbacks)
    BY <1>2 DEF Waiting, AtMain
  <2>2. Apart(Of(tasks), Range(callbacks), Waiting, Working, AtMain)
    BY DEF DatabasesInv, OnePlace
  <2>3. PICK K2, x : K2 = Working' /\ x = t.x
    OBVIOUS
  <2>4. (\A u : u \in K2 => u = x) /\ (x \in K2 => x # None /\ x \notin Of(q))
    BY <1>10, <1>16, <2>3, NoneIsNone DEF Working
  <2>5. CASE K2 = {}
    BY <1>2, <1>7, <1>11, <2>1, <2>2, <2>3, <2>5 DEF Apart, DatabasesInv, OnePlace
  <2>6. CASE K2 # {}
    <3>1. x \in K2
      BY <2>4, <2>6
    <3>2. x \in Of(tasks) /\ x \notin Of(q)
      BY <1>8, <2>3, <2>4, <3>1
    <3>3. x \notin Range(callbacks) /\ x \notin Waiting /\ x \notin AtMain
      BY <2>2, <3>2 DEF Apart
    <3>4. PICK T2 : T2 = Of(q)
      OBVIOUS
    <3>5. T2 \subseteq Of(tasks) /\ K2 = {x} /\ x \notin T2
      BY <1>7, <2>4, <3>1, <3>2, <3>4
    <3>6. Apart(T2, Range(callbacks), Waiting, K2, AtMain)
      BY <2>2, <3>3, <3>5 DEF Apart
    <3>7. QED
      BY <1>2, <1>7, <1>11, <2>1, <2>3, <3>4, <3>6 DEF DatabasesInv, OnePlace
  <2>7. QED
    BY <2>5, <2>6
<1>22. QED
  BY <1>12, <1>13, <1>14, <1>15, <1>20, <1>21 DEF DatabasesInv

(* executeSql.                                                             *)
LEMMA ExecuteInv ==
  ASSUME DatabasesInv, NEW x \in Transactions, NEW s \in Statements, executeSQL(x, s)
  PROVE  DatabasesInv'
<1>1. PICK c : c = [cb |-> s.cb, ecb |-> s.ecb, raises |-> 0, handled |-> FALSE,
                    err |-> IF db[tx[x].db].deleted THEN "fault" ELSE "no"]
  OBVIOUS
<1>2. /\ main.x = x /\ main.at \in {"transaction", "statement"}
      /\ tx' = [tx EXCEPT ![x].executed = @ + 1, ![x].todo = Append(@, c)]
      /\ waiting' = waiting /\ db' = db /\ killed' = killed /\ sync' = sync /\ main' = main
      /\ committed' = committed /\ thread' = thread /\ tasks' = tasks /\ callbacks' = callbacks
  BY <1>1 DEF executeSQL, MainFrame
<1>3. s \in [cb : BOOLEAN, ecb : BOOLEAN] /\ MaxRaises \in Nat
  BY DatabasesAssumption DEF DatabasesAssumption
<1>4. c \in Statement
  BY <1>1, <1>3 DEF Statement
<1>5. /\ Known(x) /\ tx[x] \in Transaction /\ Sound(tx[x])
      /\ tx[x].next = main.at /\ main.at # "error"
  <2>1. main.at # "error"
    BY <1>2
  <2>2. QED
    BY <1>2, <2>1, MainKnown
<1>6. PICK q, n : q = Append(tx[x].todo, c) /\ n = tx[x].executed + 1
  OBVIOUS
<1>7. tx[x].todo \in Seq(Statement) /\ tx[x].executed \in Nat
  BY <1>5 DEF Transaction
<1>8. q \in Seq(Statement) /\ n \in Nat
  BY <1>4, <1>6, <1>7, AppendProperties
<1>9. PICK r : r = [tx[x] EXCEPT !.executed = n, !.todo = q]
  OBVIOUS
<1>10. /\ r \in Transaction /\ Alike(tx[x], r) /\ r.next = tx[x].next /\ r.sqlite = tx[x].sqlite
       /\ r.cur = tx[x].cur /\ r.retry = tx[x].retry
  BY <1>5, <1>8, <1>9 DEF Transaction, Alike
<1>11. tx' = [tx EXCEPT ![x] = r]
  <2>1. tx \in [Transactions -> Transaction]
    BY DEF DatabasesInv, TypeOK
  <2>2. QED
    BY <1>2, <1>5, <1>6, <1>9, <2>1 DEF Transaction
<1>12. r.next \notin {"success", "cleanSuccess", None}
  BY <1>2, <1>5, <1>10, NoneIsNone DEF Steps, MainSteps
<1>13. Sound(r)
  BY <1>5, <1>10, <1>12 DEF Sound, Alike
<1>14. /\ tx' \in [Transactions -> Transaction]
       /\ tx'[x] = r /\ \A u \in Transactions \ {x} : tx'[u] = tx[u]
       /\ AllSound'
       /\ \A u \in Transactions : tx'[u].next = None => tx'[u].todo = <<>>
  BY <1>10, <1>11, <1>13, RecordSet
<1>15. OpenKnown'
  BY <1>2, <1>10, <1>11, RecordOpen DEF Alike
<1>16. TypeOK'
  BY <1>2, <1>14 DEF DatabasesInv, TypeOK
<1>17. WorkKnown'
  BY <1>2 DEF DatabasesInv, WorkKnown
<1>18. Openings'
  BY <1>2, OpeningsStill
<1>19. Working' = Working
  BY <1>2 DEF Working, Performing
<1>20. \A u \in Transactions : Stay(u)
  BY <1>2, <1>19 DEF Stay, Performing
<1>21. \A u \in Transactions \ {x} : Fits(u)'
  BY <1>14, <1>20, StaysFit DEF DatabasesInv
<1>22. Fits(x)'
  <2>1. Fits(x)
    BY DEF DatabasesInv, AllFit
  <2>2. /\ (x \in Of(tasks))' = (x \in Of(tasks)) /\ (x \in Range(callbacks))' = (x \in Range(callbacks))
        /\ WaitsIn(x)' = WaitsIn(x) /\ (x \in Working)' = (x \in Working) /\ Doing(x)' = Doing(x)
        /\ Performing(x, "return")' = Performing(x, "return")
    BY <1>2, <1>19 DEF WaitsIn, Doing, Performing
  <2>3. r.db = tx[x].db /\ r.listens = tx[x].listens
    BY <1>10 DEF Alike
  <2>4. QED
    BY <1>10, <1>14, <2>1, <2>2, <2>3 DEF Fits, Fit
<1>23. AllFit'
  BY <1>21, <1>22 DEF AllFit
<1>24. OnePlace'
  <2>1. Waiting' = Waiting /\ AtMain' = AtMain
    BY <1>2 DEF Waiting, AtMain
  <2>2. QED
    BY <1>2, <1>19, <2>1 DEF DatabasesInv, OnePlace
<1>25. QED
  BY <1>14, <1>15, <1>16, <1>17, <1>18, <1>23, <1>24 DEF DatabasesInv

-----------------------------------------------------------------------------
(* A task of the main thread goes to the front of what is left.            *)
LEMMA SyncPushed ==
  ASSUME DatabasesInv, NEW q \in Seq(Task), Part(q, tasks), NEW d \in Databases,
         NEW kind \in {"open", "close"}
  PROVE  LET n == <<SyncTask(kind, d)>> \o q IN
         /\ n \in Seq(Task)
         /\ \A u : u \in Of(n) => u \in Of(tasks) \/ u = None
         /\ KindsIn(n) /\ OneTaskEach(n)
         /\ kind = "close" \/ (\A i \in 1..Len(q) : ~Twice(SyncTask(kind, d), q[i])) => OneOpening(n)
         /\ \A s : AllFind(q, s) /\ Finds(SyncTask(kind, d), s) => AllFind(n, s)
         /\ \A t : (\A i \in 1..Len(q) : ~Twice(t, q[i])) /\ ~Twice(t, SyncTask(kind, d))
                     => \A i \in 1..Len(n) : ~Twice(t, n[i])
<1>1. PICK e, n : e = SyncTask(kind, d) /\ n = <<e>> \o q
  OBVIOUS
<1>2. e \in Task /\ e.kind = kind /\ e.x = None
  BY <1>1 DEF SyncTask, Task
<1>3. n \in Seq(Task) /\ More(n, q, e)
  BY <1>1, <1>2, PushMore
<1>4. KindsIn(tasks) /\ OneTaskEach(tasks) /\ OneOpening(tasks)
  BY DEF DatabasesInv, WorkKnown, OnePlace, Openings
<1>5. Of(q) \subseteq Of(tasks) /\ KindsIn(q) /\ OneTaskEach(q) /\ OneOpening(q)
  BY <1>4, TasksShrink
<1>6. TaskKind(e)
  BY <1>2, NoneIsNone DEF TaskKind
<1>7. kind = "close" => \A i \in 1..Len(q) : ~Twice(e, q[i])
  BY <1>2 DEF Twice
<1>8. /\ \A u : u \in Of(n) => u \in Of(q) \/ u = e.x
      /\ KindsIn(q) /\ TaskKind(e) => KindsIn(n)
      /\ OneTaskEach(q) /\ (e.x = None \/ e.x \notin Of(q)) => OneTaskEach(n)
      /\ OneOpening(q) /\ (\A i \in 1..Len(q) : ~Twice(e, q[i])) => OneOpening(n)
      /\ \A s : AllFind(q, s) /\ Finds(e, s) => AllFind(n, s)
  BY <1>3, TasksGrow
<1>9. ASSUME NEW t, \A i \in 1..Len(q) : ~Twice(t, q[i]), ~Twice(t, e)
      PROVE  \A i \in 1..Len(n) : ~Twice(t, n[i])
  BY <1>3, <1>9 DEF More
<1>10. \A u : u \in Of(n) => u \in Of(tasks) \/ u = None
  BY <1>2, <1>5, <1>8
<1>11. KindsIn(n) /\ OneTaskEach(n)
  BY <1>2, <1>5, <1>6, <1>8
<1>12. kind = "close" \/ (\A i \in 1..Len(q) : ~Twice(e, q[i])) => OneOpening(n)
  BY <1>5, <1>7, <1>8
<1>13. QED
  BY <1>1, <1>3, <1>8, <1>9, <1>10, <1>11, <1>12

LEMMA OpenDatabaseInv ==
  ASSUME DatabasesInv, NEW d \in Databases, openDatabase(d)
  PROVE  DatabasesInv'
<1>1. PICK e, b : e = SyncTask("open", d) /\ b = [db[d] EXCEPT !.sqlite = "opening"]
  OBVIOUS
<1>2. /\ db[d].sqlite = "none"
      /\ db' = [db EXCEPT ![d] = b] /\ tasks' = <<e>> \o tasks /\ sync' = d
      /\ tx' = tx /\ waiting' = waiting /\ killed' = killed /\ thread' = thread
      /\ callbacks' = callbacks /\ main' = main /\ committed' = committed
  BY <1>1 DEF openDatabase
<1>3. /\ db \in [Databases -> Database] /\ tasks \in Seq(Task) /\ AllFind(tasks, db)
      /\ \A c \in Databases : Held(On(c), db[c])
  BY DEF DatabasesInv, TypeOK, OpenKnown, Openings
<1>4. b \in Database /\ b.sqlite = "opening"
  BY <1>1, <1>3 DEF Database
<1>5. db' \in [Databases -> Database] /\ db'[d] = b /\ \A c \in Databases \ {d} : db'[c] = db[c]
  BY <1>2, <1>3, <1>4
<1>6. ASSUME NEW t \in Task, Finds(t, db) PROVE Finds(t, db') /\ ~Twice(t, e) /\ ~Twice(e, t)
  <2>1. t.d \in Databases /\ e.d = d /\ e.kind = "open"
    BY <1>1 DEF Task, SyncTask
  <2>2. CASE t.d = d
    BY <1>2, <1>6, <2>1, <2>2 DEF Finds, Twice, Task
  <2>3. CASE t.d # d
    BY <1>5, <1>6, <2>1, <2>3 DEF Finds, Twice
  <2>4. QED
    BY <2>2, <2>3
<1>7. \A i \in 1..Len(tasks) : tasks[i] \in Task /\ Finds(tasks[i], db)
  BY <1>3, ElementOfSeq DEF AllFind
<1>8. AllFind(tasks, db') /\ \A i \in 1..Len(tasks) : ~Twice(e, tasks[i])
  BY <1>6, <1>7 DEF AllFind
<1>9. Finds(e, db')
  BY <1>1, <1>4, <1>5 DEF Finds, SyncTask
<1>10. Part(tasks, tasks)
  BY <1>3, SamePart
<1>11. /\ tasks' \in Seq(Task)
       /\ \A u : u \in Of(tasks') => u \in Of(tasks) \/ u = None
       /\ KindsIn(tasks') /\ OneTaskEach(tasks')
       /\ (\A i \in 1..Len(tasks) : ~Twice(e, tasks[i])) => OneOpening(tasks')
       /\ \A s : AllFind(tasks, s) /\ Finds(e, s) => AllFind(tasks', s)
       /\ \A t : (\A i \in 1..Len(tasks) : ~Twice(t, tasks[i])) /\ ~Twice(t, e)
                   => \A i \in 1..Len(tasks') : ~Twice(t, tasks'[i])
  BY <1>1, <1>2, <1>3, <1>10, SyncPushed
<1>12. TypeOK'
  BY <1>2, <1>5, <1>11 DEF DatabasesInv, TypeOK
<1>13. WorkKnown'
  BY <1>2, <1>11 DEF DatabasesInv, WorkKnown
<1>14. OpenKnown'
  <2>1. \A c \in Databases : On(c)' = On(c)
    BY <1>2 DEF On
  <2>2. Held(On(d), b)
    BY <1>2, <1>3, <1>4 DEF Held
  <2>3. QED
    BY <1>3, <1>5, <2>1, <2>2 DEF OpenKnown
<1>15. Openings'
  <2>1. AllFind(tasks', db') /\ OneOpening(tasks')
    BY <1>8, <1>9, <1>11
  <2>2. ASSUME thread.pc = "check"
        PROVE  Finds(thread.task, db') /\ \A i \in 1..Len(tasks') : ~Twice(thread.task, tasks'[i])
    <3>1. /\ thread.task \in Task /\ Finds(thread.task, db)
          /\ \A i \in 1..Len(tasks) : ~Twice(thread.task, tasks[i])
      BY <2>2 DEF DatabasesInv, WorkKnown, Openings
    <3>2. QED
      BY <1>6, <1>11, <3>1
  <2>3. QED
    BY <1>2, <2>1, <2>2 DEF Openings
<1>16. \A u \in Transactions : /\ u \in Working' => u \in Working
                               /\ Performing(u, "return")' => Performing(u, "return")
  BY <1>2 DEF Working, Performing
<1>17. AllFit' /\ OnePlace' /\ AllSound'
  <2>1. /\ UNCHANGED <<waiting, callbacks, main>>
        /\ \A u \in Transactions : tx'[u] = tx[u]
    BY <1>2
  <2>2. QED
    BY <1>11, <1>16, <2>1, PlacesStill
<1>18. QED
  BY <1>12, <1>13, <1>14, <1>15, <1>17 DEF DatabasesInv

(* Nothing but what a database is to the page changes.                     *)
LEMMA MarkedInv ==
  ASSUME DatabasesInv, db' \in [Databases -> Database], UNCHANGED <<tx, waiting, thread>>,
         UNCHANGED <<callbacks, main, committed>>,
         killed' \in BOOLEAN, sync' \in Databases \cup {None},
         \A d \in Databases : /\ db'[d].sqlite = db[d].sqlite
                              /\ db[d].stopped => db'[d].stopped
                              /\ db'[d].spoiled = db[d].spoiled,
         tasks' \in Seq(Task), KindsIn(tasks'), OneTaskEach(tasks'), OneOpening(tasks'),
         \A u : u \in Of(tasks') => u \in Of(tasks) \/ u = None,
         AllFind(tasks', db),
         \A t : (\A i \in 1..Len(tasks) : ~Twice(t, tasks[i]))
                     => \A i \in 1..Len(tasks') : ~Twice(t, tasks'[i])
  PROVE  DatabasesInv'
<1>1. TypeOK'
  BY DEF DatabasesInv, TypeOK
<1>2. WorkKnown'
  BY DEF DatabasesInv, WorkKnown
<1>3. OpenKnown'
  <2>1. \A d \in Databases : On(d)' = On(d)
    BY DEF On
  <2>2. \A d \in Databases : Held(On(d), db[d]) => Held(On(d), db'[d])
    BY DEF Held
  <2>3. QED
    BY <2>1, <2>2, OpenStill DEF DatabasesInv
<1>4. Openings'
  <2>1. \A t \in Task : Finds(t, db) => Finds(t, db')
    BY DEF Finds, Task
  <2>2. AllFind(tasks', db')
    <3>1. \A i \in 1..Len(tasks') : tasks'[i] \in Task /\ Finds(tasks'[i], db)
      BY ElementOfSeq DEF AllFind
    <3>2. QED
      BY <2>1, <3>1 DEF AllFind
  <2>3. ASSUME thread.pc = "check"
        PROVE  Finds(thread.task, db') /\ \A i \in 1..Len(tasks') : ~Twice(thread.task, tasks'[i])
    <3>1. /\ thread.task \in Task /\ Finds(thread.task, db)
          /\ \A i \in 1..Len(tasks) : ~Twice(thread.task, tasks[i])
      BY <2>3 DEF DatabasesInv, WorkKnown, Openings
    <3>2. QED
      BY <2>1, <3>1
  <2>4. QED
    BY <2>2, <2>3 DEF Openings
<1>5. \A u \in Transactions : /\ u \in Working' => u \in Working
                              /\ Performing(u, "return")' => Performing(u, "return")
  BY DEF Working, Performing
<1>6. AllFit' /\ OnePlace' /\ AllSound'
  <2>1. /\ UNCHANGED <<waiting, callbacks, main>>
        /\ \A u \in Transactions : tx'[u] = tx[u]
    OBVIOUS
  <2>2. QED
    BY <1>5, <2>1, PlacesStill
<1>7. QED
  BY <1>1, <1>2, <1>3, <1>4, <1>6 DEF DatabasesInv

(* What is left when the tasks of some databases are unscheduled.          *)
LEMMA UnscheduledPart ==
  ASSUME DatabasesInv, NEW D
  PROVE  LET q == TasksWithout(D) IN
         /\ q \in Seq(Task) /\ Part(q, tasks)
         /\ Of(q) \subseteq Of(tasks) /\ KindsIn(q) /\ OneTaskEach(q) /\ OneOpening(q)
         /\ AllFind(q, db)
         /\ \A t : (\A i \in 1..Len(tasks) : ~Twice(t, tasks[i]))
                     => \A i \in 1..Len(q) : ~Twice(t, q[i])
<1>1. PICK I : I = {i \in 1..Len(tasks) : tasks[i].d \notin D}
  OBVIOUS
<1>2. /\ tasks \in Seq(Task) /\ KindsIn(tasks) /\ OneTaskEach(tasks) /\ OneOpening(tasks)
      /\ AllFind(tasks, db) /\ I \in SUBSET (1..Len(tasks))
  BY <1>1 DEF DatabasesInv, TypeOK, WorkKnown, OnePlace, Openings
<1>3. PICK q : q = AtPlaces(tasks, I)
  OBVIOUS
<1>4. q \in Seq(Task) /\ Part(q, tasks)
  BY <1>2, <1>3, PlacesPart
<1>5. /\ Of(q) \subseteq Of(tasks) /\ KindsIn(q) /\ OneTaskEach(q) /\ OneOpening(q)
      /\ AllFind(q, db)
  BY <1>2, <1>4, TasksShrink
<1>6. \A t : (\A i \in 1..Len(tasks) : ~Twice(t, tasks[i])) => \A i \in 1..Len(q) : ~Twice(t, q[i])
  BY <1>4 DEF Part
<1>7. q = TasksWithout(D)
  BY <1>1, <1>3 DEF TasksWithout
<1>8. QED
  BY <1>4, <1>5, <1>6, <1>7

LEMMA StopInv ==
  ASSUME DatabasesInv, stopDatabases
  PROVE  DatabasesInv'
<1>1. /\ db' = [d \in Databases |->
              IF d \in Opened THEN [db[d] EXCEPT !.stopped = TRUE, !.busy = FALSE] ELSE db[d]]
      /\ tasks' = TasksWithout(Opened) /\ killed' = TRUE /\ sync' = sync
      /\ UNCHANGED <<tx, waiting, thread>> /\ UNCHANGED <<callbacks, main, committed>>
  BY DEF stopDatabases
<1>2. db \in [Databases -> Database] /\ sync \in Databases \cup {None}
  BY DEF DatabasesInv, TypeOK
<1>3. ASSUME NEW d \in Databases
      PROVE  /\ db'[d] \in Database /\ db'[d].sqlite = db[d].sqlite
             /\ db[d].stopped => db'[d].stopped
             /\ db'[d].spoiled = db[d].spoiled
  <2>1. CASE d \in Opened
    <3>1. db'[d] = [db[d] EXCEPT !.stopped = TRUE, !.busy = FALSE]
      BY <1>1, <2>1
    <3>2. QED
      BY <1>2, <3>1 DEF Database
  <2>2. CASE d \notin Opened
    BY <1>1, <1>2, <2>2
  <2>3. QED
    BY <2>1, <2>2
<1>4. db' \in [Databases -> Database]
  BY <1>1, <1>3
<1>5. /\ tasks' \in Seq(Task)
      /\ Of(tasks') \subseteq Of(tasks) /\ KindsIn(tasks') /\ OneTaskEach(tasks')
      /\ OneOpening(tasks') /\ AllFind(tasks', db)
      /\ \A t : (\A i \in 1..Len(tasks) : ~Twice(t, tasks[i]))
                     => \A i \in 1..Len(tasks') : ~Twice(t, tasks'[i])
  BY <1>1, UnscheduledPart
<1>6. \A u : u \in Of(tasks') => u \in Of(tasks) \/ u = None
  BY <1>5
<1>7. killed' \in BOOLEAN /\ sync' \in Databases \cup {None}
  BY <1>1, <1>2
<1>8. QED
  BY <1>1, <1>3, <1>4, <1>5, <1>6, <1>7, MarkedInv

LEMMA DeletedInv ==
  ASSUME DatabasesInv, NEW d \in Databases, markAsDeletedAndClose(d)
  PROVE  DatabasesInv'
<1>1. PICK e, q : e = SyncTask("close", d) /\ q = TasksWithout({d})
  OBVIOUS
<1>2. /\ IsOpened(d)
      /\ db' = [db EXCEPT ![d].deleted = TRUE]
      /\ \/ tasks' = tasks /\ sync' = sync
         \/ tasks' = <<e>> \o q /\ sync' = d
      /\ killed' = killed
      /\ UNCHANGED <<tx, waiting, thread>> /\ UNCHANGED <<callbacks, main, committed>>
  BY <1>1 DEF markAsDeletedAndClose
<1>3. /\ db \in [Databases -> Database] /\ sync \in Databases \cup {None} /\ killed \in BOOLEAN
      /\ tasks \in Seq(Task) /\ KindsIn(tasks) /\ OneTaskEach(tasks) /\ OneOpening(tasks)
      /\ AllFind(tasks, db)
  BY DEF DatabasesInv, TypeOK, WorkKnown, OnePlace, Openings
<1>4. PICK b : b = [db[d] EXCEPT !.deleted = TRUE]
  OBVIOUS
<1>5. /\ b \in Database /\ b.sqlite = db[d].sqlite /\ b.stopped = db[d].stopped
      /\ b.spoiled = db[d].spoiled
  BY <1>3, <1>4 DEF Database
<1>6. db' = [db EXCEPT ![d] = b]
  BY <1>2, <1>4
<1>7. /\ db' \in [Databases -> Database]
      /\ \A c \in Databases : /\ db'[c].sqlite = db[c].sqlite
                              /\ db[c].stopped => db'[c].stopped
                              /\ db'[c].spoiled = db[c].spoiled
  BY <1>3, <1>5, <1>6
<1>8. killed' \in BOOLEAN /\ sync' \in Databases \cup {None}
  BY <1>2, <1>3
<1>9. CASE tasks' = tasks
  <2>1. \A u : u \in Of(tasks') => u \in Of(tasks) \/ u = None
    BY <1>9
  <2>2. QED
    BY <1>2, <1>3, <1>7, <1>8, <1>9, <2>1, MarkedInv
<1>10. CASE tasks' = <<e>> \o q
  <2>1. /\ q \in Seq(Task) /\ Part(q, tasks) /\ AllFind(q, db)
        /\ \A t : (\A i \in 1..Len(tasks) : ~Twice(t, tasks[i]))
                     => \A i \in 1..Len(q) : ~Twice(t, q[i])
    BY <1>1, UnscheduledPart
  <2>2. PICK kind : kind = "close"
    OBVIOUS
  <2>3. /\ tasks' \in Seq(Task)
        /\ \A u : u \in Of(tasks') => u \in Of(tasks) \/ u = None
        /\ KindsIn(tasks') /\ OneTaskEach(tasks') /\ OneOpening(tasks')
        /\ \A s : AllFind(q, s) /\ Finds(e, s) => AllFind(tasks', s)
        /\ \A t : (\A i \in 1..Len(q) : ~Twice(t, q[i])) /\ ~Twice(t, e)
                   => \A i \in 1..Len(tasks') : ~Twice(t, tasks'[i])
    BY <1>1, <1>10, <2>1, SyncPushed
  <2>4. Finds(e, db)
    BY <1>1, <1>2 DEF Finds, SyncTask, IsOpened
  <2>5. \A t : ~Twice(t, e)
    BY <1>1 DEF Twice, SyncTask
  <2>6. AllFind(tasks', db)
    BY <2>1, <2>3, <2>4
  <2>7. \A t : (\A i \in 1..Len(tasks) : ~Twice(t, tasks[i]))
                     => \A i \in 1..Len(tasks') : ~Twice(t, tasks'[i])
    BY <2>1, <2>3, <2>5
  <2>8. QED
    BY <1>2, <1>7, <1>8, <2>3, <2>6, <2>7, MarkedInv
<1>11. QED
  BY <1>2, <1>9, <1>10

-----------------------------------------------------------------------------
(* The queue of the database, w, after a transaction may have begun: y, if *)
(* one did.                                                                *)
Schedules(d, w, y) ==
  /\ waiting' \in [Databases -> Seq(Transactions)] /\ Once(waiting'[d])
  /\ \A e \in Databases \ {d} : waiting'[e] = waiting[e]
  /\ \A u : u \in Range(waiting'[d]) => u \in Range(w)
  /\ db' \in [Databases -> Database]
  /\ \A e \in Databases : /\ db'[e].sqlite = db[e].sqlite
                          /\ db'[e].stopped = db[e].stopped /\ db'[e].spoiled = db[e].spoiled
  /\ \/ tasks' = tasks /\ y = None
     \/ /\ y \in Range(w) /\ y \in Transactions /\ y \notin Range(waiting'[d])
        /\ tasks' = Append(tasks, TransactionTask(d, y))

LEMMA Scheduling ==
  ASSUME DatabasesInv, NEW d \in Databases, NEW w \in Seq(Transactions), Once(w),
         \/ scheduleTransaction(d, w)
         \/ waiting' = [waiting EXCEPT ![d] = w] /\ UNCHANGED <<db, tasks>>
  PROVE  \E y : Schedules(d, w, y)
<1>1. waiting \in [Databases -> Seq(Transactions)] /\ db \in [Databases -> Database]
  BY DEF DatabasesInv, TypeOK
<1>2. ASSUME NEW b \in BOOLEAN, NEW c, c = [db[d] EXCEPT !.busy = b], db' = [db EXCEPT ![d] = c]
      PROVE  /\ db' \in [Databases -> Database]
             /\ \A e \in Databases : /\ db'[e].sqlite = db[e].sqlite
                                     /\ db'[e].stopped = db[e].stopped
                                     /\ db'[e].spoiled = db[e].spoiled
  <2>1. /\ c \in Database /\ c.sqlite = db[d].sqlite
        /\ c.stopped = db[d].stopped /\ c.spoiled = db[d].spoiled
    BY <1>1, <1>2 DEF Database
  <2>2. QED
    BY <1>1, <1>2, <2>1
<1>3. ASSUME NEW v \in Seq(Transactions), waiting' = [waiting EXCEPT ![d] = v]
      PROVE  /\ waiting' \in [Databases -> Seq(Transactions)] /\ waiting'[d] = v
             /\ \A e \in Databases \ {d} : waiting'[e] = waiting[e]
  BY <1>1, <1>3
<1>4. CASE waiting' = [waiting EXCEPT ![d] = w] /\ UNCHANGED <<db, tasks>>
  <2>1. Schedules(d, w, None)
    BY <1>1, <1>3, <1>4 DEF Schedules
  <2>2. QED
    BY <2>1
<1>5. CASE /\ waiting' = [waiting EXCEPT ![d] = w] /\ tasks' = tasks
           /\ db' = [db EXCEPT ![d].busy = FALSE]
  <2>1. PICK c : c = [db[d] EXCEPT !.busy = FALSE]
    OBVIOUS
  <2>2. db' = [db EXCEPT ![d] = c]
    BY <1>5, <2>1
  <2>3. Schedules(d, w, None)
    BY <1>2, <1>3, <1>5, <2>1, <2>2 DEF Schedules
  <2>4. QED
    BY <2>3
<1>6. CASE /\ w # <<>> /\ waiting' = [waiting EXCEPT ![d] = Tail(w)]
           /\ tasks' = Append(tasks, TransactionTask(d, Head(w)))
           /\ db' = [db EXCEPT ![d].busy = TRUE]
  <2>1. PICK c : c = [db[d] EXCEPT !.busy = TRUE]
    OBVIOUS
  <2>2. db' = [db EXCEPT ![d] = c]
    BY <1>6, <2>1
  <2>3. PICK y, v : y = Head(w) /\ v = Tail(w)
    OBVIOUS
  <2>4. /\ v \in Seq(Transactions) /\ y \in Transactions /\ y \in Range(w)
        /\ \A u : u \in Range(v) => u \in Range(w)
        /\ Once(v) /\ y \notin Range(v)
    BY <1>6, <2>3, QueueShrinks
  <2>5. /\ waiting' \in [Databases -> Seq(Transactions)] /\ waiting'[d] = v
        /\ \A e \in Databases \ {d} : waiting'[e] = waiting[e]
    BY <1>3, <1>6, <2>3, <2>4
  <2>6. /\ db' \in [Databases -> Database]
        /\ \A e \in Databases : /\ db'[e].sqlite = db[e].sqlite
                                /\ db'[e].stopped = db[e].stopped
                                /\ db'[e].spoiled = db[e].spoiled
    BY <1>2, <2>1, <2>2
  <2>7. Schedules(d, w, y)
    BY <1>6, <2>3, <2>4, <2>5, <2>6 DEF Schedules
  <2>8. QED
    BY <2>7
<1>7. QED
  BY <1>4, <1>5, <1>6 DEF scheduleTransaction

(* The record of a transaction that is in no place changes, it may wait    *)
(* for its turn, and a transaction of the queue begins.                    *)
LEMMA ScheduledInv ==
  ASSUME DatabasesInv, NEW x \in Transactions, NEW r \in Transaction, Sound(r),
         tx' = [tx EXCEPT ![x] = r], tx[x].sqlite # "on", r.sqlite # "on",
         x \notin Of(tasks), x \notin Range(callbacks), x \notin Working, main.x # x,
         \A e \in Databases : x \notin Range(waiting[e]),
         ~Performing(x, "return")' \/ r.listens # None,
         NEW d \in Databases, NEW w \in Seq(Transactions), Once(w),
         \A u : u \in Range(w) => \/ u \in Range(waiting[d])
                                  \/ u = x /\ r.next = "open" /\ r.db = d /\ r.listens # None,
         NEW y, Schedules(d, w, y),
         thread' = thread \/ thread' = [pc |-> "idle", task |-> None],
         UNCHANGED <<callbacks, main>>, UNCHANGED <<killed, sync, committed>>
  PROVE  DatabasesInv'
<1>1. /\ waiting' \in [Databases -> Seq(Transactions)] /\ Once(waiting'[d])
      /\ \A e \in Databases \ {d} : waiting'[e] = waiting[e]
      /\ \A u : u \in Range(waiting'[d]) => u \in Range(w)
  BY DEF Schedules
<1>2. /\ db' \in [Databases -> Database]
      /\ \A e \in Databases : /\ db'[e].sqlite = db[e].sqlite
                              /\ db'[e].stopped = db[e].stopped
                              /\ db'[e].spoiled = db[e].spoiled
  BY DEF Schedules
<1>3. \/ tasks' = tasks /\ y = None
      \/ /\ y \in Range(w) /\ y \in Transactions /\ y \notin Range(waiting'[d])
         /\ tasks' = Append(tasks, TransactionTask(d, y))
  BY DEF Schedules
<1>4. /\ tx' \in [Transactions -> Transaction]
      /\ tx'[x] = r /\ \A u \in Transactions \ {x} : tx'[u] = tx[u]
      /\ AllSound'
      /\ \A u \in Transactions : tx'[u].next = None => tx'[u].todo = <<>>
  BY RecordSet
<1>5. Apart(Of(tasks), Range(callbacks), Waiting, Working, AtMain)
  BY DEF DatabasesInv, OnePlace
<1>6. y \in Range(w) => y = x \/ y \in Waiting
  BY DEF Waiting
<1>7. /\ tasks' = tasks \/ y \in Range(w)
      /\ y \in Range(w) => y \notin Of(tasks) /\ y \notin Range(callbacks)
                           /\ y \notin Working /\ y \notin AtMain
  BY <1>3, <1>5, <1>6 DEF Apart, AtMain
<1>8. /\ tasks' \in Seq(Task)
      /\ \A u : u \in Of(tasks') => u \in Of(tasks) \/ (u = y /\ y \in Range(w) /\ y \in Transactions)
      /\ KindsIn(tasks') /\ OneTaskEach(tasks') /\ OneOpening(tasks')
      /\ AllFind(tasks', db)
      /\ \A t : (\A i \in 1..Len(tasks) : ~Twice(t, tasks[i]))
                  => \A i \in 1..Len(tasks') : ~Twice(t, tasks'[i])
  <2>1. AllFind(tasks, db)
    BY DEF DatabasesInv, Openings
  <2>2. CASE tasks' = tasks
    BY <2>1, <2>2 DEF DatabasesInv, TypeOK, WorkKnown, OnePlace, Openings
  <2>3. CASE y \in Range(w) /\ y \in Transactions /\ tasks' = Append(tasks, TransactionTask(d, y))
    <3>1. /\ tasks' \in Seq(Task)
          /\ \A u : u \in Of(tasks)' => u \in Of(tasks) \/ u = y
          /\ KindsIn(tasks)' /\ OneTaskEach(tasks)' /\ OneOpening(tasks)'
          /\ \A s : AllFind(tasks, s) => AllFind(tasks', s)
          /\ \A t : (\A i \in 1..Len(tasks) : ~Twice(t, tasks[i]))
                     => \A i \in 1..Len(tasks') : ~Twice(t, tasks'[i])
      BY <1>7, <2>3, TaskAdded
    <3>2. QED
      BY <2>1, <2>3, <3>1
  <2>4. QED
    BY <1>3, <2>2, <2>3
<1>9. thread' \in [pc : {"idle", "check", "step", "return", "ended"}, task : Task \cup {None}]
  BY DEF DatabasesInv, TypeOK
<1>10. TypeOK'
  BY <1>1, <1>2, <1>4, <1>8, <1>9 DEF DatabasesInv, TypeOK
<1>11. WorkKnown'
  BY <1>8 DEF DatabasesInv, WorkKnown
<1>12. OpenKnown'
  <2>1. \A e \in Databases : Held(On(e), db[e]) => Held(On(e), db'[e])
    BY <1>2 DEF Held
  <2>2. QED
    BY <2>1, RecordOpen
<1>13. Openings'
  <2>1. \A t \in Task : Finds(t, db) => Finds(t, db')
    BY <1>2, <1>8, FindsStill
  <2>2. AllFind(tasks', db')
    BY <1>2, <1>8, FindsStill
  <2>3. CASE thread' = thread
    BY <1>8, <2>1, <2>2, <2>3 DEF DatabasesInv, WorkKnown, Openings
  <2>4. CASE thread' = [pc |-> "idle", task |-> None]
    BY <1>8, <2>2, <2>4 DEF Openings
  <2>5. QED
    BY <2>3, <2>4
<1>14. \A u \in Transactions : /\ u \in Working' => u \in Working
                               /\ Performing(u, "return")' => Performing(u, "return")
  BY DEF Working, Performing
<1>15. ASSUME NEW u \in Transactions, u # x, u # y PROVE Fits(u)'
  <2>1. Stay(u)
    <3>1. \A e \in Databases : u \in Range(waiting'[e]) => u \in Range(waiting[e])
      BY <1>1, <1>15
    <3>2. QED
      BY <1>8, <1>14, <1>15, <3>1 DEF Stay
  <2>2. QED
    BY <1>4, <1>15, <2>1, StaysFit DEF DatabasesInv
<1>16. ASSUME y \in Transactions, y # x, y \in Range(w) PROVE Fits(y)'
  <2>1. y \in Range(waiting[d]) /\ tx'[y] = tx[y]
    BY <1>4, <1>16
  <2>2. \A e \in WaitsIn(y) : tx[y].next = "open" /\ tx[y].db = e
    BY <1>16 DEF DatabasesInv, AllFit, Fits, Fit
  <2>3. d \in WaitsIn(y)
    BY <2>1 DEF WaitsIn
  <2>4. tx[y].next = "open" /\ tx[y].db = d /\ tx[y].listens # None
    <3>1. WaitsIn(y) # {}
      BY <2>3
    <3>2. tx[y].listens # None
      BY <1>16, <3>1 DEF DatabasesInv, AllFit, Fits, Fit
    <3>3. QED
      BY <2>2, <2>3, <3>2
  <2>5. y \notin Range(waiting'[d])
    BY <1>3, <1>16, NoneIsNone
  <2>6. WaitsIn(y)' = {}
    BY <1>1, <2>2, <2>4, <2>5 DEF WaitsIn
  <2>7. y \notin Range(callbacks)' /\ y \notin Working' /\ Doing(y)' = {}
    BY <1>7, <1>14, <1>16 DEF Doing, AtMain
  <2>8. "open" \in ThreadSteps
    BY DEF ThreadSteps
  <2>9. QED
    BY <2>1, <2>4, <2>6, <2>7, <2>8 DEF Fits, Fit
<1>17. Fits(x)'
  <2>1. x \notin Range(callbacks)' /\ x \notin Working' /\ Doing(x)' = {}
    BY <1>14 DEF Doing
  <2>2. \A e \in WaitsIn(x)' : e = d /\ r.next = "open" /\ r.db = d /\ r.listens # None
    BY <1>1 DEF WaitsIn
  <2>3. x \in Of(tasks)' => r.next = "open" /\ r.listens # None
    BY <1>8
  <2>4. "open" \in ThreadSteps
    BY DEF ThreadSteps
  <2>5. QED
    BY <1>4, <2>1, <2>2, <2>3, <2>4 DEF Fits, Fit
<1>18. AllFit'
  <2>1. y \in Transactions => y \in Range(w)
    BY <1>3, NoneIsNone
  <2>2. QED
    BY <1>15, <1>16, <1>17, <2>1 DEF AllFit
<1>19. OnePlace'
  <2>1. PICK T, C, W, K, M :
          /\ T = Of(tasks) /\ C = Range(callbacks) /\ W = Waiting /\ K = Working /\ M = AtMain
    OBVIOUS
  <2>2. PICK T2, W2, K2 : T2 = Of(tasks)' /\ W2 = Waiting' /\ K2 = Working'
    OBVIOUS
  <2>3. Range(callbacks)' = C /\ AtMain' = M
    BY <2>1 DEF AtMain
  <2>4. x \notin T /\ x \notin C /\ x \notin W /\ x \notin K /\ x \notin M
    BY <2>1 DEF Waiting, AtMain
  <2>5. \A u \in W2 : u \in W \/ u = x
    <3>1. \A e \in Databases : \A u : u \in Range(waiting'[e]) => u \in Range(waiting[e]) \/ u = x
      BY <1>1
    <3>2. QED
      BY <2>1, <2>2, <3>1 DEF Waiting
  <2>6. \A u \in T2 : u \in T \/ (u = y /\ y \in Range(w) /\ y \in Transactions)
    BY <1>8, <2>1, <2>2
  <2>7. \A u \in K2 : u \in K
    BY <1>14, <2>1, <2>2 DEF Working
  <2>8. y \in Range(w) /\ y \in Transactions => y \notin W2
    <3> SUFFICES ASSUME y \in Range(w), y \in Transactions, y \in W2 PROVE FALSE
      OBVIOUS
    <3>1. y \notin Range(waiting'[d])
      BY <1>3, NoneIsNone
    <3>2. PICK e \in Databases \ {d} : y \in Range(waiting'[e])
      BY <2>2, <3>1 DEF Waiting
    <3>3. y \in Range(waiting[e])
      BY <1>1, <3>2
    <3>4. y \in Range(waiting[d])
      BY <3>3
    <3>5. d \in WaitsIn(y) /\ e \in WaitsIn(y)
      BY <3>3, <3>4 DEF WaitsIn
    <3>6. \A c \in WaitsIn(y) : tx[y].db = c
      BY DEF DatabasesInv, AllFit, Fits, Fit
    <3>7. QED
      BY <3>2, <3>5, <3>6
  <2>9. Apart(T, C, W, K, M)
    BY <1>5, <2>1
  <2>10. y \in Range(w) => (y = x \/ y \in W) /\ y \notin C /\ y \notin K /\ y \notin M
    BY <1>6, <1>7, <2>1
  <2>11. T2 \cap C = {} /\ T2 \cap K2 = {} /\ T2 \cap M = {}
    BY <2>6, <2>7, <2>9, <2>10 DEF Apart
  <2>12. T2 \cap W2 = {}
    BY <2>4, <2>5, <2>6, <2>8, <2>9 DEF Apart
  <2>13. C \cap W2 = {} /\ W2 \cap K2 = {} /\ W2 \cap M = {}
    BY <2>4, <2>5, <2>7, <2>9 DEF Apart
  <2>14. C \cap K2 = {} /\ C \cap M = {} /\ K2 \cap M = {}
    BY <2>7, <2>9 DEF Apart
  <2>15. Apart(T2, C, W2, K2, M)
    BY <2>11, <2>12, <2>13, <2>14 DEF Apart
  <2>16. \A e \in Databases : Once(waiting'[e])
    BY <1>1 DEF DatabasesInv, OnePlace
  <2>17. QED
    BY <1>8, <2>2, <2>3, <2>15, <2>16 DEF DatabasesInv, OnePlace
<1>20. QED
  BY <1>4, <1>10, <1>11, <1>12, <1>13, <1>18, <1>19 DEF DatabasesInv

-----------------------------------------------------------------------------
(* A transaction that is over, or not yet asked for, is in no place.       *)
LEMMA Nowhere ==
  ASSUME DatabasesInv, NEW x \in Transactions, tx[x].next = None
  PROVE  /\ tx[x] \in Transaction /\ Sound(tx[x]) /\ tx[x].sqlite # "on" /\ tx[x].todo = <<>>
         /\ x \notin Of(tasks) /\ x \notin Range(callbacks) /\ x \notin Working /\ main.x # x
         /\ \A e \in Databases : x \notin Range(waiting[e])
<1>1. tx[x] \in Transaction /\ Sound(tx[x])
  BY DEF DatabasesInv, TypeOK, AllSound
<1>2. tx[x].sqlite # "on" /\ tx[x].todo = <<>>
  BY <1>1 DEF Sound
<1>3. None \notin ThreadSteps /\ None \notin MainSteps /\ "open" \in ThreadSteps
  BY NoneIsNone DEF Steps, ThreadSteps
<1>4. /\ x \notin Of(tasks) /\ x \notin Range(callbacks) /\ x \notin Working
      /\ WaitsIn(x) = {} /\ Doing(x) = {}
  BY <1>3 DEF DatabasesInv, AllFit, Fits, Fit
<1>5. QED
  BY <1>1, <1>2, <1>4 DEF WaitsIn, Doing

LEMMA StepReturnsInv ==
  ASSUME DatabasesInv, NEW x \in Transactions, StepReturns(x)
  PROVE  DatabasesInv'
<1>1. /\ Performing(x, "return") /\ thread' = [pc |-> "idle", task |-> None]
      /\ UNCHANGED <<callbacks, main>> /\ UNCHANGED <<killed, sync, committed>>
  BY DEF StepReturns
<1>2. PICK d \in Databases : d = tx[x].db
  BY <1>1, WorkingKnown DEF Known
<1>3. waiting[d] \in Seq(Transactions) /\ Once(waiting[d])
  BY DEF DatabasesInv, TypeOK, OnePlace
<1>4. ~Performing(x, "return")'
  BY <1>1 DEF Performing
<1>5. CASE tx[x].next = None
  <2>1. /\ tx[x] \in Transaction /\ Sound(tx[x]) /\ tx[x].sqlite # "on" /\ tx[x].todo = <<>>
        /\ x \notin Of(tasks) /\ x \notin Range(callbacks) /\ x \notin Working /\ main.x # x
        /\ \A e \in Databases : x \notin Range(waiting[e])
    BY <1>5, Nowhere
  <2>2. PICK r : r = Over(tx[x])
    OBVIOUS
  <2>3. /\ r \in Transaction /\ r.sqlite = "none" /\ r.next = None /\ r.todo = <<>>
        /\ r.db = tx[x].db /\ r.listens = tx[x].listens /\ r.retry = FALSE
    <3>1. r \in Transaction
      <4>1. PICK n : n = [tx[x] EXCEPT !.cur = None, !.sqlite = "none", !.retry = FALSE,
                                       !.commits = TRUE]
        OBVIOUS
      <4>2. n \in Transaction
        BY <2>1, <4>1 DEF Transaction
      <4>3. r = [n EXCEPT !.onError = FALSE, !.onSuccess = FALSE, !.wrapper = FALSE]
        BY <2>1, <2>2, <4>1 DEF Over, Transaction
      <4>4. QED
        BY <4>2, <4>3 DEF Transaction
    <3>2. /\ r.sqlite = "none" /\ r.next = tx[x].next /\ r.todo = tx[x].todo
          /\ r.db = tx[x].db /\ r.listens = tx[x].listens /\ r.retry = FALSE
      BY <2>1, <2>2 DEF Over, Transaction
    <3>3. QED
      BY <1>5, <2>1, <3>1, <3>2
  <2>4. Sound(r)
    BY <2>1, <2>3, NoneIsNone DEF Sound, Steps, MainSteps
  <2>5. scheduleTransaction(d, waiting[d]) /\ tx' = [tx EXCEPT ![x] = r]
    BY <1>2, <1>5, <2>2 DEF StepReturns
  <2>6. PICK y : Schedules(d, waiting[d], y)
    BY <1>3, <2>5, Scheduling
  <2>7. PICK w : w = waiting[d]
    OBVIOUS
  <2>8. w \in Seq(Transactions) /\ Once(w) /\ Schedules(d, w, y)
    BY <1>3, <2>6, <2>7
  <2>9. \A u : u \in Range(w) => u \in Range(waiting[d])
    BY <2>7
  <2>10. r.sqlite # "on"
    BY <2>3
  <2>11. QED
    BY <1>1, <1>4, <2>1, <2>3, <2>4, <2>5, <2>8, <2>9, <2>10, ScheduledInv
<1>6. CASE tx[x].next # None
  <2>1. UNCHANGED <<tx, waiting, db, tasks>>
    BY <1>6 DEF StepReturns
  <2>2. TypeOK'
    BY <1>1, <2>1 DEF DatabasesInv, TypeOK
  <2>3. WorkKnown'
    BY <1>1, <2>1 DEF DatabasesInv, WorkKnown
  <2>4. OpenKnown'
    BY <2>1 DEF DatabasesInv, OpenKnown, On
  <2>5. Openings'
    BY <1>1, <2>1 DEF DatabasesInv, Openings
  <2>6. AllFit' /\ OnePlace' /\ AllSound'
    <3>1. OneTaskEach(tasks')
      BY <2>1 DEF DatabasesInv, OnePlace
    <3>2. \A u \in Transactions : /\ u \in Working' => u \in Working
                                  /\ Performing(u, "return")' => Performing(u, "return")
      BY <1>1 DEF Working, Performing
    <3>3. /\ UNCHANGED <<waiting, callbacks, main>>
          /\ \A u \in Transactions : tx'[u] = tx[u]
          /\ \A u : u \in Of(tasks') => u \in Of(tasks) \/ u = None
      BY <1>1, <2>1
    <3>4. QED
      BY <3>1, <3>2, <3>3, PlacesStill
  <2>7. QED
    BY <2>2, <2>3, <2>4, <2>5, <2>6 DEF DatabasesInv
<1>7. QED
  BY <1>5, <1>6

LEMMA TransactionInv ==
  ASSUME DatabasesInv, NEW d \in Databases, NEW q \in Requests, transaction(d, q)
  PROVE  DatabasesInv'
<1>1. PICK x : x = CHOOSE y \in Fresh : TRUE
  OBVIOUS
<1>2. x \in Transactions /\ tx[x].listens = None
  BY <1>1 DEF transaction, Fresh
<1>3. PICK w : w = Append(waiting[d], x)
  OBVIOUS
<1>4. PICK r : r = [tx[x] EXCEPT
                   !.db = d, !.next = "open", !.wrapper = q.wrapper, !.listens = q.listens,
                   !.onError = "error" \in q.listens, !.onSuccess = "success" \in q.listens]
  OBVIOUS
<1>5. /\ tx' = [tx EXCEPT ![x] = r]
      /\ \/ scheduleTransaction(d, w)
         \/ waiting' = [waiting EXCEPT ![d] = w] /\ UNCHANGED <<db, tasks>>
      /\ UNCHANGED <<callbacks, main>> /\ UNCHANGED <<killed, sync, committed>>
      /\ thread' = thread
  BY <1>1, <1>3, <1>4 DEF transaction
<1>6. Sound(tx[x])
  BY <1>2 DEF DatabasesInv, AllSound
<1>7. tx[x].next = None
  BY <1>2, <1>6 DEF Sound
<1>8. /\ tx[x] \in Transaction /\ tx[x].sqlite # "on"
      /\ x \notin Of(tasks) /\ x \notin Range(callbacks) /\ x \notin Working /\ main.x # x
      /\ \A e \in Databases : x \notin Range(waiting[e])
  BY <1>2, <1>7, Nowhere
<1>9. q \in [listens : SUBSET {"error", "success"}, wrapper : BOOLEAN] /\ q.listens # None
  <2>1. q \in [listens : SUBSET {"error", "success"}, wrapper : BOOLEAN]
    BY DatabasesAssumption DEF DatabasesAssumption
  <2>2. QED
    BY <2>1, DatabasesAssumption DEF DatabasesAssumption
<1>10. /\ r \in Transaction /\ r.db = d /\ r.next = "open" /\ r.listens = q.listens
       /\ r.sqlite = tx[x].sqlite /\ r.retry = tx[x].retry /\ r.cur = tx[x].cur
  <2>1. PICK l, v, e, s : /\ l = q.listens /\ v = q.wrapper
                          /\ e = ("error" \in q.listens) /\ s = ("success" \in q.listens)
    OBVIOUS
  <2>2. /\ l \in SUBSET {"error", "success"} /\ v \in BOOLEAN
        /\ e \in BOOLEAN /\ s \in BOOLEAN
    BY <1>9, <2>1
  <2>3. r = [tx[x] EXCEPT !.db = d, !.next = "open", !.wrapper = v, !.listens = l,
                          !.onError = e, !.onSuccess = s]
    BY <1>4, <2>1
  <2>4. "open" \in ThreadSteps
    BY DEF ThreadSteps
  <2>5. QED
    <3>1. tx[x] \in Transaction
      BY <1>8
    <3>2. r \in Transaction
      <4>1. PICK n : n = [tx[x] EXCEPT !.db = d, !.next = "open", !.wrapper = v]
        OBVIOUS
      <4>2. n \in Transaction
        BY <2>2, <2>4, <3>1, <4>1 DEF Transaction
      <4>3. r = [n EXCEPT !.listens = l, !.onError = e, !.onSuccess = s]
        BY <2>3, <3>1, <4>1 DEF Transaction
      <4>4. QED
        BY <2>2, <4>2, <4>3 DEF Transaction
    <3>3. /\ r.db = d /\ r.next = "open" /\ r.listens = l
          /\ r.sqlite = tx[x].sqlite /\ r.retry = tx[x].retry /\ r.cur = tx[x].cur
      BY <2>3, <3>1 DEF Transaction
    <3>4. QED
      BY <2>1, <3>2, <3>3
<1>11. Sound(r)
  BY <1>6, <1>9, <1>10, NoneIsNone DEF Sound, Steps, ThreadSteps
<1>12. waiting[d] \in Seq(Transactions) /\ Once(waiting[d])
  BY DEF DatabasesInv, TypeOK, OnePlace
<1>13. /\ w \in Seq(Transactions) /\ Once(w)
       /\ \A u : u \in Range(w) <=> u \in Range(waiting[d]) \/ u = x
  BY <1>2, <1>3, <1>8, <1>12, QueueGrows
<1>14. PICK y : Schedules(d, w, y)
  BY <1>5, <1>13, Scheduling
<1>15. r.sqlite # "on" /\ r.listens # None
  BY <1>8, <1>9, <1>10
<1>16. \A u : u \in Range(w) => \/ u \in Range(waiting[d])
                                \/ u = x /\ r.next = "open" /\ r.db = d /\ r.listens # None
  BY <1>10, <1>13, <1>15
<1>17. QED
  BY <1>2, <1>5, <1>8, <1>10, <1>11, <1>13, <1>14, <1>15, <1>16, ScheduledInv

-----------------------------------------------------------------------------
(* The specification.                                                      *)
LEMMA InitInv ==
  ASSUME Init
  PROVE  DatabasesInv
<1>1. PICK r, b :
        /\ r = [db |-> None, next |-> None, todo |-> <<>>, cur |-> None, sqlite |-> "none",
                retry |-> FALSE, commits |-> TRUE, onError |-> FALSE, onSuccess |-> FALSE,
                wrapper |-> FALSE, executed |-> 0, listens |-> None, told |-> {}]
        /\ b = [sqlite |-> "none", busy |-> FALSE, stopped |-> FALSE, deleted |-> FALSE,
                spoiled |-> FALSE]
  OBVIOUS
<1>2. /\ tx = [x \in Transactions |-> r] /\ db = [d \in Databases |-> b]
      /\ waiting = [d \in Databases |-> <<>>]
      /\ tasks = <<>> /\ callbacks = <<>>
      /\ thread = [pc |-> "idle", task |-> None] /\ main = [at |-> "idle", x |-> None]
      /\ killed = FALSE /\ sync = None /\ committed = {}
  BY <1>1 DEF Init
<1>3. /\ <<>> \in Seq(Transactions) /\ <<>> \in Seq(Task) /\ <<>> \in Seq(Statement)
      /\ 1..Len(<<>>) = {}
  <2>1. Len(<<>>) = 0
    BY EmptySeq
  <2>2. QED
    BY <2>1, EmptySeq
<1>4. r \in Transaction /\ b \in Database
  <2>1. <<>> \in Seq(Statement) /\ {} \in SUBSET {"error", "success"} /\ 0 \in Nat
    BY <1>3
  <2>2. r \in Transaction
    BY <1>1, <2>1 DEF Transaction
  <2>3. b \in Database
    BY <1>1 DEF Database
  <2>4. QED
    BY <2>2, <2>3
<1>5. \A x \in Transactions : tx[x] = r
  BY <1>2
<1>6. TypeOK
  BY <1>1, <1>2, <1>3, <1>4 DEF TypeOK
<1>7. Range(<<>>) = {}
  BY <1>3, InRange
<1>8. Of(tasks) = {} /\ Range(callbacks) = {} /\ Waiting = {} /\ Working = {} /\ AtMain = {}
  BY <1>2, <1>3, <1>7, NoneIsNone DEF Of, Waiting, Working, Performing, AtMain
<1>9. OnePlace
  <2>1. Apart(Of(tasks), Range(callbacks), Waiting, Working, AtMain)
    BY <1>8 DEF Apart
  <2>2. OneTaskEach(tasks) /\ Once(callbacks) /\ \A d \in Databases : Once(waiting[d])
    BY <1>2, <1>3 DEF OneTaskEach, Once
  <2>3. QED
    BY <2>1, <2>2 DEF OnePlace
<1>10. WorkKnown
  BY <1>2, <1>3 DEF WorkKnown, KindsIn
<1>11. AllSound
  <2>1. Sound(r)
    BY <1>1, NoneIsNone DEF Sound, Steps, MainSteps
  <2>2. QED
    BY <1>5, <2>1 DEF AllSound
<1>12. AllFit
  <2>1. ASSUME NEW x \in Transactions PROVE Fits(x)
    <3>1. x \notin Of(tasks) /\ x \notin Range(callbacks) /\ x \notin Working
      BY <1>8
    <3>2. WaitsIn(x) = {} /\ Doing(x) = {} /\ ~Performing(x, "return")
      BY <1>2, <1>7, NoneIsNone DEF WaitsIn, Doing, Performing
    <3>3. QED
      BY <3>1, <3>2 DEF Fits, Fit
  <2>2. QED
    BY <2>1 DEF AllFit
<1>13. OpenKnown
  <2>1. \A d \in Databases : db[d].sqlite = "none"
    BY <1>1, <1>2
  <2>2. \A x \in Transactions : tx[x].sqlite # "on"
    BY <1>1, <1>5
  <2>3. \A d \in Databases : On(d) = {}
    BY <2>2 DEF On
  <2>4. QED
    BY <2>1, <2>3 DEF OpenKnown, Held
<1>14. Openings
  BY <1>2, <1>3 DEF Openings, AllFind, OneOpening
<1>15. QED
  BY <1>6, <1>9, <1>10, <1>11, <1>12, <1>13, <1>14 DEF DatabasesInv

LEMMA ThreadStepInv ==
  ASSUME DatabasesInv, NEW x \in Transactions, ThreadStep(x)
  PROVE  DatabasesInv'
<1>1. CASE Stepped(x)
  BY <1>1, SteppedInv
<1>2. CASE CheckClosed(x)
  BY <1>2, CheckClosedInv
<1>3. CASE openTransactionAndPreflight(x)
  BY <1>1, <1>3, PreflightSteps
<1>4. CASE RunQuotaFailed(x)
  BY <1>1, <1>4, QuotaFailedSteps
<1>5. CASE runCurrentStatement(x)
  BY <1>1, <1>5, StatementSteps
<1>6. CASE postflightAndCommit(x)
  BY <1>1, <1>6, CommitSteps
<1>7. CASE cleanupAfterSuccessCallback(x)
  BY <1>1, <1>7, SuccessSteps
<1>8. CASE CleanupError(x)
  BY <1>1, <1>8, CleanupSteps
<1>9. CASE StepReturns(x)
  BY <1>9, StepReturnsInv
<1>10. QED
  BY <1>2, <1>3, <1>4, <1>5, <1>6, <1>7, <1>8, <1>9 DEF ThreadStep

LEMMA CallbackReturnsInv ==
  ASSUME DatabasesInv, CallbackReturns
  PROVE  DatabasesInv'
<1>1. PICK x \in Transactions :
        \/ EndSuccessCallback(x)
        \/ \E b \in BOOLEAN :
             EndTransactionCallback(x, b) \/ EndStatementCallback(x, b) \/ EndErrorCallback(x, b)
  BY DEF CallbackReturns
<1>2. Answered(x)
  BY <1>1, SuccessCallbackAnswers, TransactionCallbackAnswers, StatementCallbackAnswers,
     ErrorCallbackAnswers
<1>3. QED
  BY <1>2, AnsweredInv

LEMMA NextInv ==
  ASSUME DatabasesInv, Next
  PROVE  DatabasesInv'
<1>1. CASE DatabaseThread
  BY <1>1, TakeTaskInv, ThreadEndsInv, PerformCloseInv, PerformOpenInv, ThreadStepInv
     DEF DatabaseThread
<1>2. CASE Dispatch
  BY <1>2, DropCallbackInv, BeginCallbackInv, QuotaCallbackInv DEF Dispatch
<1>3. CASE CallbackReturns
  BY <1>3, CallbackReturnsInv
<1>4. CASE Page
  BY <1>4, StopInv, OpenDatabaseInv, DeletedInv, TransactionInv, ExecuteInv DEF Page
<1>5. QED
  BY <1>1, <1>2, <1>3, <1>4 DEF Next

(* The inductive invariant holds in every state.                           *)
THEOREM DatabasesInvariant == Spec => []DatabasesInv
<1>1. Init => DatabasesInv
  BY InitInv
<1>2. DatabasesInv /\ [Next]_vars => DatabasesInv'
  <2>1. CASE Next
    BY <2>1, NextInv
  <2>2. ASSUME DatabasesInv, UNCHANGED vars PROVE DatabasesInv'
    <3>1. /\ tx' = tx /\ waiting' = waiting /\ db' = db /\ tasks' = tasks /\ killed' = killed
          /\ thread' = thread /\ callbacks' = callbacks /\ main' = main /\ sync' = sync
          /\ committed' = committed
      BY <2>2 DEF vars
    <3>2. Working' = Working /\ Waiting' = Waiting /\ AtMain' = AtMain
      BY <3>1 DEF Working, Performing, Waiting, AtMain
    <3>3. TypeOK' /\ WorkKnown'
      BY <2>2, <3>1 DEF DatabasesInv, TypeOK, WorkKnown
    <3>4. OnePlace'
      BY <2>2, <3>1, <3>2 DEF DatabasesInv, OnePlace
    <3>5. AllSound' /\ OpenKnown' /\ Openings'
      BY <2>2, <3>1 DEF DatabasesInv, AllSound, OpenKnown, On, Openings
    <3>6. AllFit'
      BY <2>2, <3>1, <3>2 DEF DatabasesInv, AllFit, Fits, WaitsIn, Doing, Performing
    <3>7. QED
      BY <3>3, <3>4, <3>5, <3>6 DEF DatabasesInv
  <2>3. QED
    BY <2>1, <2>2
<1>3. QED
  BY <1>1, <1>2, PTL DEF Spec

(* The types of the client-side databases; and a transaction that is over  *)
(* has no statement left, as cleanupAfterTransactionErrorCallback clears   *)
(* the queue and the others only end with an empty one.                    *)
THEOREM TypeCorrect == Spec => []TypeOK
<1>1. DatabasesInv => TypeOK
  BY DEF DatabasesInv
<1>2. QED
  BY <1>1, DatabasesInvariant, PTL

(* A transaction is with one thread at a time, scheduled once, for a step  *)
(* that is that thread's.                                                  *)
THEOREM StepsInOrder == Spec => []StepsMatch
<1>1. ASSUME DatabasesInv PROVE StepsMatch
  <2> SUFFICES ASSUME NEW x \in Transactions
               PROVE
      /\ Cardinality({i \in DOMAIN tasks : tasks[i].x = x})
         + Cardinality({i \in DOMAIN callbacks : callbacks[i] = x})
         + (IF Performing(x, "check") \/ Performing(x, "step") THEN 1 ELSE 0)
         + (IF main.x = x THEN 1 ELSE 0) <= 1
      /\ (\E i \in DOMAIN tasks : tasks[i].x = x) \/ Performing(x, "check")
           => tx[x].next \in ThreadSteps
      /\ x \in Range(callbacks) => tx[x].next \in MainSteps
      /\ main = [at |-> "statement", x |-> x] /\ tx[x].cur.err # "no" => tx[x].cur.ecb
    BY DEF StepsMatch
  <2>1. /\ DOMAIN tasks = 1..Len(tasks) /\ DOMAIN callbacks = 1..Len(callbacks)
        /\ callbacks \in Seq(Transactions)
    BY <1>1, LenProperties DEF DatabasesInv, TypeOK
  <2>2. PICK I, J : /\ I = {i \in DOMAIN tasks : tasks[i].x = x}
                    /\ J = {i \in DOMAIN callbacks : callbacks[i] = x}
    OBVIOUS
  <2>3. I # {} <=> x \in Of(tasks)
    BY <2>1, <2>2 DEF Of
  <2>4. J # {} <=> x \in Range(callbacks)
    BY <2>1, <2>2, InRange
  <2>5. /\ \A i, j \in I : i = j
        /\ \A i, j \in J : i = j
    BY <1>1, <2>1, <2>2, NoneIsNone DEF DatabasesInv, OnePlace, OneTaskEach, Once
  <2>6. \A S : (\A i, j \in S : i = j) => S = {} \/ \E i : S = {i}
    OBVIOUS
  <2>7. /\ I = {} => Cardinality(I) = 0
        /\ J = {} => Cardinality(J) = 0
        /\ I # {} => Cardinality(I) = 1
        /\ J # {} => Cardinality(J) = 1
    BY <2>5, <2>6, FS_EmptySet, FS_Singleton
  <2>8. PICK k, m \in BOOLEAN : /\ k = (Performing(x, "check") \/ Performing(x, "step"))
                                /\ m = (main.x = x)
    OBVIOUS
  <2>9. (k <=> x \in Working) /\ (m <=> x \in AtMain)
    BY <2>8 DEF Working, AtMain
  <2>10. Apart(Of(tasks), Range(callbacks), Waiting, Working, AtMain)
    BY <1>1 DEF DatabasesInv, OnePlace
  <2>11. /\ ~(I # {} /\ J # {}) /\ ~(I # {} /\ k) /\ ~(I # {} /\ m)
         /\ ~(J # {} /\ k) /\ ~(J # {} /\ m) /\ ~(k /\ m)
    BY <2>3, <2>4, <2>9, <2>10 DEF Apart
  <2>12. Cardinality(I) + Cardinality(J) + (IF k THEN 1 ELSE 0) + (IF m THEN 1 ELSE 0) <= 1
    BY <2>7, <2>11
  <2>13. Fits(x)
    BY <1>1 DEF DatabasesInv, AllFit
  <2>14. x \in Of(tasks) \/ x \in Working => tx[x].next \in ThreadSteps
    BY <2>13 DEF Fits, Fit
  <2>15. x \in Range(callbacks) => tx[x].next \in MainSteps
    BY <2>13 DEF Fits, Fit
  <2>16. ASSUME main = [at |-> "statement", x |-> x], tx[x].cur.err # "no" PROVE tx[x].cur.ecb
    <3>1. "statement" \in Doing(x)
      BY <2>16 DEF Doing
    <3>2. tx[x].next = "statement"
      BY <2>13, <3>1 DEF Fits, Fit
    <3>3. QED
      BY <2>13, <2>16, <3>1, <3>2 DEF Fits, Fit
  <2>17. (\E i \in DOMAIN tasks : tasks[i].x = x) \/ Performing(x, "check")
           => tx[x].next \in ThreadSteps
    BY <2>2, <2>3, <2>8, <2>9, <2>14
  <2>18. QED
    BY <2>2, <2>8, <2>12, <2>15, <2>16, <2>17
<1>2. QED
  BY <1>1, DatabasesInvariant, PTL

(* SQLite's transaction of a database is one transaction's, and none that  *)
(* is over leaves it open.                                                 *)
THEOREM NothingLeftOpen == Spec => []NoneLeftOpen
<1>1. ASSUME DatabasesInv PROVE NoneLeftOpen
  <2>1. ASSUME NEW d \in Databases
        PROVE  /\ Cardinality(On(d)) <= 1
               /\ db[d].sqlite = "begun" /\ ~db[d].stopped /\ ~db[d].spoiled => On(d) # {}
    <3>1. Held(On(d), db[d])
      BY <1>1 DEF DatabasesInv, OpenKnown
    <3>2. On(d) = {} \/ \E x : On(d) = {x}
      BY <3>1 DEF Held
    <3>3. Cardinality(On(d)) = 0 \/ Cardinality(On(d)) = 1
      BY <3>2, FS_EmptySet, FS_Singleton
    <3>4. QED
      BY <3>1, <3>3 DEF Held
  <2>2. QED
    BY <2>1 DEF NoneLeftOpen, On
<1>2. QED
  BY <1>1, DatabasesInvariant, PTL

-----------------------------------------------------------------------------
(* What is promised: the refinement of DatabaseService.                    *)

(* Who has the turn in a database: the transaction that was scheduled, to  *)
(* the return of the step that found it over.                              *)
Holders(d) ==
  {x \in Transactions : /\ tx[x].db = d /\ x \notin Range(waiting[d])
                        /\ tx[x].next # None \/ Performing(x, "return")}
HoldersKnown ==
  \A d \in Databases :
    /\ \A x, y \in Holders(d) : x = y
    /\ Holders(d) # {} /\ ~db[d].stopped => db[d].busy

(* Only a database that was deleted is closed.                             *)
ClosedKnown ==
  /\ \A d \in Databases : db[d].sqlite = "closed" => db[d].deleted
  /\ \A i \in 1..Len(tasks) : tasks[i].kind = "close" => db[tasks[i].d].deleted
  /\ thread.pc = "check" /\ thread.task.kind = "close" => db[thread.task.d].deleted

(* What a transaction is to the page on its way: c, whether it is          *)
(* committed, g, whether its database is gone, a, the callback that runs.  *)
Under == {"transaction", "statement", "quota", "run"}
Keeps(r, c, g, a) ==
  /\ r.listens = None => r.told = {} /\ ~c
  /\ r.next \in Under => r.sqlite = "on"
  /\ r.next \in Under \cup {"open"} =>
       r.onError = ("error" \in r.listens) /\ r.onSuccess = ("success" \in r.listens)
  /\ r.next \in Under \cup {"open", "error"} => ~c /\ (a # "error" => r.told = {})
  /\ a = "error" => r.told = {"error"}
  /\ r.next = "error" => "error" \in r.listens
  /\ r.next = "cleanError" =>
       ~c /\ (r.told = {"error"} \/ (r.told = {} /\ ~r.commits /\ "error" \notin r.listens))
  /\ r.next = "success" => /\ "success" \in r.listens /\ (c \/ g)
                           /\ a # "success" => r.told = {}
                           /\ a = "success" => r.told = {"success"}
  /\ r.next = "cleanSuccess" => r.told = {"success"}

At(x) == IF main.x = x THEN main.at ELSE "idle"
AllKeep == \A x \in Transactions : Keeps(tx[x], x \in committed, tx[x].db \in Gone, At(x))

ServiceInv == DatabasesInv /\ HoldersKnown /\ ClosedKnown /\ AllKeep

LEMMA OnlyOne ==
  \A x : TheOne({x}) = x /\ {x} # {}
BY DEF TheOne

-----------------------------------------------------------------------------
(* What the page sees of a database.                                       *)
LEMMA BegunHold ==
  ASSUME DatabasesInv, NEW d \in Databases
  PROVE  Begun(d) \subseteq Holders(d) /\ Scheduled(d) \subseteq Holders(d)
<1>1. ASSUME NEW x \in Begun(d) PROVE x \in Holders(d)
  <2>1. x \in Transactions /\ tx[x].db = d /\ tx[x].next \notin {None, "open"}
    BY <1>1 DEF Begun
  <2>2. Fits(x)
    BY <2>1 DEF DatabasesInv, AllFit
  <2>3. d \notin WaitsIn(x)
    BY <2>1, <2>2 DEF Fits, Fit
  <2>4. QED
    BY <2>1, <2>3 DEF WaitsIn, Holders
<1>2. \A x \in Scheduled(d) : x \in Holders(d)
  BY NoneIsNone DEF Scheduled, Holders, Steps, ThreadSteps
<1>3. QED
  BY <1>1, <1>2

LEMMA TurnShown ==
  ASSUME DatabasesInv, HoldersKnown, NEW d \in Databases, NEW x \in Holders(d)
  PROVE  /\ Scheduled(d) = IF tx[x].next = "open" THEN {x} ELSE {}
         /\ Begun(d) = IF tx[x].next \in {None, "open"} THEN {} ELSE {x}
         /\ Running(d) = IF tx[x].next \in {None, "open"} THEN None ELSE x
         /\ Pending(d) = IF tx[x].next = "open" THEN <<x>> \o waiting[d] ELSE waiting[d]
         /\ tx[x].next = "open" =>
              Pending(d) # <<>> /\ Head(Pending(d)) = x /\ Tail(Pending(d)) = waiting[d]
<1>1. Begun(d) \subseteq {x} /\ Scheduled(d) \subseteq {x} /\ x \in Transactions
  BY BegunHold DEF HoldersKnown, Holders
<1>2. x \in Scheduled(d) <=> tx[x].next = "open"
  BY DEF Holders, Scheduled
<1>3. x \in Begun(d) <=> tx[x].next \notin {None, "open"}
  BY DEF Holders, Begun
<1>4. /\ Scheduled(d) = IF tx[x].next = "open" THEN {x} ELSE {}
      /\ Begun(d) = IF tx[x].next \in {None, "open"} THEN {} ELSE {x}
  BY <1>1, <1>2, <1>3
<1>5. /\ Running(d) = IF tx[x].next \in {None, "open"} THEN None ELSE x
      /\ Pending(d) = IF tx[x].next = "open" THEN <<x>> \o waiting[d] ELSE waiting[d]
  <2>1. TheOne({x}) = x /\ {x} # {}
    BY OnlyOne
  <2>2. CASE tx[x].next = "open"
    BY <1>4, <2>1, <2>2 DEF Running, Pending
  <2>3. CASE tx[x].next # "open"
    <3>1. Scheduled(d) = {}
      BY <1>4, <2>3
    <3>2. Running(d) = IF tx[x].next \in {None, "open"} THEN None ELSE x
      BY <1>4, <2>1 DEF Running
    <3>3. QED
      BY <2>3, <3>1, <3>2 DEF Pending
  <2>4. QED
    BY <2>2, <2>3
<1>6. waiting[d] \in Seq(Transactions)
  BY DEF DatabasesInv, TypeOK
<1>7. <<x>> \o waiting[d] # <<>> /\ Head(<<x>> \o waiting[d]) = x /\ Tail(<<x>> \o waiting[d]) = waiting[d]
  BY <1>1, <1>6, PushProperties
<1>8. QED
  BY <1>4, <1>5, <1>7

LEMMA FreeShown ==
  ASSUME DatabasesInv, NEW d \in Databases, Holders(d) = {}
  PROVE  Running(d) = None /\ Pending(d) = waiting[d] /\ Begun(d) = {} /\ Scheduled(d) = {}
BY BegunHold DEF Running, Pending

(* A step of the transaction that has the turn.                            *)
Moves(x, n) ==
  /\ tx' = [tx EXCEPT ![x] = n] /\ n.db = tx[x].db /\ n.listens = tx[x].listens
  /\ n.next = "open" => tx[x].next = "open"
  /\ waiting' = waiting

LEMMA MovesShown ==
  ASSUME DatabasesInv, HoldersKnown, NEW d \in Databases, NEW x \in Holders(d), NEW n,
         Moves(x, n)
  PROVE  /\ \A e \in Databases : Pending(e)' =
              IF e = d /\ tx[x].next = "open" /\ n.next # "open" THEN Tail(Pending(e)) ELSE Pending(e)
         /\ \A e \in Databases : Running(e)' =
              IF e = d THEN IF n.next \in {None, "open"} THEN None ELSE x ELSE Running(e)
         /\ \A u \in Transactions : tx'[u].listens = tx[u].listens
         /\ \A u \in Transactions \ {x} : tx'[u].told = tx[u].told
         /\ tx'[x] = n
<1>1. tx \in [Transactions -> Transaction] /\ x \in Transactions /\ tx[x].db = d
      /\ x \notin Range(waiting[d])
  BY DEF DatabasesInv, TypeOK, Holders
<1>2. tx'[x] = n /\ (\A u \in Transactions \ {x} : tx'[u] = tx[u]) /\ n.db = d
  BY <1>1 DEF Moves
<1>3. /\ Scheduled(d) = IF tx[x].next = "open" THEN {x} ELSE {}
      /\ Begun(d) = IF tx[x].next \in {None, "open"} THEN {} ELSE {x}
      /\ Pending(d) = IF tx[x].next = "open" THEN <<x>> \o waiting[d] ELSE waiting[d]
      /\ tx[x].next = "open" => Tail(Pending(d)) = waiting[d]
  BY TurnShown
<1>4. waiting' = waiting
  BY DEF Moves
<1>5. \A e \in Databases \ {d} : Scheduled(e)' = Scheduled(e) /\ Begun(e)' = Begun(e)
  BY <1>1, <1>2, <1>4 DEF Scheduled, Begun
<1>6. \A e \in Databases \ {d} : Pending(e)' = Pending(e) /\ Running(e)' = Running(e)
  <2> SUFFICES ASSUME NEW e \in Databases \ {d}
               PROVE  Pending(e)' = Pending(e) /\ Running(e)' = Running(e)
    OBVIOUS
  <2>1. Scheduled(e)' = Scheduled(e) /\ Begun(e)' = Begun(e) /\ waiting'[e] = waiting[e]
    BY <1>4, <1>5
  <2>2. Pending(e)' = Pending(e)
    BY <2>1 DEF Pending
  <2>3. Running(e)' = Running(e)
    BY <2>1 DEF Running
  <2>4. QED
    BY <2>2, <2>3
<1>7. Scheduled(d)' = IF n.next = "open" THEN {x} ELSE {}
  BY <1>1, <1>2, <1>3, <1>4 DEF Scheduled
<1>8. Begun(d)' = IF n.next \in {None, "open"} THEN {} ELSE {x}
  BY <1>1, <1>2, <1>3 DEF Begun
<1>9. Pending(d)' = IF tx[x].next = "open" /\ n.next # "open" THEN Tail(Pending(d)) ELSE Pending(d)
  <2>1. TheOne({x}) = x /\ {x} # {}
    BY OnlyOne
  <2>2. CASE n.next = "open"
    <3>1. tx[x].next = "open" /\ Pending(d)' = <<x>> \o waiting[d]
      BY <1>4, <1>7, <2>1, <2>2 DEF Pending, Moves
    <3>2. QED
      BY <1>3, <2>2, <3>1
  <2>3. CASE n.next # "open"
    <3>1. Pending(d)' = waiting[d]
      BY <1>4, <1>7, <2>3 DEF Pending
    <3>2. QED
      BY <1>3, <2>3, <3>1
  <2>4. QED
    BY <2>2, <2>3
<1>10. Running(d)' = IF n.next \in {None, "open"} THEN None ELSE x
  <2>1. TheOne({x}) = x /\ {x} # {}
    BY OnlyOne
  <2>2. QED
    BY <1>8, <2>1 DEF Running
<1>11. \A u \in Transactions : tx'[u].listens = tx[u].listens
  BY <1>2 DEF Moves
<1>12. QED
  BY <1>2, <1>6, <1>9, <1>10, <1>11

(* What such a step is to the page: the transaction goes on, is committed, *)
(* tells, ends or cannot begin; or only its database goes.                 *)
Told(x, n) == n.told = tx[x].told
Fate(x, n, d) ==
  \/ /\ n.next \notin {None, "open"} /\ Told(x, n) /\ committed' = committed /\ Gone' = Gone
  \/ /\ n.next \notin {None, "open"} /\ tx[x].next # "open" /\ Told(x, n) /\ tx[x].told = {}
     /\ committed' = committed \cup {x} /\ Gone' = Gone
  \/ /\ n.next \notin {None, "open"} /\ tx[x].next # "open" /\ Told(x, n)
     /\ committed' = committed /\ Gone' = Gone \cup {d}
  \/ /\ n.next = None /\ tx[x].next = "open" /\ Told(x, n) /\ committed' = committed /\ Gone' = Gone
     /\ d \in Gone \/ "error" \notin n.listens
  \/ /\ n.next = None /\ tx[x].next # "open" /\ Told(x, n)
     /\ committed' \in {committed, committed \cup {x}} /\ Gone' \in {Gone, Gone \cup {d}}
     /\ \/ d \in Gone'
        \/ n.told # {}
        \/ x \in committed' /\ "success" \notin n.listens
        \/ x \notin committed' /\ "error" \notin n.listens
     /\ n.told = {"success"} => committed' = committed
  \/ \E o \in {"success", "error"} :
       /\ n.next \notin {None, "open"} /\ tx[x].next # "open" /\ committed' = committed /\ Gone' = Gone
       /\ n.told = {o} /\ tx[x].told = {} /\ o \in n.listens
       /\ d \in Gone \/ (o = "success" <=> x \in committed)
  \/ n.next = "open" /\ Told(x, n) /\ committed' = committed /\ Gone' = Gone

LEMMA MovesServe ==
  ASSUME DatabasesInv, HoldersKnown, NEW d \in Databases, NEW x \in Holders(d), NEW n,
         tx[x].next # None, Moves(x, n), Fate(x, n, d)
  PROVE  Service!Next \/ UNCHANGED Service!vars
<1>1. /\ \A e \in Databases : Pending(e)' =
              IF e = d /\ tx[x].next = "open" /\ n.next # "open" THEN Tail(Pending(e)) ELSE Pending(e)
      /\ \A e \in Databases : Running(e)' =
              IF e = d THEN IF n.next \in {None, "open"} THEN None ELSE x ELSE Running(e)
      /\ \A u \in Transactions : tx'[u].listens = tx[u].listens
      /\ \A u \in Transactions \ {x} : tx'[u].told = tx[u].told
      /\ tx'[x] = n
  BY MovesShown
<1>2. /\ Running(d) = IF tx[x].next \in {None, "open"} THEN None ELSE x
      /\ tx[x].next = "open" => Pending(d) # <<>> /\ Head(Pending(d)) = x
  BY TurnShown
<1>3. x \in Transactions /\ n.listens = tx[x].listens /\ x # None
  BY NoneIsNone DEF Holders, Moves
<1>4. PICK p, p2, q, q2, l, l2, t, t2 :
        /\ p = [e \in Databases |-> Pending(e)] /\ p2 = [e \in Databases |-> Pending(e)']
        /\ q = [e \in Databases |-> Running(e)] /\ q2 = [e \in Databases |-> Running(e)']
        /\ l = [u \in Transactions |-> tx[u].listens] /\ l2 = [u \in Transactions |-> tx'[u].listens]
        /\ t = [u \in Transactions |-> tx[u].told] /\ t2 = [u \in Transactions |-> tx'[u].told]
  OBVIOUS
<1>5. l2 = l /\ l[x] = n.listens /\ t[x] = tx[x].told
  BY <1>1, <1>3, <1>4
<1>6. t2 = [t EXCEPT ![x] = n.told]
  BY <1>1, <1>3, <1>4
<1>7. n.told = tx[x].told => t2 = t
  BY <1>1, <1>4
<1>8. q2 = [q EXCEPT ![d] = IF n.next \in {None, "open"} THEN None ELSE x] /\ q[d] = Running(d)
  BY <1>1, <1>4
<1>9. /\ p[d] = Pending(d)
      /\ tx[x].next = "open" /\ n.next # "open" => p2 = [p EXCEPT ![d] = Tail(@)]
      /\ tx[x].next # "open" \/ n.next = "open" => p2 = p
  BY <1>1, <1>4
<1>10. /\ n.next \notin {None, "open"} /\ tx[x].next # "open" => q2 = q
       /\ n.next = "open" => q2 = q
  <2>1. q2 = [q EXCEPT ![d] = Running(d)] => q2 = q
    BY <1>4, <1>8
  <2>2. QED
    BY <1>2, <1>8, <2>1 DEF Moves
<1>11. tx[x].next # "open" => q[d] = x
  BY <1>2, <1>8
<1>12. tx[x].next = "open" => q[d] = None /\ p[d] # <<>> /\ Head(p[d]) = x
  BY <1>2, <1>8, <1>9
<1>13. CASE /\ n.next \notin {None, "open"} /\ Told(x, n) /\ committed' = committed /\ Gone' = Gone
  <2>1. CASE tx[x].next = "open"
    <3>1. Service!Begin(d)
      BY <1>4, <1>5, <1>7, <1>8, <1>9, <1>12, <1>13, <2>1 DEF Service!Begin, Told
    <3>2. QED
      BY <3>1 DEF Service!Next
  <2>2. CASE tx[x].next # "open"
    BY <1>4, <1>5, <1>7, <1>9, <1>10, <1>13, <2>2 DEF Service!vars, Told
  <2>3. QED
    BY <2>1, <2>2
<1>14. CASE /\ n.next \notin {None, "open"} /\ tx[x].next # "open" /\ Told(x, n) /\ tx[x].told = {}
            /\ committed' = committed \cup {x} /\ Gone' = Gone
  <2>1. Service!Commit(d)
    BY <1>3, <1>4, <1>5, <1>7, <1>9, <1>10, <1>11, <1>14 DEF Service!Commit, Told
  <2>2. QED
    BY <2>1 DEF Service!Next
<1>15. CASE /\ n.next \notin {None, "open"} /\ tx[x].next # "open" /\ Told(x, n)
            /\ committed' = committed /\ Gone' = Gone \cup {d}
  <2>1. Service!Leave({d})
    BY <1>4, <1>5, <1>7, <1>9, <1>10, <1>15 DEF Service!Leave, Told
  <2>2. {d} \in SUBSET Databases
    OBVIOUS
  <2>3. QED
    BY <2>1, <2>2 DEF Service!Next
<1>16. CASE /\ n.next = None /\ tx[x].next = "open" /\ Told(x, n) /\ committed' = committed
            /\ Gone' = Gone /\ (d \in Gone \/ "error" \notin n.listens)
  <2>1. q2 = q /\ None # "open"
    <3>1. None # "open"
      BY NoneIsNone DEF Steps, ThreadSteps
    <3>2. q2 = [q EXCEPT ![d] = q[d]]
      BY <1>8, <1>12, <1>16
    <3>3. QED
      BY <1>4, <3>1, <3>2
  <2>2. Service!Refuse(d)
    BY <1>4, <1>5, <1>7, <1>9, <1>12, <1>16, <2>1 DEF Service!Refuse, Told
  <2>3. QED
    BY <2>2 DEF Service!Next
<1>17. CASE /\ n.next = None /\ tx[x].next # "open" /\ Told(x, n)
            /\ committed' \in {committed, committed \cup {x}} /\ Gone' \in {Gone, Gone \cup {d}}
            /\ \/ d \in Gone'
               \/ n.told # {}
               \/ x \in committed' /\ "success" \notin n.listens
               \/ x \notin committed' /\ "error" \notin n.listens
            /\ n.told = {"success"} => committed' = committed
  <2>1. Service!End(d)
    BY <1>3, <1>4, <1>5, <1>7, <1>8, <1>9, <1>11, <1>17 DEF Service!End, Told
  <2>2. QED
    BY <2>1 DEF Service!Next
<1>18. ASSUME NEW o \in {"success", "error"},
              /\ n.next \notin {None, "open"} /\ tx[x].next # "open" /\ committed' = committed /\ Gone' = Gone
              /\ n.told = {o} /\ tx[x].told = {} /\ o \in n.listens
              /\ d \in Gone \/ (o = "success" <=> x \in committed)
       PROVE  Service!Next
  <2>1. Service!Tell(d, o)
    BY <1>3, <1>4, <1>5, <1>6, <1>9, <1>10, <1>11, <1>18 DEF Service!Tell
  <2>2. o \in Service!Outcomes
    BY DEF Service!Outcomes
  <2>3. QED
    BY <2>1, <2>2 DEF Service!Next
<1>19. CASE n.next = "open" /\ Told(x, n) /\ committed' = committed /\ Gone' = Gone
  BY <1>4, <1>5, <1>7, <1>9, <1>10, <1>19 DEF Service!vars, Told
<1>20. QED
  BY <1>13, <1>14, <1>15, <1>16, <1>17, <1>18, <1>19 DEF Fate

-----------------------------------------------------------------------------
(* Such a step keeps the invariant.                                        *)

(* What else it does: to its database, and to the threads.                 *)
After(b0, b) ==
  /\ b \in Database
  /\ b.busy = b0.busy /\ b.stopped = b0.stopped /\ b.deleted = b0.deleted
  /\ b0.spoiled => b.spoiled
  /\ b.sqlite = "closed" => b0.sqlite = "closed"

Frame(x, d, b) ==
  /\ db' = [db EXCEPT ![d] = b] /\ After(db[d], b)
  /\ \A u \in Transactions \ {x} : At(u)' = At(u)
  /\ \A u \in Transactions \ {x} : Performing(u, "return")' => Performing(u, "return")
  /\ thread'.pc = "check" => thread' = thread
  /\ tasks' = tasks \/ tasks' = Append(tasks, TransactionTask(d, x))

(* What such a step leaves a database.                                     *)
Lasts(e) ==
  /\ db'[e].busy = db[e].busy /\ db'[e].stopped = db[e].stopped
  /\ db'[e].deleted = db[e].deleted
  /\ db'[e].sqlite = "closed" => db[e].sqlite = "closed"

LEMMA GoneNow ==
  ASSUME DatabasesInv, NEW x, NEW d \in Databases, NEW b, Frame(x, d, b)
  PROVE  /\ Gone' = IF b.spoiled THEN Gone \cup {d} ELSE Gone
         /\ d \in Gone <=> db[d].stopped \/ db[d].deleted \/ db[d].spoiled
         /\ ~b.spoiled \/ db[d].spoiled => Gone' = Gone
         /\ \A e \in Databases : Lasts(e)
<1>1. db \in [Databases -> Database] /\ db' = [db EXCEPT ![d] = b] /\ b \in Database
  BY DEF DatabasesInv, TypeOK, Frame, After
<1>2. db'[d] = b /\ \A e \in Databases \ {d} : db'[e] = db[e]
  BY <1>1
<1>3. d \in Gone <=> db[d].stopped \/ db[d].deleted \/ db[d].spoiled
  BY DEF Gone
<1>4. d \in Gone' <=> d \in Gone \/ b.spoiled
  BY <1>2, <1>3 DEF Gone, Frame, After
<1>5. \A e \in Databases \ {d} : e \in Gone' <=> e \in Gone
  BY <1>2 DEF Gone
<1>6. Gone \subseteq Databases /\ Gone' \subseteq Databases
  BY DEF Gone
<1>7. Gone' = IF b.spoiled THEN Gone \cup {d} ELSE Gone
  BY <1>4, <1>5, <1>6
<1>8. ~b.spoiled \/ db[d].spoiled => Gone' = Gone
  BY <1>3, <1>7
<1>9. \A e \in Databases : Lasts(e)
  BY <1>2 DEF Frame, After, Lasts
<1>10. QED
  BY <1>3, <1>7, <1>8, <1>9

LEMMA KeepsStill ==
  ASSUME AllKeep, NEW u \in Transactions, tx'[u] = tx[u], u \in committed' <=> u \in committed,
         Gone \subseteq Gone', At(u)' = At(u)
  PROVE  Keeps(tx[u], u \in committed, tx[u].db \in Gone, At(u))'
<1>1. Keeps(tx[u], u \in committed, tx[u].db \in Gone, At(u))
  BY DEF AllKeep
<1>2. PICK r, c, g, g2, a : /\ r = tx[u] /\ c = (u \in committed) /\ a = At(u)
                            /\ g = (tx[u].db \in Gone) /\ g2 = (tx'[u].db \in Gone')
  OBVIOUS
<1>3. c \in BOOLEAN /\ g \in BOOLEAN /\ g2 \in BOOLEAN
  BY <1>2
<1>4. g => g2
  BY <1>2
<1>5. Keeps(r, c, g2, a)
  BY <1>1, <1>2, <1>3, <1>4 DEF Keeps
<1>6. QED
  BY <1>2, <1>5

(* Nobody new has a turn.                                                  *)
LEMMA HoldersStill ==
  ASSUME HoldersKnown,
         \A e \in Databases : Holders(e)' \subseteq Holders(e),
         \A e \in Databases : db'[e].stopped = db[e].stopped /\ db'[e].busy = db[e].busy
  PROVE  HoldersKnown'
BY DEF HoldersKnown

LEMMA ServesInv ==
  ASSUME ServiceInv, NEW d \in Databases, NEW x \in Holders(d), NEW n, NEW b,
         tx[x].next # None, Moves(x, n), Fate(x, n, d), Frame(x, d, b),
         Keeps(n, x \in committed', d \in Gone', At(x)')
  PROVE  HoldersKnown' /\ ClosedKnown' /\ AllKeep'
<1>1. DatabasesInv /\ HoldersKnown /\ ClosedKnown /\ AllKeep
  BY DEF ServiceInv
<1>2. tx \in [Transactions -> Transaction] /\ x \in Transactions /\ tx[x].db = d
      /\ tasks \in Seq(Task)
  BY <1>1 DEF DatabasesInv, TypeOK, Holders
<1>3. tx'[x] = n /\ (\A u \in Transactions \ {x} : tx'[u] = tx[u]) /\ n.db = d
  BY <1>2 DEF Moves
<1>4. /\ Gone' = IF b.spoiled THEN Gone \cup {d} ELSE Gone
      /\ \A e \in Databases : Lasts(e)
  BY <1>1, GoneNow
<1>5. HoldersKnown'
  <2>1. \A e \in Databases : Holders(e)' \subseteq Holders(e)
    <3> SUFFICES ASSUME NEW e \in Databases, NEW u \in Holders(e)' PROVE u \in Holders(e)
      OBVIOUS
    <3>1. waiting' = waiting
      BY DEF Moves
    <3>2. /\ u \in Transactions /\ tx'[u].db = e /\ u \notin Range(waiting[e])
          /\ tx'[u].next # None \/ Performing(u, "return")'
      BY <3>1 DEF Holders
    <3>3. CASE u = x
      BY <1>2, <1>3, <3>2, <3>3
    <3>4. CASE u # x
      BY <1>3, <3>2, <3>4 DEF Holders, Frame
    <3>5. QED
      BY <3>3, <3>4
  <2>2. QED
    BY <1>1, <1>4, <2>1, HoldersStill DEF Lasts
<1>6. ClosedKnown'
  <2>1. \A e \in Databases : db'[e].sqlite = "closed" => db'[e].deleted
    BY <1>1, <1>4 DEF ClosedKnown, Lasts
  <2>2. ASSUME NEW i \in 1..Len(tasks'), tasks'[i].kind = "close" PROVE db'[tasks'[i].d].deleted
    <3>1. i \in 1..Len(tasks) /\ tasks'[i] = tasks[i]
      <4>1. CASE tasks' = tasks
        BY <4>1
      <4>2. CASE tasks' = Append(tasks, TransactionTask(d, x))
        <5>1. TransactionTask(d, x) \in Task /\ TransactionTask(d, x).kind # "close"
          BY <1>2 DEF TransactionTask, Task
        <5>2. /\ Len(tasks') = Len(tasks) + 1 /\ tasks'[Len(tasks) + 1] = TransactionTask(d, x)
              /\ \A j \in 1..Len(tasks) : tasks'[j] = tasks[j]
          BY <1>2, <4>2, <5>1, AppendProperties
        <5>3. Len(tasks) \in Nat
          BY <1>2, LenProperties
        <5>4. QED
          BY <2>2, <5>1, <5>2, <5>3
      <4>3. QED
        BY <4>1, <4>2 DEF Frame
    <3>2. tasks[i].d \in Databases
      <4>1. tasks[i] \in Task
        BY <1>2, <3>1, ElementOfSeq
      <4>2. QED
        BY <4>1 DEF Task
    <3>3. QED
      BY <1>1, <1>4, <2>2, <3>1, <3>2 DEF ClosedKnown, Lasts
  <2>3. ASSUME thread'.pc = "check", thread'.task.kind = "close" PROVE db'[thread'.task.d].deleted
    <3>1. thread' = thread
      BY <2>3 DEF Frame
    <3>2. thread.task \in Task
      BY <1>1, <2>3, <3>1 DEF DatabasesInv, WorkKnown
    <3>3. thread.task.d \in Databases
      BY <3>2 DEF Task
    <3>4. QED
      BY <1>1, <1>4, <2>3, <3>1, <3>3 DEF ClosedKnown, Lasts
  <2>4. QED
    BY <2>1, <2>2, <2>3 DEF ClosedKnown
<1>7. AllKeep'
  <2>1. committed' = committed \/ committed' = committed \cup {x}
    BY DEF Fate
  <2>2. Gone \subseteq Gone'
    BY <1>4
  <2>3. \A u \in Transactions \ {x} : At(u)' = At(u)
    BY DEF Frame
  <2>4. \A u \in Transactions \ {x} : Keeps(tx[u], u \in committed, tx[u].db \in Gone, At(u))'
    <3> SUFFICES ASSUME NEW u \in Transactions \ {x}
                 PROVE  Keeps(tx[u], u \in committed, tx[u].db \in Gone, At(u))'
      OBVIOUS
    <3>1. tx'[u] = tx[u] /\ (u \in committed' <=> u \in committed) /\ At(u)' = At(u)
      BY <1>3, <2>1, <2>3
    <3>2. QED
      BY <1>1, <2>2, <3>1, KeepsStill
  <2>5. Keeps(tx[x], x \in committed, tx[x].db \in Gone, At(x))'
    BY <1>3
  <2>6. QED
    BY <2>4, <2>5 DEF AllKeep
<1>8. QED
  BY <1>5, <1>6, <1>7

Serves(x) ==
  /\ tx[x].db \in Databases /\ x \in Holders(tx[x].db) /\ tx[x].next # None
  /\ \E n, b : /\ Moves(x, n) /\ Fate(x, n, tx[x].db) /\ Frame(x, tx[x].db, b)
               /\ Keeps(n, x \in committed', tx[x].db \in Gone', At(x)')

(* What such steps keep, and are to the page.                              *)
Served ==
  /\ HoldersKnown' /\ ClosedKnown' /\ AllKeep'
  /\ Service!Next \/ UNCHANGED Service!vars

LEMMA ServesServed ==
  ASSUME ServiceInv, NEW x, Serves(x)
  PROVE  Served
<1>1. PICK d : d = tx[x].db
  OBVIOUS
<1>2. d \in Databases /\ x \in Holders(d) /\ tx[x].next # None
  BY <1>1 DEF Serves
<1>3. PICK n, b : /\ Moves(x, n) /\ Fate(x, n, d) /\ Frame(x, d, b)
                  /\ Keeps(n, x \in committed', d \in Gone', At(x)')
  BY <1>1 DEF Serves
<1>4. HoldersKnown' /\ ClosedKnown' /\ AllKeep'
  BY <1>2, <1>3, ServesInv
<1>5. Service!Next \/ UNCHANGED Service!vars
  BY <1>2, <1>3, MovesServe DEF ServiceInv
<1>6. QED
  BY <1>4, <1>5 DEF Served

-----------------------------------------------------------------------------
(* The steps of the database thread.                                       *)

(* What is known of a transaction at work.                                 *)
LEMMA AtWork ==
  ASSUME ServiceInv, NEW x \in Transactions, Performing(x, "check") \/ Performing(x, "step")
  PROVE  /\ tx[x] \in Transaction /\ tx[x].db \in Databases /\ x \in Holders(tx[x].db)
         /\ tx[x].next \in ThreadSteps /\ tx[x].next # None /\ tx[x].listens # None
         /\ db[tx[x].db] \in Database /\ At(x) = "idle"
         /\ Keeps(tx[x], x \in committed, tx[x].db \in Gone, "idle")
         /\ Sound(tx[x])
<1>1. DatabasesInv /\ AllKeep
  BY DEF ServiceInv
<1>2. x \in Working
  BY DEF Working
<1>3. Known(x)
  BY <1>1, <1>2, WorkingKnown
<1>4. tx[x] \in Transaction /\ tx[x].db \in Databases /\ tx[x].listens # None
      /\ db[tx[x].db] \in Database
  BY <1>1, <1>3 DEF DatabasesInv, TypeOK, Known
<1>5. Apart(Of(tasks), Range(callbacks), Waiting, Working, AtMain)
  BY <1>1 DEF DatabasesInv, OnePlace
<1>6. x \notin Waiting /\ x \notin AtMain
  BY <1>2, <1>5 DEF Apart
<1>7. tx[x].next \in ThreadSteps /\ tx[x].next # None
  <2>1. Fits(x)
    BY <1>1 DEF DatabasesInv, AllFit
  <2>2. tx[x].next \in ThreadSteps
    BY <1>2, <2>1 DEF Fits, Fit
  <2>3. QED
    BY <2>2, NoneIsNone DEF Steps
<1>8. x \in Holders(tx[x].db)
  BY <1>4, <1>6, <1>7 DEF Waiting, Holders
<1>9. At(x) = "idle"
  BY <1>6 DEF AtMain, At
<1>10. Keeps(tx[x], x \in committed, tx[x].db \in Gone, "idle")
  <2>1. Keeps(tx[x], x \in committed, tx[x].db \in Gone, At(x))
    BY <1>1 DEF AllKeep
  <2>2. QED
    BY <1>9, <2>1
<1>11. Sound(tx[x])
  BY <1>1 DEF DatabasesInv, AllSound
<1>12. QED
  BY <1>4, <1>7, <1>8, <1>9, <1>10, <1>11

(* A step of it moves it and nobody else.                                  *)
Works(x, n, b) ==
  /\ tx' = [tx EXCEPT ![x] = n] /\ Alike(tx[x], n)
  /\ n.next = "open" => tx[x].next = "open"
  /\ db' = [db EXCEPT ![tx[x].db] = b] /\ After(db[tx[x].db], b)
  /\ \E q \in {"step", "return"} : thread' = [thread EXCEPT !.pc = q]
  /\ UNCHANGED <<tasks, waiting, main>>

LEMMA WorkGone ==
  ASSUME ServiceInv, NEW x \in Transactions, Performing(x, "check") \/ Performing(x, "step"),
         NEW n, NEW b, Works(x, n, b)
  PROVE  /\ Moves(x, n) /\ Frame(x, tx[x].db, b) /\ At(x)' = "idle"
         /\ Gone' = IF b.spoiled THEN Gone \cup {tx[x].db} ELSE Gone
         /\ ~b.spoiled \/ db[tx[x].db].spoiled => Gone' = Gone
<1>1. DatabasesInv /\ x \in Transactions /\ tx[x].db \in Databases /\ At(x) = "idle"
  BY AtWork DEF ServiceInv
<1>2. Moves(x, n)
  BY DEF Works, Moves, Alike
<1>3. PICK q \in {"step", "return"} : thread' = [thread EXCEPT !.pc = q]
  BY DEF Works
<1>4. thread \in [pc : {"idle", "check", "step", "return", "ended"}, task : Task \cup {None}]
  BY <1>1 DEF DatabasesInv, TypeOK
<1>5. thread'.pc = q /\ thread'.task = thread.task
  BY <1>3, <1>4
<1>6. thread.task.x = x
  BY DEF Performing
<1>7. \A u \in Transactions : At(u)' = At(u)
  BY DEF At, Works
<1>8. Frame(x, tx[x].db, b)
  BY <1>5, <1>6, <1>7 DEF Frame, Performing, Works
<1>9. QED
  BY <1>1, <1>2, <1>7, <1>8, GoneNow

LEMMA WorkServes ==
  ASSUME ServiceInv, NEW x \in Transactions, Performing(x, "check") \/ Performing(x, "step"),
         NEW n, NEW b, Works(x, n, b), Fate(x, n, tx[x].db),
         Keeps(n, x \in committed', tx[x].db \in Gone', "idle")
  PROVE  Serves(x)
<1>1. tx[x].db \in Databases /\ x \in Holders(tx[x].db) /\ tx[x].next # None
  BY AtWork
<1>2. Moves(x, n) /\ Frame(x, tx[x].db, b) /\ At(x)' = "idle"
  BY WorkGone
<1>3. Keeps(n, x \in committed', tx[x].db \in Gone', At(x)')
  BY <1>2
<1>4. QED
  BY <1>1, <1>2, <1>3 DEF Serves

LEMMA SameAfter ==
  ASSUME NEW b \in Database
  PROVE  After(b, b)
BY DEF After

(* It goes on, and its database stays as it is.                            *)
LEMMA WorkOn ==
  ASSUME ServiceInv, NEW x \in Transactions, Performing(x, "check") \/ Performing(x, "step"),
         NEW n, tx' = [tx EXCEPT ![x] = n], Alike(tx[x], n),
         n.next = "open" => tx[x].next = "open", n.next # None, n.told = tx[x].told,
         db' = db, committed' = committed,
         NEW q \in {"step", "return"}, thread' = [thread EXCEPT !.pc = q],
         UNCHANGED <<tasks, waiting, main>>,
         Keeps(n, x \in committed, tx[x].db \in Gone, "idle")
  PROVE  Serves(x)
<1>1. tx[x].db \in Databases /\ db[tx[x].db] \in Database /\ db \in [Databases -> Database]
  BY AtWork DEF ServiceInv, DatabasesInv, TypeOK
<1>2. Works(x, n, db[tx[x].db])
  BY <1>1, SameAfter DEF Works
<1>3. Gone' = Gone
  BY <1>2, WorkGone
<1>4. Fate(x, n, tx[x].db)
  BY <1>3 DEF Fate, Told
<1>5. QED
  BY <1>2, <1>3, <1>4, WorkServes

-----------------------------------------------------------------------------
(* What a step makes of the records.                                       *)

(* The same transaction to the page, and of SQLite.                        *)
Kin(r, s) ==
  /\ s \in Transaction /\ Alike(r, s) /\ s.next = r.next /\ s.told = r.told
  /\ s.onError = r.onError /\ s.onSuccess = r.onSuccess
  /\ s.sqlite = r.sqlite /\ s.commits = r.commits

LEMMA KinNext ==
  ASSUME NEW r, NEW s, Kin(r, s), NEW step \in Steps \cup {None}
  PROVE  LET n == [s EXCEPT !.next = step] IN
         /\ n \in Transaction /\ Alike(r, n) /\ n.next = step /\ n.told = r.told
         /\ n.onError = r.onError /\ n.onSuccess = r.onSuccess
         /\ n.sqlite = r.sqlite /\ n.commits = r.commits
BY DEF Kin, Transaction, Alike, Steps

LEMMA KinAdvanced ==
  ASSUME NEW r \in Transaction, r.retry => r.cur # None
  PROVE  Kin(r, Advanced(r))
<1>1. Advanced(r) \in Transaction
  BY Advances
<1>2. CASE r.retry
  <2>1. Advanced(r) = [r EXCEPT !.retry = FALSE]
    BY <1>2 DEF Advanced
  <2>2. QED
    BY <1>1, <2>1 DEF Transaction, Alike, Kin
<1>3. CASE ~r.retry
  <2>1. PICK c, t : \/ Advanced(r) = [r EXCEPT !.cur = c]
                    \/ Advanced(r) = [r EXCEPT !.cur = c, !.todo = t]
    BY <1>3 DEF Advanced, getNextStatement
  <2>2. QED
    BY <1>1, <2>1 DEF Transaction, Alike, Kin
<1>4. QED
  BY <1>2, <1>3

LEMMA KinErr ==
  ASSUME NEW r, NEW s, Kin(r, s), s.cur # None, NEW e \in {"no", "fault", "quota"}
  PROVE  Kin(r, [s EXCEPT !.cur.err = e])
<1>1. PICK c : c = [s.cur EXCEPT !.err = e]
  OBVIOUS
<1>2. [s EXCEPT !.cur.err = e] = [s EXCEPT !.cur = c]
  BY <1>1 DEF Transaction, Kin
<1>3. [s EXCEPT !.cur.err = e] \in Transaction
  BY ErrSet DEF Kin
<1>4. QED
  BY <1>2, <1>3 DEF Transaction, Alike, Kin

(* A COMMIT goes well, spoils the database, or finds no transaction of     *)
(* SQLite to commit.                                                       *)
LEMMA CommitTells ==
  ASSUME TypeOK, NEW d \in Databases, NEW r \in Transaction, NEW o \in commit(d, r)
  PROVE  /\ After(db[d], o.b)
         /\ \/ o.ok /\ o.b.spoiled = db[d].spoiled
            \/ ~o.ok /\ o.b.spoiled
            \/ ~o.ok /\ o.b = db[d] /\ (r.sqlite = "on" => db[d].sqlite # "begun")
         /\ o.r \in Transaction /\ Alike(r, o.r) /\ o.r.told = r.told /\ o.r.next = r.next
         /\ o.r.onSuccess = r.onSuccess /\ o.r.sqlite # "on"
<1>1. db[d] \in Database
  BY DEF TypeOK
<1>2. PICK off : off = [r EXCEPT !.sqlite = "off"]
  OBVIOUS
<1>3. /\ off \in Transaction /\ Alike(r, off) /\ off.told = r.told /\ off.next = r.next
      /\ off.onSuccess = r.onSuccess /\ off.sqlite # "on"
  BY <1>2 DEF Transaction, Alike
<1>4. CASE r.sqlite # "on"
  <2>1. o = [r |-> r, b |-> db[d], ok |-> FALSE]
    BY <1>4 DEF commit
  <2>2. QED
    BY <1>1, <1>4, <2>1, SameAfter DEF Alike
<1>5. CASE r.sqlite = "on" /\ db[d].sqlite # "begun"
  <2>1. o = [r |-> off, b |-> db[d], ok |-> FALSE]
    BY <1>2, <1>5 DEF commit
  <2>2. QED
    BY <1>1, <1>3, <1>5, <2>1, SameAfter
<1>6. CASE r.sqlite = "on" /\ db[d].sqlite = "begun"
  <2>1. \/ o = [r |-> off, b |-> [db[d] EXCEPT !.sqlite = "open"], ok |-> TRUE]
        \/ \E s \in {"open", "begun"} :
             o = [r |-> off, b |-> [db[d] EXCEPT !.sqlite = s, !.spoiled = TRUE], ok |-> FALSE]
    BY <1>2, <1>6 DEF commit
  <2>2. CASE o = [r |-> off, b |-> [db[d] EXCEPT !.sqlite = "open"], ok |-> TRUE]
    <3>1. PICK b : b = [db[d] EXCEPT !.sqlite = "open"]
      OBVIOUS
    <3>2. After(db[d], b) /\ b.spoiled = db[d].spoiled
      BY <1>1, <3>1 DEF Database, After
    <3>3. o.b = b /\ o.r = off /\ o.ok
      BY <2>2, <3>1
    <3>4. QED
      BY <1>3, <3>2, <3>3
  <2>3. ASSUME NEW s \in {"open", "begun"},
               o = [r |-> off, b |-> [db[d] EXCEPT !.sqlite = s, !.spoiled = TRUE], ok |-> FALSE]
        PROVE  After(db[d], o.b) /\ o.b.spoiled /\ o.r = off /\ ~o.ok
    <3>1. PICK b : b = [db[d] EXCEPT !.sqlite = s, !.spoiled = TRUE]
      OBVIOUS
    <3>2. After(db[d], b) /\ b.spoiled
      BY <1>1, <3>1 DEF Database, After
    <3>3. o.b = b /\ o.r = off /\ ~o.ok
      BY <2>3, <3>1
    <3>4. QED
      BY <3>2, <3>3
  <2>4. QED
    BY <1>3, <2>1, <2>2, <2>3
<1>7. QED
  BY <1>4, <1>5, <1>6

LEMMA CleanupTells ==
  ASSUME TypeOK, NEW x, NEW r \in Transaction, NEW d \in Databases, d = r.db,
         cleanupAfterTransactionErrorCallback(x, r)
  PROVE  \E n, b :
           /\ tx' = [tx EXCEPT ![x] = n] /\ tasks' = tasks
           /\ db' = [db EXCEPT ![d] = b] /\ After(db[d], b)
           /\ n.next = None /\ Alike(r, n) /\ n.told = r.told
           /\ \/ committed' = committed /\ b.spoiled = db[d].spoiled
              \/ r.commits /\ committed' = committed \cup {x} /\ b.spoiled = db[d].spoiled
              \/ r.commits /\ committed' = committed /\ b.spoiled
<1> DEFINE Ends == IF r.commits THEN commit(r.db, r) ELSE {[r |-> r, b |-> db[r.db], ok |-> FALSE]}
<1>1. PICK o \in Ends :
        /\ db' = [db EXCEPT ![r.db] = IF o.r.sqlite = "on" THEN rolledBack(r.db) ELSE o.b]
        /\ committed' = IF o.ok THEN committed \cup {x} ELSE committed
        /\ Stays(x, [o.r EXCEPT !.sqlite = "none", !.todo = <<>>, !.next = None, !.onError = FALSE])
  BY DEF cleanupAfterTransactionErrorCallback
<1>2. PICK n, b : /\ n = [o.r EXCEPT !.sqlite = "none", !.todo = <<>>, !.next = None, !.onError = FALSE]
                  /\ b = IF o.r.sqlite = "on" THEN rolledBack(d) ELSE o.b
  OBVIOUS
<1>3. db[d] \in Database
  BY DEF TypeOK
<1>4. tx' = [tx EXCEPT ![x] = n] /\ tasks' = tasks /\ db' = [db EXCEPT ![d] = b]
  BY <1>1, <1>2 DEF Stays
<1>5. CASE r.commits
  <2>1. o \in commit(d, r)
    BY <1>1, <1>5
  <2>2. /\ After(db[d], o.b)
        /\ \/ o.ok /\ o.b.spoiled = db[d].spoiled
           \/ ~o.ok /\ o.b.spoiled
           \/ ~o.ok /\ o.b = db[d]
        /\ o.r \in Transaction /\ Alike(r, o.r) /\ o.r.told = r.told /\ o.r.sqlite # "on"
    BY <2>1, CommitTells
  <2>3. b = o.b
    BY <1>2, <2>2
  <2>4. n.next = None /\ Alike(r, n) /\ n.told = r.told
    BY <1>2, <2>2 DEF Transaction, Alike
  <2>5. QED
    BY <1>1, <1>4, <1>5, <2>2, <2>3, <2>4
<1>6. CASE ~r.commits
  <2>1. o = [r |-> r, b |-> db[d], ok |-> FALSE]
    BY <1>1, <1>6
  <2>2. o.r = r /\ o.b = db[d] /\ ~o.ok
    BY <2>1
  <2>3. n.next = None /\ Alike(r, n) /\ n.told = r.told
    BY <1>2, <2>2 DEF Transaction, Alike
  <2>4. After(db[d], b) /\ b.spoiled = db[d].spoiled
    <3>1. CASE b = db[d]
      BY <1>3, <3>1, SameAfter
    <3>2. CASE b = [db[d] EXCEPT !.sqlite = "open"]
      BY <1>3, <3>2 DEF Database, After
    <3>3. QED
      BY <1>2, <2>2, <3>1, <3>2 DEF rolledBack
  <2>5. QED
    BY <1>1, <1>4, <2>2, <2>3, <2>4
<1>7. QED
  BY <1>5, <1>6

-----------------------------------------------------------------------------
(* What each step of the database thread is to the page.                   *)

(* A transaction that is over keeps nothing but the end of its story.      *)
LEMMA OverKeeps ==
  ASSUME NEW n, n.next = None, n.listens # None, NEW c, NEW g
  PROVE  Keeps(n, c, g, "idle")
<1>1. None \notin Under \cup {"open", "error", "cleanError", "success", "cleanSuccess"}
  BY NoneIsNone DEF Under, Steps, ThreadSteps, MainSteps
<1>2. QED
  BY <1>1 DEF Keeps

LEMMA EndServes ==
  ASSUME ServiceInv, NEW x \in Transactions, Performing(x, "check") \/ Performing(x, "step"),
         NEW n, NEW b, Works(x, n, b), n.next = None, n.told = tx[x].told,
         \/ committed' = committed /\ b.spoiled = db[tx[x].db].spoiled
         \/ /\ tx[x].next # "open" /\ committed' = committed \cup {x}
            /\ b.spoiled = db[tx[x].db].spoiled
         \/ tx[x].next # "open" /\ committed' = committed /\ b.spoiled,
         \/ tx[x].db \in Gone'
         \/ tx[x].next # "open" /\ n.told # {}
         \/ tx[x].next # "open" /\ x \in committed' /\ "success" \notin n.listens
         \/ x \notin committed' /\ "error" \notin n.listens,
         n.told = {"success"} => committed' = committed
  PROVE  Serves(x)
<1>1. /\ tx[x].db \in Databases /\ tx[x].listens # None /\ n.listens = tx[x].listens
  BY AtWork DEF Works, Alike
<1>2. /\ Gone' = IF b.spoiled THEN Gone \cup {tx[x].db} ELSE Gone
      /\ ~b.spoiled \/ db[tx[x].db].spoiled => Gone' = Gone
  BY WorkGone
<1>3. Gone' \in {Gone, Gone \cup {tx[x].db}} /\ (tx[x].next = "open" => Gone' = Gone)
  BY <1>2
<1>4. Fate(x, n, tx[x].db)
  BY <1>3 DEF Fate, Told
<1>5. Keeps(n, x \in committed', tx[x].db \in Gone', "idle")
  BY <1>1, OverKeeps
<1>6. QED
  BY <1>4, <1>5, WorkServes

LEMMA CheckClosedServes ==
  ASSUME ServiceInv, NEW x \in Transactions, CheckClosed(x)
  PROVE  Serves(x)
<1>1. PICK r : r = closedChecked(tx[x])
  OBVIOUS
<1>2. /\ Performing(x, "check") /\ Stays(x, r)
      /\ thread' = [thread EXCEPT !.pc = IF r.next = None THEN "return" ELSE "step"]
      /\ UNCHANGED <<waiting, db, killed, main, sync, committed>>
  BY <1>1 DEF CheckClosed
<1>3. PICK q \in {"step", "return"} : thread' = [thread EXCEPT !.pc = q]
  BY <1>2
<1>4. /\ tx[x] \in Transaction /\ tx[x].db \in Databases /\ db[tx[x].db] \in Database
      /\ tx[x].next # None /\ Keeps(tx[x], x \in committed, tx[x].db \in Gone, "idle")
  BY <1>2, AtWork
<1>5. tx' = [tx EXCEPT ![x] = r] /\ UNCHANGED <<tasks, waiting, main>>
  BY <1>2 DEF Stays
<1>6. CASE ~db[tx[x].db].stopped
  <2>1. r = tx[x]
    BY <1>1, <1>6 DEF closedChecked
  <2>2. Alike(tx[x], r)
    BY <2>1 DEF Alike
  <2>3. db' = db /\ committed' = committed
    BY <1>2
  <2>4. QED
    BY <1>2, <1>3, <1>4, <1>5, <2>1, <2>2, <2>3, WorkOn
<1>7. CASE db[tx[x].db].stopped
  <2>1. r = [tx[x] EXCEPT !.todo = <<>>, !.next = None, !.sqlite = "none"]
    BY <1>1, <1>7 DEF closedChecked
  <2>2. r.next = None /\ Alike(tx[x], r) /\ r.told = tx[x].told /\ None # "open"
    BY <1>4, <2>1, NoneIsNone DEF Transaction, Alike, Steps, ThreadSteps
  <2>3. db \in [Databases -> Database]
    BY DEF ServiceInv, DatabasesInv, TypeOK
  <2>4. Works(x, r, db[tx[x].db])
    BY <1>2, <1>3, <1>4, <1>5, <2>2, <2>3, SameAfter DEF Works
  <2>5. Gone' = Gone /\ tx[x].db \in Gone
    BY <1>2, <1>4, <1>7, <2>4, WorkGone DEF Gone
  <2>6. QED
    BY <1>2, <2>2, <2>4, <2>5, EndServes
<1>8. QED
  BY <1>6, <1>7

(* A step that leaves the database and SQLite alone.                       *)
LEMMA OnwardServes ==
  ASSUME ServiceInv, NEW x \in Transactions, Performing(x, "step"),
         NEW n, tx' = [tx EXCEPT ![x] = n], Alike(tx[x], n),
         n.next \notin {None, "open"}, n.told = tx[x].told,
         UNCHANGED <<db, committed, tasks>>, Returns \/ UNCHANGED thread, StepFrame,
         Keeps(n, x \in committed, tx[x].db \in Gone, "idle")
  PROVE  Serves(x)
<1>1. thread \in [pc : {"idle", "check", "step", "return", "ended"}, task : Task \cup {None}]
  BY DEF ServiceInv, DatabasesInv, TypeOK
<1>2. PICK q \in {"step", "return"} : thread' = [thread EXCEPT !.pc = q]
  BY <1>1 DEF Returns, Performing
<1>3. db' = db /\ committed' = committed /\ UNCHANGED <<tasks, waiting, main>>
  BY DEF StepFrame
<1>4. QED
  BY <1>2, <1>3, WorkOn

(* handleTransactionError: the page is told, or there is nobody to tell.   *)
LEMMA ErrorServes ==
  ASSUME ServiceInv, NEW x \in Transactions, Performing(x, "step"),
         tx[x].next \in {"open", "run"}, NEW r, Kin(tx[x], r), handleTransactionError(x, r),
         Returns, StepFrame
  PROVE  Serves(x)
<1>1. /\ tx[x] \in Transaction /\ tx[x].db \in Databases
      /\ Keeps(tx[x], x \in committed, tx[x].db \in Gone, "idle")
  BY AtWork
<1>2. /\ x \notin committed /\ tx[x].told = {} /\ tx[x].onError = ("error" \in tx[x].listens)
  BY <1>1 DEF Keeps, Under
<1>3. CASE r.onError /\ ToMain(x, r, "error") /\ UNCHANGED <<db, committed>>
  <2>1. PICK n : n = [r EXCEPT !.next = "error"]
    OBVIOUS
  <2>2. n \in Transaction /\ Alike(tx[x], n) /\ n.next = "error" /\ n.told = tx[x].told
    BY <2>1, KinNext DEF Steps, MainSteps
  <2>3. tx' = [tx EXCEPT ![x] = n] /\ UNCHANGED <<db, committed, tasks>>
    BY <1>3, <2>1 DEF ToMain
  <2>4. "error" \in tx[x].listens
    BY <1>2, <1>3 DEF Kin
  <2>5. Keeps(n, x \in committed, tx[x].db \in Gone, "idle")
    BY <1>1, <1>2, <2>2, <2>4 DEF Keeps, Under, Alike
  <2>6. n.next \notin {None, "open"}
    BY <2>2, NoneIsNone DEF Steps, MainSteps
  <2>7. QED
    BY <2>2, <2>3, <2>5, <2>6, OnwardServes
<1>4. CASE ~r.onError /\ cleanupAfterTransactionErrorCallback(x, [r EXCEPT !.commits = FALSE])
  <2>1. PICK s : s = [r EXCEPT !.commits = FALSE]
    OBVIOUS
  <2>2. s \in Transaction /\ Alike(r, s) /\ s.told = r.told /\ ~s.commits
    BY <2>1 DEF Kin, Transaction, Alike
  <2>3. tx[x].db = s.db /\ Alike(tx[x], s) /\ s.told = tx[x].told
    BY <2>2 DEF Kin, Alike
  <2>4. cleanupAfterTransactionErrorCallback(x, s) /\ TypeOK
    BY <1>4, <2>1 DEF ServiceInv, DatabasesInv
  <2>5. PICK n, b :
           /\ tx' = [tx EXCEPT ![x] = n] /\ tasks' = tasks
           /\ db' = [db EXCEPT ![tx[x].db] = b] /\ After(db[tx[x].db], b)
           /\ n.next = None /\ Alike(s, n) /\ n.told = s.told
           /\ committed' = committed /\ b.spoiled = db[tx[x].db].spoiled
    BY <1>1, <2>2, <2>3, <2>4, CleanupTells
  <2>6. Alike(tx[x], n) /\ n.told = tx[x].told /\ n.next # "open"
    BY <2>3, <2>5, NoneIsNone DEF Alike, Steps, ThreadSteps
  <2>7. Works(x, n, b)
    BY <2>5, <2>6 DEF Works, Returns, StepFrame
  <2>8. "error" \notin n.listens
    BY <1>2, <1>4, <2>6 DEF Kin, Alike
  <2>9. n.told # {"success"}
    BY <1>2, <2>6
  <2>10. QED
    BY <1>2, <2>5, <2>6, <2>7, <2>8, <2>9, EndServes
<1>5. QED
  BY <1>3, <1>4 DEF handleTransactionError

LEMMA SelfKin ==
  ASSUME NEW r \in Transaction
  PROVE  Kin(r, r)
BY DEF Kin, Alike

LEMMA PreflightServes ==
  ASSUME ServiceInv, NEW x \in Transactions, openTransactionAndPreflight(x)
  PROVE  Serves(x)
<1>1. Performing(x, "step") /\ tx[x].next = "open" /\ Returns /\ StepFrame
  BY DEF openTransactionAndPreflight, InStep
<1>2. /\ tx[x] \in Transaction /\ tx[x].db \in Databases /\ db[tx[x].db] \in Database
      /\ tx[x].listens # None
      /\ Keeps(tx[x], x \in committed, tx[x].db \in Gone, "idle")
  BY <1>1, AtWork
<1>3. CASE handleTransactionError(x, tx[x])
  BY <1>1, <1>2, <1>3, SelfKin, ErrorServes
<1>4. CASE /\ db' = [db EXCEPT ![tx[x].db].sqlite = "begun"]
           /\ ToMain(x, [tx[x] EXCEPT !.sqlite = "on"], "transaction")
           /\ UNCHANGED committed
  <2>1. PICK n : n = [[tx[x] EXCEPT !.sqlite = "on"] EXCEPT !.next = "transaction"]
    OBVIOUS
  <2>2. /\ Alike(tx[x], n) /\ n.next = "transaction" /\ n.told = tx[x].told
        /\ n.sqlite = "on" /\ n.onError = tx[x].onError /\ n.onSuccess = tx[x].onSuccess
    BY <1>2, <2>1 DEF Transaction, Alike
  <2>3. tx' = [tx EXCEPT ![x] = n] /\ tasks' = tasks
    BY <1>4, <2>1 DEF ToMain
  <2>4. PICK b : b = [db[tx[x].db] EXCEPT !.sqlite = "begun"]
    OBVIOUS
  <2>5. db' = [db EXCEPT ![tx[x].db] = b] /\ After(db[tx[x].db], b)
        /\ b.spoiled = db[tx[x].db].spoiled
    BY <1>2, <1>4, <2>4 DEF Database, After
  <2>6. Works(x, n, b)
    BY <1>1, <2>2, <2>3, <2>5 DEF Works, Returns, StepFrame
  <2>7. Gone' = Gone
    BY <1>1, <2>5, <2>6, WorkGone
  <2>8. Keeps(n, x \in committed', tx[x].db \in Gone', "idle")
    BY <1>1, <1>2, <1>4, <2>2, <2>7 DEF Keeps, Under, Alike
  <2>9. n.next \notin {None, "open"}
    BY <2>2, NoneIsNone DEF Steps, MainSteps
  <2>10. Fate(x, n, tx[x].db)
    BY <1>4, <2>2, <2>7, <2>9 DEF Fate, Told
  <2>11. QED
    BY <1>1, <2>6, <2>8, <2>10, WorkServes
<1>5. QED
  BY <1>3, <1>4 DEF openTransactionAndPreflight

(* The transaction is between its first statement and its COMMIT.          *)
LEMMA RunOnward ==
  ASSUME ServiceInv, NEW x \in Transactions, InStep(x, "run"),
         NEW n, tx' = [tx EXCEPT ![x] = n], Alike(tx[x], n),
         n.next \in Under, n.told = tx[x].told, n.sqlite = tx[x].sqlite,
         n.onError = tx[x].onError, n.onSuccess = tx[x].onSuccess,
         UNCHANGED <<db, committed, tasks>>, Returns \/ UNCHANGED thread, StepFrame
  PROVE  Serves(x)
<1>1. Performing(x, "step") /\ tx[x].next = "run"
  BY DEF InStep
<1>2. Keeps(tx[x], x \in committed, tx[x].db \in Gone, "idle") /\ tx[x].listens # None
  BY <1>1, AtWork
<1>3. Keeps(n, x \in committed, tx[x].db \in Gone, "idle")
  BY <1>1, <1>2 DEF Keeps, Under, Alike
<1>4. n.next \notin {None, "open"}
  BY NoneIsNone DEF Under, Steps, ThreadSteps, MainSteps
<1>5. QED
  BY <1>1, <1>3, <1>4, OnwardServes

LEMMA StatementErrorServes ==
  ASSUME ServiceInv, NEW x \in Transactions, InStep(x, "run"),
         NEW r, Kin(tx[x], r), handleCurrentStatementError(x, r), Returns, StepFrame
  PROVE  Serves(x)
<1>1. CASE ToMain(x, r, "statement") /\ UNCHANGED <<db, committed>>
  <2>1. PICK n : n = [r EXCEPT !.next = "statement"]
    OBVIOUS
  <2>2. /\ n \in Transaction /\ Alike(tx[x], n) /\ n.next = "statement" /\ n.told = tx[x].told
        /\ n.onError = tx[x].onError /\ n.onSuccess = tx[x].onSuccess /\ n.sqlite = tx[x].sqlite
    BY <2>1, KinNext DEF Steps, MainSteps
  <2>3. tx' = [tx EXCEPT ![x] = n] /\ UNCHANGED <<db, committed, tasks>>
    BY <1>1, <2>1 DEF ToMain
  <2>4. n.next \in Under
    BY <2>2 DEF Under
  <2>5. QED
    BY <2>2, <2>3, <2>4, RunOnward
<1>2. CASE handleTransactionError(x, r)
  BY <1>2, ErrorServes DEF InStep
<1>3. QED
  BY <1>1, <1>2 DEF handleCurrentStatementError

LEMMA QuotaFailedServes ==
  ASSUME ServiceInv, NEW x \in Transactions, RunQuotaFailed(x)
  PROVE  Serves(x)
<1>1. InStep(x, "run") /\ handleCurrentStatementError(x, tx[x]) /\ Returns /\ StepFrame
  BY DEF RunQuotaFailed
<1>2. Kin(tx[x], tx[x])
  BY <1>1, AtWork, SelfKin DEF InStep
<1>3. QED
  BY <1>1, <1>2, StatementErrorServes

LEMMA StatementServes ==
  ASSUME ServiceInv, NEW x \in Transactions, runCurrentStatement(x)
  PROVE  Serves(x)
<1>1. PICK next : next = Advanced(tx[x])
  OBVIOUS
<1>2. /\ InStep(x, "run") /\ StepFrame /\ next.cur # None
      /\ \E e \in Executed(next.db, next.cur) :
            LET r == [next EXCEPT !.cur.err = e] IN
            \/ ToMain(x, r, "statement") /\ Returns /\ UNCHANGED <<db, committed>>
            \/ Stays(x, r) /\ UNCHANGED <<thread, db, committed>>
            \/ ToMain(x, r, "quota") /\ Returns /\ UNCHANGED <<db, committed>>
            \/ handleCurrentStatementError(x, r) /\ Returns
  BY <1>1 DEF runCurrentStatement
<1>3. PICK e \in Executed(next.db, next.cur) :
            LET r == [next EXCEPT !.cur.err = e] IN
            \/ ToMain(x, r, "statement") /\ Returns /\ UNCHANGED <<db, committed>>
            \/ Stays(x, r) /\ UNCHANGED <<thread, db, committed>>
            \/ ToMain(x, r, "quota") /\ Returns /\ UNCHANGED <<db, committed>>
            \/ handleCurrentStatementError(x, r) /\ Returns
  BY <1>2
<1>4. PICK r : r = [next EXCEPT !.cur.err = e]
  OBVIOUS
<1>5. tx[x] \in Transaction /\ Sound(tx[x])
  BY <1>2, AtWork DEF InStep
<1>6. Kin(tx[x], next)
  BY <1>1, <1>5, KinAdvanced DEF Sound
<1>7. e \in {"no", "fault", "quota"}
  BY DEF Executed
<1>8. Kin(tx[x], r)
  BY <1>2, <1>4, <1>6, <1>7, KinErr
<1>9. ASSUME NEW s \in {"statement", "quota"}, ToMain(x, r, s), Returns, UNCHANGED <<db, committed>>
      PROVE  Serves(x)
  <2>1. PICK n : n = [r EXCEPT !.next = s]
    OBVIOUS
  <2>2. s \in Steps \cup {None}
    BY DEF Steps, MainSteps
  <2>3. /\ n \in Transaction /\ Alike(tx[x], n) /\ n.next = s /\ n.told = tx[x].told
        /\ n.onError = tx[x].onError /\ n.onSuccess = tx[x].onSuccess /\ n.sqlite = tx[x].sqlite
    BY <1>8, <2>1, <2>2, KinNext
  <2>4. tx' = [tx EXCEPT ![x] = n] /\ UNCHANGED <<db, committed, tasks>>
    BY <1>9, <2>1 DEF ToMain
  <2>5. n.next \in Under
    BY <2>3 DEF Under
  <2>6. QED
    BY <1>2, <1>9, <2>3, <2>4, <2>5, RunOnward
<1>10. CASE Stays(x, r) /\ UNCHANGED <<thread, db, committed>>
  <2>1. tx' = [tx EXCEPT ![x] = r] /\ UNCHANGED <<db, committed, tasks>> /\ UNCHANGED thread
    BY <1>10 DEF Stays
  <2>2. /\ Alike(tx[x], r) /\ r.next \in Under /\ r.told = tx[x].told
        /\ r.onError = tx[x].onError /\ r.onSuccess = tx[x].onSuccess /\ r.sqlite = tx[x].sqlite
    BY <1>2, <1>8 DEF Kin, Under, InStep
  <2>3. QED
    BY <1>2, <2>1, <2>2, RunOnward
<1>11. CASE handleCurrentStatementError(x, r) /\ Returns
  BY <1>2, <1>8, <1>11, StatementErrorServes
<1>12. QED
  BY <1>3, <1>4, <1>9, <1>10, <1>11

(* The COMMIT, and the postflight before it.                               *)
LEMMA CommitServes ==
  ASSUME ServiceInv, NEW x \in Transactions, postflightAndCommit(x)
  PROVE  Serves(x)
<1>1. PICK r : r = Advanced(tx[x])
  OBVIOUS
<1>2. /\ InStep(x, "run") /\ Returns /\ StepFrame
      /\ \/ handleTransactionError(x, r)
         \/ \E o \in commit(r.db, r) :
               LET done == [o.r EXCEPT !.onError = FALSE] IN
               /\ db' = [db EXCEPT ![r.db] = o.b]
               /\ committed' = IF o.ok THEN committed \cup {x} ELSE committed
               /\ \/ r.onSuccess /\ ToMain(x, done, "success")
                  \/ ~r.onSuccess /\ Stays(x, [done EXCEPT !.next = None])
  BY <1>1 DEF postflightAndCommit
<1>3. Performing(x, "step") /\ tx[x].next = "run"
  BY <1>2 DEF InStep
<1>4. /\ tx[x] \in Transaction /\ tx[x].db \in Databases /\ db[tx[x].db] \in Database
      /\ tx[x].listens # None /\ Sound(tx[x])
      /\ Keeps(tx[x], x \in committed, tx[x].db \in Gone, "idle")
  BY <1>3, AtWork
<1>5. Kin(tx[x], r)
  BY <1>1, <1>4, KinAdvanced DEF Sound
<1>6. CASE handleTransactionError(x, r)
  BY <1>2, <1>3, <1>5, <1>6, ErrorServes
<1>7. PICK d \in Databases : d = r.db /\ d = tx[x].db
  BY <1>4, <1>5 DEF Kin, Alike
<1>8. /\ x \notin committed /\ tx[x].told = {} /\ r.sqlite = "on"
      /\ r.onSuccess = ("success" \in tx[x].listens)
  BY <1>3, <1>4, <1>5 DEF Keeps, Under, Kin
<1>9. ASSUME NEW o \in commit(d, r), db' = [db EXCEPT ![d] = o.b],
             committed' = IF o.ok THEN committed \cup {x} ELSE committed,
             LET done == [o.r EXCEPT !.onError = FALSE] IN
               \/ r.onSuccess /\ ToMain(x, done, "success")
               \/ ~r.onSuccess /\ Stays(x, [done EXCEPT !.next = None])
      PROVE  Serves(x)
  <2>1. /\ After(db[d], o.b)
        /\ \/ o.ok /\ o.b.spoiled = db[d].spoiled
           \/ ~o.ok /\ o.b.spoiled
           \/ ~o.ok /\ o.b = db[d] /\ db[d].sqlite # "begun"
        /\ o.r \in Transaction /\ Alike(r, o.r) /\ o.r.told = r.told
    BY <1>5, <1>8, CommitTells DEF ServiceInv, DatabasesInv, Kin
  <2>2. db[d].sqlite # "begun" => d \in Gone
    <3>1. x \in On(d) /\ Held(On(d), db[d])
      BY <1>5, <1>7, <1>8 DEF On, Kin, ServiceInv, DatabasesInv, OpenKnown
    <3>2. db[d].sqlite # "begun" => db[d].sqlite = "closed"
      BY <3>1 DEF Held
    <3>3. QED
      BY <3>2 DEF ServiceInv, ClosedKnown, Gone
  <2>3. PICK done : done = [o.r EXCEPT !.onError = FALSE]
    OBVIOUS
  <2>4. done \in Transaction /\ Alike(tx[x], done) /\ done.told = {}
    BY <1>5, <1>8, <2>1, <2>3 DEF Transaction, Alike, Kin
  <2>5. PICK s \in {"success", None} :
          /\ tx' = [tx EXCEPT ![x] = [done EXCEPT !.next = s]] /\ tasks' = tasks
          /\ s = "success" <=> r.onSuccess
    <3>1. None # "success"
      BY NoneIsNone DEF Steps, MainSteps
    <3>2. QED
      BY <1>9, <2>3, <3>1 DEF ToMain, Stays
  <2>6. PICK n : n = [done EXCEPT !.next = s]
    OBVIOUS
  <2>7. n.next = s /\ Alike(tx[x], n) /\ n.told = {} /\ n.next # "open"
    BY <2>4, <2>6, NoneIsNone DEF Transaction, Alike, Steps, ThreadSteps
  <2>8. Works(x, n, o.b)
    BY <1>2, <1>7, <1>9, <2>1, <2>5, <2>6, <2>7 DEF Works, Returns, StepFrame
  <2>9. /\ Gone' = IF o.b.spoiled THEN Gone \cup {d} ELSE Gone
        /\ ~o.b.spoiled \/ db[d].spoiled => Gone' = Gone
    BY <1>3, <1>7, <2>8, WorkGone
  <2>10. \/ x \in committed' /\ committed' = committed \cup {x} /\ Gone' = Gone
         \/ committed' = committed /\ Gone' = Gone \cup {d} /\ o.b.spoiled
         \/ committed' = committed /\ Gone' = Gone /\ d \in Gone /\ o.b.spoiled = db[d].spoiled
    BY <1>9, <2>1, <2>2, <2>9
  <2>11. CASE s = None
    <3>1. "success" \notin n.listens
      <4>1. ~r.onSuccess
        BY <2>5, <2>11, NoneIsNone DEF Steps, MainSteps
      <4>2. QED
        BY <1>8, <2>7, <4>1 DEF Alike
    <3>2. \/ committed' = committed /\ o.b.spoiled = db[d].spoiled
          \/ committed' = committed \cup {x} /\ o.b.spoiled = db[d].spoiled
          \/ committed' = committed /\ o.b.spoiled
      BY <1>9, <2>1
    <3>3. d \in Gone' \/ (x \in committed' /\ "success" \notin n.listens)
      BY <2>10, <3>1
    <3>4. QED
      BY <1>3, <1>7, <1>8, <2>7, <2>8, <2>11, <3>2, <3>3, EndServes
  <2>12. CASE s = "success"
    <3>1. n.next \notin {None, "open"}
      BY <2>7, <2>12, NoneIsNone DEF Steps, MainSteps
    <3>2. Fate(x, n, d)
      BY <1>3, <1>8, <2>7, <2>10, <3>1 DEF Fate, Told
    <3>3. "success" \in n.listens
      BY <1>8, <2>5, <2>7, <2>12 DEF Alike
    <3>4. x \in committed' \/ d \in Gone'
      BY <2>10
    <3>5. Keeps(n, x \in committed', d \in Gone', "idle")
      BY <1>4, <2>7, <2>12, <3>3, <3>4 DEF Keeps, Under, Alike
    <3>6. QED
      BY <1>3, <1>7, <2>8, <3>2, <3>5, WorkServes
  <2>13. QED
    BY <2>11, <2>12
<1>10. QED
  BY <1>2, <1>6, <1>7, <1>9

LEMMA SuccessServes ==
  ASSUME ServiceInv, NEW x \in Transactions, cleanupAfterSuccessCallback(x)
  PROVE  Serves(x)
<1>1. /\ Performing(x, "step") /\ tx[x].next = "cleanSuccess" /\ Returns /\ StepFrame
      /\ UNCHANGED <<db, committed>> /\ Stays(x, [tx[x] EXCEPT !.next = None])
  BY DEF cleanupAfterSuccessCallback, InStep
<1>2. /\ tx[x] \in Transaction /\ db[tx[x].db] \in Database /\ tx[x].db \in Databases
      /\ Keeps(tx[x], x \in committed, tx[x].db \in Gone, "idle")
  BY <1>1, AtWork
<1>3. PICK n : n = [tx[x] EXCEPT !.next = None]
  OBVIOUS
<1>4. n.next = None /\ Alike(tx[x], n) /\ n.told = tx[x].told /\ n.next # "open"
  BY <1>2, <1>3, NoneIsNone DEF Transaction, Alike, Steps, ThreadSteps
<1>5. n.told = {"success"}
  BY <1>1, <1>2, <1>4 DEF Keeps
<1>6. tx' = [tx EXCEPT ![x] = n] /\ tasks' = tasks
  BY <1>1, <1>3 DEF Stays
<1>7. db \in [Databases -> Database]
  BY DEF ServiceInv, DatabasesInv, TypeOK
<1>8. Works(x, n, db[tx[x].db])
  BY <1>1, <1>2, <1>4, <1>6, <1>7, SameAfter DEF Works, Returns, StepFrame
<1>9. committed' = committed /\ n.told # {}
  BY <1>1, <1>5
<1>10. QED
  BY <1>1, <1>4, <1>8, <1>9, EndServes

LEMMA CleanupServes ==
  ASSUME ServiceInv, NEW x \in Transactions, CleanupError(x)
  PROVE  Serves(x)
<1>1. /\ Performing(x, "step") /\ tx[x].next = "cleanError" /\ Returns /\ StepFrame
      /\ cleanupAfterTransactionErrorCallback(x, tx[x])
  BY DEF CleanupError, InStep
<1>2. /\ tx[x] \in Transaction /\ tx[x].db \in Databases /\ TypeOK
      /\ Keeps(tx[x], x \in committed, tx[x].db \in Gone, "idle")
  BY <1>1, AtWork DEF ServiceInv, DatabasesInv
<1>3. PICK n, b :
           /\ tx' = [tx EXCEPT ![x] = n] /\ tasks' = tasks
           /\ db' = [db EXCEPT ![tx[x].db] = b] /\ After(db[tx[x].db], b)
           /\ n.next = None /\ Alike(tx[x], n) /\ n.told = tx[x].told
           /\ \/ committed' = committed /\ b.spoiled = db[tx[x].db].spoiled
              \/ /\ tx[x].commits /\ committed' = committed \cup {x}
                 /\ b.spoiled = db[tx[x].db].spoiled
              \/ tx[x].commits /\ committed' = committed /\ b.spoiled
  BY <1>1, <1>2, CleanupTells
<1>4. n.next # "open" /\ n.listens = tx[x].listens
  BY <1>3, NoneIsNone DEF Alike, Steps, ThreadSteps
<1>5. Works(x, n, b)
  BY <1>1, <1>3, <1>4 DEF Works, Returns, StepFrame
<1>6. /\ x \notin committed
      /\ tx[x].told = {"error"} \/ (tx[x].told = {} /\ ~tx[x].commits /\ "error" \notin tx[x].listens)
  BY <1>1, <1>2 DEF Keeps
<1>7. /\ n.told # {} \/ (x \notin committed' /\ "error" \notin n.listens)
      /\ n.told # {"success"}
  BY <1>3, <1>4, <1>6
<1>8. QED
  BY <1>1, <1>3, <1>5, <1>7, EndServes

-----------------------------------------------------------------------------
(* What the callbacks are to the page.                                     *)

(* What is known of a transaction with the main thread.                    *)
LEMMA AtMainThread ==
  ASSUME ServiceInv, NEW x \in Transactions, main.x = x \/ Dispatched(x)
  PROVE  /\ tx[x] \in Transaction /\ tx[x].db \in Databases /\ x \in Holders(tx[x].db)
         /\ tx[x].next \in MainSteps /\ tx[x].next \notin {None, "open"}
         /\ tx[x].listens # None /\ main.x \in {x, None}
         /\ Keeps(tx[x], x \in committed, tx[x].db \in Gone, At(x))
         /\ Sound(tx[x])
         /\ main.x = x /\ main.at # "error" => tx[x].next = main.at
         /\ Dispatched(x) => main.x = None /\ At(x) = "idle"
<1>1. DatabasesInv /\ AllKeep
  BY DEF ServiceInv
<1>2. /\ Known(x) /\ tx[x] \in Transaction /\ Sound(tx[x])
      /\ tx[x].next \in MainSteps
      /\ \A d \in Databases : x \notin Range(waiting[d])
      /\ main.x = x /\ main.at # "error" => tx[x].next = main.at
      /\ main.x \in {x, None} /\ (Dispatched(x) => main.x = None)
  <2>1. CASE main.x = x
    <3>1. ~Dispatched(x)
      <4>1. main.at # "idle"
        BY <1>1, <2>1, NoneIsNone DEF DatabasesInv, WorkKnown
      <4>2. QED
        BY <4>1 DEF Dispatched, Idle
    <3>2. QED
      BY <1>1, <2>1, <3>1, MainKnown
  <2>2. CASE Dispatched(x)
    <3>1. /\ Known(x) /\ tx[x] \in Transaction /\ Sound(tx[x])
          /\ tx[x].next \in MainSteps /\ main.x = None
          /\ \A d \in Databases : x \notin Range(waiting[d])
      BY <1>1, <2>2, CallbackKnown
    <3>2. main.x # x
      BY <3>1, NoneIsNone
    <3>3. QED
      BY <3>1, <3>2
  <2>3. QED
    BY <2>1, <2>2
<1>3. tx[x].next \notin {None, "open"}
  BY <1>2, NoneIsNone DEF MainSteps, Steps
<1>4. x \in Holders(tx[x].db)
  BY <1>2, <1>3 DEF Holders, Known
<1>5. Keeps(tx[x], x \in committed, tx[x].db \in Gone, At(x))
  BY <1>1 DEF AllKeep
<1>6. Dispatched(x) => At(x) = "idle"
  BY <1>2, NoneIsNone DEF At
<1>7. QED
  BY <1>2, <1>3, <1>4, <1>5, <1>6 DEF Known

LEMMA MainServes ==
  ASSUME ServiceInv, NEW x \in Transactions, main.x = x \/ Dispatched(x), MainFrame,
         main'.x \in {x, None},
         NEW n, tx' = [tx EXCEPT ![x] = n], Alike(tx[x], n), n.next # "open",
         tasks' = tasks \/ tasks' = Append(tasks, TransactionTask(tx[x].db, x)),
         \/ n.next # None /\ n.told = tx[x].told
         \/ n.next = None /\ n.told = tx[x].told /\ tx[x].db \in Gone
         \/ \E o \in {"success", "error"} :
              /\ n.next # None /\ n.told = {o} /\ tx[x].told = {} /\ o \in n.listens
              /\ tx[x].db \in Gone \/ (o = "success" <=> x \in committed),
         Keeps(n, x \in committed, tx[x].db \in Gone, At(x)')
  PROVE  Serves(x)
<1>1. /\ tx[x].db \in Databases /\ x \in Holders(tx[x].db)
      /\ tx[x].next \notin {None, "open"} /\ main.x \in {x, None}
  BY AtMainThread
<1>2. db' = db /\ committed' = committed /\ waiting' = waiting /\ thread' = thread
  BY DEF MainFrame
<1>3. Gone' = Gone
  BY <1>2 DEF Gone
<1>4. Moves(x, n)
  BY <1>2 DEF Moves, Alike
<1>5. Fate(x, n, tx[x].db)
  BY <1>1, <1>2, <1>3 DEF Fate, Told
<1>6. db \in [Databases -> Database]
  BY DEF ServiceInv, DatabasesInv, TypeOK
<1>7. \A u \in Transactions \ {x} : At(u)' = At(u)
  BY <1>1, NoneIsNone DEF At
<1>8. Frame(x, tx[x].db, db[tx[x].db])
  BY <1>1, <1>2, <1>6, <1>7, SameAfter DEF Frame, Performing
<1>9. Keeps(n, x \in committed', tx[x].db \in Gone', At(x)')
  BY <1>2, <1>3
<1>10. QED
  BY <1>1, <1>4, <1>5, <1>8, <1>9 DEF Serves

LEMMA DropServes ==
  ASSUME ServiceInv, NEW x \in Transactions, DropCallback(x)
  PROVE  Serves(x)
<1>1. /\ Dispatched(x) /\ db[tx[x].db].stopped /\ tx' = [tx EXCEPT ![x] = closedChecked(tx[x])]
      /\ tasks' = tasks /\ main' = main /\ MainFrame
  BY DEF DropCallback
<1>2. /\ tx[x] \in Transaction /\ tx[x].db \in Databases /\ tx[x].listens # None
      /\ main.x = None /\ At(x) = "idle"
  BY <1>1, AtMainThread
<1>3. PICK n : n = [tx[x] EXCEPT !.todo = <<>>, !.next = None, !.sqlite = "none"]
  OBVIOUS
<1>4. n = closedChecked(tx[x])
  BY <1>1, <1>3 DEF closedChecked
<1>5. n.next = None /\ Alike(tx[x], n) /\ n.told = tx[x].told /\ n.next # "open"
  BY <1>2, <1>3, NoneIsNone DEF Transaction, Alike, Steps, ThreadSteps
<1>6. tx[x].db \in Gone /\ At(x)' = "idle"
  BY <1>1, <1>2 DEF Gone, At
<1>7. n.listens # None
  BY <1>2, <1>5 DEF Alike
<1>8. Keeps(n, x \in committed, tx[x].db \in Gone, At(x)')
  BY <1>5, <1>6, <1>7, OverKeeps
<1>9. QED
  BY <1>1, <1>2, <1>4, <1>5, <1>6, <1>8, MainServes

LEMMA BeginServes ==
  ASSUME ServiceInv, NEW x \in Transactions, BeginCallback(x)
  PROVE  Serves(x)
<1>1. /\ Dispatched(x) /\ tx[x].next \in {"transaction", "statement", "error", "success"}
      /\ tx' = IF tx[x].next \in {"error", "success"}
               THEN [tx EXCEPT ![x].told = @ \cup {tx[x].next}] ELSE tx
      /\ main' = [at |-> tx[x].next, x |-> x] /\ tasks' = tasks /\ MainFrame
  BY DEF BeginCallback
<1>2. /\ tx[x] \in Transaction /\ tx[x].db \in Databases /\ tx[x].listens # None
      /\ tx[x].next \notin {None, "open"}
      /\ Keeps(tx[x], x \in committed, tx[x].db \in Gone, "idle")
  BY <1>1, AtMainThread
<1>3. main'.x \in {x, None} /\ At(x)' = tx[x].next
  BY <1>1 DEF At
<1>4. tx \in [Transactions -> Transaction]
  BY DEF ServiceInv, DatabasesInv, TypeOK
<1>5. CASE tx[x].next \in {"transaction", "statement"}
  <2>1. tx' = [tx EXCEPT ![x] = tx[x]]
    BY <1>1, <1>4, <1>5
  <2>2. Keeps(tx[x], x \in committed, tx[x].db \in Gone, At(x)')
    BY <1>2, <1>3, <1>5 DEF Keeps, Under
  <2>3. Alike(tx[x], tx[x])
    BY DEF Alike
  <2>4. QED
    BY <1>1, <1>2, <1>3, <2>1, <2>2, <2>3, MainServes
<1>6. ASSUME NEW o \in {"success", "error"}, tx[x].next = o
      PROVE  Serves(x)
  <2>1. /\ tx[x].told = {} /\ o \in tx[x].listens
        /\ tx[x].db \in Gone \/ (o = "success" <=> x \in committed)
        /\ o = "error" => x \notin committed
    BY <1>2, <1>6 DEF Keeps
  <2>2. PICK n : n = [tx[x] EXCEPT !.told = {o}]
    OBVIOUS
  <2>3. tx' = [tx EXCEPT ![x] = n]
    BY <1>1, <1>4, <1>6, <2>1, <2>2
  <2>4. Alike(tx[x], n) /\ n.next = o /\ n.told = {o}
    BY <1>2, <1>6, <2>2 DEF Transaction, Alike
  <2>5. Keeps(n, x \in committed, tx[x].db \in Gone, At(x)')
    BY <1>2, <1>3, <1>6, <2>1, <2>4 DEF Keeps, Under, Alike
  <2>6. o \in n.listens /\ n.next \notin {None, "open"}
    BY <1>2, <1>6, <2>1, <2>4 DEF Alike
  <2>7. QED
    BY <1>1, <1>3, <2>1, <2>3, <2>4, <2>5, <2>6, MainServes
<1>7. QED
  BY <1>1, <1>5, <1>6

LEMMA QuotaServes ==
  ASSUME ServiceInv, NEW x \in Transactions, NEW raise \in BOOLEAN,
         deliverQuotaIncreaseCallback(x, raise)
  PROVE  Serves(x)
<1>1. /\ Dispatched(x) /\ tx[x].next = "quota"
      /\ tx' = [tx EXCEPT ![x] = [tx[x] EXCEPT !.next = "run", !.retry = raise,
                                               !.cur.raises = IF raise THEN @ + 1 ELSE @]]
      /\ tasks' = Append(tasks, TransactionTask(tx[x].db, x)) /\ main' = main /\ MainFrame
      /\ raise => tx[x].cur.raises < MaxRaises
  BY DEF deliverQuotaIncreaseCallback
<1>2. /\ tx[x] \in Transaction /\ Sound(tx[x]) /\ tx[x].listens # None
      /\ Keeps(tx[x], x \in committed, tx[x].db \in Gone, "idle")
      /\ main.x = None /\ At(x) = "idle"
  BY <1>1, AtMainThread
<1>3. PICK c : c = [tx[x].cur EXCEPT !.raises = IF raise THEN @ + 1 ELSE @]
  OBVIOUS
<1>4. PICK n : n = [tx[x] EXCEPT !.next = "run", !.retry = raise, !.cur = c]
  OBVIOUS
<1>5. n = [tx[x] EXCEPT !.next = "run", !.retry = raise,
                        !.cur.raises = IF raise THEN @ + 1 ELSE @]
  BY <1>2, <1>3, <1>4 DEF Transaction
<1>6. /\ Alike(tx[x], n) /\ n.next = "run" /\ n.told = tx[x].told /\ n.sqlite = tx[x].sqlite
      /\ n.onError = tx[x].onError /\ n.onSuccess = tx[x].onSuccess
  BY <1>2, <1>4 DEF Transaction, Alike
<1>7. At(x)' = "idle"
  BY <1>1, <1>2 DEF At
<1>8. Keeps(n, x \in committed, tx[x].db \in Gone, At(x)')
  BY <1>1, <1>2, <1>6, <1>7 DEF Keeps, Under, Alike
<1>9. n.next \notin {None, "open"}
  BY <1>6, NoneIsNone DEF Steps, ThreadSteps
<1>10. tx' = [tx EXCEPT ![x] = n]
  BY <1>1, <1>5
<1>11. QED
  BY <1>1, <1>2, <1>6, <1>8, <1>9, <1>10, MainServes

(* A callback that may still run statements goes on, or turns to the error *)
(* callback.                                                               *)
LEMMA AnswerServes ==
  ASSUME ServiceInv, NEW x \in Transactions, main.x = x, tx[x].next \in Under, main.at # "error",
         NEW r, Kin(tx[x], r), MainFrame,
         \/ ErrorInCallback(x, r)
         \/ ToThread(x, r, "run") /\ MainIdle
  PROVE  Serves(x)
<1>1. /\ tx[x] \in Transaction /\ tx[x].db \in Databases /\ tx[x].listens # None
      /\ Keeps(tx[x], x \in committed, tx[x].db \in Gone, At(x)) /\ At(x) # "error"
  BY AtMainThread DEF At
<1>2. /\ x \notin committed /\ tx[x].told = {} /\ tx[x].onError = ("error" \in tx[x].listens)
  BY <1>1 DEF Keeps
<1>3. CASE /\ r.onError /\ main' = [at |-> "error", x |-> x]
           /\ Stays(x, [r EXCEPT !.told = @ \cup {"error"}])
  <2>1. PICK n : n = [r EXCEPT !.told = {"error"}]
    OBVIOUS
  <2>2. r.told = {}
    BY <1>2 DEF Kin
  <2>3. tx' = [tx EXCEPT ![x] = n] /\ tasks' = tasks
    BY <1>3, <2>1, <2>2 DEF Stays
  <2>4. /\ Alike(tx[x], n) /\ n.next = tx[x].next /\ n.told = {"error"}
        /\ n.sqlite = tx[x].sqlite /\ n.onError = tx[x].onError /\ n.onSuccess = tx[x].onSuccess
    BY <2>1 DEF Kin, Transaction, Alike
  <2>5. main'.x \in {x, None} /\ At(x)' = "error"
    BY <1>3 DEF At
  <2>6. n.next \notin {None, "open"}
    BY <2>4, AtMainThread
  <2>7. Keeps(n, x \in committed, tx[x].db \in Gone, At(x)')
    BY <1>1, <1>2, <2>4, <2>5 DEF Keeps, Under, Alike
  <2>8. "error" \in n.listens
    BY <1>2, <1>3, <2>4 DEF Kin, Alike
  <2>9. QED
    BY <1>2, <2>3, <2>4, <2>5, <2>6, <2>7, <2>8, MainServes
<1>4. ASSUME MainIdle PROVE main'.x \in {x, None} /\ At(x)' = "idle"
  BY <1>4, NoneIsNone DEF MainIdle, At
<1>5. CASE ~r.onError /\ ToThread(x, [r EXCEPT !.commits = FALSE], "cleanError") /\ MainIdle
  <2>1. PICK n : n = [[r EXCEPT !.commits = FALSE] EXCEPT !.next = "cleanError"]
    OBVIOUS
  <2>2. /\ Alike(tx[x], n) /\ n.next = "cleanError" /\ n.told = tx[x].told /\ ~n.commits
    BY <2>1 DEF Kin, Transaction, Alike
  <2>3. /\ tx' = [tx EXCEPT ![x] = n]
        /\ tasks' = Append(tasks, TransactionTask(tx[x].db, x))
    <3>1. [r EXCEPT !.commits = FALSE].db = tx[x].db
      BY DEF Kin, Transaction, Alike
    <3>2. QED
      BY <1>5, <2>1, <3>1 DEF ToThread
  <2>4. "error" \notin n.listens
    BY <1>2, <1>5, <2>2 DEF Kin, Alike
  <2>5. Keeps(n, x \in committed, tx[x].db \in Gone, At(x)')
    BY <1>1, <1>2, <1>4, <1>5, <2>2, <2>4 DEF Keeps, Under, Alike
  <2>6. n.next \notin {None, "open"}
    BY <2>2, NoneIsNone DEF Steps, ThreadSteps
  <2>7. QED
    BY <1>4, <1>5, <2>2, <2>3, <2>5, <2>6, MainServes
<1>6. CASE ToThread(x, r, "run") /\ MainIdle
  <2>1. PICK n : n = [r EXCEPT !.next = "run"]
    OBVIOUS
  <2>2. /\ n \in Transaction /\ Alike(tx[x], n) /\ n.next = "run" /\ n.told = tx[x].told
        /\ n.onError = tx[x].onError /\ n.onSuccess = tx[x].onSuccess /\ n.sqlite = tx[x].sqlite
    BY <2>1, KinNext DEF Steps, ThreadSteps
  <2>3. /\ tx' = [tx EXCEPT ![x] = n]
        /\ tasks' = Append(tasks, TransactionTask(tx[x].db, x))
    BY <1>6, <2>1 DEF ToThread, Kin, Alike
  <2>4. Keeps(n, x \in committed, tx[x].db \in Gone, At(x)')
    BY <1>1, <1>2, <1>4, <1>6, <2>2 DEF Keeps, Under, Alike
  <2>5. n.next \notin {None, "open"}
    BY <2>2, NoneIsNone DEF Steps, ThreadSteps
  <2>6. QED
    BY <1>4, <1>6, <2>2, <2>3, <2>4, <2>5, MainServes
<1>7. QED
  BY <1>3, <1>5, <1>6 DEF ErrorInCallback

LEMMA TransactionCallbackServes ==
  ASSUME ServiceInv, NEW x \in Transactions, NEW raised, EndTransactionCallback(x, raised)
  PROVE  Serves(x)
<1>1. /\ main = [at |-> "transaction", x |-> x] /\ MainFrame
      /\ ErrorInCallback(x, tx[x]) \/ (ToThread(x, tx[x], "run") /\ MainIdle)
  BY DEF EndTransactionCallback, Returning
<1>2. main.x = x /\ main.at = "transaction"
  BY <1>1
<1>3. tx[x].next \in Under /\ Kin(tx[x], tx[x])
  BY <1>2, AtMainThread, SelfKin DEF Under
<1>4. QED
  BY <1>1, <1>2, <1>3, AnswerServes

LEMMA StatementCallbackServes ==
  ASSUME ServiceInv, NEW x \in Transactions, NEW failed \in BOOLEAN,
         EndStatementCallback(x, failed)
  PROVE  Serves(x)
<1>1. PICK c : c = [tx[x].cur EXCEPT !.cb = FALSE, !.ecb = FALSE,
                                     !.handled = tx[x].cur.err # "no" /\ ~failed]
  OBVIOUS
<1>2. PICK r : r = [tx[x] EXCEPT !.cur = c]
  OBVIOUS
<1>3. /\ main = [at |-> "statement", x |-> x] /\ MainFrame
      /\ ErrorInCallback(x, r) \/ (ToThread(x, r, "run") /\ MainIdle)
  BY <1>1, <1>2 DEF EndStatementCallback, Returning
<1>4. main.x = x /\ main.at = "statement"
  BY <1>3
<1>5. tx[x].next = "statement" /\ tx[x] \in Transaction /\ Sound(tx[x])
  BY <1>4, AtMainThread
<1>6. tx[x].cur \in Statement
  BY <1>5 DEF Sound, Transaction
<1>7. c \in Statement
  BY <1>1, <1>6 DEF Statement
<1>8. Kin(tx[x], r)
  BY <1>2, <1>5, <1>7 DEF Kin, Transaction, Alike
<1>9. tx[x].next \in Under
  BY <1>5 DEF Under
<1>10. QED
  BY <1>3, <1>4, <1>8, <1>9, AnswerServes

LEMMA ErrorCallbackServes ==
  ASSUME ServiceInv, NEW x \in Transactions, NEW keeps \in BOOLEAN, EndErrorCallback(x, keeps)
  PROVE  Serves(x)
<1>1. /\ main = [at |-> "error", x |-> x] /\ MainFrame /\ MainIdle
      /\ ToThread(x, [tx[x] EXCEPT !.commits = @ /\ keeps], "cleanError")
  BY DEF EndErrorCallback, Returning
<1>2. main.x = x /\ At(x) = "error"
  BY <1>1 DEF At
<1>3. /\ tx[x] \in Transaction /\ tx[x].next \in MainSteps /\ tx[x].listens # None
      /\ Keeps(tx[x], x \in committed, tx[x].db \in Gone, "error")
  BY <1>2, AtMainThread
<1>4. tx[x].told = {"error"} /\ x \notin committed
  BY <1>3 DEF Keeps, MainSteps, Under
<1>5. PICK n : n = [[tx[x] EXCEPT !.commits = @ /\ keeps] EXCEPT !.next = "cleanError"]
  OBVIOUS
<1>6. Alike(tx[x], n) /\ n.next = "cleanError" /\ n.told = tx[x].told
  BY <1>3, <1>5 DEF Transaction, Alike
<1>7. /\ tx' = [tx EXCEPT ![x] = n]
      /\ tasks' = Append(tasks, TransactionTask(tx[x].db, x))
  <2>1. [tx[x] EXCEPT !.commits = @ /\ keeps].db = tx[x].db
    BY <1>3 DEF Transaction
  <2>2. QED
    BY <1>1, <1>5, <2>1 DEF ToThread
<1>8. main'.x \in {x, None} /\ At(x)' = "idle"
  BY <1>1, NoneIsNone DEF MainIdle, At
<1>9. Keeps(n, x \in committed, tx[x].db \in Gone, At(x)')
  BY <1>3, <1>4, <1>6, <1>8 DEF Keeps, Under, Alike
<1>10. n.next \notin {None, "open"}
  BY <1>6, NoneIsNone DEF Steps, ThreadSteps
<1>11. QED
  BY <1>1, <1>2, <1>6, <1>7, <1>8, <1>9, <1>10, MainServes

LEMMA SuccessCallbackServes ==
  ASSUME ServiceInv, NEW x \in Transactions, EndSuccessCallback(x)
  PROVE  Serves(x)
<1>1. /\ main = [at |-> "success", x |-> x] /\ MainFrame /\ MainIdle
      /\ ToThread(x, [tx[x] EXCEPT !.onSuccess = FALSE], "cleanSuccess")
  BY DEF EndSuccessCallback, Returning
<1>2. main.x = x /\ At(x) = "success"
  BY <1>1 DEF At
<1>3. /\ tx[x] \in Transaction /\ tx[x].next = "success" /\ tx[x].listens # None
      /\ Keeps(tx[x], x \in committed, tx[x].db \in Gone, "success")
  BY <1>1, <1>2, AtMainThread
<1>4. tx[x].told = {"success"}
  BY <1>3 DEF Keeps
<1>5. PICK n : n = [[tx[x] EXCEPT !.onSuccess = FALSE] EXCEPT !.next = "cleanSuccess"]
  OBVIOUS
<1>6. Alike(tx[x], n) /\ n.next = "cleanSuccess" /\ n.told = tx[x].told
  BY <1>3, <1>5 DEF Transaction, Alike
<1>7. /\ tx' = [tx EXCEPT ![x] = n]
      /\ tasks' = Append(tasks, TransactionTask(tx[x].db, x))
  <2>1. [tx[x] EXCEPT !.onSuccess = FALSE].db = tx[x].db
    BY <1>3 DEF Transaction
  <2>2. QED
    BY <1>1, <1>5, <2>1 DEF ToThread
<1>8. main'.x \in {x, None} /\ At(x)' = "idle"
  BY <1>1, NoneIsNone DEF MainIdle, At
<1>9. Keeps(n, x \in committed, tx[x].db \in Gone, At(x)')
  BY <1>3, <1>4, <1>6, <1>8 DEF Keeps, Under, Alike
<1>10. n.next \notin {None, "open"}
  BY <1>6, NoneIsNone DEF Steps, ThreadSteps
<1>11. QED
  BY <1>1, <1>2, <1>6, <1>7, <1>8, <1>9, <1>10, MainServes

LEMMA ExecuteServes ==
  ASSUME ServiceInv, NEW x \in Transactions, NEW s \in Statements, executeSQL(x, s)
  PROVE  Serves(x)
<1>1. PICK e, t : /\ tx' = [tx EXCEPT ![x].executed = e, ![x].todo = t]
                  /\ main.x = x /\ main' = main /\ tasks' = tasks /\ MainFrame
  BY DEF executeSQL
<1>2. /\ tx[x] \in Transaction /\ tx[x].next \notin {None, "open"}
      /\ Keeps(tx[x], x \in committed, tx[x].db \in Gone, At(x))
  BY <1>1, AtMainThread
<1>3. PICK n : n = [tx[x] EXCEPT !.executed = e, !.todo = t]
  OBVIOUS
<1>4. tx \in [Transactions -> Transaction]
  BY DEF ServiceInv, DatabasesInv, TypeOK
<1>5. tx' = [tx EXCEPT ![x] = n]
  BY <1>1, <1>3, <1>4
<1>6. /\ Alike(tx[x], n) /\ n.next = tx[x].next /\ n.told = tx[x].told
      /\ n.sqlite = tx[x].sqlite /\ n.onError = tx[x].onError /\ n.onSuccess = tx[x].onSuccess
      /\ n.commits = tx[x].commits
  BY <1>2, <1>3 DEF Transaction, Alike
<1>7. main'.x \in {x, None} /\ At(x)' = At(x)
  BY <1>1 DEF At
<1>8. Keeps(n, x \in committed, tx[x].db \in Gone, At(x)')
  BY <1>2, <1>6, <1>7 DEF Keeps, Under, Alike
<1>9. QED
  BY <1>1, <1>2, <1>5, <1>6, <1>7, <1>8, MainServes

-----------------------------------------------------------------------------
(* What only concerns the databases: to the page some of them are gone.    *)
LEMMA AsideServed ==
  ASSUME ServiceInv, UNCHANGED <<tx, waiting, main, committed>>, Gone \subseteq Gone',
         \A u \in Transactions : Performing(u, "return")' => Performing(u, "return"),
         \A d \in Databases : ~db'[d].stopped => ~db[d].stopped /\ (db[d].busy => db'[d].busy),
         ClosedKnown'
  PROVE  Served
<1>1. \A d \in Databases : Holders(d)' \subseteq Holders(d)
  BY DEF Holders
<1>2. HoldersKnown'
  BY <1>1 DEF ServiceInv, HoldersKnown
<1>3. AllKeep'
  <2>1. ASSUME NEW u \in Transactions
        PROVE  Keeps(tx[u], u \in committed, tx[u].db \in Gone, At(u))'
    <3>1. tx'[u] = tx[u] /\ (u \in committed' <=> u \in committed) /\ At(u)' = At(u)
      BY DEF At
    <3>2. QED
      BY <3>1, KeepsStill DEF ServiceInv
  <2>2. QED
    BY <2>1 DEF AllKeep
<1>4. \A d \in Databases : Pending(d)' = Pending(d) /\ Running(d)' = Running(d)
  BY DEF Pending, Running, Scheduled, Begun
<1>5. Service!Leave(Gone')
  BY <1>4 DEF Service!Leave
<1>6. Gone' \in SUBSET Databases
  BY DEF Gone
<1>7. QED
  BY <1>2, <1>3, <1>5, <1>6 DEF Served, Service!Next

LEMMA SameGone ==
  ASSUME \A d \in Databases : /\ db'[d].stopped = db[d].stopped
                              /\ db'[d].deleted = db[d].deleted
                              /\ db'[d].spoiled = db[d].spoiled
  PROVE  Gone' = Gone
BY DEF Gone

LEMMA TakeTaskServed ==
  ASSUME ServiceInv, TakeTask
  PROVE  Served
<1>1. /\ tasks # <<>> /\ tasks' = Tail(tasks) /\ thread' = [pc |-> "check", task |-> Head(tasks)]
      /\ UNCHANGED <<tx, waiting, main, committed>> /\ db' = db
  BY DEF TakeTask
<1>2. tasks \in Seq(Task)
  BY DEF ServiceInv, DatabasesInv, TypeOK
<1>3. /\ 1 \in 1..Len(tasks) /\ tasks[1] = Head(tasks)
      /\ \A i \in 1..Len(tasks') : i + 1 \in 1..Len(tasks) /\ tasks'[i] = tasks[i + 1]
  BY <1>1, <1>2, HeadAndTail
<1>4. thread'.pc = "check" /\ thread'.task = tasks[1]
  BY <1>1, <1>3
<1>5. ClosedKnown'
  <2>1. \A d \in Databases : db'[d].sqlite = "closed" => db'[d].deleted
    BY <1>1 DEF ServiceInv, ClosedKnown
  <2>2. \A i \in 1..Len(tasks') : tasks'[i].kind = "close" => db'[tasks'[i].d].deleted
    BY <1>1, <1>3 DEF ServiceInv, ClosedKnown
  <2>3. thread'.task.kind = "close" => db'[thread'.task.d].deleted
    BY <1>1, <1>3, <1>4 DEF ServiceInv, ClosedKnown
  <2>4. QED
    BY <2>1, <2>2, <2>3 DEF ClosedKnown
<1>6. \A u \in Transactions : ~Performing(u, "return")'
  BY <1>4 DEF Performing
<1>7. Gone' = Gone
  BY <1>1 DEF Gone
<1>8. QED
  BY <1>1, <1>5, <1>6, <1>7, AsideServed

LEMMA ThreadEndsServed ==
  ASSUME ServiceInv, ThreadEnds
  PROVE  Served
<1>1. /\ thread' = [pc |-> "ended", task |-> None] /\ tasks' = tasks
      /\ UNCHANGED <<tx, waiting, main, committed>> /\ db' = db
  BY DEF ThreadEnds
<1>2. ClosedKnown'
  BY <1>1 DEF ServiceInv, ClosedKnown
<1>3. \A u \in Transactions : ~Performing(u, "return")'
  BY <1>1 DEF Performing
<1>4. Gone' = Gone
  BY <1>1 DEF Gone
<1>5. QED
  BY <1>1, <1>2, <1>3, <1>4, AsideServed

(* The thread has opened or closed a database.                             *)
LEMMA PerformedServed ==
  ASSUME ServiceInv, thread.pc = "check", thread.task.kind # "transaction",
         NEW s \in {"open", "failed", "closed"}, s = "closed" => thread.task.kind = "close",
         db' = [db EXCEPT ![thread.task.d].sqlite = s],
         thread' = [pc |-> "idle", task |-> None],
         UNCHANGED <<tx, waiting, main, committed>>, tasks' = tasks
  PROVE  Served
<1>1. thread.task \in Task /\ db \in [Databases -> Database]
  BY DEF ServiceInv, DatabasesInv, WorkKnown, TypeOK
<1>2. PICK d \in Databases : d = thread.task.d
  BY <1>1 DEF Task
<1>3. db'[d] = [db[d] EXCEPT !.sqlite = s] /\ \A e \in Databases \ {d} : db'[e] = db[e]
  BY <1>1, <1>2
<1>4. /\ db'[d].sqlite = s /\ db'[d].deleted = db[d].deleted /\ db'[d].spoiled = db[d].spoiled
      /\ db'[d].stopped = db[d].stopped /\ db'[d].busy = db[d].busy
  BY <1>1, <1>3 DEF Database
<1>5. ClosedKnown'
  <2>1. \A e \in Databases : db'[e].sqlite = "closed" => db'[e].deleted
    BY <1>2, <1>3, <1>4 DEF ServiceInv, ClosedKnown
  <2>2. ASSUME NEW i \in 1..Len(tasks'), tasks'[i].kind = "close"
        PROVE  db'[tasks'[i].d].deleted
    <3>1. tasks[i] \in Task
      <4>1. tasks \in Seq(Task)
        BY DEF ServiceInv, DatabasesInv, TypeOK
      <4>2. QED
        BY <4>1, ElementOfSeq
    <3>2. db[tasks[i].d].deleted /\ tasks[i].d \in Databases
      BY <2>2, <3>1 DEF ServiceInv, ClosedKnown, Task
    <3>3. QED
      BY <1>3, <1>4, <3>2
  <2>3. thread'.pc # "check"
    OBVIOUS
  <2>4. QED
    BY <2>1, <2>2, <2>3 DEF ClosedKnown
<1>6. \A u \in Transactions : ~Performing(u, "return")'
  BY DEF Performing
<1>7. Gone' = Gone
  BY <1>3, <1>4, SameGone
<1>8. \A e \in Databases : ~db'[e].stopped => ~db[e].stopped /\ (db[e].busy => db'[e].busy)
  BY <1>3, <1>4
<1>9. QED
  BY <1>5, <1>6, <1>7, <1>8, AsideServed

LEMMA PerformServed ==
  ASSUME ServiceInv, PerformClose \/ \E opens \in BOOLEAN : PerformOpen(opens)
  PROVE  Served
<1>1. CASE PerformClose
  BY <1>1, PerformedServed DEF PerformClose
<1>2. ASSUME NEW opens \in BOOLEAN, PerformOpen(opens) PROVE Served
  <2>1. PICK s \in {"open", "failed"} : s = IF opens THEN "open" ELSE "failed"
    OBVIOUS
  <2>2. QED
    BY <1>2, <2>1, PerformedServed DEF PerformOpen
<1>3. QED
  BY <1>1, <1>2

(* A task is queued in front; q, what is kept of the queue, is part of it. *)
LEMMA TasksClosed ==
  ASSUME ServiceInv, NEW q \in Seq(Task), Part(q, tasks), NEW t,
         \A e \in Databases : /\ db[e].deleted => db'[e].deleted
                              /\ db'[e].sqlite = "closed" => db[e].sqlite = "closed",
         thread' = thread,
         \/ tasks' = q
         \/ /\ tasks' = <<t>> \o q /\ t \in Task
            /\ t.kind = "close" => db'[t.d].deleted
  PROVE  ClosedKnown'
<1>1. tasks \in Seq(Task)
  BY DEF ServiceInv, DatabasesInv, TypeOK
<1>2. ASSUME NEW i \in 1..Len(tasks), tasks[i].kind = "close" PROVE db'[tasks[i].d].deleted
  <2>1. tasks[i] \in Task
    BY <1>1, ElementOfSeq
  <2>2. db[tasks[i].d].deleted /\ tasks[i].d \in Databases
    BY <1>2, <2>1 DEF ServiceInv, ClosedKnown, Task
  <2>3. QED
    BY <2>2
<1>3. ASSUME NEW i \in 1..Len(q), q[i].kind = "close" PROVE db'[q[i].d].deleted
  <2>1. PICK p \in [1..Len(q) -> 1..Len(tasks)] : \A j \in 1..Len(q) : q[j] = tasks[p[j]]
    BY DEF Part
  <2>2. p[i] \in 1..Len(tasks) /\ q[i] = tasks[p[i]]
    BY <2>1
  <2>3. QED
    BY <1>2, <1>3, <2>2
<1>4. ASSUME NEW i \in 1..Len(tasks'), tasks'[i].kind = "close" PROVE db'[tasks'[i].d].deleted
  <2>1. CASE tasks' = q
    BY <1>3, <1>4, <2>1
  <2>2. CASE tasks' = <<t>> \o q /\ t \in Task /\ (t.kind = "close" => db'[t.d].deleted)
    <3>1. tasks' \in Seq(Task) /\ tasks' # <<>> /\ Head(tasks') = t /\ Tail(tasks') = q
      BY <2>2, PushProperties
    <3>2. /\ tasks'[1] = t /\ Len(q) = Len(tasks') - 1 /\ Len(tasks') \in Nat
          /\ \A j \in 1..Len(q) : tasks'[j + 1] = q[j]
      BY <3>1, HeadTailProperties, LenProperties
    <3>3. CASE i = 1
      BY <1>4, <2>2, <3>2, <3>3
    <3>4. CASE i # 1
      <4>1. i - 1 \in 1..Len(q) /\ (i - 1) + 1 = i
        BY <3>2, <3>4
      <4>2. tasks'[i] = q[i - 1]
        BY <3>2, <4>1
      <4>3. QED
        BY <1>3, <1>4, <4>1, <4>2
    <3>5. QED
      BY <3>3, <3>4
  <2>3. QED
    BY <2>1, <2>2
<1>5. \A e \in Databases : db'[e].sqlite = "closed" => db'[e].deleted
  BY DEF ServiceInv, ClosedKnown
<1>6. ASSUME thread'.pc = "check", thread'.task.kind = "close"
      PROVE  db'[thread'.task.d].deleted
  <2>1. thread.task \in Task
    BY <1>6 DEF ServiceInv, DatabasesInv, WorkKnown
  <2>2. thread.task.d \in Databases
    BY <2>1 DEF Task
  <2>3. QED
    BY <1>6, <2>2 DEF ServiceInv, ClosedKnown
<1>7. QED
  BY <1>4, <1>5, <1>6 DEF ClosedKnown

LEMMA OpenDatabaseServed ==
  ASSUME ServiceInv, NEW d \in Databases, openDatabase(d)
  PROVE  Served
<1>1. /\ db' = [db EXCEPT ![d].sqlite = "opening"] /\ tasks' = <<SyncTask("open", d)>> \o tasks
      /\ UNCHANGED <<tx, waiting, main, committed>> /\ thread' = thread
  BY DEF openDatabase
<1>2. db \in [Databases -> Database] /\ tasks \in Seq(Task)
  BY DEF ServiceInv, DatabasesInv, TypeOK
<1>3. db'[d] = [db[d] EXCEPT !.sqlite = "opening"] /\ \A e \in Databases \ {d} : db'[e] = db[e]
  BY <1>1, <1>2
<1>4. /\ db'[d].sqlite = "opening" /\ db'[d].deleted = db[d].deleted
      /\ db'[d].spoiled = db[d].spoiled
      /\ db'[d].stopped = db[d].stopped /\ db'[d].busy = db[d].busy
  BY <1>2, <1>3 DEF Database
<1>5. \A e \in Databases : /\ db[e].deleted => db'[e].deleted
                           /\ db'[e].sqlite = "closed" => db[e].sqlite = "closed"
  BY <1>3, <1>4
<1>6. Part(tasks, tasks)
  BY <1>2, SamePart
<1>7. ClosedKnown'
  <2>1. SyncTask("open", d) \in Task /\ SyncTask("open", d).kind # "close"
    BY DEF SyncTask, Task
  <2>2. QED
    BY <1>1, <1>2, <1>5, <1>6, <2>1, TasksClosed
<1>8. Gone' = Gone
  BY <1>3, <1>4, SameGone
<1>9. \A e \in Databases : ~db'[e].stopped => ~db[e].stopped /\ (db[e].busy => db'[e].busy)
  BY <1>3, <1>4
<1>10. \A u \in Transactions : Performing(u, "return")' => Performing(u, "return")
  BY <1>1 DEF Performing
<1>11. QED
  BY <1>1, <1>7, <1>8, <1>9, <1>10, AsideServed

LEMMA StopServed ==
  ASSUME ServiceInv, stopDatabases
  PROVE  Served
<1>1. /\ db' = [d \in Databases |->
              IF d \in Opened THEN [db[d] EXCEPT !.stopped = TRUE, !.busy = FALSE] ELSE db[d]]
      /\ tasks' = TasksWithout(Opened)
      /\ UNCHANGED <<tx, waiting, main, committed>> /\ thread' = thread
  BY DEF stopDatabases
<1>2. db \in [Databases -> Database]
  BY DEF ServiceInv, DatabasesInv, TypeOK
<1>3. \A d \in Databases : /\ db'[d].sqlite = db[d].sqlite /\ db'[d].deleted = db[d].deleted
                           /\ db'[d].spoiled = db[d].spoiled
                           /\ db'[d] = db[d] \/ db'[d].stopped
  <2> SUFFICES ASSUME NEW d \in Databases
               PROVE  /\ db'[d].sqlite = db[d].sqlite /\ db'[d].deleted = db[d].deleted
                      /\ db'[d].spoiled = db[d].spoiled
                      /\ db'[d] = db[d] \/ db'[d].stopped
    OBVIOUS
  <2>1. db[d] \in Database
    BY <1>2
  <2>2. db'[d] = db[d] \/ db'[d] = [db[d] EXCEPT !.stopped = TRUE, !.busy = FALSE]
    BY <1>1
  <2>3. QED
    BY <2>1, <2>2 DEF Database
<1>4. Gone \subseteq Gone'
  BY <1>3 DEF Gone
<1>5. tasks' \in Seq(Task) /\ Part(tasks', tasks)
  BY <1>1, UnscheduledPart DEF ServiceInv
<1>6. ClosedKnown'
  BY <1>1, <1>3, <1>5, TasksClosed
<1>7. \A u \in Transactions : Performing(u, "return")' => Performing(u, "return")
  BY <1>1 DEF Performing
<1>8. \A d \in Databases : ~db'[d].stopped => ~db[d].stopped /\ (db[d].busy => db'[d].busy)
  BY <1>3
<1>9. QED
  BY <1>1, <1>4, <1>6, <1>7, <1>8, AsideServed

LEMMA DeletedServed ==
  ASSUME ServiceInv, NEW d \in Databases, markAsDeletedAndClose(d)
  PROVE  Served
<1>1. /\ db' = [db EXCEPT ![d].deleted = TRUE]
      /\ tasks' = tasks \/ tasks' = <<SyncTask("close", d)>> \o TasksWithout({d})
      /\ UNCHANGED <<tx, waiting, main, committed>> /\ thread' = thread
  BY DEF markAsDeletedAndClose
<1>2. db \in [Databases -> Database] /\ tasks \in Seq(Task)
  BY DEF ServiceInv, DatabasesInv, TypeOK
<1>3. db'[d] = [db[d] EXCEPT !.deleted = TRUE] /\ \A e \in Databases \ {d} : db'[e] = db[e]
  BY <1>1, <1>2
<1>4. /\ db'[d].sqlite = db[d].sqlite /\ db'[d].deleted /\ db'[d].spoiled = db[d].spoiled
      /\ db'[d].stopped = db[d].stopped /\ db'[d].busy = db[d].busy
  BY <1>2, <1>3 DEF Database
<1>5. \A e \in Databases : /\ db[e].deleted => db'[e].deleted
                           /\ db'[e].sqlite = "closed" => db[e].sqlite = "closed"
  BY <1>3, <1>4
<1>6. PICK q \in Seq(Task) : /\ Part(q, tasks)
                             /\ tasks' = q \/ tasks' = <<SyncTask("close", d)>> \o q
  <2>1. CASE tasks' = tasks
    BY <1>2, <2>1, SamePart
  <2>2. CASE tasks' = <<SyncTask("close", d)>> \o TasksWithout({d})
    BY <2>2, UnscheduledPart DEF ServiceInv
  <2>3. QED
    BY <1>1, <2>1, <2>2
<1>7. ClosedKnown'
  <2>1. SyncTask("close", d) \in Task /\ SyncTask("close", d).d = d
    BY DEF SyncTask, Task
  <2>2. QED
    BY <1>1, <1>4, <1>5, <1>6, <2>1, TasksClosed
<1>8. Gone \subseteq Gone'
  BY <1>3, <1>4 DEF Gone
<1>9. \A e \in Databases : ~db'[e].stopped => ~db[e].stopped /\ (db[e].busy => db'[e].busy)
  BY <1>3, <1>4
<1>10. \A u \in Transactions : Performing(u, "return")' => Performing(u, "return")
  BY <1>1 DEF Performing
<1>11. QED
  BY <1>1, <1>7, <1>8, <1>9, <1>10, AsideServed

-----------------------------------------------------------------------------
(* The queue of a database.                                                *)

(* The first of the queue w of a database gets its turn, and nobody else   *)
(* has it.                                                                 *)
LEMMA TurnGiven ==
  ASSUME NEW d \in Databases, NEW w \in Seq(Transactions), w # <<>>, Once(w),
         waiting'[d] = Tail(w),
         \A u \in Transactions : u \in Range(w) => tx'[u].next = "open" /\ tx'[u].db = d,
         \A u \in Transactions :
           tx'[u].db = d /\ (tx'[u].next # None \/ Performing(u, "return")') => u \in Range(w)
  PROVE  /\ Pending(d)' = w /\ Running(d)' = None
         /\ \A u, v \in Holders(d)' : u = v
<1>1. PICK y : y = Head(w)
  OBVIOUS
<1>2. /\ y \in Transactions /\ Tail(w) \in Seq(Transactions)
      /\ \A u : u \in Range(w) <=> u = y \/ u \in Range(Tail(w))
  BY <1>1, HeadAndTail
<1>3. y \notin Range(Tail(w))
  BY <1>1, QueueShrinks
<1>4. None # "open"
  BY NoneIsNone DEF Steps, ThreadSteps
<1>5. Scheduled(d)' = {y}
  BY <1>2, <1>3, <1>4 DEF Scheduled
<1>6. Begun(d)' = {}
  BY DEF Begun
<1>7. Holders(d)' \subseteq {y}
  BY <1>2 DEF Holders
<1>8. Pending(d)' = <<y>> \o Tail(w)
  <2>1. TheOne({y}) = y /\ {y} # {}
    BY OnlyOne
  <2>2. QED
    BY <1>5, <2>1 DEF Pending
<1>9. <<y>> \o Tail(w) = w
  <2>1. PICK s : s = <<y>> \o Tail(w)
    OBVIOUS
  <2>2. s \in Seq(Transactions) /\ s # <<>> /\ Head(s) = y /\ Tail(s) = Tail(w)
    BY <1>2, <2>1, PushProperties
  <2>3. Len(s) = Len(w) /\ Len(s) \in Nat
    <3>1. Len(Tail(s)) = Len(s) - 1 /\ Len(Tail(w)) = Len(w) - 1
      BY <2>2, HeadTailProperties
    <3>2. Len(s) \in Nat /\ Len(w) \in Nat
      BY <2>2, LenProperties
    <3>3. Len(s) - 1 = Len(w) - 1
      BY <2>2, <3>1
    <3>4. QED
      BY <3>2, <3>3
  <2>4. \A i \in 1..Len(s) : s[i] = w[i]
    <3>1. /\ Head(s) = s[1] /\ Head(w) = w[1]
          /\ Len(Tail(s)) = Len(s) - 1
          /\ \A i \in 1..Len(Tail(s)) : Tail(s)[i] = s[i + 1]
          /\ \A i \in 1..Len(Tail(w)) : Tail(w)[i] = w[i + 1]
      BY <2>2, HeadTailProperties
    <3>2. \A i \in 1..Len(Tail(s)) : s[i + 1] = w[i + 1]
      BY <2>2, <3>1
    <3>3. ASSUME NEW i \in 1..Len(s) PROVE s[i] = w[i]
      <4>1. CASE i = 1
        BY <1>1, <2>2, <3>1, <4>1
      <4>2. CASE i # 1
        <5>1. i - 1 \in 1..Len(Tail(s)) /\ (i - 1) + 1 = i
          BY <2>3, <3>1, <4>2
        <5>2. QED
          BY <3>2, <5>1
      <4>3. QED
        BY <4>1, <4>2
    <3>4. QED
      BY <3>3
  <2>5. QED
    BY <2>1, <2>2, <2>3, <2>4, SeqEqual
<1>10. QED
  BY <1>6, <1>7, <1>8, <1>9 DEF Running

(* Nothing changes for the other databases.                                *)
LEMMA OthersStill ==
  ASSUME NEW d \in Databases, NEW x \in Transactions, NEW r, r.db = d, tx[x].next = None,
         tx \in [Transactions -> Transaction], tx' = [tx EXCEPT ![x] = r],
         \A e \in Databases \ {d} : waiting'[e] = waiting[e],
         \A u \in Transactions : Performing(u, "return")' => Performing(u, "return")
  PROVE  \A e \in Databases \ {d} :
           Pending(e)' = Pending(e) /\ Running(e)' = Running(e) /\ Holders(e)' \subseteq Holders(e)
<1> SUFFICES ASSUME NEW e \in Databases \ {d}
             PROVE  /\ Pending(e)' = Pending(e) /\ Running(e)' = Running(e)
                    /\ Holders(e)' \subseteq Holders(e)
  OBVIOUS
<1>1. waiting'[e] = waiting[e] /\ tx'[x] = r /\ \A u \in Transactions \ {x} : tx'[u] = tx[u]
  OBVIOUS
<1>2. "open" # None
  BY NoneIsNone DEF Steps, ThreadSteps
<1>3. Scheduled(e)' = Scheduled(e)
  BY <1>1, <1>2 DEF Scheduled
<1>4. Begun(e)' = Begun(e)
  BY <1>1 DEF Begun
<1>5. Pending(e)' = Pending(e)
  BY <1>1, <1>3 DEF Pending
<1>6. Running(e)' = Running(e)
  BY <1>4 DEF Running
<1>7. Holders(e)' \subseteq Holders(e)
  BY <1>1 DEF Holders
<1>8. QED
  BY <1>5, <1>6, <1>7

(* Only the busy flag of d may change.                                     *)
LEMMA BusySet ==
  ASSUME DatabasesInv, NEW d \in Databases, NEW b \in BOOLEAN,
         db' = db \/ db' = [db EXCEPT ![d].busy = b]
  PROVE  /\ \A e \in Databases : /\ db'[e].sqlite = db[e].sqlite
                                 /\ db'[e].stopped = db[e].stopped
                                 /\ db'[e].deleted = db[e].deleted
                                 /\ db'[e].spoiled = db[e].spoiled
         /\ \A e \in Databases \ {d} : db'[e].busy = db[e].busy
         /\ db' = [db EXCEPT ![d].busy = b] => db'[d].busy = b
<1>1. db \in [Databases -> Database]
  BY DEF DatabasesInv, TypeOK
<1>2. db' = db \/ db' = [db EXCEPT ![d] = [db[d] EXCEPT !.busy = b]]
  OBVIOUS
<1>3. PICK c : c = [db[d] EXCEPT !.busy = b]
  OBVIOUS
<1>4. /\ c.sqlite = db[d].sqlite /\ c.stopped = db[d].stopped /\ c.deleted = db[d].deleted
      /\ c.spoiled = db[d].spoiled /\ c.busy = b
  BY <1>1, <1>3 DEF Database
<1>5. CASE db' = [db EXCEPT ![d] = c]
  BY <1>1, <1>4, <1>5
<1>6. CASE db' = db /\ db # [db EXCEPT ![d] = c]
  BY <1>3, <1>6
<1>7. QED
  BY <1>2, <1>3, <1>5, <1>6

(* A task is added that only the database thread's queue knows of.         *)
LEMMA ClosedStill ==
  ASSUME ServiceInv, NEW d \in Databases, NEW y,
         tasks' = tasks \/ (y \in Transactions /\ tasks' = Append(tasks, TransactionTask(d, y))),
         \A e \in Databases : db'[e].sqlite = db[e].sqlite /\ db'[e].deleted = db[e].deleted,
         thread' = thread \/ thread'.pc # "check"
  PROVE  ClosedKnown'
<1>1. tasks \in Seq(Task)
  BY DEF ServiceInv, DatabasesInv, TypeOK
<1>2. ASSUME NEW i \in 1..Len(tasks'), tasks'[i].kind = "close" PROVE db'[tasks'[i].d].deleted
  <2>1. i \in 1..Len(tasks) /\ tasks'[i] = tasks[i]
    <3>1. CASE tasks' = tasks
      BY <3>1
    <3>2. CASE y \in Transactions /\ tasks' = Append(tasks, TransactionTask(d, y))
      <4>1. TransactionTask(d, y) \in Task /\ TransactionTask(d, y).kind # "close"
        BY <3>2 DEF TransactionTask, Task
      <4>2. /\ Len(tasks') = Len(tasks) + 1 /\ tasks'[Len(tasks) + 1] = TransactionTask(d, y)
            /\ \A j \in 1..Len(tasks) : tasks'[j] = tasks[j]
        BY <1>1, <3>2, <4>1, AppendProperties
      <4>3. Len(tasks) \in Nat
        BY <1>1, LenProperties
      <4>4. QED
        BY <1>2, <4>1, <4>2, <4>3
    <3>3. QED
      BY <3>1, <3>2
  <2>2. tasks[i] \in Task
    BY <1>1, <2>1, ElementOfSeq
  <2>3. tasks[i].d \in Databases
    BY <2>2 DEF Task
  <2>4. QED
    BY <1>2, <2>1, <2>3 DEF ServiceInv, ClosedKnown
<1>3. \A e \in Databases : db'[e].sqlite = "closed" => db'[e].deleted
  BY DEF ServiceInv, ClosedKnown
<1>4. ASSUME thread'.pc = "check", thread'.task.kind = "close"
      PROVE  db'[thread'.task.d].deleted
  <2>1. thread.task \in Task
    BY <1>4 DEF ServiceInv, DatabasesInv, WorkKnown
  <2>2. thread.task.d \in Databases
    BY <2>1 DEF Task
  <2>3. QED
    BY <1>4, <2>2 DEF ServiceInv, ClosedKnown
<1>5. QED
  BY <1>2, <1>3, <1>4 DEF ClosedKnown

LEMMA StepReturnsServed ==
  ASSUME ServiceInv, NEW x \in Transactions, StepReturns(x)
  PROVE  Served
<1>1. /\ Performing(x, "return") /\ thread' = [pc |-> "idle", task |-> None]
      /\ UNCHANGED <<main, committed>>
  BY DEF StepReturns
<1>2. \A u \in Transactions : ~Performing(u, "return")' /\ At(u)' = At(u)
  BY <1>1 DEF Performing, At
<1>3. DatabasesInv /\ HoldersKnown /\ AllKeep
  BY DEF ServiceInv
<1>4. CASE UNCHANGED <<tx, waiting, db, tasks>>
  <2>1. ClosedKnown'
    BY <1>1, <1>4 DEF ServiceInv, ClosedKnown
  <2>2. Gone' = Gone
    BY <1>4 DEF Gone
  <2>3. UNCHANGED <<tx, waiting, main, committed>>
    BY <1>1, <1>4
  <2>4. QED
    BY <1>2, <1>4, <2>1, <2>2, <2>3, AsideServed
<1>5. ASSUME /\ tx[x].next = None
             /\ scheduleTransaction(tx[x].db, waiting[tx[x].db])
             /\ tx' = [tx EXCEPT ![x] = Over(@)]
      PROVE  Served
  <2>1. Known(x)
    BY <1>1, <1>3, WorkingKnown
  <2>2. PICK d \in Databases : d = tx[x].db
    BY <2>1 DEF Known
  <2>3. /\ tx \in [Transactions -> Transaction] /\ db \in [Databases -> Database]
        /\ waiting \in [Databases -> Seq(Transactions)] /\ Once(waiting[d])
    BY <1>3 DEF DatabasesInv, TypeOK, OnePlace
  <2>4. PICK w \in Seq(Transactions) : w = waiting[d] /\ Once(w)
    BY <2>3
  <2>5. PICK r : r = Over(tx[x])
    OBVIOUS
  <2>6. /\ r.db = d /\ r.next = None /\ r.listens = tx[x].listens /\ r.told = tx[x].told
        /\ r.listens # None
    <3>1. tx[x] \in Transaction /\ tx[x].next = None
      BY <1>5, <2>3
    <3>2. /\ r.db = tx[x].db /\ r.next = tx[x].next /\ r.listens = tx[x].listens
          /\ r.told = tx[x].told
      BY <2>5, <3>1 DEF Over, Transaction
    <3>3. QED
      BY <2>1, <2>2, <3>1, <3>2 DEF Known
  <2>7. tx' = [tx EXCEPT ![x] = r] /\ scheduleTransaction(d, w)
    BY <1>5, <2>2, <2>4, <2>5
  <2>8. tx'[x] = r /\ \A u \in Transactions \ {x} : tx'[u] = tx[u]
    BY <2>3, <2>7
  <2>9. x \in Holders(d)
    <3>1. \A e \in Databases : x \notin Range(waiting[e])
      BY <1>3, <1>5, Nowhere
    <3>2. QED
      BY <1>1, <2>2, <3>1 DEF Holders
  <2>10. /\ Scheduled(d) = {} /\ Running(d) = None /\ Pending(d) = w
         /\ \A u \in Holders(d) : u = x
    <3>1. None # "open"
      BY NoneIsNone DEF Steps, ThreadSteps
    <3>2. QED
      BY <1>3, <1>5, <2>4, <2>9, <3>1, TurnShown DEF HoldersKnown
  <2>11. \A e \in Databases \ {d} : waiting'[e] = waiting[e]
    BY <2>3, <2>7 DEF scheduleTransaction
  <2>12. \A e \in Databases \ {d} :
           Pending(e)' = Pending(e) /\ Running(e)' = Running(e) /\ Holders(e)' \subseteq Holders(e)
    <3>1. \A u \in Transactions : Performing(u, "return")' => Performing(u, "return")
      BY <1>2
    <3>2. tx[x].next = None /\ r.db = d /\ tx' = [tx EXCEPT ![x] = r]
      BY <1>5, <2>6, <2>7
    <3>3. tx \in [Transactions -> Transaction]
      BY <2>3
    <3>4. QED
      BY <2>11, <3>1, <3>2, <3>3, OthersStill
  <2>13. \A u \in Transactions : tx'[u].db = d /\ tx'[u].next # None => u \in Range(w)
    <3> SUFFICES ASSUME NEW u \in Transactions, tx'[u].db = d, tx'[u].next # None,
                        u \notin Range(w)
                 PROVE  FALSE
      OBVIOUS
    <3>1. u # x /\ tx[u].db = d /\ tx[u].next # None
      BY <2>6, <2>8
    <3>2. u \in Holders(d)
      BY <2>4, <3>1 DEF Holders
    <3>3. QED
      BY <2>10, <3>1, <3>2
  <2>14. PICK b \in BOOLEAN : db' = [db EXCEPT ![d].busy = b] /\ (b <=> ~db[d].stopped /\ w # <<>>)
    BY <2>7 DEF scheduleTransaction
  <2>15. /\ \A e \in Databases : /\ db'[e].sqlite = db[e].sqlite
                                 /\ db'[e].stopped = db[e].stopped
                                 /\ db'[e].deleted = db[e].deleted
                                 /\ db'[e].spoiled = db[e].spoiled
         /\ \A e \in Databases \ {d} : db'[e].busy = db[e].busy
         /\ db'[d].busy = b
    BY <1>3, <2>14, BusySet
  <2>16. /\ Pending(d)' = w /\ Running(d)' = None
         /\ \A u, v \in Holders(d)' : u = v
         /\ Holders(d)' # {} /\ ~db'[d].stopped => db'[d].busy
    <3>1. CASE ~db[d].stopped /\ w # <<>>
      <4>1. waiting'[d] = Tail(w)
        BY <2>3, <2>7, <3>1 DEF scheduleTransaction
      <4>2. \A u \in Transactions : u \in Range(w) => tx'[u].next = "open" /\ tx'[u].db = d
        <5> SUFFICES ASSUME NEW u \in Transactions, u \in Range(w)
                     PROVE  tx'[u].next = "open" /\ tx'[u].db = d
          OBVIOUS
        <5>1. d \in WaitsIn(u)
          BY <2>4 DEF WaitsIn
        <5>2. tx[u].next = "open" /\ tx[u].db = d
          BY <1>3, <5>1 DEF DatabasesInv, AllFit, Fits, Fit
        <5>3. u # x
          BY <1>5, <5>2, NoneIsNone DEF Steps, ThreadSteps
        <5>4. QED
          BY <2>8, <5>2, <5>3
      <4>3. \A u \in Transactions :
              tx'[u].db = d /\ (tx'[u].next # None \/ Performing(u, "return")') => u \in Range(w)
        BY <1>2, <2>13
      <4>4. /\ Pending(d)' = w /\ Running(d)' = None
            /\ \A u, v \in Holders(d)' : u = v
        BY <2>4, <3>1, <4>1, <4>2, <4>3, TurnGiven
      <4>5. QED
        BY <2>14, <2>15, <3>1, <4>4
    <3>2. CASE ~(~db[d].stopped /\ w # <<>>)
      <4>1. waiting'[d] = w
        BY <2>3, <2>7, <3>2 DEF scheduleTransaction
      <4>2. Holders(d)' = {}
        BY <1>2, <2>13, <4>1 DEF Holders
      <4>3. Scheduled(d)' = {} /\ Begun(d)' = {}
        <5>1. "open" # None
          BY NoneIsNone DEF Steps, ThreadSteps
        <5>2. Scheduled(d)' = {}
          BY <2>13, <4>1, <5>1 DEF Scheduled
        <5>3. ASSUME NEW u \in Begun(d)' PROVE FALSE
          <6>1. u \in Transactions /\ tx'[u].db = d /\ tx'[u].next \notin {None, "open"}
            BY <5>3 DEF Begun
          <6>2. u \in Range(w) /\ tx'[u] = tx[u]
            BY <2>6, <2>8, <2>13, <6>1
          <6>3. d \in WaitsIn(u)
            BY <2>4, <6>2 DEF WaitsIn
          <6>4. tx[u].next = "open"
            BY <1>3, <6>1, <6>3 DEF DatabasesInv, AllFit, Fits, Fit
          <6>5. QED
            BY <6>1, <6>2, <6>4
        <5>4. QED
          BY <5>2, <5>3
      <4>4. Pending(d)' = w /\ Running(d)' = None
        BY <4>1, <4>3 DEF Pending, Running
      <4>5. QED
        BY <4>2, <4>4
    <3>3. QED
      BY <3>1, <3>2
  <2>17. HoldersKnown'
    <3>1. ASSUME NEW e \in Databases
          PROVE  /\ \A u, v \in Holders(e)' : u = v
                 /\ Holders(e)' # {} /\ ~db'[e].stopped => db'[e].busy
      <4>1. CASE e = d
        BY <2>16, <4>1
      <4>2. CASE e # d
        BY <1>3, <2>12, <2>15, <4>2 DEF HoldersKnown
      <4>3. QED
        BY <4>1, <4>2
    <3>2. QED
      BY <3>1 DEF HoldersKnown
  <2>18. ClosedKnown'
    <3>1. thread'.pc # "check"
      BY <1>1
    <3>2. PICK y : tasks' = tasks \/ (y \in Transactions /\ tasks' = Append(tasks, TransactionTask(d, y)))
      <4>1. tasks' = tasks \/ (w # <<>> /\ tasks' = Append(tasks, TransactionTask(d, Head(w))))
        BY <2>7 DEF scheduleTransaction
      <4>2. w # <<>> => Head(w) \in Transactions
        BY QueueShrinks
      <4>3. QED
        BY <4>1, <4>2
    <3>3. QED
      BY <2>15, <3>1, <3>2, ClosedStill
  <2>19. Gone' = Gone
    BY <2>15, SameGone
  <2>20. AllKeep'
    <3>1. \A u \in Transactions \ {x} : Keeps(tx[u], u \in committed, tx[u].db \in Gone, At(u))'
      BY <1>1, <1>2, <1>3, <2>8, <2>19, KeepsStill
    <3>2. Keeps(tx[x], x \in committed, tx[x].db \in Gone, At(x))'
      <4>1. At(x)' = "idle"
        <5>1. main.x # x
          BY <1>3, <1>5, Nowhere
        <5>2. QED
          BY <1>2, <5>1 DEF At
      <4>2. Keeps(r, x \in committed', tx'[x].db \in Gone', "idle")
        BY <2>6, OverKeeps
      <4>3. QED
        BY <2>8, <4>1, <4>2
    <3>3. QED
      BY <3>1, <3>2 DEF AllKeep
  <2>21. UNCHANGED Service!vars
    <3>1. \A e \in Databases : Pending(e)' = Pending(e) /\ Running(e)' = Running(e)
      BY <2>10, <2>12, <2>16
    <3>2. \A u \in Transactions : tx'[u].listens = tx[u].listens /\ tx'[u].told = tx[u].told
      BY <2>6, <2>8
    <3>3. committed' = committed
      BY <1>1
    <3>4. QED
      BY <2>19, <3>1, <3>2, <3>3 DEF Service!vars
  <2>22. QED
    BY <2>17, <2>18, <2>20, <2>21 DEF Served
<1>6. QED
  BY <1>4, <1>5 DEF StepReturns

LEMMA AskedLast ==
  ASSUME NEW S, NEW a \in Seq(S), NEW y \in S, NEW e \in S
  PROVE  <<y>> \o Append(a, e) = Append(<<y>> \o a, e)
<1>1. <<y>> \in Seq(S) /\ <<e>> \in Seq(S) /\ <<y>> \o a \in Seq(S)
  BY PushProperties
<1>2. Append(a, e) = a \o <<e>> /\ Append(<<y>> \o a, e) = (<<y>> \o a) \o <<e>>
  BY <1>1, AppendIsConcat
<1>3. <<y>> \o (a \o <<e>>) = (<<y>> \o a) \o <<e>>
  BY <1>1, ConcatAssociative
<1>4. QED
  BY <1>2, <1>3

(* A new transaction waits for its turn, and nothing else changes.         *)
LEMMA TurnAwaited ==
  ASSUME NEW d \in Databases, NEW x \in Transactions, NEW r, NEW w,
         tx \in [Transactions -> Transaction], waiting[d] \in Seq(Transactions),
         tx[x].next = None, ~Performing(x, "return"),
         tx' = [tx EXCEPT ![x] = r], r.next = "open",
         w = Append(waiting[d], x), waiting'[d] = w, thread' = thread
  PROVE  /\ Pending(d)' = Append(Pending(d), x) /\ Running(d)' = Running(d)
         /\ Holders(d)' \subseteq Holders(d)
<1>1. /\ tx'[x] = r /\ \A u \in Transactions \ {x} : tx'[u] = tx[u]
      /\ \A u : u \in Range(w) <=> u \in Range(waiting[d]) \/ u = x
  BY QueueGrows
<1>2. "open" # None
  BY NoneIsNone DEF Steps, ThreadSteps
<1>3. Scheduled(d)' = Scheduled(d)
  BY <1>1, <1>2 DEF Scheduled
<1>4. Begun(d)' = Begun(d)
  BY <1>1 DEF Begun
<1>5. Running(d)' = Running(d)
  BY <1>4 DEF Running
<1>6. Pending(d)' = Append(Pending(d), x)
  <2>1. CASE Scheduled(d) = {}
    BY <1>3, <2>1 DEF Pending
  <2>2. CASE Scheduled(d) # {}
    <3>1. PICK y \in Scheduled(d) : y = TheOne(Scheduled(d))
      BY <2>2 DEF TheOne
    <3>2. y \in Transactions
      BY DEF Scheduled
    <3>3. Pending(d) = <<y>> \o waiting[d] /\ Pending(d)' = <<y>> \o w
      BY <1>3, <2>2, <3>1 DEF Pending
    <3>4. QED
      BY <3>2, <3>3, AskedLast
  <2>3. QED
    BY <2>1, <2>2
<1>7. Holders(d)' \subseteq Holders(d)
  <2> SUFFICES ASSUME NEW u \in Holders(d)' PROVE u \in Holders(d)
    OBVIOUS
  <2>1. /\ u \in Transactions /\ tx'[u].db = d /\ u \notin Range(w)
        /\ tx'[u].next # None \/ Performing(u, "return")'
    BY DEF Holders
  <2>2. u # x /\ u \notin Range(waiting[d]) /\ tx'[u] = tx[u]
    BY <1>1, <2>1
  <2>3. Performing(u, "return")' => Performing(u, "return")
    BY DEF Performing
  <2>4. QED
    BY <2>1, <2>2, <2>3 DEF Holders
<1>8. QED
  BY <1>5, <1>6, <1>7

LEMMA TransactionServed ==
  ASSUME ServiceInv, NEW d \in Databases, NEW q \in Requests, transaction(d, q)
  PROVE  Served
<1>1. PICK x : x = CHOOSE y \in Fresh : TRUE
  OBVIOUS
<1>2. x \in Transactions /\ tx[x].listens = None
  BY <1>1 DEF transaction, Fresh
<1>3. PICK w : w = Append(waiting[d], x)
  OBVIOUS
<1>4. PICK r : r = [tx[x] EXCEPT
                   !.db = d, !.next = "open", !.wrapper = q.wrapper, !.listens = q.listens,
                   !.onError = "error" \in q.listens, !.onSuccess = "success" \in q.listens]
  OBVIOUS
<1>5. /\ tx' = [tx EXCEPT ![x] = r]
      /\ \/ ~db[d].busy /\ scheduleTransaction(d, w)
         \/ db[d].busy /\ waiting' = [waiting EXCEPT ![d] = w] /\ UNCHANGED <<db, tasks>>
      /\ main' = main /\ thread' = thread /\ committed' = committed
  BY <1>1, <1>3, <1>4 DEF transaction
<1>6. DatabasesInv /\ HoldersKnown /\ AllKeep
  BY DEF ServiceInv
<1>7. tx[x].next = None
  <2>1. Sound(tx[x])
    BY <1>2, <1>6 DEF DatabasesInv, AllSound
  <2>2. QED
    BY <1>2, <2>1 DEF Sound
<1>8. /\ tx[x] \in Transaction /\ main.x # x
      /\ \A e \in Databases : x \notin Range(waiting[e])
  BY <1>2, <1>6, <1>7, Nowhere
<1>9. ~Performing(x, "return")
  BY <1>2, <1>6, WorkingKnown DEF Known
<1>10. q.listens \in SUBSET {"error", "success"} /\ q.listens # None
  <2>1. q.listens \in SUBSET {"error", "success"}
    BY DatabasesAssumption DEF DatabasesAssumption
  <2>2. QED
    BY <2>1, DatabasesAssumption DEF DatabasesAssumption
<1>11. /\ r.db = d /\ r.next = "open" /\ r.listens = q.listens /\ r.told = tx[x].told
       /\ r.onError = ("error" \in q.listens) /\ r.onSuccess = ("success" \in q.listens)
  BY <1>4, <1>8 DEF Transaction
<1>12. /\ tx \in [Transactions -> Transaction] /\ db \in [Databases -> Database]
       /\ waiting \in [Databases -> Seq(Transactions)] /\ Once(waiting[d])
  BY <1>6 DEF DatabasesInv, TypeOK, OnePlace
<1>13. tx'[x] = r /\ \A u \in Transactions \ {x} : tx'[u] = tx[u]
  <2>1. tx' = [tx EXCEPT ![x] = r] /\ tx \in [Transactions -> Transaction]
    BY <1>5, <1>12
  <2>2. QED
    BY <1>2, <2>1
<1>14. /\ w \in Seq(Transactions) /\ Once(w) /\ w # <<>>
       /\ \A u : u \in Range(w) <=> u \in Range(waiting[d]) \/ u = x
  <2>1. waiting[d] \in Seq(Transactions) /\ Once(waiting[d]) /\ x \notin Range(waiting[d])
    BY <1>8, <1>12
  <2>2. /\ w \in Seq(Transactions) /\ Once(w)
        /\ \A u : u \in Range(w) <=> u \in Range(waiting[d]) \/ u = x
    BY <1>2, <1>3, <2>1, QueueGrows
  <2>3. w # <<>>
    BY <1>2, <1>3, <2>1, AppendProperties, EmptySeq
  <2>4. QED
    BY <2>2, <2>3
<1>15. /\ \A u \in Transactions : Performing(u, "return")' <=> Performing(u, "return")
       /\ \A u \in Transactions : At(u)' = At(u)
  BY <1>5 DEF Performing, At
<1>16. \A e \in Databases \ {d} : waiting'[e] = waiting[e]
  BY <1>5, <1>12 DEF scheduleTransaction
<1>17. \A e \in Databases \ {d} :
         Pending(e)' = Pending(e) /\ Running(e)' = Running(e) /\ Holders(e)' \subseteq Holders(e)
  <2>1. \A u \in Transactions : Performing(u, "return")' => Performing(u, "return")
    BY <1>15
  <2>2. tx' = [tx EXCEPT ![x] = r] /\ r.db = d
    BY <1>5, <1>11
  <2>3. QED
    BY <1>2, <1>7, <1>12, <1>16, <2>1, <2>2, OthersStill
<1>18. PICK b \in BOOLEAN :
         /\ db' = db \/ db' = [db EXCEPT ![d].busy = b]
         /\ b = (db[d].busy \/ ~db[d].stopped) /\ (db' = db => db[d].busy = b)
  <2>1. CASE db[d].busy /\ UNCHANGED db
    BY <1>12, <2>1
  <2>2. CASE ~db[d].busy /\ scheduleTransaction(d, w)
    <3>1. db' = [db EXCEPT ![d].busy = ~db[d].stopped]
      BY <1>14, <2>2 DEF scheduleTransaction
    <3>2. db[d] \in Database
      BY <1>12
    <3>3. db[d].stopped \in BOOLEAN
      BY <3>2 DEF Database
    <3>4. db' = db => db[d].busy = ~db[d].stopped
      BY <1>12, <3>1, <3>2 DEF Database
    <3>5. QED
      BY <2>2, <3>1, <3>3, <3>4
  <2>3. QED
    BY <1>5, <2>1, <2>2
<1>19. /\ \A e \in Databases : /\ db'[e].sqlite = db[e].sqlite
                               /\ db'[e].stopped = db[e].stopped
                               /\ db'[e].deleted = db[e].deleted
                               /\ db'[e].spoiled = db[e].spoiled
       /\ \A e \in Databases \ {d} : db'[e].busy = db[e].busy
       /\ db'[d].busy = b
  <2>1. /\ \A e \in Databases : /\ db'[e].sqlite = db[e].sqlite
                                /\ db'[e].stopped = db[e].stopped
                                /\ db'[e].deleted = db[e].deleted
                                /\ db'[e].spoiled = db[e].spoiled
        /\ \A e \in Databases \ {d} : db'[e].busy = db[e].busy
        /\ db' = [db EXCEPT ![d].busy = b] => db'[d].busy = b
    BY <1>6, <1>18, BusySet
  <2>2. db'[d].busy = b
    BY <1>18, <2>1
  <2>3. QED
    BY <2>1, <2>2
<1>20. /\ Pending(d)' = Append(Pending(d), x) /\ Running(d)' = Running(d)
       /\ \A u, v \in Holders(d)' : u = v
       /\ Holders(d)' # {} /\ ~db'[d].stopped => db'[d].busy
  <2>1. CASE waiting'[d] = w
    <3>1. /\ Pending(d)' = Append(Pending(d), x) /\ Running(d)' = Running(d)
          /\ Holders(d)' \subseteq Holders(d)
      <4>1. waiting[d] \in Seq(Transactions) /\ tx \in [Transactions -> Transaction]
        BY <1>12
      <4>2. tx' = [tx EXCEPT ![x] = r] /\ r.next = "open" /\ thread' = thread
        BY <1>5, <1>11
      <4>3. QED
        BY <1>2, <1>3, <1>7, <1>9, <2>1, <4>1, <4>2, TurnAwaited
    <3>2. ~db'[d].stopped => db'[d].busy
      BY <1>18, <1>19
    <3>3. QED
      BY <1>6, <3>1, <3>2 DEF HoldersKnown
  <2>2. CASE ~db[d].busy /\ ~db[d].stopped /\ waiting'[d] = Tail(w)
    <3>1. Holders(d) = {}
      BY <1>6, <2>2 DEF HoldersKnown
    <3>2. Running(d) = None /\ Pending(d) = waiting[d]
      BY <1>6, <3>1, FreeShown
    <3>3. \A u \in Transactions : u \in Range(w) => tx'[u].next = "open" /\ tx'[u].db = d
      <4> SUFFICES ASSUME NEW u \in Transactions, u \in Range(w), u # x
                   PROVE  tx'[u].next = "open" /\ tx'[u].db = d
        BY <1>11, <1>13
      <4>1. d \in WaitsIn(u)
        BY <1>14 DEF WaitsIn
      <4>2. tx[u].next = "open" /\ tx[u].db = d
        BY <1>6, <4>1 DEF DatabasesInv, AllFit, Fits, Fit
      <4>3. QED
        BY <1>13, <4>2
    <3>4. \A u \in Transactions :
            tx'[u].db = d /\ (tx'[u].next # None \/ Performing(u, "return")') => u \in Range(w)
      <4> SUFFICES ASSUME NEW u \in Transactions, tx'[u].db = d,
                          tx'[u].next # None \/ Performing(u, "return")', u \notin Range(w)
                   PROVE  FALSE
        OBVIOUS
      <4>1. u # x /\ u \notin Range(waiting[d]) /\ tx'[u] = tx[u]
        BY <1>13, <1>14
      <4>2. u \in Holders(d)
        BY <1>15, <4>1 DEF Holders
      <4>3. QED
        BY <3>1, <4>2
    <3>5. Pending(d)' = w /\ Running(d)' = None /\ \A u, v \in Holders(d)' : u = v
      BY <1>14, <2>2, <3>3, <3>4, TurnGiven
    <3>6. QED
      BY <1>3, <1>18, <1>19, <2>2, <3>2, <3>5
  <2>3. QED
    BY <1>5, <1>12, <1>14, <2>1, <2>2 DEF scheduleTransaction
<1>21. HoldersKnown'
  <2>1. ASSUME NEW e \in Databases
        PROVE  /\ \A u, v \in Holders(e)' : u = v
               /\ Holders(e)' # {} /\ ~db'[e].stopped => db'[e].busy
    <3>1. CASE e = d
      BY <1>20, <3>1
    <3>2. CASE e # d
      BY <1>6, <1>17, <1>19, <3>2 DEF HoldersKnown
    <3>3. QED
      BY <3>1, <3>2
  <2>2. QED
    BY <2>1 DEF HoldersKnown
<1>22. ClosedKnown'
  <2>1. PICK y : tasks' = tasks \/ (y \in Transactions /\ tasks' = Append(tasks, TransactionTask(d, y)))
    <3>1. tasks' = tasks \/ tasks' = Append(tasks, TransactionTask(d, Head(w)))
      BY <1>5 DEF scheduleTransaction
    <3>2. Head(w) \in Transactions
      BY <1>14, QueueShrinks
    <3>3. QED
      BY <3>1, <3>2
  <2>2. QED
    BY <1>5, <1>19, <2>1, ClosedStill
<1>23. Gone' = Gone
  BY <1>19, SameGone
<1>24. AllKeep'
  <2>1. \A u \in Transactions \ {x} : Keeps(tx[u], u \in committed, tx[u].db \in Gone, At(u))'
    BY <1>5, <1>6, <1>13, <1>15, <1>23, KeepsStill
  <2>2. Keeps(tx[x], x \in committed, tx[x].db \in Gone, At(x))'
    <3>1. tx[x].told = {} /\ x \notin committed
      BY <1>2, <1>6 DEF AllKeep, Keeps
    <3>2. At(x)' = "idle"
      BY <1>5, <1>8 DEF At
    <3>3. Keeps(r, x \in committed', tx'[x].db \in Gone', "idle")
      BY <1>5, <1>10, <1>11, <3>1 DEF Keeps, Under
    <3>4. QED
      BY <1>13, <3>2, <3>3
  <2>3. QED
    BY <2>1, <2>2 DEF AllKeep
<1>25. Service!Next
  <2>1. PICK p, p2, g, g2, l, l2, t, t2 :
          /\ p = [e \in Databases |-> Pending(e)] /\ p2 = [e \in Databases |-> Pending(e)']
          /\ g = [e \in Databases |-> Running(e)] /\ g2 = [e \in Databases |-> Running(e)']
          /\ l = [u \in Transactions |-> tx[u].listens] /\ l2 = [u \in Transactions |-> tx'[u].listens]
          /\ t = [u \in Transactions |-> tx[u].told] /\ t2 = [u \in Transactions |-> tx'[u].told]
    OBVIOUS
  <2>2. p2 = [p EXCEPT ![d] = Append(@, x)]
    BY <1>17, <1>20, <2>1
  <2>3. g2 = g
    BY <1>17, <1>20, <2>1
  <2>4. t2 = t
    BY <1>11, <1>13, <2>1
  <2>5. l[x] = None /\ l2 = [l EXCEPT ![x] = q.listens]
    BY <1>2, <1>11, <1>13, <2>1
  <2>6. q.listens \in SUBSET Service!Outcomes
    BY <1>10 DEF Service!Outcomes
  <2>7. Service!Ask(d, x)
    BY <1>5, <1>23, <2>1, <2>2, <2>3, <2>4, <2>5, <2>6 DEF Service!Ask
  <2>8. QED
    BY <1>2, <2>7 DEF Service!Next
<1>26. QED
  BY <1>21, <1>22, <1>24, <1>25 DEF Served

-----------------------------------------------------------------------------
(* Every step of the two threads serves the page.                          *)
LEMMA ThreadServed ==
  ASSUME ServiceInv, DatabaseThread
  PROVE  Served
<1>1. CASE \E x \in Transactions : ThreadStep(x)
  <2>1. PICK x \in Transactions : ThreadStep(x)
    BY <1>1
  <2>2. CASE StepReturns(x)
    BY <2>2, StepReturnsServed
  <2>3. CASE ~StepReturns(x)
    <3>1. Serves(x)
      BY <2>1, <2>3, CheckClosedServes, PreflightServes, QuotaFailedServes, StatementServes,
         CommitServes, SuccessServes, CleanupServes DEF ThreadStep
    <3>2. QED
      BY <3>1, ServesServed
  <2>4. QED
    BY <2>2, <2>3
<1>2. QED
  BY <1>1, TakeTaskServed, ThreadEndsServed, PerformServed DEF DatabaseThread

LEMMA MainThreadServed ==
  ASSUME ServiceInv, Dispatch \/ CallbackReturns
  PROVE  Served
<1>1. PICK x \in Transactions :
        \/ DropCallback(x) \/ BeginCallback(x) \/ EndSuccessCallback(x)
        \/ \E raise \in BOOLEAN : deliverQuotaIncreaseCallback(x, raise)
        \/ \E b \in BOOLEAN :
             EndTransactionCallback(x, b) \/ EndStatementCallback(x, b) \/ EndErrorCallback(x, b)
  BY DEF Dispatch, CallbackReturns
<1>2. Serves(x)
  BY <1>1, DropServes, BeginServes, QuotaServes, SuccessCallbackServes,
     TransactionCallbackServes, StatementCallbackServes, ErrorCallbackServes
<1>3. QED
  BY <1>2, ServesServed

LEMMA PageServed ==
  ASSUME ServiceInv, Page
  PROVE  Served
<1>1. CASE \E x \in Transactions, s \in Statements : executeSQL(x, s)
  BY <1>1, ExecuteServes, ServesServed
<1>2. QED
  BY <1>1, StopServed, OpenDatabaseServed, DeletedServed, TransactionServed DEF Page

LEMMA NextServed ==
  ASSUME ServiceInv, [Next]_vars
  PROVE  Served
<1>1. CASE Next
  BY <1>1, ThreadServed, MainThreadServed, PageServed DEF Next
<1>2. CASE UNCHANGED vars
  <2>1. /\ tx' = tx /\ waiting' = waiting /\ db' = db /\ tasks' = tasks
        /\ thread' = thread /\ main' = main /\ committed' = committed
    BY <1>2 DEF vars
  <2>2. Gone' = Gone
    BY <2>1 DEF Gone
  <2>3. \A u \in Transactions : Performing(u, "return")' => Performing(u, "return")
    BY <2>1 DEF Performing
  <2>4. ClosedKnown'
    BY <2>1 DEF ServiceInv, ClosedKnown
  <2>5. QED
    BY <2>1, <2>2, <2>3, <2>4, AsideServed
<1>3. QED
  BY <1>1, <1>2

LEMMA InitServed ==
  ASSUME Init
  PROVE  ServiceInv /\ Service!Init
<1>1. DatabasesInv
  BY InitInv
<1>2. /\ \A x \in Transactions : /\ tx[x].db = None /\ tx[x].next = None /\ tx[x].listens = None
                                 /\ tx[x].told = {}
      /\ \A d \in Databases : /\ waiting[d] = <<>> /\ db[d].sqlite = "none"
                              /\ ~db[d].stopped /\ ~db[d].deleted /\ ~db[d].spoiled
      /\ tasks = <<>> /\ thread.pc = "idle" /\ main.x = None /\ committed = {}
  BY DEF Init
<1>3. \A d \in Databases : d # None
  BY NoneIsNone
<1>4. \A d \in Databases : Holders(d) = {}
  BY <1>2, <1>3 DEF Holders
<1>5. Gone = {}
  BY <1>2 DEF Gone
<1>6. HoldersKnown
  BY <1>4 DEF HoldersKnown
<1>7. ClosedKnown
  <2>1. 1..Len(tasks) = {}
    BY <1>2, EmptySeq
  <2>2. QED
    BY <1>2, <2>1 DEF ClosedKnown
<1>8. AllKeep
  <2> SUFFICES ASSUME NEW x \in Transactions
               PROVE  Keeps(tx[x], x \in committed, tx[x].db \in Gone, At(x))
    BY DEF AllKeep
  <2>1. At(x) = "idle"
    BY <1>2, NoneIsNone DEF At
  <2>2. None \notin Under \cup {"open", "error", "cleanError", "success", "cleanSuccess"}
    BY NoneIsNone DEF Under, Steps, ThreadSteps, MainSteps
  <2>3. QED
    BY <1>2, <2>1, <2>2 DEF Keeps
<1>9. \A d \in Databases : Running(d) = None /\ Pending(d) = <<>>
  BY <1>1, <1>2, <1>4, FreeShown
<1>10. Service!Init
  BY <1>2, <1>5, <1>9 DEF Service!Init
<1>11. QED
  BY <1>1, <1>6, <1>7, <1>8, <1>10 DEF ServiceInv

(* Who has the turn, what is closed and what the page was told are as the  *)
(* promise needs them, in every state.                                     *)
THEOREM ServiceInvariant == Spec => []ServiceInv
<1>1. Init => ServiceInv
  BY InitServed
<1>2. ServiceInv /\ DatabasesInv' /\ [Next]_vars => ServiceInv'
  BY NextServed DEF Served, ServiceInv
<1>3. QED
  BY <1>1, <1>2, DatabasesInvariant, PTL DEF Spec

(* The two threads do for a page what DatabaseService promises: its        *)
(* transactions run one at a time in the order they were asked for, and of *)
(* each the page hears once, and truly, unless its database is gone.       *)
THEOREM ServesThePage == Spec => ServesPage
<1>1. Init => Service!Init
  BY InitServed
<1>2. ServiceInv /\ [Next]_vars => [Service!Next]_(Service!vars)
  BY NextServed DEF Served
<1>3. QED
  BY <1>1, <1>2, ServiceInvariant, PTL DEF Spec, ServesPage, Service!Spec
=============================================================================
