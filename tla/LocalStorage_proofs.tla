------------------------ MODULE LocalStorage_proofs ------------------------
(***************************************************************************)
(* Theorems about local storage, for every set of keys and every bound.    *)
(***************************************************************************)
EXTENDS LocalStorage, FiniteSetsExt, FiniteSetTheorems, FunctionTheorems, SequenceTheorems,
        TLAPS

-----------------------------------------------------------------------------
(* Facts about the operators on sequences and sets of numbers that the     *)
(* model is built from.                                                    *)

(* A set of natural numbers that is not empty has a smallest element.      *)
LEMMA SmallestExists ==
  ASSUME NEW S \in SUBSET Nat, S # {}
  PROVE  \E m \in S : \A n \in S : m <= n
<1> DEFINE T == {1..i : i \in S}
           R == StrictSubsetOrdering(Int)
<1>1. T \subseteq FiniteSubsetsOf(Int)
  <2> SUFFICES ASSUME NEW i \in S PROVE 1..i \in FiniteSubsetsOf(Int)
    OBVIOUS
  <2>1. IsFiniteSet(1..i)
    BY FS_Interval
  <2>2. QED
    BY <2>1 DEF FiniteSubsetsOf
<1>2. IsWellFoundedOn(R, FiniteSubsetsOf(Int))
  BY FS_StrictSubsetOrderingWellFounded
<1>3. T # {}
  OBVIOUS
<1>4. \E x \in T : \A y \in T : ~(<<y, x>> \in R)
  <2> HIDE DEF T, R
  <2> QED BY <1>1, <1>2, <1>3, WFMin
<1>5. PICK m \in S : \A n \in S : ~(<<1..n, 1..m>> \in R)
  BY <1>4
<1>6. ASSUME NEW n \in S, n < m PROVE FALSE
  <2>1. 1..n \subseteq 1..m /\ m \in 1..m /\ m \notin 1..n
    BY <1>6
  <2>2. <<1..n, 1..m>> \in (SUBSET Int) \X (SUBSET Int)
    OBVIOUS
  <2>3. QED
    BY <1>5, <2>1, <2>2 DEF StrictSubsetOrdering
<1>7. QED
  BY <1>6

(* Min of the community modules is that element.                           *)
LEMMA MinProperties ==
  ASSUME NEW S \in SUBSET Nat, S # {}
  PROVE  Min(S) \in S /\ \A n \in S : Min(S) <= n
  BY SmallestExists DEF Min

(* SelectInSeq finds the first place of a value.                           *)
LEMMA FirstPlace ==
  ASSUME NEW S, NEW s \in Seq(S), NEW v, Contains(s, v)
  PROVE  LET i == SelectInSeq(s, LAMBDA w : w = v) IN
         /\ i \in 1..Len(s)
         /\ s[i] = v
         /\ \A j \in 1..Len(s) : s[j] = v => i <= j
<1> DEFINE I == {i \in 1..Len(s) : s[i] = v}
<1>1. I # {} /\ I \in SUBSET Nat
  BY DEF Contains
<1>2. SelectInSeq(s, LAMBDA w : w = v) = Min(I)
  BY <1>1 DEF SelectInSeq
<1>3. Min(I) \in I /\ \A n \in I : Min(I) <= n
  <2> HIDE DEF I
  <2> QED BY <1>1, MinProperties
<1>4. QED
  BY <1>2, <1>3

-----------------------------------------------------------------------------
(* Types.                                                                  *)

(* What is left of the changes ch of an item, whose value is d, when v is  *)
(* written; and what may be when it is d or one of the changes.            *)
IsLeft(d, ch, v, nch) ==
  \/ nch = ch /\ (v = d \/ ~Contains(ch, v))
  \/ \E i \in 1..Len(ch) :
       /\ v # d /\ ch[i] = v
       /\ \A j \in 1..Len(ch) : ch[j] = v => i <= j
       /\ nch = SubSeq(ch, i + 1, Len(ch))

IsSaved(d, ch, v, nch) ==
  \/ nch = ch /\ v = d
  \/ \E i \in 1..Len(ch) : ch[i] = v /\ nch = SubSeq(ch, i + 1, Len(ch))

(* The history loses the first change that has the value written, and what *)
(* came before it.                                                         *)
LEMMA LeftProperties ==
  ASSUME TypeOK, NEW k \in Keys, NEW v
  PROVE  IsLeft(disk[k], changes[k], v, Left(k, v))
<1>1. CASE v = disk[k] \/ ~Contains(changes[k], v)
  BY <1>1 DEF Left, IsLeft
<1>2. CASE v # disk[k] /\ Contains(changes[k], v)
  <2> DEFINE i == SelectInSeq(changes[k], LAMBDA w : w = v)
  <2>1. Left(k, v) = SubSeq(changes[k], i + 1, Len(changes[k]))
    BY <1>2 DEF Left
  <2>2. changes[k] \in Seq(Values)
    BY DEF TypeOK
  <2>3. /\ i \in 1..Len(changes[k]) /\ changes[k][i] = v
        /\ \A j \in 1..Len(changes[k]) : changes[k][j] = v => i <= j
    BY <1>2, <2>2, FirstPlace
  <2>4. QED
    <3> HIDE DEF i
    <3> QED BY <1>2, <2>1, <2>3 DEF IsLeft
<1>3. QED
  BY <1>1, <1>2

(* What is left is changes.                                                *)
LEMMA LeftTypes ==
  ASSUME TypeOK, NEW k \in Keys, NEW v
  PROVE  Left(k, v) \in Seq(Values)
<1>1. changes[k] \in Seq(Values)
  BY DEF TypeOK
<1>2. \A i \in 1..Len(changes[k]) : SubSeq(changes[k], i + 1, Len(changes[k])) \in Seq(Values)
  BY <1>1
<1>3. CASE Left(k, v) = changes[k]
  BY <1>1, <1>3
<1>4. CASE \E i \in 1..Len(changes[k]) : Left(k, v) = SubSeq(changes[k], i + 1, Len(changes[k]))
  BY <1>2, <1>4
<1>5. QED
  BY <1>3, <1>4, LeftProperties DEF IsLeft

(* The null string and a stored one are values, and None is not.           *)
LEMMA ValueTypes ==
  /\ Null \in Values /\ Stored \in Values /\ None \notin Values
  /\ Nulls \in [Keys -> Values] /\ NoItems \in Items /\ NoChanges \in [Keys -> Seq(Values)]
  BY StorageAssumption DEF StorageAssumption, Values, Null, Stored, Nulls, NoItems, Items, NoChanges

(* What the page does to an item is a change.                              *)
LEMMA AnnounceTypes ==
  ASSUME TypeOK, NEW k \in Keys, NEW v \in Values
  PROVE  Announce(k, v) \in Seq(Values) /\ Announced(k) \in Values
<1>1. changes[k] \in Seq(Values) /\ disk[k] \in Values
  BY DEF TypeOK
<1>2. changes[k] # <<>> => Last(changes[k]) \in Values
  BY <1>1 DEF Last
<1>3. QED
  BY <1>1, <1>2 DEF Announce, Announced

(* What the timer moves (syncTimerFired) has the type of what was there.   *)
LEMMA MovedTypes ==
  ASSUME TypeOK, Moved
  PROVE  /\ area' \in Areas
         /\ sync' \in Syncs
  BY ValueTypes DEF Moved, TypeOK, Items, Areas, Syncs

(* What a new LocalStorageArea has.                                        *)
LEMMA StartedTypes ==
  /\ Started.area \in Areas
  /\ Started.sync \in Syncs
  /\ Started.thread \in Threads
  BY ValueTypes DEF Started, Areas, Syncs, Threads

(* What becomes of m_queue is tasks.                                       *)
LEMMA QueueTypes ==
  ASSUME TypeOK
  PROVE  /\ queue # <<>> => Tail(queue) \in Seq(Tasks)
         /\ queue \o ScheduledSync \in Seq(Tasks)
         /\ queue \o ScheduledSync \o <<"terminate">> \in Seq(Tasks)
         /\ <<"import">> \in Seq(Tasks) /\ <<>> \in Seq(Tasks)
<1>1. queue \in Seq(Tasks)
  BY DEF TypeOK
<1>2. <<"sync">> \in Seq(Tasks) /\ <<"terminate">> \in Seq(Tasks)
      /\ <<"import">> \in Seq(Tasks) /\ <<>> \in Seq(Tasks)
  BY DEF Tasks
<1>3. ScheduledSync \in Seq(Tasks)
  BY <1>2 DEF ScheduledSync
<1>4. queue \o ScheduledSync \in Seq(Tasks)
  BY <1>1, <1>3, ConcatProperties
<1>5. queue \o ScheduledSync \o <<"terminate">> \in Seq(Tasks)
  BY <1>2, <1>4, ConcatProperties
<1>6. queue # <<>> => Tail(queue) \in Seq(Tasks)
  BY <1>1, HeadTailProperties
<1>7. QED
  BY <1>2, <1>4, <1>5, <1>6

(* The guards keep the bounds.                                             *)
LEMMA UsageTypes ==
  ASSUME TypeOK
  PROVE  /\ used.writes \in Nat /\ used.writes <= MaxWrites
         /\ Fails => used' \in Usage
         /\ MayGoWrong => [used EXCEPT !.restarts = @ + 1] \in Usage
         /\ used.writes + 1 <= MaxWrites =>
               /\ used.writes + 1 \in Values
               /\ [used EXCEPT !.writes = used.writes + 1] \in Usage
<1>1. /\ used \in Usage /\ MaxWrites \in Nat /\ MaxTroubles \in Nat
      /\ used.writes \in 0..MaxWrites /\ used.faults \in 0..MaxTroubles /\ used.restarts \in 0..MaxTroubles
  BY StorageAssumption DEF StorageAssumption, TypeOK, Usage
<1>2. MayGoWrong => used.faults + 1 \in 0..MaxTroubles /\ used.restarts + 1 \in 0..MaxTroubles
  BY <1>1 DEF MayGoWrong
<1>3. MayGoWrong => /\ [used EXCEPT !.faults = @ + 1] \in Usage
                    /\ [used EXCEPT !.restarts = @ + 1] \in Usage
  BY <1>1, <1>2 DEF Usage
<1>4. used.writes + 1 <= MaxWrites => used.writes + 1 \in Values /\ used.writes + 1 \in 0..MaxWrites
  BY <1>1 DEF Values, Null, Stored
<1>5. used.writes + 1 <= MaxWrites => [used EXCEPT !.writes = used.writes + 1] \in Usage
  BY <1>1, <1>4 DEF Usage
<1>6. QED
  BY <1>1, <1>3, <1>4, <1>5 DEF Fails

(* Every step keeps the types.                                             *)
LEMMA TypeStep ==
  ASSUME TypeOK, [Next]_vars
  PROVE  TypeOK'
<1> USE ValueTypes
<1>1. ASSUME NEW k \in Keys, SetItem(k) PROVE TypeOK'
  <2>1. used.writes + 1 \in Values
    BY <1>1, UsageTypes DEF SetItem, TypeOK
  <2>2. changes' \in [Keys -> Seq(Values)]
    BY <1>1, <2>1, AnnounceTypes DEF SetItem, TypeOK
  <2>3. used' \in Usage
    BY <1>1, UsageTypes DEF SetItem, TypeOK
  <2>4. area' \in Areas
    BY <1>1, <2>1 DEF SetItem, Changed, Areas, Items, TypeOK
  <2>5. QED
    BY <1>1, <2>2, <2>3, <2>4 DEF SetItem, EventsDispatched, TypeOK
<1>2. ASSUME NEW k \in Keys, RemoveItem(k) PROVE TypeOK'
  <2>1. changes' \in [Keys -> Seq(Values)]
    BY <1>2, AnnounceTypes DEF RemoveItem, TypeOK
  <2>2. area' \in Areas
    BY <1>2 DEF RemoveItem, Changed, Areas, Items, Early, TypeOK
  <2>3. QED
    BY <1>2, <2>1, <2>2 DEF RemoveItem, EventsDispatched, TypeOK
<1>3. ASSUME Clear PROVE TypeOK'
  <2>1. changes' \in [Keys -> Seq(Values)]
    BY <1>3, AnnounceTypes DEF Clear, TypeOK
  <2>2. area' \in Areas
    BY <1>3 DEF Clear, Areas, Early, TypeOK
  <2>3. QED
    BY <1>3, <2>1, <2>2 DEF Clear, TypeOK
<1>4. ASSUME Read \/ ReadReturns PROVE TypeOK'
  BY <1>4 DEF Read, ReadReturns, TypeOK
<1>5. ASSUME SyncTimerFired PROVE TypeOK'
  BY <1>5, MovedTypes, QueueTypes DEF SyncTimerFired, TypeOK
<1>6. ASSUME Close PROVE TypeOK'
  BY <1>6, MovedTypes, QueueTypes DEF Close, TypeOK
<1>7. ASSUME PerformImport PROVE TypeOK'
  <2>1. queue' \in Seq(Tasks)
    BY <1>7, QueueTypes DEF PerformImport, Takes, TypeOK
  <2>2. used' \in Usage
    BY <1>7, UsageTypes DEF PerformImport, TypeOK
  <2>3. area' \in Areas
    BY <1>7 DEF PerformImport, TypeOK, Areas, Threads
  <2>4. thread' \in Threads
    <3>1. {k \in Keys : disk[k] # Null} \in SUBSET Keys
      OBVIOUS
    <3>2. /\ [thread EXCEPT !.at = "importing", !.open = TRUE,
                            !.todo = {k \in Keys : disk[k] # Null}] \in Threads
          /\ \A open \in BOOLEAN : [thread EXCEPT !.open = open] \in Threads
      BY <3>1 DEF TypeOK, Threads
    <3>3. QED
      BY <1>7, <3>2 DEF PerformImport
  <2>5. QED
    BY <1>7, <2>1, <2>2, <2>3, <2>4 DEF PerformImport, TypeOK
<1>8. ASSUME NEW k \in Keys, ImportItem(k) PROVE TypeOK'
  BY <1>8 DEF ImportItem, TypeOK, Areas, Threads
<1>9. ASSUME ImportDone PROVE TypeOK'
  BY <1>9 DEF ImportDone, TypeOK, Areas, Threads
<1>10. ASSUME PerformSync PROVE TypeOK'
  <2>1. queue' \in Seq(Tasks)
    BY <1>10, QueueTypes DEF PerformSync, Takes, TypeOK
  <2>2. sync' \in Syncs
    <3>1. [pending |-> NoItems, clear |-> FALSE, scheduled |-> FALSE] \in Syncs
      BY DEF Syncs
    <3>2. QED
      BY <1>10, <3>1 DEF PerformSync, TypeOK
  <2>3. thread' \in Threads
    BY <1>10 DEF PerformSync, TypeOK, Threads, Syncs
  <2>4. QED
    BY <1>10, <2>1, <2>2, <2>3 DEF PerformSync, TypeOK
<1>11. ASSUME ClearItems PROVE TypeOK'
  <2>1. changes' \in [Keys -> Seq(Values)]
    BY <1>11, LeftTypes DEF ClearItems, TypeOK, Threads
  <2>2. QED
    BY <1>11, <2>1 DEF ClearItems, TypeOK, Threads
<1>12. ASSUME NEW k \in Keys, WriteItem(k) PROVE TypeOK'
  <2>1. thread.items[k] \in Values
    BY <1>12 DEF WriteItem, Items, TypeOK, Threads
  <2>2. changes' \in [Keys -> Seq(Values)]
    BY <1>12, <2>1, LeftTypes DEF WriteItem, TypeOK
  <2>3. QED
    BY <1>12, <2>1, <2>2 DEF WriteItem, Items, TypeOK, Threads
<1>13. ASSUME SyncFails \/ SyncDone PROVE TypeOK'
  <2>1. used' \in Usage
    BY <1>13, UsageTypes DEF SyncFails, SyncDone, TypeOK
  <2>2. QED
    BY <1>13, <2>1 DEF SyncFails, SyncDone, Synced, TypeOK, Threads
<1>14. ASSUME PerformTerminate PROVE TypeOK'
  BY <1>14, QueueTypes DEF PerformTerminate, TypeOK, Threads
<1>15. ASSUME Restart PROVE TypeOK'
  <2>1. used' \in Usage
    BY <1>15, UsageTypes DEF Restart, TypeOK
  <2>2. queue' \in Seq(Tasks)
    BY <1>15, QueueTypes DEF Restart, TypeOK
  <2>3. QED
    BY <1>15, <2>1, <2>2, StartedTypes DEF Restart, TypeOK
<1>16. CASE UNCHANGED vars
  BY <1>16 DEF vars, TypeOK
<1>17. QED
  BY <1>1, <1>2, <1>3, <1>4, <1>5, <1>6, <1>7, <1>8, <1>9, <1>10, <1>11, <1>12, <1>13, <1>14, <1>15, <1>16
     DEF Next, Thread, Page

-----------------------------------------------------------------------------
(* The order of the changes.                                               *)

(* What will be written to an item, first to last: a clear of the rows and *)
(* the value the thread writes now, those that are pending, and those the  *)
(* timer has not moved yet; None where there is nothing.                   *)
ClearOrNone(clear) == IF clear THEN Null ELSE None

OnTheWay(k) ==
  <<ClearOrNone(thread.clear), thread.items[k], ClearOrNone(sync.clear), sync.pending[k],
    ClearOrNone(area.cleared), area.changed[k]>>

Stages == 1..6

(* What item k is after i of the changes ch of its value d.                *)
After(d, ch, i) == IF i = 0 THEN d ELSE ch[i]

(* What is on the way is a subsequence, with repetitions, of the value on  *)
(* disk and the changes the page was told of.                              *)
Follows(d, ch, way) ==
  \E at \in [Stages -> 0..Len(ch)] :
    /\ \A i, j \in Stages : i <= j => at[i] <= at[j]
    /\ \A i \in Stages : way[i] # None => After(d, ch, at[i]) = way[i]

InOrder == \A k \in Keys : Follows(disk[k], changes[k], OnTheWay(k))

(* The ways in which a step may change what is on the way: values may move *)
(* on, from g[i] to i, or be dropped; from the m-th they may be replaced by*)
(* a newer value v, or dropped; and the m-th may be taken, as the first.   *)
HandsOn(g, way, next) ==
  /\ g \in [Stages -> Stages]
  /\ \A i, j \in Stages : i <= j => g[i] <= g[j]
  /\ \A i \in Stages : next[i] \in {way[g[i]], None}

Replaces(m, v, way, next) ==
  \A i \in Stages : IF i < m THEN next[i] \in {way[i], None} ELSE next[i] \in {v, None}

TakesFirst(m, way, next) ==
  \A i \in Stages : IF i <= m THEN next[i] = None ELSE next[i] = way[i]

(* Values may be handed on to a later hand, or dropped: g tells from where *)
(* each one comes.                                                         *)
LEMMA HandedOn ==
  ASSUME NEW d, NEW ch \in Seq(Values), NEW way, NEW next, Follows(d, ch, way),
         NEW g, HandsOn(g, way, next)
  PROVE  Follows(d, ch, next)
<1>1. PICK at \in [Stages -> 0..Len(ch)] :
        /\ \A i, j \in Stages : i <= j => at[i] <= at[j]
        /\ \A i \in Stages : way[i] # None => After(d, ch, at[i]) = way[i]
  BY DEF Follows
<1> DEFINE nat == [i \in Stages |-> at[g[i]]]
<1>2. nat \in [Stages -> 0..Len(ch)]
  BY DEF HandsOn
<1>3. \A i, j \in Stages : i <= j => nat[i] <= nat[j]
  BY <1>1 DEF HandsOn
<1>4. \A i \in Stages : next[i] # None => After(d, ch, nat[i]) = next[i]
  BY <1>1 DEF HandsOn
<1>5. QED
  BY <1>2, <1>3, <1>4 DEF Follows

(* A change of the page is the last in the order.                          *)
LEMMA Announces ==
  ASSUME NEW d, NEW ch \in Seq(Values), NEW v \in Values, NEW way, NEW next, Follows(d, ch, way),
         NEW nch \in Seq(Values),
         \/ nch = Append(ch, v)
         \/ nch = ch /\ v = After(d, ch, Len(ch)),
         NEW m \in Nat, Replaces(m, v, way, next)
  PROVE  Follows(d, nch, next)
<1>1. PICK at \in [Stages -> 0..Len(ch)] :
        /\ \A i, j \in Stages : i <= j => at[i] <= at[j]
        /\ \A i \in Stages : way[i] # None => After(d, ch, at[i]) = way[i]
  BY DEF Follows
<1>2. /\ Len(ch) \in Nat /\ Len(nch) \in Nat /\ Len(ch) <= Len(nch)
      /\ After(d, nch, Len(nch)) = v
      /\ \A i \in 0..Len(ch) : After(d, nch, i) = After(d, ch, i)
  BY AppendProperties DEF After
<1>3. \A i \in Stages : i \in Nat /\ at[i] \in Nat /\ at[i] <= Len(ch)
  BY DEF Stages
<1> DEFINE nat == [i \in Stages |-> IF i < m THEN at[i] ELSE Len(nch)]
<1>4. nat \in [Stages -> 0..Len(nch)]
  BY <1>2
<1>5. \A i, j \in Stages : i <= j => nat[i] <= nat[j]
  BY <1>1, <1>2, <1>3
<1>6. \A i \in Stages : next[i] # None => After(d, nch, nat[i]) = next[i]
  BY <1>1, <1>2 DEF Replaces
<1>7. QED
  BY <1>4, <1>5, <1>6 DEF Follows

(* A value that is written is the one on disk or one of the changes, and   *)
(* the rest still follows.                                                 *)
LEMMA Written ==
  ASSUME NEW d \in Values, NEW ch \in Seq(Values), NEW way, NEW next, Follows(d, ch, way),
         NEW m \in Stages, way[m] # None,
         TakesFirst(m, way, next),
         NEW nch, IsLeft(d, ch, way[m], nch)
  PROVE  Follows(way[m], nch, next) /\ IsSaved(d, ch, way[m], nch)
<1>1. PICK at \in [Stages -> 0..Len(ch)] :
        /\ \A i, j \in Stages : i <= j => at[i] <= at[j]
        /\ \A i \in Stages : way[i] # None => After(d, ch, at[i]) = way[i]
  BY DEF Follows
<1>2. Len(ch) \in Nat /\ at[m] \in 0..Len(ch) /\ After(d, ch, at[m]) = way[m]
  BY <1>1
<1>3. \A i \in Stages : i \in Nat /\ at[i] \in Nat /\ at[i] <= Len(ch)
  BY DEF Stages
<1>4. CASE way[m] = d /\ nch = ch
  <2> DEFINE nat == [i \in Stages |-> IF i <= m THEN 0 ELSE at[i]]
  <2>1. nat \in [Stages -> 0..Len(ch)]
    OBVIOUS
  <2>2. \A i, j \in Stages : i <= j => nat[i] <= nat[j]
    BY <1>1, <1>3
  <2>3. \A i \in Stages : next[i] # None => After(d, ch, nat[i]) = next[i]
    BY <1>1 DEF TakesFirst
  <2>4. Follows(d, ch, next)
    BY <2>1, <2>2, <2>3 DEF Follows
  <2>5. QED
    BY <1>4, <2>4 DEF IsSaved
<1>5. ~Contains(ch, way[m]) => way[m] = d
  BY <1>2 DEF Contains, After
<1>6. CASE \E i \in 1..Len(ch) :
             /\ way[m] # d /\ ch[i] = way[m]
             /\ \A j \in 1..Len(ch) : ch[j] = way[m] => i <= j
             /\ nch = SubSeq(ch, i + 1, Len(ch))
  <2>1. PICK n \in 1..Len(ch) :
             /\ way[m] # d /\ ch[n] = way[m]
             /\ \A j \in 1..Len(ch) : ch[j] = way[m] => n <= j
             /\ nch = SubSeq(ch, n + 1, Len(ch))
    BY <1>6
  <2>2. /\ nch \in Seq(Values) /\ Len(nch) = Len(ch) - n
        /\ \A i \in 1..(Len(ch) - n) : nch[i] = ch[n + i]
    BY <1>2, <2>1, SubSeqProperties
  <2>3. n <= at[m] /\ \A i \in Stages : m <= i => n <= at[i]
    <3>1. at[m] # 0
      BY <1>2, <2>1 DEF After
    <3>2. at[m] \in 1..Len(ch) /\ ch[at[m]] = way[m]
      BY <1>2, <3>1 DEF After
    <3>3. n <= at[m]
      BY <2>1, <3>2
    <3>4. \A i \in Stages : m <= i => at[m] <= at[i]
      BY <1>1
    <3>5. QED
      BY <1>3, <3>3, <3>4
  <2> DEFINE nat == [i \in Stages |-> IF i <= m THEN 0 ELSE at[i] - n]
  <2>4. nat \in [Stages -> 0..Len(nch)]
    <3> SUFFICES ASSUME NEW i \in Stages PROVE nat[i] \in 0..Len(nch)
      OBVIOUS
    <3>1. i \in Nat /\ m \in Nat /\ at[i] \in Nat /\ at[i] <= Len(ch)
      BY <1>3
    <3>2. nat[i] = IF i <= m THEN 0 ELSE at[i] - n
      OBVIOUS
    <3>3. ~(i <= m) => n <= at[i]
      BY <2>3, <3>1
    <3> HIDE DEF nat
    <3>4. QED
      BY <1>2, <2>2, <3>1, <3>2, <3>3
  <2>5. \A i, j \in Stages : i <= j => nat[i] <= nat[j]
    BY <1>1, <1>3, <2>3
  <2>6. \A i \in Stages : next[i] # None => After(way[m], nch, nat[i]) = next[i]
    <3> SUFFICES ASSUME NEW i \in Stages, next[i] # None PROVE After(way[m], nch, nat[i]) = next[i]
      OBVIOUS
    <3>1. m < i /\ next[i] = way[i]
      BY <1>3 DEF TakesFirst
    <3>2. After(d, ch, at[i]) = way[i] /\ at[i] \in n..Len(ch) /\ nat[i] = at[i] - n
      BY <1>1, <1>3, <2>3, <3>1
    <3>3. CASE at[i] = n
      BY <1>2, <2>1, <3>1, <3>2, <3>3 DEF After
    <3>4. CASE at[i] # n
      <4>1. at[i] - n \in 1..(Len(ch) - n) /\ at[i] # 0
        BY <3>2, <3>4
      <4>2. nch[at[i] - n] = ch[at[i]]
        BY <2>2, <4>1
      <4>3. QED
        BY <3>1, <3>2, <4>1, <4>2 DEF After
    <3>5. QED
      BY <3>3, <3>4
  <2>7. Follows(way[m], nch, next)
    BY <2>4, <2>5, <2>6 DEF Follows
  <2>8. QED
    BY <2>1, <2>7 DEF IsSaved
<1>7. QED
  BY <1>4, <1>5, <1>6 DEF IsLeft

(* Announced is what the page knows an item to be after all its changes.   *)
LEMMA AnnouncedIsLast ==
  ASSUME TypeOK, NEW k \in Keys, NEW v \in Values
  PROVE  /\ Announced(k) = After(disk[k], changes[k], Len(changes[k]))
         /\ \/ Announce(k, v) = Append(changes[k], v)
            \/ Announce(k, v) = changes[k] /\ v = After(disk[k], changes[k], Len(changes[k]))
<1>1. changes[k] \in Seq(Values)
  BY DEF TypeOK
<1>2. changes[k] = <<>> <=> Len(changes[k]) = 0
  BY <1>1, EmptySeq
<1>3. Announced(k) = After(disk[k], changes[k], Len(changes[k]))
  BY <1>2 DEF Announced, After, Last
<1>4. QED
  BY <1>3 DEF Announce

(* What the thread writes comes first.                                     *)
LEMMA WayParts ==
  ASSUME NEW k \in Keys
  PROVE  /\ OnTheWay(k)[1] = ClearOrNone(thread.clear)
         /\ OnTheWay(k)[2] = thread.items[k]
         /\ OnTheWay(k)[3] = ClearOrNone(sync.clear)
         /\ OnTheWay(k)[4] = sync.pending[k]
         /\ OnTheWay(k)[5] = ClearOrNone(area.cleared)
         /\ OnTheWay(k)[6] = area.changed[k]
         /\ OnTheWay(k)'[1] = ClearOrNone(thread'.clear)
         /\ OnTheWay(k)'[2] = thread'.items[k]
         /\ OnTheWay(k)'[3] = ClearOrNone(sync'.clear)
         /\ OnTheWay(k)'[4] = sync'.pending[k]
         /\ OnTheWay(k)'[5] = ClearOrNone(area'.cleared)
         /\ OnTheWay(k)'[6] = area'.changed[k]
  BY DEF OnTheWay, ClearOrNone

(* A step that only drops what is on the way.                              *)
LEMMA OrderKept ==
  ASSUME TypeOK, NEW k \in Keys, Follows(disk[k], changes[k], OnTheWay(k)),
         disk'[k] = disk[k], changes'[k] = changes[k],
         \A i \in Stages : OnTheWay(k)'[i] \in {OnTheWay(k)[i], None}
  PROVE  Follows(disk[k], changes[k], OnTheWay(k))'
<1> DEFINE g == [i \in Stages |-> i]
<1>1. HandsOn(g, OnTheWay(k), OnTheWay(k)')
  BY DEF HandsOn
<1>2. changes[k] \in Seq(Values)
  BY DEF TypeOK
<1>3. Follows(disk[k], changes[k], OnTheWay(k)')
  <2> HIDE DEF g
  <2> QED BY <1>1, <1>2, HandedOn
<1>4. QED
  BY <1>3 DEF Follows

(* The thread writes what comes first in the order.                        *)
LEMMA Saves ==
  ASSUME TypeOK, TypeOK', InOrder, ClearItems \/ \E j \in Keys : WriteItem(j), NEW k \in Keys
  PROVE  /\ Follows(disk[k], changes[k], OnTheWay(k))'
         /\ IsSaved(disk[k], changes[k], disk'[k], changes'[k])
<1>1. /\ Follows(disk[k], changes[k], OnTheWay(k))
      /\ disk[k] \in Values /\ changes[k] \in Seq(Values)
  BY DEF InOrder, TypeOK
<1>2. ASSUME ClearItems
      PROVE  /\ Follows(disk[k], changes[k], OnTheWay(k))'
             /\ IsSaved(disk[k], changes[k], disk'[k], changes'[k])
  <2>1. /\ disk'[k] = Null /\ changes'[k] = Left(k, Null)
        /\ thread.clear /\ thread'.clear = FALSE /\ thread'.items = thread.items
        /\ UNCHANGED <<area, sync>>
    BY <1>2 DEF ClearItems, TypeOK, Threads, Nulls
  <2>2. OnTheWay(k)[1] = Null /\ Null # None
    BY <2>1, WayParts, StorageAssumption DEF ClearOrNone, StorageAssumption, Null
  <2>3. 1 \in Stages /\ TakesFirst(1, OnTheWay(k), OnTheWay(k)')
    BY <2>1, WayParts DEF TakesFirst, ClearOrNone, Stages
  <2>4. /\ Follows(Null, changes'[k], OnTheWay(k)')
        /\ IsSaved(disk[k], changes[k], Null, changes'[k])
    <3>1. IsLeft(disk[k], changes[k], Null, changes'[k])
      BY <2>1, LeftProperties
    <3>2. QED
      BY <1>1, <2>2, <2>3, <3>1, Written
  <2>5. QED
    BY <2>1, <2>4 DEF Follows
<1>3. ASSUME NEW j \in Keys, WriteItem(j)
      PROVE  /\ Follows(disk[k], changes[k], OnTheWay(k))'
             /\ IsSaved(disk[k], changes[k], disk'[k], changes'[k])
  <2> DEFINE v == thread.items[j]
  <2>1. /\ disk' = [disk EXCEPT ![j] = v] /\ changes' = [changes EXCEPT ![j] = Left(j, v)]
        /\ ~thread.clear /\ v # None
        /\ ~thread'.clear /\ thread'.items = [thread.items EXCEPT ![j] = None]
        /\ UNCHANGED <<area, sync>>
    BY <1>3 DEF WriteItem, TypeOK, Threads
  <2>2. CASE k # j
    <3>1. disk'[k] = disk[k] /\ changes'[k] = changes[k]
      BY <2>1, <2>2
    <3>2. OnTheWay(k)' = OnTheWay(k)
      BY <2>1, <2>2 DEF OnTheWay, TypeOK, Threads, Items
    <3>3. QED
      BY <1>1, <3>1, <3>2, OrderKept DEF IsSaved
  <2>3. CASE k = j
    <3>1. disk'[k] = v /\ changes'[k] = Left(k, v)
      BY <2>1, <2>3 DEF TypeOK
    <3>2. OnTheWay(k)[2] = v
      BY <2>3, WayParts
    <3>3. 2 \in Stages /\ TakesFirst(2, OnTheWay(k), OnTheWay(k)')
      <4>1. thread'.items[k] = None /\ thread'.clear = FALSE
        BY <2>1, <2>3 DEF TypeOK, Threads, Items
      <4>2. QED
        BY <2>1, <4>1, WayParts DEF TakesFirst, ClearOrNone, Stages
    <3>4. /\ Follows(v, changes'[k], OnTheWay(k)')
          /\ IsSaved(disk[k], changes[k], v, changes'[k])
      <4> HIDE DEF v
      <4>1. IsLeft(disk[k], changes[k], OnTheWay(k)[2], changes'[k])
        BY <3>1, <3>2, LeftProperties
      <4>2. OnTheWay(k)[2] # None
        BY <2>1, <3>2
      <4>3. QED
        BY <1>1, <3>2, <3>3, <4>1, <4>2, Written
    <3>5. QED
      BY <3>1, <3>4 DEF Follows
  <2>4. QED
    BY <2>2, <2>3
<1>4. QED
  BY <1>2, <1>3

(* Every step keeps the order, and is one of the abstract service's.       *)
LEMMA OrderStep ==
  ASSUME TypeOK, TypeOK', InOrder, [Next]_vars
  PROVE  InOrder' /\ [Service!Next]_<<disk, changes>>
<1>1. \A k \in Keys : /\ Follows(disk[k], changes[k], OnTheWay(k))
                      /\ disk[k] \in Values /\ changes[k] \in Seq(Values)
                      /\ disk'[k] \in Values /\ changes'[k] \in Seq(Values)
                      /\ DOMAIN changes[k] = 1..Len(changes[k])
  <2> SUFFICES ASSUME NEW k \in Keys
               PROVE  /\ Follows(disk[k], changes[k], OnTheWay(k))
                      /\ disk[k] \in Values /\ changes[k] \in Seq(Values)
                      /\ disk'[k] \in Values /\ changes'[k] \in Seq(Values)
                      /\ DOMAIN changes[k] = 1..Len(changes[k])
    OBVIOUS
  <2>1. /\ disk[k] \in Values /\ changes[k] \in Seq(Values)
        /\ disk'[k] \in Values /\ changes'[k] \in Seq(Values)
    BY DEF TypeOK
  <2>2. DOMAIN changes[k] = 1..Len(changes[k])
    BY <2>1, LenProperties
  <2>3. QED
    BY <2>1, <2>2 DEF InOrder
<1>2. DOMAIN disk = Keys /\ DOMAIN disk' = Keys /\ DOMAIN changes = Keys /\ DOMAIN changes' = Keys
  BY DEF TypeOK
<1>3. (\A k \in Keys : IsSaved(disk[k], changes[k], disk'[k], changes'[k])) => [Service!Next]_<<disk, changes>>
  BY <1>1 DEF IsSaved, Service!Next, Service!Save
<1>4. ASSUME NEW j \in Keys, SetItem(j) PROVE InOrder' /\ [Service!Next]_<<disk, changes>>
  <2> DEFINE v == used.writes + 1
  <2>1. v \in Values
    BY <1>4, UsageTypes DEF SetItem
  <2>2. /\ changes' = [changes EXCEPT ![j] = Announce(j, v)] /\ UNCHANGED <<disk, sync, thread>>
        /\ area'.cleared = area.cleared /\ area'.changed = [area.changed EXCEPT ![j] = v]
    BY <1>4 DEF SetItem, Changed, TypeOK, Areas
  <2> HIDE DEF v
  <2>3. ASSUME NEW k \in Keys PROVE Follows(disk[k], changes[k], OnTheWay(k))'
    <3>1. CASE k # j
      <4>1. disk'[k] = disk[k] /\ changes'[k] = changes[k] /\ OnTheWay(k)' = OnTheWay(k)
        BY <2>2, <3>1 DEF OnTheWay, TypeOK, Areas, Items
      <4>2. QED
        BY <1>1, <4>1, OrderKept
    <3>2. CASE k = j
      <4>1. changes'[k] = Announce(k, v)
        BY <2>2, <3>2 DEF TypeOK
      <4>2. Replaces(6, v, OnTheWay(k), OnTheWay(k)')
        <5>1. area'.changed[k] = v
          BY <2>2, <3>2 DEF TypeOK, Areas, Items
        <5>2. QED
          BY <2>2, <5>1, WayParts DEF Replaces, Stages
      <4>3. Follows(disk[k], changes'[k], OnTheWay(k)')
        BY <1>1, <2>1, <4>1, <4>2, AnnouncedIsLast, Announces
      <4>4. QED
        BY <2>2, <4>3 DEF Follows
    <3>3. QED
      BY <3>1, <3>2
  <2>4. Service!Change
    BY <2>1, <2>2, AnnouncedIsLast DEF Service!Change, TypeOK
  <2>5. QED
    BY <2>3, <2>4 DEF InOrder, Service!Next
<1>5. ASSUME NEW j \in Keys, RemoveItem(j) PROVE InOrder' /\ [Service!Next]_<<disk, changes>>
  <2>1. Null \in Values
    BY ValueTypes
  <2>2. /\ changes' = [changes EXCEPT ![j] = Announce(j, Null)] /\ UNCHANGED <<disk, sync, thread>>
        /\ area'.cleared = area.cleared /\ area'.changed = [area.changed EXCEPT ![j] = Null]
    BY <1>5 DEF RemoveItem, Changed, TypeOK, Areas
  <2>3. ASSUME NEW k \in Keys PROVE Follows(disk[k], changes[k], OnTheWay(k))'
    <3>1. CASE k # j
      <4>1. disk'[k] = disk[k] /\ changes'[k] = changes[k] /\ OnTheWay(k)' = OnTheWay(k)
        BY <2>2, <3>1 DEF OnTheWay, TypeOK, Areas, Items
      <4>2. QED
        BY <1>1, <4>1, OrderKept
    <3>2. CASE k = j
      <4>1. changes'[k] = Announce(k, Null)
        BY <2>2, <3>2 DEF TypeOK
      <4>2. Replaces(6, Null, OnTheWay(k), OnTheWay(k)')
        <5>1. area'.changed[k] = Null
          BY <2>2, <3>2 DEF TypeOK, Areas, Items
        <5>2. QED
          BY <2>2, <5>1, WayParts DEF Replaces, Stages
      <4>3. Follows(disk[k], changes'[k], OnTheWay(k)')
        BY <1>1, <2>1, <4>1, <4>2, AnnouncedIsLast, Announces
      <4>4. QED
        BY <2>2, <4>3 DEF Follows
    <3>3. QED
      BY <3>1, <3>2
  <2>4. Service!Change
    BY <2>1, <2>2, AnnouncedIsLast DEF Service!Change, TypeOK
  <2>5. QED
    BY <2>3, <2>4 DEF InOrder, Service!Next
<1>6. ASSUME Clear PROVE InOrder' /\ [Service!Next]_<<disk, changes>>
  <2>1. Null \in Values
    BY ValueTypes
  <2>2. /\ changes' = [k \in Keys |-> Announce(k, Null)] /\ UNCHANGED <<disk, sync, thread>>
        /\ area'.cleared = TRUE /\ area'.changed = NoItems
    BY <1>6 DEF Clear, TypeOK, Areas
  <2>3. ASSUME NEW k \in Keys PROVE Follows(disk[k], changes[k], OnTheWay(k))'
    <3>1. changes'[k] = Announce(k, Null)
      BY <2>2
    <3>2. Replaces(5, Null, OnTheWay(k), OnTheWay(k)')
      BY <2>2, WayParts DEF Replaces, Stages, NoItems, ClearOrNone
    <3>3. Follows(disk[k], changes'[k], OnTheWay(k)')
      BY <1>1, <2>1, <3>1, <3>2, AnnouncedIsLast, Announces
    <3>4. QED
      BY <2>2, <3>3 DEF Follows
  <2>4. Service!Change
    BY <2>1, <2>2, AnnouncedIsLast DEF Service!Change
  <2>5. QED
    BY <2>3, <2>4 DEF InOrder, Service!Next
<1>7. ASSUME Moved, UNCHANGED <<thread, disk, changes>> PROVE InOrder' /\ [Service!Next]_<<disk, changes>>
  <2>1. ASSUME NEW k \in Keys PROVE Follows(disk[k], changes[k], OnTheWay(k))'
    <3> DEFINE g == IF area.cleared THEN <<1, 2, 5, 6, 6, 6>>
                    ELSE IF area.changed[k] # None THEN <<1, 2, 3, 6, 6, 6>>
                    ELSE <<1, 2, 3, 4, 6, 6>>
    <3>1. g \in [Stages -> Stages] /\ \A m, n \in Stages : m <= n => g[m] <= g[n]
      BY DEF Stages
    <3>2. /\ g[1] = 1 /\ g[2] = 2 /\ g[3] = IF area.cleared THEN 5 ELSE 3
          /\ g[4] = IF area.cleared \/ area.changed[k] # None THEN 6 ELSE 4
          /\ g[5] = 6 /\ g[6] = 6
      OBVIOUS
    <3>3. /\ sync'.pending[k] = IF area.changed[k] # None THEN area.changed[k]
                                ELSE IF area.cleared THEN None ELSE sync.pending[k]
          /\ sync'.clear = (sync.clear \/ area.cleared)
          /\ area'.changed[k] = None /\ area'.cleared = FALSE
          /\ thread' = thread /\ disk' = disk /\ changes' = changes
      BY <1>7 DEF Moved, TypeOK, Areas, Syncs, NoItems
    <3>4. HandsOn(g, OnTheWay(k), OnTheWay(k)')
      <4> HIDE DEF g
      <4>1. \A i \in Stages : OnTheWay(k)'[i] \in {OnTheWay(k)[g[i]], None}
        <5>1. /\ OnTheWay(k)'[1] = OnTheWay(k)[g[1]]
              /\ OnTheWay(k)'[2] = OnTheWay(k)[g[2]]
          BY <3>3, <3>2, WayParts
        <5>2. OnTheWay(k)'[3] \in {OnTheWay(k)[g[3]], None}
          BY <3>3, <3>2, WayParts DEF ClearOrNone
        <5>3. OnTheWay(k)'[4] \in {OnTheWay(k)[g[4]], None}
          BY <3>3, <3>2, WayParts
        <5>4. OnTheWay(k)'[5] = None /\ OnTheWay(k)'[6] = None
          BY <3>3, WayParts DEF ClearOrNone
        <5>5. QED
          BY <5>1, <5>2, <5>3, <5>4 DEF Stages
      <4>2. QED
        BY <3>1, <4>1 DEF HandsOn
    <3>5. Follows(disk[k], changes[k], OnTheWay(k)')
      <4> HIDE DEF g
      <4> QED BY <1>1, <3>4, HandedOn
    <3>6. QED
      BY <3>3, <3>5 DEF Follows
  <2>2. QED
    BY <1>7, <2>1 DEF InOrder
<1>8. ASSUME SyncTimerFired \/ Close PROVE InOrder' /\ [Service!Next]_<<disk, changes>>
  BY <1>7, <1>8 DEF SyncTimerFired, Close
<1>9. ASSUME PerformSync PROVE InOrder' /\ [Service!Next]_<<disk, changes>>
  <2>1. ASSUME NEW k \in Keys PROVE Follows(disk[k], changes[k], OnTheWay(k))'
    <3>1. CASE ~thread.open
      BY <1>1, <1>9, <3>1, OrderKept, WayParts DEF PerformSync, Stages
    <3>2. CASE thread.open
      <4> DEFINE g == <<3, 4, 5, 5, 5, 6>>
      <4>1. g \in [Stages -> Stages] /\ \A m, n \in Stages : m <= n => g[m] <= g[n]
        BY DEF Stages
      <4>2. /\ thread'.items = sync.pending /\ thread'.clear = sync.clear
            /\ sync'.pending[k] = None /\ sync'.clear = FALSE
            /\ UNCHANGED <<area, disk, changes>>
        <5>1. /\ thread' = [thread EXCEPT !.at = "writing", !.items = sync.pending, !.clear = sync.clear]
              /\ sync' = [pending |-> NoItems, clear |-> FALSE, scheduled |-> FALSE]
              /\ UNCHANGED <<area, disk, changes>>
          BY <1>9, <3>2 DEF PerformSync
        <5>2. thread'.items = sync.pending /\ thread'.clear = sync.clear
          BY <5>1 DEF TypeOK, Threads
        <5>3. QED
          BY <5>1, <5>2 DEF NoItems
      <4>3. HandsOn(g, OnTheWay(k), OnTheWay(k)')
        <5>1. \A i \in Stages : OnTheWay(k)'[i] \in {OnTheWay(k)[g[i]], None}
          BY <4>2, WayParts DEF Stages, ClearOrNone
        <5>2. QED
          BY <4>1, <5>1 DEF HandsOn
      <4>4. Follows(disk[k], changes[k], OnTheWay(k)')
        <5> HIDE DEF g
        <5> QED BY <1>1, <4>3, HandedOn
      <4>5. QED
        BY <4>2, <4>4 DEF Follows
    <3>3. QED
      BY <3>1, <3>2
  <2>2. QED
    BY <1>9, <2>1 DEF InOrder, PerformSync
<1>10. ASSUME ClearItems \/ \E j \in Keys : WriteItem(j)
      PROVE  InOrder' /\ [Service!Next]_<<disk, changes>>
  BY <1>10, <1>3, Saves DEF InOrder
<1>11. ASSUME \/ Read \/ ReadReturns \/ PerformImport \/ ImportDone \/ SyncFails \/ SyncDone
             \/ PerformTerminate \/ (\E k \in Keys : ImportItem(k)) \/ UNCHANGED vars
      PROVE InOrder' /\ [Service!Next]_<<disk, changes>>
  <2>1. /\ UNCHANGED <<disk, changes, sync>>
        /\ area'.cleared = area.cleared /\ area'.changed = area.changed
        /\ \/ thread'.clear = thread.clear /\ thread'.items = thread.items
           \/ thread'.clear = FALSE /\ thread'.items = NoItems
    <3>1. CASE Read \/ ReadReturns \/ UNCHANGED vars
      BY <3>1 DEF Read, ReadReturns, vars, TypeOK, Areas
    <3>2. CASE PerformImport \/ ImportDone \/ \E k \in Keys : ImportItem(k)
      BY <3>2, ZenonT(40) DEF PerformImport, ImportDone, ImportItem, TypeOK, Areas, Threads
    <3>3. CASE SyncFails \/ SyncDone \/ PerformTerminate
      BY <3>3 DEF SyncFails, SyncDone, Synced, PerformTerminate, TypeOK, Threads
    <3>4. QED
      BY <1>11, <3>1, <3>2, <3>3
  <2>2. ASSUME NEW k \in Keys PROVE Follows(disk[k], changes[k], OnTheWay(k))'
    BY <1>1, <2>1, OrderKept, WayParts DEF Stages, NoItems, ClearOrNone
  <2>3. QED
    BY <2>1, <2>2 DEF InOrder
<1>12. ASSUME Restart PROVE InOrder' /\ [Service!Next]_<<disk, changes>>
  <2>1. /\ changes' = NoChanges /\ disk' = disk
        /\ \A k \in Keys, i \in Stages : OnTheWay(k)'[i] = None
    BY <1>12, WayParts DEF Restart, Started, NoItems, Stages, ClearOrNone
  <2>2. ASSUME NEW k \in Keys PROVE Follows(disk[k], changes[k], OnTheWay(k))'
    <3> DEFINE at == [i \in Stages |-> 0]
    <3>1. at \in [Stages -> 0..Len(changes'[k])] /\ \A m, n \in Stages : at[m] <= at[n]
      BY <1>1
    <3>2. QED
      BY <2>1, <3>1 DEF Follows
  <2>3. Service!Restart
    BY <2>1 DEF Service!Restart, NoChanges
  <2>4. QED
    BY <2>2, <2>3 DEF InOrder, Service!Next
<1>13. QED
  BY <1>4, <1>5, <1>6, <1>8, <1>9, <1>10, <1>11, <1>12 DEF Next, Thread, Page

-----------------------------------------------------------------------------
(* The tasks of the thread.                                                *)

(* An import is the first task, and done once; a sync is queued only when  *)
(* one is scheduled, and at most once.                                     *)
QueueInv ==
  /\ \A i \in 1..Len(queue) : queue[i] = "import" =>
       i = 1 /\ thread.at = "waiting" /\ ~thread.open /\ ~area.imported
  /\ thread.at = "importing" => ~area.imported
  /\ \A i, j \in 1..Len(queue) : queue[i] = "sync" /\ queue[j] = "sync" => i = j
  /\ Contains(queue, "sync") => sync.scheduled

(* What is left to write has a timer or a task.  A thread whose database   *)
(* did not open takes the task and leaves m_syncScheduled as it is.        *)
SyncInv ==
  /\ area.changed # NoItems \/ area.cleared => area.timer
  /\ sync.pending # NoItems \/ sync.clear => sync.scheduled
  /\ sync.scheduled /\ main # "closed" =>
       \/ Contains(queue, "sync")
       \/ thread.at = "waiting" /\ ~thread.open /\ ~Contains(queue, "import")

(* The thread takes the first task.                                        *)
LEMMA TakesProperties ==
  ASSUME TypeOK, NEW t, Takes(t)
  PROVE  /\ Len(queue) \in Nat /\ 1 \in 1..Len(queue) /\ queue[1] = t
         /\ thread.at = "waiting"
         /\ Len(Tail(queue)) = Len(queue) - 1
         /\ \A i \in 1..(Len(queue) - 1) : Tail(queue)[i] = queue[i + 1]
<1>1. queue \in Seq(Tasks) /\ queue # <<>> /\ Head(queue) = t /\ thread.at = "waiting"
  BY DEF TypeOK, Takes
<1>2. Len(queue) \in Nat /\ Len(queue) # 0
  BY <1>1, EmptySeq
<1>3. queue[1] = t
  BY <1>1
<1>4. QED
  BY <1>1, <1>2, <1>3, HeadTailProperties

(* The main thread adds a sync when none is scheduled.                     *)
LEMMA ScheduledProperties ==
  ASSUME TypeOK, QueueInv, NEW q \in Seq(Tasks), q = queue \o ScheduledSync
  PROVE  /\ Len(q) \in Nat /\ Len(queue) \in Nat /\ Len(queue) <= Len(q)
         /\ \A i \in 1..Len(queue) : q[i] = queue[i]
         /\ \A i \in 1..Len(q) : i \in 1..Len(queue) \/ (i = Len(queue) + 1 /\ q[i] = "sync" /\ ~sync.scheduled)
         /\ \A i, j \in 1..Len(q) : q[i] = "sync" /\ q[j] = "sync" => i = j
         /\ ~sync.scheduled => Contains(q, "sync")
         /\ sync.scheduled => q = queue
<1>1. queue \in Seq(Tasks)
  BY DEF TypeOK
<1>2. queue \in Seq(Tasks) /\ Len(queue) \in Nat
  BY <1>1, LenProperties
<1>3. CASE sync.scheduled
  <2>1. q = queue
    BY <1>2, <1>3, ConcatEmptySeq DEF ScheduledSync
  <2>2. QED
    BY <1>2, <1>3, <2>1 DEF QueueInv
<1>4. CASE ~sync.scheduled
  <2>1. q = queue \o <<"sync">> /\ <<"sync">> \in Seq(Tasks) /\ Len(<<"sync">>) = 1 /\ <<"sync">>[1] = "sync"
    BY <1>4 DEF ScheduledSync, Tasks
  <2>2. /\ Len(q) = Len(queue) + 1 /\ q[Len(queue) + 1] = "sync"
        /\ \A i \in 1..Len(queue) : q[i] = queue[i]
    BY <1>2, <2>1, ConcatProperties
  <2>3. Contains(q, "sync")
    BY <1>2, <2>2 DEF Contains
  <2>4. \A i \in 1..Len(q) : q[i] = "sync" => i = Len(queue) + 1
    BY <1>2, <1>4, <2>2 DEF QueueInv, Contains
  <2>5. QED
    BY <1>2, <1>4, <2>2, <2>3, <2>4
<1>5. QED
  BY <1>3, <1>4

(* Every step keeps what is known of the queue.                            *)
LEMMA QueueStep ==
  ASSUME TypeOK, TypeOK', QueueInv, [Next]_vars
  PROVE  QueueInv'
<1>1. queue \in Seq(Tasks)
  BY DEF TypeOK
<1>2. Len(queue) \in Nat
  BY <1>1, LenProperties
<1>3. ASSUME (\E k \in Keys : SetItem(k) \/ RemoveItem(k)) \/ Clear \/ Read \/ ReadReturns PROVE QueueInv'
  <2>1. UNCHANGED <<queue, thread, sync>> /\ area'.imported = area.imported
    <3>1. CASE \E k \in Keys : SetItem(k) \/ RemoveItem(k)
      BY <3>1, ZenonT(40) DEF SetItem, RemoveItem, Changed, TypeOK, Areas
    <3>2. CASE Clear
      BY <3>2 DEF Clear, TypeOK, Areas
    <3>3. CASE Read \/ ReadReturns
      BY <3>3 DEF Read, ReadReturns, TypeOK, Areas
    <3>4. QED
      BY <1>3, <3>1, <3>2, <3>3
  <2>2. QED
    BY <2>1 DEF QueueInv
<1>4. ASSUME SyncTimerFired PROVE QueueInv'
  <2>1. queue' = queue \o ScheduledSync /\ queue' \in Seq(Tasks) /\ thread' = thread
        /\ area'.imported = area.imported /\ sync'.scheduled
    BY <1>4 DEF SyncTimerFired, Moved, TypeOK, Areas
  <2>2. \A i \in 1..Len(queue') : queue'[i] = "import" =>
          i \in 1..Len(queue) /\ queue[i] = "import"
    BY <2>1, ScheduledProperties
  <2>3. \A i, j \in 1..Len(queue') : queue'[i] = "sync" /\ queue'[j] = "sync" => i = j
    BY <2>1, ScheduledProperties
  <2>4. QED
    BY <2>1, <2>2, <2>3 DEF QueueInv
<1>5. ASSUME Close PROVE QueueInv'
  <2> DEFINE q == queue \o ScheduledSync
  <2>1. q \in Seq(Tasks) /\ <<"terminate">> \in Seq(Tasks) /\ queue' = q \o <<"terminate">>
    BY <1>5, QueueTypes DEF Close, Tasks
  <2>2. thread' = thread /\ area'.imported = area.imported /\ sync'.scheduled
    BY <1>5 DEF Close, Moved, TypeOK, Areas
  <2>3. /\ Len(q) \in Nat /\ Len(queue') = Len(q) + 1 /\ queue'[Len(q) + 1] = "terminate"
        /\ \A i \in 1..Len(q) : queue'[i] = q[i]
    <3>1. Len(<<"terminate">>) = 1 /\ <<"terminate">>[1] = "terminate"
      OBVIOUS
    <3>2. QED
      <4> HIDE DEF q
      <4> QED BY <2>1, <3>1, ConcatProperties
  <2>4. \A i \in 1..Len(q) : q[i] = "import" => i \in 1..Len(queue) /\ queue[i] = "import"
    BY <2>1, ScheduledProperties
  <2>5. \A i, j \in 1..Len(q) : q[i] = "sync" /\ q[j] = "sync" => i = j
    BY <2>1, ScheduledProperties
  <2>6. \A i \in 1..Len(queue') : queue'[i] \in {"import", "sync"} => i \in 1..Len(q) /\ queue'[i] = q[i]
    BY <2>3
  <2> HIDE DEF q
  <2>7. QED
    BY <2>2, <2>4, <2>5, <2>6 DEF QueueInv
<1>6. ASSUME PerformImport PROVE QueueInv'
  <2>1. /\ Takes("import") /\ queue' = Tail(queue) /\ sync' = sync
        /\ thread'.at = "importing" => area' = area
    BY <1>6 DEF PerformImport, Takes, TypeOK, Threads
  <2>2. ~area.imported
    BY <2>1, TakesProperties DEF QueueInv
  <2>3. /\ \A i \in 1..Len(queue') : i + 1 \in 1..Len(queue) /\ queue'[i] = queue[i + 1]
        /\ Len(queue') \in Nat
    BY <2>1, TakesProperties
  <2>4. QED
    BY <2>1, <2>2, <2>3 DEF QueueInv, Contains
<1>7. ASSUME PerformSync PROVE QueueInv'
  <2>1. /\ Takes("sync") /\ queue' = Tail(queue) /\ area' = area /\ thread'.at \in {"waiting", "writing"}
    BY <1>7 DEF PerformSync, Takes, TypeOK, Threads
  <2>2. /\ \A i \in 1..Len(queue') : i + 1 \in 1..Len(queue) /\ queue'[i] = queue[i + 1]
        /\ Len(queue') \in Nat
    BY <2>1, TakesProperties
  <2>3. \A i \in 1..Len(queue') : queue'[i] \notin {"sync", "import"}
    <3> SUFFICES ASSUME NEW i \in 1..Len(queue'), queue'[i] \in {"sync", "import"} PROVE FALSE
      OBVIOUS
    <3>1. i + 1 # 1 /\ 1 \in 1..Len(queue) /\ queue[1] = "sync"
      BY <2>1, <2>2, TakesProperties
    <3>2. QED
      BY <2>2, <3>1 DEF QueueInv
  <2>4. QED
    BY <2>1, <2>3 DEF QueueInv, Contains
<1>8. ASSUME (\E k \in Keys : ImportItem(k) \/ WriteItem(k)) \/ ImportDone \/ ClearItems \/ SyncFails \/ SyncDone
      PROVE  QueueInv'
  <2>1. /\ queue' = queue /\ sync' = sync /\ thread.at # "waiting"
        /\ thread'.at = "importing" => thread.at = "importing" /\ area'.imported = area.imported
    BY <1>8 DEF ImportItem, WriteItem, ImportDone, ClearItems, SyncFails, SyncDone, Synced, TypeOK, Areas, Threads
  <2>2. QED
    BY <2>1 DEF QueueInv
<1>9. ASSUME PerformTerminate PROVE QueueInv'
  <2>1. Len(queue') = 0 /\ thread'.at = "ended"
    BY <1>9 DEF PerformTerminate, TypeOK, Threads
  <2>2. QED
    BY <2>1 DEF QueueInv, Contains
<1>10. ASSUME Restart PROVE QueueInv'
  <2>1. /\ Len(queue') = 1 /\ queue'[1] = "import" /\ area'.imported = FALSE
        /\ thread'.at = "waiting" /\ thread'.open = FALSE
    BY <1>10 DEF Restart, Started
  <2>2. QED
    BY <2>1 DEF QueueInv, Contains
<1>11. CASE UNCHANGED vars
  BY <1>11 DEF vars, QueueInv
<1>12. QED
  BY <1>3, <1>4, <1>5, <1>6, <1>7, <1>8, <1>9, <1>10, <1>11 DEF Next, Thread, Page

(* Every step keeps what is known of m_changedItems and of what is pending.*)
LEMMA SyncStep ==
  ASSUME TypeOK, TypeOK', QueueInv, SyncInv, [Next]_vars
  PROVE  SyncInv'
<1>1. ASSUME (\E k \in Keys : SetItem(k) \/ RemoveItem(k)) \/ Clear \/ Read \/ ReadReturns PROVE SyncInv'
  <2>1. /\ UNCHANGED <<queue, thread, sync>> /\ main # "closed"
        /\ area'.timer \/ area' = area
    BY <1>1 DEF SetItem, RemoveItem, Clear, Read, ReadReturns, Running, Changed, TypeOK, Areas
  <2>2. QED
    BY <2>1 DEF SyncInv
<1>2. ASSUME SyncTimerFired \/ Close PROVE SyncInv'
  <2>1. /\ thread' = thread /\ area'.changed = NoItems /\ area'.cleared = FALSE
        /\ sync'.scheduled /\ main # "closed"
    <3>1. Moved /\ thread' = thread /\ main = "running"
      BY <1>2 DEF SyncTimerFired, Close, Running
    <3>2. QED
      BY <3>1 DEF Moved, TypeOK, Areas
  <2> DEFINE q == queue \o ScheduledSync
  <2>2. q \in Seq(Tasks)
    BY QueueTypes
  <2>3. Contains(q, "sync") \/ (q = queue /\ thread.at = "waiting" /\ ~thread.open /\ ~Contains(queue, "import"))
    BY <2>1, <2>2, ScheduledProperties DEF SyncInv
  <2>4. Len(q) \in Nat /\ Len(queue') >= Len(q) /\ (\A i \in 1..Len(q) : queue'[i] = q[i])
        /\ \A i \in 1..Len(queue') : i \in 1..Len(q) \/ queue'[i] = "terminate"
    <3>1. Len(<<"terminate">>) = 1 /\ <<"terminate">>[1] = "terminate" /\ <<"terminate">> \in Seq(Tasks)
      BY DEF Tasks
    <3>2. queue' = q \/ queue' = q \o <<"terminate">>
      BY <1>2 DEF SyncTimerFired, Close
    <3> HIDE DEF q
    <3>3. CASE queue' = q
      BY <2>2, <3>3
    <3>4. CASE queue' = q \o <<"terminate">>
      BY <2>2, <3>1, <3>4, ConcatProperties
    <3>5. QED
      BY <3>2, <3>3, <3>4
  <2> HIDE DEF q
  <2>5. Contains(q, "sync") => Contains(queue', "sync")
    BY <2>4 DEF Contains
  <2>6. ~Contains(q, "import") => ~Contains(queue', "import")
    BY <2>4 DEF Contains
  <2>7. QED
    BY <2>1, <2>3, <2>5, <2>6 DEF SyncInv
<1>3. ASSUME PerformImport PROVE SyncInv'
  <2>1. /\ Takes("import") /\ queue' = Tail(queue) /\ sync' = sync /\ main' = main
        /\ UNCHANGED <<area.changed, area.cleared, area.timer>>
    BY <1>3 DEF PerformImport, Takes, TypeOK, Areas
  <2>2. Contains(queue, "import")
    BY <2>1, TakesProperties DEF Contains
  <2>3. Contains(queue, "sync") => Contains(queue', "sync")
    <3> SUFFICES ASSUME NEW i \in 1..Len(queue), queue[i] = "sync" PROVE Contains(queue', "sync")
      BY DEF Contains
    <3>1. i - 1 \in 1..Len(queue') /\ queue'[i - 1] = "sync"
      BY <2>1, TakesProperties
    <3>2. QED
      BY <3>1 DEF Contains
  <2>4. QED
    BY <2>1, <2>2, <2>3 DEF SyncInv
<1>4. ASSUME PerformSync PROVE SyncInv'
  <2>1. Takes("sync") /\ queue' = Tail(queue) /\ area' = area /\ main' = main
    BY <1>4 DEF PerformSync
  <2>2. CASE thread.open
    BY <1>4, <2>1, <2>2 DEF PerformSync, SyncInv
  <2>3. CASE ~thread.open
    <3>1. thread' = thread /\ sync' = sync /\ thread.at = "waiting"
      BY <1>4, <2>1, <2>3 DEF PerformSync, Takes
    <3>2. ~Contains(queue', "import")
      BY <2>1, TakesProperties DEF Contains, QueueInv
    <3>3. QED
      BY <2>1, <2>3, <3>1, <3>2 DEF SyncInv
  <2>4. QED
    BY <2>2, <2>3
<1>5. ASSUME (\E k \in Keys : ImportItem(k) \/ WriteItem(k)) \/ ImportDone \/ ClearItems \/ SyncFails \/ SyncDone
      PROVE  SyncInv'
  <2>1. /\ UNCHANGED <<queue, sync, main>> /\ thread.at # "waiting"
        /\ UNCHANGED <<area.changed, area.cleared, area.timer>>
    BY <1>5 DEF ImportItem, WriteItem, ImportDone, ClearItems, SyncFails, SyncDone, TypeOK, Areas
  <2>2. QED
    BY <2>1 DEF SyncInv
<1>6. ASSUME PerformTerminate PROVE SyncInv'
  BY <1>6 DEF PerformTerminate, SyncInv
<1>7. ASSUME Restart PROVE SyncInv'
  BY <1>7 DEF Restart, Started, SyncInv
<1>8. CASE UNCHANGED vars
  BY <1>8 DEF vars, SyncInv
<1>9. QED
  BY <1>1, <1>2, <1>3, <1>4, <1>5, <1>6, <1>7, <1>8 DEF Next, Thread, Page

-----------------------------------------------------------------------------
(* The import.                                                             *)

(* What the page finds of an item that it has not removed before it was    *)
(* imported: what it stored, what is imported, or nothing while the import *)
(* has not come to it.                                                     *)
ItemCurrent(k) ==
  \/ /\ area.map[k] = Announced(k)
     /\ area.imported \/ changes[k] = <<>> \/ area.map[k] # Null
  \/ /\ ~area.imported
     /\ area.map[k] = Null /\ changes[k] = <<>>
     /\ thread.at = "importing" => k \in thread.todo

MapInv == used.faults = 0 => \A k \in Keys \ area.early : ItemCurrent(k)

(* Saving does not change what the page knows.                             *)
LEMMA AnnouncedSaved ==
  ASSUME TypeOK, TypeOK', NEW k \in Keys,
         IsSaved(disk[k], changes[k], disk'[k], changes'[k])
  PROVE  /\ Announced(k)' = Announced(k)
         /\ changes[k] = <<>> => changes'[k] = <<>> /\ disk'[k] = disk[k]
<1>1. changes[k] \in Seq(Values) /\ changes'[k] \in Seq(Values) /\ Len(changes[k]) \in Nat
  BY LenProperties DEF TypeOK
<1>2. CASE changes'[k] = changes[k] /\ disk'[k] = disk[k]
  BY <1>2 DEF Announced
<1>3. ASSUME NEW i \in 1..Len(changes[k]), changes[k][i] = disk'[k],
             changes'[k] = SubSeq(changes[k], i + 1, Len(changes[k]))
      PROVE  Announced(k)' = Announced(k) /\ changes[k] # <<>>
  <2>1. i \in Int /\ i >= 1 /\ i <= Len(changes[k]) /\ i + 1 \in 1..(Len(changes[k]) + 1)
    BY <1>1
  <2>2. changes[k] # <<>>
    BY <1>1, <2>1, EmptySeq
  <2>3. Announced(k) = changes[k][Len(changes[k])]
    BY <2>2 DEF Announced, Last
  <2>4. CASE i = Len(changes[k])
    <3>1. Len(changes'[k]) = 0
      BY <1>1, <1>3, <2>1, <2>4, SubSeqProperties
    <3>2. changes'[k] = <<>>
      BY <1>1, <3>1, EmptySeq
    <3>3. QED
      BY <1>3, <2>2, <2>3, <2>4, <3>2 DEF Announced
  <2>5. CASE i # Len(changes[k])
    <3> DEFINE n == Len(changes[k]) - i
    <3>1. n \in 1..Len(changes[k]) /\ i + n = Len(changes[k])
      BY <1>1, <2>1, <2>5
    <3>2. Len(changes'[k]) = n /\ changes'[k][n] = changes[k][Len(changes[k])]
      BY <1>1, <1>3, <2>1, <3>1, SubSeqProperties
    <3>3. changes'[k] # <<>>
      BY <1>1, <3>1, <3>2, EmptySeq
    <3>4. Announced(k)' = changes'[k][Len(changes'[k])]
      BY <3>3 DEF Announced, Last
    <3>5. QED
      BY <2>2, <2>3, <3>2, <3>4
  <2>6. QED
    BY <2>4, <2>5
<1>4. QED
  BY <1>2, <1>3 DEF IsSaved

(* A change of the page is what it knows from then on.                     *)
LEMMA AnnouncedChanged ==
  ASSUME TypeOK, NEW k \in Keys, NEW v \in Values,
         disk'[k] = disk[k], changes'[k] = Announce(k, v)
  PROVE  Announced(k)' = v
<1>1. changes[k] \in Seq(Values)
  BY DEF TypeOK
<1>2. /\ Append(changes[k], v) # <<>>
      /\ Append(changes[k], v)[Len(Append(changes[k], v))] = v
  BY <1>1, AppendProperties
<1>3. QED
  BY <1>2 DEF Announced, Announce, Last

(* A failure is counted.                                                   *)
LEMMA FaultsStay ==
  ASSUME TypeOK, used'.faults = 0
  PROVE  ~Fails
<1>1. used \in Usage /\ MaxTroubles \in Nat
  BY StorageAssumption DEF TypeOK, StorageAssumption
<1>2. used.faults \in 0..MaxTroubles
  BY <1>1 DEF Usage
<1>3. used.faults + 1 # 0
  BY <1>1, <1>2
<1>4. [used EXCEPT !.faults = @ + 1].faults = used.faults + 1
  BY <1>1 DEF Usage
<1>5. QED
  BY <1>3, <1>4 DEF Fails

(* Every step without a failure keeps what the page finds.                 *)
LEMMA MapStep ==
  ASSUME TypeOK, TypeOK', QueueInv, MapInv, InOrder, [Next]_vars, used'.faults = 0,
         NEW k \in Keys, k \notin area'.early
  PROVE  ItemCurrent(k)'
<1>1. ASSUME NEW j \in Keys, SetItem(j) PROVE ItemCurrent(k)'
  <2> DEFINE v == used.writes + 1
  <2>1. /\ changes' = [changes EXCEPT ![j] = Announce(j, v)] /\ UNCHANGED <<disk, thread>>
        /\ used.faults = 0 /\ area'.imported = area.imported
        /\ area'.map = [area.map EXCEPT ![j] = v] /\ area'.early = area.early \ {j}
    BY <1>1 DEF SetItem, Changed, TypeOK, Areas, Usage
  <2>2. v \in Values /\ v # Null
    BY <1>1, UsageTypes DEF SetItem, Null
  <2> HIDE DEF v
  <2>3. CASE k = j
    <3>1. Announced(k)' = v
      BY <2>1, <2>2, <2>3, AnnouncedChanged DEF TypeOK
    <3>2. area'.map[k] = v
      BY <2>1, <2>3 DEF TypeOK, Areas
    <3>3. QED
      BY <2>2, <3>1, <3>2 DEF ItemCurrent
  <2>4. CASE k # j
    <3>1. /\ area'.map[k] = area.map[k] /\ changes'[k] = changes[k] /\ disk'[k] = disk[k]
          /\ thread' = thread /\ area'.imported = area.imported /\ k \notin area.early
      BY <2>1, <2>4 DEF TypeOK, Areas
    <3>2. QED
      BY <2>1, <3>1 DEF MapInv, ItemCurrent, Announced
  <2>5. QED
    BY <2>3, <2>4
<1>2. ASSUME NEW j \in Keys, RemoveItem(j) PROVE ItemCurrent(k)'
  <2>1. /\ changes' = [changes EXCEPT ![j] = Announce(j, Null)] /\ UNCHANGED <<disk, thread>>
        /\ used.faults = 0 /\ area'.imported = area.imported
        /\ area'.map = [area.map EXCEPT ![j] = Null] /\ area'.early = area.early \cup Early({j})
    BY <1>2 DEF RemoveItem, Changed, TypeOK, Areas
  <2>2. CASE k = j
    <3>1. area.imported
      BY <2>1, <2>2 DEF Early
    <3>2. Announced(k)' = Null
      BY <2>1, <2>2, AnnouncedChanged, ValueTypes DEF TypeOK
    <3>3. area'.map[k] = Null
      BY <2>1, <2>2 DEF TypeOK, Areas
    <3>4. QED
      BY <2>1, <3>1, <3>2, <3>3 DEF ItemCurrent
  <2>3. CASE k # j
    <3>1. /\ area'.map[k] = area.map[k] /\ changes'[k] = changes[k] /\ disk'[k] = disk[k]
          /\ thread' = thread /\ area'.imported = area.imported /\ k \notin area.early
      BY <2>1, <2>3 DEF TypeOK, Areas
    <3>2. QED
      BY <2>1, <3>1 DEF MapInv, ItemCurrent, Announced
  <2>4. QED
    BY <2>2, <2>3
<1>3. ASSUME Clear PROVE ItemCurrent(k)'
  <2>1. /\ changes'[k] = Announce(k, Null) /\ disk' = disk
        /\ area'.imported = area.imported /\ area'.map[k] = Null
        /\ area'.early = area.early \cup Early(Keys)
    BY <1>3 DEF Clear, TypeOK, Areas, Nulls
  <2>2. area.imported
    BY <2>1 DEF Early
  <2>3. Announced(k)' = Null
    BY <2>1, AnnouncedChanged, ValueTypes
  <2>4. QED
    BY <2>1, <2>2, <2>3 DEF ItemCurrent
<1>4. ASSUME PerformImport PROVE ItemCurrent(k)'
  <2>1. ~Fails
    BY FaultsStay
  <2>2. /\ area' = area /\ UNCHANGED <<disk, changes>> /\ used' = used /\ Takes("import")
        /\ thread'.todo = {j \in Keys : disk[j] # Null}
    BY <1>4, <2>1 DEF PerformImport, TypeOK, Threads
  <2>3. ~area.imported
    BY <2>2, TakesProperties DEF QueueInv
  <2>4. ItemCurrent(k)
    BY <2>2 DEF MapInv
  <2>5. QED
    BY <2>2, <2>3, <2>4 DEF ItemCurrent, Announced
<1>5. ASSUME NEW j \in Keys, ImportItem(j) PROVE ItemCurrent(k)'
  <2>1. /\ UNCHANGED <<disk, changes, used>> /\ thread.at = "importing" /\ j \in thread.todo
        /\ area' = IF area.map[j] = Null THEN [area EXCEPT !.map[j] = disk[j]] ELSE area
        /\ thread'.todo = thread.todo \ {j}
    BY <1>5 DEF ImportItem, TypeOK, Threads
  <2>2. /\ ~area.imported /\ ~area'.imported /\ area'.early = area.early
        /\ area'.map = IF area.map[j] = Null THEN [area.map EXCEPT ![j] = disk[j]] ELSE area.map
    BY <2>1 DEF QueueInv, TypeOK, Areas
  <2>3. ItemCurrent(k)
    BY <2>1, <2>2 DEF MapInv
  <2>4. CASE k = j /\ area.map[j] = Null
    <3>1. changes[k] = <<>> /\ area'.map[k] = disk[k]
      BY <2>2, <2>3, <2>4 DEF ItemCurrent, TypeOK, Areas
    <3>2. QED
      BY <2>1, <3>1 DEF ItemCurrent, Announced
  <2>5. CASE ~(k = j /\ area.map[j] = Null)
    <3>1. area'.map[k] = area.map[k]
      BY <2>2, <2>5 DEF TypeOK, Areas
    <3>2. QED
      BY <2>1, <2>2, <2>3, <2>5, <3>1 DEF ItemCurrent, Announced
  <2>6. QED
    BY <2>4, <2>5
<1>6. ASSUME ImportDone PROVE ItemCurrent(k)'
  <2>1. /\ UNCHANGED <<disk, changes, used>> /\ thread.at = "importing" /\ thread.todo = {}
        /\ area'.map = area.map /\ area'.imported /\ area'.early = area.early
    BY <1>6 DEF ImportDone, TypeOK, Areas
  <2>2. ItemCurrent(k)
    BY <2>1 DEF MapInv
  <2>3. QED
    BY <2>1, <2>2 DEF ItemCurrent, Announced
<1>7. ASSUME ClearItems \/ \E j \in Keys : WriteItem(j) PROVE ItemCurrent(k)'
  <2>1. area' = area /\ used' = used /\ thread.at # "importing" /\ thread'.at # "importing"
    BY <1>7 DEF ClearItems, WriteItem, TypeOK, Threads
  <2>2. ItemCurrent(k)
    BY <2>1 DEF MapInv
  <2>3. IsSaved(disk[k], changes[k], disk'[k], changes'[k])
    BY <1>7, Saves
  <2>4. /\ Announced(k)' = Announced(k)
        /\ changes[k] = <<>> => changes'[k] = <<>>
    BY <2>3, AnnouncedSaved
  <2>5. QED
    BY <2>1, <2>2, <2>4 DEF ItemCurrent
<1>8. ASSUME Restart PROVE ItemCurrent(k)'
  BY <1>8 DEF Restart, Started, ItemCurrent, Nulls, NoChanges
<1>9. ASSUME Read \/ ReadReturns \/ SyncTimerFired \/ Close \/ PerformSync \/ SyncDone \/ PerformTerminate
             \/ UNCHANGED vars
      PROVE  ItemCurrent(k)'
  <2>1. /\ UNCHANGED <<disk, changes, used>>
        /\ area'.map = area.map /\ area'.imported = area.imported /\ area'.early = area.early
        /\ thread'.at = "importing" => thread.at = "importing" /\ thread'.todo = thread.todo
    <3>1. CASE Read \/ ReadReturns
      BY <3>1 DEF Read, ReadReturns, TypeOK, Areas
    <3>2. CASE SyncTimerFired \/ Close
      BY <3>2 DEF SyncTimerFired, Close, Moved, TypeOK, Areas
    <3>3. CASE PerformSync
      BY <3>3 DEF PerformSync, TypeOK, Threads
    <3>4. CASE SyncDone
      BY <3>4 DEF SyncDone, Synced, TypeOK, Threads
    <3>5. CASE PerformTerminate \/ UNCHANGED vars
      BY <3>5 DEF PerformTerminate, vars, TypeOK, Threads
    <3>6. QED
      BY <1>9, <3>1, <3>2, <3>3, <3>4, <3>5
  <2>2. ItemCurrent(k)
    BY <2>1 DEF MapInv
  <2>3. QED
    BY <2>1, <2>2 DEF ItemCurrent, Announced
<1>10. ASSUME SyncFails PROVE FALSE
  BY <1>10, FaultsStay DEF SyncFails
<1>11. QED
  BY <1>1, <1>2, <1>3, <1>4, <1>5, <1>6, <1>7, <1>8, <1>9, <1>10 DEF Next, Thread, Page

-----------------------------------------------------------------------------
(* The inductive invariant.                                                *)
StorageInv == TypeOK /\ QueueInv /\ SyncInv /\ InOrder /\ MapInv

(* It holds at the start,                                                  *)
LEMMA InitInv == Init => StorageInv
<1> SUFFICES ASSUME Init PROVE StorageInv
  OBVIOUS
<1>1. TypeOK
  <2>1. area \in Areas /\ sync \in Syncs /\ thread \in Threads
    BY StartedTypes DEF Init
  <2>2. queue \in Seq(Tasks)
    BY DEF Init, Tasks
  <2>3. disk \in [Keys -> Values] /\ changes \in [Keys -> Seq(Values)]
    BY ValueTypes DEF Init
  <2>4. used \in Usage
    BY StorageAssumption DEF Init, Usage, StorageAssumption
  <2>5. QED
    BY <2>1, <2>2, <2>3, <2>4 DEF Init, TypeOK
<1>2. QueueInv /\ SyncInv
  BY DEF Init, Started, QueueInv, SyncInv, Contains
<1>3. InOrder
  <2> SUFFICES ASSUME NEW k \in Keys PROVE Follows(disk[k], changes[k], OnTheWay(k))
    BY DEF InOrder
  <2>1. \A i \in Stages : OnTheWay(k)[i] = None
    BY WayParts DEF Init, Started, NoItems, Stages, ClearOrNone
  <2>2. changes[k] = <<>> /\ Len(<<>>) = 0
    BY EmptySeq DEF Init, NoChanges
  <2> DEFINE at == [i \in Stages |-> 0]
  <2>3. at \in [Stages -> 0..Len(changes[k])] /\ \A i \in Stages : at[i] = 0
    BY <2>2
  <2> HIDE DEF at
  <2>4. \A i, j \in Stages : i <= j => at[i] <= at[j]
    BY <2>3
  <2>5. QED
    BY <2>1, <2>3, <2>4 DEF Follows
<1>4. MapInv
  BY DEF Init, Started, MapInv, ItemCurrent, Nulls, NoChanges
<1>5. QED
  BY <1>1, <1>2, <1>3, <1>4 DEF StorageInv

(* and every step keeps it and is one of the abstract service's.           *)
LEMMA StepInv == StorageInv /\ [Next]_vars => StorageInv' /\ [Service!Next]_<<disk, changes>>
<1> SUFFICES ASSUME StorageInv, [Next]_vars
             PROVE  StorageInv' /\ [Service!Next]_<<disk, changes>>
  OBVIOUS
<1>1. TypeOK /\ TypeOK' /\ QueueInv /\ SyncInv /\ InOrder /\ MapInv
  BY TypeStep DEF StorageInv
<1>2. QueueInv' /\ SyncInv' /\ InOrder' /\ [Service!Next]_<<disk, changes>>
  BY <1>1, QueueStep, SyncStep, OrderStep
<1>3. MapInv'
  BY <1>1, MapStep DEF MapInv
<1>4. QED
  BY <1>1, <1>2, <1>3 DEF StorageInv

(* In every reachable state the variables have their types, and a change   *)
(* that is not on disk is on its way in the order the page made it.        *)
THEOREM StorageInvariant == Spec => []StorageInv
<1>1. QED
  BY InitInv, StepInv, PTL DEF Spec

(* A change is always in somebody's hands: the timer's, or one task's.     *)
THEOREM ChangesScheduled == Spec => []ChangesAreScheduled
<1>1. StorageInv => ChangesAreScheduled
  <2> SUFFICES ASSUME StorageInv PROVE ChangesAreScheduled
    OBVIOUS
  <2> DEFINE places == {i \in DOMAIN queue : queue[i] = "sync"}
  <2>1. TypeOK /\ QueueInv /\ SyncInv
    BY DEF StorageInv
  <2>2. queue \in Seq(Tasks)
    BY <2>1 DEF TypeOK
  <2>3. DOMAIN queue = 1..Len(queue)
    BY <2>2, LenProperties
  <2>4. places = {} \/ \E i : places = {i}
    BY <2>1, <2>3 DEF QueueInv
  <2>5. Cardinality(places) <= 1
    <3>1. Cardinality({}) = 0 /\ \A i : Cardinality({i}) = 1
      BY FS_EmptySet, FS_Singleton
    <3> HIDE DEF places
    <3>2. QED
      BY <2>4, <3>1
  <2>6. QED
    BY <2>1, <2>5 DEF SyncInv, ChangesAreScheduled
<1>2. QED
  BY <1>1, StorageInvariant, PTL

(* After the import the page finds what it stored, and what was on disk.   *)
THEOREM MapCurrent == Spec => []MapIsCurrent
<1>1. StorageInv => MapIsCurrent
  BY DEF StorageInv, MapInv, ItemCurrent, MapIsCurrent
<1>2. QED
  BY <1>1, StorageInvariant, PTL

(* The area and its thread implement the abstract service: at any moment   *)
(* the browser may end, what is on disk of an item is a value it had,      *)
(* never an older one after a newer, never none for one not removed.       *)
THEOREM StorageImplements == Spec => SavesInOrder
<1>1. Init => Service!Init
  BY ValueTypes DEF Init, Service!Init, NoChanges, Values
<1>2. QED
  BY <1>1, InitInv, StepInv, PTL DEF Spec, SavesInOrder, Service!Spec
=============================================================================
