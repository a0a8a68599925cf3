------------------------ MODULE MemoryCache_proofs --------------------------
(***************************************************************************)
(* Theorems about the memory cache, for every set of objects, URLs and     *)
(* holders and all capacities: the books are exact, what is referenced is  *)
(* not deleted, nothing leaks, every client is told, and a prune ends with *)
(* enough room or with nothing left to evict.  A step changes one object,  *)
(* so most lemmas say of one function of the code that the cache stays in  *)
(* order, and that the methods in progress stay so, when one object is     *)
(* replaced by what that function makes of it.                             *)
(***************************************************************************)
EXTENDS MemoryCache, FiniteSetTheorems, FunctionTheorems, SequenceTheorems, TLAPS

-----------------------------------------------------------------------------
(* Sequences and numbers.                                                  *)

(* Max of two numbers.                                                     *)
LEMMA MaxProperties ==
  ASSUME NEW a \in Int, NEW b \in Int
  PROVE  Max({a, b}) = IF a >= b THEN a ELSE b
<1>1. \A x \in {a, b} : (\A y \in {a, b} : x >= y) => x = IF a >= b THEN a ELSE b
  OBVIOUS
<1>2. \E x \in {a, b} : \A y \in {a, b} : x >= y
  OBVIOUS
<1>3. QED
  BY <1>1, <1>2 DEF Max

(* Min of two numbers.                                                     *)
LEMMA MinOfTwo ==
  ASSUME NEW a \in Int, NEW b \in Int
  PROVE  Min({a, b}) = IF a <= b THEN a ELSE b
<1>1. \A x \in {a, b} : (\A y \in {a, b} : x <= y) => x = IF a <= b THEN a ELSE b
  OBVIOUS
<1>2. \E x \in {a, b} : \A y \in {a, b} : x <= y
  OBVIOUS
<1>3. QED
  BY <1>1, <1>2 DEF Min

(* What Range collects, by place.                                           *)
LEMMA InRange ==
  ASSUME NEW S, NEW s \in Seq(S), NEW v
  PROVE  v \in Range(s) <=> \E i \in 1..Len(s) : s[i] = v
  BY LenProperties DEF Range

(* An element put before a sequence.                                       *)
LEMMA PushProperties ==
  ASSUME NEW S, NEW s \in Seq(S), NEW e \in S
  PROVE  /\ <<e>> \o s \in Seq(S) /\ <<e>> \o s # <<>>
         /\ Head(<<e>> \o s) = e /\ Tail(<<e>> \o s) = s
<1>1. <<e>> \in Seq(S) /\ Len(<<e>>) = 1 /\ <<e>>[1] = e
  OBVIOUS
<1>2. /\ <<e>> \o s \in Seq(S) /\ Len(<<e>> \o s) = 1 + Len(s)
      /\ \A i \in 1..(1 + Len(s)) : (<<e>> \o s)[i] = IF i <= 1 THEN <<e>>[i] ELSE s[i - 1]
  BY <1>1, ConcatProperties
<1>3. Len(s) \in Nat /\ 1 \in 1..(1 + Len(s))
  BY LenProperties
<1>4. <<e>> \o s # <<>>
  BY <1>2, <1>3, EmptySeq
<1>5. (<<e>> \o s)[1] = e
  BY <1>1, <1>2, <1>3
<1> DEFINE q == <<e>> \o s
<1>6. Head(q) = q[1]
  <2> HIDE DEF q
  <2> QED OBVIOUS
<1>7. Tail(q) = s
  <2>1. q \in Seq(S) /\ q # <<>> /\ Len(q) = 1 + Len(s)
    BY <1>2, <1>4
  <2>2. /\ Tail(q) \in Seq(S) /\ Len(Tail(q)) = Len(q) - 1
        /\ \A i \in 1..Len(Tail(q)) : Tail(q)[i] = q[i + 1]
    <3> HIDE DEF q
    <3> QED BY <2>1, HeadTailProperties
  <2>3. Len(Tail(q)) = Len(s)
    BY <1>3, <2>1, <2>2
  <2>4. ASSUME NEW i \in 1..Len(s) PROVE q[i + 1] = s[i]
    <3>1. i + 1 \in 1..(1 + Len(s)) /\ ~(i + 1 <= 1) /\ (i + 1) - 1 = i
      BY <1>3
    <3>2. QED
      BY <1>2, <3>1
  <2>5. \A i \in 1..Len(Tail(q)) : Tail(q)[i] = s[i]
    BY <2>2, <2>3, <2>4
  <2>6. QED
    <3> HIDE DEF q
    <3> QED BY <2>2, <2>3, <2>5, SeqEqual
<1>8. QED
  BY <1>2, <1>4, <1>5, <1>6, <1>7

(* The elements of a sequence are the first and those after it.            *)
LEMMA HeadAndTail ==
  ASSUME NEW S, NEW s \in Seq(S), s # <<>>
  PROVE  /\ Head(s) \in S /\ Tail(s) \in Seq(S) /\ 1 \in 1..Len(s) /\ s[1] = Head(s)
         /\ \A u : u \in Range(s) <=> u = Head(s) \/ u \in Range(Tail(s))
         /\ \A i \in 1..Len(Tail(s)) : i + 1 \in 1..Len(s) /\ Tail(s)[i] = s[i + 1]
<1>1. /\ Head(s) \in S /\ Tail(s) \in Seq(S) /\ Len(Tail(s)) = Len(s) - 1
      /\ \A i \in 1..Len(Tail(s)) : Tail(s)[i] = s[i + 1]
  BY HeadTailProperties
<1>2. Len(s) \in Nat \ {0}
  BY EmptySeq
<1>3. 1 \in 1..Len(s) /\ s[1] = Head(s)
  BY <1>2
<1>4. \A i \in 1..Len(Tail(s)) : i + 1 \in 1..Len(s)
  BY <1>1, <1>2
<1>5. \A u : u \in Range(s) <=> \E i \in 1..Len(s) : s[i] = u
  BY InRange
<1>6. \A u : u \in Range(Tail(s)) <=> \E i \in 1..Len(Tail(s)) : Tail(s)[i] = u
  BY <1>1, InRange
<1>7. ASSUME NEW u, u \in Range(s), u # Head(s) PROVE u \in Range(Tail(s))
  <2>1. PICK i \in 1..Len(s) : s[i] = u /\ i # 1
    BY <1>3, <1>5, <1>7
  <2>2. i - 1 \in 1..Len(Tail(s)) /\ (i - 1) + 1 = i
    BY <1>1, <1>2, <2>1
  <2>3. Tail(s)[i - 1] = u
    BY <1>1, <2>1, <2>2
  <2>4. QED
    BY <1>6, <2>2, <2>3
<1>8. ASSUME NEW u, u \in Range(Tail(s)) PROVE u \in Range(s)
  <2>1. PICK i \in 1..Len(Tail(s)) : Tail(s)[i] = u
    BY <1>6, <1>8
  <2>2. s[i + 1] = u /\ i + 1 \in 1..Len(s)
    BY <1>1, <1>4, <2>1
  <2>3. QED
    BY <1>5, <2>2
<1>9. Head(s) \in Range(s)
  BY <1>3, <1>5
<1>10. QED
  BY <1>1, <1>3, <1>4, <1>7, <1>8, <1>9
-----------------------------------------------------------------------------
(* The inductive invariant.                                                *)

CacheType ==
  [res : [Resources -> ResourceType], map : [Urls -> Resources \cup {None}],
   live : Int, dead : Int]

(* What an object counts for in m_liveSize and in m_deadSize.              *)
liveOf(x) == IF x.inCache /\ x.clients # {} THEN size(x) ELSE 0
deadOf(x) == IF x.inCache /\ x.clients = {} THEN size(x) ELSE 0

Units == 1..(Whole + Decoded)
LiveBytes(c) == {p \in Resources \X Units : p[2] <= liveOf(c.res[p[1]])}
DeadBytes(c) == {p \in Resources \X Units : p[2] <= deadOf(c.res[p[1]])}
Exact(c) == c.live = Cardinality(LiveBytes(c)) /\ c.dead = Cardinality(DeadBytes(c))

(* An object the cache has made but nobody was given yet.                  *)
Untouched(x) ==
  /\ x.clients = {} /\ x.handles = {} /\ x.enc = 0 /\ x.dec = 0 /\ x.preload = 0
  /\ x.reval = None /\ ~x.isReval

(* One object: its list, its handles, and that it is deleted when it may.  *)
Listed(x) ==
  /\ x.queue = IF x.inCache /\ x.access > 0 THEN lruIndex(x) ELSE None
  /\ x.listed => x.inCache /\ x.clients # {} /\ x.dec > 0
Formed(x) ==
  /\ x.life # "alive" => x \in {Unborn, Gone}
  /\ Listed(x)
  /\ x.inCache /\ x.access = 0 => Untouched(x)
  /\ x.isReval => x.access > 0 /\ x.reval = None
  /\ x.clients \subseteq x.handles
Sound(x) == Formed(x) /\ (x.life = "alive" /\ canDelete(x) => x.inCache)
AllSound(c) == \A r \in Resources : Sound(c.res[r])

Mapped(c) ==
  \A u \in Urls : c.map[u] # None =>
    LET x == c.res[c.map[u]] IN x.inCache /\ x.access > 0 /\ x.url = u

(* An object is revalidated by one other, and lives as long.               *)
Revalidates(c) ==
  \A n \in Resources : c.res[n].reval # None =>
    /\ c.res[c.res[n].reval].life = "alive" /\ c.res[c.res[n].reval].isReval
    /\ \A m \in Resources : c.res[m].reval = c.res[n].reval => m = n

OneHandle(c) ==
  \A r, q \in Resources : \A h \in Holders :
    h \in c.res[r].handles /\ h \in c.res[q].handles => r = q

Inv(c) ==
  c \in CacheType /\ Exact(c) /\ AllSound(c) /\ Mapped(c) /\ Revalidates(c) /\ OneHandle(c)

(* The methods in progress.                                                *)
Free(c, h) == \A r \in Resources : h \notin c.res[r].handles
Evictable(x) == x.inCache /\ x.clients = {} /\ x.access > 0 /\ x.preload = 0
Delivers(f) == f.op = "lookup" \/ (f.op = "load" /\ f.new)

(* The methods that have the request of r deleted when they are through.   *)
Ending(f, r) ==
  \/ f.op = "switch" /\ f.n = r
  \/ f.op = "notify" /\ f.then # "return" /\ f.r = r

FrameOK(f, c) ==
  /\ Delivers(f) => Free(c, f.h)
  /\ f.op \in {"load", "release", "notify"} => c.res[f.r].life # "unborn"
  /\ f.op = "load" /\ f.new /\ c.res[f.r].life = "alive" =>
       c.res[f.r].inCache /\ c.res[f.r].access = 0 /\ c.res[f.r].url = f.u
  /\ f.op = "release" => f.h \notin c.res[f.r].clients /\ f.h \in c.res[f.r].handles
  /\ \A q \in Resources : Ending(f, q) => c.res[q].request = "ending"
  /\ f.op = "switch" => /\ c.res[f.n].reval = f.r
                        /\ f.todo \subseteq c.res[f.r].handles
                        /\ f.todo \cap c.res[f.r].clients = {}
  /\ f.op = "clear" => f.todo # {} /\ \A r \in f.todo : c.res[r].preload > 0
  /\ f.op = "prune" /\ f.pass # "live" =>
       \A r \in Resources : Evictable(c.res[r]) => c.res[r].queue <= f.i
FramesOK(s, c) == \A f \in Range(s) : FrameOK(f, c)

Apart(f, g) ==
  /\ Delivers(f) /\ Delivers(g) => f.h # g.h
  /\ f.op = "load" /\ f.new /\ g.op = "load" /\ g.new => f.r # g.r
  /\ \A q \in Resources : ~(Ending(f, q) /\ Ending(g, q))
  /\ f.op = "release" /\ g.op = "switch" => f.r # g.r \/ f.h \notin g.todo

(* Under a method: what f may be found to have called.                     *)
Under(f, g) ==
  /\ Apart(f, g) /\ Apart(g, f)
  /\ g.op \notin {"prune", "clear"}
  /\ g.op = "release" => f.op = "prune"
Shape(s) ==
  /\ \A f \in Range(s) : f.op # "stop"
  /\ \A i, j \in 1..Len(s) : i < j => Under(s[i], s[j])

(* Objects that nobody was given yet are still to be given, clients of a   *)
(* loaded object are still to be told, and the object that took the place  *)
(* of another one again has the clients moved; but for the objects of E.   *)
Loaded(s, c, E) ==
  \A r \in Resources \ E : c.res[r].inCache /\ c.res[r].access = 0 =>
    \E f \in Range(s) : f.op = "load" /\ f.new /\ f.r = r
Switching(s, c, E) ==
  \A n \in Resources \ E : c.res[n].reval # None /\ c.res[c.res[n].reval].inCache =>
    \E f \in Range(s) : f.op = "switch" /\ f.n = n
Heard(s, c, t) ==
  \A r \in Resources : \A h \in c.res[r].clients : ~c.res[r].loading =>
    h \in t \/ \E f \in Range(s) : f.op = "notify" /\ f.r = r /\ h \in f.todo

Running(c, t, s, E) ==
  /\ Inv(c) /\ t \subseteq Holders /\ s \in Seq(Frames)
  /\ FramesOK(s, c) /\ Shape(s)
  /\ Loaded(s, c, E) /\ Switching(s, c, E) /\ Heard(s, c, t)

Stopped(s) == s # <<>> /\ Head(s).op = "stop"

(* All that is left in order when a deleted object has been written to.    *)
Books(c) == c \in CacheType /\ Exact(c) /\ \A r \in Resources : Listed(c.res[r])

IInv ==
  \/ Running(cache, told, stack, {})
  \/ /\ Stopped(stack) /\ stack \in Seq(Frames) /\ told \subseteq Holders
     /\ Books(cache) /\ ReferencedIsAlive

-----------------------------------------------------------------------------
(* Constants, and the LRU list of a size.                                  *)

(* None is neither an object nor a URL, and capacities are in order.       *)
LEMMA Constants ==
  /\ None \notin Resources /\ None \notin Urls /\ Preload \notin Holders
  /\ IsFiniteSet(Resources) /\ MaxAccess \in Nat /\ MaxAccess >= 1
  /\ Capacity \in Nat /\ MinDeadCapacity \in Nat /\ MaxDeadCapacity \in Nat
  /\ MinDeadCapacity <= MaxDeadCapacity /\ MaxDeadCapacity <= Capacity
  BY CacheAssumption

(* fastLog2 counts, so it is a number, and grows with what it is asked.    *)
LEMMA FastLogGrows ==
  ASSUME NEW m \in Int, NEW n \in Int, m <= n
  PROVE  fastLog2(m) \in Nat /\ fastLog2(n) \in Nat /\ fastLog2(m) <= fastLog2(n)
<1> DEFINE S(k) == {p \in PowersOfTwo : p < k}
<1>1. IsFiniteSet(PowersOfTwo)
  <2>1. PowersOfTwo = {1} \cup {2}
    BY DEF PowersOfTwo
  <2>2. IsFiniteSet({1} \cup {2})
    BY FS_Singleton, FS_AddElement
  <2>3. QED
    BY <2>1, <2>2
<1>2. IsFiniteSet(S(m)) /\ IsFiniteSet(S(n))
  BY <1>1, FS_Subset
<1>3. S(m) \subseteq S(n)
  BY DEF PowersOfTwo
<1>4. /\ Cardinality(S(m)) \in Nat /\ Cardinality(S(n)) \in Nat
      /\ Cardinality(S(m)) <= Cardinality(S(n))
  <2> HIDE DEF S
  <2> QED BY <1>2, <1>3, FS_CardinalityType, FS_Subset
<1>5. QED
  BY <1>4 DEF fastLog2

(* A part of a size is no larger, and keeps the order of the sizes.        *)
LEMMA PartOfSize ==
  ASSUME NEW m \in 0..4, NEW n \in 0..4, m <= n, NEW k \in Nat, k >= 1
  PROVE  m \div k \in 0..4 /\ n \div k \in 0..4 /\ m \div k <= n \div k
<1>1. CASE k = 1
  BY <1>1
<1>2. CASE k = 2
  BY <1>2
<1>3. CASE k = 3
  BY <1>3
<1>4. CASE k = 4
  BY <1>4
<1>5. CASE k > 4
  <2>1. m \div k = 0 /\ n \div k = 0
    BY <1>5
  <2>2. QED
    BY <2>1
<1>6. QED
  BY <1>1, <1>2, <1>3, <1>4, <1>5

(* The sizes an object may have.                                           *)
LEMMA SizeRange ==
  ASSUME NEW x \in ResourceType
  PROVE  size(x) \in 0..4 /\ (Whole + Decoded) = 4 /\ x.enc \in 0..2 /\ x.dec \in 0..2
  BY DEF ResourceType, size, Whole, Decoded

(* The list of an object exists, and is no later one when it shrinks.      *)
LEMMA IndexGrows ==
  ASSUME NEW x \in ResourceType, NEW y \in ResourceType, x.access = y.access,
         size(x) <= size(y)
  PROVE  /\ lruIndex(x) \in 0..MaxIndex /\ lruIndex(y) \in 0..MaxIndex
         /\ lruIndex(x) <= lruIndex(y)
<1> DEFINE k == Max({x.access, 1})
<1>1. x.access \in Nat
  BY DEF ResourceType
<1>2. k \in Nat /\ k >= 1
  BY <1>1, MaxProperties
<1>3. size(x) \in 0..4 /\ size(y) \in 0..4
  BY SizeRange
<1>4. size(x) \div k \in 0..4 /\ size(y) \div k \in 0..4 /\ size(x) \div k <= size(y) \div k
  <2> HIDE DEF k
  <2> QED BY <1>2, <1>3, PartOfSize
<1>5. /\ lruIndex(x) = fastLog2(size(x) \div k) /\ lruIndex(y) = fastLog2(size(y) \div k)
      /\ MaxIndex = fastLog2(4)
  BY DEF lruIndex, MaxIndex, Whole, Decoded
<1> HIDE DEF k
<1> DEFINE p == size(x) \div k
           q == size(y) \div k
<1>6. p \in Int /\ q \in Int /\ p <= q /\ q <= 4
  BY <1>4
<1> HIDE DEF p, q
<1>7. fastLog2(p) \in Nat /\ fastLog2(q) \in Nat /\ fastLog2(p) <= fastLog2(q)
  BY <1>6, FastLogGrows
<1>8. fastLog2(4) \in Nat /\ fastLog2(q) <= fastLog2(4)
  BY <1>6, FastLogGrows
<1>9. QED
  BY <1>5, <1>7, <1>8 DEF p, q

(* An index of a list is a number.                                         *)
LEMMA IndexRange ==
  /\ MaxIndex \in Nat
  /\ \A x \in ResourceType : lruIndex(x) \in 0..MaxIndex
<1>1. MaxIndex = fastLog2(4) /\ 4 \in Int
  BY DEF MaxIndex, Whole, Decoded
<1>2. fastLog2(4) \in Nat
  BY <1>1, FastLogGrows
<1>3. ASSUME NEW x \in ResourceType PROVE lruIndex(x) \in 0..MaxIndex
  <2>1. size(x) <= size(x)
    BY SizeRange
  <2>2. QED
    BY <2>1, IndexGrows
<1>4. QED
  BY <1>1, <1>2, <1>3

(* What the dead objects may keep, and the size to prune to.               *)
LEMMA Capacities ==
  ASSUME NEW c, c.live \in Int
  PROVE  /\ deadCapacity(c) \in 0..Capacity /\ liveCapacity(c) \in 0..Capacity
         /\ targetSize(deadCapacity(c)) \in 0..Capacity
         /\ targetSize(liveCapacity(c)) \in 0..Capacity
<1> DEFINE a == Min({c.live, Capacity})
           b == Max({MinDeadCapacity, Capacity - a})
           d == Min({MaxDeadCapacity, b})
<1> USE Constants
<1>1. a \in Int /\ a <= Capacity
  BY MinOfTwo
<1> HIDE DEF a
<1>2. b \in Int /\ b >= MinDeadCapacity /\ b >= Capacity - a
  BY <1>1, MaxProperties
<1> HIDE DEF b
<1>3. d \in 0..Capacity
  BY <1>2, MinOfTwo
<1>4. deadCapacity(c) = d
  BY DEF deadCapacity, d, b, a
<1> HIDE DEF d
<1>5. Capacity - d \in 0..Capacity
  BY <1>3
<1>6. ASSUME NEW k \in 0..Capacity PROVE (k * 95) \div 100 \in 0..Capacity
  OBVIOUS
<1>7. QED
  BY <1>3, <1>4, <1>5, <1>6 DEF liveCapacity, targetSize
-----------------------------------------------------------------------------
(* The totals.                                                             *)

(* The bytes of S, counted for each object.                                *)
Counted(n) == {p \in Resources \X Units : p[2] <= n[p[1]]}

(* When one object counts for something else, the sum moves by as much.    *)
LEMMA OneCountChanges ==
  ASSUME NEW n \in [Resources -> 0..4], NEW m \in [Resources -> 0..4], NEW r \in Resources,
         \A q \in Resources : q # r => m[q] = n[q]
  PROVE  /\ Cardinality(Counted(n)) \in Nat
         /\ Cardinality(Counted(m)) = Cardinality(Counted(n)) + m[r] - n[r]
<1> DEFINE Own(k) == {r} \X (1..k)
           Rest == {p \in Resources \X Units : p[1] # r /\ p[2] <= n[p[1]]}
<1>1. Units = 1..4
  BY DEF Units, Whole, Decoded
<1>2. IsFiniteSet(Resources \X Units)
  <2>1. IsFiniteSet(Units)
    <3>1. 1 \in Int /\ 4 \in Int
      OBVIOUS
    <3>2. IsFiniteSet(1..4)
      BY <3>1, FS_Interval
    <3>3. QED
      BY <1>1, <3>2
  <2>2. QED
    BY <2>1, Constants, FS_Product
<1>3. IsFiniteSet(Rest) /\ Cardinality(Rest) \in Nat
  <2>1. Rest \subseteq Resources \X Units
    OBVIOUS
  <2> HIDE DEF Rest
  <2>2. QED
    BY <1>2, <2>1, FS_Subset, FS_CardinalityType
<1>4. ASSUME NEW k \in 0..4
      PROVE  IsFiniteSet(Own(k)) /\ Cardinality(Own(k)) = k /\ Own(k) \cap Rest = {}
  <2>1. IsFiniteSet(1..k) /\ Cardinality(1..k) = k
    <3>1. 1 \in Int /\ k \in Int /\ (1 > k => k = 0) /\ k - 1 + 1 = k
      OBVIOUS
    <3>2. QED
      BY <3>1, FS_Interval
  <2>2. IsFiniteSet({r}) /\ Cardinality({r}) = 1
    BY FS_Singleton
  <2>3. IsFiniteSet({r} \X (1..k)) /\ Cardinality({r} \X (1..k)) = k
    <3>1. /\ IsFiniteSet({r} \X (1..k))
          /\ Cardinality({r} \X (1..k)) = Cardinality({r}) * Cardinality(1..k)
      BY <2>1, <2>2, FS_Product
    <3>2. 1 * k = k
      OBVIOUS
    <3>3. QED
      BY <2>1, <2>2, <3>1, <3>2
  <2>4. QED
    BY <2>3
<1>5. ASSUME NEW f \in [Resources -> 0..4], \A q \in Resources : q # r => f[q] = n[q]
      PROVE  Cardinality(Counted(f)) = Cardinality(Rest) + f[r]
  <2>1. f[r] \in 0..4
    OBVIOUS
  <2>2. Counted(f) = Rest \cup Own(f[r])
    <3>1. ASSUME NEW p \in Counted(f) PROVE p \in Rest \cup Own(f[r])
      <4>1. p \in Resources \X Units /\ p[2] <= f[p[1]]
        BY DEF Counted
      <4>2. p = <<p[1], p[2]>> /\ p[1] \in Resources /\ p[2] \in 1..4
        BY <1>1, <4>1
      <4>3. CASE p[1] = r
        BY <4>1, <4>2, <4>3, <2>1
      <4>4. CASE p[1] # r
        BY <4>1, <4>2, <4>4, <1>5
      <4>5. QED
        BY <4>3, <4>4
    <3>2. ASSUME NEW p \in Rest PROVE p \in Counted(f)
      BY <1>5, <3>2 DEF Counted
    <3>3. ASSUME NEW p \in Own(f[r]) PROVE p \in Counted(f)
      <4>1. p = <<r, p[2]>> /\ p[2] \in 1..f[r] /\ p[1] = r
        BY <3>3
      <4>2. p \in Resources \X Units
        BY <1>1, <2>1, <4>1
      <4>3. QED
        BY <2>1, <4>1, <4>2 DEF Counted
    <3>4. QED
      BY <3>1, <3>2, <3>3
  <2>3. IsFiniteSet(Own(f[r])) /\ Cardinality(Own(f[r])) = f[r] /\ Own(f[r]) \cap Rest = {}
    BY <1>4, <2>1
  <2> HIDE DEF Own, Rest
  <2>4. Cardinality(Rest \cup Own(f[r])) = Cardinality(Rest) + Cardinality(Own(f[r])) - 0
    <3>1. Cardinality(Rest \cap Own(f[r])) = 0
      BY <2>3, FS_EmptySet
    <3>2. QED
      BY <1>3, <2>3, <3>1, FS_Union
  <2>5. QED
    BY <1>3, <2>1, <2>2, <2>3, <2>4
<1> HIDE DEF Own, Rest
<1>6. Cardinality(Counted(n)) = Cardinality(Rest) + n[r]
  BY <1>5
<1>7. Cardinality(Counted(m)) = Cardinality(Rest) + m[r]
  BY <1>5
<1>8. n[r] \in 0..4 /\ m[r] \in 0..4
  OBVIOUS
<1>9. QED
  BY <1>3, <1>6, <1>7, <1>8

(* What an object counts for is one of the sizes.                          *)
LEMMA CountRange ==
  ASSUME NEW x \in ResourceType
  PROVE  liveOf(x) \in 0..4 /\ deadOf(x) \in 0..4
  BY SizeRange DEF liveOf, deadOf

(* The totals are exact again when one object becomes z and they move by   *)
(* what it counts for.                                                     *)
Becomes(c, d, r, z) ==
  /\ d \in CacheType
  /\ d.res = [c.res EXCEPT ![r] = z]
  /\ d.live = c.live + liveOf(z) - liveOf(c.res[r])
  /\ d.dead = c.dead + deadOf(z) - deadOf(c.res[r])

(* The books stay exact when an object and its sizes change together.      *)
LEMMA ExactKept ==
  ASSUME NEW c \in CacheType, NEW d, NEW r \in Resources, NEW z \in ResourceType,
         Exact(c), Becomes(c, d, r, z)
  PROVE  Exact(d)
<1>1. c.res \in [Resources -> ResourceType] /\ d.res \in [Resources -> ResourceType]
  BY DEF Becomes, CacheType
<1>2. /\ \A q \in Resources : q # r => d.res[q] = c.res[q]
      /\ d.res[r] = z
  BY <1>1 DEF Becomes
<1>3. /\ LiveBytes(c) = Counted([q \in Resources |-> liveOf(c.res[q])])
      /\ LiveBytes(d) = Counted([q \in Resources |-> liveOf(d.res[q])])
  BY DEF LiveBytes, Counted
<1>4. /\ DeadBytes(c) = Counted([q \in Resources |-> deadOf(c.res[q])])
      /\ DeadBytes(d) = Counted([q \in Resources |-> deadOf(d.res[q])])
  BY DEF DeadBytes, Counted
<1>5. Cardinality(LiveBytes(d)) = Cardinality(LiveBytes(c)) + liveOf(z) - liveOf(c.res[r])
  <2> DEFINE n == [q \in Resources |-> liveOf(c.res[q])]
             m == [q \in Resources |-> liveOf(d.res[q])]
  <2>1. n \in [Resources -> 0..4] /\ m \in [Resources -> 0..4]
    BY <1>1, CountRange
  <2>2. /\ \A q \in Resources : q # r => m[q] = n[q]
        /\ m[r] = liveOf(z) /\ n[r] = liveOf(c.res[r])
    BY <1>2
  <2> HIDE DEF n, m
  <2>3. Cardinality(Counted(m)) = Cardinality(Counted(n)) + m[r] - n[r]
    BY <2>1, <2>2, OneCountChanges
  <2>4. QED
    BY <1>3, <2>2, <2>3 DEF n, m
<1>6. Cardinality(DeadBytes(d)) = Cardinality(DeadBytes(c)) + deadOf(z) - deadOf(c.res[r])
  <2> DEFINE n == [q \in Resources |-> deadOf(c.res[q])]
             m == [q \in Resources |-> deadOf(d.res[q])]
  <2>1. n \in [Resources -> 0..4] /\ m \in [Resources -> 0..4]
    BY <1>1, CountRange
  <2>2. /\ \A q \in Resources : q # r => m[q] = n[q]
        /\ m[r] = deadOf(z) /\ n[r] = deadOf(c.res[r])
    BY <1>2
  <2> HIDE DEF n, m
  <2>3. Cardinality(Counted(m)) = Cardinality(Counted(n)) + m[r] - n[r]
    BY <2>1, <2>2, OneCountChanges
  <2>4. QED
    BY <1>4, <2>2, <2>3 DEF n, m
<1>7. QED
  BY <1>5, <1>6 DEF Exact, Becomes

(* Totals that are exact are numbers.                                      *)
LEMMA TotalsAreNumbers ==
  ASSUME NEW c \in CacheType, Exact(c)
  PROVE  c.live \in Nat /\ c.dead \in Nat
<1>1. \A q \in Resources : liveOf(c.res[q]) \in 0..4 /\ deadOf(c.res[q]) \in 0..4
  BY CountRange DEF CacheType
<1>2. LiveBytes(c) = Counted([q \in Resources |-> liveOf(c.res[q])])
  BY DEF LiveBytes, Counted
<1>3. DeadBytes(c) = Counted([q \in Resources |-> deadOf(c.res[q])])
  BY DEF DeadBytes, Counted
<1>4. IsFiniteSet(LiveBytes(c)) /\ IsFiniteSet(DeadBytes(c))
  <2>1. Units = 1..4
    BY DEF Units, Whole, Decoded
  <2>2. IsFiniteSet(Units)
    <3>1. 1 \in Int /\ 4 \in Int
      OBVIOUS
    <3>2. IsFiniteSet(1..4)
      BY <3>1, FS_Interval
    <3>3. QED
      BY <2>1, <3>2
  <2>3. IsFiniteSet(Resources \X Units)
    BY <2>2, Constants, FS_Product
  <2>4. LiveBytes(c) \subseteq Resources \X Units /\ DeadBytes(c) \subseteq Resources \X Units
    BY DEF LiveBytes, DeadBytes
  <2>5. QED
    BY <2>3, <2>4, FS_Subset
<1>5. QED
  BY <1>4, FS_CardinalityType DEF Exact
-----------------------------------------------------------------------------
(* The methods in progress, as a stack.                                    *)

(* A method put on the stack.                                              *)
LEMMA ShapePush ==
  ASSUME NEW s \in Seq(Frames), Shape(s), NEW f \in Frames, f.op # "stop",
         \A g \in Range(s) : Under(f, g)
  PROVE  Shape(<<f>> \o s)
<1> DEFINE p == <<f>> \o s
<1>1. p \in Seq(Frames) /\ p # <<>> /\ Head(p) = f /\ Tail(p) = s
  BY PushProperties
<1>2. /\ \A g \in Range(p) : g = f \/ g \in Range(s)
      /\ \A i \in 1..Len(s) : i + 1 \in 1..Len(p) /\ s[i] = p[i + 1]
      /\ p[1] = f /\ 1 \in 1..Len(p)
  <2> HIDE DEF p
  <2>1. /\ \A g : g \in Range(p) <=> g = Head(p) \/ g \in Range(Tail(p))
        /\ \A i \in 1..Len(Tail(p)) : i + 1 \in 1..Len(p) /\ Tail(p)[i] = p[i + 1]
        /\ p[1] = Head(p) /\ 1 \in 1..Len(p)
    BY <1>1, HeadAndTail
  <2>2. QED
    BY <1>1, <2>1
<1>3. Len(p) = Len(s) + 1 /\ Len(s) \in Nat
  BY LenProperties
<1> HIDE DEF p
<1>4. \A g \in Range(p) : g.op # "stop"
  BY <1>2 DEF Shape
<1>5. ASSUME NEW i \in 1..Len(p), NEW j \in 1..Len(p), i < j PROVE Under(p[i], p[j])
  <2>1. j - 1 \in 1..Len(s) /\ (j - 1) + 1 = j
    BY <1>3, <1>5
  <2>2. p[j] = s[j - 1]
    BY <1>2, <2>1
  <2>3. CASE i = 1
    <3>1. s[j - 1] \in Range(s)
      BY <2>1, InRange
    <3>2. QED
      BY <1>2, <2>2, <2>3, <3>1
  <2>4. CASE i # 1
    <3>1. i - 1 \in 1..Len(s) /\ (i - 1) + 1 = i /\ i - 1 < j - 1
      BY <1>3, <1>5, <2>4
    <3>2. p[i] = s[i - 1]
      BY <1>2, <3>1
    <3>3. Under(s[i - 1], s[j - 1])
      BY <2>1, <3>1 DEF Shape
    <3>4. QED
      BY <2>2, <3>2, <3>3
  <2>5. QED
    BY <2>3, <2>4
<1>6. QED
  BY <1>4, <1>5 DEF Shape, p

(* The method on top returns.                                              *)
LEMMA ShapeTail ==
  ASSUME NEW s \in Seq(Frames), Shape(s), s # <<>>
  PROVE  /\ Shape(Tail(s)) /\ Head(s).op # "stop"
         /\ \A g \in Range(Tail(s)) : Under(Head(s), g)
<1>1. /\ Tail(s) \in Seq(Frames) /\ 1 \in 1..Len(s) /\ s[1] = Head(s)
      /\ \A u : u \in Range(s) <=> u = Head(s) \/ u \in Range(Tail(s))
      /\ \A i \in 1..Len(Tail(s)) : i + 1 \in 1..Len(s) /\ Tail(s)[i] = s[i + 1]
  BY HeadAndTail
<1>2. Len(Tail(s)) \in Nat
  BY <1>1, LenProperties
<1>3. ASSUME NEW g \in Range(Tail(s)) PROVE Under(Head(s), g)
  <2>1. PICK i \in 1..Len(Tail(s)) : Tail(s)[i] = g
    BY <1>1, InRange
  <2>2. i + 1 \in 1..Len(s) /\ g = s[i + 1] /\ 1 < i + 1
    BY <1>1, <1>2, <2>1
  <2>3. QED
    BY <1>1, <2>2 DEF Shape
<1>4. ASSUME NEW i \in 1..Len(Tail(s)), NEW j \in 1..Len(Tail(s)), i < j
      PROVE  Under(Tail(s)[i], Tail(s)[j])
  <2>1. i + 1 \in 1..Len(s) /\ j + 1 \in 1..Len(s) /\ i + 1 < j + 1
    BY <1>1, <1>2, <1>4
  <2>2. Tail(s)[i] = s[i + 1] /\ Tail(s)[j] = s[j + 1]
    BY <1>1
  <2>3. QED
    BY <2>1, <2>2 DEF Shape
<1>5. (\A g \in Range(Tail(s)) : g.op # "stop") /\ Head(s).op # "stop"
  BY <1>1 DEF Shape
<1>6. QED
  BY <1>3, <1>4, <1>5 DEF Shape

(* No method in progress.                                                  *)
LEMMA ShapeEmpty ==
  Shape(<<>>) /\ Range(<<>>) = {} /\ <<>> \in Seq(Frames)
<1>1. <<>> \in Seq(Frames) /\ Len(<<>>) = 0
  BY EmptySeq
<1>2. \A g : g \in Range(<<>>) <=> \E i \in 1..Len(<<>>) : <<>>[i] = g
  BY <1>1, InRange
<1>3. Range(<<>>) = {}
  BY <1>1, <1>2
<1>4. QED
  BY <1>1, <1>3 DEF Shape

(* What a method and its call have, by kind.                               *)
LEMMA FrameTypes ==
  ASSUME NEW f \in Frames
  PROVE  /\ f.op \in {"lookup", "load", "clear", "release", "notify", "switch", "stop", "prune"}
         /\ f.op = "lookup" => f.h \in Requesters /\ f.u \in Urls
         /\ f.op = "load" => /\ f.r \in Resources /\ f.h \in Requesters /\ f.u \in Urls
                             /\ f.new \in BOOLEAN
         /\ f.op = "clear" => f.todo \subseteq Resources
         /\ f.op = "release" => f.h \in Holders /\ f.r \in Resources
         /\ f.op = "notify" => /\ f.r \in Resources /\ f.todo \subseteq Holders
                               /\ f.called \in BOOLEAN
                               /\ f.then \in {"return", "refused", "delete request", "broken", "remove"}
         /\ f.op = "switch" => /\ f.r \in Resources /\ f.n \in Resources
                               /\ f.todo \subseteq Holders /\ f.called \in BOOLEAN
         /\ f.op = "prune" => /\ f.pass \in {"flush", "evict", "live"}
                              /\ f.i \in 0..MaxIndex /\ f.target \in 0..Capacity
  BY DEF Frames, Requesters
-----------------------------------------------------------------------------
(* One object changes.                                                     *)

(* deleteIfPossible, on the object.                                        *)
settle(x) == IF canDelete(x) /\ ~x.inCache THEN Gone ELSE x

(* What keeps the objects in order when r becomes x.                       *)
Fits(c, r, x) ==
  /\ Formed(x)
  /\ c.res[r].life # "unborn" => x.life # "unborn"
  /\ x.reval # None =>
       \/ x.reval = c.res[r].reval
       \/ /\ x.reval # r
          /\ c.res[x.reval].life = "alive" /\ c.res[x.reval].isReval
          /\ \A m \in Resources : c.res[m].reval # x.reval
  /\ \A n \in Resources : c.res[n].reval = r => x.life = "alive" /\ x.isReval
  /\ \A h \in x.handles : h \in c.res[r].handles \/ Free(c, h)

MapFits(c, d, r, x) ==
  \A u \in Urls :
    /\ d.map[u] \in {c.map[u], None, r}
    /\ d.map[u] = r => x.inCache /\ x.access > 0 /\ x.url = u

(* What keeps a method in progress in order when r becomes x.              *)
FrameFits(f, r, x) ==
  /\ Delivers(f) => f.h \notin x.handles
  /\ f.op = "load" /\ f.new /\ f.r = r /\ settle(x).life = "alive" =>
       x.inCache /\ x.access = 0 /\ x.url = f.u
  /\ f.op = "release" /\ f.r = r => f.h \notin x.clients /\ f.h \in x.handles
  /\ Ending(f, r) => x.request = "ending"
  /\ f.op = "switch" /\ f.n = r => x.reval = f.r
  /\ f.op = "switch" /\ f.r = r => f.todo \subseteq x.handles /\ f.todo \cap x.clients = {}
  /\ f.op = "clear" /\ r \in f.todo => x.preload > 0
  /\ f.op = "prune" /\ f.pass # "live" /\ Evictable(x) => x.queue <= f.i

(* What is still to be done for it.                                        *)
TodoFits(c, t, s, E, r, x) ==
  /\ x.inCache /\ x.access = 0 => (c.res[r].inCache /\ c.res[r].access = 0) \/ r \in E
  /\ x.inCache /\ ~c.res[r].inCache =>
       \/ \A n \in Resources \ E : c.res[n].reval # r
       \/ \E f \in Range(s) : f.op = "switch" /\ f.r = r
  /\ x.reval \notin {None, c.res[r].reval} => ~c.res[x.reval].inCache \/ r \in E
  /\ \A h \in x.clients : ~x.loading =>
       \/ h \in t
       \/ h \in c.res[r].clients /\ ~c.res[r].loading
       \/ \E f \in Range(s) : f.op = "notify" /\ f.r = r /\ h \in f.todo

(* The states of an object before it is made and after it is deleted.      *)
LEMMA NoObject ==
  /\ Unborn \in ResourceType /\ Gone \in ResourceType
  /\ \A x \in {Unborn, Gone} :
       /\ x.life # "alive" /\ x.inCache = FALSE /\ x.clients = {} /\ x.handles = {}
       /\ x.reval = None /\ x.isReval = FALSE /\ x.preload = 0 /\ x.request = "none"
       /\ x.queue = None /\ x.listed = FALSE /\ x.access = 0 /\ x.enc = 0 /\ x.dec = 0
       /\ liveOf(x) = 0 /\ deadOf(x) = 0 /\ x.loading = FALSE
  /\ Unborn.life = "unborn" /\ Gone.life = "deleted"
  /\ Sound(Unborn) /\ Sound(Gone)
<1>1. /\ \A x \in {Unborn, Gone} :
           /\ x.inCache = FALSE /\ x.clients = {} /\ x.handles = {}
           /\ x.reval = None /\ x.isReval = FALSE /\ x.preload = 0 /\ x.request = "none"
           /\ x.queue = None /\ x.listed = FALSE /\ x.access = 0 /\ x.enc = 0 /\ x.dec = 0
           /\ x.loading = FALSE
      /\ Unborn.life = "unborn" /\ Gone.life = "deleted"
  BY DEF Unborn, Gone
<1>2. Unborn \in ResourceType
  BY Constants DEF Unborn, ResourceType, Whole, Decoded
<1>3. Gone \in ResourceType
  BY <1>2 DEF Gone, ResourceType
<1>4. \A x \in {Unborn, Gone} : liveOf(x) = 0 /\ deadOf(x) = 0
  BY <1>1 DEF liveOf, deadOf
<1>5. \A x \in {Unborn, Gone} : Sound(x)
  <2> SUFFICES ASSUME NEW x \in {Unborn, Gone} PROVE Sound(x)
    OBVIOUS
  <2>1. Listed(x)
    BY <1>1 DEF Listed
  <2>2. x.life # "alive"
    BY <1>1
  <2>3. QED
    BY <1>1, <2>1, <2>2 DEF Sound, Formed
<1>6. QED
  BY <1>1, <1>2, <1>3, <1>4, <1>5

(* An object that may be deleted is.                                       *)
LEMMA SettleSound ==
  ASSUME NEW x \in ResourceType, Formed(x)
  PROVE  /\ settle(x) \in ResourceType /\ Sound(settle(x))
         /\ liveOf(settle(x)) = liveOf(x) /\ deadOf(settle(x)) = deadOf(x)
         /\ settle(x) = x \/ (settle(x) = Gone /\ canDelete(x) /\ ~x.inCache)
         /\ Sound(x) /\ x.life = "alive" => settle(x) = x
<1>1. CASE canDelete(x) /\ ~x.inCache
  <2>1. settle(x) = Gone
    BY <1>1 DEF settle
  <2>2. liveOf(x) = 0 /\ deadOf(x) = 0
    BY <1>1 DEF liveOf, deadOf
  <2>3. Gone \in ResourceType /\ Sound(Gone) /\ liveOf(Gone) = 0 /\ deadOf(Gone) = 0
    BY NoObject
  <2>4. Sound(x) /\ x.life = "alive" => FALSE
    BY <1>1 DEF Sound
  <2>5. QED
    BY <1>1, <2>1, <2>2, <2>3, <2>4
<1>2. CASE ~(canDelete(x) /\ ~x.inCache)
  <2>1. settle(x) = x
    BY <1>2 DEF settle
  <2>2. Sound(x)
    BY <1>2 DEF Sound
  <2>3. QED
    BY <2>1, <2>2
<1>3. QED
  BY <1>1, <1>2

(* The cache stays in order when one object changes as it may.             *)
LEMMA InvKept ==
  ASSUME NEW c, Inv(c), NEW d, NEW r \in Resources, NEW x \in ResourceType,
         Fits(c, r, x), Becomes(c, d, r, settle(x)), MapFits(c, d, r, x)
  PROVE  Inv(d)
<1> DEFINE z == settle(x)
<1>1. /\ z \in ResourceType /\ Sound(z)
      /\ z = x \/ (z = Gone /\ canDelete(x) /\ ~x.inCache)
  BY SettleSound DEF Fits
<1> HIDE DEF z
<1>2. /\ c \in CacheType /\ d \in CacheType /\ d.res = [c.res EXCEPT ![r] = z]
      /\ c.res \in [Resources -> ResourceType] /\ d.res \in [Resources -> ResourceType]
  BY DEF Inv, Becomes, CacheType, z
<1>3. d.res[r] = z /\ \A q \in Resources : q # r => d.res[q] = c.res[q]
  BY <1>2
<1>4. Exact(d)
  BY <1>1, <1>2, ExactKept DEF Inv, z
<1>5. AllSound(d)
  BY <1>1, <1>3 DEF Inv, AllSound
<1>6. Mapped(d)
  <2> SUFFICES ASSUME NEW u \in Urls, d.map[u] # None
               PROVE  /\ d.res[d.map[u]].inCache /\ d.res[d.map[u]].access > 0
                      /\ d.res[d.map[u]].url = u
    BY DEF Mapped
  <2>1. d.map[u] \in Resources
    BY <1>2 DEF CacheType
  <2>2. CASE d.map[u] = r
    <3>1. x.inCache /\ x.access > 0 /\ x.url = u
      BY <2>2 DEF MapFits
    <3>2. z = x
      BY <1>1, <3>1
    <3>3. QED
      BY <1>3, <2>2, <3>1, <3>2
  <2>3. CASE d.map[u] # r
    <3>1. d.map[u] = c.map[u]
      BY <2>3 DEF MapFits
    <3>2. /\ c.res[d.map[u]].inCache /\ c.res[d.map[u]].access > 0
          /\ c.res[d.map[u]].url = u
      BY <3>1 DEF Inv, Mapped
    <3>3. QED
      BY <1>3, <2>1, <2>3, <3>2
  <2>4. QED
    BY <2>2, <2>3
<1>7. Revalidates(d)
  <2>1. \A n \in Resources : c.res[n].reval # None =>
          /\ c.res[n].reval \in Resources
          /\ c.res[c.res[n].reval].life = "alive" /\ c.res[c.res[n].reval].isReval
          /\ \A m \in Resources : c.res[m].reval = c.res[n].reval => m = n
    BY <1>2 DEF Inv, Revalidates, CacheType, ResourceType
  <2>2. \A n \in Resources : c.res[n].reval = r => z = x /\ z.life = "alive" /\ z.isReval
    <3> SUFFICES ASSUME NEW n \in Resources, c.res[n].reval = r
                 PROVE  z = x /\ z.life = "alive" /\ z.isReval
      OBVIOUS
    <3>1. x.life = "alive" /\ x.isReval
      BY DEF Fits
    <3>2. ~canDelete(x)
      BY <3>1 DEF canDelete
    <3>3. QED
      BY <1>1, <3>1, <3>2
  <2>3. r # None
    BY Constants
  <2>4. c.res[r].reval # r
    <3>1. ASSUME c.res[r].reval = r PROVE FALSE
      <4>1. c.res[r].isReval
        BY <2>1, <2>3, <3>1
      <4>2. Sound(c.res[r])
        BY DEF Inv, AllSound
      <4>3. QED
        BY <2>3, <3>1, <4>1, <4>2 DEF Sound, Formed
    <3>2. QED
      BY <3>1
  <2>5. z.reval # None => x = z
    BY <1>1, NoObject
  <2> SUFFICES ASSUME NEW n \in Resources, d.res[n].reval # None
               PROVE  /\ d.res[d.res[n].reval].life = "alive" /\ d.res[d.res[n].reval].isReval
                      /\ \A m \in Resources : d.res[m].reval = d.res[n].reval => m = n
    BY DEF Revalidates
  <2> DEFINE q == d.res[n].reval
  <2>6. q \in Resources
    BY <1>2 DEF CacheType, ResourceType
  <2>7. CASE n # r
    <3>1. q = c.res[n].reval /\ q # None
      BY <1>3, <2>7
    <3>2. d.res[q].life = "alive" /\ d.res[q].isReval
      <4>1. CASE q = r
        BY <1>3, <2>2, <3>1, <4>1
      <4>2. CASE q # r
        BY <1>3, <2>1, <2>6, <3>1, <4>2
      <4>3. QED
        BY <4>1, <4>2
    <3>3. ASSUME NEW m \in Resources, d.res[m].reval = q PROVE m = n
      <4>1. CASE m # r
        BY <1>3, <2>1, <3>1, <3>3, <4>1
      <4>2. CASE m = r
        <5>1. x.reval = q /\ z = x
          BY <1>3, <2>5, <3>1, <3>3, <4>2
        <5>2. CASE x.reval = c.res[r].reval
          BY <2>1, <3>1, <4>2, <5>1, <5>2
        <5>3. CASE x.reval # c.res[r].reval
          <6>1. \A k \in Resources : c.res[k].reval # x.reval
            BY <3>1, <5>1, <5>3 DEF Fits
          <6>2. QED
            BY <3>1, <5>1, <6>1
        <5>4. QED
          BY <5>2, <5>3
      <4>3. QED
        BY <4>1, <4>2
    <3>4. QED
      BY <3>2, <3>3
  <2>8. CASE n = r
    <3>1. q = x.reval /\ q # None /\ z = x
      BY <1>3, <2>5, <2>8
    <3>2. /\ q # r /\ c.res[q].life = "alive" /\ c.res[q].isReval
          /\ \A m \in Resources : c.res[m].reval = q => m = r
      <4>1. CASE q = c.res[r].reval
        BY <2>1, <2>4, <3>1, <4>1
      <4>2. CASE q # c.res[r].reval
        <5>1. /\ x.reval # r /\ c.res[x.reval].life = "alive" /\ c.res[x.reval].isReval
              /\ \A m \in Resources : c.res[m].reval # x.reval
          BY <3>1, <4>2 DEF Fits
        <5>2. QED
          BY <3>1, <5>1
      <4>3. QED
        BY <4>1, <4>2
    <3>3. d.res[q] = c.res[q]
      BY <1>3, <2>6, <3>2
    <3>4. ASSUME NEW m \in Resources, d.res[m].reval = q, m # r PROVE FALSE
      BY <1>3, <3>2, <3>4
    <3>5. QED
      BY <2>8, <3>2, <3>3, <3>4
  <2>9. QED
    BY <2>7, <2>8
<1>8. OneHandle(d)
  <2>1. \A h \in z.handles : h \in c.res[r].handles \/ Free(c, h)
    <3>1. z.handles \subseteq x.handles
      BY <1>1, NoObject
    <3>2. QED
      BY <3>1 DEF Fits
  <2> SUFFICES ASSUME NEW p \in Resources, NEW q \in Resources, NEW h \in Holders,
                      h \in d.res[p].handles, h \in d.res[q].handles
               PROVE  p = q
    BY DEF OneHandle
  <2>2. \A k \in Resources : h \in c.res[p].handles /\ h \in c.res[k].handles => p = k
    BY DEF Inv, OneHandle
  <2>3. \A k \in Resources : h \in c.res[q].handles /\ h \in c.res[k].handles => q = k
    BY DEF Inv, OneHandle
  <2>4. CASE p # r /\ q # r
    BY <1>3, <2>2, <2>4
  <2>5. CASE p = r /\ q # r
    BY <1>3, <2>1, <2>3, <2>5 DEF Free
  <2>6. CASE p # r /\ q = r
    BY <1>3, <2>1, <2>2, <2>6 DEF Free
  <2>7. QED
    BY <2>4, <2>5, <2>6
<1>9. QED
  BY <1>2, <1>4, <1>5, <1>6, <1>7, <1>8 DEF Inv

(* A method in progress stays in order.                                    *)
LEMMA FrameKept ==
  ASSUME NEW c, Inv(c), NEW d, NEW r \in Resources, NEW x \in ResourceType,
         Fits(c, r, x), Becomes(c, d, r, settle(x)),
         NEW f \in Frames, FrameOK(f, c), FrameFits(f, r, x)
  PROVE  FrameOK(f, d)
<1> DEFINE z == settle(x)
<1>1. /\ z \in ResourceType
      /\ z = x \/ (z = Gone /\ canDelete(x) /\ ~x.inCache)
  BY SettleSound DEF Fits
<1>2. z = Gone => z.life = "deleted" /\ z.clients = {} /\ z.handles = {} /\ ~z.inCache
  BY NoObject
<1>3. settle(x) = z
  OBVIOUS
<1> HIDE DEF z
<1>4. c.res \in [Resources -> ResourceType] /\ d.res = [c.res EXCEPT ![r] = z]
  BY <1>3 DEF Inv, CacheType, Becomes
<1>5. d.res[r] = z /\ \A q \in Resources : q # r => d.res[q] = c.res[q]
  BY <1>4
<1>6. /\ f.op \in {"load", "release", "notify", "switch"} => f.r \in Resources
      /\ f.op = "switch" => f.n \in Resources
      /\ f.op = "clear" => f.todo \subseteq Resources
  BY FrameTypes
<1>7. Delivers(f) => Free(d, f.h)
  <2>1. z.handles \subseteq x.handles
    BY <1>1, <1>2
  <2>2. Delivers(f) => Free(c, f.h) /\ f.h \notin x.handles
    BY DEF FrameOK, FrameFits
  <2>3. QED
    BY <1>5, <2>1, <2>2 DEF Free
<1>8. f.op \in {"load", "release", "notify"} => d.res[f.r].life # "unborn"
  <2>1. c.res[r].life # "unborn" => z.life # "unborn"
    BY <1>1, <1>2 DEF Fits
  <2>2. f.op \in {"load", "release", "notify"} => c.res[f.r].life # "unborn"
    BY DEF FrameOK
  <2>3. QED
    BY <1>5, <1>6, <2>1, <2>2
<1>9. f.op = "load" /\ f.new /\ d.res[f.r].life = "alive" =>
        d.res[f.r].inCache /\ d.res[f.r].access = 0 /\ d.res[f.r].url = f.u
  <2> SUFFICES ASSUME f.op = "load", f.new, d.res[f.r].life = "alive"
               PROVE  d.res[f.r].inCache /\ d.res[f.r].access = 0 /\ d.res[f.r].url = f.u
    OBVIOUS
  <2>1. CASE f.r = r
    <3>1. z.life = "alive"
      BY <1>5, <2>1
    <3>2. z = x
      BY <1>1, <1>2, <3>1
    <3>3. x.inCache /\ x.access = 0 /\ x.url = f.u
      BY <1>3, <2>1, <3>1 DEF FrameFits
    <3>4. QED
      BY <1>5, <2>1, <3>2, <3>3
  <2>2. CASE f.r # r
    <3>1. d.res[f.r] = c.res[f.r]
      BY <1>5, <1>6, <2>2
    <3>2. QED
      BY <3>1 DEF FrameOK
  <2>3. QED
    BY <2>1, <2>2
<1>10. f.op = "release" => f.h \notin d.res[f.r].clients /\ f.h \in d.res[f.r].handles
  <2>1. f.op = "release" => f.h \notin c.res[f.r].clients /\ f.h \in c.res[f.r].handles
    BY DEF FrameOK
  <2>2. f.op = "release" /\ f.r = r => f.h \notin x.clients /\ f.h \in x.handles
    BY DEF FrameFits
  <2>3. x.handles # {} => z = x
    BY <1>1 DEF canDelete
  <2>4. QED
    BY <1>5, <1>6, <2>1, <2>2, <2>3
<1>15. ASSUME NEW q \in Resources, Ending(f, q) PROVE d.res[q].request = "ending"
  <2>1. CASE q = r
    <3>1. x.request = "ending"
      BY <1>15, <2>1 DEF FrameFits
    <3>2. z = x
      BY <1>1, <3>1 DEF canDelete
    <3>3. QED
      BY <1>5, <2>1, <3>1, <3>2
  <2>2. CASE q # r
    BY <1>5, <1>15, <2>2 DEF FrameOK
  <2>3. QED
    BY <2>1, <2>2
<1>11. f.op = "switch" => /\ d.res[f.n].reval = f.r
                          /\ f.todo \subseteq d.res[f.r].handles
                          /\ f.todo \cap d.res[f.r].clients = {}
  <2> SUFFICES ASSUME f.op = "switch"
               PROVE  /\ d.res[f.n].reval = f.r
                      /\ f.todo \subseteq d.res[f.r].handles
                      /\ f.todo \cap d.res[f.r].clients = {}
    OBVIOUS
  <2>1. /\ c.res[f.n].reval = f.r
        /\ f.todo \subseteq c.res[f.r].handles /\ f.todo \cap c.res[f.r].clients = {}
    BY DEF FrameOK
  <2>2. f.r \in Resources /\ f.n \in Resources /\ f.r # None
    BY <1>6, Constants
  <2>3. d.res[f.n].reval = f.r
    <3>1. CASE f.n = r
      <4>1. x.reval = f.r
        BY <3>1 DEF FrameFits
      <4>2. ~canDelete(x)
        BY <2>2, <4>1 DEF canDelete
      <4>3. QED
        BY <1>1, <1>5, <3>1, <4>1, <4>2
    <3>2. CASE f.n # r
      BY <1>5, <2>1, <2>2, <3>2
    <3>3. QED
      BY <3>1, <3>2
  <2>4. f.todo \subseteq d.res[f.r].handles /\ f.todo \cap d.res[f.r].clients = {}
    <3>1. CASE f.r = r
      <4>1. x.isReval
        BY <2>1, <2>2, <3>1 DEF Fits
      <4>2. ~canDelete(x)
        BY <4>1 DEF canDelete
      <4>3. f.todo \subseteq x.handles /\ f.todo \cap x.clients = {}
        BY <3>1 DEF FrameFits
      <4>4. QED
        BY <1>1, <1>5, <3>1, <4>2, <4>3
    <3>2. CASE f.r # r
      <4>1. d.res[f.r] = c.res[f.r]
        BY <1>5, <2>2, <3>2
      <4>2. QED
        BY <2>1, <4>1
    <3>3. QED
      BY <3>1, <3>2
  <2>5. QED
    BY <2>3, <2>4
<1>12. f.op = "clear" => f.todo # {} /\ \A q \in f.todo : d.res[q].preload > 0
  <2> SUFFICES ASSUME f.op = "clear"
               PROVE  f.todo # {} /\ \A q \in f.todo : d.res[q].preload > 0
    OBVIOUS
  <2>1. f.todo # {} /\ \A q \in f.todo : c.res[q].preload > 0
    BY DEF FrameOK
  <2>2. r \in f.todo => z.preload > 0
    <3>1. r \in f.todo => x.preload > 0
      BY DEF FrameFits
    <3>2. canDelete(x) => ~(x.preload > 0)
      BY DEF canDelete
    <3>3. QED
      BY <1>1, <3>1, <3>2
  <2>3. ASSUME NEW q \in f.todo PROVE d.res[q].preload > 0
    <3>1. q \in Resources
      BY <1>6
    <3>2. c.res[q].preload > 0
      BY <2>1
    <3>3. QED
      BY <1>5, <2>2, <3>1, <3>2
  <2>4. QED
    BY <2>1, <2>3
<1>13. f.op = "prune" /\ f.pass # "live" =>
         \A q \in Resources : Evictable(d.res[q]) => d.res[q].queue <= f.i
  <2> SUFFICES ASSUME f.op = "prune", f.pass # "live", NEW q \in Resources, Evictable(d.res[q])
               PROVE  d.res[q].queue <= f.i
    OBVIOUS
  <2>1. CASE q = r
    <3>1. Evictable(z)
      BY <1>5, <2>1
    <3>2. z = x
      BY <1>1, <1>2, <3>1 DEF Evictable
    <3>3. QED
      BY <1>5, <2>1, <3>1, <3>2 DEF FrameFits
  <2>2. CASE q # r
    BY <1>5, <2>2 DEF FrameOK
  <2>3. QED
    BY <2>1, <2>2
<1>14. QED
  BY <1>7, <1>8, <1>9, <1>10, <1>11, <1>12, <1>13, <1>15 DEF FrameOK

(* All of it stays in order, with what is still to be done.                *)
LEMMA RunningKept ==
  ASSUME NEW c, NEW t, NEW s, NEW E, Running(c, t, s, E),
         NEW d, NEW r \in Resources, NEW x \in ResourceType,
         Fits(c, r, x), Becomes(c, d, r, settle(x)), MapFits(c, d, r, x),
         \A f \in Range(s) : FrameFits(f, r, x), TodoFits(c, t, s, E, r, x)
  PROVE  Running(d, t, s, E)
<1> DEFINE z == settle(x)
<1>1. /\ z \in ResourceType
      /\ z = x \/ (z = Gone /\ canDelete(x) /\ ~x.inCache)
  BY SettleSound DEF Fits
<1>2. z = Gone => z.clients = {} /\ ~z.inCache /\ z.reval = None
  BY NoObject
<1>3. Inv(d)
  BY InvKept DEF Running
<1>4. c.res \in [Resources -> ResourceType] /\ d.res = [c.res EXCEPT ![r] = z]
  BY DEF Running, Inv, CacheType, Becomes
<1> HIDE DEF z
<1>5. d.res[r] = z /\ \A q \in Resources : q # r => d.res[q] = c.res[q]
  BY <1>4
<1>6. \A f \in Range(s) : f \in Frames
  <2>1. s \in Seq(Frames)
    BY DEF Running
  <2>2. QED
    BY <2>1, InRange, LenProperties, ElementOfSeq
<1>7. FramesOK(s, d)
  BY <1>6, FrameKept DEF FramesOK, Running
<1>8. Loaded(s, d, E)
  <2>1. Loaded(s, c, E)
    BY DEF Running
  <2>2. z.inCache /\ z.access = 0 => (c.res[r].inCache /\ c.res[r].access = 0) \/ r \in E
    BY <1>1, <1>2 DEF TodoFits
  <2>3. QED
    BY <1>5, <2>1, <2>2 DEF Loaded
<1>9. Switching(s, d, E)
  <2> SUFFICES ASSUME NEW n \in Resources \ E, d.res[n].reval # None,
                      d.res[d.res[n].reval].inCache
               PROVE  \E f \in Range(s) : f.op = "switch" /\ f.n = n
    BY DEF Switching
  <2>1. Switching(s, c, E) /\ Inv(c) /\ FramesOK(s, c)
    BY DEF Running
  <2> DEFINE q == d.res[n].reval
  <2>2. q \in Resources /\ q # None /\ d.res[q].inCache
    BY <1>3 DEF Inv, CacheType, ResourceType
  <2>3. CASE n = r
    <3>1. z = x /\ q = x.reval
      BY <1>1, <1>2, <1>5, <2>2, <2>3
    <3>2. q # r
      <4>1. d.res[q].isReval
        BY <1>3, <2>2 DEF Inv, Revalidates
      <4>2. Sound(d.res[q])
        BY <1>3, <2>2 DEF Inv, AllSound
      <4>3. d.res[q].reval = None
        BY <4>1, <4>2 DEF Sound, Formed
      <4>4. QED
        BY <2>2, <2>3, <4>3
    <3>3. c.res[q].inCache
      BY <1>5, <2>2, <3>2
    <3>4. x.reval = c.res[r].reval
      BY <2>2, <2>3, <3>1, <3>3 DEF TodoFits
    <3>5. QED
      BY <2>1, <2>2, <2>3, <3>1, <3>3, <3>4 DEF Switching
  <2>4. CASE n # r
    <3>1. q = c.res[n].reval
      BY <1>5, <2>4
    <3>2. CASE c.res[q].inCache
      BY <2>1, <2>2, <3>1, <3>2 DEF Switching
    <3>3. CASE ~c.res[q].inCache
      <4>1. q = r
        BY <1>5, <2>2, <3>3
      <4>2. x.inCache
        BY <1>1, <1>2, <1>5, <2>2, <4>1
      <4>3. c.res[n].reval = r /\ ~c.res[r].inCache
        BY <3>1, <3>3, <4>1
      <4>4. \E f \in Range(s) : f.op = "switch" /\ f.r = r
        BY <4>2, <4>3 DEF TodoFits
      <4>5. PICK f \in Range(s) : f.op = "switch" /\ f.r = r
        BY <4>4
      <4>6. c.res[f.n].reval = r /\ f.n \in Resources
        BY <1>6, <2>1, <4>5, FrameTypes DEF FramesOK, FrameOK
      <4>7. f.n = n
        BY <2>1, <2>2, <4>1, <4>3, <4>6 DEF Inv, Revalidates
      <4>8. QED
        BY <4>5, <4>7
    <3>4. QED
      BY <3>2, <3>3
  <2>5. QED
    BY <2>3, <2>4
<1>10. Heard(s, d, t)
  <2> SUFFICES ASSUME NEW q \in Resources, NEW h \in d.res[q].clients, ~d.res[q].loading
               PROVE  h \in t \/ \E f \in Range(s) : f.op = "notify" /\ f.r = q /\ h \in f.todo
    BY DEF Heard
  <2>1. Heard(s, c, t)
    BY DEF Running
  <2>2. CASE q # r
    <3>1. d.res[q] = c.res[q]
      BY <1>5, <2>2
    <3>2. QED
      BY <2>1, <3>1 DEF Heard
  <2>3. CASE q = r
    <3>1. z = x /\ h \in x.clients /\ ~x.loading
      BY <1>1, <1>2, <1>5, <2>3
    <3>2. \/ h \in t
          \/ h \in c.res[r].clients /\ ~c.res[r].loading
          \/ \E f \in Range(s) : f.op = "notify" /\ f.r = r /\ h \in f.todo
      BY <3>1 DEF TodoFits
    <3>3. CASE h \in c.res[r].clients /\ ~c.res[r].loading
      BY <2>1, <2>3, <3>3 DEF Heard
    <3>4. QED
      BY <2>3, <3>2, <3>3
  <2>4. QED
    BY <2>2, <2>3
<1>11. QED
  BY <1>3, <1>7, <1>8, <1>9, <1>10 DEF Running
-----------------------------------------------------------------------------
(* Methods are called and return.                                          *)

(* The stack, its top and the rest.                                        *)
LEMMA StackParts ==
  ASSUME NEW s \in Seq(Frames)
  PROVE  /\ \A f \in Range(s) : f \in Frames
         /\ s # <<>> => /\ Head(s) \in Frames /\ Tail(s) \in Seq(Frames)
                        /\ Head(s) \in Range(s)
                        /\ Range(s) = {Head(s)} \cup Range(Tail(s))
         /\ \A f \in Frames : /\ <<f>> \o s \in Seq(Frames) /\ <<f>> \o s # <<>>
                              /\ Head(<<f>> \o s) = f /\ Tail(<<f>> \o s) = s
                              /\ Range(<<f>> \o s) = {f} \cup Range(s)
<1>1. \A f \in Range(s) : f \in Frames
  BY InRange, LenProperties, ElementOfSeq
<1>2. ASSUME NEW q \in Seq(Frames), q # <<>>
      PROVE  /\ Head(q) \in Frames /\ Tail(q) \in Seq(Frames)
             /\ Head(q) \in Range(q) /\ Range(q) = {Head(q)} \cup Range(Tail(q))
  <2>1. /\ Head(q) \in Frames /\ Tail(q) \in Seq(Frames)
        /\ \A u : u \in Range(q) <=> u = Head(q) \/ u \in Range(Tail(q))
    BY <1>2, HeadAndTail
  <2>2. QED
    BY <2>1
<1>3. ASSUME NEW f \in Frames
      PROVE  /\ <<f>> \o s \in Seq(Frames) /\ <<f>> \o s # <<>>
             /\ Head(<<f>> \o s) = f /\ Tail(<<f>> \o s) = s
             /\ Range(<<f>> \o s) = {f} \cup Range(s)
  <2> DEFINE p == <<f>> \o s
  <2>1. p \in Seq(Frames) /\ p # <<>> /\ Head(p) = f /\ Tail(p) = s
    BY PushProperties
  <2> HIDE DEF p
  <2>2. Range(p) = {Head(p)} \cup Range(Tail(p))
    BY <1>2, <2>1
  <2>3. QED
    BY <2>1, <2>2 DEF p
<1>4. QED
  BY <1>1, <1>2, <1>3

(* A method that is in order is called.                                    *)
LEMMA PushKept ==
  ASSUME NEW c, NEW t, NEW s, NEW E, Running(c, t, s, E),
         NEW f \in Frames, f.op # "stop", FrameOK(f, c), \A g \in Range(s) : Under(f, g)
  PROVE  Running(c, t, <<f>> \o s, E)
<1> DEFINE p == <<f>> \o s
<1>1. s \in Seq(Frames) /\ Shape(s) /\ FramesOK(s, c)
  BY DEF Running
<1>2. p \in Seq(Frames) /\ Range(p) = {f} \cup Range(s)
  BY <1>1, StackParts
<1>3. Shape(p)
  BY <1>1, ShapePush
<1> HIDE DEF p
<1>4. FramesOK(p, c)
  BY <1>1, <1>2 DEF FramesOK
<1>5. Loaded(p, c, E) /\ Switching(p, c, E) /\ Heard(p, c, t)
  <2>1. Loaded(s, c, E) /\ Switching(s, c, E) /\ Heard(s, c, t)
    BY DEF Running
  <2>2. Loaded(p, c, E)
    BY <1>2, <2>1 DEF Loaded
  <2>3. Switching(p, c, E)
    BY <1>2, <2>1 DEF Switching
  <2>4. Heard(p, c, t)
    BY <1>2, <2>1 DEF Heard
  <2>5. QED
    BY <2>2, <2>3, <2>4
<1>6. Running(c, t, p, E)
  BY <1>2, <1>3, <1>4, <1>5 DEF Running
<1>7. QED
  BY <1>6 DEF p

(* What is known of the method on top, and of the ones under it.           *)
LEMMA TopIsOK ==
  ASSUME NEW c, NEW t, NEW s, NEW E, Running(c, t, s, E), s # <<>>
  PROVE  /\ Head(s) \in Frames /\ FrameOK(Head(s), c) /\ Head(s).op # "stop"
         /\ Tail(s) \in Seq(Frames) /\ Range(s) = {Head(s)} \cup Range(Tail(s))
         /\ Head(s) \in Range(s)
         /\ \A g \in Range(Tail(s)) : Under(Head(s), g) /\ g \in Frames /\ FrameOK(g, c)
<1>1. s \in Seq(Frames) /\ Shape(s) /\ FramesOK(s, c)
  BY DEF Running
<1>2. /\ Head(s) \in Frames /\ Tail(s) \in Seq(Frames) /\ Head(s) \in Range(s)
      /\ Range(s) = {Head(s)} \cup Range(Tail(s))
      /\ \A f \in Range(s) : f \in Frames
  BY <1>1, StackParts
<1>3. (\A g \in Range(Tail(s)) : Under(Head(s), g)) /\ Head(s).op # "stop"
  BY <1>1, ShapeTail
<1>4. QED
  BY <1>1, <1>2, <1>3 DEF FramesOK

(* The method on top returns: what it had left to do was nothing, or E     *)
(* excuses it.                                                             *)
LEMMA PopKept ==
  ASSUME NEW c, NEW t, NEW s, NEW E, Running(c, t, s, {}), s # <<>>,
         Head(s).op = "load" /\ Head(s).new => Head(s).r \in E,
         Head(s).op = "switch" => Head(s).n \in E,
         Head(s).op = "notify" =>
           \A h \in Head(s).todo : h \in c.res[Head(s).r].clients => h \in t
  PROVE  Running(c, t, Tail(s), E)
<1> DEFINE p == Tail(s)
           f == Head(s)
<1>1. s \in Seq(Frames) /\ Shape(s) /\ FramesOK(s, c)
  BY DEF Running
<1>2. p \in Seq(Frames) /\ Range(s) = {f} \cup Range(p)
  BY TopIsOK
<1>3. Shape(p)
  BY <1>1, ShapeTail
<1> HIDE DEF p
<1>4. FramesOK(p, c)
  BY <1>1, <1>2 DEF FramesOK
<1>5. Loaded(s, c, {}) /\ Switching(s, c, {}) /\ Heard(s, c, t)
  BY DEF Running
<1>6. Loaded(p, c, E)
  BY <1>2, <1>5 DEF Loaded
<1>7. Switching(p, c, E)
  BY <1>2, <1>5 DEF Switching
<1>8. Heard(p, c, t)
  BY <1>2, <1>5 DEF Heard
<1>9. Running(c, t, p, E)
  BY <1>2, <1>3, <1>4, <1>6, <1>7, <1>8 DEF Running
<1>10. QED
  BY <1>9 DEF p

(* The same, for a method that nothing waits for.                          *)
LEMMA PopPlain ==
  ASSUME NEW c, NEW t, NEW s, Running(c, t, s, {}), s # <<>>,
         Head(s).op \in {"lookup", "clear", "release", "prune"} \/ (Head(s).op = "load" /\ ~Head(s).new)
  PROVE  Running(c, t, Tail(s), {})
  BY PopKept

(* What was to be done for e has been done.                                *)
LEMMA DoneFor ==
  ASSUME NEW c, NEW t, NEW s, NEW e, Running(c, t, s, {e}),
         c.res[e].inCache /\ c.res[e].access = 0 =>
           \E f \in Range(s) : f.op = "load" /\ f.new /\ f.r = e,
         c.res[e].reval # None /\ c.res[c.res[e].reval].inCache =>
           \E f \in Range(s) : f.op = "switch" /\ f.n = e
  PROVE  Running(c, t, s, {})
<1>1. Loaded(s, c, {e}) /\ Switching(s, c, {e})
  BY DEF Running
<1>2. Loaded(s, c, {})
  BY <1>1 DEF Loaded
<1>3. Switching(s, c, {})
  BY <1>1 DEF Switching
<1>4. QED
  BY <1>2, <1>3 DEF Running

(* More is excused.                                                        *)
LEMMA Widened ==
  ASSUME NEW c, NEW t, NEW s, NEW E, Running(c, t, s, {})
  PROVE  Running(c, t, s, E)
  BY DEF Running, Loaded, Switching

(* More holders are told, or one that is no client any more is forgotten.  *)
LEMMA ToldKept ==
  ASSUME NEW c, NEW t, NEW s, NEW E, Running(c, t, s, E), NEW h \in Holders
  PROVE  /\ Running(c, t \cup {h}, s, E)
         /\ (\A r \in Resources : h \notin c.res[r].clients) => Running(c, t \ {h}, s, E)
<1>1. Heard(s, c, t) /\ t \subseteq Holders
  BY DEF Running
<1>2. Heard(s, c, t \cup {h}) /\ t \cup {h} \subseteq Holders
  BY <1>1 DEF Heard
<1>3. ASSUME \A r \in Resources : h \notin c.res[r].clients
      PROVE  Heard(s, c, t \ {h}) /\ t \ {h} \subseteq Holders
  BY <1>1, <1>3 DEF Heard
<1>4. QED
  BY <1>2, <1>3 DEF Running

(* A method that tells clients is replaced by one that tells the others.   *)
LEMMA RetoldKept ==
  ASSUME NEW c, NEW t, NEW s, Running(c, t, s, {}), s # <<>>,
         NEW f \in Frames, f.op = "notify", Head(s).op = "notify", f.r = Head(s).r,
         FrameOK(f, c), \A g \in Range(Tail(s)) : Under(f, g), NEW u \in SUBSET Holders,
         \A h \in Head(s).todo : h \in f.todo \/ h \in u \/ h \notin c.res[f.r].clients
  PROVE  Running(c, t \cup u, <<f>> \o Tail(s), {})
<1> DEFINE p == <<f>> \o Tail(s)
           q == Tail(s)
<1>1. /\ s \in Seq(Frames) /\ Shape(s) /\ FramesOK(s, c)
      /\ Loaded(s, c, {}) /\ Switching(s, c, {}) /\ Heard(s, c, t) /\ t \subseteq Holders
  BY DEF Running
<1>2. q \in Seq(Frames) /\ Range(s) = {Head(s)} \cup Range(q)
  BY TopIsOK
<1>3. p \in Seq(Frames) /\ Range(p) = {f} \cup Range(q)
  BY <1>2, StackParts
<1>4. \A g \in Range(q) : Under(f, g)
  OBVIOUS
<1>5. Shape(p)
  <2>1. Shape(q)
    BY <1>1, ShapeTail
  <2> HIDE DEF q
  <2>2. QED
    BY <1>2, <1>4, <2>1, ShapePush DEF q
<1> HIDE DEF p, q
<1>7. FramesOK(p, c)
  BY <1>1, <1>2, <1>3 DEF FramesOK
<1>8. Loaded(p, c, {})
  BY <1>1, <1>2, <1>3 DEF Loaded
<1>9. Switching(p, c, {})
  BY <1>1, <1>2, <1>3 DEF Switching
<1>10. Heard(p, c, t \cup u)
  <2> SUFFICES ASSUME NEW r \in Resources, NEW h \in c.res[r].clients, ~c.res[r].loading,
                      h \notin t, h \notin u
               PROVE  \E g \in Range(p) : g.op = "notify" /\ g.r = r /\ h \in g.todo
    BY DEF Heard
  <2>1. PICK g \in Range(s) : g.op = "notify" /\ g.r = r /\ h \in g.todo
    BY <1>1 DEF Heard
  <2>2. CASE g \in Range(q)
    BY <1>3, <2>1, <2>2
  <2>3. CASE g = Head(s)
    <3>1. h \in f.todo /\ f.r = r
      BY <2>1, <2>3
    <3>2. QED
      BY <1>3, <3>1
  <2>4. QED
    BY <1>2, <2>1, <2>2, <2>3
<1>11. t \cup u \subseteq Holders
  BY <1>1
<1>12. Running(c, t \cup u, p, {})
  BY <1>3, <1>5, <1>7, <1>8, <1>9, <1>10, <1>11 DEF Running
<1>13. QED
  BY <1>12 DEF p, q

(* A method that tells clients goes on to the next one.                    *)
LEMMA NotifyKept ==
  ASSUME NEW c, NEW t, NEW s, Running(c, t, s, {}), s # <<>>,
         NEW f \in Frames, f.op = "notify", Head(s).op = "notify", f.r = Head(s).r,
         f.then = Head(s).then, NEW u \in SUBSET Holders,
         \A h \in Head(s).todo : h \in f.todo \/ h \in u \/ h \notin c.res[f.r].clients
  PROVE  Running(c, t \cup u, <<f>> \o Tail(s), {})
<1>1. FrameOK(Head(s), c) /\ \A g \in Range(Tail(s)) : Under(Head(s), g)
  BY TopIsOK
<1>2. \A r : Ending(f, r) <=> Ending(Head(s), r)
  BY DEF Ending
<1>3. \A g \in Range(Tail(s)) : Under(f, g)
  <2> SUFFICES ASSUME NEW g \in Range(Tail(s)) PROVE Under(f, g)
    OBVIOUS
  <2>1. /\ Under(Head(s), g) /\ f.op = "notify" /\ Head(s).op = "notify"
    BY <1>1
  <2>2. Apart(f, g) /\ Apart(g, f)
    BY <1>2, <2>1 DEF Under, Apart, Delivers
  <2>3. QED
    BY <2>1, <2>2 DEF Under
<1>4. FrameOK(f, c)
  BY <1>1, <1>2 DEF FrameOK, Delivers
<1>5. QED
  BY <1>3, <1>4, RetoldKept
-----------------------------------------------------------------------------
(* The functions of Cache and CachedResource.                              *)

(* What an object counts for does not depend on its being deleted.         *)
LEMMA SettleCounts ==
  ASSUME NEW x \in ResourceType
  PROVE  /\ settle(x) \in ResourceType
         /\ liveOf(settle(x)) = liveOf(x) /\ deadOf(settle(x)) = deadOf(x)
         /\ settle(x) = x \/ (settle(x) = Gone /\ canDelete(x) /\ ~x.inCache)
<1>1. CASE canDelete(x) /\ ~x.inCache
  <2>1. settle(x) = Gone /\ x.clients = {}
    BY <1>1 DEF settle, canDelete
  <2>2. liveOf(x) = 0 /\ deadOf(x) = 0
    BY <1>1 DEF liveOf, deadOf
  <2>3. QED
    BY <1>1, <2>1, <2>2, NoObject
<1>2. CASE ~(canDelete(x) /\ ~x.inCache)
  BY <1>2 DEF settle
<1>3. QED
  BY <1>1, <1>2

(* deleteIfPossible changes one object, and only if it can be deleted.     *)
LEMMA DeleteIfPossible ==
  ASSUME NEW c \in CacheType, NEW r \in Resources
  PROVE  deleteIfPossible(c, r) = [c EXCEPT !.res[r] = settle(c.res[r])]
<1>1. CASE canDelete(c.res[r]) /\ ~c.res[r].inCache
  BY <1>1 DEF deleteIfPossible, settle
<1>2. CASE ~(canDelete(c.res[r]) /\ ~c.res[r].inCache)
  <2>1. deleteIfPossible(c, r) = c /\ settle(c.res[r]) = c.res[r]
    BY <1>2 DEF deleteIfPossible, settle
  <2>2. [c EXCEPT !.res[r] = c.res[r]] = c
    BY DEF CacheType
  <2>3. QED
    BY <2>1, <2>2
<1>3. QED
  BY <1>1, <1>2

(* The parts of the cache when one object, the map or the totals change.   *)
LEMMA CacheParts ==
  ASSUME NEW c \in CacheType, NEW r \in Resources, NEW x \in ResourceType,
         NEW d, d = [c EXCEPT !.res[r] = x]
  PROVE  /\ d \in CacheType /\ d.res = [c.res EXCEPT ![r] = x] /\ d.res[r] = x
         /\ d.map = c.map /\ d.live = c.live /\ d.dead = c.dead
  BY DEF CacheType

(* An object that changes nothing the cache or a method looks at but its   *)
(* request and the like.                                                   *)
Alike(x, y) ==
  /\ x.life = y.life /\ x.url = y.url /\ x.inCache = y.inCache /\ x.access = y.access
  /\ x.enc = y.enc /\ x.dec = y.dec /\ x.queue = y.queue /\ x.listed = y.listed
  /\ x.clients = y.clients /\ x.handles = y.handles /\ x.preload = y.preload
  /\ x.reval = y.reval /\ x.isReval = y.isReval

(* The frames and the rest, when its links are those it had.               *)
LEMMA SameLinks ==
  ASSUME NEW c, Inv(c), NEW r \in Resources, NEW x \in ResourceType, Formed(x),
         c.res[r].life # "unborn" => x.life # "unborn",
         x.life = c.res[r].life \/ \A n \in Resources : c.res[n].reval # r,
         x.isReval = c.res[r].isReval \/ \A n \in Resources : c.res[n].reval # r,
         x.reval \in {c.res[r].reval, None}, x.handles \subseteq c.res[r].handles
  PROVE  Fits(c, r, x)
<1>1. \A n \in Resources : c.res[n].reval = r => x.life = "alive" /\ x.isReval
  <2> SUFFICES ASSUME NEW n \in Resources, c.res[n].reval = r
               PROVE  x.life = "alive" /\ x.isReval
    OBVIOUS
  <2>1. r # None
    BY Constants
  <2>2. c.res[r].life = "alive" /\ c.res[r].isReval
    BY <2>1 DEF Inv, Revalidates
  <2>3. QED
    BY <2>2
<1>2. QED
  BY <1>1 DEF Fits

(* The methods in progress do not mind an object that has lost a few       *)
(* references.                                                             *)
LEMMA SameFrames ==
  ASSUME NEW c, NEW r \in Resources, NEW x \in ResourceType, Inv(c),
         NEW f \in Frames, FrameOK(f, c),
         x.handles \subseteq c.res[r].handles, x.clients \subseteq c.res[r].clients,
         f.op = "load" /\ f.new /\ f.r = r =>
           x.life = c.res[r].life /\ x.inCache = c.res[r].inCache
           /\ x.access = c.res[r].access /\ x.url = c.res[r].url,
         f.op = "release" /\ f.r = r => f.h \in x.handles,
         Ending(f, r) => x.request = "ending",
         f.op = "switch" /\ f.n = r => x.reval = c.res[r].reval,
         f.op = "switch" /\ f.r = r => f.todo \subseteq x.handles,
         f.op = "clear" /\ r \in f.todo => x.preload = c.res[r].preload,
         f.op = "prune" /\ f.pass # "live" /\ Evictable(x) => x.queue <= f.i
  PROVE  FrameFits(f, r, x)
<1>1. Delivers(f) => f.h \notin x.handles
  BY DEF FrameOK, Free
<1>2. f.op = "load" /\ f.new /\ f.r = r /\ settle(x).life = "alive" =>
        x.inCache /\ x.access = 0 /\ x.url = f.u
  <2> SUFFICES ASSUME f.op = "load", f.new, f.r = r, settle(x).life = "alive"
               PROVE  x.inCache /\ x.access = 0 /\ x.url = f.u
    OBVIOUS
  <2>1. settle(x) = x
    BY NoObject DEF settle
  <2>2. QED
    BY <2>1 DEF FrameOK
<1>3. f.op = "release" /\ f.r = r => f.h \notin x.clients /\ f.h \in x.handles
  BY DEF FrameOK
<1>4. f.op = "switch" /\ f.n = r => x.reval = f.r
  BY DEF FrameOK
<1>5. f.op = "switch" /\ f.r = r => f.todo \subseteq x.handles /\ f.todo \cap x.clients = {}
  BY DEF FrameOK
<1>6. f.op = "clear" /\ r \in f.todo => x.preload > 0
  BY DEF FrameOK
<1>7. QED
  BY <1>1, <1>2, <1>3, <1>4, <1>5, <1>6 DEF FrameFits

(* An object changes in what the books do not count.                       *)
LEMMA AlikeKept ==
  ASSUME NEW c, NEW t, NEW s, NEW E, Running(c, t, s, E),
         NEW r \in Resources, NEW x \in ResourceType, Alike(x, c.res[r]), x.life = "alive",
         \A f \in Range(s) : Ending(f, r) => x.request = "ending",
         \A h \in x.clients : ~x.loading =>
           \/ h \in t \/ ~c.res[r].loading
           \/ \E f \in Range(s) : f.op = "notify" /\ f.r = r /\ h \in f.todo,
         NEW d, d = [c EXCEPT !.res[r] = settle(x)]
  PROVE  Running(d, t, s, E)
<1> DEFINE y == c.res[r]
<1>1. Inv(c) /\ c \in CacheType /\ y \in ResourceType /\ Sound(y)
  BY DEF Running, Inv, AllSound, CacheType
<1>2. size(x) = size(y) /\ lruIndex(x) = lruIndex(y)
  BY DEF Alike, size, lruIndex
<1>3. Formed(x)
  <2>1. Formed(y)
    BY <1>1 DEF Sound
  <2>2. Listed(x)
    BY <1>2, <2>1 DEF Alike, Listed, Formed
  <2>3. x.inCache /\ x.access = 0 => Untouched(x)
    BY <2>1 DEF Alike, Formed, Untouched
  <2>4. QED
    BY <2>1, <2>2, <2>3 DEF Alike, Formed
<1>4. liveOf(x) = liveOf(y) /\ deadOf(x) = deadOf(y)
  BY <1>2 DEF liveOf, deadOf, Alike
<1>5. Becomes(c, d, r, settle(x))
  <2>1. settle(x) \in ResourceType /\ liveOf(settle(x)) = liveOf(y) /\ deadOf(settle(x)) = deadOf(y)
    BY <1>4, SettleCounts
  <2>2. d \in CacheType /\ d.res = [c.res EXCEPT ![r] = settle(x)] /\ d.live = c.live /\ d.dead = c.dead
    <3> DEFINE z == settle(x)
    <3>1. z \in ResourceType /\ d = [c EXCEPT !.res[r] = z]
      BY <2>1
    <3> HIDE DEF z
    <3>2. d \in CacheType /\ d.res = [c.res EXCEPT ![r] = z] /\ d.live = c.live /\ d.dead = c.dead
      BY <1>1, <3>1 DEF CacheType
    <3>3. QED
      BY <3>2 DEF z
  <2>3. liveOf(y) \in Int /\ deadOf(y) \in Int /\ c.live \in Int /\ c.dead \in Int
    BY <1>1, CountRange DEF CacheType
  <2>4. QED
    BY <2>1, <2>2, <2>3 DEF Becomes
<1>6. Fits(c, r, x)
  BY <1>1, <1>3, SameLinks DEF Alike
<1>7. d.map = c.map
  BY <1>1 DEF CacheType
<1>8. MapFits(c, d, r, x)
  BY <1>1, <1>7, Constants DEF MapFits, Inv, Mapped, Alike
<1>9. \A f \in Range(s) : FrameFits(f, r, x)
  <2> SUFFICES ASSUME NEW f \in Range(s) PROVE FrameFits(f, r, x)
    OBVIOUS
  <2>1. f \in Frames /\ FrameOK(f, c)
    BY StackParts DEF Running, FramesOK
  <2>2. f.op = "prune" /\ f.pass # "live" /\ Evictable(x) => x.queue <= f.i
    BY <2>1 DEF FrameOK, Evictable, Alike
  <2>3. /\ f.op = "switch" /\ f.r = r => f.todo \subseteq x.handles
        /\ f.op = "release" /\ f.r = r => f.h \in x.handles
    BY <2>1 DEF FrameOK, Alike
  <2>4. QED
    BY <1>1, <2>1, <2>2, <2>3, SameFrames DEF Alike
<1>10. TodoFits(c, t, s, E, r, x)
  BY DEF TodoFits, Alike
<1>11. QED
  BY <1>5, <1>6, <1>8, <1>9, <1>10, RunningKept

(* deleteRequest: the request is over, and the object may be deleted.      *)
LEMMA DeleteRequestKept ==
  ASSUME NEW c, NEW t, NEW s, NEW E, Running(c, t, s, E), NEW r \in Resources,
         c.res[r].life # "unborn",
         \A f \in Range(s) : ~Ending(f, r)
  PROVE  Running(deleteRequest(c, r), t, s, E)
<1> DEFINE y == c.res[r]
           x == [y EXCEPT !.request = "none"]
           d == [c EXCEPT !.res[r] = settle(x)]
<1>1. Inv(c) /\ c \in CacheType /\ y \in ResourceType /\ Sound(y)
  BY DEF Running, Inv, AllSound, CacheType
<1>2. x \in ResourceType /\ Alike(x, y) /\ x.loading = y.loading
  BY <1>1 DEF ResourceType, Alike
<1>3. deleteRequest(c, r) = d
  <2> DEFINE c1 == [c EXCEPT !.res[r] = x]
  <2>1. c1 = [c EXCEPT !.res[r].request = "none"]
    BY <1>1 DEF CacheType
  <2>2. c1 \in CacheType /\ c1.res[r] = x
    <3> HIDE DEF x
    <3> QED BY <1>1, <1>2 DEF CacheType
  <2>3. deleteIfPossible(c1, r) = [c1 EXCEPT !.res[r] = settle(c1.res[r])]
    <3> HIDE DEF c1
    <3> QED BY <2>2, DeleteIfPossible
  <2>4. [c1 EXCEPT !.res[r] = settle(x)] = d
    <3> HIDE DEF x
    <3> QED BY <1>1 DEF CacheType
  <2>5. QED
    BY <2>1, <2>2, <2>3, <2>4 DEF deleteRequest
<1>4. CASE y.life = "alive"
  <2>1. x.life = "alive"
    BY <1>2, <1>4 DEF Alike
  <2> HIDE DEF x
  <2>2. Running(d, t, s, E)
    BY <1>2, <2>1, AlikeKept
  <2>3. QED
    BY <1>3, <2>2
<1>5. CASE y.life # "alive"
  <2>1. y = Gone
    BY <1>1, <1>5, NoObject DEF Sound, Formed
  <2>2. x = y
    BY <1>1, <2>1, NoObject DEF ResourceType
  <2>3. settle(x) = y
    BY <2>1, <2>2 DEF settle
  <2>4. d = c
    <3> HIDE DEF x
    <3> QED BY <1>1, <2>3 DEF CacheType
  <2>5. QED
    BY <1>3, <2>4
<1>6. QED
  BY <1>4, <1>5

(* Cache::remove, on the object.                                           *)
removed(y) ==
  IF y.inCache
  THEN [y EXCEPT !.inCache = FALSE, !.queue = None, !.listed = FALSE,
                 !.access = IF y.isReval THEN @ ELSE 0]
  ELSE y

(* What Cache::remove makes of an object: it is in neither list and counts *)
(* for nothing.                                                            *)
LEMMA RemovedObject ==
  ASSUME NEW y \in ResourceType, Sound(y)
  PROVE  /\ removed(y) \in ResourceType /\ Formed(removed(y))
         /\ removed(y).inCache = FALSE
         /\ removed(y).life = y.life /\ removed(y).clients = y.clients
         /\ removed(y).handles = y.handles /\ removed(y).isReval = y.isReval
         /\ removed(y).reval = y.reval /\ removed(y).request = y.request
         /\ removed(y).preload = y.preload /\ removed(y).loading = y.loading
         /\ removed(y).enc = y.enc /\ removed(y).dec = y.dec
         /\ removed(y).url = y.url
         /\ y.isReval => removed(y).access = y.access
         /\ liveOf(removed(y)) = 0 /\ deadOf(removed(y)) = 0
<1> DEFINE x == removed(y)
<1>1. /\ x \in ResourceType /\ x.inCache = FALSE
      /\ x.life = y.life /\ x.clients = y.clients /\ x.handles = y.handles
      /\ x.isReval = y.isReval /\ x.reval = y.reval /\ x.request = y.request
      /\ x.preload = y.preload /\ x.loading = y.loading /\ x.enc = y.enc /\ x.dec = y.dec
      /\ x.url = y.url
      /\ y.isReval => x.access = y.access
  <2>1. CASE y.inCache
    <3>1. x = [y EXCEPT !.inCache = FALSE, !.queue = None, !.listed = FALSE,
                        !.access = IF y.isReval THEN y.access ELSE 0]
      BY <2>1 DEF removed
    <3>2. (IF y.isReval THEN y.access ELSE 0) \in 0..MaxAccess
      BY Constants DEF ResourceType
    <3> HIDE DEF x
    <3>3. QED
      BY <3>1, <3>2 DEF ResourceType
  <2>2. CASE ~y.inCache
    <3>1. x = y /\ y.inCache = FALSE
      BY <2>2 DEF removed, ResourceType
    <3> HIDE DEF x
    <3>2. QED
      BY <3>1
  <2>3. QED
    BY <2>1, <2>2
<1>2. x.queue = None /\ ~x.listed
  <2>1. CASE y.inCache
    BY <2>1 DEF removed, ResourceType
  <2>2. CASE ~y.inCache
    BY <2>2 DEF removed, Sound, Formed, Listed
  <2>3. QED
    BY <2>1, <2>2
<1>3. x.life # "alive" => x \in {Unborn, Gone}
  <2>1. CASE y.inCache
    BY <1>1, <2>1, NoObject DEF Sound, Formed
  <2>2. CASE ~y.inCache
    BY <2>2 DEF removed, Sound, Formed
  <2>3. QED
    BY <2>1, <2>2
<1> HIDE DEF x
<1>4. Formed(x)
  BY <1>1, <1>2, <1>3 DEF Sound, Formed, Listed
<1>5. liveOf(x) = 0 /\ deadOf(x) = 0
  BY <1>1 DEF liveOf, deadOf
<1>6. QED
  BY <1>1, <1>4, <1>5 DEF x

(* Cache::remove is that object, and its URL taken out of the map.         *)
LEMMA RemoveIs ==
  ASSUME NEW c, Inv(c), NEW r \in Resources, NEW d, d = remove(c, r)
  PROVE  /\ Becomes(c, d, r, settle(removed(c.res[r])))
         /\ d.map = IF c.res[r].inCache THEN [c.map EXCEPT ![c.res[r].url] = None] ELSE c.map
<1> DEFINE y == c.res[r]
           x == removed(y)
<1>1. c \in CacheType /\ y \in ResourceType /\ Sound(y)
  BY DEF Inv, AllSound, CacheType
<1>2. x \in ResourceType /\ liveOf(x) = 0 /\ deadOf(x) = 0
  BY <1>1, RemovedObject
<1>3. /\ settle(x) \in ResourceType /\ liveOf(settle(x)) = 0 /\ deadOf(settle(x)) = 0
  BY <1>2, SettleCounts
<1>4. size(y) \in Int /\ c.live \in Int /\ c.dead \in Int
  BY <1>1, SizeRange DEF CacheType
<1>5. CASE y.inCache
  <2> DEFINE c2 == adjustSize([c EXCEPT !.map[y.url] = None, !.res[r] = x],
                              y.clients # {}, -size(y))
  <2>1. d = deleteIfPossible(c2, r)
    BY <1>5 DEF remove, removed
  <2>2. /\ c2.res = [c.res EXCEPT ![r] = x] /\ c2.map = [c.map EXCEPT ![y.url] = None]
        /\ c2.live = c.live - liveOf(y) /\ c2.dead = c.dead - deadOf(y)
        /\ c2 \in CacheType
    <3> HIDE DEF x
    <3>1. CASE y.clients # {}
      <4>1. c2 = [c EXCEPT !.map[y.url] = None, !.res[r] = x, !.live = c.live - size(y)]
        BY <1>1, <1>4, <3>1 DEF adjustSize, CacheType
      <4>2. liveOf(y) = size(y) /\ deadOf(y) = 0
        BY <1>5, <3>1 DEF liveOf, deadOf
      <4> HIDE DEF c2
      <4>3. /\ c2.res = [c.res EXCEPT ![r] = x] /\ c2.map = [c.map EXCEPT ![y.url] = None]
            /\ c2.live = c.live - size(y) /\ c2.dead = c.dead
            /\ c2 = [res |-> c2.res, map |-> c2.map, live |-> c2.live, dead |-> c2.dead]
        BY <1>1, <4>1 DEF CacheType
      <4>4. /\ c2.res \in [Resources -> ResourceType] /\ c2.live \in Int /\ c2.dead \in Int
            /\ c2.map \in [Urls -> Resources \cup {None}]
        <5>1. c2.res \in [Resources -> ResourceType]
          BY <1>1, <1>2, <4>3 DEF CacheType
        <5>2. c2.live \in Int /\ c2.dead \in Int
          BY <1>4, <4>3
        <5>3. c2.map \in [Urls -> Resources \cup {None}]
          BY <1>1, <4>3 DEF CacheType
        <5>4. QED
          BY <5>1, <5>2, <5>3
      <4>5. c2 \in CacheType
        BY <4>3, <4>4 DEF CacheType
      <4>6. QED
        BY <1>4, <4>2, <4>3, <4>5
    <3>2. CASE y.clients = {}
      <4>1. c2 = [c EXCEPT !.map[y.url] = None, !.res[r] = x, !.dead = c.dead - size(y)]
        BY <1>1, <1>4, <3>2 DEF adjustSize, CacheType
      <4>2. liveOf(y) = 0 /\ deadOf(y) = size(y)
        BY <1>5, <3>2 DEF liveOf, deadOf
      <4> HIDE DEF c2
      <4>3. /\ c2.res = [c.res EXCEPT ![r] = x] /\ c2.map = [c.map EXCEPT ![y.url] = None]
            /\ c2.live = c.live /\ c2.dead = c.dead - size(y)
            /\ c2 = [res |-> c2.res, map |-> c2.map, live |-> c2.live, dead |-> c2.dead]
        BY <1>1, <4>1 DEF CacheType
      <4>4. /\ c2.res \in [Resources -> ResourceType] /\ c2.live \in Int /\ c2.dead \in Int
            /\ c2.map \in [Urls -> Resources \cup {None}]
        <5>1. c2.res \in [Resources -> ResourceType]
          BY <1>1, <1>2, <4>3 DEF CacheType
        <5>2. c2.live \in Int /\ c2.dead \in Int
          BY <1>4, <4>3
        <5>3. c2.map \in [Urls -> Resources \cup {None}]
          BY <1>1, <4>3 DEF CacheType
        <5>4. QED
          BY <5>1, <5>2, <5>3
      <4>5. c2 \in CacheType
        BY <4>3, <4>4 DEF CacheType
      <4>6. QED
        BY <1>4, <4>2, <4>3, <4>5
    <3>3. QED
      BY <3>1, <3>2
  <2> HIDE DEF c2, x
  <2>3. d = [c2 EXCEPT !.res[r] = settle(c2.res[r])] /\ c2.res[r] = x
    BY <1>1, <2>1, <2>2, DeleteIfPossible DEF CacheType
  <2>4. /\ d \in CacheType /\ d.res = [c.res EXCEPT ![r] = settle(x)]
        /\ d.map = c2.map /\ d.live = c2.live /\ d.dead = c2.dead
    BY <1>1, <1>3, <2>2, <2>3 DEF CacheType
  <2>5. liveOf(y) \in Int /\ deadOf(y) \in Int
    BY <1>1, CountRange
  <2>6. QED
    BY <1>3, <1>4, <1>5, <2>2, <2>4, <2>5 DEF Becomes, x
<1>6. CASE ~y.inCache
  <2>1. d = [c EXCEPT !.res[r] = settle(y)] /\ x = y
    BY <1>1, <1>6, DeleteIfPossible DEF remove, removed
  <2>2. liveOf(y) = 0 /\ deadOf(y) = 0
    BY <1>2, <2>1
  <2> HIDE DEF x
  <2>3. /\ d \in CacheType /\ d.res = [c.res EXCEPT ![r] = settle(x)]
        /\ d.map = c.map /\ d.live = c.live /\ d.dead = c.dead
    BY <1>1, <1>3, <2>1 DEF CacheType
  <2>4. QED
    BY <1>3, <1>4, <1>6, <2>2, <2>3 DEF Becomes, x
<1>7. QED
  BY <1>5, <1>6

(* An object that was given to somebody is removed.                        *)
LEMMA RemoveKept ==
  ASSUME NEW c, NEW t, NEW s, NEW E, Running(c, t, s, E), NEW r \in Resources,
         c.res[r].life # "unborn",
         \A f \in Range(s) : ~(f.op = "load" /\ f.new /\ f.r = r /\ c.res[r].life = "alive")
  PROVE  Running(remove(c, r), t, s, E)
<1> DEFINE y == c.res[r]
           x == removed(y)
           d == remove(c, r)
<1>1. Inv(c) /\ c \in CacheType /\ y \in ResourceType /\ Sound(y)
  BY DEF Running, Inv, AllSound, CacheType
<1>2. /\ x \in ResourceType /\ Formed(x) /\ x.inCache = FALSE
      /\ x.life = y.life /\ x.clients = y.clients /\ x.handles = y.handles
      /\ x.isReval = y.isReval /\ x.reval = y.reval /\ x.request = y.request
      /\ x.preload = y.preload /\ x.loading = y.loading
  BY <1>1, RemovedObject
<1>3. /\ Becomes(c, d, r, settle(x))
      /\ d.map = IF y.inCache THEN [c.map EXCEPT ![y.url] = None] ELSE c.map
  BY <1>1, RemoveIs
<1> HIDE DEF x, d
<1>4. Fits(c, r, x)
  BY <1>1, <1>2, SameLinks
<1>5. MapFits(c, d, r, x)
  <2> SUFFICES ASSUME NEW u \in Urls
               PROVE  d.map[u] \in {c.map[u], None, r} /\ d.map[u] # r
    BY DEF MapFits
  <2>1. c.map \in [Urls -> Resources \cup {None}] /\ None # r
    BY <1>1, Constants DEF CacheType
  <2>2. c.map[u] = r => y.inCache /\ y.url = u
    BY <1>1, <2>1 DEF Inv, Mapped
  <2>3. QED
    BY <1>3, <2>1, <2>2
<1>6. \A f \in Range(s) : FrameFits(f, r, x)
  <2> SUFFICES ASSUME NEW f \in Range(s) PROVE FrameFits(f, r, x)
    OBVIOUS
  <2>1. f \in Frames /\ FrameOK(f, c)
    BY StackParts DEF Running, FramesOK
  <2>2. ~Evictable(x)
    BY <1>2 DEF Evictable
  <2>3. /\ f.op = "switch" /\ f.r = r => f.todo \subseteq x.handles
        /\ f.op = "release" /\ f.r = r => f.h \in x.handles
    BY <1>2, <2>1 DEF FrameOK
  <2>4. Ending(f, r) => x.request = "ending"
    BY <1>2, <2>1 DEF FrameOK
  <2>5. CASE y.life = "alive"
    BY <1>1, <1>2, <2>1, <2>2, <2>3, <2>4, <2>5, SameFrames
  <2>6. CASE y.life # "alive"
    <3>1. x = y
      <4>1. ~y.inCache
        BY <1>1, <2>6, NoObject DEF Sound, Formed
      <4>2. QED
        BY <4>1 DEF x, removed
    <3>2. QED
      BY <1>1, <1>2, <2>1, <2>2, <2>3, <2>4, <3>1, SameFrames
  <2>7. QED
    BY <2>5, <2>6
<1>7. TodoFits(c, t, s, E, r, x)
  BY <1>2 DEF TodoFits
<1>8. Running(d, t, s, E)
  BY <1>2, <1>3, <1>4, <1>5, <1>6, <1>7, RunningKept
<1>9. QED
  BY <1>8 DEF d

(* An object of another size is what it was for everything else.           *)
Resembles(x, y) ==
  /\ x.life = y.life /\ x.url = y.url /\ x.inCache = y.inCache /\ x.access = y.access
  /\ x.clients = y.clients /\ x.handles = y.handles /\ x.request = y.request
  /\ x.preload = y.preload /\ x.referenced = y.referenced /\ x.reval = y.reval
  /\ x.isReval = y.isReval /\ x.loading = y.loading /\ x.errored = y.errored

(* An object changes its sizes while the books are changed with it.        *)
LEMMA ResizedKept ==
  ASSUME NEW c, NEW t, NEW s, NEW E, Running(c, t, s, E),
         NEW r \in Resources, NEW x \in ResourceType, Resembles(x, c.res[r]),
         x.life = "alive", x.inCache => x.access > 0,
         x.listed => x.inCache /\ x.clients # {} /\ x.dec > 0,
         ~x.inCache => x.queue = None,
         \A f \in Range(s) : f.op = "prune" /\ f.pass # "live" /\ Evictable(x) =>
           size(x) <= size(c.res[r]),
         NEW d, d = Resized(c, r, x)
  PROVE  /\ Running(d, t, s, E)
         /\ d.map = c.map /\ \A q \in Resources : q # r => d.res[q] = c.res[q]
         /\ Resembles(d.res[r], x) /\ d.res[r].enc = x.enc /\ d.res[r].dec = x.dec
         /\ d.res[r].listed = x.listed
<1> DEFINE y == c.res[r]
           z == IF x.inCache THEN [x EXCEPT !.queue = lruIndex(x)] ELSE x
<1>1. Inv(c) /\ c \in CacheType /\ y \in ResourceType /\ Sound(y)
  BY DEF Running, Inv, AllSound, CacheType
<1>2. /\ z \in ResourceType /\ Resembles(z, x) /\ z.enc = x.enc /\ z.dec = x.dec
      /\ z.listed = x.listed /\ z.queue = IF x.inCache THEN lruIndex(x) ELSE x.queue
  <2>1. CASE x.inCache
    <3>1. z = [x EXCEPT !.queue = lruIndex(x)] /\ lruIndex(x) \in 0..MaxIndex
      BY <2>1, IndexRange
    <3> HIDE DEF z
    <3>2. QED
      BY <2>1, <3>1 DEF ResourceType, Resembles
  <2>2. CASE ~x.inCache
    BY <2>2 DEF Resembles
  <2>3. QED
    BY <2>1, <2>2
<1>3. size(z) = size(x) /\ lruIndex(z) = lruIndex(x) /\ size(x) \in Int /\ size(y) \in Int
  <2>1. size(x) \in Int /\ size(y) \in Int
    BY <1>1, SizeRange
  <2> HIDE DEF z
  <2>2. size(z) = size(x) /\ z.access = x.access
    BY <1>2 DEF size, Resembles
  <2>3. lruIndex(z) = lruIndex(x)
    BY <2>2 DEF lruIndex
  <2>4. QED
    BY <2>1, <2>2, <2>3
<1>4. /\ c.live \in Int /\ c.dead \in Int /\ c.res \in [Resources -> ResourceType]
      /\ c = [res |-> c.res, map |-> c.map, live |-> c.live, dead |-> c.dead]
  BY <1>1 DEF CacheType
<1>5. /\ d = [res |-> [c.res EXCEPT ![r] = z], map |-> c.map,
              live |-> c.live + liveOf(z) - liveOf(y), dead |-> c.dead + deadOf(z) - deadOf(y)]
      /\ d \in CacheType
  <2>1. CASE x.inCache /\ x.clients # {}
    <3>1. liveOf(z) = size(x) /\ deadOf(z) = 0 /\ liveOf(y) = size(y) /\ deadOf(y) = 0
      BY <1>2, <1>3, <2>1 DEF liveOf, deadOf, Resembles
    <3>2. d = adjustSize([c EXCEPT !.res[r] = z], TRUE, size(x) - size(y))
      BY <2>1 DEF Resized
    <3> HIDE DEF z
    <3>3. d = [[c EXCEPT !.res[r] = z] EXCEPT !.live = @ + (size(x) - size(y))]
      BY <3>2 DEF adjustSize
    <3>4. /\ d = [res |-> [c.res EXCEPT ![r] = z], map |-> c.map,
                  live |-> c.live + (size(x) - size(y)), dead |-> c.dead]
      BY <1>4, <3>3
    <3>5. /\ c.live + (size(x) - size(y)) = c.live + liveOf(z) - liveOf(y)
          /\ c.dead = c.dead + deadOf(z) - deadOf(y)
          /\ c.live + (size(x) - size(y)) \in Int
      BY <1>3, <1>4, <3>1
    <3>6. [c.res EXCEPT ![r] = z] \in [Resources -> ResourceType]
      BY <1>2, <1>4
    <3>7. d \in CacheType
      BY <1>1, <3>4, <3>5, <3>6 DEF CacheType
    <3>8. QED
      BY <3>4, <3>5, <3>7
  <2>2. CASE x.inCache /\ x.clients = {}
    <3>1. deadOf(z) = size(x) /\ liveOf(z) = 0 /\ deadOf(y) = size(y) /\ liveOf(y) = 0
      BY <1>2, <1>3, <2>2 DEF liveOf, deadOf, Resembles
    <3>2. d = adjustSize([c EXCEPT !.res[r] = z], FALSE, size(x) - size(y))
      BY <2>2 DEF Resized
    <3> HIDE DEF z
    <3>3. d = [[c EXCEPT !.res[r] = z] EXCEPT !.dead = @ + (size(x) - size(y))]
      BY <3>2 DEF adjustSize
    <3>4. /\ d = [res |-> [c.res EXCEPT ![r] = z], map |-> c.map,
                  live |-> c.live, dead |-> c.dead + (size(x) - size(y))]
      BY <1>4, <3>3
    <3>5. /\ c.dead + (size(x) - size(y)) = c.dead + deadOf(z) - deadOf(y)
          /\ c.live = c.live + liveOf(z) - liveOf(y)
          /\ c.dead + (size(x) - size(y)) \in Int
      BY <1>3, <1>4, <3>1
    <3>6. [c.res EXCEPT ![r] = z] \in [Resources -> ResourceType]
      BY <1>2, <1>4
    <3>7. d \in CacheType
      BY <1>1, <3>4, <3>5, <3>6 DEF CacheType
    <3>8. QED
      BY <3>4, <3>5, <3>7
  <2>3. CASE ~x.inCache
    <3>1. deadOf(z) = 0 /\ liveOf(z) = 0 /\ deadOf(y) = 0 /\ liveOf(y) = 0
      BY <1>2, <2>3 DEF liveOf, deadOf, Resembles
    <3>2. d = [c EXCEPT !.res[r] = z]
      BY <2>3 DEF Resized
    <3> HIDE DEF z
    <3>3. d = [res |-> [c.res EXCEPT ![r] = z], map |-> c.map, live |-> c.live, dead |-> c.dead]
      BY <1>4, <3>2
    <3>4. /\ c.dead = c.dead + deadOf(z) - deadOf(y)
          /\ c.live = c.live + liveOf(z) - liveOf(y)
      BY <1>4, <3>1
    <3>5. [c.res EXCEPT ![r] = z] \in [Resources -> ResourceType]
      BY <1>2, <1>4
    <3>6. d \in CacheType
      BY <1>1, <3>3, <3>5 DEF CacheType
    <3>7. QED
      BY <3>3, <3>4, <3>6
  <2>4. QED
    BY <2>1, <2>2, <2>3
<1> HIDE DEF z
<1>6. Sound(z)
  <2>1. Sound(y) /\ canDelete(z) = canDelete(y)
    BY <1>1, <1>2 DEF canDelete, Resembles
  <2>2. Listed(z)
    BY <1>2, <1>3 DEF Listed, Resembles
  <2>3. Formed(z)
    BY <1>1, <1>2, <2>1, <2>2 DEF Sound, Formed, Resembles
  <2>4. QED
    BY <1>2, <2>1, <2>3 DEF Sound, Resembles
<1>7. settle(z) = z
  BY <1>2, <1>6, SettleSound DEF Sound, Resembles
<1>8. Becomes(c, d, r, settle(z))
  BY <1>5, <1>7 DEF Becomes
<1>9. Fits(c, r, z)
  BY <1>1, <1>2, <1>6, SameLinks DEF Resembles, Sound
<1>10. MapFits(c, d, r, z)
  <2>1. d.map = c.map
    BY <1>5
  <2>2. QED
    BY <1>1, <1>2, <2>1, Constants DEF MapFits, Inv, Mapped, Resembles
<1>11. \A f \in Range(s) : FrameFits(f, r, z)
  <2> SUFFICES ASSUME NEW f \in Range(s) PROVE FrameFits(f, r, z)
    OBVIOUS
  <2>1. f \in Frames /\ FrameOK(f, c)
    BY StackParts DEF Running, FramesOK
  <2>2. f.op = "prune" /\ f.pass # "live" /\ Evictable(z) => z.queue <= f.i
    <3> SUFFICES ASSUME f.op = "prune", f.pass # "live", Evictable(z) PROVE z.queue <= f.i
      OBVIOUS
    <3>1. Evictable(y) /\ Evictable(x)
      BY <1>2 DEF Evictable, Resembles
    <3>2. y.queue = lruIndex(y) /\ z.queue = lruIndex(x) /\ y.queue <= f.i
      BY <1>1, <1>2, <2>1, <3>1 DEF Sound, Formed, Listed, Evictable, FrameOK
    <3>3. size(x) <= size(y) /\ x.access = y.access
      BY <3>1 DEF Resembles
    <3>4. lruIndex(x) \in 0..MaxIndex /\ lruIndex(y) \in 0..MaxIndex /\ lruIndex(x) <= lruIndex(y)
      BY <1>1, <3>3, IndexGrows
    <3>5. f.i \in 0..MaxIndex
      BY <2>1, FrameTypes
    <3>6. QED
      BY <3>2, <3>4, <3>5, IndexRange
  <2>3. /\ f.op = "switch" /\ f.r = r => f.todo \subseteq z.handles
        /\ f.op = "release" /\ f.r = r => f.h \in z.handles
        /\ Ending(f, r) => z.request = "ending"
    BY <1>2, <2>1 DEF FrameOK, Resembles
  <2>4. QED
    BY <1>1, <1>2, <2>1, <2>2, <2>3, SameFrames DEF Resembles
<1>12. TodoFits(c, t, s, E, r, z)
  BY <1>2 DEF TodoFits, Resembles
<1>13. Running(d, t, s, E)
  BY <1>2, <1>8, <1>9, <1>10, <1>11, <1>12, RunningKept
<1>14. d.map = c.map /\ d.res[r] = z /\ \A q \in Resources : q # r => d.res[q] = c.res[q]
  BY <1>4, <1>5
<1>15. QED
  BY <1>2, <1>13, <1>14

(* No object that is evicted grows while it is looked for.                 *)
NoPrune(s) == \A f \in Range(s) : f.op # "prune"

(* setEncodedSize keeps the cache in order.                                *)
LEMMA SetEncodedSizeKept ==
  ASSUME NEW c, NEW t, NEW s, NEW E, Running(c, t, s, E), NEW r \in Resources,
         c.res[r].life = "alive", NEW n \in 0..Whole,
         n = c.res[r].enc \/ (c.res[r].inCache => c.res[r].access > 0),
         NoPrune(s), NEW d, d = setEncodedSize(c, r, n)
  PROVE  /\ Running(d, t, s, E)
         /\ d.map = c.map /\ \A q \in Resources : q # r => d.res[q] = c.res[q]
         /\ Resembles(d.res[r], c.res[r]) /\ d.res[r].enc = n /\ d.res[r].dec = c.res[r].dec
<1> DEFINE y == c.res[r]
           x == [y EXCEPT !.enc = n]
<1>1. Inv(c) /\ c \in CacheType /\ y \in ResourceType /\ Sound(y)
  BY DEF Running, Inv, AllSound, CacheType
<1>2. /\ x \in ResourceType /\ Resembles(x, y) /\ x.listed = y.listed /\ x.dec = y.dec
      /\ x.queue = y.queue /\ x.enc = n
  BY <1>1 DEF ResourceType, Resembles
<1>3. CASE n = y.enc
  <2>1. d = c
    BY <1>3 DEF setEncodedSize
  <2>2. QED
    BY <1>3, <2>1 DEF Resembles
<1>4. CASE n # y.enc
  <2>1. d = Resized(c, r, x)
    BY <1>4 DEF setEncodedSize
  <2> HIDE DEF x
  <2>2. /\ x.listed => x.inCache /\ x.clients # {} /\ x.dec > 0
        /\ ~x.inCache => x.queue = None
    BY <1>1, <1>2 DEF Sound, Formed, Listed, Resembles
  <2>3. x.life = "alive" /\ (x.inCache => x.access > 0)
    BY <1>2, <1>4 DEF Resembles
  <2>4. /\ Running(d, t, s, E)
        /\ d.map = c.map /\ \A q \in Resources : q # r => d.res[q] = c.res[q]
        /\ Resembles(d.res[r], x) /\ d.res[r].enc = x.enc /\ d.res[r].dec = x.dec
    BY <1>2, <2>1, <2>2, <2>3, ResizedKept DEF NoPrune
  <2>5. QED
    BY <1>2, <2>4 DEF Resembles
<1>5. QED
  BY <1>3, <1>4

(* setDecodedSize keeps the cache in order; a prune may call it to destroy *)
(* decoded data.                                                           *)
LEMMA SetDecodedSizeKept ==
  ASSUME NEW c, NEW t, NEW s, NEW E, Running(c, t, s, E), NEW r \in Resources,
         c.res[r].life = "alive", NEW n \in {0, Decoded},
         n = c.res[r].dec \/ (c.res[r].inCache => c.res[r].access > 0),
         NoPrune(s) \/ n = 0, NEW d, d = setDecodedSize(c, r, n)
  PROVE  /\ Running(d, t, s, E)
         /\ d.map = c.map /\ \A q \in Resources : q # r => d.res[q] = c.res[q]
         /\ Resembles(d.res[r], c.res[r]) /\ d.res[r].dec = n /\ d.res[r].enc = c.res[r].enc
<1> DEFINE y == c.res[r]
           b == y.inCache /\ n > 0 /\ (y.listed \/ y.clients # {})
           x == [y EXCEPT !.dec = n, !.listed = b]
<1>1. Inv(c) /\ c \in CacheType /\ y \in ResourceType /\ Sound(y)
  BY DEF Running, Inv, AllSound, CacheType
<1>2. /\ x \in ResourceType /\ Resembles(x, y) /\ x.listed = b /\ x.dec = n
      /\ x.queue = y.queue /\ x.enc = y.enc
  BY <1>1 DEF ResourceType, Resembles
<1>3. CASE n = y.dec
  <2>1. d = c
    BY <1>3 DEF setDecodedSize
  <2>2. QED
    BY <1>3, <2>1 DEF Resembles
<1>4. CASE n # y.dec
  <2>1. d = Resized(c, r, x)
    BY <1>4 DEF setDecodedSize
  <2>2. /\ b => x.inCache /\ x.clients # {} /\ x.dec > 0
        /\ ~x.inCache => x.queue = None
    BY <1>1, <1>2 DEF Sound, Formed, Listed, Resembles
  <2>3. n = 0 => size(x) <= size(y)
    BY <1>1, <1>2, SizeRange DEF size
  <2> HIDE DEF x
  <2>4. x.life = "alive" /\ (x.inCache => x.access > 0)
    BY <1>2, <1>4 DEF Resembles
  <2>5. \A f \in Range(s) : f.op = "prune" /\ f.pass # "live" /\ Evictable(x) =>
          size(x) <= size(y)
    BY <2>3 DEF NoPrune
  <2>6. x.listed => x.inCache /\ x.clients # {} /\ x.dec > 0
    BY <1>2, <2>2
  <2> HIDE DEF b
  <2>7. /\ Running(d, t, s, E)
        /\ d.map = c.map /\ \A q \in Resources : q # r => d.res[q] = c.res[q]
        /\ Resembles(d.res[r], x) /\ d.res[r].enc = x.enc /\ d.res[r].dec = x.dec
    BY <1>2, <2>1, <2>2, <2>4, <2>5, <2>6, ResizedKept
  <2>8. QED
    BY <1>2, <2>7 DEF Resembles
<1>5. QED
  BY <1>3, <1>4

(* The request of an object is sent, or about to end.                      *)
LEMMA RequestKept ==
  ASSUME NEW c, NEW t, NEW s, NEW E, Running(c, t, s, E), NEW r \in Resources,
         c.res[r].life = "alive", NEW q \in {"loading", "ending"},
         q = "loading" => \A f \in Range(s) : ~Ending(f, r),
         NEW d, d = [c EXCEPT !.res[r].request = q]
  PROVE  Running(d, t, s, E)
<1> DEFINE y == c.res[r]
           x == [y EXCEPT !.request = q]
<1>1. c \in CacheType /\ y \in ResourceType
  BY DEF Running, Inv, CacheType
<1>2. /\ x \in ResourceType /\ Alike(x, y) /\ x.loading = y.loading
      /\ x.request = q /\ x.life = "alive"
  BY <1>1 DEF ResourceType, Alike
<1>3. d = [c EXCEPT !.res[r] = x]
  BY <1>1 DEF CacheType
<1> HIDE DEF x
<1>4. settle(x) = x
  BY <1>2 DEF settle, canDelete
<1>5. \A f \in Range(s) : Ending(f, r) => x.request = "ending"
  BY <1>2
<1>6. QED
  BY <1>2, <1>3, <1>4, <1>5, AlikeKept

(* An object starts to load, or is loaded, or has failed.                  *)
LEMMA LoadingKept ==
  ASSUME NEW c, NEW t, NEW s, NEW E, Running(c, t, s, E), NEW r \in Resources,
         c.res[r].life = "alive", NEW b \in BOOLEAN, NEW e \in BOOLEAN,
         b \/ \A h \in c.res[r].clients :
                \/ h \in t
                \/ \E f \in Range(s) : f.op = "notify" /\ f.r = r /\ h \in f.todo,
         NEW d, d = [c EXCEPT !.res[r].loading = b, !.res[r].errored = e]
  PROVE  Running(d, t, s, E)
<1> DEFINE y == c.res[r]
           x == [y EXCEPT !.loading = b, !.errored = e]
<1>1. c \in CacheType /\ y \in ResourceType /\ Sound(y)
  BY DEF Running, Inv, AllSound, CacheType
<1>2. /\ x \in ResourceType /\ Alike(x, y) /\ x.loading = b
      /\ x.request = y.request /\ x.life = "alive" /\ canDelete(x) = canDelete(y)
  BY <1>1, ZenonT(40) DEF ResourceType, Alike, canDelete
<1>3. d = [c EXCEPT !.res[r] = x]
  BY <1>1 DEF CacheType
<1> HIDE DEF x
<1>4. settle(x) = x
  BY <1>1, <1>2 DEF settle, Sound, Alike
<1>5. \A f \in Range(s) : Ending(f, r) => x.request = "ending"
  BY <1>2, StackParts DEF Running, FramesOK, FrameOK
<1>6. \A h \in x.clients : ~x.loading =>
        \/ h \in t \/ ~c.res[r].loading
        \/ \E f \in Range(s) : f.op = "notify" /\ f.r = r /\ h \in f.todo
  BY <1>2 DEF Alike
<1>7. /\ Alike(x, c.res[r]) /\ x.life = "alive" /\ x \in ResourceType
      /\ d = [c EXCEPT !.res[r] = settle(x)]
  BY <1>2, <1>3, <1>4
<1>8. \A g : g = [c EXCEPT !.res[r] = settle(x)] => Running(g, t, s, E)
  BY <1>5, <1>6, <1>7, AlikeKept
<1>9. QED
  BY <1>7, <1>8

(* error, when a method is to tell the clients.                            *)
Tells(s, c, r) ==
  \A h \in c.res[r].clients :
    \E f \in Range(s) : f.op = "notify" /\ f.r = r /\ h \in f.todo

(* CachedResource::error, once its clients are going to be told.           *)
LEMMA ErrorKept ==
  ASSUME NEW c, NEW t, NEW s, NEW E, Running(c, t, s, E), NEW r \in Resources,
         c.res[r].life = "alive", NoPrune(s),
         Tells(s, c, r)
  PROVE  /\ Running(error(c, r), t, s, E)
         /\ error(c, r).res[r].life = "alive"
         /\ error(c, r).res[r].request = c.res[r].request
<1> DEFINE d == error(c, r)
<1>1. Sound(c.res[r]) /\ c \in CacheType /\ c.res[r] \in ResourceType
  BY DEF Running, Inv, AllSound, CacheType
<1>2. c.res[r].inCache /\ c.res[r].access = 0 => c.res[r].enc = 0 /\ c.res[r].dec = 0
  BY <1>1 DEF Sound, Formed, Untouched
<1>3. c.res[r].inCache => c.res[r].access = 0 \/ c.res[r].access > 0
  BY <1>1 DEF ResourceType
<1> DEFINE c1 == setDecodedSize(c, r, 0)
           c2 == setEncodedSize(c1, r, 0)
<1>4. d = [c2 EXCEPT !.res[r].loading = FALSE, !.res[r].errored = TRUE]
  BY DEF error
<1> HIDE DEF d
<1>5. /\ Running(c1, t, s, E)
      /\ Resembles(c1.res[r], c.res[r]) /\ c1.res[r].enc = c.res[r].enc
  BY <1>2, <1>3, SetDecodedSizeKept
<1> HIDE DEF c1
<1>6. /\ c1.res[r].life = "alive" /\ 0 \in 0..Whole
      /\ 0 = c1.res[r].enc \/ (c1.res[r].inCache => c1.res[r].access > 0)
  BY <1>2, <1>3, <1>5 DEF Resembles, Whole
<1>7. Running(c2, t, s, E) /\ Resembles(c2.res[r], c1.res[r])
  BY <1>5, <1>6, SetEncodedSizeKept
<1> HIDE DEF c2
<1>8. /\ c2.res[r].life = "alive" /\ c2.res[r].clients = c.res[r].clients
      /\ c2.res[r].request = c.res[r].request
  BY <1>5, <1>6, <1>7 DEF Resembles
<1>9. Running(d, t, s, E)
  BY <1>4, <1>7, <1>8, LoadingKept DEF Tells
<1>10. d.res[r].life = "alive" /\ d.res[r].request = c2.res[r].request
  <2>1. c2 \in CacheType
    BY <1>7 DEF Running, Inv
  <2>2. c2.res \in [Resources -> ResourceType]
    BY <2>1 DEF CacheType
  <2> DEFINE x == [c2.res[r] EXCEPT !.loading = FALSE, !.errored = TRUE]
  <2>3. d.res[r] = x
    <3>1. d = [c2 EXCEPT !.res[r] = x]
      BY <1>4, <2>1, <2>2 DEF CacheType
    <3> HIDE DEF x
    <3>2. QED
      BY <2>1, <2>2, <3>1 DEF CacheType
  <2>4. QED
    BY <1>8, <2>2, <2>3 DEF ResourceType
<1>11. QED
  BY <1>8, <1>9, <1>10 DEF d

(* An object in the cache is accessed.                                     *)
accessed(y) == [y EXCEPT !.access = Min({@ + 1, MaxAccess}),
                         !.queue = lruIndex([y EXCEPT !.access = Min({@ + 1, MaxAccess})])]

(* What resourceAccessed makes of an object: it has been accessed and is   *)
(* in the queue of its size.                                               *)
LEMMA AccessedObject ==
  ASSUME NEW y \in ResourceType
  PROVE  LET x == accessed(y) IN
         /\ x \in ResourceType /\ x.access > 0 /\ x.queue = lruIndex(x)
         /\ x.enc = y.enc /\ x.dec = y.dec /\ x.listed = y.listed
         /\ x.life = y.life /\ x.url = y.url /\ x.inCache = y.inCache
         /\ x.clients = y.clients /\ x.handles = y.handles /\ x.request = y.request
         /\ x.preload = y.preload /\ x.reval = y.reval /\ x.isReval = y.isReval
         /\ x.loading = y.loading /\ x.referenced = y.referenced /\ x.errored = y.errored
<1> DEFINE k == Min({y.access + 1, MaxAccess})
           w == [y EXCEPT !.access = k]
           x == accessed(y)
<1>1. k \in 1..MaxAccess
  <2>1. y.access + 1 \in Int /\ MaxAccess \in Int /\ y.access + 1 >= 1 /\ MaxAccess >= 1
    BY Constants DEF ResourceType
  <2>2. k = IF y.access + 1 <= MaxAccess THEN y.access + 1 ELSE MaxAccess
    BY <2>1, MinOfTwo
  <2>3. QED
    BY <2>1, <2>2
<1> HIDE DEF k
<1>2. w \in ResourceType
  BY <1>1 DEF ResourceType
<1>3. lruIndex(w) \in 0..MaxIndex
  BY <1>2, IndexRange
<1>4. x = [y EXCEPT !.access = k, !.queue = lruIndex(w)]
  BY DEF accessed, k
<1> DEFINE i == lruIndex(w)
<1> HIDE DEF w, i
<1>5. x = [y EXCEPT !.access = k, !.queue = i] /\ i \in 0..MaxIndex
  BY <1>3, <1>4 DEF i
<1> HIDE DEF x
<1>6. /\ x \in ResourceType /\ x.access = k /\ x.queue = i
      /\ x.enc = y.enc /\ x.dec = y.dec /\ x.listed = y.listed
      /\ x.life = y.life /\ x.url = y.url /\ x.inCache = y.inCache
      /\ x.clients = y.clients /\ x.handles = y.handles /\ x.request = y.request
      /\ x.preload = y.preload /\ x.reval = y.reval /\ x.isReval = y.isReval
      /\ x.loading = y.loading /\ x.referenced = y.referenced /\ x.errored = y.errored
  <2>1. k \in 0..MaxAccess /\ i \in (0..MaxIndex) \cup {None}
    BY <1>1, <1>5, Constants
  <2>2. x \in ResourceType
    BY <1>5, <2>1 DEF ResourceType
  <2>3. x.access = k /\ x.queue = i
    BY <1>5 DEF ResourceType
  <2>4. QED
    BY <1>5, <2>2, <2>3
<1>7. i = lruIndex(x)
  <2>1. w.enc = y.enc /\ w.dec = y.dec /\ w.access = k
    BY DEF w, ResourceType
  <2>2. QED
    BY <1>6, <2>1 DEF i, lruIndex, size
<1>8. QED
  BY <1>1, <1>6, <1>7 DEF x
access(c, r, M) ==
  [res |-> [c.res EXCEPT ![r] = accessed(c.res[r])], map |-> M, live |-> c.live, dead |-> c.dead]

(* An object in the cache is accessed.                                     *)
LEMMA AccessedKept ==
  ASSUME NEW c, NEW t, NEW s, NEW E, Running(c, t, s, E), NEW r \in Resources,
         c.res[r].inCache, NoPrune(s),
         \A f \in Range(s) : ~(f.op = "load" /\ f.new /\ f.r = r),
         NEW M, M = c.map \/ \E u \in Urls : u = c.res[r].url /\ M = [c.map EXCEPT ![u] = r]
  PROVE  /\ Running(access(c, r, M), t, s, E)
         /\ access(c, r, M).res[r] = accessed(c.res[r])
         /\ \A q \in Resources : q # r => access(c, r, M).res[q] = c.res[q]
<1> DEFINE y == c.res[r]
           x == accessed(y)
           d == access(c, r, M)
<1>1. /\ Inv(c) /\ c \in CacheType /\ y \in ResourceType /\ Sound(y)
      /\ c.res \in [Resources -> ResourceType] /\ c.map \in [Urls -> Resources \cup {None}]
      /\ c = [res |-> c.res, map |-> c.map, live |-> c.live, dead |-> c.dead]
      /\ c.live \in Int /\ c.dead \in Int
  BY DEF Running, Inv, AllSound, CacheType
<1>2. /\ x \in ResourceType /\ x.access > 0 /\ x.queue = lruIndex(x)
      /\ x.enc = y.enc /\ x.dec = y.dec /\ x.listed = y.listed
      /\ x.life = y.life /\ x.url = y.url /\ x.inCache = y.inCache
      /\ x.clients = y.clients /\ x.handles = y.handles /\ x.request = y.request
      /\ x.preload = y.preload /\ x.reval = y.reval /\ x.isReval = y.isReval
      /\ x.loading = y.loading
  BY <1>1, AccessedObject
<1>3. x.life = "alive" /\ x.inCache = TRUE
  BY <1>1, <1>2, NoObject DEF Sound, Formed, ResourceType
<1> HIDE DEF x
<1>4. Formed(x) /\ settle(x) = x
  <2>1. Listed(x)
    BY <1>1, <1>2, <1>3 DEF Listed, Sound, Formed
  <2>2. x.inCache /\ x.access = 0 => FALSE
    BY <1>2
  <2>3. Formed(x)
    BY <1>1, <1>2, <1>3, <2>1, <2>2 DEF Sound, Formed
  <2>4. settle(x) = x
    BY <1>3 DEF settle
  <2>5. QED
    BY <2>3, <2>4
<1>5. liveOf(x) = liveOf(y) /\ deadOf(x) = deadOf(y) /\ liveOf(y) \in Int /\ deadOf(y) \in Int
  BY <1>1, <1>2, CountRange DEF liveOf, deadOf, size
<1>6. d = [res |-> [c.res EXCEPT ![r] = x], map |-> M, live |-> c.live, dead |-> c.dead]
  BY <1>1 DEF x, access
<1> HIDE DEF d
<1>7. M \in [Urls -> Resources \cup {None}]
  BY <1>1
<1>8. d \in CacheType
  BY <1>1, <1>2, <1>6, <1>7 DEF CacheType
<1>9. Becomes(c, d, r, settle(x))
  <2>1. d.res = [c.res EXCEPT ![r] = x] /\ d.live = c.live /\ d.dead = c.dead
    BY <1>6
  <2>2. c.live = c.live + liveOf(x) - liveOf(y) /\ c.dead = c.dead + deadOf(x) - deadOf(y)
    BY <1>1, <1>5
  <2>3. QED
    BY <1>4, <1>8, <2>1, <2>2 DEF Becomes
<1>10. Fits(c, r, x)
  BY <1>1, <1>2, <1>4, SameLinks
<1>11. MapFits(c, d, r, x)
  <2> SUFFICES ASSUME NEW u \in Urls
               PROVE  /\ d.map[u] \in {c.map[u], None, r}
                      /\ d.map[u] = r => x.inCache /\ x.access > 0 /\ x.url = u
    BY DEF MapFits
  <2>1. c.map[u] = r => y.url = u
    BY <1>1, Constants DEF Inv, Mapped
  <2>2. d.map = M /\ (M[u] = c.map[u] \/ (M[u] = r /\ y.url = u))
    <3>1. CASE M = c.map
      BY <1>6, <3>1
    <3>2. CASE \E v \in Urls : v = y.url /\ M = [c.map EXCEPT ![v] = r]
      <4>1. PICK v \in Urls : v = y.url /\ M = [c.map EXCEPT ![v] = r]
        BY <3>2
      <4>2. M[u] = IF u = v THEN r ELSE c.map[u]
        BY <1>1, <4>1
      <4>3. d.map = M
        BY <1>6
      <4>4. QED
        BY <4>1, <4>2, <4>3
    <3>3. QED
      BY <3>1, <3>2
  <2>3. QED
    BY <1>2, <1>3, <2>1, <2>2
<1>12. \A f \in Range(s) : FrameFits(f, r, x)
  <2> SUFFICES ASSUME NEW f \in Range(s) PROVE FrameFits(f, r, x)
    OBVIOUS
  <2>1. f \in Frames /\ FrameOK(f, c)
    BY StackParts DEF Running, FramesOK
  <2>2. /\ f.op = "switch" /\ f.r = r => f.todo \subseteq x.handles
        /\ f.op = "release" /\ f.r = r => f.h \in x.handles
        /\ Ending(f, r) => x.request = "ending"
        /\ f.op # "prune" /\ ~(f.op = "load" /\ f.new /\ f.r = r)
    BY <1>2, <2>1 DEF FrameOK, NoPrune
  <2>3. QED
    BY <1>1, <1>2, <2>1, <2>2, SameFrames
<1>13. TodoFits(c, t, s, E, r, x)
  BY <1>2 DEF TodoFits
<1>14. Running(d, t, s, E)
  BY <1>2, <1>9, <1>10, <1>11, <1>12, <1>13, RunningKept
<1>15. d.res[r] = x /\ \A q \in Resources : q # r => d.res[q] = c.res[q]
  BY <1>1, <1>6
<1>16. QED
  BY <1>14, <1>15 DEF x, d

(* A holder is given a handle.                                             *)
handed(c, r, H) == [c EXCEPT !.res[r].handles = @ \cup H]

(* Handles are made for holders that have none.                            *)
LEMMA HandleKept ==
  ASSUME NEW c, NEW t, NEW s, NEW E, Running(c, t, s, E), NEW r \in Resources,
         c.res[r].life = "alive", c.res[r].inCache => c.res[r].access > 0,
         NEW H \in SUBSET Holders, \A h \in H : Free(c, h),
         \A f \in Range(s) : Delivers(f) => f.h \notin H
  PROVE  /\ Running(handed(c, r, H), t, s, E)
         /\ handed(c, r, H).map = c.map
         /\ handed(c, r, H).live = c.live /\ handed(c, r, H).dead = c.dead
         /\ handed(c, r, H).res[r] = [c.res[r] EXCEPT !.handles = @ \cup H]
         /\ \A q \in Resources : q # r => handed(c, r, H).res[q] = c.res[q]
<1> DEFINE d == handed(c, r, H)
           y == c.res[r]
           x == [y EXCEPT !.handles = @ \cup H]
<1>1. /\ Inv(c) /\ c \in CacheType /\ y \in ResourceType /\ Sound(y)
      /\ c.res \in [Resources -> ResourceType]
      /\ c = [res |-> c.res, map |-> c.map, live |-> c.live, dead |-> c.dead]
      /\ c.live \in Int /\ c.dead \in Int
  BY DEF Running, Inv, AllSound, CacheType
<1>2. /\ x \in ResourceType /\ x.access = y.access /\ x.queue = y.queue
      /\ x.enc = y.enc /\ x.dec = y.dec /\ x.listed = y.listed
      /\ x.life = y.life /\ x.url = y.url /\ x.inCache = y.inCache
      /\ x.clients = y.clients /\ x.handles = y.handles \cup H /\ x.request = y.request
      /\ x.preload = y.preload /\ x.reval = y.reval /\ x.isReval = y.isReval
      /\ x.loading = y.loading
  BY <1>1 DEF ResourceType
<1> HIDE DEF x
<1>3. lruIndex(x) = lruIndex(y) /\ size(x) = size(y)
  BY <1>2 DEF lruIndex, size
<1>4. Formed(x)
  <2>1. Listed(x)
    BY <1>1, <1>2, <1>3 DEF Sound, Formed, Listed
  <2>2. x.inCache /\ x.access = 0 => FALSE
    BY <1>2
  <2>3. QED
    BY <1>1, <1>2, <2>1, <2>2 DEF Sound, Formed
<1>5. settle(x) = x
  <2>1. canDelete(x) => canDelete(y)
    BY <1>2 DEF canDelete
  <2>2. QED
    BY <1>1, <1>2, <2>1 DEF settle, Sound
<1>6. liveOf(x) = liveOf(y) /\ deadOf(x) = deadOf(y) /\ liveOf(y) \in Int /\ deadOf(y) \in Int
  BY <1>1, <1>2, <1>3, CountRange DEF liveOf, deadOf
<1>7. d = [res |-> [c.res EXCEPT ![r] = x], map |-> c.map, live |-> c.live, dead |-> c.dead]
  <2>1. d = [c EXCEPT !.res[r] = x]
    BY DEF x, handed
  <2> HIDE DEF d
  <2>2. QED
    BY <1>1, <2>1
<1> HIDE DEF d
<1>8. d \in CacheType
  BY <1>1, <1>2, <1>7 DEF CacheType
<1>9. Becomes(c, d, r, settle(x))
  <2>1. d.res = [c.res EXCEPT ![r] = x] /\ d.live = c.live /\ d.dead = c.dead
    BY <1>7
  <2>2. c.live = c.live + liveOf(x) - liveOf(y) /\ c.dead = c.dead + deadOf(x) - deadOf(y)
    BY <1>1, <1>6
  <2>3. QED
    BY <1>5, <1>8, <2>1, <2>2 DEF Becomes
<1>10. Fits(c, r, x)
  <2>1. \A n \in Resources : c.res[n].reval = r => x.life = "alive" /\ x.isReval
    <3> SUFFICES ASSUME NEW n \in Resources, c.res[n].reval = r PROVE x.life = "alive" /\ x.isReval
      OBVIOUS
    <3>1. y.life = "alive" /\ y.isReval
      BY <1>1, Constants DEF Inv, Revalidates
    <3>2. QED
      BY <1>2, <3>1
  <2>2. \A h \in x.handles : h \in y.handles \/ Free(c, h)
    BY <1>2
  <2>3. QED
    BY <1>2, <1>4, <2>1, <2>2 DEF Fits
<1>11. MapFits(c, d, r, x)
  <2>1. d.map = c.map
    BY <1>7
  <2>2. QED
    BY <1>1, <1>2, <2>1, Constants DEF MapFits, Inv, Mapped
<1>12. \A f \in Range(s) : FrameFits(f, r, x)
  <2> SUFFICES ASSUME NEW f \in Range(s) PROVE FrameFits(f, r, x)
    OBVIOUS
  <2>1. f \in Frames /\ FrameOK(f, c)
    BY StackParts DEF Running, FramesOK
  <2>2. Delivers(f) => f.h \notin x.handles
    BY <1>2, <2>1 DEF FrameOK, Free
  <2>3. ~(f.op = "load" /\ f.new /\ f.r = r)
    BY <1>1, <2>1 DEF FrameOK, ResourceType
  <2>4. f.op = "prune" /\ f.pass # "live" /\ Evictable(x) => x.queue <= f.i
    BY <1>2, <2>1 DEF FrameOK, Evictable
  <2>5. /\ f.op = "switch" /\ f.n = r => x.reval = f.r
        /\ Ending(f, r) => x.request = "ending"
    BY <1>2, <2>1 DEF FrameOK
  <2>6. f.op = "switch" /\ f.r = r => f.todo \subseteq x.handles /\ f.todo \cap x.clients = {}
    BY <1>2, <2>1 DEF FrameOK
  <2>7. /\ f.op = "release" /\ f.r = r => f.h \notin x.clients /\ f.h \in x.handles
        /\ f.op = "clear" /\ r \in f.todo => x.preload > 0
    BY <1>2, <2>1 DEF FrameOK
  <2>8. QED
    BY <2>2, <2>3, <2>4, <2>5, <2>6, <2>7 DEF FrameFits
<1>13. TodoFits(c, t, s, E, r, x)
  BY <1>2 DEF TodoFits
<1>14. Running(d, t, s, E)
  BY <1>2, <1>9, <1>10, <1>11, <1>12, <1>13, RunningKept
<1>15. d.res[r] = x /\ \A q \in Resources : q # r => d.res[q] = c.res[q]
  BY <1>1, <1>7
<1>16. QED
  BY <1>7, <1>14, <1>15 DEF x, d

(* The usual case: the map stays, and the totals move with the object.     *)
Put(c, r, x) ==
  [res |-> [c.res EXCEPT ![r] = settle(x)], map |-> c.map,
   live |-> c.live + liveOf(x) - liveOf(c.res[r]),
   dead |-> c.dead + deadOf(x) - deadOf(c.res[r])]

(* One object is replaced by another that fits where it was, and is        *)
(* deleted if it can be.                                                   *)
LEMMA PutKept ==
  ASSUME NEW c, NEW t, NEW s, NEW E, Running(c, t, s, E), NEW r \in Resources,
         NEW x \in ResourceType, Fits(c, r, x),
         c.res[r].inCache /\ c.res[r].access > 0 =>
           x.inCache /\ x.access > 0 /\ x.url = c.res[r].url,
         \A f \in Range(s) : f \in Frames /\ FrameOK(f, c) => FrameFits(f, r, x),
         TodoFits(c, t, s, E, r, x)
  PROVE  /\ Running(Put(c, r, x), t, s, E)
         /\ Put(c, r, x).res[r] = settle(x) /\ Put(c, r, x).map = c.map
         /\ \A q \in Resources : q # r => Put(c, r, x).res[q] = c.res[q]
<1> DEFINE y == c.res[r]
           z == settle(x)
           d == Put(c, r, x)
<1>1. /\ Inv(c) /\ c \in CacheType /\ y \in ResourceType
      /\ c.res \in [Resources -> ResourceType]
      /\ c.live \in Int /\ c.dead \in Int /\ c.map \in [Urls -> Resources \cup {None}]
  BY DEF Running, Inv, CacheType
<1>2. z \in ResourceType /\ liveOf(z) = liveOf(x) /\ deadOf(z) = deadOf(x)
  BY SettleCounts
<1>3. /\ liveOf(x) \in Int /\ deadOf(x) \in Int /\ liveOf(y) \in Int /\ deadOf(y) \in Int
  BY <1>1, CountRange
<1>4. /\ d.res = [c.res EXCEPT ![r] = z] /\ d.map = c.map
      /\ d.live = c.live + liveOf(z) - liveOf(y) /\ d.dead = c.dead + deadOf(z) - deadOf(y)
  BY <1>2 DEF Put
<1>5. d \in CacheType
  <2> DEFINE R == [c.res EXCEPT ![r] = z]
             l == c.live + liveOf(x) - liveOf(y)
             k == c.dead + deadOf(x) - deadOf(y)
  <2>1. R \in [Resources -> ResourceType] /\ l \in Int /\ k \in Int
    BY <1>1, <1>2, <1>3
  <2>2. d = [res |-> R, map |-> c.map, live |-> l, dead |-> k]
    BY DEF Put
  <2> HIDE DEF R, l, k, d
  <2>3. QED
    BY <1>1, <2>1, <2>2 DEF CacheType
<1> HIDE DEF d
<1>6. Becomes(c, d, r, settle(x))
  BY <1>4, <1>5 DEF Becomes
<1>7. MapFits(c, d, r, x)
  BY <1>1, <1>4, Constants DEF MapFits, Inv, Mapped
<1>8. \A f \in Range(s) : FrameFits(f, r, x)
  BY StackParts DEF Running, FramesOK
<1>9. Running(d, t, s, E)
  BY <1>6, <1>7, <1>8, RunningKept
<1> HIDE DEF z
<1>10. d.res[r] = z /\ \A q \in Resources : q # r => d.res[q] = c.res[q]
  BY <1>1, <1>4
<1>11. QED
  BY <1>4, <1>9, <1>10 DEF d, z

(* addClient, on the object, and what it moves between the totals.         *)
joined(y, h) == [y EXCEPT !.clients = @ \cup {h}, !.referenced = TRUE]
moves(y) == IF y.clients = {} /\ y.inCache THEN size(y) ELSE 0

(* What addClient changes: the object, and its size moves to the live ones *)
(* if it was dead.                                                         *)
LEMMA AddClientIs ==
  ASSUME NEW c \in CacheType, NEW r \in Resources, NEW h
  PROVE  addClient(c, r, h)
           = [res |-> [c.res EXCEPT ![r] = joined(c.res[r], h)], map |-> c.map,
              live |-> c.live + moves(c.res[r]), dead |-> c.dead - moves(c.res[r])]
<1> DEFINE y == c.res[r]
           x == joined(y, h)
           n == moves(y)
           d == addClient(c, r, h)
           v == [y EXCEPT !.clients = @ \cup {h}]
           a == [res |-> [c.res EXCEPT ![r] = v], map |-> c.map, live |-> c.live, dead |-> c.dead]
           b == [res |-> [c.res EXCEPT ![r] = x], map |-> c.map, live |-> c.live, dead |-> c.dead]
<1>1. /\ c.res \in [Resources -> ResourceType]
      /\ c = [res |-> c.res, map |-> c.map, live |-> c.live, dead |-> c.dead]
  BY DEF CacheType
<1>2. d = [c EXCEPT !.res[r].clients = @ \cup {h}, !.res[r].referenced = TRUE,
                   !.live = @ + n, !.dead = @ - n]
  BY DEF addClient, moves
<1>3. [c EXCEPT !.res[r].clients = @ \cup {h}] = a
  <2>1. [c EXCEPT !.res[r].clients = @ \cup {h}] = [c EXCEPT !.res[r] = v]
    OBVIOUS
  <2> HIDE DEF v
  <2>2. QED
    BY <1>1, <2>1
<1>4. [a EXCEPT !.res[r].referenced = TRUE] = b
  <2>1. [v EXCEPT !.referenced = TRUE] = x
    BY DEF joined
  <2> HIDE DEF v, x
  <2>2. a.res[r] = v /\ [a.res EXCEPT ![r] = x] = [c.res EXCEPT ![r] = x]
    BY <1>1
  <2>3. QED
    BY <2>1, <2>2
<1> HIDE DEF a, n, x
<1>5. d = [b EXCEPT !.live = @ + n, !.dead = @ - n]
  BY <1>2, <1>3, <1>4
<1>6. QED
  BY <1>5 DEF n, x

(* A holder that has a handle becomes a client.                            *)
LEMMA AddClientKept ==
  ASSUME NEW c, NEW t, NEW s, NEW E, Running(c, t, s, E), NEW r \in Resources,
         NEW h \in c.res[r].handles, h \in t \/ c.res[r].loading,
         \A f \in Range(s) :
           /\ f.op # "release"
           /\ f.op = "switch" /\ f.r = r => h \notin f.todo
  PROVE  Running(addClient(c, r, h), t, s, E)
<1> DEFINE y == c.res[r]
           x == joined(y, h)
           n == moves(y)
           d == addClient(c, r, h)
<1>1. /\ Inv(c) /\ c \in CacheType /\ y \in ResourceType /\ Sound(y)
      /\ c.res \in [Resources -> ResourceType]
      /\ c = [res |-> c.res, map |-> c.map, live |-> c.live, dead |-> c.dead]
      /\ c.live \in Int /\ c.dead \in Int
  BY DEF Running, Inv, AllSound, CacheType
<1>2. /\ x.access = y.access /\ x.queue = y.queue
      /\ x.enc = y.enc /\ x.dec = y.dec /\ x.listed = y.listed
      /\ x.life = y.life /\ x.url = y.url /\ x.inCache = y.inCache
      /\ x.clients = y.clients \cup {h} /\ x.handles = y.handles /\ x.request = y.request
      /\ x.preload = y.preload /\ x.reval = y.reval /\ x.isReval = y.isReval
      /\ x.loading = y.loading
  BY <1>1 DEF ResourceType, joined
<1>3. x \in ResourceType /\ h \in Holders
  BY <1>1 DEF ResourceType, joined
<1>4. size(y) \in Int /\ n \in Int
  BY <1>1, SizeRange DEF moves
<1>5. d = [res |-> [c.res EXCEPT ![r] = x], map |-> c.map, live |-> c.live + n, dead |-> c.dead - n]
  BY <1>1, AddClientIs
<1> HIDE DEF x
<1>6. lruIndex(x) = lruIndex(y) /\ size(x) = size(y)
  BY <1>2 DEF lruIndex, size
<1>7. y.life = "alive" /\ ~(x.inCache /\ x.access = 0)
  <2>1. y.life = "alive"
    BY <1>1, NoObject DEF Sound, Formed
  <2>2. ~(y.inCache /\ y.access = 0)
    BY <1>1 DEF Sound, Formed, Untouched
  <2>3. QED
    BY <1>2, <2>1, <2>2
<1>8. Formed(x)
  <2>1. Listed(x)
    BY <1>1, <1>2, <1>6 DEF Sound, Formed, Listed
  <2>2. QED
    BY <1>1, <1>2, <1>7, <2>1 DEF Sound, Formed
<1>9. settle(x) = x
  BY <1>2 DEF settle, canDelete
<1>10. n = liveOf(x) - liveOf(y) /\ -n = deadOf(x) - deadOf(y)
  BY <1>2, <1>4, <1>6 DEF liveOf, deadOf, moves
<1>11. d = Put(c, r, x)
  <2>1. liveOf(x) \in Int /\ liveOf(y) \in Int /\ deadOf(x) \in Int /\ deadOf(y) \in Int /\ n \in Int
    BY <1>1, <1>3, <1>4, CountRange
  <2> HIDE DEF n, d
  <2>2. /\ c.live + n = c.live + liveOf(x) - liveOf(y)
        /\ c.dead - n = c.dead + deadOf(x) - deadOf(y)
    BY <1>1, <1>10, <2>1
  <2>3. QED
    BY <1>5, <1>9, <2>2 DEF Put
<1>12. Fits(c, r, x)
  BY <1>1, <1>2, <1>3, <1>8, SameLinks
<1>13. \A f \in Range(s) : f \in Frames /\ FrameOK(f, c) => FrameFits(f, r, x)
  <2> SUFFICES ASSUME NEW f \in Range(s), f \in Frames, FrameOK(f, c) PROVE FrameFits(f, r, x)
    OBVIOUS
  <2>1. Delivers(f) => f.h \notin x.handles
    BY <1>2 DEF FrameOK, Free
  <2>2. f.op = "load" /\ f.new /\ f.r = r => x.inCache /\ x.access = 0 /\ x.url = f.u
    BY <1>2, <1>7 DEF FrameOK
  <2>3. f.op = "prune" /\ f.pass # "live" /\ Evictable(x) => x.queue <= f.i
    BY <1>2 DEF Evictable
  <2>4. /\ f.op = "switch" /\ f.n = r => x.reval = f.r
        /\ Ending(f, r) => x.request = "ending"
    BY <1>2 DEF FrameOK
  <2>5. f.op = "switch" /\ f.r = r => f.todo \subseteq x.handles /\ f.todo \cap x.clients = {}
    BY <1>2 DEF FrameOK
  <2>6. f.op = "clear" /\ r \in f.todo => x.preload > 0
    BY <1>2 DEF FrameOK
  <2>7. QED
    BY <2>1, <2>2, <2>3, <2>4, <2>5, <2>6 DEF FrameFits
<1>14. TodoFits(c, t, s, E, r, x)
  BY <1>2 DEF TodoFits
<1>15. Running(Put(c, r, x), t, s, E)
  BY <1>2, <1>3, <1>12, <1>13, <1>14, PutKept
<1>16. QED
  BY <1>11, <1>15

(* An object whose part in the totals stays.                               *)
LEMMA SamePut ==
  ASSUME NEW c \in CacheType, NEW r \in Resources, NEW x \in ResourceType,
         x.enc = c.res[r].enc, x.dec = c.res[r].dec, x.inCache = c.res[r].inCache,
         x.clients = c.res[r].clients
  PROVE  /\ deleteIfPossible([c EXCEPT !.res[r] = x], r) = Put(c, r, x)
         /\ settle(x) = x => [c EXCEPT !.res[r] = x] = Put(c, r, x)
         /\ Put(c, r, x) = [res |-> [c.res EXCEPT ![r] = settle(x)], map |-> c.map,
                            live |-> c.live, dead |-> c.dead]
<1> DEFINE y == c.res[r]
           a == [res |-> [c.res EXCEPT ![r] = x], map |-> c.map, live |-> c.live, dead |-> c.dead]
<1>1. /\ c.res \in [Resources -> ResourceType] /\ y \in ResourceType
      /\ c = [res |-> c.res, map |-> c.map, live |-> c.live, dead |-> c.dead]
      /\ c.live \in Int /\ c.dead \in Int /\ c.map \in [Urls -> Resources \cup {None}]
  BY DEF CacheType
<1>2. [c EXCEPT !.res[r] = x] = a
  BY <1>1
<1>3. a \in CacheType /\ a.res[r] = x /\ a.res = [c.res EXCEPT ![r] = x]
  BY <1>1 DEF CacheType
<1>4. liveOf(x) = liveOf(y) /\ deadOf(x) = deadOf(y) /\ liveOf(y) \in Int /\ deadOf(y) \in Int
  BY <1>1, CountRange DEF liveOf, deadOf, size
<1>5. Put(c, r, x) = [res |-> [c.res EXCEPT ![r] = settle(x)], map |-> c.map,
                      live |-> c.live, dead |-> c.dead]
  <2>1. /\ c.live + liveOf(x) - liveOf(y) = c.live
        /\ c.dead + deadOf(x) - deadOf(y) = c.dead
    BY <1>1, <1>4
  <2>2. QED
    BY <2>1 DEF Put
<1>6. deleteIfPossible(a, r) = Put(c, r, x)
  <2> DEFINE z == settle(x)
  <2>1. deleteIfPossible(a, r) = [a EXCEPT !.res[r] = settle(a.res[r])]
    <3> HIDE DEF a
    <3> QED BY <1>3, DeleteIfPossible
  <2>2. deleteIfPossible(a, r) = [a EXCEPT !.res[r] = z]
    BY <1>3, <2>1
  <2> HIDE DEF z
  <2>3. [a EXCEPT !.res[r] = z] = [res |-> [c.res EXCEPT ![r] = z], map |-> c.map,
                                   live |-> c.live, dead |-> c.dead]
    BY <1>1
  <2>4. QED
    BY <1>5, <2>2, <2>3 DEF z
<1>7. QED
  BY <1>2, <1>5, <1>6

(* What a holder, the preload scanner or another object leaves.            *)
LEMMA LessKept ==
  ASSUME NEW c, NEW t, NEW s, NEW E, Running(c, t, s, E), NEW r \in Resources,
         NEW x \in ResourceType,
         x.life = c.res[r].life, x.url = c.res[r].url, x.inCache = c.res[r].inCache,
         x.access = c.res[r].access, x.queue = c.res[r].queue, x.enc = c.res[r].enc,
         x.dec = c.res[r].dec, x.listed = c.res[r].listed, x.clients = c.res[r].clients,
         x.loading = c.res[r].loading, x.request = c.res[r].request,
         x.life = "alive" \/ x = Gone,
         x.handles \subseteq c.res[r].handles, x.clients \subseteq x.handles,
         x.preload \in {0, c.res[r].preload}, x.reval \in {None, c.res[r].reval},
         x.isReval => c.res[r].isReval,
         x.isReval = c.res[r].isReval \/ \A n \in Resources : c.res[n].reval # r,
         \A f \in Range(s) :
           /\ f.op = "release" /\ f.r = r => f.h \in x.handles
           /\ f.op = "switch" /\ f.n = r => x.reval = c.res[r].reval
           /\ f.op = "switch" /\ f.r = r => f.todo \subseteq x.handles
           /\ f.op = "clear" /\ r \in f.todo => x.preload = c.res[r].preload
           /\ f.op = "prune" => x.preload = c.res[r].preload
  PROVE  /\ deleteIfPossible([c EXCEPT !.res[r] = x], r) = Put(c, r, x)
         /\ Running(Put(c, r, x), t, s, E)
         /\ Put(c, r, x).res[r] = settle(x) /\ Put(c, r, x).map = c.map
         /\ \A q \in Resources : q # r => Put(c, r, x).res[q] = c.res[q]
<1> DEFINE y == c.res[r]
<1>1. /\ Inv(c) /\ c \in CacheType /\ y \in ResourceType /\ Sound(y)
  BY DEF Running, Inv, AllSound, CacheType
<1>2. deleteIfPossible([c EXCEPT !.res[r] = x], r) = Put(c, r, x)
  BY <1>1, SamePut
<1>3. lruIndex(x) = lruIndex(y) /\ size(x) = size(y)
  BY DEF lruIndex, size
<1>4. Formed(x)
  <2>1. Listed(x)
    BY <1>1, <1>3 DEF Sound, Formed, Listed
  <2>2. x.inCache /\ x.access = 0 => Untouched(x)
    BY <1>1 DEF Sound, Formed, Untouched
  <2>3. x.life # "alive" => x \in {Unborn, Gone}
    OBVIOUS
  <2>4. x.isReval => x.access > 0 /\ x.reval = None
    BY <1>1 DEF Sound, Formed
  <2>5. QED
    BY <2>1, <2>2, <2>3, <2>4 DEF Formed
<1>5. Fits(c, r, x)
  BY <1>1, <1>4, SameLinks
<1>6. \A f \in Range(s) : f \in Frames /\ FrameOK(f, c) => FrameFits(f, r, x)
  <2> SUFFICES ASSUME NEW f \in Range(s), f \in Frames, FrameOK(f, c) PROVE FrameFits(f, r, x)
    OBVIOUS
  <2>1. f.op = "prune" /\ f.pass # "live" /\ Evictable(x) => x.queue <= f.i
    BY DEF FrameOK, Evictable
  <2>2. Ending(f, r) => x.request = "ending"
    BY DEF FrameOK
  <2>3. QED
    BY <1>1, <2>1, <2>2, SameFrames
<1>7. TodoFits(c, t, s, E, r, x)
  BY DEF TodoFits
<1>8. y.inCache /\ y.access > 0 => x.inCache /\ x.access > 0 /\ x.url = y.url
  OBVIOUS
<1>9. /\ Running(Put(c, r, x), t, s, E)
      /\ Put(c, r, x).res[r] = settle(x) /\ Put(c, r, x).map = c.map
      /\ \A q \in Resources : q # r => Put(c, r, x).res[q] = c.res[q]
  BY <1>5, <1>6, <1>7, <1>8, PutKept
<1>10. QED
  BY <1>2, <1>9

(* A client leaves; it is told when it comes back.                         *)
LEMMA RemoveClientKept ==
  ASSUME NEW c, NEW t, NEW s, NEW E, Running(c, t, s, E), NEW r \in Resources,
         NEW h \in c.res[r].clients, NoPrune(s)
  PROVE  /\ Running(removeClient(c, r, h), t \ {h}, s, E)
         /\ removeClient(c, r, h).res[r].life = "alive"
         /\ h \notin removeClient(c, r, h).res[r].clients
         /\ h \in removeClient(c, r, h).res[r].handles
         /\ removeClient(c, r, h).res[r].inCache => removeClient(c, r, h).res[r].access > 0
<1> DEFINE y == c.res[r]
           v == [y EXCEPT !.clients = @ \ {h}]
           last == v.clients = {} /\ v.inCache
           x == [v EXCEPT !.listed = @ /\ ~last]
           n == IF last THEN size(y) ELSE 0
           d == removeClient(c, r, h)
<1>1. /\ Inv(c) /\ c \in CacheType /\ y \in ResourceType /\ Sound(y)
      /\ c.res \in [Resources -> ResourceType]
      /\ c = [res |-> c.res, map |-> c.map, live |-> c.live, dead |-> c.dead]
      /\ c.live \in Int /\ c.dead \in Int /\ c.map \in [Urls -> Resources \cup {None}]
  BY DEF Running, Inv, AllSound, CacheType
<1>2. v \in ResourceType /\ v.clients = y.clients \ {h} /\ v.inCache = y.inCache
  BY <1>1 DEF ResourceType
<1>3. x \in ResourceType /\ x.listed = (y.listed /\ ~last)
  <2> HIDE DEF v
  <2>1. last \in BOOLEAN /\ v.listed \in BOOLEAN
    BY <1>2 DEF ResourceType
  <2> HIDE DEF last
  <2>2. x \in ResourceType /\ x.listed = (v.listed /\ ~last)
    BY <1>2, <2>1 DEF ResourceType
  <2>3. v.listed = y.listed
    BY <1>1 DEF v, ResourceType
  <2>4. QED
    BY <2>2, <2>3
<1>4. /\ x.access = y.access /\ x.queue = y.queue
      /\ x.enc = y.enc /\ x.dec = y.dec
      /\ x.life = y.life /\ x.url = y.url /\ x.inCache = y.inCache
      /\ x.clients = y.clients \ {h} /\ x.handles = y.handles /\ x.request = y.request
      /\ x.preload = y.preload /\ x.reval = y.reval /\ x.isReval = y.isReval
      /\ x.loading = y.loading
  <2> HIDE DEF last
  <2> QED BY <1>1 DEF ResourceType
<1>5. size(y) \in Int /\ n \in Int
  BY <1>1, SizeRange
<1> DEFINE a == [res |-> [c.res EXCEPT ![r] = v], map |-> c.map, live |-> c.live, dead |-> c.dead]
           b == [res |-> [c.res EXCEPT ![r] = x], map |-> c.map, live |-> c.live - n,
                 dead |-> c.dead + n]
<1>6. [c EXCEPT !.res[r].clients = @ \ {h}] = a
  <2>1. [c EXCEPT !.res[r].clients = @ \ {h}] = [c EXCEPT !.res[r] = v]
    OBVIOUS
  <2> HIDE DEF v
  <2>2. QED
    BY <1>1, <2>1
<1>7. d = deleteIfPossible([a EXCEPT !.res[r].listed = @ /\ ~last, !.live = @ - n, !.dead = @ + n], r)
  <2>1. a.res[r] = v
    BY <1>1
  <2>2. (a.res[r].clients = {} /\ a.res[r].inCache) = last
    BY <2>1
  <2>3. QED
    BY <1>6, <2>2 DEF removeClient
<1>8. [a EXCEPT !.res[r].listed = @ /\ ~last, !.live = @ - n, !.dead = @ + n] = b
  <2> HIDE DEF last, n, v
  <2>1. a.res[r] = v /\ [a.res EXCEPT ![r] = x] = [c.res EXCEPT ![r] = x]
    BY <1>1
  <2>2. [a EXCEPT !.res[r].listed = @ /\ ~last] = [a EXCEPT !.res[r] = x]
    BY <2>1
  <2>3. [a EXCEPT !.res[r] = x] = [res |-> [c.res EXCEPT ![r] = x], map |-> c.map,
                                   live |-> c.live, dead |-> c.dead]
    <3> HIDE DEF x
    <3> QED BY <2>1
  <2>4. [[a EXCEPT !.res[r] = x] EXCEPT !.live = @ - n, !.dead = @ + n] = b
    <3> DEFINE e == [res |-> [c.res EXCEPT ![r] = x], map |-> c.map, live |-> c.live, dead |-> c.dead]
           g == [e EXCEPT !.live = @ - n, !.dead = @ + n]
    <3>1. g = [e EXCEPT !.live = @ - n, !.dead = @ + n]
      OBVIOUS
    <3> HIDE DEF x, a, n, last, g
    <3>2. g = b
      BY <3>1
    <3> HIDE DEF b
    <3>3. QED
      BY <2>3, <3>2 DEF g
  <2> HIDE DEF a, b
  <2>5. QED
    BY <2>2, <2>4
<1> HIDE DEF v, x
<1>9. h \in Holders /\ h \in y.handles /\ x # y
  BY <1>1, <1>4 DEF Sound, Formed, ResourceType
<1>10. lruIndex(x) = lruIndex(y) /\ size(x) = size(y)
  BY <1>4 DEF lruIndex, size
<1>11. y.life = "alive" /\ ~(y.inCache /\ y.access = 0)
  BY <1>1, NoObject DEF Sound, Formed, Untouched
<1>12. last = (x.clients = {} /\ x.inCache)
  BY <1>2, <1>4
<1>13. Formed(x)
  <2>1. Listed(x)
    BY <1>1, <1>3, <1>4, <1>10, <1>12 DEF Sound, Formed, Listed
  <2>2. QED
    BY <1>1, <1>4, <1>11, <2>1 DEF Sound, Formed
<1>14. settle(x) = x
  BY <1>4, <1>9 DEF settle, canDelete
<1>15. -n = liveOf(x) - liveOf(y) /\ n = deadOf(x) - deadOf(y)
  <2>1. n = IF x.clients = {} /\ x.inCache THEN size(y) ELSE 0
    BY <1>12
  <2>2. liveOf(y) = IF y.inCache THEN size(y) ELSE 0
    BY DEF liveOf
  <2>3. deadOf(y) = 0
    BY DEF deadOf
  <2>4. liveOf(x) = IF y.inCache /\ x.clients # {} THEN size(y) ELSE 0
    BY <1>4, <1>10 DEF liveOf
  <2>5. deadOf(x) = IF y.inCache /\ x.clients = {} THEN size(y) ELSE 0
    BY <1>4, <1>10 DEF deadOf
  <2>6. n = IF x.clients = {} /\ y.inCache THEN size(y) ELSE 0
    BY <1>4, <2>1
  <2> HIDE DEF n
  <2>7. QED
    BY <1>5, <2>2, <2>3, <2>4, <2>5, <2>6
<1>16. d = Put(c, r, x)
  <2>1. liveOf(x) \in Int /\ liveOf(y) \in Int /\ deadOf(x) \in Int /\ deadOf(y) \in Int
    BY <1>1, <1>3, CountRange
  <2>2. /\ c.live - n = c.live + liveOf(x) - liveOf(y)
        /\ c.dead + n = c.dead + deadOf(x) - deadOf(y)
    <3> HIDE DEF n, d
    <3> QED BY <1>1, <1>5, <1>15, <2>1
  <2> HIDE DEF n
  <2>3. b \in CacheType /\ b.res[r] = x
    <3>1. c.live - n \in Int /\ c.dead + n \in Int /\ [c.res EXCEPT ![r] = x] \in [Resources -> ResourceType]
      BY <1>1, <1>3, <1>5
    <3>2. QED
      BY <1>1, <3>1 DEF CacheType
  <2>4. d = deleteIfPossible(b, r)
    <3> HIDE DEF a, b, d
    <3> QED BY <1>7, <1>8
  <2> HIDE DEF b, d
  <2>5. d = b
    <3>1. d = IF canDelete(x) /\ ~x.inCache THEN [b EXCEPT !.res[r] = Gone] ELSE b
      BY <2>3, <2>4 DEF deleteIfPossible
    <3>2. ~canDelete(x)
      BY <1>4, <1>9 DEF canDelete
    <3>3. QED
      BY <3>1, <3>2
  <2>6. QED
    BY <1>14, <2>2, <2>5 DEF Put, b
<1> HIDE DEF d
<1>17. Fits(c, r, x)
  BY <1>1, <1>3, <1>4, <1>13, SameLinks
<1>18. \A f \in Range(s) : f \in Frames /\ FrameOK(f, c) => FrameFits(f, r, x)
  <2> SUFFICES ASSUME NEW f \in Range(s), f \in Frames, FrameOK(f, c) PROVE FrameFits(f, r, x)
    OBVIOUS
  <2>1. f.op # "prune" /\ (Ending(f, r) => x.request = "ending")
    BY <1>4 DEF FrameOK, NoPrune
  <2>2. /\ f.op = "switch" /\ f.r = r => f.todo \subseteq x.handles
        /\ f.op = "release" /\ f.r = r => f.h \in x.handles
    BY <1>4 DEF FrameOK
  <2>3. QED
    BY <1>1, <1>3, <1>4, <2>1, <2>2, SameFrames
<1>19. TodoFits(c, t, s, E, r, x)
  BY <1>4 DEF TodoFits
<1>20. y.inCache /\ y.access > 0 => x.inCache /\ x.access > 0 /\ x.url = y.url
  BY <1>4
<1>21. /\ Running(d, t, s, E) /\ d.res[r] = x /\ \A q \in Resources : q # r => d.res[q] = c.res[q]
  BY <1>3, <1>14, <1>16, <1>17, <1>18, <1>19, <1>20, PutKept
<1>22. \A q \in Resources : h \notin d.res[q].clients
  <2> SUFFICES ASSUME NEW q \in Resources, q # r PROVE h \notin c.res[q].clients
    BY <1>4, <1>21
  <2>1. c.res[q].clients \subseteq c.res[q].handles /\ OneHandle(c)
    BY <1>1 DEF Inv, AllSound, Sound, Formed
  <2>2. QED
    BY <1>9, <2>1 DEF OneHandle
<1>23. Running(d, t \ {h}, s, E)
  BY <1>9, <1>21, <1>22, ToldKept
<1>24. x.inCache => x.access > 0
  BY <1>1, <1>3, <1>4, <1>11 DEF ResourceType
<1>25. QED
  BY <1>4, <1>9, <1>11, <1>21, <1>22, <1>23, <1>24 DEF d

(* An object that is changed in one field has the others as they were.     *)
LEMMA OneField ==
  ASSUME NEW c \in CacheType, NEW r \in Resources
  PROVE  /\ \A H : [c EXCEPT !.res[r].handles = @ \ H]
                     = [c EXCEPT !.res[r] = [c.res[r] EXCEPT !.handles = @ \ H]]
         /\ [c EXCEPT !.res[r].preload = 0] = [c EXCEPT !.res[r] = [c.res[r] EXCEPT !.preload = 0]]
         /\ [c EXCEPT !.res[r].preload = 1] = [c EXCEPT !.res[r] = [c.res[r] EXCEPT !.preload = 1]]
         /\ [c EXCEPT !.res[r].reval = None]
              = [c EXCEPT !.res[r] = [c.res[r] EXCEPT !.reval = None]]
         /\ [c EXCEPT !.res[r].isReval = FALSE]
              = [c EXCEPT !.res[r] = [c.res[r] EXCEPT !.isReval = FALSE]]
         /\ [c EXCEPT !.res[r].isReval = TRUE]
              = [c EXCEPT !.res[r] = [c.res[r] EXCEPT !.isReval = TRUE]]
         /\ [c EXCEPT !.res[r].loading = TRUE]
              = [c EXCEPT !.res[r] = [c.res[r] EXCEPT !.loading = TRUE]]
  BY DEF CacheType

(* An object that was deleted has no field left to clear.                  *)
LEMMA NothingToClear ==
  ASSUME NEW y \in ResourceType, Sound(y), y.life # "unborn"
  PROVE  /\ y.life = "alive" \/ y = Gone
         /\ y = Gone => /\ \A H : [y EXCEPT !.handles = @ \ H] = Gone
                        /\ [y EXCEPT !.preload = 0] = Gone
<1>1. y.life = "alive" \/ y = Gone
  BY NoObject DEF Sound, Formed
<1>2. Gone \in ResourceType /\ Gone.handles = {} /\ Gone.preload = 0
  BY NoObject
<1>3. \A H : [Gone EXCEPT !.handles = @ \ H] = Gone
  <2> SUFFICES ASSUME NEW H PROVE [Gone EXCEPT !.handles = @ \ H] = Gone
    OBVIOUS
  <2>1. [Gone EXCEPT !.handles = @ \ H] = [Gone EXCEPT !.handles = Gone.handles]
    BY <1>2
  <2>2. QED
    BY <1>2, <2>1 DEF ResourceType
<1>4. [Gone EXCEPT !.preload = 0] = Gone
  BY <1>2 DEF ResourceType
<1>5. QED
  BY <1>1, <1>3, <1>4

(* A handle is given back, and with the last one perhaps the object.       *)
LEMMA LeaveHandleKept ==
  ASSUME NEW c, NEW t, NEW s, NEW E, Running(c, t, s, E), NEW r \in Resources, NEW h,
         c.res[r].life # "unborn", h \notin c.res[r].clients,
         \A f \in Range(s) :
           f.op # "release" /\ (f.op = "switch" /\ f.r = r => h \notin f.todo)
  PROVE  Running(deleteIfPossible([c EXCEPT !.res[r].handles = @ \ {h}], r), t, s, E)
<1> DEFINE y == c.res[r]
           x == [y EXCEPT !.handles = @ \ {h}]
<1>1. /\ Inv(c) /\ c \in CacheType /\ y \in ResourceType /\ Sound(y)
  BY DEF Running, Inv, AllSound, CacheType
<1>2. /\ x \in ResourceType /\ x.access = y.access /\ x.queue = y.queue
      /\ x.enc = y.enc /\ x.dec = y.dec /\ x.listed = y.listed
      /\ x.life = y.life /\ x.url = y.url /\ x.inCache = y.inCache
      /\ x.clients = y.clients /\ x.handles = y.handles \ {h} /\ x.request = y.request
      /\ x.preload = y.preload /\ x.reval = y.reval /\ x.isReval = y.isReval
      /\ x.loading = y.loading
  BY <1>1 DEF ResourceType
<1>3. x.life = "alive" \/ x = Gone
  BY <1>1, <1>2, NothingToClear
<1>4. [c EXCEPT !.res[r].handles = @ \ {h}] = [c EXCEPT !.res[r] = x]
  BY <1>1, OneField
<1> HIDE DEF x
<1>5. x.clients \subseteq x.handles
  BY <1>1, <1>2 DEF Sound, Formed
<1>6. \A f \in Range(s) :
        /\ f.op = "release" /\ f.r = r => f.h \in x.handles
        /\ f.op = "switch" /\ f.n = r => x.reval = y.reval
        /\ f.op = "switch" /\ f.r = r => f.todo \subseteq x.handles
        /\ f.op = "clear" /\ r \in f.todo => x.preload = y.preload
        /\ f.op = "prune" => x.preload = y.preload
  BY <1>2 DEF Running, FramesOK, FrameOK
<1>7. Running(Put(c, r, x), t, s, E) /\ deleteIfPossible([c EXCEPT !.res[r] = x], r) = Put(c, r, x)
  BY <1>2, <1>3, <1>5, <1>6, LessKept
<1>8. QED
  BY <1>4, <1>7

(* clearResourceToRevalidate: both objects may be deleted.                 *)
LEMMA ClearRevalidateKept ==
  ASSUME NEW c, NEW t, NEW s, NEW E, Running(c, t, s, E), NEW n \in Resources,
         c.res[n].reval # None,
         \A f \in Range(s) : ~(f.op = "switch" /\ f.n = n)
  PROVE  /\ Running(clearResourceToRevalidate(c, n), t, s, E)
         /\ clearResourceToRevalidate(c, n).res[n]
              = settle([c.res[n] EXCEPT !.reval = None])
         /\ clearResourceToRevalidate(c, n).map = c.map
         /\ \A q \in Resources : q # n /\ q # c.res[n].reval =>
              clearResourceToRevalidate(c, n).res[q] = c.res[q]
<1> DEFINE y == c.res[n]
           r == y.reval
           z == c.res[r]
           x == [y EXCEPT !.reval = None]
           w == [z EXCEPT !.isReval = FALSE]
           d == clearResourceToRevalidate(c, n)
<1>1. /\ Inv(c) /\ c \in CacheType /\ y \in ResourceType /\ Sound(y) /\ r \in Resources
  BY DEF Running, Inv, AllSound, CacheType, ResourceType
<1>2. z \in ResourceType /\ Sound(z)
  BY <1>1 DEF Inv, AllSound, CacheType
<1>3. /\ z.life = "alive" /\ z.isReval /\ z.reval = None /\ r # n
      /\ \A m \in Resources : c.res[m].reval = r => m = n
  <2>1. z.life = "alive" /\ z.isReval /\ \A m \in Resources : c.res[m].reval = r => m = n
    BY <1>1 DEF Inv, Revalidates
  <2>2. z.reval = None
    BY <1>2, <2>1 DEF Sound, Formed
  <2>3. QED
    BY <2>1, <2>2
<1>4. y.life = "alive"
  BY <1>1, NoObject DEF Sound, Formed
<1>5. /\ x \in ResourceType /\ x.access = y.access /\ x.queue = y.queue
      /\ x.enc = y.enc /\ x.dec = y.dec /\ x.listed = y.listed
      /\ x.life = y.life /\ x.url = y.url /\ x.inCache = y.inCache
      /\ x.clients = y.clients /\ x.handles = y.handles /\ x.request = y.request
      /\ x.preload = y.preload /\ x.reval = None /\ x.isReval = y.isReval
      /\ x.loading = y.loading
  BY <1>1 DEF ResourceType
<1>6. /\ w \in ResourceType /\ w.access = z.access /\ w.queue = z.queue
      /\ w.enc = z.enc /\ w.dec = z.dec /\ w.listed = z.listed
      /\ w.life = z.life /\ w.url = z.url /\ w.inCache = z.inCache
      /\ w.clients = z.clients /\ w.handles = z.handles /\ w.request = z.request
      /\ w.preload = z.preload /\ w.reval = z.reval /\ w.isReval = FALSE
      /\ w.loading = z.loading
  BY <1>2 DEF ResourceType
<1> DEFINE c1 == deleteIfPossible([c EXCEPT !.res[r].isReval = FALSE], r)
<1>7. /\ c1 = Put(c, r, w)
      /\ Put(c, r, w) = [res |-> [c.res EXCEPT ![r] = settle(w)], map |-> c.map,
                         live |-> c.live, dead |-> c.dead]
  <2>1. [c EXCEPT !.res[r].isReval = FALSE] = [c EXCEPT !.res[r] = w]
    BY <1>1, OneField
  <2> HIDE DEF w, r
  <2>2. QED
    BY <1>1, <1>6, <2>1, SamePut
<1>8. d = deleteIfPossible([c1 EXCEPT !.res[n].reval = None], n)
  BY DEF clearResourceToRevalidate
<1> HIDE DEF x, w, r, c1, d
<1>9. settle(w) \in ResourceType /\ settle(x) \in ResourceType
  BY <1>5, <1>6, SettleCounts
<1>10. c1 \in CacheType /\ c1.res[n] = y /\ c1.res = [c.res EXCEPT ![r] = settle(w)]
       /\ c1.map = c.map /\ c1.live = c.live /\ c1.dead = c.dead
  BY <1>1, <1>3, <1>7, <1>9 DEF CacheType
<1>11. d = [res |-> [c1.res EXCEPT ![n] = settle(x)], map |-> c.map,
            live |-> c.live, dead |-> c.dead]
  <2>1. [c1 EXCEPT !.res[n].reval = None] = [c1 EXCEPT !.res[n] = x]
    BY <1>10, OneField DEF x
  <2>2. /\ deleteIfPossible([c1 EXCEPT !.res[n] = x], n) = Put(c1, n, x)
        /\ Put(c1, n, x) = [res |-> [c1.res EXCEPT ![n] = settle(x)], map |-> c1.map,
                         live |-> c1.live, dead |-> c1.dead]
    <3>1. c1 \in CacheType /\ c1.res[n] = y
      BY <1>10
    <3> HIDE DEF y
    <3>2. QED
      BY <1>5, <3>1, SamePut
  <2>3. QED
    BY <1>8, <1>10, <2>1, <2>2
<1> DEFINE b == Put(c, n, x)
<1>12. /\ Running(b, t, s, E) /\ b.res[n] = settle(x) /\ b.map = c.map
       /\ \A q \in Resources : q # n => b.res[q] = c.res[q]
       /\ b = [res |-> [c.res EXCEPT ![n] = settle(x)], map |-> c.map,
               live |-> c.live, dead |-> c.dead]
  <2>1. x.isReval = y.isReval /\ x.clients \subseteq x.handles
    BY <1>1, <1>5 DEF Sound, Formed
  <2>2. \A f \in Range(s) :
          /\ f.op = "release" /\ f.r = n => f.h \in x.handles
          /\ f.op = "switch" /\ f.n = n => x.reval = y.reval
          /\ f.op = "switch" /\ f.r = n => f.todo \subseteq x.handles
          /\ f.op = "clear" /\ n \in f.todo => x.preload = y.preload
          /\ f.op = "prune" => x.preload = y.preload
    BY <1>5 DEF Running, FramesOK, FrameOK
  <2>3. y.life = "alive" /\ x.life = "alive" /\ y = c.res[n] /\ x.preload \in {0, y.preload}
        /\ x.reval \in {None, y.reval} /\ x.handles \subseteq y.handles
        /\ (x.isReval => y.isReval)
    BY <1>4, <1>5
  <2> HIDE DEF y
  <2>5. /\ deleteIfPossible([c EXCEPT !.res[n] = x], n) = Put(c, n, x)
        /\ Running(Put(c, n, x), t, s, E)
        /\ Put(c, n, x).res[n] = settle(x) /\ Put(c, n, x).map = c.map
        /\ \A q \in Resources : q # n => Put(c, n, x).res[q] = c.res[q]
    BY <1>5, <2>1, <2>2, <2>3, LessKept
  <2>4. QED
    BY <1>1, <1>5, <2>3, <2>5, SamePut
<1> HIDE DEF b
<1>13. b \in CacheType /\ b.res[r] = z
  BY <1>1, <1>3, <1>12 DEF Running, Inv
<1>14. \A m \in Resources : b.res[m].reval # r
  <2>1. settle(x).reval = None
    BY <1>5, NoObject DEF settle
  <2>2. r # None
    BY <1>1, Constants
  <2>3. QED
    BY <1>3, <1>12, <2>1, <2>2
<1> DEFINE a == Put(b, r, w)
<1>15. /\ Running(a, t, s, E)
       /\ a = [res |-> [b.res EXCEPT ![r] = settle(w)], map |-> b.map,
               live |-> b.live, dead |-> b.dead]
  <2>1. w.clients \subseteq w.handles
    BY <1>2, <1>6 DEF Sound, Formed
  <2>2. \A f \in Range(s) :
          /\ f.op = "release" /\ f.r = r => f.h \in w.handles
          /\ f.op = "switch" /\ f.n = r => w.reval = z.reval
          /\ f.op = "switch" /\ f.r = r => f.todo \subseteq w.handles
          /\ f.op = "clear" /\ r \in f.todo => w.preload = z.preload
          /\ f.op = "prune" => w.preload = z.preload
    BY <1>6, <1>13 DEF Running, FramesOK, FrameOK
  <2>3. Running(b, t, s, E) /\ z = b.res[r] /\ z.life = "alive"
    BY <1>3, <1>12, <1>13
  <2> HIDE DEF z, a
  <2>4. /\ deleteIfPossible([b EXCEPT !.res[r] = w], r) = Put(b, r, w)
        /\ Running(Put(b, r, w), t, s, E)
    BY <1>1, <1>6, <1>14, <2>1, <2>2, <2>3, LessKept
  <2>5. /\ deleteIfPossible([b EXCEPT !.res[r] = w], r) = Put(b, r, w)
        /\ Put(b, r, w) = [res |-> [b.res EXCEPT ![r] = settle(w)], map |-> b.map,
                         live |-> b.live, dead |-> b.dead]
    BY <1>1, <1>6, <1>13, <2>3, SamePut
  <2>6. QED
    BY <2>4, <2>5 DEF a
<1>16. a = d
  <2> HIDE DEF a
  <2>1. [b.res EXCEPT ![r] = settle(w)] = [c1.res EXCEPT ![n] = settle(x)]
    <3>1. b.res = [c.res EXCEPT ![n] = settle(x)] /\ c.res \in [Resources -> ResourceType]
      BY <1>1, <1>12 DEF CacheType
    <3> DEFINE sw == settle(w)
               sx == settle(x)
    <3> HIDE DEF sw, sx
    <3>2. [[c.res EXCEPT ![n] = sx] EXCEPT ![r] = sw] = [[c.res EXCEPT ![r] = sw] EXCEPT ![n] = sx]
      BY <1>1, <1>3, <3>1
    <3>3. QED
      BY <1>10, <3>1, <3>2 DEF sw, sx
  <2>2. b.map = c.map /\ b.live = c.live /\ b.dead = c.dead
    BY <1>12
  <2>3. QED
    BY <1>11, <1>15, <2>1, <2>2
<1>17. d.res[n] = settle(x) /\ d.map = c.map
       /\ \A q \in Resources : q # n /\ q # r => d.res[q] = c.res[q]
  <2>1. d.res = [c1.res EXCEPT ![n] = settle(x)] /\ d.map = c.map
    BY <1>11
  <2>2. c.res \in [Resources -> ResourceType]
    BY <1>1 DEF CacheType
  <2> DEFINE sw == settle(w)
             sx == settle(x)
  <2> HIDE DEF sw, sx
  <2>3. d.res = [[c.res EXCEPT ![r] = sw] EXCEPT ![n] = sx]
    BY <1>10, <2>1 DEF sw, sx
  <2>4. d.res[n] = sx /\ \A q \in Resources : q # n /\ q # r => d.res[q] = c.res[q]
    BY <2>2, <2>3
  <2>5. QED
    BY <2>1, <2>4 DEF sx
<1>18. QED
  BY <1>15, <1>16, <1>17 DEF d, x, r

(* An object that starts to load, is preloaded or is to be revalidated:    *)
(* no part of it that could have it deleted.                               *)
LEMMA MoreKept ==
  ASSUME NEW c, NEW t, NEW s, NEW E, Running(c, t, s, E), NEW r \in Resources,
         NEW x \in ResourceType, x.life = "alive", c.res[r].life = "alive",
         c.res[r].inCache => c.res[r].access > 0 \/ (x.preload = c.res[r].preload /\ ~x.isReval),
         x.url = c.res[r].url, x.inCache = c.res[r].inCache,
         x.access = c.res[r].access, x.queue = c.res[r].queue, x.enc = c.res[r].enc,
         x.dec = c.res[r].dec, x.listed = c.res[r].listed, x.clients = c.res[r].clients,
         x.handles = c.res[r].handles, x.request = c.res[r].request,
         x.reval = c.res[r].reval,
         x.preload >= c.res[r].preload,
         c.res[r].isReval => x.isReval,
         x.isReval => c.res[r].isReval \/ (x.access > 0 /\ x.reval = None),
         c.res[r].loading => x.loading
  PROVE  /\ [c EXCEPT !.res[r] = x] = Put(c, r, x)
         /\ Running(Put(c, r, x), t, s, E)
         /\ Put(c, r, x).res[r] = x /\ Put(c, r, x).map = c.map
         /\ \A q \in Resources : q # r => Put(c, r, x).res[q] = c.res[q]
<1> DEFINE y == c.res[r]
<1>1. /\ Inv(c) /\ c \in CacheType /\ y \in ResourceType /\ Sound(y)
  BY DEF Running, Inv, AllSound, CacheType
<1>2. lruIndex(x) = lruIndex(y) /\ size(x) = size(y)
  BY DEF lruIndex, size
<1>3. x.preload \in Nat /\ y.preload \in Nat /\ x.access \in Nat
  BY <1>1 DEF ResourceType
<1>4. Formed(x)
  <2>1. Listed(x)
    BY <1>1, <1>2 DEF Sound, Formed, Listed
  <2>2. x.inCache /\ x.access = 0 => Untouched(x)
    BY <1>1, <1>3 DEF Sound, Formed, Untouched
  <2>3. x.isReval => x.access > 0 /\ x.reval = None
    BY <1>1 DEF Sound, Formed
  <2>4. QED
    BY <1>1, <2>1, <2>2, <2>3 DEF Sound, Formed
<1>5. settle(x) = x
  <2>1. canDelete(x) => canDelete(y)
    BY <1>3 DEF canDelete
  <2>2. QED
    BY <1>1, <2>1 DEF settle, Sound
<1>6. Fits(c, r, x)
  <2>1. \A m \in Resources : c.res[m].reval = r => x.life = "alive" /\ x.isReval
    <3> SUFFICES ASSUME NEW m \in Resources, c.res[m].reval = r PROVE x.isReval
      OBVIOUS
    <3>1. r # None
      BY Constants
    <3>2. QED
      BY <1>1, <3>1 DEF Inv, Revalidates
  <2>2. QED
    BY <1>4, <2>1 DEF Fits
<1>7. \A f \in Range(s) : f \in Frames /\ FrameOK(f, c) => FrameFits(f, r, x)
  <2> SUFFICES ASSUME NEW f \in Range(s), f \in Frames, FrameOK(f, c) PROVE FrameFits(f, r, x)
    OBVIOUS
  <2>1. Delivers(f) => f.h \notin x.handles
    BY DEF FrameOK, Free
  <2>2. f.op = "load" /\ f.new /\ f.r = r => x.inCache /\ x.access = 0 /\ x.url = f.u
    BY DEF FrameOK
  <2>3. f.op = "prune" /\ f.pass # "live" /\ Evictable(x) => x.queue <= f.i
    <3>1. Evictable(x) => Evictable(y)
      BY <1>3 DEF Evictable
    <3>2. QED
      BY <3>1 DEF FrameOK
  <2>4. /\ f.op = "switch" /\ f.n = r => x.reval = f.r
        /\ Ending(f, r) => x.request = "ending"
    BY DEF FrameOK
  <2>5. f.op = "switch" /\ f.r = r => f.todo \subseteq x.handles /\ f.todo \cap x.clients = {}
    BY DEF FrameOK
  <2>6. f.op = "clear" /\ r \in f.todo => x.preload > 0
    <3>1. f.op = "clear" /\ r \in f.todo => y.preload > 0
      BY DEF FrameOK
    <3>2. QED
      BY <1>3, <3>1
  <2>7. f.op = "release" /\ f.r = r => f.h \notin x.clients /\ f.h \in x.handles
    BY DEF FrameOK
  <2>8. QED
    BY <2>1, <2>2, <2>3, <2>4, <2>5, <2>6, <2>7 DEF FrameFits
<1>8. TodoFits(c, t, s, E, r, x)
  BY DEF TodoFits
<1>9. y.inCache /\ y.access > 0 => x.inCache /\ x.access > 0 /\ x.url = y.url
  OBVIOUS
<1>10. [c EXCEPT !.res[r] = x] = Put(c, r, x)
  BY <1>1, <1>5, SamePut
<1>11. /\ Running(Put(c, r, x), t, s, E)
       /\ Put(c, r, x).res[r] = settle(x) /\ Put(c, r, x).map = c.map
       /\ \A q \in Resources : q # r => Put(c, r, x).res[q] = c.res[q]
  BY <1>6, <1>7, <1>8, <1>9, PutKept
<1>12. QED
  BY <1>5, <1>10, <1>11

(* The preload scanner takes an object.                                    *)
LEMMA PreloadKept ==
  ASSUME NEW c, NEW t, NEW s, NEW E, Running(c, t, s, E), NEW r \in Resources,
         c.res[r].life = "alive", c.res[r].inCache => c.res[r].access > 0
  PROVE  Running([c EXCEPT !.res[r].preload = 1], t, s, E)
<1> DEFINE y == c.res[r]
           x == [y EXCEPT !.preload = 1]
<1>1. c \in CacheType /\ y \in ResourceType
  BY DEF Running, Inv, CacheType
<1>2. /\ x \in ResourceType /\ x.access = y.access /\ x.queue = y.queue
      /\ x.enc = y.enc /\ x.dec = y.dec /\ x.listed = y.listed
      /\ x.life = y.life /\ x.url = y.url /\ x.inCache = y.inCache
      /\ x.clients = y.clients /\ x.handles = y.handles /\ x.request = y.request
      /\ x.preload >= y.preload /\ x.reval = y.reval /\ x.isReval = y.isReval
      /\ x.loading = y.loading
  BY <1>1 DEF ResourceType
<1>3. [c EXCEPT !.res[r].preload = 1] = [c EXCEPT !.res[r] = x]
  BY <1>1, OneField
<1> HIDE DEF x
<1>4. /\ y.inCache => y.access > 0 \/ (x.preload = y.preload /\ ~x.isReval)
      /\ (y.isReval => x.isReval) /\ (y.loading => x.loading)
      /\ (x.isReval => y.isReval \/ (x.access > 0 /\ x.reval = None))
      /\ x.life = "alive"
  <2>1. y.inCache => y.access > 0 \/ (x.preload = y.preload /\ ~x.isReval)
    BY <1>2
  <2>2. (y.isReval => x.isReval) /\ (y.loading => x.loading)
    BY <1>2
  <2>3. x.isReval => y.isReval \/ (x.access > 0 /\ x.reval = None)
    BY <1>2
  <2>4. x.life = "alive"
    BY <1>2
  <2>5. QED
    BY <2>1, <2>2, <2>3, <2>4
<1> HIDE DEF y
<1>5. y = c.res[r]
  BY DEF y
<1>6. [c EXCEPT !.res[r] = x] = Put(c, r, x) /\ Running(Put(c, r, x), t, s, E)
  BY <1>2, <1>4, <1>5, MoreKept
<1>7. QED
  BY <1>3, <1>6

(* load() has returned.                                                    *)
started(c, r) == [c EXCEPT !.res[r].loading = TRUE]

(* A load begins.                                                          *)
LEMMA StartedKept ==
  ASSUME NEW c, NEW t, NEW s, NEW E, Running(c, t, s, E), NEW r \in Resources,
         c.res[r].life = "alive"
  PROVE  /\ Running(started(c, r), t, s, E)
         /\ started(c, r).map = c.map
         /\ started(c, r).res[r] = [c.res[r] EXCEPT !.loading = TRUE]
         /\ \A q \in Resources : q # r => started(c, r).res[q] = c.res[q]
<1> DEFINE y == c.res[r]
           x == [y EXCEPT !.loading = TRUE]
<1>1. /\ Inv(c) /\ c \in CacheType /\ y \in ResourceType /\ Sound(y)
  BY DEF Running, Inv, AllSound, CacheType
<1>2. /\ x \in ResourceType /\ x.access = y.access /\ x.queue = y.queue
      /\ x.enc = y.enc /\ x.dec = y.dec /\ x.listed = y.listed
      /\ x.life = y.life /\ x.url = y.url /\ x.inCache = y.inCache
      /\ x.clients = y.clients /\ x.handles = y.handles /\ x.request = y.request
      /\ x.preload = y.preload /\ x.reval = y.reval /\ x.isReval = y.isReval
      /\ x.loading = TRUE
  BY <1>1 DEF ResourceType
<1>3. started(c, r) = [c EXCEPT !.res[r] = x]
  BY <1>1, OneField DEF started
<1> HIDE DEF x
<1>4. y.inCache /\ ~(y.access > 0) => ~x.isReval
  BY <1>1, <1>2 DEF Sound, Formed
<1>5. /\ y.inCache => y.access > 0 \/ (x.preload = y.preload /\ ~x.isReval)
      /\ (y.isReval => x.isReval) /\ (y.loading => x.loading)
      /\ (x.isReval => y.isReval \/ (x.access > 0 /\ x.reval = None))
      /\ x.life = "alive" /\ x.preload >= y.preload
  <2>1. y.inCache => y.access > 0 \/ (x.preload = y.preload /\ ~x.isReval)
    BY <1>1, <1>2, <1>4 DEF ResourceType
  <2>2. (y.isReval => x.isReval) /\ (y.loading => x.loading)
    BY <1>1, <1>2, <1>4 DEF ResourceType
  <2>3. x.isReval => y.isReval \/ (x.access > 0 /\ x.reval = None)
    BY <1>1, <1>2, <1>4 DEF ResourceType
  <2>4. x.life = "alive"
    BY <1>1, <1>2, <1>4 DEF ResourceType
  <2>5. x.preload >= y.preload
    BY <1>1, <1>2, <1>4 DEF ResourceType
  <2>6. QED
    BY <2>1, <2>2, <2>3, <2>4, <2>5
<1> HIDE DEF y
<1>6. y = c.res[r]
  BY DEF y
<1>7. /\ [c EXCEPT !.res[r] = x] = Put(c, r, x) /\ Running(Put(c, r, x), t, s, E)
      /\ Put(c, r, x).res[r] = x /\ Put(c, r, x).map = c.map
      /\ \A q \in Resources : q # r => Put(c, r, x).res[q] = c.res[q]
  BY <1>2, <1>5, <1>6, MoreKept
<1>8. QED
  BY <1>3, <1>6, <1>7, ZenonT(40) DEF x

(* The object of the map is to be revalidated.                             *)
LEMMA ToRevalidateKept ==
  ASSUME NEW c, NEW t, NEW s, NEW E, Running(c, t, s, E), NEW r \in Resources,
         c.res[r].life = "alive", c.res[r].access > 0, c.res[r].reval = None
  PROVE  /\ Running([c EXCEPT !.res[r].isReval = TRUE], t, s, E)
         /\ [c EXCEPT !.res[r].isReval = TRUE].map = c.map
         /\ [c EXCEPT !.res[r].isReval = TRUE].res[r] = [c.res[r] EXCEPT !.isReval = TRUE]
         /\ \A q \in Resources : q # r => [c EXCEPT !.res[r].isReval = TRUE].res[q] = c.res[q]
<1> DEFINE y == c.res[r]
           x == [y EXCEPT !.isReval = TRUE]
<1>1. c \in CacheType /\ y \in ResourceType
  BY DEF Running, Inv, CacheType
<1>2. /\ x \in ResourceType /\ x.access = y.access /\ x.queue = y.queue
      /\ x.enc = y.enc /\ x.dec = y.dec /\ x.listed = y.listed
      /\ x.life = y.life /\ x.url = y.url /\ x.inCache = y.inCache
      /\ x.clients = y.clients /\ x.handles = y.handles /\ x.request = y.request
      /\ x.preload = y.preload /\ x.reval = y.reval /\ x.isReval = TRUE
      /\ x.loading = y.loading
  BY <1>1 DEF ResourceType
<1>3. [c EXCEPT !.res[r].isReval = TRUE] = [c EXCEPT !.res[r] = x]
  BY <1>1, OneField
<1> HIDE DEF x
<1>4. /\ y.inCache => y.access > 0 \/ (x.preload = y.preload /\ ~x.isReval)
      /\ (y.isReval => x.isReval) /\ (y.loading => x.loading)
      /\ (x.isReval => y.isReval \/ (x.access > 0 /\ x.reval = None))
      /\ x.life = "alive" /\ x.preload >= y.preload
  <2>1. y.inCache => y.access > 0 \/ (x.preload = y.preload /\ ~x.isReval)
    BY <1>1, <1>2 DEF ResourceType
  <2>2. (y.isReval => x.isReval) /\ (y.loading => x.loading)
    BY <1>1, <1>2 DEF ResourceType
  <2>3. x.isReval => y.isReval \/ (x.access > 0 /\ x.reval = None)
    BY <1>1, <1>2 DEF ResourceType
  <2>4. x.life = "alive"
    BY <1>1, <1>2 DEF ResourceType
  <2>5. x.preload >= y.preload
    BY <1>1, <1>2 DEF ResourceType
  <2>6. QED
    BY <2>1, <2>2, <2>3, <2>4, <2>5
<1> HIDE DEF y
<1>5. y = c.res[r]
  BY DEF y
<1>6. /\ [c EXCEPT !.res[r] = x] = Put(c, r, x) /\ Running(Put(c, r, x), t, s, E)
      /\ Put(c, r, x).res[r] = x /\ Put(c, r, x).map = c.map
      /\ \A q \in Resources : q # r => Put(c, r, x).res[q] = c.res[q]
  BY <1>2, <1>4, <1>5, MoreKept
<1>7. QED
  BY <1>3, <1>5, <1>6 DEF x

(* clearPreloads lets one object go.                                       *)
LEMMA ClearPreloadKept ==
  ASSUME NEW c, NEW t, NEW s, NEW E, Running(c, t, s, E), NEW r \in Resources,
         c.res[r].preload > 0, NoPrune(s),
         \A f \in Range(s) : f.op = "clear" => r \notin f.todo
  PROVE  Running(ClearPreload(r, c), t, s, E)
<1> DEFINE y == c.res[r]
           x == [y EXCEPT !.preload = 0]
           c1 == [c EXCEPT !.res[r].preload = 0]
<1>1. /\ Inv(c) /\ c \in CacheType /\ y \in ResourceType /\ Sound(y)
  BY DEF Running, Inv, AllSound, CacheType
<1>2. /\ x \in ResourceType /\ x.access = y.access /\ x.queue = y.queue
      /\ x.enc = y.enc /\ x.dec = y.dec /\ x.listed = y.listed
      /\ x.life = y.life /\ x.url = y.url /\ x.inCache = y.inCache
      /\ x.clients = y.clients /\ x.handles = y.handles /\ x.request = y.request
      /\ x.preload = 0 /\ x.reval = y.reval /\ x.isReval = y.isReval
      /\ x.loading = y.loading
  BY <1>1 DEF ResourceType
<1>3. c1 = [c EXCEPT !.res[r] = x]
  BY <1>1, OneField
<1> HIDE DEF x
<1>4. y.life = "alive" /\ x.clients \subseteq x.handles /\ ~(y.inCache /\ y.access = 0)
  <2>1. y.life = "alive" \/ y.preload = 0
    BY <1>1, NoObject DEF Sound, Formed
  <2>2. y.preload # 0
    BY <1>1 DEF ResourceType
  <2>3. QED
    BY <1>1, <1>2, <2>1, <2>2 DEF Sound, Formed, Untouched
<1>5. \A f \in Range(s) :
        /\ f.op = "release" /\ f.r = r => f.h \in x.handles
        /\ f.op = "switch" /\ f.n = r => x.reval = y.reval
        /\ f.op = "switch" /\ f.r = r => f.todo \subseteq x.handles
        /\ f.op = "clear" /\ r \in f.todo => x.preload = y.preload
        /\ f.op = "prune" => x.preload = y.preload
  BY <1>2 DEF Running, FramesOK, FrameOK, NoPrune
<1>6. /\ deleteIfPossible([c EXCEPT !.res[r] = x], r) = Put(c, r, x)
      /\ Running(Put(c, r, x), t, s, E)
  BY <1>2, <1>4, <1>5, LessKept
<1>7. c1.res[r] = x
  BY <1>1, <1>2, <1>3 DEF CacheType
<1> HIDE DEF c1
<1>8. ASSUME canDelete(x) /\ ~x.inCache PROVE Running(ClearPreload(r, c), t, s, E)
  <2>1. ClearPreload(r, c) = deleteIfPossible(c1, r)
    BY <1>7, <1>8 DEF ClearPreload, c1
  <2>2. QED
    BY <1>3, <1>6, <2>1
<1>9. ASSUME ~(canDelete(x) /\ ~x.inCache) PROVE Running(ClearPreload(r, c), t, s, E)
  <2>1. settle(x) = x
    BY <1>9 DEF settle
  <2>2. c1 = Put(c, r, x)
    BY <1>1, <1>2, <1>3, <2>1, SamePut
  <2>3. Running(c1, t, s, E)
    BY <1>6, <2>2
  <2>4. ClearPreload(r, c) = IF ~x.referenced THEN remove(c1, r) ELSE c1
    BY <1>7, <1>9 DEF ClearPreload, c1
  <2>5. c1.res[r].life # "unborn"
    BY <1>2, <1>4, <1>7
  <2>6. \A f \in Range(s) : ~(f.op = "load" /\ f.new /\ f.r = r /\ c1.res[r].life = "alive")
    BY <1>2, <1>4, <1>7, <2>3 DEF Running, FramesOK, FrameOK
  <2>7. Running(remove(c1, r), t, s, E)
    BY <2>3, <2>5, <2>6, RemoveKept
  <2>8. QED
    BY <2>3, <2>4, <2>7
<1>10. QED
  BY <1>8, <1>9

(* No method in progress has to do with an object that is not made yet.    *)
LEMMA NotYetUsed ==
  ASSUME NEW c, NEW t, NEW s, NEW E, Running(c, t, s, E), NEW n \in Resources,
         c.res[n] = Unborn
  PROVE  \A f \in Range(s) :
           /\ f \in Frames /\ FrameOK(f, c)
           /\ f.op \in {"load", "release", "notify"} => f.r # n
           /\ f.op = "switch" => f.n # n
           /\ f.op = "clear" => n \notin f.todo
           /\ ~Ending(f, n)
<1>1. /\ c.res[n].life = "unborn" /\ c.res[n].reval = None /\ c.res[n].preload = 0
  BY NoObject
<1> SUFFICES ASSUME NEW f \in Range(s)
             PROVE  /\ f \in Frames /\ FrameOK(f, c)
                    /\ f.op \in {"load", "release", "notify"} => f.r # n
                    /\ f.op = "switch" => f.n # n
                    /\ f.op = "clear" => n \notin f.todo
                    /\ ~Ending(f, n)
  OBVIOUS
<1>2. f \in Frames /\ FrameOK(f, c)
  BY StackParts DEF Running, FramesOK
<1>3. f.op = "switch" => f.n # n
  <2> SUFFICES ASSUME f.op = "switch", f.n = n PROVE FALSE
    OBVIOUS
  <2>1. c.res[n].reval = f.r /\ f.r \in Resources
    BY <1>2, FrameTypes DEF FrameOK
  <2>2. QED
    BY <1>1, <2>1, Constants
<1>4. f.op = "clear" => n \notin f.todo
  BY <1>1, <1>2 DEF FrameOK
<1>5. f.op \in {"load", "release", "notify"} => f.r # n
  BY <1>1, <1>2 DEF FrameOK
<1>6. ~Ending(f, n)
  BY <1>3, <1>5 DEF Ending
<1>7. QED
  BY <1>2, <1>3, <1>4, <1>5, <1>6

made(c, n, x) == [c EXCEPT !.res[n] = x]

(* An object is made, and belongs to whoever called for it.                *)
LEMMA BornKept ==
  ASSUME NEW c, NEW t, NEW s, Running(c, t, s, {}), NEW n \in Resources, c.res[n] = Unborn,
         NEW x \in ResourceType, x.life = "alive", x.queue = None, x.listed = FALSE,
         x.access = 0, x.enc = 0, x.dec = 0, x.clients = {}, x.handles = {}, x.preload = 0,
         x.isReval = FALSE, x.inCache => x.reval = None, ~canDelete(x),
         x.reval # None => /\ x.reval # n
                           /\ c.res[x.reval].life = "alive" /\ c.res[x.reval].isReval
                           /\ \A m \in Resources : c.res[m].reval # x.reval
  PROVE  /\ Running(made(c, n, x), t, s, {n})
         /\ made(c, n, x).res = [c.res EXCEPT ![n] = x]
         /\ made(c, n, x).map = c.map
<1> DEFINE y == c.res[n]
<1>1. /\ Inv(c) /\ c \in CacheType /\ c.res \in [Resources -> ResourceType]
      /\ c.live \in Int /\ c.dead \in Int /\ c.map \in [Urls -> Resources \cup {None}]
      /\ c = [res |-> c.res, map |-> c.map, live |-> c.live, dead |-> c.dead]
  BY DEF Running, Inv, CacheType
<1>2. /\ y.life = "unborn" /\ y.inCache = FALSE /\ y.clients = {} /\ y.handles = {}
      /\ y.reval = None /\ y.isReval = FALSE /\ y.preload = 0
      /\ liveOf(y) = 0 /\ deadOf(y) = 0
  BY NoObject
<1> HIDE DEF y
<1>3. y = c.res[n]
  BY DEF y
<1>4. settle(x) = x /\ size(x) = 0 /\ liveOf(x) = 0 /\ deadOf(x) = 0
  <2>1. settle(x) = x
    BY DEF settle
  <2>2. size(x) = 0
    BY DEF size
  <2>3. QED
    BY <2>1, <2>2 DEF liveOf, deadOf
<1>5. made(c, n, x) = Put(c, n, x)
  <2>1. c.live + liveOf(x) - liveOf(y) = c.live /\ c.dead + deadOf(x) - deadOf(y) = c.dead
    BY <1>1, <1>2, <1>4
  <2>2. Put(c, n, x) = [res |-> [c.res EXCEPT ![n] = x], map |-> c.map,
                        live |-> c.live, dead |-> c.dead]
    BY <1>3, <1>4, <2>1 DEF Put
  <2>3. made(c, n, x) = [res |-> [c.res EXCEPT ![n] = x], map |-> c.map,
                         live |-> c.live, dead |-> c.dead]
    BY <1>1 DEF made
  <2>4. QED
    BY <2>2, <2>3
<1>6. Running(c, t, s, {n})
  BY Widened
<1>7. Formed(x)
  <2>1. Listed(x)
    BY DEF Listed
  <2>2. QED
    BY <2>1 DEF Formed, Untouched
<1>8. \A m \in Resources : c.res[m].reval # n
  <2> SUFFICES ASSUME NEW m \in Resources, c.res[m].reval = n PROVE FALSE
    OBVIOUS
  <2>1. c.res[n].life = "alive"
    BY <1>1, Constants DEF Inv, Revalidates
  <2>2. QED
    BY <1>2, <1>3, <2>1
<1>9. Fits(c, n, x)
  BY <1>7, <1>8 DEF Fits
<1>10. \A f \in Range(s) :
         /\ f \in Frames /\ FrameOK(f, c)
         /\ f.op \in {"load", "release", "notify"} => f.r # n
         /\ f.op = "switch" => f.n # n
         /\ f.op = "clear" => n \notin f.todo
         /\ ~Ending(f, n)
  BY <1>2, <1>3, NotYetUsed
<1>11. \A f \in Range(s) : f \in Frames /\ FrameOK(f, c) => FrameFits(f, n, x)
  <2> SUFFICES ASSUME NEW f \in Range(s) PROVE FrameFits(f, n, x)
    OBVIOUS
  <2>1. /\ f.op \in {"load", "release", "notify"} => f.r # n
        /\ f.op = "switch" => f.n # n
        /\ f.op = "clear" => n \notin f.todo
        /\ ~Ending(f, n)
        /\ FrameOK(f, c)
    BY <1>10
  <2>2. f.op = "switch" /\ f.r = n => f.todo \subseteq x.handles /\ f.todo \cap x.clients = {}
    BY <1>2, <1>3, <2>1 DEF FrameOK
  <2>3. ~Evictable(x)
    BY DEF Evictable
  <2>4. QED
    BY <2>1, <2>2, <2>3 DEF FrameFits
<1>12. TodoFits(c, t, s, {n}, n, x)
  BY <1>8 DEF TodoFits
<1>13. Running(Put(c, n, x), t, s, {n}) /\ Put(c, n, x).map = c.map
  BY <1>2, <1>3, <1>6, <1>9, <1>11, <1>12, PutKept
<1>14. Put(c, n, x).res = [c.res EXCEPT ![n] = x]
  BY <1>4 DEF Put
<1>15. QED
  BY <1>5, <1>10, <1>13, <1>14

(* A new resource, for which load() is called.                             *)
LEMMA NewKept ==
  ASSUME NEW c, NEW t, NEW s, Running(c, t, s, {}), NEW n \in Resources, c.res[n] = Unborn,
         NEW u \in Urls, NEW h \in Requesters, Free(c, h),
         \A g \in Range(s) : /\ g.op \notin {"prune", "clear", "release"}
                             /\ Delivers(g) => h # g.h
  PROVE  Running([c EXCEPT !.res[n] = [NewResource(u) EXCEPT !.inCache = TRUE,
                                                            !.request = "queued"]],
                 t, <<[op |-> "load", r |-> n, h |-> h, u |-> u, new |-> TRUE]>> \o s, {})
<1> DEFINE x == [NewResource(u) EXCEPT !.inCache = TRUE, !.request = "queued"]
           f == [op |-> "load", r |-> n, h |-> h, u |-> u, new |-> TRUE]
           d == made(c, n, x)
<1>1. /\ x.life = "alive" /\ x.queue = None /\ x.listed = FALSE
      /\ x.access = 0 /\ x.enc = 0 /\ x.dec = 0 /\ x.clients = {} /\ x.handles = {}
      /\ x.preload = 0 /\ x.isReval = FALSE /\ x.reval = None /\ x.request = "queued"
      /\ x.url = u /\ x.inCache = TRUE
  BY DEF NewResource, Unborn
<1>2. x \in ResourceType
  <2>1. Unborn \in ResourceType
    BY NoObject
  <2>2. QED
    BY <2>1 DEF NewResource, ResourceType
<1> HIDE DEF x
<1>3. /\ ~canDelete(x) /\ (x.inCache => x.reval = None)
      /\ x.reval # None => /\ x.reval # n
                           /\ c.res[x.reval].life = "alive" /\ c.res[x.reval].isReval
                           /\ \A m \in Resources : c.res[m].reval # x.reval
  BY <1>1 DEF canDelete
<1>4. /\ Running(made(c, n, x), t, s, {n})
      /\ made(c, n, x).res = [c.res EXCEPT ![n] = x]
      /\ \A g \in Range(s) : g.op \in {"load", "release", "notify"} => g.r # n
  <2>1. /\ Running(made(c, n, x), t, s, {n})
        /\ made(c, n, x).res = [c.res EXCEPT ![n] = x]
        /\ made(c, n, x).map = c.map
    BY <1>1, <1>2, <1>3, BornKept, ZenonT(40)
  <2>2. QED
    BY <2>1, NotYetUsed
<1>5. c.res \in [Resources -> ResourceType]
  BY DEF Running, Inv, CacheType
<1>6. Running(d, t, s, {n}) /\ d.res[n] = x /\ \A q \in Resources : q # n => d.res[q] = c.res[q]
  BY <1>4, <1>5
<1> HIDE DEF d
<1>7. f \in Frames
  BY DEF Frames, Requesters
<1>8. FrameOK(f, d)
  <2>1. Free(d, h)
    BY <1>1, <1>6 DEF Free
  <2>2. QED
    BY <1>1, <1>6, <2>1 DEF FrameOK, Delivers, Ending
<1>9. \A g \in Range(s) : Under(f, g)
  <2> SUFFICES ASSUME NEW g \in Range(s) PROVE Under(f, g)
    OBVIOUS
  <2>1. Apart(f, g)
    BY <1>4 DEF Apart, Delivers, Ending
  <2>2. Apart(g, f)
    BY <1>4 DEF Apart, Delivers, Ending
  <2>3. QED
    BY <2>1, <2>2 DEF Under
<1>10. f.op = "load" /\ f.new /\ f.r = n
  OBVIOUS
<1> HIDE DEF f
<1>11. Running(d, t, <<f>> \o s, {n})
  BY <1>6, <1>7, <1>8, <1>9, <1>10, PushKept
<1>12. f \in Range(<<f>> \o s)
  BY <1>7, StackParts DEF Running
<1>13. Running(d, t, <<f>> \o s, {})
  BY <1>1, <1>6, <1>10, <1>11, <1>12, DoneFor
<1>14. QED
  BY <1>13 DEF d, x, f, made

(* The object that revalidates another one takes its place in the cache.   *)
takesPlace(c, n, u) ==
  [resourceAccessed([c EXCEPT !.map[u] = n, !.res[n].inCache = TRUE], n)
     EXCEPT !.res[n].request = "queued"]

(* The object that is made to validate e.                                  *)
validator(u, e) == [NewResource(u) EXCEPT !.reval = e]

(* What it becomes.                                                        *)
placed(u, e) ==
  [accessed([validator(u, e) EXCEPT !.inCache = TRUE]) EXCEPT !.request = "queued"]

(* What a validator becomes when it is put in the cache in place of the    *)
(* object it revalidates.                                                  *)
LEMMA PlacedObject ==
  ASSUME NEW u \in Urls, NEW e \in Resources
  PROVE  /\ placed(u, e) \in ResourceType /\ placed(u, e).access > 0
         /\ placed(u, e).queue = lruIndex(placed(u, e))
         /\ placed(u, e).enc = 0 /\ placed(u, e).dec = 0 /\ placed(u, e).listed = FALSE
         /\ placed(u, e).life = "alive" /\ u = placed(u, e).url /\ placed(u, e).inCache = TRUE
         /\ placed(u, e).clients = {} /\ placed(u, e).handles = {}
         /\ placed(u, e).request = "queued"
         /\ placed(u, e).preload = 0 /\ e = placed(u, e).reval /\ placed(u, e).isReval = FALSE
<1> DEFINE v == validator(u, e)
           w == [v EXCEPT !.inCache = TRUE]
           a == accessed(w)
           x == [a EXCEPT !.request = "queued"]
<1>1. x = placed(u, e)
  BY DEF placed
<1>2. v \in ResourceType
  <2>1. Unborn \in ResourceType
    BY NoObject
  <2>2. QED
    BY <2>1 DEF validator, NewResource, ResourceType
<1>3. /\ v.life = "alive" /\ v.queue = None /\ v.listed = FALSE /\ v.inCache = FALSE
      /\ v.access = 0 /\ v.enc = 0 /\ v.dec = 0 /\ v.clients = {} /\ v.handles = {}
      /\ v.preload = 0 /\ v.isReval = FALSE /\ v.reval = e /\ v.request = "none" /\ v.url = u
  BY DEF validator, NewResource, Unborn
<1> HIDE DEF v
<1>5. /\ w \in ResourceType /\ w.life = "alive" /\ w.inCache = TRUE /\ w.listed = FALSE
      /\ w.enc = 0 /\ w.dec = 0 /\ w.clients = {} /\ w.handles = {} /\ w.preload = 0
      /\ w.isReval = FALSE /\ w.reval = e /\ w.url = u
  BY <1>2, <1>3 DEF ResourceType
<1> HIDE DEF w
<1>6. /\ a \in ResourceType /\ a.access > 0 /\ a.queue = lruIndex(a)
      /\ a.enc = 0 /\ a.dec = 0 /\ a.listed = FALSE
      /\ a.life = "alive" /\ a.url = u /\ a.inCache = TRUE
      /\ a.clients = {} /\ a.handles = {}
      /\ a.preload = 0 /\ a.reval = e /\ a.isReval = FALSE
  BY <1>5, AccessedObject
<1> HIDE DEF a
<1>7. /\ x \in ResourceType /\ x.access = a.access /\ x.queue = a.queue
      /\ x.enc = 0 /\ x.dec = 0 /\ x.listed = FALSE
      /\ x.life = "alive" /\ x.url = u /\ x.inCache = TRUE
      /\ x.clients = {} /\ x.handles = {} /\ x.request = "queued"
      /\ x.preload = 0 /\ x.reval = e /\ x.isReval = FALSE
  BY <1>6 DEF ResourceType
<1>8. x.access > 0 /\ x.queue = lruIndex(x)
  <2>1. size(x) = size(a)
    BY <1>6, <1>7 DEF size
  <2>2. lruIndex(x) = lruIndex(a)
    BY <1>7, <2>1 DEF lruIndex
  <2>3. QED
    BY <1>6, <1>7, <2>2
<1> HIDE DEF x
<1>9. QED
  BY <1>1, <1>7, <1>8

(* What revalidateResource makes of the cache.                             *)
LEMMA TakesPlaceIs ==
  ASSUME NEW c \in CacheType, NEW n \in Resources, NEW u \in Urls, NEW e \in Resources,
         c.res[n] = validator(u, e)
  PROVE  takesPlace(c, n, u)
           = [res |-> [c.res EXCEPT ![n] = placed(u, e)], map |-> [c.map EXCEPT ![u] = n],
              live |-> c.live, dead |-> c.dead]
<1> DEFINE v == validator(u, e)
           d == takesPlace(c, n, u)
           w == [v EXCEPT !.inCache = TRUE]
           a == accessed(w)
           x == [a EXCEPT !.request = "queued"]
           M == [c.map EXCEPT ![u] = n]
<1>1. /\ c.res \in [Resources -> ResourceType]
      /\ c = [res |-> c.res, map |-> c.map, live |-> c.live, dead |-> c.dead]
  BY DEF CacheType
<1>4. v = c.res[n]
  OBVIOUS
<1>5. x = placed(u, e)
  BY DEF placed
<1> HIDE DEF v, w, a
<1>9. d = [res |-> [c.res EXCEPT ![n] = x], map |-> M, live |-> c.live, dead |-> c.dead]
  <2> DEFINE c2 == [c EXCEPT !.map[u] = n, !.res[n].inCache = TRUE]
             b2 == [res |-> [c.res EXCEPT ![n] = w], map |-> M, live |-> c.live, dead |-> c.dead]
             b3 == [res |-> [c.res EXCEPT ![n] = a], map |-> M, live |-> c.live, dead |-> c.dead]
             b4 == [res |-> [c.res EXCEPT ![n] = x], map |-> M, live |-> c.live, dead |-> c.dead]
  <2>1. c2 = b2
    <3>1. [c EXCEPT !.map[u] = n, !.res[n].inCache = TRUE]
            = [c EXCEPT !.map = M, !.res[n] = w]
      BY <1>1, <1>4 DEF w
    <3> HIDE DEF M, w
    <3>2. c2 = [c EXCEPT !.map = M, !.res[n] = w]
      BY <3>1
    <3> HIDE DEF c2
    <3>3. QED
      BY <1>1, <3>2
  <2> HIDE DEF M
  <2>2. resourceAccessed(b2, n) = b3
    <3>1. b2.res[n] = w /\ [b2.res EXCEPT ![n] = a] = [c.res EXCEPT ![n] = a]
      BY <1>1
    <3>2. resourceAccessed(b2, n) = [b2 EXCEPT !.res[n] = a]
      <4> HIDE DEF b2
      <4> QED BY <3>1 DEF resourceAccessed, accessed, a
    <3>3. [b2 EXCEPT !.res[n] = a] = b3
      BY <3>1
    <3>4. QED
      BY <3>2, <3>3
  <2>3. [b3 EXCEPT !.res[n].request = "queued"] = b4
    <3>1. b3.res[n] = a
      BY <1>1
    <3>2. [b3 EXCEPT !.res[n].request = "queued"] = [b3 EXCEPT !.res[n] = x]
      <4> HIDE DEF b3
      <4> QED BY <3>1
    <3> HIDE DEF x
    <3>3. [b3 EXCEPT !.res[n] = x] = b4
      BY <1>1, <3>1
    <3>4. QED
      BY <3>2, <3>3
  <2>4. d = [resourceAccessed(c2, n) EXCEPT !.res[n].request = "queued"]
    BY DEF takesPlace
  <2> HIDE DEF c2, b2, b3, b4, x, d
  <2>5. d = b4
    BY <2>1, <2>2, <2>3, <2>4
  <2>6. QED
    BY <2>5 DEF b4
<1> HIDE DEF x, d
<1>10. QED
  BY <1>5, <1>9 DEF d

(* A validator takes the place of the object it revalidates.               *)
LEMMA TakesPlaceKept ==
  ASSUME NEW c, NEW t, NEW s, NEW n \in Resources, Running(c, t, s, {n}), NoPrune(s),
         NEW u \in Urls, NEW e \in Resources, c.res[n] = validator(u, e)
  PROVE  Running(takesPlace(c, n, u), t, s, {n})
<1> DEFINE v == validator(u, e)
           x == placed(u, e)
           d == takesPlace(c, n, u)
           M == [c.map EXCEPT ![u] = n]
<1>1. /\ Inv(c) /\ c \in CacheType /\ c.res \in [Resources -> ResourceType]
      /\ c.live \in Int /\ c.dead \in Int /\ c.map \in [Urls -> Resources \cup {None}]
  BY DEF Running, Inv, CacheType
<1>3. /\ v.life = "alive" /\ v.queue = None /\ v.listed = FALSE /\ v.inCache = FALSE
      /\ v.access = 0 /\ v.enc = 0 /\ v.dec = 0 /\ v.clients = {} /\ v.handles = {}
      /\ v.preload = 0 /\ v.isReval = FALSE /\ v.reval = e /\ v.request = "none" /\ v.url = u
  BY DEF validator, NewResource, Unborn
<1>4. v = c.res[n]
  OBVIOUS
<1> HIDE DEF v
<1>7. /\ x \in ResourceType /\ x.access > 0 /\ x.queue = lruIndex(x)
      /\ x.enc = 0 /\ x.dec = 0 /\ x.listed = FALSE
      /\ x.life = "alive" /\ x.url = u /\ x.inCache = TRUE
      /\ x.clients = {} /\ x.handles = {} /\ x.request = "queued"
      /\ x.preload = 0 /\ x.reval = e /\ x.isReval = FALSE
  BY PlacedObject, ZenonT(40)
<1>8. x.access > 0 /\ x.queue = lruIndex(x)
  BY <1>7
<1>9. d = [res |-> [c.res EXCEPT ![n] = x], map |-> M, live |-> c.live, dead |-> c.dead]
  BY <1>1, TakesPlaceIs
<1> HIDE DEF x, d
<1>10. Formed(x) /\ settle(x) = x
  <2>1. Listed(x)
    BY <1>7, <1>8 DEF Listed
  <2>2. ~(x.inCache /\ x.access = 0)
    BY <1>8
  <2>3. QED
    BY <1>7, <2>1, <2>2 DEF Formed, settle
<1>11. \A m \in Resources : c.res[m].reval # n
  BY <1>1, <1>3, <1>4, Constants DEF Inv, Revalidates
<1>12. Fits(c, n, x)
  BY <1>3, <1>4, <1>7, <1>10, <1>11 DEF Fits
<1>13. liveOf(x) = 0 /\ deadOf(x) = 0 /\ liveOf(v) = 0 /\ deadOf(v) = 0
  BY <1>3, <1>7 DEF liveOf, deadOf, size
<1>14. /\ d.res = [c.res EXCEPT ![n] = x] /\ d.map = M
       /\ d.live = c.live /\ d.dead = c.dead /\ d \in CacheType
  <2>1. [c.res EXCEPT ![n] = x] \in [Resources -> ResourceType]
    BY <1>1, <1>7
  <2>2. M \in [Urls -> Resources \cup {None}]
    BY <1>1
  <2> HIDE DEF M
  <2>3. QED
    BY <1>1, <1>9, <2>1, <2>2 DEF CacheType
<1>15. Becomes(c, d, n, settle(x))
  <2>1. c.live = c.live + liveOf(x) - liveOf(v) /\ c.dead = c.dead + deadOf(x) - deadOf(v)
    BY <1>1, <1>13
  <2>2. QED
    BY <1>4, <1>10, <1>14, <2>1 DEF Becomes
<1>16. MapFits(c, d, n, x)
  <2> SUFFICES ASSUME NEW p \in Urls
               PROVE  /\ d.map[p] \in {c.map[p], None, n}
                      /\ d.map[p] = n => x.inCache /\ x.access > 0 /\ x.url = p
    BY DEF MapFits
  <2>1. c.map[p] # n
    BY <1>1, <1>3, <1>4, Constants DEF Inv, Mapped
  <2>2. d.map[p] = IF p = u THEN n ELSE c.map[p]
    BY <1>1, <1>14
  <2>3. QED
    BY <1>7, <1>8, <2>1, <2>2
<1>17. \A f \in Range(s) : FrameFits(f, n, x)
  <2> SUFFICES ASSUME NEW f \in Range(s) PROVE FrameFits(f, n, x)
    OBVIOUS
  <2>1. f \in Frames /\ FrameOK(f, c) /\ f.op # "prune"
    BY StackParts DEF Running, FramesOK, NoPrune
  <2>3. f.op = "load" /\ f.new => f.r # n
    BY <1>3, <1>4, <2>1 DEF FrameOK
  <2>7. f.op = "release" => f.r # n
    <3>1. f.op = "release" => f.h \in c.res[f.r].handles
      BY <2>1 DEF FrameOK
    <3>2. c.res[n].handles = {}
      BY <1>3, <1>4
    <3>3. QED
      BY <3>1, <3>2
  <2>8. ~Ending(f, n)
    <3>1. Ending(f, n) => c.res[n].request = "ending"
      BY <2>1 DEF FrameOK
    <3>2. c.res[n].request = "none"
      BY <1>3, <1>4
    <3>3. QED
      BY <3>1, <3>2
  <2>2. f.op = "switch" => f.n # n
    BY <2>8 DEF Ending
  <2>4. f.op = "switch" /\ f.r = n => f.todo \subseteq x.handles
    BY <1>3, <1>4, <1>7, <2>1 DEF FrameOK
  <2>5. x.handles \subseteq v.handles /\ x.clients \subseteq v.clients /\ x.preload = v.preload
    BY <1>3, <1>7
  <2>6. QED
    BY <1>1, <1>4, <1>7, <2>1, <2>2, <2>3, <2>4, <2>5, <2>7, <2>8, SameFrames
<1>18. TodoFits(c, t, s, {n}, n, x)
  BY <1>3, <1>4, <1>7, <1>11 DEF TodoFits
<1>19. Running(d, t, s, {n})
  BY <1>7, <1>12, <1>15, <1>16, <1>17, <1>18, RunningKept
<1>20. QED
  BY <1>19 DEF d

(* A validator is made, and refers to the object that it revalidates.      *)
LEMMA ValidatorKept ==
  ASSUME NEW c, NEW t, NEW s, Running(c, t, s, {}), NEW n \in Resources, c.res[n] = Unborn,
         NEW u \in Urls, NEW e \in Resources, e # n, c.res[e].life = "alive", c.res[e].isReval,
         \A m \in Resources : c.res[m].reval # e
  PROVE  /\ Running(made(c, n, validator(u, e)), t, s, {n})
         /\ made(c, n, validator(u, e)).res = [c.res EXCEPT ![n] = validator(u, e)]
         /\ made(c, n, validator(u, e)).map = c.map
<1> DEFINE v == validator(u, e)
<1>1. v \in ResourceType
  <2>1. Unborn \in ResourceType
    BY NoObject
  <2>2. QED
    BY <2>1 DEF validator, NewResource, ResourceType
<1>2. /\ v.life = "alive" /\ v.queue = None /\ v.listed = FALSE /\ v.inCache = FALSE
      /\ v.access = 0 /\ v.enc = 0 /\ v.dec = 0 /\ v.clients = {} /\ v.handles = {}
      /\ v.preload = 0 /\ v.isReval = FALSE /\ v.reval = e
  BY DEF validator, NewResource, Unborn
<1> HIDE DEF v
<1>3. /\ ~canDelete(v)
      /\ v.inCache => v.reval = None
      /\ v.reval # None => /\ v.reval # n
                           /\ c.res[v.reval].life = "alive" /\ c.res[v.reval].isReval
                           /\ \A m \in Resources : c.res[m].reval # v.reval
  BY <1>2, Constants DEF canDelete
<1>4. /\ Running(made(c, n, v), t, s, {n})
      /\ made(c, n, v).res = [c.res EXCEPT ![n] = v]
      /\ made(c, n, v).map = c.map
  BY <1>1, <1>2, <1>3, BornKept
<1>5. QED
  BY <1>4 DEF v

toRevalidate(c, n, u, e) ==
  [c EXCEPT !.res[n] = validator(u, e), !.res[e].isReval = TRUE]

marked(c, e) == [c EXCEPT !.res[e].isReval = TRUE]

(* The two objects change in either order.                                 *)
LEMMA ToRevalidateIs ==
  ASSUME NEW c \in CacheType, NEW n \in Resources, NEW e \in Resources, n # e, NEW u
  PROVE  toRevalidate(c, n, u, e) = made(marked(c, e), n, validator(u, e))
<1> DEFINE v == validator(u, e)
           y == c.res[e]
           z == [y EXCEPT !.isReval = TRUE]
           a == marked(c, e)
           b1 == [res |-> [c.res EXCEPT ![n] = v], map |-> c.map, live |-> c.live, dead |-> c.dead]
           b2 == [res |-> [[c.res EXCEPT ![n] = v] EXCEPT ![e] = z], map |-> c.map,
                  live |-> c.live, dead |-> c.dead]
           b3 == [res |-> [[c.res EXCEPT ![e] = z] EXCEPT ![n] = v], map |-> c.map,
                  live |-> c.live, dead |-> c.dead]
           c1 == toRevalidate(c, n, u, e)
           c2 == made(a, n, v)
<1>1. /\ c.res \in [Resources -> ResourceType]
      /\ c = [res |-> c.res, map |-> c.map, live |-> c.live, dead |-> c.dead]
  BY DEF CacheType
<1>2. c1 = [[c EXCEPT !.res[n] = v] EXCEPT !.res[e].isReval = TRUE]
  BY DEF toRevalidate
<1> DEFINE k1 == [c EXCEPT !.res[n] = v]
           k2 == [b1 EXCEPT !.res[e].isReval = TRUE]
           k3 == [b1 EXCEPT !.res[e] = z]
<1>3. a = [c EXCEPT !.res[e] = z]
  BY OneField DEF marked
<1>4. k2 = k3
  <2>1. b1.res[e] = y
    BY <1>1
  <2> HIDE DEF b1
  <2>2. [b1 EXCEPT !.res[e].isReval = TRUE] = [b1 EXCEPT !.res[e] = [b1.res[e] EXCEPT !.isReval = TRUE]]
    OBVIOUS
  <2>3. QED
    BY <2>1, <2>2
<1>5. k1 = [c EXCEPT !.res[n] = v] /\ k3 = [b1 EXCEPT !.res[e] = z] /\ c2 = [a EXCEPT !.res[n] = v]
  BY DEF made
<1> HIDE DEF v, z, a, c1, c2, k1, k2, k3
<1>6. k1 = b1
  BY <1>1, <1>5
<1>7. k3 = b2
  BY <1>1, <1>5
<1>8. b2 = b3
  BY <1>1
<1>9. a = [res |-> [c.res EXCEPT ![e] = z], map |-> c.map, live |-> c.live, dead |-> c.dead]
  BY <1>1, <1>3
<1>10. c2 = b3
  BY <1>5, <1>9
<1>11. c1 = k2
  BY <1>2, <1>6 DEF k1, k2
<1> HIDE DEF b1, b2, b3
<1>12. c1 = c2
  BY <1>4, <1>7, <1>8, <1>10, <1>11
<1>13. QED
  BY <1>12 DEF c1, c2, a, v

(* revalidateResource: a new object is to validate the one of the map.     *)
LEMMA RevalidatingKept ==
  ASSUME NEW c, NEW t, NEW s, Running(c, t, s, {}), NoPrune(s),
         NEW n \in Resources, c.res[n].life = "unborn",
         NEW u \in Urls, NEW e \in Resources, c.res[e].inCache, c.res[e].access > 0,
         c.res[e].reval = None, ~c.res[e].isReval
  PROVE  /\ Running(takesPlace(remove(toRevalidate(c, n, u, e), e), n, u), t, s, {})
         /\ takesPlace(remove(toRevalidate(c, n, u, e), e), n, u).res[n].life = "alive"
         /\ \A h : Free(c, h) => Free(takesPlace(remove(toRevalidate(c, n, u, e), e), n, u), h)
<1> DEFINE v == validator(u, e)
           y == c.res[e]
           z == [y EXCEPT !.isReval = TRUE]
           a == marked(c, e)
           c1 == toRevalidate(c, n, u, e)
           b == remove(c1, e)
           d == takesPlace(b, n, u)
<1>1. /\ Inv(c) /\ c \in CacheType /\ c.res \in [Resources -> ResourceType]
      /\ c.res[n] \in ResourceType /\ Sound(c.res[n])
  BY DEF Running, Inv, CacheType, AllSound
<1>2. y \in ResourceType /\ Sound(y) /\ y.inCache /\ y.access > 0 /\ y.life = "alive"
  <2>1. y \in ResourceType /\ Sound(y)
    BY <1>1 DEF Inv, AllSound
  <2>2. QED
    BY <2>1, NoObject DEF Sound, Formed
<1>3. c.res[n] = Unborn
  BY <1>1, NoObject DEF Sound, Formed
<1>4. e # n
  BY <1>2
<1>5. \A m \in Resources : c.res[m].reval # e
  BY <1>1, Constants DEF Inv, Revalidates
<1>6. Running(a, t, s, {}) /\ a.map = c.map /\ a.res[e] = z
      /\ \A q \in Resources : q # e => a.res[q] = c.res[q]
  <2>1. a = [c EXCEPT !.res[e].isReval = TRUE] /\ z = [c.res[e] EXCEPT !.isReval = TRUE]
    BY DEF marked
  <2> HIDE DEF a, z
  <2>2. QED
    BY <1>2, <2>1, ToRevalidateKept
<1>7. /\ z.life = "alive" /\ z.isReval = TRUE /\ z.inCache = y.inCache /\ z.access = y.access
      /\ z.reval = None /\ z.handles = y.handles
  BY <1>2 DEF ResourceType
<1>8. /\ v \in ResourceType
      /\ v.life = "alive" /\ v.queue = None /\ v.listed = FALSE /\ v.inCache = FALSE
      /\ v.access = 0 /\ v.enc = 0 /\ v.dec = 0 /\ v.clients = {} /\ v.handles = {}
      /\ v.preload = 0 /\ v.isReval = FALSE /\ v.reval = e /\ v.request = "none" /\ v.url = u
  <2>1. Unborn \in ResourceType
    BY NoObject
  <2>2. v \in ResourceType
    BY <2>1 DEF validator, NewResource, ResourceType
  <2>3. /\ v.life = "alive" /\ v.queue = None /\ v.listed = FALSE /\ v.inCache = FALSE
        /\ v.access = 0 /\ v.enc = 0 /\ v.dec = 0 /\ v.clients = {} /\ v.handles = {}
        /\ v.preload = 0 /\ v.isReval = FALSE /\ v.reval = e /\ v.request = "none" /\ v.url = u
    BY DEF validator, NewResource, Unborn
  <2>4. QED
    BY <2>2, <2>3
<1>9. c1 = made(a, n, v)
  BY <1>1, <1>4, ToRevalidateIs
<1> HIDE DEF v, y, z, a, c1, b, d
<1>11. a.res[n] = Unborn /\ a.res[e].life = "alive" /\ a.res[e].isReval
  BY <1>3, <1>4, <1>6, <1>7
<1>12. \A m \in Resources : a.res[m].reval # e
  BY <1>2, <1>5, <1>6, <1>7, Constants
<1>13. /\ Running(made(a, n, v), t, s, {n})
       /\ made(a, n, v).res = [a.res EXCEPT ![n] = v]
       /\ made(a, n, v).map = a.map
  <2>1. Running(a, t, s, {}) /\ a.res[n] = Unborn
    BY <1>6, <1>11
  <2>2. QED
    BY <1>4, <1>11, <1>12, <2>1, ValidatorKept DEF v
<1>14. a.res \in [Resources -> ResourceType]
  BY <1>6 DEF Running, Inv, CacheType
<1>15. /\ Running(c1, t, s, {n}) /\ c1.res = [a.res EXCEPT ![n] = v] /\ c1.map = c.map
  <2>1. /\ Running(c1, t, s, {n}) /\ c1.res = [a.res EXCEPT ![n] = v] /\ c1.map = a.map
    BY <1>9, <1>13
  <2>2. QED
    BY <1>6, <2>1
<1>16. c1.res[n] = v /\ c1.res[e] = z /\ \A q \in Resources : q # n => c1.res[q] = a.res[q]
  BY <1>4, <1>6, <1>14, <1>15
<1>17. Becomes(c1, b, e, settle(removed(z)))
  <2>1. Inv(c1)
    BY <1>15 DEF Running
  <2>2. c1.res[e] = z /\ b = remove(c1, e)
    BY <1>16 DEF b
  <2>3. QED
    BY <2>1, <2>2, RemoveIs
<1>18. Running(b, t, s, {n})
  <2>1. c1.res[e].life = "alive"
    BY <1>7, <1>16
  <2>2. \A f \in Range(s) : ~(f.op = "load" /\ f.new /\ f.r = e)
    <3> SUFFICES ASSUME NEW f \in Range(s), f.op = "load", f.new, f.r = e PROVE FALSE
      OBVIOUS
    <3>1. FrameOK(f, c) /\ c.res[f.r].life = "alive"
      BY <1>2 DEF Running, FramesOK, y
    <3>2. c.res[f.r].access = 0
      BY <3>1 DEF FrameOK
    <3>3. QED
      BY <3>2
  <2>3. Running(remove(c1, e), t, s, {n})
    BY <1>15, <2>1, <2>2, RemoveKept
  <2>4. QED
    BY <2>3 DEF b
<1>19. z \in ResourceType /\ Sound(z)
  BY <1>6 DEF Running, Inv, CacheType, AllSound
<1>20. settle(removed(z)).inCache = FALSE /\ settle(removed(z)).handles \subseteq z.handles
  <2> DEFINE k == removed(z)
  <2>1. k \in ResourceType /\ k.inCache = FALSE /\ k.handles = z.handles
    BY <1>19, RemovedObject
  <2> HIDE DEF k
  <2>2. settle(k).inCache = FALSE /\ settle(k).handles \subseteq z.handles
    BY <2>1, NoObject DEF settle
  <2>3. QED
    BY <2>2 DEF k
<1>21. c1.res \in [Resources -> ResourceType]
  BY <1>15 DEF Running, Inv, CacheType
<1>22. /\ b.res[e] = settle(removed(z)) /\ b.res[n] = v
       /\ \A q \in Resources : q # e => b.res[q] = c1.res[q]
  <2> DEFINE k == settle(removed(z))
  <2>1. b.res = [c1.res EXCEPT ![e] = k]
    BY <1>17 DEF Becomes
  <2> HIDE DEF k
  <2>2. b.res[e] = k /\ \A q \in Resources : q # e => b.res[q] = c1.res[q]
    BY <1>21, <2>1
  <2>3. QED
    BY <1>4, <1>16, <2>2 DEF k
<1>23. /\ Running(d, t, s, {n})
       /\ d.res[n].life = "alive" /\ d.res[n].access > 0 /\ d.res[n].reval = e
       /\ d.res[n].handles = {}
       /\ \A q \in Resources : q # n => d.res[q] = b.res[q]
  <2>1. b.res[n] = validator(u, e) /\ b \in CacheType
    BY <1>18, <1>22 DEF v, Running, Inv
  <2>2. Running(takesPlace(b, n, u), t, s, {n})
    BY <1>18, <2>1, TakesPlaceKept
  <2>3. /\ d.res = [b.res EXCEPT ![n] = placed(u, e)]
        /\ b.res \in [Resources -> ResourceType]
    BY <2>1, TakesPlaceIs DEF d, CacheType
  <2>4. /\ placed(u, e).life = "alive" /\ placed(u, e).access > 0
        /\ placed(u, e).reval = e /\ placed(u, e).handles = {}
    BY PlacedObject
  <2>5. QED
    BY <2>2, <2>3, <2>4 DEF d
<1>24. /\ Running(d, t, s, {n})
       /\ d.res[n].life = "alive" /\ ~(d.res[n].access = 0) /\ d.res[n].reval = e
       /\ d.res[n].handles = {}
       /\ \A q \in Resources : q # n => d.res[q] = b.res[q]
  BY <1>23
<1>25. Running(d, t, s, {})
  <2>1. ~d.res[d.res[n].reval].inCache
    BY <1>4, <1>20, <1>22, <1>24
  <2>2. QED
    BY <1>24, <2>1, DoneFor
<1>26. ASSUME NEW h, Free(c, h) PROVE Free(d, h)
  <2> SUFFICES ASSUME NEW q \in Resources PROVE h \notin d.res[q].handles
    BY DEF Free
  <2>1. CASE q = n
    BY <1>24, <2>1
  <2>2. CASE q = e
    <3>1. d.res[e].handles \subseteq y.handles
      BY <1>4, <1>7, <1>20, <1>22, <1>24
    <3>2. h \notin y.handles
      BY <1>26 DEF Free, y
    <3>3. QED
      BY <2>2, <3>1, <3>2
  <2>3. CASE q # n /\ q # e
    <3>1. d.res[q] = c.res[q]
      BY <1>6, <1>16, <1>22, <1>24, <2>3
    <3>2. QED
      BY <1>26, <3>1 DEF Free
  <2>4. QED
    BY <2>1, <2>2, <2>3
<1>27. QED
  BY <1>24, <1>25, <1>26 DEF d, b, c1

(* An object is looked up, or put in the map when it was just made.        *)
mapped(c, u, r) == [c EXCEPT !.map[u] = r]

(* resourceAccessed changes one object and leaves the books alone: the     *)
(* object moves within them.                                               *)
LEMMA AccessIs ==
  ASSUME NEW c \in CacheType, NEW r \in Resources
  PROVE  resourceAccessed(c, r)
           = [res |-> [c.res EXCEPT ![r] = accessed(c.res[r])], map |-> c.map,
              live |-> c.live, dead |-> c.dead]
<1> DEFINE x == accessed(c.res[r])
<1>1. resourceAccessed(c, r) = [c EXCEPT !.res[r] = x]
  BY DEF resourceAccessed, accessed
<1>2. c = [res |-> c.res, map |-> c.map, live |-> c.live, dead |-> c.dead]
  BY DEF CacheType
<1> HIDE DEF x
<1>3. resourceAccessed(c, r) = [res |-> [c.res EXCEPT ![r] = x], map |-> c.map,
                                live |-> c.live, dead |-> c.dead]
  BY <1>1, <1>2
<1>4. QED
  BY <1>3 DEF x

(* A URL is entered in the map.                                            *)
LEMMA MappedIs ==
  ASSUME NEW c \in CacheType, NEW r \in Resources, NEW u \in Urls
  PROVE  /\ mapped(c, u, r) \in CacheType /\ mapped(c, u, r).res = c.res
         /\ mapped(c, u, r).map = [c.map EXCEPT ![u] = r]
         /\ mapped(c, u, r).live = c.live /\ mapped(c, u, r).dead = c.dead
<1>1. c = [res |-> c.res, map |-> c.map, live |-> c.live, dead |-> c.dead]
  BY DEF CacheType
<1>2. mapped(c, u, r) = [res |-> c.res, map |-> [c.map EXCEPT ![u] = r],
                         live |-> c.live, dead |-> c.dead]
  BY <1>1 DEF mapped
<1>3. [c.map EXCEPT ![u] = r] \in [Urls -> Resources \cup {None}]
  BY DEF CacheType
<1>4. QED
  BY <1>2, <1>3 DEF CacheType

(* An object that was found in the cache is accessed.                      *)
LEMMA LookedUpKept ==
  ASSUME NEW c, NEW t, NEW s, NEW E, Running(c, t, s, E), NEW r \in Resources,
         c.res[r].inCache, NoPrune(s),
         \A f \in Range(s) : ~(f.op = "load" /\ f.new /\ f.r = r)
  PROVE  /\ Running(resourceAccessed(c, r), t, s, E)
         /\ resourceAccessed(c, r).res[r] = accessed(c.res[r])
         /\ \A q \in Resources : q # r => resourceAccessed(c, r).res[q] = c.res[q]
<1> DEFINE d == resourceAccessed(c, r)
<1>1. d = access(c, r, c.map)
  BY AccessIs DEF Running, Inv, access
<1> DEFINE M == c.map
           a == access(c, r, M)
<1>2. M = c.map \/ \E p \in Urls : p = c.res[r].url /\ M = [c.map EXCEPT ![p] = r]
  OBVIOUS
<1>3. d = a
  BY <1>1
<1> HIDE DEF M, d
<1>4. /\ Running(a, t, s, E) /\ a.res[r] = accessed(c.res[r])
      /\ \A q \in Resources : q # r => a.res[q] = c.res[q]
  BY <1>2, AccessedKept
<1>5. QED
  BY <1>3, <1>4 DEF d

(* An object that is new in the cache is entered in the map and accessed.  *)
LEMMA MappedKept ==
  ASSUME NEW c, NEW t, NEW s, NEW E, Running(c, t, s, E), NEW r \in Resources,
         c.res[r].inCache, NoPrune(s),
         \A f \in Range(s) : ~(f.op = "load" /\ f.new /\ f.r = r),
         NEW u \in Urls, u = c.res[r].url
  PROVE  /\ Running(resourceAccessed(mapped(c, u, r), r), t, s, E)
         /\ resourceAccessed(mapped(c, u, r), r).res[r] = accessed(c.res[r])
         /\ \A q \in Resources : q # r => resourceAccessed(mapped(c, u, r), r).res[q] = c.res[q]
<1> DEFINE b == mapped(c, u, r)
           d == resourceAccessed(b, r)
           M == [c.map EXCEPT ![u] = r]
<1>1. /\ b \in CacheType /\ b.res = c.res /\ b.map = M /\ b.live = c.live /\ b.dead = c.dead
  BY MappedIs DEF Running, Inv
<1> HIDE DEF b
<1>2. M = c.map \/ \E p \in Urls : p = c.res[r].url /\ M = [c.map EXCEPT ![p] = r]
  OBVIOUS
<1> HIDE DEF M
<1> DEFINE a == access(c, r, M)
<1>3. d = a
  BY <1>1, AccessIs DEF access
<1> HIDE DEF d
<1>4. /\ Running(a, t, s, E) /\ a.res[r] = accessed(c.res[r])
      /\ \A q \in Resources : q # r => a.res[q] = c.res[q]
  BY <1>2, AccessedKept
<1>5. QED
  BY <1>3, <1>4 DEF d, b

(* DocLoader::requestResource: what the caller is given.                   *)
LEMMA DeliverKept ==
  ASSUME NEW c, NEW s, NEW E, Running(c, told, s, E), NEW r \in Resources,
         c.res[r].life = "alive", c.res[r].inCache => c.res[r].access > 0,
         NEW h \in Requesters, Free(c, h),
         \A f \in Range(s) : f.op # "release" /\ (Delivers(f) => f.h # h),
         Deliver(c, r, h)
  PROVE  Running(cache', told', s, E)
<1>1. CASE h = Preload
  <2>1. cache' = [c EXCEPT !.res[r].preload = 1] /\ told' = told
    BY <1>1 DEF Deliver
  <2>2. Running([c EXCEPT !.res[r].preload = 1], told, s, E)
    BY PreloadKept
  <2>3. QED
    BY <2>1, <2>2
<1>2. CASE h # Preload
  <2> DEFINE t == IF c.res[r].loading THEN told \ {h} ELSE told \cup {h}
             d == handed(c, r, {h})
  <2>1. h \in Holders /\ cache' = addClient(d, r, h) /\ told' = t
    BY <1>2 DEF Deliver, Requesters, handed
  <2>2. c.res \in [Resources -> ResourceType] /\ \A q \in Resources : Sound(c.res[q])
    BY DEF Running, Inv, CacheType, AllSound
  <2>3. \A q \in Resources : h \notin c.res[q].clients
    BY <2>2 DEF Free, Sound, Formed
  <2>4. Running(c, told \cup {h}, s, E) /\ Running(c, told \ {h}, s, E)
    BY <2>1, <2>3, ToldKept
  <2>5. Running(c, t, s, E) /\ (h \in t \/ c.res[r].loading)
    BY <2>4
  <2> HIDE DEF t, d
  <2>6. /\ Running(d, t, s, E)
        /\ d.res[r] = [c.res[r] EXCEPT !.handles = @ \cup {h}]
    <3> DEFINE H == {h}
    <3>1. H \in SUBSET Holders /\ (\A g \in H : Free(c, g))
          /\ \A f \in Range(s) : Delivers(f) => f.h \notin H
      BY <2>1
    <3> HIDE DEF H
    <3>2. /\ Running(handed(c, r, H), t, s, E)
          /\ handed(c, r, H).res[r] = [c.res[r] EXCEPT !.handles = @ \cup H]
      BY <2>5, <3>1, HandleKept
    <3>3. QED
      BY <3>2 DEF H, d
  <2>7. h \in d.res[r].handles /\ d.res[r].loading = c.res[r].loading
    BY <2>2, <2>6 DEF ResourceType
  <2>8. \A f \in Range(s) : /\ f.op # "release"
                            /\ f.op = "switch" /\ f.r = r => h \notin f.todo
    BY DEF Running, FramesOK, FrameOK, Free
  <2>9. Running(addClient(d, r, h), t, s, E)
    BY <2>5, <2>6, <2>7, <2>8, AddClientKept
  <2>10. QED
    BY <2>1, <2>9
<1>3. QED
  BY <1>1, <1>2

(* The lookup, and what follows when there is no object.                   *)
LEMMA RequestResourceKept ==
  ASSUME NEW c, NEW s, Running(c, told, s, {}), NEW h \in Requesters, NEW u \in Urls,
         Free(c, h), NoPrune(s),
         \A f \in Range(s) : f.op \notin {"clear", "release"} /\ (Delivers(f) => f.h # h),
         \A n \in Resources \ Born : c.res[n].life = "unborn",
         requestResource(c, h, u, s)
  PROVE  Running(cache', told', stack', {})
<1> DEFINE e == c.map[u]
<1>1. /\ Inv(c) /\ c \in CacheType /\ c.res \in [Resources -> ResourceType]
      /\ \A q \in Resources : Sound(c.res[q])
  BY DEF Running, Inv, CacheType, AllSound
<1>2. CASE cache' = c /\ stack' = s /\ UNCHANGED told
  BY <1>2
<1>3. CASE /\ e = None
           /\ \E n \in Resources \ Born :
                /\ cache' = [c EXCEPT !.res[n] = [NewResource(u) EXCEPT !.inCache = TRUE,
                                                                       !.request = "queued"]]
                /\ stack' = <<[op |-> "load", r |-> n, h |-> h, u |-> u, new |-> TRUE]>> \o s
           /\ UNCHANGED told
  <2> PICK n \in Resources \ Born :
        /\ cache' = [c EXCEPT !.res[n] = [NewResource(u) EXCEPT !.inCache = TRUE,
                                                               !.request = "queued"]]
        /\ stack' = <<[op |-> "load", r |-> n, h |-> h, u |-> u, new |-> TRUE]>> \o s
    BY <1>3
  <2>1. c.res[n] = Unborn
    BY <1>1, NoObject DEF Sound, Formed
  <2>2. \A f \in Range(s) : /\ f.op \notin {"prune", "clear", "release"}
                            /\ Delivers(f) => h # f.h
    BY DEF NoPrune
  <2>3. Running([c EXCEPT !.res[n] = [NewResource(u) EXCEPT !.inCache = TRUE,
                                                           !.request = "queued"]],
                told, <<[op |-> "load", r |-> n, h |-> h, u |-> u, new |-> TRUE]>> \o s, {})
    BY <2>1, <2>2, NewKept
  <2>4. QED
    BY <1>3, <2>3
<1>4. CASE /\ e # None
           /\ Deliver(resourceAccessed(c, e), e, h)
           /\ stack' = s
  <2>1. e \in Resources /\ c.res[e].inCache /\ c.res[e].access > 0
    BY <1>1, <1>4 DEF Inv, Mapped, CacheType
  <2>2. c.res[e].life = "alive"
    BY <1>1, <2>1, NoObject DEF Sound, Formed
  <2> DEFINE d == resourceAccessed(c, e)
  <2> HIDE DEF e
  <2>3. \A f \in Range(s) : ~(f.op = "load" /\ f.new /\ f.r = e)
    <3> SUFFICES ASSUME NEW f \in Range(s), f.op = "load", f.new, f.r = e PROVE FALSE
      OBVIOUS
    <3>1. FrameOK(f, c)
      BY DEF Running, FramesOK
    <3>2. c.res[f.r].access = 0
      BY <2>2, <3>1 DEF FrameOK
    <3>3. QED
      BY <2>1, <3>2
  <2>4. /\ Running(d, told, s, {}) /\ d.res[e] = accessed(c.res[e])
        /\ \A q \in Resources : q # e => d.res[q] = c.res[q]
    BY <2>1, <2>3, LookedUpKept
  <2>5. /\ d.res[e].life = "alive" /\ d.res[e].access > 0
        /\ d.res[e].handles = c.res[e].handles
    BY <1>1, <2>1, <2>2, <2>4, AccessedObject
  <2>6. Free(d, h)
    BY <2>4, <2>5 DEF Free
  <2>7. Deliver(d, e, h) /\ stack' = s
    BY <1>4 DEF e
  <2> HIDE DEF d
  <2>8. \A f \in Range(s) : f.op # "release" /\ (Delivers(f) => f.h # h)
    OBVIOUS
  <2>9. Running(cache', told', s, {})
    BY <2>1, <2>4, <2>5, <2>6, <2>7, <2>8, DeliverKept
  <2>10. QED
    BY <2>7, <2>9
<1>5. QED
  BY <1>2, <1>3, <1>4 DEF requestResource

(* When a client or the cache may ask for a resource.                      *)
LEMMA QuietStack ==
  ASSUME NEW c, NEW t, NEW s, NEW E, Running(c, t, s, E),
         s = <<>> \/ Head(s).op \in {"lookup", "load", "notify", "switch"}
  PROVE  /\ \A f \in Range(s) : f.op \notin {"prune", "clear", "release"}
         /\ NoPrune(s)
<1>1. \A f \in Range(s) : f.op \notin {"prune", "clear", "release"}
  <2>1. CASE s = <<>>
    BY <2>1 DEF Range
  <2>2. CASE s # <<>>
    <3>1. /\ Range(s) = {Head(s)} \cup Range(Tail(s))
          /\ \A g \in Range(Tail(s)) : Under(Head(s), g)
      BY <2>2, TopIsOK
    <3>2. \A g \in Range(Tail(s)) : g.op \notin {"prune", "clear", "release"}
      BY <2>2, <3>1 DEF Under
    <3>3. QED
      BY <2>2, <3>1, <3>2
  <2>3. QED
    BY <2>1, <2>2
<1>2. QED
  BY <1>1 DEF NoPrune

(* While a client or the host may act, no method is in progress that keeps *)
(* a place in a list.                                                      *)
LEMMA ClientIsCalled ==
  ASSUME Running(cache, told, stack, {}), ClientMayRun \/ HostMayRun
  PROVE  /\ \A f \in Range(stack) : f.op \notin {"prune", "clear", "release"}
         /\ NoPrune(stack)
<1>1. stack = <<>> \/ Head(stack).op \in {"lookup", "load", "notify", "switch"}
  BY DEF ClientMayRun, HostMayRun, ClientPoints, Top
<1>2. QED
  BY <1>1, QuietStack

(* A method in progress for a holder makes it busy.                        *)
LEMMA NotBusy ==
  ASSUME Running(cache, told, stack, {}), NEW h, ~Busy(h)
  PROVE  \A f \in Range(stack) : f.op \in {"lookup", "load", "release"} => f.h # h
<1> SUFFICES ASSUME NEW f \in Range(stack), f.op \in {"lookup", "load", "release"}, f.h = h
             PROVE  FALSE
  OBVIOUS
<1>1. stack \in Seq(Frames)
  BY DEF Running
<1>2. PICK i \in 1..Len(stack) : f = stack[i]
  BY <1>1 DEF Range
<1>3. QED
  BY <1>2 DEF Busy

(* A holder that may ask has no handle and is owed none.                   *)
LEMMA MayAsk ==
  ASSUME Running(cache, told, stack, {}), NEW h, MayRequest(h)
  PROVE  /\ Free(cache, h) /\ NoPrune(stack)
         /\ \A f \in Range(stack) : /\ f.op \notin {"prune", "clear", "release"}
                                    /\ Delivers(f) => f.h # h
<1>1. /\ \A f \in Range(stack) : f.op \notin {"prune", "clear", "release"}
      /\ NoPrune(stack)
  BY ClientIsCalled DEF MayRequest, MayNest
<1>2. \A f \in Range(stack) : Delivers(f) => f.h # h
  BY NotBusy DEF MayRequest, Delivers
<1>3. Free(cache, h)
  <2> SUFFICES ASSUME NEW r \in Resources, h \in cache.res[r].handles PROVE FALSE
    BY DEF Free
  <2>1. Sound(cache.res[r])
    BY DEF Running, Inv, AllSound
  <2>2. cache.res[r].life = "alive"
    BY <2>1, NoObject DEF Sound, Formed
  <2>3. r \in HandleOf(h)
    BY <2>2 DEF HandleOf, Alive, res
  <2>4. QED
    BY <2>3 DEF MayRequest
<1>4. QED
  BY <1>1, <1>2, <1>3

(* The objects that are yet to be made.                                    *)
LEMMA NotBorn ==
  \A n \in Resources \ Born : cache.res[n].life = "unborn"
BY DEF Born, res

(* A request: the object is found or made, or a load is begun.             *)
LEMMA RequestStep ==
  ASSUME Running(cache, told, stack, {}), NEW h \in Requesters, NEW u \in Urls, Request(h, u)
  PROVE  Running(cache', told', stack', {})
<1>1. MayRequest(h) /\ requestResource(cache, h, u, stack)
  BY DEF Request
<1>2. /\ Free(cache, h) /\ NoPrune(stack)
      /\ \A f \in Range(stack) : f.op \notin {"clear", "release"} /\ (Delivers(f) => f.h # h)
  BY <1>1, MayAsk
<1>3. QED
  BY <1>1, <1>2, NotBorn, RequestResourceKept

(* The request comes back from the pruning it did first.                   *)
LEMMA LookupStep ==
  ASSUME Running(cache, told, stack, {}), Lookup
  PROVE  Running(cache', told', stack', {})
<1> DEFINE f == Head(stack)
           s == Tail(stack)
<1>1. /\ stack # <<>> /\ f.op = "lookup"
      /\ requestResource(cache, f.h, f.u, s)
  BY DEF Lookup, In, Top
<1>2. /\ f \in Frames /\ FrameOK(f, cache)
      /\ \A g \in Range(s) : Under(f, g)
  BY <1>1, TopIsOK
<1>3. f.h \in Requesters /\ f.u \in Urls
  BY <1>1, <1>2, FrameTypes DEF Requesters
<1>4. Running(cache, told, s, {})
  BY <1>1, PopPlain
<1>5. /\ Free(cache, f.h) /\ NoPrune(s)
      /\ \A g \in Range(s) : g.op \notin {"clear", "release"} /\ (Delivers(g) => g.h # f.h)
  BY <1>1, <1>2 DEF FrameOK, Delivers, Under, Apart, NoPrune
<1> HIDE DEF f, s
<1>6. QED
  BY <1>1, <1>3, <1>4, <1>5, NotBorn, RequestResourceKept

(* remove leaves the handles where they are.                               *)
LEMMA RemoveLeaves ==
  ASSUME NEW c, Inv(c), NEW r \in Resources
  PROVE  /\ \A q \in Resources : q # r => remove(c, r).res[q] = c.res[q]
         /\ remove(c, r).res[r] = settle(removed(c.res[r]))
         /\ \A h : Free(c, h) => Free(remove(c, r), h)
<1> DEFINE d == remove(c, r)
           y == c.res[r]
           k == settle(removed(y))
<1>1. Becomes(c, d, r, k)
  BY RemoveIs
<1>2. c.res \in [Resources -> ResourceType] /\ Sound(y)
  BY DEF Inv, CacheType, AllSound
<1>3. removed(y) \in ResourceType /\ removed(y).handles = y.handles
  BY <1>2, RemovedObject
<1>4. k.handles \subseteq y.handles
  BY <1>3, SettleCounts, NoObject
<1> HIDE DEF d, k
<1>5. d.res[r] = k /\ \A q \in Resources : q # r => d.res[q] = c.res[q]
  BY <1>1, <1>2 DEF Becomes
<1>6. ASSUME NEW h, Free(c, h) PROVE Free(d, h)
  BY <1>4, <1>5, <1>6 DEF Free
<1>7. QED
  BY <1>5, <1>6 DEF d, k

(* A reload: the object in the cache is removed and another one is loaded. *)
LEMMA ReloadingStep ==
  ASSUME Running(cache, told, stack, {}), NEW h \in Requesters, NEW u \in Urls,
         RequestReloading(h, u)
  PROVE  Running(cache', told', stack', {})
<1> DEFINE e == cache.map[u]
           c == remove(cache, e)
<1>1. MayRequest(h) /\ e # None /\ requestResource(c, h, u, stack)
  BY DEF RequestReloading
<1>2. /\ Free(cache, h) /\ NoPrune(stack)
      /\ \A f \in Range(stack) : f.op \notin {"clear", "release"} /\ (Delivers(f) => f.h # h)
  BY <1>1, MayAsk
<1>3. /\ e \in Resources /\ cache.res[e].inCache /\ cache.res[e].access > 0
      /\ Sound(cache.res[e]) /\ Inv(cache)
  BY <1>1 DEF Running, Inv, Mapped, CacheType, AllSound
<1>4. cache.res[e].life = "alive"
  BY <1>3, NoObject DEF Sound, Formed
<1> HIDE DEF e
<1>5. \A f \in Range(stack) : ~(f.op = "load" /\ f.new /\ f.r = e /\ cache.res[e].life = "alive")
  BY <1>3 DEF Running, FramesOK, FrameOK
<1>6. Running(c, told, stack, {})
  BY <1>3, <1>4, <1>5, RemoveKept
<1>7. Free(c, h) /\ \A q \in Resources : q # e => c.res[q] = cache.res[q]
  BY <1>2, <1>3, RemoveLeaves
<1>8. \A n \in Resources \ Born : c.res[n].life = "unborn"
  BY <1>4, <1>7, NotBorn
<1> HIDE DEF c
<1>9. QED
  BY <1>1, <1>2, <1>6, <1>7, <1>8, RequestResourceKept

(* A conditional request: a validator takes the place of the object.       *)
LEMMA RevalidatingStep ==
  ASSUME Running(cache, told, stack, {}), NEW h \in Requesters, NEW u \in Urls,
         RequestRevalidating(h, u)
  PROVE  Running(cache', told', stack', {})
<1> DEFINE e == cache.map[u]
<1>1. /\ MayRequest(h) /\ e # None /\ cache.res[e].reval = None /\ ~cache.res[e].isReval
      /\ UNCHANGED told
  BY DEF RequestRevalidating, res
<1> DEFINE f(n) == [op |-> "load", r |-> n, h |-> h, u |-> u, new |-> FALSE]
           g == [op |-> "lookup", h |-> h, u |-> u]
<1>2. \E n \in Resources \ Born :
        /\ cache' = takesPlace(remove(toRevalidate(cache, n, u, e), e), n, u)
        /\ stack' = <<f(n), g>> \o stack
  BY DEF RequestRevalidating, takesPlace, toRevalidate, validator
<1>3. PICK n \in Resources \ Born :
        /\ cache' = takesPlace(remove(toRevalidate(cache, n, u, e), e), n, u)
        /\ stack' = <<f(n), g>> \o stack
  BY <1>2
<1>4. /\ Free(cache, h) /\ NoPrune(stack)
      /\ \A k \in Range(stack) : /\ k.op \notin {"prune", "clear", "release"}
                                 /\ Delivers(k) => k.h # h
  BY <1>1, MayAsk
<1>5. /\ e \in Resources /\ cache.res[e].inCache /\ cache.res[e].access > 0
      /\ cache.res[n].life = "unborn"
  BY <1>1, NotBorn DEF Running, Inv, Mapped, CacheType
<1> HIDE DEF e
<1> DEFINE d == takesPlace(remove(toRevalidate(cache, n, u, e), e), n, u)
<1>6. /\ Running(d, told, stack, {}) /\ d.res[n].life = "alive"
      /\ \A k : Free(cache, k) => Free(d, k)
  BY <1>1, <1>4, <1>5, RevalidatingKept
<1> HIDE DEF d
<1>7. stack \in Seq(Frames)
  BY DEF Running
<1>8. g \in Frames /\ f(n) \in Frames
  BY DEF Frames, Requesters
<1>9. Running(d, told, <<g>> \o stack, {})
  <2>1. FrameOK(g, d) /\ g.op # "stop"
    BY <1>4, <1>6 DEF FrameOK, Delivers, Ending
  <2>2. \A k \in Range(stack) : Under(g, k)
    BY <1>4 DEF Under, Apart, Delivers, Ending
  <2> HIDE DEF g
  <2>3. QED
    BY <1>6, <1>8, <2>1, <2>2, PushKept
<1>10. <<g>> \o stack \in Seq(Frames) /\ Range(<<g>> \o stack) = {g} \cup Range(stack)
  BY <1>7, <1>8, StackParts
<1>11. Running(d, told, <<f(n)>> \o (<<g>> \o stack), {})
  <2> DEFINE l == f(n)
  <2>1. FrameOK(l, d) /\ l.op # "stop"
    BY <1>6 DEF FrameOK, Delivers, Ending
  <2>2. ASSUME NEW k \in Range(<<g>> \o stack) PROVE Under(l, k)
    <3>1. k = g \/ k \in Range(stack)
      BY <1>10
    <3>2. k.op \notin {"prune", "clear", "release"}
      BY <1>4, <3>1
    <3>3. QED
      BY <3>2 DEF Under, Apart, Delivers, Ending
  <2> HIDE DEF l, g
  <2>3. Running(d, told, <<l>> \o (<<g>> \o stack), {})
    BY <1>8, <1>9, <2>1, <2>2, PushKept DEF l
  <2>4. QED
    BY <2>3 DEF l
<1>12. <<f(n), g>> \o stack = <<f(n)>> \o (<<g>> \o stack)
  <2> HIDE DEF f, g
  <2> QED BY <1>7, <1>8
<1>13. QED
  BY <1>1, <1>3, <1>11, <1>12 DEF d

(* Loader::load has returned.                                              *)
LEMMA LoadReturnsStep ==
  ASSUME Running(cache, told, stack, {}), LoadReturns,
         cache.res[Head(stack).r].life # "deleted"
  PROVE  Running(cache', told', stack', {})
<1> DEFINE f == Head(stack)
           s == Tail(stack)
           r == f.r
           c1 == started(cache, r)
<1>1. stack # <<>> /\ f.op = "load"
  BY DEF LoadReturns, In, Top
<1>2. /\ f \in Frames /\ FrameOK(f, cache)
      /\ \A g \in Range(s) : Under(f, g) /\ g \in Frames /\ FrameOK(g, cache)
  BY <1>1, TopIsOK
<1>3. r \in Resources /\ f.h \in Requesters /\ f.u \in Urls /\ f.new \in BOOLEAN
  BY <1>1, <1>2, FrameTypes DEF Requesters
<1>7. cache.res[r].life # "deleted"
  OBVIOUS
<1>8. cache.res[r].life = "alive"
  <2>1. cache.res[r] \in ResourceType
    BY <1>3 DEF Running, Inv, CacheType
  <2>2. cache.res[r].life # "unborn"
    BY <1>1, <1>2 DEF FrameOK
  <2>3. QED
    BY <1>7, <2>1, <2>2 DEF ResourceType
<1>9. stack' = s /\ IF f.new THEN Deliver(resourceAccessed(mapped(c1, f.u, r), r), r, f.h)
                   ELSE cache' = c1 /\ UNCHANGED told
  BY <1>7 DEF LoadReturns, Top, Pop, res, started, mapped
<1>4. CASE ~f.new
  <2>1. Running(cache, told, s, {})
    BY <1>1, <1>4, PopPlain
  <2> HIDE DEF f, s, r
  <2>2. Running(c1, told, s, {})
    BY <1>3, <1>8, <2>1, StartedKept
  <2>3. QED
    BY <1>4, <1>9, <2>2
<1>5. CASE f.new
  <2>1. Running(cache, told, s, {r})
    BY <1>1, <1>5, PopKept
  <2>2. /\ cache.res[r].inCache /\ cache.res[r].access = 0 /\ f.u = cache.res[r].url
        /\ Free(cache, f.h)
    BY <1>1, <1>2, <1>5, <1>8 DEF FrameOK, Delivers
  <2>3. \A g \in Range(s) : /\ g.op \notin {"prune", "clear", "release"}
                            /\ ~(g.op = "load" /\ g.new /\ g.r = r)
                            /\ Delivers(g) => g.h # f.h
    BY <1>1, <1>2, <1>5 DEF Under, Apart, Delivers
  <2> HIDE DEF f, s, r
  <2>4. /\ cache.res \in [Resources -> ResourceType] /\ Sound(cache.res[r])
    BY <1>3 DEF Running, Inv, CacheType, AllSound
  <2>5. cache.res[r].reval = None
    BY <2>2, <2>4 DEF Sound, Formed, Untouched
  <2>6. /\ Running(c1, told, s, {r})
        /\ c1.res[r] = [cache.res[r] EXCEPT !.loading = TRUE]
        /\ \A q \in Resources : q # r => c1.res[q] = cache.res[q]
    BY <1>3, <1>8, <2>1, StartedKept
  <2> HIDE DEF c1
  <2>7. /\ c1.res[r].inCache /\ f.u = c1.res[r].url /\ c1.res[r].reval = None
        /\ c1.res[r].life = "alive" /\ c1.res[r].handles = cache.res[r].handles
        /\ c1.res[r] \in ResourceType
    <3> DEFINE y == cache.res[r]
               x == c1.res[r]
    <3>1. y \in ResourceType /\ y.inCache /\ y.reval = None /\ f.u = y.url /\ y.life = "alive"
      BY <1>3, <1>8, <2>2, <2>4, <2>5
    <3>2. x = [y EXCEPT !.loading = TRUE]
      BY <2>6
    <3> HIDE DEF x, y
    <3>3. /\ x.inCache /\ f.u = x.url /\ x.reval = None /\ x.life = "alive"
          /\ x.handles = y.handles /\ x \in ResourceType
      BY <3>1, <3>2 DEF ResourceType
    <3>4. QED
      BY <3>3 DEF x, y
  <2> DEFINE d == resourceAccessed(mapped(c1, f.u, r), r)
  <2>8. /\ Running(d, told, s, {r}) /\ d.res[r] = accessed(c1.res[r])
        /\ \A q \in Resources : q # r => d.res[q] = c1.res[q]
    <3>1. NoPrune(s) /\ \A g \in Range(s) : ~(g.op = "load" /\ g.new /\ g.r = r)
      BY <2>3 DEF NoPrune
    <3>2. /\ Running(c1, told, s, {r}) /\ c1.res[r].inCache /\ f.u = c1.res[r].url
      BY <2>6, <2>7
    <3>3. QED
      BY <1>3, <3>1, <3>2, MappedKept
  <2>9. Deliver(d, r, f.h)
    BY <1>5, <1>9
  <2> HIDE DEF d
  <2>10. /\ d.res[r].access > 0 /\ d.res[r].reval = None /\ d.res[r].life = "alive"
         /\ d.res[r].handles = cache.res[r].handles
    BY <2>7, <2>8, AccessedObject
  <2>11. d.res[r].access # 0
    BY <2>10
  <2>12. Running(d, told, s, {})
    BY <1>3, <2>8, <2>10, <2>11, DoneFor
  <2>13. Free(d, f.h)
    BY <2>2, <2>6, <2>8, <2>10 DEF Free
  <2>14. \A g \in Range(s) : g.op # "release" /\ (Delivers(g) => g.h # f.h)
    BY <2>3
  <2>15. QED
    BY <1>3, <1>9, <2>9, <2>10, <2>12, <2>13, <2>14, DeliverKept
<1>6. QED
  BY <1>3, <1>4, <1>5

(* Cache::prune, up to its loops.                                          *)
LEMMA PrunePushed ==
  ASSUME NEW c, NEW t, NEW s, Running(c, t, s, {}),
         \A g \in Range(s) : g.op \notin {"prune", "clear"}
  PROVE  Running(c, t, PruneLive(c) \o s, {}) /\ Running(c, t, Prune(c) \o s, {})
<1> DEFINE f1 == [op |-> "prune", pass |-> "live", i |-> 0, target |-> targetSize(liveCapacity(c))]
           f2 == [op |-> "prune", pass |-> "flush", i |-> MaxIndex,
                  target |-> targetSize(deadCapacity(c))]
<1>1. /\ c.live \in Int /\ s \in Seq(Frames)
      /\ \A r \in Resources : c.res[r] \in ResourceType /\ Sound(c.res[r])
  BY DEF Running, Inv, CacheType, AllSound
<1>2. MaxIndex \in Nat /\ \A r \in Resources : lruIndex(c.res[r]) \in 0..MaxIndex
  BY <1>1, IndexRange
<1>3. f1 \in Frames /\ f2 \in Frames
  <2>1. targetSize(deadCapacity(c)) \in 0..Capacity /\ targetSize(liveCapacity(c)) \in 0..Capacity
    BY <1>1, Capacities
  <2>2. 0 \in 0..MaxIndex /\ MaxIndex \in 0..MaxIndex
    BY <1>2
  <2>3. QED
    BY <2>1, <2>2 DEF Frames
<1>4. Running(c, t, <<f1>> \o s, {})
  <2>1. f1.op = "prune" /\ f1.pass = "live"
    OBVIOUS
  <2> HIDE DEF f1
  <2>2. FrameOK(f1, c) /\ \A g \in Range(s) : Under(f1, g)
    BY <2>1 DEF FrameOK, Delivers, Ending, Under, Apart
  <2>3. QED
    BY <1>3, <2>1, <2>2, PushKept
<1>5. Running(c, t, <<f2>> \o s, {})
  <2>1. f2.op = "prune" /\ f2.i = MaxIndex
    OBVIOUS
  <2> HIDE DEF f2
  <2>2. \A r \in Resources : Evictable(c.res[r]) => c.res[r].queue <= f2.i
    <3> SUFFICES ASSUME NEW r \in Resources, Evictable(c.res[r]) PROVE c.res[r].queue <= f2.i
      OBVIOUS
    <3>1. c.res[r].queue = lruIndex(c.res[r])
      BY <1>1 DEF Evictable, Sound, Formed, Listed
    <3>2. QED
      BY <1>2, <2>1, <3>1
  <2>3. FrameOK(f2, c) /\ \A g \in Range(s) : Under(f2, g)
    BY <2>1, <2>2 DEF FrameOK, Delivers, Ending, Under, Apart
  <2>4. QED
    BY <1>3, <2>1, <2>3, PushKept
<1> HIDE DEF f1, f2
<1>6. <<>> \o s = s
  BY <1>1
<1>7. PruneLive(c) \in {<<>>, <<f1>>} /\ Prune(c) \in {<<>>, <<f1>>, <<f2>>}
  BY DEF Prune, PruneLive, f1, f2
<1>8. QED
  BY <1>4, <1>5, <1>6, <1>7

(* The frames that a prune pushes.                                         *)
LEMMA PruneTypes ==
  ASSUME NEW c, c.live \in Int
  PROVE  PruneLive(c) \in Seq(Frames) /\ Prune(c) \in Seq(Frames)
<1> DEFINE f1 == [op |-> "prune", pass |-> "live", i |-> 0, target |-> targetSize(liveCapacity(c))]
           f2 == [op |-> "prune", pass |-> "flush", i |-> MaxIndex,
                  target |-> targetSize(deadCapacity(c))]
<1>1. f1 \in Frames /\ f2 \in Frames
  <2>1. targetSize(deadCapacity(c)) \in 0..Capacity /\ targetSize(liveCapacity(c)) \in 0..Capacity
    BY Capacities
  <2>2. 0 \in 0..MaxIndex /\ MaxIndex \in 0..MaxIndex
    BY IndexRange
  <2>3. QED
    BY <2>1, <2>2 DEF Frames
<1>2. PruneLive(c) \in {<<>>, <<f1>>} /\ Prune(c) \in {<<>>, <<f1>>, <<f2>>}
  BY DEF Prune, PruneLive
<1> HIDE DEF f1, f2
<1>3. <<>> \in Seq(Frames) /\ <<f1>> \in Seq(Frames) /\ <<f2>> \in Seq(Frames)
  BY <1>1
<1>4. QED
  BY <1>2, <1>3

(* A client lets go of its object.                                         *)
LEMMA ReleaseStep ==
  ASSUME Running(cache, told, stack, {}), NEW h \in Holders, Release(h)
  PROVE  Running(cache', told', stack', {})
<1>1. ClientMayRun /\ told' = told \ {h}
  BY DEF Release, MayNest
<1>2. PICK r \in HandleOf(h) :
        LET c1 == removeClient(cache, r, h)
            last == c1.res[r].clients = {} /\ c1.res[r].inCache
        IN /\ h \in res[r].clients
           /\ cache' = c1
           /\ stack' = (IF last THEN Prune(c1) ELSE <<>>)
                         \o <<[op |-> "release", h |-> h, r |-> r]>> \o stack
  BY DEF Release
<1> DEFINE c1 == removeClient(cache, r, h)
           f == [op |-> "release", h |-> h, r |-> r]
           P == IF c1.res[r].clients = {} /\ c1.res[r].inCache THEN Prune(c1) ELSE <<>>
<1>3. /\ r \in Resources /\ h \in cache.res[r].clients
      /\ cache' = c1 /\ stack' = P \o <<f>> \o stack
  BY <1>2 DEF HandleOf, Alive, res
<1>4. /\ \A g \in Range(stack) : g.op \notin {"prune", "clear", "release"}
      /\ NoPrune(stack)
  BY <1>1, ClientIsCalled
<1> HIDE DEF c1
<1>5. /\ Running(c1, told \ {h}, stack, {})
      /\ c1.res[r].life = "alive"
      /\ h \notin c1.res[r].clients /\ h \in c1.res[r].handles
  <2>1. h \in cache.res[r].clients /\ r \in Resources /\ NoPrune(stack)
    BY <1>3, <1>4
  <2>2. /\ Running(removeClient(cache, r, h), told \ {h}, stack, {})
        /\ removeClient(cache, r, h).res[r].life = "alive"
        /\ h \notin removeClient(cache, r, h).res[r].clients
        /\ h \in removeClient(cache, r, h).res[r].handles
    BY <2>1, RemoveClientKept
  <2>3. QED
    BY <2>2 DEF c1
<1>6. f \in Frames /\ f.op = "release" /\ f.h = h /\ f.r = r
  BY <1>3 DEF Frames
<1> HIDE DEF f
<1>7. \A g \in Range(stack) : Under(f, g)
  <2> SUFFICES ASSUME NEW g \in Range(stack) PROVE Under(f, g)
    OBVIOUS
  <2>1. FrameOK(g, cache)
    BY DEF Running, FramesOK
  <2>2. g.op = "switch" => f.r # g.r \/ f.h \notin g.todo
    BY <1>3, <1>6, <2>1 DEF FrameOK
  <2>3. QED
    BY <1>4, <1>6, <2>2 DEF Under, Apart, Delivers, Ending
<1>8. FrameOK(f, c1)
  BY <1>5, <1>6 DEF FrameOK, Delivers, Ending
<1>9. Running(c1, told \ {h}, <<f>> \o stack, {})
  BY <1>5, <1>6, <1>7, <1>8, PushKept
<1>10. stack \in Seq(Frames)
  BY DEF Running
<1>11. \A g \in Range(<<f>> \o stack) : g.op \notin {"prune", "clear"}
  BY <1>4, <1>6, <1>10, StackParts
<1>12. <<f>> \o stack \in Seq(Frames) /\ <<>> \o (<<f>> \o stack) = <<f>> \o stack
  BY <1>6, <1>10
<1>13. P \in {<<>>, Prune(c1)} /\ P \in Seq(Frames)
  <2>1. <<>> \in Seq(Frames) /\ Prune(c1) \in Seq(Frames)
    BY <1>9, PruneTypes DEF Running, Inv, CacheType
  <2>2. QED
    BY <2>1
<1> HIDE DEF P
<1>14. P \o <<f>> \o stack = P \o (<<f>> \o stack)
  BY <1>6, <1>10, <1>13
<1>15. Running(c1, told \ {h}, P \o (<<f>> \o stack), {})
  BY <1>9, <1>11, <1>12, <1>13, PrunePushed
<1>16. QED
  BY <1>1, <1>3, <1>14, <1>15

(* The handle is gone after the client.                                    *)
LEMMA ReleaseHandleStep ==
  ASSUME Running(cache, told, stack, {}), ReleaseHandle
  PROVE  Running(cache', told', stack', {})
<1> DEFINE f == Head(stack)
           s == Tail(stack)
<1>1. /\ stack # <<>> /\ f.op = "release" /\ stack' = s /\ told' = told
      /\ cache' = deleteIfPossible([cache EXCEPT !.res[f.r].handles = @ \ {f.h}], f.r)
  BY DEF ReleaseHandle, In, Top, Pop
<1>2. /\ f \in Frames /\ FrameOK(f, cache)
      /\ \A g \in Range(s) : Under(f, g) /\ g \in Frames /\ FrameOK(g, cache)
  BY <1>1, TopIsOK
<1>3. f.r \in Resources /\ f.h \in Holders
  BY <1>1, <1>2, FrameTypes
<1>4. Running(cache, told, s, {})
  BY <1>1, PopPlain
<1>5. cache.res[f.r].life # "unborn" /\ f.h \notin cache.res[f.r].clients
  BY <1>1, <1>2 DEF FrameOK
<1>6. \A g \in Range(s) : g.op # "release" /\ (g.op = "switch" /\ g.r = f.r => f.h \notin g.todo)
  BY <1>1, <1>2 DEF Under, Apart
<1> HIDE DEF f, s
<1>7. Running(deleteIfPossible([cache EXCEPT !.res[f.r].handles = @ \ {f.h}], f.r), told, s, {})
  BY <1>3, <1>4, <1>5, <1>6, LeaveHandleKept
<1>8. QED
  BY <1>1, <1>7

(* An image is drawn: it is decoded and the live objects may be pruned.    *)
LEMMA DrawStep ==
  ASSUME Running(cache, told, stack, {}), NEW h \in Holders, Draw(h)
  PROVE  Running(cache', told', stack', {})
<1>1. stack = <<>> /\ told' = told
  BY DEF Draw
<1>2. PICK r \in HandleOf(h) :
        LET c1 == setDecodedSize(cache, r, Decoded) IN
        /\ cache' = c1
        /\ stack' = IF res[r].inCache THEN Prune(c1) ELSE <<>>
  BY DEF Draw
<1> DEFINE c1 == setDecodedSize(cache, r, Decoded)
<1>3. /\ r \in Resources /\ cache.res[r].life = "alive"
      /\ cache' = c1 /\ stack' \in {Prune(c1), <<>>}
  BY <1>2 DEF HandleOf, Alive, res
<1> HIDE DEF c1
<1>4. \A f \in Range(stack) : FALSE
  BY <1>1, ShapeEmpty
<1>5. cache.res[r].inCache => cache.res[r].access > 0
  <2>1. cache.res[r].inCache => cache.res[r].access # 0
    BY <1>3, <1>4 DEF Running, Loaded
  <2>2. cache.res[r].access \in Nat
    BY <1>3, Constants DEF Running, Inv, CacheType, ResourceType
  <2>3. QED
    BY <2>1, <2>2
<1>6. NoPrune(stack) /\ \A g \in Range(stack) : g.op \notin {"prune", "clear"}
  BY <1>4 DEF NoPrune
<1>7. Decoded \in {0, Decoded}
  OBVIOUS
<1>8. Running(c1, told, stack, {})
  BY <1>3, <1>5, <1>6, <1>7, SetDecodedSizeKept DEF c1
<1>9. Prune(c1) \in Seq(Frames)
  BY <1>8, PruneTypes DEF Running, Inv, CacheType
<1>10. Prune(c1) \o stack = Prune(c1)
  BY <1>1, <1>9
<1>11. Running(c1, told, Prune(c1) \o stack, {})
  BY <1>6, <1>8, PrunePushed
<1>12. QED
  BY <1>1, <1>3, <1>8, <1>10, <1>11

(* DocLoader::clearPreloads.                                               *)
LEMMA ClearPreloadsStep ==
  ASSUME Running(cache, told, stack, {}), ClearPreloads
  PROVE  Running(cache', told', stack', {})
<1> DEFINE T == {r \in Resources : cache.res[r].preload > 0}
           f == [op |-> "clear", todo |-> T]
<1>1. /\ ClientMayRun /\ (\E r \in Resources : cache.res[r].preload > 0)
      /\ stack' = <<f>> \o stack /\ cache' = cache /\ told' = told
  BY DEF ClearPreloads, Push, res
<1>2. \A g \in Range(stack) : g.op \notin {"prune", "clear", "release"}
  BY <1>1, ClientIsCalled
<1>3. f \in Frames /\ f.op = "clear" /\ f.todo = T
  BY DEF Frames
<1>4. T # {} /\ \A r \in T : cache.res[r].preload > 0
  BY <1>1
<1> HIDE DEF f, T
<1>5. FrameOK(f, cache)
  BY <1>3, <1>4 DEF FrameOK, Delivers, Ending
<1>6. \A g \in Range(stack) : Under(f, g)
  BY <1>2, <1>3 DEF Under, Apart, Delivers, Ending
<1>7. Running(cache, told, <<f>> \o stack, {})
  BY <1>3, <1>5, <1>6, PushKept
<1>8. QED
  BY <1>1, <1>7

(* One preload is taken off the list.                                      *)
LEMMA ClearNextStep ==
  ASSUME Running(cache, told, stack, {}), ClearNext
  PROVE  Running(cache', told', stack', {})
<1> DEFINE f == Head(stack)
           s == Tail(stack)
<1>1. stack # <<>> /\ f.op = "clear" /\ told' = told
  BY DEF ClearNext, In, Top
<1>2. PICK r \in f.todo :
        /\ cache' = ClearPreload(r, cache)
        /\ IF f.todo = {r} THEN stack' = s
           ELSE stack' = <<[f EXCEPT !.todo = @ \ {r}]>> \o s
  BY DEF ClearNext, Top, Pop, Replace
<1>3. /\ f \in Frames /\ FrameOK(f, cache)
      /\ \A g \in Range(s) : Under(f, g) /\ g \in Frames /\ FrameOK(g, cache)
      /\ s \in Seq(Frames)
  BY <1>1, TopIsOK
<1>4. /\ f.todo \subseteq Resources /\ r \in Resources
      /\ \A q \in f.todo : cache.res[q].preload > 0
  BY <1>1, <1>2, <1>3, FrameTypes DEF FrameOK
<1>5. Running(cache, told, s, {})
  BY <1>1, PopPlain
<1>6. \A g \in Range(s) : g.op \notin {"prune", "clear", "release"}
  BY <1>1, <1>3 DEF Under
<1>7. CASE f.todo = {r}
  <2>1. NoPrune(s) /\ \A g \in Range(s) : g.op = "clear" => r \notin g.todo
    BY <1>6 DEF NoPrune
  <2> HIDE DEF f, s
  <2>2. Running(ClearPreload(r, cache), told, s, {})
    BY <1>4, <1>5, <2>1, ClearPreloadKept
  <2>3. QED
    BY <1>1, <1>2, <1>7, <2>2
<1>8. CASE f.todo # {r}
  <2> DEFINE g == [f EXCEPT !.todo = @ \ {r}]
  <2>1. g = [op |-> "clear", todo |-> f.todo \ {r}]
    <3>1. f = [op |-> "clear", todo |-> f.todo]
      BY <1>1, <1>3 DEF Frames
    <3> HIDE DEF f
    <3>2. QED
      BY <3>1
  <2>2. stack' = <<g>> \o s
    BY <1>2, <1>8
  <2> HIDE DEF g, f, s
  <2>3. g \in Frames /\ g.op = "clear" /\ g.todo = f.todo \ {r}
    BY <1>4, <2>1 DEF Frames
  <2>4. FrameOK(g, cache)
    BY <1>2, <1>4, <1>8, <2>3 DEF FrameOK, Delivers, Ending
  <2>5. \A k \in Range(s) : Under(g, k)
    BY <1>6, <2>3 DEF Under, Apart, Delivers, Ending
  <2>6. Running(cache, told, <<g>> \o s, {})
    BY <1>5, <2>3, <2>4, <2>5, PushKept
  <2>7. Range(<<g>> \o s) = {g} \cup Range(s)
    BY <1>3, <2>3, StackParts
  <2>8. NoPrune(<<g>> \o s) /\ \A k \in Range(<<g>> \o s) : k.op = "clear" => r \notin k.todo
    BY <1>6, <2>3, <2>7 DEF NoPrune
  <2>9. Running(ClearPreload(r, cache), told, <<g>> \o s, {})
    BY <1>4, <2>6, <2>8, ClearPreloadKept
  <2>10. QED
    BY <1>1, <1>2, <2>2, <2>9
<1>9. QED
  BY <1>7, <1>8

(* Loader::Host.  An object with a request is there.                       *)
LEMMA HasRequest ==
  ASSUME NEW c, NEW t, NEW s, NEW E, Running(c, t, s, E), NEW r \in Resources,
         c.res[r].request # "none"
  PROVE  /\ c.res[r].life = "alive" /\ c.res[r] \in ResourceType
         /\ c.res[r].request # "ending" => \A f \in Range(s) : ~Ending(f, r)
<1>1. c.res[r] \in ResourceType /\ Sound(c.res[r])
  BY DEF Running, Inv, CacheType, AllSound
<1>2. c.res[r].life = "alive"
  BY <1>1, NoObject DEF Sound, Formed
<1>3. \A f \in Range(s) : Ending(f, r) => c.res[r].request = "ending"
  BY DEF Running, FramesOK, FrameOK
<1>4. QED
  BY <1>1, <1>2, <1>3

(* Nothing runs.                                                           *)
LEMMA Idle ==
  ASSUME NEW c, NEW t, NEW s, NEW E, Running(c, t, s, {}), s = <<>>
  PROVE  /\ Range(s) = {} /\ NoPrune(s)
         /\ \A r \in Resources : c.res[r].inCache => c.res[r].access > 0
<1>1. Range(s) = {}
  BY ShapeEmpty
<1>2. ASSUME NEW r \in Resources, c.res[r].inCache PROVE c.res[r].access > 0
  <2>1. c.res[r].access # 0
    BY <1>1, <1>2 DEF Running, Loaded
  <2>2. c.res[r].access \in Nat
    BY Constants DEF Running, Inv, CacheType, ResourceType
  <2>3. QED
    BY <2>1, <2>2
<1>3. QED
  BY <1>1, <1>2 DEF NoPrune

(* The clients of an object are to be told.                                *)
telling(c, r, then) ==
  [op |-> "notify", r |-> r, todo |-> c.res[r].clients, called |-> FALSE, then |-> then]

pushed(s, c, r, then) == <<telling(c, r, then)>> \o s

(* The clients of an object are about to be told.                          *)
LEMMA TellingPushed ==
  ASSUME NEW c, NEW t, NEW s, Running(c, t, s, {}), NEW r \in Resources,
         c.res[r].life = "alive", NEW then, then = "return",
         \A g \in Range(s) : g.op \notin {"prune", "clear", "release"}
  PROVE  /\ Running(c, t, pushed(s, c, r, then), {})
         /\ NoPrune(pushed(s, c, r, then))
         /\ \A g \in Range(pushed(s, c, r, then)) : g \in Range(s) \/ ~Ending(g, r)
         /\ Tells(pushed(s, c, r, then), c, r)
<1> DEFINE f == telling(c, r, then)
<1>1. c.res[r] \in ResourceType /\ s \in Seq(Frames)
  BY DEF Running, Inv, CacheType
<1>2. /\ f \in Frames /\ f.op = "notify" /\ f.r = r /\ f.todo = c.res[r].clients
      /\ f.then = then
  <2>1. c.res[r].clients \in SUBSET Holders
    BY <1>1 DEF ResourceType
  <2>2. QED
    BY <2>1 DEF Frames, telling
<1> HIDE DEF f, pushed
<1>3. \A q : ~Ending(f, q)
  BY <1>2 DEF Ending
<1>4. FrameOK(f, c)
  BY <1>2, <1>3 DEF FrameOK, Delivers
<1>5. \A g \in Range(s) : Under(f, g)
  BY <1>2, <1>3 DEF Under, Apart, Delivers
<1>6. Running(c, t, <<f>> \o s, {})
  BY <1>2, <1>4, <1>5, PushKept
<1>7. Range(<<f>> \o s) = {f} \cup Range(s)
  BY <1>1, <1>2, StackParts
<1>8. NoPrune(<<f>> \o s) /\ \A g \in Range(<<f>> \o s) : g \in Range(s) \/ ~Ending(g, r)
  BY <1>2, <1>3, <1>7 DEF NoPrune
<1>9. Tells(<<f>> \o s, c, r)
  BY <1>2, <1>7 DEF Tells
<1>10. QED
  BY <1>6, <1>8, <1>9 DEF f, pushed

Thens == {"return", "refused", "delete request", "broken", "remove"}

(* The method that tells them will have the request deleted.               *)
LEMMA EndingPushed ==
  ASSUME NEW c, NEW t, NEW s \in Seq(Frames), NEW r \in Resources, NEW b,
         NEW first, first = "return", NEW then \in Thens,
         b.res[r].clients \in SUBSET Holders,
         Running(c, t, pushed(s, b, r, first), {}),
         c.res[r].request = "ending", c.res[r].life = "alive",
         \A g \in Range(s) : g.op \notin {"prune", "clear", "release"} /\ ~Ending(g, r)
  PROVE  Running(c, t, pushed(s, b, r, then), {})
<1> DEFINE f == telling(b, r, then)
           g == telling(b, r, first)
           w == <<g>> \o s
<1>1. /\ f \in Frames /\ f.op = "notify" /\ f.r = r /\ f.todo = b.res[r].clients
      /\ g \in Frames /\ g.op = "notify" /\ g.r = r /\ g.todo = b.res[r].clients
  BY DEF Frames, telling, Thens
<1>2. Running(c, t, w, {})
  BY DEF pushed
<1> HIDE DEF f, g
<1>3. w # <<>> /\ Head(w) = g /\ Tail(w) = s
  BY <1>1, PushProperties
<1> HIDE DEF w
<1>4. \A q : Ending(f, q) => q = r
  BY <1>1 DEF Ending
<1>5. FrameOK(f, c)
  BY <1>1, <1>4 DEF FrameOK, Delivers
<1>6. \A k \in Range(s) : Under(f, k)
  BY <1>1, <1>4 DEF Under, Apart, Delivers
<1>7. \A h \in g.todo : h \in f.todo
  BY <1>1
<1> DEFINE e == {}
<1>8. e \in SUBSET Holders /\ t \cup e = t
  OBVIOUS
<1> HIDE DEF e
<1>9. Running(c, t \cup e, <<f>> \o Tail(w), {})
  BY <1>1, <1>2, <1>3, <1>5, <1>6, <1>7, <1>8, RetoldKept
<1>10. QED
  BY <1>3, <1>8, <1>9 DEF f, pushed

requesting(c, r, q) == [c EXCEPT !.res[r].request = q]

(* Its request fails: error, and the clients are to be told.               *)
LEMMA FailedKept ==
  ASSUME NEW c, NEW t, NEW s, Running(c, t, s, {}), NEW r \in Resources,
         c.res[r].request # "none", c.res[r].request # "ending",
         NEW first, first = "return", NEW then \in Thens,
         \A g \in Range(s) : g.op \notin {"prune", "clear", "release"}
  PROVE  /\ Running(error(c, r), t, pushed(s, c, r, first), {})
         /\ Running(requesting(error(c, r), r, "ending"), t, pushed(s, c, r, then), {})
<1> DEFINE w == pushed(s, c, r, first)
           d == error(c, r)
           a == requesting(d, r, "ending")
<1> HIDE DEF d, a
<1>1. c.res[r].life = "alive" /\ \A f \in Range(s) : ~Ending(f, r)
  BY HasRequest
<1>2. Running(c, t, w, {}) /\ NoPrune(w) /\ Tells(w, c, r)
  BY <1>1, TellingPushed
<1> HIDE DEF w
<1>3. Running(d, t, w, {}) /\ d.res[r].life = "alive" /\ d.res[r].request = c.res[r].request
  BY <1>1, <1>2, ErrorKept DEF d
<1> HIDE DEF d
<1>4. Running(a, t, w, {})
  <2>1. "ending" \in {"loading", "ending"}
    OBVIOUS
  <2>2. a = [d EXCEPT !.res[r].request = "ending"]
    BY DEF a, requesting
  <2>3. QED
    BY <1>3, <2>1, <2>2, RequestKept
<1>5. a.res[r].request = "ending" /\ a.res[r].life = "alive"
  <2> DEFINE y == [d.res[r] EXCEPT !.request = "ending"]
  <2>1. d \in CacheType
    BY <1>3 DEF Running, Inv
  <2>2. a.res[r] = y
    BY <2>1 DEF a, requesting, CacheType
  <2>3. d.res[r] \in ResourceType
    BY <2>1 DEF CacheType
  <2>4. y.request = "ending" /\ y.life = d.res[r].life
    BY <2>3 DEF ResourceType
  <2>5. QED
    BY <1>3, <2>2, <2>4
<1>6. s \in Seq(Frames) /\ c.res[r].clients \in SUBSET Holders
  BY DEF Running, Inv, CacheType, ResourceType
<1>7. Running(a, t, pushed(s, c, r, then), {})
  BY <1>1, <1>4, <1>5, <1>6, EndingPushed DEF w
<1>8. QED
  BY <1>3, <1>7 DEF d, w, a

(* A queued request starts.                                                *)
LEMMA ServeStep ==
  ASSUME Running(cache, told, stack, {}), NEW r \in Resources, Serve(r)
  PROVE  Running(cache', told', stack', {})
<1> DEFINE d == requesting(cache, r, "loading")
<1>1. /\ cache.res[r].request = "queued" /\ cache' = d
      /\ told' = told /\ stack' = stack
  BY DEF Serve, res, requesting
<1>2. cache.res[r].request # "none" /\ cache.res[r].request # "ending"
  BY <1>1
<1>3. cache.res[r].life = "alive" /\ \A f \in Range(stack) : ~Ending(f, r)
  BY <1>2, HasRequest
<1>4. d = [cache EXCEPT !.res[r].request = "loading"] /\ "loading" \in {"loading", "ending"}
  BY DEF requesting
<1> HIDE DEF d
<1>5. Running(d, told, stack, {})
  BY <1>3, <1>4, RequestKept
<1>6. QED
  BY <1>1, <1>5

(* A queued request does not start.                                        *)
LEMMA ServeFailsStep ==
  ASSUME Running(cache, told, stack, {}), NEW r \in Resources, ServeFails(r)
  PROVE  Running(cache', told', stack', {})
<1>1. /\ HostMayRun /\ cache.res[r].request = "queued"
      /\ cache' = requesting(error(cache, r), r, "ending") /\ told' = told
      /\ stack' = pushed(stack, cache, r, "refused")
  BY DEF ServeFails, res, requesting, pushed, telling, Telling, Push
<1>2. cache.res[r].request # "none" /\ cache.res[r].request # "ending"
  BY <1>1
<1> DEFINE then == "refused"
<1>3. /\ then \in Thens
      /\ \A g \in Range(stack) : g.op \notin {"prune", "clear", "release"}
  BY <1>1, ClientIsCalled DEF Thens
<1> HIDE DEF then
<1>4. Running(requesting(error(cache, r), r, "ending"), told, pushed(stack, cache, r, then), {})
  BY <1>2, <1>3, FailedKept
<1>5. QED
  BY <1>1, <1>4 DEF then

(* Data arrives.                                                           *)
LEMMA DataStep ==
  ASSUME Running(cache, told, stack, {}), NEW r \in Resources, Data(r)
  PROVE  Running(cache', told', stack', {})
<1> DEFINE d == setEncodedSize(cache, r, Partial)
<1>1. /\ stack = <<>> /\ cache.res[r].request = "loading" /\ cache' = d
      /\ told' = told /\ stack' = stack
  BY DEF Data, Loading, res
<1>2. cache.res[r].life = "alive"
  BY <1>1, HasRequest
<1>3. NoPrune(stack) /\ (cache.res[r].inCache => cache.res[r].access > 0)
  BY <1>1, Idle
<1>4. Partial \in 0..Whole
  BY DEF Partial, Whole
<1> HIDE DEF d
<1>5. Running(d, told, stack, {})
  BY <1>2, <1>3, <1>4, SetEncodedSizeKept DEF d
<1>6. QED
  BY <1>1, <1>5

(* The answer is an HTTP error.                                            *)
LEMMA HttpErrorStep ==
  ASSUME Running(cache, told, stack, {}), NEW r \in Resources, HttpError(r)
  PROVE  Running(cache', told', stack', {})
<1>1. /\ stack = <<>> /\ cache.res[r].request = "loading"
      /\ cache' = error(cache, r) /\ told' = told
      /\ stack' = pushed(stack, cache, r, "return")
  BY DEF HttpError, Loading, res, pushed, telling, Telling, Push
<1>2. cache.res[r].request # "none" /\ cache.res[r].request # "ending"
  BY <1>1
<1> DEFINE then == "return"
<1>3. /\ then \in Thens /\ then = "return"
      /\ \A g \in Range(stack) : g.op \notin {"prune", "clear", "release"}
  BY <1>1, Idle DEF Thens
<1> HIDE DEF then
<1>4. Running(error(cache, r), told, pushed(stack, cache, r, then), {})
  BY <1>2, <1>3, FailedKept
<1>5. QED
  BY <1>1, <1>4 DEF then

(* A revalidation that fails, or an object that revalidates nothing.       *)
LEMMA RevalidationFailedKept ==
  ASSUME NEW c, NEW t, NEW s, Running(c, t, s, {}), NEW r \in Resources,
         c.res[r].request # "none", c.res[r].request # "ending"
  PROVE  /\ Running(revalidationFailed(c, r), t, s, {})
         /\ revalidationFailed(c, r).res[r].request = c.res[r].request
         /\ revalidationFailed(c, r).res[r].clients = c.res[r].clients
<1> DEFINE d == revalidationFailed(c, r)
           x == [c.res[r] EXCEPT !.reval = None]
<1>1. c.res[r] \in ResourceType /\ \A f \in Range(s) : ~(f.op = "switch" /\ f.n = r)
  BY HasRequest DEF Ending
<1>2. CASE c.res[r].reval = None
  BY <1>2 DEF revalidationFailed
<1>3. CASE c.res[r].reval # None
  <2>1. d = clearResourceToRevalidate(c, r)
    BY <1>3 DEF revalidationFailed
  <2>2. /\ x.request = c.res[r].request /\ x.clients = c.res[r].clients
    BY <1>1 DEF ResourceType
  <2> HIDE DEF d, x
  <2>3. settle(x) = x
    BY <2>2 DEF settle, canDelete
  <2>4. /\ Running(clearResourceToRevalidate(c, r), t, s, {})
        /\ clearResourceToRevalidate(c, r).res[r] = settle([c.res[r] EXCEPT !.reval = None])
    BY <1>1, <1>3, ClearRevalidateKept
  <2>5. QED
    BY <2>1, <2>2, <2>3, <2>4 DEF d, x
<1>4. QED
  BY <1>2, <1>3

(* The load fails.                                                         *)
LEMMA DidFailStep ==
  ASSUME Running(cache, told, stack, {}), NEW r \in Resources, DidFail(r)
  PROVE  Running(cache', told', stack', {})
<1> DEFINE c == revalidationFailed(cache, r)
<1>1. /\ ClientMayRun /\ cache.res[r].request = "loading"
      /\ cache' = requesting(error(c, r), r, "ending") /\ told' = told
      /\ stack' = pushed(stack, cache, r, "remove")
  BY DEF DidFail, MayNest, res, requesting, pushed, telling, Telling, Push
<1>2. cache.res[r].request # "none" /\ cache.res[r].request # "ending"
  BY <1>1
<1>3. /\ Running(c, told, stack, {}) /\ c.res[r].request = cache.res[r].request
      /\ c.res[r].clients = cache.res[r].clients
  BY <1>2, RevalidationFailedKept
<1> HIDE DEF c
<1> DEFINE then == "remove"
<1>4. /\ then \in Thens
      /\ \A g \in Range(stack) : g.op \notin {"prune", "clear", "release"}
  BY <1>1, ClientIsCalled DEF Thens
<1>5. c.res[r].request # "none" /\ c.res[r].request # "ending"
  BY <1>2, <1>3
<1> HIDE DEF then
<1>6. Running(requesting(error(c, r), r, "ending"), told, pushed(stack, c, r, then), {})
  BY <1>3, <1>4, <1>5, FailedKept
<1>7. pushed(stack, c, r, then) = pushed(stack, cache, r, then)
  BY <1>3 DEF pushed, telling
<1>8. QED
  BY <1>1, <1>6, <1>7 DEF then

(* The server sends a new version: the validator stays in the place of the *)
(* old object.                                                             *)
LEMMA ModifiedStep ==
  ASSUME Running(cache, told, stack, {}), NEW r \in Resources, Modified(r)
  PROVE  Running(cache', told', stack', {})
<1>1. /\ stack = <<>> /\ cache.res[r].reval # None
      /\ cache' = clearResourceToRevalidate(cache, r) /\ told' = told /\ stack' = stack
  BY DEF Modified, Loading, res
<1>2. \A f \in Range(stack) : ~(f.op = "switch" /\ f.n = r)
  BY <1>1, Idle
<1>3. Running(clearResourceToRevalidate(cache, r), told, stack, {})
  BY <1>1, <1>2, ClearRevalidateKept
<1>4. QED
  BY <1>1, <1>3

(* An object is loaded, when a method is to tell its clients.              *)
loaded(c, r) == [c EXCEPT !.res[r].loading = FALSE, !.res[r].request = "ending"]

(* An object has been loaded, once its clients are going to be told.       *)
LEMMA LoadedKept ==
  ASSUME NEW c, NEW t, NEW s, NEW E, Running(c, t, s, E), NEW r \in Resources,
         c.res[r].life = "alive", Tells(s, c, r)
  PROVE  /\ Running(loaded(c, r), t, s, E)
         /\ loaded(c, r).res[r].request = "ending" /\ loaded(c, r).res[r].life = "alive"
<1> DEFINE y == c.res[r]
           x == [y EXCEPT !.loading = FALSE, !.request = "ending"]
           d == loaded(c, r)
<1>1. /\ c \in CacheType /\ y \in ResourceType
  BY DEF Running, Inv, CacheType
<1>2. /\ x \in ResourceType /\ Alike(x, y) /\ x.request = "ending" /\ x.life = "alive"
  BY <1>1 DEF ResourceType, Alike
<1>3. d = [c EXCEPT !.res[r] = x]
  BY <1>1 DEF CacheType, loaded
<1>10. d.res[r].request = "ending" /\ d.res[r].life = "alive"
  <2> HIDE DEF x, d
  <2>1. d.res[r] = x
    BY <1>1, <1>3 DEF CacheType
  <2>2. QED
    BY <1>2, <2>1
<1> HIDE DEF x, d
<1>4. settle(x) = x
  BY <1>2 DEF settle, canDelete
<1>5. \A f \in Range(s) : Ending(f, r) => x.request = "ending"
  BY <1>2
<1>6. \A h \in x.clients : ~x.loading =>
        \/ h \in t \/ ~c.res[r].loading
        \/ \E f \in Range(s) : f.op = "notify" /\ f.r = r /\ h \in f.todo
  BY <1>2 DEF Alike, Tells
<1>7. Alike(x, c.res[r]) /\ d = [c EXCEPT !.res[r] = settle(x)]
  BY <1>2, <1>3, <1>4
<1>8. \A g : g = [c EXCEPT !.res[r] = settle(x)] => Running(g, t, s, E)
  BY <1>2, <1>5, <1>6, <1>7, AlikeKept
<1>9. QED
  BY <1>7, <1>8, <1>10 DEF d

(* The load ends.                                                          *)
LEMMA DidFinishLoadingStep ==
  ASSUME Running(cache, told, stack, {}), NEW r \in Resources, DidFinishLoading(r)
  PROVE  Running(cache', told', stack', {})
<1>1. stack = <<>> /\ cache.res[r].request = "loading" /\ told' = told
  BY DEF DidFinishLoading, Loading, res
<1>2. cache.res[r].request # "none"
  BY <1>1
<1>3. cache.res[r].life = "alive"
  BY <1>2, HasRequest
<1>4. Range(stack) = {} /\ NoPrune(stack) /\ (cache.res[r].inCache => cache.res[r].access > 0)
  BY <1>1, Idle
<1>5. CASE cache' = deleteRequest(cache, r) /\ stack' = stack
  <2>1. Running(deleteRequest(cache, r), told, stack, {})
    BY <1>3, <1>4, DeleteRequestKept
  <2>2. QED
    BY <1>1, <1>5, <2>1
<1>8. /\ \A g \in Range(stack) : g.op \notin {"prune", "clear", "release"} /\ ~Ending(g, r)
      /\ stack \in Seq(Frames) /\ cache.res[r].clients \in SUBSET Holders
  BY <1>4 DEF Running, Inv, CacheType, ResourceType
<1> DEFINE c == setEncodedSize(cache, r, Whole)
<1>6. CASE cache' = loaded(c, r) /\ stack' = pushed(stack, cache, r, "delete request")
  <2> DEFINE first == "return"
             then == "delete request"
             w == pushed(stack, cache, r, first)
  <2>1. first = "return" /\ then \in Thens
    BY DEF Thens
  <2> HIDE DEF first, then
  <2>3. Running(cache, told, w, {}) /\ NoPrune(w) /\ Tells(w, cache, r)
    BY <1>3, <1>8, <2>1, TellingPushed
  <2> HIDE DEF w, c
  <2>4. Whole \in 0..Whole
    BY DEF Whole
  <2>5. Running(c, told, w, {}) /\ Resembles(c.res[r], cache.res[r])
    BY <1>3, <1>4, <2>3, <2>4, SetEncodedSizeKept DEF c
  <2>6. c.res[r].life = "alive" /\ c.res[r].clients = cache.res[r].clients
    BY <1>3, <2>5 DEF Resembles
  <2>7. Tells(w, c, r)
    BY <2>3, <2>6 DEF Tells
  <2>8. /\ Running(loaded(c, r), told, w, {})
        /\ loaded(c, r).res[r].request = "ending" /\ loaded(c, r).res[r].life = "alive"
    BY <2>5, <2>6, <2>7, LoadedKept
  <2>9. Running(loaded(c, r), told, pushed(stack, cache, r, then), {})
    BY <1>8, <2>1, <2>8, EndingPushed DEF w
  <2>10. QED
    BY <1>1, <1>6, <2>9 DEF then
<1>9. CASE /\ cache' = requesting(error(cache, r), r, "ending")
           /\ stack' = pushed(stack, cache, r, "broken")
  <2> DEFINE first == "return"
             then == "broken"
  <2>1. first = "return" /\ then \in Thens
    BY DEF Thens
  <2>2. cache.res[r].request # "ending"
    BY <1>1
  <2> HIDE DEF first, then
  <2>3. Running(requesting(error(cache, r), r, "ending"), told, pushed(stack, cache, r, then), {})
    BY <1>2, <1>8, <2>1, <2>2, FailedKept
  <2>4. QED
    BY <1>1, <1>9, <2>3 DEF then
<1>7. QED
  BY <1>5, <1>6, <1>9
     DEF DidFinishLoading, pushed, telling, Telling, Push, loaded, requesting, res

(* A request is cancelled: remove, then delete request.                    *)
ended(y) == [y EXCEPT !.request = "none"]

(* What deleting the request makes of the object it was for.               *)
LEMMA DeleteRequestIs ==
  ASSUME NEW c \in CacheType, NEW r \in Resources
  PROVE  deleteRequest(c, r) = [c EXCEPT !.res[r] = settle(ended(c.res[r]))]
<1> DEFINE y == c.res[r]
           x == ended(y)
           c1 == [c EXCEPT !.res[r] = x]
<1>1. y \in ResourceType
  BY DEF CacheType
<1>2. x \in ResourceType
  BY <1>1 DEF ResourceType, ended
<1>3. c1 = [c EXCEPT !.res[r].request = "none"]
  BY DEF CacheType, ended
<1>4. c1 \in CacheType /\ c1.res[r] = x
  <2> HIDE DEF x
  <2> QED BY <1>2 DEF CacheType
<1>5. deleteIfPossible(c1, r) = [c1 EXCEPT !.res[r] = settle(c1.res[r])]
  <2> HIDE DEF c1
  <2> QED BY <1>4, DeleteIfPossible
<1>6. [c1 EXCEPT !.res[r] = settle(x)] = [c EXCEPT !.res[r] = settle(x)]
  <2> HIDE DEF x
  <2> QED BY DEF CacheType
<1>7. QED
  BY <1>3, <1>4, <1>5, <1>6 DEF deleteRequest

(* An object that load() is still called for: nobody has it.               *)
LEMMA NobodyHasIt ==
  ASSUME NEW c, NEW t, NEW s, NEW E, Running(c, t, s, E), NEW r \in Resources,
         c.res[r].life = "alive",
         NEW g \in Range(s), g.op = "load", g.new, g.r = r
  PROVE  c.res[r].inCache /\ c.res[r].access = 0 /\ Untouched(c.res[r])
<1>1. FrameOK(g, c) /\ Sound(c.res[r])
  BY DEF Running, FramesOK, Inv, AllSound
<1>2. QED
  BY <1>1 DEF FrameOK, Sound, Formed

(* Its request is cancelled, and it is deleted.                            *)
LEMMA CancelledUngiven ==
  ASSUME NEW c, NEW t, NEW s, NEW E, Running(c, t, s, E), NEW r \in Resources,
         c.res[r].life = "alive", c.res[r].request # "none",
         c.res[r].inCache, c.res[r].access = 0, Untouched(c.res[r]),
         \A f \in Range(s) : ~Ending(f, r)
  PROVE  Running(deleteRequest(remove(c, r), r), t, s, E)
<1> DEFINE y == c.res[r]
           x1 == removed(y)
           x == ended(x1)
           c1 == remove(c, r)
           d == deleteRequest(c1, r)
<1>1. Inv(c) /\ c \in CacheType /\ y \in ResourceType /\ Sound(y)
  BY DEF Running, Inv, AllSound, CacheType
<1>2. /\ x1 \in ResourceType /\ Formed(x1) /\ x1.inCache = FALSE
      /\ x1.life = y.life /\ x1.clients = y.clients /\ x1.handles = y.handles
      /\ x1.isReval = y.isReval /\ x1.reval = y.reval /\ x1.request = y.request
      /\ x1.preload = y.preload /\ liveOf(x1) = 0 /\ deadOf(x1) = 0
  BY <1>1, RemovedObject
<1>3. settle(x1) = x1
  BY <1>2 DEF settle, canDelete
<1>4. /\ Becomes(c, c1, r, settle(x1))
      /\ c1.map = IF y.inCache THEN [c.map EXCEPT ![y.url] = None] ELSE c.map
  BY <1>1, RemoveIs
<1> HIDE DEF c1, x1
<1>5. /\ x \in ResourceType /\ x.request = "none" /\ Alike(x, x1)
  BY <1>2 DEF ResourceType, Alike, ended
<1> HIDE DEF x
<1>6. /\ Formed(x) /\ x.inCache = FALSE /\ x.life = "alive"
      /\ x.clients = {} /\ x.handles = {} /\ x.preload = 0 /\ x.reval = None
      /\ ~x.isReval /\ x.isReval = y.isReval
  <2>1. /\ x.inCache = FALSE /\ x.life = "alive"
        /\ x.clients = {} /\ x.handles = {} /\ x.preload = 0 /\ x.reval = None
        /\ ~x.isReval /\ x.isReval = y.isReval
    BY <1>2, <1>5 DEF Untouched, Alike
  <2>2. Listed(x)
    BY <1>2, <1>5, <2>1 DEF Formed, Listed, Alike
  <2>3. QED
    BY <2>1, <2>2 DEF Formed
<1>7. settle(x) = Gone
  BY <1>5, <1>6 DEF settle, canDelete
<1>8. liveOf(x) = 0 /\ deadOf(x) = 0 /\ liveOf(settle(x)) = 0 /\ deadOf(settle(x)) = 0
  BY <1>5, <1>6, <1>7, NoObject DEF liveOf, deadOf
<1>9. d = [c1 EXCEPT !.res[r] = settle(x)] /\ c1 \in CacheType
  <2>1. c1 \in CacheType /\ c1.res[r] = x1
    BY <1>1, <1>3, <1>4 DEF Becomes, CacheType
  <2>2. QED
    BY <2>1, DeleteRequestIs DEF x
<1> HIDE DEF d
<1>10. settle(x) \in ResourceType
  BY <1>7, NoObject
<1>11. Becomes(c, d, r, settle(x)) /\ d.map = c1.map
  <2>1. /\ d \in CacheType /\ d.res = [c1.res EXCEPT ![r] = settle(x)]
        /\ d.map = c1.map /\ d.live = c1.live /\ d.dead = c1.dead
    BY <1>9, <1>10 DEF CacheType
  <2>2. c1.res = [c.res EXCEPT ![r] = x1]
    BY <1>3, <1>4 DEF Becomes
  <2>3. d.res = [c.res EXCEPT ![r] = settle(x)]
    BY <1>1, <2>1, <2>2 DEF CacheType
  <2>4. /\ c1.live = c.live + 0 - liveOf(y) /\ c1.dead = c.dead + 0 - deadOf(y)
    BY <1>2, <1>3, <1>4 DEF Becomes
  <2>5. QED
    BY <1>8, <2>1, <2>3, <2>4 DEF Becomes
<1>12. Fits(c, r, x)
  BY <1>1, <1>5, <1>6, SameLinks
<1>13. MapFits(c, d, r, x)
  <2> SUFFICES ASSUME NEW u \in Urls
               PROVE  d.map[u] \in {c.map[u], None, r} /\ d.map[u] # r
    BY DEF MapFits
  <2>1. c.map \in [Urls -> Resources \cup {None}] /\ None # r
    BY <1>1, Constants DEF CacheType
  <2>2. c.map[u] # r
    BY <1>1, <2>1 DEF Inv, Mapped
  <2>3. QED
    BY <1>4, <1>11, <2>1, <2>2
<1>14. \A f \in Range(s) : FrameFits(f, r, x)
  <2> SUFFICES ASSUME NEW f \in Range(s) PROVE FrameFits(f, r, x)
    OBVIOUS
  <2>1. f \in Frames /\ FrameOK(f, c)
    BY StackParts DEF Running, FramesOK
  <2>2. ~Evictable(x)
    BY <1>6 DEF Evictable
  <2>3. f.op = "switch" /\ f.r = r => f.todo \subseteq x.handles /\ f.todo \cap x.clients = {}
    BY <1>6, <2>1 DEF FrameOK, Untouched
  <2>4. ~Ending(f, r) /\ ~(f.op = "switch" /\ f.n = r)
    BY DEF Ending
  <2>8. ~(f.op = "release" /\ f.r = r)
    BY <2>1 DEF FrameOK, Untouched
  <2>5. ~(f.op = "clear" /\ r \in f.todo)
    BY <2>1 DEF FrameOK, Untouched
  <2>6. settle(x).life # "alive"
    BY <1>7, NoObject
  <2>7. QED
    BY <1>6, <2>2, <2>3, <2>4, <2>5, <2>6, <2>8 DEF FrameFits
<1>15. TodoFits(c, t, s, E, r, x)
  BY <1>6 DEF TodoFits
<1>16. Running(d, t, s, E)
  BY <1>5, <1>11, <1>12, <1>13, <1>14, <1>15, RunningKept
<1>17. QED
  BY <1>16 DEF d, c1

(* A request that is cancelled takes its object out of the cache.          *)
LEMMA CancelledKept ==
  ASSUME NEW c, NEW t, NEW s, Running(c, t, s, {}), NEW r \in Resources,
         c.res[r].request # "none", \A f \in Range(s) : ~Ending(f, r)
  PROVE  Running(deleteRequest(remove(c, r), r), t, s, {})
<1>1. c.res[r].life = "alive" /\ c.res[r].life # "unborn"
  BY HasRequest
<1>2. CASE \E f \in Range(s) : f.op = "load" /\ f.new /\ f.r = r
  <2>1. c.res[r].inCache /\ c.res[r].access = 0 /\ Untouched(c.res[r])
    BY <1>1, <1>2, NobodyHasIt
  <2>2. QED
    BY <1>1, <2>1, CancelledUngiven
<1>3. CASE ~ \E f \in Range(s) : f.op = "load" /\ f.new /\ f.r = r
  <2> DEFINE d == remove(c, r)
  <2>1. Running(d, t, s, {})
    BY <1>1, <1>3, RemoveKept
  <2>2. Inv(c) /\ c.res[r] \in ResourceType /\ Sound(c.res[r])
    BY DEF Running, Inv, AllSound, CacheType
  <2>3. d.res[r] = settle(removed(c.res[r]))
    BY <2>2, RemoveLeaves
  <2>4. removed(c.res[r]).request = c.res[r].request /\ removed(c.res[r]).life = "alive"
    BY <1>1, <2>2, RemovedObject
  <2>5. d.res[r].life # "unborn"
    BY <2>3, <2>4 DEF settle, canDelete
  <2> HIDE DEF d
  <2>6. Running(deleteRequest(d, r), t, s, {})
    BY <1>1, <2>1, <2>5, DeleteRequestKept
  <2>7. QED
    BY <2>6 DEF d
<1>4. QED
  BY <1>2, <1>3

(* A request is cancelled.                                                 *)
LEMMA CancelStep ==
  ASSUME Running(cache, told, stack, {}), NEW r \in Resources, Cancel(r)
  PROVE  Running(cache', told', stack', {})
<1>1. told' = told /\ stack' = stack
  BY DEF Cancel
<1>2. CASE /\ cache.res[r].request = "queued"
           /\ cache' = deleteRequest(remove(cache, r), r)
  <2>1. cache.res[r].request # "none" /\ cache.res[r].request # "ending"
    BY <1>2
  <2>2. \A f \in Range(stack) : ~Ending(f, r)
    BY <2>1, HasRequest
  <2>3. QED
    BY <1>1, <1>2, <2>1, <2>2, CancelledKept
<1>3. CASE /\ cache.res[r].request = "loading"
           /\ cache' = deleteRequest(remove(revalidationFailed(cache, r), r), r)
  <2> DEFINE c == revalidationFailed(cache, r)
  <2>1. cache.res[r].request # "none" /\ cache.res[r].request # "ending"
    BY <1>3
  <2>2. Running(c, told, stack, {}) /\ c.res[r].request = cache.res[r].request
    BY <2>1, RevalidationFailedKept
  <2> HIDE DEF c
  <2>5. c.res[r].request # "none" /\ \A f \in Range(stack) : ~Ending(f, r)
    BY <2>1, <2>2, HasRequest
  <2>3. Running(deleteRequest(remove(c, r), r), told, stack, {})
    BY <2>2, <2>5, CancelledKept
  <2>4. QED
    BY <1>1, <1>3, <2>3 DEF c
<1>4. QED
  BY <1>2, <1>3 DEF Cancel, res

(* CachedResource::checkNotify and what the host does after it.            *)
LEMMA NotifyNextStep ==
  ASSUME Running(cache, told, stack, {}), NotifyNext,
         cache.res[Head(stack).r].life # "deleted"
  PROVE  Running(cache', told', stack', {})
<1> DEFINE s == stack
           g == Head(s)
<1>1. s # <<>> /\ g.op = "notify" /\ cache' = cache
  BY DEF NotifyNext, In, Top
<1>2. g \in Frames
  BY <1>1, TopIsOK
<1>3. PICK h \in g.todo :
        /\ told' = IF h \in cache.res[g.r].clients THEN told \cup {h} ELSE told
        /\ stack' = <<[g EXCEPT !.todo = @ \ {h}, !.called = h \in cache.res[g.r].clients]>> \o Tail(s)
  BY DEF NotifyNext, Top, Replace, res
<1> DEFINE b == h \in cache.res[g.r].clients
           u == IF b THEN {h} ELSE {}
           k == g.todo \ {h}
<1>4. g.todo \subseteq Holders
  BY <1>1, <1>2, FrameTypes
<1>5. b \in BOOLEAN /\ u \in SUBSET Holders /\ k \in SUBSET Holders /\ told' = told \cup u
  BY <1>3, <1>4
<1>6. \A q \in g.todo : q \in k \/ q \in u \/ q \notin cache.res[g.r].clients
  OBVIOUS
<1> DEFINE f == [g EXCEPT !.todo = k, !.called = b]
<1>7. stack' = <<f>> \o Tail(s)
  BY <1>3
<1> HIDE DEF b, k
<1> DEFINE N == [op : {"notify"}, r : Resources, todo : SUBSET Holders, called : BOOLEAN,
                then : Thens]
<1>8. g \in N /\ N \subseteq Frames
  BY <1>1, <1>2 DEF Frames, Thens
<1> HIDE DEF g
<1>9. f \in N /\ f.op = "notify" /\ f.r = g.r /\ f.then = g.then /\ f.todo = k
  BY <1>5, <1>8
<1> HIDE DEF f, N
<1>10. f \in Frames /\ f.op = "notify" /\ f.r = g.r /\ f.then = g.then /\ f.todo = k
  BY <1>8, <1>9
<1> HIDE DEF u, s
<1>11. Running(cache, told, s, {}) /\ s # <<>> /\ Head(s).op = "notify"
       /\ f.r = Head(s).r /\ f.then = Head(s).then
       /\ \A q \in Head(s).todo : q \in f.todo \/ q \in u \/ q \notin cache.res[f.r].clients
  BY <1>1, <1>6, <1>10 DEF g, s
<1>12. Running(cache, told \cup u, <<f>> \o Tail(s), {})
  BY <1>5, <1>10, <1>11, NotifyKept
<1>13. QED
  BY <1>1, <1>5, <1>7, <1>12

(* The loader tells the document that the load is over.                    *)
LEMMA LoadDoneStep ==
  ASSUME Running(cache, told, stack, {}), LoadDone
  PROVE  Running(cache', told', stack', {})
<1> DEFINE s == stack
           g == Head(s)
           f == [g EXCEPT !.called = TRUE]
           N == [op : {"notify"}, r : Resources, todo : SUBSET Holders, called : BOOLEAN,
                 then : Thens]
<1>1. /\ s # <<>> /\ g.op = "notify" /\ g.todo = {} /\ cache' = cache /\ told' = told
      /\ stack' = <<f>> \o Tail(s)
  BY DEF LoadDone, In, Top, Replace
<1>2. g \in N /\ N \subseteq Frames
  BY <1>1, TopIsOK DEF Frames, Thens
<1> HIDE DEF g
<1>3. f \in N /\ f.op = "notify" /\ f.r = g.r /\ f.then = g.then
  BY <1>2
<1> HIDE DEF f, N
<1> DEFINE u == {}
<1>4. u \in SUBSET Holders /\ told \cup u = told
  OBVIOUS
<1> HIDE DEF u, s
<1>5. /\ Running(cache, told, s, {}) /\ s # <<>> /\ Head(s).op = "notify"
      /\ f \in Frames /\ f.op = "notify" /\ f.r = Head(s).r /\ f.then = Head(s).then
      /\ \A q \in Head(s).todo : q \in f.todo \/ q \in u \/ q \notin cache.res[f.r].clients
  BY <1>1, <1>2, <1>3 DEF g, s
<1>6. Running(cache, told \cup u, <<f>> \o Tail(s), {})
  BY <1>4, <1>5, NotifyKept
<1>7. QED
  BY <1>1, <1>4, <1>6

(* Every client has been told.                                             *)
LEMMA NotifyDoneStep ==
  ASSUME Running(cache, told, stack, {}), NotifyDone
  PROVE  Running(cache', told', stack', {})
<1> DEFINE f == Head(stack)
           s == Tail(stack)
           r == f.r
<1>1. /\ stack # <<>> /\ f.op = "notify" /\ f.todo = {} /\ told' = told /\ stack' = s
      /\ f.then = "return" => cache' = cache
      /\ f.then # "return" => \/ cache' = deleteRequest(cache, r)
                              \/ cache' = deleteRequest(remove(cache, r), r)
  BY DEF NotifyDone, In, Top, Pop, res
<1>2. /\ f \in Frames /\ FrameOK(f, cache)
      /\ \A g \in Range(s) : Under(f, g)
  BY <1>1, TopIsOK
<1>3. r \in Resources
  BY <1>1, <1>2, FrameTypes
<1>5. Running(cache, told, s, {})
  BY <1>1, PopKept
<1>6. f.then # "return" => /\ cache.res[r].request = "ending"
                           /\ \A g \in Range(s) : ~Ending(g, r)
  <2> SUFFICES ASSUME f.then # "return"
               PROVE  cache.res[r].request = "ending" /\ \A g \in Range(s) : ~Ending(g, r)
    OBVIOUS
  <2>1. Ending(f, r)
    BY <1>1 DEF Ending
  <2> HIDE DEF f, s, r
  <2>2. QED
    BY <1>2, <1>3, <2>1 DEF FrameOK, Under, Apart
<1> HIDE DEF f, s, r
<1>8. CASE f.then = "return"
  BY <1>1, <1>5, <1>8
<1>9. CASE f.then # "return"
  <2>1. /\ cache.res[r].request # "none" /\ \A g \in Range(s) : ~Ending(g, r)
    BY <1>6, <1>9
  <2>2. cache.res[r].life = "alive" /\ cache.res[r].life # "unborn"
    BY <1>3, <1>5, <2>1, HasRequest
  <2>3. Running(deleteRequest(cache, r), told, s, {})
    BY <1>3, <1>5, <2>1, <2>2, DeleteRequestKept
  <2>4. Running(deleteRequest(remove(cache, r), r), told, s, {})
    BY <1>3, <1>5, <2>1, CancelledKept
  <2>5. QED
    BY <1>1, <1>9, <2>3, <2>4
<1>11. QED
  BY <1>8, <1>9

(* switchClientsToRevalidatedResource, one client at a time.               *)
LEMMA JoinedObject ==
  ASSUME NEW c \in CacheType, NEW r \in Resources, NEW h
  PROVE  /\ addClient(c, r, h).res[r].handles = c.res[r].handles
         /\ addClient(c, r, h).res[r].clients = c.res[r].clients \cup {h}
         /\ \A q \in Resources : q # r => addClient(c, r, h).res[q] = c.res[q]
<1> DEFINE x == joined(c.res[r], h)
           d == addClient(c, r, h)
<1>1. d.res = [c.res EXCEPT ![r] = x]
  BY AddClientIs
<1>2. x.handles = c.res[r].handles /\ x.clients = c.res[r].clients \cup {h}
  BY DEF CacheType, ResourceType, joined
<1> HIDE DEF d, x
<1>3. d.res[r] = x /\ \A q \in Resources : q # r => d.res[q] = c.res[q]
  BY <1>1 DEF CacheType
<1>4. QED
  BY <1>2, <1>3 DEF d

(* Another object is being moved to, when clients are moved to r.          *)
LEMMA OneSwitch ==
  ASSUME NEW c, NEW t, NEW s, NEW E, Running(c, t, s, E),
         NEW f \in Frames, f.op = "switch", FrameOK(f, c),
         \A g \in Range(s) : Under(f, g)
  PROVE  /\ \A g \in Range(s) : g.op = "switch" => g.r # f.r
         /\ f.n # f.r /\ c.res[f.n].reval = f.r /\ c.res[f.n].reval # None
         /\ c.res[f.n].request = "ending" /\ c.res[f.n].life = "alive"
         /\ ~(c.res[f.n].inCache /\ c.res[f.n].access = 0)
         /\ c.res[f.r].life = "alive" /\ c.res[f.r].isReval
         /\ c.res[f.r].inCache => c.res[f.r].access > 0
<1>1. f.r \in Resources /\ f.n \in Resources /\ f.r # None
  BY FrameTypes, Constants
<1>2. c.res[f.n].reval = f.r /\ c.res[f.n].request = "ending"
  <2>1. Ending(f, f.n)
    BY DEF Ending
  <2>2. QED
    BY <1>1, <2>1 DEF FrameOK
<1>3. Inv(c) /\ Sound(c.res[f.n]) /\ Sound(c.res[f.r])
  BY <1>1 DEF Running, Inv, AllSound
<1>4. /\ c.res[f.r].life = "alive" /\ c.res[f.r].isReval
      /\ \A m \in Resources : c.res[m].reval = f.r => m = f.n
  BY <1>1, <1>2, <1>3 DEF Inv, Revalidates
<1>5. \A g \in Range(s) : g.op = "switch" => g.r # f.r
  <2> SUFFICES ASSUME NEW g \in Range(s), g.op = "switch" PROVE g.r # f.r
    OBVIOUS
  <2>1. g \in Frames /\ FrameOK(g, c)
    BY StackParts DEF Running, FramesOK
  <2>2. g.n \in Resources /\ c.res[g.n].reval = g.r
    BY <2>1, FrameTypes DEF FrameOK
  <2>3. g.n # f.n
    <3>1. Under(f, g) /\ Ending(f, f.n) /\ Ending(g, g.n)
      BY DEF Ending
    <3>2. QED
      BY <1>1, <3>1 DEF Under, Apart
  <2>4. QED
    BY <1>4, <2>2, <2>3
<1>6. c.res[f.r].reval = None /\ c.res[f.r].access > 0
  BY <1>3, <1>4 DEF Sound, Formed
<1>7. f.n # f.r
  BY <1>1, <1>2, <1>6
<1>8. ~(c.res[f.n].inCache /\ c.res[f.n].access = 0)
  BY <1>1, <1>2, <1>3 DEF Sound, Formed, Untouched
<1>9. c.res[f.n].life = "alive"
  BY <1>1, <1>2, <1>3, NoObject DEF Sound, Formed
<1>10. QED
  BY <1>1, <1>2, <1>4, <1>5, <1>6, <1>7, <1>8, <1>9

(* One more client is moved from the validator to the old object.          *)
LEMMA SwitchNextStep ==
  ASSUME Running(cache, told, stack, {}), SwitchNext
  PROVE  Running(cache', told', stack', {})
<1> DEFINE f == Head(stack)
           s == Tail(stack)
           r == f.r
           n == f.n
<1>1. stack # <<>> /\ f.op = "switch"
  BY DEF SwitchNext, In, Top
<1>2. PICK h \in f.todo :
        /\ cache' = addClient(cache, r, h) /\ told' = told \cup {h}
        /\ stack' = <<[f EXCEPT !.todo = @ \ {h}, !.called = TRUE]>> \o s
  BY DEF SwitchNext, Top, Replace
<1>3. /\ f \in Frames /\ FrameOK(f, cache) /\ s \in Seq(Frames)
      /\ \A k \in Range(s) : Under(f, k) /\ k \in Frames
  BY <1>1, TopIsOK
<1>4. r \in Resources /\ n \in Resources /\ f.todo \subseteq Holders /\ h \in Holders
  BY <1>1, <1>2, <1>3, FrameTypes
<1>5. /\ f.todo \subseteq cache.res[r].handles /\ f.todo \cap cache.res[r].clients = {}
      /\ h \in cache.res[r].handles
  BY <1>1, <1>2, <1>3 DEF FrameOK
<1> DEFINE k == f.todo \ {h}
           g == [f EXCEPT !.todo = k, !.called = TRUE]
           N == [op : {"switch"}, r : Resources, n : Resources, todo : SUBSET Holders,
                 called : BOOLEAN]
<1>6. stack' = <<g>> \o s
  BY <1>2
<1>7. k \in SUBSET Holders
  BY <1>4
<1>8. f \in N /\ N \subseteq Frames
  BY <1>1, <1>3 DEF Frames
<1>9. Running(cache, told, s, {n})
  <2>1. Head(stack).op = "switch" /\ n = Head(stack).n /\ n \in {n}
    BY <1>1
  <2> HIDE DEF n
  <2>2. Running(cache, told, Tail(stack), {n})
    BY <1>1, <2>1, PopKept
  <2>3. QED
    BY <2>2
<1> HIDE DEF f, s
<1>10. g \in N /\ g.op = "switch" /\ g.r = r /\ g.n = n /\ g.todo = k
  <2> HIDE DEF k
  <2>1. QED
    BY <1>7, <1>8
<1> HIDE DEF g, N
<1>11. g \in Frames /\ g.op = "switch" /\ g.r = r /\ g.n = n /\ g.todo = k
  BY <1>8, <1>10
<1>12. /\ \A j \in Range(s) : j.op = "switch" => j.r # r
       /\ n # r /\ cache.res[n].reval = r /\ cache.res[n].reval # None
       /\ cache.res[n].request = "ending"
       /\ ~(cache.res[n].inCache /\ cache.res[n].access = 0)
  BY <1>1, <1>3, <1>9, OneSwitch
<1>13. Running(cache, told \cup {h}, s, {n})
  BY <1>4, <1>9, ToldKept
<1>14. \A j \in Range(s) : j.op # "release" /\ (j.op = "switch" /\ j.r = r => h \notin j.todo)
  BY <1>1, <1>3, <1>12 DEF Under
<1> DEFINE d == addClient(cache, r, h)
           t == told \cup {h}
<1>15. h \in t
  OBVIOUS
<1> HIDE DEF r, n, t
<1>16. Running(d, t, s, {n})
  <2>1. Running(cache, t, s, {n})
    BY <1>13 DEF t
  <2>2. QED
    BY <1>4, <1>5, <1>14, <1>15, <2>1, AddClientKept
<1>17. /\ d.res[r].handles = cache.res[r].handles
       /\ d.res[r].clients = cache.res[r].clients \cup {h}
       /\ d.res[n] = cache.res[n]
  <2>1. cache \in CacheType
    BY <1>9 DEF Running, Inv
  <2>2. QED
    BY <1>4, <1>12, <2>1, JoinedObject
<1> HIDE DEF d
<1>24. \A q : Ending(g, q) <=> q = n
  BY <1>11 DEF Ending
<1>18. FrameOK(g, d)
  BY <1>5, <1>11, <1>12, <1>17, <1>24 DEF FrameOK, Delivers
<1>19. \A j \in Range(s) : Under(g, j)
  <2> SUFFICES ASSUME NEW j \in Range(s) PROVE Under(g, j)
    OBVIOUS
  <2>1. Under(f, j) /\ j.op # "release"
    BY <1>3, <1>14
  <2>2. f.op = "switch" /\ f.n = n /\ f.r = r
    BY <1>1 DEF n, r
  <2>3. \A q : Ending(g, q) <=> Ending(f, q)
    BY <1>24, <2>2 DEF Ending
  <2>4. QED
    BY <1>11, <2>1, <2>2, <2>3 DEF Under, Apart, Delivers
<1>20. Running(d, t, <<g>> \o s, {n})
  BY <1>11, <1>16, <1>18, <1>19, PushKept
<1>21. g \in Range(<<g>> \o s)
  BY <1>3, <1>11, StackParts
<1>22. Running(d, t, <<g>> \o s, {})
  <2> DEFINE w == <<g>> \o s
  <2>1. /\ ~(d.res[n].inCache /\ d.res[n].access = 0)
        /\ \E j \in Range(w) : j.op = "switch" /\ j.n = n
    BY <1>11, <1>12, <1>17, <1>21
  <2>2. Running(d, t, w, {n})
    BY <1>20
  <2> HIDE DEF w
  <2>3. Running(d, t, w, {})
    BY <2>1, <2>2, DoneFor
  <2>4. QED
    BY <2>3 DEF w
<1>23. QED
  BY <1>2, <1>6, <1>22 DEF d, t

(* Every client has been moved, and the validator lets go of the old       *)
(* object.                                                                 *)
LEMMA SwitchDoneStep ==
  ASSUME Running(cache, told, stack, {}), SwitchDone
  PROVE  Running(cache', told', stack', {})
<1> DEFINE f == Head(stack)
           s == Tail(stack)
           r == f.r
           n == f.n
           c == clearResourceToRevalidate(cache, n)
<1>1. /\ stack # <<>> /\ f.op = "switch" /\ stack' = s /\ told' = told
      /\ cache' = deleteRequest(c, n)
  BY DEF SwitchDone, In, Top, Pop
<1>2. /\ f \in Frames /\ FrameOK(f, cache) /\ s \in Seq(Frames)
      /\ \A k \in Range(s) : Under(f, k) /\ k \in Frames
  BY <1>1, TopIsOK
<1>3. r \in Resources /\ n \in Resources
  BY <1>1, <1>2, FrameTypes
<1>4. Running(cache, told, s, {n})
  <2>1. Head(stack).op = "switch" /\ n = Head(stack).n /\ n \in {n}
    BY <1>1
  <2> HIDE DEF n
  <2>2. Running(cache, told, Tail(stack), {n})
    BY <1>1, <2>1, PopKept
  <2>3. QED
    BY <2>2
<1>5. /\ n # r /\ cache.res[n].reval = r /\ cache.res[n].reval # None
      /\ cache.res[n].request = "ending" /\ cache.res[n].life = "alive"
      /\ ~(cache.res[n].inCache /\ cache.res[n].access = 0)
  BY <1>1, <1>2, <1>4, OneSwitch
<1>12. \A g \in Range(s) : ~Ending(g, n)
  <2>1. Ending(f, n)
    BY <1>1 DEF Ending
  <2> HIDE DEF f, s, n
  <2>2. QED
    BY <1>2, <1>3, <2>1 DEF Under, Apart
<1>6. \A g \in Range(s) : ~(g.op = "switch" /\ g.n = n)
  BY <1>12 DEF Ending
<1> HIDE DEF f, s, r, n
<1>7. /\ Running(c, told, s, {n})
      /\ c.res[n] = settle([cache.res[n] EXCEPT !.reval = None])
  BY <1>3, <1>4, <1>5, <1>6, ClearRevalidateKept
<1> HIDE DEF c
<1>8. /\ c.res[n].life = "alive" /\ c.res[n].reval = None
      /\ ~(c.res[n].inCache /\ c.res[n].access = 0)
  <2> DEFINE x == [cache.res[n] EXCEPT !.reval = None]
  <2>1. cache.res[n] \in ResourceType
    BY <1>3, <1>4 DEF Running, Inv, CacheType
  <2>2. /\ x.reval = None /\ x.life = "alive" /\ x.request = "ending"
        /\ ~(x.inCache /\ x.access = 0)
    BY <1>5, <2>1 DEF ResourceType
  <2> HIDE DEF x
  <2>3. settle(x) = x
    BY <2>2 DEF settle, canDelete
  <2>4. QED
    BY <1>7, <2>2, <2>3 DEF x
<1>9. Running(c, told, s, {})
  BY <1>3, <1>7, <1>8, DoneFor
<1>10. Running(deleteRequest(c, n), told, s, {})
  BY <1>3, <1>8, <1>9, <1>12, DeleteRequestKept
<1>11. QED
  BY <1>1, <1>10

(* revalidationSucceeded: the object that validated leaves its clients ... *)
shed(y) == [y EXCEPT !.handles = {}, !.clients = {}, !.request = "ending"]

(* A validator out of the cache gives up its handles and its clients.      *)
LEMMA ShedKept ==
  ASSUME NEW c, NEW t, NEW s, Running(c, t, s, {}), Range(s) = {}, NEW n \in Resources,
         c.res[n].life = "alive", c.res[n].inCache = FALSE
  PROVE  /\ Running(Put(c, n, shed(c.res[n])), t, s, {})
         /\ Put(c, n, shed(c.res[n])).res[n] = shed(c.res[n])
         /\ \A q \in Resources : q # n => Put(c, n, shed(c.res[n])).res[q] = c.res[q]
         /\ Put(c, n, shed(c.res[n])) = [res |-> [c.res EXCEPT ![n] = shed(c.res[n])],
                                         map |-> c.map, live |-> c.live, dead |-> c.dead]
         /\ shed(c.res[n]).request = "ending" /\ shed(c.res[n]).handles = {}
         /\ shed(c.res[n]).reval = c.res[n].reval /\ shed(c.res[n]).inCache = FALSE
<1> DEFINE y == c.res[n]
           x == shed(y)
<1>1. Inv(c) /\ c \in CacheType /\ y \in ResourceType /\ Sound(y)
  BY DEF Running, Inv, AllSound, CacheType
<1>2. /\ x \in ResourceType /\ x.handles = {} /\ x.clients = {} /\ x.request = "ending"
      /\ x.life = y.life /\ x.url = y.url /\ x.inCache = y.inCache /\ x.access = y.access
      /\ x.enc = y.enc /\ x.dec = y.dec /\ x.queue = y.queue /\ x.listed = y.listed
      /\ x.preload = y.preload /\ x.reval = y.reval /\ x.isReval = y.isReval
  BY <1>1 DEF ResourceType, shed
<1> HIDE DEF x
<1>3. settle(x) = x
  BY <1>2 DEF settle, canDelete
<1>4. Formed(x)
  <2>1. Listed(x)
    BY <1>1, <1>2 DEF Sound, Formed, Listed
  <2>2. QED
    BY <1>1, <1>2, <2>1 DEF Sound, Formed
<1>5. Fits(c, n, x)
  BY <1>1, <1>2, <1>4, SameLinks
<1>6. TodoFits(c, t, s, {}, n, x)
  BY <1>2 DEF TodoFits
<1>7. /\ liveOf(x) = 0 /\ deadOf(x) = 0 /\ liveOf(y) = 0 /\ deadOf(y) = 0
      /\ c.live \in Int /\ c.dead \in Int
  BY <1>1, <1>2 DEF liveOf, deadOf, CacheType
<1>8. /\ Running(Put(c, n, x), t, s, {})
      /\ Put(c, n, x).res[n] = settle(x) /\ Put(c, n, x).map = c.map
      /\ \A q \in Resources : q # n => Put(c, n, x).res[q] = c.res[q]
  BY <1>2, <1>5, <1>6, PutKept
<1>9. Put(c, n, x) = [res |-> [c.res EXCEPT ![n] = x], map |-> c.map,
                      live |-> c.live, dead |-> c.dead]
  BY <1>3, <1>7 DEF Put
<1>10. QED
  BY <1>2, <1>3, <1>8, <1>9 DEF x

(* ... and the one that was validated is back in the cache.                *)
recovered(y, H) ==
  [y EXCEPT !.inCache = TRUE, !.queue = lruIndex(y),
            !.listed = y.dec > 0 /\ y.clients # {}, !.handles = @ \cup H]

(* What the old object is when it comes back into the cache with the       *)
(* handles of its validator.                                               *)
LEMMA RecoveredObject ==
  ASSUME NEW y \in ResourceType, NEW H \in SUBSET Holders
  PROVE  /\ recovered(y, H) \in ResourceType /\ recovered(y, H).inCache = TRUE
         /\ recovered(y, H).queue = lruIndex(recovered(y, H))
         /\ recovered(y, H).listed => recovered(y, H).dec > 0 /\ recovered(y, H).clients # {}
         /\ recovered(y, H).handles = y.handles \cup H
         /\ recovered(y, H).life = y.life /\ recovered(y, H).url = y.url
         /\ recovered(y, H).access = y.access /\ recovered(y, H).clients = y.clients
         /\ recovered(y, H).reval = y.reval /\ recovered(y, H).isReval = y.isReval
         /\ recovered(y, H).loading = y.loading
<1> DEFINE i == lruIndex(y)
           b == y.dec > 0 /\ y.clients # {}
           x == [y EXCEPT !.inCache = TRUE, !.queue = i, !.listed = b, !.handles = @ \cup H]
<1>1. i \in (0..MaxIndex) \cup {None} /\ b \in BOOLEAN /\ (b => y.dec > 0 /\ y.clients # {})
  BY IndexRange
<1>2. x = recovered(y, H)
  BY DEF recovered
<1> HIDE DEF i, b
<1>3. /\ x.inCache = TRUE /\ x.queue = i /\ x.listed = b /\ x.handles = y.handles \cup H
      /\ x.life = y.life /\ x.url = y.url /\ x.access = y.access /\ x.clients = y.clients
      /\ x.reval = y.reval /\ x.isReval = y.isReval /\ x.loading = y.loading
      /\ x.enc = y.enc /\ x.dec = y.dec
  BY DEF ResourceType
<1>4. x \in ResourceType
  BY <1>1 DEF ResourceType
<1> HIDE DEF x
<1>5. lruIndex(x) = i
  BY <1>3 DEF lruIndex, size, i
<1>6. QED
  BY <1>1, <1>2, <1>3, <1>4, <1>5

back(c, r, x) ==
  [res |-> [c.res EXCEPT ![r] = x], map |-> [c.map EXCEPT ![x.url] = r],
   live |-> c.live + liveOf(x), dead |-> c.dead + deadOf(x)]

(* The old object comes back into the cache.                               *)
LEMMA RecoveredKept ==
  ASSUME NEW c, NEW t, NEW s, Running(c, t, s, {}), Range(s) = {},
         NEW n \in Resources, NEW r \in Resources, r = c.res[n].reval,
         ~c.res[r].inCache, NEW H \in SUBSET Holders, \A h \in H : Free(c, h),
         NEW x, x = recovered(c.res[r], H)
  PROVE  /\ Running(back(c, r, x), t, s, {n})
         /\ back(c, r, x).res[r] = x
         /\ \A q \in Resources : q # r => back(c, r, x).res[q] = c.res[q]
<1> DEFINE y == c.res[r]
           d == back(c, r, x)
<1>1. Inv(c) /\ c \in CacheType /\ y \in ResourceType /\ Sound(y)
  BY DEF Running, Inv, AllSound, CacheType
<1>2. y.life = "alive" /\ y.isReval /\ y.access > 0 /\ y.reval = None
  <2>1. r # None
    BY Constants
  <2>2. y.life = "alive" /\ y.isReval
    BY <1>1, <2>1 DEF Inv, Revalidates
  <2>3. QED
    BY <1>1, <2>2 DEF Sound, Formed
<1>3. \A m \in Resources : c.res[m].reval = r => m = n
  <2>1. r # None
    BY Constants
  <2>2. QED
    BY <1>1, <2>1 DEF Inv, Revalidates
<1>4. /\ x \in ResourceType /\ x.inCache = TRUE /\ x.queue = lruIndex(x)
      /\ x.listed => x.dec > 0 /\ x.clients # {}
      /\ x.handles = y.handles \cup H
      /\ x.life = y.life /\ x.url = y.url /\ x.access = y.access /\ x.clients = y.clients
      /\ x.reval = y.reval /\ x.isReval = y.isReval /\ x.loading = y.loading
  BY <1>1, RecoveredObject
<1>5. settle(x) = x
  BY <1>4 DEF settle
<1>6. Formed(x)
  <2>1. Listed(x)
    BY <1>2, <1>4 DEF Listed
  <2>2. ~(x.inCache /\ x.access = 0)
    <3>1. y.access > 0
      BY <1>2
    <3>2. x.access = y.access
      BY <1>4
    <3>3. QED
      BY <3>1, <3>2
  <2>3. x.clients \subseteq x.handles
    BY <1>1, <1>4 DEF Sound, Formed
  <2>4. QED
    BY <1>2, <1>4, <2>1, <2>2, <2>3 DEF Formed
<1>7. Fits(c, r, x)
  BY <1>2, <1>4, <1>6 DEF Fits
<1>8. /\ liveOf(y) = 0 /\ deadOf(y) = 0 /\ liveOf(x) \in Int /\ deadOf(x) \in Int
      /\ c.live \in Int /\ c.dead \in Int
  <2>1. liveOf(y) = 0 /\ deadOf(y) = 0
    BY DEF liveOf, deadOf
  <2>2. liveOf(x) \in 0..4 /\ deadOf(x) \in 0..4
    BY <1>4, CountRange
  <2>3. c.live \in Int /\ c.dead \in Int
    BY <1>1 DEF CacheType
  <2>4. QED
    BY <2>1, <2>2, <2>3
<1>9. /\ d.res = [c.res EXCEPT ![r] = x] /\ d.map = [c.map EXCEPT ![x.url] = r]
      /\ d.live = c.live + liveOf(x) /\ d.dead = c.dead + deadOf(x)
  BY DEF back
<1>18. d = [res |-> d.res, map |-> d.map, live |-> d.live, dead |-> d.dead]
  BY DEF back
<1> HIDE DEF d
<1>10. d \in CacheType
  <2>1. d.res \in [Resources -> ResourceType]
    <3>1. c.res \in [Resources -> ResourceType]
      BY <1>1 DEF CacheType
    <3>2. x \in ResourceType /\ d.res = [c.res EXCEPT ![r] = x]
      BY <1>4, <1>9
    <3>3. QED
      BY <3>1, <3>2
  <2>2. d.map \in [Urls -> Resources \cup {None}]
    BY <1>1, <1>9 DEF CacheType
  <2>3. d.live \in Int /\ d.dead \in Int
    BY <1>8, <1>9
  <2>4. QED
    BY <1>18, <2>1, <2>2, <2>3 DEF CacheType
<1>11. Becomes(c, d, r, settle(x))
  BY <1>5, <1>8, <1>9, <1>10 DEF Becomes
<1>12. MapFits(c, d, r, x)
  <2> SUFFICES ASSUME NEW u \in Urls
               PROVE  /\ d.map[u] \in {c.map[u], None, r}
                      /\ d.map[u] = r => x.inCache /\ x.access > 0 /\ x.url = u
    BY DEF MapFits
  <2>1. c.map \in [Urls -> Resources \cup {None}] /\ None # r
    BY <1>1, Constants DEF CacheType
  <2>2. c.map[u] # r
    BY <1>1, <2>1 DEF Inv, Mapped
  <2>3. QED
    BY <1>2, <1>4, <1>9, <2>1, <2>2
<1>13. TodoFits(c, t, s, {n}, r, x)
  <2>1. ~(x.inCache /\ x.access = 0)
    <3>1. y.access > 0 /\ x.access = y.access
      <4>1. y.access > 0
        BY <1>2
      <4>2. x.access = y.access
        BY <1>4
      <4>3. QED
        BY <4>1, <4>2
    <3>2. QED
      BY <3>1
  <2>2. \A m \in Resources \ {n} : c.res[m].reval # r
    BY <1>3
  <2>3. x.reval \in {None, c.res[r].reval}
    BY <1>4
  <2>4. \A h \in x.clients : h \in c.res[r].clients /\ (~x.loading => ~c.res[r].loading)
    BY <1>4
  <2>5. QED
    BY <2>1, <2>2, <2>3, <2>4 DEF TodoFits
<1>14. Running(c, t, s, {n})
  BY Widened
<1>15. Running(d, t, s, {n})
  BY <1>4, <1>7, <1>11, <1>12, <1>13, <1>14, RunningKept
<1>16. d.res[r] = x /\ \A q \in Resources : q # r => d.res[q] = c.res[q]
  BY <1>1, <1>9 DEF CacheType
<1>17. QED
  BY <1>15, <1>16 DEF d

(* The two objects change in one step.                                     *)
exchanged(c, r, n, x) ==
  adjustSize([c EXCEPT !.map[x.url] = r, !.res[r] = x,
                       !.res[n].handles = {}, !.res[n].clients = {},
                       !.res[n].request = "ending"],
             x.clients # {}, size(x))

(* revalidationSucceeded does both.                                        *)
LEMMA ExchangedIs ==
  ASSUME NEW c \in CacheType, NEW r \in Resources, NEW n \in Resources, n # r,
         NEW x \in ResourceType, x.inCache
  PROVE  exchanged(c, r, n, x)
           = back([res |-> [c.res EXCEPT ![n] = shed(c.res[n])], map |-> c.map,
                   live |-> c.live, dead |-> c.dead], r, x)
<1> DEFINE z == shed(c.res[n])
           R == [c.res EXCEPT ![r] = x]
           u == x.url
           M == [c.map EXCEPT ![u] = r]
           a == [c EXCEPT !.map[u] = r, !.res[r] = x]
           b == [res |-> [R EXCEPT ![n] = z], map |-> M, live |-> c.live, dead |-> c.dead]
<1>1. /\ c.res \in [Resources -> ResourceType]
      /\ c.live \in Int /\ c.dead \in Int /\ size(x) \in Int
  BY SizeRange DEF CacheType
<1>2. a = [res |-> R, map |-> M, live |-> c.live, dead |-> c.dead]
  <2>1. a = [c EXCEPT !.map[u] = r, !.res[r] = x]
    OBVIOUS
  <2> HIDE DEF a, u
  <2>2. /\ a.res = R /\ a.map = M /\ a.live = c.live /\ a.dead = c.dead
        /\ a = [res |-> a.res, map |-> a.map, live |-> a.live, dead |-> a.dead]
    BY <2>1 DEF CacheType
  <2>3. QED
    BY <2>2
<1>3. [c EXCEPT !.map[x.url] = r, !.res[r] = x, !.res[n].handles = {},
                !.res[n].clients = {}, !.res[n].request = "ending"]
        = [a EXCEPT !.res[n].handles = {}, !.res[n].clients = {}, !.res[n].request = "ending"]
  OBVIOUS
<1>4. R[n] = c.res[n] /\ R \in [Resources -> ResourceType]
  BY <1>1
<1> HIDE DEF a, R, M
<1>5. a.res = R /\ a.map = M /\ a.live = c.live /\ a.dead = c.dead
  BY <1>2
<1>6. [a EXCEPT !.res[n].handles = {}, !.res[n].clients = {}, !.res[n].request = "ending"]
        = [a EXCEPT !.res[n] = z]
  <2>1. [a EXCEPT !.res[n].handles = {}, !.res[n].clients = {}, !.res[n].request = "ending"]
          = [a EXCEPT !.res[n] = shed(a.res[n])]
    BY DEF shed
  <2>2. a.res[n] = c.res[n]
    BY <1>4, <1>5
  <2>3. QED
    BY <2>1, <2>2
<1> HIDE DEF z
<1>7. [a EXCEPT !.res[n] = z] = b
  BY <1>2, <1>4, <1>5
<1>8. exchanged(c, r, n, x) = adjustSize(b, x.clients # {}, size(x))
  BY <1>3, <1>6, <1>7 DEF exchanged
<1>9. [R EXCEPT ![n] = z] = [[c.res EXCEPT ![n] = z] EXCEPT ![r] = x]
  BY <1>1 DEF R
<1> DEFINE L == [R EXCEPT ![n] = z]
<1> HIDE DEF L
<1>10. adjustSize(b, x.clients # {}, size(x))
         = [res |-> L, map |-> M, live |-> c.live + liveOf(x), dead |-> c.dead + deadOf(x)]
  <2>1. b = [res |-> L, map |-> M, live |-> c.live, dead |-> c.dead]
    BY DEF L
  <2> HIDE DEF b
  <2>2. CASE x.clients # {}
    <3>1. liveOf(x) = size(x) /\ deadOf(x) = 0
      BY <2>2 DEF liveOf, deadOf
    <3>2. adjustSize(b, x.clients # {}, size(x)) = [b EXCEPT !.live = @ + size(x)]
      BY <2>2 DEF adjustSize
    <3>3. QED
      BY <1>1, <2>1, <3>1, <3>2
  <2>3. CASE x.clients = {}
    <3>1. liveOf(x) = 0 /\ deadOf(x) = size(x)
      BY <2>3 DEF liveOf, deadOf
    <3>2. adjustSize(b, x.clients # {}, size(x)) = [b EXCEPT !.dead = @ + size(x)]
      BY <2>3 DEF adjustSize
    <3>3. QED
      BY <1>1, <2>1, <3>1, <3>2
  <2>4. QED
    BY <2>2, <2>3
<1>11. QED
  BY <1>8, <1>9, <1>10 DEF back, L, M, u, z

(* The server says that the old object is still good.                      *)
LEMMA NotModifiedStep ==
  ASSUME Running(cache, told, stack, {}), NEW n \in Resources, NotModified(n)
  PROVE  Running(cache', told', stack', {})
<1> DEFINE r == cache.res[n].reval
           T == cache.res[n].clients
           H == cache.res[n].handles
           c1 == remove(cache, n)
           x == recovered(c1.res[r], H)
           f == [op |-> "switch", r |-> r, n |-> n, todo |-> T, called |-> FALSE]
<1>1. /\ stack = <<>> /\ cache.res[n].request = "loading" /\ r # None
      /\ stack' = <<f>> \o stack /\ told' = told
      /\ cache' = exchanged(c1, r, n, x)
  BY DEF NotModified, Loading, Push, res, recovered, exchanged
<1>2. /\ Inv(cache) /\ cache \in CacheType /\ cache.res[n] \in ResourceType
      /\ Sound(cache.res[n]) /\ stack \in Seq(Frames)
  BY DEF Running, Inv, AllSound, CacheType
<1>3. /\ r \in Resources /\ T \subseteq H /\ H \in SUBSET Holders
  BY <1>1, <1>2 DEF Sound, Formed, ResourceType
<1>4. Range(stack) = {}
  BY <1>1, Idle
<1>5. /\ cache.res[r].life = "alive" /\ cache.res[r].isReval
      /\ ~cache.res[r].inCache /\ cache.res[r].reval = None
      /\ cache.res[r].clients \subseteq cache.res[r].handles
  <2>1. cache.res[r].life = "alive" /\ cache.res[r].isReval
    BY <1>1, <1>2 DEF Inv, Revalidates
  <2>2. ~cache.res[r].inCache
    BY <1>1, <1>4 DEF Running, Switching
  <2>3. Sound(cache.res[r])
    BY <1>2, <1>3 DEF Inv, AllSound
  <2>4. QED
    BY <2>1, <2>2, <2>3 DEF Sound, Formed
<1>6. n # r
  BY <1>1, <1>5
<1>7. cache.res[n].life = "alive"
  BY <1>1, HasRequest
<1>8. /\ Running(c1, told, stack, {})
      /\ c1.res[n] = removed(cache.res[n])
      /\ \A q \in Resources : q # n => c1.res[q] = cache.res[q]
  <2>1. Running(c1, told, stack, {})
    BY <1>4, <1>7, RemoveKept
  <2>2. /\ c1.res[n] = settle(removed(cache.res[n]))
        /\ \A q \in Resources : q # n => c1.res[q] = cache.res[q]
    BY <1>2, RemoveLeaves
  <2>3. removed(cache.res[n]).request = cache.res[n].request
    BY <1>2, RemovedObject
  <2>4. settle(removed(cache.res[n])) = removed(cache.res[n])
    BY <1>1, <2>3 DEF settle, canDelete
  <2>5. QED
    BY <2>1, <2>2, <2>4
<1>9. /\ c1.res[n].inCache = FALSE /\ c1.res[n].life = "alive"
      /\ c1.res[n].reval = r
  <2> DEFINE v == cache.res[n]
  <2>1. v \in ResourceType /\ Sound(v)
    BY <1>2
  <2>2. v.life = "alive" /\ v.reval = r
    BY <1>7
  <2> HIDE DEF v, r
  <2>3. removed(v).inCache = FALSE /\ removed(v).life = v.life /\ removed(v).reval = v.reval
    BY <2>1, RemovedObject
  <2>4. c1.res[n] = removed(v)
    BY <1>8 DEF v
  <2>5. QED
    BY <2>2, <2>3, <2>4
<1> DEFINE y == shed(c1.res[n])
           c2 == Put(c1, n, y)
<1> HIDE DEF c1
<1>10. /\ Running(c2, told, stack, {}) /\ c2.res[n] = y
       /\ \A q \in Resources : q # n => c2.res[q] = c1.res[q]
       /\ c2 = [res |-> [c1.res EXCEPT ![n] = y], map |-> c1.map,
                live |-> c1.live, dead |-> c1.dead]
       /\ y.request = "ending" /\ y.handles = {} /\ y.reval = c1.res[n].reval
       /\ y.inCache = FALSE
  <2>1. Running(c1, told, stack, {})
    BY <1>8
  <2>2. c1.res[n].life = "alive" /\ c1.res[n].inCache = FALSE
    BY <1>9
  <2>3. QED
    BY <1>4, <2>1, <2>2, ShedKept, ZenonT(40)
<1>11. c2.res[r] = cache.res[r] /\ c2.res[n].reval = r
  BY <1>3, <1>6, <1>8, <1>9, <1>10
<1>12. \A h \in H : Free(c2, h)
  <2> SUFFICES ASSUME NEW h \in H, NEW q \in Resources PROVE h \notin c2.res[q].handles
    BY DEF Free
  <2>1. CASE q = n
    BY <1>10, <2>1
  <2>2. CASE q # n
    <3>1. c2.res[q] = cache.res[q]
      BY <1>8, <1>10, <2>2
    <3>2. h \in Holders
      BY <1>3
    <3>3. h \notin cache.res[q].handles
      BY <1>2, <2>2, <3>2 DEF Inv, OneHandle
    <3>4. QED
      BY <3>1, <3>3
  <2>3. QED
    BY <2>1, <2>2
<1>13. x = recovered(c2.res[r], H) /\ ~c2.res[r].inCache
  BY <1>3, <1>5, <1>6, <1>8, <1>11
<1> DEFINE d == back(c2, r, x)
<1>14. cache' = d
  <2>1. c1 \in CacheType /\ c1.res[r] \in ResourceType
    BY <1>3, <1>8 DEF Running, Inv, CacheType
  <2>2. x \in ResourceType /\ x.inCache
    BY <1>3, <2>1, RecoveredObject
  <2> HIDE DEF x, r
  <2>3. exchanged(c1, r, n, x)
          = back([res |-> [c1.res EXCEPT ![n] = shed(c1.res[n])], map |-> c1.map,
                  live |-> c1.live, dead |-> c1.dead], r, x)
    BY <1>3, <1>6, <2>1, <2>2, ExchangedIs
  <2>4. QED
    BY <1>1, <1>10, <2>3
<1> HIDE DEF x, r, H, c2, y
<1>15. /\ Running(d, told, stack, {n}) /\ d.res[r] = x
       /\ \A q \in Resources : q # r => d.res[q] = c2.res[q]
  <2>1. r = c2.res[n].reval
    BY <1>11
  <2>2. r \in Resources /\ H \in SUBSET Holders
    BY <1>3
  <2>3. Running(c2, told, stack, {})
    BY <1>10
  <2> DEFINE z == x
  <2>4. z = recovered(c2.res[r], H)
    BY <1>13
  <2> HIDE DEF z
  <2>5. n \in Resources /\ r \in Resources /\ H \in SUBSET Holders /\ ~c2.res[r].inCache
    BY <1>13, <2>2
  <2>6. \A h \in H : Free(c2, h)
    BY <1>12
  <2>7. /\ Running(back(c2, r, z), told, stack, {n}) /\ back(c2, r, z).res[r] = z
        /\ \A q \in Resources : q # r => back(c2, r, z).res[q] = c2.res[q]
    BY <1>4, <2>1, <2>3, <2>4, <2>5, <2>6, RecoveredKept, SMTT(30)
  <2>8. QED
    BY <2>7 DEF z
<1> HIDE DEF d
<1>16. d.res[n].reval = r /\ d.res[n].request = "ending" /\ d.res[n].inCache = FALSE
  BY <1>6, <1>10, <1>11, <1>15
<1>17. /\ d.res[r].handles = cache.res[r].handles \cup H
       /\ d.res[r].clients = cache.res[r].clients
  <2>1. cache.res[r] \in ResourceType
    BY <1>2, <1>3 DEF CacheType
  <2>2. x = recovered(cache.res[r], H)
    BY <1>11, <1>13
  <2> DEFINE v == cache.res[r]
  <2>3. v \in ResourceType /\ d.res[r] = recovered(v, H) /\ H \in SUBSET Holders
    BY <1>3, <1>15, <2>1, <2>2
  <2> HIDE DEF v
  <2>4. recovered(v, H).handles = v.handles \cup H /\ recovered(v, H).clients = v.clients
    BY <2>3, RecoveredObject
  <2>5. QED
    BY <2>3, <2>4 DEF v
<1>18. T \subseteq Holders
  BY <1>3
<1>19. T \cap cache.res[r].clients = {}
  BY <1>2, <1>3, <1>5, <1>6, <1>18 DEF Inv, OneHandle, H
<1> HIDE DEF T
<1>20. f \in Frames /\ f.op = "switch" /\ f.r = r /\ f.n = n /\ f.todo = T
  BY <1>3, <1>18 DEF Frames
<1> HIDE DEF f
<1>26. \A q : Ending(f, q) <=> q = n
  BY <1>20 DEF Ending
<1>21. FrameOK(f, d)
  BY <1>3, <1>16, <1>17, <1>19, <1>20, <1>26 DEF FrameOK, Delivers
<1> DEFINE w == <<f>> \o stack
<1>22. Running(d, told, w, {n})
  BY <1>4, <1>15, <1>20, <1>21, PushKept
<1>23. \E g \in Range(w) : g.op = "switch" /\ g.n = n
  BY <1>2, <1>20, StackParts
<1> HIDE DEF w
<1>24. Running(d, told, w, {})
  BY <1>16, <1>22, <1>23, DoneFor
<1>25. QED
  BY <1>1, <1>14, <1>24 DEF w

(* The loops of pruneDeadResources and pruneLiveResources.                 *)
(* An object that may be evicted next has been given to somebody.          *)
LEMMA VictimIs ==
  ASSUME Inv(cache), NEW f \in Frames, f.op = "prune", stack # <<>>, f = Top,
         NEW r \in Victims
  PROVE  r \in Resources /\ cache.res[r].life = "alive" /\ cache.res[r].inCache
         /\ cache.res[r].access > 0
<1>1. /\ r \in Resources /\ cache.res[r].life = "alive" /\ cache.res[r].inCache
      /\ cache.res[r].queue = f.i
  BY DEF Victims, Alive, res
<1>2. Sound(cache.res[r]) /\ cache.res[r] \in ResourceType
  BY <1>1 DEF Inv, AllSound, CacheType
<1>3. f.i # None
  <2>1. f.i \in 0..MaxIndex /\ MaxIndex \in Nat
    BY FrameTypes, IndexRange
  <2>2. QED
    BY <2>1, CacheAssumption
<1>4. cache.res[r].access > 0
  <2>1. cache.res[r].access \in 0..MaxAccess
    BY <1>2 DEF ResourceType
  <2>2. cache.res[r].access # 0
    BY <1>1, <1>2, <1>3 DEF Sound, Formed, Listed
  <2>3. QED
    BY <2>1, <2>2, Constants
<1>5. QED
  BY <1>1, <1>4

(* A loop goes on to another pass.                                         *)
LEMMA PrunePassKept ==
  ASSUME NEW c, NEW t, NEW s, Running(c, t, s, {}), s # <<>>, Head(s).op = "prune",
         NEW g \in Frames, g.op = "prune", FrameOK(g, c)
  PROVE  Running(c, t, <<g>> \o Tail(s), {})
<1> DEFINE f == Head(s)
           w == Tail(s)
<1>1. /\ w \in Seq(Frames) /\ \A k \in Range(w) : Under(f, k)
  BY TopIsOK
<1>2. Running(c, t, w, {})
  BY PopPlain
<1>3. \A k \in Range(w) : Under(g, k)
  BY <1>1 DEF Under, Apart, Delivers, Ending
<1> HIDE DEF w
<1>4. QED
  BY <1>2, <1>3, PushKept DEF w

(* A loop ends, and the live objects are pruned.                           *)
LEMMA PruneDoneKept ==
  ASSUME NEW c, NEW t, NEW s, Running(c, t, s, {}), s # <<>>, Head(s).op = "prune"
  PROVE  /\ Running(c, t, Tail(s), {})
         /\ Running(c, t, PruneLive(c) \o Tail(s), {})
<1> DEFINE f == Head(s)
           w == Tail(s)
<1>1. \A k \in Range(w) : k.op \notin {"prune", "clear"}
  BY TopIsOK DEF Under
<1>2. Running(c, t, w, {})
  BY PopPlain
<1> HIDE DEF w
<1>3. Running(c, t, PruneLive(c) \o w, {})
  BY <1>1, <1>2, PrunePushed
<1>4. QED
  BY <1>2, <1>3 DEF w

(* A prune of the dead objects destroys decoded data, or passes on to      *)
(* evicting.                                                               *)
LEMMA FlushStep ==
  ASSUME Running(cache, told, stack, {}), Flush
  PROVE  Running(cache', told', stack', {})
<1> DEFINE f == Head(stack)
           s == Tail(stack)
<1>1. stack # <<>> /\ f.op = "prune" /\ f.pass = "flush" /\ told' = told
  BY DEF Flush, InPass, In, Top
<1>2. f \in Frames /\ FrameOK(f, cache) /\ Inv(cache)
  BY <1>1, TopIsOK DEF Running
<1>3. CASE Flushable = {}
  <2> DEFINE N == [op : {"prune"}, pass : {"flush", "evict", "live"}, i : 0..MaxIndex,
                   target : 0..Capacity]
             g == [f EXCEPT !.pass = "evict"]
  <2>1. stack' = <<g>> \o s /\ cache' = cache
    BY <1>3 DEF Flush, Replace, Top
  <2>2. f \in N /\ N \subseteq Frames
    BY <1>1, <1>2 DEF Frames
  <2>3. g \in N /\ g.op = "prune" /\ g.pass = "evict" /\ g.i = f.i
    <3> HIDE DEF f
    <3> QED BY <2>2
  <2> HIDE DEF g, N
  <2>4. g \in Frames /\ FrameOK(g, cache)
    BY <1>1, <1>2, <2>2, <2>3 DEF FrameOK, Delivers, Ending
  <2>5. Running(cache, told, <<g>> \o Tail(stack), {})
    BY <1>1, <2>3, <2>4, PrunePassKept
  <2>6. QED
    BY <1>1, <2>1, <2>5
<1>4. CASE Flushable # {}
  <2>1. PICK r \in Flushable :
          /\ cache' = setDecodedSize(cache, r, 0)
          /\ IF cache'.dead <= Top.target THEN stack' = PruneLive(cache') \o s ELSE stack' = stack
    BY <1>4 DEF Flush, PruneDeadDone
  <2>2. r \in Victims
    BY DEF Flushable
  <2>3. r \in Resources /\ cache.res[r].life = "alive" /\ cache.res[r].access > 0
    <3>1. f = Top
      BY DEF Top
    <3> HIDE DEF f
    <3>2. QED
      BY <1>1, <1>2, <2>2, <3>1, VictimIs
  <2> DEFINE d == setDecodedSize(cache, r, 0)
  <2>4. 0 \in {0, Decoded}
    OBVIOUS
  <2> HIDE DEF d
  <2>5. Running(d, told, stack, {})
    BY <2>3, <2>4, SetDecodedSizeKept DEF d
  <2>6. Running(d, told, PruneLive(d) \o Tail(stack), {})
    BY <1>1, <2>5, PruneDoneKept
  <2>7. cache' = d
    BY <2>1 DEF d
  <2>8. QED
    BY <1>1, <2>1, <2>5, <2>6, <2>7
<1>5. QED
  BY <1>3, <1>4

(* A prune of the dead objects evicts one of them, or goes on to the next  *)
(* queue.                                                                  *)
LEMMA EvictStep ==
  ASSUME Running(cache, told, stack, {}), Evict
  PROVE  Running(cache', told', stack', {})
<1> DEFINE f == Head(stack)
           s == Tail(stack)
<1>1. stack # <<>> /\ f.op = "prune" /\ f.pass = "evict" /\ told' = told /\ f = Top
  BY DEF Evict, InPass, In, Top
<1>2. f \in Frames /\ FrameOK(f, cache) /\ Inv(cache)
  BY <1>1, TopIsOK DEF Running
<1>3. f.i \in 0..MaxIndex /\ MaxIndex \in Nat
  BY <1>1, <1>2, FrameTypes, IndexRange
<1>4. CASE Victims = {} /\ f.i = 0
  <2>1. stack' = PruneLive(cache) \o s /\ cache' = cache
    BY <1>1, <1>4 DEF Evict, PruneDeadDone
  <2>2. Running(cache, told, PruneLive(cache) \o Tail(stack), {})
    BY <1>1, PruneDoneKept
  <2>3. QED
    BY <1>1, <2>1, <2>2
<1>5. CASE Victims = {} /\ f.i # 0
  <2> DEFINE N == [op : {"prune"}, pass : {"flush", "evict", "live"}, i : 0..MaxIndex,
                   target : 0..Capacity]
             j == f.i - 1
             g == [f EXCEPT !.pass = "flush", !.i = j]
  <2>1. stack' = <<g>> \o s /\ cache' = cache
    BY <1>1, <1>5 DEF Evict, Replace, Top
  <2>2. f \in N /\ N \subseteq Frames
    BY <1>1, <1>2 DEF Frames
  <2>3. j \in 0..MaxIndex
    BY <1>3, <1>5
  <2>4. g \in N /\ g.op = "prune" /\ g.pass = "flush" /\ g.i = j
    <3> HIDE DEF f, j
    <3> QED BY <2>2, <2>3
  <2> HIDE DEF g, N
  <2>5. \A r \in Resources : Evictable(cache.res[r]) => cache.res[r].queue <= g.i
    <3> SUFFICES ASSUME NEW r \in Resources, Evictable(cache.res[r])
                 PROVE  cache.res[r].queue <= f.i - 1
      BY <2>4
    <3>1. cache.res[r].queue <= f.i
      BY <1>1, <1>2 DEF FrameOK
    <3>2. cache.res[r] \in ResourceType /\ Sound(cache.res[r])
      BY <1>2 DEF Inv, AllSound, CacheType
    <3>3. cache.res[r].life = "alive"
      BY <3>2, NoObject DEF Evictable, Sound, Formed
    <3>4. cache.res[r].queue # f.i
      BY <1>1, <1>5, <3>3 DEF Evictable, Victims, Alive, res
    <3>5. cache.res[r].queue \in 0..MaxIndex
      BY <3>2, IndexRange DEF Evictable, Sound, Formed, Listed
    <3>6. QED
      BY <1>3, <3>1, <3>4, <3>5
  <2>6. g \in Frames /\ FrameOK(g, cache)
    BY <2>2, <2>4, <2>5 DEF FrameOK, Delivers, Ending
  <2>7. Running(cache, told, <<g>> \o Tail(stack), {})
    BY <1>1, <2>4, <2>6, PrunePassKept
  <2>8. QED
    BY <1>1, <2>1, <2>7
<1>6. CASE Victims # {}
  <2>1. PICK r \in Victims :
          /\ cache' = remove(cache, r)
          /\ IF cache'.dead <= Top.target THEN stack' = PruneLive(cache') \o s ELSE stack' = stack
    BY <1>6 DEF Evict, PruneDeadDone
  <2>2. r \in Resources /\ cache.res[r].life = "alive" /\ cache.res[r].access > 0
    <3> HIDE DEF f
    <3> QED BY <1>1, <1>2, VictimIs
  <2>3. \A g \in Range(stack) : ~(g.op = "load" /\ g.new /\ g.r = r)
    BY <2>2 DEF Running, FramesOK, FrameOK
  <2> DEFINE d == remove(cache, r)
  <2>4. Running(d, told, stack, {})
    BY <2>2, <2>3, RemoveKept
  <2> HIDE DEF d
  <2>5. Running(d, told, PruneLive(d) \o Tail(stack), {})
    BY <1>1, <2>4, PruneDoneKept
  <2>6. cache' = d
    BY <2>1 DEF d
  <2>7. QED
    BY <1>1, <2>1, <2>4, <2>5, <2>6
<1>7. QED
  BY <1>4, <1>5, <1>6

(* A prune of the live objects destroys decoded data, or is over.          *)
LEMMA FlushLiveStep ==
  ASSUME Running(cache, told, stack, {}), FlushLive
  PROVE  Running(cache', told', stack', {})
<1>1. stack # <<>> /\ Head(stack).op = "prune" /\ told' = told
  BY DEF FlushLive, InPass, In, Top
<1>2. CASE stack' = Tail(stack) /\ cache' = cache
  BY <1>1, <1>2, PruneDoneKept
<1>3. CASE \E r \in Alive :
             /\ res[r].listed /\ ~res[r].loading /\ res[r].dec > 0
             /\ cache' = setDecodedSize(cache, r, 0)
             /\ IF cache'.live <= Top.target THEN Pop ELSE UNCHANGED stack
  <2>1. PICK r \in Alive :
          /\ cache.res[r].dec > 0
          /\ cache' = setDecodedSize(cache, r, 0)
          /\ stack' = Tail(stack) \/ stack' = stack
    BY <1>3 DEF Pop, res
  <2>2. r \in Resources /\ cache.res[r].life = "alive"
    BY DEF Alive, res
  <2>3. Sound(cache.res[r]) /\ cache.res[r] \in ResourceType
    BY <2>2 DEF Running, Inv, AllSound, CacheType
  <2>4. cache.res[r].inCache => cache.res[r].access > 0
    BY <2>1, <2>3 DEF Sound, Formed, Untouched, ResourceType
  <2> DEFINE d == setDecodedSize(cache, r, 0)
  <2>5. 0 \in {0, Decoded}
    OBVIOUS
  <2> HIDE DEF d
  <2>6. Running(d, told, stack, {})
    BY <2>2, <2>4, <2>5, SetDecodedSizeKept DEF d
  <2>7. Running(d, told, Tail(stack), {})
    BY <1>1, <2>6, PruneDoneKept
  <2>8. cache' = d
    BY <2>1 DEF d
  <2>9. QED
    BY <1>1, <2>1, <2>6, <2>7, <2>8
<1>4. QED
  BY <1>2, <1>3 DEF FlushLive, Pop
-----------------------------------------------------------------------------
(* The invariant is inductive.                                             *)

(* The empty cache is in order.                                            *)
LEMMA InitInv ==
  Init => IInv
<1> SUFFICES ASSUME Init PROVE Running(cache, told, stack, {})
  BY DEF IInv
<1>1. /\ cache.res = [r \in Resources |-> Unborn] /\ cache.map = [u \in Urls |-> None]
      /\ cache.live = 0 /\ cache.dead = 0 /\ told = {} /\ stack = <<>>
  BY DEF Init
<1>2. cache = [res |-> cache.res, map |-> cache.map, live |-> cache.live, dead |-> cache.dead]
  BY DEF Init
<1>3. \A r \in Resources : cache.res[r] = Unborn
  BY <1>1
<1>4. cache \in CacheType
  <2>1. cache.res \in [Resources -> ResourceType]
    BY <1>1, NoObject
  <2>2. cache.map \in [Urls -> Resources \cup {None}]
    BY <1>1
  <2>3. cache.live \in Int /\ cache.dead \in Int
    BY <1>1
  <2>4. QED
    BY <1>2, <2>1, <2>2, <2>3 DEF CacheType
<1>5. Exact(cache)
  <2>1. \A r \in Resources : liveOf(cache.res[r]) = 0 /\ deadOf(cache.res[r]) = 0
    BY <1>3, NoObject
  <2>2. \A p \in Resources \X Units : p[1] \in Resources /\ ~(p[2] <= 0)
    BY DEF Units
  <2>3. LiveBytes(cache) = {} /\ DeadBytes(cache) = {}
    BY <2>1, <2>2 DEF LiveBytes, DeadBytes
  <2>4. QED
    BY <1>1, <2>3, FS_EmptySet DEF Exact
<1>6. AllSound(cache)
  BY <1>3, NoObject DEF AllSound
<1>7. Mapped(cache) /\ Revalidates(cache) /\ OneHandle(cache)
  <2>1. \A u \in Urls : cache.map[u] = None
    BY <1>1
  <2>2. Mapped(cache)
    BY <2>1 DEF Mapped
  <2>3. \A r \in Resources : cache.res[r].reval = None /\ cache.res[r].handles = {}
    BY <1>3, NoObject
  <2>4. QED
    BY <2>2, <2>3 DEF Revalidates, OneHandle
<1>8. Range(stack) = {} /\ stack \in Seq(Frames) /\ Shape(stack)
  BY <1>1, ShapeEmpty
<1>9. Loaded(stack, cache, {}) /\ Switching(stack, cache, {}) /\ Heard(stack, cache, told)
  BY <1>3, NoObject DEF Loaded, Switching, Heard
<1>10. QED
  BY <1>1, <1>4, <1>5, <1>6, <1>7, <1>8, <1>9 DEF Running, Inv, FramesOK

(* A method that is no callback lets nobody else run.                      *)
LEMMA NoClientRuns ==
  ASSUME stack # <<>>, ~ClientMayRun
  PROVE  ~Client
<1>1. \A h : ~MayRequest(h)
  BY DEF MayRequest, MayNest
<1>2. \A h : ~Release(h) /\ ~ReleaseMoved(h) /\ ~Draw(h)
  BY DEF Release, ReleaseMoved, Draw, MayNest
<1>3. \A h, u : ~Request(h, u)
  BY <1>1 DEF Request
<1>4. \A h, u : ~RequestReloading(h, u)
  BY <1>1 DEF RequestReloading
<1>5. \A h, u : ~RequestRevalidating(h, u)
  BY <1>1, ZenonT(40) DEF RequestRevalidating
<1>6. \A h, u : ~RevalidatingAgain(h, u)
  BY <1>1 DEF RevalidatingAgain
<1>7. ~ClearPreloads /\ \A r : ~Cancel(r)
  BY DEF ClearPreloads, Cancel
<1>8. QED
  BY <1>2, <1>3, <1>4, <1>5, <1>6, <1>7 DEF Client

(* The host does nothing while a method is in progress that does not let   *)
(* it.                                                                     *)
LEMMA NoHostRuns ==
  ASSUME stack # <<>>, ~HostMayRun, ~ClientMayRun, NEW r \in Resources
  PROVE  ~Network(r)
<1>1. ~Loading(r)
  BY DEF Loading
<1>2. ~Serve(r) /\ ~ServeFails(r)
  BY DEF Serve, ServeFails
<1>3. ~Data(r) /\ ~HttpError(r)
  BY <1>1 DEF Data, HttpError
<1>4. ~DidFinishLoading(r) /\ ~DidFail(r)
  BY <1>1 DEF DidFinishLoading, DidFail, MayNest
<1>5. ~Modified(r)
  BY <1>1 DEF Modified
<1>6. ~NotModified(r)
  <2>1. ASSUME NotModified(r) PROVE stack = <<>>
    BY <2>1 DEF NotModified, Loading
  <2>2. QED
    BY <2>1
<1>7. QED
  BY <1>2, <1>3, <1>4, <1>5, <1>6 DEF Network

(* Where the model has stopped, nothing happens any more.                  *)
LEMMA NothingAfterStop ==
  ASSUME Stopped(stack)
  PROVE  ~Next
<1>1. stack # <<>> /\ Head(stack).op = "stop"
  BY DEF Stopped
<1>2. /\ ~ClientMayRun /\ ~HostMayRun
      /\ \A op : op # "stop" => ~In(op)
  BY <1>1 DEF ClientMayRun, HostMayRun, In, Top, ClientPoints
<1>3. ~Client /\ \A r \in Resources : ~Network(r)
  BY <1>1, <1>2, NoClientRuns, NoHostRuns
<1>4. ~Internal
  BY <1>2 DEF Internal, Lookup, LoadReturns, ReleaseHandle, ClearNext, SwitchNext, SwitchDone,
              NotifyNext, LoadDone, NotifyDone, Flush, Evict, FlushLive, InPass
<1>5. QED
  BY <1>3, <1>4 DEF Next

(* What ReferencedIsAlive says of one object.                              *)
Referenced(c, r) ==
  /\ c.res[r].life = "deleted" => c.res[r] = Gone
  /\ c.res[r].reval # None =>
       c.res[c.res[r].reval].life = "alive" /\ c.res[c.res[r].reval].isReval
  /\ \A u \in Urls : c.map[u] = r => c.res[r].life = "alive" /\ c.res[r].inCache

(* An object with a handle, a client or a URL in the map is not deleted.   *)
LEMMA AliveFromInv ==
  ASSUME NEW c, Inv(c), NEW r \in Resources
  PROVE  Referenced(c, r)
<1>1. Sound(c.res[r])
  BY DEF Inv, AllSound
<1>2. c.res[r].life = "deleted" => c.res[r] = Gone
  BY <1>1, NoObject DEF Sound, Formed
<1>3. c.res[r].reval # None =>
        c.res[c.res[r].reval].life = "alive" /\ c.res[c.res[r].reval].isReval
  BY DEF Inv, Revalidates
<1>4. ASSUME NEW u \in Urls, c.map[u] = r
      PROVE  c.res[r].life = "alive" /\ c.res[r].inCache
  <2>1. r # None
    BY Constants
  <2>2. c.res[r].inCache
    BY <1>4, <2>1 DEF Inv, Mapped
  <2>3. QED
    BY <1>1, <2>2, NoObject DEF Sound, Formed
<1>5. QED
  BY <1>2, <1>3, <1>4 DEF Referenced

(* A stack of one method.                                                  *)
LEMMA OneMethod ==
  ASSUME NEW F, NEW f \in F
  PROVE  /\ <<f>> \in Seq(F) /\ <<f>> # <<>> /\ Head(<<f>>) = f
         /\ \A i \in 1..Len(<<f>>) : <<f>>[i] = f
  OBVIOUS

Reasons == {"revalidated once", "is a client", "was deleted"}

(* The model stops, with all in order but for a deleted object written to. *)
LEMMA StopStep ==
  ASSUME NEW why \in Reasons, NEW r \in Resources, Stop(why, r),
         told \subseteq Holders, Books(cache'),
         \A q \in Resources : Referenced(cache', q) \/ (why = "was deleted" /\ q = r)
  PROVE  IInv'
<1> DEFINE f == [op |-> "stop", why |-> why, r |-> r]
<1>1. stack' = <<f>> /\ told' = told
  BY DEF Stop
<1>2. f \in Frames /\ f.op = "stop" /\ f.why = why /\ f.r = r
  BY DEF Frames, Reasons
<1> HIDE DEF f
<1>3. /\ stack' \in Seq(Frames) /\ stack' # <<>> /\ Head(stack') = f
      /\ \A i \in 1..Len(stack') : stack'[i] = f
  <2>1. /\ <<f>> \in Seq(Frames) /\ <<f>> # <<>> /\ Head(<<f>>) = f
        /\ \A i \in 1..Len(<<f>>) : <<f>>[i] = f
    BY <1>2, OneMethod
  <2>2. QED
    BY <1>1, <2>1
<1>4. \A i \in 1..Len(stack') : ~Keeps(stack'[i]) /\ stack'[i].op # "switch"
  BY <1>2, <1>3 DEF Keeps
<1>5. InUse' = {}
  BY <1>4 DEF InUse
<1>6. why = "was deleted" => UsedWhenDeleted(r)'
  BY <1>2, <1>3 DEF UsedWhenDeleted, In, Top
<1>7. ReferencedIsAlive'
  <2>1. \A q \in Resources : ~UsedWhenDeleted(q)' => Referenced(cache', q)
    BY <1>6
  <2>2. QED
    BY <1>5, <2>1 DEF ReferencedIsAlive, Referenced, res
<1>8. Stopped(stack')
  BY <1>2, <1>3 DEF Stopped
<1>9. QED
  BY <1>1, <1>3, <1>7, <1>8 DEF IInv

(* The model stops in an action that leaves the cache alone.               *)
LEMMA StopHere ==
  ASSUME Running(cache, told, stack, {}), NEW why \in Reasons, NEW r \in Resources,
         Stop(why, r), cache' = cache
  PROVE  IInv'
<1>1. Inv(cache) /\ told \subseteq Holders
  BY DEF Running
<1>2. Books(cache') /\ \A q \in Resources : Referenced(cache', q)
  <2>1. Books(cache)
    BY <1>1 DEF Inv, AllSound, Sound, Formed, Books
  <2>2. \A q \in Resources : Referenced(cache, q)
    BY <1>1, AliveFromInv
  <2>3. QED
    BY <2>1, <2>2
<1>3. QED
  BY <1>1, <1>2, StopStep

(* The objects that the stopping actions name.                             *)
LEMMA StoppingStep ==
  ASSUME Running(cache, told, stack, {}), NEW h,
         ReleaseMoved(h) \/ \E u \in Urls : RevalidatingAgain(h, u)
  PROVE  IInv'
<1>1. CASE ReleaseMoved(h)
  <2>1. PICK r \in HandleOf(h) : Stop("is a client", r)
    BY <1>1 DEF ReleaseMoved
  <2>2. cache' = cache /\ r \in Resources
    BY <1>1 DEF ReleaseMoved, HandleOf, Alive
  <2>3. QED
    BY <2>1, <2>2, StopHere DEF Reasons
<1>2. ASSUME NEW u \in Urls, RevalidatingAgain(h, u) PROVE IInv'
  <2>1. /\ cache.map[u] # None /\ cache' = cache
        /\ Stop("revalidated once", cache.map[u])
    BY <1>2 DEF RevalidatingAgain
  <2>2. cache.map[u] \in Resources
    BY <2>1 DEF Running, Inv, CacheType
  <2>3. QED
    BY <2>1, <2>2, StopHere DEF Reasons
<1>3. QED
  BY <1>1, <1>2

(* A deleted object that is written to and put in the map: the books are   *)
(* in order, and no other object is touched.                               *)
LEMMA WrittenWhenDeleted ==
  ASSUME NEW c, Inv(c), NEW r \in Resources, c.res[r].life = "deleted", NEW u \in Urls,
         NEW d, \/ d = [c EXCEPT !.res[r].loading = TRUE]
                \/ d = [[c EXCEPT !.res[r].loading = TRUE] EXCEPT !.map[u] = r]
  PROVE  Books(d) /\ \A q \in Resources \ {r} : Referenced(d, q)
<1> DEFINE x == [Gone EXCEPT !.loading = TRUE]
<1>1. c \in CacheType /\ Referenced(c, r)
  BY AliveFromInv DEF Inv
<1>2. c.res[r] = Gone /\ Gone \in ResourceType
  BY <1>1, NoObject DEF Referenced
<1>3. x \in ResourceType /\ x.inCache = FALSE /\ x.queue = None /\ x.listed = FALSE
  BY <1>2 DEF ResourceType, Gone, Unborn
<1>4. /\ d.res = [c.res EXCEPT ![r] = x] /\ d.live = c.live /\ d.dead = c.dead
      /\ d.map = c.map \/ d.map = [c.map EXCEPT ![u] = r]
      /\ d = [res |-> d.res, map |-> d.map, live |-> d.live, dead |-> d.dead]
  BY <1>1, <1>2 DEF CacheType
<1> HIDE DEF x
<1>5. d \in CacheType
  <2>1. d.res \in [Resources -> ResourceType] /\ d.map \in [Urls -> Resources \cup {None}]
    BY <1>1, <1>3, <1>4 DEF CacheType
  <2>2. d.live \in Int /\ d.dead \in Int
    BY <1>1, <1>4 DEF CacheType
  <2>3. QED
    BY <1>4, <2>1, <2>2 DEF CacheType
<1>6. d.res[r] = x /\ \A q \in Resources : q # r => d.res[q] = c.res[q]
  BY <1>1, <1>4 DEF CacheType
<1>7. \A q \in Resources : liveOf(d.res[q]) = liveOf(c.res[q]) /\ deadOf(d.res[q]) = deadOf(c.res[q])
  <2>1. liveOf(x) = 0 /\ deadOf(x) = 0 /\ liveOf(Gone) = 0 /\ deadOf(Gone) = 0
    BY <1>3, NoObject DEF liveOf, deadOf
  <2>2. QED
    BY <1>2, <1>6, <2>1
<1>8. Exact(d)
  <2>1. LiveBytes(d) = LiveBytes(c) /\ DeadBytes(d) = DeadBytes(c)
    BY <1>7 DEF LiveBytes, DeadBytes
  <2>2. QED
    BY <1>4, <2>1 DEF Exact, Inv
<1>9. \A q \in Resources : Listed(d.res[q])
  <2>1. Listed(x)
    BY <1>3 DEF Listed
  <2>2. \A q \in Resources : Listed(c.res[q])
    BY DEF Inv, AllSound, Sound, Formed
  <2>3. QED
    BY <1>6, <2>1, <2>2
<1>10. ASSUME NEW q \in Resources \ {r} PROVE Referenced(d, q)
  <2>1. Referenced(c, q) /\ d.res[q] = c.res[q] /\ q # r
    BY <1>6, AliveFromInv
  <2>2. c.res[q].life = "deleted" => c.res[q] = Gone
    BY <2>1 DEF Referenced
  <2>3. c.res[q].reval # None =>
          d.res[c.res[q].reval].life = "alive" /\ d.res[c.res[q].reval].isReval
    <3>1. c.res[q].reval # None => /\ c.res[q].reval \in Resources
                                   /\ c.res[c.res[q].reval].life = "alive"
                                   /\ c.res[c.res[q].reval].isReval
      BY <1>1, <2>1 DEF Referenced, CacheType, ResourceType
    <3>2. QED
      BY <1>6, <3>1
  <2>4. \A v \in Urls : d.map[v] = q => c.map[v] = q
    BY <1>1, <1>4, <2>1 DEF CacheType
  <2>5. \A v \in Urls : c.map[v] = q => c.res[q].life = "alive" /\ c.res[q].inCache
    BY <2>1 DEF Referenced
  <2>6. QED
    BY <2>1, <2>2, <2>3, <2>4, <2>5 DEF Referenced
<1>11. QED
  BY <1>5, <1>8, <1>9, <1>10 DEF Books

(* Loader::load returns for an object that was deleted meanwhile.          *)
LEMMA LoadStopsStep ==
  ASSUME Running(cache, told, stack, {}), LoadReturns,
         cache.res[Head(stack).r].life = "deleted"
  PROVE  IInv'
<1> DEFINE f == Head(stack)
           r == f.r
<1>1. stack # <<>> /\ f.op = "load"
  BY DEF LoadReturns, In, Top
<1>2. f \in Frames /\ r \in Resources /\ f.u \in Urls
  <2>1. f \in Frames
    BY <1>1, TopIsOK
  <2>2. QED
    BY <1>1, <2>1, FrameTypes
<1>3. Stop("was deleted", r)
  BY DEF LoadReturns, Top, res
<1>4. \/ cache' = [cache EXCEPT !.res[r].loading = TRUE]
      \/ cache' = [[cache EXCEPT !.res[r].loading = TRUE] EXCEPT !.map[f.u] = r]
  BY DEF LoadReturns, Top, res
<1> DEFINE u == f.u
<1> HIDE DEF f, r, u
<1>5. Books(cache') /\ \A q \in Resources \ {r} : Referenced(cache', q)
  <2>1. Inv(cache) /\ cache.res[r].life = "deleted" /\ u \in Urls
    BY <1>2 DEF Running, r, f, u
  <2>2. QED
    BY <1>2, <1>4, <2>1, WrittenWhenDeleted DEF u
<1>6. told \subseteq Holders /\ "was deleted" \in Reasons
  BY DEF Running, Reasons
<1>7. \A q \in Resources : Referenced(cache', q) \/ ("was deleted" = "was deleted" /\ q = r)
  BY <1>5
<1>8. QED
  BY <1>2, <1>3, <1>5, <1>6, <1>7, StopStep

(* checkNotify goes on in the set of a deleted object.                     *)
LEMMA NotifyStopsStep ==
  ASSUME Running(cache, told, stack, {}), NotifyNext,
         cache.res[Head(stack).r].life = "deleted"
  PROVE  IInv'
<1>1. stack # <<>> /\ Head(stack).op = "notify"
  BY DEF NotifyNext, In, Top
<1>2. Head(stack) \in Frames
  BY <1>1, TopIsOK
<1>3. Head(stack).r \in Resources
  BY <1>1, <1>2, FrameTypes
<1>4. Stop("was deleted", Head(stack).r) /\ cache' = cache
  BY DEF NotifyNext, Top, res
<1>5. QED
  BY <1>3, <1>4, StopHere DEF Reasons

(* Every step of a client.                                                 *)
LEMMA ClientStep ==
  ASSUME Running(cache, told, stack, {}), Client
  PROVE  IInv'
<1>1. ASSUME NEW h \in Holders, Release(h) PROVE IInv'
  BY <1>1, ReleaseStep DEF IInv
<1>2. ASSUME NEW h \in Holders, ReleaseMoved(h) PROVE IInv'
  BY <1>2, StoppingStep
<1>3. ASSUME NEW h \in Holders, Draw(h) PROVE IInv'
  BY <1>3, DrawStep DEF IInv
<1>4. ASSUME NEW h \in Requesters, NEW u \in Urls, Request(h, u) PROVE IInv'
  BY <1>4, RequestStep DEF IInv
<1>5. ASSUME NEW h \in Requesters, NEW u \in Urls, RequestReloading(h, u) PROVE IInv'
  BY <1>5, ReloadingStep DEF IInv
<1>6. ASSUME NEW h \in Requesters, NEW u \in Urls, RequestRevalidating(h, u) PROVE IInv'
  BY <1>6, RevalidatingStep DEF IInv
<1>7. ASSUME NEW h \in Requesters, NEW u \in Urls, RevalidatingAgain(h, u) PROVE IInv'
  BY <1>7, StoppingStep
<1>8. CASE ClearPreloads
  BY <1>8, ClearPreloadsStep DEF IInv
<1>9. ASSUME NEW r \in Resources, Cancel(r) PROVE IInv'
  BY <1>9, CancelStep DEF IInv
<1>10. QED
  BY <1>1, <1>2, <1>3, <1>4, <1>5, <1>6, <1>7, <1>8, <1>9 DEF Client

(* Every step of the network.                                              *)
LEMMA NetworkStep ==
  ASSUME Running(cache, told, stack, {}), NEW r \in Resources, Network(r)
  PROVE  IInv'
<1>1. CASE Serve(r)
  BY <1>1, ServeStep DEF IInv
<1>2. CASE ServeFails(r)
  BY <1>2, ServeFailsStep DEF IInv
<1>3. CASE Data(r)
  BY <1>3, DataStep DEF IInv
<1>4. CASE HttpError(r)
  BY <1>4, HttpErrorStep DEF IInv
<1>5. CASE DidFinishLoading(r)
  BY <1>5, DidFinishLoadingStep DEF IInv
<1>6. CASE DidFail(r)
  BY <1>6, DidFailStep DEF IInv
<1>7. CASE Modified(r)
  BY <1>7, ModifiedStep DEF IInv
<1>8. CASE NotModified(r)
  BY <1>8, NotModifiedStep DEF IInv
<1>9. QED
  BY <1>1, <1>2, <1>3, <1>4, <1>5, <1>6, <1>7, <1>8 DEF Network

(* Every step of a method in progress.                                     *)
LEMMA InternalStep ==
  ASSUME Running(cache, told, stack, {}), Internal
  PROVE  IInv'
<1>1. CASE Lookup
  BY <1>1, LookupStep DEF IInv
<1>2. CASE LoadReturns
  BY <1>2, LoadReturnsStep, LoadStopsStep DEF IInv
<1>3. CASE ReleaseHandle
  BY <1>3, ReleaseHandleStep DEF IInv
<1>4. CASE ClearNext
  BY <1>4, ClearNextStep DEF IInv
<1>5. CASE SwitchNext
  BY <1>5, SwitchNextStep DEF IInv
<1>6. CASE SwitchDone
  BY <1>6, SwitchDoneStep DEF IInv
<1>7. CASE NotifyNext
  BY <1>7, NotifyNextStep, NotifyStopsStep DEF IInv
<1>13. CASE LoadDone
  BY <1>13, LoadDoneStep DEF IInv
<1>8. CASE NotifyDone
  BY <1>8, NotifyDoneStep DEF IInv
<1>9. CASE Flush
  BY <1>9, FlushStep DEF IInv
<1>10. CASE Evict
  BY <1>10, EvictStep DEF IInv
<1>11. CASE FlushLive
  BY <1>11, FlushLiveStep DEF IInv
<1>12. QED
  BY <1>1, <1>2, <1>3, <1>4, <1>5, <1>6, <1>7, <1>8, <1>9, <1>10, <1>11, <1>13 DEF Internal

(* The invariant is inductive.                                             *)
LEMMA NextInv ==
  IInv /\ [Next]_vars => IInv'
<1> SUFFICES ASSUME IInv, [Next]_vars PROVE IInv'
  OBVIOUS
<1>1. CASE UNCHANGED vars
  <2>1. cache' = cache /\ told' = told /\ stack' = stack
    BY <1>1 DEF vars
  <2>2. CASE Running(cache, told, stack, {})
    BY <2>1, <2>2 DEF IInv
  <2>3. CASE Stopped(stack) /\ stack \in Seq(Frames) /\ told \subseteq Holders /\ Books(cache)
             /\ ReferencedIsAlive
    <3>1. InUse' = InUse /\ Alive' = Alive /\ \A r : UsedWhenDeleted(r)' <=> UsedWhenDeleted(r)
      BY <2>1 DEF InUse, Alive, UsedWhenDeleted, In, Top, res
    <3>2. ReferencedIsAlive'
      BY <2>1, <2>3, <3>1 DEF ReferencedIsAlive, res
    <3>3. QED
      BY <2>1, <2>3, <3>2 DEF IInv
  <2>4. QED
    BY <2>2, <2>3 DEF IInv
<1>2. CASE Next /\ Running(cache, told, stack, {})
  BY <1>2, ClientStep, InternalStep, NetworkStep DEF Next
<1>3. CASE Next /\ Stopped(stack)
  BY <1>3, NothingAfterStop
<1>4. QED
  BY <1>1, <1>2, <1>3 DEF IInv

(* The inductive invariant: the books of the cache, and the place every    *)
(* method in progress has in what is still to be done.                     *)
THEOREM Inductive ==
  Spec => []IInv
  BY InitInv, NextInv, PTL DEF Spec
-----------------------------------------------------------------------------
(* The properties.                                                         *)

(* Types, totals and lists, as the properties name them.                   *)
LEMMA BooksFromBooks ==
  ASSUME Books(cache), told \subseteq Holders, stack \in Seq(Frames)
  PROVE  BooksExact
<1>1. cache \in CacheType /\ Exact(cache) /\ \A r \in Resources : Listed(cache.res[r])
  BY DEF Books
<1>2. TypeOK
  <2>1. cache.live \in Nat /\ cache.dead \in Nat
    BY <1>1, TotalsAreNumbers
  <2>2. cache.res \in [Resources -> ResourceType] /\ cache.map \in [Urls -> Resources \cup {None}]
    BY <1>1 DEF CacheType
  <2>3. QED
    BY <2>1, <2>2 DEF TypeOK
<1>3. \A r \in Resources : cache.res[r] \in ResourceType
  BY <1>2 DEF TypeOK
<1>4. SizesExact
  <2> DEFINE L == {r \in InCache : res[r].clients # {}}
             D == {r \in InCache : res[r].clients = {}}
             B(S) == {p \in S \X (1..(Whole + Decoded)) : p[2] <= size(res[p[1]])}
  <2>1. \A p \in Resources \X Units : p[2] >= 1 /\ p[1] \in Resources /\ p[2] \in Int
    BY DEF Units
  <2>2. \A r \in Resources :
          /\ liveOf(cache.res[r]) = IF r \in L THEN size(res[r]) ELSE 0
          /\ deadOf(cache.res[r]) = IF r \in D THEN size(res[r]) ELSE 0
    BY DEF InCache, liveOf, deadOf, res
  <2>3. L \subseteq Resources /\ D \subseteq Resources
    BY DEF InCache
  <2> HIDE DEF L, D
  <2>4. B(L) = LiveBytes(cache)
    BY <2>1, <2>2, <2>3 DEF LiveBytes, Units
  <2>5. B(D) = DeadBytes(cache)
    BY <2>1, <2>2, <2>3 DEF DeadBytes, Units
  <2>6. SizeOf(L) = Cardinality(B(L)) /\ SizeOf(D) = Cardinality(B(D))
    BY DEF SizeOf
  <2>7. cache.live = SizeOf(L) /\ cache.dead = SizeOf(D)
    BY <1>1, <2>4, <2>5, <2>6 DEF Exact
  <2>8. QED
    BY <2>7 DEF SizesExact, L, D
<1>5. FoundInItsList
  BY <1>1 DEF FoundInItsList, Listed, res
<1>6. QED
  BY <1>2, <1>4, <1>5 DEF BooksExact

(* The methods in progress that keep their objects do keep them.           *)
LEMMA InUseIsAlive ==
  ASSUME Running(cache, told, stack, {})
  PROVE  InUse \subseteq Alive
<1>1. ASSUME NEW i \in 1..Len(stack), Keeps(stack[i])
      PROVE  stack[i].r \in Alive /\ (stack[i].op = "switch" => stack[i].n \in Alive)
  <2> DEFINE f == stack[i]
  <2>1. f \in Range(stack) /\ f \in Frames /\ FrameOK(f, cache) /\ Inv(cache)
    <3>1. stack \in Seq(Frames) /\ FramesOK(stack, cache) /\ Inv(cache)
      BY DEF Running
    <3>2. f \in Range(stack) /\ f \in Frames
      BY <3>1, StackParts DEF Range
    <3>3. QED
      BY <3>1, <3>2 DEF FramesOK
  <2> HIDE DEF f
  <2>2. \A q \in Resources : Ending(f, q) => q \in Alive
    BY <2>1, HasRequest DEF FrameOK, Alive, res
  <2>3. CASE f.op = "release"
    <3>1. f.r \in Resources /\ f.h \in cache.res[f.r].handles
      BY <2>1, <2>3, FrameTypes DEF FrameOK
    <3>2. Sound(cache.res[f.r])
      BY <2>1, <3>1 DEF Inv, AllSound
    <3>3. cache.res[f.r].life = "alive"
      BY <3>1, <3>2, NoObject DEF Sound, Formed
    <3>4. QED
      BY <2>3, <3>1, <3>3 DEF Alive, res, f
  <2>4. CASE f.op = "notify" /\ f.then # "return"
    <3>1. f.r \in Resources /\ Ending(f, f.r)
      BY <2>1, <2>4, FrameTypes DEF Ending
    <3>2. QED
      BY <2>2, <2>4, <3>1 DEF f
  <2>5. CASE f.op = "switch"
    <3>1. f.r \in Resources /\ f.n \in Resources /\ Ending(f, f.n) /\ f.r # None
      BY <2>1, <2>5, FrameTypes, Constants DEF Ending
    <3>2. cache.res[f.n].reval = f.r
      BY <2>1, <2>5 DEF FrameOK
    <3>3. cache.res[f.r].life = "alive"
      BY <2>1, <3>1, <3>2 DEF Inv, Revalidates
    <3>4. QED
      BY <2>2, <3>1, <3>3 DEF Alive, res, f
  <2>6. QED
    BY <1>1, <2>3, <2>4, <2>5 DEF Keeps, f
<1>2. \A i \in 1..Len(stack) : stack[i].op = "switch" => Keeps(stack[i])
  BY DEF Keeps
<1>3. QED
  BY <1>1, <1>2 DEF InUse

(* The loops that evict end where they may.                                *)
LEMMA PruneEnds ==
  ASSUME IInv, Next, In("prune"), Top.pass # "live",
         stack' = <<>> \/ Head(stack').op # "prune" \/ Head(stack').pass = "live"
  PROVE  \/ cache'.dead <= Top.target
         \/ \A r \in Resources :
              cache'.res[r].inCache /\ cache'.res[r].clients = {} /\ cache'.res[r].access > 0
                => cache'.res[r].preload > 0
<1> DEFINE f == Head(stack)
<1>1. stack # <<>> /\ f.op = "prune" /\ f = Top
  BY DEF In, Top
<1>2. Running(cache, told, stack, {})
  BY <1>1 DEF IInv, Stopped
<1>3. f \in Frames /\ FrameOK(f, cache) /\ Inv(cache) /\ Tail(stack) \in Seq(Frames)
  BY <1>1, <1>2, TopIsOK DEF Running
<1>4. \A g \in Frames : <<g>> \o Tail(stack) # <<>> /\ Head(<<g>> \o Tail(stack)) = g
  BY <1>3, StackParts
<1> DEFINE N == [op : {"prune"}, pass : {"flush", "evict", "live"}, i : 0..MaxIndex,
                 target : 0..Capacity]
<1>5. f \in N /\ N \subseteq Frames
  BY <1>1, <1>3 DEF Frames
<1>6. f.i \in 0..MaxIndex /\ MaxIndex \in Nat
  BY <1>1, <1>3, FrameTypes, IndexRange
<1>7. stack' # stack
  BY <1>1
<1>8. Flush \/ Evict
  <2>1. /\ ~ClientMayRun /\ ~MayNest /\ ~HostMayRun
        /\ ~In("lookup") /\ ~In("load") /\ ~In("release") /\ ~In("clear")
        /\ ~In("switch") /\ ~In("notify")
    BY <1>1 DEF ClientMayRun, MayNest, HostMayRun, In, ClientPoints
  <2>2. ~Client
    BY <1>1, <2>1, NoClientRuns
  <2>3. \A r \in Resources : ~Network(r)
    BY <1>1, <2>1, NoHostRuns
  <2>4. ~FlushLive
    BY DEF FlushLive, InPass
  <2>5. Internal
    BY <2>2, <2>3 DEF Next
  <2>6. QED
    BY <2>1, <2>4, <2>5 DEF Internal, Lookup, LoadReturns, ReleaseHandle, ClearNext,
                            SwitchNext, SwitchDone, NotifyNext, LoadDone, NotifyDone
<1>9. CASE Flush
  <2>1. CASE Flushable = {}
    <3> DEFINE g == [f EXCEPT !.pass = "evict"]
    <3>1. stack' = <<g>> \o Tail(stack)
      BY <1>9, <2>1 DEF Flush, Replace, Top
    <3>2. g \in N /\ g.op = "prune" /\ g.pass = "evict"
      <4> HIDE DEF f
      <4> QED BY <1>5
    <3> HIDE DEF g, N
    <3>3. QED
      BY <1>4, <1>5, <3>1, <3>2
  <2>2. CASE Flushable # {}
    BY <1>7, <1>9, <2>2 DEF Flush
  <2>3. QED
    BY <2>1, <2>2
<1>10. CASE Evict
  <2>1. CASE Victims = {} /\ f.i = 0
    <3>1. cache' = cache
      BY <1>1, <1>10, <2>1 DEF Evict
    <3>2. f.pass # "live"
      BY <1>1
    <3> SUFFICES ASSUME NEW r \in Resources, cache.res[r].inCache,
                        cache.res[r].clients = {}, cache.res[r].access > 0
                 PROVE  cache.res[r].preload > 0
      BY <3>1
    <3>3. cache.res[r] \in ResourceType /\ Sound(cache.res[r])
      BY <1>3 DEF Inv, AllSound, CacheType
    <3>4. cache.res[r].preload \in 0..1
      BY <3>3 DEF ResourceType
    <3>5. cache.res[r].queue \in 0..MaxIndex
      BY <3>3, IndexRange DEF Sound, Formed, Listed
    <3>6. cache.res[r].life = "alive"
      BY <3>3, NoObject DEF Sound, Formed
    <3>7. SUFFICES ASSUME cache.res[r].preload = 0 PROVE FALSE
      BY <3>4
    <3>8. cache.res[r].queue <= f.i
      BY <1>1, <1>3, <3>2, <3>7 DEF FrameOK, Evictable
    <3>9. cache.res[r].queue = f.i
      BY <2>1, <1>6, <3>5, <3>8
    <3>10. r \in Victims
      BY <1>1, <3>6, <3>7, <3>9 DEF Victims, Alive, res
    <3>11. QED
      BY <2>1, <3>10
  <2>2. CASE Victims = {} /\ f.i # 0
    <3> DEFINE j == f.i - 1
               g == [f EXCEPT !.pass = "flush", !.i = j]
    <3>1. stack' = <<g>> \o Tail(stack)
      BY <1>1, <1>10, <2>2 DEF Evict, Replace, Top
    <3>2. j \in 0..MaxIndex
      BY <1>6, <2>2
    <3>3. g \in N /\ g.op = "prune" /\ g.pass = "flush"
      <4> HIDE DEF f, j
      <4> QED BY <1>5, <3>2
    <3> HIDE DEF g, N
    <3>4. QED
      BY <1>4, <1>5, <3>1, <3>3
  <2>3. CASE Victims # {}
    BY <1>7, <1>10, <2>3 DEF Evict
  <2>4. QED
    BY <2>1, <2>2, <2>3
<1>11. QED
  BY <1>8, <1>9, <1>10

(* BooksExact: m_liveSize and m_deadSize, which a dozen places of Cache and *)
(* CachedResource keep by deltas, are at every moment the sizes of the     *)
(* objects with and without clients, never negative, and every object is   *)
(* in the LRU list its size and access count lead to and in no other.      *)
THEOREM BooksAreExact ==
  Spec => []BooksExact
<1>1. IInv => BooksExact
  <2>1. Running(cache, told, stack, {}) =>
          Books(cache) /\ told \subseteq Holders /\ stack \in Seq(Frames)
    BY DEF Running, Inv, AllSound, Sound, Formed, Books
  <2>2. QED
    BY <2>1, BooksFromBooks DEF IInv
<1>2. QED
  BY <1>1, Inductive, PTL

(* ReferencedIsAlive: whatever client code calls back into the cache, the  *)
(* object that the map, a revalidation or a method in progress points to   *)
(* has not been deleted, and no method writes to one that was; except that *)
(* load() returns to an object that may have been cancelled and deleted    *)
(* meanwhile, and a 4xx answer tells the clients of one that they may have *)
(* deleted.                                                                *)
THEOREM NothingReferencedIsDeleted ==
  Spec => []ReferencedIsAlive
<1>1. IInv => ReferencedIsAlive
  <2>1. ASSUME Running(cache, told, stack, {}) PROVE ReferencedIsAlive
    <3>1. \A r \in Resources : Referenced(cache, r)
      BY <2>1, AliveFromInv DEF Running
    <3>2. InUse \subseteq Alive
      BY <2>1, InUseIsAlive
    <3>3. QED
      BY <3>1, <3>2 DEF ReferencedIsAlive, Referenced, res
  <2>2. QED
    BY <2>1 DEF IInv
<1>2. QED
  BY <1>1, Inductive, PTL

(* DeletableIsDeleted: nothing leaks: an object out of the cache for which *)
(* canDelete() holds has been deleted by whoever let go of it last.        *)
THEOREM NothingLeaks ==
  Spec => []DeletableIsDeleted
<1>1. IInv => DeletableIsDeleted
  BY DEF IInv, Stopped, Running, Inv, AllSound, Sound, DeletableIsDeleted, Alive, res
<1>2. QED
  BY <1>1, Inductive, PTL

(* LoadedIsTold: when no method runs, the clients of a loaded object have  *)
(* been told, those that came or were moved while others were told too.    *)
THEOREM EveryClientIsTold ==
  Spec => []LoadedIsTold
<1>1. IInv => LoadedIsTold
  <2> SUFFICES ASSUME IInv, stack = <<>>, NEW r \in Alive, ~res[r].loading
               PROVE  res[r].clients \subseteq told
    BY DEF LoadedIsTold
  <2>1. Running(cache, told, stack, {})
    BY DEF IInv, Stopped
  <2>2. Range(stack) = {} /\ r \in Resources
    BY ShapeEmpty DEF Alive
  <2>3. QED
    BY <2>1, <2>2 DEF Running, Heard, res
<1>2. QED
  BY <1>1, Inductive, PTL

(* PrunedEnough: pruneDeadResources stops below its target or with nothing *)
(* left that it may evict, though flushing and evicting change the lists   *)
(* it walks.                                                               *)
THEOREM PruningIsEnough ==
  Spec => PrunedEnough
<1> DEFINE A == \A c \in {cache'} :
       In("prune") /\ Top.pass # "live" /\ (stack' = <<>> \/ Head(stack').op # "prune"
                                             \/ Head(stack').pass = "live")
         => \/ c.dead <= Top.target
            \/ \A r \in Resources : c.res[r].inCache /\ c.res[r].clients = {} /\ c.res[r].access > 0
                                     => c.res[r].preload > 0
<1>1. IInv /\ [Next]_vars => [A]_vars
  <2> SUFFICES ASSUME IInv, Next PROVE A
    OBVIOUS
  <2>1. QED
    BY PruneEnds
<1>2. QED
  BY <1>1, Inductive, PTL DEF Spec, PrunedEnough
=============================================================================
