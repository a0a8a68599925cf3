--------------------------- MODULE DatabaseService ---------------------------
(***************************************************************************)
(* What client-side databases promise to a page.                           *)
(*                                                                         *)
(* The transactions of a database run one at a time, in the order they     *)
(* were asked for.  Of one that runs the page hears once, success after    *)
(* the commit or an error, and it does not end before the page heard.      *)
(* Only a database that is gone, stopped with its document, deleted or     *)
(* spoiled by a COMMIT that failed, ends one in silence.                   *)
(***************************************************************************)
EXTENDS Integers, Sequences

CONSTANTS
  Databases,
  Transactions,
  None

VARIABLES
  pending,    \* of each database, the transactions that did not begin yet
  running,    \* of each database, the transaction that runs
  listens,    \* of each transaction, the outcomes it has a callback for
  told,       \* of each transaction, the outcomes the page heard of
  committed,
  gone

vars == <<pending, running, listens, told, committed, gone>>

Outcomes == {"success", "error"}

Init ==
  /\ pending = [d \in Databases |-> <<>>]
  /\ running = [d \in Databases |-> None]
  /\ listens = [x \in Transactions |-> None]
  /\ told = [x \in Transactions |-> {}]
  /\ committed = {}
  /\ gone = {}

Ask(d, x) ==
  /\ listens[x] = None
  /\ \E L \in SUBSET Outcomes : listens' = [listens EXCEPT ![x] = L]
  /\ pending' = [pending EXCEPT ![d] = Append(@, x)]
  /\ UNCHANGED <<running, told, committed, gone>>

Begin(d) ==
  /\ running[d] = None /\ pending[d] # <<>>
  /\ running' = [running EXCEPT ![d] = Head(pending[d])]
  /\ pending' = [pending EXCEPT ![d] = Tail(@)]
  /\ UNCHANGED <<listens, told, committed, gone>>

(* A transaction that cannot begin, and has nobody to tell.                *)
Refuse(d) ==
  /\ running[d] = None /\ pending[d] # <<>>
  /\ d \in gone \/ "error" \notin listens[Head(pending[d])]
  /\ pending' = [pending EXCEPT ![d] = Tail(@)]
  /\ UNCHANGED <<running, listens, told, committed, gone>>

Commit(d) ==
  /\ running[d] # None
  /\ told[running[d]] = {}
  /\ committed' = committed \cup {running[d]}
  /\ UNCHANGED <<pending, running, listens, told, gone>>

Tell(d, o) ==
  /\ running[d] # None
  /\ o \in listens[running[d]]
  /\ told[running[d]] = {}
  /\ d \in gone \/ (o = "success" <=> running[d] \in committed)
  /\ told' = [told EXCEPT ![running[d]] = {o}]
  /\ UNCHANGED <<pending, running, listens, committed, gone>>

(* After an error the page may still have it committed.  A failed COMMIT   *)
(* at the end takes the database with it.                                  *)
End(d) ==
  /\ running[d] # None
  /\ LET x == running[d] IN
       /\ committed' \in {committed, committed \cup {x}}
       /\ gone' \in {gone, gone \cup {d}}
       /\ \/ d \in gone'
          \/ told[x] # {}
          \/ x \in committed' /\ "success" \notin listens[x]
          \/ x \notin committed' /\ "error" \notin listens[x]
       /\ told[x] = {"success"} => committed' = committed
  /\ running' = [running EXCEPT ![d] = None]
  /\ UNCHANGED <<pending, listens, told>>

Leave(D) ==
  /\ gone' = gone \cup D
  /\ UNCHANGED <<pending, running, listens, told, committed>>

Next ==
  \/ \E d \in Databases :
       \/ \E x \in Transactions : Ask(d, x)
       \/ Begin(d) \/ Refuse(d) \/ Commit(d) \/ End(d)
       \/ \E o \in Outcomes : Tell(d, o)
  \/ \E D \in SUBSET Databases : Leave(D)

Spec == Init /\ [][Next]_vars
=============================================================================
