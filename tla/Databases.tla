------------------------------ MODULE Databases ------------------------------
(***************************************************************************)
(* The client-side databases of a document: SQLTransaction.cpp,            *)
(* Database.cpp, DatabaseThread.cpp and DatabaseTask.cpp of                *)
(* WebCore/storage, and SQLiteTransaction.cpp.                             *)
(*                                                                         *)
(* A transaction is handed to and fro between two threads.  Its            *)
(* m_nextStep says what comes next; the database thread has a queue of     *)
(* tasks and the main thread a queue of callbacks.  A step of the database *)
(* thread is three actions here, because the main thread may already run   *)
(* the callback a step has scheduled, or stop the databases, while the     *)
(* step is still to return: the check for a stopped database, the step,    *)
(* and the reading of m_nextStep after it.                                 *)
(*                                                                         *)
(* The callbacks of the page are open: any code may run in them that is    *)
(* allowed to run there.  They do not nest.                                *)
(***************************************************************************)
EXTENDS Integers, FiniteSetsExt, SequencesExt, Subsequences

CONSTANTS
  Databases,
  Transactions,
  Statements,     \* the kinds of statement a page executes
  Requests,       \* the kinds of transaction it asks for
  None,
  Exec,           \* bound: statements of all transactions together
  MaxRaises,      \* bound: times the quota is raised for a statement
  MayDelete       \* whether the user deletes databases

ASSUME DatabasesAssumption ==
  /\ IsFiniteSet(Databases) /\ IsFiniteSet(Transactions)
  /\ Exec \in Nat /\ MaxRaises \in Nat
  /\ MayDelete \in BOOLEAN
  /\ Statements \subseteq [cb : BOOLEAN, ecb : BOOLEAN]
  /\ Requests \subseteq [listens : SUBSET {"error", "success"}, wrapper : BOOLEAN]
  /\ None \notin Databases \cup Transactions
  /\ \A L \in SUBSET {"error", "success"} : L # None
  /\ None \notin {"open", "run", "cleanSuccess", "cleanError",
                  "transaction", "statement", "quota", "error", "success"}
  /\ None \notin [cb : BOOLEAN, ecb : BOOLEAN, raises : 0 .. MaxRaises, handled : BOOLEAN,
                  err : {"no", "fault", "quota"}]

VARIABLES
  tx,           \* the transactions
  waiting,      \* m_transactionQueue of each database
  db,           \* the databases
  tasks,        \* m_queue of the database thread
  killed,       \* whether that queue was killed
  thread,       \* the task the database thread performs, and how far it is
  callbacks,    \* functionQueue() of the main thread
  main,         \* the callback of the page that runs
  sync,         \* the task the main thread waits for
  committed     \* history: transactions that SQLite committed

vars == <<tx, waiting, db, tasks, killed, thread, callbacks, main, sync, committed>>

ThreadSteps == {"open", "run", "cleanSuccess", "cleanError"}
MainSteps == {"transaction", "statement", "quota", "error", "success"}

Init ==
  /\ tx = [x \in Transactions |->
             [db |-> None, next |-> None, todo |-> <<>>, cur |-> None, sqlite |-> "none",
              retry |-> FALSE, commits |-> TRUE, onError |-> FALSE, onSuccess |-> FALSE,
              wrapper |-> FALSE, executed |-> 0, listens |-> None, told |-> {}]]
  /\ waiting = [d \in Databases |-> <<>>]
  /\ db = [d \in Databases |->
             [sqlite |-> "none", busy |-> FALSE, stopped |-> FALSE, deleted |-> FALSE,
              spoiled |-> FALSE]]
  /\ tasks = <<>>
  /\ killed = FALSE
  /\ thread = [pc |-> "idle", task |-> None]
  /\ callbacks = <<>>
  /\ main = [at |-> "idle", x |-> None]
  /\ sync = None
  /\ committed = {}

-----------------------------------------------------------------------------
TransactionTask(d, x) == [kind |-> "transaction", x |-> x, d |-> d]
SyncTask(kind, d) == [kind |-> kind, x |-> None, d |-> d]

(* scheduleTransactionStep, after r became the state of x.                 *)
ToThread(x, r, step) ==
  /\ tx' = [tx EXCEPT ![x] = [r EXCEPT !.next = step]]
  /\ tasks' = Append(tasks, TransactionTask(r.db, x))
  /\ UNCHANGED callbacks

(* scheduleTransactionCallback                                             *)
ToMain(x, r, step) ==
  /\ tx' = [tx EXCEPT ![x] = [r EXCEPT !.next = step]]
  /\ callbacks' = Append(callbacks, x)
  /\ UNCHANGED tasks

Stays(x, r) ==
  /\ tx' = [tx EXCEPT ![x] = r]
  /\ UNCHANGED <<tasks, callbacks>>

(* SQLiteTransaction::commit: the outcomes for the state r of x, with the  *)
(* state of its database and whether SQLite did commit.  A COMMIT that     *)
(* fails is taken for done; SQLite has rolled back or is still in it.      *)
commit(d, r) ==
  IF r.sqlite # "on" THEN {[r |-> r, b |-> db[d], ok |-> FALSE]}
  ELSE LET off == [r EXCEPT !.sqlite = "off"] IN
       IF db[d].sqlite # "begun" THEN {[r |-> off, b |-> db[d], ok |-> FALSE]}
       ELSE {[r |-> off, b |-> [db[d] EXCEPT !.sqlite = "open"], ok |-> TRUE]}
            \cup {[r |-> off, b |-> [db[d] EXCEPT !.sqlite = s, !.spoiled = TRUE], ok |-> FALSE] :
                    s \in {"open", "begun"}}

(* SQLiteTransaction::rollback, and what its destructor does.              *)
rolledBack(d) == IF db[d].sqlite = "begun" THEN [db[d] EXCEPT !.sqlite = "open"] ELSE db[d]

(* checkAndHandleClosedDatabase                                            *)
closedChecked(r) ==
  IF ~db[r.db].stopped THEN r
  ELSE [r EXCEPT !.todo = <<>>, !.next = None, !.sqlite = "none"]

(* scheduleTransaction, w being the queue.  The queue of a stopped         *)
(* database is killed and gives nothing.                                   *)
scheduleTransaction(d, w) ==
  IF ~db[d].stopped /\ w # <<>>
  THEN /\ waiting' = [waiting EXCEPT ![d] = Tail(w)]
       /\ db' = [db EXCEPT ![d].busy = TRUE]
       /\ tasks' = Append(tasks, TransactionTask(d, Head(w)))
  ELSE /\ waiting' = [waiting EXCEPT ![d] = w]
       /\ db' = [db EXCEPT ![d].busy = FALSE]
       /\ UNCHANGED tasks

-----------------------------------------------------------------------------
(* Steps of the database thread.                                           *)

Performing(x, pc) == thread.pc = pc /\ thread.task.kind = "transaction" /\ thread.task.x = x

(* waitForMessage                                                          *)
TakeTask ==
  /\ thread.pc = "idle" /\ ~killed /\ tasks # <<>>
  /\ thread' = [pc |-> "check", task |-> Head(tasks)]
  /\ tasks' = Tail(tasks)
  /\ UNCHANGED <<tx, waiting, db, killed, callbacks, main, sync, committed>>

ThreadEnds ==
  /\ thread.pc = "idle" /\ killed
  /\ thread' = [pc |-> "ended", task |-> None]
  /\ UNCHANGED <<tx, waiting, db, tasks, killed, callbacks, main, sync, committed>>

PerformOpen(opens) ==
  /\ thread.pc = "check" /\ thread.task.kind = "open"
  /\ db' = [db EXCEPT ![thread.task.d].sqlite = IF opens THEN "open" ELSE "failed"]
  /\ sync' = None
  /\ thread' = [pc |-> "idle", task |-> None]
  /\ UNCHANGED <<tx, waiting, tasks, killed, callbacks, main, committed>>

PerformClose ==
  /\ thread.pc = "check" /\ thread.task.kind = "close"
  /\ db' = [db EXCEPT ![thread.task.d].sqlite = "closed"]
  /\ sync' = None
  /\ thread' = [pc |-> "idle", task |-> None]
  /\ UNCHANGED <<tx, waiting, tasks, killed, callbacks, main, committed>>

CheckClosed(x) ==
  /\ Performing(x, "check")
  /\ LET r == closedChecked(tx[x]) IN
       /\ Stays(x, r)
       /\ thread' = [thread EXCEPT !.pc = IF r.next = None THEN "return" ELSE "step"]
  /\ UNCHANGED <<waiting, db, killed, main, sync, committed>>

(* The frame of a step: what its disjuncts leave alone.                    *)
InStep(x, step) == Performing(x, "step") /\ tx[x].next = step
Returns == thread' = [thread EXCEPT !.pc = "return"]
StepFrame == UNCHANGED <<waiting, killed, main, sync>>

(* Mutant: the callbacks are told, the transaction is left open.           *)
cleanupAfterTransactionErrorCallback_LeftOpen(x, r) ==
  \E o \in IF r.commits THEN commit(r.db, r) ELSE {[r |-> r, b |-> db[r.db], ok |-> FALSE]} :
     /\ db' = [db EXCEPT ![r.db] = o.b]
     /\ committed' = IF o.ok THEN committed \cup {x} ELSE committed
     /\ Stays(x, [o.r EXCEPT !.sqlite = "none", !.todo = <<>>, !.next = None, !.onError = FALSE])

(* Mutant: the statements still pending are kept.                          *)
cleanupAfterTransactionErrorCallback_KeepsQueue(x, r) ==
  \E o \in IF r.commits THEN commit(r.db, r) ELSE {[r |-> r, b |-> db[r.db], ok |-> FALSE]} :
     /\ db' = [db EXCEPT ![r.db] = IF o.r.sqlite = "on" THEN rolledBack(r.db) ELSE o.b]
     /\ committed' = IF o.ok THEN committed \cup {x} ELSE committed
     /\ Stays(x, [o.r EXCEPT !.sqlite = "none", !.next = None, !.onError = FALSE])

cleanupAfterTransactionErrorCallback(x, r) ==
  \E o \in IF r.commits THEN commit(r.db, r) ELSE {[r |-> r, b |-> db[r.db], ok |-> FALSE]} :
     /\ db' = [db EXCEPT ![r.db] = IF o.r.sqlite = "on" THEN rolledBack(r.db) ELSE o.b]
     /\ committed' = IF o.ok THEN committed \cup {x} ELSE committed
     /\ Stays(x, [o.r EXCEPT !.sqlite = "none", !.todo = <<>>, !.next = None, !.onError = FALSE])

(* handleTransactionError(false): on the database thread.                  *)
handleTransactionError(x, r) ==
  \/ /\ r.onError
     /\ ToMain(x, r, "error")
     /\ UNCHANGED <<db, committed>>
  \/ /\ ~r.onError
     /\ cleanupAfterTransactionErrorCallback(x, [r EXCEPT !.commits = FALSE])

(* The user deleted the database, or BEGIN fails (inside a transaction     *)
(* that is still open it does), or the preflight of changeVersion, and the *)
(* destructor of the SQLiteTransaction rolls back.                         *)
openTransactionAndPreflight(x) ==
  LET d == tx[x].db IN
  /\ InStep(x, "open")
  /\ \/ handleTransactionError(x, tx[x])
     \/ /\ ~db[d].deleted /\ db[d].sqlite = "open"
        /\ db' = [db EXCEPT ![d].sqlite = "begun"]
        /\ ToMain(x, [tx[x] EXCEPT !.sqlite = "on"], "transaction")
        /\ UNCHANGED committed
  /\ Returns /\ StepFrame

QuotaFailed(c) == IF c = None THEN FALSE ELSE c.err = "quota"

(* What SQLStatement::execute can make of a statement.                     *)
Executed(d, c) ==
  IF c.err = "fault" \/ db[d].sqlite # "begun" THEN {"fault"} ELSE {"no", "fault", "quota"}

(* Mutant: the statement has some callback, so it is called.               *)
handleCurrentStatementError_AnyCallback(x, r) ==
  \/ /\ r.cur.ecb \/ r.cur.cb
     /\ ToMain(x, r, "statement")
     /\ UNCHANGED <<db, committed>>
  \/ /\ ~r.cur.ecb /\ ~r.cur.cb
     /\ handleTransactionError(x, r)

handleCurrentStatementError(x, r) ==
  \/ /\ r.cur.ecb
     /\ ToMain(x, r, "statement")
     /\ UNCHANGED <<db, committed>>
  \/ /\ ~r.cur.ecb
     /\ handleTransactionError(x, r)

(* One round of the loop of runStatements: the statement it is about ...   *)
RunQuotaFailed(x) ==
  /\ InStep(x, "run") /\ ~tx[x].retry /\ QuotaFailed(tx[x].cur)
  /\ handleCurrentStatementError(x, tx[x])
  /\ Returns /\ StepFrame

getNextStatement(r) ==
  IF r.todo = <<>> THEN [r EXCEPT !.cur = None]
  ELSE [r EXCEPT !.cur = Head(r.todo), !.todo = Tail(r.todo)]

Advanced(r) == IF r.retry THEN [r EXCEPT !.retry = FALSE] ELSE getNextStatement(r)

(* ... and what becomes of it.                                             *)
runCurrentStatement(x) ==
  /\ InStep(x, "run")
  /\ tx[x].retry \/ ~QuotaFailed(tx[x].cur)
  /\ LET next == Advanced(tx[x]) IN
       /\ next.cur # None
       /\ \E e \in Executed(next.db, next.cur) :
            LET r == [next EXCEPT !.cur.err = e] IN
            \/ /\ e = "no" /\ r.cur.cb
               /\ ToMain(x, r, "statement") /\ Returns
               /\ UNCHANGED <<db, committed>>
            \/ /\ e = "no" /\ ~r.cur.cb
               /\ Stays(x, r)
               /\ UNCHANGED <<thread, db, committed>>
            \/ /\ e = "quota"
               /\ ToMain(x, r, "quota") /\ Returns
               /\ UNCHANGED <<db, committed>>
            \/ /\ e = "fault"
               /\ handleCurrentStatementError(x, r) /\ Returns
  /\ StepFrame

(* The postflight of changeVersion may fail.                               *)
postflightAndCommit(x) ==
  /\ InStep(x, "run")
  /\ tx[x].retry \/ ~QuotaFailed(tx[x].cur)
  /\ LET r == Advanced(tx[x]) IN
       /\ r.cur = None
       /\ \/ r.wrapper /\ handleTransactionError(x, r)
          \/ \E o \in commit(r.db, r) :
               LET done == [o.r EXCEPT !.onError = FALSE] IN
               /\ db' = [db EXCEPT ![r.db] = o.b]
               /\ committed' = IF o.ok THEN committed \cup {x} ELSE committed
               /\ \/ r.onSuccess /\ ToMain(x, done, "success")
                  \/ ~r.onSuccess /\ Stays(x, [done EXCEPT !.next = None])
  /\ Returns /\ StepFrame

cleanupAfterSuccessCallback(x) ==
  /\ InStep(x, "cleanSuccess")
  /\ Stays(x, [tx[x] EXCEPT !.next = None])
  /\ Returns /\ StepFrame
  /\ UNCHANGED <<db, committed>>

CleanupError(x) ==
  /\ InStep(x, "cleanError")
  /\ cleanupAfterTransactionErrorCallback(x, tx[x])
  /\ Returns /\ StepFrame

(* Mutant: the next transaction starts after every step.                   *)
StepReturns_MovesOn(x) ==
  /\ Performing(x, "return")
  /\ thread' = [pc |-> "idle", task |-> None]
  /\ scheduleTransaction(tx[x].db, waiting[tx[x].db])
  /\ UNCHANGED <<tx, killed, callbacks, main, sync, committed>>

(* Nothing reads these fields of a transaction that is over.               *)
Over(r) ==
  [r EXCEPT !.cur = None, !.sqlite = "none", !.retry = FALSE, !.commits = TRUE,
            !.onError = FALSE, !.onSuccess = FALSE, !.wrapper = FALSE]

(* performNextStep reads m_nextStep again, to see whether it is done.      *)
StepReturns(x) ==
  /\ Performing(x, "return")
  /\ thread' = [pc |-> "idle", task |-> None]
  /\ \/ /\ tx[x].next = None
        /\ scheduleTransaction(tx[x].db, waiting[tx[x].db])
        /\ tx' = [tx EXCEPT ![x] = Over(@)]
     \/ /\ tx[x].next # None
        /\ UNCHANGED <<tx, waiting, db, tasks>>
  /\ UNCHANGED <<killed, callbacks, main, sync, committed>>

-----------------------------------------------------------------------------
(* The main thread.                                                        *)

Idle == main.at = "idle" /\ sync = None
Code == sync = None      \* code of the page, or around it, may run
MainFrame == UNCHANGED <<waiting, db, killed, thread, sync, committed>>

(* openDatabase waits for the database thread.                             *)
openDatabase(d) ==
  /\ Code /\ db[d].sqlite = "none"
  /\ db' = [db EXCEPT ![d].sqlite = "opening"]
  /\ tasks' = <<SyncTask("open", d)>> \o tasks
  /\ sync' = d
  /\ UNCHANGED <<tx, waiting, killed, thread, callbacks, main, committed>>

IsOpened(d) == db[d].sqlite \in {"open", "begun", "closed"}

(* transaction and changeVersion: x is a new object.                       *)
Fresh == {x \in Transactions : tx[x].listens = None}

transaction(d, q) ==
  /\ Code /\ IsOpened(d) /\ Fresh # {}
  /\ LET x == CHOOSE y \in Fresh : TRUE
         w == Append(waiting[d], x) IN
       /\ tx' = [tx EXCEPT ![x] = [tx[x] EXCEPT
                   !.db = d, !.next = "open", !.wrapper = q.wrapper, !.listens = q.listens,
                   !.onError = "error" \in q.listens, !.onSuccess = "success" \in q.listens]]
       /\ IF db[d].busy
          THEN waiting' = [waiting EXCEPT ![d] = w] /\ UNCHANGED <<db, tasks>>
          ELSE scheduleTransaction(d, w)
  /\ UNCHANGED <<killed, thread, callbacks, main, sync, committed>>

(* The callbacks that may execute statements.                              *)
executeSQL(x, s) ==
  /\ Code /\ main.x = x /\ main.at \in {"transaction", "statement"}
  /\ ~db[tx[x].db].stopped
  /\ MapThenSumSet(LAMBDA y : tx[y].executed, Transactions) < Exec
  /\ tx' = [tx EXCEPT ![x].executed = @ + 1,
                      ![x].todo = Append(@, [cb |-> s.cb, ecb |-> s.ecb, raises |-> 0, handled |-> FALSE,
                            err |-> IF db[tx[x].db].deleted THEN "fault" ELSE "no"])]
  /\ UNCHANGED <<tasks, callbacks, main>> /\ MainFrame

-----------------------------------------------------------------------------
(* performPendingCallback: the callback of a stopped database goes         *)
(* nowhere.                                                                *)
Dispatched(x) == Idle /\ callbacks # <<>> /\ Head(callbacks) = x

DropCallback(x) ==
  /\ Dispatched(x) /\ db[tx[x].db].stopped
  /\ tx' = [tx EXCEPT ![x] = closedChecked(@)]
  /\ callbacks' = Tail(callbacks)
  /\ UNCHANGED <<tasks, main>> /\ MainFrame

(* The page's function is called, if it gave one.                          *)
BeginCallback(x) ==
  /\ Dispatched(x) /\ ~db[tx[x].db].stopped
  /\ tx[x].next \in {"transaction", "statement", "error", "success"}
  /\ tx' = IF tx[x].next \in {"error", "success"}
           THEN [tx EXCEPT ![x].told = @ \cup {tx[x].next}] ELSE tx
  /\ callbacks' = Tail(callbacks)
  /\ main' = [at |-> tx[x].next, x |-> x]
  /\ UNCHANGED tasks /\ MainFrame

Returning(x, at) == Code /\ main = [at |-> at, x |-> x]
MainIdle == main' = [at |-> "idle", x |-> None]

(* handleTransactionError(true), and what deliverTransactionCallback does: *)
(* the error callback runs at once.                                        *)
ErrorInCallback(x, r) ==
  \/ /\ r.onError
     /\ main' = [at |-> "error", x |-> x]
     /\ Stays(x, [r EXCEPT !.told = @ \cup {"error"}])
  \/ /\ ~r.onError
     /\ ToThread(x, [r EXCEPT !.commits = FALSE], "cleanError")
     /\ MainIdle

EndTransactionCallback(x, raised) ==
  /\ Returning(x, "transaction")
  /\ \/ raised /\ ErrorInCallback(x, tx[x])
     \/ ~raised /\ ToThread(x, tx[x], "run") /\ MainIdle
  /\ MainFrame

(* performCallback releases both callbacks.                                *)
EndStatementCallback(x, failed) ==
  LET c == tx[x].cur
      r == [tx[x] EXCEPT !.cur = [c EXCEPT !.cb = FALSE, !.ecb = FALSE,
                                           !.handled = c.err # "no" /\ ~failed]] IN
  /\ Returning(x, "statement")
  /\ \/ failed /\ ErrorInCallback(x, r)
     \/ ~failed /\ ToThread(x, r, "run") /\ MainIdle
  /\ MainFrame

EndErrorCallback(x, keeps) ==
  /\ Returning(x, "error")
  /\ ToThread(x, [tx[x] EXCEPT !.commits = @ /\ keeps], "cleanError")
  /\ MainIdle /\ MainFrame

(* Mutant: the success callback was the last there was to do.              *)
EndSuccessCallback_Last(x) ==
  /\ Returning(x, "success")
  /\ Stays(x, [tx[x] EXCEPT !.onSuccess = FALSE, !.next = None])
  /\ MainIdle /\ MainFrame

EndSuccessCallback(x) ==
  /\ Returning(x, "success")
  /\ ToThread(x, [tx[x] EXCEPT !.onSuccess = FALSE], "cleanSuccess")
  /\ MainIdle /\ MainFrame

deliverQuotaIncreaseCallback(x, raise) ==
  /\ Dispatched(x) /\ ~db[tx[x].db].stopped /\ tx[x].next = "quota"
  /\ raise => tx[x].cur.raises < MaxRaises
  /\ callbacks' = Tail(callbacks)
  /\ tx' = [tx EXCEPT ![x] = [tx[x] EXCEPT !.next = "run", !.retry = raise,
                                           !.cur.raises = IF raise THEN @ + 1 ELSE @]]
  /\ tasks' = Append(tasks, TransactionTask(tx[x].db, x))
  /\ UNCHANGED main /\ MainFrame

-----------------------------------------------------------------------------
(* Tasks are unscheduled, the others keep their order.                     *)
TasksWithout(D) == AtPlaces(tasks, {i \in 1..Len(tasks) : tasks[i].d \notin D})

(* Document::stopDatabases and Database::stop: of every opened database.   *)
Opened == {d \in Databases : db[d].sqlite \notin {"none", "failed"}}

stopDatabases ==
  /\ Code /\ ~killed
  /\ db' = [d \in Databases |->
              IF d \in Opened THEN [db[d] EXCEPT !.stopped = TRUE, !.busy = FALSE] ELSE db[d]]
  /\ tasks' = TasksWithout(Opened)
  /\ killed' = TRUE
  /\ UNCHANGED <<tx, waiting, thread, callbacks, main, sync, committed>>

(* Mutant: the tasks are unscheduled after the closing task is queued.     *)
markAsDeletedAndClose_LateUnschedule(d) ==
  /\ MayDelete /\ Idle /\ IsOpened(d) /\ ~db[d].deleted
  /\ db' = [db EXCEPT ![d].deleted = TRUE]
  /\ IF killed THEN UNCHANGED <<tasks, sync>>
     ELSE tasks' = TasksWithout({d}) /\ sync' = d
  /\ UNCHANGED <<tx, waiting, killed, thread, callbacks, main, committed>>

markAsDeletedAndClose(d) ==
  /\ MayDelete /\ Idle /\ IsOpened(d) /\ ~db[d].deleted
  /\ db' = [db EXCEPT ![d].deleted = TRUE]
  /\ IF killed THEN UNCHANGED <<tasks, sync>>
     ELSE tasks' = <<SyncTask("close", d)>> \o TasksWithout({d}) /\ sync' = d
  /\ UNCHANGED <<tx, waiting, killed, thread, callbacks, main, committed>>

-----------------------------------------------------------------------------
ThreadStep(x) ==
  \/ CheckClosed(x) \/ openTransactionAndPreflight(x) \/ RunQuotaFailed(x)
  \/ runCurrentStatement(x) \/ postflightAndCommit(x)
  \/ cleanupAfterSuccessCallback(x) \/ CleanupError(x) \/ StepReturns(x)

DatabaseThread ==
  \/ TakeTask \/ ThreadEnds \/ PerformClose
  \/ \E opens \in BOOLEAN : PerformOpen(opens)
  \/ \E x \in Transactions : ThreadStep(x)

Dispatch ==
  \E x \in Transactions :
    \/ DropCallback(x) \/ BeginCallback(x)
    \/ \E raise \in BOOLEAN : deliverQuotaIncreaseCallback(x, raise)

CallbackReturns ==
  \E x \in Transactions :
    \/ EndSuccessCallback(x)
    \/ \E b \in BOOLEAN :
         EndTransactionCallback(x, b) \/ EndStatementCallback(x, b) \/ EndErrorCallback(x, b)

Page ==
  \/ stopDatabases
  \/ \E d \in Databases :
       \/ openDatabase(d) \/ markAsDeletedAndClose(d)
       \/ \E q \in Requests : transaction(d, q)
  \/ \E x \in Transactions, s \in Statements : executeSQL(x, s)

Next == DatabaseThread \/ Dispatch \/ CallbackReturns \/ Page

Spec == Init /\ [][Next]_vars

(* The database thread runs, the main thread dispatches its functions, and *)
(* a function of the page returns.                                         *)
Fairness ==
  /\ WF_vars(DatabaseThread)
  /\ WF_vars(Dispatch)
  /\ WF_vars(CallbackReturns)

FairSpec == Spec /\ Fairness

-----------------------------------------------------------------------------
(* Properties.                                                             *)

Statement == [cb : BOOLEAN, ecb : BOOLEAN, raises : 0 .. MaxRaises, handled : BOOLEAN,
              err : {"no", "fault", "quota"}]

Transaction ==
  [db : Databases \cup {None}, next : ThreadSteps \cup MainSteps \cup {None},
   todo : Seq(Statement), cur : Statement \cup {None}, sqlite : {"none", "on", "off"},
   retry : BOOLEAN, commits : BOOLEAN, onError : BOOLEAN, onSuccess : BOOLEAN,
   wrapper : BOOLEAN, executed : Nat,
   listens : (SUBSET {"error", "success"}) \cup {None}, told : SUBSET {"error", "success"}]

Database ==
  [sqlite : {"none", "opening", "failed", "open", "begun", "closed"}, busy : BOOLEAN,
   stopped : BOOLEAN, deleted : BOOLEAN, spoiled : BOOLEAN]

Task == [kind : {"transaction", "open", "close"}, x : Transactions \cup {None}, d : Databases]

(* The types; a transaction that is over has no statement left, as the     *)
(* comment of cleanupAfterTransactionErrorCallback has it.                 *)
TypeOK ==
  /\ tx \in [Transactions -> Transaction]
  /\ \A x \in Transactions : tx[x].next = None => tx[x].todo = <<>>
  /\ waiting \in [Databases -> Seq(Transactions)]
  /\ db \in [Databases -> Database]
  /\ tasks \in Seq(Task)
  /\ killed \in BOOLEAN
  /\ thread \in [pc : {"idle", "check", "step", "return", "ended"}, task : Task \cup {None}]
  /\ callbacks \in Seq(Transactions)
  /\ main \in [at : {"idle"} \cup MainSteps, x : Transactions \cup {None}]
  /\ sync \in Databases \cup {None}
  /\ committed \subseteq Transactions

(* A transaction is with one of the two threads at a time: it is scheduled *)
(* once, and what is scheduled is a step for the thread that will run it   *)
(* (the ASSERTs of performNextStep and performPendingCallback).            *)
StepsMatch ==
  \A x \in Transactions :
    /\ Cardinality({i \in DOMAIN tasks : tasks[i].x = x})
       + Cardinality({i \in DOMAIN callbacks : callbacks[i] = x})
       + (IF Performing(x, "check") \/ Performing(x, "step") THEN 1 ELSE 0)
       + (IF main.x = x THEN 1 ELSE 0) <= 1
    /\ (\E i \in DOMAIN tasks : tasks[i].x = x) \/ Performing(x, "check")
         => tx[x].next \in ThreadSteps
    /\ x \in Range(callbacks) => tx[x].next \in MainSteps
    /\ main = [at |-> "statement", x |-> x] /\ tx[x].cur.err # "no" => tx[x].cur.ecb

(* A database has one transaction of SQLite open at most, it belongs to    *)
(* one SQLTransaction, and nothing that is over leaves it open, which      *)
(* would keep every later one from beginning; but for a failed COMMIT.     *)
NoneLeftOpen ==
  \A d \in Databases :
    LET on == {x \in Transactions : tx[x].db = d /\ tx[x].sqlite = "on"} IN
    /\ Cardinality(on) <= 1
    /\ db[d].sqlite = "begun" /\ ~db[d].stopped /\ ~db[d].spoiled => on # {}

(* Whatever a step, a callback or an error does, a transaction comes to    *)
(* its end, while its document and its database are there.                 *)
EveryTransactionEnds ==
  \A x \in Transactions : \A d \in Databases :
    (tx[x].db = d) ~> (tx[x].next = None \/ db[d].stopped \/ db[d].deleted)

(* The main thread waits for the database thread to open or close a        *)
(* database, and does so in vain only if that thread was told to end.      *)
MainThreadReturns == (sync # None /\ ~killed) ~> (sync = None)

(* The two threads implement what is promised, DatabaseService, to which   *)
(* a transaction begins when its opening step went well or goes to the     *)
(* page as an error, and a database is gone also when a COMMIT of it       *)
(* failed.                                                                 *)
Begun(d) == {x \in Transactions : tx[x].db = d /\ tx[x].next \notin {None, "open"}}
Scheduled(d) ==
  {x \in Transactions : tx[x].db = d /\ tx[x].next = "open" /\ x \notin Range(waiting[d])}
TheOne(S) == CHOOSE x \in S : TRUE
Gone == {d \in Databases : db[d].stopped \/ db[d].deleted \/ db[d].spoiled}

Pending(d) ==
  IF Scheduled(d) = {} THEN waiting[d] ELSE <<TheOne(Scheduled(d))>> \o waiting[d]
Running(d) == IF Begun(d) = {} THEN None ELSE TheOne(Begun(d))

Service == INSTANCE DatabaseService WITH
  pending <- [d \in Databases |-> Pending(d)],
  running <- [d \in Databases |-> Running(d)],
  listens <- [x \in Transactions |-> tx[x].listens],
  told <- [x \in Transactions |-> tx[x].told],
  committed <- committed,
  gone <- Gone

ServesPage == Service!Spec

(* Documentation against code.                                             *)

(* SQLTransaction.cpp:369: after a statement's callback went well the code *)
(* will "continue to loop through the statement queue": an error that the  *)
(* page has handled is not the error of the transaction.                   *)
HandledErrorsAreOver ==
  \A x \in Transactions :
    Performing(x, "return") /\ tx[x].cur # None /\ tx[x].cur.handled => tx[x].next # "error"
=============================================================================
