---------------------------- MODULE LocalStorage -----------------------------
(***************************************************************************)
(* The local storage of an origin: LocalStorageArea.cpp of WebCore/storage *)
(* with its StorageMap, the LocalStorage it belongs to and their thread.   *)
(*                                                                         *)
(* The main thread changes a map in memory; a timer moves the changes to   *)
(* m_itemsPendingSync, and the thread writes them to SQLite row by row.    *)
(* When the area is created the thread imports the rows it finds.  The     *)
(* browser may end at any moment, and what is left then is the disk.       *)
(***************************************************************************)
EXTENDS Integers, SequencesExt

CONSTANTS
  Keys,
  None,
  MaxWrites,     \* bound: calls of setItem, each with a new value
  MaxTroubles    \* bound: failures of SQLite and sudden ends of the browser

ASSUME StorageAssumption ==
  /\ None \notin Nat
  /\ {MaxWrites, MaxTroubles} \subseteq Nat

VARIABLES
  area,       \* what the main thread has: the map, m_changedItems, the timer
  sync,       \* what it shares under m_syncLock
  queue,      \* m_queue of the thread
  thread,     \* what the thread does, and its database
  main,       \* whether the main thread runs, and what it waits for
  disk,       \* the rows of ItemTable
  used,       \* how much of the bounds is used up
  changes     \* history: of each key, the changes that are not on disk yet

vars == <<area, sync, queue, thread, main, disk, used, changes>>

(* A value is the number of the call of setItem that stores it; 0 is the   *)
(* null string, and Stored what is on disk from before.                    *)
Null == 0
Stored == MaxWrites + 1
Values == Null..Stored
Nulls == [k \in Keys |-> Null]
NoItems == [k \in Keys |-> None]
NoChanges == [k \in Keys |-> <<>>]

(* ASSERT(!m_finalSyncScheduled) is kept by the guard Running: the browser *)
(* ends after LocalStorage::close.                                         *)
Started ==
  [area |-> [map |-> Nulls, imported |-> FALSE, changed |-> NoItems, cleared |-> FALSE,
             timer |-> FALSE, early |-> {}],
   sync |-> [pending |-> NoItems, clear |-> FALSE, scheduled |-> FALSE],
   thread |-> [at |-> "waiting", open |-> FALSE, todo |-> {}, items |-> NoItems,
               clear |-> FALSE]]

(* The area is created at once; scheduleImport.                            *)
Init ==
  /\ area = Started.area /\ sync = Started.sync /\ thread = Started.thread
  /\ queue = <<"import">>
  /\ main = "running"
  /\ disk \in [Keys -> {Null, Stored}]
  /\ used = [writes |-> 0, faults |-> 0, restarts |-> 0]
  /\ changes = NoChanges

-----------------------------------------------------------------------------
Announced(k) == IF changes[k] = <<>> THEN disk[k] ELSE Last(changes[k])
Announce(k, v) == IF Announced(k) = v THEN changes[k] ELSE Append(changes[k], v)

(* The changes of k that are left when the disk has v.                     *)
Left(k, v) ==
  IF v = disk[k] \/ ~Contains(changes[k], v) THEN changes[k]
  ELSE LET i == SelectInSeq(changes[k], LAMBDA w : w = v)
       IN SubSeq(changes[k], i + 1, Len(changes[k]))

(* The main thread.  Before the import is complete, m_importLock is held   *)
(* while an item is changed, and while the page's storage events are       *)
(* dispatched; the thread holds it from the first item it imports to the   *)
(* last.  A page that reads the storage in such an event waits with the    *)
(* lock held twice, of which wait() gives up one: it is locked out.  (A    *)
(* nested setItem passes the recursive mutex of Windows, and is the next   *)
(* SetItem here; a mutex that is not recursive would lock it out as well.) *)
Running == main = "running"
MayLock == area.imported \/ thread.at # "importing"
EventsDispatched == main' \in IF area.imported THEN {"running"} ELSE {"running", "locked out"}

(* scheduleItemForSync *)
Changed(k, v) == [area EXCEPT !.map[k] = v, !.changed[k] = v, !.timer = TRUE]

(* History: of the items that are removed before they are imported.        *)
Early(keys) == IF area.imported THEN {} ELSE keys

SetItem(k) ==
  LET v == used.writes + 1 IN
  /\ Running /\ MayLock
  /\ v <= MaxWrites
  /\ area' = [Changed(k, v) EXCEPT !.early = @ \ {k}]
  /\ changes' = [changes EXCEPT ![k] = Announce(k, v)]
  /\ used' = [used EXCEPT !.writes = v]
  /\ EventsDispatched
  /\ UNCHANGED <<sync, queue, thread, disk>>

(* An item that is not there is not noted as removed.                      *)
RemoveItem(k) ==
  /\ Running /\ MayLock
  /\ area.map[k] # Null
  /\ area' = [Changed(k, Null) EXCEPT !.early = @ \cup Early({k})]
  /\ changes' = [changes EXCEPT ![k] = Announce(k, Null)]
  /\ EventsDispatched
  /\ UNCHANGED <<sync, queue, thread, disk, used>>

(* clear does not lock: it replaces the map under an import.               *)
Clear ==
  /\ Running
  /\ area' = [area EXCEPT !.map = Nulls, !.changed = NoItems, !.cleared = TRUE, !.timer = TRUE,
                          !.early = @ \cup Early(Keys)]
  /\ changes' = [k \in Keys |-> Announce(k, Null)]
  /\ UNCHANGED <<sync, queue, thread, main, disk, used>>

(* length, key, and getItem of a key that is not in the map.               *)
Read ==
  /\ Running /\ ~area.imported /\ MayLock
  /\ main' = "reading"
  /\ UNCHANGED <<area, sync, queue, thread, disk, used, changes>>

ReadReturns ==
  /\ main = "reading" /\ area.imported
  /\ main' = "running"
  /\ UNCHANGED <<area, sync, queue, thread, disk, used, changes>>

(* syncTimerFired.  A timer that is stopped may have nothing to move.      *)
Moved ==
  /\ sync' = [pending |-> [k \in Keys |-> IF area.changed[k] # None THEN area.changed[k]
                                          ELSE IF area.cleared THEN None ELSE sync.pending[k]],
              clear |-> sync.clear \/ area.cleared,
              scheduled |-> TRUE]
  /\ area' = [area EXCEPT !.changed = NoItems, !.cleared = FALSE, !.timer = FALSE]

(* Mutant: m_syncScheduled is not looked at.                               *)
ScheduledSync_Always == <<"sync">>

ScheduledSync == IF sync.scheduled THEN <<>> ELSE <<"sync">>

SyncTimerFired ==
  /\ Running /\ area.timer
  /\ Moved
  /\ queue' = queue \o ScheduledSync
  /\ UNCHANGED <<thread, main, disk, used, changes>>

(* LocalStorage::close: scheduleFinalSync, and terminate waits.            *)
Close ==
  /\ Running
  /\ Moved
  /\ queue' = queue \o ScheduledSync \o <<"terminate">>
  /\ main' = "closing"
  /\ UNCHANGED <<thread, disk, used, changes>>

-----------------------------------------------------------------------------
(* The thread.                                                             *)

MayGoWrong == used.faults + used.restarts < MaxTroubles

Takes(task) == thread.at = "waiting" /\ queue # <<>> /\ Head(queue) = task
Fails == MayGoWrong /\ used' = [used EXCEPT !.faults = @ + 1]

(* Mutant: a database that does not open is not marked imported.           *)
PerformImport_NotMarked ==
  /\ Takes("import") /\ main # "locked out"
  /\ queue' = Tail(queue)
  /\ \/ /\ thread' = [thread EXCEPT !.at = "importing", !.open = TRUE,
                                    !.todo = {k \in Keys : disk[k] # Null}]
        /\ UNCHANGED <<area, used>>
     \/ Fails /\ UNCHANGED <<area, thread>>
  /\ UNCHANGED <<sync, main, disk, changes>>

(* performImport, up to m_importLock.  The database may not open, or may   *)
(* not be read; then the area is as good as imported.                      *)
PerformImport ==
  /\ Takes("import") /\ main # "locked out"
  /\ queue' = Tail(queue)
  /\ \/ /\ thread' = [thread EXCEPT !.at = "importing", !.open = TRUE,
                                    !.todo = {k \in Keys : disk[k] # Null}]
        /\ UNCHANGED <<area, used>>
     \/ /\ Fails
        /\ area' = [area EXCEPT !.imported = TRUE]
        /\ \E open \in BOOLEAN : thread' = [thread EXCEPT !.open = open]
  /\ UNCHANGED <<sync, main, disk, changes>>

(* Mutant: an imported item replaces the page's.                           *)
ImportItem_Replaces(k) ==
  /\ thread.at = "importing" /\ k \in thread.todo
  /\ area' = [area EXCEPT !.map[k] = disk[k]]
  /\ thread' = [thread EXCEPT !.todo = @ \ {k}]
  /\ UNCHANGED <<sync, queue, main, disk, used, changes>>

(* StorageMap::importItem leaves an item alone that is there already.      *)
ImportItem(k) ==
  /\ thread.at = "importing" /\ k \in thread.todo
  /\ area' = IF area.map[k] = Null THEN [area EXCEPT !.map[k] = disk[k]] ELSE area
  /\ thread' = [thread EXCEPT !.todo = @ \ {k}]
  /\ UNCHANGED <<sync, queue, main, disk, used, changes>>

ImportDone ==
  /\ thread.at = "importing" /\ thread.todo = {}
  /\ area' = [area EXCEPT !.imported = TRUE]
  /\ thread' = [thread EXCEPT !.at = "waiting"]
  /\ UNCHANGED <<sync, queue, main, disk, used, changes>>

(* Mutant: m_syncScheduled is not reset.                                   *)
PerformSync_StaysScheduled ==
  /\ Takes("sync")
  /\ queue' = Tail(queue)
  /\ IF thread.open
     THEN /\ thread' = [thread EXCEPT !.at = "writing", !.items = sync.pending, !.clear = sync.clear]
          /\ sync' = [sync EXCEPT !.pending = NoItems, !.clear = FALSE]
     ELSE UNCHANGED <<thread, sync>>
  /\ UNCHANGED <<area, main, disk, used, changes>>

(* performSync, up to the end of m_syncLock.                               *)
PerformSync ==
  /\ Takes("sync")
  /\ queue' = Tail(queue)
  /\ IF thread.open
     THEN /\ thread' = [thread EXCEPT !.at = "writing", !.items = sync.pending, !.clear = sync.clear]
          /\ sync' = [pending |-> NoItems, clear |-> FALSE, scheduled |-> FALSE]
     ELSE UNCHANGED <<thread, sync>>
  /\ UNCHANGED <<area, main, disk, used, changes>>

Synced == [thread EXCEPT !.at = "waiting", !.items = NoItems, !.clear = FALSE]

ClearItems ==
  /\ thread.at = "writing" /\ thread.clear
  /\ disk' = Nulls
  /\ changes' = [k \in Keys |-> Left(k, Null)]
  /\ thread' = [thread EXCEPT !.clear = FALSE]
  /\ UNCHANGED <<area, sync, queue, main, used>>

(* Mutant: items are written before the rows are cleared.                  *)
WriteItem_BeforeClear(k) ==
  /\ thread.at = "writing"
  /\ thread.items[k] # None
  /\ disk' = [disk EXCEPT ![k] = thread.items[k]]
  /\ changes' = [changes EXCEPT ![k] = Left(k, thread.items[k])]
  /\ thread' = [thread EXCEPT !.items[k] = None]
  /\ UNCHANGED <<area, sync, queue, main, used>>

WriteItem(k) ==
  /\ thread.at = "writing" /\ ~thread.clear
  /\ thread.items[k] # None
  /\ disk' = [disk EXCEPT ![k] = thread.items[k]]
  /\ changes' = [changes EXCEPT ![k] = Left(k, thread.items[k])]
  /\ thread' = [thread EXCEPT !.items[k] = None]
  /\ UNCHANGED <<area, sync, queue, main, used>>

(* A failing statement: what is left is not written, and not kept.         *)
SyncFails ==
  /\ thread.at = "writing"
  /\ Fails
  /\ thread' = Synced
  /\ UNCHANGED <<area, sync, queue, main, disk, changes>>

SyncDone ==
  /\ thread.at = "writing" /\ ~thread.clear /\ thread.items = NoItems
  /\ thread' = Synced
  /\ UNCHANGED <<area, sync, queue, main, disk, used, changes>>

PerformTerminate ==
  /\ Takes("terminate")
  /\ queue' = <<>>
  /\ thread' = [thread EXCEPT !.at = "ended"]
  /\ main' = "closed"
  /\ UNCHANGED <<area, sync, disk, used, changes>>

-----------------------------------------------------------------------------
(* The browser ends, closed or not, and starts again.                      *)
Restart ==
  /\ MayGoWrong
  /\ used' = [used EXCEPT !.restarts = @ + 1]
  /\ area' = Started.area /\ sync' = Started.sync /\ thread' = Started.thread
  /\ queue' = <<"import">>
  /\ main' = "running"
  /\ changes' = NoChanges
  /\ UNCHANGED disk

Thread ==
  \/ PerformImport \/ ImportDone \/ PerformSync \/ ClearItems \/ SyncFails \/ SyncDone
  \/ PerformTerminate
  \/ \E k \in Keys : ImportItem(k) \/ WriteItem(k)

Page ==
  \/ \E k \in Keys : SetItem(k) \/ RemoveItem(k)
  \/ Clear \/ Read \/ Close

Next == Thread \/ Page \/ ReadReturns \/ SyncTimerFired \/ Restart

(* The thread is scheduled, a condition that is signalled wakes, and the   *)
(* timer of an idle main thread fires.                                     *)
Fairness == WF_vars(Thread) /\ WF_vars(ReadReturns) /\ WF_vars(SyncTimerFired)

Spec == Init /\ [][Next]_vars /\ Fairness

-----------------------------------------------------------------------------
(* Properties.                                                             *)

Items == [Keys -> Values \cup {None}]

Areas == [map : [Keys -> Values], imported : BOOLEAN, changed : Items,
          cleared : BOOLEAN, timer : BOOLEAN, early : SUBSET Keys]
Syncs == [pending : Items, clear : BOOLEAN, scheduled : BOOLEAN]
Tasks == {"import", "sync", "terminate"}
Threads == [at : {"waiting", "importing", "writing", "ended"}, open : BOOLEAN,
            todo : SUBSET Keys, items : Items, clear : BOOLEAN]
Usage == [writes : 0..MaxWrites, faults : 0..MaxTroubles, restarts : 0..MaxTroubles]

(* Every variable has its type.                                            *)
TypeOK ==
  /\ area \in Areas
  /\ sync \in Syncs
  /\ queue \in Seq(Tasks)
  /\ thread \in Threads
  /\ main \in {"running", "locked out", "reading", "closing", "closed"}
  /\ disk \in [Keys -> Values]
  /\ used \in Usage
  /\ changes \in [Keys -> Seq(Values)]

(* A change is always in somebody's hands: what is in m_changedItems has a *)
(* timer that will move it, and what is pending one task, and only one,    *)
(* that will write it (m_syncScheduled), up to the moment the thread swaps *)
(* it out; so nothing waits for a next change to be written.               *)
ChangesAreScheduled ==
  /\ TypeOK
  /\ area.changed # NoItems \/ area.cleared => area.timer
  /\ sync.pending # NoItems \/ sync.clear => sync.scheduled
  /\ Cardinality({i \in DOMAIN queue : queue[i] = "sync"}) <= 1
  /\ sync.scheduled /\ main # "closed" =>
       Contains(queue, "sync") \/ (thread.at = "waiting" /\ ~thread.open)

(* After the import the page finds what it stored before the import and    *)
(* while it went on, and what was on disk of the rest.  (But an item that  *)
(* was removed or cleared before the import comes back with it.)           *)
MapIsCurrent ==
  area.imported /\ used.faults = 0 =>
    \A k \in Keys \ area.early : area.map[k] = Announced(k)

Service == INSTANCE StorageService WITH saved <- disk

(* What is on disk, at any moment the browser may end, is what the abstract*)
(* service allows: of every item a value it had, never an older one after a*)
(* newer, never none for an item that was not removed.                     *)
SavesInOrder == Service!Spec

(* The main thread does not wait for ever for the import or for the thread *)
(* to end, whatever fails.  ("locked out" is outside: there the main thread*)
(* waits for itself.)                                                      *)
MainThreadReturns == main \in {"reading", "closing"} ~> main \in {"running", "closed"}

(* Every change reaches the disk or is overtaken by a later one, unless    *)
(* SQLite fails, the browser ends or the page has locked itself out.       *)
ChangesReachDisk ==
  (\E k \in Keys : disk[k] # Announced(k))
    ~> (\A k \in Keys : disk[k] = Announced(k)) \/ used.faults > 0 \/ main = "locked out"
=============================================================================
