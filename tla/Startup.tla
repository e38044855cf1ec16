------------------------------- MODULE Startup -------------------------------
(***************************************************************************)
(* Creating the tables (adapters/storage.py).  The API at import, and every *)
(* task of every worker, calls get_storage, whose repository runs           *)
(* metadata.create_all: look for each table, then create those not found,   *)
(* in one fixed order.  On SQLite every CREATE TABLE is a commit of its own *)
(* and a failing one ends create_all, which SqliteStorageRepository         *)
(* swallows; on PostgreSQL they are one transaction and the error is        *)
(* raised.                                                                  *)
(***************************************************************************)
EXTENDS Integers

CONSTANTS Process,     \* processes that open the database
          LastTable,   \* tables are numbered in the order create_all takes them
          MaxStarts,   \* bound: calls of get_storage
          MaxLost      \* bound: crashes and lock errors during create_all

ASSUME TableAssumption == LastTable \in Nat
ASSUME BoundAssumption == MaxStarts \in Nat /\ MaxLost \in Nat

Table == 1 .. LastTable

VARIABLES
  backend,  \* storage_backend of the deployment
  tables,   \* the tables that exist
  pc,       \* where each process is
  checked,  \* how many tables its create_all has looked for
  todo,     \* the tables it did not find and has not created yet
  begun,    \* calls of get_storage so far
  lost      \* create_alls that ended for another reason than a collision

vars == <<backend, tables, pc, checked, todo, begun, lost>>

Backend == {"sqlite", "pgsql"}
Label == {"off", "check", "create", "ready", "dead"}
Goto(p, l) == pc' = [pc EXCEPT ![p] = l]
First(S) == CHOOSE t \in S : \A u \in S : t <= u

(* A new database, or one an older version left with some of the tables.    *)
Init ==
  /\ backend \in Backend
  /\ tables \in SUBSET Table
  /\ pc = [p \in Process |-> "off"]
  /\ checked = [p \in Process |-> 0]
  /\ todo = [p \in Process |-> {}]
  /\ begun = 0
  /\ lost = 0

(* get_storage; a process that raised is restarted and calls it again.      *)
Start(p) ==
  /\ pc[p] \in {"off", "ready", "dead"}
  /\ begun < MaxStarts
  /\ begun' = begun + 1
  /\ checked' = [checked EXCEPT ![p] = 0]
  /\ todo' = [todo EXCEPT ![p] = {}]
  /\ Goto(p, "check")
  /\ UNCHANGED <<backend, tables, lost>>

(* Seeded bug: no look, create_all(checkfirst=False).                       *)
MutMissingTables(t) == {t}
MissingTables(t) == {t} \ tables

AllChecked(n) == n = LastTable

Check(p) ==
  /\ pc[p] = "check"
  /\ IF ~AllChecked(checked[p])
       THEN /\ checked' = [checked EXCEPT ![p] = @ + 1]
            /\ todo' = [todo EXCEPT ![p] = @ \union MissingTables(checked[p] + 1)]
            /\ UNCHANGED pc
       ELSE /\ Goto(p, "create")
            /\ UNCHANGED <<checked, todo>>
  /\ UNCHANGED <<backend, tables, begun, lost>>

(* Where an OperationalError leaves the process.                            *)
AfterError == IF backend = "sqlite" THEN "ready" ELSE "dead"

(* SQLite: the next CREATE TABLE, a commit of its own.                      *)
CreateNext(p) ==
  /\ backend = "sqlite"
  /\ pc[p] = "create" /\ todo[p] # {}
  /\ IF First(todo[p]) \in tables
       THEN /\ Goto(p, AfterError)
            /\ todo' = [todo EXCEPT ![p] = {}]
            /\ UNCHANGED tables
       ELSE /\ tables' = tables \union {First(todo[p])}
            /\ todo' = [todo EXCEPT ![p] = @ \ {First(@)}]
            /\ UNCHANGED pc
  /\ UNCHANGED <<backend, checked, begun, lost>>

(* PostgreSQL: all of them at the commit, or none.                          *)
CreateAll(p) ==
  /\ backend = "pgsql"
  /\ pc[p] = "create" /\ todo[p] # {}
  /\ IF todo[p] \intersect tables # {}
       THEN Goto(p, AfterError) /\ UNCHANGED tables
       ELSE Goto(p, "ready") /\ tables' = tables \union todo[p]
  /\ todo' = [todo EXCEPT ![p] = {}]
  /\ UNCHANGED <<backend, checked, begun, lost>>

Done(p) ==
  /\ pc[p] = "create" /\ todo[p] = {}
  /\ Goto(p, "ready")
  /\ UNCHANGED <<backend, tables, checked, todo, begun, lost>>

(* The process is killed in create_all, or the database is locked for       *)
(* longer than the driver waits, which is an OperationalError as well.      *)
Lose(p) ==
  /\ pc[p] \in {"check", "create"}
  /\ lost < MaxLost
  /\ lost' = lost + 1
  /\ \E l \in {"off", AfterError} : Goto(p, l)
  /\ todo' = [todo EXCEPT ![p] = {}]
  /\ UNCHANGED <<backend, tables, checked, begun>>

Advance(p) == Check(p) \/ CreateNext(p) \/ CreateAll(p) \/ Done(p)

Next == \E p \in Process : Start(p) \/ Advance(p) \/ Lose(p)

Spec == Init /\ [][Next]_vars

(* create_all waits for nobody: a process that is not killed goes on.       *)
FairSpec == Spec /\ \A p \in Process : WF_vars(Advance(p))

-----------------------------------------------------------------------------
TypeOK ==
  /\ backend \in Backend
  /\ tables \in SUBSET Table
  /\ pc \in [Process -> Label]
  /\ checked \in [Process -> 0 .. LastTable]
  /\ todo \in [Process -> SUBSET Table]
  /\ begun \in Nat
  /\ lost \in Nat

Ended(p) == pc[p] \in {"ready", "dead"}

(* A process that gives up because a table has appeared can rely on the one *)
(* that made it: while no create_all was killed or locked out, either every *)
(* table exists or some process has all that are missing before it, though  *)
(* the processes that collide leave in whatever order.                      *)
NoTableLeftBehind ==
  lost = 0 /\ (\E p \in Process : Ended(p)) =>
    \/ tables = Table
    \/ \E p \in Process : pc[p] = "create" /\ Table \ tables \subseteq todo[p]

(* On PostgreSQL a process that dies of the race finds every table when it  *)
(* is restarted: the one it lost to has committed all of them.              *)
DeadMeansCreated ==
  lost = 0 => \A p \in Process : pc[p] = "dead" => tables = Table

(* Once somebody has opened the database the tables come to exist.          *)
TablesAppear ==
  (\E p \in Process : pc[p] = "check") ~> (tables = Table \/ lost > 0)
==============================================================================
