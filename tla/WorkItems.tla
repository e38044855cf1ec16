------------------------------ MODULE WorkItems ------------------------------
(***************************************************************************)
(* The work items of a run and their audit trail: what _new_item,           *)
(* _complete_item and _fail_item (core/orchestrator.py) do to the object in *)
(* memory, and what update_work_item (adapters/storage.py) commits: the row *)
(* and, in the same transaction, a WorkItemEventRecord whose primary key is *)
(* the item's id xor the microsecond field of updated_at.  CrawlPipeline    *)
(* takes these calls as steps that may fail; here is why they do.           *)
(***************************************************************************)
EXTENDS Integers, Sequences

CONSTANTS Item,         \* work items, one per stage of an execution
          Microsecond   \* values of a timestamp's microsecond field

VARIABLES
  row,      \* work_item: the state column of each row
  audit,    \* workitemevent: key |-> transition, in the order of the commits
  memory,   \* the WorkItem object: state, microsecond of updated_at
  pc,       \* where the execution is with each item
  raised    \* items whose _run_stage ended in another exception than the stage's

vars == <<row, audit, memory, pc, raised>>

State == {"absent", "queued", "processing", "completed", "failed"}
Label == {"new", "start", "body", "complete", "fail", "done"}
Entry == [item : Item, microsecond : Microsecond, from : {"queued", "processing"},
          to : {"processing", "completed", "failed"}]

(* WorkItem.transition.                                                     *)
Allowed(from) ==
  CASE from = "queued"     -> {"processing", "failed"}
    [] from = "processing" -> {"completed", "failed"}
    [] OTHER               -> {}

Init ==
  /\ row = [i \in Item |-> "absent"]
  /\ audit = <<>>
  /\ memory = [i \in Item |-> [state |-> "absent", microsecond |-> CHOOSE m \in Microsecond : TRUE]]
  /\ pc = [i \in Item |-> "new"]
  /\ raised = {}

Goto(i, l) == pc' = [pc EXCEPT ![i] = l]

(* An exception nobody on the way to process_run turns into a stage failure. *)
Escapes(i) == raised' = raised \union {i}

Keys == {<<audit[n].item, audit[n].microsecond>> : n \in 1 .. Len(audit)}

(* create_work_item: a row, no audit entry.                                 *)
Create(i) ==
  /\ pc[i] = "new"
  /\ memory' = [memory EXCEPT ![i].state = "queued"]
  /\ row' = [row EXCEPT ![i] = "queued"]
  /\ Goto(i, "start")
  /\ UNCHANGED <<audit, raised>>

(* The transition in memory, at some microsecond, before the call.          *)
Moved(w, to, m) == [w EXCEPT !.state = to, !.microsecond = m]

EntryFor(i, w) ==
  [item |-> i, microsecond |-> w.microsecond, from |-> row[i], to |-> w.state]

(* update_work_item of w: the row and its audit entry, or neither when the  *)
(* key is taken.                                                            *)
Stored(i, w) == /\ <<i, w.microsecond>> \notin Keys
                /\ row' = [row EXCEPT ![i] = w.state]
                /\ audit' = Append(audit, EntryFor(i, w))
(* Seeded bug: the row is committed before its entry.                       *)
MutCollides(i, w) == /\ <<i, w.microsecond>> \in Keys
                     /\ row' = [row EXCEPT ![i] = w.state]
                     /\ UNCHANGED audit
Collides(i, w) == <<i, w.microsecond>> \in Keys /\ UNCHANGED <<row, audit>>

(* _new_item's transition to processing.  Its exceptions leave _run_stage.  *)
Start(i) ==
  /\ pc[i] = "start"
  /\ "processing" \in Allowed(memory[i].state)
  /\ \E m \in Microsecond :
       LET w == Moved(memory[i], "processing", m)
       IN  /\ memory' = [memory EXCEPT ![i] = w]
           /\ \/ Stored(i, w) /\ Goto(i, "body") /\ UNCHANGED raised
              \/ Collides(i, w) /\ Goto(i, "done") /\ Escapes(i)

(* The stage's own work succeeds or raises.                                 *)
Body(i) ==
  /\ pc[i] = "body"
  /\ \E l \in {"complete", "fail"} : Goto(i, l)
  /\ UNCHANGED <<row, audit, memory, raised>>

(* _complete_item; its exceptions are caught and lead to _fail_item.        *)
Complete(i) ==
  /\ pc[i] = "complete"
  /\ "completed" \in Allowed(memory[i].state)
  /\ \E m \in Microsecond :
       LET w == Moved(memory[i], "completed", m)
       IN  /\ memory' = [memory EXCEPT ![i] = w]
           /\ \/ Stored(i, w) /\ Goto(i, "done")
              \/ Collides(i, w) /\ Goto(i, "fail")
  /\ UNCHANGED raised

(* _fail_item, in the except clause: an illegal transition or a second      *)
(* collision takes the place of the stage's exception.                      *)
Fail(i) ==
  /\ pc[i] = "fail"
  /\ \/ /\ "failed" \notin Allowed(memory[i].state)
        /\ Escapes(i)
        /\ UNCHANGED <<row, audit, memory>>
     \/ /\ "failed" \in Allowed(memory[i].state)
        /\ \E m \in Microsecond :
             LET w == Moved(memory[i], "failed", m)
             IN  /\ memory' = [memory EXCEPT ![i] = w]
                 /\ \/ Stored(i, w) /\ UNCHANGED raised
                    \/ Collides(i, w) /\ Escapes(i)
  /\ Goto(i, "done")

Next == \E i \in Item : Create(i) \/ Start(i) \/ Body(i) \/ Complete(i) \/ Fail(i)

Spec == Init /\ [][Next]_vars

-----------------------------------------------------------------------------
(* The entries of item i before the n-th of a trail leave it in state s.    *)
Leaves(trail, i, n, s) ==
  LET earlier == {m \in 1 .. n - 1 : trail[m].item = i}
  IN  \/ earlier = {} /\ s = "queued"
      \/ \E m \in earlier : s = trail[m].to /\ \A k \in earlier : k <= m

(* An item's entries are a path of the state machine from queued to the     *)
(* state its row is in, whatever commits failed in between.                 *)
TrailIsPath ==
  \A i \in Item :
    /\ \A n \in 1 .. Len(audit) : audit[n].item = i =>
         audit[n].to \in Allowed(audit[n].from) /\ Leaves(audit, i, n, audit[n].from)
    /\ row[i] # "absent" => Leaves(audit, i, Len(audit) + 1, row[i])

==============================================================================
