--------------------------- MODULE ExtractionStage ---------------------------
(***************************************************************************)
(* _run_stage (core/orchestrator.py) around the extraction: a work item is  *)
(* created and moved to processing, run_extraction runs, and the item is    *)
(* completed or failed, each move in a transaction with its audit entry.    *)
(* Extraction is the body, WorkItems the item; the other stages have the    *)
(* same item around another body.                                           *)
(***************************************************************************)
EXTENDS Extraction, Sequences

CONSTANTS Item, Microsecond   \* see WorkItems

VARIABLES row, audit, memory, at, raised   \* see WorkItems; at is its pc

WorkItem == INSTANCE WorkItems WITH pc <- at

itemVars == <<row, audit, memory, at, raised>>
stageVars == <<vars, itemVars>>

InBody == \E i \in Item : at[i] = "body"

StageInit == Init /\ WorkItem!Init

(* item = self._new_item(...)                                               *)
Open(i) == (WorkItem!Create(i) \/ WorkItem!Start(i)) /\ UNCHANGED vars

Extract == InBody /\ Stage /\ UNCHANGED itemVars

(* run_fn returns, or what it raises is caught.                             *)
MutOutcome == "complete"   \* seeded bug: the item is completed in a finally clause
Outcome == IF pc = "returned" THEN "complete" ELSE "fail"
Leave(i) ==
  /\ pc \in Over
  /\ WorkItem!Body(i) /\ at'[i] = Outcome
  /\ UNCHANGED vars

(* _complete_item, _fail_item.                                              *)
Close(i) == (WorkItem!Complete(i) \/ WorkItem!Fail(i)) /\ UNCHANGED vars

StageStep == Extract \/ \E i \in Item : Open(i) \/ Leave(i) \/ Close(i)

(* Another execution adds urls meanwhile.                                   *)
Meanwhile(u) == AddUrl(u) /\ UNCHANGED itemVars

StageNext == StageStep \/ \E u \in Url : Meanwhile(u)

(* The database answers, requests have a timeout, the retries are bounded.  *)
StageSpec == StageInit /\ [][StageNext]_stageVars /\ WF_stageVars(StageStep)

-----------------------------------------------------------------------------
(* The audit trail of an item is a path of the state machine from queued to *)
(* the state of its row, whatever commits failed in between.                *)
TrailIsPath == WorkItem!TrailIsPath

(* What the table says of the stage is true of its pages: an item that was  *)
(* completed has stored every page the attempt extracted with the validator *)
(* of each, and one that was failed has not got through.  An item that is   *)
(* neither belongs to an exception process_run does not catch.              *)
RowTellsOutcome ==
  \A i \in Item :
    /\ row[i] = "completed" => pc = "returned" /\ pages \subseteq stored \intersect validators
    /\ at[i] = "done" /\ i \notin raised /\ pc # "returned" => row[i] = "failed"
    /\ at[i] = "done" /\ row[i] = "processing" => i \in raised

(* The stage ends with every item where _run_stage leaves it.               *)
StageEnds == <>(\A i \in Item : at[i] = "done")
==============================================================================
