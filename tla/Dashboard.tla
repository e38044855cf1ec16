------------------------------ MODULE Dashboard ------------------------------
(***************************************************************************)
(* The detail panel of the Streamlit UI (app/web/streamlit_app.py, through  *)
(* app/web/api_client.py and the read endpoints of app/api/routes.py)       *)
(* beside the pipeline it watches.                                          *)
(*                                                                          *)
(* A refresh of the panel is up to four requests, and the pipeline goes on  *)
(* between any two of them.  Layout, times and scores are left out.         *)
(***************************************************************************)
EXTENDS CrawlPipeline, Sequences

VARIABLES
  born,     \* per run and stage: the executions that have an item, by created_at
  panel     \* the detail panel: next request, selected run, what it shows

allVars == <<vars, born, panel>>

Request == {"idle", "run", "items", "llms", "events"}
Pill == {"pending", "active", "done", "failed"}

Panel == [pc : Request, run : Run \union {None}, status : RunStatus, begun : Execution,
          bar : [Stage -> Pill], timeline : [Stage -> ItemState],
          llms : BOOLEAN, told : SUBSET Stage]

(* status "absent": nothing is shown, or an error.  begun is a history: the *)
(* executions there had been when the status was read, if all were over.    *)
Opened(r) == [pc |-> "idle", run |-> r, status |-> "absent", begun |-> 0,
              bar |-> [s \in Stage |-> "pending"], timeline |-> [s \in Stage |-> "absent"],
              llms |-> FALSE, told |-> {}]

DashboardInit == /\ Init
                 /\ born = [k \in Run \X Stage |-> <<>>]
                 /\ panel = Opened(None)

-----------------------------------------------------------------------------
(* The pipeline makes a step; rows keep the order in which they appear.     *)

Extended(order, S) == IF S = {} THEN order ELSE Append(order, CHOOSE x \in S : TRUE)
Appearing(r, s) == {e \in Execution : items[r, e, s] = "absent" /\ items'[r, e, s] # "absent"}
Dated == born' = [k \in Run \X Stage |-> Extended(born[k], Appearing(k[1], k[2]))]

PipelineStep == Next /\ Dated /\ UNCHANGED panel

(* enqueue_crawl returns to the UI, which selects the new run.              *)
Submitted(a) == Publish(a) /\ Dated /\ panel' = Opened(RunOf(a))

(* The API goes away under a request: the fragment shows the exception.     *)
RequestFails ==
  /\ panel.pc # "idle"
  /\ ApiCrash /\ Dated
  /\ panel' = Opened(panel.run)

-----------------------------------------------------------------------------
(* A click on a run of the list.                                            *)
Choose(r) == /\ runs[r].status # "absent" /\ r # panel.run
             /\ panel' = Opened(r)
             /\ UNCHANGED <<vars, born>>

-----------------------------------------------------------------------------
(* _render_detail_panel.                                                    *)

(* The request that follows.                                                *)
MutAfterItems(step, status) ==   \* seeded bug: the items and events are fetched first
  CASE step = "idle"   -> "items"
    [] step = "items"  -> "events"
    [] step = "events" -> "run"
    [] step = "run" /\ status = "completed" -> "llms"
    [] OTHER           -> "idle"
After(step, status) ==
  CASE step = "idle"   -> "run"
    [] step = "run"    -> "items"
    [] step = "items" /\ status = "completed" -> "llms"
    [] step \in {"items", "llms"} /\ ~(step = "items" /\ status = "completed") -> "events"
    [] OTHER           -> "idle"

(* The fragment is run again and again, whatever the panel shows; what it   *)
(* shows is looked at between the refreshes.                                *)
Refresh == /\ panel.pc = "idle" /\ panel.run # None
           /\ panel' = [Opened(panel.run) EXCEPT !.pc = After("idle", "absent")]
           /\ UNCHANGED <<vars, born>>

Resting(r) == \A p \in Process : pc[p] # "idle" => RunOf(p) # r

GetRun ==
  LET status == runs[panel.run].status
  IN  /\ panel.pc = "run"
      /\ panel' = [panel EXCEPT !.pc = After("run", status), !.status = status,
                                !.begun = IF Resting(panel.run) THEN execs[panel.run] ELSE 0,
                                !.llms = @ /\ status = "completed"]
      /\ UNCHANGED <<vars, born>>

(* The states of the work items of a stage, by created_at.                  *)
StatesOf(r, s) == [i \in DOMAIN born[r, s] |-> items[r, born[r, s][i], s]]
StateSet(r, s) == {StatesOf(r, s)[i] : i \in DOMAIN born[r, s]}

(* _stage_state.                                                            *)
StageState(states) ==
  CASE "failed" \in states -> "failed"
    [] "failed" \notin states /\ "processing" \in states -> "active"
    [] states \intersect {"failed", "processing"} = {} /\ "completed" \in states -> "done"
    [] OTHER -> "pending"

(* _render_timeline: the last item that is not queued, else the first.      *)
MutSeen(states) == IF states = <<>> THEN "absent" ELSE states[1]   \* seeded bug: the first
Seen(states) ==
  LET begun == {i \in DOMAIN states : states[i] # "queued"}
  IN  CASE states = <<>> -> "absent"
        [] states # <<>> /\ begun = {} -> states[1]
        [] OTHER -> states[CHOOSE i \in begun : \A j \in begun : j <= i]

GetItems ==
  /\ panel.pc = "items"
  /\ panel' = [panel EXCEPT
       !.pc = After("items", panel.status),
       !.bar = [s \in Stage |-> StageState(StateSet(panel.run, s))],
       !.timeline = [s \in Stage |-> Seen(StatesOf(panel.run, s))]]
  /\ UNCHANGED <<vars, born>>

GetLlms == /\ panel.pc = "llms"
           /\ panel' = [panel EXCEPT !.pc = After("llms", panel.status),
                                     !.llms = artifacts[panel.run].saved]
           /\ UNCHANGED <<vars, born>>

(* The stages of which the event list of a run tells a success.             *)
ToldOf(r) == {s \in Stage : \E e \in Execution : events[r, e, s] = "success"}

GetEvents ==
  /\ panel.pc = "events"
  /\ panel' = [panel EXCEPT
       !.pc = After("events", panel.status),
       !.told = ToldOf(panel.run)]
  /\ UNCHANGED <<vars, born>>

PanelStep == Refresh \/ GetRun \/ GetItems \/ GetLlms \/ GetEvents

-----------------------------------------------------------------------------
DashboardNext ==
  \/ PipelineStep
  \/ \E a \in ApiThread : Submitted(a)
  \/ RequestFails
  \/ \E r \in Run : Choose(r)
  \/ PanelStep

DashboardSpec == DashboardInit /\ [][DashboardNext]_allVars

=============================================================================
