------------------------------- MODULE Metrics -------------------------------
(***************************************************************************)
(* The instruments of core/observability beside the pipeline that drives    *)
(* them: pipeline_telemetry.py and the RunCompletedEvent of events.py.      *)
(*                                                                          *)
(* core/orchestrator.py calls an instrument after the transaction it tells  *)
(* of, so a process that dies in between leaves the call undone.  A call is *)
(* made when its process takes its next step.  Durations, sizes, spans and  *)
(* what an exporter does with the numbers are left out.                     *)
(***************************************************************************)
EXTENDS CrawlPipeline

VARIABLES
  calls,  \* how often each instrument was called with each set of attributes
  due     \* the calls a process has yet to make for its last transaction

meterVars == <<calls, due>>

Ending == {"success", "failure"}

(* A RunCompletedEvent is recorded.                                         *)
Completed == <<"completed">>

Call ==
  {t \in {"state"} \X ItemState \X ItemState : t[2] = "absent" \/ t[3] \in Allowed(t[2])}
                                          \* track_state_transition; "absent" is None
    \union ({"stage"} \X Stage \X Ending) \* record_stage_outcome
    \union ({"duration"} \X Stage)        \* stage_duration.record
    \union ({"run"} \X Ending)            \* record_run_outcome
    \union {Completed}

MetricsInit == /\ Init
               /\ calls = [c \in Call |-> 0]
               /\ due = [p \in Process |-> {}]

-----------------------------------------------------------------------------
(* What a process owes the instruments for the step it takes.               *)

Moved == {k \in DOMAIN items : items[k] # items'[k]}

MutFirstCalls ==   \* seeded bug: every transition is told as a first one
  {<<"state", "absent", items'[k]>> : k \in Moved}
StateCalls == {<<"state", items[k], items'[k]>> : k \in Moved}

StageCalls ==
  {<<"stage", k[3], "success">> : k \in {m \in Moved : items'[m] = "completed"}}
    \union {<<"stage", k[3], "failure">> : k \in {m \in Moved : items'[m] = "failed"}}

(* stage_span records after its yield: only when the stage did not raise.   *)
DurationCalls(p) ==
  {<<"duration", s>> : s \in
     {t \in {job[p].stage} : pc[p] = "stage_event" /\ pc'[p] # "finish" /\ job[p].exc = "none"}}

(* The final update_run of a run that was completed, or that failed.        *)
MutRunCalls(p) ==  \* seeded bug: the outcome is told when the run starts
  IF pc[p] = "update_commit" /\ pc'[p] # "finish" /\ pc'[p] # "fail_item"
    THEN {<<"run", "success">>} ELSE {}
RunCalls(p) ==
  CASE pc[p] = "update_commit" /\ pc'[p] = "run_event" /\ view[p].mem.status = "completed" ->
         {<<"run", "success">>, Completed}
    [] pc[p] = "update_commit" /\ pc'[p] = "run_event" /\ view[p].mem.status = "failed" ->
         {<<"run", "failure">>}
    [] OTHER -> {}

-----------------------------------------------------------------------------
(* The next step of a process makes the calls of the step before.           *)
Make(made) == calls' = [c \in Call |-> IF c \in made THEN calls[c] + 1 ELSE calls[c]]
Owe(p) == due' = [due EXCEPT ![p] = StateCalls \union StageCalls \union DurationCalls(p) \union RunCalls(p)]

MeteredStep(p) ==
  /\ Advance(p) \/ (p \in ApiThread /\ PublishFails(p))
  /\ Make(due[p]) /\ Owe(p)

(* The database call that raises comes after the instruments, but for the   *)
(* reads of the pages and the artifact that a RunCompletedEvent tells of.   *)
MeteredError(p) ==
  /\ DbError(p)
  /\ \/ Make(due[p])
     \/ pc[p] = "run_event" /\ Make(due[p] \ {Completed})
  /\ Owe(p)

(* Steps nothing is told of: the pipeline has not begun, or is not there.   *)
UntoldStep ==
  /\ \/ \E w \in Worker : VisibilityTimeout(w)
     \/ \E w \in Worker, r \in Run : Deliver(w, r)
     \/ \E a \in ApiThread, r \in Run : CreateRun(a, r) \/ ProcessRequest(a, r)
  /\ UNCHANGED meterVars

(* The calls a dead process owed are lost.                                  *)
LostWithWorker(w) == Crash(w) /\ due' = [due EXCEPT ![w] = {}] /\ UNCHANGED calls
LostWithApi ==
  /\ ApiCrash
  /\ due' = [p \in Process |-> IF p \in ApiThread THEN {} ELSE due[p]]
  /\ UNCHANGED calls

MetricsNext ==
  \/ \E p \in Process : MeteredStep(p) \/ MeteredError(p)
  \/ UntoldStep
  \/ \E w \in Worker : LostWithWorker(w)
  \/ LostWithApi

MetricsSpec == MetricsInit /\ [][MetricsNext]_<<vars, meterVars>>
==============================================================================
