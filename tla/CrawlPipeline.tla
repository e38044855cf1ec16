---------------------------- MODULE CrawlPipeline ----------------------------
(***************************************************************************)
(* The crawl pipeline of crawllmer: API threads enqueue runs and process    *)
(* them on demand, Celery workers process the runs the broker delivers, and *)
(* all of them share one SQL database without a transaction that spans more *)
(* than one repository call.                                                *)
(*                                                                          *)
(* An action is one database transaction of core/orchestrator.py, or one    *)
(* network step of a stage, so that processes interleave exactly where the  *)
(* code lets them.  What a page says, how a score is computed and how the   *)
(* llms.txt is laid out is data and left out: a page is its address, a      *)
(* score is there or not.                                                   *)
(***************************************************************************)
EXTENDS Storage, FiniteSets

CONSTANTS Run,        \* runs that may be enqueued
          Worker,     \* Celery worker processes
          ApiThread,  \* threads of the API process
          SeedOf,     \* string-hash seed of each process
          Canonical,  \* _normalize_url, as a function on Url
          MaxExec,    \* bound: executions of process_run per run
          Limit,      \* bound: how often each Budget item may be spent
          None        \* no run

Process == Worker \union ApiThread
Execution == 0 .. MaxExec   \* 0 stands for enqueue_run
Budget == {"crash", "api_crash", "timeout", "db", "publish", "process"}

ASSUME DistinctAssumption == Worker \intersect ApiThread = {} /\ None \notin Run
ASSUME BoundAssumption == MaxExec \in Nat /\ Limit \in [Budget -> Nat]
ASSUME SeedAssumption == SeedOf \in [Process -> HashSeed]
ASSUME CanonicalAssumption == /\ Canonical \in [Url -> Url]
                              /\ \A u \in Url : Canonical[Canonical[u]] = Canonical[u]

VARIABLES
  \* tables of the database
  runs,        \* crawl_run: one RunRecord per run
  items,       \* work_item: state of <<run, execution, stage>>
  events,      \* crawl_event: outcome of <<run, execution, stage>>, stage 0 = the run
  urls,        \* discovered_url: the rows of each run
  pages,       \* extracted_page: the rows of each run
  artifacts,   \* artifact: whether one is saved, and the page rows it lists
  validators,  \* url_validator: the urls that have a row, shared by all runs
  \* broker and bookkeeping
  msgs,        \* ready messages per run
  execs,       \* executions of process_run started per run
  used,        \* how often each Budget item was spent
  \* processes
  pc,          \* next step of each process
  job,         \* the run, execution and stage a process is at, its item and exception
  view         \* what the process has read or computed in memory

content == <<urls, pages, artifacts, validators>>
trail == <<items, events>>
broker == <<msgs, execs, used>>
vars == <<runs, items, events, urls, pages, artifacts, validators,
          msgs, execs, used, pc, job, view>>

Label == {"idle", "create_item", "publish", "load", "update_get", "update_commit",
          "new_item", "start_item", "discover", "add_urls", "extract", "upsert",
          "set_validators", "canonicalize", "score", "generate", "save_artifact",
          "complete_item", "fail_item", "stage_event", "run_event", "finish"}

Outcome == {"absent", "success", "failure", "unset"}

Job == [run : Run \union {None}, exec : Execution, stage : 0 .. LastStage,
        item : ItemState, exc : {"none", "stage", "raw"}, unacked : BOOLEAN]

View == [mem : RunRecord, record : RunRecord, batch : SUBSET Url,
         known : SUBSET Url, listing : SUBSET Row, found : BOOLEAN]

NoJob == [run |-> None, exec |-> 0, stage |-> 0, item |-> "absent",
          exc |-> "none", unacked |-> FALSE]
NoView == [mem |-> Blank("absent"), record |-> Blank("absent"), batch |-> {},
           known |-> {}, listing |-> {}, found |-> FALSE]

Init ==
  /\ runs = [r \in Run |-> Blank("absent")]
  /\ items = [k \in Run \X Execution \X Stage |-> "absent"]
  /\ events = [k \in Run \X Execution \X (0 .. LastStage) |-> "absent"]
  /\ urls = [r \in Run |-> {}]
  /\ pages = [r \in Run |-> {}]
  /\ artifacts = [r \in Run |-> [saved |-> FALSE, rows |-> {}]]
  /\ validators = {}
  /\ msgs = [r \in Run |-> 0]
  /\ execs = [r \in Run |-> 0]
  /\ used = [b \in Budget |-> 0]
  /\ pc = [p \in Process |-> "idle"]
  /\ job = [p \in Process |-> NoJob]
  /\ view = [p \in Process |-> NoView]

-----------------------------------------------------------------------------
(* Helpers.                                                                 *)

Goto(p, l) == pc' = [pc EXCEPT ![p] = l]
Spend(b) == used[b] < Limit[b] /\ used' = [used EXCEPT ![b] = @ + 1]

RunOf(p) == job[p].run
Key(p) == <<job[p].run, job[p].exec, job[p].stage>>

(* The processes in P lose what they hold in memory, or return from their   *)
(* handler.                                                                 *)
Reset(P) ==
  /\ pc' = [p \in Process |-> IF p \in P THEN "idle" ELSE pc[p]]
  /\ job' = [p \in Process |-> IF p \in P THEN NoJob ELSE job[p]]
  /\ view' = [p \in Process |-> IF p \in P THEN NoView ELSE view[p]]

(* What a process holds in memory after reading or computing something.     *)
Holding(v, batch, known) == [v EXCEPT !.batch = batch, !.known = known]
Listing(v, rows, found) == [v EXCEPT !.listing = rows, !.found = found]
WithMem(v, mem) == [v EXCEPT !.mem = mem]
WithScore(v) == [v EXCEPT !.mem.score = TRUE]
WithPath(v) == [v EXCEPT !.mem.artifact_path = TRUE]
Raising(j, item, exc) == [j EXCEPT !.item = item, !.exc = exc]

(* First step of a stage's execute function.                                *)
Body(s) == CASE s = 1 -> "discover"
             [] s = 2 -> "extract"
             [] s = 3 -> "canonicalize"
             [] s = 4 -> "score"
             [] OTHER -> "generate"

-----------------------------------------------------------------------------
(* enqueue_run, on an API thread.                                           *)

(* create_run: the row is committed before anything else happens.           *)
CreateRun(a, r) ==
  /\ pc[a] = "idle"
  /\ runs[r].status = "absent"
  /\ runs' = [runs EXCEPT ![r] = Blank("queued")]
  /\ job' = [job EXCEPT ![a].run = r]
  /\ Goto(a, "create_item")
  /\ UNCHANGED <<trail, content, broker, view>>

(* The discovery work item of the enqueue: no later step ever reads it.     *)
CreateQueuedItem(a) ==
  /\ pc[a] = "create_item"
  /\ items' = [items EXCEPT ![<<RunOf(a), 0, 1>>] = "queued"]
  /\ Goto(a, "publish")
  /\ UNCHANGED <<runs, events, content, broker, job, view>>

(* Seeded bug: a send that is retried although it went through.             *)
MutPublish(a) ==
  /\ pc[a] = "publish"
  /\ msgs' = [msgs EXCEPT ![RunOf(a)] = @ + 2]
  /\ Reset({a})
  /\ UNCHANGED <<runs, trail, content, execs, used>>

Publish(a) ==
  /\ pc[a] = "publish"
  /\ msgs' = [msgs EXCEPT ![RunOf(a)] = @ + 1]
  /\ Reset({a})
  /\ UNCHANGED <<runs, trail, content, execs, used>>

(* The broker is unreachable: the request fails, the run stays queued.      *)
PublishFails(a) ==
  /\ pc[a] = "publish"
  /\ Spend("publish")
  /\ Reset({a})
  /\ UNCHANGED <<runs, trail, content, msgs, execs>>

-----------------------------------------------------------------------------
(* Starting process_run.                                                    *)

Begin(p, r, unacked) ==
  /\ pc[p] = "idle"
  /\ execs[r] < MaxExec
  /\ execs' = [execs EXCEPT ![r] = @ + 1]
  /\ job' = [job EXCEPT ![p] = [NoJob EXCEPT !.run = r, !.exec = execs[r] + 1,
                                             !.unacked = unacked]]
  /\ Goto(p, "load")

(* A worker takes a message; with acks_late it stays unacknowledged until   *)
(* the task returns or raises.                                              *)
Deliver(w, r) ==
  /\ msgs[r] > 0
  /\ msgs' = [msgs EXCEPT ![r] = @ - 1]
  /\ Begin(w, r, TRUE)
  /\ UNCHANGED <<runs, trail, content, used, view>>

(* POST /api/v1/crawls/{run_id}/process, for any run at any time.           *)
ProcessRequest(a, r) ==
  /\ Spend("process")
  /\ Begin(a, r, FALSE)
  /\ UNCHANGED <<runs, trail, content, msgs, view>>

(* process_run's copy of the run it loaded, with the status it sets.        *)
MutStarted(row) == row   \* seeded bug: the status is left alone
Started(row) == [row EXCEPT !.status = "running"]

(* get_run; an unknown run ends the request with RunNotFoundError.          *)
Load(p) ==
  /\ pc[p] = "load"
  /\ IF runs[RunOf(p)].status = "absent"
       THEN Goto(p, "finish") /\ UNCHANGED view
       ELSE /\ view' = [view EXCEPT ![p] = WithMem(@, Started(runs[RunOf(p)]))]
            /\ Goto(p, "update_get")
  /\ UNCHANGED <<runs, trail, content, broker, job>>

-----------------------------------------------------------------------------
(* update_run: session.get, then one UPDATE of the columns that differ.     *)

UpdateGet(p) ==
  /\ pc[p] = "update_get"
  /\ view' = [view EXCEPT ![p].record = runs[RunOf(p)]]
  /\ Goto(p, "update_commit")
  /\ UNCHANGED <<runs, trail, content, broker, job>>

(* update_run is called when the run starts, in scoring, in generation and  *)
(* when the run ends; the caller goes on from there.                        *)
UpdateCommit(p) ==
  /\ pc[p] = "update_commit"
  /\ \E row \in UpdatedRows(runs[RunOf(p)], view[p].record, view[p].mem) :
        runs' = [runs EXCEPT ![RunOf(p)] = row]
  /\ CASE view[p].mem.status \in Terminal ->
            Goto(p, "run_event") /\ UNCHANGED job
       [] view[p].mem.status \notin Terminal /\ job[p].stage = 0 ->
            Goto(p, "new_item") /\ job' = [job EXCEPT ![p].stage = 1]
       [] OTHER ->
            Goto(p, "complete_item") /\ UNCHANGED job
  /\ UNCHANGED <<trail, content, broker, view>>

-----------------------------------------------------------------------------
(* _new_item: a fresh row for the stage, then processing.                   *)

NewItem(p) ==
  /\ pc[p] = "new_item"
  /\ items' = [items EXCEPT ![Key(p)] = "queued"]
  /\ job' = [job EXCEPT ![p].item = "queued"]
  /\ Goto(p, "start_item")
  /\ UNCHANGED <<runs, events, content, broker, view>>

StartItem(p) ==
  /\ pc[p] = "start_item"
  /\ "processing" \in Allowed(job[p].item)
  /\ items' = [items EXCEPT ![Key(p)] = "processing"]
  /\ job' = [job EXCEPT ![p].item = "processing"]
  /\ Goto(p, Body(job[p].stage))
  /\ UNCHANGED <<runs, events, content, broker, view>>

-----------------------------------------------------------------------------
(* The five stages.  An exception in any of them leads to fail_item.        *)

(* discover_urls under the retry policy finds some urls (the spider returns *)
(* at least the target) or raises after the last attempt; then              *)
(* add_discovered_urls reads the rows the run already has.                  *)
Discover(p) ==
  /\ pc[p] = "discover"
  /\ \/ /\ \E found \in SUBSET Url \ {{}} :
              view' = [view EXCEPT ![p] = Holding(@, found, UrlsOf(urls[RunOf(p)]))]
        /\ Goto(p, "add_urls")
     \/ Goto(p, "fail_item") /\ UNCHANGED view
  /\ UNCHANGED <<runs, trail, content, broker, job>>

(* Inserts the urls that had no row when it looked; the commit fails if a   *)
(* row with the same primary key has appeared since.                        *)
AddUrls(p) ==
  LET new == RowsFor(SeedOf[p], Missing(view[p].batch, view[p].known))
  IN  /\ pc[p] = "add_urls"
      /\ IF new \intersect urls[RunOf(p)] = {}
           THEN /\ urls' = [urls EXCEPT ![RunOf(p)] = @ \union new]
                /\ Goto(p, "complete_item")
           ELSE Goto(p, "fail_item") /\ UNCHANGED urls
      /\ UNCHANGED <<runs, trail, pages, artifacts, validators, broker, job, view>>

(* What a run's extraction may fetch: get_discovered_urls.                  *)
MutFetchable(r) == Url   \* seeded bug: pages a redirect leads to count as well
Fetchable(r) == UrlsOf(urls[r])

(* extract_metadata under the retry policy: the discovered urls that answer *)
(* 200 become pages; a transport error that outlives the retries raises.    *)
Extract(p) ==
  /\ pc[p] = "extract"
  /\ \/ /\ \E fetched \in SUBSET Fetchable(RunOf(p)) :
              view' = [view EXCEPT ![p] = Holding(@, fetched, UrlsOf(pages[RunOf(p)]))]
        /\ Goto(p, "upsert")
     \/ Goto(p, "fail_item") /\ UNCHANGED view
  /\ UNCHANGED <<runs, trail, content, broker, job>>

(* canonicalize_and_dedup of every page row; the raw rows stay.             *)
Canonicalize(p) ==
  LET present == UrlsOf(pages[RunOf(p)])
  IN  /\ pc[p] = "canonicalize"
      /\ view' = [view EXCEPT ![p] = Holding(@, {Canonical[u] : u \in present}, present)]
      /\ Goto(p, "upsert")
      /\ UNCHANGED <<runs, trail, content, broker, job>>

(* upsert_extracted_pages: each page is looked up by url some time between  *)
(* the read of `known` and the commit, so `seen` lies between the two.      *)
Upsert(p) ==
  LET next == IF job[p].stage = 2 /\ view[p].batch # {}
                THEN "set_validators" ELSE "complete_item"
  IN  /\ pc[p] = "upsert"
      /\ \E late \in SUBSET (UrlsOf(pages[RunOf(p)]) \ view[p].known) :
           LET new == RowsFor(SeedOf[p], Missing(view[p].batch, view[p].known \union late))
           IN  IF new \intersect pages[RunOf(p)] = {}
                 THEN /\ pages' = [pages EXCEPT ![RunOf(p)] = @ \union new]
                      /\ view' = [view EXCEPT ![p].known = validators]
                      /\ Goto(p, next)
                 ELSE Goto(p, "fail_item") /\ UNCHANGED <<pages, view>>
      /\ UNCHANGED <<runs, trail, urls, artifacts, validators, broker, job>>

(* set_validator for each page, a transaction of its own: look the url up,  *)
(* insert or update.  A lookup that missed a row committed since fails.     *)
SetValidator(p) ==
  /\ pc[p] = "set_validators"
  /\ \E u \in view[p].batch :
       \/ /\ validators' = validators \union {u}
          /\ view' = [view EXCEPT ![p] = Holding(@, @.batch \ {u}, validators \union {u})]
          /\ Goto(p, IF view[p].batch = {u} THEN "complete_item" ELSE "set_validators")
       \/ /\ u \in validators \ view[p].known
          /\ Goto(p, "fail_item")
          /\ UNCHANGED <<validators, view>>
  /\ UNCHANGED <<runs, trail, urls, pages, artifacts, broker, job>>

(* Seeded bug: the score is computed and not put on the run.                *)
MutScore(p) ==
  /\ pc[p] = "score"
  /\ Goto(p, "update_get")
  /\ UNCHANGED <<runs, trail, content, broker, job, view>>

(* score_pages on whatever pages the run has; update_run follows.           *)
Score(p) ==
  /\ pc[p] = "score"
  /\ view' = [view EXCEPT ![p] = WithScore(@)]
  /\ Goto(p, "update_get")
  /\ UNCHANGED <<runs, trail, content, broker, job>>

(* Seeded bug: artifact_path is set before the artifact is saved.           *)
MutGenerate(p) ==
  /\ pc[p] = "generate"
  /\ view' = [view EXCEPT ![p] = WithPath(Listing(@, pages[RunOf(p)], artifacts[RunOf(p)].saved))]
  /\ Goto(p, "save_artifact")
  /\ UNCHANGED <<runs, trail, content, broker, job>>

(* generate_llms_txt lists the pages the run has at this moment.            *)
Generate(p) ==
  /\ pc[p] = "generate"
  /\ view' = [view EXCEPT ![p] = Listing(@, pages[RunOf(p)], artifacts[RunOf(p)].saved)]
  /\ Goto(p, "save_artifact")
  /\ UNCHANGED <<runs, trail, content, broker, job>>

(* save_artifact merges: insert, or overwrite the row its lookup found.  An *)
(* insert fails when another process has inserted since the lookup.         *)
SaveArtifact(p) ==
  /\ pc[p] = "save_artifact"
  /\ \/ /\ artifacts' = [artifacts EXCEPT ![RunOf(p)] =
                            Merged(@, view[p].listing)]
        /\ view' = [view EXCEPT ![p] = WithPath(@)]
        /\ Goto(p, "update_get")
     \/ /\ artifacts[RunOf(p)].saved /\ ~view[p].found
        /\ Goto(p, "fail_item")
        /\ UNCHANGED <<artifacts, view>>
  /\ UNCHANGED <<runs, trail, urls, pages, validators, broker, job>>

-----------------------------------------------------------------------------
(* The end of a stage, and of the run.                                      *)

CompleteItem(p) ==
  /\ pc[p] = "complete_item"
  /\ items' = [items EXCEPT ![Key(p)] = "completed"]
  /\ job' = [job EXCEPT ![p].item = "completed"]
  /\ Goto(p, "stage_event")
  /\ UNCHANGED <<runs, events, content, broker, view>>

(* The exception _run_stage leaves with when the item is in state `item`:   *)
(* an item that is completed in memory cannot be failed, transition raises  *)
(* ValueError and that takes the place of the PipelineProcessingError.      *)
MutSwallowed(item) == "none"  \* seeded bug: the stage's exception is logged only
MutUnwrapped(item) == "raw"   \* seeded bug: the exception is not wrapped
RaisedWith(item) == IF "failed" \in Allowed(item) THEN "stage" ELSE "raw"

FailItem(p) ==
  /\ pc[p] = "fail_item"
  /\ IF "failed" \in Allowed(job[p].item)
       THEN /\ items' = [items EXCEPT ![Key(p)] = "failed"]
            /\ job' = [job EXCEPT ![p] = Raising(@, "failed", RaisedWith(@.item))]
       ELSE /\ job' = [job EXCEPT ![p] = Raising(@, @.item, RaisedWith(@.item))]
            /\ UNCHANGED items
  /\ Goto(p, "stage_event")
  /\ UNCHANGED <<runs, events, content, broker, view>>

(* Seeded bug: an event without an outcome is stored as a failure.          *)
MutStageOutcome(exc) == IF exc = "none" THEN "success" ELSE "failure"
StageOutcome(exc) == CASE exc = "none"  -> "success"
                       [] exc = "stage" -> "failure"
                       [] exc = "raw"   -> "unset"

(* The copy of the run that process_run writes at its end.                  *)
EndedRun(mem, outcome) ==
  [mem EXCEPT !.status = outcome, !.completed_at = TRUE,
              !.error = @ \/ outcome = "failed"]

(* The stage plan is exhausted.                                             *)
MutPlanDoneLate(s) == s > LastStage       \* seeded bugs: off by one, both ways
MutPlanDoneEarly(s) == s >= LastStage - 1
PlanDone(s) == s = LastStage

(* The finally clause of _run_stage, and what process_run does next: the    *)
(* next stage, the final update_run of a completed or a failed run, or, for *)
(* an exception it does not catch, nothing.                                 *)
StageEvent(p) ==
  /\ pc[p] = "stage_event"
  /\ events' = [events EXCEPT ![Key(p)] = StageOutcome(job[p].exc)]
  /\ \/ /\ job[p].exc = "none" /\ ~PlanDone(job[p].stage)
        /\ job' = [job EXCEPT ![p].stage = @ + 1]
        /\ Goto(p, "new_item")
        /\ UNCHANGED view
     \/ /\ job[p].exc = "none" /\ PlanDone(job[p].stage)
        /\ view' = [view EXCEPT ![p] = WithMem(@, EndedRun(@.mem, "completed"))]
        /\ Goto(p, "update_get")
        /\ UNCHANGED job
     \/ /\ job[p].exc = "stage"
        /\ view' = [view EXCEPT ![p] = WithMem(@, EndedRun(@.mem, "failed"))]
        /\ Goto(p, "update_get")
        /\ UNCHANGED job
     \/ /\ job[p].exc = "raw"
        /\ Goto(p, "finish")
        /\ UNCHANGED <<job, view>>
  /\ UNCHANGED <<runs, items, content, broker>>

RunEvent(p) ==
  /\ pc[p] = "run_event"
  /\ events' = [events EXCEPT ![<<RunOf(p), job[p].exec, 0>>] =
                   IF view[p].mem.status = "completed" THEN "success" ELSE "failure"]
  /\ Goto(p, "finish")
  /\ UNCHANGED <<runs, items, content, broker, job, view>>

(* The task returns or raises: either way its message is acknowledged.      *)
Finish(p) ==
  /\ pc[p] = "finish"
  /\ Reset({p})
  /\ UNCHANGED <<runs, trail, content, broker>>

-----------------------------------------------------------------------------
(* Faults.                                                                  *)

StageBody == {"add_urls", "upsert", "set_validators", "canonicalize", "score",
              "generate", "save_artifact"}
StageUpdate(p) == /\ pc[p] \in {"update_get", "update_commit"}
                  /\ view[p].mem.status = "running"
                  /\ job[p].stage > 0

(* A database call raises and its transaction is rolled back.  Inside a     *)
(* stage's try block the item is failed; anywhere else the exception leaves *)
(* process_run and the run keeps the status it has.                         *)
DbError(p) ==
  /\ Spend("db")
  /\ \/ /\ pc[p] \in StageBody \/ StageUpdate(p)
        /\ Goto(p, "fail_item")
        /\ UNCHANGED <<job, view>>
     \/ /\ pc[p] = "complete_item"
        /\ job' = [job EXCEPT ![p].item = "completed"]
        /\ Goto(p, "fail_item")
        /\ UNCHANGED view
     \/ /\ pc[p] = "fail_item"
        /\ job' = [job EXCEPT ![p] = Raising(@, "failed", "raw")]
        /\ Goto(p, "stage_event")
        /\ UNCHANGED view
     \/ /\ \/ pc[p] \in {"load", "new_item", "start_item", "stage_event", "run_event"}
           \/ pc[p] \in {"update_get", "update_commit"} /\ ~StageUpdate(p)
        /\ Goto(p, "finish")
        /\ UNCHANGED <<job, view>>
     \/ /\ pc[p] = "create_item"
        /\ Reset({p})
  /\ UNCHANGED <<runs, trail, content, msgs, execs>>

(* A worker process dies; the broker makes the message it held ready again. *)
Crash(w) ==
  /\ pc[w] # "idle"
  /\ Spend("crash")
  /\ msgs' = IF job[w].unacked THEN [msgs EXCEPT ![RunOf(w)] = @ + 1] ELSE msgs
  /\ Reset({w})
  /\ UNCHANGED <<runs, trail, content, execs>>

(* The API process dies with all its threads: nothing redelivers.           *)
ApiCrash ==
  /\ \E a \in ApiThread : pc[a] # "idle"
  /\ Spend("api_crash")
  /\ Reset(ApiThread)
  /\ UNCHANGED <<runs, trail, content, msgs, execs>>

(* The visibility timeout passes while the worker is still busy.            *)
VisibilityTimeout(w) ==
  /\ pc[w] # "idle" /\ job[w].unacked
  /\ Spend("timeout")
  /\ msgs' = [msgs EXCEPT ![RunOf(w)] = @ + 1]
  /\ job' = [job EXCEPT ![w].unacked = FALSE]
  /\ UNCHANGED <<runs, trail, content, execs, pc, view>>

-----------------------------------------------------------------------------
Advance(p) ==
  \/ CreateQueuedItem(p) \/ Publish(p)
  \/ Load(p) \/ UpdateGet(p) \/ UpdateCommit(p)
  \/ NewItem(p) \/ StartItem(p)
  \/ Discover(p) \/ AddUrls(p) \/ Extract(p) \/ Upsert(p) \/ SetValidator(p)
  \/ Canonicalize(p) \/ Score(p) \/ Generate(p) \/ SaveArtifact(p)
  \/ CompleteItem(p) \/ FailItem(p) \/ StageEvent(p) \/ RunEvent(p) \/ Finish(p)

Next ==
  \/ \E p \in Process : Advance(p) \/ DbError(p)
  \/ \E w \in Worker : Crash(w) \/ VisibilityTimeout(w)
  \/ \E w \in Worker, r \in Run : Deliver(w, r)
  \/ \E a \in ApiThread, r \in Run : CreateRun(a, r) \/ ProcessRequest(a, r)
  \/ \E a \in ApiThread : PublishFails(a)
  \/ ApiCrash

Spec == Init /\ [][Next]_vars

(* Every network call has a timeout and every retry loop a bound, so a      *)
(* process that is not killed goes on; an idle worker takes messages.       *)
Fairness == /\ \A p \in Process : WF_vars(Advance(p))
            /\ \A w \in Worker : WF_vars(\E r \in Run : Deliver(w, r))

FairSpec == Spec /\ Fairness
=============================================================================
