----------------------- MODULE CrawlPipelineProperties -----------------------
(***************************************************************************)
(* What CrawlPipeline must satisfy.  The first group holds with any number  *)
(* of concurrent executions of a run; the second only as long as the broker *)
(* is the one that hands a run out (no /process request, no visibility      *)
(* timeout); the third states what the repository's documents claim and the *)
(* code does not do.                                                        *)
(***************************************************************************)
EXTENDS CrawlPipeline

(* Every variable keeps its type.                                           *)
TypeOK ==
  /\ runs \in [Run -> RunRecord]
  /\ items \in [Run \X Execution \X Stage -> ItemState]
  /\ events \in [Run \X Execution \X (0 .. LastStage) -> Outcome]
  /\ urls \in [Run -> SUBSET Row]
  /\ pages \in [Run -> SUBSET Row]
  /\ artifacts \in [Run -> [saved : BOOLEAN, rows : SUBSET Row]]
  /\ validators \subseteq Url
  /\ msgs \in [Run -> Nat]
  /\ execs \in [Run -> Execution]
  /\ used \in [Budget -> Nat]
  /\ pc \in [Process -> Label]
  /\ job \in [Process -> Job]
  /\ view \in [Process -> View]

Busy(r) == {p \in Process : pc[p] # "idle" /\ RunOf(p) = r}
Executing(r) == {p \in Busy(r) : job[p].exec > 0}

-----------------------------------------------------------------------------
(* With any interleaving.                                                   *)

(* A run that the API or the UI shows as completed has an llms.txt to serve *)
(* (crawl_llms_txt never answers 404 for it), whichever of the concurrent   *)
(* executions of process_run wrote the status and whichever the artifact.   *)
CompletedHasArtifact ==
  \A r \in Run : runs[r].status = "completed" => artifacts[r].saved

(* artifact_path never points at an artifact that is not there, even though *)
(* the two are written by two transactions of update_run and save_artifact. *)
ArtifactPathResolves ==
  \A r \in Run : runs[r].artifact_path => artifacts[r].saved

(* A completed run was carried through all five stages by one execution: no *)
(* mixture of a crashed, a failed and a redelivered execution ever adds up  *)
(* to a completed run.                                                      *)
CompletedByOneExecution ==
  \A r \in Run : runs[r].status = "completed" =>
    \E e \in Execution : \A s \in Stage : items[r, e, s] = "completed"

(* An execution touches a stage only after it completed the stage before    *)
(* and recorded the success of it: _run_stage's finally clause and the loop *)
(* of process_run never run ahead of a failure.                             *)
StageOrder ==
  \A r \in Run, e \in Execution \ {0}, s \in Stage \ {1} :
    items[r, e, s] # "absent" =>
      items[r, e, s - 1] = "completed" /\ events[r, e, s - 1] = "success"

(* The two records of a stage agree, though they are two transactions: a    *)
(* success event stands for a completed item, a failure event for a failed  *)
(* one, and a stage whose event has no outcome left its item in processing. *)
EventsMatchItems ==
  \A r \in Run, e \in Execution \ {0}, s \in Stage :
    /\ events[r, e, s] = "success" => items[r, e, s] = "completed"
    /\ events[r, e, s] = "failure" => items[r, e, s] = "failed"
    /\ events[r, e, s] = "unset"   => items[r, e, s] = "processing"

(* The llms.txt lists only addresses the run discovered, or their canonical *)
(* forms, whatever other executions were writing while it was generated.    *)
ListedPagesWereDiscovered ==
  \A r \in Run : \A row \in artifacts[r].rows :
    \E u \in UrlsOf(urls[r]) : row[2] \in {u, Canonical[u]}

(* The status and the artifact a client polls behave like RunLifecycle.     *)
Lifecycle == INSTANCE RunLifecycle WITH
  status <- [r \in Run |-> runs[r].status],
  artifact <- [r \in Run |-> artifacts[r].saved]
RefinesLifecycle == Lifecycle!Spec

-----------------------------------------------------------------------------
(* The inductive invariant behind the first group.  None of its properties  *)
(* is inductive: whether a commit keeps them depends on what the process    *)
(* holds in memory and on the step it is at.                                *)

(* A process that is not idle works on a run.                               *)
BusyHasRun == \A p \in Process : pc[p] # "idle" => job[p].run \in Run
TypeInv == TypeOK /\ BusyHasRun

Begun(status) == status \notin {"absent", "queued"}
Updating(p) == pc[p] \in {"update_get", "update_commit"}

(* Between the commit that starts the run and the end of process_run.       *)
InStages(p) == /\ pc[p] \notin {"idle", "create_item", "publish", "load", "finish"}
               /\ Updating(p) => job[p].stage > 0

(* Generation is over, for this execution, and nothing has raised.          *)
Generated(p) == /\ job[p].stage = LastStage
                /\ \/ pc[p] = "complete_item"
                   \/ pc[p] = "stage_event" /\ job[p].exc = "none"
                   \/ Updating(p) /\ view[p].mem.status = "running"

(* A label belongs to a stage.                                              *)
LabelOK(p) ==
  /\ pc[p] = "load" => job[p].stage = 0
  /\ pc[p] \in {"discover", "add_urls"} => job[p].stage = 1
  /\ pc[p] \in {"extract", "set_validators"} => job[p].stage = 2
  /\ pc[p] = "canonicalize" => job[p].stage = 3
  /\ pc[p] = "upsert" => job[p].stage \in {2, 3}
  /\ pc[p] = "score" => job[p].stage = 4
  /\ pc[p] \in {"generate", "save_artifact"} => job[p].stage = LastStage

(* A process knows nothing before it loads the run; what it will write      *)
(* about the artifact is true already.                                      *)
MemoryOK(p) ==
  /\ pc[p] \in {"idle", "create_item", "publish", "load"} => view[p] = NoView
  /\ pc[p] # "idle" /\ (\/ view[p].mem.artifact_path
                        \/ view[p].mem.status = "completed"
                        \/ Generated(p)) => artifacts[RunOf(p)].saved

(* Where the run stands while a process works on it.                        *)
PhaseOK(p) ==
  /\ InStages(p) => job[p].stage > 0
  /\ Updating(p) \/ InStages(p) =>
       /\ runs[RunOf(p)].status # "absent"
       /\ Begun(view[p].mem.status)
  /\ Updating(p) /\ job[p].stage = 0 => view[p].mem.status = "running"
  /\ InStages(p) \/ (pc[p] = "update_commit" /\ Begun(view[p].record.status)) =>
       Begun(runs[RunOf(p)].status)

RowOK(r) == runs[r].artifact_path \/ runs[r].status = "completed" => artifacts[r].saved

IInv == /\ TypeInv
        /\ \A p \in Process : LabelOK(p) /\ MemoryOK(p) /\ PhaseOK(p)
        /\ \A r \in Run : RowOK(r)

-----------------------------------------------------------------------------
(* While the broker alone hands runs out: nobody has posted to /process and *)
(* no visibility timeout has passed.  Processes may have died, sends and    *)
(* transactions failed.                                                     *)
BrokerAlone == used["process"] = 0 /\ used["timeout"] = 0

(* acks_late and redelivery never put two executions on one run.            *)
AtMostOneExecution ==
  \A r \in Run : Cardinality(Executing(r)) + msgs[r] <= 1

(* A completed run carries its score, its artifact path and its completion  *)
(* time, also after crashes, failures and database errors in between.       *)
CompletedRecordWhole ==
  \A r \in Run : runs[r].status = "completed" =>
    runs[r].score /\ runs[r].artifact_path /\ runs[r].completed_at

(* hash() of a string differs between interpreters, so the primary key does *)
(* not keep two of them from storing a url twice; reading first does.       *)
OneRowPerUrl ==
  \A r \in Run : \A x, y \in Row :
    /\ {x, y} \subseteq urls[r]  => (x[2] = y[2] => x = y)
    /\ {x, y} \subseteq pages[r] => (x[2] = y[2] => x = y)

(* A completed run's llms.txt lists every page the run has.                 *)
ArtifactListsPages ==
  \A r \in Run : runs[r].status = "completed" => artifacts[r].rows = pages[r]

(* A run whose message is in the broker is finished for good some day: each *)
(* execution ends in an update to completed or failed, and a crashed one is *)
(* redelivered.  A run that was committed is taken up, unless sending its   *)
(* message failed or the API died before; nothing else leaves it queued.    *)
EventuallyFinished ==
  \A r \in Run :
    /\ (msgs[r] > 0) ~> [](runs[r].status \in Terminal)
    /\ (runs[r].status = "queued") ~>
         (runs[r].status # "queued" \/ used["publish"] > 0 \/ used["api_crash"] > 0)

-----------------------------------------------------------------------------
(* What the documents claim.                                                *)

(* guides/pipeline.md: "The score breakdown is stored on the CrawlRun  *)
(* and returned in API responses" once a run is completed.                  *)
CompletedHasScore ==
  \A r \in Run : runs[r].status = "completed" => runs[r].score

(* guides/pipeline.md: "If any stage fails, the run is marked as       *)
(* failed".  A stage of the last execution has failed when its event is     *)
(* there without a success.                                                 *)
StageFailureFailsRun ==
  \A r \in Run : (\E s \in Stage : events[r, execs[r], s] \in {"failure", "unset"}) =>
    runs[r].status = "failed" \/ Busy(r) # {}

=============================================================================
