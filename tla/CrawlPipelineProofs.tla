------------------------- MODULE CrawlPipelineProofs -------------------------
(***************************************************************************)
(* Theorems about CrawlPipeline, for any set of runs, processes and urls,   *)
(* any bounds and any interleaving: first that it implements RunLifecycle,  *)
(* then what its tables record of a run.                                    *)
(***************************************************************************)
EXTENDS CrawlPipelineProperties, FiniteSetTheorems, TLAPS

-----------------------------------------------------------------------------
(* Types of the values the actions build.                                   *)

(* What update_run leaves is a row of the table, each column of which is    *)
(* the caller's or the one that was there; a status the caller does not     *)
(* write is one it read.                                                    *)
LEMMA UpdatedRowsType ==
  ASSUME NEW current \in RunRecord, NEW record \in RunRecord, NEW mem \in RunRecord,
         NEW row \in UpdatedRows(current, record, mem)
  PROVE  /\ row \in RunRecord
         /\ \/ row.status = mem.status
            \/ row.status = current.status /\ mem.status = record.status
         /\ row.artifact_path \in {current.artifact_path, mem.artifact_path}
  BY DEF UpdatedRows, WrittenColumns, RunRecord

LEMMA BlankType ==
  ASSUME NEW status \in RunStatus
  PROVE  Blank(status) \in RunRecord
  BY DEF Blank, RunRecord

LEMMA UrlsOfType ==
  ASSUME NEW rows \in SUBSET Row
  PROVE  UrlsOf(rows) \in SUBSET Url
  BY DEF Row, UrlsOf

LEMMA RowsForType ==
  ASSUME NEW p \in Process, NEW S \in SUBSET Url
  PROVE  RowsFor(SeedOf[p], S) \in SUBSET Row
  BY SeedAssumption DEF Row, RowsFor

LEMMA NoJobType == NoJob \in Job
  BY BoundAssumption DEF NoJob, Job, Execution, LastStage, ItemState

LEMMA NoViewType == NoView \in View
  BY BlankType DEF NoView, View, RunStatus

LEMMA JobUpdates ==
  ASSUME NEW j \in Job
  PROVE  /\ \A i \in ItemState, x \in {"none", "stage", "raw"} :
               Raising(j, i, x) \in Job /\ Raising(j, i, x).run = j.run
         /\ \A i \in ItemState : [j EXCEPT !.item = i] \in Job /\ [j EXCEPT !.item = i].run = j.run
         /\ \A s \in 0 .. LastStage : [j EXCEPT !.stage = s] \in Job /\ [j EXCEPT !.stage = s].run = j.run
         /\ [j EXCEPT !.unacked = FALSE] \in Job /\ [j EXCEPT !.unacked = FALSE].run = j.run
         /\ \A r \in Run : [j EXCEPT !.run = r] \in Job /\ [j EXCEPT !.run = r].run = r
  BY DEF Job, Raising

LEMMA RaisingType ==
  ASSUME NEW j \in Job, NEW i \in ItemState, NEW x \in {"none", "stage", "raw"}
  PROVE  Raising(j, i, x) \in Job /\ Raising(j, i, x).run = j.run
  BY JobUpdates

LEMMA NewJobType ==
  ASSUME NEW r \in Run, NEW e \in Execution, NEW b \in BOOLEAN
  PROVE  /\ [NoJob EXCEPT !.run = r, !.exec = e, !.unacked = b] \in Job
         /\ [NoJob EXCEPT !.run = r, !.exec = e, !.unacked = b].run = r
  BY NoJobType DEF Job

LEMMA ViewUpdates ==
  ASSUME NEW v \in View
  PROVE  /\ \A m \in RunRecord : WithMem(v, m) \in View
         /\ \A m \in RunRecord : [v EXCEPT !.record = m] \in View
         /\ \A k \in SUBSET Url : [v EXCEPT !.known = k] \in View
         /\ \A b, k \in SUBSET Url : Holding(v, b, k) \in View
         /\ \A l \in SUBSET Row, f \in BOOLEAN : Listing(v, l, f) \in View
         /\ WithScore(v) \in View
         /\ WithPath(v) \in View
  BY DEF View, RunRecord, WithMem, Holding, Listing, WithScore, WithPath

LEMMA StartedType ==
  ASSUME NEW m \in RunRecord
  PROVE  Started(m) \in RunRecord
  BY DEF Started, RunRecord, RunStatus

LEMMA EndedRunType ==
  ASSUME NEW m \in RunRecord, NEW status \in RunStatus
  PROVE  EndedRun(m, status) \in RunRecord
  BY DEF EndedRun, RunRecord, RunStatus

LEMMA OutcomeType ==
  ASSUME NEW exc \in {"none", "stage", "raw"}
  PROVE  StageOutcome(exc) \in Outcome
  BY DEF StageOutcome, Outcome

LEMMA RaisedWithType ==
  ASSUME NEW item \in ItemState
  PROVE  RaisedWith(item) \in {"none", "stage", "raw"}
  BY DEF RaisedWith

LEMMA SpendType ==
  ASSUME TypeInv, NEW b \in Budget, Spend(b)
  PROVE  used' \in [Budget -> Nat]
  BY DEF Spend, TypeInv, TypeOK

(* What a process that is not idle refers to.                               *)
LEMMA BusyTypes ==
  ASSUME TypeInv, NEW p \in Process, pc[p] # "idle"
  PROVE  /\ job[p] \in Job /\ view[p] \in View
         /\ RunOf(p) \in Run /\ job[p].run \in Run
         /\ job[p].item \in ItemState /\ job[p].exc \in {"none", "stage", "raw"}
         /\ job[p].stage \in 0 .. LastStage
         /\ view[p].mem \in RunRecord /\ view[p].record \in RunRecord
         /\ view[p].batch \in SUBSET Url /\ view[p].known \in SUBSET Url
         /\ view[p].listing \in SUBSET Row
         /\ runs[RunOf(p)] \in RunRecord
         /\ urls[RunOf(p)] \in SUBSET Row /\ pages[RunOf(p)] \in SUBSET Row
         /\ UrlsOf(urls[RunOf(p)]) \in SUBSET Url /\ UrlsOf(pages[RunOf(p)]) \in SUBSET Url
         /\ artifacts[RunOf(p)].saved \in BOOLEAN
         /\ msgs[RunOf(p)] \in Nat
  <1>1. /\ job[p] \in Job /\ view[p] \in View
        /\ RunOf(p) \in Run /\ job[p].run \in Run
    BY DEF TypeInv, TypeOK, BusyHasRun, RunOf
  <1>2. /\ job[p].item \in ItemState /\ job[p].exc \in {"none", "stage", "raw"}
        /\ job[p].stage \in 0 .. LastStage
    BY <1>1 DEF Job
  <1>3. /\ view[p].mem \in RunRecord /\ view[p].record \in RunRecord
        /\ view[p].batch \in SUBSET Url /\ view[p].known \in SUBSET Url
        /\ view[p].listing \in SUBSET Row
    BY <1>1 DEF View
  <1>4. /\ runs[RunOf(p)] \in RunRecord
        /\ urls[RunOf(p)] \in SUBSET Row /\ pages[RunOf(p)] \in SUBSET Row
        /\ artifacts[RunOf(p)].saved \in BOOLEAN
        /\ msgs[RunOf(p)] \in Nat
    BY <1>1 DEF TypeInv, TypeOK
  <1>5. UrlsOf(urls[RunOf(p)]) \in SUBSET Url /\ UrlsOf(pages[RunOf(p)]) \in SUBSET Url
    BY <1>4, UrlsOfType
  <1>. QED
    BY <1>1, <1>2, <1>3, <1>4, <1>5

(* A step of a busy process that keeps its run keeps BusyHasRun.            *)
LEMMA BusyKept ==
  ASSUME TypeInv, NEW p \in Process, pc[p] # "idle",
         pc' \in [Process -> Label], \A q \in Process \ {p} : pc'[q] = pc[q],
         \A q \in Process : job'[q].run = job[q].run
  PROVE  BusyHasRun'
  BY DEF TypeInv, BusyHasRun

LEMMA GotoType ==
  ASSUME TypeInv, NEW p \in Process, NEW l \in Label, Goto(p, l)
  PROVE  /\ pc' \in [Process -> Label]
         /\ pc'[p] = l
         /\ \A q \in Process \ {p} : pc'[q] = pc[q]
  BY DEF TypeInv, TypeOK, Goto

LEMMA JobStep ==
  ASSUME TypeInv, NEW p \in Process, NEW j \in Job, job' = [job EXCEPT ![p] = j]
  PROVE  /\ job' \in [Process -> Job]
         /\ j.run = job[p].run => \A q \in Process : job'[q].run = job[q].run
  BY DEF TypeInv, TypeOK

LEMMA ViewStep ==
  ASSUME TypeInv, NEW p \in Process, NEW v \in View, view' = [view EXCEPT ![p] = v]
  PROVE  view' \in [Process -> View]
  BY DEF TypeInv, TypeOK

LEMMA ResetType ==
  ASSUME TypeInv, NEW P, Reset(P)
  PROVE  /\ pc' \in [Process -> Label]
         /\ job' \in [Process -> Job]
         /\ view' \in [Process -> View]
         /\ BusyHasRun'
  BY NoJobType, NoViewType DEF TypeInv, TypeOK, BusyHasRun, Reset, Label

LEMMA InitType == Init => TypeInv
  BY NoJobType, NoViewType, BlankType, BoundAssumption
  DEF Init, TypeInv, TypeOK, BusyHasRun, RunStatus, ItemState, Outcome, Execution, Label

LEMMA TypeStep == TypeInv /\ [Next]_vars => TypeInv'
  <1>. SUFFICES ASSUME TypeInv, [Next]_vars PROVE TypeInv'
    OBVIOUS
  <1>1. ASSUME NEW p \in Process, CreateQueuedItem(p) PROVE TypeInv'
    <2>0. pc[p] # "idle"
      BY <1>1 DEF CreateQueuedItem
    <2>1. \E l \in Label : Goto(p, l)
      BY <1>1 DEF CreateQueuedItem, Label
    <2>2. pc' \in [Process -> Label] /\ BusyHasRun'
      BY <1>1, <2>0, <2>1, GotoType, BusyKept DEF CreateQueuedItem, broker
    <2>3. items' \in [Run \X Execution \X Stage -> ItemState]
      BY <1>1 DEF CreateQueuedItem, TypeInv, TypeOK, ItemState
    <2>. QED
      BY <1>1, <2>2, <2>3 DEF CreateQueuedItem, TypeInv, TypeOK, content, trail, broker
  <1>2. ASSUME NEW p \in Process, Publish(p) PROVE TypeInv'
    <2>0. pc[p] # "idle"
      BY <1>2 DEF Publish
    <2>1. pc' \in [Process -> Label] /\ job' \in [Process -> Job] /\ view' \in [Process -> View] /\ BusyHasRun'
      BY <1>2, ResetType DEF Publish
    <2>2. msgs' \in [Run -> Nat]
      BY <1>2, <2>0, BusyTypes DEF Publish, TypeInv, TypeOK
    <2>. QED
      BY <1>2, <2>1, <2>2 DEF Publish, TypeInv, TypeOK, content, trail, broker
  <1>3. ASSUME NEW p \in Process, Load(p) PROVE TypeInv'
    <2>0. pc[p] # "idle"
      BY <1>3 DEF Load
    <2>1. \E l \in Label : Goto(p, l)
      BY <1>3 DEF Load, Label
    <2>2. pc' \in [Process -> Label] /\ BusyHasRun'
      BY <1>3, <2>0, <2>1, GotoType, BusyKept DEF Load, broker
    <2>3. WithMem(view[p], Started(runs[RunOf(p)])) \in View
      <3>1. view[p] \in View /\ runs[RunOf(p)] \in RunRecord
        BY <2>0, BusyTypes
      <3>2. Started(runs[RunOf(p)]) \in RunRecord
        BY <3>1, StartedType
      <3>. QED
        BY <3>1, <3>2, ViewUpdates
    <2>4. view' \in [Process -> View]
      BY <1>3, <2>3, ViewStep DEF Load, TypeInv, TypeOK
    <2>. QED
      BY <1>3, <2>2, <2>4 DEF Load, TypeInv, TypeOK, content, trail, broker
  <1>4. ASSUME NEW p \in Process, UpdateGet(p) PROVE TypeInv'
    <2>0. pc[p] # "idle"
      BY <1>4 DEF UpdateGet
    <2>1. \E l \in Label : Goto(p, l)
      BY <1>4 DEF UpdateGet, Label
    <2>2. pc' \in [Process -> Label] /\ BusyHasRun'
      BY <1>4, <2>0, <2>1, GotoType, BusyKept DEF UpdateGet, broker
    <2>3. [view[p] EXCEPT !.record = runs[RunOf(p)]] \in View
      BY <2>0, BusyTypes, ViewUpdates
    <2>4. view' \in [Process -> View]
      BY <1>4, <2>3, ViewStep DEF UpdateGet
    <2>. QED
      BY <1>4, <2>2, <2>4 DEF UpdateGet, TypeInv, TypeOK, content, trail, broker
  <1>5. ASSUME NEW p \in Process, UpdateCommit(p) PROVE TypeInv'
    <2>0. pc[p] # "idle"
      BY <1>5 DEF UpdateCommit
    <2>1. \E l \in Label : Goto(p, l)
      BY <1>5 DEF UpdateCommit, Label
    <2>2. [job[p] EXCEPT !.stage = 1] \in Job /\ [job[p] EXCEPT !.stage = 1].run = job[p].run
      <3>1. job[p] \in Job
        BY <2>0, BusyTypes
      <3>2. 1 \in 0 .. LastStage
        BY DEF LastStage
      <3>. QED
        BY <3>1, <3>2, JobUpdates
    <2>3. job' \in [Process -> Job] /\ \A q \in Process : job'[q].run = job[q].run
      BY <1>5, <2>2, JobStep DEF UpdateCommit, TypeInv, TypeOK
    <2>4. pc' \in [Process -> Label] /\ BusyHasRun'
      BY <1>5, <2>0, <2>1, <2>3, GotoType, BusyKept DEF UpdateCommit
    <2>5. \A row \in UpdatedRows(runs[RunOf(p)], view[p].record, view[p].mem) : row \in RunRecord
      BY <2>0, BusyTypes, UpdatedRowsType
    <2>6. runs' \in [Run -> RunRecord]
      BY <1>5, <2>5 DEF UpdateCommit, TypeInv, TypeOK
    <2>. QED
      BY <1>5, <2>3, <2>4, <2>6 DEF UpdateCommit, TypeInv, TypeOK, content, trail, broker
  <1>6. ASSUME NEW p \in Process, NewItem(p) PROVE TypeInv'
    <2>0. pc[p] # "idle"
      BY <1>6 DEF NewItem
    <2>1. \E l \in Label : Goto(p, l)
      BY <1>6 DEF NewItem, Label
    <2>2. [job[p] EXCEPT !.item = "queued"] \in Job /\ [job[p] EXCEPT !.item = "queued"].run = job[p].run
      BY <2>0, BusyTypes, JobUpdates DEF ItemState
    <2>3. job' \in [Process -> Job] /\ \A q \in Process : job'[q].run = job[q].run
      BY <1>6, <2>2, JobStep DEF NewItem, TypeInv, TypeOK
    <2>4. pc' \in [Process -> Label] /\ BusyHasRun'
      BY <1>6, <2>0, <2>1, <2>3, GotoType, BusyKept DEF NewItem
    <2>5. items' \in [Run \X Execution \X Stage -> ItemState]
      BY <1>6 DEF NewItem, TypeInv, TypeOK, ItemState
    <2>. QED
      BY <1>6, <2>3, <2>4, <2>5 DEF NewItem, TypeInv, TypeOK, content, trail, broker
  <1>7. ASSUME NEW p \in Process, StartItem(p) PROVE TypeInv'
    <2>0. pc[p] # "idle"
      BY <1>7 DEF StartItem
    <2>1. Body(job[p].stage) \in Label
      BY <1>7 DEF StartItem, Body, Label
    <2>2. \E l \in Label : Goto(p, l)
      BY <1>7, <2>1, GotoType DEF StartItem
    <2>3. [job[p] EXCEPT !.item = "processing"] \in Job /\ [job[p] EXCEPT !.item = "processing"].run = job[p].run
      BY <2>0, BusyTypes, JobUpdates DEF ItemState
    <2>4. job' \in [Process -> Job] /\ \A q \in Process : job'[q].run = job[q].run
      BY <1>7, <2>3, JobStep DEF StartItem, TypeInv, TypeOK
    <2>5. pc' \in [Process -> Label] /\ BusyHasRun'
      BY <1>7, <2>0, <2>2, <2>4, GotoType, BusyKept DEF StartItem
    <2>6. items' \in [Run \X Execution \X Stage -> ItemState]
      BY <1>7 DEF StartItem, TypeInv, TypeOK, ItemState
    <2>. QED
      BY <1>7, <2>4, <2>5, <2>6 DEF StartItem, TypeInv, TypeOK, content, trail, broker
  <1>8. ASSUME NEW p \in Process, Discover(p) PROVE TypeInv'
    <2>0. pc[p] # "idle"
      BY <1>8 DEF Discover
    <2>1. \E l \in Label : Goto(p, l)
      BY <1>8 DEF Discover, Label
    <2>2. pc' \in [Process -> Label] /\ BusyHasRun'
      BY <1>8, <2>0, <2>1, GotoType, BusyKept DEF Discover, broker
    <2>3. \A found \in SUBSET Url : Holding(view[p], found, UrlsOf(urls[RunOf(p)])) \in View
      BY <2>0, BusyTypes, ViewUpdates
    <2>4. view' \in [Process -> View]
      BY <1>8, <2>3, ViewStep DEF Discover, TypeInv, TypeOK
    <2>. QED
      BY <1>8, <2>2, <2>4 DEF Discover, TypeInv, TypeOK, content, trail, broker
  <1>9. ASSUME NEW p \in Process, AddUrls(p) PROVE TypeInv'
    <2>0. pc[p] # "idle"
      BY <1>9 DEF AddUrls
    <2>1. \E l \in Label : Goto(p, l)
      BY <1>9 DEF AddUrls, Label
    <2>2. pc' \in [Process -> Label] /\ BusyHasRun'
      BY <1>9, <2>0, <2>1, GotoType, BusyKept DEF AddUrls, broker
    <2>3. RowsFor(SeedOf[p], Missing(view[p].batch, view[p].known)) \in SUBSET Row
      BY <2>0, BusyTypes, RowsForType DEF Missing
    <2>4. urls' \in [Run -> SUBSET Row]
      <3>1. urls \in [Run -> SUBSET Row]
        BY DEF TypeInv, TypeOK
      <3>2. \/ UNCHANGED urls
            \/ urls' = [urls EXCEPT ![RunOf(p)] =
                          @ \union RowsFor(SeedOf[p], Missing(view[p].batch, view[p].known))]
        BY <1>9 DEF AddUrls
      <3>. QED
        BY <2>3, <3>1, <3>2
    <2>. QED
      BY <1>9, <2>2, <2>4 DEF AddUrls, TypeInv, TypeOK, content, trail, broker
  <1>10. ASSUME NEW p \in Process, Extract(p) PROVE TypeInv'
    <2>0. pc[p] # "idle"
      BY <1>10 DEF Extract
    <2>1. \E l \in Label : Goto(p, l)
      BY <1>10 DEF Extract, Label
    <2>2. pc' \in [Process -> Label] /\ BusyHasRun'
      BY <1>10, <2>0, <2>1, GotoType, BusyKept DEF Extract, broker
    <2>3. \A fetched \in SUBSET Fetchable(RunOf(p)) : Holding(view[p], fetched, UrlsOf(pages[RunOf(p)])) \in View
      BY <2>0, BusyTypes, ViewUpdates DEF Fetchable
    <2>4. view' \in [Process -> View]
      BY <1>10, <2>3, ViewStep DEF Extract, TypeInv, TypeOK
    <2>. QED
      BY <1>10, <2>2, <2>4 DEF Extract, TypeInv, TypeOK, content, trail, broker
  <1>11. ASSUME NEW p \in Process, Upsert(p) PROVE TypeInv'
    <2>0. pc[p] # "idle"
      BY <1>11 DEF Upsert
    <2>1. \E l \in Label : Goto(p, l)
      BY <1>11 DEF Upsert, Label
    <2>2. pc' \in [Process -> Label] /\ BusyHasRun'
      BY <1>11, <2>0, <2>1, GotoType, BusyKept DEF Upsert, broker
    <2>3. \A late \in SUBSET UrlsOf(pages[RunOf(p)]) : RowsFor(SeedOf[p], Missing(view[p].batch, view[p].known \union late)) \in SUBSET Row
      BY <2>0, BusyTypes, RowsForType DEF Missing
    <2>4. pages' \in [Run -> SUBSET Row]
      <3>1. pages \in [Run -> SUBSET Row] /\ pages[RunOf(p)] \in SUBSET Row
        BY <2>0, BusyTypes DEF TypeInv, TypeOK
      <3>. QED
        BY <1>11, <2>3, <3>1 DEF Upsert
    <2>5. validators \in SUBSET Url
      BY <1>11 DEF Upsert, TypeInv, TypeOK
    <2>6. [view[p] EXCEPT !.known = validators] \in View
      BY <2>0, <2>5, BusyTypes, ViewUpdates
    <2>7. view' \in [Process -> View]
      BY <1>11, <2>6, ViewStep DEF Upsert, TypeInv, TypeOK
    <2>. QED
      BY <1>11, <2>2, <2>4, <2>7 DEF Upsert, TypeInv, TypeOK, content, trail, broker
  <1>12. ASSUME NEW p \in Process, SetValidator(p) PROVE TypeInv'
    <2>0. pc[p] # "idle"
      BY <1>12 DEF SetValidator
    <2>1. \E l \in Label : Goto(p, l)
      BY <1>12 DEF SetValidator, Label
    <2>2. pc' \in [Process -> Label] /\ BusyHasRun'
      BY <1>12, <2>0, <2>1, GotoType, BusyKept DEF SetValidator, broker
    <2>3. validators \in SUBSET Url
      BY <1>12 DEF SetValidator, TypeInv, TypeOK
    <2>4. \A u \in view[p].batch : u \in Url /\ Holding(view[p], view[p].batch \ {u}, validators \union {u}) \in View
      BY <2>0, <2>3, BusyTypes, ViewUpdates
    <2>5. view' \in [Process -> View]
      BY <1>12, <2>4, ViewStep DEF SetValidator, TypeInv, TypeOK
    <2>6. validators' \subseteq Url
      BY <1>12, <2>3, <2>4 DEF SetValidator
    <2>. QED
      BY <1>12, <2>2, <2>5, <2>6 DEF SetValidator, TypeInv, TypeOK, content, trail, broker
  <1>13. ASSUME NEW p \in Process, Canonicalize(p) PROVE TypeInv'
    <2>0. pc[p] # "idle"
      BY <1>13 DEF Canonicalize
    <2>1. \E l \in Label : Goto(p, l)
      BY <1>13 DEF Canonicalize, Label
    <2>2. pc' \in [Process -> Label] /\ BusyHasRun'
      BY <1>13, <2>0, <2>1, GotoType, BusyKept DEF Canonicalize, broker
    <2>3. {Canonical[u] : u \in UrlsOf(pages[RunOf(p)])} \in SUBSET Url
      BY <2>0, BusyTypes, CanonicalAssumption
    <2>4. Holding(view[p], {Canonical[u] : u \in UrlsOf(pages[RunOf(p)])}, UrlsOf(pages[RunOf(p)])) \in View
      BY <2>0, <2>3, BusyTypes, ViewUpdates
    <2>5. view' \in [Process -> View]
      BY <1>13, <2>4, ViewStep DEF Canonicalize
    <2>. QED
      BY <1>13, <2>2, <2>5 DEF Canonicalize, TypeInv, TypeOK, content, trail, broker
  <1>14. ASSUME NEW p \in Process, Score(p) PROVE TypeInv'
    <2>0. pc[p] # "idle"
      BY <1>14 DEF Score
    <2>1. \E l \in Label : Goto(p, l)
      BY <1>14 DEF Score, Label
    <2>2. pc' \in [Process -> Label] /\ BusyHasRun'
      BY <1>14, <2>0, <2>1, GotoType, BusyKept DEF Score, broker
    <2>3. view' \in [Process -> View]
      BY <1>14, <2>0, BusyTypes, ViewUpdates, ViewStep DEF Score
    <2>. QED
      BY <1>14, <2>2, <2>3 DEF Score, TypeInv, TypeOK, content, trail, broker
  <1>15. ASSUME NEW p \in Process, Generate(p) PROVE TypeInv'
    <2>0. pc[p] # "idle"
      BY <1>15 DEF Generate
    <2>1. \E l \in Label : Goto(p, l)
      BY <1>15 DEF Generate, Label
    <2>2. pc' \in [Process -> Label] /\ BusyHasRun'
      BY <1>15, <2>0, <2>1, GotoType, BusyKept DEF Generate, broker
    <2>3. Listing(view[p], pages[RunOf(p)], artifacts[RunOf(p)].saved) \in View
      BY <2>0, BusyTypes, ViewUpdates
    <2>4. view' \in [Process -> View]
      BY <1>15, <2>3, ViewStep DEF Generate
    <2>. QED
      BY <1>15, <2>2, <2>4 DEF Generate, TypeInv, TypeOK, content, trail, broker
  <1>16. ASSUME NEW p \in Process, SaveArtifact(p) PROVE TypeInv'
    <2>0. pc[p] # "idle"
      BY <1>16 DEF SaveArtifact
    <2>1. \E l \in Label : Goto(p, l)
      BY <1>16 DEF SaveArtifact, Label
    <2>2. pc' \in [Process -> Label] /\ BusyHasRun'
      BY <1>16, <2>0, <2>1, GotoType, BusyKept DEF SaveArtifact, broker
    <2>3. WithPath(view[p]) \in View
      BY <2>0, BusyTypes, ViewUpdates
    <2>4. view' \in [Process -> View]
      BY <1>16, <2>3, ViewStep DEF SaveArtifact, TypeInv, TypeOK
    <2>5. Merged(artifacts[RunOf(p)], view[p].listing) \in [saved : BOOLEAN, rows : SUBSET Row]
      BY <2>0, BusyTypes DEF Merged
    <2>6. artifacts' \in [Run -> [saved : BOOLEAN, rows : SUBSET Row]]
      BY <1>16, <2>5 DEF SaveArtifact, TypeInv, TypeOK
    <2>. QED
      BY <1>16, <2>2, <2>4, <2>6 DEF SaveArtifact, TypeInv, TypeOK, content, trail, broker
  <1>17. ASSUME NEW p \in Process, CompleteItem(p) PROVE TypeInv'
    <2>0. pc[p] # "idle"
      BY <1>17 DEF CompleteItem
    <2>1. \E l \in Label : Goto(p, l)
      BY <1>17 DEF CompleteItem, Label
    <2>2. [job[p] EXCEPT !.item = "completed"] \in Job /\ [job[p] EXCEPT !.item = "completed"].run = job[p].run
      BY <2>0, BusyTypes, JobUpdates DEF ItemState
    <2>3. job' \in [Process -> Job] /\ \A q \in Process : job'[q].run = job[q].run
      BY <1>17, <2>2, JobStep DEF CompleteItem, TypeInv, TypeOK
    <2>4. pc' \in [Process -> Label] /\ BusyHasRun'
      BY <1>17, <2>0, <2>1, <2>3, GotoType, BusyKept DEF CompleteItem
    <2>5. items' \in [Run \X Execution \X Stage -> ItemState]
      BY <1>17 DEF CompleteItem, TypeInv, TypeOK, ItemState
    <2>. QED
      BY <1>17, <2>3, <2>4, <2>5 DEF CompleteItem, TypeInv, TypeOK, content, trail, broker
  <1>18. ASSUME NEW p \in Process, FailItem(p) PROVE TypeInv'
    <2>0. pc[p] # "idle"
      BY <1>18 DEF FailItem
    <2>1. \E l \in Label : Goto(p, l)
      BY <1>18 DEF FailItem, Label
    <2>2. \A i \in {"failed", job[p].item} : /\ Raising(job[p], i, RaisedWith(job[p].item)) \in Job
                /\ Raising(job[p], i, RaisedWith(job[p].item)).run = job[p].run
      <3>1. job[p] \in Job /\ job[p].item \in ItemState
        BY <2>0, BusyTypes
      <3>2. "failed" \in ItemState /\ RaisedWith(job[p].item) \in {"none", "stage", "raw"}
        BY <3>1, RaisedWithType DEF ItemState
      <3>. QED
        BY <3>1, <3>2, RaisingType
    <2>3. job' \in [Process -> Job] /\ \A q \in Process : job'[q].run = job[q].run
      BY <1>18, <2>2, JobStep DEF FailItem, TypeInv, TypeOK
    <2>4. pc' \in [Process -> Label] /\ BusyHasRun'
      BY <1>18, <2>0, <2>1, <2>3, GotoType, BusyKept DEF FailItem
    <2>5. items' \in [Run \X Execution \X Stage -> ItemState]
      BY <1>18 DEF FailItem, TypeInv, TypeOK, ItemState
    <2>. QED
      BY <1>18, <2>3, <2>4, <2>5 DEF FailItem, TypeInv, TypeOK, content, trail, broker
  <1>19. ASSUME NEW p \in Process, StageEvent(p) PROVE TypeInv'
    <2>0. pc[p] # "idle"
      BY <1>19 DEF StageEvent
    <2>1. \E l \in Label : Goto(p, l)
      BY <1>19 DEF StageEvent, Label
    <2>2. ~PlanDone(job[p].stage) => [job[p] EXCEPT !.stage = job[p].stage + 1] \in Job /\ [job[p] EXCEPT !.stage = job[p].stage + 1].run = job[p].run
      <3>1. job[p] \in Job /\ job[p].stage \in 0 .. LastStage
        BY <2>0, BusyTypes
      <3>2. ~PlanDone(job[p].stage) => job[p].stage + 1 \in 0 .. LastStage
        BY <3>1 DEF PlanDone, LastStage
      <3>. QED
        BY <3>1, <3>2, JobUpdates
    <2>3. job' \in [Process -> Job] /\ \A q \in Process : job'[q].run = job[q].run
      BY <1>19, <2>2, JobStep DEF StageEvent, TypeInv, TypeOK
    <2>4. pc' \in [Process -> Label] /\ BusyHasRun'
      BY <1>19, <2>0, <2>1, <2>3, GotoType, BusyKept DEF StageEvent
    <2>5. \A o \in {"completed", "failed"} : WithMem(view[p], EndedRun(view[p].mem, o)) \in View
      <3>1. view[p] \in View /\ view[p].mem \in RunRecord
        BY <2>0, BusyTypes
      <3>2. \A o \in {"completed", "failed"} : EndedRun(view[p].mem, o) \in RunRecord
        BY <3>1, EndedRunType DEF RunStatus
      <3>. QED
        BY <3>1, <3>2, ViewUpdates
    <2>6. view' \in [Process -> View]
      BY <1>19, <2>5, ViewStep DEF StageEvent, TypeInv, TypeOK
    <2>7. events' \in [Run \X Execution \X (0 .. LastStage) -> Outcome]
      BY <1>19, <2>0, BusyTypes, OutcomeType DEF StageEvent, TypeInv, TypeOK
    <2>. QED
      BY <1>19, <2>3, <2>4, <2>6, <2>7 DEF StageEvent, TypeInv, TypeOK, content, trail, broker
  <1>20. ASSUME NEW p \in Process, RunEvent(p) PROVE TypeInv'
    <2>0. pc[p] # "idle"
      BY <1>20 DEF RunEvent
    <2>1. \E l \in Label : Goto(p, l)
      BY <1>20 DEF RunEvent, Label
    <2>2. pc' \in [Process -> Label] /\ BusyHasRun'
      BY <1>20, <2>0, <2>1, GotoType, BusyKept DEF RunEvent, broker
    <2>3. events' \in [Run \X Execution \X (0 .. LastStage) -> Outcome]
      BY <1>20 DEF RunEvent, TypeInv, TypeOK, Outcome
    <2>. QED
      BY <1>20, <2>2, <2>3 DEF RunEvent, TypeInv, TypeOK, content, trail, broker
  <1>21. ASSUME NEW p \in Process, Finish(p) PROVE TypeInv'
    <2>0. pc[p] # "idle"
      BY <1>21 DEF Finish
    <2>1. pc' \in [Process -> Label] /\ job' \in [Process -> Job] /\ view' \in [Process -> View] /\ BusyHasRun'
      BY <1>21, ResetType DEF Finish
    <2>. QED
      BY <1>21, <2>1 DEF Finish, TypeInv, TypeOK, content, trail, broker
  <1>22. ASSUME NEW p \in Process, DbError(p) PROVE TypeInv'
    <2>. USE <1>22 DEF DbError
    <2>1. used' \in [Budget -> Nat]
      BY SpendType DEF Budget
    <2>2. CASE pc[p] = "create_item"
      <3>1. Reset({p})
        BY <2>2 DEF StageBody, StageUpdate
      <3>. QED
        BY <2>1, <3>1, ResetType DEF TypeInv, TypeOK, content, trail
    <2>3. CASE pc[p] # "create_item"
      <3>1. pc[p] # "idle" /\ UNCHANGED view /\ \E l \in Label : Goto(p, l)
        BY <2>3 DEF StageBody, StageUpdate, Label
      <3>2. /\ [job[p] EXCEPT !.item = "completed"] \in Job
            /\ [job[p] EXCEPT !.item = "completed"].run = job[p].run
            /\ Raising(job[p], "failed", "raw") \in Job
            /\ Raising(job[p], "failed", "raw").run = job[p].run
        BY <3>1, BusyTypes, JobUpdates DEF ItemState
      <3>3. job' \in [Process -> Job] /\ \A q \in Process : job'[q].run = job[q].run
        BY <2>3, <3>2, JobStep DEF TypeInv, TypeOK
      <3>4. pc' \in [Process -> Label] /\ BusyHasRun'
        BY <3>1, <3>3, GotoType, BusyKept
      <3>. QED
        BY <2>1, <3>1, <3>3, <3>4 DEF TypeInv, TypeOK, content, trail
    <2>. QED
      BY <2>2, <2>3
  <1>23. ASSUME NEW a \in ApiThread, NEW r \in Run, CreateRun(a, r) PROVE TypeInv'
    <2>1. a \in Process /\ job[a] \in Job
      BY DEF Process, TypeInv, TypeOK
    <2>2. [job[a] EXCEPT !.run = r] \in Job /\ [job[a] EXCEPT !.run = r].run = r
      BY <2>1, JobUpdates
    <2>. USE <1>23 DEF CreateRun
    <2>3. job' \in [Process -> Job] /\ job'[a].run = r /\ \A q \in Process \ {a} : job'[q] = job[q]
      BY <2>1, <2>2 DEF TypeInv, TypeOK
    <2>4. pc' \in [Process -> Label] /\ \A q \in Process \ {a} : pc'[q] = pc[q]
      BY <2>1, GotoType DEF Label
    <2>5. BusyHasRun'
      BY <2>3, <2>4 DEF TypeInv, BusyHasRun
    <2>6. runs' \in [Run -> RunRecord]
      BY BlankType DEF TypeInv, TypeOK, RunStatus
    <2>. QED
      BY <2>3, <2>4, <2>5, <2>6 DEF TypeInv, TypeOK, content, trail, broker
  <1>24. ASSUME NEW p \in Process, NEW r \in Run, NEW b \in BOOLEAN, Begin(p, r, b)
         PROVE  /\ pc' \in [Process -> Label] /\ job' \in [Process -> Job]
                /\ execs' \in [Run -> Execution] /\ BusyHasRun'
    <2>. USE <1>24 DEF Begin
    <2>1. execs[r] + 1 \in Execution
      BY BoundAssumption DEF TypeInv, TypeOK, Execution
    <2>2. /\ [NoJob EXCEPT !.run = r, !.exec = execs[r] + 1, !.unacked = b] \in Job
          /\ [NoJob EXCEPT !.run = r, !.exec = execs[r] + 1, !.unacked = b].run = r
      BY <2>1, NewJobType
    <2>3. job' \in [Process -> Job] /\ job'[p].run = r /\ \A q \in Process \ {p} : job'[q] = job[q]
      BY <2>2 DEF TypeInv, TypeOK
    <2>4. pc' \in [Process -> Label] /\ \A q \in Process \ {p} : pc'[q] = pc[q]
      BY GotoType DEF Label
    <2>5. BusyHasRun'
      BY <2>3, <2>4 DEF TypeInv, BusyHasRun
    <2>. QED
      BY <2>1, <2>3, <2>4, <2>5 DEF TypeInv, TypeOK
  <1>25. ASSUME NEW w \in Worker, NEW r \in Run, Deliver(w, r) PROVE TypeInv'
    <2>1. msgs' \in [Run -> Nat]
      BY <1>25 DEF Deliver, TypeInv, TypeOK
    <2>. QED
      BY <1>24, <1>25, <2>1 DEF Deliver, Process, TypeInv, TypeOK, content, trail
  <1>26. ASSUME NEW a \in ApiThread, NEW r \in Run, ProcessRequest(a, r) PROVE TypeInv'
    <2>1. used' \in [Budget -> Nat]
      BY <1>26, SpendType DEF ProcessRequest, Budget
    <2>. QED
      BY <1>24, <1>26, <2>1 DEF ProcessRequest, Process, TypeInv, TypeOK, content, trail
  <1>27. ASSUME NEW a \in ApiThread, PublishFails(a) PROVE TypeInv'
    <2>1. used' \in [Budget -> Nat]
      BY <1>27, SpendType DEF PublishFails, Budget
    <2>. QED
      BY <1>27, <2>1, ResetType DEF PublishFails, TypeInv, TypeOK, content, trail
  <1>28. ASSUME NEW w \in Worker, Crash(w) PROVE TypeInv'
    <2>1. used' \in [Budget -> Nat]
      BY <1>28, SpendType DEF Crash, Budget
    <2>2. msgs' \in [Run -> Nat]
      <3>1. w \in Process /\ pc[w] # "idle"
        BY <1>28 DEF Crash, Process
      <3>. QED
        BY <1>28, <3>1, BusyTypes DEF Crash, TypeInv, TypeOK
    <2>. QED
      BY <1>28, <2>1, <2>2, ResetType DEF Crash, TypeInv, TypeOK, content, trail
  <1>29. ASSUME ApiCrash PROVE TypeInv'
    <2>1. used' \in [Budget -> Nat]
      BY <1>29, SpendType DEF ApiCrash, Budget
    <2>. QED
      BY <1>29, <2>1, ResetType DEF ApiCrash, TypeInv, TypeOK, content, trail
  <1>30. ASSUME NEW w \in Worker, VisibilityTimeout(w) PROVE TypeInv'
    <2>1. w \in Process /\ job[w] \in Job
      BY DEF Process, TypeInv, TypeOK
    <2>2. [job[w] EXCEPT !.unacked = FALSE] \in Job /\ [job[w] EXCEPT !.unacked = FALSE].run = job[w].run
      BY <2>1, JobUpdates
    <2>. USE <1>30 DEF VisibilityTimeout
    <2>3. job' \in [Process -> Job] /\ \A q \in Process : job'[q].run = job[q].run
      BY <2>1, <2>2, JobStep
    <2>4. used' \in [Budget -> Nat]
      BY SpendType DEF Budget
    <2>5. msgs' \in [Run -> Nat]
      BY <2>1, BusyTypes DEF TypeInv, TypeOK
    <2>. QED
      BY <2>3, <2>4, <2>5 DEF TypeInv, TypeOK, BusyHasRun, content, trail
  <1>31. CASE UNCHANGED vars
    BY <1>31 DEF vars, TypeInv, TypeOK, BusyHasRun
  <1>32. ASSUME NEW p \in Process, Advance(p) PROVE TypeInv'
    BY <1>32, <1>1, <1>2, <1>3, <1>4, <1>5, <1>6, <1>7, <1>8, <1>9, <1>10, <1>11, <1>12, <1>13, <1>14, <1>15, <1>16, <1>17, <1>18, <1>19, <1>20, <1>21 DEF Advance
  <1>. QED
    BY <1>22, <1>23, <1>25, <1>26, <1>27, <1>28, <1>29, <1>30, <1>31, <1>32 DEF Next

(* Every state keeps its types, and every busy process has a run to work on.*)
THEOREM TypeCorrect == Spec => []TypeOK
  <1>1. TypeInv => TypeOK
    BY DEF TypeInv
  <1>. QED
    BY <1>1, InitType, TypeStep, PTL DEF Spec

-----------------------------------------------------------------------------
(* The inductive invariant.                                                 *)

(* Nothing a process relies on is ever taken back.                          *)
Grows == \A r \in Run :
  /\ artifacts[r].saved => artifacts'[r].saved
  /\ runs[r].status # "absent" => runs'[r].status # "absent"
  /\ Begun(runs[r].status) => Begun(runs'[r].status)

Local(p) == LabelOK(p) /\ MemoryOK(p) /\ PhaseOK(p)
Untouched(q) == pc'[q] = pc[q] /\ job'[q] = job[q] /\ view'[q] = view[q]

(* A process that a step leaves alone keeps its part of the invariant.      *)
LEMMA OtherProcess ==
  ASSUME TypeInv, Grows, NEW q \in Process, Local(q), Untouched(q)
  PROVE  Local(q)'
  <1>1. pc[q] # "idle" => RunOf(q) \in Run
    BY DEF TypeInv, BusyHasRun, RunOf
  <1>2. pc'[q] = pc[q] /\ job'[q] = job[q] /\ view'[q] = view[q] /\ RunOf(q)' = RunOf(q)
    BY DEF Untouched, RunOf
  <1>3. LabelOK(q)'
    BY <1>2 DEF Local, LabelOK
  <1>4. MemoryOK(q)'
    BY <1>1, <1>2 DEF Local, MemoryOK, Generated, Updating, Grows
  <1>5. PhaseOK(q)'
    BY <1>1, <1>2 DEF Local, PhaseOK, InStages, Updating, Grows
  <1>. QED
    BY <1>3, <1>4, <1>5 DEF Local

LEMMA OneProcess ==
  ASSUME IInv, TypeInv', Grows, NEW p \in Process,
         \A q \in Process \ {p} : Untouched(q),
         Local(p)', \A r \in Run : RowOK(r)'
  PROVE  IInv'
  <1>1. \A q \in Process : Local(q)'
    BY OtherProcess DEF IInv, Local
  <1>. QED
    BY <1>1 DEF IInv, Local

LEMMA SameRows ==
  ASSUME IInv, UNCHANGED <<runs, artifacts>>
  PROVE  Grows /\ \A r \in Run : RowOK(r)'
  BY DEF IInv, Grows, RowOK

(* What the memory of a process says about the run after each update.       *)
LEMMA Fields ==
  ASSUME NEW v \in View
  PROVE  /\ \A m \in RunRecord : WithMem(v, m).mem = m
         /\ \A b, k : Holding(v, b, k).mem = v.mem /\ Holding(v, b, k).record = v.record
         /\ \A l, f : Listing(v, l, f).mem = v.mem /\ Listing(v, l, f).record = v.record
         /\ \A k : [v EXCEPT !.known = k].mem = v.mem /\ [v EXCEPT !.known = k].record = v.record
         /\ WithScore(v).mem.status = v.mem.status
         /\ WithScore(v).mem.artifact_path = v.mem.artifact_path
         /\ WithPath(v).mem.status = v.mem.status
  BY DEF View, RunRecord, WithMem, Holding, Listing, WithScore, WithPath

LEMMA StepOf ==
  ASSUME TypeInv, NEW p \in Process
  PROVE  /\ \A l : Goto(p, l) => pc'[p] = l /\ \A q \in Process \ {p} : pc'[q] = pc[q]
         /\ \A j : job' = [job EXCEPT ![p] = j] =>
               job'[p] = j /\ \A q \in Process \ {p} : job'[q] = job[q]
         /\ \A v : view' = [view EXCEPT ![p] = v] =>
               view'[p] = v /\ \A q \in Process \ {p} : view'[q] = view[q]
  BY DEF TypeInv, TypeOK, Goto

LEMMA ResetLocal ==
  ASSUME IInv, NEW P \in SUBSET Process, Reset(P), UNCHANGED <<runs, artifacts>>, TypeInv'
  PROVE  IInv'
  <1>1. Grows /\ \A r \in Run : RowOK(r)'
    BY SameRows
  <1>2. ASSUME NEW q \in P PROVE Local(q)'
    BY <1>2 DEF Reset, Local, LabelOK, MemoryOK, PhaseOK, InStages, Updating
  <1>3. ASSUME NEW q \in Process \ P PROVE Local(q)'
    <2>1. Untouched(q)
      BY <1>3 DEF Reset, Untouched
    <2>. QED
      BY <1>1, <2>1, OtherProcess DEF IInv, Local
  <1>. QED
    BY <1>1, <1>2, <1>3 DEF IInv, Local

(* A step inside a stage's execute function that touches neither the run's  *)
(* row nor its artifact.                                                    *)
LEMMA BodyStep ==
  ASSUME IInv, NEW p \in Process, InStages(p), ~Updating(p), UNCHANGED <<runs, artifacts>>,
         job'[p] = job[p], view'[p].mem = view[p].mem,
         pc'[p] \in {"add_urls", "upsert", "set_validators", "save_artifact",
                     "complete_item", "fail_item"},
         pc'[p] = "complete_item" => job[p].stage # LastStage
  PROVE  MemoryOK(p)' /\ PhaseOK(p)'
  <1>1. RunOf(p)' = RunOf(p) /\ pc[p] # "idle" /\ ~Updating(p)' /\ ~Generated(p)'
    BY DEF RunOf, InStages, Updating, Generated
  <1>2. MemoryOK(p)'
    BY <1>1 DEF IInv, MemoryOK
  <1>3. PhaseOK(p)'
    BY <1>1 DEF IInv, PhaseOK, Updating
  <1>. QED
    BY <1>2, <1>3

(* A step towards the end of process_run: a stage fails, or process_run is  *)
(* left.                                                                    *)
LEMMA LeavingStep ==
  ASSUME IInv, NEW p \in Process, pc[p] # "idle", UNCHANGED <<runs, artifacts>>,
         job'[p].run = job[p].run, job'[p].stage = job[p].stage, view'[p] = view[p],
         \/ pc'[p] = "finish"
         \/ InStages(p) /\ pc'[p] = "fail_item"
         \/ InStages(p) /\ pc'[p] = "stage_event" /\ job'[p].exc # "none"
  PROVE  Local(p)'
  <1>1. RunOf(p)' = RunOf(p) /\ ~Updating(p)' /\ ~Generated(p)'
    BY DEF RunOf, Updating, Generated
  <1>2. LabelOK(p)'
    BY DEF LabelOK
  <1>3. MemoryOK(p)'
    BY <1>1 DEF IInv, MemoryOK
  <1>4. PhaseOK(p)'
    BY <1>1 DEF IInv, PhaseOK, InStages, Updating
  <1>. QED
    BY <1>2, <1>3, <1>4 DEF Local

(* A step of an idle process to a handler that has not read anything yet.   *)
LEMMA StartingStep ==
  ASSUME IInv, NEW p \in Process, pc[p] = "idle", view'[p] = view[p],
         pc'[p] \in {"create_item", "load"}, pc'[p] = "load" => job'[p].stage = 0
  PROVE  Local(p)'
  <1>1. view'[p] = NoView
    BY DEF IInv, MemoryOK
  <1>2. ~view'[p].mem.artifact_path /\ view'[p].mem.status = "absent"
    BY <1>1 DEF NoView, Blank
  <1>3. LabelOK(p)'
    BY DEF LabelOK
  <1>4. MemoryOK(p)'
    BY <1>1, <1>2 DEF MemoryOK, Generated, Updating
  <1>5. PhaseOK(p)'
    BY DEF PhaseOK, InStages, Updating
  <1>. QED
    BY <1>3, <1>4, <1>5 DEF Local

LEMMA EndedRunFields ==
  ASSUME NEW m \in RunRecord, NEW outcome
  PROVE  /\ EndedRun(m, outcome).status = outcome
         /\ EndedRun(m, outcome).artifact_path = m.artifact_path
  BY DEF EndedRun, RunRecord

LEMMA RaisingFields ==
  ASSUME NEW j \in Job, NEW item, NEW exc
  PROVE  /\ Raising(j, item, exc).run = j.run
         /\ Raising(j, item, exc).stage = j.stage
         /\ Raising(j, item, exc).exc = exc
  BY DEF Raising, Job

LEMMA InitIInv == Init => IInv
  BY InitType DEF Init, IInv, LabelOK, MemoryOK, PhaseOK, RowOK, InStages, Updating, Blank, Begun

LEMMA IInvStep == IInv /\ [Next]_vars => IInv'
  <1>. SUFFICES ASSUME IInv, [Next]_vars PROVE IInv'
    OBVIOUS
  <1>0. TypeInv /\ TypeInv'
    BY TypeStep DEF IInv
  <1>1. ASSUME NEW p \in Process, CreateQueuedItem(p) PROVE IInv'
    <2>1. pc[p] # "idle"
      BY <1>1 DEF CreateQueuedItem
    <2>2. \A q \in Process \ {p} : Untouched(q)
      BY <1>1, <1>0, StepOf DEF CreateQueuedItem, Untouched, broker
    <2>3. Grows /\ \A r \in Run : RowOK(r)'
      BY <1>1, SameRows DEF CreateQueuedItem, content
    <2>4. LabelOK(p)'
      BY <1>1, <1>0, StepOf DEF IInv, CreateQueuedItem, LabelOK, broker
    <2>5. MemoryOK(p)'
      BY <1>1, <1>0, <2>1, StepOf DEF IInv, CreateQueuedItem, LabelOK, MemoryOK, PhaseOK, Generated, Updating, InStages, RunOf, content, broker
    <2>6. PhaseOK(p)'
      BY <1>1, <1>0, <2>1, StepOf DEF IInv, CreateQueuedItem, LabelOK, PhaseOK, Updating, InStages, RunOf, content, broker
    <2>. QED
      BY <1>0, <2>2, <2>3, <2>4, <2>5, <2>6, OneProcess DEF Local
  <1>2. ASSUME NEW p \in Process, Publish(p) PROVE IInv'
    <2>1. p \in Process /\ Reset({p}) /\ UNCHANGED <<runs, artifacts>>
      BY <1>2 DEF Publish, content
    <2>. QED
      BY <2>1, <1>0, ResetLocal
  <1>3. ASSUME NEW p \in Process, Load(p) PROVE IInv'
    <2>1. pc[p] # "idle"
      BY <1>3 DEF Load
    <2>2. \A q \in Process \ {p} : Untouched(q)
      BY <1>3, <1>0, StepOf DEF Load, Untouched, broker
    <2>3. Grows /\ \A r \in Run : RowOK(r)'
      BY <1>3, SameRows DEF Load, content
    <2>4. view[p] \in View /\ runs[RunOf(p)] \in RunRecord /\ RunOf(p) \in Run
      BY <1>0, <2>1, BusyTypes
    <2>5. job'[p] = job[p] /\ RunOf(p)' = RunOf(p) /\ job[p].stage = 0 /\ UNCHANGED <<runs, artifacts>>
      BY <1>3 DEF Load, IInv, LabelOK, broker, RunOf, content
    <2>6. CASE runs[RunOf(p)].status = "absent"
      <3>1. pc'[p] = "finish" /\ view'[p] = view[p]
        BY <1>3, <1>0, <2>6, StepOf DEF Load
      <3>2. Local(p)'
        BY <1>3, <2>1, <2>5, <3>1 DEF Load, IInv, Local, LabelOK, MemoryOK, PhaseOK, InStages, Updating, Generated
      <3>. QED
        BY <1>0, <2>2, <2>3, <3>2, OneProcess
    <2>7. CASE runs[RunOf(p)].status # "absent"
      <3>1. /\ pc'[p] = "update_get"
            /\ view'[p] = WithMem(view[p], Started(runs[RunOf(p)]))
        BY <1>3, <1>0, <2>7, StepOf DEF Load
      <3>2. view'[p].mem = Started(runs[RunOf(p)])
        BY <2>4, <3>1, StartedType, Fields
      <3>3. /\ view'[p].mem.status = "running"
            /\ view'[p].mem.artifact_path = runs[RunOf(p)].artifact_path
        BY <2>4, <3>2 DEF Started, RunRecord
      <3>4. LabelOK(p)'
        BY <3>1 DEF LabelOK
      <3>5. MemoryOK(p)'
        BY <2>4, <2>5, <3>1, <3>3 DEF IInv, RowOK, MemoryOK, Generated, LastStage
      <3>6. PhaseOK(p)'
        BY <2>5, <2>7, <3>1, <3>3 DEF PhaseOK, InStages, Updating, Begun
      <3>. QED
        BY <1>0, <2>2, <2>3, <3>4, <3>5, <3>6, OneProcess DEF Local
    <2>. QED
      BY <2>6, <2>7
  <1>4. ASSUME NEW p \in Process, UpdateGet(p) PROVE IInv'
    <2>1. pc[p] # "idle"
      BY <1>4 DEF UpdateGet
    <2>2. \A q \in Process \ {p} : Untouched(q)
      BY <1>4, <1>0, StepOf DEF UpdateGet, Untouched, broker
    <2>3. Grows /\ \A r \in Run : RowOK(r)'
      BY <1>4, SameRows DEF UpdateGet, content
    <2>4. view[p] \in View /\ runs[RunOf(p)] \in RunRecord /\ RunOf(p) \in Run
      BY <1>0, <2>1, BusyTypes
    <2>5. /\ job'[p] = job[p] /\ RunOf(p)' = RunOf(p) /\ UNCHANGED <<runs, artifacts>>
          /\ pc[p] = "update_get" /\ pc'[p] = "update_commit"
      BY <1>4, <1>0, StepOf DEF UpdateGet, broker, RunOf, content
    <2>6. view'[p] = [view[p] EXCEPT !.record = runs[RunOf(p)]]
      <3>1. view \in [Process -> View]
        BY <1>0 DEF TypeInv, TypeOK
      <3>2. view' = [view EXCEPT ![p].record = runs[RunOf(p)]]
        BY <1>4 DEF UpdateGet
      <3>. QED
        BY <3>1, <3>2
    <2>7. view'[p].mem = view[p].mem /\ view'[p].record = runs[RunOf(p)]
      BY <2>4, <2>6 DEF View
    <2>8. LabelOK(p)'
      BY <2>5 DEF LabelOK
    <2>9. MemoryOK(p)'
      BY <2>5, <2>7 DEF IInv, MemoryOK, Generated, Updating
    <2>10. PhaseOK(p)'
      BY <2>5, <2>7 DEF IInv, PhaseOK, InStages, Updating
    <2>. QED
      BY <1>0, <2>2, <2>3, <2>8, <2>9, <2>10, OneProcess DEF Local
  <1>5. ASSUME NEW p \in Process, UpdateCommit(p) PROVE IInv'
    <2>1. pc[p] # "idle"
      BY <1>5 DEF UpdateCommit
    <2>2. \A q \in Process \ {p} : Untouched(q)
      BY <1>5, <1>0, StepOf DEF UpdateCommit, Untouched, broker
    <2>3. /\ view[p] \in View /\ RunOf(p) \in Run /\ runs[RunOf(p)] \in RunRecord
          /\ view[p].mem \in RunRecord /\ view[p].record \in RunRecord
      BY <1>0, <2>1, BusyTypes
    <2>4. /\ view'[p] = view[p] /\ RunOf(p)' = RunOf(p) /\ UNCHANGED artifacts
          /\ pc[p] = "update_commit" /\ job'[p].exc = job[p].exc
      <3>1. job'[p] \in {job[p], [job[p] EXCEPT !.stage = 1]} /\ job[p] \in Job
        BY <1>5, <1>0, <2>1, StepOf, BusyTypes DEF UpdateCommit
      <3>. QED
        BY <1>5, <3>1 DEF UpdateCommit, RunOf, content, Job
    <2>5. PICK row \in UpdatedRows(runs[RunOf(p)], view[p].record, view[p].mem) :
             runs' = [runs EXCEPT ![RunOf(p)] = row]
      BY <1>5 DEF UpdateCommit
    <2>6. /\ row \in RunRecord
          /\ \/ row.status = view[p].mem.status
             \/ row.status = runs[RunOf(p)].status /\ view[p].mem.status = view[p].record.status
          /\ row.artifact_path \in {runs[RunOf(p)].artifact_path, view[p].mem.artifact_path}
      BY <2>3, UpdatedRowsType
    <2>7. /\ runs'[RunOf(p)] = row
          /\ \A r \in Run \ {RunOf(p)} : runs'[r] = runs[r]
      BY <1>0, <2>3, <2>5 DEF TypeInv, TypeOK
    <2>8. Begun(row.status)
      BY <2>4, <2>6 DEF IInv, PhaseOK, Updating
    <2>9. Grows
      BY <2>4, <2>7, <2>8 DEF Grows, Begun
    <2>10. \A r \in Run : RowOK(r)'
      <3>1. view[p].mem.artifact_path \/ view[p].mem.status = "completed" => artifacts[RunOf(p)].saved
        BY <2>1 DEF IInv, MemoryOK
      <3>2. runs[RunOf(p)].artifact_path \/ runs[RunOf(p)].status = "completed" => artifacts[RunOf(p)].saved
        BY <2>3 DEF IInv, RowOK
      <3>3. row.artifact_path \/ row.status = "completed" => artifacts[RunOf(p)].saved
        BY <2>3, <2>6, <3>1, <3>2
      <3>. QED
        BY <2>4, <2>7, <3>3 DEF IInv, RowOK
    <2>11. /\ Begun(view[p].mem.status)
           /\ view[p].mem.status \notin Terminal => view[p].mem.status = "running"
      BY <2>3, <2>4 DEF IInv, PhaseOK, Updating, Begun, Terminal, RunRecord, RunStatus
    <2>12. job[p] \in Job /\ [job[p] EXCEPT !.stage = 1].stage = 1
      BY <1>0, <2>1, BusyTypes DEF Job
    <2>13. job[p].stage \in Nat /\ (job[p].stage = 0 => view[p].mem.status = "running")
      BY <2>4, <2>12 DEF IInv, PhaseOK, Updating, Job, LastStage
    <2>14. \/ pc'[p] = "run_event" /\ job'[p] = job[p] /\ job[p].stage > 0
           \/ pc'[p] = "new_item" /\ job'[p].stage = 1
           \/ /\ pc'[p] = "complete_item" /\ job'[p] = job[p] /\ job[p].stage > 0
              /\ view[p].mem.status = "running"
      <3>1. CASE view[p].mem.status \in Terminal
        BY <1>5, <1>0, <2>13, <3>1, StepOf DEF UpdateCommit, Terminal
      <3>2. CASE view[p].mem.status \notin Terminal /\ job[p].stage = 0
        <4>1. job' = [job EXCEPT ![p].stage = 1] /\ pc'[p] = "new_item"
          BY <1>5, <1>0, <3>2, StepOf DEF UpdateCommit
        <4>. QED
          BY <1>0, <2>12, <4>1 DEF TypeInv, TypeOK
      <3>3. CASE view[p].mem.status \notin Terminal /\ job[p].stage # 0
        BY <1>5, <1>0, <2>13, <2>11, <3>3, StepOf DEF UpdateCommit
      <3>. QED
        BY <3>1, <3>2, <3>3
    <2>15. LabelOK(p)'
      BY <2>14 DEF LabelOK
    <2>16. MemoryOK(p)'
      BY <2>1, <2>4, <2>14 DEF IInv, MemoryOK, Generated, Updating
    <2>17. PhaseOK(p)'
      BY <2>4, <2>7, <2>8, <2>11, <2>14 DEF PhaseOK, InStages, Updating, Begun
    <2>. QED
      BY <1>0, <2>2, <2>9, <2>10, <2>15, <2>16, <2>17, OneProcess DEF Local
  <1>6. ASSUME NEW p \in Process, NewItem(p) PROVE IInv'
    <2>1. pc[p] # "idle"
      BY <1>6 DEF NewItem
    <2>2. \A q \in Process \ {p} : Untouched(q)
      BY <1>6, <1>0, StepOf DEF NewItem, Untouched, broker
    <2>3. Grows /\ \A r \in Run : RowOK(r)'
      BY <1>6, SameRows DEF NewItem, content
    <2>4. LabelOK(p)'
      BY <1>6, <1>0, StepOf DEF IInv, NewItem, LabelOK, broker
    <2>5. MemoryOK(p)'
      BY <1>6, <1>0, <2>1, StepOf DEF IInv, NewItem, LabelOK, MemoryOK, PhaseOK, Generated, Updating, InStages, RunOf, content, broker
    <2>6. PhaseOK(p)'
      BY <1>6, <1>0, <2>1, StepOf DEF IInv, NewItem, LabelOK, PhaseOK, Updating, InStages, RunOf, content, broker
    <2>. QED
      BY <1>0, <2>2, <2>3, <2>4, <2>5, <2>6, OneProcess DEF Local
  <1>7. ASSUME NEW p \in Process, StartItem(p) PROVE IInv'
    <2>1. pc[p] # "idle"
      BY <1>7 DEF StartItem
    <2>2. \A q \in Process \ {p} : Untouched(q)
      BY <1>7, <1>0, StepOf DEF StartItem, Untouched, broker
    <2>3. Grows /\ \A r \in Run : RowOK(r)'
      BY <1>7, SameRows DEF StartItem, content
    <2>4. LabelOK(p)'
      <3>1. job[p].stage \in 0 .. LastStage /\ job[p].stage > 0
        BY <1>0, <1>7, <2>1, BusyTypes DEF StartItem, IInv, PhaseOK, InStages, Updating
      <3>2. pc'[p] = Body(job[p].stage)
        BY <1>7, <1>0, StepOf DEF StartItem
      <3>3. job'[p].stage = job[p].stage
        <4>1. job'[p] = [job[p] EXCEPT !.item = "processing"] /\ job[p] \in Job
          BY <1>7, <1>0, <2>1, BusyTypes DEF StartItem, TypeInv, TypeOK
        <4>. QED
          BY <4>1 DEF Job
      <3>. QED
        BY <3>1, <3>2, <3>3 DEF LabelOK, Body, LastStage
    <2>5. MemoryOK(p)'
      BY <1>7, <1>0, <2>1, StepOf DEF IInv, StartItem, LabelOK, MemoryOK, PhaseOK, Generated, Updating, InStages, RunOf, content, broker, Body
    <2>6. PhaseOK(p)'
      BY <1>7, <1>0, <2>1, StepOf DEF IInv, StartItem, LabelOK, PhaseOK, Updating, InStages, RunOf, content, broker, Body
    <2>. QED
      BY <1>0, <2>2, <2>3, <2>4, <2>5, <2>6, OneProcess DEF Local
  <1>8. ASSUME NEW p \in Process, Discover(p) PROVE IInv'
    <2>1. pc[p] # "idle"
      BY <1>8 DEF Discover
    <2>2. \A q \in Process \ {p} : Untouched(q)
      BY <1>8, <1>0, StepOf DEF Discover, Untouched, broker
    <2>3. Grows /\ \A r \in Run : RowOK(r)'
      BY <1>8, SameRows DEF Discover, content
    <2>4. view[p] \in View
      BY <1>0, <2>1, BusyTypes
    <2>5. job'[p] = job[p] /\ view'[p].mem = view[p].mem
      <3>1. CASE view' = view
        BY <1>8, <3>1 DEF Discover
      <3>2. CASE \E b, k : view' = [view EXCEPT ![p] = Holding(@, b, k)]
        <4>1. PICK b, k : view' = [view EXCEPT ![p] = Holding(@, b, k)]
          BY <3>2
        <4>2. view'[p] = Holding(view[p], b, k)
          BY <1>0, <4>1, StepOf
        <4>. QED
          BY <1>8, <2>4, <4>2, Fields DEF Discover
      <3>. QED
        BY <1>8, <3>1, <3>2 DEF Discover
    <2>6. /\ pc'[p] \in {"add_urls", "upsert", "set_validators", "save_artifact",
                        "complete_item", "fail_item"}
          /\ pc'[p] = "complete_item" => job[p].stage # LastStage
          /\ LabelOK(p)'
      BY <1>8, <1>0, <2>5, StepOf DEF IInv, Discover, LabelOK
    <2>7. InStages(p) /\ ~Updating(p) /\ UNCHANGED <<runs, artifacts>>
      BY <1>8 DEF Discover, InStages, Updating, content
    <2>8. MemoryOK(p)' /\ PhaseOK(p)'
      BY <2>5, <2>6, <2>7, BodyStep
    <2>. QED
      BY <1>0, <2>2, <2>3, <2>6, <2>8, OneProcess DEF Local
  <1>9. ASSUME NEW p \in Process, AddUrls(p) PROVE IInv'
    <2>1. pc[p] # "idle"
      BY <1>9 DEF AddUrls
    <2>2. \A q \in Process \ {p} : Untouched(q)
      BY <1>9, <1>0, StepOf DEF AddUrls, Untouched, broker
    <2>3. Grows /\ \A r \in Run : RowOK(r)'
      BY <1>9, SameRows DEF AddUrls, content
    <2>4. view[p] \in View
      BY <1>0, <2>1, BusyTypes
    <2>5. job'[p] = job[p] /\ view'[p].mem = view[p].mem
      BY <1>9, <1>0, <2>4, StepOf, Fields DEF AddUrls, broker
    <2>6. /\ pc'[p] \in {"add_urls", "upsert", "set_validators", "save_artifact",
                        "complete_item", "fail_item"}
          /\ pc'[p] = "complete_item" => job[p].stage # LastStage
          /\ LabelOK(p)'
      BY <1>9, <1>0, <2>5, StepOf DEF IInv, AddUrls, LabelOK, LastStage
    <2>7. InStages(p) /\ ~Updating(p) /\ UNCHANGED <<runs, artifacts>>
      BY <1>9 DEF AddUrls, InStages, Updating, content
    <2>8. MemoryOK(p)' /\ PhaseOK(p)'
      BY <2>5, <2>6, <2>7, BodyStep
    <2>. QED
      BY <1>0, <2>2, <2>3, <2>6, <2>8, OneProcess DEF Local
  <1>10. ASSUME NEW p \in Process, Extract(p) PROVE IInv'
    <2>1. pc[p] # "idle"
      BY <1>10 DEF Extract
    <2>2. \A q \in Process \ {p} : Untouched(q)
      BY <1>10, <1>0, StepOf DEF Extract, Untouched, broker
    <2>3. Grows /\ \A r \in Run : RowOK(r)'
      BY <1>10, SameRows DEF Extract, content
    <2>4. view[p] \in View
      BY <1>0, <2>1, BusyTypes
    <2>5. job'[p] = job[p] /\ view'[p].mem = view[p].mem
      <3>1. CASE view' = view
        BY <1>10, <3>1 DEF Extract
      <3>2. CASE \E b, k : view' = [view EXCEPT ![p] = Holding(@, b, k)]
        <4>1. PICK b, k : view' = [view EXCEPT ![p] = Holding(@, b, k)]
          BY <3>2
        <4>2. view'[p] = Holding(view[p], b, k)
          BY <1>0, <4>1, StepOf
        <4>. QED
          BY <1>10, <2>4, <4>2, Fields DEF Extract
      <3>. QED
        BY <1>10, <3>1, <3>2 DEF Extract
    <2>6. /\ pc'[p] \in {"add_urls", "upsert", "set_validators", "save_artifact",
                        "complete_item", "fail_item"}
          /\ pc'[p] = "complete_item" => job[p].stage # LastStage
          /\ LabelOK(p)'
      BY <1>10, <1>0, <2>5, StepOf DEF IInv, Extract, LabelOK
    <2>7. InStages(p) /\ ~Updating(p) /\ UNCHANGED <<runs, artifacts>>
      BY <1>10 DEF Extract, InStages, Updating, content
    <2>8. MemoryOK(p)' /\ PhaseOK(p)'
      BY <2>5, <2>6, <2>7, BodyStep
    <2>. QED
      BY <1>0, <2>2, <2>3, <2>6, <2>8, OneProcess DEF Local
  <1>11. ASSUME NEW p \in Process, Upsert(p) PROVE IInv'
    <2>1. pc[p] # "idle"
      BY <1>11 DEF Upsert
    <2>2. \A q \in Process \ {p} : Untouched(q)
      BY <1>11, <1>0, StepOf DEF Upsert, Untouched, broker
    <2>3. Grows /\ \A r \in Run : RowOK(r)'
      BY <1>11, SameRows DEF Upsert, content
    <2>4. view[p] \in View
      BY <1>0, <2>1, BusyTypes
    <2>5. job'[p] = job[p] /\ view'[p].mem = view[p].mem
      <3>1. view' = view \/ view' = [view EXCEPT ![p].known = validators]
        BY <1>11 DEF Upsert
      <3>2. view'[p] \in {view[p], [view[p] EXCEPT !.known = validators]}
        BY <1>0, <3>1 DEF TypeInv, TypeOK
      <3>3. view'[p].mem = view[p].mem
        BY <2>4, <3>2 DEF View
      <3>. QED
        BY <1>11, <3>3 DEF Upsert
    <2>6. /\ pc'[p] \in {"add_urls", "upsert", "set_validators", "save_artifact",
                        "complete_item", "fail_item"}
          /\ pc'[p] = "complete_item" => job[p].stage # LastStage
          /\ LabelOK(p)'
      BY <1>11, <1>0, <2>5, StepOf DEF IInv, Upsert, LabelOK, LastStage
    <2>7. InStages(p) /\ ~Updating(p) /\ UNCHANGED <<runs, artifacts>>
      BY <1>11 DEF Upsert, InStages, Updating, content
    <2>8. MemoryOK(p)' /\ PhaseOK(p)'
      BY <2>5, <2>6, <2>7, BodyStep
    <2>. QED
      BY <1>0, <2>2, <2>3, <2>6, <2>8, OneProcess DEF Local
  <1>12. ASSUME NEW p \in Process, SetValidator(p) PROVE IInv'
    <2>1. pc[p] # "idle"
      BY <1>12 DEF SetValidator
    <2>2. \A q \in Process \ {p} : Untouched(q)
      BY <1>12, <1>0, StepOf DEF SetValidator, Untouched, broker
    <2>3. Grows /\ \A r \in Run : RowOK(r)'
      BY <1>12, SameRows DEF SetValidator, content
    <2>4. view[p] \in View
      BY <1>0, <2>1, BusyTypes
    <2>5. job'[p] = job[p] /\ view'[p].mem = view[p].mem
      <3>1. CASE view' = view
        BY <1>12, <3>1 DEF SetValidator
      <3>2. CASE \E b, k : view' = [view EXCEPT ![p] = Holding(@, b, k)]
        <4>1. PICK b, k : view' = [view EXCEPT ![p] = Holding(@, b, k)]
          BY <3>2
        <4>2. view'[p] = Holding(view[p], b, k)
          BY <1>0, <4>1, StepOf
        <4>. QED
          BY <1>12, <2>4, <4>2, Fields DEF SetValidator
      <3>. QED
        BY <1>12, <3>1, <3>2 DEF SetValidator
    <2>6. /\ pc'[p] \in {"add_urls", "upsert", "set_validators", "save_artifact",
                        "complete_item", "fail_item"}
          /\ pc'[p] = "complete_item" => job[p].stage # LastStage
          /\ LabelOK(p)'
      BY <1>12, <1>0, <2>5, StepOf DEF IInv, SetValidator, LabelOK, LastStage
    <2>7. InStages(p) /\ ~Updating(p) /\ UNCHANGED <<runs, artifacts>>
      BY <1>12 DEF SetValidator, InStages, Updating, content
    <2>8. MemoryOK(p)' /\ PhaseOK(p)'
      BY <2>5, <2>6, <2>7, BodyStep
    <2>. QED
      BY <1>0, <2>2, <2>3, <2>6, <2>8, OneProcess DEF Local
  <1>13. ASSUME NEW p \in Process, Canonicalize(p) PROVE IInv'
    <2>1. pc[p] # "idle"
      BY <1>13 DEF Canonicalize
    <2>2. \A q \in Process \ {p} : Untouched(q)
      BY <1>13, <1>0, StepOf DEF Canonicalize, Untouched, broker
    <2>3. Grows /\ \A r \in Run : RowOK(r)'
      BY <1>13, SameRows DEF Canonicalize, content
    <2>4. view[p] \in View
      BY <1>0, <2>1, BusyTypes
    <2>5. job'[p] = job[p] /\ view'[p].mem = view[p].mem
      BY <1>13, <1>0, <2>4, StepOf, Fields DEF Canonicalize, broker
    <2>6. /\ pc'[p] \in {"add_urls", "upsert", "set_validators", "save_artifact",
                        "complete_item", "fail_item"}
          /\ pc'[p] = "complete_item" => job[p].stage # LastStage
          /\ LabelOK(p)'
      BY <1>13, <1>0, <2>5, StepOf DEF IInv, Canonicalize, LabelOK
    <2>7. InStages(p) /\ ~Updating(p) /\ UNCHANGED <<runs, artifacts>>
      BY <1>13 DEF Canonicalize, InStages, Updating, content
    <2>8. MemoryOK(p)' /\ PhaseOK(p)'
      BY <2>5, <2>6, <2>7, BodyStep
    <2>. QED
      BY <1>0, <2>2, <2>3, <2>6, <2>8, OneProcess DEF Local
  <1>14. ASSUME NEW p \in Process, Score(p) PROVE IInv'
    <2>1. pc[p] # "idle"
      BY <1>14 DEF Score
    <2>2. \A q \in Process \ {p} : Untouched(q)
      BY <1>14, <1>0, StepOf DEF Score, Untouched, broker
    <2>3. Grows /\ \A r \in Run : RowOK(r)'
      BY <1>14, SameRows DEF Score, content
    <2>4. LabelOK(p)'
      BY <1>14, <1>0, StepOf, BusyTypes, Fields DEF IInv, Score, LabelOK, broker, LastStage
    <2>5. MemoryOK(p)'
      BY <1>14, <1>0, <2>1, StepOf, BusyTypes, Fields DEF IInv, Score, LabelOK, MemoryOK, PhaseOK, Generated, Updating, InStages, RunOf, content, broker, LastStage
    <2>6. PhaseOK(p)'
      BY <1>14, <1>0, <2>1, StepOf, BusyTypes, Fields DEF IInv, Score, LabelOK, PhaseOK, Updating, InStages, RunOf, content, broker, LastStage
    <2>. QED
      BY <1>0, <2>2, <2>3, <2>4, <2>5, <2>6, OneProcess DEF Local
  <1>15. ASSUME NEW p \in Process, Generate(p) PROVE IInv'
    <2>1. pc[p] # "idle"
      BY <1>15 DEF Generate
    <2>2. \A q \in Process \ {p} : Untouched(q)
      BY <1>15, <1>0, StepOf DEF Generate, Untouched, broker
    <2>3. Grows /\ \A r \in Run : RowOK(r)'
      BY <1>15, SameRows DEF Generate, content
    <2>4. view[p] \in View
      BY <1>0, <2>1, BusyTypes
    <2>5. job'[p] = job[p] /\ view'[p].mem = view[p].mem
      BY <1>15, <1>0, <2>4, StepOf, Fields DEF Generate, broker
    <2>6. /\ pc'[p] \in {"add_urls", "upsert", "set_validators", "save_artifact",
                        "complete_item", "fail_item"}
          /\ pc'[p] = "complete_item" => job[p].stage # LastStage
          /\ LabelOK(p)'
      BY <1>15, <1>0, <2>5, StepOf DEF IInv, Generate, LabelOK
    <2>7. InStages(p) /\ ~Updating(p) /\ UNCHANGED <<runs, artifacts>>
      BY <1>15 DEF Generate, InStages, Updating, content
    <2>8. MemoryOK(p)' /\ PhaseOK(p)'
      BY <2>5, <2>6, <2>7, BodyStep
    <2>. QED
      BY <1>0, <2>2, <2>3, <2>6, <2>8, OneProcess DEF Local
  <1>16. ASSUME NEW p \in Process, SaveArtifact(p) PROVE IInv'
    <2>1. pc[p] # "idle"
      BY <1>16 DEF SaveArtifact
    <2>2. \A q \in Process \ {p} : Untouched(q)
      BY <1>16, <1>0, StepOf DEF SaveArtifact, Untouched, broker
    <2>3. /\ view[p] \in View /\ RunOf(p) \in Run /\ RunOf(p)' = RunOf(p)
          /\ job'[p] = job[p] /\ pc[p] = "save_artifact" /\ UNCHANGED runs
      BY <1>16, <1>0, <2>1, BusyTypes DEF SaveArtifact, broker, RunOf
    <2>4. Grows
      BY <1>16, <1>0, <2>3 DEF SaveArtifact, Grows, Merged, TypeInv, TypeOK
    <2>5. \A r \in Run : RowOK(r)'
      BY <2>3, <2>4 DEF IInv, RowOK, Grows
    <2>6. ASSUME pc'[p] = "fail_item" PROVE Local(p)'
      <3>1. view'[p] = view[p] /\ UNCHANGED artifacts
        BY <1>16, <1>0, <2>6, StepOf DEF SaveArtifact
      <3>2. InStages(p)
        BY <2>3 DEF InStages, Updating
      <3>. QED
        BY <2>1, <2>3, <2>6, <3>1, <3>2, LeavingStep
    <2>7. ASSUME pc'[p] # "fail_item" PROVE Local(p)'
      <3>1. /\ pc'[p] = "update_get" /\ view'[p] = WithPath(view[p])
            /\ artifacts' = [artifacts EXCEPT ![RunOf(p)] = Merged(@, view[p].listing)]
        BY <1>16, <1>0, <2>7, StepOf DEF SaveArtifact
      <3>2. artifacts'[RunOf(p)].saved
        BY <1>0, <2>3, <3>1 DEF Merged, TypeInv, TypeOK
      <3>3. view'[p].mem.status = view[p].mem.status
        BY <2>3, <3>1, Fields
      <3>4. LabelOK(p)'
        BY <3>1 DEF LabelOK
      <3>5. MemoryOK(p)'
        BY <2>3, <3>1, <3>2 DEF MemoryOK
      <3>6. PhaseOK(p)'
        BY <2>3, <3>1, <3>3 DEF IInv, PhaseOK, InStages, Updating
      <3>. QED
        BY <3>4, <3>5, <3>6 DEF Local
    <2>. QED
      BY <1>0, <2>2, <2>4, <2>5, <2>6, <2>7, OneProcess
  <1>17. ASSUME NEW p \in Process, CompleteItem(p) PROVE IInv'
    <2>1. pc[p] # "idle"
      BY <1>17 DEF CompleteItem
    <2>2. \A q \in Process \ {p} : Untouched(q)
      BY <1>17, <1>0, StepOf DEF CompleteItem, Untouched, broker
    <2>3. Grows /\ \A r \in Run : RowOK(r)'
      BY <1>17, SameRows DEF CompleteItem, content
    <2>4. LabelOK(p)'
      BY <1>17, <1>0, StepOf DEF IInv, CompleteItem, LabelOK, broker
    <2>5. MemoryOK(p)'
      BY <1>17, <1>0, <2>1, StepOf DEF IInv, CompleteItem, LabelOK, MemoryOK, PhaseOK, Generated, Updating, InStages, RunOf, content, broker
    <2>6. PhaseOK(p)'
      BY <1>17, <1>0, <2>1, StepOf DEF IInv, CompleteItem, LabelOK, PhaseOK, Updating, InStages, RunOf, content, broker
    <2>. QED
      BY <1>0, <2>2, <2>3, <2>4, <2>5, <2>6, OneProcess DEF Local
  <1>18. ASSUME NEW p \in Process, FailItem(p) PROVE IInv'
    <2>1. pc[p] # "idle"
      BY <1>18 DEF FailItem
    <2>2. \A q \in Process \ {p} : Untouched(q)
      BY <1>18, <1>0, StepOf DEF FailItem, Untouched, broker
    <2>3. Grows /\ \A r \in Run : RowOK(r)'
      BY <1>18, SameRows DEF FailItem, content
    <2>4. job[p] \in Job /\ job[p].item \in ItemState
      BY <1>0, <2>1, BusyTypes
    <2>5. PICK item \in ItemState : job'[p] = Raising(job[p], item, RaisedWith(job[p].item))
      <3>1. CASE "failed" \in Allowed(job[p].item)
        BY <1>18, <1>0, <3>1, StepOf DEF FailItem, ItemState
      <3>2. CASE "failed" \notin Allowed(job[p].item)
        BY <1>18, <1>0, <2>4, <3>2, StepOf DEF FailItem
      <3>. QED
        BY <3>1, <3>2
    <2>6. /\ job'[p].run = job[p].run /\ job'[p].stage = job[p].stage
          /\ job'[p].exc # "none"
      BY <2>4, <2>5, RaisingFields DEF RaisedWith
    <2>7. /\ InStages(p) /\ pc'[p] = "stage_event" /\ view'[p] = view[p]
          /\ UNCHANGED <<runs, artifacts>>
      BY <1>18, <1>0, StepOf DEF FailItem, InStages, Updating, content
    <2>. QED
      BY <1>0, <2>1, <2>2, <2>3, <2>6, <2>7, LeavingStep, OneProcess
  <1>19. ASSUME NEW p \in Process, StageEvent(p) PROVE IInv'
    <2>1. pc[p] # "idle"
      BY <1>19 DEF StageEvent
    <2>2. \A q \in Process \ {p} : Untouched(q)
      BY <1>19, <1>0, StepOf DEF StageEvent, Untouched, broker
    <2>3. Grows /\ \A r \in Run : RowOK(r)'
      BY <1>19, SameRows DEF StageEvent, content
    <2>4. /\ view[p] \in View /\ job[p] \in Job /\ view[p].mem \in RunRecord
          /\ job[p].stage \in Nat
      BY <1>0, <2>1, BusyTypes DEF LastStage
    <2>5. /\ pc[p] = "stage_event" /\ InStages(p) /\ job[p].stage > 0
          /\ UNCHANGED <<runs, artifacts>>
      BY <1>19 DEF StageEvent, IInv, PhaseOK, InStages, Updating, content
    <2>6. ASSUME job[p].exc = "none" /\ ~PlanDone(job[p].stage) PROVE Local(p)'
      <3>1. /\ job' = [job EXCEPT ![p].stage = @ + 1] /\ pc'[p] = "new_item"
            /\ view'[p] = view[p]
        BY <1>19, <1>0, <2>6, StepOf DEF StageEvent
      <3>2. job'[p] = [job[p] EXCEPT !.stage = @ + 1]
        BY <1>0, <3>1 DEF TypeInv, TypeOK
      <3>3. job'[p].stage = job[p].stage + 1 /\ job'[p].run = job[p].run
        BY <2>4, <3>2 DEF Job
      <3>4. job'[p].stage > 0 /\ RunOf(p)' = RunOf(p)
        BY <2>4, <3>3 DEF RunOf
      <3>5. LabelOK(p)'
        BY <3>1 DEF LabelOK
      <3>6. MemoryOK(p)'
        BY <2>1, <2>5, <3>1, <3>4 DEF IInv, MemoryOK, Generated, Updating
      <3>7. PhaseOK(p)'
        BY <2>5, <3>1, <3>4 DEF IInv, PhaseOK, InStages, Updating
      <3>. QED
        BY <3>5, <3>6, <3>7 DEF Local
    <2>7. ASSUME job[p].exc = "none" /\ PlanDone(job[p].stage) PROVE Local(p)'
      <3>1. /\ job'[p] = job[p] /\ RunOf(p)' = RunOf(p) /\ pc'[p] = "update_get"
            /\ view'[p] = WithMem(view[p], EndedRun(view[p].mem, "completed"))
        BY <1>19, <1>0, <2>7, StepOf DEF StageEvent, RunOf
      <3>2. EndedRun(view[p].mem, "completed") \in RunRecord
        BY <2>4, EndedRunType DEF RunStatus
      <3>3. view'[p].mem.status = "completed"
        BY <2>4, <3>1, <3>2, EndedRunFields, Fields
      <3>4. artifacts[RunOf(p)].saved
        BY <2>5, <2>7 DEF IInv, MemoryOK, Generated, PlanDone
      <3>5. LabelOK(p)'
        BY <3>1 DEF LabelOK
      <3>6. MemoryOK(p)'
        BY <2>5, <3>1, <3>4 DEF MemoryOK
      <3>7. PhaseOK(p)'
        BY <2>5, <3>1, <3>3 DEF IInv, PhaseOK, InStages, Updating, Begun
      <3>. QED
        BY <3>5, <3>6, <3>7 DEF Local
    <2>8. ASSUME job[p].exc = "stage" PROVE Local(p)'
      <3>1. /\ job'[p] = job[p] /\ RunOf(p)' = RunOf(p) /\ pc'[p] = "update_get"
            /\ view'[p] = WithMem(view[p], EndedRun(view[p].mem, "failed"))
        BY <1>19, <1>0, <2>8, StepOf DEF StageEvent, RunOf
      <3>2. EndedRun(view[p].mem, "failed") \in RunRecord
        BY <2>4, EndedRunType DEF RunStatus
      <3>3. /\ view'[p].mem.status = "failed"
            /\ view'[p].mem.artifact_path = view[p].mem.artifact_path
        BY <2>4, <3>1, <3>2, EndedRunFields, Fields
      <3>4. LabelOK(p)'
        BY <3>1 DEF LabelOK
      <3>5. MemoryOK(p)'
        BY <2>1, <2>5, <3>1, <3>3 DEF IInv, MemoryOK, Generated
      <3>6. PhaseOK(p)'
        BY <2>5, <3>1, <3>3 DEF IInv, PhaseOK, InStages, Updating, Begun
      <3>. QED
        BY <3>4, <3>5, <3>6 DEF Local
    <2>9. ASSUME job[p].exc = "raw" PROVE Local(p)'
      <3>1. job'[p] = job[p] /\ view'[p] = view[p] /\ pc'[p] = "finish"
        BY <1>19, <1>0, <2>9, StepOf DEF StageEvent
      <3>. QED
        BY <2>1, <2>5, <3>1, LeavingStep
    <2>10. Local(p)'
      BY <1>19, <2>6, <2>7, <2>8, <2>9 DEF StageEvent
    <2>. QED
      BY <1>0, <2>2, <2>3, <2>10, OneProcess
  <1>20. ASSUME NEW p \in Process, RunEvent(p) PROVE IInv'
    <2>1. pc[p] # "idle"
      BY <1>20 DEF RunEvent
    <2>2. \A q \in Process \ {p} : Untouched(q)
      BY <1>20, <1>0, StepOf DEF RunEvent, Untouched, broker
    <2>3. Grows /\ \A r \in Run : RowOK(r)'
      BY <1>20, SameRows DEF RunEvent, content
    <2>4. LabelOK(p)'
      BY <1>20, <1>0, StepOf DEF IInv, RunEvent, LabelOK, broker
    <2>5. MemoryOK(p)'
      BY <1>20, <1>0, <2>1, StepOf DEF IInv, RunEvent, LabelOK, MemoryOK, PhaseOK, Generated, Updating, InStages, RunOf, content, broker
    <2>6. PhaseOK(p)'
      BY <1>20, <1>0, <2>1, StepOf DEF IInv, RunEvent, LabelOK, PhaseOK, Updating, InStages, RunOf, content, broker
    <2>. QED
      BY <1>0, <2>2, <2>3, <2>4, <2>5, <2>6, OneProcess DEF Local
  <1>21. ASSUME NEW p \in Process, Finish(p) PROVE IInv'
    BY <1>0, <1>21, ResetLocal DEF Finish, content
  <1>22. ASSUME NEW p \in Process, DbError(p) PROVE IInv'
    <2>1. UNCHANGED <<runs, artifacts>>
      BY <1>22 DEF DbError, content
    <2>2. CASE pc[p] = "create_item"
      <3>1. Reset({p}) /\ {p} \in SUBSET Process
        BY <1>22, <2>2 DEF DbError, StageBody, StageUpdate
      <3>. QED
        BY <1>0, <2>1, <3>1, ResetLocal
    <2>3. CASE pc[p] # "create_item"
      <3>1. pc[p] # "idle"
        BY <1>22, <2>3 DEF DbError, StageBody, StageUpdate
      <3>2. job[p] \in Job
        BY <1>0, <3>1, BusyTypes
      <3>3. \A q \in Process \ {p} : Untouched(q)
        BY <1>22, <1>0, <2>3, StepOf DEF DbError, Untouched
      <3>4. view'[p] = view[p]
        BY <1>22, <2>3 DEF DbError
      <3>5. \/ pc'[p] = "finish" /\ job'[p] = job[p]
            \/ /\ pc'[p] = "fail_item"
               /\ job'[p] = job[p] \/ job'[p] = [job[p] EXCEPT !.item = "completed"]
               /\ pc[p] \in StageBody \union {"complete_item"} \/ StageUpdate(p)
            \/ /\ pc'[p] = "stage_event" /\ pc[p] = "fail_item"
               /\ job'[p] = Raising(job[p], "failed", "raw")
        BY <1>22, <1>0, <2>3, StepOf DEF DbError
      <3>6. job'[p].run = job[p].run /\ job'[p].stage = job[p].stage
        BY <3>2, <3>5, RaisingFields DEF Job
      <3>7. \/ pc'[p] = "finish"
            \/ InStages(p) /\ pc'[p] = "fail_item"
            \/ InStages(p) /\ pc'[p] = "stage_event" /\ job'[p].exc # "none"
        BY <3>2, <3>5, RaisingFields DEF InStages, Updating, StageBody, StageUpdate
      <3>8. Local(p)'
        BY <2>1, <3>1, <3>4, <3>6, <3>7, LeavingStep
      <3>. QED
        BY <1>0, <2>1, <3>3, <3>8, SameRows, OneProcess
    <2>. QED
      BY <2>2, <2>3
  <1>23. ASSUME NEW a \in ApiThread, NEW r \in Run, CreateRun(a, r) PROVE IInv'
    <2>1. /\ a \in Process /\ pc[a] = "idle" /\ pc'[a] = "create_item"
          /\ view'[a] = view[a] /\ UNCHANGED artifacts
      BY <1>23, <1>0, StepOf DEF CreateRun, Process, content
    <2>2. \A q \in Process \ {a} : Untouched(q)
      BY <1>23, <1>0, <2>1, StepOf DEF CreateRun, Untouched
    <2>3. /\ runs[r].status = "absent" /\ runs'[r] = Blank("queued")
          /\ \A x \in Run \ {r} : runs'[x] = runs[x]
      BY <1>23, <1>0 DEF CreateRun, TypeInv, TypeOK
    <2>4. Grows /\ \A x \in Run : RowOK(x)'
      BY <2>1, <2>3 DEF IInv, Grows, RowOK, Begun, Blank
    <2>5. Local(a)'
      BY <2>1, StartingStep
    <2>. QED
      BY <1>0, <2>1, <2>2, <2>4, <2>5, OneProcess
  <1>24. ASSUME NEW p \in Process, NEW r \in Run, NEW b \in BOOLEAN, Begin(p, r, b),
                UNCHANGED <<runs, artifacts, view>> PROVE IInv'
    <2>1. pc[p] = "idle" /\ pc'[p] = "load"
      BY <1>24, <1>0, StepOf DEF Begin
    <2>2. job'[p] = [NoJob EXCEPT !.run = r, !.exec = execs[r] + 1, !.unacked = b]
      BY <1>24, <1>0 DEF Begin, TypeInv, TypeOK
    <2>3. job'[p].stage = 0
      BY <2>2 DEF NoJob
    <2>4. \A q \in Process \ {p} : Untouched(q)
      BY <1>24, <1>0, StepOf DEF Begin, Untouched
    <2>5. Local(p)'
      BY <1>24, <2>1, <2>3, StartingStep
    <2>. QED
      BY <1>0, <1>24, <2>4, <2>5, SameRows, OneProcess
  <1>25. ASSUME NEW w \in Worker, NEW r \in Run, Deliver(w, r) PROVE IInv'
    BY <1>24, <1>25 DEF Deliver, Process, content
  <1>26. ASSUME NEW a \in ApiThread, NEW r \in Run, ProcessRequest(a, r) PROVE IInv'
    BY <1>24, <1>26 DEF ProcessRequest, Process, content
  <1>27. ASSUME NEW a \in ApiThread, PublishFails(a) PROVE IInv'
    BY <1>0, <1>27, ResetLocal DEF PublishFails, Process, content
  <1>28. ASSUME NEW w \in Worker, Crash(w) PROVE IInv'
    BY <1>0, <1>28, ResetLocal DEF Crash, Process, content
  <1>29. ASSUME ApiCrash PROVE IInv'
    BY <1>0, <1>29, ResetLocal DEF ApiCrash, Process, content
  <1>30. ASSUME NEW w \in Worker, VisibilityTimeout(w) PROVE IInv'
    <2>1. /\ w \in Process /\ job[w] \in Job
          /\ job' = [job EXCEPT ![w].unacked = FALSE]
          /\ UNCHANGED <<runs, artifacts, pc, view>>
      BY <1>30, <1>0 DEF VisibilityTimeout, Process, TypeInv, TypeOK, content
    <2>2. \A q \in Process \ {w} : Untouched(q)
      BY <1>0, <2>1, StepOf DEF Untouched
    <2>3. /\ job'[w].run = job[w].run /\ job'[w].stage = job[w].stage
          /\ job'[w].exc = job[w].exc
      BY <1>0, <2>1, StepOf DEF Job
    <2>4. RunOf(w)' = RunOf(w)
      BY <2>3 DEF RunOf
    <2>5. LabelOK(w)'
      BY <2>1, <2>3 DEF IInv, LabelOK
    <2>6. MemoryOK(w)'
      BY <2>1, <2>3, <2>4 DEF IInv, MemoryOK, Generated, Updating
    <2>7. PhaseOK(w)'
      BY <2>1, <2>3, <2>4 DEF IInv, PhaseOK, InStages, Updating
    <2>. QED
      BY <1>0, <2>1, <2>2, <2>5, <2>6, <2>7, SameRows, OneProcess DEF Local
  <1>31. CASE UNCHANGED vars
    <2>1. Grows /\ \A r \in Run : RowOK(r)'
      BY <1>31, SameRows DEF vars
    <2>2. \A p \in Process : Untouched(p)
      BY <1>31 DEF vars, Untouched
    <2>3. \A p \in Process : Local(p)'
      BY <1>0, <2>1, <2>2, OtherProcess DEF IInv, Local
    <2>. QED
      BY <1>0, <2>1, <2>3 DEF IInv, Local
  <1>32. ASSUME NEW p \in Process, Advance(p) PROVE IInv'
    BY <1>32, <1>1, <1>2, <1>3, <1>4, <1>5, <1>6, <1>7, <1>8, <1>9, <1>10, <1>11, <1>12, <1>13, <1>14, <1>15, <1>16, <1>17, <1>18, <1>19, <1>20, <1>21 DEF Advance
  <1>. QED
    BY <1>22, <1>23, <1>25, <1>26, <1>27, <1>28, <1>29, <1>30, <1>31, <1>32 DEF Next

-----------------------------------------------------------------------------
(* Theorems.                                                                *)

(* The strengthened invariant holds in every reachable state.               *)
THEOREM Inductive == Spec => []IInv
  BY InitIInv, IInvStep, PTL DEF Spec

(* A run that is shown as completed has an llms.txt to serve, whatever the  *)
(* number of workers, API threads, executions, crashes and failed calls:    *)
(* process_run says completed only after its own save_artifact, and no      *)
(* stale copy of the row can bring a completed status back without it.      *)
THEOREM CompletedRunsAreServable == Spec => []CompletedHasArtifact
  <1>1. IInv => CompletedHasArtifact
    BY DEF IInv, RowOK, CompletedHasArtifact
  <1>. QED
    BY <1>1, Inductive, PTL

(* artifact_path never points at an artifact that is not there.             *)
THEOREM PathsResolve == Spec => []ArtifactPathResolves
  <1>1. IInv => ArtifactPathResolves
    BY DEF IInv, RowOK, ArtifactPathResolves
  <1>. QED
    BY <1>1, Inductive, PTL

-----------------------------------------------------------------------------
(* The pipeline implements RunLifecycle.                                    *)

LEMMA InitLifecycle == Init => Lifecycle!Init
  BY DEF Init, Lifecycle!Init, Blank

LEMMA SameLifecycle ==
  ASSUME UNCHANGED <<runs, artifacts>>
  PROVE  UNCHANGED Lifecycle!vars
  BY DEF Lifecycle!vars

LEMMA CreateRunLifecycle ==
  ASSUME TypeInv, NEW a \in ApiThread, NEW r \in Run, CreateRun(a, r)
  PROVE  Lifecycle!Enqueue(r)
  <1>1. /\ runs[r].status = "absent" /\ UNCHANGED artifacts
        /\ runs'[r].status = "queued" /\ \A x \in Run \ {r} : runs'[x] = runs[x]
    BY DEF CreateRun, content, TypeInv, TypeOK, Blank
  <1>. QED
    BY <1>1 DEF Lifecycle!Enqueue

LEMMA SaveArtifactLifecycle ==
  ASSUME IInv, NEW p \in Process, SaveArtifact(p), NEW r \in Run, r = RunOf(p)
  PROVE  Lifecycle!Publish(r) \/ UNCHANGED Lifecycle!vars
  <1>1. pc[p] = "save_artifact" /\ UNCHANGED runs /\ TypeInv
    BY DEF SaveArtifact, IInv
  <1>2. RunOf(p) \in Run /\ Begun(runs[RunOf(p)].status)
    BY <1>1, BusyTypes DEF IInv, PhaseOK, InStages, Updating
  <1>3. CASE UNCHANGED artifacts
    BY <1>1, <1>3, SameLifecycle
  <1>4. CASE artifacts' = [artifacts EXCEPT ![RunOf(p)] = Merged(@, view[p].listing)]
    <2>1. /\ artifacts'[RunOf(p)].saved = TRUE
          /\ \A x \in Run \ {RunOf(p)} : artifacts'[x] = artifacts[x]
      BY <1>1, <1>2, <1>4 DEF TypeInv, TypeOK, Merged
    <2>. QED
      BY <1>1, <1>2, <2>1 DEF Lifecycle!Publish, Lifecycle!Started, Begun
  <1>. QED
    BY <1>3, <1>4 DEF SaveArtifact

LEMMA UpdateCommitLifecycle ==
  ASSUME IInv, NEW p \in Process, UpdateCommit(p), NEW r \in Run, r = RunOf(p)
  PROVE  \/ UNCHANGED Lifecycle!vars
         \/ Lifecycle!Start(r) \/ Lifecycle!Complete(r) \/ Lifecycle!Fail(r)
  <1>1. pc[p] = "update_commit" /\ UNCHANGED artifacts /\ TypeInv
    BY DEF UpdateCommit, IInv, content
  <1>2. /\ RunOf(p) \in Run /\ runs[RunOf(p)] \in RunRecord
        /\ view[p].mem \in RunRecord /\ view[p].record \in RunRecord
        /\ job[p].stage \in Nat
    BY <1>1, BusyTypes DEF LastStage
  <1>3. PICK row \in UpdatedRows(runs[RunOf(p)], view[p].record, view[p].mem) :
           runs' = [runs EXCEPT ![RunOf(p)] = row]
    BY DEF UpdateCommit
  <1>4. row.status \in {view[p].mem.status, runs[RunOf(p)].status}
    BY <1>2, UpdatedRowsType
  <1>5. /\ runs'[RunOf(p)].status = row.status
        /\ \A x \in Run \ {RunOf(p)} : runs'[x].status = runs[x].status
    BY <1>1, <1>2, <1>3 DEF TypeInv, TypeOK
  <1>6. /\ runs[RunOf(p)].status # "absent" /\ Begun(view[p].mem.status)
        /\ job[p].stage = 0 => view[p].mem.status = "running"
        /\ job[p].stage > 0 => Begun(runs[RunOf(p)].status)
        /\ view[p].mem.status = "completed" => artifacts[RunOf(p)].saved
    BY <1>1 DEF IInv, MemoryOK, PhaseOK, InStages, Updating
  <1>7. CASE row.status = runs[RunOf(p)].status
    BY <1>1, <1>5, <1>7 DEF Lifecycle!vars
  <1>8. CASE row.status = "running"
    BY <1>1, <1>2, <1>5, <1>6, <1>8 DEF Lifecycle!Start
  <1>9. CASE row.status = "completed" /\ row.status = view[p].mem.status
    <2>1. Begun(runs[RunOf(p)].status)
      BY <1>2, <1>6, <1>9
    <2>. QED
      BY <1>1, <1>2, <1>5, <1>6, <1>9, <2>1 DEF Lifecycle!Complete, Lifecycle!Started, Begun
  <1>10. CASE row.status = "failed" /\ row.status = view[p].mem.status
    <2>1. Begun(runs[RunOf(p)].status)
      BY <1>2, <1>6, <1>10
    <2>. QED
      BY <1>1, <1>2, <1>5, <1>10, <2>1 DEF Lifecycle!Fail, Lifecycle!Started, Begun
  <1>11. view[p].mem.status \in {"running", "completed", "failed"}
    BY <1>2, <1>6 DEF Begun, RunRecord, RunStatus
  <1>. QED
    BY <1>4, <1>7, <1>8, <1>9, <1>10, <1>11

LEMMA StepLifecycle == IInv /\ [Next]_vars => [Lifecycle!Next]_(Lifecycle!vars)
  <1>. SUFFICES ASSUME IInv, [Next]_vars PROVE [Lifecycle!Next]_(Lifecycle!vars)
    OBVIOUS
  <1>0. TypeInv
    BY DEF IInv
  <1>1. CASE UNCHANGED vars
    BY <1>1, SameLifecycle DEF vars
  <1>2. ASSUME NEW p \in Process, Advance(p) PROVE [Lifecycle!Next]_(Lifecycle!vars)
    <2>1. CASE UpdateCommit(p)
      <3>1. PICK r \in Run : r = RunOf(p)
        BY <1>0, <2>1, BusyTypes DEF UpdateCommit
      <3>2. \/ UNCHANGED Lifecycle!vars
            \/ Lifecycle!Start(r) \/ Lifecycle!Complete(r) \/ Lifecycle!Fail(r)
        BY <2>1, <3>1, UpdateCommitLifecycle
      <3>. QED
        BY <3>2 DEF Lifecycle!Next
    <2>2. CASE SaveArtifact(p)
      <3>1. PICK r \in Run : r = RunOf(p)
        BY <1>0, <2>2, BusyTypes DEF SaveArtifact
      <3>2. Lifecycle!Publish(r) \/ UNCHANGED Lifecycle!vars
        BY <2>2, <3>1, SaveArtifactLifecycle
      <3>. QED
        BY <3>2 DEF Lifecycle!Next
    <2>3. CASE \/ CreateQueuedItem(p) \/ Publish(p) \/ Load(p) \/ UpdateGet(p) \/ NewItem(p)
               \/ StartItem(p) \/ Discover(p) \/ AddUrls(p) \/ Extract(p) \/ Upsert(p)
               \/ SetValidator(p) \/ Canonicalize(p) \/ Score(p) \/ Generate(p)
               \/ CompleteItem(p) \/ FailItem(p) \/ StageEvent(p) \/ RunEvent(p) \/ Finish(p)
      <3>1. UNCHANGED <<runs, artifacts>>
        BY <2>3 DEF CreateQueuedItem, Publish, Load, UpdateGet, NewItem, StartItem, Discover,
                    AddUrls, Extract, Upsert, SetValidator, Canonicalize, Score, Generate,
                    CompleteItem, FailItem, StageEvent, RunEvent, Finish, content
      <3>. QED
        BY <3>1, SameLifecycle
    <2>. QED
      BY <1>2, <2>1, <2>2, <2>3 DEF Advance
  <1>3. ASSUME NEW a \in ApiThread, NEW r \in Run, CreateRun(a, r)
        PROVE  [Lifecycle!Next]_(Lifecycle!vars)
    BY <1>0, <1>3, CreateRunLifecycle DEF Lifecycle!Next
  <1>4. CASE \/ \E p \in Process : DbError(p)
             \/ \E w \in Worker : Crash(w) \/ VisibilityTimeout(w)
             \/ \E w \in Worker, r \in Run : Deliver(w, r)
             \/ \E a \in ApiThread, r \in Run : ProcessRequest(a, r)
             \/ \E a \in ApiThread : PublishFails(a)
             \/ ApiCrash
    <2>1. UNCHANGED <<runs, artifacts>>
      BY <1>4 DEF DbError, Crash, VisibilityTimeout, Deliver, ProcessRequest, PublishFails,
                  ApiCrash, content
    <2>. QED
      BY <2>1, SameLifecycle
  <1>. QED
    BY <1>1, <1>2, <1>3, <1>4 DEF Next

(* Whoever polls a run sees RunLifecycle: queued first, running before any  *)
(* end, completed only with an llms.txt to serve, which stays servable.     *)
THEOREM PipelineImplementsLifecycle == Spec => RefinesLifecycle
  BY InitLifecycle, StepLifecycle, Inductive, PTL DEF Spec, RefinesLifecycle, Lifecycle!Spec

-----------------------------------------------------------------------------
(* What the tables record of a run: its trail of work items and events, the *)
(* pages and the artifact.                                                  *)
(*                                                                          *)
(* Every process_run has an execution number of its own, so it alone writes *)
(* the trail under that number; what it finds there is what it left there,  *)
(* and where it stands tells what that is.  The other tables are shared by  *)
(* the executions of a run: what is said of them with any interleaving is   *)
(* that nothing foreign gets in, and as long as the broker alone hands runs *)
(* out, that they are whole.                                                *)

-----------------------------------------------------------------------------
(* The trail, with any interleaving.                                        *)

Executes(p) == job[p].exec # 0
Item(p, s) == items[<<job[p].run, job[p].exec, s>>]
Event(p, s) == events[<<job[p].run, job[p].exec, s>>]

(* No two processes share an execution, and the next one is unused.         *)
NumberOK(p) ==
  /\ pc[p] = "idle" => job[p] = NoJob
  /\ Executes(p) <=> pc[p] \notin {"idle", "create_item", "publish"}
  /\ Executes(p) => job[p].exec <= execs[job[p].run]
  /\ \A q \in Process \ {p} :
       Executes(p) /\ job[q].run = job[p].run => job[q].exec # job[p].exec
Unwritten ==
  \A r \in Run, e \in Execution, s \in Stage :
    e > execs[r] => items[<<r, e, s>>] = "absent" /\ events[<<r, e, s>>] = "absent"

(* The stages before the one a process is at, and those after it.           *)
Past(p) ==
  \A s \in Stage : s < job[p].stage => Item(p, s) = "completed" /\ Event(p, s) = "success"
Ahead(p) ==
  \A s \in Stage : s > job[p].stage => Item(p, s) = "absent" /\ Event(p, s) = "absent"

(* Inside the execute function of a stage, or at its end without error.     *)
InBody(p) == \/ pc[p] \in {"discover", "add_urls", "extract", "upsert", "set_validators",
                           "canonicalize", "score", "generate", "save_artifact", "complete_item"}
             \/ StageUpdate(p)
InStage(p) == InBody(p) \/ pc[p] \in {"new_item", "start_item", "fail_item"}
Opening(p) == pc[p] = "load" \/ (Updating(p) /\ job[p].stage = 0)

(* The stage a process is at.                                               *)
Present(p) ==
  LET s == job[p].stage
  IN  /\ InStage(p) \/ Opening(p) => job[p].exc = "none"
      /\ InStage(p) \/ pc[p] = "stage_event" =>
           view[p].mem.status = "running" /\ Event(p, s) = "absent"
      /\ pc[p] = "new_item" => Item(p, s) = "absent"
      /\ pc[p] = "start_item" => Item(p, s) = "queued" /\ job[p].item = "queued"
      /\ InBody(p) => Item(p, s) = "processing" /\ job[p].item = "processing"
      /\ pc[p] = "fail_item" =>
           Item(p, s) = "processing" /\ job[p].item \in {"processing", "completed"}
      /\ pc[p] = "stage_event" =>
           Item(p, s) = CASE job[p].exc = "none"  -> "completed"
                          [] job[p].exc = "stage" -> "failed"
                          [] job[p].exc = "raw"   -> "processing"

TrailOK(p) == Executes(p) => Past(p) /\ Ahead(p) /\ Present(p)

(* Some execution of the run completed every stage, and said so.            *)
Success(r, e, s) == items[<<r, e, s>>] = "completed" /\ events[<<r, e, s>>] = "success"
Whole(r) == \E e \in Execution \ {0} : \A s \in Stage : Success(r, e, s)
Done(p, s) == Item(p, s) = "completed" /\ Event(p, s) = "success"
WholeWhenSaid ==
  /\ \A r \in Run : runs[r].status = "completed" => Whole(r)
  /\ \A p \in Process : Executes(p) /\ view[p].mem.status = "completed" =>
       \A s \in Stage : Done(p, s)

TrailInv ==
  /\ \A p \in Process : NumberOK(p) /\ TrailOK(p)
  /\ Unwritten
  /\ StageOrder
  /\ EventsMatchItems
  /\ WholeWhenSaid

-----------------------------------------------------------------------------
(* What a step of one process leaves alone.                                 *)

(* Only the trail of execution e of run r may change.                       *)
Only(r, e) ==
  \A q \in Run, f \in Execution, s \in Stage : q # r \/ f # e =>
    items'[<<q, f, s>>] = items[<<q, f, s>>] /\ events'[<<q, f, s>>] = events[<<q, f, s>>]

(* The conjuncts of StageOrder and EventsMatchItems.                        *)
Ordered(r, e, s) ==
  items[<<r, e, s>>] # "absent" =>
    items[<<r, e, s - 1>>] = "completed" /\ events[<<r, e, s - 1>>] = "success"
Matched(r, e, s) ==
  /\ events[<<r, e, s>>] = "success" => items[<<r, e, s>>] = "completed"
  /\ events[<<r, e, s>>] = "failure" => items[<<r, e, s>>] = "failed"
  /\ events[<<r, e, s>>] = "unset"   => items[<<r, e, s>>] = "processing"

LEMMA ByStage ==
  /\ StageOrder <=> \A r \in Run, e \in Execution \ {0}, s \in Stage \ {1} : Ordered(r, e, s)
  /\ EventsMatchItems <=> \A r \in Run, e \in Execution \ {0}, s \in Stage : Matched(r, e, s)
  BY DEF StageOrder, EventsMatchItems, Ordered, Matched

Calling == {"idle", "create_item", "publish"}   \* not in process_run

LEMMA ExecutesTypes ==
  ASSUME TypeInv, NEW p \in Process, Executes(p), NumberOK(p)
  PROVE  /\ pc[p] \notin Calling /\ pc[p] # "idle"
         /\ job[p] \in Job /\ view[p] \in View
         /\ job[p].run \in Run /\ job[p].exec \in Execution \ {0}
         /\ job[p].stage \in 0 .. LastStage
  <1>1. pc[p] \notin Calling /\ pc[p] # "idle"
    BY DEF NumberOK, Calling
  <1>2. job[p] \in Job /\ view[p] \in View /\ job[p].run \in Run
    BY <1>1, BusyTypes
  <1>3. job[p].exec \in Execution /\ job[p].stage \in 0 .. LastStage
    BY <1>2 DEF Job
  <1>. QED
    BY <1>1, <1>2, <1>3 DEF Executes

LEMMA StageOfBody ==
  ASSUME IInv, NEW p \in Process, job[p].stage \in 0 .. LastStage,
         InStage(p) \/ pc[p] = "stage_event"
  PROVE  job[p].stage \in Stage
  <1>1. InStages(p)
    BY DEF InStage, InBody, StageUpdate, InStages, Updating
  <1>2. job[p].stage > 0
    BY <1>1 DEF IInv, PhaseOK
  <1>. QED
    BY <1>2 DEF Stage, LastStage

(* A process that keeps its state and its trail keeps TrailOK.              *)
LEMMA KeptTrail ==
  ASSUME IInv, NEW q \in Process, Untouched(q), NumberOK(q), TrailOK(q),
         Executes(q) => \A s \in Stage :
           /\ items'[<<job[q].run, job[q].exec, s>>] = items[<<job[q].run, job[q].exec, s>>]
           /\ events'[<<job[q].run, job[q].exec, s>>] = events[<<job[q].run, job[q].exec, s>>]
  PROVE  TrailOK(q)'
  <1>. SUFFICES ASSUME Executes(q)
                PROVE  TrailOK(q)'
    BY DEF TrailOK, Executes, Untouched
  <1>1. job[q].stage \in 0 .. LastStage
    BY ExecutesTypes DEF IInv
  <1>2. pc'[q] = pc[q] /\ job'[q] = job[q] /\ view'[q] = view[q]
    BY DEF Untouched
  <1>3. \A s \in Stage : Item(q, s)' = Item(q, s) /\ Event(q, s)' = Event(q, s)
    BY <1>2 DEF Item, Event
  <1>4. Past(q)' /\ Ahead(q)'
    BY <1>2, <1>3 DEF TrailOK, Past, Ahead
  <1>5. Present(q)'
    <2>1. CASE job[q].stage \in Stage
      <3>1. PICK s \in Stage : s = job[q].stage
        BY <2>1
      <3>2. Item(q, s)' = Item(q, s) /\ Event(q, s)' = Event(q, s)
        BY <1>3
      <3>. QED
        BY <1>2, <3>1, <3>2 DEF TrailOK, Present, InStage, InBody, StageUpdate, Opening, Updating, Item, Event
    <2>2. CASE job[q].stage \notin Stage
      <3>1. ~(InStage(q) \/ pc[q] = "stage_event")
        BY <1>1, <2>2, StageOfBody
      <3>. QED
        BY <1>2, <3>1 DEF TrailOK, Present, InStage, InBody, StageUpdate, Opening, Updating
    <2>. QED
      BY <2>1, <2>2
  <1>. QED
    BY <1>4, <1>5 DEF TrailOK

LEMMA OtherTrail ==
  ASSUME IInv, NEW p \in Process, NEW q \in Process \ {p}, Untouched(q),
         NumberOK(p), NumberOK(q), TrailOK(q), Only(job[p].run, job[p].exec)
  PROVE  TrailOK(q)'
  <1>1. ASSUME Executes(q), NEW s \in Stage
        PROVE  /\ items'[<<job[q].run, job[q].exec, s>>] = items[<<job[q].run, job[q].exec, s>>]
               /\ events'[<<job[q].run, job[q].exec, s>>] = events[<<job[q].run, job[q].exec, s>>]
    <2>1. job[q].run \in Run /\ job[q].exec \in Execution \ {0}
      BY <1>1, ExecutesTypes DEF IInv
    <2>2. job[q].run # job[p].run \/ job[q].exec # job[p].exec
      BY <2>1 DEF NumberOK, Executes
    <2>. QED
      BY <2>1, <2>2 DEF Only
  <1>. QED
    BY <1>1, KeptTrail

(* A step that starts no execution keeps the numbers.                       *)
LEMMA SameNumbers ==
  ASSUME \A q \in Process : NumberOK(q), UNCHANGED execs,
         \A q \in Process : /\ job'[q].run = job[q].run /\ job'[q].exec = job[q].exec
                            /\ pc'[q] \in Calling <=> pc[q] \in Calling
                            /\ pc'[q] = "idle" => job'[q] = NoJob
  PROVE  \A q \in Process : NumberOK(q)'
  BY DEF NumberOK, Executes, Calling

LEMMA OnlyUnwritten ==
  ASSUME TypeInv, Unwritten, UNCHANGED execs, NEW r, NEW e, e \in Execution => e <= execs[r],
         r \in Run, Only(r, e)
  PROVE  Unwritten'
  <1>. SUFFICES ASSUME NEW q \in Run, NEW f \in Execution, NEW s \in Stage, f > execs[q]
                PROVE  items'[<<q, f, s>>] = "absent" /\ events'[<<q, f, s>>] = "absent"
    BY DEF Unwritten
  <1>1. q # r \/ f # e
    BY DEF TypeInv, TypeOK, Execution
  <1>. QED
    BY <1>1 DEF Unwritten, Only

-----------------------------------------------------------------------------
(* A step of an execution.                                                  *)

LEMMA OwnStep ==
  ASSUME IInv, TrailInv, TypeInv', NEW p \in Process, Executes(p),
         \A q \in Process \ {p} : Untouched(q),
         Only(job[p].run, job[p].exec), UNCHANGED execs,
         job'[p].run = job[p].run, job'[p].exec = job[p].exec, pc'[p] \notin Calling,
         Past(p)', Ahead(p)', Present(p)',
         \A s \in Stage : s = job'[p].stage => Matched(job[p].run, job[p].exec, s)',
         \A s \in Stage : Done(p, s) => Done(p, s)',
         \A r \in Run : runs'[r].status = "completed" =>
            \/ runs[r].status = "completed"
            \/ r = job[p].run /\ view[p].mem.status = "completed",
         view'[p].mem.status = "completed" =>
            \/ view[p].mem.status = "completed"
            \/ \A s \in Stage : Done(p, s)'
  PROVE  TrailInv'
  <1>1. /\ TypeInv /\ pc[p] \notin Calling
        /\ job[p].run \in Run /\ job[p].exec \in Execution \ {0}
        /\ job'[p].stage \in 0 .. LastStage
    <2>1. TypeInv
      BY DEF IInv
    <2>2. /\ pc[p] \notin Calling
          /\ job[p].run \in Run /\ job[p].exec \in Execution \ {0}
      BY <2>1, ExecutesTypes DEF TrailInv
    <2>3. job'[p] \in Job
      BY DEF TypeInv, TypeOK
    <2>. QED
      BY <2>1, <2>2, <2>3 DEF Job
  <1>2. \A q \in Process : NumberOK(q)'
    <2>1. \A q \in Process : NumberOK(q)
      BY DEF TrailInv
    <2>2. \A q \in Process : /\ job'[q].run = job[q].run /\ job'[q].exec = job[q].exec
                             /\ pc'[q] \in Calling <=> pc[q] \in Calling
                             /\ pc'[q] = "idle" => job'[q] = NoJob
      BY <1>1, <2>1 DEF Untouched, NumberOK, Calling
    <2>. QED
      BY <2>1, <2>2, SameNumbers
  <1>3. \A q \in Process : TrailOK(q)'
    BY <1>1, OtherTrail DEF TrailInv, TrailOK
  <1>4. Unwritten'
    <2>1. job[p].exec <= execs[job[p].run]
      BY DEF TrailInv, NumberOK
    <2>. QED
      BY <1>1, <2>1, OnlyUnwritten DEF TrailInv
  <1>5. \A s \in Stage : /\ Item(p, s)' = items'[<<job[p].run, job[p].exec, s>>]
                         /\ Event(p, s)' = events'[<<job[p].run, job[p].exec, s>>]
    BY DEF Item, Event
  <1>6. ASSUME NEW r \in Run, NEW e \in Execution \ {0}, NEW s \in Stage \ {1}
        PROVE  Ordered(r, e, s)'
    <2>1. s \in Stage /\ s - 1 \in Stage
      BY DEF Stage, LastStage
    <2>2. Ordered(r, e, s)
      BY ByStage DEF TrailInv
    <2>3. CASE r = job[p].run /\ e = job[p].exec
      <3>1. CASE s > job'[p].stage
        BY <1>5, <2>1, <2>3, <3>1 DEF Ahead, Ordered
      <3>2. CASE ~(s > job'[p].stage)
        <4>1. s - 1 < job'[p].stage
          BY <1>1, <2>1, <3>2 DEF Stage, LastStage
        <4>. QED
          BY <1>5, <2>1, <2>3, <4>1 DEF Past, Ordered
      <3>. QED
        BY <3>1, <3>2
    <2>4. CASE ~(r = job[p].run /\ e = job[p].exec)
      BY <2>1, <2>2, <2>4 DEF Only, Ordered
    <2>. QED
      BY <2>3, <2>4
  <1>7. ASSUME NEW r \in Run, NEW e \in Execution \ {0}, NEW s \in Stage
        PROVE  Matched(r, e, s)'
    <2>1. Matched(r, e, s)
      BY ByStage DEF TrailInv
    <2>2. CASE r = job[p].run /\ e = job[p].exec
      <3>1. CASE s > job'[p].stage
        BY <1>5, <2>2, <3>1 DEF Ahead, Matched
      <3>2. CASE s < job'[p].stage
        BY <1>5, <2>2, <3>2 DEF Past, Matched
      <3>3. CASE s = job'[p].stage
        BY <2>2, <3>3
      <3>4. s > job'[p].stage \/ s < job'[p].stage \/ s = job'[p].stage
        BY <1>1 DEF Stage, LastStage
      <3>. QED
        BY <3>1, <3>2, <3>3, <3>4
    <2>3. CASE ~(r = job[p].run /\ e = job[p].exec)
      BY <2>1, <2>3 DEF Only, Matched
    <2>. QED
      BY <2>2, <2>3
  <1>8. StageOrder' /\ EventsMatchItems'
    BY <1>6, <1>7 DEF StageOrder, EventsMatchItems, Ordered, Matched
  <1>9. \A r \in Run : Whole(r) => Whole(r)'
    <2>. SUFFICES ASSUME NEW r \in Run, Whole(r)
                  PROVE  Whole(r)'
      OBVIOUS
    <2>1. PICK e \in Execution \ {0} : \A s \in Stage : Success(r, e, s)
      BY DEF Whole
    <2>2. \A s \in Stage : Success(r, e, s)'
      <3>1. CASE r = job[p].run /\ e = job[p].exec
        BY <1>5, <2>1, <3>1 DEF Success, Done, Item, Event
      <3>2. CASE ~(r = job[p].run /\ e = job[p].exec)
        BY <2>1, <3>2 DEF Only, Success
      <3>. QED
        BY <3>1, <3>2
    <2>. QED
      BY <2>2 DEF Whole
  <1>10. ASSUME NEW r \in Run, r = job[p].run, \A s \in Stage : Done(p, s)'
         PROVE  Whole(r)'
    <2>1. \A s \in Stage : Success(job[p].run, job[p].exec, s)'
      BY <1>5, <1>10 DEF Done, Success
    <2>. QED
      BY <1>1, <1>10, <2>1 DEF Whole
  <1>11. WholeWhenSaid'
    <2>1. view[p].mem.status = "completed" => \A s \in Stage : Done(p, s)'
      BY DEF TrailInv, WholeWhenSaid
    <2>2. \A r \in Run : runs'[r].status = "completed" => Whole(r)'
      BY <1>9, <1>10, <2>1 DEF TrailInv, WholeWhenSaid
    <2>3. ASSUME NEW q \in Process, Executes(q)', view'[q].mem.status = "completed", NEW s \in Stage
          PROVE  Done(q, s)'
      <3>1. CASE q = p
        BY <2>1, <2>3, <3>1
      <3>2. CASE q # p
        <4>1. /\ job'[q].run = job[q].run /\ job'[q].exec = job[q].exec
              /\ Executes(q) /\ view[q].mem.status = "completed"
          BY <2>3, <3>2 DEF Executes, Untouched
        <4>2. job[q].run \in Run /\ job[q].exec \in Execution
          BY <1>1, <4>1, ExecutesTypes DEF TrailInv
        <4>3. job[q].run # job[p].run \/ job[q].exec # job[p].exec
          BY <3>2, <4>1 DEF TrailInv, NumberOK
        <4>4. Done(q, s)
          BY <4>1 DEF TrailInv, WholeWhenSaid
        <4>. QED
          BY <4>1, <4>2, <4>3, <4>4 DEF Only, Done, Item, Event
      <3>. QED
        BY <3>1, <3>2
    <2>. QED
      BY <2>2, <2>3 DEF WholeWhenSaid
  <1>. QED
    BY <1>2, <1>3, <1>4, <1>8, <1>11 DEF TrailInv

(* The same trail, the same stage: what matters is where the process is.    *)
LEMMA SameTrailStep ==
  ASSUME IInv, TrailInv, TypeInv', NEW p \in Process, Executes(p),
         \A q \in Process \ {p} : Untouched(q), UNCHANGED <<items, events, execs>>,
         job'[p].run = job[p].run, job'[p].exec = job[p].exec,
         job'[p].stage = job[p].stage, pc'[p] \notin Calling, Present(p)',
         \A r \in Run : runs'[r].status = "completed" =>
            \/ runs[r].status = "completed"
            \/ r = job[p].run /\ view[p].mem.status = "completed",
         view'[p].mem.status = "completed" => view[p].mem.status = "completed"
  PROVE  TrailInv'
  <1>1. \A s \in Stage : Item(p, s)' = Item(p, s) /\ Event(p, s)' = Event(p, s)
    BY DEF Item, Event
  <1>2. Past(p) /\ Ahead(p)
    BY DEF TrailInv, TrailOK
  <1>3. Past(p)' /\ Ahead(p)'
    BY <1>1, <1>2 DEF Past, Ahead
  <1>4. Only(job[p].run, job[p].exec)
    BY DEF Only
  <1>5. job[p].run \in Run /\ job[p].exec \in Execution \ {0}
    BY ExecutesTypes DEF IInv, TrailInv
  <1>6. \A s \in Stage : Matched(job[p].run, job[p].exec, s)
    BY <1>5, ByStage DEF TrailInv
  <1>7. \A s \in Stage : s = job'[p].stage => Matched(job[p].run, job[p].exec, s)'
    BY <1>6 DEF Matched
  <1>. QED
    BY <1>1, <1>3, <1>4, <1>7, OwnStep DEF Done

(* A step within the execute function of a stage, or out of it by an error. *)
LEMMA BodyTrailStep ==
  ASSUME IInv, TrailInv, TypeInv', NEW p \in Process, InBody(p),
         \A q \in Process \ {p} : Untouched(q), UNCHANGED <<items, events, execs>>,
         job'[p] = job[p], view'[p].mem.status = view[p].mem.status,
         InBody(p)' \/ pc'[p] = "fail_item",
         \A r \in Run : runs'[r].status = "completed" => runs[r].status = "completed"
  PROVE  TrailInv'
  <1>1. pc[p] \notin Calling /\ pc'[p] \notin Calling /\ Executes(p)
    BY DEF InBody, StageUpdate, Calling, TrailInv, NumberOK
  <1>2. /\ job[p].exc = "none" /\ view[p].mem.status = "running"
        /\ Event(p, job[p].stage) = "absent"
        /\ Item(p, job[p].stage) = "processing" /\ job[p].item = "processing"
    BY <1>1 DEF TrailInv, TrailOK, Present, InStage
  <1>3. Item(p, job[p].stage)' = "processing" /\ Event(p, job[p].stage)' = "absent"
    BY <1>2 DEF Item, Event
  <1>4. pc'[p] \notin {"new_item", "start_item", "stage_event"}
    BY DEF InBody, StageUpdate
  <1>5. Present(p)'
    BY <1>2, <1>3, <1>4 DEF Present
  <1>. QED
    BY <1>1, <1>5, SameTrailStep

(* A step of the last part of process_run, after its last stage.            *)
Leaving(p) == \/ pc[p] \in {"run_event", "finish"}
              \/ Updating(p) /\ job[p].stage > 0 /\ view[p].mem.status # "running"

LEMMA LeavingTrailStep ==
  ASSUME IInv, TrailInv, TypeInv', NEW p \in Process, Executes(p),
         \A q \in Process \ {p} : Untouched(q), UNCHANGED <<items, events, execs>>,
         job'[p] = job[p], Leaving(p)',
         \A r \in Run : runs'[r].status = "completed" =>
            \/ runs[r].status = "completed"
            \/ r = job[p].run /\ view[p].mem.status = "completed",
         view'[p].mem.status = view[p].mem.status
  PROVE  TrailInv'
  <1>1. ~(InStage(p) \/ Opening(p) \/ pc[p] = "stage_event")' /\ pc'[p] \notin Calling
    BY DEF Leaving, InStage, InBody, StageUpdate, Opening, Updating, Calling
  <1>2. Present(p)'
    BY <1>1 DEF Present, InStage
  <1>. QED
    BY <1>1, <1>2, SameTrailStep

(* A step that may write the item of the stage a process is at.             *)
LEMMA ItemStep ==
  ASSUME IInv, TrailInv, TypeInv', NEW p \in Process, InStage(p),
         \A q \in Process \ {p} : Untouched(q), UNCHANGED <<runs, events, execs>>,
         NEW x, items' = [items EXCEPT ![Key(p)] = x],
         Item(p, job[p].stage) # "completed",
         job'[p].run = job[p].run, job'[p].exec = job[p].exec,
         job'[p].stage = job[p].stage, view'[p] = view[p],
         (InStage(p) \/ pc[p] = "stage_event")',
         \A s \in Stage : s = job[p].stage /\ Item(p, s)' = x /\ Event(p, s)' = Event(p, s) =>
            Present(p)'
  PROVE  TrailInv'
  <1>1. pc[p] \notin Calling /\ pc'[p] \notin Calling /\ Executes(p)
    BY DEF InStage, InBody, StageUpdate, Calling, TrailInv, NumberOK
  <1>2. /\ job[p].run \in Run /\ job[p].exec \in Execution \ {0}
        /\ job[p].stage \in 0 .. LastStage
    BY <1>1, ExecutesTypes DEF IInv, TrailInv
  <1>3. PICK s \in Stage : s = job[p].stage
    BY <1>2, StageOfBody
  <1>4. /\ Only(job[p].run, job[p].exec)
        /\ \A t \in Stage : Event(p, t)' = Event(p, t)
        /\ \A t \in Stage \ {s} : Item(p, t)' = Item(p, t)
        /\ Item(p, s)' = x
    BY <1>2, <1>3 DEF IInv, TypeInv, TypeOK, Key, Only, Item, Event
  <1>5. Past(p)' /\ Ahead(p)'
    BY <1>1, <1>3, <1>4 DEF TrailInv, TrailOK, Past, Ahead, Stage
  <1>6. Present(p)'
    BY <1>3, <1>4
  <1>7. Event(p, s) = "absent"
    BY <1>1, <1>3 DEF TrailInv, TrailOK, Present
  <1>8. Matched(job[p].run, job[p].exec, s)'
    BY <1>4, <1>7 DEF Matched, Event
  <1>9. \A t \in Stage : Done(p, t) => Done(p, t)'
    BY <1>3, <1>4, <1>7 DEF Done
  <1>. QED
    BY <1>1, <1>3, <1>4, <1>5, <1>6, <1>8, <1>9, OwnStep

-----------------------------------------------------------------------------
(* A step outside every execution.                                          *)

(* The trails of the executions stay: so do StageOrder and EventsMatchItems. *)
LEMMA SameTrails ==
  ASSUME TrailInv, UNCHANGED <<events, execs>>,
         \A r \in Run, e \in Execution \ {0}, s \in Stage :
            items'[<<r, e, s>>] = items[<<r, e, s>>],
         \A r \in Run : ~(0 > execs[r]),
         \A r \in Run : runs'[r].status = "completed" => runs[r].status = "completed"
  PROVE  /\ Unwritten' /\ StageOrder' /\ EventsMatchItems'
         /\ \A r \in Run : Whole(r) => Whole(r)'
         /\ \A r \in Run : runs'[r].status = "completed" => Whole(r)'
  <1>1. Unwritten'
    <2>. SUFFICES ASSUME NEW r \in Run, NEW e \in Execution, NEW s \in Stage, e > execs[r]
                  PROVE  items'[<<r, e, s>>] = "absent" /\ events'[<<r, e, s>>] = "absent"
      BY DEF Unwritten
    <2>1. e # 0
      OBVIOUS
    <2>. QED
      BY <2>1 DEF TrailInv, Unwritten
  <1>2. StageOrder'
    <2>. SUFFICES ASSUME NEW r \in Run, NEW e \in Execution \ {0}, NEW s \in Stage \ {1}
                  PROVE  Ordered(r, e, s)'
      BY DEF StageOrder, Ordered
    <2>1. s \in Stage /\ s - 1 \in Stage
      BY DEF Stage, LastStage
    <2>2. Ordered(r, e, s)
      BY ByStage DEF TrailInv
    <2>. QED
      BY <2>1, <2>2 DEF Ordered
  <1>3. EventsMatchItems'
    <2>. SUFFICES ASSUME NEW r \in Run, NEW e \in Execution \ {0}, NEW s \in Stage
                  PROVE  Matched(r, e, s)'
      BY DEF EventsMatchItems, Matched
    <2>1. Matched(r, e, s)
      BY ByStage DEF TrailInv
    <2>. QED
      BY <2>1 DEF Matched
  <1>4. \A r \in Run : Whole(r) => Whole(r)'
    BY DEF Whole, Success
  <1>5. \A r \in Run : runs'[r].status = "completed" => Whole(r)'
    BY <1>4 DEF TrailInv, WholeWhenSaid
  <1>. QED
    BY <1>1, <1>2, <1>3, <1>4, <1>5

(* Processes outside process_run start, go on or are reset.                 *)
LEMMA OutsideStep ==
  ASSUME IInv, TrailInv, TypeInv', NEW P \in SUBSET Process,
         \A q \in Process \ P : Untouched(q),
         \A q \in P : /\ job'[q].exec = 0 /\ pc'[q] \in Calling
                      /\ pc'[q] = "idle" => job'[q] = NoJob,
         UNCHANGED <<events, execs>>,
         \A r \in Run, e \in Execution \ {0}, s \in Stage :
            items'[<<r, e, s>>] = items[<<r, e, s>>],
         \A r \in Run : runs'[r].status = "completed" => runs[r].status = "completed"
  PROVE  TrailInv'
  <1>1. \A r \in Run : ~(0 > execs[r])
    BY DEF IInv, TypeInv, TypeOK, Execution
  <1>2. /\ Unwritten' /\ StageOrder' /\ EventsMatchItems'
        /\ \A r \in Run : Whole(r) => Whole(r)'
        /\ \A r \in Run : runs'[r].status = "completed" => Whole(r)'
    BY <1>1, SameTrails
  <1>3. \A q \in P : ~Executes(q)'
    BY DEF Executes
  <1>4. \A q \in Process \ P : /\ Executes(q)' <=> Executes(q)
                               /\ job'[q] = job[q] /\ view'[q] = view[q] /\ pc'[q] = pc[q]
    BY DEF Executes, Untouched
  <1>5. \A q \in Process : NumberOK(q)'
    <2>. SUFFICES ASSUME NEW q \in Process
                  PROVE  NumberOK(q)'
      OBVIOUS
    <2>1. CASE q \in P
      BY <1>3, <2>1 DEF NumberOK, Calling
    <2>2. CASE q \notin P
      <3>1. NumberOK(q)
        BY DEF TrailInv
      <3>2. \A z \in Process \ {q} :
              Executes(q) /\ job'[z].run = job[q].run => job'[z].exec # job[q].exec
        BY <1>3, <1>4, <3>1 DEF NumberOK, Executes
      <3>. QED
        BY <1>4, <2>2, <3>1, <3>2 DEF NumberOK
    <2>. QED
      BY <2>1, <2>2
  <1>6. \A q \in Process : TrailOK(q)'
    <2>. SUFFICES ASSUME NEW q \in Process, Executes(q)'
                  PROVE  TrailOK(q)'
      BY DEF TrailOK
    <2>1. q \in Process \ P
      BY <1>3
    <2>2. Executes(q)
      BY <1>4, <2>1
    <2>3. \A s \in Stage :
            /\ items'[<<job[q].run, job[q].exec, s>>] = items[<<job[q].run, job[q].exec, s>>]
            /\ events'[<<job[q].run, job[q].exec, s>>] = events[<<job[q].run, job[q].exec, s>>]
      BY <2>2, ExecutesTypes DEF IInv, TrailInv
    <2>. QED
      BY <2>1, <2>3, KeptTrail DEF TrailInv
  <1>7. WholeWhenSaid'
    <2>. SUFFICES ASSUME NEW q \in Process, Executes(q)', view'[q].mem.status = "completed",
                         NEW s \in Stage
                  PROVE  Done(q, s)'
      BY <1>2 DEF WholeWhenSaid
    <2>1. /\ q \in Process \ P /\ Executes(q) /\ job'[q] = job[q]
          /\ view[q].mem.status = "completed"
      BY <1>3, <1>4
    <2>2. job[q].run \in Run /\ job[q].exec \in Execution \ {0}
      BY <2>1, ExecutesTypes DEF IInv, TrailInv
    <2>3. Done(q, s)
      BY <2>1 DEF TrailInv, WholeWhenSaid
    <2>. QED
      BY <2>1, <2>2, <2>3 DEF Done, Item, Event
  <1>. QED
    BY <1>2, <1>5, <1>6, <1>7 DEF TrailInv

(* process_run starts, under an execution number of its own.                *)
LEMMA BeginTrail ==
  ASSUME IInv, TrailInv, TypeInv', NEW p \in Process, NEW r \in Run, NEW b \in BOOLEAN,
         Begin(p, r, b), UNCHANGED <<runs, items, events, view>>
  PROVE  TrailInv'
  <1>0. /\ TypeInv /\ execs[r] \in Nat /\ execs[r] + 1 \in Execution \ {0}
        /\ execs' = [execs EXCEPT ![r] = @ + 1]
        /\ \A x \in Run : execs[x] \in Nat
    BY BoundAssumption DEF IInv, TypeInv, TypeOK, Begin, Execution
  <1>1. /\ execs'[r] = execs[r] + 1
        /\ \A x \in Run : execs'[x] \in Nat /\ execs[x] <= execs'[x]
    BY <1>0 DEF TypeInv, TypeOK
  <1>2. /\ pc[p] = "idle" /\ pc'[p] = "load"
        /\ job'[p] = [NoJob EXCEPT !.run = r, !.exec = execs[r] + 1, !.unacked = b]
    BY <1>0, GotoType DEF Begin, TypeInv, TypeOK, Label
  <1>3. /\ job'[p].run = r /\ job'[p].exec = execs[r] + 1
        /\ job'[p].stage = 0 /\ job'[p].exc = "none"
    BY <1>2 DEF NoJob
  <1>4. \A q \in Process \ {p} : Untouched(q)
    BY <1>0, StepOf DEF Begin, Untouched
  <1>5. ~Executes(p) /\ Executes(p)'
    BY <1>0, <1>2, <1>3 DEF TrailInv, NumberOK, Executes
  <1>6. ASSUME NEW q \in Process \ {p}
        PROVE  /\ NumberOK(q)'
               /\ job[q].run = r => job[q].exec # execs[r] + 1
    <2>1. NumberOK(q) /\ Untouched(q)
      BY <1>4 DEF TrailInv
    <2>2. Executes(q) => job[q].run \in Run /\ job[q].exec \in Nat /\ job[q].exec <= execs[job[q].run]
      BY <1>0, <2>1, ExecutesTypes DEF NumberOK, Execution
    <2>3. job[q].run = r => job[q].exec # execs[r] + 1
      <3>1. CASE Executes(q)
        BY <1>0, <2>2, <3>1
      <3>2. CASE ~Executes(q)
        BY <1>0, <3>2 DEF Executes
      <3>. QED
        BY <3>1, <3>2
    <2>4. Executes(q) => job[q].exec <= execs'[job[q].run]
      BY <1>0, <1>1, <2>2
    <2>5. /\ pc'[q] = pc[q] /\ job'[q] = job[q] /\ (Executes(q)' <=> Executes(q))
          /\ pc'[q] = "idle" => job'[q] = NoJob
          /\ Executes(q)' <=> pc'[q] \notin {"idle", "create_item", "publish"}
          /\ Executes(q)' => job'[q].exec <= execs'[job'[q].run]
      BY <2>1, <2>4 DEF Untouched, Executes, NumberOK
    <2>6. ASSUME NEW z \in Process \ {q}, Executes(q)', job'[z].run = job'[q].run
          PROVE  job'[z].exec # job'[q].exec
      <3>1. CASE z = p
        BY <1>3, <2>3, <2>5, <2>6, <3>1
      <3>2. CASE z # p
        BY <1>4, <2>1, <2>5, <2>6, <3>2 DEF Untouched, NumberOK
      <3>. QED
        BY <3>1, <3>2
    <2>. QED
      BY <2>3, <2>5, <2>6 DEF NumberOK
  <1>7. NumberOK(p)'
    <2>1. job'[p].exec <= execs'[job'[p].run]
      BY <1>0, <1>1, <1>3
    <2>2. \A q \in Process \ {p} : job'[q].run = job'[p].run => job'[q].exec # job'[p].exec
      BY <1>3, <1>4, <1>6 DEF Untouched
    <2>. QED
      BY <1>2, <1>5, <2>1, <2>2 DEF NumberOK
  <1>8. \A q \in Process : NumberOK(q)'
    BY <1>6, <1>7
  <1>9. \A q \in Process \ {p} : TrailOK(q)'
    BY <1>4, KeptTrail DEF TrailInv
  <1>10. TrailOK(p)'
    <2>1. ASSUME NEW s \in Stage
          PROVE  Item(p, s)' = "absent" /\ Event(p, s)' = "absent"
      BY <1>0, <1>3 DEF TrailInv, Unwritten, Item, Event
    <2>2. Past(p)' /\ Ahead(p)'
      BY <1>3, <2>1 DEF Past, Ahead, Stage
    <2>3. Present(p)'
      BY <1>2, <1>3 DEF Present, InStage, InBody, StageUpdate
    <2>. QED
      BY <2>2, <2>3 DEF TrailOK
  <1>11. Unwritten'
    <2>. SUFFICES ASSUME NEW x \in Run, NEW e \in Execution, NEW s \in Stage, e > execs'[x]
                  PROVE  items[<<x, e, s>>] = "absent" /\ events[<<x, e, s>>] = "absent"
      BY DEF Unwritten
    <2>1. e > execs[x]
      BY <1>0, <1>1 DEF Execution
    <2>. QED
      BY <2>1 DEF TrailInv, Unwritten
  <1>12. StageOrder' /\ EventsMatchItems'
    BY DEF TrailInv, StageOrder, EventsMatchItems
  <1>13. WholeWhenSaid'
    <2>1. view'[p].mem.status # "completed"
      BY <1>2 DEF IInv, MemoryOK, NoView, Blank
    <2>2. \A x \in Run : Whole(x)' <=> Whole(x)
      BY DEF Whole, Success
    <2>3. ASSUME NEW q \in Process, Executes(q)', view'[q].mem.status = "completed", NEW s \in Stage
          PROVE  Done(q, s)'
      <3>1. q # p /\ job'[q] = job[q] /\ Executes(q) /\ view[q].mem.status = "completed"
        BY <1>4, <2>1, <2>3 DEF Untouched, Executes
      <3>2. Done(q, s)
        BY <3>1 DEF TrailInv, WholeWhenSaid
      <3>. QED
        BY <3>1, <3>2 DEF Done, Item, Event
    <2>. QED
      BY <2>2, <2>3 DEF TrailInv, WholeWhenSaid
  <1>. QED
    BY <1>8, <1>9, <1>10, <1>11, <1>12, <1>13 DEF TrailInv

-----------------------------------------------------------------------------
(* Every step.                                                              *)

LEMMA InitTrail == Init => TrailInv
  <1>. SUFFICES ASSUME Init
                PROVE  TrailInv
    OBVIOUS
  <1>1. \A p \in Process : job[p] = NoJob /\ pc[p] = "idle" /\ ~Executes(p)
    BY DEF Init, Executes, NoJob
  <1>2. \A p \in Process : NumberOK(p) /\ TrailOK(p)
    BY <1>1 DEF NumberOK, TrailOK
  <1>3. \A k \in Run \X Execution \X Stage : items[k] = "absent" /\ events[k] = "absent"
    BY DEF Init, Stage
  <1>4. \A r \in Run, e \in Execution, s \in Stage :
          items[<<r, e, s>>] = "absent" /\ events[<<r, e, s>>] = "absent"
    BY <1>3
  <1>5. Unwritten /\ StageOrder /\ EventsMatchItems
    BY <1>4 DEF Unwritten, StageOrder, EventsMatchItems
  <1>6. WholeWhenSaid
    BY <1>1 DEF WholeWhenSaid, Init, Blank
  <1>. QED
    BY <1>2, <1>5, <1>6 DEF TrailInv

(* The steps inside the execute functions.                                  *)
InnerStep(p) == \/ Discover(p) \/ AddUrls(p) \/ Extract(p) \/ Upsert(p) \/ SetValidator(p)
                \/ Canonicalize(p) \/ Score(p) \/ Generate(p) \/ SaveArtifact(p)

LEMMA InnerView ==
  ASSUME TypeInv, NEW p \in Process, InnerStep(p)
  PROVE  /\ \A q \in Process \ {p} : view'[q] = view[q]
         /\ view'[p].mem.status = view[p].mem.status
  <1>1. view[p] \in View
    BY DEF TypeInv, TypeOK
  <1>2. CASE view' = view
    BY <1>2
  <1>3. CASE \E b, k : view' = [view EXCEPT ![p] = Holding(@, b, k)]
    <2>1. PICK b, k : view' = [view EXCEPT ![p] = Holding(@, b, k)]
      BY <1>3
    <2>. QED
      BY <1>1, <2>1, StepOf, Fields
  <1>4. CASE \E l, f : view' = [view EXCEPT ![p] = Listing(@, l, f)]
    <2>1. PICK l, f : view' = [view EXCEPT ![p] = Listing(@, l, f)]
      BY <1>4
    <2>. QED
      BY <1>1, <2>1, StepOf, Fields
  <1>5. CASE view' = [view EXCEPT ![p].known = validators]
    <2>1. /\ view'[p] = [view[p] EXCEPT !.known = validators]
          /\ \A q \in Process \ {p} : view'[q] = view[q]
      BY <1>5 DEF TypeInv, TypeOK
    <2>. QED
      BY <1>1, <2>1, Fields
  <1>6. CASE view' = [view EXCEPT ![p] = WithScore(@)]
    BY <1>1, <1>6, StepOf, Fields
  <1>7. CASE view' = [view EXCEPT ![p] = WithPath(@)]
    BY <1>1, <1>7, StepOf, Fields
  <1>8. CASE Discover(p) \/ Extract(p) \/ Canonicalize(p) \/ SetValidator(p)
    BY <1>2, <1>3, <1>8 DEF Discover, Extract, Canonicalize, SetValidator
  <1>9. CASE AddUrls(p) \/ Upsert(p)
    BY <1>2, <1>5, <1>9 DEF AddUrls, Upsert
  <1>10. CASE Score(p) \/ Generate(p) \/ SaveArtifact(p)
    BY <1>2, <1>4, <1>6, <1>7, <1>10 DEF Score, Generate, SaveArtifact
  <1>. QED
    BY <1>8, <1>9, <1>10 DEF InnerStep

LEMMA InnerFacts ==
  ASSUME TypeInv, NEW p \in Process, InnerStep(p)
  PROVE  /\ pc[p] \in {"discover", "add_urls", "extract", "upsert", "set_validators",
                       "canonicalize", "score", "generate", "save_artifact"}
         /\ \A q \in Process \ {p} : Untouched(q)
         /\ UNCHANGED <<runs, items, events, msgs, execs, used, job>>
         /\ view'[p].mem.status = view[p].mem.status
         /\ pc'[p] \in {"add_urls", "upsert", "set_validators", "save_artifact",
                        "complete_item", "update_get", "fail_item"}
  <1>1. \E l \in {"add_urls", "upsert", "set_validators", "save_artifact",
                  "complete_item", "update_get", "fail_item"} : Goto(p, l)
    BY DEF InnerStep, Discover, AddUrls, Extract, Upsert, SetValidator, Canonicalize,
           Score, Generate, SaveArtifact
  <1>2. /\ pc'[p] \in {"add_urls", "upsert", "set_validators", "save_artifact",
                       "complete_item", "update_get", "fail_item"}
        /\ \A q \in Process \ {p} : pc'[q] = pc[q]
    BY <1>1, StepOf
  <1>3. UNCHANGED <<runs, items, events, msgs, execs, used, job>>
    BY DEF InnerStep, Discover, AddUrls, Extract, Upsert, SetValidator, Canonicalize,
           Score, Generate, SaveArtifact, trail, content, broker
  <1>4. pc[p] \in {"discover", "add_urls", "extract", "upsert", "set_validators",
                   "canonicalize", "score", "generate", "save_artifact"}
    BY DEF InnerStep, Discover, AddUrls, Extract, Upsert, SetValidator, Canonicalize,
           Score, Generate, SaveArtifact
  <1>. QED
    BY <1>2, <1>3, <1>4, InnerView DEF Untouched

(* What the trail says of a process in a stage.                             *)
LEMMA StageFacts ==
  ASSUME IInv, TrailInv, NEW p \in Process, InStage(p) \/ pc[p] = "stage_event"
  PROVE  /\ Executes(p) /\ pc[p] # "idle" /\ pc[p] \notin Calling
         /\ job[p] \in Job /\ view[p] \in View /\ job[p].run \in Run
         /\ job[p].exec \in Execution \ {0} /\ job[p].stage \in Stage
         /\ view[p].mem.status = "running" /\ Event(p, job[p].stage) = "absent"
         /\ Present(p) /\ Past(p) /\ Ahead(p)
  <1>1. pc[p] \notin Calling
    BY DEF InStage, InBody, StageUpdate, Calling
  <1>2. Executes(p)
    BY <1>1 DEF TrailInv, NumberOK, Calling
  <1>3. /\ pc[p] # "idle" /\ job[p] \in Job /\ view[p] \in View /\ job[p].run \in Run
        /\ job[p].exec \in Execution \ {0} /\ job[p].stage \in 0 .. LastStage
    BY <1>2, ExecutesTypes DEF IInv, TrailInv
  <1>4. job[p].stage \in Stage
    BY <1>3, StageOfBody
  <1>5. Present(p) /\ Past(p) /\ Ahead(p)
    BY <1>2 DEF TrailInv, TrailOK
  <1>6. view[p].mem.status = "running" /\ Event(p, job[p].stage) = "absent"
    BY <1>5 DEF Present
  <1>. QED
    BY <1>1, <1>2, <1>3, <1>4, <1>5, <1>6

LEMMA InnerTrail ==
  ASSUME IInv, TrailInv, TypeInv', NEW p \in Process, InnerStep(p)
  PROVE  TrailInv'
  <1>1. TypeInv
    BY DEF IInv
  <1>2. InBody(p)
    BY <1>1, InnerFacts DEF InBody
  <1>3. job[p].stage \in Stage /\ view[p].mem.status = "running"
    BY <1>2, StageFacts DEF InStage
  <1>4. job'[p] = job[p] /\ view'[p].mem.status = "running"
    BY <1>1, <1>3, InnerFacts
  <1>5. InBody(p)' \/ pc'[p] = "fail_item"
    <2>1. job'[p].stage > 0
      BY <1>3, <1>4 DEF Stage
    <2>. QED
      BY <1>1, <1>4, <2>1, InnerFacts DEF InBody, StageUpdate
  <1>. QED
    BY <1>1, <1>2, <1>3, <1>4, <1>5, InnerFacts, BodyTrailStep

(* Handlers return, requests fail, processes die.                           *)
LEMMA ResetTrail ==
  ASSUME IInv, TrailInv, TypeInv', NEW P \in SUBSET Process, Reset(P),
         UNCHANGED <<runs, items, events, execs>>
  PROVE  TrailInv'
  <1>1. \A q \in Process \ P : Untouched(q)
    BY DEF Reset, Untouched
  <1>2. \A q \in P : /\ job'[q].exec = 0 /\ pc'[q] \in Calling
                     /\ pc'[q] = "idle" => job'[q] = NoJob
    BY DEF Reset, NoJob, Calling
  <1>. QED
    BY <1>1, <1>2, OutsideStep

LEMMA LoadTrail ==
  ASSUME IInv, TrailInv, TypeInv', NEW p \in Process, Load(p)
  PROVE  TrailInv'
  <1>1. /\ TypeInv /\ pc[p] = "load" /\ Executes(p) /\ pc[p] # "idle"
        /\ UNCHANGED <<runs, items, events, execs, job>>
    BY DEF IInv, Load, trail, content, broker, TrailInv, NumberOK
  <1>2. job[p].stage = 0 /\ job[p].exc = "none"
    BY <1>1 DEF IInv, LabelOK, TrailInv, TrailOK, Present, Opening
  <1>3. \A q \in Process \ {p} : Untouched(q)
    BY <1>1, StepOf DEF Load, Untouched
  <1>4. view[p] \in View /\ runs[RunOf(p)] \in RunRecord
    BY <1>1, BusyTypes
  <1>5. \/ pc'[p] = "finish" /\ view'[p] = view[p]
        \/ pc'[p] = "update_get" /\ view'[p] = WithMem(view[p], Started(runs[RunOf(p)]))
    BY <1>1, StepOf DEF Load
  <1>6. view'[p] = view[p] \/ view'[p].mem.status = "running"
    <2>1. Started(runs[RunOf(p)]) \in RunRecord /\ Started(runs[RunOf(p)]).status = "running"
      BY <1>4, StartedType DEF Started, RunRecord
    <2>. QED
      BY <1>4, <1>5, <2>1, Fields
  <1>7. pc'[p] \notin Calling /\ Present(p)'
    BY <1>1, <1>2, <1>5 DEF Present, InStage, InBody, StageUpdate, Calling
  <1>. QED
    BY <1>1, <1>3, <1>6, <1>7, SameTrailStep

LEMMA UpdateGetTrail ==
  ASSUME IInv, TrailInv, TypeInv', NEW p \in Process, UpdateGet(p)
  PROVE  TrailInv'
  <1>1. /\ TypeInv /\ pc[p] = "update_get" /\ Executes(p) /\ pc[p] # "idle"
        /\ UNCHANGED <<runs, items, events, execs, job>>
    BY DEF IInv, UpdateGet, trail, content, broker, TrailInv, NumberOK
  <1>2. /\ pc'[p] = "update_commit"
        /\ \A q \in Process \ {p} : pc'[q] = pc[q]
    BY <1>1, StepOf DEF UpdateGet
  <1>3. /\ view'[p] = [view[p] EXCEPT !.record = runs[RunOf(p)]]
        /\ \A q \in Process \ {p} : view'[q] = view[q]
    <2>1. view \in [Process -> View] /\ view' = [view EXCEPT ![p].record = runs[RunOf(p)]]
      BY <1>1 DEF UpdateGet, TypeInv, TypeOK
    <2>. QED
      BY <2>1
  <1>4. /\ view'[p].mem = view[p].mem /\ job[p].stage \in 0 .. LastStage
        /\ \A q \in Process \ {p} : Untouched(q)
    BY <1>1, <1>2, <1>3, BusyTypes DEF View, Untouched
  <1>5. CASE StageUpdate(p)
    <2>1. InBody(p) /\ InBody(p)'
      BY <1>1, <1>2, <1>4, <1>5 DEF InBody, StageUpdate
    <2>. QED
      BY <1>1, <1>4, <2>1, BodyTrailStep
  <1>6. CASE job[p].stage = 0
    <2>1. job[p].exc = "none"
      BY <1>1, <1>6 DEF TrailInv, TrailOK, Present, Opening, Updating
    <2>2. pc'[p] \notin Calling /\ Present(p)'
      BY <1>1, <1>2, <1>6, <2>1 DEF Present, InStage, InBody, StageUpdate, Calling
    <2>. QED
      BY <1>1, <1>4, <2>2, SameTrailStep
  <1>7. CASE ~StageUpdate(p) /\ job[p].stage # 0
    <2>1. Leaving(p)'
      BY <1>1, <1>2, <1>4, <1>7 DEF Leaving, Updating, StageUpdate, LastStage
    <2>. QED
      BY <1>1, <1>4, <2>1, LeavingTrailStep
  <1>. QED
    BY <1>5, <1>6, <1>7

LEMMA UpdateCommitTrail ==
  ASSUME IInv, TrailInv, TypeInv', NEW p \in Process, UpdateCommit(p)
  PROVE  TrailInv'
  <1>1. /\ TypeInv /\ pc[p] = "update_commit" /\ Executes(p) /\ pc[p] # "idle"
        /\ UNCHANGED <<items, events, execs, view>>
    BY DEF IInv, UpdateCommit, trail, content, broker, TrailInv, NumberOK
  <1>2. /\ RunOf(p) \in Run /\ runs[RunOf(p)] \in RunRecord /\ RunOf(p) = job[p].run
        /\ view[p].mem \in RunRecord /\ view[p].record \in RunRecord
        /\ job[p] \in Job /\ job[p].stage \in 0 .. LastStage
    BY <1>1, BusyTypes DEF RunOf
  <1>3. \A r \in Run : runs'[r].status = "completed" =>
          \/ runs[r].status = "completed"
          \/ r = job[p].run /\ view[p].mem.status = "completed"
    <2>1. PICK row \in UpdatedRows(runs[RunOf(p)], view[p].record, view[p].mem) :
             runs' = [runs EXCEPT ![RunOf(p)] = row]
      BY DEF UpdateCommit
    <2>2. row.status \in {view[p].mem.status, runs[RunOf(p)].status}
      BY <1>2, UpdatedRowsType
    <2>3. runs'[RunOf(p)] = row /\ \A r \in Run \ {RunOf(p)} : runs'[r] = runs[r]
      BY <1>1, <1>2, <2>1 DEF TypeInv, TypeOK
    <2>. QED
      BY <1>2, <2>2, <2>3
  <1>4. \A q \in Process \ {p} : Untouched(q)
    BY <1>1, StepOf DEF UpdateCommit, Untouched
  <1>5. CASE view[p].mem.status \in Terminal
    <2>1. pc'[p] = "run_event" /\ job'[p] = job[p]
      BY <1>1, <1>5, StepOf DEF UpdateCommit
    <2>2. Leaving(p)'
      BY <2>1 DEF Leaving
    <2>. QED
      BY <1>1, <1>3, <1>4, <2>1, <2>2, LeavingTrailStep
  <1>6. CASE view[p].mem.status \notin Terminal /\ job[p].stage = 0
    <2>1. pc'[p] = "new_item" /\ job' = [job EXCEPT ![p].stage = 1]
      BY <1>1, <1>6, StepOf DEF UpdateCommit
    <2>2. job'[p] = [job[p] EXCEPT !.stage = 1]
      BY <1>1, <2>1 DEF TypeInv, TypeOK
    <2>3. /\ job'[p].run = job[p].run /\ job'[p].exec = job[p].exec
          /\ job'[p].exc = job[p].exc /\ job'[p].stage = 1
      BY <1>2, <2>2 DEF Job
    <2>4. /\ view[p].mem.status = "running" /\ job[p].exc = "none"
          /\ \A s \in Stage : Item(p, s) = "absent" /\ Event(p, s) = "absent"
      <3>1. view[p].mem.status = "running" /\ Opening(p)
        BY <1>1, <1>6 DEF IInv, PhaseOK, Updating, Opening
      <3>2. Ahead(p) /\ Present(p)
        BY <1>1 DEF TrailInv, TrailOK
      <3>. QED
        BY <1>6, <3>1, <3>2 DEF Ahead, Present, Stage
    <2>5. \A s \in Stage : Item(p, s)' = "absent" /\ Event(p, s)' = "absent"
      BY <1>1, <2>3, <2>4 DEF Item, Event
    <2>6. Past(p)' /\ Ahead(p)'
      BY <2>3, <2>5 DEF Past, Ahead, Stage
    <2>7. pc'[p] \notin Calling /\ 1 \in Stage
      BY <2>1 DEF Calling, Stage, LastStage
    <2>8. Item(p, job[p].stage)' = "absent" /\ Event(p, job[p].stage)' = "absent"
      BY <2>3, <2>5, <2>7 DEF Item, Event
    <2>9. Present(p)'
      BY <1>1, <2>1, <2>3, <2>4, <2>8 DEF Present, InBody, StageUpdate
    <2>10. \A s \in Stage : Matched(job[p].run, job[p].exec, s)'
      BY <2>3, <2>5 DEF Matched, Event
    <2>11. Only(job[p].run, job[p].exec)
      BY <1>1 DEF Only
    <2>12. \A s \in Stage : Done(p, s) => Done(p, s)'
      BY <2>4 DEF Done
    <2>. QED
      BY <1>1, <1>3, <1>4, <2>3, <2>6, <2>7, <2>9, <2>10, <2>11, <2>12, OwnStep
  <1>7. CASE view[p].mem.status \notin Terminal /\ job[p].stage # 0
    <2>1. pc'[p] = "complete_item" /\ job'[p] = job[p]
      BY <1>1, <1>7, StepOf DEF UpdateCommit
    <2>2. view[p].mem.status = "running"
      BY <1>1, <1>2, <1>7 DEF IInv, PhaseOK, Updating, Begun, Terminal, RunRecord, RunStatus
    <2>3. InBody(p) /\ InBody(p)'
      BY <1>1, <1>2, <1>7, <2>1, <2>2 DEF InBody, StageUpdate, LastStage
    <2>4. \A r \in Run : runs'[r].status = "completed" => runs[r].status = "completed"
      BY <1>3, <2>2
    <2>. QED
      BY <1>1, <1>4, <2>1, <2>3, <2>4, BodyTrailStep
  <1>. QED
    BY <1>5, <1>6, <1>7

(* The commits of a work item.                                              *)
LEMMA NewItemTrail ==
  ASSUME IInv, TrailInv, TypeInv', NEW p \in Process, NewItem(p)
  PROVE  TrailInv'
  <1>1. TypeInv /\ pc[p] = "new_item" /\ UNCHANGED <<runs, events, execs, view>>
    BY DEF IInv, NewItem, content, broker
  <1>2. InStage(p)
    BY <1>1 DEF InStage
  <1>3. /\ job[p] \in Job /\ view[p].mem.status = "running" /\ job[p].exc = "none"
        /\ Event(p, job[p].stage) = "absent" /\ Item(p, job[p].stage) = "absent"
    BY <1>1, <1>2, StageFacts DEF Present
  <1>4. /\ pc'[p] = "start_item"
        /\ job'[p] = [job[p] EXCEPT !.item = "queued"]
        /\ \A q \in Process \ {p} : Untouched(q)
    <2>1. job' = [job EXCEPT ![p].item = "queued"] /\ Goto(p, "start_item")
      BY DEF NewItem
    <2>. QED
      BY <1>1, <2>1, StepOf DEF TypeInv, TypeOK, Untouched
  <1>5. /\ job'[p].run = job[p].run /\ job'[p].exec = job[p].exec
        /\ job'[p].stage = job[p].stage /\ job'[p].exc = job[p].exc /\ job'[p].item = "queued"
    BY <1>3, <1>4 DEF Job
  <1>6. ASSUME NEW s \in Stage, s = job[p].stage, Item(p, s)' = "queued",
               Event(p, s)' = Event(p, s)
        PROVE  Present(p)'
    <2>1. Item(p, job[p].stage)' = "queued" /\ Event(p, job[p].stage)' = "absent"
      BY <1>3, <1>5, <1>6 DEF Item, Event
    <2>. QED
      BY <1>1, <1>3, <1>4, <1>5, <2>1 DEF Present, InBody, StageUpdate
  <1>7. items' = [items EXCEPT ![Key(p)] = "queued"] /\ InStage(p)'
    BY <1>4 DEF NewItem, InStage
  <1>8. Item(p, job[p].stage) # "completed" /\ view'[p] = view[p]
    BY <1>1, <1>3
  <1>9. (InStage(p) \/ pc[p] = "stage_event")' /\ \A q \in Process \ {p} : Untouched(q)
    BY <1>4, <1>7
  <1>. QED
    BY <1>1, <1>2, <1>9, <1>5, <1>6, <1>7, <1>8, ItemStep

LEMMA StartItemTrail ==
  ASSUME IInv, TrailInv, TypeInv', NEW p \in Process, StartItem(p)
  PROVE  TrailInv'
  <1>1. TypeInv /\ pc[p] = "start_item" /\ UNCHANGED <<runs, events, execs, view>>
    BY DEF IInv, StartItem, content, broker
  <1>2. InStage(p)
    BY <1>1 DEF InStage
  <1>3. /\ job[p] \in Job /\ view[p].mem.status = "running" /\ job[p].exc = "none"
        /\ Event(p, job[p].stage) = "absent" /\ Item(p, job[p].stage) = "queued"
    BY <1>1, <1>2, StageFacts DEF Present
  <1>4. /\ pc'[p] \in {"discover", "extract", "canonicalize", "score", "generate"}
        /\ job'[p] = [job[p] EXCEPT !.item = "processing"]
        /\ \A q \in Process \ {p} : Untouched(q)
    <2>1. job' = [job EXCEPT ![p].item = "processing"] /\ Goto(p, Body(job[p].stage))
      BY DEF StartItem
    <2>2. Body(job[p].stage) \in {"discover", "extract", "canonicalize", "score", "generate"}
      BY DEF Body
    <2>. QED
      BY <1>1, <2>1, <2>2, StepOf DEF TypeInv, TypeOK, Untouched
  <1>5. /\ job'[p].run = job[p].run /\ job'[p].exec = job[p].exec
        /\ job'[p].stage = job[p].stage /\ job'[p].exc = job[p].exc
        /\ job'[p].item = "processing"
    BY <1>3, <1>4 DEF Job
  <1>6. ASSUME NEW s \in Stage, s = job[p].stage, Item(p, s)' = "processing",
               Event(p, s)' = Event(p, s)
        PROVE  Present(p)'
    <2>1. Item(p, job[p].stage)' = "processing" /\ Event(p, job[p].stage)' = "absent"
      BY <1>3, <1>5, <1>6 DEF Item, Event
    <2>. QED
      BY <1>1, <1>3, <1>4, <1>5, <2>1 DEF Present
  <1>7. items' = [items EXCEPT ![Key(p)] = "processing"] /\ InStage(p)'
    BY <1>4 DEF StartItem, InStage, InBody
  <1>8. Item(p, job[p].stage) # "completed" /\ view'[p] = view[p]
    BY <1>1, <1>3
  <1>9. (InStage(p) \/ pc[p] = "stage_event")' /\ \A q \in Process \ {p} : Untouched(q)
    BY <1>4, <1>7
  <1>. QED
    BY <1>1, <1>2, <1>9, <1>5, <1>6, <1>7, <1>8, ItemStep

LEMMA CompleteItemTrail ==
  ASSUME IInv, TrailInv, TypeInv', NEW p \in Process, CompleteItem(p)
  PROVE  TrailInv'
  <1>1. TypeInv /\ pc[p] = "complete_item" /\ UNCHANGED <<runs, events, execs, view>>
    BY DEF IInv, CompleteItem, content, broker
  <1>2. InStage(p) /\ InBody(p)
    BY <1>1 DEF InStage, InBody
  <1>3. /\ job[p] \in Job /\ view[p].mem.status = "running" /\ job[p].exc = "none"
        /\ Event(p, job[p].stage) = "absent" /\ Item(p, job[p].stage) = "processing"
    BY <1>1, <1>2, StageFacts DEF Present
  <1>4. /\ pc'[p] = "stage_event"
        /\ job'[p] = [job[p] EXCEPT !.item = "completed"]
        /\ \A q \in Process \ {p} : Untouched(q)
    <2>1. job' = [job EXCEPT ![p].item = "completed"] /\ Goto(p, "stage_event")
      BY DEF CompleteItem
    <2>. QED
      BY <1>1, <2>1, StepOf DEF TypeInv, TypeOK, Untouched
  <1>5. /\ job'[p].run = job[p].run /\ job'[p].exec = job[p].exec
        /\ job'[p].stage = job[p].stage /\ job'[p].exc = job[p].exc
    BY <1>3, <1>4 DEF Job
  <1>6. ASSUME NEW s \in Stage, s = job[p].stage, Item(p, s)' = "completed",
               Event(p, s)' = Event(p, s)
        PROVE  Present(p)'
    <2>1. Item(p, job[p].stage)' = "completed" /\ Event(p, job[p].stage)' = "absent"
      BY <1>3, <1>5, <1>6 DEF Item, Event
    <2>. QED
      BY <1>1, <1>3, <1>4, <1>5, <2>1 DEF Present, InStage, InBody, StageUpdate, Opening, Updating
  <1>7. items' = [items EXCEPT ![Key(p)] = "completed"]
    BY DEF CompleteItem
  <1>8. Item(p, job[p].stage) # "completed" /\ view'[p] = view[p]
    BY <1>1, <1>3
  <1>9. (InStage(p) \/ pc[p] = "stage_event")' /\ \A q \in Process \ {p} : Untouched(q)
    BY <1>4, <1>7
  <1>. QED
    BY <1>1, <1>2, <1>9, <1>5, <1>6, <1>7, <1>8, ItemStep

(* The item stays in processing: it could not be failed.                    *)
LEMMA RaisedTrail ==
  ASSUME IInv, TrailInv, TypeInv', NEW p \in Process, pc[p] = "fail_item",
         NEW item, job'[p] = Raising(job[p], item, "raw"), pc'[p] = "stage_event",
         \A q \in Process \ {p} : Untouched(q), UNCHANGED <<runs, items, events, execs, view>>
  PROVE  TrailInv'
  <1>1. InStage(p)
    BY DEF InStage
  <1>2. /\ job[p] \in Job /\ view[p].mem.status = "running" /\ Executes(p)
        /\ Event(p, job[p].stage) = "absent" /\ Item(p, job[p].stage) = "processing"
    BY <1>1, StageFacts DEF Present
  <1>3. /\ job'[p].run = job[p].run /\ job'[p].exec = job[p].exec
        /\ job'[p].stage = job[p].stage /\ job'[p].exc = "raw"
    BY <1>2 DEF Job, Raising
  <1>4. Item(p, job[p].stage)' = "processing" /\ Event(p, job[p].stage)' = "absent"
    BY <1>2, <1>3 DEF Item, Event
  <1>5. Present(p)' /\ pc'[p] \notin Calling
    BY <1>2, <1>3, <1>4 DEF Present, InStage, InBody, StageUpdate, Opening, Updating, Calling
  <1>. QED
    BY <1>2, <1>3, <1>5, SameTrailStep

LEMMA FailItemTrail ==
  ASSUME IInv, TrailInv, TypeInv', NEW p \in Process, FailItem(p)
  PROVE  TrailInv'
  <1>1. TypeInv /\ pc[p] = "fail_item" /\ UNCHANGED <<runs, events, execs, view>>
    BY DEF IInv, FailItem, content, broker
  <1>2. InStage(p)
    BY <1>1 DEF InStage
  <1>3. /\ job[p] \in Job /\ view[p].mem.status = "running" /\ Executes(p)
        /\ job[p].item \in {"processing", "completed"}
        /\ Event(p, job[p].stage) = "absent" /\ Item(p, job[p].stage) = "processing"
    BY <1>1, <1>2, StageFacts DEF Present
  <1>4. /\ pc'[p] = "stage_event"
        /\ \A q \in Process \ {p} : Untouched(q)
    BY <1>1, StepOf DEF FailItem, Untouched
  <1>5. "failed" \in Allowed(job[p].item) <=> job[p].item = "processing"
    BY <1>3 DEF Allowed
  <1>6. CASE job[p].item = "processing"
    <2>1. /\ items' = [items EXCEPT ![Key(p)] = "failed"]
          /\ job'[p] = Raising(job[p], "failed", "stage")
      BY <1>1, <1>5, <1>6, StepOf DEF FailItem, RaisedWith
    <2>2. /\ job'[p].run = job[p].run /\ job'[p].exec = job[p].exec
          /\ job'[p].stage = job[p].stage /\ job'[p].exc = "stage"
      BY <1>3, <2>1 DEF Job, Raising
    <2>3. ASSUME NEW s \in Stage, s = job[p].stage, Item(p, s)' = "failed",
                 Event(p, s)' = Event(p, s)
          PROVE  Present(p)'
      <3>1. Item(p, job[p].stage)' = "failed" /\ Event(p, job[p].stage)' = "absent"
        BY <1>3, <2>2, <2>3 DEF Item, Event
      <3>. QED
        BY <1>1, <1>3, <1>4, <2>2, <3>1 DEF Present, InStage, InBody, StageUpdate, Opening, Updating
    <2>4. Item(p, job[p].stage) # "completed" /\ view'[p] = view[p]
      BY <1>1, <1>3
    <2>. QED
      BY <1>1, <1>2, <1>4, <2>1, <2>2, <2>3, <2>4, ItemStep
  <1>7. CASE job[p].item # "processing"
    <2>1. items' = items /\ job'[p] = Raising(job[p], job[p].item, "raw")
      BY <1>1, <1>5, <1>7, StepOf DEF FailItem, RaisedWith
    <2>. QED
      BY <1>1, <1>3, <1>4, <2>1, RaisedTrail
  <1>. QED
    BY <1>6, <1>7

(* The finally clause of _run_stage and what follows it.                    *)
LEMMA StageEventTrail ==
  ASSUME IInv, TrailInv, TypeInv', NEW p \in Process, StageEvent(p)
  PROVE  TrailInv'
  <1>1. TypeInv /\ pc[p] = "stage_event" /\ UNCHANGED <<runs, items, execs>>
    BY DEF IInv, StageEvent, content, broker
  <1>2. /\ job[p] \in Job /\ view[p] \in View /\ view[p].mem.status = "running" /\ Executes(p)
        /\ job[p].run \in Run /\ job[p].exec \in Execution \ {0} /\ job[p].stage \in Stage
        /\ Event(p, job[p].stage) = "absent" /\ Past(p) /\ Ahead(p) /\ Present(p)
    BY <1>1, StageFacts
  <1>3. PICK s \in Stage : s = job[p].stage
    BY <1>2
  <1>4. /\ events' = [events EXCEPT ![<<job[p].run, job[p].exec, s>>] = StageOutcome(job[p].exc)]
        /\ \A q \in Process \ {p} : Untouched(q)
    BY <1>1, <1>3, StepOf DEF StageEvent, Key, Untouched
  <1>5. /\ Only(job[p].run, job[p].exec)
        /\ events'[<<job[p].run, job[p].exec, s>>] = StageOutcome(job[p].exc)
        /\ \A t \in Stage \ {s} : events'[<<job[p].run, job[p].exec, t>>] = Event(p, t)
        /\ \A t \in Stage : items'[<<job[p].run, job[p].exec, t>>] = Item(p, t)
    BY <1>1, <1>2, <1>4 DEF TypeInv, TypeOK, Only, Item, Event, Stage
  <1>6. Item(p, s) = CASE job[p].exc = "none"  -> "completed"
                       [] job[p].exc = "stage" -> "failed"
                       [] job[p].exc = "raw"   -> "processing"
    BY <1>1, <1>2, <1>3 DEF Present
  <1>7. CASE job[p].exc = "none" /\ ~PlanDone(job[p].stage)
    <2>1. pc'[p] = "new_item" /\ job' = [job EXCEPT ![p].stage = @ + 1] /\ view' = view
      BY <1>1, <1>7, StepOf DEF StageEvent
    <2>2. job'[p] = [job[p] EXCEPT !.stage = s + 1]
      BY <1>1, <1>3, <2>1 DEF TypeInv, TypeOK
    <2>3. /\ job'[p].run = job[p].run /\ job'[p].exec = job[p].exec
          /\ job'[p].exc = "none" /\ job'[p].stage = s + 1
      BY <1>2, <1>7, <2>2 DEF Job
    <2>4. s + 1 \in Stage
      BY <1>3, <1>7 DEF PlanDone, Stage, LastStage
    <2>5. PICK t \in Stage : t = s + 1
      BY <2>4
    <2>6. /\ \A u \in Stage : Item(p, u)' = Item(p, u)
          /\ \A u \in Stage \ {s} : Event(p, u)' = Event(p, u)
          /\ Event(p, s)' = "success" /\ Item(p, s) = "completed"
      BY <1>5, <1>6, <1>7, <2>3 DEF Item, Event, StageOutcome
    <2>7. Past(p)'
      <3>. SUFFICES ASSUME NEW u \in Stage, u < s + 1
                    PROVE  Item(p, u)' = "completed" /\ Event(p, u)' = "success"
        BY <2>3 DEF Past
      <3>1. CASE u = s
        BY <2>6, <3>1
      <3>2. CASE u # s
        <4>1. u < job[p].stage
          BY <1>3, <3>2 DEF Stage, LastStage
        <4>. QED
          BY <1>2, <2>6, <3>2, <4>1 DEF Past
      <3>. QED
        BY <3>1, <3>2
    <2>8. Ahead(p)'
      <3>. SUFFICES ASSUME NEW u \in Stage, u > s + 1
                    PROVE  Item(p, u)' = "absent" /\ Event(p, u)' = "absent"
        BY <2>3 DEF Ahead
      <3>1. u # s /\ u > job[p].stage
        BY <1>3 DEF Stage, LastStage
      <3>. QED
        BY <1>2, <2>6, <3>1 DEF Ahead
    <2>9. Item(p, t)' = "absent" /\ Event(p, t)' = "absent"
      <3>1. t # s /\ t > job[p].stage
        BY <1>3, <2>5 DEF Stage, LastStage
      <3>. QED
        BY <1>2, <2>6, <3>1 DEF Ahead
    <2>10. Item(p, job[p].stage)' = "absent" /\ Event(p, job[p].stage)' = "absent"
      BY <2>3, <2>5, <2>9 DEF Item, Event
    <2>11. Present(p)' /\ pc'[p] \notin Calling
      BY <1>2, <2>1, <2>3, <2>10 DEF Present, InBody, StageUpdate, Calling
    <2>12. \A u \in Stage : u = job'[p].stage => Matched(job[p].run, job[p].exec, u)'
      BY <2>3, <2>5, <2>9 DEF Matched, Event
    <2>13. \A u \in Stage : Done(p, u) => Done(p, u)'
      BY <2>6 DEF Done
    <2>14. /\ \A r \in Run : runs'[r].status = "completed" => runs[r].status = "completed"
           /\ view'[p].mem.status = "completed" => view[p].mem.status = "completed"
      BY <1>1, <2>1
    <2>. QED
      BY <1>1, <1>2, <1>4, <1>5, <2>3, <2>7, <2>8, <2>11, <2>12, <2>13, <2>14, OwnStep
  <1>8. CASE ~(job[p].exc = "none" /\ ~PlanDone(job[p].stage))
    <2>1. job'[p] = job[p]
      BY <1>1, <1>8 DEF StageEvent
    <2>2. /\ \A u \in Stage : Item(p, u)' = Item(p, u)
          /\ \A u \in Stage \ {s} : Event(p, u)' = Event(p, u)
          /\ Event(p, s)' = StageOutcome(job[p].exc)
      BY <1>5, <2>1 DEF Item, Event
    <2>3. Past(p)' /\ Ahead(p)'
      BY <1>2, <1>3, <2>1, <2>2 DEF Past, Ahead, Stage
    <2>4. Matched(job[p].run, job[p].exec, s)'
      <3>1. job[p].exc \in {"none", "stage", "raw"}
        BY <1>2 DEF Job
      <3>2. /\ items'[<<job[p].run, job[p].exec, s>>] = Item(p, s)
            /\ events'[<<job[p].run, job[p].exec, s>>] = StageOutcome(job[p].exc)
        BY <1>5
      <3>. QED
        BY <1>6, <2>1, <3>1, <3>2 DEF Matched, StageOutcome
    <2>5. /\ \/ pc'[p] = "finish" /\ view'[p] = view[p]
             \/ pc'[p] = "update_get" /\ view'[p].mem.status \in {"completed", "failed"}
          /\ view'[p].mem.status = "completed" => job[p].exc = "none" /\ PlanDone(job[p].stage)
      <3>1. CASE job[p].exc = "raw"
        BY <1>1, <1>2, <3>1, StepOf DEF StageEvent
      <3>2. ASSUME NEW outcome \in {"completed", "failed"}, Goto(p, "update_get"),
                   view' = [view EXCEPT ![p] = WithMem(@, EndedRun(@.mem, outcome))]
            PROVE  pc'[p] = "update_get" /\ view'[p].mem.status = outcome
        <4>1. view[p].mem \in RunRecord /\ outcome \in RunStatus
          BY <1>2 DEF View, RunStatus
        <4>2. /\ EndedRun(view[p].mem, outcome) \in RunRecord
              /\ EndedRun(view[p].mem, outcome).status = outcome
          BY <4>1, EndedRunType, EndedRunFields
        <4>3. view'[p] = WithMem(view[p], EndedRun(view[p].mem, outcome))
          BY <1>1, <3>2 DEF TypeInv, TypeOK
        <4>4. pc'[p] = "update_get"
          BY <1>1, <3>2, StepOf
        <4>. QED
          BY <1>2, <4>2, <4>3, <4>4, Fields
      <3>3. CASE job[p].exc = "none" /\ PlanDone(job[p].stage)
        BY <3>2, <3>3 DEF StageEvent
      <3>4. CASE job[p].exc = "stage"
        BY <3>2, <3>4 DEF StageEvent
      <3>. QED
        BY <1>8, <3>1, <3>3, <3>4 DEF StageEvent
    <2>6. Present(p)' /\ pc'[p] \notin Calling
      BY <1>3, <2>1, <2>5 DEF Present, InStage, InBody, StageUpdate, Opening, Calling, Stage
    <2>7. view'[p].mem.status = "completed" => \A u \in Stage : Done(p, u)'
      <3>. SUFFICES ASSUME job[p].exc = "none", s = LastStage, NEW u \in Stage
                    PROVE  Done(p, u)'
        BY <1>3, <2>5 DEF PlanDone
      <3>1. Item(p, s) = "completed" /\ StageOutcome(job[p].exc) = "success"
        BY <1>6 DEF StageOutcome
      <3>2. u = s \/ (u # s /\ u < job[p].stage)
        BY <1>3 DEF Stage, LastStage
      <3>. QED
        BY <1>2, <2>2, <3>1, <3>2 DEF Past, Done
    <2>8. /\ \A r \in Run : runs'[r].status = "completed" => runs[r].status = "completed"
          /\ \A u \in Stage : Done(p, u) => Done(p, u)'
          /\ \A u \in Stage : u = job'[p].stage => Matched(job[p].run, job[p].exec, u)'
          /\ job'[p].run = job[p].run /\ job'[p].exec = job[p].exec
      BY <1>1, <1>2, <1>3, <2>1, <2>2, <2>4 DEF Done
    <2>. QED
      BY <1>1, <1>2, <1>4, <1>5, <2>3, <2>6, <2>7, <2>8, OwnStep
  <1>. QED
    BY <1>7, <1>8

(* The run's own event is not part of a stage.                              *)
LEMMA RunEventTrail ==
  ASSUME IInv, TrailInv, TypeInv', NEW p \in Process, RunEvent(p)
  PROVE  TrailInv'
  <1>1. TypeInv /\ Executes(p) /\ pc[p] = "run_event" /\ UNCHANGED <<runs, items, execs, job, view>>
    BY DEF IInv, RunEvent, content, broker, TrailInv, NumberOK
  <1>2. job[p].run \in Run /\ job[p].exec \in Execution \ {0} /\ Past(p) /\ Ahead(p)
    BY <1>1, ExecutesTypes DEF TrailInv, TrailOK
  <1>3. pc'[p] = "finish" /\ \A q \in Process \ {p} : Untouched(q)
    BY <1>1, StepOf DEF RunEvent, Untouched
  <1>4. \A r \in Run, e \in Execution, s \in Stage : events'[<<r, e, s>>] = events[<<r, e, s>>]
    <2>1. \E x : events' = [events EXCEPT ![<<job[p].run, job[p].exec, 0>>] = x]
      BY DEF RunEvent, RunOf
    <2>. QED
      BY <1>1, <2>1 DEF TypeInv, TypeOK, Stage
  <1>5. \A s \in Stage : Item(p, s)' = Item(p, s) /\ Event(p, s)' = Event(p, s)
    BY <1>1, <1>2, <1>4 DEF Item, Event
  <1>6. Past(p)' /\ Ahead(p)' /\ Only(job[p].run, job[p].exec)
    BY <1>1, <1>2, <1>4, <1>5 DEF Past, Ahead, Only
  <1>7. Present(p)' /\ pc'[p] \notin Calling
    BY <1>3 DEF Present, InStage, InBody, StageUpdate, Opening, Updating, Calling
  <1>8. \A s \in Stage : Matched(job[p].run, job[p].exec, s)
    BY <1>2, ByStage DEF TrailInv
  <1>9. \A s \in Stage : Matched(job[p].run, job[p].exec, s)'
    BY <1>1, <1>2, <1>4, <1>8 DEF Matched
  <1>. QED
    BY <1>1, <1>3, <1>5, <1>6, <1>7, <1>9, OwnStep DEF Done

LEMMA DbErrorTrail ==
  ASSUME IInv, TrailInv, TypeInv', NEW p \in Process, DbError(p)
  PROVE  TrailInv'
  <1>1. TypeInv /\ UNCHANGED <<runs, items, events, execs>>
    BY DEF IInv, DbError, trail, content
  <1>2. CASE pc[p] = "create_item"
    <2>1. Reset({p})
      BY <1>2 DEF DbError, StageBody, StageUpdate
    <2>. QED
      BY <1>1, <2>1, ResetTrail
  <1>3. CASE pc[p] # "create_item"
    <2>1. Executes(p) /\ view' = view /\ \A q \in Process \ {p} : Untouched(q)
      <3>1. pc[p] \notin {"idle", "create_item", "publish"} /\ view' = view
        BY <1>3 DEF DbError, StageBody, StageUpdate
      <3>2. Executes(p)
        BY <3>1 DEF TrailInv, NumberOK
      <3>. QED
        BY <1>1, <1>3, <3>1, <3>2, StepOf DEF DbError, Untouched
    <2>2. CASE pc'[p] = "finish" /\ job'[p] = job[p]
      BY <1>1, <2>1, <2>2, LeavingTrailStep DEF Leaving
    <2>3. CASE pc'[p] = "fail_item" /\ job'[p] = job[p] /\ InBody(p)
      BY <1>1, <2>1, <2>3, BodyTrailStep
    <2>4. CASE /\ pc[p] = "complete_item" /\ pc'[p] = "fail_item"
               /\ job'[p] = [job[p] EXCEPT !.item = "completed"]
      <3>1. InBody(p) /\ InStage(p)
        BY <2>4 DEF InBody, InStage
      <3>2. /\ job[p] \in Job /\ job[p].exc = "none" /\ view[p].mem.status = "running"
            /\ Event(p, job[p].stage) = "absent" /\ Item(p, job[p].stage) = "processing"
        BY <3>1, StageFacts DEF Present
      <3>3. /\ job'[p].run = job[p].run /\ job'[p].exec = job[p].exec
            /\ job'[p].stage = job[p].stage /\ job'[p].exc = "none"
            /\ job'[p].item = "completed"
        BY <2>4, <3>2 DEF Job
      <3>4. Item(p, job[p].stage)' = "processing" /\ Event(p, job[p].stage)' = "absent"
        BY <1>1, <3>2, <3>3 DEF Item, Event
      <3>5. pc'[p] = "fail_item" /\ pc'[p] \notin Calling
        BY <2>4 DEF Calling
      <3>6. Present(p)'
        BY <2>1, <3>2, <3>3, <3>4, <3>5 DEF Present, InBody, StageUpdate
      <3>. QED
        BY <1>1, <2>1, <3>3, <3>5, <3>6, SameTrailStep
    <2>5. CASE /\ pc[p] = "fail_item" /\ pc'[p] = "stage_event"
               /\ job'[p] = Raising(job[p], "failed", "raw")
      BY <1>1, <2>1, <2>5, RaisedTrail
    <2>6. \/ pc'[p] = "finish" /\ job'[p] = job[p]
          \/ pc'[p] = "fail_item" /\ job'[p] = job[p] /\ InBody(p)
          \/ /\ pc[p] = "complete_item" /\ pc'[p] = "fail_item"
             /\ job'[p] = [job[p] EXCEPT !.item = "completed"]
          \/ /\ pc[p] = "fail_item" /\ pc'[p] = "stage_event"
             /\ job'[p] = Raising(job[p], "failed", "raw")
      <3>1. CASE pc[p] = "complete_item"
        <4>1. job' = [job EXCEPT ![p].item = "completed"] /\ Goto(p, "fail_item")
          BY <3>1 DEF DbError, StageBody, StageUpdate
        <4>. QED
          BY <1>1, <3>1, <4>1, StepOf DEF TypeInv, TypeOK
      <3>2. CASE pc[p] # "complete_item"
        BY <1>1, <1>3, <3>2, StepOf DEF DbError, StageBody, InBody
      <3>. QED
        BY <3>1, <3>2
    <2>. QED
      BY <2>2, <2>3, <2>4, <2>5, <2>6
  <1>. QED
    BY <1>2, <1>3

LEMMA TrailStep == IInv /\ TrailInv /\ [Next]_vars => TrailInv'
  <1>. SUFFICES ASSUME IInv, TrailInv, [Next]_vars
                PROVE  TrailInv'
    OBVIOUS
  <1>0. TypeInv /\ TypeInv'
    BY TypeStep DEF IInv
  <1>1. ASSUME NEW p \in Process, CreateQueuedItem(p)
        PROVE  TrailInv'
    <2>1. /\ pc[p] = "create_item" /\ UNCHANGED <<runs, events, execs, job>>
          /\ items' = [items EXCEPT ![<<RunOf(p), 0, 1>>] = "queued"]
      BY <1>1 DEF CreateQueuedItem, content, broker
    <2>2. pc'[p] = "publish" /\ \A q \in Process \ {p} : Untouched(q)
      BY <1>0, <1>1, StepOf DEF CreateQueuedItem, Untouched, broker
    <2>3. job'[p].exec = 0
      BY <2>1 DEF TrailInv, NumberOK, Executes
    <2>4. \A r \in Run, e \in Execution \ {0}, s \in Stage :
            items'[<<r, e, s>>] = items[<<r, e, s>>]
      BY <1>0, <2>1 DEF TypeInv, TypeOK
    <2>5. {p} \in SUBSET Process /\ \A q \in Process \ {p} : Untouched(q)
      BY <2>2
    <2>6. \A q \in {p} : /\ job'[q].exec = 0 /\ pc'[q] \in Calling
                         /\ pc'[q] = "idle" => job'[q] = NoJob
      BY <2>2, <2>3 DEF Calling
    <2>. QED
      BY <1>0, <2>1, <2>4, <2>5, <2>6, OutsideStep
  <1>2. ASSUME NEW a \in ApiThread, NEW r \in Run, CreateRun(a, r)
        PROVE  TrailInv'
    <2>1. /\ a \in Process /\ pc[a] = "idle" /\ UNCHANGED <<items, events, execs>>
          /\ job' = [job EXCEPT ![a].run = r] /\ runs' = [runs EXCEPT ![r] = Blank("queued")]
      BY <1>2 DEF CreateRun, Process, trail, broker
    <2>2. pc'[a] = "create_item" /\ \A q \in Process \ {a} : Untouched(q)
      BY <1>0, <1>2, <2>1, StepOf DEF CreateRun, Untouched
    <2>3. job'[a].exec = 0
      <3>1. job[a] = NoJob /\ job'[a] = [job[a] EXCEPT !.run = r]
        BY <1>0, <2>1 DEF TrailInv, NumberOK, TypeInv, TypeOK
      <3>. QED
        BY <3>1 DEF NoJob
    <2>4. \A x \in Run : runs'[x].status = "completed" => runs[x].status = "completed"
      BY <1>0, <2>1 DEF TypeInv, TypeOK, Blank
    <2>5. {a} \in SUBSET Process
      BY <2>1
    <2>6. \A q \in {a} : /\ job'[q].exec = 0 /\ pc'[q] \in Calling
                         /\ pc'[q] = "idle" => job'[q] = NoJob
      BY <2>2, <2>3 DEF Calling
    <2>. QED
      BY <1>0, <2>1, <2>2, <2>4, <2>5, <2>6, OutsideStep
  <1>3. ASSUME NEW w \in Worker, VisibilityTimeout(w)
        PROVE  TrailInv'
    <2>1. /\ w \in Process /\ job[w] \in Job
          /\ job' = [job EXCEPT ![w].unacked = FALSE]
          /\ UNCHANGED <<runs, items, events, execs, pc, view>>
      BY <1>3, <1>0 DEF VisibilityTimeout, Process, TypeInv, TypeOK, trail, content
    <2>2. /\ \A q \in Process \ {w} : Untouched(q)
          /\ job'[w] = [job[w] EXCEPT !.unacked = FALSE]
      BY <1>0, <2>1 DEF Untouched, TypeInv, TypeOK
    <2>3. /\ job'[w].run = job[w].run /\ job'[w].exec = job[w].exec
          /\ job'[w].stage = job[w].stage /\ job'[w].exc = job[w].exc
          /\ job'[w].item = job[w].item
      BY <2>1, <2>2 DEF Job
    <2>4. CASE Executes(w)
      <3>1. Present(w) /\ pc'[w] \notin Calling
        BY <2>1, <2>4 DEF TrailInv, TrailOK, NumberOK, Calling
      <3>2. Present(w)'
        BY <2>1, <2>3, <3>1 DEF Present, InStage, InBody, StageUpdate, Opening, Updating, Item, Event
      <3>. QED
        BY <1>0, <2>1, <2>2, <2>3, <2>4, <3>1, <3>2, SameTrailStep
    <2>5. CASE ~Executes(w)
      <3>1. pc'[w] \in Calling /\ pc'[w] # "idle" /\ job'[w].exec = 0
        BY <1>3, <2>1, <2>3, <2>5 DEF VisibilityTimeout, TrailInv, NumberOK, Executes, Calling
      <3>2. {w} \in SUBSET Process
        BY <2>1
      <3>. QED
        BY <1>0, <2>1, <2>2, <3>1, <3>2, OutsideStep
    <2>. QED
      BY <2>4, <2>5
  <1>4. ASSUME NEW P \in SUBSET Process, Reset(P), UNCHANGED <<runs, items, events, execs>>
        PROVE  TrailInv'
    BY <1>0, <1>4, ResetTrail
  <1>5. ASSUME NEW p \in Process, Advance(p)
        PROVE  TrailInv'
    <2>1. CASE Publish(p) \/ Finish(p)
      <3>1. Reset({p}) /\ {p} \in SUBSET Process /\ UNCHANGED <<runs, items, events, execs>>
        BY <2>1 DEF Publish, Finish, trail, broker
      <3>. QED
        BY <1>4, <3>1
    <2>2. CASE InnerStep(p)
      BY <1>0, <2>2, InnerTrail
    <2>3. CASE Load(p) \/ UpdateGet(p) \/ UpdateCommit(p)
      BY <1>0, <2>3, LoadTrail, UpdateGetTrail, UpdateCommitTrail
    <2>4. CASE NewItem(p) \/ StartItem(p) \/ CompleteItem(p) \/ FailItem(p)
      BY <1>0, <2>4, NewItemTrail, StartItemTrail, CompleteItemTrail, FailItemTrail
    <2>5. CASE StageEvent(p) \/ RunEvent(p)
      BY <1>0, <2>5, StageEventTrail, RunEventTrail
    <2>. QED
      BY <1>1, <1>5, <2>1, <2>2, <2>3, <2>4, <2>5 DEF Advance, InnerStep
  <1>6. ASSUME NEW p \in Process, NEW r \in Run, NEW b \in BOOLEAN, Begin(p, r, b),
               UNCHANGED <<runs, items, events, view>>
        PROVE  TrailInv'
    BY <1>0, <1>6, BeginTrail
  <1>7. ASSUME NEW w \in Worker, NEW r \in Run, Deliver(w, r) PROVE TrailInv'
    BY <1>6, <1>7 DEF Deliver, Process, trail
  <1>8. ASSUME NEW a \in ApiThread, NEW r \in Run, ProcessRequest(a, r) PROVE TrailInv'
    BY <1>6, <1>8 DEF ProcessRequest, Process, trail
  <1>9. ASSUME NEW a \in ApiThread, PublishFails(a) PROVE TrailInv'
    BY <1>4, <1>9 DEF PublishFails, Process, trail
  <1>10. ASSUME NEW w \in Worker, Crash(w) PROVE TrailInv'
    BY <1>4, <1>10 DEF Crash, Process, trail
  <1>11. CASE ApiCrash
    BY <1>4, <1>11 DEF ApiCrash, Process, trail
  <1>12. CASE UNCHANGED vars
    <2>1. /\ \A q \in Process \ {} : Untouched(q)
          /\ {} \in SUBSET Process /\ UNCHANGED <<runs, items, events, execs>>
      BY <1>12 DEF vars, Untouched
    <2>. QED
      BY <1>0, <2>1, OutsideStep
  <1>13. ASSUME NEW p \in Process, DbError(p) PROVE TrailInv'
    BY <1>0, <1>13, DbErrorTrail
  <1>. QED
    BY <1>2, <1>3, <1>5, <1>7, <1>8, <1>9, <1>10, <1>11, <1>12, <1>13 DEF Next

LEMMA TrailAlways == Spec => [](IInv /\ TrailInv)
  BY InitIInv, IInvStep, InitTrail, TrailStep, PTL DEF Spec

-----------------------------------------------------------------------------
(* Theorems.                                                                *)

(* _run_stage and the loop of process_run never run ahead of a failure: a   *)
(* stage is touched only after the one before it was completed and its      *)
(* success recorded, whatever crashes, is redelivered or fails in between.  *)
THEOREM StagesInOrder == Spec => []StageOrder
  BY TrailAlways, PTL DEF TrailInv

(* The event of a stage and its work item, two transactions, never tell     *)
(* different stories, not even when one of the two commits fails.           *)
THEOREM TrailAgrees == Spec => []EventsMatchItems
  BY TrailAlways, PTL DEF TrailInv

(* A run is shown as completed only if one single execution of process_run  *)
(* completed all five stages: a stale copy of the row can bring back a      *)
(* status, never add the stages of two executions up to one.                *)
THEOREM OneExecutionDidAll == Spec => []CompletedByOneExecution
  <1>1. TrailInv => CompletedByOneExecution
    BY DEF TrailInv, WholeWhenSaid, Whole, Success, CompletedByOneExecution
  <1>. QED
    BY <1>1, TrailAlways, PTL

-----------------------------------------------------------------------------
(* The pages and the artifact, with any interleaving.                       *)

(* The addresses a run may list: what it discovered, raw or canonical.      *)
Listable(r) == {x \in Url : \E u \in UrlsOf(urls[r]) : x \in {u, Canonical[u]}}

Sourced(p) ==
  /\ pc[p] = "upsert" => view[p].batch \subseteq Listable(RunOf(p))
  /\ pc[p] = "save_artifact" => UrlsOf(view[p].listing) \subseteq Listable(RunOf(p))

SourceInv ==
  /\ \A r \in Run : UrlsOf(pages[r]) \union UrlsOf(artifacts[r].rows) \subseteq Listable(r)
  /\ \A p \in Process : Sourced(p)

-----------------------------------------------------------------------------
(* While the broker alone hands runs out.                                   *)

(* One message or one process per run that was created, and never both.     *)
SoleInv ==
  /\ \A r \in Run : /\ msgs[r] <= 1
                    /\ runs[r].status = "absent" => msgs[r] = 0
  /\ \A p \in Process : pc[p] # "idle" =>
       /\ msgs[RunOf(p)] = 0
       /\ runs[RunOf(p)].status # "absent"
       /\ \A q \in Process \ {p} : pc[q] # "idle" => RunOf(q) # RunOf(p)

(* What a process has read is still so.                                     *)
FreshOK(p) ==
  /\ pc[p] = "update_commit" => view[p].record = runs[RunOf(p)]
  /\ pc[p] = "add_urls" => view[p].known = UrlsOf(urls[RunOf(p)])
  /\ pc[p] = "upsert" => view[p].known = UrlsOf(pages[RunOf(p)])
  /\ pc[p] = "save_artifact" => view[p].listing = pages[RunOf(p)]

(* Scoring is over, for this execution, and nothing has raised.             *)
Scored(p) == \/ job[p].stage = 5 /\ InStages(p)
             \/ job[p].stage = 4 /\ \/ pc[p] = "complete_item"
                                    \/ pc[p] = "stage_event" /\ job[p].exc = "none"
                                    \/ StageUpdate(p)

(* What a process will write to the row of its run.                         *)
DraftOK(p) ==
  /\ Scored(p) /\ view[p].mem.status = "running" => view[p].mem.score
  /\ Generated(p) => view[p].mem.artifact_path /\ artifacts[RunOf(p)].rows = pages[RunOf(p)]
  /\ view[p].mem.status = "completed" =>
       /\ view[p].mem.score /\ view[p].mem.artifact_path /\ view[p].mem.completed_at
       /\ artifacts[RunOf(p)].rows = pages[RunOf(p)]
  /\ InStages(p) /\ view[p].mem.status = "running" => runs[RunOf(p)].status = "running"

WholeRow(r) ==
  runs[r].status = "completed" =>
    /\ runs[r].score /\ runs[r].artifact_path /\ runs[r].completed_at
    /\ artifacts[r].rows = pages[r]

(* One row per url.                                                         *)
NoTwins(rows) == \A x, y \in rows : x[2] = y[2] => x = y

TableInv ==
  /\ \A p \in Process : pc[p] # "idle" => FreshOK(p) /\ DraftOK(p)
  /\ \A r \in Run : WholeRow(r) /\ NoTwins(urls[r]) /\ NoTwins(pages[r])

-----------------------------------------------------------------------------
(* What the steps of a working process have in common.                      *)

(* A handler goes on, in enqueue_run or in process_run.                     *)
OuterStep(p) == \/ CreateQueuedItem(p) \/ Load(p) \/ UpdateGet(p) \/ UpdateCommit(p)
                \/ NewItem(p) \/ StartItem(p) \/ CompleteItem(p) \/ FailItem(p)
                \/ StageEvent(p) \/ RunEvent(p)
ErrorStep(p) == DbError(p) /\ pc[p] # "create_item"
WorkStep(p) == OuterStep(p) \/ InnerStep(p) \/ ErrorStep(p)

SameJob(p) == /\ job'[p].run = job[p].run /\ job'[p].exec = job[p].exec
              /\ job'[p].unacked = job[p].unacked

LEMMA JobFields ==
  ASSUME NEW j \in Job
  PROVE  /\ \A i : /\ [j EXCEPT !.item = i].run = j.run
                   /\ [j EXCEPT !.item = i].exec = j.exec
                   /\ [j EXCEPT !.item = i].unacked = j.unacked
         /\ \A s : /\ [j EXCEPT !.stage = s].run = j.run
                   /\ [j EXCEPT !.stage = s].exec = j.exec
                   /\ [j EXCEPT !.stage = s].unacked = j.unacked
         /\ \A i, x : /\ Raising(j, i, x).run = j.run
                      /\ Raising(j, i, x).exec = j.exec
                      /\ Raising(j, i, x).unacked = j.unacked
  BY DEF Job, Raising

LEMMA OuterJob ==
  ASSUME TypeInv, NEW p \in Process, OuterStep(p) \/ ErrorStep(p)
  PROVE  SameJob(p) /\ \A q \in Process \ {p} : job'[q] = job[q]
  <1>1. job[p] \in Job /\ job \in [Process -> Job]
    BY DEF TypeInv, TypeOK
  <1>2. CASE job' = job
    BY <1>2 DEF SameJob
  <1>3. CASE \E i : job' = [job EXCEPT ![p].item = i]
    <2>1. PICK i : job' = [job EXCEPT ![p].item = i]
      BY <1>3
    <2>2. /\ job'[p] = [job[p] EXCEPT !.item = i]
          /\ \A q \in Process \ {p} : job'[q] = job[q]
      BY <1>1, <2>1
    <2>. QED
      BY <1>1, <2>2, JobFields DEF SameJob
  <1>4. CASE \E s : job' = [job EXCEPT ![p].stage = s]
    <2>1. PICK s : job' = [job EXCEPT ![p].stage = s]
      BY <1>4
    <2>2. /\ job'[p] = [job[p] EXCEPT !.stage = s]
          /\ \A q \in Process \ {p} : job'[q] = job[q]
      BY <1>1, <2>1
    <2>. QED
      BY <1>1, <2>2, JobFields DEF SameJob
  <1>5. CASE \E i, x : job' = [job EXCEPT ![p] = Raising(@, i, x)]
    <2>1. PICK i, x : job' = [job EXCEPT ![p] = Raising(@, i, x)]
      BY <1>5
    <2>2. /\ job'[p] = Raising(job[p], i, x)
          /\ \A q \in Process \ {p} : job'[q] = job[q]
      BY <1>1, <2>1
    <2>. QED
      BY <1>1, <2>2, JobFields DEF SameJob
  <1>6. CASE CreateQueuedItem(p) \/ Load(p) \/ UpdateGet(p) \/ RunEvent(p)
    BY <1>2, <1>6 DEF CreateQueuedItem, Load, UpdateGet, RunEvent
  <1>7. CASE NewItem(p) \/ StartItem(p) \/ CompleteItem(p)
    BY <1>3, <1>7 DEF NewItem, StartItem, CompleteItem
  <1>8. CASE UpdateCommit(p)
    BY <1>2, <1>4, <1>8 DEF UpdateCommit
  <1>9. CASE StageEvent(p)
    <2>1. job' = job \/ job' = [job EXCEPT ![p].stage = job[p].stage + 1]
      BY <1>9 DEF StageEvent
    <2>. QED
      BY <1>2, <1>4, <2>1
  <1>10. CASE FailItem(p)
    <2>1. \/ job' = [job EXCEPT ![p] = Raising(@, "failed", RaisedWith(job[p].item))]
          \/ job' = [job EXCEPT ![p] = Raising(@, job[p].item, RaisedWith(job[p].item))]
      BY <1>1, <1>10 DEF FailItem
    <2>. QED
      BY <1>5, <2>1
  <1>11. CASE ErrorStep(p)
    BY <1>2, <1>3, <1>5, <1>11 DEF ErrorStep, DbError
  <1>. QED
    BY <1>6, <1>7, <1>8, <1>9, <1>10, <1>11 DEF OuterStep

LEMMA OuterView ==
  ASSUME TypeInv, NEW p \in Process, OuterStep(p) \/ ErrorStep(p)
  PROVE  \A q \in Process \ {p} : view'[q] = view[q]
  <1>1. CASE \E v : view' = [view EXCEPT ![p] = v]
    BY <1>1, StepOf
  <1>2. CASE CreateQueuedItem(p) \/ UpdateCommit(p) \/ NewItem(p) \/ StartItem(p)
             \/ CompleteItem(p) \/ FailItem(p) \/ RunEvent(p) \/ ErrorStep(p)
    BY <1>2 DEF CreateQueuedItem, UpdateCommit, NewItem, StartItem, CompleteItem, FailItem,
                RunEvent, ErrorStep, DbError
  <1>3. CASE Load(p)
    BY <1>1, <1>3 DEF Load
  <1>4. CASE UpdateGet(p)
    BY <1>4 DEF UpdateGet, TypeInv, TypeOK
  <1>5. CASE StageEvent(p)
    BY <1>1, <1>5 DEF StageEvent
  <1>. QED
    BY <1>2, <1>3, <1>4, <1>5 DEF OuterStep

LEMMA OuterPc ==
  ASSUME TypeInv, NEW p \in Process, OuterStep(p) \/ ErrorStep(p)
  PROVE  /\ pc[p] # "idle" /\ pc'[p] # "idle"
         /\ pc'[p] \notin {"add_urls", "upsert", "save_artifact"}
         /\ \A q \in Process \ {p} : pc'[q] = pc[q]
  <1>1. \E l \in Label \ {"idle", "add_urls", "upsert", "save_artifact"} : Goto(p, l)
    BY DEF OuterStep, ErrorStep, DbError, CreateQueuedItem, Load, UpdateGet, UpdateCommit,
           NewItem, StartItem, CompleteItem, FailItem, StageEvent, RunEvent, Label, Body
  <1>2. pc[p] # "idle"
    BY DEF OuterStep, ErrorStep, DbError, StageBody, StageUpdate, CreateQueuedItem, Load,
           UpdateGet, UpdateCommit, NewItem, StartItem, CompleteItem, FailItem, StageEvent,
           RunEvent
  <1>. QED
    BY <1>1, <1>2, StepOf

(* The rest of the database and the other processes do not notice.          *)
LEMMA Working ==
  ASSUME TypeInv, NEW p \in Process, WorkStep(p)
  PROVE  /\ pc[p] # "idle" /\ pc'[p] # "idle" /\ SameJob(p) /\ UNCHANGED <<msgs, execs>>
         /\ \A q \in Process \ {p} : Untouched(q)
         /\ \A r \in Run \ {RunOf(p)} :
               /\ runs'[r] = runs[r] /\ urls'[r] = urls[r]
               /\ pages'[r] = pages[r] /\ artifacts'[r] = artifacts[r]
  <1>1. CASE OuterStep(p) \/ ErrorStep(p)
    <2>1. /\ pc[p] # "idle" /\ pc'[p] # "idle" /\ SameJob(p)
          /\ \A q \in Process \ {p} : Untouched(q)
      BY <1>1, OuterPc, OuterJob, OuterView DEF Untouched
    <2>2. UNCHANGED <<urls, pages, artifacts, msgs, execs>>
      BY <1>1 DEF OuterStep, ErrorStep, DbError, CreateQueuedItem, Load, UpdateGet, UpdateCommit,
           NewItem, StartItem, CompleteItem, FailItem, StageEvent, RunEvent, content, broker
    <2>3. \A r \in Run \ {RunOf(p)} : runs'[r] = runs[r]
      <3>1. runs' = runs \/ \E row : runs' = [runs EXCEPT ![RunOf(p)] = row]
        BY <1>1 DEF OuterStep, ErrorStep, DbError, CreateQueuedItem, Load, UpdateGet, UpdateCommit,
           NewItem, StartItem, CompleteItem, FailItem, StageEvent, RunEvent
      <3>. QED
        BY <3>1 DEF TypeInv, TypeOK
    <2>. QED
      BY <2>1, <2>2, <2>3
  <1>2. CASE InnerStep(p)
    <2>1. /\ pc[p] # "idle" /\ pc'[p] # "idle" /\ SameJob(p) /\ UNCHANGED <<runs, msgs, execs>>
          /\ \A q \in Process \ {p} : Untouched(q)
      BY <1>2, InnerFacts DEF SameJob
    <2>2. urls' = urls \/ \E x : urls' = [urls EXCEPT ![RunOf(p)] = x]
      BY <1>2 DEF InnerStep, Discover, AddUrls, Extract, Upsert, SetValidator, Canonicalize,
           Score, Generate, SaveArtifact, content
    <2>3. pages' = pages \/ \E x : pages' = [pages EXCEPT ![RunOf(p)] = x]
      BY <1>2 DEF InnerStep, Discover, AddUrls, Extract, Upsert, SetValidator, Canonicalize,
           Score, Generate, SaveArtifact, content
    <2>4. artifacts' = artifacts \/ \E x : artifacts' = [artifacts EXCEPT ![RunOf(p)] = x]
      BY <1>2 DEF InnerStep, Discover, AddUrls, Extract, Upsert, SetValidator, Canonicalize,
           Score, Generate, SaveArtifact, content
    <2>. QED
      BY <2>1, <2>2, <2>3, <2>4 DEF TypeInv, TypeOK
  <1>. QED
    BY <1>1, <1>2 DEF WorkStep

Tables == <<runs, items, events, urls, pages, artifacts>>

(* A step works on one run, ends handlers, starts one, or leaves the tables *)
(* and what handlers know alone.                                            *)
LEMMA Moves ==
  ASSUME [Next]_vars
  PROVE  \/ \E p \in Process : WorkStep(p)
         \/ \E P \in SUBSET Process : Reset(P) /\ UNCHANGED Tables
         \/ \E p \in Process, r \in Run, b \in BOOLEAN :
               Begin(p, r, b) /\ UNCHANGED Tables /\ UNCHANGED view
         \/ \E a \in ApiThread, r \in Run : CreateRun(a, r)
         \/ \E w \in Worker : VisibilityTimeout(w)
         \/ UNCHANGED vars
  <1>1. ASSUME NEW p \in Process, Advance(p)
        PROVE  WorkStep(p) \/ (Reset({p}) /\ UNCHANGED Tables)
    <2>1. CASE Publish(p) \/ Finish(p)
      BY <2>1 DEF Publish, Finish, Tables, trail, content
    <2>2. CASE ~(Publish(p) \/ Finish(p))
      BY <1>1, <2>2 DEF Advance, WorkStep, OuterStep, InnerStep
    <2>. QED
      BY <2>1, <2>2
  <1>2. ASSUME NEW p \in Process, DbError(p)
        PROVE  WorkStep(p) \/ (Reset({p}) /\ UNCHANGED Tables)
    <2>1. CASE pc[p] = "create_item"
      BY <1>2, <2>1 DEF DbError, StageBody, StageUpdate, Tables, trail, content
    <2>2. CASE pc[p] # "create_item"
      BY <1>2, <2>2 DEF WorkStep, ErrorStep
    <2>. QED
      BY <2>1, <2>2
  <1>3. ASSUME NEW w \in Worker, Crash(w)
        PROVE  Reset({w}) /\ {w} \in SUBSET Process /\ UNCHANGED Tables
    BY <1>3 DEF Crash, Process, Tables, trail, content
  <1>4. ASSUME NEW a \in ApiThread, PublishFails(a)
        PROVE  Reset({a}) /\ {a} \in SUBSET Process /\ UNCHANGED Tables
    BY <1>4 DEF PublishFails, Process, Tables, trail, content
  <1>5. ASSUME ApiCrash
        PROVE  Reset(ApiThread) /\ ApiThread \in SUBSET Process /\ UNCHANGED Tables
    BY <1>5 DEF ApiCrash, Process, Tables, trail, content
  <1>6. ASSUME NEW w \in Worker, NEW r \in Run, Deliver(w, r)
        PROVE  w \in Process /\ Begin(w, r, TRUE) /\ UNCHANGED Tables /\ UNCHANGED view
    BY <1>6 DEF Deliver, Process, Tables, trail, content
  <1>7. ASSUME NEW a \in ApiThread, NEW r \in Run, ProcessRequest(a, r)
        PROVE  a \in Process /\ Begin(a, r, FALSE) /\ UNCHANGED Tables /\ UNCHANGED view
    BY <1>7 DEF ProcessRequest, Process, Tables, trail, content
  <1>8. ASSUME NEW p \in Process, Advance(p) \/ DbError(p)
        PROVE  \/ WorkStep(p)
               \/ \E P \in SUBSET Process : Reset(P) /\ UNCHANGED Tables
    <2>1. WorkStep(p) \/ (Reset({p}) /\ UNCHANGED Tables)
      BY <1>1, <1>2, <1>8
    <2>2. {p} \in SUBSET Process
      OBVIOUS
    <2>. QED
      BY <2>1, <2>2
  <1>9. CASE \E p \in Process : Advance(p) \/ DbError(p)
    BY <1>8, <1>9
  <1>10. CASE \E w \in Worker : Crash(w) \/ VisibilityTimeout(w)
    BY <1>3, <1>10
  <1>11. CASE \E w \in Worker, r \in Run : Deliver(w, r)
    BY <1>6, <1>11
  <1>12. CASE \E a \in ApiThread, r \in Run : CreateRun(a, r) \/ ProcessRequest(a, r)
    BY <1>7, <1>12
  <1>13. CASE (\E a \in ApiThread : PublishFails(a)) \/ ApiCrash
    BY <1>4, <1>5, <1>13
  <1>. QED
    BY <1>9, <1>10, <1>11, <1>12, <1>13 DEF Next

-----------------------------------------------------------------------------
(* SourceInv is inductive.                                                  *)

LEMMA ListableGrows ==
  ASSUME NEW r \in Run, urls[r] \subseteq urls'[r]
  PROVE  Listable(r) \subseteq Listable(r)'
  BY DEF Listable, UrlsOf

(* Canonical forms of listable addresses are listable.                      *)
LEMMA CanonicalListable ==
  ASSUME TypeInv, NEW r \in Run, NEW x \in Listable(r)
  PROVE  Canonical[x] \in Listable(r)
  <1>1. PICK u \in UrlsOf(urls[r]) : x \in {u, Canonical[u]}
    BY DEF Listable
  <1>2. u \in Url
    BY <1>1, UrlsOfType DEF TypeInv, TypeOK
  <1>3. Canonical[x] = Canonical[u] /\ Canonical[u] \in Url
    BY <1>1, <1>2, CanonicalAssumption
  <1>. QED
    BY <1>1, <1>3 DEF Listable

LEMMA UrlsOfRows ==
  ASSUME NEW seed, NEW S
  PROVE  UrlsOf(RowsFor(seed, S)) = S
  <1>1. \A row \in {seed} \X S : row[2] \in S
    OBVIOUS
  <1>2. \A u \in S : <<seed, u>> \in {seed} \X S /\ <<seed, u>>[2] = u
    OBVIOUS
  <1>. QED
    BY <1>1, <1>2 DEF UrlsOf, RowsFor

LEMMA UrlsOfUnion ==
  ASSUME NEW R, NEW T
  PROVE  UrlsOf(R \union T) = UrlsOf(R) \union UrlsOf(T)
  BY DEF UrlsOf

(* A step after which nobody new is about to write pages or an artifact.    *)
LEMMA QuietSource ==
  ASSUME TypeInv, SourceInv, UNCHANGED <<pages, artifacts>>,
         \A r \in Run : urls[r] \subseteq urls'[r],
         \A q \in Process : pc'[q] \in {"upsert", "save_artifact"} =>
            pc'[q] = pc[q] /\ job'[q].run = job[q].run /\ view'[q] = view[q]
  PROVE  SourceInv'
  <1>1. \A r \in Run : Listable(r) \subseteq Listable(r)'
    BY ListableGrows
  <1>2. \A r \in Run : (UrlsOf(pages[r]) \union UrlsOf(artifacts[r].rows) \subseteq Listable(r))'
    BY <1>1 DEF SourceInv
  <1>3. ASSUME NEW q \in Process, pc'[q] \in {"upsert", "save_artifact"}
        PROVE  Sourced(q)'
    <2>1. pc'[q] = pc[q] /\ view'[q] = view[q] /\ RunOf(q)' = RunOf(q) /\ RunOf(q) \in Run
      BY <1>3 DEF RunOf, TypeInv, BusyHasRun
    <2>2. PICK r \in Run : r = RunOf(q)
      BY <2>1
    <2>3. Listable(r) \subseteq Listable(r)' /\ RunOf(q)' = r
      BY <1>1, <2>1, <2>2
    <2>4. /\ pc[q] = "upsert" => view[q].batch \subseteq Listable(r)
          /\ pc[q] = "save_artifact" => UrlsOf(view[q].listing) \subseteq Listable(r)
      BY <2>2 DEF SourceInv, Sourced
    <2>5. /\ pc'[q] = "upsert" => view'[q].batch \subseteq Listable(r)'
          /\ pc'[q] = "save_artifact" => UrlsOf(view'[q].listing) \subseteq Listable(r)'
      BY <2>1, <2>3, <2>4
    <2>. QED
      BY <2>3, <2>5 DEF Sourced, Listable
  <1>. QED
    BY <1>2, <1>3 DEF SourceInv, Sourced

(* A step of one process within the tables of its run.                      *)
LEMMA LoudSource ==
  ASSUME TypeInv, SourceInv, NEW p \in Process, WorkStep(p), urls' = urls,
         NEW r \in Run, r = RunOf(p),
         UrlsOf(pages'[r]) \subseteq Listable(r),
         UrlsOf(artifacts'[r].rows) \subseteq Listable(r),
         pc'[p] = "upsert" => view'[p].batch \subseteq Listable(r),
         pc'[p] = "save_artifact" => UrlsOf(view'[p].listing) \subseteq Listable(r)
  PROVE  SourceInv'
  <1>1. \A x \in Run : Listable(x)' = Listable(x)
    BY DEF Listable
  <1>2. ASSUME NEW x \in Run
        PROVE  (UrlsOf(pages[x]) \union UrlsOf(artifacts[x].rows) \subseteq Listable(x))'
    <2>1. CASE x = r
      BY <1>1, <2>1
    <2>2. CASE x # r
      BY <1>1, <2>2, Working DEF SourceInv
    <2>. QED
      BY <2>1, <2>2
  <1>3. ASSUME NEW q \in Process \ {p}
        PROVE  Sourced(q)'
    <2>1. Untouched(q) /\ Sourced(q)
      BY Working DEF SourceInv
    <2>. QED
      BY <2>1 DEF Sourced, Untouched, RunOf, Listable
  <1>4. Sourced(p)'
    <2>1. RunOf(p)' = r
      BY Working DEF SameJob, RunOf
    <2>. QED
      BY <1>1, <2>1 DEF Sourced, Listable
  <1>. QED
    BY <1>2, <1>3, <1>4 DEF SourceInv

LEMMA WorkSource ==
  ASSUME IInv, SourceInv, NEW p \in Process, WorkStep(p)
  PROVE  SourceInv'
  <1>0. /\ TypeInv /\ view[p] \in View /\ RunOf(p) \in Run
        /\ pages[RunOf(p)] \in SUBSET Row
    BY Working, BusyTypes DEF IInv
  <1>1. PICK r \in Run : r = RunOf(p)
    BY <1>0
  <1>2. UrlsOf(pages[r]) \subseteq Listable(r) /\ UrlsOf(artifacts[r].rows) \subseteq Listable(r)
    BY DEF SourceInv
  <1>3. CASE OuterStep(p) \/ ErrorStep(p)
    <2>1. UNCHANGED <<urls, pages, artifacts>>
      BY <1>3 DEF OuterStep, ErrorStep, DbError, CreateQueuedItem, Load, UpdateGet, UpdateCommit,
           NewItem, StartItem, CompleteItem, FailItem, StageEvent, RunEvent, content
    <2>2. \A q \in Process : pc'[q] \in {"upsert", "save_artifact"} =>
            pc'[q] = pc[q] /\ job'[q].run = job[q].run /\ view'[q] = view[q]
      BY <1>0, <1>3, OuterPc, Working DEF Untouched
    <2>. QED
      BY <1>0, <2>1, <2>2, QuietSource
  <1>4. CASE Discover(p) \/ AddUrls(p) \/ SetValidator(p) \/ Score(p)
    <2>1. UNCHANGED <<pages, artifacts>> /\ \A x \in Run : urls[x] \subseteq urls'[x]
      BY <1>0, <1>4 DEF Discover, AddUrls, SetValidator, Score, content, TypeInv, TypeOK
    <2>2. pc'[p] \notin {"upsert", "save_artifact"}
      <3>1. \E l \in Label \ {"upsert", "save_artifact"} : Goto(p, l)
        BY <1>4 DEF Discover, AddUrls, SetValidator, Score, Label
      <3>. QED
        BY <1>0, <3>1, StepOf
    <2>3. \A q \in Process : pc'[q] \in {"upsert", "save_artifact"} =>
            pc'[q] = pc[q] /\ job'[q].run = job[q].run /\ view'[q] = view[q]
      BY <1>0, <2>2, Working DEF Untouched
    <2>. QED
      BY <1>0, <2>1, <2>3, QuietSource
  <1>5. CASE Extract(p)
    <2>1. UNCHANGED <<urls, pages, artifacts>>
      BY <1>5 DEF Extract, content
    <2>2. \/ pc'[p] = "fail_item"
          \/ /\ pc'[p] = "upsert"
             /\ \E fetched \in SUBSET Fetchable(r) :
                  view' = [view EXCEPT ![p] = Holding(@, fetched, UrlsOf(pages[r]))]
      BY <1>0, <1>1, <1>5, StepOf DEF Extract
    <2>3. ASSUME pc'[p] = "upsert" PROVE view'[p].batch \subseteq Listable(r)
      <3>1. PICK fetched \in SUBSET Fetchable(r) :
               view' = [view EXCEPT ![p] = Holding(@, fetched, UrlsOf(pages[r]))]
        BY <2>2, <2>3
      <3>2. view'[p] = Holding(view[p], fetched, UrlsOf(pages[r]))
        BY <1>0, <3>1 DEF TypeInv, TypeOK
      <3>3. view'[p].batch = fetched
        BY <1>0, <3>2 DEF View, Holding
      <3>4. Fetchable(r) \subseteq Listable(r)
        BY <1>0, UrlsOfType DEF Fetchable, Listable, TypeInv, TypeOK
      <3>. QED
        BY <3>3, <3>4
    <2>. QED
      BY <1>0, <1>1, <1>2, <2>1, <2>2, <2>3, LoudSource
  <1>6. CASE Canonicalize(p)
    <2>1. UNCHANGED <<urls, pages, artifacts>> /\ pc'[p] = "upsert"
      BY <1>0, <1>6, StepOf DEF Canonicalize, content
    <2>2. view'[p] = Holding(view[p], {Canonical[u] : u \in UrlsOf(pages[r])}, UrlsOf(pages[r]))
      BY <1>0, <1>1, <1>6 DEF Canonicalize, TypeInv, TypeOK
    <2>3. view'[p].batch = {Canonical[u] : u \in UrlsOf(pages[r])}
      BY <1>0, <2>2 DEF View, Holding
    <2>4. view'[p].batch \subseteq Listable(r)
      BY <1>0, <1>2, <2>3, CanonicalListable
    <2>. QED
      BY <1>0, <1>1, <1>2, <2>1, <2>4, LoudSource
  <1>7. CASE Upsert(p)
    <2>1. pc[p] = "upsert" /\ UNCHANGED <<urls, artifacts>> /\ pc'[p] \notin {"upsert", "save_artifact"}
      BY <1>0, <1>7, StepOf DEF Upsert
    <2>2. \/ pages' = pages
          \/ \E known : pages' = [pages EXCEPT ![r] =
                @ \union RowsFor(SeedOf[p], Missing(view[p].batch, known))]
      BY <1>1, <1>7 DEF Upsert
    <2>3. ASSUME NEW known, pages' = [pages EXCEPT ![r] =
                    @ \union RowsFor(SeedOf[p], Missing(view[p].batch, known))]
          PROVE  UrlsOf(pages'[r]) \subseteq Listable(r)
      <3>1. pages'[r] = pages[r] \union RowsFor(SeedOf[p], Missing(view[p].batch, known))
        BY <1>0, <2>3 DEF TypeInv, TypeOK
      <3>2. view[p].batch \subseteq Listable(r)
        BY <1>1, <2>1 DEF SourceInv, Sourced
      <3>3. Missing(view[p].batch, known) \subseteq Listable(r)
        BY <3>2 DEF Missing
      <3>. QED
        BY <1>2, <3>1, <3>3, UrlsOfUnion, UrlsOfRows
    <2>4. UrlsOf(pages'[r]) \subseteq Listable(r)
      BY <1>2, <2>2, <2>3
    <2>. QED
      BY <1>0, <1>1, <1>2, <2>1, <2>4, LoudSource
  <1>8. CASE Generate(p)
    <2>1. UNCHANGED <<urls, pages, artifacts>> /\ pc'[p] = "save_artifact"
      BY <1>0, <1>8, StepOf DEF Generate, content
    <2>2. view'[p] = Listing(view[p], pages[r], artifacts[r].saved)
      BY <1>0, <1>1, <1>8 DEF Generate, TypeInv, TypeOK
    <2>3. view'[p].listing = pages[r]
      BY <1>0, <2>2 DEF View, Listing
    <2>. QED
      BY <1>0, <1>1, <1>2, <2>1, <2>3, LoudSource
  <1>9. CASE SaveArtifact(p)
    <2>1. pc[p] = "save_artifact" /\ UNCHANGED <<urls, pages>> /\ pc'[p] \notin {"upsert", "save_artifact"}
      BY <1>0, <1>9, StepOf DEF SaveArtifact
    <2>2. artifacts' = artifacts \/ artifacts' = [artifacts EXCEPT ![r] = Merged(@, view[p].listing)]
      BY <1>1, <1>9 DEF SaveArtifact
    <2>3. UrlsOf(view[p].listing) \subseteq Listable(r)
      BY <1>1, <2>1 DEF SourceInv, Sourced
    <2>4. UrlsOf(artifacts'[r].rows) \subseteq Listable(r)
      BY <1>0, <1>2, <2>2, <2>3 DEF Merged, TypeInv, TypeOK
    <2>. QED
      BY <1>0, <1>1, <1>2, <2>1, <2>4, LoudSource
  <1>. QED
    BY <1>3, <1>4, <1>5, <1>6, <1>7, <1>8, <1>9 DEF WorkStep, InnerStep

LEMMA InitSource == Init => SourceInv
  BY DEF Init, SourceInv, Sourced, UrlsOf

LEMMA SourceStep == IInv /\ SourceInv /\ [Next]_vars => SourceInv'
  <1>. SUFFICES ASSUME IInv, SourceInv, [Next]_vars
                PROVE  SourceInv'
    OBVIOUS
  <1>0. TypeInv
    BY DEF IInv
  <1>1. ASSUME NEW P \in SUBSET Process, Reset(P), UNCHANGED Tables
        PROVE  SourceInv'
    BY <1>0, <1>1, QuietSource DEF Reset, Tables
  <1>2. ASSUME NEW p \in Process, NEW r \in Run, NEW b \in BOOLEAN, Begin(p, r, b),
               UNCHANGED Tables, UNCHANGED view
        PROVE  SourceInv'
    <2>1. pc'[p] = "load" /\ \A q \in Process \ {p} : pc'[q] = pc[q] /\ job'[q] = job[q]
      BY <1>0, <1>2, StepOf DEF Begin
    <2>. QED
      BY <1>0, <1>2, <2>1, QuietSource DEF Tables
  <1>3. ASSUME NEW a \in ApiThread, NEW r \in Run, CreateRun(a, r)
        PROVE  SourceInv'
    <2>1. /\ a \in Process /\ pc'[a] = "create_item"
          /\ \A q \in Process \ {a} : pc'[q] = pc[q] /\ job'[q] = job[q]
          /\ UNCHANGED <<urls, pages, artifacts, view>>
      <3>1. /\ a \in Process /\ Goto(a, "create_item") /\ job' = [job EXCEPT ![a].run = r]
            /\ UNCHANGED <<urls, pages, artifacts, view>>
        BY <1>3 DEF CreateRun, Process, content
      <3>. QED
        BY <1>0, <3>1, StepOf DEF TypeInv, TypeOK
    <2>. QED
      BY <1>0, <2>1, QuietSource
  <1>4. ASSUME NEW w \in Worker, VisibilityTimeout(w)
        PROVE  SourceInv'
    <2>1. \A q \in Process : job'[q].run = job[q].run
      <3>1. job' = [job EXCEPT ![w].unacked = FALSE] /\ w \in Process
        BY <1>4 DEF VisibilityTimeout, Process
      <3>2. job'[w] = [job[w] EXCEPT !.unacked = FALSE] /\ \A q \in Process \ {w} : job'[q] = job[q]
        BY <1>0, <3>1 DEF TypeInv, TypeOK
      <3>3. job[w] \in Job
        BY <1>0, <3>1 DEF TypeInv, TypeOK
      <3>. QED
        BY <3>2, <3>3 DEF Job
    <2>. QED
      BY <1>0, <1>4, <2>1, QuietSource DEF VisibilityTimeout, content
  <1>5. CASE UNCHANGED vars
    BY <1>0, <1>5, QuietSource DEF vars
  <1>. QED
    BY <1>1, <1>2, <1>3, <1>4, <1>5, Moves, WorkSource

(* The llms.txt lists only addresses the run discovered, or their canonical *)
(* forms, whatever other executions write while it is generated: between    *)
(* the read of the pages and save_artifact rows are added and never taken   *)
(* away, and a canonical form is its own canonical form.                    *)
THEOREM ListingsAreSourced == Spec => []ListedPagesWereDiscovered
  <1>1. IInv /\ SourceInv => ListedPagesWereDiscovered
    <2>. SUFFICES ASSUME IInv, SourceInv, NEW r \in Run, NEW row \in artifacts[r].rows
                  PROVE  \E u \in UrlsOf(urls[r]) : row[2] \in {u, Canonical[u]}
      BY DEF ListedPagesWereDiscovered
    <2>1. row[2] \in UrlsOf(artifacts[r].rows)
      BY DEF UrlsOf
    <2>2. row[2] \in Listable(r)
      BY <2>1 DEF SourceInv
    <2>. QED
      BY <2>2 DEF Listable
  <1>2. Spec => []SourceInv
    BY InitSource, SourceStep, Inductive, PTL DEF Spec
  <1>. QED
    BY <1>1, <1>2, Inductive, PTL

-----------------------------------------------------------------------------
(* SoleInv is inductive.                                                    *)

(* No step takes a spent fault back.                                        *)
LEMMA NothingRefunded ==
  ASSUME TypeInv, [Next]_vars
  PROVE  \A x \in Budget : used[x] \in Nat /\ used'[x] \in Nat /\ used[x] <= used'[x]
  <1>0. used \in [Budget -> Nat]
    BY DEF TypeInv, TypeOK
  <1>1. ASSUME NEW b \in Budget, Spend(b)
        PROVE  \A x \in Budget : used'[x] \in Nat /\ used[x] <= used'[x]
    BY <1>0, <1>1 DEF Spend
  <1>2. UNCHANGED used \/ \E b \in Budget : Spend(b)
    <2>1. ASSUME NEW p \in Process, Advance(p) PROVE UNCHANGED used
      <3>1. CASE \/ CreateQueuedItem(p) \/ Publish(p) \/ Load(p) \/ UpdateGet(p) \/ UpdateCommit(p)
                 \/ NewItem(p) \/ StartItem(p) \/ CompleteItem(p) \/ FailItem(p) \/ StageEvent(p)
                 \/ RunEvent(p) \/ Finish(p)
        BY <3>1 DEF broker, CreateQueuedItem, Publish, Load, UpdateGet, UpdateCommit, NewItem,
                    StartItem, CompleteItem, FailItem, StageEvent, RunEvent, Finish
      <3>2. CASE \/ Discover(p) \/ AddUrls(p) \/ Extract(p) \/ Upsert(p) \/ SetValidator(p)
                 \/ Canonicalize(p) \/ Score(p) \/ Generate(p) \/ SaveArtifact(p)
        BY <3>2 DEF broker, Discover, AddUrls, Extract, Upsert, SetValidator, Canonicalize,
                    Score, Generate, SaveArtifact
      <3>. QED
        BY <2>1, <3>1, <3>2 DEF Advance
    <2>2. ASSUME NEW p \in Process, DbError(p) PROVE Spend("db")
      BY <2>2 DEF DbError
    <2>3. ASSUME NEW w \in Worker, Crash(w) \/ VisibilityTimeout(w)
          PROVE  \E b \in Budget : Spend(b)
      BY <2>3 DEF Crash, VisibilityTimeout, Budget
    <2>4. ASSUME NEW w \in Worker, NEW r \in Run, Deliver(w, r) PROVE UNCHANGED used
      BY <2>4 DEF Deliver
    <2>5. ASSUME NEW c \in ApiThread, NEW r \in Run, CreateRun(c, r) \/ ProcessRequest(c, r)
          PROVE  UNCHANGED used \/ Spend("process")
      BY <2>5 DEF CreateRun, ProcessRequest, broker
    <2>6. ASSUME NEW c \in ApiThread, PublishFails(c) PROVE Spend("publish")
      BY <2>6 DEF PublishFails
    <2>7. ApiCrash => Spend("api_crash")
      BY DEF ApiCrash
    <2>8. UNCHANGED vars => UNCHANGED used
      BY DEF vars
    <2>9. {"db", "process", "publish", "api_crash"} \subseteq Budget
      BY DEF Budget
    <2>. QED
      BY <2>1, <2>2, <2>3, <2>4, <2>5, <2>6, <2>7, <2>8, <2>9 DEF Next
  <1>3. UNCHANGED used => \A x \in Budget : used'[x] = used[x]
    OBVIOUS
  <1>. QED
    BY <1>0, <1>1, <1>2, <1>3

(* So the broker was alone before if it is now, and the two steps that would*)
(* end this were not taken.                                                 *)
LEMMA AloneBefore ==
  ASSUME TypeInv, [Next]_vars, BrokerAlone'
  PROVE  /\ BrokerAlone
         /\ \A w \in Worker : ~VisibilityTimeout(w)
         /\ \A a \in ApiThread, r \in Run : ~ProcessRequest(a, r)
  <1>0. used \in [Budget -> Nat] /\ {"process", "timeout"} \subseteq Budget
    BY DEF TypeInv, TypeOK, Budget
  <1>1. ASSUME NEW b \in Budget, Spend(b)
        PROVE  used'[b] = used[b] + 1
    BY <1>0, <1>1 DEF Spend
  <1>3. BrokerAlone
    BY <1>0, NothingRefunded DEF BrokerAlone
  <1>4. ~Spend("process") /\ ~Spend("timeout")
    BY <1>0, <1>1, <1>3 DEF BrokerAlone
  <1>. QED
    BY <1>3, <1>4 DEF VisibilityTimeout, ProcessRequest

LEMMA SoleWork ==
  ASSUME IInv, SoleInv, NEW p \in Process, WorkStep(p)
  PROVE  SoleInv'
  <1>0. /\ TypeInv /\ pc[p] # "idle" /\ RunOf(p) \in Run /\ UNCHANGED msgs
        /\ \A q \in Process : RunOf(q)' = RunOf(q)
        /\ \A q \in Process : pc'[q] # "idle" <=> pc[q] # "idle"
    BY Working, BusyTypes DEF IInv, RunOf, SameJob, Untouched
  <1>1. runs[RunOf(p)].status # "absent"
    BY <1>0 DEF SoleInv
  <1>2. runs'[RunOf(p)].status # "absent"
    <2>1. CASE UpdateCommit(p)
      <3>1. PICK row \in UpdatedRows(runs[RunOf(p)], view[p].record, view[p].mem) :
               runs' = [runs EXCEPT ![RunOf(p)] = row]
        BY <2>1 DEF UpdateCommit
      <3>2. row.status \in {view[p].mem.status, runs[RunOf(p)].status}
        BY <1>0, BusyTypes, UpdatedRowsType
      <3>3. view[p].mem.status # "absent"
        BY <2>1 DEF UpdateCommit, IInv, PhaseOK, Updating, Begun
      <3>. QED
        BY <1>0, <1>1, <3>1, <3>2, <3>3 DEF TypeInv, TypeOK
    <2>2. CASE ~UpdateCommit(p)
      <3>1. runs' = runs
        BY <2>2 DEF WorkStep, OuterStep, InnerStep, ErrorStep, DbError, CreateQueuedItem, Load,
           UpdateGet, NewItem, StartItem, CompleteItem, FailItem, StageEvent, RunEvent,
           Discover, AddUrls, Extract, Upsert, SetValidator, Canonicalize, Score, Generate,
           SaveArtifact
      <3>. QED
        BY <1>1, <3>1
    <2>. QED
      BY <2>1, <2>2
  <1>3. \A r \in Run : runs[r].status # "absent" <=> runs'[r].status # "absent"
    BY <1>1, <1>2, Working, <1>0
  <1>4. ASSUME NEW q \in Process, pc'[q] # "idle"
        PROVE  /\ msgs'[RunOf(q)'] = 0 /\ runs'[RunOf(q)'].status # "absent"
               /\ \A z \in Process \ {q} : pc'[z] # "idle" => RunOf(z)' # RunOf(q)'
    <2>1. /\ pc[q] # "idle" /\ RunOf(q)' = RunOf(q) /\ RunOf(q) \in Run
      BY <1>0, <1>4, BusyTypes
    <2>2. msgs[RunOf(q)] = 0 /\ runs[RunOf(q)].status # "absent"
      BY <2>1 DEF SoleInv
    <2>3. \A z \in Process \ {q} : pc[z] # "idle" => RunOf(z) # RunOf(q)
      BY <2>1 DEF SoleInv
    <2>. QED
      BY <1>0, <1>3, <2>1, <2>2, <2>3
  <1>. QED
    BY <1>0, <1>3, <1>4 DEF SoleInv

(* Handlers end; a message may come of one of them.                         *)
LEMMA SoleEnd ==
  ASSUME IInv, SoleInv, NEW P \in SUBSET Process, Reset(P), UNCHANGED runs,
         \/ UNCHANGED msgs
         \/ \E p \in P : pc[p] # "idle" /\ msgs' = [msgs EXCEPT ![RunOf(p)] = @ + 1]
  PROVE  SoleInv'
  <1>0. TypeInv
    BY DEF IInv
  <1>1. \A q \in Process : pc'[q] # "idle" =>
          q \notin P /\ pc[q] # "idle" /\ RunOf(q)' = RunOf(q)
    BY DEF Reset, RunOf
  <1>2. ASSUME NEW q \in Process, pc'[q] # "idle"
        PROVE  /\ runs'[RunOf(q)'].status # "absent" /\ msgs[RunOf(q)'] = 0
               /\ \A z \in Process \ {q} : pc'[z] # "idle" => RunOf(z)' # RunOf(q)'
    BY <1>1, <1>2 DEF SoleInv
  <1>3. CASE UNCHANGED msgs
    BY <1>2, <1>3 DEF SoleInv
  <1>4. ASSUME NEW p \in P, pc[p] # "idle", msgs' = [msgs EXCEPT ![RunOf(p)] = @ + 1]
        PROVE  SoleInv'
    <2>1. /\ RunOf(p) \in Run /\ msgs[RunOf(p)] = 0 /\ runs[RunOf(p)].status # "absent"
          /\ \A q \in Process \ {p} : pc[q] # "idle" => RunOf(q) # RunOf(p)
      BY <1>0, <1>4, BusyTypes DEF SoleInv
    <2>2. /\ msgs'[RunOf(p)] = 1
          /\ \A r \in Run \ {RunOf(p)} : msgs'[r] = msgs[r]
      BY <1>0, <1>4, <2>1 DEF TypeInv, TypeOK
    <2>3. \A r \in Run : msgs'[r] <= 1 /\ (runs'[r].status = "absent" => msgs'[r] = 0)
      BY <2>1, <2>2 DEF SoleInv
    <2>4. ASSUME NEW q \in Process, pc'[q] # "idle"
          PROVE  msgs'[RunOf(q)'] = 0
      <3>1. pc[q] # "idle" /\ q # p /\ RunOf(q)' = RunOf(q)
        BY <1>1, <2>4
      <3>2. RunOf(q) \in Run /\ RunOf(q) # RunOf(p)
        BY <1>0, <2>1, <3>1, BusyTypes
      <3>. QED
        BY <1>2, <2>2, <2>4, <3>1, <3>2
    <2>. QED
      BY <1>2, <2>3, <2>4 DEF SoleInv
  <1>. QED
    BY <1>3, <1>4

LEMMA SoleDeliver ==
  ASSUME IInv, SoleInv, NEW w \in Worker, NEW r \in Run, Deliver(w, r)
  PROVE  SoleInv'
  <1>0. TypeInv /\ w \in Process /\ pc[w] = "idle" /\ UNCHANGED runs
    BY DEF IInv, Deliver, Begin, Process
  <1>1. msgs[r] > 0 /\ msgs[r] <= 1 /\ msgs[r] \in Nat /\ runs[r].status # "absent"
    BY <1>0 DEF Deliver, SoleInv, TypeInv, TypeOK
  <1>2. /\ msgs'[r] = 0 /\ \A x \in Run \ {r} : msgs'[x] = msgs[x]
    BY <1>0, <1>1 DEF Deliver, TypeInv, TypeOK
  <1>3. /\ RunOf(w)' = r
        /\ \A q \in Process \ {w} : pc'[q] = pc[q] /\ RunOf(q)' = RunOf(q)
    <2>1. /\ job' = [job EXCEPT ![w] = [NoJob EXCEPT !.run = r, !.exec = execs[r] + 1,
                                                     !.unacked = TRUE]]
          /\ Goto(w, "load")
      BY DEF Deliver, Begin
    <2>2. /\ job'[w] = [NoJob EXCEPT !.run = r, !.exec = execs[r] + 1, !.unacked = TRUE]
          /\ \A q \in Process \ {w} : pc'[q] = pc[q] /\ job'[q] = job[q]
      BY <1>0, <2>1 DEF TypeInv, TypeOK, Goto
    <2>. QED
      BY <2>2 DEF RunOf, NoJob
  <1>4. \A q \in Process \ {w} : pc[q] # "idle" => RunOf(q) \in Run /\ RunOf(q) # r
    BY <1>0, <1>1, BusyTypes DEF SoleInv
  <1>5. ASSUME NEW q \in Process, pc'[q] # "idle"
        PROVE  /\ msgs'[RunOf(q)'] = 0 /\ runs'[RunOf(q)'].status # "absent"
               /\ \A z \in Process \ {q} : pc'[z] # "idle" => RunOf(z)' # RunOf(q)'
    <2>1. CASE q = w
      BY <1>0, <1>1, <1>2, <1>3, <1>4, <2>1
    <2>2. CASE q # w
      <3>1. /\ pc[q] # "idle" /\ RunOf(q)' = RunOf(q) /\ RunOf(q) \in Run /\ RunOf(q) # r
        BY <1>3, <1>4, <1>5, <2>2
      <3>2. msgs[RunOf(q)] = 0 /\ runs[RunOf(q)].status # "absent"
        BY <3>1 DEF SoleInv
      <3>3. \A z \in Process \ {q} : pc[z] # "idle" => RunOf(z) # RunOf(q)
        BY <3>1 DEF SoleInv
      <3>. QED
        BY <1>0, <1>2, <1>3, <3>1, <3>2, <3>3
    <2>. QED
      BY <2>1, <2>2
  <1>6. \A x \in Run : msgs'[x] <= 1 /\ (runs'[x].status = "absent" => msgs'[x] = 0)
    BY <1>0, <1>2 DEF SoleInv
  <1>. QED
    BY <1>5, <1>6 DEF SoleInv

LEMMA SoleCreate ==
  ASSUME IInv, SoleInv, NEW a \in ApiThread, NEW r \in Run, CreateRun(a, r)
  PROVE  SoleInv'
  <1>0. /\ TypeInv /\ a \in Process /\ pc[a] = "idle" /\ UNCHANGED msgs
        /\ runs[r].status = "absent" /\ msgs[r] = 0
    BY DEF IInv, CreateRun, Process, broker, SoleInv
  <1>1. /\ runs'[r].status = "queued" /\ \A x \in Run \ {r} : runs'[x] = runs[x]
    BY <1>0 DEF CreateRun, TypeInv, TypeOK, Blank
  <1>2. /\ RunOf(a)' = r
        /\ \A q \in Process \ {a} : pc'[q] = pc[q] /\ RunOf(q)' = RunOf(q)
    <2>1. job' = [job EXCEPT ![a].run = r] /\ Goto(a, "create_item")
      BY DEF CreateRun
    <2>2. /\ job'[a] = [job[a] EXCEPT !.run = r] /\ job[a] \in Job
          /\ \A q \in Process \ {a} : pc'[q] = pc[q] /\ job'[q] = job[q]
      BY <1>0, <2>1 DEF TypeInv, TypeOK, Goto
    <2>. QED
      BY <2>2 DEF RunOf, Job
  <1>3. \A q \in Process \ {a} : pc[q] # "idle" => RunOf(q) \in Run /\ RunOf(q) # r
    BY <1>0, BusyTypes DEF SoleInv
  <1>4. ASSUME NEW q \in Process, pc'[q] # "idle"
        PROVE  /\ msgs'[RunOf(q)'] = 0 /\ runs'[RunOf(q)'].status # "absent"
               /\ \A z \in Process \ {q} : pc'[z] # "idle" => RunOf(z)' # RunOf(q)'
    <2>1. CASE q = a
      BY <1>0, <1>1, <1>2, <1>3, <2>1
    <2>2. CASE q # a
      <3>1. /\ pc[q] # "idle" /\ RunOf(q)' = RunOf(q) /\ RunOf(q) \in Run /\ RunOf(q) # r
        BY <1>2, <1>3, <1>4, <2>2
      <3>2. msgs[RunOf(q)] = 0 /\ runs[RunOf(q)].status # "absent"
        BY <3>1 DEF SoleInv
      <3>3. \A z \in Process \ {q} : pc[z] # "idle" => RunOf(z) # RunOf(q)
        BY <3>1 DEF SoleInv
      <3>. QED
        BY <1>0, <1>1, <1>2, <3>1, <3>2, <3>3
    <2>. QED
      BY <2>1, <2>2
  <1>5. \A x \in Run : msgs'[x] <= 1 /\ (runs'[x].status = "absent" => msgs'[x] = 0)
    BY <1>0, <1>1 DEF SoleInv
  <1>. QED
    BY <1>4, <1>5 DEF SoleInv

LEMMA InitSole == Init => SoleInv
  BY DEF Init, SoleInv

LEMMA SoleStep == IInv /\ SoleInv /\ BrokerAlone' /\ [Next]_vars => SoleInv'
  <1>. SUFFICES ASSUME IInv, SoleInv, BrokerAlone', [Next]_vars
                PROVE  SoleInv'
    OBVIOUS
  <1>0. TypeInv
    BY DEF IInv
  <1>1. ASSUME NEW p \in Process, Advance(p) \/ DbError(p)
        PROVE  SoleInv'
    <2>1. CASE Publish(p) \/ Finish(p) \/ (DbError(p) /\ pc[p] = "create_item")
      <3>1. /\ Reset({p}) /\ {p} \in SUBSET Process /\ UNCHANGED runs
            /\ UNCHANGED msgs \/ (pc[p] # "idle" /\ msgs' = [msgs EXCEPT ![RunOf(p)] = @ + 1])
        BY <2>1 DEF Publish, Finish, DbError, StageBody, StageUpdate, broker
      <3>. QED
        BY <3>1, SoleEnd
    <2>2. CASE ~(Publish(p) \/ Finish(p) \/ (DbError(p) /\ pc[p] = "create_item"))
      <3>1. WorkStep(p)
        BY <1>1, <2>2 DEF Advance, WorkStep, OuterStep, InnerStep, ErrorStep
      <3>. QED
        BY <3>1, SoleWork
    <2>. QED
      BY <2>1, <2>2
  <1>2. ASSUME NEW w \in Worker, Crash(w)
        PROVE  SoleInv'
    <2>1. /\ Reset({w}) /\ {w} \in SUBSET Process /\ UNCHANGED runs
          /\ UNCHANGED msgs \/ (pc[w] # "idle" /\ msgs' = [msgs EXCEPT ![RunOf(w)] = @ + 1])
      BY <1>2 DEF Crash, Process
    <2>. QED
      BY <2>1, SoleEnd
  <1>3. ASSUME NEW a \in ApiThread, PublishFails(a)
        PROVE  SoleInv'
    <2>1. Reset({a}) /\ {a} \in SUBSET Process /\ UNCHANGED <<runs, msgs>>
      BY <1>3 DEF PublishFails, Process
    <2>. QED
      BY <2>1, SoleEnd
  <1>4. CASE ApiCrash
    <2>1. Reset(ApiThread) /\ ApiThread \in SUBSET Process /\ UNCHANGED <<runs, msgs>>
      BY <1>4 DEF ApiCrash, Process
    <2>. QED
      BY <2>1, SoleEnd
  <1>5. ASSUME NEW w \in Worker PROVE ~VisibilityTimeout(w)
    BY <1>0, AloneBefore
  <1>6. ASSUME NEW a \in ApiThread, NEW r \in Run PROVE ~ProcessRequest(a, r)
    BY <1>0, AloneBefore
  <1>7. CASE UNCHANGED vars
    BY <1>7 DEF vars, SoleInv, RunOf
  <1>. QED
    BY <1>1, <1>2, <1>3, <1>4, <1>5, <1>6, <1>7, SoleDeliver, SoleCreate DEF Next

LEMMA SoleAlways == Spec => [](BrokerAlone => SoleInv)
  <1>1. IInv /\ (BrokerAlone => SoleInv) /\ [Next]_vars => (BrokerAlone => SoleInv)'
    BY SoleStep, AloneBefore DEF IInv
  <1>. QED
    BY <1>1, InitSole, Inductive, PTL DEF Spec

(* acks_late and redelivery never put two executions on one run: a message  *)
(* is ready again only after the process that held it has died or returned. *)
THEOREM OneExecutionAtATime == Spec => [](BrokerAlone => AtMostOneExecution)
  <1>1. IInv /\ SoleInv => AtMostOneExecution
    <2>. SUFFICES ASSUME IInv, SoleInv, NEW r \in Run
                  PROVE  Cardinality(Executing(r)) + msgs[r] <= 1
      BY DEF AtMostOneExecution
    <2>1. msgs[r] \in Nat /\ msgs[r] <= 1
      BY DEF IInv, TypeInv, TypeOK, SoleInv
    <2>2. CASE Executing(r) = {}
      BY <2>1, <2>2, FS_EmptySet
    <2>3. CASE Executing(r) # {}
      <3>1. PICK p \in Executing(r) : TRUE
        BY <2>3
      <3>2. p \in Process /\ pc[p] # "idle" /\ RunOf(p) = r
        BY <3>1 DEF Executing, Busy
      <3>3. \A q \in Executing(r) : q = p
        BY <3>2 DEF Executing, Busy, SoleInv
      <3>4. Executing(r) = {p}
        BY <3>1, <3>3
      <3>5. Cardinality(Executing(r)) = 1
        BY <3>4, FS_Singleton
      <3>6. msgs[r] = 0
        BY <3>2 DEF SoleInv
      <3>. QED
        BY <3>5, <3>6
    <2>. QED
      BY <2>2, <2>3
  <1>. QED
    BY <1>1, SoleAlways, Inductive, PTL

-----------------------------------------------------------------------------
(* TableInv is inductive.                                                   *)

(* A commit whose session.get is not out of date writes all of mem.         *)
LEMMA FreshUpdate ==
  ASSUME NEW current \in RunRecord, NEW mem \in RunRecord,
         NEW row \in UpdatedRows(current, current, mem)
  PROVE  row = mem
  <1>1. PICK written \in WrittenColumns(current, mem) :
          row = [status        |-> IF "status" \in written THEN mem.status ELSE current.status,
                 score         |-> IF "score" \in written THEN mem.score ELSE current.score,
                 artifact_path |-> IF "artifact_path" \in written
                                     THEN mem.artifact_path ELSE current.artifact_path,
                 completed_at  |-> IF "completed_at" \in written
                                     THEN mem.completed_at ELSE current.completed_at,
                 error         |-> IF "error" \in written THEN mem.error ELSE current.error]
    BY DEF UpdatedRows
  <1>2. \A c \in DOMAIN mem : c \notin written => mem[c] = current[c]
    BY DEF WrittenColumns
  <1>3. DOMAIN mem = {"status", "score", "artifact_path", "completed_at", "error"}
    BY DEF RunRecord
  <1>4. /\ "status" \notin written => mem.status = current.status
        /\ "score" \notin written => mem.score = current.score
        /\ "artifact_path" \notin written => mem.artifact_path = current.artifact_path
        /\ "completed_at" \notin written => mem.completed_at = current.completed_at
        /\ "error" \notin written => mem.error = current.error
    BY <1>2, <1>3
  <1>5. row = [status |-> mem.status, score |-> mem.score, artifact_path |-> mem.artifact_path,
               completed_at |-> mem.completed_at, error |-> mem.error]
    BY <1>1, <1>4
  <1>. QED
    BY <1>5 DEF RunRecord

(* Rows for urls that have none yet make no twins.                          *)
LEMMA NewRows ==
  ASSUME NEW rows \in SUBSET Row, NoTwins(rows), NEW seed, NEW S, S \intersect UrlsOf(rows) = {}
  PROVE  NoTwins(rows \union RowsFor(seed, S))
  <1>1. \A x \in RowsFor(seed, S) : x = <<seed, x[2]>> /\ x[2] \in S
    BY DEF RowsFor
  <1>2. \A x \in rows : x[2] \in UrlsOf(rows)
    BY DEF UrlsOf
  <1>. QED
    BY <1>1, <1>2 DEF NoTwins

(* The processes a step of p leaves alone work on other runs.               *)
LEMMA OtherTables ==
  ASSUME TypeInv, SoleInv, TableInv, NEW p \in Process, WorkStep(p),
         NEW q \in Process \ {p}, pc'[q] # "idle"
  PROVE  FreshOK(q)' /\ DraftOK(q)'
  <1>1. Untouched(q) /\ pc[q] # "idle"
    BY Working DEF Untouched
  <1>2. PICK r \in Run : r = RunOf(q)
    BY <1>1, BusyTypes
  <1>3. r # RunOf(p)
    BY <1>1, <1>2, Working DEF SoleInv
  <1>4. /\ runs'[r] = runs[r] /\ urls'[r] = urls[r]
        /\ pages'[r] = pages[r] /\ artifacts'[r] = artifacts[r]
    BY <1>3, Working
  <1>5. pc'[q] = pc[q] /\ job'[q] = job[q] /\ view'[q] = view[q] /\ RunOf(q)' = r
    BY <1>1, <1>2 DEF Untouched, RunOf
  <1>6. FreshOK(q) /\ DraftOK(q)
    BY <1>1 DEF TableInv
  <1>7. FreshOK(q)'
    BY <1>2, <1>4, <1>5, <1>6 DEF FreshOK, UrlsOf
  <1>8. DraftOK(q)'
    BY <1>2, <1>4, <1>5, <1>6
       DEF DraftOK, Scored, InStages, Updating, StageUpdate, Generated
  <1>. QED
    BY <1>7, <1>8

LEMMA OneTable ==
  ASSUME IInv, SoleInv, TableInv, NEW p \in Process, WorkStep(p),
         FreshOK(p)', DraftOK(p)', NEW r \in Run, r = RunOf(p),
         WholeRow(r)', NoTwins(urls'[r]), NoTwins(pages'[r])
  PROVE  TableInv'
  <1>0. TypeInv
    BY DEF IInv
  <1>1. ASSUME NEW q \in Process, pc'[q] # "idle"
        PROVE  FreshOK(q)' /\ DraftOK(q)'
    BY <1>0, <1>1, OtherTables
  <1>2. ASSUME NEW x \in Run
        PROVE  WholeRow(x)' /\ NoTwins(urls'[x]) /\ NoTwins(pages'[x])
    <2>1. CASE x = r
      BY <2>1
    <2>2. CASE x # r
      BY <1>0, <2>2, Working DEF TableInv, WholeRow
    <2>. QED
      BY <2>1, <2>2
  <1>. QED
    BY <1>1, <1>2 DEF TableInv

(* The draft stays true when nothing it speaks of changes.                  *)
LEMMA SameDraft ==
  ASSUME NEW p \in Process, DraftOK(p), NEW r \in Run, r = RunOf(p), RunOf(p)' = r,
         view'[p].mem = view[p].mem, UNCHANGED <<runs, artifacts, pages>>,
         Scored(p)' => Scored(p), Generated(p)' => Generated(p),
         InStages(p)' => InStages(p)
  PROVE  DraftOK(p)'
  BY DEF DraftOK

(* A step that changes neither the tables of the run nor mem.               *)
LEMMA QuietTable ==
  ASSUME IInv, SoleInv, TableInv, NEW p \in Process, WorkStep(p),
         view'[p].mem = view[p].mem, UNCHANGED <<runs, urls, artifacts, pages>>,
         Scored(p)' => Scored(p), Generated(p)' => Generated(p),
         InStages(p)' => InStages(p), FreshOK(p)'
  PROVE  TableInv'
  <1>1. TypeInv /\ pc[p] # "idle" /\ RunOf(p)' = RunOf(p)
    BY Working DEF IInv, SameJob, RunOf
  <1>2. PICK r \in Run : r = RunOf(p)
    BY <1>1, BusyTypes
  <1>3. DraftOK(p)'
    BY <1>1, <1>2, SameDraft DEF TableInv
  <1>4. WholeRow(r)' /\ NoTwins(urls'[r]) /\ NoTwins(pages'[r])
    BY DEF TableInv, WholeRow
  <1>. QED
    BY <1>2, <1>3, <1>4, OneTable

(* Between the steps that read the tables or change mem, a process moves on *)
(* without crossing the end of scoring or of generation.                    *)
LEMMA OuterQuiet ==
  ASSUME IInv, TrailInv, SoleInv, TableInv, NEW p \in Process,
         \/ CreateQueuedItem(p) \/ NewItem(p) \/ StartItem(p) \/ CompleteItem(p)
         \/ FailItem(p) \/ RunEvent(p) \/ ErrorStep(p)
  PROVE  TableInv'
  <1>0. /\ TypeInv /\ WorkStep(p) /\ pc[p] # "idle" /\ job[p] \in Job
        /\ UNCHANGED <<runs, urls, pages, artifacts, view>>
    <2>1. TypeInv /\ WorkStep(p)
      BY DEF IInv, WorkStep, OuterStep
    <2>2. pc[p] # "idle" /\ job[p] \in Job
      BY <2>1, Working, BusyTypes
    <2>3. UNCHANGED <<runs, urls, pages, artifacts, view>>
      BY DEF CreateQueuedItem, NewItem, StartItem, CompleteItem, FailItem, RunEvent, ErrorStep,
             DbError, content
    <2>. QED
      BY <2>1, <2>2, <2>3
  <1>1. /\ Scored(p)' => Scored(p)
        /\ Generated(p)' => Generated(p)
        /\ InStages(p)' => InStages(p)
        /\ pc'[p] # "update_commit"
    <2>1. CASE CreateQueuedItem(p)
      BY <1>0, <2>1, StepOf
         DEF CreateQueuedItem, Scored, Generated, InStages, Updating, StageUpdate
    <2>2. CASE NewItem(p)
      <3>1. pc[p] = "new_item" /\ pc'[p] = "start_item"
        BY <1>0, <2>2, StepOf DEF NewItem
      <3>2. job'[p] = [job[p] EXCEPT !.item = "queued"]
        BY <1>0, <2>2 DEF NewItem, TypeInv, TypeOK
      <3>3. job'[p].stage = job[p].stage
        BY <1>0, <3>2 DEF Job
      <3>. QED
        BY <3>1, <3>3 DEF Scored, Generated, InStages, Updating, StageUpdate
    <2>3. CASE StartItem(p)
      <3>1. /\ pc[p] = "start_item"
            /\ pc'[p] \in {"discover", "extract", "canonicalize", "score", "generate"}
        BY <1>0, <2>3, StepOf DEF StartItem, Body
      <3>2. job'[p] = [job[p] EXCEPT !.item = "processing"]
        BY <1>0, <2>3 DEF StartItem, TypeInv, TypeOK
      <3>3. job'[p].stage = job[p].stage
        BY <1>0, <3>2 DEF Job
      <3>. QED
        BY <3>1, <3>3 DEF Scored, Generated, InStages, Updating, StageUpdate
    <2>4. CASE CompleteItem(p)
      <3>1. pc[p] = "complete_item" /\ pc'[p] = "stage_event"
        BY <1>0, <2>4, StepOf DEF CompleteItem
      <3>2. job'[p] = [job[p] EXCEPT !.item = "completed"]
        BY <1>0, <2>4 DEF CompleteItem, TypeInv, TypeOK
      <3>3. job'[p].stage = job[p].stage
        BY <1>0, <3>2 DEF Job
      <3>. QED
        BY <3>1, <3>3 DEF Scored, Generated, InStages, Updating, StageUpdate
    <2>5. CASE FailItem(p)
      <3>1. pc[p] = "fail_item" /\ pc'[p] = "stage_event"
        BY <1>0, <2>5, StepOf DEF FailItem
      <3>2. \E i : job'[p] = Raising(job[p], i, RaisedWith(job[p].item))
        BY <1>0, <2>5 DEF FailItem, TypeInv, TypeOK
      <3>3. job'[p].stage = job[p].stage /\ job'[p].exc # "none"
        BY <1>0, <3>2, RaisingFields DEF RaisedWith
      <3>. QED
        BY <3>1, <3>3 DEF Scored, Generated, InStages, Updating, StageUpdate
    <2>6. CASE RunEvent(p)
      <3>1. pc'[p] = "finish"
        BY <1>0, <2>6, StepOf DEF RunEvent
      <3>. QED
        BY <3>1 DEF Scored, Generated, InStages, Updating, StageUpdate
    <2>7. CASE ErrorStep(p)
      <3>1. CASE pc'[p] = "finish"
        BY <3>1 DEF Scored, Generated, InStages, Updating, StageUpdate
      <3>2. CASE pc'[p] = "fail_item"
        <4>1. /\ pc[p] \in StageBody \/ StageUpdate(p) \/ pc[p] = "complete_item"
              /\ job' = job \/ job' = [job EXCEPT ![p].item = "completed"]
          BY <1>0, <2>7, <3>2, StepOf DEF ErrorStep, DbError
        <4>2. job'[p].stage = job[p].stage
          <5>1. job'[p] = job[p] \/ job'[p] = [job[p] EXCEPT !.item = "completed"]
            BY <1>0, <4>1 DEF TypeInv, TypeOK
          <5>. QED
            BY <1>0, <5>1 DEF Job
        <4>3. InStages(p)
          BY <4>1 DEF InStages, Updating, StageUpdate, StageBody
        <4>. QED
          BY <3>2, <4>2, <4>3 DEF Scored, Generated, Updating, StageUpdate
      <3>3. CASE pc'[p] = "stage_event"
        <4>1. pc[p] = "fail_item" /\ job' = [job EXCEPT ![p] = Raising(@, "failed", "raw")]
          BY <1>0, <2>7, <3>3, StepOf DEF ErrorStep, DbError
        <4>2. job'[p] = Raising(job[p], "failed", "raw")
          BY <1>0, <4>1 DEF TypeInv, TypeOK
        <4>3. job'[p].stage = job[p].stage /\ job'[p].exc # "none"
          BY <1>0, <4>2, RaisingFields
        <4>. QED
          BY <3>3, <4>1, <4>3 DEF Scored, Generated, InStages, Updating, StageUpdate
      <3>4. pc'[p] \in {"finish", "fail_item", "stage_event"}
        BY <1>0, <2>7, StepOf DEF ErrorStep, DbError
      <3>. QED
        BY <3>1, <3>2, <3>3, <3>4
    <2>. QED
      BY <2>1, <2>2, <2>3, <2>4, <2>5, <2>6, <2>7
  <1>2. pc'[p] \notin {"add_urls", "upsert", "save_artifact"}
    BY <1>0, OuterPc DEF OuterStep
  <1>3. FreshOK(p)'
    BY <1>1, <1>2 DEF FreshOK
  <1>. QED
    BY <1>0, <1>1, <1>3, QuietTable

LEMMA LoadTable ==
  ASSUME IInv, SoleInv, TableInv, NEW p \in Process, Load(p)
  PROVE  TableInv'
  <1>0. /\ TypeInv /\ WorkStep(p) /\ pc[p] = "load" /\ job'[p] = job[p] /\ job[p].stage = 0
        /\ UNCHANGED <<runs, urls, pages, artifacts>>
    BY DEF IInv, WorkStep, OuterStep, Load, content, LabelOK
  <1>1. PICK r \in Run : r = RunOf(p)
    BY <1>0, BusyTypes
  <1>2. \/ pc'[p] = "finish" /\ view'[p] = view[p]
        \/ pc'[p] = "update_get" /\ view'[p] = WithMem(view[p], Started(runs[r]))
    <2>1. \/ Goto(p, "finish") /\ UNCHANGED view
          \/ Goto(p, "update_get") /\ view' = [view EXCEPT ![p] = WithMem(@, Started(runs[r]))]
      BY <1>1 DEF Load
    <2>2. CASE Goto(p, "finish") /\ UNCHANGED view
      BY <1>0, <2>2, StepOf
    <2>3. CASE Goto(p, "update_get") /\ view' = [view EXCEPT ![p] = WithMem(@, Started(runs[r]))]
      BY <1>0, <2>3, StepOf DEF TypeInv, TypeOK
    <2>. QED
      BY <2>1, <2>2, <2>3
  <1>3. FreshOK(p)'
    BY <1>2 DEF FreshOK
  <1>4. ~Scored(p)' /\ ~Generated(p)' /\ ~InStages(p)'
    BY <1>0, <1>2 DEF Scored, Generated, InStages, Updating, StageUpdate, LastStage
  <1>5. CASE pc'[p] = "finish"
    BY <1>0, <1>2, <1>3, <1>4, <1>5, QuietTable
  <1>6. CASE pc'[p] = "update_get"
    <2>1. view'[p].mem.status = "running"
      <3>1. view[p] \in View /\ runs[r] \in RunRecord
        BY <1>0, <1>1, BusyTypes
      <3>2. view'[p].mem = Started(runs[r])
        BY <1>2, <1>6, <3>1, StartedType, Fields
      <3>. QED
        BY <3>1, <3>2 DEF Started, RunRecord
    <2>2. DraftOK(p)'
      BY <1>4, <2>1 DEF DraftOK
    <2>3. WholeRow(r)' /\ NoTwins(urls'[r]) /\ NoTwins(pages'[r])
      BY <1>0 DEF TableInv, WholeRow
    <2>. QED
      BY <1>0, <1>1, <1>3, <2>2, <2>3, OneTable
  <1>. QED
    BY <1>2, <1>5, <1>6

LEMMA UpdateGetTable ==
  ASSUME IInv, SoleInv, TableInv, NEW p \in Process, UpdateGet(p)
  PROVE  TableInv'
  <1>0. /\ TypeInv /\ WorkStep(p) /\ pc[p] = "update_get" /\ job'[p] = job[p]
        /\ UNCHANGED <<runs, urls, pages, artifacts>>
    BY DEF IInv, WorkStep, OuterStep, UpdateGet, content
  <1>1. PICK r \in Run : r = RunOf(p) /\ r = RunOf(p)'
    BY <1>0, BusyTypes DEF RunOf
  <1>2. pc'[p] = "update_commit"
    BY <1>0, StepOf DEF UpdateGet
  <1>3. view'[p] = [view[p] EXCEPT !.record = runs[r]] /\ view[p] \in View
    BY <1>0, <1>1, BusyTypes DEF UpdateGet, TypeInv, TypeOK
  <1>4. view'[p].record = runs[r] /\ view'[p].mem = view[p].mem
    BY <1>3 DEF View
  <1>5. FreshOK(p)'
    BY <1>0, <1>1, <1>2, <1>4 DEF FreshOK
  <1>6. /\ Scored(p)' => Scored(p)
        /\ Generated(p)' => Generated(p)
        /\ InStages(p)' => InStages(p)
    BY <1>0, <1>2, <1>4 DEF Scored, Generated, InStages, Updating, StageUpdate
  <1>. QED
    BY <1>0, <1>4, <1>5, <1>6, QuietTable

LEMMA UpdateCommitTable ==
  ASSUME IInv, SoleInv, TableInv, NEW p \in Process, UpdateCommit(p)
  PROVE  TableInv'
  <1>0. /\ TypeInv /\ WorkStep(p) /\ pc[p] = "update_commit" /\ view' = view
        /\ UNCHANGED <<urls, pages, artifacts>>
    BY DEF IInv, WorkStep, OuterStep, UpdateCommit, content
  <1>1. PICK r \in Run : r = RunOf(p)
    BY <1>0, BusyTypes
  <1>2. RunOf(p)' = r
    BY <1>0, <1>1, Working DEF SameJob, RunOf
  <1>3. DraftOK(p) /\ view[p].record = runs[r]
    BY <1>0, <1>1 DEF TableInv, FreshOK
  <1>4. runs'[r] = view[p].mem
    <2>1. view[p].mem \in RunRecord /\ runs[r] \in RunRecord
      BY <1>0, <1>1, BusyTypes
    <2>2. PICK row \in UpdatedRows(runs[r], runs[r], view[p].mem) :
             runs' = [runs EXCEPT ![r] = row]
      BY <1>1, <1>3 DEF UpdateCommit
    <2>3. row = view[p].mem
      BY <2>1, <2>2, FreshUpdate
    <2>. QED
      BY <1>0, <2>2, <2>3 DEF TypeInv, TypeOK
  <1>5. /\ job[p] \in Job
        /\ \/ pc'[p] = "run_event" /\ view[p].mem.status \in Terminal
           \/ pc'[p] = "new_item" /\ job'[p].stage = 1
           \/ /\ pc'[p] = "complete_item" /\ job'[p] = job[p] /\ job[p].stage > 0
              /\ view[p].mem.status \notin Terminal
    <2>1. job[p] \in Job /\ job[p].stage \in 0 .. LastStage
      BY <1>0, BusyTypes
    <2>2. CASE view[p].mem.status \in Terminal
      BY <1>0, <2>1, <2>2, StepOf DEF UpdateCommit
    <2>3. CASE view[p].mem.status \notin Terminal /\ job[p].stage = 0
      <3>1. Goto(p, "new_item") /\ job' = [job EXCEPT ![p].stage = 1]
        BY <2>3 DEF UpdateCommit
      <3>2. pc'[p] = "new_item" /\ job'[p] = [job[p] EXCEPT !.stage = 1]
        BY <1>0, <3>1, StepOf DEF TypeInv, TypeOK
      <3>. QED
        BY <2>1, <3>2 DEF Job
    <2>4. CASE view[p].mem.status \notin Terminal /\ job[p].stage # 0
      <3>1. Goto(p, "complete_item") /\ UNCHANGED job
        BY <2>4 DEF UpdateCommit
      <3>2. job[p].stage > 0
        BY <2>1, <2>4 DEF LastStage
      <3>. QED
        BY <1>0, <2>1, <2>4, <3>1, <3>2, StepOf
    <2>. QED
      BY <2>2, <2>3, <2>4
  <1>6. FreshOK(p)'
    BY <1>5 DEF FreshOK
  <1>7. view[p].mem.status = "running" => (Scored(p)' => Scored(p)) /\ (Generated(p)' => Generated(p))
    BY <1>0, <1>5
       DEF Scored, Generated, InStages, Updating, StageUpdate, LastStage, Terminal
  <1>8. Generated(p)' => view[p].mem.status = "running"
    <2>1. view[p].mem.status \in {"running", "completed", "failed"}
      <3>1. view[p].mem.status \in RunStatus
        BY <1>0, BusyTypes DEF RunRecord
      <3>2. Begun(view[p].mem.status)
        BY <1>0 DEF IInv, PhaseOK, Updating
      <3>. QED
        BY <3>1, <3>2 DEF RunStatus, Begun
    <2>. QED
      BY <1>0, <1>5, <2>1 DEF Generated, Updating, Terminal, LastStage
  <1>9. DraftOK(p)'
    BY <1>0, <1>1, <1>2, <1>3, <1>4, <1>7, <1>8 DEF DraftOK
  <1>10. WholeRow(r)' /\ NoTwins(urls'[r]) /\ NoTwins(pages'[r])
    BY <1>0, <1>1, <1>3, <1>4 DEF DraftOK, WholeRow, TableInv
  <1>. QED
    BY <1>0, <1>1, <1>6, <1>9, <1>10, OneTable

LEMMA StageEventTable ==
  ASSUME IInv, TrailInv, SoleInv, TableInv, NEW p \in Process, StageEvent(p)
  PROVE  TableInv'
  <1>0. /\ TypeInv /\ WorkStep(p) /\ pc[p] = "stage_event"
        /\ UNCHANGED <<runs, urls, pages, artifacts>>
    BY DEF IInv, WorkStep, OuterStep, StageEvent, content
  <1>1. /\ view[p].mem.status = "running" /\ view[p] \in View /\ view[p].mem \in RunRecord
        /\ job[p] \in Job /\ job[p].stage \in Stage
    BY <1>0, StageFacts, BusyTypes
  <1>2. PICK r \in Run : r = RunOf(p)
    BY <1>0, BusyTypes
  <1>3. RunOf(p)' = r
    BY <1>0, <1>2, Working DEF SameJob, RunOf
  <1>4. CASE job[p].exc = "none" /\ ~PlanDone(job[p].stage)
    <2>1. job' = [job EXCEPT ![p].stage = @ + 1] /\ Goto(p, "new_item") /\ view' = view
      BY <1>4 DEF StageEvent
    <2>2. pc'[p] = "new_item" /\ job'[p] = [job[p] EXCEPT !.stage = job[p].stage + 1]
      BY <1>0, <2>1, StepOf DEF TypeInv, TypeOK
    <2>3. job'[p].stage = job[p].stage + 1
      BY <1>1, <2>2 DEF Job
    <2>4. /\ Scored(p)' => Scored(p)
          /\ Generated(p)' => Generated(p)
          /\ InStages(p)' => InStages(p)
      BY <1>0, <1>1, <1>4, <2>1, <2>2, <2>3
         DEF Scored, Generated, InStages, Updating, StageUpdate, Stage, LastStage
    <2>5. FreshOK(p)'
      BY <2>2 DEF FreshOK
    <2>. QED
      BY <1>0, <2>1, <2>4, <2>5, QuietTable
  <1>5. CASE job[p].exc = "raw"
    <2>1. pc'[p] = "finish" /\ view' = view
      BY <1>0, <1>5, StepOf DEF StageEvent
    <2>2. FreshOK(p)' /\ ~Scored(p)' /\ ~Generated(p)' /\ ~InStages(p)'
      BY <2>1 DEF FreshOK, Scored, Generated, InStages, Updating, StageUpdate
    <2>. QED
      BY <1>0, <2>1, <2>2, QuietTable
  <1>6. ASSUME NEW outcome \in Terminal, job' = job, Goto(p, "update_get"),
               view' = [view EXCEPT ![p] = WithMem(@, EndedRun(@.mem, outcome))],
               outcome = "completed" => job[p].stage = LastStage /\ job[p].exc = "none"
        PROVE  TableInv'
    <2>1. pc'[p] = "update_get" /\ view'[p] = WithMem(view[p], EndedRun(view[p].mem, outcome))
      BY <1>0, <1>6, StepOf DEF TypeInv, TypeOK
    <2>2. view'[p].mem = EndedRun(view[p].mem, outcome)
      <3>1. EndedRun(view[p].mem, outcome) \in RunRecord
        BY <1>1, EndedRunType DEF Terminal, RunStatus
      <3>. QED
        BY <1>1, <2>1, <3>1, Fields
    <2>3. /\ view'[p].mem.status = outcome /\ view'[p].mem.completed_at
          /\ view'[p].mem.score = view[p].mem.score
          /\ view'[p].mem.artifact_path = view[p].mem.artifact_path
      BY <1>1, <2>2 DEF EndedRun, RunRecord
    <2>4. DraftOK(p)
      BY <1>0 DEF TableInv
    <2>5. outcome = "completed" => Scored(p) /\ Generated(p)
      BY <1>0, <1>6 DEF Scored, Generated, InStages, Updating, LastStage
    <2>6. ~Generated(p)'
      BY <2>1, <2>3 DEF Generated, Updating, Terminal
    <2>7. DraftOK(p)'
      BY <1>0, <1>1, <1>2, <1>3, <2>3, <2>4, <2>5, <2>6 DEF DraftOK, Terminal
    <2>8. FreshOK(p)'
      BY <2>1 DEF FreshOK
    <2>9. WholeRow(r)' /\ NoTwins(urls'[r]) /\ NoTwins(pages'[r])
      BY <1>0 DEF TableInv, WholeRow
    <2>. QED
      BY <1>0, <1>2, <2>7, <2>8, <2>9, OneTable
  <1>7. CASE job[p].exc = "none" /\ PlanDone(job[p].stage)
    BY <1>6, <1>7 DEF StageEvent, PlanDone, Terminal
  <1>8. CASE job[p].exc = "stage"
    BY <1>6, <1>8 DEF StageEvent, Terminal
  <1>. QED
    BY <1>4, <1>5, <1>7, <1>8 DEF StageEvent

(* Reading the tables into memory, without a change to either or to mem.    *)
LEMMA ReadTable ==
  ASSUME IInv, TrailInv, SoleInv, TableInv, NEW p \in Process,
         Discover(p) \/ Extract(p) \/ Canonicalize(p) \/ Generate(p) \/ SetValidator(p)
  PROVE  TableInv'
  <1>0. /\ TypeInv /\ WorkStep(p) /\ InnerStep(p) /\ job'[p] = job[p]
        /\ UNCHANGED <<runs, urls, pages, artifacts>>
    <2>1. TypeInv /\ WorkStep(p) /\ InnerStep(p) /\ UNCHANGED <<urls, pages, artifacts>>
      BY DEF IInv, WorkStep, InnerStep, Discover, Extract, Canonicalize, Generate, SetValidator,
             content
    <2>. QED
      BY <2>1, InnerFacts
  <1>1. PICK r \in Run : r = RunOf(p) /\ r = RunOf(p)'
    BY <1>0, Working, BusyTypes DEF RunOf
  <1>2. view[p] \in View /\ pc[p] # "idle"
    BY <1>0, Working, BusyTypes
  <1>3. view'[p].mem = view[p].mem
    <2>1. CASE view' = view
      BY <2>1
    <2>2. CASE \E b, k : view' = [view EXCEPT ![p] = Holding(@, b, k)]
      <3>1. PICK b, k : view' = [view EXCEPT ![p] = Holding(@, b, k)]
        BY <2>2
      <3>2. view'[p] = Holding(view[p], b, k)
        BY <1>0, <3>1 DEF TypeInv, TypeOK
      <3>. QED
        BY <1>2, <3>2, Fields
    <2>3. CASE \E l, f : view' = [view EXCEPT ![p] = Listing(@, l, f)]
      <3>1. PICK l, f : view' = [view EXCEPT ![p] = Listing(@, l, f)]
        BY <2>3
      <3>2. view'[p] = Listing(view[p], l, f)
        BY <1>0, <3>1 DEF TypeInv, TypeOK
      <3>. QED
        BY <1>2, <3>2, Fields
    <2>4. \/ view' = view
          \/ \E b, k : view' = [view EXCEPT ![p] = Holding(@, b, k)]
          \/ \E l, f : view' = [view EXCEPT ![p] = Listing(@, l, f)]
      <3>1. CASE SetValidator(p)
        BY <3>1 DEF SetValidator
      <3>2. CASE Discover(p)
        BY <3>2 DEF Discover
      <3>3. CASE Extract(p)
        BY <3>3 DEF Extract
      <3>4. CASE Canonicalize(p)
        BY <3>4 DEF Canonicalize
      <3>5. CASE Generate(p)
        BY <3>5 DEF Generate
      <3>. QED
        BY <3>1, <3>2, <3>3, <3>4, <3>5
    <2>. QED
      BY <2>1, <2>2, <2>3, <2>4
  <1>4. /\ InStages(p)
        /\ pc'[p] \in {"add_urls", "upsert", "save_artifact", "set_validators",
                       "complete_item", "fail_item"}
        /\ pc'[p] = "complete_item" => job[p].stage = 2
    <2>1. \E l \in {"add_urls", "upsert", "save_artifact", "set_validators",
                    "complete_item", "fail_item"} : Goto(p, l)
      BY DEF Discover, Extract, Canonicalize, Generate, SetValidator
    <2>2. pc'[p] = "complete_item" => pc[p] = "set_validators"
      BY <1>0, StepOf DEF Discover, Extract, Canonicalize, Generate, SetValidator
    <2>3. InStages(p)
      BY DEF Discover, Extract, Canonicalize, Generate, SetValidator, InStages, Updating
    <2>. QED
      BY <1>0, <2>1, <2>2, <2>3, StepOf DEF IInv, LabelOK
  <1>5. /\ Scored(p)' => Scored(p)
        /\ Generated(p)' => Generated(p)
        /\ InStages(p)' => InStages(p)
    BY <1>0, <1>4 DEF Scored, Generated, Updating, StageUpdate, LastStage
  <1>6. FreshOK(p)'
    <2>0. /\ pc'[p] = "add_urls" => Discover(p)
          /\ pc'[p] = "upsert" => Extract(p) \/ Canonicalize(p)
          /\ pc'[p] = "save_artifact" => Generate(p)
      <3>1. /\ Discover(p) => pc'[p] \in {"add_urls", "fail_item"}
            /\ Extract(p) => pc'[p] \in {"upsert", "fail_item"}
            /\ Canonicalize(p) => pc'[p] = "upsert"
            /\ Generate(p) => pc'[p] = "save_artifact"
        BY <1>0, StepOf DEF Discover, Extract, Canonicalize, Generate
      <3>2. SetValidator(p) => pc'[p] \in {"complete_item", "set_validators", "fail_item"}
        BY <1>0, StepOf DEF SetValidator
      <3>. QED
        BY <3>1, <3>2
    <2>1. ASSUME pc'[p] = "add_urls" PROVE view'[p].known = UrlsOf(urls[r])
      <3>1. \E found :
              view' = [view EXCEPT ![p] = Holding(@, found, UrlsOf(urls[r]))]
        <4>1. ~Goto(p, "fail_item")
          BY <1>0, <2>1, StepOf
        <4>. QED
          BY <1>1, <2>0, <2>1, <4>1 DEF Discover
      <3>2. \E found : view'[p] = Holding(view[p], found, UrlsOf(urls[r]))
        BY <1>0, <3>1 DEF TypeInv, TypeOK
      <3>. QED
        BY <1>2, <3>2 DEF Holding, View
    <2>2. ASSUME pc'[p] = "upsert" PROVE view'[p].known = UrlsOf(pages[r])
      <3>1. \E b : view' = [view EXCEPT ![p] = Holding(@, b, UrlsOf(pages[r]))]
        <4>1. ~Goto(p, "fail_item")
          BY <1>0, <2>2, StepOf
        <4>. QED
          BY <1>1, <2>0, <2>2, <4>1 DEF Extract, Canonicalize
      <3>2. \E b : view'[p] = Holding(view[p], b, UrlsOf(pages[r]))
        BY <1>0, <3>1 DEF TypeInv, TypeOK
      <3>. QED
        BY <1>2, <3>2 DEF Holding, View
    <2>3. ASSUME pc'[p] = "save_artifact" PROVE view'[p].listing = pages[r]
      <3>1. \E f : view' = [view EXCEPT ![p] = Listing(@, pages[r], f)]
        BY <1>1, <2>0, <2>3 DEF Generate
      <3>2. \E f : view'[p] = Listing(view[p], pages[r], f)
        BY <1>0, <3>1 DEF TypeInv, TypeOK
      <3>. QED
        BY <1>2, <3>2 DEF Listing, View
    <2>4. pc'[p] # "update_commit" /\ UrlsOf(urls[r])' = UrlsOf(urls[r])
          /\ UrlsOf(pages[r])' = UrlsOf(pages[r])
      BY <1>0, <1>4 DEF UrlsOf
    <2>. QED
      BY <1>0, <1>1, <2>1, <2>2, <2>3, <2>4 DEF FreshOK
  <1>. QED
    BY <1>0, <1>3, <1>5, <1>6, QuietTable

(* A commit of rows by a process in the stages: its run is running.         *)
LEMMA WriteTable ==
  ASSUME IInv, TrailInv, SoleInv, TableInv, NEW p \in Process, AddUrls(p) \/ Upsert(p)
  PROVE  TableInv'
  <1>0. TypeInv /\ WorkStep(p) /\ InnerStep(p) /\ UNCHANGED artifacts
    BY DEF IInv, WorkStep, InnerStep, AddUrls, Upsert
  <1>1. /\ pc[p] \in {"add_urls", "upsert"} /\ InStages(p) /\ InStage(p)
        /\ job[p].stage \in {1, 2, 3}
    <2>1. pc[p] \in {"add_urls", "upsert"}
      BY DEF AddUrls, Upsert
    <2>. QED
      BY <2>1 DEF InStages, Updating, InStage, InBody, IInv, LabelOK
  <1>2. PICK r \in Run : r = RunOf(p) /\ r = RunOf(p)'
    BY <1>0, Working, BusyTypes DEF RunOf, SameJob
  <1>3. /\ view[p].mem.status = "running" /\ view[p] \in View
        /\ UNCHANGED runs /\ job'[p] = job[p]
        /\ urls[r] \in SUBSET Row /\ pages[r] \in SUBSET Row
        /\ NoTwins(urls[r]) /\ NoTwins(pages[r])
    BY <1>0, <1>1, <1>2, StageFacts, InnerFacts, BusyTypes DEF TableInv
  <1>4. runs[r].status = "running"
    BY <1>0, <1>1, <1>2, <1>3, StageFacts DEF TableInv, DraftOK
  <1>5. /\ view'[p].mem = view[p].mem
        /\ pc'[p] \in {"complete_item", "set_validators", "fail_item"}
    <2>1. CASE AddUrls(p)
      BY <1>0, <2>1, StepOf DEF AddUrls
    <2>2. CASE Upsert(p)
      <3>1. view' = view \/ view' = [view EXCEPT ![p].known = validators]
        BY <2>2 DEF Upsert
      <3>2. view'[p] = view[p] \/ view'[p] = [view[p] EXCEPT !.known = validators]
        BY <1>0, <3>1 DEF TypeInv, TypeOK
      <3>3. view'[p].mem = view[p].mem
        BY <1>3, <3>2 DEF View
      <3>. QED
        BY <1>0, <2>2, <3>3, StepOf DEF Upsert
    <2>. QED
      BY <2>1, <2>2
  <1>6. NoTwins(urls'[r]) /\ NoTwins(pages'[r])
    <2>1. CASE AddUrls(p)
      <3>1. /\ UNCHANGED pages
            /\ \/ urls' = urls
               \/ urls' = [urls EXCEPT ![r] =
                     @ \union RowsFor(SeedOf[p], Missing(view[p].batch, UrlsOf(urls[r])))]
        <4>1. view[p].known = UrlsOf(urls[r])
          BY <1>1, <1>2, <2>1, StageFacts DEF AddUrls, TableInv, FreshOK
        <4>. QED
          BY <1>2, <2>1, <4>1 DEF AddUrls
      <3>2. Missing(view[p].batch, UrlsOf(urls[r])) \intersect UrlsOf(urls[r]) = {}
        BY DEF Missing
      <3>3. NoTwins(urls[r] \union RowsFor(SeedOf[p], Missing(view[p].batch, UrlsOf(urls[r]))))
        BY <1>3, <3>2, NewRows
      <3>. QED
        BY <1>0, <1>3, <3>1, <3>3 DEF TypeInv, TypeOK
    <2>2. CASE Upsert(p)
      <3>1. /\ UNCHANGED urls
            /\ \/ pages' = pages
               \/ \E known : /\ UrlsOf(pages[r]) \subseteq known
                             /\ pages' = [pages EXCEPT ![r] =
                                   @ \union RowsFor(SeedOf[p], Missing(view[p].batch, known))]
        <4>1. view[p].known = UrlsOf(pages[r])
          BY <1>1, <1>2, <2>2, StageFacts DEF Upsert, TableInv, FreshOK
        <4>2. \/ pages' = pages
              \/ \E late \in SUBSET (UrlsOf(pages[r]) \ view[p].known) :
                    pages' = [pages EXCEPT ![r] =
                       @ \union RowsFor(SeedOf[p], Missing(view[p].batch, view[p].known \union late))]
          BY <1>2, <2>2 DEF Upsert
        <4>3. \A late : UrlsOf(pages[r]) \subseteq view[p].known \union late
          BY <4>1
        <4>4. UNCHANGED urls
          BY <2>2 DEF Upsert
        <4>. QED
          BY <4>2, <4>3, <4>4
      <3>2. ASSUME NEW known, UrlsOf(pages[r]) \subseteq known,
                   pages' = [pages EXCEPT ![r] =
                       @ \union RowsFor(SeedOf[p], Missing(view[p].batch, known))]
            PROVE  NoTwins(pages'[r])
        <4>1. Missing(view[p].batch, known) \intersect UrlsOf(pages[r]) = {}
          BY <3>2 DEF Missing
        <4>2. NoTwins(pages[r] \union RowsFor(SeedOf[p], Missing(view[p].batch, known)))
          BY <1>3, <4>1, NewRows
        <4>. QED
          BY <1>0, <3>2, <4>2 DEF TypeInv, TypeOK
      <3>. QED
        BY <1>3, <3>1, <3>2
    <2>. QED
      BY <2>1, <2>2
  <1>7. ~Scored(p)' /\ ~Generated(p)' /\ InStages(p)' /\ FreshOK(p)'
    BY <1>1, <1>3, <1>5
       DEF Scored, Generated, InStages, Updating, StageUpdate, LastStage, FreshOK
  <1>8. DraftOK(p)'
    BY <1>2, <1>3, <1>4, <1>5, <1>7 DEF DraftOK
  <1>9. WholeRow(r)'
    BY <1>3, <1>4 DEF WholeRow
  <1>. QED
    BY <1>0, <1>2, <1>6, <1>7, <1>8, <1>9, OneTable

LEMMA ScoreTable ==
  ASSUME IInv, TrailInv, SoleInv, TableInv, NEW p \in Process, Score(p)
  PROVE  TableInv'
  <1>0. /\ TypeInv /\ WorkStep(p) /\ pc[p] = "score" /\ job'[p] = job[p]
        /\ UNCHANGED <<runs, urls, pages, artifacts>>
    BY DEF IInv, WorkStep, InnerStep, Score, content
  <1>1. PICK r \in Run : r = RunOf(p) /\ r = RunOf(p)'
    BY <1>0, BusyTypes DEF RunOf
  <1>2. InStages(p) /\ InStage(p) /\ job[p].stage = 4
    BY <1>0 DEF InStages, Updating, InStage, InBody, IInv, LabelOK
  <1>3. view[p].mem.status = "running" /\ view[p] \in View
    BY <1>2, StageFacts
  <1>4. view'[p] = WithScore(view[p]) /\ pc'[p] = "update_get"
    BY <1>0, StepOf DEF Score, TypeInv, TypeOK
  <1>5. /\ view'[p].mem.score
        /\ view'[p].mem.status = "running"
    BY <1>3, <1>4 DEF WithScore, View, RunRecord
  <1>6. DraftOK(p)
    BY <1>0 DEF TableInv
  <1>7. FreshOK(p)' /\ ~Generated(p)'
    BY <1>0, <1>2, <1>4 DEF FreshOK, Generated, LastStage
  <1>8. DraftOK(p)'
    BY <1>0, <1>1, <1>2, <1>3, <1>5, <1>6, <1>7 DEF DraftOK
  <1>9. WholeRow(r)' /\ NoTwins(urls'[r]) /\ NoTwins(pages'[r])
    BY <1>0 DEF TableInv, WholeRow
  <1>. QED
    BY <1>0, <1>1, <1>7, <1>8, <1>9, OneTable

LEMMA SaveArtifactTable ==
  ASSUME IInv, TrailInv, SoleInv, TableInv, NEW p \in Process, SaveArtifact(p)
  PROVE  TableInv'
  <1>0. /\ TypeInv /\ WorkStep(p) /\ pc[p] = "save_artifact" /\ job'[p] = job[p]
        /\ UNCHANGED <<runs, urls, pages>>
    BY DEF IInv, WorkStep, InnerStep, SaveArtifact
  <1>1. PICK r \in Run : r = RunOf(p) /\ r = RunOf(p)'
    BY <1>0, BusyTypes DEF RunOf
  <1>2. InStages(p) /\ InStage(p) /\ job[p].stage = LastStage
    BY <1>0 DEF InStages, Updating, InStage, InBody, IInv, LabelOK
  <1>3. view[p].mem.status = "running" /\ view[p] \in View
    BY <1>2, StageFacts
  <1>4. DraftOK(p) /\ view[p].listing = pages[r] /\ Scored(p)
    BY <1>0, <1>1, <1>2 DEF TableInv, FreshOK, Scored, LastStage
  <1>5. view[p].mem.score /\ runs[r].status = "running"
    BY <1>1, <1>2, <1>3, <1>4 DEF DraftOK
  <1>6. WholeRow(r)' /\ NoTwins(urls'[r]) /\ NoTwins(pages'[r])
    BY <1>0, <1>5 DEF TableInv, WholeRow
  <1>7. CASE pc'[p] = "fail_item"
    <2>1. view'[p] = view[p] /\ UNCHANGED artifacts
      BY <1>0, <1>7, StepOf DEF SaveArtifact
    <2>2. FreshOK(p)' /\ ~Generated(p)'
      BY <1>7 DEF FreshOK, Generated, Updating
    <2>3. DraftOK(p)'
      BY <1>0, <1>1, <1>3, <1>5, <2>1, <2>2 DEF DraftOK
    <2>. QED
      BY <1>0, <1>1, <1>6, <2>2, <2>3, OneTable
  <1>8. CASE pc'[p] # "fail_item"
    <2>1. /\ artifacts' = [artifacts EXCEPT ![r] = Merged(@, view[p].listing)]
          /\ view' = [view EXCEPT ![p] = WithPath(@)]
          /\ Goto(p, "update_get")
      BY <1>0, <1>1, <1>8, StepOf DEF SaveArtifact
    <2>2. artifacts'[r].rows = pages'[r]
      BY <1>0, <1>4, <2>1 DEF Merged, TypeInv, TypeOK
    <2>3. view'[p] = WithPath(view[p]) /\ pc'[p] = "update_get"
      BY <1>0, <2>1, StepOf DEF TypeInv, TypeOK
    <2>4. /\ view'[p].mem.artifact_path /\ view'[p].mem.status = "running"
          /\ view'[p].mem.score = view[p].mem.score
      BY <1>3, <2>3 DEF WithPath, View, RunRecord
    <2>5. FreshOK(p)'
      BY <2>3 DEF FreshOK
    <2>6. DraftOK(p)'
      BY <1>0, <1>1, <1>5, <2>2, <2>4 DEF DraftOK
    <2>. QED
      BY <1>0, <1>1, <1>6, <2>5, <2>6, OneTable
  <1>. QED
    BY <1>7, <1>8

LEMMA WorkTable ==
  ASSUME IInv, TrailInv, SoleInv, TableInv, NEW p \in Process, WorkStep(p)
  PROVE  TableInv'
  BY OuterQuiet, LoadTable, UpdateGetTable, UpdateCommitTable, StageEventTable,
     ReadTable, WriteTable, ScoreTable, SaveArtifactTable
     DEF WorkStep, OuterStep, InnerStep

LEMMA InitTable == Init => TableInv
  BY DEF Init, TableInv, WholeRow, NoTwins, Blank

(* A process starts while the tables of the runs in progress stay.          *)
LEMMA StartTable ==
  ASSUME IInv, TableInv, NEW p \in Process, pc[p] = "idle", NEW r \in Run,
         pc'[p] \in {"create_item", "load"}, UNCHANGED <<urls, pages, artifacts, view>>,
         \A q \in Process \ {p} : Untouched(q),
         \A x \in Run : runs'[x] = runs[x] \/
            (x = r /\ runs'[x].status # "completed"
                   /\ \A q \in Process : pc[q] # "idle" => RunOf(q) # r)
  PROVE  TableInv'
  <1>1. view'[p] = NoView
    BY DEF IInv, MemoryOK
  <1>2. FreshOK(p)' /\ DraftOK(p)'
    <2>1. ~Scored(p)' /\ ~Generated(p)' /\ ~InStages(p)' /\ FreshOK(p)'
      BY DEF Scored, Generated, InStages, Updating, StageUpdate, FreshOK
    <2>2. view'[p].mem.status = "absent"
      BY <1>1 DEF NoView, Blank
    <2>. QED
      BY <2>1, <2>2 DEF DraftOK
  <1>3. ASSUME NEW q \in Process \ {p}, pc'[q] # "idle"
        PROVE  FreshOK(q)' /\ DraftOK(q)'
    <2>1. pc'[q] = pc[q] /\ job'[q] = job[q] /\ view'[q] = view[q] /\ RunOf(q)' = RunOf(q)
      BY DEF Untouched, RunOf
    <2>2. RunOf(q) \in Run /\ FreshOK(q) /\ DraftOK(q)
      BY <1>3, <2>1, BusyTypes DEF IInv, TableInv
    <2>3. runs'[RunOf(q)] = runs[RunOf(q)]
      BY <1>3, <2>1, <2>2
    <2>4. FreshOK(q)'
      BY <2>1, <2>2, <2>3 DEF FreshOK, UrlsOf
    <2>5. DraftOK(q)'
      BY <2>1, <2>2, <2>3
         DEF DraftOK, Scored, Generated, InStages, Updating, StageUpdate
    <2>. QED
      BY <2>4, <2>5
  <1>4. \A x \in Run : WholeRow(x)' /\ NoTwins(urls'[x]) /\ NoTwins(pages'[x])
    BY DEF TableInv, WholeRow
  <1>. QED
    BY <1>2, <1>3, <1>4 DEF TableInv

LEMMA TableStep ==
  IInv /\ TrailInv /\ SoleInv /\ TableInv /\ BrokerAlone' /\ [Next]_vars => TableInv'
  <1>. SUFFICES ASSUME IInv, TrailInv, SoleInv, TableInv, BrokerAlone', [Next]_vars
                PROVE  TableInv'
    OBVIOUS
  <1>0. TypeInv
    BY DEF IInv
  <1>1. ASSUME NEW P \in SUBSET Process, Reset(P), UNCHANGED Tables
        PROVE  TableInv'
    <2>1. UNCHANGED <<runs, urls, pages, artifacts>>
      BY <1>1 DEF Tables
    <2>2. ASSUME NEW q \in Process, pc'[q] # "idle"
          PROVE  FreshOK(q)' /\ DraftOK(q)'
      <3>1. pc'[q] = pc[q] /\ job'[q] = job[q] /\ view'[q] = view[q] /\ RunOf(q)' = RunOf(q)
        BY <1>1, <2>2 DEF Reset, RunOf
      <3>2. FreshOK(q) /\ DraftOK(q)
        BY <2>2, <3>1 DEF TableInv
      <3>3. FreshOK(q)'
        BY <2>1, <3>1, <3>2 DEF FreshOK, UrlsOf
      <3>4. DraftOK(q)'
        BY <2>1, <3>1, <3>2
           DEF DraftOK, Scored, Generated, InStages, Updating, StageUpdate
      <3>. QED
        BY <3>3, <3>4
    <2>3. \A x \in Run : WholeRow(x)' /\ NoTwins(urls'[x]) /\ NoTwins(pages'[x])
      BY <2>1 DEF TableInv, WholeRow
    <2>. QED
      BY <2>2, <2>3 DEF TableInv
  <1>2. ASSUME NEW p \in Process, NEW r \in Run, NEW b \in BOOLEAN, Begin(p, r, b),
               UNCHANGED Tables, UNCHANGED view
        PROVE  TableInv'
    <2>1. /\ pc[p] = "idle" /\ pc'[p] = "load" /\ UNCHANGED <<runs, urls, pages, artifacts>>
          /\ \A q \in Process \ {p} : Untouched(q)
      BY <1>0, <1>2, StepOf DEF Begin, Tables, Untouched
    <2>. QED
      BY <1>2, <2>1, StartTable
  <1>3. ASSUME NEW a \in ApiThread, NEW r \in Run, CreateRun(a, r)
        PROVE  TableInv'
    <2>1. /\ a \in Process /\ pc[a] = "idle" /\ pc'[a] = "create_item"
          /\ \A q \in Process \ {a} : Untouched(q)
          /\ UNCHANGED <<urls, pages, artifacts, view>>
      <3>1. /\ a \in Process /\ pc[a] = "idle" /\ Goto(a, "create_item")
            /\ job' = [job EXCEPT ![a].run = r] /\ UNCHANGED <<urls, pages, artifacts, view>>
        BY <1>3 DEF CreateRun, Process, content
      <3>. QED
        BY <1>0, <3>1, StepOf DEF TypeInv, TypeOK, Untouched
    <2>2. /\ runs'[r].status = "queued" /\ \A x \in Run \ {r} : runs'[x] = runs[x]
          /\ runs[r].status = "absent"
      BY <1>0, <1>3 DEF CreateRun, TypeInv, TypeOK, Blank
    <2>3. \A q \in Process : pc[q] # "idle" => RunOf(q) # r
      BY <2>2 DEF SoleInv
    <2>. QED
      BY <2>1, <2>2, <2>3, StartTable
  <1>4. ASSUME NEW w \in Worker PROVE ~VisibilityTimeout(w)
    BY <1>0, AloneBefore
  <1>5. CASE UNCHANGED vars
    <2>1. UNCHANGED Tables /\ Reset({})
      BY <1>0, <1>5 DEF vars, Tables, Reset, TypeInv, TypeOK
    <2>. QED
      BY <1>1, <2>1
  <1>. QED
    BY <1>1, <1>2, <1>3, <1>4, <1>5, Moves, WorkTable

LEMMA TableAlways == Spec => [](BrokerAlone => SoleInv /\ TableInv)
  <1>1. /\ IInv /\ TrailInv /\ (BrokerAlone => SoleInv) /\ (BrokerAlone => TableInv)
        /\ [Next]_vars
        => (BrokerAlone => TableInv)'
    BY TableStep, AloneBefore DEF IInv
  <1>. QED
    BY <1>1, InitTable, SoleAlways, TrailAlways, PTL DEF Spec

(* A completed run carries its score, its artifact path and its completion  *)
(* time: with one execution at a time no commit works from a row that has   *)
(* changed since it was read, so it leaves what process_run had in memory,  *)
(* whatever crashes, failures and database errors came before.              *)
THEOREM CompletedRunsAreWhole == Spec => [](BrokerAlone => CompletedRecordWhole)
  <1>1. TableInv => CompletedRecordWhole
    BY DEF TableInv, WholeRow, CompletedRecordWhole
  <1>. QED
    BY <1>1, TableAlways, PTL

(* A completed run's llms.txt lists every page the run has: nobody adds a   *)
(* page between generate_llms_txt's read and the completion, nor after it.  *)
THEOREM ListingsAreComplete == Spec => [](BrokerAlone => ArtifactListsPages)
  <1>1. TableInv => ArtifactListsPages
    BY DEF TableInv, WholeRow, ArtifactListsPages
  <1>. QED
    BY <1>1, TableAlways, PTL

(* A url has one row per table, although the primary key would let two      *)
(* interpreters store it twice: an execution inserts what it did not find,  *)
(* and nobody else inserts in between.                                      *)
THEOREM RowsAreUnique == Spec => [](BrokerAlone => OneRowPerUrl)
  <1>1. TableInv => OneRowPerUrl
    BY DEF TableInv, NoTwins, OneRowPerUrl
  <1>. QED
    BY <1>1, TableAlways, PTL
=============================================================================
