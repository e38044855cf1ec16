---------------------------- MODULE WatcherProofs ----------------------------
(***************************************************************************)
(* The two that watch the pipeline.  The UI asks about a run in several     *)
(* requests: what it was told stays true of the run because nothing that    *)
(* makes a run complete is ever taken back.  The instruments are called by  *)
(* the pipeline after its transactions: they agree with the tables as far   *)
(* as nobody dies in between.  Neither does anything to the pipeline, so    *)
(* what is proved of it holds beside them.                                  *)
(***************************************************************************)
EXTENDS DashboardProperties, MetricsProperties, CrawlPipelineProofs

-----------------------------------------------------------------------------
(* The pipeline goes on as if nobody watched.                               *)

LEMMA InitWatched == DashboardInit => Init
  BY DEF DashboardInit

LEMMA StepWatched ==
  ASSUME [DashboardNext]_allVars
  PROVE  [Next]_vars
  <1>1. ASSUME NEW a \in ApiThread, Submitted(a) PROVE Next
    BY <1>1 DEF Submitted, Next, Advance, Process
  <1>2. CASE PipelineStep \/ RequestFails
    BY <1>2 DEF PipelineStep, RequestFails, Next
  <1>3. ASSUME NEW r \in Run, Choose(r) PROVE UNCHANGED vars
    BY <1>3 DEF Choose
  <1>4. CASE PanelStep \/ UNCHANGED allVars
    BY <1>4 DEF PanelStep, Refresh, GetRun, GetItems, GetLlms, GetEvents, allVars
  <1>. QED
    BY <1>1, <1>2, <1>3, <1>4 DEF DashboardNext

LEMMA WatchedAlways == DashboardSpec => [](IInv /\ TrailInv)
  <1>1. Init => IInv /\ TrailInv
    BY InitIInv, InitTrail
  <1>2. IInv /\ TrailInv /\ [DashboardNext]_allVars => (IInv /\ TrailInv)'
    BY StepWatched, IInvStep, TrailStep
  <1>. QED
    BY <1>1, <1>2, InitWatched, PTL DEF DashboardSpec

-----------------------------------------------------------------------------
(* What a step does to the trail.                                           *)

ItemWrite(k, v) == v # "absent" /\ items' = [items EXCEPT ![k] = v]
AtItem == {"new_item", "start_item", "complete_item", "fail_item"}

LEMMA ItemMoves ==
  ASSUME [Next]_vars
  PROVE  \/ UNCHANGED items
         \/ \E p \in Process : pc[p] = "create_item" /\ ItemWrite(<<RunOf(p), 0, 1>>, "queued")
         \/ \E p \in Process : \E v : pc[p] \in AtItem /\ ItemWrite(Key(p), v)
  <1>1. ASSUME NEW p \in Process, WorkStep(p)
        PROVE  \/ UNCHANGED items
               \/ pc[p] = "create_item" /\ ItemWrite(<<RunOf(p), 0, 1>>, "queued")
               \/ \E v : pc[p] \in AtItem /\ ItemWrite(Key(p), v)
    <2>1. CASE CreateQueuedItem(p)
      BY <2>1 DEF CreateQueuedItem, ItemWrite
    <2>2. CASE NewItem(p)
      <3>1. pc[p] \in AtItem /\ ItemWrite(Key(p), "queued")
        BY <2>2 DEF NewItem, ItemWrite, AtItem
      <3>. QED
        BY <3>1
    <2>3. CASE StartItem(p)
      <3>1. pc[p] \in AtItem /\ ItemWrite(Key(p), "processing")
        BY <2>3 DEF StartItem, ItemWrite, AtItem
      <3>. QED
        BY <3>1
    <2>4. CASE CompleteItem(p)
      <3>1. pc[p] \in AtItem /\ ItemWrite(Key(p), "completed")
        BY <2>4 DEF CompleteItem, ItemWrite, AtItem
      <3>. QED
        BY <3>1
    <2>5. CASE FailItem(p)
      <3>1. UNCHANGED items \/ (pc[p] \in AtItem /\ ItemWrite(Key(p), "failed"))
        BY <2>5 DEF FailItem, ItemWrite, AtItem
      <3>. QED
        BY <3>1
    <2>6. CASE Load(p) \/ UpdateGet(p) \/ UpdateCommit(p) \/ StageEvent(p) \/ RunEvent(p)
      BY <2>6 DEF Load, UpdateGet, UpdateCommit, StageEvent, RunEvent, trail
    <2>7. CASE InnerStep(p) \/ ErrorStep(p)
      BY <2>7 DEF InnerStep, ErrorStep, DbError, Discover, AddUrls, Extract, Upsert,
                  SetValidator, Canonicalize, Score, Generate, SaveArtifact, trail
    <2>. QED
      BY <1>1, <2>1, <2>2, <2>3, <2>4, <2>5, <2>6, <2>7 DEF WorkStep, OuterStep
  <1>2. ASSUME NEW a \in ApiThread, NEW r \in Run, CreateRun(a, r) PROVE UNCHANGED items
    BY <1>2 DEF CreateRun, trail
  <1>3. ASSUME NEW w \in Worker, VisibilityTimeout(w) PROVE UNCHANGED items
    BY <1>3 DEF VisibilityTimeout, trail
  <1>4. UNCHANGED Tables \/ UNCHANGED vars => UNCHANGED items
    BY DEF Tables, vars
  <1>. QED
    BY <1>1, <1>2, <1>3, <1>4, Moves

LEMMA EventMoves ==
  ASSUME [Next]_vars
  PROVE  \/ UNCHANGED events
         \/ \E p \in Process : \E v : pc[p] = "stage_event" /\ events' = [events EXCEPT ![Key(p)] = v]
         \/ \E r, e, v : events' = [events EXCEPT ![<<r, e, 0>>] = v]
  <1>1. ASSUME NEW p \in Process, WorkStep(p)
        PROVE  \/ UNCHANGED events
               \/ \E v : pc[p] = "stage_event" /\ events' = [events EXCEPT ![Key(p)] = v]
               \/ \E r, e, v : events' = [events EXCEPT ![<<r, e, 0>>] = v]
    <2>1. CASE StageEvent(p)
      BY <2>1 DEF StageEvent
    <2>2. CASE RunEvent(p)
      BY <2>2 DEF RunEvent
    <2>3. CASE \/ CreateQueuedItem(p) \/ Load(p) \/ UpdateGet(p) \/ UpdateCommit(p) \/ NewItem(p)
               \/ StartItem(p) \/ CompleteItem(p) \/ FailItem(p)
      BY <2>3 DEF CreateQueuedItem, Load, UpdateGet, UpdateCommit, NewItem, StartItem,
                  CompleteItem, FailItem, trail
    <2>4. CASE InnerStep(p) \/ ErrorStep(p)
      BY <2>4 DEF InnerStep, ErrorStep, DbError, Discover, AddUrls, Extract, Upsert,
                  SetValidator, Canonicalize, Score, Generate, SaveArtifact, trail
    <2>. QED
      BY <1>1, <2>1, <2>2, <2>3, <2>4 DEF WorkStep, OuterStep
  <1>2. ASSUME NEW a \in ApiThread, NEW r \in Run, CreateRun(a, r) PROVE UNCHANGED events
    BY <1>2 DEF CreateRun, trail
  <1>3. ASSUME NEW w \in Worker, VisibilityTimeout(w) PROVE UNCHANGED events
    BY <1>3 DEF VisibilityTimeout, trail
  <1>4. UNCHANGED Tables \/ UNCHANGED vars => UNCHANGED events
    BY DEF Tables, vars
  <1>. QED
    BY <1>1, <1>2, <1>3, <1>4, Moves

(* An item does not go away, and appears alone.                             *)
LEMMA ItemsStay ==
  ASSUME TypeInv, [Next]_vars, NEW r \in Run, NEW e \in Execution, NEW s \in Stage,
         items[<<r, e, s>>] # "absent"
  PROVE  items'[<<r, e, s>>] # "absent"
  <1>1. items \in [Run \X Execution \X Stage -> ItemState] /\ <<r, e, s>> \in Run \X Execution \X Stage
    BY DEF TypeInv, TypeOK
  <1>2. ASSUME NEW k, NEW v, ItemWrite(k, v) PROVE items'[<<r, e, s>>] # "absent"
    BY <1>1, <1>2 DEF ItemWrite
  <1>. QED
    BY <1>2, ItemMoves

LEMMA OneAppears ==
  ASSUME TypeInv, [Next]_vars, NEW r \in Run, NEW s \in Stage,
         NEW e \in Appearing(r, s), NEW f \in Appearing(r, s)
  PROVE  e = f
  <1>1. /\ e \in Execution /\ f \in Execution
        /\ items[<<r, e, s>>] # items'[<<r, e, s>>] /\ items[<<r, f, s>>] # items'[<<r, f, s>>]
    BY DEF Appearing
  <1>2. items \in [Run \X Execution \X Stage -> ItemState]
    BY DEF TypeInv, TypeOK
  <1>3. ASSUME NEW k, NEW v, ItemWrite(k, v) PROVE <<r, e, s>> = k /\ <<r, f, s>> = k
    BY <1>1, <1>2, <1>3 DEF ItemWrite
  <1>4. ASSUME NEW k, <<r, e, s>> = k /\ <<r, f, s>> = k PROVE e = f
    BY <1>4
  <1>. QED
    BY <1>1, <1>3, <1>4, ItemMoves

(* A stage that succeeded is never touched again: only its execution writes *)
(* it, and that one has left it behind.                                     *)
LEMMA SuccessStays ==
  ASSUME IInv, TrailInv, [Next]_vars,
         NEW r \in Run, NEW e \in Execution \ {0}, NEW s \in Stage, Success(r, e, s)
  PROVE  Success(r, e, s)'
  <1>0. /\ TypeInv
        /\ items \in [Run \X Execution \X Stage -> ItemState]
        /\ events \in [Run \X Execution \X (0 .. LastStage) -> Outcome]
    BY DEF IInv, TypeInv, TypeOK
  <1>1. ASSUME NEW p \in Process, pc[p] \in AtItem \union {"stage_event"}
        PROVE  Key(p) # <<r, e, s>>
    <2>. SUFFICES ASSUME Key(p) = <<r, e, s>>
                  PROVE  FALSE
      OBVIOUS
    <2>1. job[p].run = r /\ job[p].exec = e /\ job[p].stage = s
      BY DEF Key
    <2>2. TrailOK(p)
      BY DEF TrailInv
    <2>3. Present(p)
      BY <2>1, <2>2 DEF TrailOK, Executes
    <2>4. Item(p, s) = "completed" /\ Event(p, s) = "success"
      BY <2>1 DEF Success, Item, Event
    <2>. QED
      BY <1>1, <2>1, <2>3, <2>4 DEF Present, AtItem, InBody, InStage
  <1>2. items'[<<r, e, s>>] = items[<<r, e, s>>]
    <2>1. ASSUME NEW k, NEW v, ItemWrite(k, v), k # <<r, e, s>>
          PROVE  items'[<<r, e, s>>] = items[<<r, e, s>>]
      BY <1>0, <2>1 DEF ItemWrite
    <2>2. ASSUME NEW p \in Process PROVE <<RunOf(p), 0, 1>> # <<r, e, s>>
      OBVIOUS
    <2>. QED
      BY <1>1, <2>1, <2>2, ItemMoves
  <1>3. events'[<<r, e, s>>] = events[<<r, e, s>>]
    <2>1. ASSUME NEW k, NEW v, events' = [events EXCEPT ![k] = v], k # <<r, e, s>>
          PROVE  events'[<<r, e, s>>] = events[<<r, e, s>>]
      BY <1>0, <2>1 DEF Stage
    <2>2. ASSUME NEW q, NEW f PROVE <<q, f, 0>> # <<r, e, s>>
      BY DEF Stage
    <2>. QED
      BY <1>1, <2>1, <2>2, EventMoves
  <1>. QED
    BY <1>2, <1>3 DEF Success

LEMMA WholeStays ==
  ASSUME IInv, TrailInv, [Next]_vars, NEW r \in Run, Whole(r)
  PROVE  Whole(r)'
  <1>1. PICK e \in Execution \ {0} : \A s \in Stage : Success(r, e, s)
    BY DEF Whole
  <1>2. \A s \in Stage : Success(r, e, s)'
    BY <1>1, SuccessStays
  <1>. QED
    BY <1>2 DEF Whole

(* An artifact does not go away.                                            *)
LEMMA SavedStays ==
  ASSUME TypeInv, [Next]_vars, NEW r \in Run, artifacts[r].saved
  PROVE  artifacts'[r].saved
  <1>1. ASSUME NEW p \in Process, WorkStep(p) PROVE artifacts'[r].saved
    <2>1. CASE SaveArtifact(p)
      <3>1. \/ UNCHANGED artifacts
            \/ \E x, l : artifacts' = [artifacts EXCEPT ![x] = Merged(@, l)]
        BY <2>1 DEF SaveArtifact
      <3>2. ASSUME NEW x, NEW l, artifacts' = [artifacts EXCEPT ![x] = Merged(@, l)]
            PROVE  artifacts'[r].saved
        <4>1. DOMAIN artifacts = Run
          BY DEF TypeInv, TypeOK
        <4>2. artifacts'[r] = artifacts[r] \/ artifacts'[r] = Merged(artifacts[x], l)
          BY <3>2, <4>1
        <4>. QED
          BY <4>2 DEF Merged
      <3>. QED
        BY <3>1, <3>2
    <2>2. CASE ~SaveArtifact(p)
      <3>1. UNCHANGED artifacts
        BY <1>1, <2>2 DEF WorkStep, OuterStep, InnerStep, ErrorStep, DbError, CreateQueuedItem,
                  Load, UpdateGet, UpdateCommit, NewItem, StartItem, CompleteItem, FailItem,
                  StageEvent, RunEvent, Discover, AddUrls, Extract, Upsert, SetValidator,
                  Canonicalize, Score, Generate, content
      <3>. QED
        BY <3>1
    <2>. QED
      BY <2>1, <2>2
  <1>2. ASSUME NEW a \in ApiThread, NEW x \in Run, CreateRun(a, x) PROVE UNCHANGED artifacts
    BY <1>2 DEF CreateRun, content
  <1>3. ASSUME NEW w \in Worker, VisibilityTimeout(w) PROVE UNCHANGED artifacts
    BY <1>3 DEF VisibilityTimeout, content
  <1>4. UNCHANGED Tables \/ UNCHANGED vars => UNCHANGED artifacts
    BY DEF Tables, vars
  <1>. QED
    BY <1>1, <1>2, <1>3, <1>4, Moves


-----------------------------------------------------------------------------
(* The panel.                                                               *)

(* The rows a request for the items gets are all there are.                 *)
Listed(r, s, e) == \E i \in DOMAIN born[<<r, s>>] : born[<<r, s>>][i] = e
BornInv ==
  /\ born \in [Run \X Stage -> Seq(Execution)]
  /\ \A r \in Run, s \in Stage, e \in Execution :
       items[<<r, e, s>>] # "absent" => Listed(r, s, e)

(* What the requests so far have brought of a run whose status, read first, *)
(* was completed.                                                           *)
HasFields == panel = [pc |-> panel.pc, run |-> panel.run, status |-> panel.status,
                      begun |-> panel.begun, bar |-> panel.bar, timeline |-> panel.timeline,
                      llms |-> panel.llms, told |-> panel.told]
PanelInv ==
  /\ HasFields
  /\ panel.pc \in Request /\ panel.run \in Run \union {None}
  /\ panel.pc # "idle" => panel.run \in Run
  /\ panel.status = "completed" =>
       /\ panel.run \in Run /\ panel.pc # "run"
       /\ Whole(panel.run) /\ artifacts[panel.run].saved
       /\ panel.pc \in {"llms", "events", "idle"} => \A s \in Stage : panel.bar[s] # "pending"
       /\ panel.pc \in {"events", "idle"} => panel.llms
       /\ panel.pc = "idle" => panel.told = Stage

LEMMA DatedStep ==
  ASSUME TypeInv, [Next]_vars, Dated, BornInv
  PROVE  /\ BornInv'
         /\ \A r \in Run, s \in Stage :
              \/ Appearing(r, s) = {} /\ born'[<<r, s>>] = born[<<r, s>>]
              \/ \E e \in Execution : /\ Appearing(r, s) = {e}
                                      /\ born'[<<r, s>>] = Append(born[<<r, s>>], e)
  <1>1. ASSUME NEW r \in Run, NEW s \in Stage
        PROVE  born'[<<r, s>>] = Extended(born[<<r, s>>], Appearing(r, s))
    BY DEF Dated
  <1>2. ASSUME NEW r \in Run, NEW s \in Stage
        PROVE  \/ Appearing(r, s) = {} /\ born'[<<r, s>>] = born[<<r, s>>]
               \/ \E e \in Execution : /\ Appearing(r, s) = {e}
                                       /\ born'[<<r, s>>] = Append(born[<<r, s>>], e)
    <2>1. CASE Appearing(r, s) = {}
      BY <1>1, <2>1 DEF Extended
    <2>2. CASE Appearing(r, s) # {}
      <3>1. PICK e \in Appearing(r, s) : e = CHOOSE x \in Appearing(r, s) : TRUE
        BY <2>2
      <3>2. e \in Execution
        BY DEF Appearing
      <3>3. Appearing(r, s) = {e}
        BY OneAppears
      <3>4. born'[<<r, s>>] = Append(born[<<r, s>>], e)
        BY <1>1, <2>2, <3>1 DEF Extended
      <3>. QED
        BY <3>2, <3>3, <3>4
    <2>. QED
      BY <2>1, <2>2
  <1>3. ASSUME NEW r \in Run, NEW s \in Stage PROVE born[<<r, s>>] \in Seq(Execution)
    BY DEF BornInv
  <1>4. born' \in [Run \X Stage -> Seq(Execution)]
    <2>1. ASSUME NEW r \in Run, NEW s \in Stage PROVE born'[<<r, s>>] \in Seq(Execution)
      <3>1. born[<<r, s>>] \in Seq(Execution)
        BY <1>3
      <3>2. CASE born'[<<r, s>>] = born[<<r, s>>]
        BY <3>1, <3>2
      <3>3. ASSUME NEW e \in Execution, born'[<<r, s>>] = Append(born[<<r, s>>], e)
            PROVE  born'[<<r, s>>] \in Seq(Execution)
        BY <3>1, <3>3
      <3>. QED
        BY <1>2, <3>2, <3>3
    <2>2. DOMAIN born' = Run \X Stage /\ born' = [k \in Run \X Stage |-> born'[k]]
      BY DEF Dated
    <2>3. ASSUME NEW k \in Run \X Stage PROVE born'[k] \in Seq(Execution)
      <3>1. PICK r \in Run, s \in Stage : k = <<r, s>>
        OBVIOUS
      <3>. QED
        BY <2>1, <3>1
    <2>. QED
      BY <2>2, <2>3
  <1>5. ASSUME NEW r \in Run, NEW s \in Stage, NEW e \in Execution, items'[<<r, e, s>>] # "absent"
        PROVE  Listed(r, s, e)'
    <2>1. CASE e \in Appearing(r, s)
      <3>1. born'[<<r, s>>] = Append(born[<<r, s>>], e)
        BY <1>2, <2>1
      <3>2. /\ Len(born[<<r, s>>]) + 1 \in DOMAIN born'[<<r, s>>]
            /\ born'[<<r, s>>][Len(born[<<r, s>>]) + 1] = e
        BY <1>3, <3>1
      <3>. QED
        BY <3>2 DEF Listed
    <2>2. CASE e \notin Appearing(r, s)
      <3>1. items[<<r, e, s>>] # "absent"
        BY <1>5, <2>2 DEF Appearing
      <3>2. PICK i \in DOMAIN born[<<r, s>>] : born[<<r, s>>][i] = e
        BY <3>1 DEF BornInv, Listed
      <3>3. ASSUME NEW f \in Execution, born'[<<r, s>>] = Append(born[<<r, s>>], f)
            PROVE  i \in DOMAIN born'[<<r, s>>] /\ born'[<<r, s>>][i] = e
        <4>1. born[<<r, s>>] \in Seq(Execution)
          BY <1>3
        <4>. QED
          BY <3>2, <3>3, <4>1
      <3>4. i \in DOMAIN born'[<<r, s>>] /\ born'[<<r, s>>][i] = e
        BY <1>2, <3>2, <3>3
      <3>. QED
        BY <3>4 DEF Listed
    <2>. QED
      BY <2>1, <2>2
  <1>. QED
    BY <1>2, <1>4, <1>5 DEF BornInv

LEMMA InitBorn == DashboardInit => BornInv
  <1>. SUFFICES ASSUME DashboardInit
                PROVE  BornInv
    OBVIOUS
  <1>1. born = [k \in Run \X Stage |-> <<>>] /\ <<>> \in Seq(Execution)
    BY DEF DashboardInit
  <1>2. \A r \in Run, s \in Stage, e \in Execution : items[<<r, e, s>>] = "absent"
    BY DEF DashboardInit, Init
  <1>. QED
    BY <1>1, <1>2 DEF BornInv

LEMMA BornStep ==
  ASSUME TypeInv, BornInv, [DashboardNext]_allVars
  PROVE  BornInv'
  <1>1. [Next]_vars
    BY StepWatched
  <1>2. Dated => BornInv'
    BY <1>1, DatedStep
  <1>3. UNCHANGED <<vars, born>> => BornInv'
    BY DEF BornInv, Listed, vars
  <1>4. Dated \/ UNCHANGED <<vars, born>>
    BY DEF DashboardNext, PipelineStep, Submitted, RequestFails, Choose, PanelStep, Refresh,
           GetRun, GetItems, GetLlms, GetEvents, allVars
  <1>. QED
    BY <1>2, <1>3, <1>4

(* A panel that is opened again says nothing.                               *)
OpenedAt(r, l) == [pc |-> l, run |-> r, status |-> "absent", begun |-> 0,
                   bar |-> [s \in Stage |-> "pending"], timeline |-> [s \in Stage |-> "absent"],
                   llms |-> FALSE, told |-> {}]

LEMMA OpenedPanel ==
  ASSUME NEW r \in Run \union {None}, NEW l \in Request, l # "idle" => r \in Run,
         panel' = OpenedAt(r, l)
  PROVE  PanelInv'
  <1>1. panel' = [pc |-> l, run |-> r, status |-> "absent", begun |-> 0,
                  bar |-> [s \in Stage |-> "pending"], timeline |-> [s \in Stage |-> "absent"],
                  llms |-> FALSE, told |-> {}]
    BY DEF Opened, OpenedAt
  <1>2. HasFields'
    BY <1>1 DEF HasFields
  <1>. QED
    BY <1>1, <1>2 DEF PanelInv

LEMMA OpenedIdle ==
  ASSUME NEW r \in Run \union {None}, panel' = Opened(r)
  PROVE  PanelInv'
  <1>1. Opened(r) = OpenedAt(r, "idle")
    BY DEF Opened, OpenedAt
  <1>. QED
    BY <1>1, OpenedPanel DEF Request

(* The run changes beside the panel: what was true of it stays true.        *)
LEMMA UnseenStep ==
  ASSUME IInv, TrailInv, PanelInv, [Next]_vars, UNCHANGED panel
  PROVE  PanelInv'
  <1>1. \A r \in Run : /\ Whole(r) => Whole(r)'
                       /\ artifacts[r].saved => artifacts'[r].saved
    BY WholeStays, SavedStays DEF IInv
  <1>. QED
    BY <1>1 DEF PanelInv, HasFields

LEMMA GetRunStep ==
  ASSUME IInv, TrailInv, PanelInv, GetRun
  PROVE  PanelInv'
  <1>1. /\ panel.pc = "run" /\ panel.run \in Run
        /\ UNCHANGED vars
    BY DEF GetRun, PanelInv
  <1>2. /\ panel'.pc = "items" /\ panel'.run = panel.run
        /\ panel'.status = runs[panel.run].status
        /\ HasFields'
    BY <1>1 DEF GetRun, PanelInv, HasFields, After
  <1>3. runs[panel.run].status = "completed" => Whole(panel.run) /\ artifacts[panel.run].saved
    BY <1>1 DEF TrailInv, WholeWhenSaid, IInv, RowOK
  <1>4. Whole(panel.run)' <=> Whole(panel.run)
    BY <1>1, <1>2 DEF Whole, Success, vars
  <1>5. artifacts'[panel'.run].saved <=> artifacts[panel.run].saved
    BY <1>1, <1>2 DEF vars
  <1>. QED
    BY <1>1, <1>2, <1>3, <1>4, <1>5 DEF PanelInv, Request

LEMMA GetItemsStep ==
  ASSUME BornInv, PanelInv, GetItems
  PROVE  PanelInv'
  <1>1. /\ panel.pc = "items" /\ panel.run \in Run
        /\ UNCHANGED vars
    BY DEF GetItems, PanelInv
  <1>2. /\ panel'.pc \in {"llms", "events"} /\ panel'.run = panel.run
        /\ panel.status = "completed" => panel'.pc = "llms"
        /\ panel'.status = panel.status
        /\ panel'.bar = [s \in Stage |-> StageState(StateSet(panel.run, s))]
        /\ HasFields'
    BY <1>1 DEF GetItems, PanelInv, HasFields, After
  <1>3. ASSUME Whole(panel.run), NEW s \in Stage
        PROVE  StageState(StateSet(panel.run, s)) # "pending"
    <2>1. PICK e \in Execution : items[<<panel.run, e, s>>] = "completed"
      BY <1>3 DEF Whole, Success
    <2>2. PICK i \in DOMAIN born[<<panel.run, s>>] : born[<<panel.run, s>>][i] = e
      BY <1>1, <2>1 DEF BornInv, Listed
    <2>3. "completed" \in StateSet(panel.run, s)
      BY <2>1, <2>2 DEF StateSet, StatesOf
    <2>. QED
      BY <2>3 DEF StageState
  <1>4. Whole(panel.run)' <=> Whole(panel.run)
    BY <1>1, <1>2 DEF Whole, Success, vars
  <1>5. artifacts'[panel'.run].saved <=> artifacts[panel.run].saved
    BY <1>1, <1>2 DEF vars
  <1>. QED
    BY <1>1, <1>2, <1>3, <1>4, <1>5 DEF PanelInv, Request

LEMMA GetLlmsStep ==
  ASSUME PanelInv, GetLlms
  PROVE  PanelInv'
  <1>1. /\ panel.pc = "llms" /\ panel.run \in Run
        /\ UNCHANGED vars
    BY DEF GetLlms, PanelInv
  <1>2. /\ panel'.pc = "events" /\ panel'.run = panel.run
        /\ panel'.status = panel.status /\ panel'.bar = panel.bar
        /\ panel'.llms = artifacts[panel.run].saved
        /\ HasFields'
    BY <1>1 DEF GetLlms, PanelInv, HasFields, After
  <1>3. Whole(panel.run)' <=> Whole(panel.run)
    BY <1>1, <1>2 DEF Whole, Success, vars
  <1>4. artifacts'[panel'.run].saved <=> artifacts[panel.run].saved
    BY <1>1, <1>2 DEF vars
  <1>. QED
    BY <1>1, <1>2, <1>3, <1>4 DEF PanelInv, Request

LEMMA GetEventsStep ==
  ASSUME PanelInv, GetEvents
  PROVE  PanelInv'
  <1>1. /\ panel.pc = "events" /\ panel.run \in Run
        /\ UNCHANGED vars
    BY DEF GetEvents, PanelInv
  <1>2. /\ panel'.pc = "idle" /\ panel'.run = panel.run
        /\ panel'.status = panel.status /\ panel'.bar = panel.bar /\ panel'.llms = panel.llms
        /\ panel'.told = ToldOf(panel.run)
        /\ HasFields'
    BY <1>1 DEF GetEvents, PanelInv, HasFields, After
  <1>3. Whole(panel.run) => ToldOf(panel.run) = Stage
    BY DEF Whole, Success, ToldOf
  <1>4. Whole(panel.run)' <=> Whole(panel.run)
    BY <1>1, <1>2 DEF Whole, Success, vars
  <1>5. artifacts'[panel'.run].saved <=> artifacts[panel.run].saved
    BY <1>1, <1>2 DEF vars
  <1>. QED
    BY <1>1, <1>2, <1>3, <1>4, <1>5 DEF PanelInv, Request

LEMMA PanelInvStep ==
  ASSUME IInv, TrailInv, BornInv, PanelInv, [DashboardNext]_allVars
  PROVE  PanelInv'
  <1>0. [Next]_vars
    BY StepWatched
  <1>1. ASSUME NEW a \in ApiThread, Submitted(a) PROVE PanelInv'
    <2>1. a \in Process /\ pc[a] # "idle" /\ panel' = Opened(RunOf(a))
      BY <1>1 DEF Submitted, Publish, Process
    <2>2. RunOf(a) \in Run
      BY <2>1, BusyTypes DEF IInv, RunOf
    <2>. QED
      BY <2>1, <2>2, OpenedIdle
  <1>2. ASSUME RequestFails PROVE PanelInv'
    <2>1. panel.run \in Run /\ panel' = Opened(panel.run)
      BY <1>2 DEF RequestFails, PanelInv
    <2>. QED
      BY <2>1, OpenedIdle
  <1>3. ASSUME NEW r \in Run, Choose(r) PROVE PanelInv'
    BY <1>3, OpenedIdle DEF Choose
  <1>4. ASSUME Refresh PROVE PanelInv'
    <2>1. panel.run \in Run /\ panel' = [Opened(panel.run) EXCEPT !.pc = After("idle", "absent")]
      BY <1>4 DEF Refresh, PanelInv
    <2>2. After("idle", "absent") = "run"
      BY DEF After
    <2>3. panel' = OpenedAt(panel.run, "run")
      BY <2>1, <2>2 DEF Opened, OpenedAt
    <2>. QED
      BY <2>1, <2>3, OpenedPanel DEF Request
  <1>5. CASE PipelineStep \/ UNCHANGED allVars
    <2>1. UNCHANGED panel
      BY <1>5 DEF PipelineStep, allVars
    <2>. QED
      BY <1>0, <2>1, UnseenStep
  <1>. QED
    BY <1>1, <1>2, <1>3, <1>4, <1>5, GetRunStep, GetItemsStep, GetLlmsStep, GetEventsStep
       DEF DashboardNext, PanelStep

LEMMA InitPanel == DashboardInit => PanelInv
  <1>. SUFFICES ASSUME DashboardInit
                PROVE  PanelInv
    OBVIOUS
  <1>1. panel = [pc |-> "idle", run |-> None, status |-> "absent", begun |-> 0,
                 bar |-> [s \in Stage |-> "pending"], timeline |-> [s \in Stage |-> "absent"],
                 llms |-> FALSE, told |-> {}]
    BY DEF DashboardInit, Opened
  <1>2. HasFields
    BY <1>1 DEF HasFields
  <1>. QED
    BY <1>1, <1>2 DEF PanelInv, Request

LEMMA PanelAlways == DashboardSpec => [](BornInv /\ PanelInv)
  <1>1. IInv /\ TrailInv /\ BornInv /\ PanelInv /\ [DashboardNext]_allVars
        => (BornInv /\ PanelInv)'
    BY BornStep, PanelInvStep DEF IInv
  <1>. QED
    BY <1>1, InitBorn, InitPanel, WatchedAlways, PTL DEF DashboardSpec

(* A run the panel calls completed comes with its llms.txt, has no pending  *)
(* stage, and its events tell of the success of all five, whatever happens  *)
(* to the run between the four requests: the status is read first, and what *)
(* it stands for is never taken back.                                       *)
THEOREM CompletedIsShownWhole == DashboardSpec => []CompletedPanelIsWhole
  <1>1. PanelInv => CompletedPanelIsWhole
    BY DEF PanelInv, CompletedPanelIsWhole, Shows
  <1>. QED
    BY <1>1, PanelAlways, PTL


-----------------------------------------------------------------------------
(* The executions of a run come one after the other.                        *)

(* As long as the broker alone hands runs out, the execution at work is the *)
(* last one, and a completed run was completed by the last one that did     *)
(* anything.                                                                *)
Latest == \A p \in Process : Executes(p) => job[p].exec = execs[job[p].run]
LastOf(r, e) == /\ \A s \in Stage : Success(r, e, s)
                /\ \A f \in Execution, s \in Stage : f > e => items[<<r, f, s>>] = "absent"
Last(r) == \E e \in Execution \ {0} : LastOf(r, e)
LastInv == \A r \in Run : runs[r].status = "completed" => Last(r)

LEMMA ExecMoves ==
  ASSUME [Next]_vars
  PROVE  \/ UNCHANGED execs
         \/ \E w \in Worker, r \in Run : Deliver(w, r)
         \/ \E a \in ApiThread, r \in Run : ProcessRequest(a, r)
  <1>1. ASSUME NEW p \in Process, Advance(p) PROVE UNCHANGED execs
    <2>1. CASE \/ CreateQueuedItem(p) \/ Publish(p) \/ Load(p) \/ UpdateGet(p) \/ UpdateCommit(p)
               \/ NewItem(p) \/ StartItem(p) \/ CompleteItem(p) \/ FailItem(p) \/ StageEvent(p)
               \/ RunEvent(p) \/ Finish(p)
      BY <2>1 DEF broker, CreateQueuedItem, Publish, Load, UpdateGet, UpdateCommit, NewItem,
                  StartItem, CompleteItem, FailItem, StageEvent, RunEvent, Finish
    <2>2. CASE InnerStep(p)
      BY <2>2 DEF broker, InnerStep, Discover, AddUrls, Extract, Upsert, SetValidator,
                  Canonicalize, Score, Generate, SaveArtifact
    <2>. QED
      BY <1>1, <2>1, <2>2 DEF Advance, InnerStep
  <1>2. ASSUME NEW p \in Process, DbError(p) PROVE UNCHANGED execs
    BY <1>2 DEF DbError
  <1>3. ASSUME NEW w \in Worker, Crash(w) \/ VisibilityTimeout(w) PROVE UNCHANGED execs
    BY <1>3 DEF Crash, VisibilityTimeout
  <1>4. ASSUME NEW a \in ApiThread, NEW r \in Run, CreateRun(a, r) PROVE UNCHANGED execs
    BY <1>4 DEF CreateRun, broker
  <1>5. ASSUME NEW a \in ApiThread, PublishFails(a) PROVE UNCHANGED execs
    BY <1>5 DEF PublishFails
  <1>6. ApiCrash \/ UNCHANGED vars => UNCHANGED execs
    BY DEF ApiCrash, vars
  <1>. QED
    BY <1>1, <1>2, <1>3, <1>4, <1>5, <1>6 DEF Next

LEMMA BeginCounts ==
  ASSUME TypeInv, NEW p \in Process, NEW r \in Run, NEW b \in BOOLEAN, Begin(p, r, b)
  PROVE  /\ execs'[r] = execs[r] + 1 /\ \A x \in Run \ {r} : execs'[x] = execs[x]
         /\ job'[p].run = r /\ job'[p].exec = execs'[r] /\ pc'[p] = "load"
         /\ \A q \in Process \ {p} : job'[q] = job[q] /\ pc'[q] = pc[q]
  <1>1. execs'[r] = execs[r] + 1 /\ \A x \in Run \ {r} : execs'[x] = execs[x]
    BY DEF Begin, TypeInv, TypeOK
  <1>2. job' = [job EXCEPT ![p] = [NoJob EXCEPT !.run = r, !.exec = execs[r] + 1, !.unacked = b]]
    BY DEF Begin
  <1>3. job'[p] = [NoJob EXCEPT !.run = r, !.exec = execs[r] + 1, !.unacked = b]
    BY <1>2 DEF TypeInv, TypeOK
  <1>4. job'[p].run = r /\ job'[p].exec = execs'[r]
    BY <1>1, <1>3 DEF NoJob
  <1>5. pc'[p] = "load" /\ \A q \in Process \ {p} : pc'[q] = pc[q]
    BY StepOf DEF Begin
  <1>. QED
    BY <1>1, <1>2, <1>4, <1>5 DEF TypeInv, TypeOK

LEMMA ExecsGrow ==
  ASSUME TypeInv, [Next]_vars, NEW r \in Run
  PROVE  /\ execs[r] \in Nat /\ execs'[r] \in Nat /\ execs[r] <= execs'[r]
  <1>1. execs[r] \in Nat
    BY BoundAssumption DEF TypeInv, TypeOK, Execution
  <1>2. ASSUME NEW p \in Process, NEW x \in Run, NEW b \in BOOLEAN, Begin(p, x, b)
        PROVE  execs'[r] \in Nat /\ execs[r] <= execs'[r]
    BY <1>1, <1>2, BeginCounts
  <1>3. ASSUME NEW w \in Worker, NEW x \in Run, Deliver(w, x)
        PROVE  execs'[r] \in Nat /\ execs[r] <= execs'[r]
    BY <1>2, <1>3 DEF Deliver, Process
  <1>4. ASSUME NEW a \in ApiThread, NEW x \in Run, ProcessRequest(a, x)
        PROVE  execs'[r] \in Nat /\ execs[r] <= execs'[r]
    BY <1>2, <1>4 DEF ProcessRequest, Process
  <1>. QED
    BY <1>1, <1>3, <1>4, ExecMoves

(* Between two starts no process changes its run or its execution.          *)
LEMMA JobsStay ==
  ASSUME TypeInv, [Next]_vars, UNCHANGED execs, NEW q \in Process, NumberOK(q)
  PROVE  \/ job'[q].exec = 0
         \/ job'[q].run = job[q].run /\ job'[q].exec = job[q].exec
  <1>1. ASSUME NEW p \in Process, WorkStep(p)
        PROVE  job'[q].run = job[q].run /\ job'[q].exec = job[q].exec
    BY <1>1, Working DEF SameJob, Untouched
  <1>2. ASSUME NEW P \in SUBSET Process, Reset(P)
        PROVE  job'[q].exec = 0 \/ job'[q] = job[q]
    BY <1>2 DEF Reset, NoJob
  <1>3. ASSUME NEW p \in Process, NEW r \in Run, NEW b \in BOOLEAN, Begin(p, r, b)
        PROVE  FALSE
    <2>1. execs[r] \in Nat
      BY BoundAssumption DEF TypeInv, TypeOK, Execution
    <2>. QED
      BY <1>3, <2>1, BeginCounts
  <1>4. ASSUME NEW a \in ApiThread, NEW r \in Run, CreateRun(a, r)
        PROVE  job'[q].exec = 0 \/ job'[q] = job[q]
    <2>1. /\ a \in Process /\ pc[a] = "idle" /\ job[a] \in Job
          /\ job' = [job EXCEPT ![a].run = r]
      BY <1>4 DEF CreateRun, Process, TypeInv, TypeOK
    <2>2. CASE q = a
      <3>1. job[q].exec = 0
        BY <2>1, <2>2 DEF NumberOK, NoJob
      <3>2. job'[q] = [job[q] EXCEPT !.run = r]
        BY <2>1, <2>2 DEF TypeInv, TypeOK
      <3>. QED
        BY <2>1, <2>2, <3>1, <3>2 DEF Job
    <2>3. CASE q # a
      BY <2>1, <2>3 DEF TypeInv, TypeOK
    <2>. QED
      BY <2>2, <2>3
  <1>5. ASSUME NEW w \in Worker, VisibilityTimeout(w)
        PROVE  job'[q].run = job[q].run /\ job'[q].exec = job[q].exec
    <2>1. w \in Process /\ job[q] \in Job /\ job' = [job EXCEPT ![w].unacked = FALSE]
      BY <1>5 DEF VisibilityTimeout, Process, TypeInv, TypeOK
    <2>2. job'[q] = job[q] \/ job'[q] = [job[q] EXCEPT !.unacked = FALSE]
      BY <2>1 DEF TypeInv, TypeOK
    <2>. QED
      BY <2>1, <2>2 DEF Job
  <1>6. UNCHANGED vars => job'[q] = job[q]
    BY DEF vars
  <1>. QED
    BY <1>1, <1>2, <1>3, <1>4, <1>5, <1>6, Moves

LEMMA LatestStep ==
  ASSUME IInv, TrailInv, SoleInv, Latest, BrokerAlone', [Next]_vars
  PROVE  Latest'
  <1>0. TypeInv /\ \A q \in Process : NumberOK(q)
    BY DEF IInv, TrailInv
  <1>1. CASE UNCHANGED execs
    <2>. SUFFICES ASSUME NEW q \in Process, job'[q].exec # 0
                  PROVE  job'[q].exec = execs'[job'[q].run]
      BY DEF Latest, Executes
    <2>1. job'[q].run = job[q].run /\ job'[q].exec = job[q].exec
      BY <1>0, <1>1, JobsStay
    <2>. QED
      BY <1>1, <2>1 DEF Latest, Executes
  <1>2. ASSUME NEW w \in Worker, NEW r \in Run, Deliver(w, r)
        PROVE  Latest'
    <2>0. ASSUME NEW b \in BOOLEAN, Begin(w, r, b)
          PROVE  /\ execs'[r] = execs[r] + 1 /\ \A x \in Run \ {r} : execs'[x] = execs[x]
                 /\ job'[w].run = r /\ job'[w].exec = execs'[r]
                 /\ \A q \in Process \ {w} : job'[q] = job[q] /\ pc'[q] = pc[q]
      BY <1>0, <2>0, BeginCounts DEF Process
    <2>1. /\ w \in Process /\ msgs[r] > 0
          /\ execs'[r] = execs[r] + 1 /\ \A x \in Run \ {r} : execs'[x] = execs[x]
          /\ job'[w].run = r /\ job'[w].exec = execs'[r]
          /\ \A q \in Process \ {w} : job'[q] = job[q] /\ pc'[q] = pc[q]
      BY <1>2, <2>0 DEF Deliver, Process
    <2>. SUFFICES ASSUME NEW q \in Process, job'[q].exec # 0
                  PROVE  job'[q].exec = execs'[job'[q].run]
      BY DEF Latest, Executes
    <2>2. CASE q = w
      BY <2>1, <2>2
    <2>3. CASE q # w
      <3>1. job'[q] = job[q] /\ Executes(q) /\ pc[q] # "idle"
        BY <1>0, <2>1, <2>3 DEF Executes, NumberOK
      <3>2. job[q].run \in Run /\ job[q].run # r
        BY <1>0, <2>1, <3>1, BusyTypes DEF SoleInv, RunOf
      <3>. QED
        BY <2>1, <3>1, <3>2 DEF Latest
    <2>. QED
      BY <2>2, <2>3
  <1>3. \A a \in ApiThread, r \in Run : ~ProcessRequest(a, r)
    BY <1>0, AloneBefore
  <1>. QED
    BY <1>1, <1>2, <1>3, ExecMoves

(* Who writes an item: the UI's enqueue its own, or the execution it is of. *)
LEMMA ItemWriters ==
  ASSUME IInv, TrailInv, [Next]_vars, NEW r \in Run, NEW e \in Execution, NEW s \in Stage,
         items'[<<r, e, s>>] # items[<<r, e, s>>]
  PROVE  \/ e = 0 /\ items'[<<r, e, s>>] = "queued"
         \/ \E p \in Process : /\ pc[p] \in AtItem /\ Executes(p)
                               /\ job[p].run = r /\ job[p].exec = e
  <1>0. items \in [Run \X Execution \X Stage -> ItemState]
    BY DEF IInv, TypeInv, TypeOK
  <1>1. ASSUME NEW k, NEW v, ItemWrite(k, v)
        PROVE  k = <<r, e, s>> /\ items'[<<r, e, s>>] = v
    BY <1>0, <1>1 DEF ItemWrite
  <1>2. ASSUME NEW p \in Process, ItemWrite(<<RunOf(p), 0, 1>>, "queued")
        PROVE  e = 0 /\ items'[<<r, e, s>>] = "queued"
    BY <1>1, <1>2
  <1>3. ASSUME NEW p \in Process, NEW v, pc[p] \in AtItem, ItemWrite(Key(p), v)
        PROVE  Executes(p) /\ job[p].run = r /\ job[p].exec = e
    <2>1. Key(p) = <<r, e, s>>
      BY <1>1, <1>3
    <2>2. NumberOK(p)
      BY DEF TrailInv
    <2>. QED
      BY <1>3, <2>1, <2>2 DEF Key, NumberOK, AtItem
  <1>. QED
    BY <1>2, <1>3, ItemMoves

(* What the last execution left stays as long as the run is completed.      *)
LEMMA LastStays ==
  ASSUME IInv, TrailInv, [Next]_vars, NEW r \in Run, Last(r),
         \A p \in Process : pc[p] \in AtItem /\ Executes(p) => job[p].run # r
  PROVE  Last(r)'
  <1>1. PICK e \in Execution \ {0} : LastOf(r, e)
    BY DEF Last
  <1>2. \A s \in Stage : Success(r, e, s)'
    BY <1>1, SuccessStays DEF LastOf
  <1>3. ASSUME NEW f \in Execution, NEW s \in Stage, f > e
        PROVE  items'[<<r, f, s>>] = "absent"
    <2>1. f # 0
      BY <1>3, BoundAssumption DEF Execution
    <2>2. items[<<r, f, s>>] = "absent"
      BY <1>1, <1>3 DEF LastOf
    <2>. QED
      BY <2>1, <2>2, ItemWriters
  <1>4. LastOf(r, e)'
    BY <1>2, <1>3 DEF LastOf
  <1>. QED
    BY <1>4 DEF Last

LEMMA CommitLasts ==
  ASSUME IInv, TrailInv, SoleInv, TableInv, Latest, NEW p \in Process, UpdateCommit(p),
         NEW r \in Run, r = RunOf(p), runs'[r].status = "completed"
  PROVE  Last(r)'
  <1>0. /\ TypeInv /\ pc[p] = "update_commit" /\ UNCHANGED <<items, events>>
        /\ view[p].record = runs[r]
    BY DEF IInv, UpdateCommit, TableInv, FreshOK, trail
  <1>1. runs'[r] = view[p].mem
    <2>1. view[p].mem \in RunRecord /\ runs[r] \in RunRecord
      BY <1>0, BusyTypes
    <2>2. PICK row \in UpdatedRows(runs[r], runs[r], view[p].mem) :
             runs' = [runs EXCEPT ![r] = row]
      BY <1>0 DEF UpdateCommit
    <2>3. row = view[p].mem
      BY <2>1, <2>2, FreshUpdate
    <2>. QED
      BY <1>0, <2>2, <2>3 DEF TypeInv, TypeOK
  <1>2. Executes(p) /\ NumberOK(p)
    BY <1>0 DEF TrailInv, NumberOK
  <1>3. PICK e \in Execution \ {0} : e = job[p].exec
    BY <1>0, <1>2, ExecutesTypes
  <1>4. \A s \in Stage : Success(r, e, s)
    BY <1>1, <1>2, <1>3 DEF TrailInv, WholeWhenSaid, Done, Item, Event, Success, RunOf
  <1>5. \A f \in Execution, s \in Stage : f > e => items[<<r, f, s>>] = "absent"
    BY <1>2, <1>3 DEF Latest, TrailInv, Unwritten, RunOf
  <1>6. LastOf(r, e)'
    BY <1>0, <1>4, <1>5 DEF LastOf, Success
  <1>. QED
    BY <1>6 DEF Last

LEMMA LastStep ==
  ASSUME IInv, TrailInv, SoleInv, TableInv, Latest, LastInv, [Next]_vars
  PROVE  LastInv'
  <1>. SUFFICES ASSUME NEW r \in Run, runs'[r].status = "completed"
                PROVE  Last(r)'
    BY DEF LastInv
  <1>0. TypeInv
    BY DEF IInv
  <1>1. CASE runs[r].status = "completed"
    <2>1. ASSUME NEW p \in Process, pc[p] \in AtItem, Executes(p) PROVE job[p].run # r
      <3>1. InStage(p) \/ pc[p] = "complete_item"
        BY <2>1 DEF AtItem, InStage, InBody
      <3>2. InStages(p) /\ pc[p] # "idle" /\ InStage(p)
        BY <2>1, <3>1 DEF AtItem, InStages, Updating, InStage, InBody
      <3>3. view[p].mem.status = "running"
        BY <2>1, <3>2 DEF TrailInv, TrailOK, Present
      <3>4. runs[RunOf(p)].status = "running"
        BY <3>2, <3>3 DEF TableInv, DraftOK
      <3>. QED
        BY <1>1, <3>4 DEF RunOf
    <2>. QED
      BY <1>1, <2>1, LastStays DEF LastInv
  <1>2. CASE runs[r].status # "completed"
    <2>1. ASSUME NEW p \in Process, WorkStep(p) PROVE UpdateCommit(p) /\ r = RunOf(p)
      <3>1. r = RunOf(p)
        BY <1>0, <1>2, <2>1, Working
      <3>2. UNCHANGED runs \/ UpdateCommit(p)
        BY <2>1 DEF WorkStep, OuterStep, InnerStep, ErrorStep, DbError, CreateQueuedItem,
                  Load, UpdateGet, NewItem, StartItem, CompleteItem, FailItem,
                  StageEvent, RunEvent, Discover, AddUrls, Extract, Upsert, SetValidator,
                  Canonicalize, Score, Generate, SaveArtifact
      <3>. QED
        BY <1>2, <3>1, <3>2
    <2>2. ASSUME NEW a \in ApiThread, NEW x \in Run, CreateRun(a, x) PROVE FALSE
      BY <1>0, <1>2, <2>2 DEF CreateRun, TypeInv, TypeOK, Blank
    <2>3. ASSUME NEW w \in Worker, VisibilityTimeout(w) PROVE UNCHANGED runs
      BY <2>3 DEF VisibilityTimeout
    <2>4. UNCHANGED Tables \/ UNCHANGED vars => UNCHANGED runs
      BY DEF Tables, vars
    <2>5. PICK p \in Process : UpdateCommit(p) /\ r = RunOf(p)
      BY <1>2, <2>1, <2>2, <2>3, <2>4, Moves
    <2>. QED
      BY <2>5, CommitLasts
  <1>. QED
    BY <1>1, <1>2


-----------------------------------------------------------------------------
(* The order of the items, and what the timeline makes of it.               *)

EntriesInv == \A r \in Run, s \in Stage : \A i \in DOMAIN born[<<r, s>>] :
                items[<<r, born[<<r, s>>][i], s>>] # "absent"
FirstInv == \A r \in Run, s \in Stage : items[<<r, 0, s>>] \in {"absent", "queued"}
Rising(o) == \A i, j \in DOMAIN o : i < j /\ o[i] # 0 /\ o[j] # 0 => o[i] < o[j]
RisingInv == \A r \in Run, s \in Stage : Rising(born[<<r, s>>])

LEMMA Indices ==
  ASSUME NEW S, NEW o \in Seq(S)
  PROVE  /\ Len(o) \in Nat
         /\ \A i \in DOMAIN o : i \in Nat /\ i <= Len(o) /\ o[i] \in S
  OBVIOUS

LEMMA Appended ==
  ASSUME NEW S, NEW o \in Seq(S), NEW e \in S
  PROVE  /\ DOMAIN Append(o, e) = DOMAIN o \union {Len(o) + 1}
         /\ Append(o, e)[Len(o) + 1] = e
         /\ \A i \in DOMAIN o : Append(o, e)[i] = o[i]
  OBVIOUS

LEMMA EntriesStep ==
  ASSUME TypeInv, BornInv, EntriesInv, [Next]_vars, Dated
  PROVE  EntriesInv'
  <1>. SUFFICES ASSUME NEW r \in Run, NEW s \in Stage, NEW i \in DOMAIN born'[<<r, s>>]
                PROVE  items'[<<r, born'[<<r, s>>][i], s>>] # "absent"
    BY DEF EntriesInv
  <1>0. /\ born[<<r, s>>] \in Seq(Execution)
        /\ \A j \in DOMAIN born[<<r, s>>] : items'[<<r, born[<<r, s>>][j], s>>] # "absent"
    <2>1. born[<<r, s>>] \in Seq(Execution)
      BY DEF BornInv
    <2>2. ASSUME NEW j \in DOMAIN born[<<r, s>>]
          PROVE  items'[<<r, born[<<r, s>>][j], s>>] # "absent"
      <3>1. PICK f \in Execution : f = born[<<r, s>>][j]
        BY <2>1, Indices
      <3>2. items[<<r, f, s>>] # "absent"
        BY <3>1 DEF EntriesInv
      <3>. QED
        BY <3>1, <3>2, ItemsStay
    <2>. QED
      BY <2>1, <2>2
  <1>1. CASE born'[<<r, s>>] = born[<<r, s>>]
    BY <1>0, <1>1
  <1>2. ASSUME NEW e \in Execution, Appearing(r, s) = {e},
               born'[<<r, s>>] = Append(born[<<r, s>>], e)
        PROVE  items'[<<r, born'[<<r, s>>][i], s>>] # "absent"
    <2>1. items'[<<r, e, s>>] # "absent"
      BY <1>2 DEF Appearing
    <2>2. \/ i \in DOMAIN born[<<r, s>>] /\ born'[<<r, s>>][i] = born[<<r, s>>][i]
          \/ born'[<<r, s>>][i] = e
      BY <1>0, <1>2
    <2>. QED
      BY <1>0, <2>1, <2>2
  <1>. QED
    BY <1>1, <1>2, DatedStep

LEMMA FirstStep ==
  ASSUME IInv, TrailInv, FirstInv, [Next]_vars
  PROVE  FirstInv'
  <1>. SUFFICES ASSUME NEW r \in Run, NEW s \in Stage
                PROVE  items'[<<r, 0, s>>] \in {"absent", "queued"}
    BY DEF FirstInv
  <1>1. 0 \in Execution
    BY BoundAssumption DEF Execution
  <1>2. \A p \in Process : Executes(p) => job[p].exec # 0
    BY DEF Executes
  <1>. QED
    BY <1>1, <1>2, ItemWriters DEF FirstInv

(* An item that appears is of the last execution, the others are older.     *)
LEMMA RisingStep ==
  ASSUME IInv, TrailInv, BornInv, EntriesInv, Latest, RisingInv, [Next]_vars, Dated
  PROVE  RisingInv'
  <1>. SUFFICES ASSUME NEW r \in Run, NEW s \in Stage
                PROVE  Rising(born'[<<r, s>>])
    BY DEF RisingInv
  <1>0. TypeInv /\ born[<<r, s>>] \in Seq(Execution) /\ Rising(born[<<r, s>>])
    BY DEF IInv, BornInv, RisingInv
  <1>1. CASE born'[<<r, s>>] = born[<<r, s>>]
    BY <1>0, <1>1
  <1>2. ASSUME NEW e \in Execution, Appearing(r, s) = {e},
               born'[<<r, s>>] = Append(born[<<r, s>>], e)
        PROVE  Rising(born'[<<r, s>>])
    <2>1. items[<<r, e, s>>] = "absent" /\ items'[<<r, e, s>>] # "absent"
      BY <1>2 DEF Appearing
    <2>2. ASSUME e # 0, NEW i \in DOMAIN born[<<r, s>>] PROVE born[<<r, s>>][i] < e
      <3>1. e = execs[r]
        BY <2>1, <2>2, ItemWriters DEF Latest
      <3>2. PICK f \in Execution : f = born[<<r, s>>][i]
        BY <1>0
      <3>3. items[<<r, f, s>>] # "absent"
        BY <3>2 DEF EntriesInv
      <3>4. ~(f > execs[r])
        BY <3>3 DEF TrailInv, Unwritten
      <3>5. f # e
        BY <2>1, <3>3
      <3>6. f \in Nat /\ e \in Nat
        BY BoundAssumption DEF Execution
      <3>. QED
        BY <3>1, <3>2, <3>4, <3>5, <3>6
    <2>3. /\ DOMAIN born'[<<r, s>>] = DOMAIN born[<<r, s>>] \union {Len(born[<<r, s>>]) + 1}
          /\ born'[<<r, s>>][Len(born[<<r, s>>]) + 1] = e
          /\ \A i \in DOMAIN born[<<r, s>>] : born'[<<r, s>>][i] = born[<<r, s>>][i]
          /\ \A i \in DOMAIN born[<<r, s>>] : i \in Nat /\ i <= Len(born[<<r, s>>])
          /\ Len(born[<<r, s>>]) \in Nat
      <3>1. PICK o \in Seq(Execution) : o = born[<<r, s>>]
        BY <1>0
      <3>2. /\ DOMAIN Append(o, e) = DOMAIN o \union {Len(o) + 1}
            /\ Append(o, e)[Len(o) + 1] = e
            /\ \A i \in DOMAIN o : Append(o, e)[i] = o[i]
        BY Appended
      <3>3. Len(o) \in Nat /\ \A i \in DOMAIN o : i \in Nat /\ i <= Len(o)
        BY Indices
      <3>4. born'[<<r, s>>] = Append(o, e)
        BY <1>2, <3>1
      <3>. QED
        BY <3>1, <3>2, <3>3, <3>4
    <2>4. ASSUME NEW i \in DOMAIN born'[<<r, s>>], NEW j \in DOMAIN born'[<<r, s>>], i < j,
                 born'[<<r, s>>][i] # 0, born'[<<r, s>>][j] # 0
          PROVE  born'[<<r, s>>][i] < born'[<<r, s>>][j]
      <3>1. i \in DOMAIN born[<<r, s>>]
        BY <2>3, <2>4
      <3>2. CASE j \in DOMAIN born[<<r, s>>]
        BY <1>0, <2>3, <2>4, <3>1, <3>2 DEF Rising
      <3>3. CASE j = Len(born[<<r, s>>]) + 1
        BY <2>2, <2>3, <2>4, <3>1, <3>3
      <3>. QED
        BY <2>3, <3>2, <3>3
    <2>. QED
      BY <2>4 DEF Rising
  <1>. QED
    BY <1>0, <1>1, <1>2, DatedStep

(* After the last execution the timeline looks at its items only.           *)
LEMMA SeenLast ==
  ASSUME BornInv, EntriesInv, FirstInv, RisingInv, NEW r \in Run, Last(r), NEW s \in Stage
  PROVE  Seen(StatesOf(r, s)) = "completed"
  <1>1. PICK e \in Execution \ {0} : LastOf(r, e)
    BY DEF Last
  <1>2. items[<<r, e, s>>] = "completed"
    BY <1>1 DEF LastOf, Success
  <1>3. PICK k \in DOMAIN born[<<r, s>>] : born[<<r, s>>][k] = e
    BY <1>2 DEF BornInv, Listed
  <1>4. born[<<r, s>>] \in Seq(Execution)
    BY DEF BornInv
  <1>. DEFINE o == born[<<r, s>>]
              states == StatesOf(r, s)
              begun == {i \in DOMAIN states : states[i] # "queued"}
  <1>5. /\ DOMAIN states = DOMAIN o
        /\ \A i \in DOMAIN o : i \in Nat /\ states[i] = items[<<r, o[i], s>>]
    BY <1>4, Indices DEF StatesOf
  <1>6. k \in begun /\ states[k] = "completed"
    BY <1>2, <1>3, <1>5
  <1>7. ASSUME NEW j \in begun PROVE j <= k
    <2>0. j \in Nat /\ k \in Nat /\ j \in DOMAIN o /\ k \in DOMAIN o
      BY <1>3, <1>5
    <2>. SUFFICES ASSUME k < j
                  PROVE  FALSE
      BY <2>0
    <2>1. PICK f \in Execution : f = o[j]
      BY <1>4, <2>0, Indices
    <2>2. items[<<r, f, s>>] \notin {"absent", "queued"}
      BY <1>5, <2>1 DEF EntriesInv
    <2>3. f # 0
      BY <2>2 DEF FirstInv
    <2>4. e < f
      BY <1>3, <2>0, <2>1, <2>3 DEF RisingInv, Rising
    <2>5. f > e
      BY <2>4, BoundAssumption DEF Execution
    <2>. QED
      BY <1>1, <2>2, <2>5 DEF LastOf
  <1>8. states # <<>>
    BY <1>3, <1>5
  <1>9. PICK m \in begun : /\ m = CHOOSE i \in begun : \A j \in begun : j <= i
                           /\ \A j \in begun : j <= m
    BY <1>6, <1>7
  <1>10. m = k
    BY <1>5, <1>6, <1>7, <1>9
  <1>11. Seen(states) = states[m]
    BY <1>6, <1>8, <1>9 DEF Seen
  <1>. QED
    BY <1>6, <1>10, <1>11

LEMMA RowsStay ==
  ASSUME IInv, [Next]_vars, NEW r \in Run, runs[r].status # "absent"
  PROVE  runs'[r].status # "absent"
  <1>0. TypeInv /\ runs \in [Run -> RunRecord]
    BY DEF IInv, TypeInv, TypeOK
  <1>1. ASSUME NEW p \in Process, UpdateCommit(p) PROVE runs'[r].status # "absent"
    <2>1. Begun(view[p].mem.status)
      BY <1>1 DEF UpdateCommit, IInv, PhaseOK, Updating
    <2>2. PICK row \in UpdatedRows(runs[RunOf(p)], view[p].record, view[p].mem) :
             runs' = [runs EXCEPT ![RunOf(p)] = row]
      BY <1>1 DEF UpdateCommit
    <2>3. row.status \in {view[p].mem.status, runs[RunOf(p)].status}
      BY DEF UpdatedRows
    <2>. QED
      BY <1>0, <2>1, <2>2, <2>3 DEF Begun
  <1>2. ASSUME NEW p \in Process, WorkStep(p) PROVE UNCHANGED runs \/ UpdateCommit(p)
    BY <1>2 DEF WorkStep, OuterStep, InnerStep, ErrorStep, DbError, CreateQueuedItem,
                Load, UpdateGet, NewItem, StartItem, CompleteItem, FailItem,
                StageEvent, RunEvent, Discover, AddUrls, Extract, Upsert, SetValidator,
                Canonicalize, Score, Generate, SaveArtifact
  <1>3. ASSUME NEW a \in ApiThread, NEW x \in Run, CreateRun(a, x)
        PROVE  runs'[r].status # "absent"
    BY <1>0, <1>3 DEF CreateRun, Blank
  <1>4. ASSUME NEW w \in Worker, VisibilityTimeout(w) PROVE UNCHANGED runs
    BY <1>4 DEF VisibilityTimeout
  <1>5. UNCHANGED Tables \/ UNCHANGED vars => UNCHANGED runs
    BY DEF Tables, vars
  <1>. QED
    BY <1>1, <1>2, <1>3, <1>4, <1>5, Moves

(* A run nobody works on is left alone until its next execution starts.     *)
LEMMA RestingStays ==
  ASSUME TypeInv, [Next]_vars, NEW r \in Run, Resting(r), runs[r].status # "absent",
         execs'[r] = execs[r]
  PROVE  Resting(r)'
  <1>. SUFFICES ASSUME NEW q \in Process, pc'[q] # "idle"
                PROVE  RunOf(q)' # r
    BY DEF Resting
  <1>0. execs[r] \in Nat /\ (pc[q] # "idle" => RunOf(q) # r)
    BY BoundAssumption DEF TypeInv, TypeOK, Execution, Resting
  <1>1. ASSUME NEW p \in Process, WorkStep(p) PROVE RunOf(q)' # r
    BY <1>0, <1>1, Working DEF SameJob, Untouched, RunOf
  <1>2. ASSUME NEW P \in SUBSET Process, Reset(P) PROVE RunOf(q)' # r
    BY <1>0, <1>2 DEF Reset, RunOf
  <1>3. ASSUME NEW p \in Process, NEW x \in Run, NEW b \in BOOLEAN, Begin(p, x, b)
        PROVE  RunOf(q)' # r
    <2>1. x # r
      BY <1>0, <1>3, BeginCounts
    <2>. QED
      BY <1>0, <1>3, <2>1, BeginCounts DEF RunOf
  <1>4. ASSUME NEW a \in ApiThread, NEW x \in Run, CreateRun(a, x) PROVE RunOf(q)' # r
    <2>1. /\ a \in Process /\ x # r /\ job[a] \in Job
          /\ job' = [job EXCEPT ![a].run = x] /\ Goto(a, "create_item")
      BY <1>4 DEF CreateRun, Process, TypeInv, TypeOK
    <2>2. CASE q = a
      <3>1. job'[q] = [job[q] EXCEPT !.run = x]
        BY <2>1, <2>2 DEF TypeInv, TypeOK
      <3>. QED
        BY <2>1, <2>2, <3>1 DEF Job, RunOf
    <2>3. CASE q # a
      <3>1. job'[q] = job[q] /\ pc'[q] = pc[q]
        BY <2>1, <2>3 DEF TypeInv, TypeOK, Goto
      <3>. QED
        BY <1>0, <3>1 DEF RunOf
    <2>. QED
      BY <2>2, <2>3
  <1>5. ASSUME NEW w \in Worker, VisibilityTimeout(w) PROVE RunOf(q)' # r
    <2>1. /\ w \in Process /\ job[q] \in Job /\ UNCHANGED pc
          /\ job' = [job EXCEPT ![w].unacked = FALSE]
      BY <1>5 DEF VisibilityTimeout, Process, TypeInv, TypeOK
    <2>2. job'[q] = job[q] \/ job'[q] = [job[q] EXCEPT !.unacked = FALSE]
      BY <2>1 DEF TypeInv, TypeOK
    <2>3. job'[q].run = job[q].run
      BY <2>1, <2>2 DEF Job
    <2>. QED
      BY <1>0, <2>1, <2>3 DEF RunOf
  <1>6. UNCHANGED vars => RunOf(q)' # r
    BY <1>0 DEF vars, RunOf
  <1>. QED
    BY <1>1, <1>2, <1>3, <1>4, <1>5, <1>6, Moves


(* How far the run has got since its status was read, and what the panel    *)
(* shows if nobody has worked on it since.                                  *)
ReadInv == panel.status = "completed" =>
             /\ panel.run \in Run /\ runs[panel.run].status # "absent"
             /\ panel.begun \in Nat /\ panel.begun <= execs[panel.run]
Undisturbed == /\ panel.status = "completed" /\ panel.begun # 0
               /\ panel.begun = execs[panel.run]
TimelineInv == Undisturbed =>
  /\ Resting(panel.run)
  /\ panel.pc = "items" => Last(panel.run)
  /\ panel.pc \in {"llms", "events", "idle"} => \A s \in Stage : panel.timeline[s] = "completed"

BornFacts == BornInv /\ EntriesInv /\ FirstInv
AloneInv == SoleInv /\ TableInv /\ Latest /\ LastInv /\ RisingInv /\ TimelineInv

(* What a request leaves as it was.                                         *)
LEMMA Quiet ==
  ASSUME UNCHANGED <<vars, born>>
  PROVE  /\ UNCHANGED <<runs, items, events, execs, pc, job>>
         /\ \A r : /\ Resting(r)' <=> Resting(r)
                   /\ Last(r)' <=> Last(r)
  BY DEF vars, Resting, RunOf, Last, LastOf, Success

(* A step of the panel, and a panel that is opened again.                   *)
LEMMA PanelSteps ==
  ASSUME PanelInv, [DashboardNext]_allVars
  PROVE  \/ [Next]_vars /\ UNCHANGED panel /\ (Dated \/ UNCHANGED <<vars, born>>)
         \/ panel'.status = "absent"
         \/ GetRun \/ GetItems \/ GetLlms \/ GetEvents
  <1>1. \A r : Opened(r).status = "absent"
    BY DEF Opened
  <1>2. ASSUME NEW a \in ApiThread, Submitted(a) PROVE panel'.status = "absent"
    BY <1>1, <1>2 DEF Submitted
  <1>3. ASSUME NEW r \in Run, Choose(r) PROVE panel'.status = "absent"
    BY <1>1, <1>3 DEF Choose
  <1>4. RequestFails => panel'.status = "absent"
    BY <1>1 DEF RequestFails
  <1>5. Refresh => panel'.status = "absent"
    BY DEF Refresh, Opened
  <1>6. PipelineStep \/ UNCHANGED allVars
        => [Next]_vars /\ UNCHANGED panel /\ (Dated \/ UNCHANGED <<vars, born>>)
    BY DEF PipelineStep, allVars
  <1>. QED
    BY <1>2, <1>3, <1>4, <1>5, <1>6 DEF DashboardNext, PanelStep

LEMMA GetRunFields ==
  ASSUME PanelInv, GetRun
  PROVE  /\ UNCHANGED <<vars, born>> /\ panel.run \in Run
         /\ panel'.pc = "items" /\ panel'.run = panel.run
         /\ panel'.status = runs[panel.run].status
         /\ panel'.begun = IF Resting(panel.run) THEN execs[panel.run] ELSE 0
  <1>1. panel.pc = "run" /\ panel.run \in Run /\ UNCHANGED <<vars, born>>
    BY DEF GetRun, PanelInv
  <1>. QED
    BY <1>1 DEF GetRun, PanelInv, HasFields, After

LEMMA GetItemsFields ==
  ASSUME PanelInv, GetItems
  PROVE  /\ UNCHANGED <<vars, born>> /\ panel.pc = "items"
         /\ panel'.pc # "items" /\ panel'.run = panel.run
         /\ panel'.status = panel.status /\ panel'.begun = panel.begun
         /\ panel'.timeline = [s \in Stage |-> Seen(StatesOf(panel.run, s))]
  <1>1. panel.pc = "items" /\ UNCHANGED <<vars, born>>
    BY DEF GetItems
  <1>. QED
    BY <1>1 DEF GetItems, PanelInv, HasFields, After

LEMMA RestFields ==
  ASSUME PanelInv, GetLlms \/ GetEvents
  PROVE  /\ UNCHANGED <<vars, born>> /\ panel.pc \in {"llms", "events"}
         /\ panel'.pc \in {"events", "idle"} /\ panel'.run = panel.run
         /\ panel'.status = panel.status /\ panel'.begun = panel.begun
         /\ panel'.timeline = panel.timeline
  <1>1. panel.pc \in {"llms", "events"} /\ UNCHANGED <<vars, born>>
    BY DEF GetLlms, GetEvents
  <1>2. CASE GetLlms
    BY <1>1, <1>2 DEF GetLlms, PanelInv, HasFields, After
  <1>3. CASE GetEvents
    BY <1>1, <1>3 DEF GetEvents, PanelInv, HasFields, After
  <1>. QED
    BY <1>2, <1>3

LEMMA ReadStep ==
  ASSUME IInv, PanelInv, ReadInv, [DashboardNext]_allVars
  PROVE  ReadInv'
  <1>0. TypeInv
    BY DEF IInv
  <1>1. CASE [Next]_vars /\ UNCHANGED panel
    <2>. SUFFICES ASSUME panel.status = "completed"
                  PROVE  /\ panel.run \in Run /\ runs'[panel.run].status # "absent"
                         /\ panel.begun \in Nat /\ panel.begun <= execs'[panel.run]
      BY <1>1 DEF ReadInv
    <2>1. /\ panel.run \in Run /\ runs[panel.run].status # "absent"
          /\ panel.begun \in Nat /\ panel.begun <= execs[panel.run]
      BY DEF ReadInv
    <2>2. runs'[panel.run].status # "absent"
      BY <1>1, <2>1, RowsStay
    <2>3. /\ execs[panel.run] \in Nat /\ execs'[panel.run] \in Nat
          /\ execs[panel.run] <= execs'[panel.run]
      BY <1>0, <1>1, <2>1, ExecsGrow
    <2>. QED
      BY <2>1, <2>2, <2>3
  <1>2. CASE panel'.status = "absent"
    BY <1>2 DEF ReadInv
  <1>3. CASE GetRun
    <2>1. execs[panel.run] \in Nat
      BY <1>0, <1>3, GetRunFields, BoundAssumption DEF TypeInv, TypeOK, Execution
    <2>2. UNCHANGED <<runs, execs>>
      BY <1>3, GetRunFields, Quiet
    <2>. QED
      BY <1>3, <2>1, <2>2, GetRunFields DEF ReadInv
  <1>4. CASE GetItems
    <2>1. UNCHANGED <<runs, execs>>
      BY <1>4, GetItemsFields, Quiet
    <2>. QED
      BY <1>4, <2>1, GetItemsFields DEF ReadInv
  <1>5. CASE GetLlms \/ GetEvents
    <2>1. UNCHANGED <<runs, execs>>
      BY <1>5, RestFields, Quiet
    <2>. QED
      BY <1>5, <2>1, RestFields DEF ReadInv
  <1>. QED
    BY <1>1, <1>2, <1>3, <1>4, <1>5, PanelSteps

LEMMA TimelineStep ==
  ASSUME IInv, TrailInv, PanelInv, ReadInv, BornFacts, LastInv, RisingInv, TimelineInv,
         [DashboardNext]_allVars
  PROVE  TimelineInv'
  <1>0. TypeInv
    BY DEF IInv
  <1>1. CASE [Next]_vars /\ UNCHANGED panel
    <2>. SUFFICES ASSUME Undisturbed'
                  PROVE  /\ Resting(panel.run)'
                         /\ panel.pc = "items" => Last(panel.run)'
                         /\ panel.pc \in {"llms", "events", "idle"}
                              => \A s \in Stage : panel.timeline[s] = "completed"
      BY <1>1 DEF TimelineInv
    <2>1. PICK r \in Run : r = panel.run
      BY <1>1 DEF Undisturbed, ReadInv
    <2>2. /\ panel.status = "completed" /\ panel.begun # 0 /\ panel.begun = execs'[r]
          /\ runs[r].status # "absent" /\ panel.begun \in Nat /\ panel.begun <= execs[r]
      BY <1>1, <2>1 DEF Undisturbed, ReadInv
    <2>3. execs'[r] = execs[r]
      BY <1>0, <1>1, <2>2, ExecsGrow
    <2>4. /\ Resting(r) /\ (panel.pc = "items" => Last(r))
          /\ panel.pc \in {"llms", "events", "idle"}
               => \A s \in Stage : panel.timeline[s] = "completed"
      BY <2>1, <2>2, <2>3 DEF TimelineInv, Undisturbed
    <2>5. Resting(r)'
      BY <1>0, <1>1, <2>2, <2>3, <2>4, RestingStays
    <2>6. \A p \in Process : pc[p] \in AtItem => job[p].run # r
      BY <2>4 DEF Resting, RunOf, AtItem
    <2>7. panel.pc = "items" => Last(r)'
      BY <1>1, <2>4, <2>6, LastStays
    <2>8. (Resting(panel.run)' <=> Resting(r)') /\ (Last(panel.run)' <=> Last(r)')
      BY <1>1, <2>1 DEF Resting, Last, LastOf, Success
    <2>. QED
      BY <2>4, <2>5, <2>7, <2>8
  <1>2. CASE panel'.status = "absent"
    BY <1>2 DEF TimelineInv, Undisturbed
  <1>3. CASE GetRun
    <2>. SUFFICES ASSUME Undisturbed'
                  PROVE  Resting(panel.run)' /\ Last(panel.run)'
      BY <1>3, GetRunFields DEF TimelineInv
    <2>1. PICK r \in Run : r = panel.run /\ r = panel'.run
      BY <1>3, GetRunFields
    <2>2. runs[r].status = "completed" /\ Resting(r)
      BY <1>3, <2>1, GetRunFields DEF Undisturbed
    <2>3. Last(r)
      BY <2>2 DEF LastInv
    <2>4. Resting(r)' /\ Last(r)'
      BY <1>3, <2>2, <2>3, GetRunFields, Quiet
    <2>. QED
      BY <2>1, <2>4 DEF Resting, Last, LastOf, Success
  <1>4. CASE GetItems
    <2>. SUFFICES ASSUME Undisturbed'
                  PROVE  Resting(panel.run)' /\ \A s \in Stage : panel'.timeline[s] = "completed"
      BY <1>4, GetItemsFields DEF TimelineInv
    <2>1. UNCHANGED <<runs, execs>> /\ panel'.run = panel.run
      BY <1>4, GetItemsFields, Quiet
    <2>2. Undisturbed
      BY <1>4, <2>1, GetItemsFields DEF Undisturbed
    <2>3. PICK r \in Run : r = panel.run
      BY <2>2 DEF Undisturbed, ReadInv
    <2>4. Resting(r) /\ Last(r)
      BY <1>4, <2>2, <2>3, GetItemsFields DEF TimelineInv
    <2>5. \A s \in Stage : panel'.timeline[s] = "completed"
      BY <1>4, <2>3, <2>4, GetItemsFields, SeenLast DEF BornFacts
    <2>6. Resting(r)'
      BY <1>4, <2>4, GetItemsFields, Quiet
    <2>. QED
      BY <2>1, <2>3, <2>5, <2>6 DEF Resting
  <1>5. CASE GetLlms \/ GetEvents
    <2>. SUFFICES ASSUME Undisturbed'
                  PROVE  Resting(panel.run)' /\ \A s \in Stage : panel'.timeline[s] = "completed"
      BY <1>5, RestFields DEF TimelineInv
    <2>1. UNCHANGED <<runs, execs>> /\ panel'.run = panel.run
      BY <1>5, RestFields, Quiet
    <2>2. Undisturbed
      BY <1>5, <2>1, RestFields DEF Undisturbed
    <2>3. PICK r \in Run : r = panel.run
      BY <2>2 DEF Undisturbed, ReadInv
    <2>4. Resting(r) /\ \A s \in Stage : panel'.timeline[s] = "completed"
      BY <1>5, <2>2, <2>3, RestFields DEF TimelineInv
    <2>5. Resting(r)'
      BY <1>5, <2>4, RestFields, Quiet
    <2>. QED
      BY <2>1, <2>3, <2>4, <2>5 DEF Resting
  <1>. QED
    BY <1>1, <1>2, <1>3, <1>4, <1>5, PanelSteps

LEMMA FactsStep ==
  ASSUME IInv, TrailInv, BornFacts, [DashboardNext]_allVars
  PROVE  BornFacts'
  <1>0. TypeInv /\ [Next]_vars
    BY StepWatched DEF IInv
  <1>1. BornInv' /\ FirstInv'
    BY <1>0, BornStep, FirstStep DEF BornFacts
  <1>2. Dated => EntriesInv'
    BY <1>0, EntriesStep DEF BornFacts
  <1>3. UNCHANGED <<vars, born>> => EntriesInv'
    BY DEF BornFacts, EntriesInv, vars
  <1>4. Dated \/ UNCHANGED <<vars, born>>
    BY DEF DashboardNext, PipelineStep, Submitted, RequestFails, Choose, PanelStep, Refresh,
           GetRun, GetItems, GetLlms, GetEvents, allVars
  <1>. QED
    BY <1>1, <1>2, <1>3, <1>4 DEF BornFacts

LEMMA AloneStep ==
  ASSUME IInv, TrailInv, PanelInv, ReadInv, BornFacts, AloneInv, BrokerAlone',
         [DashboardNext]_allVars
  PROVE  AloneInv'
  <1>0. TypeInv /\ [Next]_vars
    BY StepWatched DEF IInv
  <1>1. SoleInv' /\ TableInv'
    BY <1>0, SoleStep, TableStep DEF AloneInv
  <1>2. Latest' /\ LastInv'
    BY <1>0, LatestStep, LastStep DEF AloneInv
  <1>3. RisingInv'
    <2>1. Dated => RisingInv'
      BY <1>0, RisingStep DEF BornFacts, AloneInv
    <2>2. UNCHANGED <<vars, born>> => RisingInv'
      BY DEF AloneInv, RisingInv, Rising
    <2>3. Dated \/ UNCHANGED <<vars, born>>
      BY DEF DashboardNext, PipelineStep, Submitted, RequestFails, Choose, PanelStep, Refresh,
             GetRun, GetItems, GetLlms, GetEvents, allVars
    <2>. QED
      BY <2>1, <2>2, <2>3
  <1>4. TimelineInv'
    BY TimelineStep DEF AloneInv
  <1>. QED
    BY <1>1, <1>2, <1>3, <1>4 DEF AloneInv

LEMMA InitAlone == DashboardInit => BornFacts /\ ReadInv /\ AloneInv
  <1>. SUFFICES ASSUME DashboardInit
                PROVE  BornFacts /\ ReadInv /\ AloneInv
    OBVIOUS
  <1>0. Init /\ panel = Opened(None) /\ born = [k \in Run \X Stage |-> <<>>]
    BY DEF DashboardInit
  <1>1. BornInv /\ SoleInv /\ TableInv
    BY <1>0, InitBorn, InitSole, InitTable
  <1>2. EntriesInv /\ RisingInv
    BY <1>0 DEF EntriesInv, RisingInv, Rising
  <1>3. FirstInv
    BY <1>0, BoundAssumption DEF FirstInv, Init, Execution
  <1>4. Latest /\ LastInv
    BY <1>0 DEF Init, Latest, Executes, NoJob, LastInv, Blank
  <1>5. panel.status = "absent"
    BY <1>0 DEF Opened
  <1>. QED
    BY <1>1, <1>2, <1>3, <1>4, <1>5
       DEF BornFacts, AloneInv, ReadInv, TimelineInv, Undisturbed

LEMMA AloneAlways == DashboardSpec => [](ReadInv /\ (BrokerAlone => AloneInv))
  <1>1. /\ IInv /\ TrailInv /\ PanelInv /\ ReadInv /\ BornFacts /\ (BrokerAlone => AloneInv)
        /\ [DashboardNext]_allVars
        => (ReadInv /\ BornFacts /\ (BrokerAlone => AloneInv))'
    BY ReadStep, FactsStep, AloneStep, StepWatched, AloneBefore DEF IInv
  <1>. QED
    BY <1>1, InitAlone, WatchedAlways, PanelAlways, PTL DEF DashboardSpec

(* The timeline of a completed run is that of the execution that completed  *)
(* it, whatever items the crashed and failed ones before have left, unless  *)
(* an execution was at work or has started since the status was read: as    *)
(* long as the broker alone hands the run out its executions follow one     *)
(* another, so the last item of a stage is of the last execution.           *)
THEOREM CompletedIsShownClean == DashboardSpec => []CompletedTimelineIsClean
  <1>1. IInv /\ TrailInv /\ PanelInv /\ ReadInv /\ (BrokerAlone => AloneInv)
        => CompletedTimelineIsClean
    <2>. SUFFICES ASSUME IInv, TrailInv, PanelInv, AloneInv, Shows("completed"),
                         panel.begun = execs[panel.run]
                  PROVE  \A s \in Stage : panel.timeline[s] = "completed"
      BY DEF CompletedTimelineIsClean
    <2>1. panel.status = "completed" /\ panel.pc = "idle"
      BY DEF Shows
    <2>2. PICK r \in Run : r = panel.run
      BY <2>1 DEF PanelInv
    <2>3. PICK e \in Execution \ {0} : \A s \in Stage : Success(r, e, s)
      BY <2>1, <2>2 DEF PanelInv, Whole
    <2>4. items[<<r, e, 1>>] = "completed" /\ 1 \in Stage
      BY <2>3 DEF Success, Stage, LastStage
    <2>5. ~(e > execs[r])
      BY <2>4 DEF TrailInv, Unwritten
    <2>6. execs[r] # 0
      BY <2>5, BoundAssumption DEF Execution
    <2>. QED
      BY <2>1, <2>2, <2>6 DEF AloneInv, TimelineInv, Undisturbed
  <1>. QED
    BY <1>1, WatchedAlways, PanelAlways, AloneAlways, PTL

-----------------------------------------------------------------------------
(* The instruments do nothing to the pipeline either.                       *)

LEMMA StepMetered ==
  ASSUME [MetricsNext]_<<vars, meterVars>>
  PROVE  [Next]_vars
  <1>1. ASSUME NEW p \in Process, MeteredStep(p) \/ MeteredError(p) PROVE Next
    BY <1>1 DEF MeteredStep, MeteredError, Next
  <1>2. CASE UntoldStep
    BY <1>2 DEF UntoldStep, Next
  <1>3. CASE LostWithApi \/ \E w \in Worker : LostWithWorker(w)
    BY <1>3 DEF LostWithApi, LostWithWorker, Next
  <1>. QED
    BY <1>1, <1>2, <1>3 DEF MetricsNext

LEMMA MeteredAlways == MetricsSpec => [](IInv /\ TrailInv /\ FirstInv)
  <1>1. MetricsInit => IInv /\ TrailInv /\ FirstInv
    BY InitIInv, InitTrail, BoundAssumption DEF MetricsInit, FirstInv, Init, Execution
  <1>2. IInv /\ TrailInv /\ FirstInv /\ [MetricsNext]_<<vars, meterVars>>
        => (IInv /\ TrailInv /\ FirstInv)'
    BY StepMetered, IInvStep, TrailStep, FirstStep
  <1>. QED
    BY <1>1, <1>2, PTL DEF MetricsSpec

(* What a step does to the instruments: a process makes the calls it owed   *)
(* and owes those of the step, or nobody does anything to them, or some     *)
(* processes die and take what they owed with them.                         *)
MeterType == calls \in [Call -> Nat] /\ due \in [Process -> SUBSET Call]
Tells(p) == /\ Advance(p) \/ DbError(p) \/ (p \in ApiThread /\ PublishFails(p))
            /\ Make(due[p]) \/ Make(due[p] \ {Completed})
            /\ Owe(p)
Untold == UNCHANGED <<meterVars, items>> /\ \A q \in Process : pc[q] # "idle" => pc'[q] = pc[q]
Dies(P) == /\ Reset(P) /\ UNCHANGED Tables /\ UNCHANGED calls
           /\ due' = [p \in Process |-> IF p \in P THEN {} ELSE due[p]]
           /\ Lost("crash")' \/ Lost("api_crash")'

LEMMA MeterMoves ==
  ASSUME TypeInv, MeterType, [MetricsNext]_<<vars, meterVars>>
  PROVE  \/ \E p \in Process : Tells(p)
         \/ Untold
         \/ \E P \in SUBSET Process : Dies(P)
  <1>0. /\ used["crash"] \in Nat /\ used["api_crash"] \in Nat
        /\ {"crash", "api_crash"} \subseteq Budget /\ DOMAIN used = Budget
    BY DEF TypeInv, TypeOK, Budget
  <1>1. ASSUME NEW p \in Process, MeteredStep(p) \/ MeteredError(p) PROVE Tells(p)
    BY <1>1 DEF MeteredStep, MeteredError, Tells
  <1>2. CASE UntoldStep
    <2>1. /\ UNCHANGED <<meterVars, items>>
          /\ UNCHANGED pc \/ \E q, l : pc[q] = "idle" /\ Goto(q, l)
      BY <1>2 DEF UntoldStep, VisibilityTimeout, Deliver, CreateRun, ProcessRequest, Begin, trail
    <2>. QED
      BY <2>1 DEF Untold, Goto, TypeInv, TypeOK
  <1>3. ASSUME NEW w \in Worker, LostWithWorker(w)
        PROVE  {w} \in SUBSET Process /\ Dies({w})
    <2>1. Crash(w) /\ due' = [due EXCEPT ![w] = {}] /\ UNCHANGED calls
      BY <1>3 DEF LostWithWorker
    <2>2. Reset({w}) /\ UNCHANGED Tables /\ used' = [used EXCEPT !["crash"] = @ + 1]
      BY <2>1 DEF Crash, Spend, Tables, trail, content
    <2>3. Lost("crash")'
      BY <1>0, <2>2 DEF Lost
    <2>4. /\ {w} \in SUBSET Process
          /\ due' = [p \in Process |-> IF p \in {w} THEN {} ELSE due[p]]
      BY <2>1 DEF MeterType, Process
    <2>. QED
      BY <2>1, <2>2, <2>3, <2>4 DEF Dies
  <1>4. ASSUME LostWithApi
        PROVE  ApiThread \in SUBSET Process /\ Dies(ApiThread)
    <2>1. ApiCrash /\ UNCHANGED calls
          /\ due' = [p \in Process |-> IF p \in ApiThread THEN {} ELSE due[p]]
      BY <1>4 DEF LostWithApi
    <2>2. Reset(ApiThread) /\ UNCHANGED Tables /\ used' = [used EXCEPT !["api_crash"] = @ + 1]
      BY <2>1 DEF ApiCrash, Spend, Tables, trail, content
    <2>3. Lost("api_crash")'
      BY <1>0, <2>2 DEF Lost
    <2>. QED
      BY <2>1, <2>2, <2>3 DEF Dies, Process
  <1>5. UNCHANGED <<vars, meterVars>> => Untold
    BY DEF vars, Untold
  <1>. QED
    BY <1>1, <1>2, <1>3, <1>4, <1>5 DEF MetricsNext

(* Every move of an item is one that WorkItem.transition allows, or the     *)
(* first of a new row.                                                      *)
Legal(k, v) == /\ k \in Run \X Execution \X Stage /\ v \in ItemState
               /\ items' = [items EXCEPT ![k] = v] /\ items[k] # v
               /\ \/ items[k] = "absent" /\ v = "queued"
                  \/ v \in Allowed(items[k])

Writes(p) == \E k, v : /\ Legal(k, v)
                       /\ k = Key(p) \/ (k[2] = 0 /\ v = "queued")

LEMMA LegalWork ==
  ASSUME IInv, TrailInv, FirstInv, NEW p \in Process, WorkStep(p)
  PROVE  UNCHANGED items \/ Writes(p)
  <1>0. items \in [Run \X Execution \X Stage -> ItemState]
    BY DEF IInv, TypeInv, TypeOK
  <1>1. CASE CreateQueuedItem(p)
    <2>. DEFINE k == <<RunOf(p), 0, 1>>
    <2>1. RunOf(p) \in Run /\ 1 \in Stage /\ 0 \in Execution
      BY <1>1, BusyTypes, BoundAssumption
         DEF CreateQueuedItem, IInv, RunOf, Stage, LastStage, Execution
    <2>2. k \in Run \X Execution \X Stage /\ items[k] \in {"absent", "queued"}
      BY <2>1 DEF FirstInv
    <2>3. items' = [items EXCEPT ![k] = "queued"]
      BY <1>1 DEF CreateQueuedItem
    <2>4. CASE items[k] = "absent"
      <3>1. Legal(k, "queued")
        BY <2>2, <2>3, <2>4 DEF Legal, ItemState
      <3>. QED
        BY <3>1 DEF Writes
    <2>5. CASE items[k] = "queued"
      BY <1>0, <2>2, <2>3, <2>5
    <2>. QED
      BY <2>2, <2>4, <2>5
  <1>2. ASSUME InStage(p)
        PROVE  Key(p) \in Run \X Execution \X Stage /\ items[Key(p)] = Item(p, job[p].stage)
               /\ Present(p)
    BY <1>2, StageFacts DEF Key, Item
  <1>3. ASSUME NewItem(p)
        PROVE  Legal(Key(p), "queued")
    BY <1>2, <1>3 DEF NewItem, InStage, Present, Legal, ItemState
  <1>4. ASSUME StartItem(p)
        PROVE  Legal(Key(p), "processing")
    BY <1>2, <1>4 DEF StartItem, InStage, Present, Legal, ItemState, Allowed
  <1>5. ASSUME CompleteItem(p)
        PROVE  Legal(Key(p), "completed")
    BY <1>2, <1>5 DEF CompleteItem, InStage, InBody, Present, Legal, ItemState, Allowed
  <1>6. ASSUME FailItem(p)
        PROVE  UNCHANGED items \/ Legal(Key(p), "failed")
    BY <1>2, <1>6 DEF FailItem, InStage, Present, Legal, ItemState, Allowed
  <1>7. \A v : Legal(Key(p), v) => Writes(p)
    BY DEF Writes
  <1>8. CASE Load(p) \/ UpdateGet(p) \/ UpdateCommit(p) \/ StageEvent(p) \/ RunEvent(p)
    BY <1>8 DEF Load, UpdateGet, UpdateCommit, StageEvent, RunEvent, trail
  <1>9. CASE InnerStep(p) \/ ErrorStep(p)
    BY <1>9 DEF InnerStep, ErrorStep, DbError, Discover, AddUrls, Extract, Upsert,
                SetValidator, Canonicalize, Score, Generate, SaveArtifact, trail
  <1>. QED
    BY <1>1, <1>3, <1>4, <1>5, <1>6, <1>7, <1>8, <1>9 DEF WorkStep, OuterStep

LEMMA LegalMoves ==
  ASSUME IInv, TrailInv, FirstInv, [Next]_vars
  PROVE  UNCHANGED items \/ \E k, v : Legal(k, v)
  <1>1. ASSUME NEW p \in Process, WorkStep(p)
        PROVE  UNCHANGED items \/ \E k, v : Legal(k, v)
    BY <1>1, LegalWork DEF Writes
  <1>2. ASSUME NEW a \in ApiThread, NEW r \in Run, CreateRun(a, r) PROVE UNCHANGED items
    BY <1>2 DEF CreateRun, trail
  <1>3. ASSUME NEW w \in Worker, VisibilityTimeout(w) PROVE UNCHANGED items
    BY <1>3 DEF VisibilityTimeout, trail
  <1>4. UNCHANGED Tables \/ UNCHANGED vars => UNCHANGED items
    BY DEF Tables, vars
  <1>. QED
    BY <1>1, <1>2, <1>3, <1>4, Moves

(* What is told of such a move.                                             *)
LEMMA NothingMoves ==
  ASSUME UNCHANGED items
  PROVE  Moved = {} /\ StateCalls = {} /\ StageCalls = {}
  BY DEF Moved, StateCalls, StageCalls

LEMMA OneMoves ==
  ASSUME TypeInv, NEW k, NEW v, Legal(k, v)
  PROVE  /\ Moved = {k} /\ items'[k] = v
         /\ StateCalls = {<<"state", items[k], v>>}
         /\ StageCalls = CASE v = "completed" -> {<<"stage", k[3], "success">>}
                           [] v = "failed" -> {<<"stage", k[3], "failure">>}
                           [] OTHER -> {}
  <1>1. items \in [Run \X Execution \X Stage -> ItemState]
    BY DEF TypeInv, TypeOK
  <1>2. items'[k] = v /\ Moved = {k}
    BY <1>1 DEF Legal, Moved
  <1>3. StateCalls = {<<"state", items[k], v>>}
    BY <1>2 DEF StateCalls
  <1>4. /\ v = "completed" => {m \in Moved : items'[m] = "completed"} = {k}
        /\ v # "completed" => {m \in Moved : items'[m] = "completed"} = {}
        /\ v = "failed" => {m \in Moved : items'[m] = "failed"} = {k}
        /\ v # "failed" => {m \in Moved : items'[m] = "failed"} = {}
    BY <1>2
  <1>. QED
    BY <1>2, <1>3, <1>4 DEF StageCalls

LEMMA CallKinds ==
  /\ \A s, t \in ItemState : s = "absent" \/ t \in Allowed(s) => <<"state", s, t>> \in Call
  /\ \A s \in Stage : /\ <<"stage", s, "success">> \in Call /\ <<"stage", s, "failure">> \in Call
                      /\ <<"duration", s>> \in Call
  /\ <<"run", "success">> \in Call /\ <<"run", "failure">> \in Call /\ Completed \in Call
  BY DEF Call, Ending

LEMMA OwedAreCalls ==
  ASSUME IInv, TrailInv, FirstInv, [Next]_vars, NEW p \in Process
  PROVE  StateCalls \union StageCalls \union DurationCalls(p) \union RunCalls(p) \subseteq Call
  <1>1. ASSUME NEW k, NEW v, Legal(k, v)
        PROVE  StateCalls \union StageCalls \subseteq Call
    <2>1. k[3] \in Stage /\ items[k] \in ItemState /\ v \in ItemState
          /\ (items[k] = "absent" \/ v \in Allowed(items[k]))
      BY <1>1 DEF Legal, IInv, TypeInv, TypeOK
    <2>2. <<"state", items[k], v>> \in Call
      BY <2>1, CallKinds
    <2>3. <<"stage", k[3], "success">> \in Call /\ <<"stage", k[3], "failure">> \in Call
      BY <2>1, CallKinds
    <2>. QED
      BY <1>1, <2>2, <2>3, OneMoves DEF IInv
  <1>2. StateCalls \union StageCalls \subseteq Call
    BY <1>1, LegalMoves, NothingMoves
  <1>3. DurationCalls(p) \subseteq Call
    <2>1. CASE pc[p] = "stage_event"
      BY <2>1, StageFacts, CallKinds DEF DurationCalls
    <2>2. CASE pc[p] # "stage_event"
      BY <2>2 DEF DurationCalls
    <2>. QED
      BY <2>1, <2>2
  <1>4. RunCalls(p) \subseteq Call
    BY CallKinds DEF RunCalls
  <1>. QED
    BY <1>2, <1>3, <1>4

LEMMA MeterTypeStep ==
  ASSUME IInv, TrailInv, FirstInv, MeterType, [MetricsNext]_<<vars, meterVars>>
  PROVE  MeterType'
  <1>1. ASSUME NEW p \in Process, Tells(p)
        PROVE  MeterType'
    <2>1. StateCalls \union StageCalls \union DurationCalls(p) \union RunCalls(p) \subseteq Call
      BY StepMetered, OwedAreCalls
    <2>2. due' \in [Process -> SUBSET Call]
      BY <1>1, <2>1 DEF Tells, Owe, MeterType
    <2>3. calls' \in [Call -> Nat]
      BY <1>1 DEF Tells, Make, MeterType
    <2>. QED
      BY <2>2, <2>3 DEF MeterType
  <1>2. ASSUME NEW P \in SUBSET Process, Dies(P)
        PROVE  MeterType'
    BY <1>2 DEF Dies, MeterType
  <1>3. Untold => MeterType'
    BY DEF Untold, meterVars, MeterType
  <1>. QED
    BY <1>1, <1>2, <1>3, MeterMoves DEF IInv

-----------------------------------------------------------------------------
(* A run counted as a success has five stages counted as successes.         *)

(* A process that was through stage s and may yet count the success of its  *)
(* run, or is about to: it has counted that of s, or owes it.               *)
RunTold == <<"run", "success">>
StageTold(s) == <<"stage", s, "success">>
Passed(p, s) == Executes(p) /\ pc[p] \notin {"run_event", "finish"} /\ Item(p, s) = "completed"
Promised(s) == {p \in Process : /\ RunTold \in due[p] \/ Passed(p, s)
                                /\ StageTold(s) \notin due[p]}
LastCall == \A p \in Process : RunTold \in due[p] =>
              pc[p] = "run_event" /\ \A s \in Stage : StageTold(s) \notin due[p]
AddUp(s) == /\ IsFiniteSet(Promised(s))
            /\ calls[RunTold] + Cardinality(Promised(s)) <= calls[StageTold(s)]
AddUpInv == LastCall /\ \A s \in Stage : AddUp(s)

LEMMA TellsStep ==
  ASSUME TypeInv, NEW p \in Process, Tells(p)
  PROVE  /\ WorkStep(p) \/ (Reset({p}) /\ UNCHANGED Tables)
         /\ \A q \in Process \ {p} : pc'[q] = pc[q]
  <1>1. Publish(p) \/ Finish(p) \/ PublishFails(p) => Reset({p}) /\ UNCHANGED Tables
    BY DEF Publish, Finish, PublishFails, Tables, trail, content
  <1>2. DbError(p) /\ pc[p] = "create_item" => Reset({p}) /\ UNCHANGED Tables
    BY DEF DbError, StageBody, StageUpdate, Tables, trail, content
  <1>3. DbError(p) /\ pc[p] # "create_item" => WorkStep(p)
    BY DEF WorkStep, ErrorStep
  <1>4. Advance(p) => WorkStep(p) \/ Publish(p) \/ Finish(p)
    BY DEF Advance, WorkStep, OuterStep, InnerStep
  <1>5. WorkStep(p) \/ (Reset({p}) /\ UNCHANGED Tables)
    BY <1>1, <1>2, <1>3, <1>4 DEF Tells
  <1>6. WorkStep(p) => \A q \in Process \ {p} : pc'[q] = pc[q]
    BY Working DEF Untouched
  <1>7. Reset({p}) => \A q \in Process \ {p} : pc'[q] = pc[q]
    BY DEF Reset
  <1>. QED
    BY <1>5, <1>6, <1>7

LEMMA EndStep ==
  ASSUME TypeInv, NEW p \in Process, WorkStep(p), pc[p] \in {"run_event", "finish"}
  PROVE  pc'[p] = "finish"
  <1>1. ~InnerStep(p)
    BY InnerFacts
  <1>2. CASE OuterStep(p)
    <2>1. RunEvent(p)
      BY <1>2 DEF OuterStep, CreateQueuedItem, Load, UpdateGet, UpdateCommit, NewItem, StartItem,
                  CompleteItem, FailItem, StageEvent
    <2>. QED
      BY <2>1, StepOf DEF RunEvent
  <1>3. CASE ErrorStep(p)
    <2>1. Goto(p, "finish")
      BY <1>3 DEF ErrorStep, DbError, StageBody, StageUpdate
    <2>. QED
      BY <2>1, StepOf
  <1>. QED
    BY <1>1, <1>2, <1>3 DEF WorkStep

LEMMA Passes ==
  ASSUME IInv, TrailInv, FirstInv, NEW p \in Process, WorkStep(p),
         NEW q \in Process, NEW s \in Stage, Passed(q, s)'
  PROVE  Passed(q, s) \/ (q = p /\ StageTold(s) \in StageCalls)
  <1>0. TypeInv /\ NumberOK(p) /\ NumberOK(q)
        /\ items \in [Run \X Execution \X Stage -> ItemState]
    BY DEF IInv, TypeInv, TypeOK, TrailInv
  <1>. DEFINE k == <<job[q].run, job[q].exec, s>>
  <1>1. job'[q].run = job[q].run /\ job'[q].exec = job[q].exec
    BY <1>0, Working DEF SameJob, Untouched
  <1>2. Executes(q) /\ items'[k] = "completed"
    BY <1>1 DEF Passed, Executes, Item
  <1>3. pc[q] \notin {"run_event", "finish"}
    <2>1. CASE q = p
      BY <1>0, <2>1, EndStep DEF Passed
    <2>2. CASE q # p
      BY <1>0, <2>2, Working DEF Passed, Untouched
    <2>. QED
      BY <2>1, <2>2
  <1>4. CASE items'[k] = items[k]
    BY <1>2, <1>3, <1>4 DEF Passed, Item
  <1>5. ASSUME NEW l, NEW v, Legal(l, v), l = Key(p) \/ (l[2] = 0 /\ v = "queued"),
               items'[k] # items[k]
        PROVE  q = p /\ StageTold(s) \in StageCalls
    <2>1. l = k /\ v = "completed"
      BY <1>0, <1>2, <1>5 DEF Legal
    <2>2. Key(p) = k
      BY <1>5, <2>1
    <2>3. job[p].run = job[q].run /\ job[p].exec = job[q].exec
      BY <2>2 DEF Key
    <2>4. q = p
      BY <1>0, <1>2, <2>3 DEF NumberOK, Executes
    <2>5. StageCalls = {<<"stage", l[3], "success">>}
      BY <1>0, <1>5, <2>1, OneMoves
    <2>. QED
      BY <2>1, <2>4, <2>5 DEF StageTold
  <1>. QED
    BY <1>4, <1>5, LegalWork DEF Writes

(* Nobody else gets through a stage, by a step that moves no item.          *)
LEMMA PassedStays ==
  ASSUME IInv, TrailInv, FirstInv, [Next]_vars, UNCHANGED items,
         NEW q \in Process, NEW s \in Stage, Passed(q, s)'
  PROVE  Passed(q, s)
  <1>0. TypeInv /\ NumberOK(q) /\ Executes(q)'
    BY DEF IInv, TrailInv, Passed
  <1>1. ASSUME NEW p \in Process, WorkStep(p) PROVE Passed(q, s)
    BY <1>1, Passes, NothingMoves
  <1>2. CASE pc'[q] = pc[q] /\ job'[q].run = job[q].run /\ job'[q].exec = job[q].exec
    BY <1>2 DEF Passed, Executes, Item
  <1>3. ASSUME NEW P \in SUBSET Process, Reset(P)
        PROVE  pc'[q] = pc[q] /\ job'[q].run = job[q].run /\ job'[q].exec = job[q].exec
    BY <1>0, <1>3 DEF Reset, NoJob, Executes
  <1>4. ASSUME NEW p \in Process, NEW r \in Run, NEW b \in BOOLEAN, Begin(p, r, b)
        PROVE  Passed(q, s)
    <2>1. CASE q = p
      <3>1. job'[q].run = r /\ job'[q].exec = execs[r] + 1
        BY <1>0, <1>4, <2>1, BeginCounts
      <3>2. execs[r] < MaxExec /\ execs[r] \in Execution
        BY <1>0, <1>4 DEF Begin, TypeInv, TypeOK
      <3>3. execs[r] + 1 \in Execution /\ execs[r] + 1 > execs[r]
        BY <3>2, BoundAssumption DEF Execution
      <3>4. items[<<r, execs[r] + 1, s>>] = "absent"
        BY <3>3 DEF TrailInv, Unwritten
      <3>. QED
        BY <3>1, <3>4 DEF Passed, Item
    <2>2. CASE q # p
      BY <1>0, <1>2, <1>4, <2>2, BeginCounts
    <2>. QED
      BY <2>1, <2>2
  <1>5. ASSUME NEW a \in ApiThread, NEW r \in Run, CreateRun(a, r)
        PROVE  pc'[q] = pc[q] /\ job'[q] = job[q]
    <2>1. /\ a \in Process /\ pc[a] = "idle" /\ job[a] \in Job
          /\ job' = [job EXCEPT ![a].run = r] /\ Goto(a, "create_item")
      BY <1>5 DEF CreateRun, Process, IInv, TypeInv, TypeOK
    <2>2. q # a
      <3>1. ASSUME q = a PROVE FALSE
        <4>1. job[q].exec = 0
          BY <1>0, <2>1, <3>1 DEF NumberOK, NoJob
        <4>2. job'[q] = [job[q] EXCEPT !.run = r]
          BY <2>1, <3>1 DEF IInv, TypeInv, TypeOK
        <4>3. job'[q].exec = 0
          BY <2>1, <3>1, <4>1, <4>2 DEF Job
        <4>. QED
          BY <1>0, <4>3 DEF Executes
      <3>. QED
        BY <3>1
    <2>. QED
      BY <1>0, <2>1, <2>2, StepOf DEF TypeInv, TypeOK
  <1>6. ASSUME NEW w \in Worker, VisibilityTimeout(w)
        PROVE  pc'[q] = pc[q] /\ job'[q].run = job[q].run /\ job'[q].exec = job[q].exec
    <2>1. /\ w \in Process /\ job[q] \in Job /\ job' = [job EXCEPT ![w].unacked = FALSE]
          /\ pc' = pc
      BY <1>6 DEF VisibilityTimeout, Process, IInv, TypeInv, TypeOK
    <2>2. job'[q] = job[q] \/ job'[q] = [job[q] EXCEPT !.unacked = FALSE]
      BY <1>0, <2>1 DEF TypeInv, TypeOK
    <2>. QED
      BY <2>1, <2>2 DEF Job
  <1>7. UNCHANGED vars => pc'[q] = pc[q] /\ job'[q] = job[q]
    BY DEF vars
  <1>. QED
    BY <1>1, <1>2, <1>3, <1>4, <1>5, <1>6, <1>7, Moves

(* A step by which a process has its success coming.                        *)
LEMMA RunCounted ==
  ASSUME IInv, TrailInv, NEW p \in Process, Tells(p), RunTold \in due'[p], MeterType
  PROVE  /\ pc'[p] = "run_event" /\ \A s \in Stage : Passed(p, s)
         /\ \A s \in Stage : StageTold(s) \notin due'[p]
  <1>1. due'[p] = StateCalls \union StageCalls \union DurationCalls(p) \union RunCalls(p)
    BY DEF Tells, Owe, MeterType
  <1>2. RunTold \notin StateCalls \union StageCalls \union DurationCalls(p)
    BY DEF RunTold, StateCalls, StageCalls, DurationCalls
  <1>3. RunTold \in RunCalls(p)
    BY <1>1, <1>2
  <1>4. /\ pc[p] = "update_commit" /\ pc'[p] = "run_event" /\ view[p].mem.status = "completed"
        /\ RunCalls(p) = {RunTold, Completed}
    BY <1>3 DEF RunCalls, RunTold, Completed
  <1>5. Executes(p)
    BY <1>4 DEF TrailInv, NumberOK
  <1>6. \A s \in Stage : Passed(p, s)
    BY <1>4, <1>5 DEF TrailInv, WholeWhenSaid, Done, Passed
  <1>7. UNCHANGED items
    <2>1. CASE WorkStep(p)
      <3>1. CASE InnerStep(p) \/ ErrorStep(p)
        BY <3>1 DEF InnerStep, ErrorStep, DbError, Discover, AddUrls, Extract, Upsert,
                  SetValidator, Canonicalize, Score, Generate, SaveArtifact, trail
      <3>2. CASE OuterStep(p)
        BY <1>4, <3>2 DEF OuterStep, CreateQueuedItem, Load, UpdateGet, UpdateCommit, NewItem,
                  StartItem, CompleteItem, FailItem, StageEvent, RunEvent, trail
      <3>. QED
        BY <2>1, <3>1, <3>2 DEF WorkStep
    <2>. QED
      BY <2>1, TellsStep DEF IInv, Tables
  <1>8. StageCalls = {} /\ StateCalls = {}
    BY <1>7, NothingMoves
  <1>9. \A s \in Stage : StageTold(s) \notin DurationCalls(p) \union RunCalls(p)
    BY <1>4 DEF StageTold, DurationCalls, RunTold, Completed
  <1>. QED
    BY <1>1, <1>4, <1>6, <1>8, <1>9

LEMMA LastCallStep ==
  ASSUME IInv, TrailInv, MeterType, LastCall, [MetricsNext]_<<vars, meterVars>>
  PROVE  LastCall'
  <1>0. TypeInv
    BY DEF IInv
  <1>. SUFFICES ASSUME NEW q \in Process, RunTold \in due'[q]
                PROVE  pc'[q] = "run_event" /\ \A s \in Stage : StageTold(s) \notin due'[q]
    BY DEF LastCall
  <1>1. ASSUME NEW p \in Process, Tells(p)
        PROVE  pc'[q] = "run_event" /\ \A s \in Stage : StageTold(s) \notin due'[q]
    <2>1. CASE q = p
      BY <1>1, <2>1, RunCounted
    <2>2. CASE q # p
      <3>1. due'[q] = due[q] /\ pc'[q] = pc[q]
        BY <1>0, <1>1, <2>2, TellsStep DEF Tells, Owe, MeterType
      <3>. QED
        BY <3>1 DEF LastCall
    <2>. QED
      BY <2>1, <2>2
  <1>2. ASSUME NEW P \in SUBSET Process, Dies(P)
        PROVE  pc'[q] = pc[q] /\ due'[q] = due[q]
    BY <1>2 DEF Dies, Reset
  <1>3. CASE Untold
    BY <1>3 DEF Untold, meterVars, LastCall
  <1>. QED
    BY <1>0, <1>1, <1>2, <1>3, MeterMoves DEF LastCall

(* Who promises something, and what is counted, after a step of p.          *)
LEMMA PromisesKept ==
  ASSUME IInv, TrailInv, FirstInv, MeterType, [MetricsNext]_<<vars, meterVars>>,
         NEW s \in Stage, NEW p \in Process, Tells(p)
  PROVE  /\ Promised(s)' \ {p} \subseteq Promised(s) \ {p}
         /\ Passed(p, s)' => Passed(p, s) \/ StageTold(s) \in due'[p]
         /\ calls'[RunTold] = IF RunTold \in due[p] THEN calls[RunTold] + 1 ELSE calls[RunTold]
         /\ calls'[StageTold(s)] = IF StageTold(s) \in due[p] THEN calls[StageTold(s)] + 1
                                   ELSE calls[StageTold(s)]
  <1>0. TypeInv
    BY DEF IInv
  <1>1. /\ due'[p] = StateCalls \union StageCalls \union DurationCalls(p) \union RunCalls(p)
        /\ \A q \in Process \ {p} : due'[q] = due[q]
    BY DEF Tells, Owe, MeterType
  <1>2. ASSUME NEW q \in Process, Passed(q, s)'
        PROVE  Passed(q, s) \/ (q = p /\ StageTold(s) \in StageCalls)
    <2>1. CASE WorkStep(p)
      BY <1>2, <2>1, Passes
    <2>2. CASE UNCHANGED Tables
      BY <1>2, <2>2, StepMetered, PassedStays DEF Tables
    <2>. QED
      BY <1>0, <2>1, <2>2, TellsStep
  <1>3. ASSUME NEW q \in Promised(s)', q # p
        PROVE  q \in Promised(s)
    BY <1>1, <1>2, <1>3 DEF Promised
  <1>4. RunTold \in Call /\ StageTold(s) \in Call /\ RunTold # Completed /\ StageTold(s) # Completed
    BY CallKinds DEF RunTold, StageTold, Completed
  <1>5. ASSUME NEW c \in Call, c # Completed
        PROVE  calls'[c] = IF c \in due[p] THEN calls[c] + 1 ELSE calls[c]
    BY <1>5 DEF Tells, Make
  <1>. QED
    BY <1>1, <1>2, <1>3, <1>4, <1>5

(* Adding and removing one process.                                         *)
LEMMA CountOne ==
  ASSUME NEW S, NEW x, IsFiniteSet(S)
  PROVE  /\ IsFiniteSet(S \ {x}) /\ Cardinality(S \ {x}) \in Nat /\ Cardinality(S) \in Nat
         /\ Cardinality(S) = Cardinality(S \ {x}) + (IF x \in S THEN 1 ELSE 0)
  <1>1. IsFiniteSet(S \ {x}) /\ Cardinality(S \ {x}) \in Nat /\ Cardinality(S) \in Nat
    BY FS_RemoveElement, FS_CardinalityType
  <1>2. CASE x \in S
    <2>1. Cardinality(S \ {x}) = Cardinality(S) - 1
      BY <1>2, FS_RemoveElement
    <2>. QED
      BY <1>1, <1>2, <2>1
  <1>3. CASE x \notin S
    <2>1. Cardinality(S \ {x}) = Cardinality(S)
      BY <1>3, FS_RemoveElement
    <2>. QED
      BY <1>1, <1>3, <2>1
  <1>. QED
    BY <1>1, <1>2, <1>3

LEMMA CountOthers ==
  ASSUME NEW S, NEW T, NEW x, IsFiniteSet(S), T \ {x} \subseteq S \ {x}
  PROVE  /\ IsFiniteSet(T) /\ Cardinality(T \ {x}) <= Cardinality(S \ {x})
  <1>1. IsFiniteSet(S \ {x})
    BY FS_RemoveElement
  <1>2. IsFiniteSet(T \ {x}) /\ Cardinality(T \ {x}) <= Cardinality(S \ {x})
    BY <1>1, FS_Subset
  <1>3. IsFiniteSet((T \ {x}) \union {x})
    BY <1>2, FS_AddElement
  <1>4. T \in SUBSET ((T \ {x}) \union {x})
    OBVIOUS
  <1>5. IsFiniteSet(T)
    BY <1>3, <1>4, FS_Subset
  <1>. QED
    BY <1>2, <1>5

LEMMA AddUpStep ==
  ASSUME IInv, TrailInv, FirstInv, MeterType, AddUpInv, [MetricsNext]_<<vars, meterVars>>
  PROVE  AddUpInv'
  <1>0. TypeInv
    BY DEF IInv
  <1>. SUFFICES ASSUME NEW s \in Stage
                PROVE  AddUp(s)'
    BY LastCallStep DEF AddUpInv
  <1>. DEFINE S == Promised(s)
              T == Promised(s)'
  <1>1. /\ IsFiniteSet(S) /\ calls[RunTold] + Cardinality(S) <= calls[StageTold(s)]
        /\ calls[RunTold] \in Nat /\ calls[StageTold(s)] \in Nat
    BY CallKinds DEF AddUpInv, AddUp, MeterType, RunTold, StageTold
  <1>2. CASE T \subseteq S /\ UNCHANGED calls
    <2>1. IsFiniteSet(T) /\ Cardinality(T) <= Cardinality(S)
      BY <1>1, <1>2, FS_Subset
    <2>2. Cardinality(T) \in Nat /\ Cardinality(S) \in Nat
      BY <1>1, <2>1, FS_CardinalityType
    <2>3. calls[RunTold] + Cardinality(T) <= calls[StageTold(s)]
      BY <1>1, <2>1, <2>2
    <2>. QED
      BY <1>2, <2>1, <2>3 DEF AddUp, RunTold, StageTold
  <1>3. ASSUME NEW p \in Process, Tells(p)
        PROVE  AddUp(s)'
    <2>1. T \ {p} \subseteq S \ {p}
      BY <1>3, PromisesKept
    <2>2. IsFiniteSet(T) /\ Cardinality(T \ {p}) <= Cardinality(S \ {p})
      BY <1>1, <2>1, CountOthers
    <2>3. /\ Cardinality(S) = Cardinality(S \ {p}) + (IF p \in S THEN 1 ELSE 0)
          /\ Cardinality(T) = Cardinality(T \ {p}) + (IF p \in T THEN 1 ELSE 0)
          /\ Cardinality(S \ {p}) \in Nat /\ Cardinality(T \ {p}) \in Nat
      BY <1>1, <2>2, CountOne
    <2>4. /\ RunTold \in due[p] => StageTold(s) \notin due[p] /\ p \in S
          /\ StageTold(s) \in due[p] => p \notin S
      BY DEF AddUpInv, LastCall, Promised
    <2>5. p \in T => StageTold(s) \in due[p] \/ (p \in S /\ RunTold \notin due[p])
      <3>1. CASE RunTold \in due[p]
        <4>1. pc[p] = "run_event"
          BY <3>1 DEF AddUpInv, LastCall
        <4>2. RunTold \notin due'[p]
          BY <1>3, <4>1, RunCounted DEF Passed, Stage, LastStage
        <4>3. ~Passed(p, s)'
          <5>1. CASE WorkStep(p)
            BY <1>0, <4>1, <5>1, EndStep DEF Passed
          <5>2. CASE Reset({p})
            BY <5>2 DEF Reset, NoJob, Passed, Executes
          <5>. QED
            BY <1>0, <1>3, <5>1, <5>2, TellsStep
        <4>. QED
          BY <4>2, <4>3 DEF Promised
      <3>2. CASE RunTold \notin due[p] /\ StageTold(s) \notin due[p]
        <4>1. p \in T => Passed(p, s)
          BY <1>3, PromisesKept, RunCounted DEF Promised
        <4>. QED
          BY <3>2, <4>1 DEF Promised
      <3>. QED
        BY <3>1, <3>2
    <2>6. /\ calls'[RunTold] = IF RunTold \in due[p] THEN calls[RunTold] + 1 ELSE calls[RunTold]
          /\ calls'[StageTold(s)] = IF StageTold(s) \in due[p] THEN calls[StageTold(s)] + 1
                                    ELSE calls[StageTold(s)]
      BY <1>3, PromisesKept
    <2>7. calls'[RunTold] + Cardinality(T) <= calls'[StageTold(s)]
      <3>. DEFINE a == calls[RunTold]
                  b == calls[StageTold(s)]
                  m == Cardinality(S \ {p})
                  n == Cardinality(T \ {p})
      <3>1. /\ a \in Nat /\ b \in Nat /\ m \in Nat /\ n \in Nat /\ n <= m
            /\ a + (m + (IF p \in S THEN 1 ELSE 0)) <= b
        BY <1>1, <2>2, <2>3
      <3>2. Cardinality(T) = n + (IF p \in T THEN 1 ELSE 0)
        BY <2>3
      <3>3. /\ calls'[RunTold] = IF RunTold \in due[p] THEN a + 1 ELSE a
            /\ calls'[StageTold(s)] = IF StageTold(s) \in due[p] THEN b + 1 ELSE b
        BY <2>6
      <3>. HIDE DEF a, b, m, n
      <3>. QED
        BY <2>4, <2>5, <3>1, <3>2, <3>3
    <2>. QED
      BY <2>2, <2>7 DEF AddUp, RunTold, StageTold
  <1>4. ASSUME NEW P \in SUBSET Process, Dies(P)
        PROVE  T \subseteq S /\ UNCHANGED calls
    <2>1. UNCHANGED calls /\ UNCHANGED items
      BY <1>4 DEF Dies, Tables
    <2>2. ASSUME NEW q \in T
          PROVE  q \in S
      <3>1. q \in Process /\ (Passed(q, s)' => Passed(q, s))
        BY <2>1, StepMetered, PassedStays DEF Promised
      <3>2. q \in P => due'[q] = {} /\ ~Passed(q, s)'
        BY <1>4, <3>1 DEF Dies, Reset, NoJob, Passed, Executes
      <3>3. q \notin P => due'[q] = due[q]
        BY <1>4, <3>1 DEF Dies
      <3>. QED
        BY <3>1, <3>2, <3>3 DEF Promised
    <2>. QED
      BY <2>1, <2>2
  <1>5. ASSUME Untold
        PROVE  T \subseteq S /\ UNCHANGED calls
    <2>1. UNCHANGED <<calls, due, items>>
      BY <1>5 DEF Untold, meterVars
    <2>. QED
      BY <2>1, StepMetered, PassedStays DEF Promised
  <1>. QED
    BY <1>0, <1>2, <1>3, <1>4, <1>5, MeterMoves

LEMMA InitAddUp == MetricsInit => MeterType /\ AddUpInv
  <1>. SUFFICES ASSUME MetricsInit
                PROVE  MeterType /\ AddUpInv
    OBVIOUS
  <1>1. MeterType
    BY DEF MetricsInit, MeterType
  <1>2. LastCall /\ \A s \in Stage : Promised(s) = {}
    BY DEF MetricsInit, Init, LastCall, Promised, Passed, Executes, NoJob
  <1>3. \A s \in Stage : calls[RunTold] = 0 /\ calls[StageTold(s)] = 0
    BY CallKinds DEF MetricsInit, RunTold, StageTold
  <1>. QED
    BY <1>1, <1>2, <1>3, FS_EmptySet DEF AddUpInv, AddUp

LEMMA AddUpAlways == MetricsSpec => [](MeterType /\ AddUpInv)
  <1>1. IInv /\ TrailInv /\ FirstInv /\ MeterType /\ AddUpInv /\ [MetricsNext]_<<vars, meterVars>>
        => (MeterType /\ AddUpInv)'
    BY MeterTypeStep, AddUpStep
  <1>. QED
    BY <1>1, InitAddUp, MeteredAlways, PTL DEF MetricsSpec

(* A run counted as a success has five stages counted as successes, none of *)
(* them for two runs, whoever ran them and whatever died in between: a      *)
(* process makes the calls of a step before it takes the next, so it counts *)
(* the run only after its five stages.                                      *)
THEOREM SuccessesHaveStages == MetricsSpec => []SuccessesAddUp
  <1>1. MeterType /\ AddUpInv => SuccessesAddUp
    <2>. SUFFICES ASSUME MeterType, AddUpInv, NEW s \in Stage
                  PROVE  calls[<<"run", "success">>] <= calls[<<"stage", s, "success">>]
      BY DEF SuccessesAddUp
    <2>1. calls[RunTold] + Cardinality(Promised(s)) <= calls[StageTold(s)]
          /\ Cardinality(Promised(s)) \in Nat
      BY FS_CardinalityType DEF AddUpInv, AddUp
    <2>2. calls[RunTold] \in Nat /\ calls[StageTold(s)] \in Nat
      BY CallKinds DEF MeterType, RunTold, StageTold
    <2>3. calls[RunTold] <= calls[StageTold(s)]
      BY <2>1, <2>2
    <2>. QED
      BY <2>3 DEF RunTold, StageTold
  <1>. QED
    BY <1>1, AddUpAlways, PTL

-----------------------------------------------------------------------------
(* The gauge of a state agrees with the table.                              *)

Owers(c) == {p \in Process : c \in due[p]}
Rows(s) == {k \in DOMAIN items : items[k] = s}
StateTold(o, s) == <<"state", o, s>>
NobodyDied == ~Lost("crash") /\ ~Lost("api_crash")
GaugeInv ==
  /\ \A o, s \in ItemState : IsFiniteSet(Owers(StateTold(o, s)))
  /\ \A s \in ItemState \ {"absent"} : IsFiniteSet(Rows(s))
  /\ NobodyDied => GaugeMatchesTable

LEMMA DeathIsFinal ==
  ASSUME TypeInv, [Next]_vars, NobodyDied'
  PROVE  NobodyDied
  <1>1. {"crash", "api_crash"} \subseteq Budget
    BY DEF Budget
  <1>. QED
    BY <1>1, NothingRefunded DEF NobodyDied, Lost

LEMMA ToldNat ==
  ASSUME MeterType, NEW o \in ItemState, NEW s \in ItemState, IsFiniteSet(Owers(StateTold(o, s)))
  PROVE  Told(StateTold(o, s)) \in Nat
  <1>. DEFINE c == StateTold(o, s)
  <1>1. Cardinality(Owers(c)) \in Nat
    BY FS_CardinalityType
  <1>. HIDE DEF c
  <1>2. c \in Call => calls[c] \in Nat
    BY DEF MeterType
  <1>3. c \in Call => Told(c) \in Nat
    BY <1>1, <1>2 DEF Told, Owed, Owers
  <1>4. c \notin Call => Told(c) = 0
    BY DEF Told
  <1>5. Told(c) \in Nat
    BY <1>3, <1>4
  <1>. QED
    BY <1>5 DEF c

(* A step of p makes the calls p owed and owes new ones: each is told once  *)
(* more.                                                                    *)
LEMMA ToldStep ==
  ASSUME MeterType, NEW p \in Process, Tells(p), NEW c \in Call, c # Completed,
         IsFiniteSet(Owers(c))
  PROVE  /\ IsFiniteSet(Owers(c)')
         /\ Told(c)' = Told(c) + (IF c \in due'[p] THEN 1 ELSE 0)
  <1>. DEFINE S == Owers(c)
              T == Owers(c)'
  <1>1. \A q \in Process \ {p} : due'[q] = due[q]
    BY DEF Tells, Owe, MeterType
  <1>2. T \ {p} \subseteq S \ {p} /\ S \ {p} \subseteq T \ {p}
    BY <1>1 DEF Owers
  <1>3. IsFiniteSet(T) /\ Cardinality(T \ {p}) <= Cardinality(S \ {p})
    BY <1>2, CountOthers
  <1>4. Cardinality(S \ {p}) <= Cardinality(T \ {p})
    BY <1>2, <1>3, CountOthers
  <1>5. /\ Cardinality(S) = Cardinality(S \ {p}) + (IF p \in S THEN 1 ELSE 0)
        /\ Cardinality(T) = Cardinality(T \ {p}) + (IF p \in T THEN 1 ELSE 0)
        /\ Cardinality(S \ {p}) \in Nat /\ Cardinality(T \ {p}) \in Nat
    BY <1>3, CountOne
  <1>6. (p \in S <=> c \in due[p]) /\ (p \in T <=> c \in due'[p])
    BY DEF Owers
  <1>7. calls'[c] = IF c \in due[p] THEN calls[c] + 1 ELSE calls[c]
    BY DEF Tells, Make
  <1>8. calls[c] \in Nat
    BY DEF MeterType
  <1>9. Told(c) = calls[c] + Cardinality(S) /\ Told(c)' = calls'[c] + Cardinality(T)
    BY DEF Told, Owed, Owers
  <1>10. Told(c)' = Told(c) + (IF c \in due'[p] THEN 1 ELSE 0)
    <2>. DEFINE m == Cardinality(S \ {p})
                n == Cardinality(T \ {p})
                in == p \in S
                out == p \in T
    <2>1. m \in Nat /\ n \in Nat /\ m = n
      BY <1>3, <1>4, <1>5
    <2>2. Cardinality(S) = m + (IF in THEN 1 ELSE 0) /\ Cardinality(T) = n + (IF out THEN 1 ELSE 0)
      BY <1>5
    <2>3. calls'[c] = calls[c] + (IF in THEN 1 ELSE 0)
      BY <1>6, <1>7, <1>8
    <2>4. Told(c)' = Told(c) + (IF out THEN 1 ELSE 0)
      <3>. HIDE DEF m, n, in, out
      <3>. QED
        BY <1>8, <1>9, <2>1, <2>2, <2>3
    <2>. QED
      BY <1>6, <2>4
  <1>. QED
    BY <1>3, <1>10

(* What is told of the states after such a step.                            *)
LEMMA StatesTold ==
  ASSUME IInv, TrailInv, FirstInv, MeterType, [MetricsNext]_<<vars, meterVars>>,
         NEW p \in Process, Tells(p), NEW o \in ItemState, NEW s \in ItemState,
         IsFiniteSet(Owers(StateTold(o, s)))
  PROVE  /\ IsFiniteSet(Owers(StateTold(o, s))')
         /\ Told(StateTold(o, s))'
              = Told(StateTold(o, s)) + (IF StateTold(o, s) \in StateCalls THEN 1 ELSE 0)
  <1>. DEFINE c == StateTold(o, s)
  <1>1. due' = [due EXCEPT ![p] = StateCalls \union StageCalls \union DurationCalls(p) \union RunCalls(p)]
    BY DEF Tells, Owe
  <1>2. c \notin StageCalls \union DurationCalls(p) \union RunCalls(p) /\ c # Completed
    BY DEF StageCalls, DurationCalls, RunCalls, Completed, StateTold
  <1>3. c \in due'[p] <=> c \in StateCalls
    BY <1>1, <1>2 DEF MeterType
  <1>4. StateCalls \subseteq Call
    BY StepMetered, OwedAreCalls
  <1>5. CASE c \in Call
    BY <1>2, <1>3, <1>5, ToldStep
  <1>6. CASE c \notin Call
    <2>1. c \notin StateCalls /\ Told(c) = 0 /\ Told(c)' = 0
      BY <1>4, <1>6 DEF Told
    <2>2. Owers(c)' \subseteq Owers(c)
      BY <1>3, <1>1, <2>1 DEF Owers, MeterType
    <2>3. IsFiniteSet(Owers(c)')
      BY <2>2, FS_Subset
    <2>. QED
      BY <2>1, <2>3
  <1>. QED
    BY <1>5, <1>6

(* A step that moves one item from state o to state v.                      *)
LEMMA GaugeMoves ==
  ASSUME IInv, TrailInv, FirstInv, MeterType, GaugeInv, [MetricsNext]_<<vars, meterVars>>,
         NEW p \in Process, Tells(p), NEW s \in ItemState,
         NEW o \in ItemState, NEW v \in ItemState,
         StateCalls = {StateTold(o, v)} \/ StateCalls = {}
  PROVE  LET told == IF StateCalls = {} THEN 0 ELSE 1
         IN  /\ Entered(s)' = Entered(s) + (IF s = v THEN told ELSE 0)
             /\ Left(s)' = Left(s) + (IF s = o THEN told ELSE 0)
             /\ Entered(s) \in Nat /\ Left(s) \in Nat
  <1>. DEFINE told == IF StateCalls = {} THEN 0 ELSE 1
              F(x) == Told(StateTold(x, s))
              G(x) == Told(StateTold(s, x))
  <1>0. told \in {0, 1}
    OBVIOUS
  <1>1. \A x \in ItemState : F(x) \in Nat /\ G(x) \in Nat
    BY ToldNat DEF GaugeInv
  <1>2. \A x, y \in ItemState : StateTold(x, y) \in StateCalls <=> told = 1 /\ x = o /\ y = v
    BY DEF StateTold
  <1>3. \A x \in ItemState : F(x)' = F(x) + (IF x = o /\ s = v THEN told ELSE 0)
    <2>. SUFFICES ASSUME NEW x \in ItemState
                  PROVE  F(x)' = F(x) + (IF x = o /\ s = v THEN told ELSE 0)
      OBVIOUS
    <2>1. F(x)' = F(x) + (IF StateTold(x, s) \in StateCalls THEN 1 ELSE 0)
      BY StatesTold DEF GaugeInv
    <2>2. (IF StateTold(x, s) \in StateCalls THEN 1 ELSE 0) = (IF x = o /\ s = v THEN told ELSE 0)
      BY <1>0, <1>2
    <2>. QED
      BY <2>1, <2>2
  <1>4. \A x \in ItemState : G(x)' = G(x) + (IF s = o /\ x = v THEN told ELSE 0)
    <2>. SUFFICES ASSUME NEW x \in ItemState
                  PROVE  G(x)' = G(x) + (IF s = o /\ x = v THEN told ELSE 0)
      OBVIOUS
    <2>1. G(x)' = G(x) + (IF StateTold(s, x) \in StateCalls THEN 1 ELSE 0)
      BY StatesTold DEF GaugeInv
    <2>2. (IF StateTold(s, x) \in StateCalls THEN 1 ELSE 0) = (IF s = o /\ x = v THEN told ELSE 0)
      BY <1>0, <1>2
    <2>. QED
      BY <2>1, <2>2
  <1>5. /\ Entered(s) = F("absent") + F("queued") + F("processing") + F("completed") + F("failed")
        /\ Left(s) = G("absent") + G("queued") + G("processing") + G("completed") + G("failed")
    BY DEF Entered, Left, SumOf, StateTold, ItemState
  <1>6. /\ Entered(s)' = F("absent")' + F("queued")' + F("processing")' + F("completed")' + F("failed")'
        /\ Left(s)' = G("absent")' + G("queued")' + G("processing")' + G("completed")' + G("failed")'
    BY DEF Entered, Left, SumOf, StateTold, ItemState
  <1>7. ItemState = {"absent", "queued", "processing", "completed", "failed"}
    BY DEF ItemState
  <1>. HIDE DEF told, F, G
  <1>8. Entered(s) \in Nat /\ Left(s) \in Nat
    BY <1>1, <1>5, <1>7
  <1>9. Entered(s)' = Entered(s) + (IF s = v THEN told ELSE 0)
    BY <1>0, <1>1, <1>3, <1>5, <1>6, <1>7
  <1>10. Left(s)' = Left(s) + (IF s = o THEN told ELSE 0)
    BY <1>0, <1>1, <1>4, <1>5, <1>6, <1>7
  <1>. QED
    BY <1>8, <1>9, <1>10 DEF told

LEMMA RowsMove ==
  ASSUME TypeInv, NEW k, NEW v, Legal(k, v), NEW s \in ItemState, IsFiniteSet(Rows(s))
  PROVE  /\ IsFiniteSet(Rows(s)')
         /\ Cardinality(Rows(s)) \in Nat
         /\ Cardinality(Rows(s))' = IF s = v THEN Cardinality(Rows(s)) + 1
                                    ELSE IF s = items[k] THEN Cardinality(Rows(s)) - 1
                                    ELSE Cardinality(Rows(s))
  <1>. DEFINE S == Rows(s)
              T == Rows(s)'
  <1>1. /\ k \in DOMAIN items /\ DOMAIN items' = DOMAIN items /\ items'[k] = v /\ items[k] # v
        /\ \A m \in DOMAIN items \ {k} : items'[m] = items[m]
    BY DEF Legal, TypeInv, TypeOK
  <1>2. T \ {k} \subseteq S \ {k} /\ S \ {k} \subseteq T \ {k}
    BY <1>1 DEF Rows
  <1>3. IsFiniteSet(T) /\ Cardinality(T \ {k}) <= Cardinality(S \ {k})
    BY <1>2, CountOthers
  <1>4. Cardinality(S \ {k}) <= Cardinality(T \ {k})
    BY <1>2, <1>3, CountOthers
  <1>5. /\ Cardinality(S) = Cardinality(S \ {k}) + (IF k \in S THEN 1 ELSE 0)
        /\ Cardinality(T) = Cardinality(T \ {k}) + (IF k \in T THEN 1 ELSE 0)
        /\ Cardinality(S \ {k}) \in Nat /\ Cardinality(T \ {k}) \in Nat /\ Cardinality(S) \in Nat
    BY <1>3, CountOne
  <1>6. (k \in S <=> s = items[k]) /\ (k \in T <=> s = v)
    BY <1>1 DEF Rows
  <1>7. Cardinality(T) = IF s = v THEN Cardinality(S) + 1
                         ELSE IF s = items[k] THEN Cardinality(S) - 1 ELSE Cardinality(S)
    <2>. DEFINE m == Cardinality(S \ {k})
                n == Cardinality(T \ {k})
    <2>1. m \in Nat /\ n \in Nat /\ m = n
      BY <1>3, <1>4, <1>5
    <2>2. /\ Cardinality(S) = m + (IF s = items[k] THEN 1 ELSE 0)
          /\ Cardinality(T) = n + (IF s = v THEN 1 ELSE 0)
      BY <1>5, <1>6
    <2>. HIDE DEF m, n, S, T
    <2>. QED
      BY <1>1, <2>1, <2>2
  <1>8. Cardinality(Rows(s))' = Cardinality(T)
    BY DEF Rows
  <1>. QED
    BY <1>3, <1>5, <1>7, <1>8

LEMMA GaugeStep ==
  ASSUME IInv, TrailInv, FirstInv, MeterType, GaugeInv, [MetricsNext]_<<vars, meterVars>>
  PROVE  GaugeInv'
  <1>0. TypeInv /\ [Next]_vars
    BY StepMetered DEF IInv
  <1>1. ASSUME NEW p \in Process, Tells(p)
        PROVE  GaugeInv'
    <2>1. \A o, s \in ItemState : IsFiniteSet(Owers(StateTold(o, s))')
      BY <1>1, StatesTold DEF GaugeInv
    <2>2. CASE UNCHANGED items
      <3>1. StateCalls = {} /\ \A s \in ItemState : Rows(s)' = Rows(s)
        BY <2>2, NothingMoves DEF Rows
      <3>2. \A s \in ItemState : Entered(s)' = Entered(s) /\ Left(s)' = Left(s)
        <4>. SUFFICES ASSUME NEW s \in ItemState
                      PROVE  Entered(s)' = Entered(s) /\ Left(s)' = Left(s)
          OBVIOUS
        <4>1. "absent" \in ItemState
          BY DEF ItemState
        <4>. QED
          BY <1>1, <3>1, <4>1, GaugeMoves
      <3>3. \A s \in ItemState : Gauge(s)' = Gauge(s)
        BY <3>2 DEF Gauge
      <3>4. NobodyDied' => GaugeMatchesTable'
        <4>. SUFFICES ASSUME NobodyDied', NEW s \in ItemState \ {"absent"}
                      PROVE  Gauge(s)' = Cardinality(Rows(s))'
          BY DEF GaugeMatchesTable, Rows
        <4>1. Gauge(s) = Cardinality(Rows(s))
          BY <1>0, DeathIsFinal DEF GaugeInv, GaugeMatchesTable, NobodyDied, Rows
        <4>2. Cardinality(Rows(s))' = Cardinality(Rows(s))
          BY <2>2 DEF Rows
        <4>. QED
          BY <3>3, <4>1, <4>2
      <3>. QED
        BY <2>1, <3>1, <3>4 DEF GaugeInv
    <2>3. ASSUME NEW k, NEW v, Legal(k, v)
          PROVE  GaugeInv'
      <3>. DEFINE o == items[k]
      <3>1. o \in ItemState /\ v \in ItemState /\ o # v /\ v # "absent"
        BY <1>0, <2>3 DEF Legal, TypeInv, TypeOK, Allowed
      <3>2. StateCalls = {StateTold(o, v)}
        BY <1>0, <2>3, OneMoves DEF StateTold
      <3>. HIDE DEF o
      <3>3. ASSUME NEW s \in ItemState
            PROVE  /\ Entered(s)' = Entered(s) + (IF s = v THEN 1 ELSE 0)
                   /\ Left(s)' = Left(s) + (IF s = o THEN 1 ELSE 0)
                   /\ Entered(s) \in Nat /\ Left(s) \in Nat
        <4>1. StateCalls # {}
          BY <3>2
        <4>. QED
          BY <1>1, <3>1, <3>2, <4>1, GaugeMoves
      <3>4. \A s \in ItemState \ {"absent"} : IsFiniteSet(Rows(s)')
        BY <1>0, <2>3, RowsMove DEF GaugeInv
      <3>5. NobodyDied' => GaugeMatchesTable'
        <4>. SUFFICES ASSUME NobodyDied', NEW s \in ItemState \ {"absent"}
                      PROVE  Gauge(s)' = Cardinality(Rows(s))'
          BY DEF GaugeMatchesTable, Rows
        <4>1. Gauge(s) = Cardinality(Rows(s))
          BY <1>0, DeathIsFinal DEF GaugeInv, GaugeMatchesTable, NobodyDied, Rows
        <4>2. /\ Cardinality(Rows(s)) \in Nat
              /\ Cardinality(Rows(s))' = IF s = v THEN Cardinality(Rows(s)) + 1
                                         ELSE IF s = o THEN Cardinality(Rows(s)) - 1
                                         ELSE Cardinality(Rows(s))
          BY <1>0, <2>3, RowsMove DEF GaugeInv, o
        <4>3. Gauge(s) = Entered(s) - Left(s) /\ Gauge(s)' = Entered(s)' - Left(s)'
          BY DEF Gauge
        <4>. QED
          BY <3>1, <3>3, <4>1, <4>2, <4>3
      <3>. QED
        BY <2>1, <3>4, <3>5 DEF GaugeInv
    <2>. QED
      BY <1>0, <2>2, <2>3, LegalMoves
  <1>2. ASSUME NEW P \in SUBSET Process, Dies(P)
        PROVE  GaugeInv'
    <2>1. \A c : Owers(c)' \subseteq Owers(c)
      BY <1>2 DEF Dies, Owers
    <2>2. \A o, s \in ItemState : IsFiniteSet(Owers(StateTold(o, s))')
      BY <2>1, FS_Subset DEF GaugeInv
    <2>3. \A s \in ItemState : Rows(s)' = Rows(s)
      BY <1>2 DEF Dies, Tables, Rows
    <2>4. ~NobodyDied'
      BY <1>2 DEF Dies, NobodyDied
    <2>. QED
      BY <2>2, <2>3, <2>4 DEF GaugeInv
  <1>3. CASE Untold
    <2>1. UNCHANGED <<calls, due, items>>
      BY <1>3 DEF Untold, meterVars
    <2>2. \A c : Owers(c)' = Owers(c)
      BY <2>1 DEF Owers
    <2>3. \A s \in ItemState : Rows(s)' = Rows(s)
      BY <2>1 DEF Rows
    <2>4. \A s \in ItemState : Gauge(s)' = Gauge(s)
      BY <2>1 DEF Gauge, Entered, Left, Told, Owed
    <2>5. NobodyDied' => GaugeMatchesTable'
      <3>. SUFFICES ASSUME NobodyDied', NEW s \in ItemState \ {"absent"}
                    PROVE  Gauge(s)' = Cardinality(Rows(s))'
        BY DEF GaugeMatchesTable, Rows
      <3>1. Gauge(s) = Cardinality(Rows(s))
        BY <1>0, DeathIsFinal DEF GaugeInv, GaugeMatchesTable, NobodyDied, Rows
      <3>2. Cardinality(Rows(s))' = Cardinality(Rows(s))
        BY <2>1 DEF Rows
      <3>. QED
        BY <2>4, <3>1, <3>2
    <2>. QED
      BY <2>2, <2>3, <2>5 DEF GaugeInv
  <1>. QED
    BY <1>0, <1>1, <1>2, <1>3, MeterMoves

LEMMA InitGauge == MetricsInit => GaugeInv
  <1>. SUFFICES ASSUME MetricsInit
                PROVE  GaugeInv
    OBVIOUS
  <1>1. \A c : Owers(c) = {}
    BY DEF MetricsInit, Owers
  <1>2. \A s \in ItemState \ {"absent"} : Rows(s) = {}
    BY DEF MetricsInit, Init, Rows
  <1>3. \A c : Owed(c) = 0
    BY <1>1, FS_EmptySet DEF Owed, Owers
  <1>4. \A c : Told(c) = 0
    BY <1>3 DEF Told, MetricsInit
  <1>5. \A s : Gauge(s) = 0
    BY <1>4 DEF Gauge, Entered, Left, SumOf, ItemState
  <1>6. GaugeMatchesTable
    BY <1>2, <1>5, FS_EmptySet DEF GaugeMatchesTable, Rows
  <1>. QED
    BY <1>1, <1>2, <1>6, FS_EmptySet DEF GaugeInv

(* As long as no process has died, the up-down counter of a state is the    *)
(* number of items in it, through overlapping executions and database       *)
(* errors: the calls made and the calls owed say every move there was.      *)
THEOREM GaugeIsExact == MetricsSpec => []GaugeMatchesTable
  <1>1. IInv /\ TrailInv /\ FirstInv /\ MeterType /\ GaugeInv /\ [MetricsNext]_<<vars, meterVars>>
        => GaugeInv'
    BY GaugeStep
  <1>2. MetricsSpec => []GaugeInv
    BY <1>1, InitGauge, MeteredAlways, AddUpAlways, PTL DEF MetricsSpec
  <1>3. GaugeInv => GaugeMatchesTable
    BY DEF GaugeInv, NobodyDied, GaugeMatchesTable
  <1>. QED
    BY <1>2, <1>3, PTL
=============================================================================
