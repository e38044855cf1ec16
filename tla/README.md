# Verification of crawllmer

crawllmer takes the address of a web site, finds its pages, reads their titles
and descriptions and publishes an `llms.txt` about them. A REST API accepts the
requests and stores them, a Redis broker hands them to Celery workers, the API
and every worker share one SQL database, and a Streamlit page watches through
the API. This directory holds TLA+ models of that system, the TLC
configurations that check them and TLAPS proofs of the properties that matter
most.

Paths below are relative to `src/crawllmer/` of the repository.

## 1. The system

| Component | State | Operations | Correct when |
|---|---|---|---|
| Orchestrator, `core/orchestrator.py` | none of its own; a copy of the run, a work item and the pages in local variables | `enqueue_run`, `process_run`, five stages under `_run_stage` | a run ends in `completed` or `failed`; `completed` means an `llms.txt` can be served; stages run in order; the work items and the events tell the same story |
| Shared database, `adapters/storage.py` | runs, work items and their audit entries, events, discovered urls, pages, artifacts, validators | one transaction per method, none spans two; the schema is created by whoever opens the database | a url has one row per run; no writer destroys what another wrote; an audit trail is a path of the item's state machine; nobody is left without a table |
| Broker and task, `app/indexer/queueing.py`, `app/indexer/app.py` | messages, unacknowledged deliveries | publish, deliver, acknowledge after the task (`acks_late`), redeliver | a crash loses no run; a run is not worked on twice unless the visibility timeout says so |
| REST API, `app/api/routes.py` | one `CrawlPipeline` shared by its threads | `POST /crawls`, `POST /crawls/{id}/process`, reads | what a client polls is a sane life of a run |
| Discovery, `app/indexer/workers.py` | the lists found so far | `discover_urls`, four strategies, `parse_sitemap` | it ends, never with an empty list; it returns what the site offered, with the right provenance |
| Extraction, `app/indexer/workers.py` | pages, validators and callbacks of the current attempt | `extract_metadata` | what is stored is what the trail says of the attempt that got through |
| Canonicalization, scoring, generation, `app/indexer/workers.py`, `domain/models.py` | none | functions of the rows of the run | the best page of an address survives; the score shows every loss; every page is listed once where it belongs |
| Spider, `app/indexer/spider.py` | queue, visited set, depths, in-link counts | `spider_scan` | limits are kept, depths are distances, nothing in reach is missed, the best pages are kept |
| Retry policy, `core/retry.py` | attempt counter | `run` | bounded, attempts do not mix |
| Rate limiter, `core/scheduler.py` | last request per host | `wait` | the runs of one host start the delay apart |
| Domain model, `domain/models.py` | none | `WorkItem.transition`, records | illegal transitions raise |
| Observability, `core/observability/` | counters, histogram, run events | calls after each transaction | the metrics agree with the tables |
| Streamlit page and API client, `app/web/` | the selected run | a refresh of up to four requests | what it shows together belongs together |
| Link filter, page indexer, repository port, error types, configuration, worker entry point, scripts | none | - | see section 6 |

**How they interact.** `POST /crawls` commits a row for the run, then one for a
work item, then sends a message: three separate steps. A worker that receives
the message calls `process_run`; `POST /crawls/{id}/process` calls the same
function on an API thread, in whatever status the run is. `process_run` waits
for the rate limiter, loads the run once and works on that copy: `update_run` is
a `session.get` followed by an `UPDATE` of the columns that differ from the copy.
Each of the five stages inserts a work item, moves it to `processing`, does its
work in transactions of its own, closes the item and, in a `finally` clause,
stores an event. Discovery and extraction run under the retry policy, which calls
them again from the start. Only `PipelineProcessingError` makes `process_run` mark
the run as failed. Instruments are called after the transaction they report. The
page asks for run, items, `llms.txt` and events in separate requests.

**What is hard.** Nothing stops two executions of one run, and no transaction
spans two calls, so executions interleave between any two repository calls.
A worker can die between any two of them and its message comes back. The
visibility timeout can deliver a message twice. Primary keys are built with
`hash()`, which differs between interpreters, or with the microseconds of a clock.
A database error inside the error handling itself takes another way out. In
discovery the answers of a remote site steer the control flow, sitemaps may refer
to each other in circles, and an exception anywhere restarts all of it. The rate
limiter sleeps between reading and writing. Several processes create the tables
at once and one kind of failure is taken for another. The rows of an earlier
execution are canonicalized together with those of the next.
`PROJECT.json` lists these hazards with the line where each bites and the
properties that cover it.

## 2. The modules

| Module | Models |
|---|---|
| `Storage` | the columns and constraints of the tables, and what one commit does to them, as constant-level operators |
| `CrawlPipeline` | orchestrator, broker, task, API and the tables: one action per transaction or network step |
| `RunLifecycle` | abstract specification: what a client that polls a run may see |
| `CrawlPipelineProperties` | type invariant, invariants, the refinement, the inductive invariant, liveness, and what the documents claim |
| `CrawlPipelineProofs` | the theorems about `CrawlPipeline`: types, the artifact, the refinement; then its work items, events and executions, and what its tables and the artifact contain |
| `Metrics`, `MetricsProperties` | `CrawlPipeline` with the calls it owes its instruments |
| `Dashboard`, `DashboardProperties` | `CrawlPipeline` with the detail panel that watches it |
| `WatcherProofs` | the theorems about `Dashboard` and `Metrics` |
| `Discovery`, `DiscoveryProperties` | `discover_urls` under the retry policy, `parse_sitemap` as an explicit call stack |
| `RetriedCall` | abstract specification: what a stage may expect of a function under `RetryPolicy.run` |
| `Spider`, `SpiderProperties` | `spider_scan` and the cut `discover_urls` makes |
| `SpiderProofs`, `DiscoveryProofs`, `ExtractionProofs`, `PageTableProofs`, `RateLimiterProofs`, `StartupProofs` | the theorems about these components |
| `Extraction` | `extract_metadata` under the retry policy, and what `run_extraction` stores |
| `WorkItems` | the work items of a run, their audit entries and why a commit of them can fail |
| `ExtractionStage` | `Extraction` as the body of `_run_stage` around an item of `WorkItems` |
| `Scoring` | the arithmetic of `score_pages`, on counts |
| `PageTable`, `PageTableProperties` | the rows of a run through extraction, canonicalization, scoring and generation, over several executions |
| `RateLimiter` | `HostRateLimiter.wait` in the threads of the API, with a clock |
| `Startup` | `create_all` in several processes, on SQLite and on PostgreSQL |
| `MC...` | values of constants, fault budgets and symmetry sets for TLC |

`CrawlPipeline` composes the parts that share the database. It takes discovery as
one step that yields some non-empty set of urls or raises, and extraction as one
that yields pages of discovered urls or raises; `Discovery` and `ExtractionStage`
look inside these steps, `Spider` inside the fourth strategy of the first. What
`CrawlPipeline` calls a failing repository call has one of its causes in
`WorkItems`. It leaves out what is on a page; `PageTable` is about that.

### CrawlPipeline

*State.* `runs`, `items`, `events`, `urls`, `pages`, `artifacts`, `validators` are
the tables. A row of `runs` is a status and whether score, artifact path,
completion time and error note have a value. Work items and events are indexed
by run, execution and stage: an execution is one call of `process_run`, number 0
is `enqueue_run`, and event stage 0 is the event of the run as a whole. `msgs`
counts ready messages, `execs` numbers executions. `pc`, `job` and `view` are a
process's next step, its place in the plan (with the state of the item it holds
and the exception in flight) and what it has read.

*Actions.* `CreateRun`, `CreateQueuedItem`, `Publish` are `enqueue_run`. `Deliver` and
`ProcessRequest` begin `process_run`, `Load` is `get_run`. `UpdateGet` and
`UpdateCommit` are the two halves of `update_run`; the second applies
the columns that differ from what the first read. `NewItem`, `StartItem`, `CompleteItem`,
`FailItem` and `StageEvent` are `_run_stage`; `Discover`, `AddUrls`, `Extract`,
`Upsert`, `SetValidator`, `Canonicalize`, `Score`, `Generate`, `SaveArtifact` are the
bodies of the stages; `RunEvent` and `Finish` end it. A read followed by a
write that can meet another process's commit is two steps (or one step with
every outcome the gap allows: `Upsert`, `SetValidator`).

*Faults.* `Crash` (a worker, with redelivery of the message it held), `ApiCrash` (all
threads of the API process), `VisibilityTimeout`, `PublishFails`, and `DbError`: any
repository call raises, and the exception goes where the code's `try`, `except` and
`finally` send it. `Limit` bounds how often each happens, and how many `/process`
requests are sent.

*Left out as data.* Page contents, the value of a score, the text of the `llms.txt`,
log output. Two scores or timestamps may be equal or not, which decides whether
the ORM writes the column: both are explored (`WrittenColumns`).

### Metrics

`calls` counts the calls of every instrument with every set of attributes; `due` is
what a process has yet to call for its last transaction. A step of the pipeline makes
the calls due and owes those of its own (`MeteredStep`); `DbError` raises before or
after them (`MeteredError`); a process that dies leaves them undone (`LostWithWorker`,
`LostWithApi`).

### Dashboard

`panel` is the detail panel: the request it waits for, the selected run and what it
shows; `born` is, for each run and stage, the order of the work items by `created_at`, and
`panel.begun` remembers how many executions the run had had when its status was read. `Refresh`, `GetRun`,
`GetItems`, `GetLlms` and `GetEvents` are a run of the fragment, and the pipeline takes
any number of steps between them. `StageState` is the stage bar, `Seen` picks the item
the timeline shows. `Submitted` and `Choose` select a run, `RequestFails` is an API that
goes away under a request.

### Discovery

One step per request, per line of `robots.txt`, per sitemap. What a site answers
is chosen at each request, so a retry may see another site. `parse_sitemap` has no
record of what it has read; `stack` is its recursion and `MaxNesting` the depth where
Python gives up, which raises like every other failure (`Raise`). `Return` is the
deduplication.

### Spider

One step per turn of the loop. A url is fetched at most once, so the links of a page
are chosen when it is fetched: TLC explores every graph, every order of links and
every set of failing pages. The link filter decides what counts as a link and appears
as the set `Page`.

### Extraction, WorkItems, ExtractionStage

`Extraction` is one step per request (`Fetch`, `Unanswered`), one for the rows
(`Upsert`), one per validator (`SetValidator`), and `AddUrl` for another execution that
adds urls meanwhile. `trail` keeps the page events of every attempt. `Passed` is the
empty set of validators `run_extraction` hands over; a request is conditional only with
one of them. `WorkItems` has the item in memory and the row apart, because a commit
whose audit key is taken (`Collides`) changes one and not the other. `ExtractionStage`
puts them together as `_run_stage` does: `Open` is `_new_item`, `Extract` and `Leave`
the body and what it ends with, `Close` is `_complete_item` or `_fail_item`.

### PageTable, Scoring

One action per stage and `Again` for another execution after any of them. An address
keeps what the code looks at (scheme, host, first segment, how it is written), a page
the confidences of its title and description. Rows are read in any order, because no
query says one, and `Kept` and `Filed` are one pass of the loops over them. `Scoring` counts in hundredths and ten-thousandths, with the rounding to
four decimals.

### RateLimiter

`Enter`, `Look`, `Wake` and `Store` are the reads and writes of `wait` with the sleep
between them; `Tick` is the clock. A dictionary entry that is missing is a request long
past. `starts` records when the runs of a host went on and `overlap` whether two calls
for it ever overlapped.

### Startup

`Check` looks for one table, `CreateNext` creates one in a commit of its own (SQLite),
`CreateAll` all that are missing in one transaction (PostgreSQL). The tables have the
order `create_all` takes them in. A failing statement leaves the process `ready` on SQLite, where
the error is swallowed, and `dead` on PostgreSQL. `Lose` is a kill or a lock timeout in between.

## 3. What is checked

Passing runs, with the number of distinct states. Next to each property of these runs
stands a seeded bug (the `Mut...` operators in the modules): a plausible mistake in the
code that makes TLC report the property violated.

| Run | Bounds | Shows |
|---|---|---|
| `pipeline_faults` (603 000) | `Metrics`; 2 workers and an API thread, two hash seeds, 2 urls with one canonical form, one each of worker crash, API crash, lost publish and database error, 3 executions | while the broker alone hands runs out there is one execution at a time, completed runs have whole records, every url one row, and the artifact lists exactly the run's pages; the gauge of items agrees with the table until a process dies, and every success counted has its five stages; the inductive invariant of the proofs |
| `pipeline_race` (3.8 million) | a worker, a `/process` request, a visibility timeout and a database error on one run | no interleaving of executions shows a completed run without `llms.txt`, a path without artifact, stages out of order, or items and events that differ; some one execution did all five stages of a completed run; the run implements `RunLifecycle` |
| `pipeline_live` (264 000) | 2 workers, 2 crashes, a lost publish, an API crash, 3 executions, fairness | a run whose message reached the broker ends in `completed` or `failed` for good; only the lost publish and the API crash leave a run queued |
| `panel` (1.55 million) | `Dashboard`; a worker crash, an API crash, a visibility timeout, 2 executions | whatever happens between the requests of a refresh, a run shown as completed comes with its `llms.txt`, all stages begun and the events of five successes; until the timeout delivers a run twice its timeline is that of the execution that completed it |
| `discovery` (525 000) | 2 urls, 3 attempts, 2 robots lines, indexes of 2 sitemaps nested 3 deep | returned urls are those the site offered in the attempt that succeeded, provenance is the first source's, the spider is the last resort, discovery ends and implements `RetriedCall` |
| `spider_scan` (153 000) | 5 pages, depth 2, 4 scans, 2 kept, symmetry on all pages but the seed | the depth is the distance, in-link counts are exact, nothing within the limits is missed, the best are kept, and every turn of the loop brings the end nearer |
| `extraction` (72 000) | `ExtractionStage`; 2 urls, 3 attempts, 1 item, 2 values of the microsecond | pages, events and the count of skips agree on the attempt that got through; the audit trail is a path to the state of the row whatever commits fail; the row tells how the stage ended; it ends |
| `pages` (15 500) | 3 sets of addresses, 3 kinds of page head, 2 executions, up to 3200 times as many pages for the rounding | the canonical row is the best of its address, the document lists every page once in its section, the score is that of the document's pages, no loss is rounded away |
| `limiter` (2.5 million) | 2 threads, 2 hosts, 2 starts per host, delay 2, 6 ticks | as long as the calls for one host follow one another its runs start the delay apart, whatever else the threads do |
| `startup` (95 000) | 3 processes, 3 tables of which any may exist, 4 calls, 1 kill, both back ends, fairness | who gives up because a table appeared leaves the missing ones to a process that still makes them; who dies of it on PostgreSQL finds all of them on its restart; they come to exist |

Runs that show where the documents and the code part. TLC finds each of these violated:

| Run | Document | What happens |
|---|---|---|
| `race_loses_score` | `guides/pipeline.md:92`: the score is stored on the run | a `/process` request overlapping a worker's execution writes a stale, empty score over the stored one while the worker completes the run. It stays empty until the second execution scores again, or for good if that one dies |
| `db_error_strands_run` | `guides/pipeline.md:124`: a failed stage fails the run | an exception in `_fail_item`, or in `_complete_item`'s commit, leaves `_run_stage` unwrapped; the message is acknowledged and the run says `running` for ever |

Other places where a document and the code differ, met while modelling and without a
run of their own:

- `README.md:86` says entries are deduplicated. Canonicalization adds the canonical pages and
  keeps the raw ones, and the `llms.txt` lists both.
- `docs/design_decisions.md:136` says a redelivery duplicates events only, and that executing again
  overwrites earlier results. The items of a crashed execution stay in `processing`, and a canonical
  row of an earlier execution outranks a page read since if its confidence is higher.
- `guides/pipeline.md:13` says discovery stops at the first strategy that gives urls. `robots.txt`
  is read whatever `/llms.txt` gave, and the lists are merged.
- `guides/pipeline.md:59` describes conditional requests. `run_extraction` passes no validators,
  so the branch for 304 cannot be reached.
- `guides/pipeline.md:90` says a score of 1.0 means every page is perfect. Four decimals hide one
  missing title among 8001 pages or more.
- `guides/pipeline.md:109` calls the output deterministic. Sections come in the order of rows read without `ORDER BY`.
- `docs/design_decisions.md:63` says the audit trail records every transition. An item moved twice on
  the same microsecond of different seconds loses the second entry and the row update with it.
- `docs/design_decisions.md` and `README.md:218` say errors are recorded as events. A request without an answer leaves none.
- `core/scheduler.py:11` promises a minimum delay per host. Two threads that read the same last request go on together.
- The comment at `adapters/storage.py:408` takes every `OperationalError` for a table another process has made;
  the tables after it may not exist yet.
- The comment at `core/orchestrator.py:246` speaks of the homepage. It is looked for under `https` whatever was crawled.
- `app/web/streamlit_app.py:498` explains redundancy as duplicates found. Rows have distinct urls, so it is always 100%.
- `app/web/streamlit_app.py:532` speaks of all runs and asks for fifty.
- `pipeline_telemetry.py:37` describes the duration of every stage execution; `stage_span` does not record one that raised.
  `events.py:89` speaks of success or failure; a failed run emits no `RunCompletedEvent`.
- `scripts/check-crawl-status.py:15` documents exit codes that exist for the history form only.

### Bounds, and why they suffice

- *One run* per configuration of the pipeline. Runs share the `validators` table only, and its
  one effect, a failed insert, is the same step a concurrent execution of the
  same run causes.
- *Executions* (`MaxExec`): the first, plus one for every crash, timeout or `/process`
  request the budget allows in `pipeline_live` and `pipeline_faults`. `pipeline_race` and
  `panel` stop at two: two overlapping executions are what a lost update needs, a reader
  whose copy is stale and a writer.
- *Urls*: two where canonical forms, row identity or the attempts of extraction matter, one
  elsewhere, because the steps treat urls alike.
- *Fault budgets* are one of each kind except where two crashes are the question. No run has
  timeouts, crashes and `/process` requests all together; the theorems about the pipeline do.
- *Discovery*: two levels of index above a sitemap, three attempts (the code's own number:
  `retries = 2`), and two lines, so that a sitemap can come before or after an `llms:` line.
- *Spider*: five pages with depth 2 have pages beyond the depth limit, several shortest paths,
  cycles, self links, ties at the cut, and scans that the page limit does and does not cut off.
- *Extraction*: one url may answer in one attempt and not in the next, and another fail between;
  two microseconds collide or do not, and three moves of an item need at most two.
- *Pages*: three spellings of one address tie, outrank each other and meet their canonical row of
  the execution before; the other sets have a page of every section, none, and another host.
- *Limiter*: two runs per host on two threads, with room for a full delay before, between and after.
- *Startup*: with three tables a process can collide on the first, in the middle or on the last,
  and with three processes the one that wins can itself lose to a third.

`CHECK_DEADLOCK FALSE` everywhere: a system whose runs are finished, or whose
budgets are spent, stops.

### Fairness

- `CrawlPipeline`: weak fairness of `Advance(p)` for each process, and of delivery to
  each worker. HTTP clients have timeouts (`httpx.Client(timeout=8.0)`), the retry
  policy has a bounded number of attempts with bounded sleeps, and nothing waits for another
  process, so a process that is not killed takes its next step. Celery's workers keep
  consuming. Nothing is assumed of faults or requests.
- `Discovery`, `ExtractionStage`: weak fairness of the step as a whole, for the same reason;
  nothing is assumed of `Meanwhile`.
- `Startup`: weak fairness of `Advance(p)` for each process; `create_all` waits for nobody.

`EventuallyFinished` is not claimed where the code offers no way out: a failed publish, or an
API crash between commit and publish, leaves a run queued; an API crash during a `/process`
request leaves it running, and so can a database error (`db_error_strands_run`); with a
visibility timeout the redelivered execution can end while the first, no longer backed by a
message, crashes after it has set the status back.

## 4. What is proved

Eight modules hold theorems, checked by TLAPS to the last leaf. They hold for every value of the
constants: any runs, processes, urls, sites, hosts, tables, limits and fault budgets.

| Module | Theorem | States |
|---|---|---|
| `CrawlPipelineProofs` | `TypeCorrect` | `Spec => []TypeOK` |
| | `Inductive` | `Spec => []IInv` |
| | `CompletedRunsAreServable` | `Spec => []CompletedHasArtifact` |
| | `PathsResolve` | `Spec => []ArtifactPathResolves` |
| | `PipelineImplementsLifecycle` | `Spec => RefinesLifecycle` |
| | `StagesInOrder` | `Spec => []StageOrder` |
| | `TrailAgrees` | `Spec => []EventsMatchItems` |
| | `OneExecutionDidAll` | `Spec => []CompletedByOneExecution` |
| | `ListingsAreSourced` | `Spec => []ListedPagesWereDiscovered` |
| | `OneExecutionAtATime` | `Spec => [](BrokerAlone => AtMostOneExecution)` |
| | `CompletedRunsAreWhole` | `Spec => [](BrokerAlone => CompletedRecordWhole)` |
| | `ListingsAreComplete` | `Spec => [](BrokerAlone => ArtifactListsPages)` |
| | `RowsAreUnique` | `Spec => [](BrokerAlone => OneRowPerUrl)` |
| `WatcherProofs` | `CompletedIsShownWhole` | `DashboardSpec => []CompletedPanelIsWhole` |
| | `CompletedIsShownClean` | `DashboardSpec => []CompletedTimelineIsClean` |
| | `SuccessesHaveStages` | `MetricsSpec => []SuccessesAddUp` |
| | `GaugeIsExact` | `MetricsSpec => []GaugeMatchesTable` |
| `SpiderProofs` | `TypeCorrect` | `Spec => [](TypeOK /\ SeedWaits)` |
| | `ScanProgresses` | `Spec => EveryTurnCounts` |
| | `InlinksAreExact` | `Spec => []InlinksCountPages` |
| | `DepthsAreExact` | `Spec => []DepthIsDistance` |
| | `ScansAreComplete` | `Spec => []ScanIsComplete` |
| | `IndexedAreBest` | `Spec => []BestAreIndexed` |
| `DiscoveryProofs` | `NothingIsLost` | `Spec => []ReturnsWhatWasOffered` |
| | `SpiderIsAlone` | `Spec => []SpiderStandsAlone` |
| | `LlmsComesFirst` | `Spec => []LlmsProvenanceStays` |
| | `StepsAreCallSteps` | `Spec => Call!Init /\ [][Call!Next]_Call!vars`, the safety half of `RefinesCall` |
| `ExtractionProofs` | `StoredIsOnTrail` | `StageSpec => []PagesMatchTrail` |
| | `RowsTellOutcome` | `StageSpec => []RowTellsOutcome` |
| | `TrailsArePaths` | `StageSpec => []TrailIsPath` |
| `PageTableProofs` | `CanonicalRowIsBestHolds` | `Spec => CanonicalRowIsBest` |
| | `DocumentListsEveryPageHolds` | `Spec => []DocumentListsEveryPage` |
| | `ScoreMatchesDocumentHolds` | `Spec => []ScoreMatchesDocument` |
| | `EveryLossShowsHolds` | `Spec => []EveryLossShows` |
| | `ScoresAreFractions` | `Spec => []ScoresOfFractions`: every value of a breakdown is between 0 and 1, as `guides/api.md:188` says |
| `RateLimiterProofs` | `TypeCorrect` | `Spec => []TypeOK` |
| | `RunsAreSpaced` | `Spec => []SequentialCallsAreSpaced` |
| `StartupProofs` | `TypeCorrect` | `Spec => []TypeOK` |
| | `NothingIsLeftBehind` | `Spec => []NoTableLeftBehind` |
| | `LosersFindAllTables` | `Spec => []DeadMeansCreated` |

*Assumptions*, all named in the modules that declare the constants and evaluated by TLC on every
run: bounds and limits are natural numbers; in `CrawlPipeline` workers and API threads are different
processes, `None` is no run, every process has a seed, and `Canonical` maps urls to urls and is
idempotent; in `Spider` the site has a finite number of pages, the seed among them; in `Extraction`
the urls are finite in number, since the count of skipped pages is compared with a cardinality; in `PageTable`
sites are sets of addresses and a head offers texts of the sources the cascade knows; in `RateLimiter`
the delay is positive.

**The pipeline.** `CompletedHasArtifact` is not inductive. Whether the commit of `update_run` may write
`completed` depends on the copy the process holds, which it read long ago, and on the fact that
it got there by way of `SaveArtifact`, in this execution or before the copy was loaded. `IInv` says so:

- `TypeInv`: types, and a process that is not idle has a run;
- `LabelOK`: each step belongs to a stage;
- `MemoryOK`: a process knows nothing before `Load`; if its copy says `completed` or has a path,
  or if it has passed generation, the artifact is saved;
- `PhaseOK`: while a process is in its stages the row is no longer `absent` or `queued`, and so is what
  it read and what it will write;
- `RowOK`: a row with a path or status `completed` has its artifact.

Artifacts are never deleted, so what one process knows about them cannot be undone by another; this is
what makes `IInv` stable under the steps of others. `IInvStep` has one step per action, on top of
lemmas that say which rows and which processes an action leaves alone. The refinement maps a run's `status`
and `artifacts[r].saved` to the variables of `RunLifecycle`. `UpdateCommit` is the interesting step: the
status it leaves is the one in memory, or the current one when the column was not written; `PhaseOK` and
`MemoryOK` supply the guards of `Start`, `Complete` and `Fail`. Every other step is `Enqueue`, `Publish` or a
stutter. The theorems cover what no single run does: timeouts, crashes, database errors and `/process`
requests all together.

**The trail.** `StageOrder` and `EventsMatchItems` say nothing of what a process is about to do, so
they are not inductive. `TrailInv` adds that each execution number belongs to one process at
most and that nothing is written under a number not yet given (`NumberOK`, `Unwritten`): the counter `execs` is the
only thing two executions of a run share here. Under its number a process finds what it left, and
`TrailOK` says what that is: the stages behind it are completed with their success recorded (`Past`), those
ahead are untouched (`Ahead`), and the state of its own item and the exception it carries are what its step
says (`Present`). `CompletedByOneExecution` follows because every copy of a `completed` row was
read after some execution completed all stages and recorded their success (`WholeWhenSaid`), and items are
never reopened.

**The tables.** `ListedPagesWereDiscovered` holds with any interleaving: url rows are never deleted and
`Canonical` is idempotent, so what a process read before another one wrote is still among the
addresses the run may list (`SourceInv`). The other four do not: run `pipeline_race` has
executions that overlap, and `race_loses_score` is the counterexample to the score. They hold until the
first visibility timeout or `POST /process`, which is what the predicate `BrokerAlone` says of a state;
crashes, redeliveries, failed sends, failed transactions and any number of runs and workers remain.
Then a run has one message or one process, never both (`SoleInv`), so what a process has read
is still what the tables say (`FreshOK`), and what it will write to the row has a score once scoring is over and
the pages of the artifact once generation is (`DraftOK`). `BrokerAlone` is a statement about the past, so what
holds in a state that satisfies it was reached through states that do (`AloneBefore`), and the theorems need no
assumption about `Limit`. The budgets of `pipeline_faults` make it true of every state there.

**The panel.** The panel does nothing to the pipeline, so the invariants of the pipeline hold beside it
(`StepWatched`). `CompletedPanelIsWhole` holds with any interleaving because what a status `completed`
stood for when it was read is never taken back, although the status itself is: the items and events of the
execution that did all five stages stay (`WholeStays`), and so does the artifact (`SavedStays`). `PanelInv` says which of it
each request has brought; `BornInv` says that the list of items misses none. The order of the requests is
what the proof rests on: the status comes first.

`CompletedTimelineIsClean` is stronger and needs `BrokerAlone`. The panel takes the last item of a stage by creation
time for that of the execution that completed the run, which is right when executions follow one another. Then
a process works under the highest number given (`Latest`), the rows of a stage appear in rising order
(`RisingInv`; the item of `enqueue_run`, created by the API and never begun, may stand anywhere), and a completed run was
completed by its last execution (`LastInv`), so what the timeline sees is that execution's item (`SeenLast`). `TimelineInv`
carries this from the status to the items as long as nobody works on the run and none has begun since. With
two executions side by side it is false, which is why the property names `BrokerAlone`.

**The metrics.** The instruments do nothing to the pipeline either (`StepMetered`). A process makes the calls
it owes before its next step, so it counts the success of a run only after those of the five stages.
`AddUp` says it as a count: the successes of runs told, plus the processes that were through stage s and may yet
tell theirs (`Promised`), are not more than the successes of stage s told. A process that dies takes its promise with it;
that the calls of a run and of a stage are never owed together is `LastCall`. For the gauge,
`LegalMoves` says that every step of the pipeline moves at most one item, the way `WorkItem.transition` allows or to create
it, so that the move has an instrument; `GaugeMoves` and `RowsMove` then change both sides by the same amount.
`NobodyDied` is again a statement about the past (`DeathIsFinal`).

**The spider.** The loop could end without a page only if it skipped the seed or stopped before it.
`SeedWaits` says that the seed is the whole queue until it is fetched, so the page limit (at least one) and
the depth limit (at least zero) let it through. The in-link counts are exact because a page that is
fetched was not scanned before: `Scanned` is a subset of `visited`, so a page adds itself to
the set of pages linking to another at most once.

`BreadthInv` is the argument for breadth-first search: a page heard of, other than the seed, has a scanned page one
hop nearer that links to it (`DepthsOK`), a scanned page's links are at most one hop further (`LinksOK`), the
depths in the queue go up, by at most one from its head to anything heard of (`QueueOK`), and every page heard of that is
not too deep was fetched or waits (`SeenOK`). Its hardest step is the fetch, which removes the head and appends several
pages. `Within` is a recursive function on numbers of hops, and the induction over it is
written as a least counterexample, with the well-foundedness of the natural numbers: a page within
n hops cannot have been given a larger depth. `RankingInv` remembers that the result is a prefix of one of the
rankings the sort allows; the rest is about prefixes of an enumeration of a finite set.

**Discovery.** `DiscoveryInv` accounts for every url: what the site offered during this attempt is in a
batch, in the sitemap just parsed or in a frame of the call stack (`NothingLost`), and a raised error
empties all three together with `offered`. `SourcesInOrder` says that the batch of llms.txt comes first and
that the spider is asked only when all batches before it are empty. Sitemaps that nest are covered by the call
stack, of any depth; nothing is assumed about its length. The refinement maps a step inside an attempt to a stutter.

**Extraction.** `ExtractionInv` follows the trail of the current attempt: it is empty until the attempt has read its
urls, and then a url is among the stored pages exactly when its entry says `page_extracted`. `skipped` lies between
the skips on the trail and these plus the urls whose audit key collided. `StageInv` adds the item around
it: which of its transactions is due, what its copy in memory says and whether an exception has
passed. `RowTellsOutcome` needs `returned` to be final, since the body is not entered again.

For `TrailIsPath`, `AuditOK` says of an item without a row that it has no entries, and of one with a row that
its entries leave it in the state of the row. An entry is committed with the row or not at all, so it begins where the
last one ended, and it is a legal move because the state in memory and the state of the row agree
at each place a transition is tried (`ItemFollows`), also after a commit that collided.

**The pages.** What canonicalization and generation do is a loop over the rows in the order they were
read, and that is any order. `KeptStates` and `FiledStates` are the states such a loop goes through; that
they exist, and that the functions of the model are among them, is `LoopsRun`, `DedupedRuns` and `GroupedRuns`.
The two invariants hold of every prefix, because no shortest prefix breaks them (`EveryPrefix`):
`DedupedBest` says that the pages kept have different urls, are among those read and are no worse than any read with
the same canonical url; `Lists` says that the sections list the pages read so far, each where it belongs. A
read brings every row (`AllRead`), so both are statements about the table. `RowsOK`, one row of each url, is what
the upsert preserves.

`EveryLossShows` is arithmetic: a field that is there has a confidence of 60 hundredths or more, so
without it the weighted sum falls by 640 or more, ten times which is at least the divisor `2 * pages` up to 3200
pages, so the quotient falls. `ScoresAreFractions`
needs an upper bound for the library's sum over a set, by induction on the size of the set (`SumType`), and
that no count exceeds what the pages allow (`CountedType`).

**The rate limiter.** For a host whose calls never overlapped the invariant says that at most one thread is
inside `wait`, that the dictionary's entry is not older than any start, and that the thread, once it has
decided how long to sleep, will go on no sooner than the delay after that entry. The second part needs the
clock to be monotone (`EnteredBefore`); the third holds across the other threads' steps because none of
them writes this host's entry.

**The schema.** `NoTableLeftBehind` needs to know why a process that gives up leaves somebody behind it. A
process that finds a table it had listed as missing was overtaken. On SQLite the tables come to exist in
the order of the list (`CreatedInOrder`), so the one that creates the next table has seen none
of its own appear, and takes over as `Winner`; the least missing table exists because the natural numbers are
well founded. On PostgreSQL the one that commits first creates all that is missing.

## 5. What is only model-checked

Every invariant and every action property the passing runs check has a theorem, and of `RefinesCall` the part
that is no liveness. What is left to TLC:

- Liveness (`EventuallyFinished`, `Terminates`, `StageEnds`, `TablesAppear`, and the fairness in `RefinesCall`): out
  of the prover's reach. For the spider `EveryTurnCounts` stands in for termination: the fetched pages are bounded
  by the page limit and the queue is finite, so a scan with that property ends. For `RefinesCall` the theorem
  `StepsAreCallSteps` is the part that is not liveness.
- The two claims of section 3 that TLC refutes, each on the instance that refutes it.

## 6. What is not modelled

- Strings: HTML and XML parsing, the rules of the link filter, `_normalize_url`, the layout of
  `llms.txt`. Their results are inputs of the models: the links of a page, the canonical form of an address,
  the confidence of a title.
- `index_page_task` and `page_indexer.py`: nothing sends the task, and the function keeps no state.
- `core/errors.py`, `domain/ports.py`: a class hierarchy and an interface. Which error leads where, and what
  a method of the port does, is part of the models of the code that raises or implements it.
- `core/config.py`, `app/indexer/__main__.py`, `telemetry_setup.py`: read once at the start of a process.
- Spans and log lines; of telemetry only the instruments are modelled, since the counts make claims about the tables.
- The run list of the Streamlit page and the history endpoint behind it, its layout and styles, `runtime.py`. The detail panel is what combines
  several answers.
- The scripts: one prints two answers, the other posts a list of urls.
- `HostRateLimiter.penalize`: it has no caller. `/health` reads nothing.
- The error of floating-point sums in the score: `Scoring` is exact up to the rounding to four decimals.
- The contents of a transaction are one step where SQL makes it one; SQLite's lock and PostgreSQL's isolation level
  appear as the failing call they end in.

## 7. Plan

What is left:

An argument for termination that the prover can take, beyond `EveryTurnCounts`: a measure of what is left to do in
`Discovery` and `ExtractionStage`, and an action property that says that steps lower it.
