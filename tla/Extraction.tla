----------------------------- MODULE Extraction -----------------------------
(***************************************************************************)
(* The extraction stage (run_extraction in core/orchestrator.py, with       *)
(* extract_metadata of app/indexer/workers.py under the retry policy).      *)
(* Every attempt reads the discovered urls again, fetches them one by one   *)
(* and commits an event for each page; a request that gets no answer ends   *)
(* the attempt.  The pages of the attempt that got through are stored, then *)
(* their validators, each in a transaction.  Meanwhile another execution of *)
(* the run may still add urls.                                              *)
(***************************************************************************)
EXTENDS Integers, FiniteSets

CONSTANTS Url,      \* urls the run may discover
          Retries   \* RetryPolicy.retries

(* A run finds a finite number of urls, however many.                       *)
ASSUME UrlAssumption == IsFiniteSet(Url)
ASSUME RetriesAssumption == Retries \in Nat

Attempt == 0 .. Retries

VARIABLES
  pc,          \* next step
  attempt,     \* attempts that failed
  known,       \* discovered_url: rows of the run
  todo,        \* urls the loop has still to take
  pages,       \* pages: the list extract_metadata builds, and new_validators
  trail,       \* page events committed for each url in each attempt
  stored,      \* extracted_page: rows of the run
  validators,  \* url_validator: rows, shared by all runs
  skipped      \* pages_skipped of the ExtractionCompletedEvent

vars == <<pc, attempt, known, todo, pages, trail, stored, validators, skipped>>
tables == <<stored, validators>>

Answer == {"page", "not_modified", "error_status"}
Event == {"none", "page_extracted", "page_skipped"}
Over == {"returned", "raised", "failed"}

(* The run has urls; pages and validators may be there from an execution    *)
(* that crashed, validators also from other runs of the site.               *)
Init ==
  /\ pc = "read" /\ attempt = 0
  /\ known \in SUBSET Url \ {{}}
  /\ stored \in SUBSET known
  /\ validators \in SUBSET Url
  /\ todo = {} /\ pages = {} /\ skipped = 0
  /\ trail = [u \in Url |-> [a \in Attempt |-> "none"]]

(* The pages an attempt starts with.                                        *)
MutStart(left) == left   \* seeded bug: those of the attempt that failed
Start(left) == {}

ReadUrls ==
  /\ pc = "read"
  /\ todo' = known
  /\ pages' = Start(pages)
  /\ pc' = "fetch"
  /\ UNCHANGED <<attempt, known, trail, tables, skipped>>

(* The validators run_extraction passes, and what a request can bring: only *)
(* a conditional request is answered 304.                                   *)
Passed == {}
Conditional(u) == u \in Passed
Answers(u) == IF Conditional(u) THEN Answer ELSE Answer \ {"not_modified"}

(* A page or a skip, and the event that says so.                            *)
Fetch(u) ==
  /\ pc = "fetch" /\ u \in todo
  /\ todo' = todo \ {u}
  /\ \E answer \in Answers(u) :
       IF answer = "page"
         THEN /\ pages' = pages \union {u}
              /\ trail' = [trail EXCEPT ![u][attempt] = "page_extracted"]
         ELSE /\ trail' = [trail EXCEPT ![u][attempt] = "page_skipped"]
              /\ UNCHANGED pages
  /\ UNCHANGED <<pc, attempt, known, tables, skipped>>

-----------------------------------------------------------------------------
(* RetryPolicy.run around extract_metadata.                                 *)

LastAttempt(a) == a = Retries
MutNextAttempt(a) == a   \* seeded bug: attempts are not counted
NextAttempt(a) == a + 1

Raise == /\ IF LastAttempt(attempt)
              THEN pc' = "raised" /\ UNCHANGED attempt
              ELSE pc' = "read" /\ attempt' = NextAttempt(attempt)
         /\ UNCHANGED <<known, todo, pages, trail, tables, skipped>>

(* No answer: httpx raises a transport error.                               *)
Unanswered(u) ==
  /\ pc = "fetch" /\ u \in todo
  /\ Raise

(* The database fails to list the urls or to take the event of a page.      *)
DbError ==
  /\ pc = "read" \/ (pc = "fetch" /\ todo # {})
  /\ Raise

-----------------------------------------------------------------------------
(* What run_extraction does with the result.                                *)

EndFetch ==
  /\ pc = "fetch" /\ todo = {}
  /\ pc' = "upsert"
  /\ UNCHANGED <<attempt, known, todo, pages, trail, tables, skipped>>

(* The urls whose validators are stored: those of the pages.                *)
Stamped == pages

Upsert ==
  /\ pc = "upsert"
  /\ stored' = stored \union pages
  /\ todo' = Stamped
  /\ pc' = "validators"
  /\ UNCHANGED <<attempt, known, pages, trail, validators, skipped>>

SetValidator(u) ==
  /\ pc = "validators" /\ u \in todo
  /\ validators' = validators \union {u}
  /\ todo' = todo \ {u}
  /\ UNCHANGED <<pc, attempt, known, pages, trail, stored, skipped>>

(* pages_skipped counts the urls there are by now.                          *)
Skipped == Cardinality(known) - Cardinality(pages)

Count ==
  /\ pc = "validators" /\ todo = {}
  /\ skipped' = Skipped
  /\ pc' = "returned"
  /\ UNCHANGED <<attempt, known, todo, pages, trail, tables>>

(* A database error outside the retry policy fails the stage.               *)
StoreError ==
  /\ pc \in {"upsert", "validators"}
  /\ pc' = "failed"
  /\ UNCHANGED <<attempt, known, todo, pages, trail, tables, skipped>>

(* Another execution's add_discovered_urls.                                 *)
AddUrl(u) ==
  /\ u \notin known
  /\ known' = known \union {u}
  /\ UNCHANGED <<pc, attempt, todo, pages, trail, tables, skipped>>

Stage == \/ ReadUrls \/ DbError \/ EndFetch \/ Upsert \/ Count \/ StoreError
         \/ \E u \in Url : Fetch(u) \/ Unanswered(u) \/ SetValidator(u)

Next == Stage \/ \E u \in Url : AddUrl(u)

(* Requests have a timeout and the policy sleeps for a bounded time.        *)
Spec == Init /\ [][Next]_vars /\ WF_vars(Stage)

-----------------------------------------------------------------------------
Told(event) == {u \in Url : trail[u][attempt] = event}

(* What the stage stores and counts is what the trail says of the attempt   *)
(* that got through: a page for every page_extracted of that attempt, none  *)
(* of an attempt that failed half way, and a skip for every page_skipped    *)
(* and for every url another execution has added since.                     *)
PagesMatchTrail ==
  /\ pc \in {"upsert", "validators", "returned"} => pages = Told("page_extracted")
  /\ pc = "returned" =>
       /\ pages \subseteq stored
       /\ skipped \in Cardinality(Told("page_skipped")) ..
                       Cardinality(Told("page_skipped") \union {u \in known : trail[u][attempt] = "none"})

(* The stage ends: it returns, or fails with the run.                       *)
Terminates == <>(pc \in Over)
==============================================================================
