-------------------------- MODULE ExtractionProofs --------------------------
(***************************************************************************)
(* Theorems about the extraction stage, for any urls, any number of retries *)
(* and any clock.                                                           *)
(***************************************************************************)
EXTENDS ExtractionStage, FiniteSetTheorems, TLAPS

Step == {"read", "fetch", "upsert", "validators"} \union Over

(* Every variable keeps its type.                                           *)
TypeOK ==
  /\ pc \in Step
  /\ attempt \in Attempt
  /\ known \subseteq Url /\ todo \subseteq Url /\ pages \subseteq Url
  /\ stored \subseteq Url /\ validators \subseteq Url
  /\ trail \in [Url -> [Attempt -> Event]]
  /\ skipped \in Nat

Got == {"upsert", "validators", "returned"}

(* The trail of the current attempt runs ahead of nothing: it is empty until*)
(* the attempt has its urls, covers what the loop has left behind, and      *)
(* names no url the table does not have.                                    *)
TrailFollows ==
  /\ \A u \in Url, a \in Attempt : a > attempt => trail[u][a] = "none"
  /\ pc = "read" => \A u \in Url : trail[u][attempt] = "none"
  /\ pc = "fetch" => \A u \in todo : trail[u][attempt] = "none"
  /\ pc \in Got \union {"fetch"} =>
       \A u \in Url : u \in pages <=> trail[u][attempt] = "page_extracted"
  /\ \A u \in Url : trail[u][attempt] # "none" => u \in known
  /\ todo \subseteq known

(* What the loops after the fetch have left to do.                          *)
RestStored ==
  /\ pc \in {"validators", "returned"} => pages \subseteq stored
  /\ pc = "validators" => pages \subseteq validators \union todo
  /\ pc = "returned" => pages \subseteq validators

Unheard == {u \in known : trail[u][attempt] = "none"}

CountFits ==
  pc = "returned" => /\ Cardinality(Told("page_skipped")) <= skipped
                     /\ skipped <= Cardinality(Told("page_skipped") \union Unheard)

ExtractionInv == TypeOK /\ TrailFollows /\ RestStored /\ CountFits

LEMMA FiniteUrls ==
  ASSUME NEW S \in SUBSET Url
  PROVE  IsFiniteSet(S) /\ Cardinality(S) \in Nat
  BY UrlAssumption, FS_Subset, FS_CardinalityType

LEMMA ExtractionInit ==
  ASSUME Init
  PROVE  ExtractionInv
  <1>1. TypeOK
    BY RetriesAssumption DEF Init, TypeOK, Step, Attempt, Event
  <1>2. /\ \A u \in Url, a \in Attempt : trail[u][a] = "none"
        /\ pc = "read" /\ attempt \in Attempt /\ todo = {}
    BY RetriesAssumption DEF Init, Attempt
  <1>3. TrailFollows
    BY <1>2 DEF TrailFollows, Got
  <1>. QED
    BY <1>1, <1>2, <1>3 DEF ExtractionInv, RestStored, CountFits

(* What pages_skipped comes to: the urls of the table that are no page are  *)
(* those the attempt skipped and those it never heard of.                   *)
LEMMA SkippedFits ==
  ASSUME TypeOK, TrailFollows, pc \in Got
  PROVE  /\ Skipped \in Nat
         /\ Cardinality(Told("page_skipped")) <= Skipped
         /\ Skipped <= Cardinality(Told("page_skipped") \union Unheard)
  <1>. DEFINE rest == Told("page_skipped") \union Unheard
  <1>1. pages \subseteq known /\ known \in SUBSET Url
    BY DEF TypeOK, TrailFollows
  <1>2. known \ pages = rest
    <2>1. ASSUME NEW u \in known \ pages
          PROVE  u \in rest
      <3>1. u \in Url /\ trail[u][attempt] \in Event
        BY DEF TypeOK
      <3>. QED
        BY <3>1 DEF Told, Unheard, Event, TrailFollows
    <2>2. ASSUME NEW u \in rest
          PROVE  u \in known \ pages
      BY <1>1, <2>2 DEF Told, Unheard, TrailFollows
    <2>. QED
      BY <2>1, <2>2
  <1>3. /\ IsFiniteSet(known) /\ Cardinality(known) \in Nat
        /\ IsFiniteSet(pages) /\ Cardinality(pages) \in Nat
        /\ IsFiniteSet(rest) /\ Cardinality(rest) \in Nat
    BY <1>1, <1>2, FiniteUrls
  <1>4. Cardinality(known \ pages) = Cardinality(known) - Cardinality(pages)
    <2>1. /\ IsFiniteSet(known \ pages)
          /\ Cardinality(known \ pages) = Cardinality(known) - Cardinality(known \intersect pages)
      BY <1>3, FS_Difference
    <2>2. known \intersect pages = pages
      BY <1>1
    <2>. QED
      BY <2>1, <2>2
  <1>5. Skipped = Cardinality(rest)
    BY <1>2, <1>4 DEF Skipped
  <1>6. Cardinality(Told("page_skipped")) <= Cardinality(rest)
    BY <1>3, FS_Subset
  <1>. QED
    BY <1>3, <1>5, <1>6, FiniteUrls DEF Told

-----------------------------------------------------------------------------
(* ExtractionInv is inductive.                                              *)

LEMMA RaiseStep ==
  ASSUME ExtractionInv, Raise, pc \in {"read", "fetch"}
  PROVE  ExtractionInv'
  <1>1. UNCHANGED <<known, todo, pages, trail, stored, validators, skipped>>
    BY DEF Raise, tables
  <1>2. CASE LastAttempt(attempt)
    <2>1. pc' = "raised" /\ attempt' = attempt
      BY <1>2 DEF Raise
    <2>. QED
      BY <1>1, <2>1 DEF ExtractionInv, TypeOK, Step, Over, TrailFollows, Got, RestStored, CountFits
  <1>3. CASE ~LastAttempt(attempt)
    <2>1. pc' = "read" /\ attempt' = attempt + 1 /\ attempt # Retries
      BY <1>3 DEF Raise, NextAttempt, LastAttempt
    <2>2. attempt' \in Attempt /\ attempt' > attempt /\ \A a \in Attempt : a > attempt' => a > attempt
      BY <2>1, RetriesAssumption DEF ExtractionInv, TypeOK, Attempt
    <2>3. TypeOK'
      BY <1>1, <2>1, <2>2 DEF ExtractionInv, TypeOK, Step
    <2>4. \A u \in Url : trail[u][attempt'] = "none"
      BY <2>2 DEF ExtractionInv, TrailFollows
    <2>5. TrailFollows'
      BY <1>1, <2>1, <2>2, <2>4 DEF ExtractionInv, TrailFollows, Got
    <2>. QED
      BY <1>1, <2>1, <2>3, <2>5 DEF ExtractionInv, RestStored, CountFits
  <1>. QED
    BY <1>2, <1>3

LEMMA FetchStep ==
  ASSUME ExtractionInv, NEW u \in Url, Fetch(u)
  PROVE  ExtractionInv'
  <1>1. /\ pc = "fetch" /\ pc' = "fetch" /\ u \in todo /\ todo' = todo \ {u}
        /\ UNCHANGED <<attempt, known, stored, validators, skipped>>
    BY DEF Fetch, tables
  <1>2. PICK event \in {"page_extracted", "page_skipped"} :
          /\ trail' = [trail EXCEPT ![u][attempt] = event]
          /\ pages' = IF event = "page_extracted" THEN pages \union {u} ELSE pages
    <2>1. PICK answer \in Answers(u) :
            IF answer = "page"
              THEN /\ pages' = pages \union {u}
                   /\ trail' = [trail EXCEPT ![u][attempt] = "page_extracted"]
              ELSE /\ trail' = [trail EXCEPT ![u][attempt] = "page_skipped"]
                   /\ UNCHANGED pages
      BY DEF Fetch
    <2>. QED
      BY <2>1
  <1>3. /\ attempt \in Attempt /\ trail \in [Url -> [Attempt -> Event]]
        /\ todo \subseteq Url /\ pages \subseteq Url
    BY DEF ExtractionInv, TypeOK
  <1>4. /\ trail'[u][attempt] = event
        /\ \A v \in Url : \A a \in Attempt : ~(v = u /\ a = attempt) => trail'[v][a] = trail[v][a]
        /\ trail' \in [Url -> [Attempt -> Event]]
    BY <1>2, <1>3 DEF Event
  <1>5. TypeOK'
    BY <1>1, <1>2, <1>3, <1>4 DEF ExtractionInv, TypeOK
  <1>6. \A v \in Url, a \in Attempt : a > attempt => trail'[v][a] = "none"
    BY <1>3, <1>4, RetriesAssumption DEF ExtractionInv, TrailFollows, Attempt
  <1>7. \A v \in todo' : trail'[v][attempt] = "none"
    BY <1>1, <1>3, <1>4 DEF ExtractionInv, TrailFollows
  <1>8. ASSUME NEW v \in Url
        PROVE  v \in pages' <=> trail'[v][attempt] = "page_extracted"
    <2>1. v \in pages <=> trail[v][attempt] = "page_extracted"
      BY <1>1 DEF ExtractionInv, TrailFollows
    <2>2. trail[u][attempt] = "none"
      BY <1>1 DEF ExtractionInv, TrailFollows
    <2>3. CASE v = u
      BY <1>2, <1>4, <2>1, <2>2, <2>3
    <2>4. CASE v # u
      BY <1>2, <1>3, <1>4, <2>1, <2>4
    <2>. QED
      BY <2>3, <2>4
  <1>9. ASSUME NEW v \in Url, trail'[v][attempt] # "none"
        PROVE  v \in known
    <2>1. \A w \in Url : trail[w][attempt] # "none" => w \in known
      BY DEF ExtractionInv, TrailFollows
    <2>2. CASE v = u
      BY <1>1, <2>2 DEF ExtractionInv, TrailFollows
    <2>3. CASE v # u
      BY <1>3, <1>4, <1>9, <2>1, <2>3
    <2>. QED
      BY <2>2, <2>3
  <1>. QED
    BY <1>1, <1>5, <1>6, <1>7, <1>8, <1>9 DEF ExtractionInv, TrailFollows, RestStored, CountFits, Got

(* A step of the stage that commits no event and ends no attempt.           *)
LEMMA QuietStep ==
  ASSUME ExtractionInv, UNCHANGED <<attempt, pages, trail>>,
         known \subseteq known', known' \subseteq Url,
         TypeOK', todo' \subseteq known',
         pc' = "read" => pc = "read",
         pc' \in Got => pc \in Got \union {"fetch"},
         pc' = "fetch" => pc = "fetch" /\ todo' = todo
  PROVE  TrailFollows'
  BY DEF ExtractionInv, TrailFollows, Got

LEMMA ExtractionStep ==
  ASSUME ExtractionInv, [Next]_vars
  PROVE  ExtractionInv'
  <1>0. TypeOK /\ TrailFollows
    BY DEF ExtractionInv
  <1>1. CASE ReadUrls
    <2>1. /\ pc = "read" /\ pc' = "fetch" /\ todo' = known /\ pages' = {}
          /\ UNCHANGED <<attempt, known, trail, stored, validators, skipped>>
      BY <1>1 DEF ReadUrls, tables, Start
    <2>2. TypeOK'
      BY <1>0, <2>1 DEF TypeOK, Step
    <2>3. \A u \in Url : trail[u][attempt] = "none"
      BY <1>0, <2>1 DEF TrailFollows
    <2>4. TrailFollows'
      BY <1>0, <2>1, <2>3 DEF TrailFollows, TypeOK
    <2>. QED
      BY <2>1, <2>2, <2>4 DEF ExtractionInv, RestStored, CountFits
  <1>2. CASE DbError
    BY <1>2, RaiseStep DEF DbError
  <1>3. CASE EndFetch
    <2>1. /\ pc = "fetch" /\ pc' = "upsert"
          /\ UNCHANGED <<attempt, known, todo, pages, trail, stored, validators, skipped>>
      BY <1>3 DEF EndFetch, tables
    <2>2. TypeOK'
      BY <1>0, <2>1 DEF TypeOK, Step
    <2>3. TrailFollows'
      BY <1>0, <2>1, <2>2, QuietStep DEF Got, TypeOK, TrailFollows
    <2>. QED
      BY <2>1, <2>2, <2>3 DEF ExtractionInv, RestStored, CountFits
  <1>4. CASE Upsert
    <2>1. /\ pc = "upsert" /\ pc' = "validators" /\ stored' = stored \union pages /\ todo' = pages
          /\ UNCHANGED <<attempt, known, pages, trail, validators, skipped>>
      BY <1>4 DEF Upsert, Stamped
    <2>2. TypeOK'
      BY <1>0, <2>1 DEF TypeOK, Step
    <2>3. pages \subseteq known
      BY <1>0, <2>1 DEF TypeOK, TrailFollows, Got
    <2>4. TrailFollows'
      BY <1>0, <2>1, <2>2, <2>3, QuietStep DEF Got, TypeOK
    <2>. QED
      BY <2>1, <2>2, <2>4 DEF ExtractionInv, RestStored, CountFits
  <1>5. CASE Count
    <2>1. /\ pc = "validators" /\ pc' = "returned" /\ todo = {} /\ skipped' = Skipped
          /\ UNCHANGED <<attempt, known, todo, pages, trail, stored, validators>>
      BY <1>5 DEF Count, tables
    <2>2. /\ Skipped \in Nat
          /\ Cardinality(Told("page_skipped")) <= Skipped
          /\ Skipped <= Cardinality(Told("page_skipped") \union Unheard)
      BY <1>0, <2>1, SkippedFits DEF Got
    <2>3. TypeOK'
      BY <1>0, <2>1, <2>2 DEF TypeOK, Step, Over
    <2>4. TrailFollows'
      BY <1>0, <2>1, <2>3, QuietStep DEF Got, TypeOK, TrailFollows
    <2>5. CountFits'
      BY <2>1, <2>2 DEF CountFits, Told, Unheard
    <2>. QED
      BY <2>1, <2>3, <2>4, <2>5 DEF ExtractionInv, RestStored
  <1>6. CASE StoreError
    <2>1. /\ pc' = "failed"
          /\ UNCHANGED <<attempt, known, todo, pages, trail, stored, validators, skipped>>
      BY <1>6 DEF StoreError, tables
    <2>2. TypeOK'
      BY <1>0, <2>1 DEF TypeOK, Step, Over
    <2>3. TrailFollows'
      BY <1>0, <2>1, <2>2, QuietStep DEF Got, TypeOK, TrailFollows
    <2>. QED
      BY <2>1, <2>2, <2>3 DEF ExtractionInv, RestStored, CountFits
  <1>7. ASSUME NEW u \in Url, Fetch(u)
        PROVE  ExtractionInv'
    BY <1>7, FetchStep
  <1>8. ASSUME NEW u \in Url, Unanswered(u)
        PROVE  ExtractionInv'
    BY <1>8, RaiseStep DEF Unanswered
  <1>9. ASSUME NEW u \in Url, SetValidator(u)
        PROVE  ExtractionInv'
    <2>1. /\ pc = "validators" /\ pc' = "validators" /\ u \in todo
          /\ validators' = validators \union {u} /\ todo' = todo \ {u}
          /\ UNCHANGED <<attempt, known, pages, trail, stored, skipped>>
      BY <1>9 DEF SetValidator
    <2>2. TypeOK'
      BY <1>0, <2>1 DEF TypeOK, Step
    <2>3. TrailFollows'
      BY <1>0, <2>1, <2>2, QuietStep DEF Got, TypeOK, TrailFollows
    <2>. QED
      BY <2>1, <2>2, <2>3 DEF ExtractionInv, RestStored, CountFits
  <1>10. ASSUME NEW u \in Url, AddUrl(u)
         PROVE  ExtractionInv'
    <2>1. /\ known' = known \union {u}
          /\ UNCHANGED <<pc, attempt, todo, pages, trail, stored, validators, skipped>>
      BY <1>10 DEF AddUrl, tables
    <2>2. TypeOK'
      BY <1>0, <2>1 DEF TypeOK
    <2>3. TrailFollows'
      BY <1>0, <2>1, <2>2, QuietStep DEF Got, TypeOK, TrailFollows
    <2>4. CountFits'
      <3>1. Told("page_skipped")' = Told("page_skipped")
        BY <2>1 DEF Told
      <3>2. Unheard \subseteq Unheard'
        BY <2>1 DEF Unheard
      <3>3. /\ IsFiniteSet(Told("page_skipped") \union Unheard')
            /\ Cardinality(Told("page_skipped") \union Unheard') \in Nat
            /\ Cardinality(Told("page_skipped") \union Unheard) \in Nat
        BY <1>0, <2>2, FiniteUrls DEF Told, Unheard, TypeOK
      <3>4. Cardinality(Told("page_skipped") \union Unheard) <= Cardinality(Told("page_skipped") \union Unheard')
        BY <3>2, <3>3, FS_Subset
      <3>5. Cardinality(Told("page_skipped")) \in Nat
        BY FiniteUrls DEF Told
      <3>6. skipped \in Nat
        BY <1>0 DEF TypeOK
      <3>. QED
        BY <2>1, <3>1, <3>3, <3>4, <3>5, <3>6 DEF ExtractionInv, CountFits
    <2>. QED
      BY <2>1, <2>2, <2>3, <2>4 DEF ExtractionInv, RestStored
  <1>11. CASE UNCHANGED vars
    BY <1>11 DEF vars, tables, ExtractionInv, TypeOK, TrailFollows, RestStored, CountFits, Told, Unheard
  <1>. QED
    BY <1>1, <1>2, <1>3, <1>4, <1>5, <1>6, <1>7, <1>8, <1>9, <1>10, <1>11 DEF Next, Stage

-----------------------------------------------------------------------------
(* The stage around the extraction.                                         *)

Clock == Microsecond \union {CHOOSE m \in Microsecond : TRUE}

ItemTypeOK ==
  /\ row \in [Item -> WorkItem!State]
  /\ memory \in [Item -> [state : WorkItem!State, microsecond : Clock]]
  /\ at \in [Item -> WorkItem!Label]
  /\ raised \subseteq Item

(* Where _run_stage is with an item tells its row, and what came of the     *)
(* extraction: an item in the except clause whose object can no longer fail *)
(* belongs to an extraction that returned.                                  *)
ItemFollows(i) ==
  /\ at[i] = "new" => row[i] = "absent"
  /\ at[i] = "start" => row[i] = "queued"
  /\ at[i] \in {"body", "complete", "fail"} => row[i] = "processing"
  /\ at[i] = "body" => memory[i].state = "processing"
  /\ at[i] = "complete" => pc = "returned"
  /\ at[i] = "fail" => memory[i].state = "processing" \/ pc = "returned"
  /\ at[i] = "done" => i \in raised \/ row[i] \in {"completed", "failed"}
  /\ row[i] = "completed" => pc = "returned"

StageInv == ExtractionInv /\ ItemTypeOK /\ \A i \in Item : ItemFollows(i)

(* A step of the stage does not change the item, nor the end of the stage.  *)
LEMMA ReturnedStays ==
  ASSUME [Next]_vars, pc = "returned"
  PROVE  pc' = "returned"
  BY DEF Next, Stage, vars, ReadUrls, DbError, EndFetch, Upsert, Count, StoreError, Fetch,
         Unanswered, SetValidator, AddUrl

LEMMA ItemsRest ==
  ASSUME ItemTypeOK, \A i \in Item : ItemFollows(i), [Next]_vars, UNCHANGED itemVars
  PROVE  ItemTypeOK' /\ \A i \in Item : ItemFollows(i)'
  BY ReturnedStays DEF itemVars, ItemTypeOK, ItemFollows

(* A step that moves one item: its row, what is in memory and its label.    *)
ItemMove(i, r, w, l) ==
  /\ r \in WorkItem!State /\ row' = [row EXCEPT ![i] = r]
  /\ w \in [state : WorkItem!State, microsecond : Clock] /\ memory' = [memory EXCEPT ![i] = w]
  /\ l \in WorkItem!Label /\ at' = [at EXCEPT ![i] = l]
  /\ raised' = raised \/ raised' = raised \union {i}
  /\ l = "new" => r = "absent"
  /\ l = "start" => r = "queued"
  /\ l \in {"body", "complete", "fail"} => r = "processing"
  /\ l = "body" => w.state = "processing"
  /\ l = "complete" => pc = "returned"
  /\ l = "fail" => w.state = "processing" \/ pc = "returned"
  /\ l = "done" => i \in raised' \/ r \in {"completed", "failed"}
  /\ r = "completed" => pc = "returned"

LEMMA OneItemMoves ==
  ASSUME ItemTypeOK, \A j \in Item : ItemFollows(j), UNCHANGED vars,
         NEW i \in Item, NEW r, NEW w, NEW l, ItemMove(i, r, w, l)
  PROVE  ItemTypeOK' /\ \A j \in Item : ItemFollows(j)'
  <1>0. /\ r \in WorkItem!State /\ row' = [row EXCEPT ![i] = r]
        /\ w \in [state : WorkItem!State, microsecond : Clock] /\ memory' = [memory EXCEPT ![i] = w]
        /\ l \in WorkItem!Label /\ at' = [at EXCEPT ![i] = l]
        /\ raised' = raised \/ raised' = raised \union {i}
    BY DEF ItemMove
  <1>1. ItemTypeOK'
    BY <1>0 DEF ItemTypeOK
  <1>2. ItemFollows(i)'
    <2>1. row'[i] = r /\ memory'[i] = w /\ at'[i] = l /\ pc' = pc
      BY <1>0 DEF ItemTypeOK, vars
    <2>. QED
      BY <2>1 DEF ItemFollows, ItemMove
  <1>3. ASSUME NEW j \in Item, j # i
        PROVE  ItemFollows(j)'
    <2>1. row'[j] = row[j] /\ memory'[j] = memory[j] /\ at'[j] = at[j] /\ pc' = pc
      BY <1>0, <1>3 DEF ItemTypeOK, vars
    <2>2. j \in raised => j \in raised'
      BY <1>0
    <2>. QED
      BY <2>1, <2>2 DEF ItemFollows
  <1>. QED
    BY <1>1, <1>2, <1>3

LEMMA StageStarts ==
  ASSUME StageInit
  PROVE  StageInv
  <1>1. ExtractionInv
    BY ExtractionInit DEF StageInit
  <1>2. ItemTypeOK /\ \A i \in Item : ItemFollows(i)
    BY DEF StageInit, WorkItem!Init, WorkItem!State, WorkItem!Label, ItemTypeOK, ItemFollows, Clock
  <1>. QED
    BY <1>1, <1>2 DEF StageInv

LEMMA MovedType ==
  ASSUME ItemTypeOK, NEW i \in Item, NEW to \in WorkItem!State, NEW m \in Microsecond
  PROVE  /\ WorkItem!Moved(memory[i], to, m) \in [state : WorkItem!State, microsecond : Clock]
         /\ WorkItem!Moved(memory[i], to, m).state = to
  BY DEF ItemTypeOK, WorkItem!Moved, Clock

LEMMA StageItems ==
  ASSUME ItemTypeOK, \A j \in Item : ItemFollows(j), pc \in Step,
         NEW i \in Item, Open(i) \/ Leave(i) \/ Close(i)
  PROVE  ItemTypeOK' /\ \A j \in Item : ItemFollows(j)'
  <1>0. /\ memory[i] \in [state : WorkItem!State, microsecond : Clock]
        /\ row[i] \in WorkItem!State /\ at[i] \in WorkItem!Label /\ ItemFollows(i)
        /\ row = [row EXCEPT ![i] = row[i]] /\ memory = [memory EXCEPT ![i] = memory[i]]
    BY DEF ItemTypeOK
  <1>1. CASE WorkItem!Create(i) /\ UNCHANGED vars
    <2>. DEFINE w == [memory[i] EXCEPT !.state = "queued"]
    <2>1. w \in [state : WorkItem!State, microsecond : Clock]
      BY <1>0 DEF WorkItem!State
    <2>2. memory' = [memory EXCEPT ![i] = w]
      BY <1>1 DEF WorkItem!Create
    <2>3. /\ row' = [row EXCEPT ![i] = "queued"] /\ at' = [at EXCEPT ![i] = "start"]
          /\ raised' = raised /\ UNCHANGED vars
      BY <1>1 DEF WorkItem!Create, WorkItem!Goto
    <2>4. "queued" \in WorkItem!State /\ "start" \in WorkItem!Label
      BY DEF WorkItem!State, WorkItem!Label
    <2>. HIDE DEF w
    <2>5. ItemMove(i, "queued", w, "start")
      BY <2>1, <2>2, <2>3, <2>4 DEF ItemMove
    <2>. QED
      BY <2>3, <2>5, OneItemMoves
  <1>2. CASE WorkItem!Start(i) /\ UNCHANGED vars
    <2>1. PICK m \in Microsecond :
            LET w == WorkItem!Moved(memory[i], "processing", m)
            IN  /\ memory' = [memory EXCEPT ![i] = w]
                /\ \/ row' = [row EXCEPT ![i] = w.state] /\ at' = [at EXCEPT ![i] = "body"] /\ raised' = raised
                   \/ row' = row /\ at' = [at EXCEPT ![i] = "done"] /\ raised' = raised \union {i}
      BY <1>2 DEF WorkItem!Start, WorkItem!Stored, WorkItem!Collides, WorkItem!Goto, WorkItem!Escapes
    <2>. DEFINE w == WorkItem!Moved(memory[i], "processing", m)
    <2>2. w \in [state : WorkItem!State, microsecond : Clock] /\ w.state = "processing"
      BY MovedType DEF WorkItem!State
    <2>3. at[i] = "start" /\ row[i] = "queued" /\ UNCHANGED vars
      BY <1>0, <1>2 DEF WorkItem!Start, ItemFollows
    <2>10. memory' = [memory EXCEPT ![i] = w]
      BY <2>1
    <2>. HIDE DEF w
    <2>4. {"processing", "queued"} \subseteq WorkItem!State /\ {"body", "done"} \subseteq WorkItem!Label
      BY DEF WorkItem!State, WorkItem!Label
    <2>5. CASE row' = [row EXCEPT ![i] = "processing"] /\ at' = [at EXCEPT ![i] = "body"] /\ raised' = raised
      <3>1. ItemMove(i, "processing", w, "body")
        BY <2>2, <2>4, <2>5, <2>10 DEF ItemMove
      <3>. QED
        BY <2>3, <3>1, OneItemMoves
    <2>6. CASE row' = row /\ at' = [at EXCEPT ![i] = "done"] /\ raised' = raised \union {i}
      <3>1. row' = [row EXCEPT ![i] = "queued"] /\ i \in raised'
        BY <1>0, <2>3, <2>6
      <3>2. ItemMove(i, "queued", w, "done")
        BY <2>2, <2>4, <2>6, <2>10, <3>1 DEF ItemMove
      <3>. QED
        BY <2>3, <3>2, OneItemMoves
    <2>. QED
      BY <2>1, <2>2, <2>5, <2>6 DEF w
  <1>3. CASE Leave(i)
    <2>1. /\ at[i] = "body" /\ pc \in Over /\ UNCHANGED vars
          /\ row' = row /\ memory' = memory /\ raised' = raised
      BY <1>3 DEF Leave, WorkItem!Body
    <2>2. PICK l \in {"complete", "fail"} : at' = [at EXCEPT ![i] = l]
      BY <1>3 DEF Leave, WorkItem!Body, WorkItem!Goto
    <2>3. l = "complete" => pc = "returned"
      BY <1>3, <2>2 DEF Leave, Outcome, ItemTypeOK
    <2>4. row[i] = "processing" /\ memory[i].state = "processing"
      BY <1>0, <2>1 DEF ItemFollows
    <2>5. l \in WorkItem!Label
      BY <2>2 DEF WorkItem!Label
    <2>6. l \in {"complete", "fail"}
      BY <2>2
    <2>7. row' = [row EXCEPT ![i] = row[i]] /\ memory' = [memory EXCEPT ![i] = memory[i]]
      BY <1>0, <2>1
    <2>8. /\ memory[i] \in [state : WorkItem!State, microsecond : Clock]
          /\ row[i] \in WorkItem!State /\ raised' = raised /\ UNCHANGED vars
      BY <1>0, <2>1
    <2>9. ItemMove(i, row[i], memory[i], l)
      BY <2>2, <2>3, <2>4, <2>5, <2>6, <2>7, <2>8 DEF ItemMove
    <2>. QED
      BY <2>8, <2>9, OneItemMoves
  <1>4. CASE WorkItem!Complete(i) /\ UNCHANGED vars
    <2>1. PICK m \in Microsecond :
            LET w == WorkItem!Moved(memory[i], "completed", m)
            IN  /\ memory' = [memory EXCEPT ![i] = w]
                /\ \/ row' = [row EXCEPT ![i] = w.state] /\ at' = [at EXCEPT ![i] = "done"]
                   \/ row' = row /\ at' = [at EXCEPT ![i] = "fail"]
      BY <1>4 DEF WorkItem!Complete, WorkItem!Stored, WorkItem!Collides, WorkItem!Goto
    <2>. DEFINE w == WorkItem!Moved(memory[i], "completed", m)
    <2>2. w \in [state : WorkItem!State, microsecond : Clock] /\ w.state = "completed"
      BY MovedType DEF WorkItem!State
    <2>3. row[i] = "processing" /\ pc = "returned" /\ raised' = raised /\ UNCHANGED vars
      BY <1>0, <1>4 DEF WorkItem!Complete, ItemFollows
    <2>10. memory' = [memory EXCEPT ![i] = w]
      BY <2>1
    <2>. HIDE DEF w
    <2>4. {"processing", "completed"} \subseteq WorkItem!State /\ {"fail", "done"} \subseteq WorkItem!Label
      BY DEF WorkItem!State, WorkItem!Label
    <2>5. CASE row' = [row EXCEPT ![i] = "completed"] /\ at' = [at EXCEPT ![i] = "done"]
      <3>1. ItemMove(i, "completed", w, "done")
        BY <2>2, <2>3, <2>4, <2>5, <2>10 DEF ItemMove
      <3>. QED
        BY <2>3, <3>1, OneItemMoves
    <2>6. CASE row' = row /\ at' = [at EXCEPT ![i] = "fail"]
      <3>1. row' = [row EXCEPT ![i] = "processing"]
        BY <1>0, <2>3, <2>6
      <3>2. ItemMove(i, "processing", w, "fail")
        BY <2>2, <2>3, <2>4, <2>6, <2>10, <3>1 DEF ItemMove
      <3>. QED
        BY <2>3, <3>2, OneItemMoves
    <2>. QED
      BY <2>1, <2>2, <2>5, <2>6 DEF w
  <1>5. CASE WorkItem!Fail(i) /\ UNCHANGED vars
    <2>1. row[i] = "processing" /\ at' = [at EXCEPT ![i] = "done"] /\ UNCHANGED vars
      BY <1>0, <1>5 DEF WorkItem!Fail, WorkItem!Goto, ItemFollows
    <2>2. {"processing", "failed"} \subseteq WorkItem!State /\ "done" \in WorkItem!Label
      BY DEF WorkItem!State, WorkItem!Label
    <2>3. CASE raised' = raised \union {i} /\ UNCHANGED <<row, memory>>
      <3>1. row' = [row EXCEPT ![i] = "processing"] /\ memory' = [memory EXCEPT ![i] = memory[i]] /\ i \in raised'
        BY <1>0, <2>1, <2>3
      <3>2. memory[i] \in [state : WorkItem!State, microsecond : Clock] /\ raised' = raised \union {i}
        BY <1>0, <2>3
      <3>3. ItemMove(i, "processing", memory[i], "done")
        BY <2>1, <2>2, <3>1, <3>2 DEF ItemMove
      <3>. QED
        BY <2>1, <3>3, OneItemMoves
    <2>4. CASE \E m \in Microsecond :
                 LET w == WorkItem!Moved(memory[i], "failed", m)
                 IN  /\ memory' = [memory EXCEPT ![i] = w]
                     /\ \/ row' = [row EXCEPT ![i] = w.state] /\ raised' = raised
                        \/ row' = row /\ raised' = raised \union {i}
      <3>1. PICK m \in Microsecond :
                 LET w == WorkItem!Moved(memory[i], "failed", m)
                 IN  /\ memory' = [memory EXCEPT ![i] = w]
                     /\ \/ row' = [row EXCEPT ![i] = w.state] /\ raised' = raised
                        \/ row' = row /\ raised' = raised \union {i}
        BY <2>4
      <3>. DEFINE w == WorkItem!Moved(memory[i], "failed", m)
      <3>2. w \in [state : WorkItem!State, microsecond : Clock] /\ w.state = "failed"
        BY MovedType DEF WorkItem!State
      <3>10. memory' = [memory EXCEPT ![i] = w]
        BY <3>1
      <3>. HIDE DEF w
      <3>3. CASE row' = [row EXCEPT ![i] = "failed"] /\ raised' = raised
        <4>1. ItemMove(i, "failed", w, "done")
          BY <2>1, <2>2, <3>2, <3>3, <3>10 DEF ItemMove
        <4>. QED
          BY <2>1, <4>1, OneItemMoves
      <3>4. CASE row' = row /\ raised' = raised \union {i}
        <4>1. row' = [row EXCEPT ![i] = "processing"] /\ i \in raised'
          BY <1>0, <2>1, <3>4
        <4>2. ItemMove(i, "processing", w, "done")
          BY <2>1, <2>2, <3>2, <3>4, <3>10, <4>1 DEF ItemMove
        <4>. QED
          BY <2>1, <4>2, OneItemMoves
      <3>. QED
        BY <3>1, <3>2, <3>3, <3>4 DEF w
    <2>. QED
      BY <1>5, <2>3, <2>4 DEF WorkItem!Fail, WorkItem!Stored, WorkItem!Collides, WorkItem!Escapes
  <1>. QED
    BY <1>1, <1>2, <1>3, <1>4, <1>5 DEF Open, Close

LEMMA StageSteps ==
  ASSUME StageInv, [StageNext]_stageVars
  PROVE  StageInv'
  <1>0. ExtractionInv /\ ItemTypeOK /\ (\A i \in Item : ItemFollows(i)) /\ pc \in Step
    BY DEF StageInv, ExtractionInv, TypeOK
  <1>1. CASE [Next]_vars /\ UNCHANGED itemVars
    BY <1>0, <1>1, ExtractionStep, ItemsRest DEF StageInv
  <1>2. ASSUME NEW i \in Item, Open(i) \/ Leave(i) \/ Close(i)
        PROVE  StageInv'
    <2>1. UNCHANGED vars
      BY <1>2 DEF Open, Leave, Close
    <2>. QED
      BY <1>0, <1>2, <2>1, ExtractionStep, StageItems DEF StageInv
  <1>. QED
    BY <1>1, <1>2 DEF StageNext, StageStep, Extract, Meanwhile, Next, stageVars

(* The strengthened invariant of the stage around extract_metadata holds    *)
(* after every step of it: what is pending, stored, counted and told.       *)
THEOREM StageInvariant == StageSpec => []StageInv
  <1>1. StageInit => StageInv
    BY StageStarts
  <1>2. StageInv /\ [StageNext]_stageVars => StageInv'
    BY StageSteps
  <1>. QED
    BY <1>1, <1>2, PTL DEF StageSpec

(* What the extraction stores and counts is what the trail says of the      *)
(* attempt that got through, whatever attempts failed before it and however *)
(* many urls another execution adds meanwhile.                              *)
THEOREM StoredIsOnTrail == StageSpec => []PagesMatchTrail
  <1>1. StageInv => PagesMatchTrail
    <2>. SUFFICES ASSUME StageInv
                  PROVE  PagesMatchTrail
      OBVIOUS
    <2>0. TypeOK /\ TrailFollows /\ RestStored /\ CountFits
      BY DEF StageInv, ExtractionInv
    <2>1. pc \in Got => pages = Told("page_extracted")
      BY <2>0 DEF TypeOK, TrailFollows, Told
    <2>2. ASSUME pc = "returned"
          PROVE  skipped \in Cardinality(Told("page_skipped")) ..
                              Cardinality(Told("page_skipped") \union Unheard)
      <3>1. /\ Cardinality(Told("page_skipped")) \in Nat
            /\ Cardinality(Told("page_skipped") \union Unheard) \in Nat
        BY <2>0, FiniteUrls DEF Told, Unheard, TypeOK
      <3>2. skipped \in Nat
        BY <2>0 DEF TypeOK
      <3>3. /\ Cardinality(Told("page_skipped")) <= skipped
            /\ skipped <= Cardinality(Told("page_skipped") \union Unheard)
        BY <2>0, <2>2 DEF CountFits
      <3>. QED
        BY <3>1, <3>2, <3>3
    <2>3. pc = "returned" => pages \subseteq stored
      BY <2>0 DEF RestStored
    <2>. QED
      BY <2>1, <2>2, <2>3 DEF PagesMatchTrail, Got, Unheard
  <1>. QED
    BY <1>1, StageInvariant, PTL

(* What the table says of the stage is true of its pages: completed means   *)
(* stored with their validators, failed or left processing means it did not *)
(* get through or an exception nobody catches took over.                    *)
THEOREM RowsTellOutcome == StageSpec => []RowTellsOutcome
  <1>1. StageInv => RowTellsOutcome
    <2>. SUFFICES ASSUME StageInv, NEW i \in Item
                  PROVE  /\ row[i] = "completed" => pc = "returned" /\ pages \subseteq stored \intersect validators
                         /\ at[i] = "done" /\ i \notin raised /\ pc # "returned" => row[i] = "failed"
                         /\ at[i] = "done" /\ row[i] = "processing" => i \in raised
      BY DEF RowTellsOutcome
    <2>1. ItemFollows(i) /\ RestStored
      BY DEF StageInv, ExtractionInv
    <2>. QED
      BY <2>1 DEF ItemFollows, RestStored
  <1>. QED
    BY <1>1, StageInvariant, PTL

-----------------------------------------------------------------------------
(* The audit trail.                                                         *)

(* Every entry continues the path of its item.                              *)
Continues(history, n) ==
  /\ history[n].to \in WorkItem!Allowed(history[n].from)
  /\ WorkItem!Leaves(history, history[n].item, n, history[n].from)

AuditOK ==
  /\ audit \in Seq(WorkItem!Entry)
  /\ \A n \in 1 .. Len(audit) : Continues(audit, n)
  /\ \A i \in Item :
       IF row[i] = "absent" THEN \A n \in 1 .. Len(audit) : audit[n].item # i
       ELSE WorkItem!Leaves(audit, i, Len(audit) + 1, row[i])

(* What an entry adds to a trail.                                           *)
LEMMA AppendedTrail ==
  ASSUME NEW trail0 \in Seq(WorkItem!Entry), NEW e \in WorkItem!Entry
  PROVE  LET trail1 == Append(trail0, e)
             n == Len(trail0) + 1
         IN  /\ trail1 \in Seq(WorkItem!Entry) /\ Len(trail1) = n /\ trail1[n] = e
             /\ \A m \in 1 .. Len(trail0) : trail1[m] = trail0[m]
             /\ \A m \in 1 .. n : \A i, s :
                  WorkItem!Leaves(trail1, i, m, s) <=> WorkItem!Leaves(trail0, i, m, s)
             /\ WorkItem!Leaves(trail1, e.item, n + 1, e.to)
             /\ \A i, s : i # e.item =>
                  (WorkItem!Leaves(trail1, i, n + 1, s) <=> WorkItem!Leaves(trail0, i, n, s))
  <1>. DEFINE trail1 == Append(trail0, e)
              l == Len(trail0)
              n == l + 1
  <1>1. /\ trail1 \in Seq(WorkItem!Entry) /\ Len(trail1) = n /\ trail1[n] = e
        /\ l \in Nat /\ \A m \in 1 .. l : trail1[m] = trail0[m]
    OBVIOUS
  <1>. HIDE DEF trail1, l
  <1>2. ASSUME NEW m \in 1 .. n, NEW i, NEW s
        PROVE  WorkItem!Leaves(trail1, i, m, s) <=> WorkItem!Leaves(trail0, i, m, s)
    <2>1. \A k \in 1 .. m - 1 : trail1[k] = trail0[k]
      BY <1>1
    <2>2. {k \in 1 .. m - 1 : trail1[k].item = i} = {k \in 1 .. m - 1 : trail0[k].item = i}
      BY <2>1
    <2>. QED
      BY <2>1, <2>2 DEF WorkItem!Leaves
  <1>3. WorkItem!Leaves(trail1, e.item, n + 1, e.to)
    <2>1. n \in 1 .. n + 1 - 1 /\ \A k \in 1 .. n + 1 - 1 : k <= n
      BY <1>1
    <2>. QED
      BY <1>1, <2>1 DEF WorkItem!Leaves
  <1>4. ASSUME NEW i, NEW s, i # e.item
        PROVE  WorkItem!Leaves(trail1, i, n + 1, s) <=> WorkItem!Leaves(trail0, i, n, s)
    <2>1. \A k : k \in 1 .. n + 1 - 1 <=> k \in 1 .. n - 1 \/ k = n
      BY <1>1
    <2>2. \A k \in 1 .. n - 1 : trail1[k] = trail0[k]
      BY <1>1
    <2>3. {k \in 1 .. n + 1 - 1 : trail1[k].item = i} = {k \in 1 .. n - 1 : trail0[k].item = i}
      BY <1>1, <1>4, <2>1, <2>2
    <2>. DEFINE S == {k \in 1 .. n - 1 : trail0[k].item = i}
                To(tr) == \/ S = {} /\ s = "queued"
                          \/ \E m \in S : s = tr[m].to /\ \A k \in S : k <= m
    <2>4. WorkItem!Leaves(trail0, i, n, s) <=> To(trail0)
      BY DEF WorkItem!Leaves
    <2>5. WorkItem!Leaves(trail1, i, n + 1, s) <=> To(trail1)
      <3>. DEFINE next == n + 1
                  R == {k \in 1 .. next - 1 : trail1[k].item = i}
      <3>0. next \in Nat /\ next - 1 = n
        BY <1>1
      <3>. HIDE DEF next
      <3>1. R = S
        BY <1>1, <1>4, <2>1, <2>2, <3>0
      <3>2. WorkItem!Leaves(trail1, i, next, s) <=>
              \/ R = {} /\ s = "queued"
              \/ \E m \in R : s = trail1[m].to /\ \A k \in R : k <= m
        BY DEF WorkItem!Leaves
      <3>3. WorkItem!Leaves(trail1, i, next, s) <=> To(trail1)
        <4>. HIDE DEF R, S
        <4>. QED
          BY <3>1, <3>2
      <3>. QED
        BY <3>3 DEF next
    <2>6. To(trail0) <=> To(trail1)
      BY <2>2
    <2>. QED
      BY <2>4, <2>5, <2>6
  <1>. QED
    BY <1>1, <1>2, <1>3, <1>4 DEF trail1, l

(* update_work_item commits a move of the item and its entry together.      *)
LEMMA StoredContinues ==
  ASSUME AuditOK, ItemTypeOK, NEW i \in Item, NEW w, w.microsecond \in Microsecond,
         WorkItem!Stored(i, w),
         \/ row[i] = "queued" /\ w.state = "processing"
         \/ row[i] = "processing" /\ w.state \in {"completed", "failed"}
  PROVE  AuditOK'
  <1>. DEFINE e == WorkItem!EntryFor(i, w)
              n == Len(audit) + 1
  <1>1. /\ e \in WorkItem!Entry /\ e.item = i /\ e.from = row[i] /\ e.to = w.state
        /\ e.to \in WorkItem!Allowed(e.from) /\ row[i] # "absent" /\ w.state # "absent"
    BY DEF WorkItem!EntryFor, WorkItem!Entry, WorkItem!Allowed
  <1>2. audit' = Append(audit, e) /\ row' = [row EXCEPT ![i] = w.state]
    BY DEF WorkItem!Stored
  <1>3. audit \in Seq(WorkItem!Entry) /\ Len(audit) \in Nat
    BY DEF AuditOK
  <1>. HIDE DEF e
  <1>4. /\ audit' \in Seq(WorkItem!Entry) /\ Len(audit') = n /\ audit'[n] = e
        /\ \A m \in 1 .. Len(audit) : audit'[m] = audit[m]
        /\ \A m \in 1 .. n : \A j, s :
             WorkItem!Leaves(audit', j, m, s) <=> WorkItem!Leaves(audit, j, m, s)
        /\ WorkItem!Leaves(audit', i, n + 1, e.to)
        /\ \A j, s : j # i => (WorkItem!Leaves(audit', j, n + 1, s) <=> WorkItem!Leaves(audit, j, n, s))
    BY <1>1, <1>2, <1>3, AppendedTrail
  <1>5. WorkItem!Leaves(audit, i, n, row[i])
    BY <1>1 DEF AuditOK
  <1>6. ASSUME NEW m \in 1 .. n
        PROVE  Continues(audit', m)
    <2>1. CASE m = n
      BY <1>1, <1>3, <1>4, <1>5, <2>1 DEF Continues
    <2>2. CASE m # n
      <3>1. m \in 1 .. Len(audit)
        BY <1>3, <2>2
      <3>2. audit'[m] = audit[m] /\ Continues(audit, m)
        BY <1>4, <3>1 DEF AuditOK
      <3>. QED
        BY <1>4, <3>2 DEF Continues
    <2>. QED
      BY <2>1, <2>2
  <1>7. ASSUME NEW j \in Item
        PROVE  IF row'[j] = "absent" THEN \A m \in 1 .. n : audit'[m].item # j
               ELSE WorkItem!Leaves(audit', j, n + 1, row'[j])
    <2>1. CASE j = i
      <3>1. row'[i] = w.state
        BY <1>2 DEF ItemTypeOK
      <3>. QED
        BY <1>1, <1>4, <2>1, <3>1
    <2>2. CASE j # i
      <3>1. row'[j] = row[j]
        BY <1>2, <2>2 DEF ItemTypeOK
      <3>2. CASE row[j] = "absent"
        <4>1. ASSUME NEW m \in 1 .. n
              PROVE  audit'[m].item # j
          <5>1. CASE m = n
            BY <1>1, <1>4, <2>2, <5>1
          <5>2. CASE m # n
            <6>1. m \in 1 .. Len(audit)
              BY <1>3, <5>2
            <6>. QED
              BY <1>4, <3>2, <6>1 DEF AuditOK
          <5>. QED
            BY <5>1, <5>2
        <4>. QED
          BY <3>1, <3>2, <4>1
      <3>3. CASE row[j] # "absent"
        <4>1. WorkItem!Leaves(audit, j, n, row[j])
          BY <3>3 DEF AuditOK
        <4>. QED
          BY <1>4, <2>2, <3>1, <3>3, <4>1
      <3>. QED
        BY <3>2, <3>3
    <2>. QED
      BY <2>1, <2>2
  <1>. QED
    BY <1>4, <1>6, <1>7 DEF AuditOK

LEMMA AuditStep ==
  ASSUME AuditOK, StageInv, [StageNext]_stageVars
  PROVE  AuditOK'
  <1>0. ItemTypeOK /\ \A i \in Item : ItemFollows(i)
    BY DEF StageInv
  <1>1. CASE UNCHANGED <<row, audit>>
    BY <1>1 DEF AuditOK
  <1>2. ASSUME NEW i \in Item, WorkItem!Create(i)
        PROVE  AuditOK'
    <2>1. row[i] = "absent" /\ row' = [row EXCEPT ![i] = "queued"] /\ audit' = audit
      BY <1>0, <1>2 DEF WorkItem!Create, ItemFollows
    <2>2. \A n \in 1 .. Len(audit) : audit[n].item # i
      BY <2>1 DEF AuditOK
    <2>3. WorkItem!Leaves(audit, i, Len(audit) + 1, "queued")
      <3>1. Len(audit) \in Nat
        BY DEF AuditOK
      <3>2. {m \in 1 .. Len(audit) + 1 - 1 : audit[m].item = i} = {}
        BY <2>2, <3>1
      <3>. QED
        BY <3>2 DEF WorkItem!Leaves
    <2>4. row'[i] = "queued" /\ \A j \in Item : j # i => row'[j] = row[j]
      BY <1>0, <2>1 DEF ItemTypeOK
    <2>. QED
      BY <2>1, <2>3, <2>4 DEF AuditOK
  <1>3. ASSUME NEW i \in Item, NEW to \in {"completed", "failed"}, row[i] = "processing",
               NEW m \in Microsecond, WorkItem!Stored(i, WorkItem!Moved(memory[i], to, m))
        PROVE  AuditOK'
    <2>. DEFINE w == WorkItem!Moved(memory[i], to, m)
    <2>1. w.state = to /\ w.microsecond = m
      BY <1>0 DEF WorkItem!Moved, ItemTypeOK
    <2>2. WorkItem!Stored(i, w)
      BY <1>3
    <2>. HIDE DEF w
    <2>. QED
      BY <1>0, <1>3, <2>1, <2>2, StoredContinues
  <1>4. ASSUME NEW i \in Item, WorkItem!Start(i)
        PROVE  AuditOK'
    <2>1. row[i] = "queued"
      BY <1>0, <1>4 DEF WorkItem!Start, ItemFollows
    <2>2. CASE UNCHANGED <<row, audit>>
      BY <1>1, <2>2
    <2>3. CASE \E m \in Microsecond : WorkItem!Stored(i, WorkItem!Moved(memory[i], "processing", m))
      <3>1. PICK m \in Microsecond : WorkItem!Stored(i, WorkItem!Moved(memory[i], "processing", m))
        BY <2>3
      <3>. DEFINE w == WorkItem!Moved(memory[i], "processing", m)
      <3>2. w.state = "processing" /\ w.microsecond = m /\ WorkItem!Stored(i, w)
        BY <1>0, <3>1 DEF WorkItem!Moved, ItemTypeOK
      <3>. HIDE DEF w
      <3>. QED
        BY <1>0, <2>1, <3>2, StoredContinues
    <2>. QED
      BY <1>4, <2>2, <2>3 DEF WorkItem!Start, WorkItem!Collides
  <1>5. ASSUME NEW i \in Item, WorkItem!Complete(i)
        PROVE  AuditOK'
    <2>1. row[i] = "processing"
      BY <1>0, <1>5 DEF WorkItem!Complete, ItemFollows
    <2>2. CASE UNCHANGED <<row, audit>>
      BY <1>1, <2>2
    <2>3. CASE \E m \in Microsecond : WorkItem!Stored(i, WorkItem!Moved(memory[i], "completed", m))
      <3>1. PICK m \in Microsecond : WorkItem!Stored(i, WorkItem!Moved(memory[i], "completed", m))
        BY <2>3
      <3>2. "completed" \in {"completed", "failed"}
        OBVIOUS
      <3>. QED
        BY <1>3, <2>1, <3>1, <3>2
    <2>. QED
      BY <1>5, <2>2, <2>3 DEF WorkItem!Complete, WorkItem!Collides
  <1>6. ASSUME NEW i \in Item, WorkItem!Fail(i)
        PROVE  AuditOK'
    <2>1. row[i] = "processing"
      BY <1>0, <1>6 DEF WorkItem!Fail, ItemFollows
    <2>2. CASE UNCHANGED <<row, audit>>
      BY <1>1, <2>2
    <2>3. CASE \E m \in Microsecond : WorkItem!Stored(i, WorkItem!Moved(memory[i], "failed", m))
      <3>1. PICK m \in Microsecond : WorkItem!Stored(i, WorkItem!Moved(memory[i], "failed", m))
        BY <2>3
      <3>2. "failed" \in {"completed", "failed"}
        OBVIOUS
      <3>. QED
        BY <1>3, <2>1, <3>1, <3>2
    <2>. QED
      BY <1>6, <2>2, <2>3 DEF WorkItem!Fail, WorkItem!Collides
  <1>7. ASSUME NEW i \in Item, Leave(i)
        PROVE  AuditOK'
    BY <1>1, <1>7 DEF Leave, WorkItem!Body
  <1>8. CASE UNCHANGED itemVars
    BY <1>1, <1>8 DEF itemVars
  <1>. QED
    BY <1>2, <1>4, <1>5, <1>6, <1>7, <1>8
       DEF StageNext, StageStep, Extract, Meanwhile, Open, Close, stageVars

(* The entries of every item are a path from queued to what its row says,   *)
(* for any number of items, any clock and any collisions of keys.           *)
THEOREM TrailsArePaths == StageSpec => []TrailIsPath
  <1>1. StageInit => AuditOK
    <2>1. <<>> \in Seq(WorkItem!Entry) /\ Len(<<>>) = 0 /\ 1 .. 0 = {}
      OBVIOUS
    <2>. QED
      BY <2>1 DEF StageInit, WorkItem!Init, AuditOK
  <1>2. AuditOK /\ StageInv /\ [StageNext]_stageVars => AuditOK'
    BY AuditStep
  <1>3. AuditOK => TrailIsPath
    BY DEF AuditOK, Continues, TrailIsPath, WorkItem!TrailIsPath
  <1>. QED
    BY <1>1, <1>2, <1>3, StageInvariant, PTL DEF StageSpec
=============================================================================
