------------------------------- MODULE Storage -------------------------------
(***************************************************************************)
(* The shared database of crawllmer: the columns of its tables that the     *)
(* pipeline's behaviour depends on, and what one commit of a repository     *)
(* method (adapters/storage.py) does to them.  Everything here is a         *)
(* constant-level operator; the tables themselves are variables of          *)
(* CrawlPipeline.                                                           *)
(***************************************************************************)
EXTENDS Integers

CONSTANTS Url,        \* page addresses, raw and canonical
          HashSeed    \* string-hash seeds of Python interpreters

(* Statuses of a run; "absent" is a run that has no row yet.               *)
RunStatus == {"absent", "queued", "running", "completed", "failed"}
Terminal == {"completed", "failed"}

(* States of a work item; "absent" is an item that has no row yet.         *)
ItemState == {"absent", "queued", "processing", "completed", "failed"}

(* The transitions WorkItem.transition allows.                              *)
Allowed(from) ==
  CASE from = "queued"     -> {"processing", "failed"}
    [] from = "processing" -> {"completed", "failed"}
    [] OTHER               -> {}

(* The stage plan: 1 discovery, 2 extraction, 3 canonicalization,          *)
(* 4 scoring, 5 generation.  Stage 0 is "before the plan".                 *)
LastStage == 5
Stage == 1 .. LastStage

(* A row of the runs table.  score, artifact_path, completed_at and error   *)
(* (the processing_error note) say whether the column has a value.          *)
RunRecord == [status : RunStatus, score : BOOLEAN, artifact_path : BOOLEAN,
              completed_at : BOOLEAN, error : BOOLEAN]

Blank(status) == [status |-> status, score |-> FALSE, artifact_path |-> FALSE,
                  completed_at |-> FALSE, error |-> FALSE]

(* The columns an UPDATE of update_run names: the ORM leaves out a column   *)
(* whose new value equals the one session.get loaded.  A terminal write     *)
(* carries a fresh completed_at; two scores, timestamps or error texts may  *)
(* or may not be equal, hence a set of possible column sets.                *)
WrittenColumns(record, mem) ==
  LET changed == {c \in DOMAIN mem : mem[c] # record[c]}
      fresh   == IF mem.status \in Terminal THEN {"completed_at"} ELSE {}
      compare == {c \in {"score", "completed_at", "error"} : mem[c] /\ record[c]}
  IN  {changed \union fresh \union more : more \in SUBSET compare}

(* The rows update_run can leave when `current` is the row at the commit.   *)
UpdatedRows(current, record, mem) ==
  {[status        |-> IF "status" \in written THEN mem.status ELSE current.status,
    score         |-> IF "score" \in written THEN mem.score ELSE current.score,
    artifact_path |-> IF "artifact_path" \in written
                        THEN mem.artifact_path ELSE current.artifact_path,
    completed_at  |-> IF "completed_at" \in written
                        THEN mem.completed_at ELSE current.completed_at,
    error         |-> IF "error" \in written THEN mem.error ELSE current.error] :
      written \in WrittenColumns(record, mem)}

(* The primary key of a discovered_urls or extracted_pages row is           *)
(* hash((run_id, url)), which depends on the process's string-hash seed.    *)
Row == HashSeed \X Url
RowsFor(seed, S) == {seed} \X S
UrlsOf(rows) == {row[2] : row \in rows}

(* The urls of a batch that the lookup did not find and that are inserted.  *)
MutMissing(batch, found) == batch   \* seeded bug: insert without looking
Missing(batch, found) == batch \ found

(* save_artifact merges: the new llms.txt replaces the old one.             *)
MutMerged(old, rows) == IF old.saved THEN old ELSE [saved |-> TRUE, rows |-> rows]
Merged(old, rows) == [saved |-> TRUE, rows |-> rows]
==============================================================================
