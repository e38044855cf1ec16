------------------------------ MODULE PageTable ------------------------------
(***************************************************************************)
(* What extraction, canonicalization, scoring and generation do to the      *)
(* pages of a run (app/indexer/workers.py, domain/models.py), over several  *)
(* executions of the run one after the other.  Canonicalization reads every *)
(* row and upserts the canonical pages beside the raw ones; nothing deletes *)
(* a row, and no query says in which order rows come.                       *)
(*                                                                          *)
(* An address keeps what the code looks at: scheme, host, first segment and *)
(* how it is written.  A page keeps its address and the confidences of its  *)
(* title and description, where 0 says that there is none.                  *)
(***************************************************************************)
EXTENDS Scoring, Sequences, SequencesExt, FiniteSetsExt

CONSTANTS Sites,     \* sets of addresses a run may discover
          PageHead,  \* what the heads of the pages may contain, see Extracted
          MaxExec    \* bound: executions of the run

Segment == {"root", "docs", "blog", "assets"}
Address == [scheme : {"http", "https"}, host : {"own", "other"}, segment : Segment,
            written : {"canonical", "slash", "query"}]
Source == <<"tag", "og", "twitter", "jsonld">>

ASSUME SiteAssumption == \A site \in Sites : site \subseteq Address
ASSUME HeadAssumption ==
  PageHead \subseteq [{"title", "description"} -> SUBSET Range(Source)]

VARIABLES
  site,      \* discovered_url: the addresses of the run
  pc,        \* the stage that comes next
  exec,      \* executions begun
  rows,      \* extracted_page: the rows of the run
  scores,    \* score_breakdown
  document   \* llms_txt

vars == <<site, pc, exec, rows, scores, document>>

ConfidenceFrom == [tag |-> 100, og |-> 80, twitter |-> 75, jsonld |-> 60]
Confidence == {0} \union Range(ConfidenceFrom)
Page == [url : Address, title : Confidence, description : Confidence]
Section == {"External", "Home", "Docs", "Blog"}
NoSections == [order |-> <<>>, entries |-> [s \in {} |-> {}]]
NoDocument == [title |-> 0, order |-> NoSections.order, entries |-> NoSections.entries,
               pages_crawled |-> 0]

-----------------------------------------------------------------------------
(* Extraction: the first source in the cascade that has text wins.          *)

Cascade(found) ==
  IF found = {} THEN 0
  ELSE ConfidenceFrom[Source[CHOOSE i \in DOMAIN Source :
         Source[i] \in found /\ \A j \in 1 .. i - 1 : Source[j] \notin found]]
Extracted(u, head) ==
  [url |-> u, title |-> Cascade(head.title), description |-> Cascade(head.description)]

(* upsert_extracted_pages of pages with different urls.                     *)
Upserted(table, pages) ==
  {p \in table : \A q \in pages : q.url # p.url} \union pages

-----------------------------------------------------------------------------
(* Canonicalization.                                                        *)

Canonical(u) == [u EXCEPT !.written = "canonical"]   \* _normalize_url
Combined(p) == p.title + p.description
MutBetter(p, q) == p.title > q.title   \* seeded bug: descriptions do not count
Better(p, q) == Combined(p) > Combined(q)

(* canonicalize_and_dedup: the best page of each canonical address, the     *)
(* first of equals.                                                         *)
Kept(canonical, page) ==
  LET moved == [page EXCEPT !.url = Canonical(page.url)]
      same == {q \in canonical : q.url = moved.url}
  IN  IF \A q \in same : Better(page, q) THEN (canonical \ same) \union {moved} ELSE canonical
Deduped(pages) ==
  LET canonical[n \in 0 .. Len(pages)] ==
        IF n = 0 THEN {} ELSE Kept(canonical[n - 1], pages[n])
  IN  canonical[Len(pages)]

-----------------------------------------------------------------------------
(* Scoring.                                                                 *)

Counted(table) ==
  [pages |-> Cardinality(table),
   titled |-> Cardinality({p \in table : p.title > 0}),
   described |-> Cardinality({p \in table : p.description > 0}),
   confidence |-> SumFunction([p \in table |-> Combined(p)]),
   urls |-> Cardinality({p.url : p \in table})]

-----------------------------------------------------------------------------
(* Generation.                                                              *)

(* _section_name_from_url; the prefixes that are skipped have no section.   *)
HasSection(u) == u.host = "other" \/ u.segment # "assets"
SectionOf(u) ==
  CASE u.host = "other"     -> "External"
    [] u.host = "own" /\ u.segment = "root" -> "Home"
    [] u.host = "own" /\ u.segment = "docs" -> "Docs"
    [] OTHER                -> "Blog"

(* sections.setdefault(section, []).append(entry): a section is listed where *)
(* its first page comes.  Its entries are sorted by url when they are       *)
(* written: as a set they are the same text.                                *)
EntriesOf(sections, s) == IF s \in DOMAIN sections.entries THEN sections.entries[s] ELSE {}
With(sections, s, listed) ==
  [order |-> IF s \in DOMAIN sections.entries THEN sections.order ELSE Append(sections.order, s),
   entries |-> [x \in DOMAIN sections.entries \union {s} |->
                  IF x = s THEN listed ELSE sections.entries[x]]]
MutFiled(sections, page) ==   \* seeded bug: a page replaces the entries of its section
  IF HasSection(page.url) THEN With(sections, SectionOf(page.url), {page}) ELSE sections
Filed(sections, page) ==
  LET s == SectionOf(page.url)
  IN  IF HasSection(page.url) THEN With(sections, s, EntriesOf(sections, s) \union {page})
      ELSE sections
Grouped(pages) ==
  LET sections[n \in 0 .. Len(pages)] ==
        IF n = 0 THEN NoSections ELSE Filed(sections[n - 1], pages[n])
  IN  sections[Len(pages)]

(* The page at https://host, whose title heads the document.                *)
IsHome(u) == /\ u.scheme = "https" /\ u.host = "own"
             /\ u.segment = "root" /\ u.written # "query"
TitleFrom(pages) ==
  LET homes == {i \in DOMAIN pages : IsHome(pages[i].url)}
  IN  IF homes = {} THEN 0 ELSE pages[Min(homes)].title

MutDocument(pages) ==   \* seeded bug: skipped pages are not counted
  [title |-> TitleFrom(pages), order |-> Grouped(pages).order, entries |-> Grouped(pages).entries,
   pages_crawled |-> Cardinality({p \in Range(pages) : HasSection(p.url)})]

(* generate_llms_txt and to_text.                                           *)
Document(pages) ==
  [title |-> TitleFrom(pages), order |-> Grouped(pages).order,
   entries |-> Grouped(pages).entries, pages_crawled |-> Len(pages)]

-----------------------------------------------------------------------------
Init == /\ site \in Sites
        /\ pc = "extraction" /\ exec = 1
        /\ rows = {}
        /\ scores = Scores(NoPages) /\ document = NoDocument

(* Pages that answer 200; the others are skipped.                           *)
Extraction ==
  /\ pc = "extraction"
  /\ \E answering \in SUBSET site : \E head \in [answering -> PageHead] :
       rows' = Upserted(rows, {Extracted(u, head[u]) : u \in answering})
  /\ pc' = "canonicalization"
  /\ UNCHANGED <<site, exec, scores, document>>

Canonicalization ==
  /\ pc = "canonicalization"
  /\ \E read \in SetToSeqs(rows) : rows' = Upserted(rows, Deduped(read))
  /\ pc' = "scoring"
  /\ UNCHANGED <<site, exec, scores, document>>

ScorePages ==
  /\ pc = "scoring"
  /\ scores' = Scores(Counted(rows))
  /\ pc' = "generation"
  /\ UNCHANGED <<site, exec, rows, document>>

Generation ==
  /\ pc = "generation"
  /\ \E read \in SetToSeqs(rows) : document' = Document(read)
  /\ pc' = "done"
  /\ UNCHANGED <<site, exec, rows, scores>>

(* The run is executed again, after a crash or on a /process request; the   *)
(* execution may have been at any stage.                                    *)
Again ==
  /\ pc # "extraction" /\ exec < MaxExec
  /\ exec' = exec + 1
  /\ pc' = "extraction"
  /\ UNCHANGED <<site, rows, scores, document>>

Next == Extraction \/ Canonicalization \/ ScorePages \/ Generation \/ Again

Spec == Init /\ [][Next]_vars
==============================================================================
