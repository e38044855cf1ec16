------------------------- MODULE PageTableProperties -------------------------
(***************************************************************************)
(* What a run's pages, score and llms.txt have to do with each other, and   *)
(* what a reader may conclude from the score.                               *)
(***************************************************************************)
EXTENDS PageTable

CONSTANT Copies   \* how much larger a run may be, see EveryLossShows
ASSUME CopiesAssumption == Copies \subseteq Nat \ {0}

At(table, u) == {p \in table : p.url = u}
Alike(table, u) == {p \in table : Canonical(p.url) = u}

(* After canonicalization the canonical address of every page has one row,  *)
(* with the metadata of one of the pages written like it, and none of them  *)
(* was better; in whatever order the rows were read and also when earlier   *)
(* executions left raw and canonical rows behind.                           *)
CanonicalRowIsBest ==
  [][pc = "canonicalization" /\ pc' = "scoring" =>
       \A u \in {Canonical(p.url) : p \in rows} :
         /\ Cardinality(At(rows', u)) = 1
         /\ \A w \in At(rows', u) :
              /\ \E p \in Alike(rows, u) : w = [p EXCEPT !.url = u]
              /\ \A p \in Alike(rows, u) : Combined(w) >= Combined(p)]_vars

(* The llms.txt lists every page that has a section, each once and under    *)
(* its own section, and no section is empty or comes twice.                 *)
DocumentListsEveryPage ==
  pc = "done" =>
    /\ Range(document.order) = DOMAIN document.entries
    /\ IsInjective(document.order)
    /\ \A p \in rows : HasSection(p.url) =>
         /\ SectionOf(p.url) \in DOMAIN document.entries
         /\ \A s \in DOMAIN document.entries :
              p \in document.entries[s] <=> s = SectionOf(p.url)
    /\ \A s \in DOMAIN document.entries :
         document.entries[s] # {} /\ document.entries[s] \subseteq rows

(* The score is that of the pages the llms.txt lists or skips: nothing      *)
(* comes between the two stages of one execution.                           *)
ScoreMatchesDocument ==
  pc = "done" => /\ scores = Scores(Counted(rows))
                 /\ document.pages_crawled = Cardinality(rows)

(* The counts of n runs like this one put together.                         *)
Scaled(c, n) == [k \in DOMAIN c |-> n * c[k]]

(* The counts when p has no title, and when it has no description.          *)
WithoutTitle(c, p) == [c EXCEPT !.titled = @ - 1, !.confidence = @ - p.title]
WithoutDescription(c, p) == [c EXCEPT !.described = @ - 1, !.confidence = @ - p.description]

(* Rounding hides nothing in a run of up to 3200 pages: whatever its pages  *)
(* offer, a title or a description less lowers the score.                   *)
EveryLossShows ==
  pc = "done" =>
    \A n \in Copies, p \in rows :
      LET c == Scaled(Counted(rows), n)
      IN  c.pages <= 3200 =>
            /\ p.title > 0 => Total(WithoutTitle(c, p)) < Total(c)
            /\ p.description > 0 => Total(WithoutDescription(c, p)) < Total(c)
==============================================================================
