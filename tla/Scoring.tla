------------------------------- MODULE Scoring -------------------------------
(***************************************************************************)
(* score_pages (app/indexer/workers.py) on what it counts: the pages, those *)
(* with a title and with a description, the sum of their confidences and    *)
(* the distinct urls.  A confidence is a number of hundredths, a score a    *)
(* number of ten-thousandths, the four decimals the code rounds to; the     *)
(* error of Python's floating point is left out.                            *)
(***************************************************************************)
EXTENDS Integers

One == 10000
Rounded(num, den) == (2 * num + den) \div (2 * den)

Counts == [pages : Nat, titled : Nat, described : Nat, confidence : Nat, urls : Nat]
NoPages == [pages |-> 0, titled |-> 0, described |-> 0, confidence |-> 0, urls |-> 0]

Coverage(c) == Rounded(One * (c.titled + c.described), 2 * c.pages)
ConfidenceOf(c) == Rounded(One * c.confidence, 200 * c.pages)
Redundancy(c) == Rounded(One * c.urls, c.pages)

(* 0.4 coverage + 0.4 confidence + 0.2 redundancy, before they are rounded. *)
Weighted(c) == 400 * (c.titled + c.described) + 4 * c.confidence + 400 * c.urls
MutTotal(c) == 100 * Rounded(5 * Weighted(c), 100 * c.pages)   \* seeded bug: two decimals
Total(c) == Rounded(5 * Weighted(c), c.pages)

Scores(c) ==
  IF c.pages = 0
    THEN [coverage |-> 0, confidence |-> 0, redundancy |-> 0, total |-> 0]
    ELSE [coverage |-> Coverage(c), confidence |-> ConfidenceOf(c),
          redundancy |-> Redundancy(c), total |-> Total(c)]
==============================================================================
