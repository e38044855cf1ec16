-------------------------- MODULE SpiderProperties --------------------------
(***************************************************************************)
(* What the spider's answer means, stated over the links the pages gave and *)
(* without the queue that computes it.                                      *)
(***************************************************************************)
EXTENDS Spider

(* Within[n]: the pages at most n hops from the seed, over the links of the *)
(* pages that answered.                                                     *)
Within[n \in 0 .. MaxDepth + 1] ==
  IF n = 0 THEN {Seed}
  ELSE Within[n - 1] \union UNION {links[u] : u \in Within[n - 1] \intersect Scanned}

(* The depth first written down for a page is its distance from the seed,   *)
(* at every moment: no page found later offers a shorter way, although      *)
(* depth_map is never corrected and the order of links is arbitrary.        *)
DepthIsDistance ==
  \A n \in 0 .. MaxDepth + 1 : Within[n] = {u \in Known : depths[u] <= n}

(* The in-link count of a page is the number of scanned pages that link to  *)
(* it, a page that links to itself included; several links from one page    *)
(* count once.                                                              *)
InlinksCountPages ==
  \A u \in Page : inlinks[u] = Cardinality({v \in Scanned : u \in links[v]})

(* A scan that the page limit did not cut off has fetched every page within *)
(* MaxDepth hops, and no other.                                             *)
ScanIsComplete ==
  result # <<>> /\ Cardinality(visited) < MaxScan => visited = Within[MaxDepth]

(* What goes to extraction: visited pages, each once, as many as allowed,   *)
(* and none that is linked from fewer pages than one left out.              *)
BestAreIndexed ==
  LET kept == {result[i] : i \in DOMAIN result}
  IN  result # <<>> =>
        /\ kept \subseteq visited
        /\ Cardinality(kept) = Len(result)
        /\ Len(result) = MaxIndex \/ kept = visited
        /\ \A u \in kept, v \in visited \ kept : inlinks[u] >= inlinks[v]

(* The scan ends although pages link in circles: a turn of the loop fetches *)
(* a page for the first time, which happens MaxScan times at most, or       *)
(* shortens the queue.  What ends it is a result with something to index,   *)
(* so discover_urls needs no fallback behind the spider.                    *)
EveryTurnCounts ==
  [][\/ visited \subseteq visited' /\ visited # visited'
     \/ visited' = visited /\ Len(queue') < Len(queue)
     \/ result = <<>> /\ result' # <<>>]_vars
=============================================================================
