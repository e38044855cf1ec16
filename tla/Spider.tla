------------------------------- MODULE Spider -------------------------------
(***************************************************************************)
(* The fallback crawler of crawllmer: spider_scan walks a site breadth      *)
(* first from the seed and counts how many scanned pages link to each page; *)
(* discover_urls keeps the best ranked ones.                                *)
(*                                                                          *)
(* A url is fetched at most once, so what the site answers is chosen when   *)
(* it is fetched: the links left by link_filter.py, or nothing (a transport *)
(* error, a status other than 200, another content type).                   *)
(***************************************************************************)
EXTENDS Integers, Sequences, FiniteSets

CONSTANTS Page,      \* urls of the site that pass the link filter
          Seed,      \* the url of the crawl request
          MaxDepth,  \* spider_max_depth
          MaxScan,   \* spider_max_scan_pages
          MaxIndex   \* spider_max_index_pages

(* A scan sees a finite part of a site, however large that is.              *)
ASSUME PageAssumption == Seed \in Page /\ IsFiniteSet(Page)
ASSUME LimitsAssumption == MaxDepth \in Nat /\ MaxScan \in Nat \ {0} /\ MaxIndex \in Nat \ {0}

VARIABLES
  visited,   \* urls fetched
  queue,     \* <<url, depth>> pairs to look at
  inlinks,   \* inlink_count
  depths,    \* depth_map
  result,    \* what discover_urls takes from the ranking; <<>> until the scan ends
  links      \* history: the links of each page that answered

vars == <<visited, queue, inlinks, depths, result, links>>

Known == DOMAIN depths
Scanned == DOMAIN links

(* The orders in which a loop may meet the elements of a set.               *)
Orders(S) == {o \in [1 .. Cardinality(S) -> S] : \A x \in S : \E i \in DOMAIN o : o[i] = x}

Init ==
  /\ visited = {}
  /\ queue = <<<<Seed, 0>>>>
  /\ inlinks = [u \in Page |-> 0]
  /\ depths = [u \in {Seed} |-> 0]
  /\ result = <<>>
  /\ links = [u \in {} |-> {}]

-----------------------------------------------------------------------------
(* The loop of spider_scan.                                                 *)

Url == Head(queue)[1]
Depth == Head(queue)[2]

Scanning == queue # <<>> /\ Cardinality(visited) < MaxScan

MutTooDeepEarly(d) == d >= MaxDepth   \* seeded bug: off by one
TooDeep(d) == d > MaxDepth

(* Seeded bug: what lies too deep is put back for later.                    *)
MutSkip ==
  /\ result = <<>> /\ Scanning
  /\ Url \in visited \/ TooDeep(Depth)
  /\ queue' = Append(Tail(queue), Head(queue))
  /\ UNCHANGED <<visited, inlinks, depths, result, links>>

(* The head of the queue was fetched before or lies too deep.               *)
Skip ==
  /\ result = <<>> /\ Scanning
  /\ Url \in visited \/ TooDeep(Depth)
  /\ queue' = Tail(queue)
  /\ UNCHANGED <<visited, inlinks, depths, result, links>>

(* The page is fetched and gives no links.                                  *)
FetchNothing ==
  /\ result = <<>> /\ Scanning
  /\ Url \notin visited /\ ~TooDeep(Depth)
  /\ visited' = visited \union {Url}
  /\ queue' = Tail(queue)
  /\ UNCHANGED <<inlinks, depths, result, links>>

(* The links that are queued: those not heard of before.                    *)
Fresh(found) == found \ (visited \union {Url} \union Known)

(* Every link counts, queued or not.                                        *)
MutCounted(found, u) ==   \* seeded bug: only links that are queued count
  IF u \in Fresh(found) THEN inlinks[u] + 1 ELSE inlinks[u]
Counted(found, u) == IF u \in found THEN inlinks[u] + 1 ELSE inlinks[u]

MutEnqueued(rest, new) == new \o rest   \* seeded bug: depth first
Enqueued(rest, new) == rest \o new

(* The page answers with links, listed in some order.                       *)
FetchLinks ==
  /\ result = <<>> /\ Scanning
  /\ Url \notin visited /\ ~TooDeep(Depth)
  /\ \E found \in SUBSET Page : \E order \in Orders(Fresh(found)) :
       /\ inlinks' = [u \in Page |-> Counted(found, u)]
       /\ depths' = [u \in Known \union Fresh(found) |->
                       IF u \in Fresh(found) THEN Depth + 1 ELSE depths[u]]
       /\ queue' = Enqueued(Tail(queue), [i \in DOMAIN order |-> <<order[i], Depth + 1>>])
       /\ links' = [u \in Scanned \union {Url} |-> IF u = Url THEN found ELSE links[u]]
  /\ visited' = visited \union {Url}
  /\ UNCHANGED result

-----------------------------------------------------------------------------
(* The ranking: most in-links first, then shallowest; visited is a set, so  *)
(* pages that tie come in any order.                                        *)
MutBefore(u, v) ==   \* seeded bug: the two keys swapped
  depths[u] < depths[v] \/ (depths[u] = depths[v] /\ inlinks[u] >= inlinks[v])
Before(u, v) == inlinks[u] > inlinks[v] \/ (inlinks[u] = inlinks[v] /\ depths[u] <= depths[v])

Ranked == {o \in Orders(visited) : \A i, j \in DOMAIN o : i < j => Before(o[i], o[j])}

Finish ==
  /\ result = <<>> /\ ~Scanning
  /\ \E ranked \in Ranked :
       result' = SubSeq(ranked, 1, IF Len(ranked) < MaxIndex THEN Len(ranked) ELSE MaxIndex)
  /\ UNCHANGED <<visited, queue, inlinks, depths, links>>

Next == Skip \/ FetchNothing \/ FetchLinks \/ Finish

Spec == Init /\ [][Next]_vars
=============================================================================
