------------------------------ MODULE Discovery ------------------------------
(***************************************************************************)
(* The discovery stage of crawllmer: discover_urls (app/indexer/workers.py) *)
(* asks the site for /llms.txt, robots.txt and its sitemaps, falls back to  *)
(* the spider, and is run again from scratch by the retry policy when       *)
(* anything raises.                                                         *)
(*                                                                          *)
(* What the site answers is chosen at each request and may change from one  *)
(* request to the next.  A missing file (a status other than 200) is one    *)
(* that lists nothing.                                                      *)
(***************************************************************************)
EXTENDS Integers, Sequences

CONSTANTS Url,          \* urls the site may list
          Retries,      \* RetryPolicy.retries
          MaxLines,     \* bound: llms: and sitemap: lines of a robots.txt
          MaxChildren,  \* bound: sitemaps listed by a sitemap index
          MaxNesting    \* bound: depth at which Python's recursion limit strikes

ASSUME BoundsAssumption ==
  /\ Retries \in Nat /\ MaxLines \in Nat /\ MaxChildren \in Nat
  /\ MaxNesting \in Nat \ {0}

Source == {"llms", "robots", "sitemap", "crawl"}
SitemapLine == "sitemap:"
Line == Url \union {SitemapLine}   \* a url stands for "llms: url"

VARIABLES
  pc,        \* next step
  attempt,   \* attempts of the retry policy that failed
  lines,     \* lines of robots.txt still to read
  tier,      \* the strategy that parses a sitemap: "robots" or "sitemap"
  stack,     \* calls of parse_sitemap: [children, urls] still to handle
  parsed,    \* urls collected by parse_sitemap
  batches,   \* discovered: the urls each source gave, in order
  result,    \* what discover_urls returns
  offered    \* history: the urls the site gave in this attempt

vars == <<pc, attempt, lines, tier, stack, parsed, batches, result, offered>>
parsing == <<tier, stack, parsed>>

Done == {"returned", "failed"}
Batch(source, urls) == [source |-> source, urls |-> urls]
Frame(children, urls) == [children |-> children, urls |-> urls]
SeqsUpTo(S, n) == UNION {[1 .. m -> S] : m \in 0 .. n}

Init ==
  /\ pc = "llms" /\ attempt = 0 /\ lines = <<>>
  /\ tier = "robots" /\ stack = <<>> /\ parsed = {}
  /\ batches = <<>> /\ offered = {}
  /\ result = [u \in {} |-> "llms"]

(* Whether any strategy so far gave a url.                                  *)
MutFoundLast(bs) == bs # <<>> /\ bs[Len(bs)].urls # {}  \* seeded bug: the last one only
Found(bs) == \E i \in DOMAIN bs : bs[i].urls # {}

Given(source, urls) ==
  /\ batches' = Append(batches, Batch(source, urls))
  /\ offered' = offered \union urls

-----------------------------------------------------------------------------
(* The strategies.                                                          *)

ProbeLlms ==
  /\ pc = "llms"
  /\ \E urls \in SUBSET Url : Given("llms", urls)
  /\ pc' = "robots"
  /\ UNCHANGED <<attempt, lines, parsing, result>>

(* robots.txt is read whatever /llms.txt gave.                              *)
ProbeRobots ==
  /\ pc = "robots"
  /\ lines' \in SeqsUpTo(Line, MaxLines)
  /\ pc' = "line"
  /\ UNCHANGED <<attempt, parsing, batches, result, offered>>

ReadLine ==
  /\ pc = "line" /\ lines # <<>>
  /\ lines' = Tail(lines)
  /\ IF Head(lines) = SitemapLine
       THEN pc' = "fetch" /\ UNCHANGED <<batches, offered>>
       ELSE pc' = pc /\ Given("robots", {Head(lines)})
  /\ UNCHANGED <<attempt, parsing, result>>

(* Tier 3, /sitemap.xml, when nothing was found.                            *)
EndRobots ==
  /\ pc = "line" /\ lines = <<>>
  /\ IF Found(batches)
       THEN pc' = "return" /\ UNCHANGED tier
       ELSE pc' = "fetch" /\ tier' = "sitemap"
  /\ UNCHANGED <<attempt, lines, stack, parsed, batches, result, offered>>

(* Tier 4: the spider returns the seed at least.                            *)
Crawl ==
  /\ pc = "spider"
  /\ \E urls \in SUBSET Url \ {{}} : Given("crawl", urls)
  /\ pc' = "return"
  /\ UNCHANGED <<attempt, lines, parsing, result>>

(* deduped: the first source that named a url is its provenance.            *)
MutDeduped(bs) ==   \* seeded bug: the last source wins
  [u \in UNION {bs[i].urls : i \in DOMAIN bs} |->
     bs[CHOOSE i \in DOMAIN bs : u \in bs[i].urls /\ \A j \in i + 1 .. Len(bs) : u \notin bs[j].urls].source]
Deduped(bs) ==
  [u \in UNION {bs[i].urls : i \in DOMAIN bs} |->
     bs[CHOOSE i \in DOMAIN bs : u \in bs[i].urls /\ \A j \in 1 .. i - 1 : u \notin bs[j].urls].source]

Return ==
  /\ pc = "return"
  /\ result' = Deduped(batches)
  /\ pc' = "returned"
  /\ UNCHANGED <<attempt, lines, parsing, batches, offered>>

-----------------------------------------------------------------------------
(* parse_sitemap: an index is followed recursively, without a record of the *)
(* sitemaps already read.                                                   *)

FetchSitemap ==
  /\ pc = "fetch"
  /\ \E children \in 0 .. MaxChildren, urls \in SUBSET Url :
       /\ stack' = Append(stack, Frame(children, urls))
       /\ offered' = offered \union urls
  /\ pc' = "parse"
  /\ UNCHANGED <<attempt, lines, tier, parsed, batches, result>>

Top == stack[Len(stack)]
Below == SubSeq(stack, 1, Len(stack) - 1)

NextChild ==
  /\ pc = "parse" /\ Top.children > 0 /\ Len(stack) < MaxNesting
  /\ stack' = Append(Below, [Top EXCEPT !.children = @ - 1])
  /\ pc' = "fetch"
  /\ UNCHANGED <<attempt, lines, tier, parsed, batches, result, offered>>

(* The document of a child is merged into its parent's; the first call      *)
(* hands its document to the strategy.                                      *)
MutCollected(sofar, urls) == urls   \* seeded bug: the children's urls are dropped
Collected(sofar, urls) == sofar \union urls

EndSitemap ==
  /\ pc = "parse" /\ Top.children = 0
  /\ stack' = Below
  /\ IF Below # <<>>
       THEN /\ parsed' = Collected(parsed, Top.urls)
            /\ UNCHANGED <<pc, batches>>
       ELSE /\ parsed' = {}
            /\ batches' = Append(batches, Batch("sitemap", Collected(parsed, Top.urls)))
            /\ pc' = CASE tier = "robots" -> "line"
                       [] tier = "sitemap" /\ Found(batches') -> "return"
                       [] OTHER -> "spider"
  /\ UNCHANGED <<attempt, lines, tier, result, offered>>

-----------------------------------------------------------------------------
(* RetryPolicy.run around discover_urls.                                    *)

MutLastAttempt(a) == a = Retries + 1   \* seeded bug: one attempt too many
LastAttempt(a) == a = Retries
MutNextAttempt(a) == a                 \* seeded bug: attempts are not counted
NextAttempt(a) == a + 1

(* A request fails, a sitemap is no XML, an address is no url, the callback *)
(* that stores the spider's events fails, or sitemaps nest too deep: the    *)
(* attempt is lost with all it found.                                       *)
Raise ==
  /\ pc \in {"llms", "robots", "line", "fetch", "parse", "spider"}
  /\ IF LastAttempt(attempt)
       THEN /\ pc' = "failed"
            /\ UNCHANGED <<attempt, lines, parsing, batches, result, offered>>
       ELSE /\ attempt' = NextAttempt(attempt)
            /\ pc' = "llms" /\ lines' = <<>>
            /\ tier' = "robots" /\ stack' = <<>> /\ parsed' = {}
            /\ batches' = <<>> /\ offered' = {}
            /\ UNCHANGED result

Next == \/ ProbeLlms \/ ProbeRobots \/ ReadLine \/ EndRobots \/ Crawl \/ Return
        \/ FetchSitemap \/ NextChild \/ EndSitemap \/ Raise

(* Requests have a timeout and the policy sleeps for a bounded time.        *)
Spec == Init /\ [][Next]_vars /\ WF_vars(Next)
==============================================================================
