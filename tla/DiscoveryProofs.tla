--------------------------- MODULE DiscoveryProofs ---------------------------
(***************************************************************************)
(* Theorems about discovery, for any urls, any number of retries and any    *)
(* bounds on what the site may list.                                        *)
(***************************************************************************)
EXTENDS DiscoveryProperties, SequenceTheorems, WellFoundedInduction, TLAPS

Step == {"llms", "robots", "line", "fetch", "parse", "spider", "return"} \union Done
FrameType == [children : Nat, urls : SUBSET Url]
BatchType == [source : Source, urls : SUBSET Url]

(* Every variable keeps its type.                                           *)
TypeOK ==
  /\ pc \in Step
  /\ attempt \in 0 .. Retries
  /\ lines \in Seq(Line)
  /\ tier \in {"robots", "sitemap"}
  /\ stack \in Seq(FrameType)
  /\ parsed \subseteq Url
  /\ batches \in Seq(BatchType)

(* The urls of a sequence of frames or batches.                             *)
UrlsOf(seq) == UNION {seq[i].urls : i \in 1 .. Len(seq)}

(* What the site offered is in a batch, or on its way into one.             *)
NothingLost ==
  /\ offered = UrlsOf(batches) \union parsed \union UrlsOf(stack)
  /\ pc \notin {"fetch", "parse", "failed"} => stack = <<>> /\ parsed = {}
  /\ pc = "parse" => stack # <<>>
  /\ pc = "returned" => result = Deduped(batches)

(* The batch of /llms.txt comes first, the spider's last and alone.         *)
SourcesInOrder ==
  /\ pc = "llms" => batches = <<>>
  /\ pc \notin {"return", "returned"} => \A i \in 1 .. Len(batches) : batches[i].source # "crawl"
  /\ pc = "spider" => \A i \in 1 .. Len(batches) : batches[i].urls = {}
  /\ \A i \in 1 .. Len(batches) :
       /\ batches[i].source = "llms" => i = 1
       /\ batches[i].source = "crawl" =>
            \A j \in 1 .. Len(batches) : j # i => batches[j].urls = {}

DiscoveryInv == TypeOK /\ NothingLost /\ SourcesInOrder

-----------------------------------------------------------------------------
(* Sequences of frames and batches.                                         *)

LEMMA AppendUrls ==
  ASSUME NEW S, NEW seq \in Seq(S), NEW e \in S
  PROVE  /\ Append(seq, e) \in Seq(S) /\ Len(Append(seq, e)) = Len(seq) + 1
         /\ \A i \in 1 .. Len(seq) : Append(seq, e)[i] = seq[i]
         /\ Append(seq, e)[Len(seq) + 1] = e
         /\ UrlsOf(Append(seq, e)) = UrlsOf(seq) \union e.urls
  <1>. DEFINE n == Len(seq)
              longer == Append(seq, e)
  <1>1. /\ n \in Nat /\ longer \in Seq(S) /\ Len(longer) = n + 1
        /\ \A i \in 1 .. n : longer[i] = seq[i]
        /\ longer[n + 1] = e
    BY AppendProperties, LenProperties
  <1>. HIDE DEF n, longer
  <1>2. 1 .. n + 1 = (1 .. n) \union {n + 1}
    BY <1>1
  <1>3. UrlsOf(longer) = (UNION {longer[i].urls : i \in 1 .. n}) \union longer[n + 1].urls
    BY <1>1, <1>2 DEF UrlsOf
  <1>4. UNION {longer[i].urls : i \in 1 .. n} = UNION {seq[i].urls : i \in 1 .. n}
    BY <1>1
  <1>. QED
    BY <1>1, <1>3, <1>4 DEF UrlsOf, n, longer

LEMMA FrontUrls ==
  ASSUME NEW S, NEW seq \in Seq(S), seq # <<>>
  PROVE  LET front == SubSeq(seq, 1, Len(seq) - 1)
         IN  /\ front \in Seq(S) /\ seq[Len(seq)] \in S
             /\ UrlsOf(seq) = UrlsOf(front) \union seq[Len(seq)].urls
  <1>. DEFINE n == Len(seq)
              front == SubSeq(seq, 1, n - 1)
  <1>1. n \in Nat /\ n >= 1 /\ \A i \in 1 .. n : seq[i] \in S
    BY EmptySeq, LenProperties
  <1>. HIDE DEF n
  <1>2. \A i \in 1 .. n - 1 : i \in 1 .. n /\ seq[i] \in S
    BY <1>1
  <1>3. /\ front \in Seq(S) /\ Len(front) = n - 1
        /\ \A i \in 1 .. n - 1 : front[i] = seq[i]
    <2>1. /\ front \in Seq(S) /\ Len(front) = IF 1 <= n - 1 THEN (n - 1) - 1 + 1 ELSE 0
          /\ \A i \in 1 .. (n - 1) - 1 + 1 : front[i] = seq[1 + i - 1]
      BY <1>1, <1>2, SubSeqProperties
    <2>. HIDE DEF front
    <2>2. (n - 1) - 1 + 1 = n - 1 /\ \A i \in 1 .. n - 1 : 1 + i - 1 = i
      BY <1>1
    <2>. QED
      BY <1>1, <2>1, <2>2
  <1>. HIDE DEF front
  <1>4. 1 .. n = (1 .. n - 1) \union {n}
    BY <1>1
  <1>5. UrlsOf(seq) = (UNION {seq[i].urls : i \in 1 .. n - 1}) \union seq[n].urls
    BY <1>4 DEF UrlsOf, n
  <1>6. UrlsOf(front) = UNION {seq[i].urls : i \in 1 .. n - 1}
    BY <1>3 DEF UrlsOf
  <1>7. n \in 1 .. n
    BY <1>1
  <1>. QED
    BY <1>1, <1>3, <1>5, <1>6, <1>7 DEF n, front

LEMMA EmptyUrls == UrlsOf(<<>>) = {}
  BY DEF UrlsOf

(* What Given does to the batches.                                          *)
LEMMA GivenBatch ==
  ASSUME TypeOK, NEW source \in Source, NEW urls \in SUBSET Url, batches' = Append(batches, Batch(source, urls))
  PROVE  /\ batches' \in Seq(BatchType) /\ Len(batches') = Len(batches) + 1 /\ Len(batches) \in Nat
         /\ \A i \in 1 .. Len(batches) : batches'[i] = batches[i]
         /\ batches'[Len(batches) + 1].source = source
         /\ batches'[Len(batches) + 1].urls = urls
         /\ UrlsOf(batches') = UrlsOf(batches) \union urls
  <1>1. /\ Batch(source, urls) \in BatchType
        /\ Batch(source, urls).source = source /\ Batch(source, urls).urls = urls
    BY DEF Batch, BatchType
  <1>2. batches \in Seq(BatchType) /\ Len(batches) \in Nat
    BY LenProperties DEF TypeOK
  <1>. QED
    BY <1>1, <1>2, AppendUrls

(* A batch of a source other than these two keeps them where they are.      *)
LEMMA OrderKept ==
  ASSUME TypeOK, SourcesInOrder, NEW source \in {"robots", "sitemap"}, NEW urls \in SUBSET Url,
         batches' = Append(batches, Batch(source, urls)),
         pc \notin {"return", "returned"}, pc' # "llms",
         pc' = "spider" => \A i \in 1 .. Len(batches') : batches'[i].urls = {}
  PROVE  SourcesInOrder'
  <1>1. /\ Len(batches') = Len(batches) + 1 /\ Len(batches) \in Nat
        /\ \A i \in 1 .. Len(batches) : batches'[i] = batches[i]
        /\ batches'[Len(batches) + 1].source = source
    BY GivenBatch DEF Source
  <1>2. ASSUME NEW i \in 1 .. Len(batches')
        PROVE  /\ batches'[i].source # "crawl"
               /\ batches'[i].source = "llms" => i = 1
    <2>1. CASE i \in 1 .. Len(batches)
      BY <1>1, <2>1 DEF SourcesInOrder
    <2>2. CASE i = Len(batches) + 1
      BY <1>1, <2>2
    <2>. QED
      BY <1>1, <2>1, <2>2
  <1>. QED
    BY <1>2 DEF SourcesInOrder

-----------------------------------------------------------------------------
(* DiscoveryInv is inductive.                                               *)

LEMMA DiscoveryInit ==
  ASSUME Init
  PROVE  DiscoveryInv
  <1>1. TypeOK
    BY BoundsAssumption, EmptySeq DEF Init, TypeOK, Step
  <1>2. NothingLost
    BY EmptyUrls DEF Init, NothingLost
  <1>3. SourcesInOrder
    BY EmptySeq DEF Init, SourcesInOrder
  <1>. QED
    BY <1>1, <1>2, <1>3 DEF DiscoveryInv

LEMMA ProbeStep ==
  ASSUME DiscoveryInv, ProbeLlms
  PROVE  DiscoveryInv'
  <1>0. TypeOK /\ NothingLost /\ SourcesInOrder
    BY DEF DiscoveryInv
  <1>1. /\ pc = "llms" /\ pc' = "robots" /\ batches = <<>> /\ stack = <<>> /\ parsed = {}
        /\ UNCHANGED <<attempt, lines, tier, stack, parsed, result>>
    BY <1>0 DEF ProbeLlms, parsing, SourcesInOrder, NothingLost
  <1>2. PICK urls \in SUBSET Url :
          batches' = Append(batches, Batch("llms", urls)) /\ offered' = offered \union urls
    BY DEF ProbeLlms, Given
  <1>3. /\ batches' \in Seq(BatchType) /\ Len(batches') = Len(batches) + 1
        /\ batches'[Len(batches) + 1].source = "llms"
        /\ UrlsOf(batches') = UrlsOf(batches) \union urls
    BY <1>0, <1>2, GivenBatch DEF Source
  <1>4. TypeOK'
    BY <1>0, <1>1, <1>3 DEF TypeOK, Step
  <1>5. NothingLost'
    BY <1>0, <1>1, <1>2, <1>3 DEF NothingLost
  <1>6. Len(batches) = 0
    BY <1>1, EmptySeq
  <1>7. \A i \in 1 .. Len(batches') : i = 1
    BY <1>3, <1>6
  <1>8. batches'[1].source = "llms"
    BY <1>3, <1>6
  <1>9. SourcesInOrder'
    BY <1>1, <1>7, <1>8 DEF SourcesInOrder
  <1>. QED
    BY <1>4, <1>5, <1>9 DEF DiscoveryInv

LEMMA LineStep ==
  ASSUME DiscoveryInv, ReadLine
  PROVE  DiscoveryInv'
  <1>0. TypeOK /\ NothingLost /\ SourcesInOrder
    BY DEF DiscoveryInv
  <1>1. /\ pc = "line" /\ lines # <<>> /\ lines' = Tail(lines) /\ stack = <<>> /\ parsed = {}
        /\ UNCHANGED <<attempt, tier, stack, parsed, result>>
    BY <1>0 DEF ReadLine, parsing, NothingLost
  <1>2. Tail(lines) \in Seq(Line) /\ Head(lines) \in Line
    BY <1>0, <1>1, HeadTailProperties DEF TypeOK
  <1>3. CASE Head(lines) = SitemapLine
    <2>1. pc' = "fetch" /\ UNCHANGED <<batches, offered>>
      BY <1>3 DEF ReadLine
    <2>. QED
      BY <1>0, <1>1, <1>2, <2>1 DEF DiscoveryInv, TypeOK, Step, NothingLost, SourcesInOrder
  <1>4. CASE Head(lines) # SitemapLine
    <2>. DEFINE urls == {Head(lines)}
    <2>1. pc' = "line" /\ batches' = Append(batches, Batch("robots", urls)) /\ offered' = offered \union urls
      BY <1>1, <1>4 DEF ReadLine, Given
    <2>2. urls \in SUBSET Url
      BY <1>2, <1>4 DEF Line
    <2>. HIDE DEF urls
    <2>3. batches' \in Seq(BatchType) /\ UrlsOf(batches') = UrlsOf(batches) \union urls
      BY <1>0, <2>1, <2>2, GivenBatch DEF Source
    <2>4. TypeOK'
      BY <1>0, <1>1, <1>2, <2>1, <2>3 DEF TypeOK, Step
    <2>5. NothingLost'
      BY <1>0, <1>1, <2>1, <2>3 DEF NothingLost
    <2>6. SourcesInOrder'
      BY <1>0, <1>1, <2>1, <2>2, OrderKept
    <2>. QED
      BY <2>4, <2>5, <2>6 DEF DiscoveryInv
  <1>. QED
    BY <1>3, <1>4

LEMMA CrawlStep ==
  ASSUME DiscoveryInv, Crawl
  PROVE  DiscoveryInv'
  <1>0. TypeOK /\ NothingLost /\ SourcesInOrder
    BY DEF DiscoveryInv
  <1>1. /\ pc = "spider" /\ pc' = "return" /\ stack = <<>> /\ parsed = {}
        /\ UNCHANGED <<attempt, lines, tier, stack, parsed, result>>
    BY <1>0 DEF Crawl, parsing, NothingLost
  <1>2. PICK urls \in SUBSET Url :
          batches' = Append(batches, Batch("crawl", urls)) /\ offered' = offered \union urls
    BY DEF Crawl, Given
  <1>3. /\ batches' \in Seq(BatchType) /\ Len(batches') = Len(batches) + 1 /\ Len(batches) \in Nat
        /\ \A i \in 1 .. Len(batches) : batches'[i] = batches[i]
        /\ batches'[Len(batches) + 1].source = "crawl"
        /\ UrlsOf(batches') = UrlsOf(batches) \union urls
    BY <1>0, <1>2, GivenBatch DEF Source
  <1>4. TypeOK'
    BY <1>0, <1>1, <1>3 DEF TypeOK, Step
  <1>5. NothingLost'
    BY <1>0, <1>1, <1>2, <1>3 DEF NothingLost
  <1>6. ASSUME NEW i \in 1 .. Len(batches')
        PROVE  \/ /\ i # Len(batches) + 1 /\ batches'[i].urls = {} /\ batches'[i].source # "crawl"
                  /\ batches'[i].source = "llms" => i = 1
               \/ i = Len(batches) + 1 /\ batches'[i].source = "crawl"
    <2>1. CASE i \in 1 .. Len(batches)
      BY <1>0, <1>1, <1>3, <2>1 DEF SourcesInOrder
    <2>2. CASE i = Len(batches) + 1
      BY <1>3, <2>2
    <2>. QED
      BY <1>3, <2>1, <2>2
  <1>7. SourcesInOrder'
    BY <1>1, <1>6 DEF SourcesInOrder
  <1>. QED
    BY <1>4, <1>5, <1>7 DEF DiscoveryInv

LEMMA FetchStep ==
  ASSUME DiscoveryInv, FetchSitemap
  PROVE  DiscoveryInv'
  <1>0. TypeOK /\ NothingLost /\ SourcesInOrder
    BY DEF DiscoveryInv
  <1>1. pc = "fetch" /\ pc' = "parse" /\ UNCHANGED <<attempt, lines, tier, parsed, batches, result>>
    BY DEF FetchSitemap
  <1>2. PICK children \in Nat, urls \in SUBSET Url :
          stack' = Append(stack, Frame(children, urls)) /\ offered' = offered \union urls
    BY BoundsAssumption DEF FetchSitemap
  <1>3. Frame(children, urls) \in FrameType /\ Frame(children, urls).urls = urls
    BY DEF Frame, FrameType
  <1>4. /\ stack' \in Seq(FrameType) /\ UrlsOf(stack') = UrlsOf(stack) \union urls /\ stack' # <<>>
    BY <1>0, <1>2, <1>3, AppendUrls, AppendProperties DEF TypeOK
  <1>5. TypeOK'
    BY <1>0, <1>1, <1>4 DEF TypeOK, Step
  <1>6. NothingLost'
    BY <1>0, <1>1, <1>2, <1>4 DEF NothingLost
  <1>7. SourcesInOrder'
    BY <1>0, <1>1 DEF SourcesInOrder
  <1>. QED
    BY <1>5, <1>6, <1>7 DEF DiscoveryInv

LEMMA ChildStep ==
  ASSUME DiscoveryInv, NextChild
  PROVE  DiscoveryInv'
  <1>0. TypeOK /\ NothingLost /\ SourcesInOrder
    BY DEF DiscoveryInv
  <1>. DEFINE frame == [Top EXCEPT !.children = @ - 1]
  <1>1. /\ pc = "parse" /\ pc' = "fetch" /\ Top.children > 0 /\ stack' = Append(Below, frame)
        /\ UNCHANGED <<attempt, lines, tier, parsed, batches, result, offered>>
    BY DEF NextChild
  <1>2. Below \in Seq(FrameType) /\ Top \in FrameType /\ UrlsOf(stack) = UrlsOf(Below) \union Top.urls
    BY <1>0, <1>1, FrontUrls DEF TypeOK, NothingLost, Below, Top
  <1>3. frame \in FrameType /\ frame.urls = Top.urls
    <2>1. Top \in FrameType /\ Top.children > 0
      BY <1>1, <1>2
    <2>. QED
      BY <2>1 DEF FrameType
  <1>. HIDE DEF frame
  <1>4. stack' \in Seq(FrameType) /\ UrlsOf(stack') = UrlsOf(stack)
    <2>1. /\ Append(Below, frame) \in Seq(FrameType)
          /\ UrlsOf(Append(Below, frame)) = UrlsOf(Below) \union frame.urls
      BY <1>2, <1>3, AppendUrls
    <2>2. UrlsOf(stack') = UrlsOf(Append(Below, frame))
      BY <1>1
    <2>. QED
      BY <1>1, <1>2, <1>3, <2>1, <2>2
  <1>5. TypeOK'
    BY <1>0, <1>1, <1>4 DEF TypeOK, Step
  <1>6. NothingLost'
    BY <1>0, <1>1, <1>4 DEF NothingLost
  <1>7. SourcesInOrder'
    BY <1>0, <1>1 DEF SourcesInOrder
  <1>. QED
    BY <1>5, <1>6, <1>7 DEF DiscoveryInv

LEMMA EndStep ==
  ASSUME DiscoveryInv, EndSitemap
  PROVE  DiscoveryInv'
  <1>0. TypeOK /\ NothingLost /\ SourcesInOrder
    BY DEF DiscoveryInv
  <1>1. pc = "parse" /\ stack' = Below /\ UNCHANGED <<attempt, lines, tier, result, offered>>
    BY DEF EndSitemap
  <1>2. Below \in Seq(FrameType) /\ Top \in FrameType /\ UrlsOf(stack) = UrlsOf(Below) \union Top.urls
    BY <1>0, <1>1, FrontUrls DEF TypeOK, NothingLost, Below, Top
  <1>3. Top.urls \in SUBSET Url /\ parsed \in SUBSET Url
    BY <1>0, <1>2 DEF FrameType, TypeOK
  <1>4. CASE Below # <<>>
    <2>1. parsed' = parsed \union Top.urls /\ UNCHANGED <<pc, batches>>
      BY <1>4 DEF EndSitemap, Collected
    <2>2. TypeOK'
      BY <1>0, <1>1, <1>2, <1>3, <2>1 DEF TypeOK
    <2>3. NothingLost'
      BY <1>0, <1>1, <1>2, <1>4, <2>1 DEF NothingLost
    <2>4. SourcesInOrder'
      BY <1>0, <1>1, <2>1 DEF SourcesInOrder
    <2>. QED
      BY <2>2, <2>3, <2>4 DEF DiscoveryInv
  <1>5. CASE Below = <<>>
    <2>. DEFINE urls == parsed \union Top.urls
    <2>1. parsed' = {} /\ batches' = Append(batches, Batch("sitemap", urls))
      BY <1>5 DEF EndSitemap, Collected
    <2>2. pc' = CASE tier = "robots" -> "line"
                  [] tier = "sitemap" /\ Found(batches') -> "return"
                  [] OTHER -> "spider"
      BY <1>5 DEF EndSitemap
    <2>3. pc' \in {"line", "return", "spider"}
      BY <2>2
    <2>4. pc' = "spider" => ~Found(batches')
      BY <1>0, <2>2 DEF TypeOK
    <2>5. urls \in SUBSET Url
      BY <1>3
    <2>6. UrlsOf(stack) = Top.urls
      BY <1>2, <1>5, EmptyUrls
    <2>7. urls = parsed \union UrlsOf(stack)
      BY <2>6
    <2>. HIDE DEF urls
    <2>8. batches' \in Seq(BatchType) /\ UrlsOf(batches') = UrlsOf(batches) \union urls
      BY <1>0, <2>1, <2>5, GivenBatch DEF Source
    <2>9. TypeOK'
      BY <1>0, <1>1, <1>2, <2>1, <2>3, <2>8 DEF TypeOK, Step
    <2>10. NothingLost'
      BY <1>0, <1>1, <1>5, <2>1, <2>3, <2>7, <2>8, EmptyUrls DEF NothingLost
    <2>11. pc' = "spider" => \A i \in 1 .. Len(batches') : batches'[i].urls = {}
      BY <2>4, <2>8, LenProperties DEF Found
    <2>12. SourcesInOrder'
      BY <1>0, <1>1, <2>1, <2>3, <2>5, <2>11, OrderKept
    <2>. QED
      BY <2>9, <2>10, <2>12 DEF DiscoveryInv
  <1>. QED
    BY <1>4, <1>5

LEMMA RaiseStep ==
  ASSUME DiscoveryInv, Raise
  PROVE  DiscoveryInv'
  <1>0. TypeOK /\ NothingLost /\ SourcesInOrder
    BY DEF DiscoveryInv
  <1>1. pc \in {"llms", "robots", "line", "fetch", "parse", "spider"}
    BY DEF Raise
  <1>2. CASE LastAttempt(attempt)
    <2>1. pc' = "failed" /\ UNCHANGED <<attempt, lines, tier, stack, parsed, batches, result, offered>>
      BY <1>2 DEF Raise, parsing
    <2>. QED
      BY <1>0, <1>1, <2>1 DEF DiscoveryInv, TypeOK, Step, Done, NothingLost, SourcesInOrder
  <1>3. CASE ~LastAttempt(attempt)
    <2>1. /\ attempt' = attempt + 1 /\ attempt # Retries /\ pc' = "llms" /\ lines' = <<>>
          /\ tier' = "robots" /\ stack' = <<>> /\ parsed' = {} /\ batches' = <<>> /\ offered' = {}
      BY <1>3 DEF Raise, NextAttempt, LastAttempt
    <2>2. attempt' \in 0 .. Retries
      BY <1>0, <2>1, BoundsAssumption DEF TypeOK
    <2>3. TypeOK'
      BY <2>1, <2>2, EmptySeq DEF TypeOK, Step
    <2>4. NothingLost'
      BY <2>1, EmptyUrls DEF NothingLost
    <2>5. SourcesInOrder'
      BY <2>1, EmptySeq DEF SourcesInOrder
    <2>. QED
      BY <2>3, <2>4, <2>5 DEF DiscoveryInv
  <1>. QED
    BY <1>2, <1>3

LEMMA DiscoveryStep ==
  ASSUME DiscoveryInv, [Next]_vars
  PROVE  DiscoveryInv'
  <1>0. TypeOK /\ NothingLost /\ SourcesInOrder
    BY DEF DiscoveryInv
  <1>1. CASE ProbeRobots
    <2>1. pc = "robots" /\ pc' = "line" /\ UNCHANGED <<attempt, tier, stack, parsed, batches, result, offered>>
      BY <1>1 DEF ProbeRobots, parsing
    <2>2. lines' \in Seq(Line)
      <3>1. PICK m \in 0 .. MaxLines : lines' \in [1 .. m -> Line]
        BY <1>1 DEF ProbeRobots, SeqsUpTo
      <3>2. m \in Nat
        BY BoundsAssumption
      <3>. QED
        BY <3>1, <3>2
    <2>. QED
      BY <1>0, <2>1, <2>2 DEF DiscoveryInv, TypeOK, Step, NothingLost, SourcesInOrder
  <1>2. CASE EndRobots
    <2>1. pc = "line" /\ pc' \in {"return", "fetch"} /\ tier' \in {tier, "sitemap"}
          /\ UNCHANGED <<attempt, lines, stack, parsed, batches, result, offered>>
      BY <1>2 DEF EndRobots
    <2>. QED
      BY <1>0, <2>1 DEF DiscoveryInv, TypeOK, Step, NothingLost, SourcesInOrder
  <1>3. CASE Return
    <2>1. pc = "return" /\ pc' = "returned" /\ result' = Deduped(batches)
          /\ UNCHANGED <<attempt, lines, tier, stack, parsed, batches, offered>>
      BY <1>3 DEF Return, parsing
    <2>2. TypeOK'
      BY <1>0, <2>1 DEF TypeOK, Step, Done
    <2>3. Deduped(batches)' = Deduped(batches)
      BY <2>1 DEF Deduped
    <2>4. NothingLost'
      BY <1>0, <2>1, <2>3 DEF NothingLost
    <2>5. SourcesInOrder'
      BY <1>0, <2>1 DEF SourcesInOrder
    <2>. QED
      BY <2>2, <2>4, <2>5 DEF DiscoveryInv
  <1>4. CASE UNCHANGED vars
    <2>1. UNCHANGED <<pc, attempt, lines, tier, stack, parsed, batches, result, offered>>
      BY <1>4 DEF vars
    <2>2. Deduped(batches)' = Deduped(batches)
      BY <2>1 DEF Deduped
    <2>3. TypeOK'
      BY <1>0, <2>1 DEF TypeOK
    <2>4. NothingLost'
      BY <1>0, <2>1, <2>2 DEF NothingLost
    <2>5. SourcesInOrder'
      BY <1>0, <2>1 DEF SourcesInOrder
    <2>. QED
      BY <2>3, <2>4, <2>5 DEF DiscoveryInv
  <1>. QED
    BY <1>1, <1>2, <1>3, <1>4, ProbeStep, LineStep, CrawlStep, FetchStep, ChildStep, EndStep, RaiseStep DEF Next

(* In every state nothing of the current attempt is lost between the site   *)
(* and the batches, and the batches are in the order discover_urls asks.    *)
THEOREM DiscoveryInvariant == Spec => []DiscoveryInv
  <1>1. Init => DiscoveryInv
    BY DiscoveryInit
  <1>2. DiscoveryInv /\ [Next]_vars => DiscoveryInv'
    BY DiscoveryStep
  <1>. QED
    BY <1>1, <1>2, PTL DEF Spec

-----------------------------------------------------------------------------
(* What discovery returns.                                                  *)

(* Some batch is the first to name a url.                                   *)
LEMMA LeastIndex ==
  ASSUME NEW T \in SUBSET Nat, T # {}
  PROVE  \E m \in T : \A n \in T : m <= n
  <1>. DEFINE R == {ss \in Nat \X Nat : ss[1] < ss[2]}
  <1>1. IsWellFoundedOn(R, Nat)
    BY NatLessThanWellFounded DEF OpToRel
  <1>2. \A x, y \in Nat : <<x, y>> \in R <=> x < y
    OBVIOUS
  <1>. HIDE DEF R
  <1>3. PICK m \in T : \A y \in T : ~(<<y, m>> \in R)
    BY <1>1, WFMin
  <1>4. ASSUME NEW n \in T
        PROVE  m <= n
    <2>1. m \in Nat /\ n \in Nat /\ <<n, m>> \notin R
      BY <1>3
    <2>2. ~(n < m)
      BY <1>2, <2>1
    <2>. QED
      BY <2>1, <2>2
  <1>. QED
    BY <1>4

LEMMA FirstNamed ==
  ASSUME NEW bs \in Seq(BatchType), NEW u \in UrlsOf(bs)
  PROVE  \E i \in 1 .. Len(bs) : /\ u \in bs[i].urls
                                 /\ \A j \in 1 .. i - 1 : u \notin bs[j].urls
                                 /\ Deduped(bs)[u] = bs[i].source
  <1>. DEFINE T == {i \in 1 .. Len(bs) : u \in bs[i].urls}
              IsFirst(i) == u \in bs[i].urls /\ \A j \in 1 .. i - 1 : u \notin bs[j].urls
  <1>0. Len(bs) \in Nat /\ DOMAIN bs = 1 .. Len(bs)
    BY LenProperties
  <1>1. PICK m \in T : \A n \in T : m <= n
    <2>1. T \in SUBSET Nat /\ T # {}
      BY <1>0 DEF UrlsOf
    <2>. HIDE DEF T
    <2>. QED
      BY <2>1, LeastIndex
  <1>2. ASSUME NEW j \in 1 .. m - 1
        PROVE  u \notin bs[j].urls
    <2>1. j \in 1 .. Len(bs) /\ ~(m <= j)
      BY <1>0, <1>1
    <2>. QED
      BY <1>1, <2>1
  <1>3. IsFirst(m) /\ m \in DOMAIN bs
    BY <1>0, <1>1, <1>2
  <1>. DEFINE first == CHOOSE i \in DOMAIN bs : u \in bs[i].urls /\ \A j \in 1 .. i - 1 : u \notin bs[j].urls
  <1>4. first \in DOMAIN bs /\ IsFirst(first)
    BY <1>3
  <1>5. u \in UNION {bs[i].urls : i \in DOMAIN bs}
    BY <1>0 DEF UrlsOf
  <1>6. Deduped(bs)[u] = bs[first].source
    BY <1>5 DEF Deduped
  <1>. HIDE DEF first
  <1>. QED
    BY <1>0, <1>4, <1>6

LEMMA ResultIs ==
  ASSUME DiscoveryInv, pc = "returned"
  PROVE  /\ batches \in Seq(BatchType) /\ Len(batches) \in Nat /\ DOMAIN batches = 1 .. Len(batches)
         /\ result = Deduped(batches) /\ DOMAIN result = UrlsOf(batches) /\ offered = UrlsOf(batches)
         /\ SourcesInOrder
  <1>1. batches \in Seq(BatchType) /\ result = Deduped(batches)
        /\ stack = <<>> /\ parsed = {} /\ offered = UrlsOf(batches) \union parsed \union UrlsOf(stack)
        /\ SourcesInOrder
    BY DEF DiscoveryInv, TypeOK, NothingLost
  <1>2. Len(batches) \in Nat /\ DOMAIN batches = 1 .. Len(batches)
    BY <1>1, LenProperties
  <1>3. DOMAIN Deduped(batches) = UrlsOf(batches)
    BY <1>2 DEF Deduped, UrlsOf
  <1>. QED
    BY <1>1, <1>2, <1>3, EmptyUrls

(* Discovery returns what the site gave during the attempt that succeeded,  *)
(* all of it and nothing else, however sitemaps nest and whatever attempts  *)
(* failed half way before.                                                  *)
THEOREM NothingIsLost == Spec => []ReturnsWhatWasOffered
  <1>1. DiscoveryInv => ReturnsWhatWasOffered
    BY ResultIs DEF ReturnsWhatWasOffered
  <1>. QED
    BY <1>1, DiscoveryInvariant, PTL

(* A list the spider contributed to has no other source.                    *)
THEOREM SpiderIsAlone == Spec => []SpiderStandsAlone
  <1>1. DiscoveryInv => SpiderStandsAlone
    <2>. SUFFICES ASSUME DiscoveryInv, pc = "returned", NEW u \in DOMAIN result, result[u] = "crawl",
                         NEW v \in DOMAIN result
                  PROVE  result[v] = "crawl"
      BY DEF SpiderStandsAlone
    <2>1. PICK i \in 1 .. Len(batches) : batches[i].source = "crawl"
      BY ResultIs, FirstNamed
    <2>2. PICK k \in 1 .. Len(batches) : v \in batches[k].urls /\ result[v] = batches[k].source
      BY ResultIs, FirstNamed
    <2>3. k = i
      BY <2>1, <2>2, ResultIs DEF SourcesInOrder
    <2>. QED
      BY <2>1, <2>2, <2>3
  <1>. QED
    BY <1>1, DiscoveryInvariant, PTL

(* A url that /llms.txt lists is stored with that provenance, whatever      *)
(* robots.txt and the sitemaps list besides.                                *)
THEOREM LlmsComesFirst == Spec => []LlmsProvenanceStays
  <1>1. DiscoveryInv => LlmsProvenanceStays
    <2>. SUFFICES ASSUME DiscoveryInv, pc = "returned", NEW i \in DOMAIN batches,
                         batches[i].source = "llms", NEW u \in batches[i].urls
                  PROVE  result[u] = "llms"
      BY DEF LlmsProvenanceStays
    <2>1. i \in 1 .. Len(batches) /\ i = 1
      BY ResultIs DEF SourcesInOrder
    <2>2. u \in UrlsOf(batches)
      BY <2>1 DEF UrlsOf
    <2>3. PICK k \in 1 .. Len(batches) : /\ \A j \in 1 .. k - 1 : u \notin batches[j].urls
                                         /\ result[u] = batches[k].source
      BY <2>2, ResultIs, FirstNamed
    <2>4. k = 1
      <3>1. k \in Nat /\ k >= 1 /\ Len(batches) \in Nat
        BY ResultIs
      <3>2. 1 \in 1 .. k - 1 => FALSE
        BY <2>1, <2>3
      <3>. QED
        BY <3>1, <3>2
    <2>. QED
      BY <2>1, <2>3, <2>4
  <1>. QED
    BY <1>1, DiscoveryInvariant, PTL

-----------------------------------------------------------------------------
(* Every step of discovery is a step of the retried call or none: the call  *)
(* returns or raises once, and raises only when its attempts are used up.   *)
(* That one of the two happens is the fairness TLC checks.                  *)
THEOREM StepsAreCallSteps == Spec => Call!Init /\ [][Call!Next]_Call!vars
  <1>. DEFINE outcome == CASE pc = "returned" -> "returned"
                           [] pc = "failed"   -> "raised"
                           [] OTHER           -> "pending"
  <1>1. Init => Call!Init
    BY DEF Init, Call!Init
  <1>2. TypeOK /\ [Next]_vars => [Call!Next]_Call!vars
    <2>. SUFFICES ASSUME TypeOK, [Next]_vars
                  PROVE  [Call!Next]_Call!vars
      OBVIOUS
    <2>1. CASE Return
      <3>1. outcome = "pending" /\ outcome' = "returned" /\ attempt' = attempt
        BY <2>1 DEF Return
      <3>. QED
        BY <3>1 DEF Call!Next, Call!Return
    <2>2. CASE Raise /\ LastAttempt(attempt)
      <3>1. outcome = "pending" /\ outcome' = "raised" /\ attempt' = attempt /\ attempt = Retries
        BY <2>2 DEF Raise, LastAttempt
      <3>. QED
        BY <3>1 DEF Call!Next, Call!Raise
    <2>3. CASE Raise /\ ~LastAttempt(attempt)
      <3>1. outcome = "pending" /\ outcome' = "pending" /\ attempt' = attempt + 1 /\ attempt # Retries
        BY <2>3 DEF Raise, LastAttempt, NextAttempt
      <3>2. attempt < Retries
        BY <3>1, BoundsAssumption DEF TypeOK
      <3>. QED
        BY <3>1, <3>2 DEF Call!Next, Call!TryAgain
    <2>4. CASE UNCHANGED vars
      BY <2>4 DEF vars, Call!vars
    <2>5. CASE [Next]_vars /\ ~Return /\ ~Raise /\ ~UNCHANGED vars
      <3>1. attempt' = attempt /\ outcome = "pending" /\ outcome' = "pending"
        <4>1. CASE EndSitemap
          <5>1. pc = "parse" /\ attempt' = attempt
            BY <4>1 DEF EndSitemap
          <5>2. pc' \notin {"returned", "failed"}
            <6>1. CASE Below # <<>>
              BY <4>1, <5>1, <6>1 DEF EndSitemap
            <6>2. CASE Below = <<>>
              <7>1. pc' = CASE tier = "robots" -> "line"
                            [] tier = "sitemap" /\ Found(batches') -> "return"
                            [] OTHER -> "spider"
                BY <4>1, <6>2 DEF EndSitemap
              <7>. QED
                BY <7>1
            <6>. QED
              BY <6>1, <6>2
          <5>. QED
            BY <5>1, <5>2
        <4>2. CASE ~EndSitemap
          BY <2>5, <4>2 DEF Next, ProbeLlms, ProbeRobots, ReadLine, EndRobots, Crawl, FetchSitemap, NextChild
        <4>. QED
          BY <4>1, <4>2
      <3>. QED
        BY <3>1 DEF Call!vars
    <2>. QED
      BY <2>1, <2>2, <2>3, <2>4, <2>5
  <1>3. DiscoveryInv => TypeOK
    BY DEF DiscoveryInv
  <1>. QED
    BY <1>1, <1>2, <1>3, DiscoveryInvariant, PTL DEF Spec
=============================================================================
