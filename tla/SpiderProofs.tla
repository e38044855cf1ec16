---------------------------- MODULE SpiderProofs ----------------------------
(***************************************************************************)
(* Theorems about Spider, for any finite site and any limits.               *)
(***************************************************************************)
EXTENDS SpiderProperties, FunctionTheorems, FiniteSetTheorems, SequenceTheorems, WellFoundedInduction, TLAPS

(* Every variable keeps its type; only fetched pages have links.            *)
TypeOK ==
  /\ visited \subseteq Page
  /\ queue \in Seq(Page \X Nat)
  /\ inlinks \in [Page -> Nat]
  /\ Scanned \subseteq visited
  /\ result = <<>> \/ result \in Seq(Page)

(* The loop cannot end before the seed was fetched.                         *)
SeedWaits == visited = {} => queue = <<<<Seed, 0>>>>

(* The scanned pages that link to u.                                        *)
Linking(u) == {v \in Scanned : u \in links[v]}

LEMMA FiniteParts ==
  ASSUME NEW S \in SUBSET Page
  PROVE  IsFiniteSet(S) /\ Cardinality(S) \in Nat
  BY PageAssumption, FS_Subset, FS_CardinalityType

(* The entries FetchLinks puts on the queue.                                *)
LEMMA EntriesType ==
  ASSUME NEW S \in SUBSET Page, NEW order \in Orders(S), NEW d \in Nat
  PROVE  [i \in DOMAIN order |-> <<order[i], d>>] \in Seq(Page \X Nat)
  <1>1. Cardinality(S) \in Nat
    BY FiniteParts
  <1>2. DOMAIN order = 1 .. Cardinality(S) /\ \A i \in DOMAIN order : order[i] \in Page
    BY DEF Orders
  <1>. QED
    BY <1>1, <1>2

LEMMA QueueHead ==
  ASSUME TypeOK, queue # <<>>
  PROVE  /\ Url \in Page /\ Depth \in Nat
         /\ Tail(queue) \in Seq(Page \X Nat) /\ Len(Tail(queue)) < Len(queue)
  BY HeadTailProperties DEF TypeOK, Url, Depth

(* What the ranking yields once a page was fetched is not empty.            *)
LEMMA RankedType ==
  ASSUME TypeOK, visited # {}, NEW ranked \in Ranked
  PROVE  LET kept == SubSeq(ranked, 1, IF Len(ranked) < MaxIndex THEN Len(ranked) ELSE MaxIndex)
         IN  kept \in Seq(Page) /\ kept # <<>>
  <1>1. Cardinality(visited) \in Nat /\ Cardinality(visited) # 0
    BY FiniteParts, FS_EmptySet DEF TypeOK
  <1>2. ranked \in [1 .. Cardinality(visited) -> visited]
    BY DEF Ranked, Orders
  <1>3. ranked \in Seq(Page) /\ Len(ranked) \in Nat /\ Len(ranked) >= 1
    <2>. DEFINE n == Cardinality(visited)
    <2>1. DOMAIN ranked = 1 .. n /\ \A i \in 1 .. n : ranked[i] \in Page
      BY <1>2 DEF TypeOK
    <2>2. ranked = [i \in 1 .. n |-> ranked[i]]
      BY <1>2
    <2>3. ranked \in Seq(Page)
      BY <1>1, <2>1, <2>2
    <2>4. Len(ranked) = n
      BY <1>1, <2>1, <2>3, LenProperties
    <2>. QED
      BY <1>1, <2>3, <2>4
  <1>4. ASSUME NEW k \in Nat, 1 <= k, k <= Len(ranked)
        PROVE  SubSeq(ranked, 1, k) \in Seq(Page) /\ SubSeq(ranked, 1, k) # <<>>
    <2>1. /\ SubSeq(ranked, 1, k) \in Seq(Page)
          /\ Len(SubSeq(ranked, 1, k)) = k
      BY <1>3, <1>4, SubSeqProperties
    <2>. QED
      BY <1>4, <2>1, EmptySeq
  <1>. QED
    BY <1>3, <1>4, LimitsAssumption

(* The loop does not end before a page was fetched.                         *)
LEMMA FinishAfterFetch ==
  ASSUME SeedWaits, Finish
  PROVE  visited # {}
  <1>1. visited = {} => queue # <<>> /\ Cardinality(visited) = 0
    BY FS_EmptySet DEF SeedWaits
  <1>. QED
    BY <1>1, LimitsAssumption DEF Finish, Scanning

-----------------------------------------------------------------------------
(* Types, and the seed at the head of the queue until it is fetched.        *)
THEOREM TypeCorrect == Spec => [](TypeOK /\ SeedWaits)
  <1>1. Init => TypeOK /\ SeedWaits
    <2>1. <<<<Seed, 0>>>> \in Seq(Page \X Nat)
      BY PageAssumption
    <2>. QED
      BY <2>1 DEF Init, TypeOK, SeedWaits, Scanned
  <1>2. TypeOK /\ SeedWaits /\ [Next]_vars => (TypeOK /\ SeedWaits)'
    <2>. SUFFICES ASSUME TypeOK, SeedWaits, [Next]_vars
                  PROVE  (TypeOK /\ SeedWaits)'
      OBVIOUS
    <2>1. CASE Skip
      <3>1. queue # <<>> /\ visited # {}
        <4>1. queue # <<>>
          BY <2>1 DEF Skip, Scanning
        <4>2. visited = {} => ~TooDeep(Depth)
          BY LimitsAssumption DEF SeedWaits, TooDeep, Depth
        <4>. QED
          BY <2>1, <4>1, <4>2 DEF Skip
      <3>. QED
        BY <2>1, <3>1, QueueHead DEF Skip, TypeOK, SeedWaits, Scanned
    <2>2. CASE FetchNothing
      <3>1. queue # <<>>
        BY <2>2 DEF FetchNothing, Scanning
      <3>. QED
        BY <2>2, <3>1, QueueHead DEF FetchNothing, TypeOK, SeedWaits, Scanned
    <2>3. CASE FetchLinks
      <3>1. queue # <<>>
        BY <2>3 DEF FetchLinks, Scanning
      <3>2. PICK found \in SUBSET Page : \E order \in Orders(Fresh(found)) :
              /\ inlinks' = [u \in Page |-> Counted(found, u)]
              /\ queue' = Tail(queue) \o [i \in DOMAIN order |-> <<order[i], Depth + 1>>]
              /\ links' = [u \in Scanned \union {Url} |-> IF u = Url THEN found ELSE links[u]]
        BY <2>3 DEF FetchLinks, Enqueued
      <3>3. visited' = visited \union {Url} /\ result' = result
        BY <2>3 DEF FetchLinks
      <3>4. Url \in Page /\ Depth + 1 \in Nat /\ Tail(queue) \in Seq(Page \X Nat)
        BY <3>1, QueueHead
      <3>5. queue' \in Seq(Page \X Nat)
        <4>1. Fresh(found) \in SUBSET Page
          BY DEF Fresh
        <4>2. PICK order \in Orders(Fresh(found)) :
                queue' = Tail(queue) \o [i \in DOMAIN order |-> <<order[i], Depth + 1>>]
          BY <3>2
        <4>3. [i \in DOMAIN order |-> <<order[i], Depth + 1>>] \in Seq(Page \X Nat)
          BY <4>1, <3>4, EntriesType
        <4>. QED
          BY <3>4, <4>2, <4>3, ConcatProperties
      <3>6. inlinks' \in [Page -> Nat]
        BY <3>2 DEF TypeOK, Counted
      <3>7. Scanned' = Scanned \union {Url}
        BY <3>2 DEF Scanned
      <3>. QED
        BY <3>3, <3>4, <3>5, <3>6, <3>7 DEF TypeOK, SeedWaits
    <2>4. CASE Finish
      <3>1. visited # {}
        BY <2>4, FinishAfterFetch
      <3>. QED
        BY <2>4, <3>1, RankedType DEF Finish, TypeOK, SeedWaits, Scanned
    <2>5. CASE UNCHANGED vars
      BY <2>5 DEF vars, TypeOK, SeedWaits, Scanned
    <2>. QED
      BY <2>1, <2>2, <2>3, <2>4, <2>5 DEF Next
  <1>. QED
    BY <1>1, <1>2, PTL DEF Spec

(* The scan ends: every turn of its loop fetches a page for the first time, *)
(* shortens the queue, or ends it with a result.                            *)
THEOREM ScanProgresses == Spec => EveryTurnCounts
  <1>. DEFINE Progress ==
         \/ visited \subseteq visited' /\ visited # visited'
         \/ visited' = visited /\ Len(queue') < Len(queue)
         \/ result = <<>> /\ result' # <<>>
  <1>1. TypeOK /\ SeedWaits /\ [Next]_vars => [Progress]_vars
    <2>. SUFFICES ASSUME TypeOK, SeedWaits, Next
                  PROVE  Progress
      OBVIOUS
    <2>1. CASE Skip
      BY <2>1, QueueHead DEF Skip, Scanning
    <2>2. CASE FetchNothing
      BY <2>2 DEF FetchNothing
    <2>3. CASE FetchLinks
      BY <2>3 DEF FetchLinks
    <2>4. CASE Finish
      <3>1. visited # {}
        BY <2>4, FinishAfterFetch
      <3>. QED
        BY <2>4, <3>1, RankedType DEF Finish
    <2>. QED
      BY <2>1, <2>2, <2>3, <2>4 DEF Next
  <1>. QED
    BY <1>1, TypeCorrect, PTL DEF Spec, EveryTurnCounts

(* The count that ranks a page is exact at every moment: no scanned page is *)
(* counted twice and none is missed, because none is scanned twice.         *)
THEOREM InlinksAreExact == Spec => []InlinksCountPages
  <1>1. Init => InlinksCountPages
    BY FS_EmptySet DEF Init, InlinksCountPages, Scanned
  <1>2. TypeOK /\ InlinksCountPages /\ [Next]_vars => InlinksCountPages'
    <2>. SUFFICES ASSUME TypeOK, InlinksCountPages, [Next]_vars
                  PROVE  InlinksCountPages'
      OBVIOUS
    <2>1. CASE FetchLinks
      <3>1. Url \notin Scanned
        BY <2>1 DEF FetchLinks, TypeOK
      <3>2. PICK found \in SUBSET Page :
              /\ inlinks' = [u \in Page |-> Counted(found, u)]
              /\ links' = [u \in Scanned \union {Url} |-> IF u = Url THEN found ELSE links[u]]
        BY <2>1 DEF FetchLinks
      <3>3. Scanned' = Scanned \union {Url}
        BY <3>2 DEF Scanned
      <3>4. ASSUME NEW u \in Page
            PROVE  inlinks'[u] = Cardinality({v \in Scanned' : u \in links'[v]})
        <4>1. inlinks[u] = Cardinality(Linking(u))
          BY DEF InlinksCountPages, Linking
        <4>2. Linking(u) \in SUBSET Page /\ Url \notin Linking(u)
          BY <3>1 DEF Linking, TypeOK
        <4>3. CASE u \in found
          <5>1. {v \in Scanned' : u \in links'[v]} = Linking(u) \union {Url}
            BY <3>1, <3>2, <3>3, <4>3 DEF Linking
          <5>2. Cardinality(Linking(u) \union {Url}) = Cardinality(Linking(u)) + 1
            BY <4>2, FiniteParts, FS_AddElement
          <5>. QED
            BY <3>2, <4>1, <4>3, <5>1, <5>2 DEF Counted
        <4>4. CASE u \notin found
          <5>1. {v \in Scanned' : u \in links'[v]} = Linking(u)
            BY <3>1, <3>2, <3>3, <4>4 DEF Linking
          <5>. QED
            BY <3>2, <4>1, <4>4, <5>1 DEF Counted
        <4>. QED
          BY <4>3, <4>4
      <3>. QED
        BY <3>4 DEF InlinksCountPages
    <2>2. CASE UNCHANGED <<inlinks, links>>
      BY <2>2 DEF InlinksCountPages, Scanned
    <2>. QED
      BY <2>1, <2>2 DEF Next, vars, Skip, FetchNothing, Finish
  <1>. QED
    BY <1>1, <1>2, TypeCorrect, PTL DEF Spec

-----------------------------------------------------------------------------
(* Breadth first: depths are distances, and nothing within reach is missed. *)

DepthsOK ==
  /\ Known \subseteq Page /\ \A u \in Known : depths[u] \in Nat
  /\ Seed \in Known /\ depths[Seed] = 0
  /\ \A v \in Known \ {Seed} :
       \E u \in Scanned : v \in links[u] /\ depths[v] = depths[u] + 1

LinksOK ==
  \A u \in Scanned : /\ u \in Known
                     /\ \A v \in links[u] : v \in Known /\ depths[v] <= depths[u] + 1

(* The depths in the queue go up, by one at most from its head.             *)
QueueFits(q, d) ==
  /\ \A i \in 1 .. Len(q) : q[i][1] \in DOMAIN d /\ d[q[i][1]] = q[i][2]
  /\ \A i, j \in 1 .. Len(q) : i <= j => q[i][2] <= q[j][2]
  /\ q # <<>> => \A v \in DOMAIN d : d[v] <= q[1][2] + 1

QueueOK == QueueFits(queue, depths)

Waiting(q) == {q[i][1] : i \in 1 .. Len(q)}

(* A page that is not too deep was fetched or is waiting.                   *)
SeenOK ==
  /\ visited \subseteq Known
  /\ \A v \in visited : depths[v] <= MaxDepth
  /\ \A v \in Known : depths[v] <= MaxDepth => v \in visited \union Waiting(queue)
  /\ result # <<>> => ~Scanning

BreadthInv == DepthsOK /\ LinksOK /\ QueueOK /\ SeenOK

(* Induction on numbers, as the least counterexample.                       *)
LEMMA LeastNatural ==
  ASSUME NEW T \in SUBSET Nat, T # {}
  PROVE  \E m \in T : \A n \in T : m <= n
  <1>. DEFINE R == {ss \in Nat \X Nat : ss[1] < ss[2]}
  <1>1. IsWellFoundedOn(R, Nat)
    BY NatLessThanWellFounded DEF OpToRel
  <1>2. \A x, y \in Nat : <<x, y>> \in R <=> x < y
    OBVIOUS
  <1>. HIDE DEF R
  <1>3. PICK m \in T : \A y \in T : ~(<<y, m>> \in R)
    BY <1>1, WFMin
  <1>4. ASSUME NEW n \in T
        PROVE  m <= n
    <2>1. m \in Nat /\ n \in Nat
      OBVIOUS
    <2>2. <<n, m>> \notin R
      BY <1>3
    <2>3. ~(n < m)
      BY <1>2, <2>1, <2>2
    <2>. QED
      BY <2>1, <2>3
  <1>. QED
    BY <1>4

(* One hop further, over the links of the pages that answered.              *)
Hop(S) == S \union UNION {links[u] : u \in S \intersect Scanned}

(* A table of the pages within 0, 1, ..., m hops.                           *)
Reaches(g, m) == /\ DOMAIN g = 0 .. m
                 /\ g[0] = {Seed}
                 /\ \A n \in 0 .. m : n < m => g[n + 1] = Hop(g[n])

LEMMA Extended ==
  ASSUME NEW m \in Nat, NEW g, Reaches(g, m)
  PROVE  \E h : Reaches(h, m + 1)
  <1>. DEFINE h == [n \in 0 .. m + 1 |-> IF n = m + 1 THEN Hop(g[m]) ELSE g[n]]
  <1>1. DOMAIN h = 0 .. m + 1 /\ \A n \in 0 .. m : h[n] = g[n]
    OBVIOUS
  <1>2. h[m + 1] = Hop(g[m])
    OBVIOUS
  <1>. HIDE DEF h
  <1>3. h[0] = {Seed}
    BY <1>1 DEF Reaches
  <1>4. ASSUME NEW n \in 0 .. m + 1, n < m + 1
        PROVE  h[n + 1] = Hop(h[n])
    <2>1. h[n] = g[n]
      BY <1>1, <1>4
    <2>2. CASE n = m
      BY <1>2, <2>1, <2>2
    <2>3. CASE n # m
      <3>1. n \in 0 .. m /\ n < m /\ n + 1 \in 0 .. m
        BY <1>4, <2>3
      <3>2. h[n + 1] = g[n + 1] /\ g[n + 1] = Hop(g[n])
        BY <1>1, <3>1 DEF Reaches
      <3>. QED
        BY <2>1, <3>2
    <2>. QED
      BY <2>2, <2>3
  <1>. QED
    BY <1>1, <1>3, <1>4 DEF Reaches

LEMMA TablesExist == \A m \in Nat : \E g : Reaches(g, m)
  <1>. DEFINE T == {m \in Nat : ~\E g : Reaches(g, m)}
  <1>. SUFFICES ASSUME T # {}
                PROVE  FALSE
    OBVIOUS
  <1>1. PICK m \in T : \A n \in T : m <= n
    <2>1. T \in SUBSET Nat
      OBVIOUS
    <2>. HIDE DEF T
    <2>. QED
      BY <2>1, LeastNatural
  <1>2. m \in Nat /\ ~\E g : Reaches(g, m)
    OBVIOUS
  <1>3. m # 0
    <2>. DEFINE g == [n \in 0 .. 0 |-> {Seed}]
    <2>1. Reaches(g, 0)
      BY DEF Reaches
    <2>. QED
      BY <1>2, <2>1
  <1>4. m - 1 \in Nat /\ m - 1 \notin T
    BY <1>1, <1>2, <1>3
  <1>5. \E g : Reaches(g, m - 1)
    BY <1>4
  <1>6. \E h : Reaches(h, (m - 1) + 1)
    BY <1>4, <1>5, Extended
  <1>7. (m - 1) + 1 = m
    BY <1>2
  <1>. QED
    BY <1>2, <1>6, <1>7

(* What the recursive definition of Within says.                            *)
LEMMA WithinHops ==
  /\ Within[0] = {Seed}
  /\ \A n \in 0 .. MaxDepth : Within[n + 1] = Hop(Within[n])
  <1>. DEFINE D == 0 .. MaxDepth + 1
              Table(w) == [n \in D |-> IF n = 0 THEN {Seed}
                             ELSE w[n - 1] \union UNION {links[u] : u \in w[n - 1] \intersect Scanned}]
  <1>0. MaxDepth \in Nat
    BY LimitsAssumption
  <1>1. \E w : w = Table(w)
    <2>1. PICK g : Reaches(g, MaxDepth + 1)
      BY <1>0, TablesExist
    <2>. DEFINE w == [n \in D |-> g[n]]
    <2>2. ASSUME NEW n \in D
          PROVE  w[n] = Table(w)[n]
      <3>1. CASE n = 0
        BY <2>1, <3>1 DEF Reaches
      <3>2. CASE n # 0
        <4>1. n - 1 \in D /\ n - 1 < MaxDepth + 1 /\ (n - 1) + 1 = n
          BY <1>0, <3>2
        <4>2. g[n] = Hop(g[n - 1])
          BY <2>1, <4>1 DEF Reaches
        <4>3. w[n] = Hop(w[n - 1])
          BY <4>1, <4>2
        <4>. QED
          BY <3>2, <4>3 DEF Hop
      <3>. QED
        BY <3>1, <3>2
    <2>3. w = Table(w)
      BY <2>2
    <2>. QED
      BY <2>3
  <1>2. Within = CHOOSE w : w = Table(w)
    BY DEF Within
  <1>3. Within = Table(Within)
    BY <1>1, <1>2
  <1>4. Within[0] = {Seed}
    <2>1. 0 \in D
      BY <1>0
    <2>2. Table(Within)[0] = {Seed}
      BY <2>1
    <2>. QED
      BY <1>3, <2>2
  <1>5. ASSUME NEW n \in 0 .. MaxDepth
        PROVE  Within[n + 1] = Hop(Within[n])
    <2>1. n + 1 \in D /\ n + 1 # 0 /\ (n + 1) - 1 = n
      BY <1>0
    <2>2. Table(Within)[n + 1] = Within[(n + 1) - 1] \union
            UNION {links[u] : u \in Within[(n + 1) - 1] \intersect Scanned}
      BY <2>1
    <2>3. Table(Within)[n + 1] = Hop(Within[n])
      BY <2>1, <2>2 DEF Hop
    <2>. QED
      BY <1>3, <2>3
  <1>. QED
    BY <1>4, <1>5

(* Every page has its distance because each hop raises the depth by one at  *)
(* most and some link raises it by one.                                     *)
LEMMA DepthsAreDistances ==
  ASSUME DepthsOK, LinksOK
  PROVE  DepthIsDistance
  <1>. DEFINE At(n) == {u \in Known : depths[u] <= n}
              T == {n \in 0 .. MaxDepth + 1 : Within[n] # At(n)}
  <1>. SUFFICES ASSUME T # {}
                PROVE  FALSE
    BY DEF DepthIsDistance
  <1>0. MaxDepth \in Nat
    BY LimitsAssumption
  <1>1. PICK m \in T : \A n \in T : m <= n
    <2>1. T \in SUBSET Nat
      BY <1>0
    <2>. HIDE DEF T
    <2>. QED
      BY <2>1, LeastNatural
  <1>2. m \in 0 .. MaxDepth + 1 /\ Within[m] # At(m)
    OBVIOUS
  <1>3. m # 0
    <2>1. ASSUME NEW v \in Known, depths[v] <= 0
          PROVE  v = Seed
      BY <2>1 DEF DepthsOK, LinksOK
    <2>2. At(0) = {Seed}
      BY <2>1 DEF DepthsOK
    <2>. QED
      BY <1>2, <2>2, WithinHops
  <1>4. m - 1 \in 0 .. MaxDepth /\ (m - 1) + 1 = m /\ m - 1 \notin T
    BY <1>0, <1>1, <1>2, <1>3
  <1>5. Within[m - 1] = At(m - 1)
    BY <1>0, <1>4
  <1>6. Within[m] = Hop(At(m - 1))
    BY <1>4, <1>5, WithinHops
  <1>. HIDE DEF T
  <1>7. Hop(At(m - 1)) \subseteq At(m)
    <2>1. At(m - 1) \subseteq At(m)
      BY <1>2 DEF DepthsOK
    <2>2. ASSUME NEW u \in At(m - 1) \intersect Scanned, NEW v \in links[u]
          PROVE  v \in At(m)
      <3>1. v \in Known /\ depths[v] <= depths[u] + 1 /\ depths[u] <= m - 1
        BY <2>2 DEF LinksOK
      <3>2. depths[v] \in Nat /\ depths[u] \in Nat
        BY <2>2, <3>1 DEF DepthsOK
      <3>. QED
        BY <1>2, <3>1, <3>2
    <2>. QED
      BY <2>1, <2>2 DEF Hop
  <1>8. At(m) \subseteq Hop(At(m - 1))
    <2>1. ASSUME NEW v \in Known, depths[v] <= m
          PROVE  v \in Hop(At(m - 1))
      <3>0. depths[v] \in Nat
        BY <2>1 DEF DepthsOK
      <3>1. CASE depths[v] <= m - 1
        BY <2>1, <3>1 DEF Hop
      <3>2. CASE ~(depths[v] <= m - 1)
        <4>1. depths[v] = m /\ v # Seed
          BY <1>2, <1>3, <2>1, <3>0, <3>2 DEF DepthsOK
        <4>2. PICK u \in Scanned : v \in links[u] /\ depths[v] = depths[u] + 1
          BY <2>1, <4>1 DEF DepthsOK
        <4>3. u \in Known /\ depths[u] \in Nat
          BY <4>2 DEF LinksOK, DepthsOK
        <4>4. u \in At(m - 1)
          BY <1>2, <4>1, <4>2, <4>3
        <4>. QED
          BY <4>2, <4>4 DEF Hop
      <3>. QED
        BY <3>1, <3>2
    <2>. QED
      BY <2>1
  <1>. QED
    BY <1>2, <1>6, <1>7, <1>8

-----------------------------------------------------------------------------
(* The queue under the steps of the loop.                                   *)

LEMMA TailOf ==
  ASSUME NEW q \in Seq(Page \X Nat), q # <<>>
  PROVE  /\ Len(q) \in Nat /\ Len(q) >= 1 /\ Head(q) = q[1] /\ q[1] \in Page \X Nat
         /\ Tail(q) \in Seq(Page \X Nat) /\ Len(Tail(q)) = Len(q) - 1
         /\ \A i \in 1 .. Len(q) - 1 : Tail(q)[i] = q[i + 1]
         /\ \A i \in 1 .. Len(q) : q[i] \in Page \X Nat
  <1>1. Len(q) \in Nat /\ Len(q) # 0
    BY EmptySeq, LenProperties
  <1>2. \A i \in 1 .. Len(q) : q[i] \in Page \X Nat
    BY LenProperties
  <1>. QED
    BY <1>1, <1>2, HeadTailProperties

(* Taking the head off keeps the order, and loses no other page.            *)
LEMMA RestFits ==
  ASSUME NEW q \in Seq(Page \X Nat), q # <<>>, NEW d, QueueFits(q, d),
         \A v \in DOMAIN d : d[v] \in Nat
  PROVE  /\ QueueFits(Tail(q), d)
         /\ Waiting(q) \subseteq {q[1][1]} \union Waiting(Tail(q))
  <1>. DEFINE r == Tail(q)
              n == Len(q) - 1
  <1>1. n \in Nat /\ n + 1 = Len(q) /\ Len(r) = n /\ \A i \in 1 .. n : r[i] = q[i + 1]
    BY TailOf
  <1>2. \A i \in 1 .. n + 1 : q[i][2] \in Nat
    BY <1>1, TailOf
  <1>. HIDE DEF r, n
  <1>3. ASSUME NEW i \in 1 .. n
        PROVE  r[i][1] \in DOMAIN d /\ d[r[i][1]] = r[i][2]
    <2>1. i + 1 \in 1 .. Len(q) /\ r[i] = q[i + 1]
      BY <1>1
    <2>. QED
      BY <2>1 DEF QueueFits
  <1>4. ASSUME NEW i \in 1 .. n, NEW j \in 1 .. n, i <= j
        PROVE  r[i][2] <= r[j][2]
    <2>1. i + 1 \in 1 .. Len(q) /\ j + 1 \in 1 .. Len(q) /\ i + 1 <= j + 1
      BY <1>1, <1>4
    <2>2. q[i + 1][2] <= q[j + 1][2]
      BY <2>1 DEF QueueFits
    <2>. QED
      BY <1>1, <2>2
  <1>5. ASSUME r # <<>>, NEW v \in DOMAIN d
        PROVE  d[v] <= r[1][2] + 1
    <2>1. n >= 1
      <3>1. r \in Seq(Page \X Nat)
        BY TailOf DEF r
      <3>. QED
        BY <1>1, <1>5, <3>1, EmptySeq
    <2>2. 1 \in 1 .. Len(q) /\ 2 \in 1 .. Len(q) /\ r[1] = q[2]
      BY <1>1, <2>1
    <2>3. d[v] <= q[1][2] + 1 /\ q[1][2] <= q[2][2]
      BY <2>2 DEF QueueFits
    <2>4. d[v] \in Nat /\ q[1][2] \in Nat /\ q[2][2] \in Nat
      BY <1>1, <1>2, <2>1
    <2>. QED
      BY <2>2, <2>3, <2>4
  <1>6. ASSUME NEW i \in 1 .. Len(q), i # 1
        PROVE  q[i][1] \in Waiting(r)
    <2>1. i - 1 \in 1 .. n /\ (i - 1) + 1 = i
      BY <1>1, <1>6
    <2>2. r[i - 1] = q[i]
      BY <1>1, <2>1
    <2>. QED
      BY <1>1, <2>1, <2>2 DEF Waiting
  <1>7. Waiting(q) \subseteq {q[1][1]} \union Waiting(r)
    BY <1>6 DEF Waiting
  <1>8. QueueFits(r, d)
    BY <1>1, <1>3, <1>4, <1>5 DEF QueueFits
  <1>. QED
    BY <1>7, <1>8 DEF r

(* The entries and the depths that new pages get.                           *)
Entries(order, c) == [i \in DOMAIN order |-> <<order[i], c>>]
Deepened(d, new, c) == [u \in DOMAIN d \union new |-> IF u \in new THEN c ELSE d[u]]

(* Adding pages not heard of before, one deeper than the head, keeps it too.*)
LEMMA MoreFits ==
  ASSUME NEW q \in Seq(Page \X Nat), q # <<>>, NEW d, QueueFits(q, d),
         \A v \in DOMAIN d : d[v] \in Nat,
         NEW new \in SUBSET Page, new \intersect DOMAIN d = {},
         NEW order \in Orders(new),
         NEW c \in Nat, c = q[1][2]
  PROVE  /\ QueueFits(Tail(q) \o Entries(order, c + 1), Deepened(d, new, c + 1))
         /\ Waiting(Tail(q)) \union new \subseteq Waiting(Tail(q) \o Entries(order, c + 1))
  <1>. DEFINE t == Tail(q)
              e == Entries(order, c + 1)
              dd == Deepened(d, new, c + 1)
              n == Len(t)
              m == Cardinality(new)
              r == t \o e
  <1>1. m \in Nat /\ DOMAIN order = 1 .. m /\ \A u \in new : \E i \in 1 .. m : order[i] = u
    BY FiniteParts DEF Orders
  <1>2. \A i \in 1 .. m : order[i] \in new
    BY DEF Orders
  <1>3. c \in Nat /\ t \in Seq(Page \X Nat) /\ n \in Nat /\ \A i \in 1 .. n : t[i] \in Page \X Nat
    <2>1. c \in Nat /\ t \in Seq(Page \X Nat)
      BY TailOf
    <2>. QED
      BY <2>1, LenProperties
  <1>4. e \in Seq(Page \X Nat)
    <2>1. c + 1 \in Nat
      BY <1>3
    <2>. QED
      BY <2>1, EntriesType DEF Entries
  <1>5. Len(e) = m /\ \A i \in 1 .. m : e[i] = <<order[i], c + 1>>
    <2>1. DOMAIN e = 1 .. m /\ \A i \in 1 .. m : e[i] = <<order[i], c + 1>>
      BY <1>1 DEF Entries
    <2>. QED
      BY <1>1, <1>4, <2>1, LenProperties
  <1>6. QueueFits(t, d)
    BY RestFits
  <1>7. \A v \in DOMAIN d : d[v] <= c + 1
    BY DEF QueueFits
  <1>8. /\ DOMAIN dd = DOMAIN d \union new
        /\ \A u \in new : dd[u] = c + 1
        /\ \A u \in DOMAIN d : dd[u] = d[u]
    BY DEF Deepened
  <1>. HIDE DEF e, dd
  <1>9. r \in Seq(Page \X Nat) /\ Len(r) = n + m
    BY <1>3, <1>4, <1>5, ConcatProperties
  <1>concat. \A i \in 1 .. n + m : r[i] = IF i <= n THEN t[i] ELSE e[i - n]
    BY <1>3, <1>4, <1>5, ConcatProperties
  <1>sizes. m \in Nat /\ n \in Nat
    BY <1>1, <1>3
  <1>. HIDE DEF n, m, r
  <1>10. \A i \in 1 .. n : r[i] = t[i]
    <2>1. ASSUME NEW i \in 1 .. n
          PROVE  i \in 1 .. n + m /\ i <= n
      BY <1>sizes
    <2>. QED
      BY <1>concat, <2>1
  <1>11. \A i \in 1 .. n + m : i > n => i - n \in 1 .. m /\ r[i] = <<order[i - n], c + 1>>
    <2>1. ASSUME NEW i \in 1 .. n + m, i > n
          PROVE  i - n \in 1 .. m /\ ~(i <= n)
      BY <1>sizes, <2>1
    <2>2. ASSUME NEW i \in 1 .. n + m, i > n
          PROVE  r[i] = e[i - n]
      BY <1>concat, <2>1, <2>2
    <2>. QED
      BY <1>5, <2>1, <2>2
  <1>12. \A i \in 1 .. n : t[i][1] \in DOMAIN d /\ d[t[i][1]] = t[i][2] /\ t[i][2] \in Nat
    BY <1>3, <1>6 DEF QueueFits, n
  <1>13. q # <<>> /\ \A i \in 1 .. n : c <= t[i][2] /\ t[i][2] <= c + 1
    <2>1. ASSUME NEW i \in 1 .. n
          PROVE  c <= t[i][2]
      <3>1. 1 \in 1 .. Len(q) /\ i + 1 \in 1 .. Len(q) /\ t[i] = q[i + 1] /\ 1 <= i + 1
        BY TailOf DEF n
      <3>. QED
        BY <3>1 DEF QueueFits
    <2>. QED
      BY <1>7, <1>12, <2>1
  <1>. HIDE DEF t
  <1>14. ASSUME NEW i \in 1 .. n + m
         PROVE  r[i][1] \in DOMAIN dd /\ dd[r[i][1]] = r[i][2]
    <2>1. CASE i <= n
      <3>1. i \in 1 .. n
        BY <1>1, <1>3, <1>14, <2>1
      <3>. QED
        BY <1>8, <1>10, <1>12, <3>1
    <2>2. CASE i > n
      <3>1. r[i] = <<order[i - n], c + 1>> /\ order[i - n] \in new
        BY <1>2, <1>11, <2>2
      <3>. QED
        BY <1>8, <3>1
    <2>. QED
      BY <1>1, <1>3, <1>14, <2>1, <2>2
  <1>15. ASSUME NEW i \in 1 .. n + m
         PROVE  \/ i \in 1 .. n /\ r[i][2] = t[i][2] /\ r[i][2] \in Nat
                \/ i > n /\ r[i][2] = c + 1
    <2>1. CASE i <= n
      <3>1. i \in 1 .. n
        BY <1>1, <1>3, <1>15, <2>1
      <3>. QED
        BY <1>10, <1>12, <3>1
    <2>2. CASE i > n
      BY <1>11, <2>2
    <2>. QED
      BY <1>1, <1>3, <1>15, <2>1, <2>2
  <1>16. \A i, j \in 1 .. n : i <= j => t[i][2] <= t[j][2]
    BY <1>6 DEF QueueFits, n
  <1>17. ASSUME NEW i \in 1 .. n + m, NEW j \in 1 .. n + m, i <= j
         PROVE  r[i][2] <= r[j][2]
    <2>1. CASE j > n
      <3>1. r[j][2] = c + 1
        BY <1>3, <1>15, <2>1
      <3>2. r[i][2] = c + 1 \/ (i \in 1 .. n /\ r[i][2] = t[i][2])
        BY <1>15
      <3>. QED
        BY <1>3, <1>13, <3>1, <3>2
    <2>2. CASE ~(j > n)
      <3>1. j \in 1 .. n /\ i \in 1 .. n
        BY <1>1, <1>3, <1>17, <2>2
      <3>2. r[i] = t[i] /\ r[j] = t[j]
        BY <1>10, <3>1
      <3>3. t[i][2] <= t[j][2]
        BY <1>16, <1>17, <3>1
      <3>. QED
        BY <3>2, <3>3
    <2>. QED
      BY <2>1, <2>2
  <1>18. ASSUME NEW i \in 1 .. n + m
         PROVE  c <= r[i][2] /\ r[i][2] \in Nat
    BY <1>3, <1>13, <1>15
  <1>19. ASSUME r # <<>>, NEW v \in DOMAIN dd
         PROVE  dd[v] <= r[1][2] + 1
    <2>1. n + m >= 1
      BY <1>1, <1>3, <1>9, <1>19, EmptySeq
    <2>2. 1 \in 1 .. n + m
      BY <1>1, <1>3, <2>1
    <2>3. c <= r[1][2] /\ r[1][2] \in Nat
      BY <1>18, <2>2
    <2>4. dd[v] \in Nat /\ dd[v] <= c + 1
      <3>1. CASE v \in new
        BY <1>3, <1>8, <3>1
      <3>2. CASE v \in DOMAIN d
        BY <1>7, <1>8, <3>2
      <3>. QED
        BY <1>8, <1>19, <3>1, <3>2
    <2>. QED
      BY <1>3, <2>3, <2>4
  <1>20. QueueFits(r, dd)
    BY <1>9, <1>14, <1>17, <1>19 DEF QueueFits
  <1>21. ASSUME NEW i \in 1 .. n
         PROVE  t[i][1] \in Waiting(r)
    <2>1. i \in 1 .. n + m
      BY <1>1, <1>3
    <2>. QED
      BY <1>9, <1>10, <2>1 DEF Waiting
  <1>22. ASSUME NEW u \in new
         PROVE  u \in Waiting(r)
    <2>1. PICK k \in 1 .. m : order[k] = u
      BY <1>1
    <2>2. n + k \in 1 .. n + m /\ n + k > n /\ (n + k) - n = k
      BY <1>1, <1>3
    <2>3. r[n + k] = <<u, c + 1>>
      BY <1>11, <2>1, <2>2
    <2>. QED
      BY <1>9, <2>2, <2>3 DEF Waiting
  <1>23. Waiting(t) \union new \subseteq Waiting(r)
    BY <1>21, <1>22 DEF Waiting, n
  <1>. QED
    BY <1>20, <1>23 DEF r, t, e, dd

-----------------------------------------------------------------------------
(* BreadthInv is inductive.                                                 *)

LEMMA BreadthInit ==
  ASSUME Init
  PROVE  BreadthInv
  <1>. DEFINE q == <<<<Seed, 0>>>>
  <1>1. /\ visited = {} /\ queue = q /\ result = <<>> /\ Scanned = {}
        /\ Known = {Seed} /\ depths[Seed] = 0
    BY DEF Init, Known, Scanned
  <1>2. q \in Seq(Page \X Nat) /\ Len(q) = 1 /\ q[1] = <<Seed, 0>> /\ Seed \in Page
    BY PageAssumption
  <1>3. DepthsOK /\ LinksOK
    BY <1>1, <1>2 DEF DepthsOK, LinksOK
  <1>. HIDE DEF q
  <1>4. QueueOK
    <2>1. \A i \in 1 .. 1 : i = 1
      OBVIOUS
    <2>2. q[1][1] = Seed /\ q[1][2] = 0
      BY <1>2
    <2>. QED
      BY <1>1, <1>2, <2>1, <2>2 DEF QueueOK, QueueFits, Known
  <1>5. SeenOK
    <2>1. Seed \in Waiting(q)
      BY <1>2 DEF Waiting
    <2>. QED
      BY <1>1, <2>1 DEF SeenOK
  <1>. QED
    BY <1>3, <1>4, <1>5 DEF BreadthInv

(* The page at the head of the queue is known at the depth it waits with.   *)
LEMMA HeadKnown ==
  ASSUME TypeOK, QueueOK, queue # <<>>
  PROVE  /\ Url = queue[1][1] /\ Depth = queue[1][2] /\ Url \in Known /\ depths[Url] = Depth
         /\ \A v \in Known : depths[v] <= Depth + 1
         /\ Waiting(queue) = {queue[i][1] : i \in 1 .. Len(queue)}
         /\ Url \in Page /\ Depth \in Nat
  <1>1. Len(queue) \in Nat /\ Len(queue) >= 1 /\ Head(queue) = queue[1]
    BY TailOf DEF TypeOK
  <1>2. 1 \in 1 .. Len(queue)
    BY <1>1
  <1>. QED
    BY <1>1, <1>2, QueueHead DEF QueueOK, QueueFits, Known, Url, Depth, Waiting

(* The head leaves the queue and no depth changes.                          *)
LEMMA BreadthTail ==
  ASSUME TypeOK, BreadthInv, queue # <<>>, result = <<>>,
         queue' = Tail(queue),
         visited' = visited \/ (visited' = visited \union {Url} /\ ~TooDeep(Depth)),
         Url \in visited' \/ TooDeep(Depth),
         UNCHANGED <<depths, result, links>>
  PROVE  BreadthInv'
  <1>1. queue \in Seq(Page \X Nat) /\ QueueFits(queue, depths) /\ QueueOK
    BY DEF TypeOK, BreadthInv, QueueOK
  <1>2. \A v \in DOMAIN depths : depths[v] \in Nat
    BY DEF BreadthInv, DepthsOK, Known
  <1>3. /\ QueueFits(Tail(queue), depths)
        /\ Waiting(queue) \subseteq {Url} \union Waiting(Tail(queue))
    BY <1>1, <1>2, RestFits, HeadKnown
  <1>4. Known' = Known /\ Scanned' = Scanned
    BY DEF Known, Scanned
  <1>5. DepthsOK' /\ LinksOK'
    BY <1>4 DEF BreadthInv, DepthsOK, LinksOK
  <1>6. QueueOK'
    BY <1>3 DEF QueueOK
  <1>7. Url \in Known /\ depths[Url] = Depth /\ Depth \in Nat /\ Waiting(queue') = Waiting(Tail(queue))
    BY <1>1, HeadKnown
  <1>8. MaxDepth \in Nat
    BY LimitsAssumption
  <1>9. visited' \subseteq Known /\ \A v \in visited' : depths[v] <= MaxDepth
    BY <1>7, <1>8 DEF BreadthInv, SeenOK, TooDeep
  <1>10. ASSUME NEW v \in Known, depths[v] <= MaxDepth
         PROVE  v \in visited' \union Waiting(queue')
    <2>1. v \in visited \union {Url} \union Waiting(Tail(queue))
      BY <1>3, <1>10 DEF BreadthInv, SeenOK
    <2>2. v = Url => v \in visited'
      BY <1>7, <1>8, <1>10 DEF TooDeep
    <2>. QED
      BY <1>7, <2>1, <2>2
  <1>11. SeenOK'
    BY <1>4, <1>9, <1>10 DEF SeenOK
  <1>. QED
    BY <1>5, <1>6, <1>11 DEF BreadthInv

(* A page answers: what is new is one deeper and waits.                     *)
LEMMA BreadthLinks ==
  ASSUME TypeOK, BreadthInv, FetchLinks
  PROVE  BreadthInv'
  <1>1. queue # <<>> /\ Url \notin visited /\ ~TooDeep(Depth)
    BY DEF FetchLinks, Scanning
  <1>2. visited' = visited \union {Url} /\ result = <<>> /\ result' = <<>>
    BY DEF FetchLinks
  <1>3. PICK found \in SUBSET Page : \E order \in Orders(Fresh(found)) :
          /\ depths' = [u \in Known \union Fresh(found) |->
                          IF u \in Fresh(found) THEN Depth + 1 ELSE depths[u]]
          /\ queue' = Tail(queue) \o [i \in DOMAIN order |-> <<order[i], Depth + 1>>]
          /\ links' = [u \in Scanned \union {Url} |-> IF u = Url THEN found ELSE links[u]]
    BY DEF FetchLinks, Enqueued
  <1>. DEFINE new == Fresh(found)
  <1>4. PICK order \in Orders(new) :
          /\ depths' = [u \in Known \union new |-> IF u \in new THEN Depth + 1 ELSE depths[u]]
          /\ queue' = Tail(queue) \o [i \in DOMAIN order |-> <<order[i], Depth + 1>>]
          /\ links' = [u \in Scanned \union {Url} |-> IF u = Url THEN found ELSE links[u]]
    BY <1>3
  <1>5. /\ Url = queue[1][1] /\ Depth = queue[1][2] /\ Url \in Known /\ depths[Url] = Depth
        /\ \A v \in Known : depths[v] <= Depth + 1
        /\ Url \in Page /\ Depth \in Nat
    BY <1>1, HeadKnown DEF BreadthInv
  <1>6. /\ new \subseteq found /\ new \subseteq Page /\ new \intersect Known = {}
        /\ found \subseteq new \union Known
    BY <1>5 DEF Fresh, BreadthInv, SeenOK
  <1>7. queue \in Seq(Page \X Nat) /\ QueueFits(queue, depths)
    BY DEF TypeOK, BreadthInv, QueueOK
  <1>8. Known \subseteq Page /\ \A v \in Known : depths[v] \in Nat
    BY DEF BreadthInv, DepthsOK
  <1>9. /\ QueueFits(queue', depths')
        /\ Waiting(Tail(queue)) \union new \subseteq Waiting(queue')
    <2>1. queue' = Tail(queue) \o Entries(order, Depth + 1)
      BY <1>4 DEF Entries
    <2>2. depths' = Deepened(depths, new, Depth + 1)
      BY <1>4 DEF Known, Deepened
    <2>3. \A v \in DOMAIN depths : depths[v] \in Nat
      BY <1>8 DEF Known
    <2>4. new \in SUBSET Page /\ new \intersect DOMAIN depths = {}
      BY <1>6 DEF Known
    <2>. HIDE DEF new
    <2>. QED
      BY <1>1, <1>5, <1>7, <2>1, <2>2, <2>3, <2>4, MoreFits
  <1>10. /\ Known' = Known \union new
         /\ \A u \in new : depths'[u] = Depth + 1
         /\ \A u \in Known : depths'[u] = depths[u]
    BY <1>4, <1>6 DEF Known
  <1>11. /\ Scanned' = Scanned \union {Url} /\ Url \notin Scanned
         /\ links'[Url] = found
         /\ \A u \in Scanned : links'[u] = links[u]
    BY <1>1, <1>4 DEF Scanned, TypeOK
  <1>12. Waiting(queue) \subseteq {Url} \union Waiting(Tail(queue))
    BY <1>1, <1>5, <1>7, <1>8, RestFits DEF Known
  <1>. HIDE DEF new
  <1>13. DepthsOK'
    <2>1. Known' \subseteq Page /\ \A u \in Known' : depths'[u] \in Nat
      BY <1>5, <1>6, <1>8, <1>10
    <2>2. Seed \in Known' /\ depths'[Seed] = 0
      BY <1>10 DEF BreadthInv, DepthsOK
    <2>3. ASSUME NEW v \in Known' \ {Seed}
          PROVE  \E u \in Scanned' : v \in links'[u] /\ depths'[v] = depths'[u] + 1
      <3>1. CASE v \in Known
        <4>1. PICK u \in Scanned : v \in links[u] /\ depths[v] = depths[u] + 1
          BY <2>3, <3>1 DEF BreadthInv, DepthsOK
        <4>2. u \in Known
          BY <4>1 DEF BreadthInv, LinksOK
        <4>. QED
          BY <1>10, <1>11, <3>1, <4>1, <4>2
      <3>2. CASE v \in new
        <4>1. v \in links'[Url] /\ depths'[v] = depths'[Url] + 1
          BY <1>5, <1>6, <1>10, <1>11, <3>2
        <4>. QED
          BY <1>11, <4>1
      <3>. QED
        BY <1>10, <2>3, <3>1, <3>2
    <2>. QED
      BY <2>1, <2>2, <2>3 DEF DepthsOK
  <1>14. LinksOK'
    <2>1. ASSUME NEW u \in Scanned', NEW v \in links'[u]
          PROVE  u \in Known' /\ v \in Known' /\ depths'[v] <= depths'[u] + 1
      <3>1. CASE u \in Scanned
        <4>1. u \in Known /\ v \in links[u] /\ v \in Known /\ depths[v] <= depths[u] + 1
          BY <1>11, <2>1, <3>1 DEF BreadthInv, LinksOK
        <4>. QED
          BY <1>10, <4>1
      <3>2. CASE u = Url
        <4>1. v \in found /\ depths'[u] = Depth /\ u \in Known'
          BY <1>5, <1>10, <1>11, <2>1, <3>2
        <4>2. CASE v \in new
          BY <1>5, <1>10, <4>1, <4>2
        <4>3. CASE v \in Known
          BY <1>5, <1>10, <4>1, <4>3
        <4>. QED
          BY <1>6, <4>1, <4>2, <4>3
      <3>. QED
        BY <1>11, <2>1, <3>1, <3>2
    <2>2. ASSUME NEW u \in Scanned'
          PROVE  u \in Known'
      BY <1>5, <1>10, <1>11 DEF BreadthInv, LinksOK
    <2>. QED
      BY <2>1, <2>2 DEF LinksOK
  <1>15. QueueOK'
    BY <1>9 DEF QueueOK
  <1>16. SeenOK'
    <2>1. visited' \subseteq Known'
      BY <1>2, <1>5, <1>10 DEF BreadthInv, SeenOK
    <2>2. ASSUME NEW v \in visited'
          PROVE  depths'[v] <= MaxDepth
      <3>1. CASE v \in visited
        BY <1>10, <3>1 DEF BreadthInv, SeenOK
      <3>2. CASE v = Url
        <4>1. depths'[v] = Depth
          BY <1>5, <1>10, <3>2
        <4>. QED
          BY <1>1, <1>5, <4>1, LimitsAssumption DEF TooDeep
      <3>. QED
        BY <1>2, <2>2, <3>1, <3>2
    <2>3. ASSUME NEW v \in Known', depths'[v] <= MaxDepth
          PROVE  v \in visited' \union Waiting(queue')
      <3>1. CASE v \in Known
        <4>1. v \in visited \union Waiting(queue)
          BY <1>10, <2>3, <3>1 DEF BreadthInv, SeenOK
        <4>. QED
          BY <1>2, <1>9, <1>12, <4>1
      <3>2. CASE v \in new
        BY <1>9, <3>2
      <3>. QED
        BY <1>10, <2>3, <3>1, <3>2
    <2>. QED
      BY <1>2, <2>1, <2>2, <2>3 DEF SeenOK
  <1>. QED
    BY <1>13, <1>14, <1>15, <1>16 DEF BreadthInv

LEMMA BreadthStep ==
  ASSUME TypeOK, SeedWaits, BreadthInv, [Next]_vars
  PROVE  BreadthInv'
  <1>1. CASE Skip
    <2>1. queue # <<>> /\ result = <<>> /\ queue' = Tail(queue) /\ visited' = visited
          /\ (Url \in visited' \/ TooDeep(Depth)) /\ UNCHANGED <<depths, result, links>>
      BY <1>1 DEF Skip, Scanning
    <2>. QED
      BY <2>1, BreadthTail
  <1>2. CASE FetchNothing
    <2>1. queue # <<>> /\ result = <<>> /\ queue' = Tail(queue) /\ visited' = visited \union {Url}
          /\ ~TooDeep(Depth) /\ UNCHANGED <<depths, result, links>>
      BY <1>2 DEF FetchNothing, Scanning
    <2>. QED
      BY <2>1, BreadthTail
  <1>3. CASE FetchLinks
    BY <1>3, BreadthLinks
  <1>4. CASE Finish
    <2>1. ~Scanning' /\ UNCHANGED <<visited, queue, depths, links>>
      BY <1>4 DEF Finish, Scanning
    <2>. QED
      BY <2>1 DEF BreadthInv, DepthsOK, LinksOK, QueueOK, SeenOK, Known, Scanned
  <1>5. CASE UNCHANGED vars
    BY <1>5 DEF vars, BreadthInv, DepthsOK, LinksOK, QueueOK, SeenOK, Known, Scanned, Scanning
  <1>. QED
    BY <1>1, <1>2, <1>3, <1>4, <1>5 DEF Next

(* The queue holds two neighbouring depths at most, in order, and every page*)
(* heard of that is not too deep was fetched or waits in it.                *)
THEOREM BreadthFirst == Spec => []BreadthInv
  <1>1. Init => BreadthInv
    BY BreadthInit
  <1>2. TypeOK /\ SeedWaits /\ BreadthInv /\ [Next]_vars => BreadthInv'
    BY BreadthStep
  <1>. QED
    BY <1>1, <1>2, TypeCorrect, PTL DEF Spec

(* The depth written down for a page when it is first heard of is its       *)
(* distance from the seed at every moment, for any site, any order of links *)
(* and any limits: no shorter way to it is found later.                     *)
THEOREM DepthsAreExact == Spec => []DepthIsDistance
  <1>1. BreadthInv => DepthIsDistance
    BY DepthsAreDistances DEF BreadthInv
  <1>. QED
    BY <1>1, BreadthFirst, PTL

(* A scan that the page limit did not cut off fetched exactly the pages     *)
(* within MaxDepth hops of the seed.                                        *)
THEOREM ScansAreComplete == Spec => []ScanIsComplete
  <1>1. BreadthInv => ScanIsComplete
    <2>. SUFFICES ASSUME BreadthInv, result # <<>>, Cardinality(visited) < MaxScan
                  PROVE  visited = Within[MaxDepth]
      BY DEF ScanIsComplete
    <2>1. queue = <<>>
      BY DEF BreadthInv, SeenOK, Scanning
    <2>2. Waiting(queue) = {}
      BY <2>1 DEF Waiting
    <2>3. visited = {u \in Known : depths[u] <= MaxDepth}
      BY <2>2 DEF BreadthInv, SeenOK
    <2>4. MaxDepth \in 0 .. MaxDepth + 1
      BY LimitsAssumption
    <2>5. DepthIsDistance
      BY DepthsAreDistances DEF BreadthInv
    <2>. QED
      BY <2>3, <2>4, <2>5 DEF DepthIsDistance
  <1>. QED
    BY <1>1, BreadthFirst, PTL

-----------------------------------------------------------------------------
(* What is indexed: the first of a ranking of the visited pages.            *)

Kept(ranked) == IF Len(ranked) < MaxIndex THEN Len(ranked) ELSE MaxIndex

RankingInv ==
  result # <<>> => \E ranked \in Ranked : result = SubSeq(ranked, 1, Kept(ranked))

(* A ranking lists every visited page once.                                 *)
LEMMA RankedOnce ==
  ASSUME TypeOK, NEW ranked \in Ranked
  PROVE  LET n == Cardinality(visited)
         IN  /\ n \in Nat /\ Len(ranked) = n /\ DOMAIN ranked = 1 .. n
             /\ \A i \in 1 .. n : ranked[i] \in visited
             /\ \A v \in visited : \E i \in 1 .. n : ranked[i] = v
             /\ \A i, j \in 1 .. n : ranked[i] = ranked[j] => i = j
             /\ \A i, j \in 1 .. n : i < j => Before(ranked[i], ranked[j])
  <1>. DEFINE n == Cardinality(visited)
  <1>1. n \in Nat
    BY FiniteParts DEF TypeOK
  <1>. HIDE DEF n
  <1>2. ranked \in [1 .. n -> visited] /\ \A v \in visited : \E i \in 1 .. n : ranked[i] = v
    BY DEF Ranked, Orders, n
  <1>3. ranked \in Surjection(1 .. n, visited)
    BY <1>2 DEF Surjection
  <1>4. IsFiniteSet(1 .. n) /\ Cardinality(1 .. n) = n
    BY <1>1, FS_Interval
  <1>5. ranked \in Injection(1 .. n, visited)
    BY <1>3, <1>4, FS_SurjSameCardinalityImpliesInj DEF n
  <1>6. \A i, j \in 1 .. n : ranked[i] = ranked[j] => i = j
    BY <1>5, Fun_InjectionProperties
  <1>7. Len(ranked) = n
    <2>1. DOMAIN ranked = 1 .. n /\ ranked = [i \in 1 .. n |-> ranked[i]]
      BY <1>2
    <2>2. ranked \in Seq(visited)
      BY <1>1, <1>2, <2>1
    <2>. QED
      BY <1>1, <2>1, <2>2, LenProperties
  <1>8. \A i, j \in 1 .. n : i < j => Before(ranked[i], ranked[j])
    BY <1>2 DEF Ranked
  <1>. QED
    BY <1>1, <1>2, <1>6, <1>7, <1>8 DEF n

LEMMA RankingIsBest ==
  ASSUME TypeOK, RankingInv
  PROVE  BestAreIndexed
  <1>. DEFINE kept == {result[i] : i \in DOMAIN result}
              n == Cardinality(visited)
  <1>. SUFFICES ASSUME result # <<>>
                PROVE  /\ kept \subseteq visited
                       /\ Cardinality(kept) = Len(result)
                       /\ Len(result) = MaxIndex \/ kept = visited
                       /\ \A u \in kept, v \in visited \ kept : inlinks[u] >= inlinks[v]
    BY DEF BestAreIndexed
  <1>1. PICK ranked \in Ranked : result = SubSeq(ranked, 1, Kept(ranked))
    BY DEF RankingInv
  <1>. DEFINE k == Kept(ranked)
  <1>2. /\ n \in Nat /\ Len(ranked) = n
        /\ \A i \in 1 .. n : ranked[i] \in visited
        /\ \A v \in visited : \E i \in 1 .. n : ranked[i] = v
        /\ \A i, j \in 1 .. n : ranked[i] = ranked[j] => i = j
        /\ \A i, j \in 1 .. n : i < j => Before(ranked[i], ranked[j])
    BY RankedOnce
  <1>3. k \in Nat /\ k <= n /\ (k = MaxIndex \/ k = n)
    BY <1>2, LimitsAssumption DEF Kept
  <1>. HIDE DEF k, n
  <1>4. /\ result \in Seq(visited) /\ Len(result) = k
        /\ DOMAIN result = 1 .. k /\ \A i \in 1 .. k : result[i] = ranked[i]
    <2>1. \A i \in 1 .. k : i \in 1 .. n
      BY <1>2, <1>3
    <2>2. \A i \in 1 .. k : ranked[i] \in visited
      BY <1>2, <2>1
    <2>3. result = SubSeq(ranked, 1, k)
      BY <1>1 DEF k
    <2>4. /\ SubSeq(ranked, 1, k) \in Seq(visited)
          /\ Len(SubSeq(ranked, 1, k)) = IF 1 <= k THEN k - 1 + 1 ELSE 0
          /\ \A i \in 1 .. k - 1 + 1 : SubSeq(ranked, 1, k)[i] = ranked[1 + i - 1]
      BY <1>3, <2>2, SubSeqProperties
    <2>5. Len(result) = k
      BY <1>3, <2>3, <2>4
    <2>6. DOMAIN result = 1 .. k
      BY <2>3, <2>4, <2>5, LenProperties
    <2>7. ASSUME NEW i \in 1 .. k
          PROVE  result[i] = ranked[i]
      <3>1. i \in 1 .. k - 1 + 1 /\ 1 + i - 1 = i
        BY <1>3
      <3>. QED
        BY <2>3, <2>4, <3>1
    <2>. QED
      BY <2>3, <2>4, <2>5, <2>6, <2>7
  <1>5. kept = {ranked[i] : i \in 1 .. k}
    BY <1>4
  <1>6. \A i \in 1 .. k : i \in 1 .. n
    BY <1>2, <1>3
  <1>7. kept \subseteq visited
    BY <1>2, <1>5, <1>6
  <1>8. Cardinality(kept) = k
    <2>. DEFINE f == [i \in 1 .. k |-> ranked[i]]
    <2>1. f \in [1 .. k -> kept] /\ \A i \in 1 .. k : f[i] = ranked[i]
      BY <1>5
    <2>2. \A i, j \in 1 .. k : f[i] = f[j] => i = j
      BY <1>2, <1>6, <2>1
    <2>3. \A v \in kept : \E i \in 1 .. k : f[i] = v
      BY <1>5, <2>1
    <2>. HIDE DEF f, kept
    <2>4. f \in Bijection(1 .. k, kept)
      BY <2>1, <2>2, <2>3, Fun_IsBij
    <2>5. ExistsBijection(1 .. k, kept)
      BY <2>4 DEF ExistsBijection
    <2>. QED
      BY <1>3, <2>5, FS_CountingElements
  <1>9. k = n => kept = visited
    <2>1. ASSUME k = n, NEW v \in visited
          PROVE  v \in kept
      <3>1. PICK i \in 1 .. n : ranked[i] = v
        BY <1>2
      <3>2. i \in 1 .. k
        BY <2>1
      <3>. QED
        BY <1>5, <3>1, <3>2
    <2>. HIDE DEF kept
    <2>. QED
      BY <1>7, <2>1
  <1>10. ASSUME NEW u \in kept, NEW v \in visited \ kept
         PROVE  inlinks[u] >= inlinks[v]
    <2>1. PICK i \in 1 .. k : u = ranked[i]
      BY <1>5
    <2>2. PICK j \in 1 .. n : ranked[j] = v
      BY <1>2
    <2>3. j \notin 1 .. k
      BY <1>5, <2>2
    <2>4. i \in 1 .. n /\ i < j
      BY <1>3, <1>6, <2>3
    <2>5. Before(u, v)
      BY <1>2, <2>1, <2>2, <2>4
    <2>6. inlinks[u] \in Nat /\ inlinks[v] \in Nat
      BY <1>7 DEF TypeOK
    <2>. QED
      BY <2>5, <2>6 DEF Before
  <1>. QED
    BY <1>3, <1>4, <1>7, <1>8, <1>9, <1>10

(* What goes to extraction is the best of what was visited: each page once, *)
(* as many as allowed, and none linked from fewer pages than one left out,  *)
(* however the ties in the ranking fall.                                    *)
THEOREM IndexedAreBest == Spec => []BestAreIndexed
  <1>1. Init => RankingInv
    BY DEF Init, RankingInv
  <1>2. RankingInv /\ [Next]_vars => RankingInv'
    <2>. SUFFICES ASSUME RankingInv, [Next]_vars
                  PROVE  RankingInv'
      OBVIOUS
    <2>1. CASE Finish
      <3>1. PICK ranked \in Ranked : result' = SubSeq(ranked, 1, Kept(ranked))
        BY <2>1 DEF Finish, Kept
      <3>2. ranked \in Ranked'
        BY <2>1 DEF Finish, Ranked, Orders, Before
      <3>. QED
        BY <3>1, <3>2 DEF RankingInv, Kept
    <2>2. CASE result' = <<>>
      BY <2>2 DEF RankingInv
    <2>3. CASE UNCHANGED vars
      BY <2>3 DEF vars, RankingInv, Ranked, Orders, Before
    <2>. QED
      BY <2>1, <2>2, <2>3 DEF Next, Skip, FetchNothing, FetchLinks
  <1>3. TypeOK /\ RankingInv => BestAreIndexed
    BY RankingIsBest
  <1>. QED
    BY <1>1, <1>2, <1>3, TypeCorrect, PTL DEF Spec
=============================================================================
