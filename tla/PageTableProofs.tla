--------------------------- MODULE PageTableProofs ---------------------------
(***************************************************************************)
(* Theorems about PageTable, for any sites, any heads and any number of     *)
(* executions.                                                              *)
(*                                                                          *)
(* Canonicalization and generation go through the rows in the order they    *)
(* were read, which is any: what is said of them is an invariant of that    *)
(* loop, found true of every prefix because no shortest prefix breaks it.   *)
(***************************************************************************)
EXTENDS PageTableProperties, FunctionTheorems, FiniteSetTheorems, WellFoundedInduction, TLAPS

-----------------------------------------------------------------------------
(* Loops over a sequence.                                                   *)

(* Induction on numbers, as the least counterexample.                       *)
LEMMA LeastNumber ==
  ASSUME NEW T \in SUBSET Nat, T # {}
  PROVE  \E m \in T : \A n \in T : m <= n
  <1>. DEFINE R == {ss \in Nat \X Nat : ss[1] < ss[2]}
  <1>1. IsWellFoundedOn(R, Nat)
    BY NatLessThanWellFounded DEF OpToRel
  <1>2. \A x, y \in Nat : <<x, y>> \in R <=> x < y
    OBVIOUS
  <1>. HIDE DEF R
  <1>3. PICK m \in T : \A y \in T : ~(<<y, m>> \in R)
    BY <1>1, WFMin
  <1>4. ASSUME NEW n \in T
        PROVE  m <= n
    <2>1. m \in Nat /\ n \in Nat
      OBVIOUS
    <2>2. <<n, m>> \notin R
      BY <1>3
    <2>3. ~(n < m)
      BY <1>2, <2>1, <2>2
    <2>. QED
      BY <2>1, <2>3
  <1>. QED
    BY <1>4

(* A set of numbers that holds 0 and, with each number below m, the next    *)
(* one holds all of them up to m.                                           *)
LEMMA EveryPrefix ==
  ASSUME NEW m \in Nat, NEW T, 0 \in T,
         \A n \in 1 .. m : n - 1 \in T => n \in T
  PROVE  \A n \in 0 .. m : n \in T
  <1>. DEFINE Bad == {n \in 0 .. m : n \notin T}
  <1>. SUFFICES ASSUME Bad # {}
                PROVE  FALSE
    OBVIOUS
  <1>1. PICK k \in Bad : \A n \in Bad : k <= n
    <2>1. Bad \in SUBSET Nat
      OBVIOUS
    <2>. HIDE DEF Bad
    <2>. QED
      BY <2>1, LeastNumber
  <1>2. k \in 0 .. m /\ k \notin T /\ k # 0
    OBVIOUS
  <1>3. k \in 1 .. m /\ k - 1 \in 0 .. m /\ ~(k <= k - 1)
    BY <1>2
  <1>4. k - 1 \notin Bad
    BY <1>1, <1>3
  <1>5. k - 1 \in T
    BY <1>3, <1>4
  <1>. QED
    BY <1>2, <1>3, <1>5

(* The states a loop of m passes goes through exist.                        *)
LoopStates(X, base, step, m) ==
  {g \in [0 .. m -> X] : g[0] = base /\ \A n \in 1 .. m : g[n] = step[<<n, g[n - 1]>>]}

LEMMA LoopsRun ==
  ASSUME NEW X, NEW base \in X, NEW m \in Nat, NEW step \in [(1 .. m) \X X -> X]
  PROVE  \E g : g \in LoopStates(X, base, step, m)
  <1>. DEFINE T == {n \in 0 .. m : \E g : g \in LoopStates(X, base, step, n)}
  <1>1. 0 \in T
    <2>. DEFINE g == [n \in 0 .. 0 |-> base]
    <2>1. g \in LoopStates(X, base, step, 0)
      BY DEF LoopStates
    <2>. QED
      BY <2>1
  <1>2. ASSUME NEW n \in 1 .. m, n - 1 \in T
        PROVE  n \in T
    <2>1. PICK g : g \in LoopStates(X, base, step, n - 1)
      BY <1>2
    <2>2. /\ g \in [0 .. n - 1 -> X] /\ g[0] = base
          /\ \A k \in 1 .. n - 1 : g[k] = step[<<k, g[k - 1]>>]
      BY <2>1 DEF LoopStates
    <2>3. n - 1 \in 0 .. n - 1 /\ n \notin 0 .. n - 1
      OBVIOUS
    <2>. DEFINE h == [k \in 0 .. n |-> IF k = n THEN step[<<n, g[n - 1]>>] ELSE g[k]]
    <2>4. step[<<n, g[n - 1]>>] \in X
      BY <2>2, <2>3
    <2>5. h \in [0 .. n -> X]
      BY <2>2, <2>4
    <2>6. h[n] = step[<<n, g[n - 1]>>] /\ \A k \in 0 .. n - 1 : h[k] = g[k]
      OBVIOUS
    <2>. HIDE DEF h
    <2>7. h[0] = base
      BY <2>2, <2>6
    <2>8. ASSUME NEW k \in 1 .. n
          PROVE  h[k] = step[<<k, h[k - 1]>>]
      <3>1. k - 1 \in 0 .. n - 1
        OBVIOUS
      <3>2. h[k - 1] = g[k - 1]
        BY <2>6, <3>1
      <3>3. CASE k = n
        BY <2>6, <3>2, <3>3
      <3>4. CASE k # n
        <4>1. k \in 1 .. n - 1 /\ k \in 0 .. n - 1
          BY <3>4
        <4>. QED
          BY <2>2, <2>6, <3>2, <4>1
      <3>. QED
        BY <3>3, <3>4
    <2>9. h \in LoopStates(X, base, step, n)
      BY <2>5, <2>7, <2>8 DEF LoopStates
    <2>. QED
      BY <2>9
  <1>3. m \in T
    <2>1. \A n \in 1 .. m : n - 1 \in T => n \in T
      BY <1>2
    <2>. HIDE DEF T
    <2>2. \A n \in 0 .. m : n \in T
      BY <1>1, <2>1, EveryPrefix
    <2>. QED
      BY <2>2
  <1>. QED
    BY <1>3

(* canonicalize_and_dedup, page after page.                                 *)
KeptStates(pages) ==
  {c \in [0 .. Len(pages) -> SUBSET Page] :
     c[0] = {} /\ \A n \in 1 .. Len(pages) : c[n] = Kept(c[n - 1], pages[n])}

LEMMA KeptType ==
  ASSUME NEW c \in SUBSET Page, NEW p \in Page
  PROVE  Kept(c, p) \in SUBSET Page
  <1>1. [p EXCEPT !.url = Canonical(p.url)] \in Page
    BY DEF Page, Canonical, Address
  <1>. QED
    BY <1>1 DEF Kept

LEMMA DedupedRuns ==
  ASSUME NEW pages \in Seq(Page)
  PROVE  \E c \in KeptStates(pages) : Deduped(pages) = c[Len(pages)]
  <1>. DEFINE m == Len(pages)
              Table(w) == [n \in 0 .. m |-> IF n = 0 THEN {} ELSE Kept(w[n - 1], pages[n])]
              c == CHOOSE w : w = Table(w)
              X == SUBSET Page
              step == [s \in (1 .. m) \X X |-> Kept(s[2], pages[s[1]])]
  <1>1. m \in Nat /\ \A n \in 1 .. m : pages[n] \in Page
    OBVIOUS
  <1>2. step \in [(1 .. m) \X X -> X]
    BY <1>1, KeptType
  <1>3. \A n \in 1 .. m, x \in X : step[<<n, x>>] = Kept(x, pages[n])
    OBVIOUS
  <1>. HIDE DEF m, step
  <1>4. {} \in X
    OBVIOUS
  <1>5. PICK g : g \in LoopStates(X, {}, step, m)
    <2>. HIDE DEF X
    <2>. QED
      BY <1>1, <1>2, <1>4, LoopsRun
  <1>6. g \in [0 .. m -> X] /\ g[0] = {} /\ \A n \in 1 .. m : g[n] = Kept(g[n - 1], pages[n])
    <2>1. g \in [0 .. m -> X] /\ g[0] = {} /\ \A n \in 1 .. m : g[n] = step[<<n, g[n - 1]>>]
      BY <1>5 DEF LoopStates
    <2>2. \A n \in 1 .. m : n - 1 \in 0 .. m
      BY <1>1
    <2>. QED
      BY <1>3, <2>1, <2>2
  <1>7. g = Table(g)
    <2>1. \A n \in 0 .. m : g[n] = Table(g)[n]
      BY <1>1, <1>6
    <2>. QED
      BY <1>6, <2>1
  <1>8. c = Table(c)
    BY <1>7
  <1>9. c[0] = {} /\ DOMAIN c = 0 .. m /\ \A n \in 1 .. m : c[n] = Kept(c[n - 1], pages[n])
    <2>1. DOMAIN Table(c) = 0 .. m /\ Table(c)[0] = {}
      BY <1>1
    <2>2. \A n \in 1 .. m : Table(c)[n] = Kept(c[n - 1], pages[n])
      BY <1>1
    <2>. HIDE DEF Table, c
    <2>. QED
      BY <1>8, <2>1, <2>2
  <1>10. c \in [0 .. m -> X]
    <2>. DEFINE T == {n \in 0 .. m : c[n] \in X}
    <2>. HIDE DEF Table, c
    <2>1. 0 \in T
      BY <1>1, <1>4, <1>9
    <2>2. ASSUME NEW n \in 1 .. m, n - 1 \in T
          PROVE  n \in T
      BY <1>1, <1>9, <2>2, KeptType
    <2>. HIDE DEF T
    <2>3. \A n \in 0 .. m : n \in T
      BY <1>1, <2>1, <2>2, EveryPrefix
    <2>4. c = [n \in 0 .. m |-> c[n]]
      <3>1. c = Table(c) /\ DOMAIN Table(c) = 0 .. m
        BY <1>8 DEF Table
      <3>2. c = [n \in DOMAIN c |-> c[n]] /\ DOMAIN c = 0 .. m
        BY <3>1 DEF Table
      <3>. QED
        BY <3>2
    <2>. QED
      BY <2>3, <2>4 DEF T
  <1>11. Deduped(pages) = c[m]
    BY DEF Deduped, m
  <1>12. c \in KeptStates(pages)
    <2>. HIDE DEF c
    <2>. QED
      BY <1>9, <1>10 DEF KeptStates, m
  <1>. QED
    BY <1>11, <1>12 DEF m

(* One row of each url.                                                     *)
OneByUrl(table) == \A p, q \in table : p.url = q.url => p = q

Moved(p) == [p EXCEPT !.url = Canonical(p.url)]

LEMMA MovedType ==
  ASSUME NEW p \in Page
  PROVE  /\ Moved(p) \in Page /\ Moved(p).url = Canonical(p.url)
         /\ Moved(p).title = p.title /\ Moved(p).description = p.description
  BY DEF Moved, Page, Canonical, Address

(* A confidence that is not 0 is 60 at least, and 100 at most.              *)
LEMMA ConfidenceType == \A n \in Confidence : n \in 0 .. 100 /\ (n > 0 => n >= 60)
  BY DEF Confidence, ConfidenceFrom, Range

LEMMA CombinedType ==
  ASSUME NEW p \in Page
  PROVE  Combined(p) \in 0 .. 200 /\ Combined(p) \in Nat
  BY ConfidenceType DEF Combined, Page

LEMMA KeptStep ==
  ASSUME NEW c \in SUBSET Page, OneByUrl(c), NEW p \in Page
  PROVE  /\ OneByUrl(Kept(c, p))
         /\ Kept(c, p) \subseteq c \union {Moved(p)}
         /\ \E w \in Kept(c, p) : w.url = Canonical(p.url) /\ Combined(w) >= Combined(p)
         /\ \A v \in c : \E w \in Kept(c, p) : w.url = v.url /\ Combined(w) >= Combined(v)
  <1>. DEFINE same == {q \in c : q.url = Moved(p).url}
  <1>1. Kept(c, p) = IF \A q \in same : Better(p, q) THEN (c \ same) \union {Moved(p)} ELSE c
    BY DEF Kept, Moved
  <1>2. Moved(p) \in Page /\ Moved(p).url = Canonical(p.url) /\ Combined(Moved(p)) = Combined(p)
    BY MovedType DEF Combined
  <1>3. \A q \in c \union {p} : Combined(q) \in Nat
    BY CombinedType
  <1>4. CASE \A q \in same : Better(p, q)
    <2>1. Kept(c, p) = (c \ same) \union {Moved(p)}
      BY <1>1, <1>4
    <2>2. OneByUrl(Kept(c, p))
      BY <2>1 DEF OneByUrl
    <2>3. ASSUME NEW v \in c
          PROVE  \E w \in Kept(c, p) : w.url = v.url /\ Combined(w) >= Combined(v)
      <3>1. CASE v \in same
        <4>1. Combined(p) > Combined(v)
          BY <1>4, <3>1 DEF Better
        <4>. QED
          BY <1>2, <1>3, <2>1, <3>1, <4>1
      <3>2. CASE v \notin same
        BY <1>3, <2>1, <3>2
      <3>. QED
        BY <3>1, <3>2
    <2>. QED
      BY <1>2, <1>3, <2>1, <2>2, <2>3
  <1>5. CASE ~\A q \in same : Better(p, q)
    <2>1. Kept(c, p) = c
      BY <1>1, <1>5
    <2>2. PICK q \in same : ~Better(p, q)
      BY <1>5
    <2>3. Combined(q) >= Combined(p)
      BY <1>3, <2>2 DEF Better
    <2>. QED
      BY <1>2, <1>3, <2>1, <2>3
  <1>. QED
    BY <1>4, <1>5

(* What canonicalize_and_dedup returns, whatever it is given.               *)
LEMMA DedupedBest ==
  ASSUME NEW pages \in Seq(Page)
  PROVE  /\ Deduped(pages) \in SUBSET Page /\ OneByUrl(Deduped(pages))
         /\ \A w \in Deduped(pages) : \E i \in 1 .. Len(pages) : w = Moved(pages[i])
         /\ \A i \in 1 .. Len(pages) : \E w \in Deduped(pages) :
              w.url = Canonical(pages[i].url) /\ Combined(w) >= Combined(pages[i])
  <1>. DEFINE m == Len(pages)
              Best(n, S) == /\ OneByUrl(S)
                            /\ \A w \in S : \E i \in 1 .. n : w = Moved(pages[i])
                            /\ \A i \in 1 .. n : \E w \in S :
                                 w.url = Canonical(pages[i].url) /\ Combined(w) >= Combined(pages[i])
  <1>1. PICK c \in KeptStates(pages) : Deduped(pages) = c[m]
    BY DedupedRuns
  <1>2. /\ m \in Nat /\ \A n \in 1 .. m : pages[n] \in Page
        /\ \A n \in 0 .. m : c[n] \in SUBSET Page
        /\ c[0] = {} /\ \A n \in 1 .. m : c[n] = Kept(c[n - 1], pages[n])
    BY DEF KeptStates
  <1>. HIDE DEF m
  <1>. DEFINE T == {n \in 0 .. m : Best(n, c[n])}
  <1>3. 0 \in T
    BY <1>2 DEF OneByUrl
  <1>4. ASSUME NEW n \in 1 .. m, n - 1 \in T
        PROVE  n \in T
    <2>1. n - 1 \in 0 .. m /\ n \in 0 .. m /\ Best(n - 1, c[n - 1])
      BY <1>2, <1>4
    <2>2. \A i \in 1 .. n : i \in 1 .. m /\ (i \in 1 .. n - 1 \/ i = n)
      BY <1>2
    <2>3. c[n - 1] \in SUBSET Page /\ pages[n] \in Page /\ c[n] = Kept(c[n - 1], pages[n])
      BY <1>2, <2>1
    <2>4. /\ OneByUrl(c[n])
          /\ c[n] \subseteq c[n - 1] \union {Moved(pages[n])}
          /\ \E w \in c[n] : w.url = Canonical(pages[n].url) /\ Combined(w) >= Combined(pages[n])
          /\ \A v \in c[n - 1] : \E w \in c[n] : w.url = v.url /\ Combined(w) >= Combined(v)
      <3>. DEFINE k == c[n - 1]
                  p == pages[n]
      <3>1. k \in SUBSET Page /\ OneByUrl(k) /\ p \in Page /\ c[n] = Kept(k, p)
        BY <2>1, <2>3
      <3>. HIDE DEF k, p
      <3>2. /\ OneByUrl(Kept(k, p))
            /\ Kept(k, p) \subseteq k \union {Moved(p)}
            /\ \E w \in Kept(k, p) : w.url = Canonical(p.url) /\ Combined(w) >= Combined(p)
            /\ \A v \in k : \E w \in Kept(k, p) : w.url = v.url /\ Combined(w) >= Combined(v)
        BY <3>1, KeptStep
      <3>. QED
        BY <3>1, <3>2 DEF k, p
    <2>5. ASSUME NEW w \in c[n]
          PROVE  \E i \in 1 .. n : w = Moved(pages[i])
      <3>1. 1 .. n - 1 \subseteq 1 .. n /\ n \in 1 .. n
        BY <1>2
      <3>. QED
        BY <2>1, <2>4, <3>1
    <2>6. ASSUME NEW i \in 1 .. n
          PROVE  \E w \in c[n] :
                   w.url = Canonical(pages[i].url) /\ Combined(w) >= Combined(pages[i])
      <3>1. CASE i = n
        BY <2>4, <3>1
      <3>2. CASE i # n
        <4>1. PICK v \in c[n - 1] :
                v.url = Canonical(pages[i].url) /\ Combined(v) >= Combined(pages[i])
          BY <2>1, <2>2, <3>2
        <4>2. PICK w \in c[n] : w.url = v.url /\ Combined(w) >= Combined(v)
          BY <2>4
        <4>3. Combined(w) \in Nat /\ Combined(v) \in Nat /\ Combined(pages[i]) \in Nat
          BY <1>2, <2>1, <2>2, <2>3, CombinedType
        <4>. QED
          BY <4>1, <4>2, <4>3
      <3>. QED
        BY <3>1, <3>2
    <2>7. Best(n, c[n])
      BY <2>4, <2>5, <2>6
    <2>. QED
      BY <2>1, <2>7
  <1>5. m \in T
    <2>. HIDE DEF T
    <2>1. \A n \in 0 .. m : n \in T
      BY <1>2, <1>3, <1>4, EveryPrefix
    <2>. QED
      BY <1>2, <2>1
  <1>6. Best(m, c[m]) /\ c[m] \in SUBSET Page
    BY <1>2, <1>5
  <1>. QED
    BY <1>1, <1>6 DEF m

-----------------------------------------------------------------------------
(* generate_llms_txt: the sections, page after page.                        *)

Filing == [order : Seq(Section), entries : UNION {[S -> SUBSET Page] : S \in SUBSET Section}]

FiledStates(pages) ==
  {f \in [0 .. Len(pages) -> Filing] :
     f[0] = NoSections /\ \A n \in 1 .. Len(pages) : f[n] = Filed(f[n - 1], pages[n])}

LEMMA SectionType == \A u : SectionOf(u) \in Section
  <1>. SUFFICES ASSUME NEW u
                PROVE  SectionOf(u) \in Section
    OBVIOUS
  <1>1. CASE u.host = "other"
    BY <1>1 DEF SectionOf, Section
  <1>2. CASE u.host # "other" /\ u.host = "own" /\ u.segment = "root"
    BY <1>2 DEF SectionOf, Section
  <1>3. CASE u.host # "other" /\ u.host = "own" /\ u.segment = "docs"
    BY <1>3 DEF SectionOf, Section
  <1>4. CASE /\ u.host # "other" /\ ~(u.host = "own" /\ u.segment = "root")
             /\ ~(u.host = "own" /\ u.segment = "docs")
    BY <1>4 DEF SectionOf, Section
  <1>. QED
    BY <1>1, <1>2, <1>3, <1>4

LEMMA NoSectionsType == NoSections \in Filing
  <1>. DEFINE none == [s \in {} |-> {}]
  <1>1. none \in [{} -> SUBSET Page]
    OBVIOUS
  <1>2. {} \in SUBSET Section /\ <<>> \in Seq(Section)
    OBVIOUS
  <1>3. none \in UNION {[S -> SUBSET Page] : S \in SUBSET Section}
    BY <1>1, <1>2
  <1>. QED
    BY <1>2, <1>3 DEF NoSections, Filing

LEMMA WithType ==
  ASSUME NEW f \in Filing, NEW s \in Section, NEW listed \in SUBSET Page
  PROVE  /\ With(f, s, listed) \in Filing
         /\ DOMAIN With(f, s, listed).entries = DOMAIN f.entries \union {s}
         /\ \A x \in DOMAIN f.entries \union {s} :
              With(f, s, listed).entries[x] = IF x = s THEN listed ELSE f.entries[x]
         /\ With(f, s, listed).order =
              IF s \in DOMAIN f.entries THEN f.order ELSE Append(f.order, s)
  <1>. DEFINE D == DOMAIN f.entries \union {s}
              e == [x \in D |-> IF x = s THEN listed ELSE f.entries[x]]
              o == IF s \in DOMAIN f.entries THEN f.order ELSE Append(f.order, s)
  <1>1. With(f, s, listed) = [order |-> o, entries |-> e]
    BY DEF With
  <1>2. f.order \in Seq(Section) /\ f.entries \in UNION {[S -> SUBSET Page] : S \in SUBSET Section}
    BY DEF Filing
  <1>3. PICK S \in SUBSET Section : f.entries \in [S -> SUBSET Page]
    BY <1>2
  <1>4. o \in Seq(Section)
    BY <1>2
  <1>5. D \in SUBSET Section /\ e \in [D -> SUBSET Page]
    BY <1>3
  <1>6. e \in UNION {[S1 -> SUBSET Page] : S1 \in SUBSET Section}
    <2>. HIDE DEF D, e
    <2>. QED
      BY <1>5
  <1>7. DOMAIN e = D /\ \A x \in D : e[x] = IF x = s THEN listed ELSE f.entries[x]
    OBVIOUS
  <1>. HIDE DEF e, o
  <1>8. [order |-> o, entries |-> e] \in Filing
    BY <1>4, <1>6 DEF Filing
  <1>. QED
    BY <1>1, <1>7, <1>8 DEF o

LEMMA EntriesType ==
  ASSUME NEW f \in Filing
  PROVE  /\ f.order \in Seq(Section) /\ DOMAIN f.entries \in SUBSET Section
         /\ \A s \in DOMAIN f.entries : f.entries[s] \in SUBSET Page
         /\ \A s : EntriesOf(f, s) \in SUBSET Page
  <1>1. f.order \in Seq(Section) /\ f.entries \in UNION {[S -> SUBSET Page] : S \in SUBSET Section}
    BY DEF Filing
  <1>2. PICK S \in SUBSET Section : f.entries \in [S -> SUBSET Page]
    BY <1>1
  <1>. QED
    BY <1>1, <1>2 DEF EntriesOf

LEMMA FiledType ==
  ASSUME NEW f \in Filing, NEW p \in Page
  PROVE  Filed(f, p) \in Filing
  <1>. DEFINE s == SectionOf(p.url)
              listed == EntriesOf(f, s) \union {p}
  <1>1. s \in Section /\ listed \in SUBSET Page
    BY SectionType, EntriesType
  <1>2. Filed(f, p) = IF HasSection(p.url) THEN With(f, s, listed) ELSE f
    BY DEF Filed
  <1>. HIDE DEF s, listed
  <1>3. With(f, s, listed) \in Filing
    BY <1>1, WithType
  <1>. QED
    BY <1>2, <1>3

LEMMA GroupedRuns ==
  ASSUME NEW pages \in Seq(Page)
  PROVE  \E f \in FiledStates(pages) : Grouped(pages) = f[Len(pages)]
  <1>. DEFINE m == Len(pages)
              Table(w) == [n \in 0 .. m |-> IF n = 0 THEN NoSections ELSE Filed(w[n - 1], pages[n])]
              f == CHOOSE w : w = Table(w)
              step == [s \in (1 .. m) \X Filing |-> Filed(s[2], pages[s[1]])]
  <1>1. m \in Nat /\ \A n \in 1 .. m : pages[n] \in Page
    OBVIOUS
  <1>2. step \in [(1 .. m) \X Filing -> Filing]
    BY <1>1, FiledType
  <1>3. \A n \in 1 .. m, x \in Filing : step[<<n, x>>] = Filed(x, pages[n])
    OBVIOUS
  <1>4. NoSections \in Filing
    BY NoSectionsType
  <1>. HIDE DEF m, step
  <1>5. PICK g : g \in LoopStates(Filing, NoSections, step, m)
    BY <1>1, <1>2, <1>4, LoopsRun
  <1>6. g \in [0 .. m -> Filing] /\ g[0] = NoSections
        /\ \A n \in 1 .. m : g[n] = Filed(g[n - 1], pages[n])
    <2>1. /\ g \in [0 .. m -> Filing] /\ g[0] = NoSections
          /\ \A n \in 1 .. m : g[n] = step[<<n, g[n - 1]>>]
      BY <1>5 DEF LoopStates
    <2>2. \A n \in 1 .. m : n - 1 \in 0 .. m
      BY <1>1
    <2>. QED
      BY <1>3, <2>1, <2>2
  <1>7. g = Table(g)
    <2>1. \A n \in 0 .. m : g[n] = Table(g)[n]
      BY <1>1, <1>6
    <2>. QED
      BY <1>6, <2>1
  <1>8. f = Table(f)
    BY <1>7
  <1>9. f[0] = NoSections /\ \A n \in 1 .. m : f[n] = Filed(f[n - 1], pages[n])
    <2>1. DOMAIN Table(f) = 0 .. m /\ Table(f)[0] = NoSections
      BY <1>1
    <2>2. \A n \in 1 .. m : Table(f)[n] = Filed(f[n - 1], pages[n])
      BY <1>1
    <2>. HIDE DEF Table, f
    <2>. QED
      BY <1>8, <2>1, <2>2
  <1>10. f \in [0 .. m -> Filing]
    <2>. DEFINE T == {n \in 0 .. m : f[n] \in Filing}
    <2>. HIDE DEF Table, f
    <2>1. 0 \in T
      BY <1>1, <1>4, <1>9
    <2>2. ASSUME NEW n \in 1 .. m, n - 1 \in T
          PROVE  n \in T
      BY <1>1, <1>9, <2>2, FiledType
    <2>. HIDE DEF T
    <2>3. \A n \in 0 .. m : n \in T
      BY <1>1, <2>1, <2>2, EveryPrefix
    <2>4. f = [n \in 0 .. m |-> f[n]]
      <3>1. f = Table(f) /\ DOMAIN Table(f) = 0 .. m
        BY <1>8 DEF Table
      <3>2. f = [n \in DOMAIN f |-> f[n]] /\ DOMAIN f = 0 .. m
        BY <3>1 DEF Table
      <3>. QED
        BY <3>2
    <2>. QED
      BY <2>3, <2>4 DEF T
  <1>11. Grouped(pages) = f[m]
    BY DEF Grouped, m
  <1>12. f \in FiledStates(pages)
    <2>. HIDE DEF f
    <2>. QED
      BY <1>9, <1>10 DEF FiledStates, m
  <1>. QED
    BY <1>11, <1>12 DEF m

(* The sections list the first n pages.                                     *)
Lists(f, pages, n) ==
  /\ Range(f.order) = DOMAIN f.entries /\ IsInjective(f.order)
  /\ \A s \in DOMAIN f.entries :
       /\ f.entries[s] # {}
       /\ \A p : p \in f.entries[s] <=>
            \E i \in 1 .. n : p = pages[i] /\ HasSection(p.url) /\ SectionOf(p.url) = s
  /\ \A i \in 1 .. n : HasSection(pages[i].url) => SectionOf(pages[i].url) \in DOMAIN f.entries

LEMMA AppendedOrder ==
  ASSUME NEW o \in Seq(Section), NEW s \in Section, s \notin Range(o), IsInjective(o)
  PROVE  Range(Append(o, s)) = Range(o) \union {s} /\ IsInjective(Append(o, s))
  <1>1. /\ Len(o) \in Nat /\ DOMAIN o = 1 .. Len(o)
        /\ DOMAIN Append(o, s) = 1 .. Len(o) + 1
        /\ Append(o, s)[Len(o) + 1] = s /\ \A i \in 1 .. Len(o) : Append(o, s)[i] = o[i]
    OBVIOUS
  <1>2. 1 .. Len(o) + 1 = (1 .. Len(o)) \union {Len(o) + 1} /\ Len(o) + 1 \notin 1 .. Len(o)
    BY <1>1
  <1>3. Range(o) = {o[i] : i \in 1 .. Len(o)} /\ \A i \in 1 .. Len(o) : o[i] \in Range(o)
    BY <1>1 DEF Range
  <1>4. Range(Append(o, s)) = {Append(o, s)[i] : i \in 1 .. Len(o) + 1}
    BY <1>1 DEF Range
  <1>5. Range(Append(o, s)) = Range(o) \union {s}
    BY <1>1, <1>2, <1>3, <1>4
  <1>6. IsInjective(Append(o, s))
    BY <1>1, <1>2, <1>3 DEF IsInjective
  <1>. QED
    BY <1>5, <1>6

LEMMA FiledLists ==
  ASSUME NEW pages \in Seq(Page), NEW n \in 1 .. Len(pages), NEW f \in Filing,
         Lists(f, pages, n - 1)
  PROVE  Lists(Filed(f, pages[n]), pages, n)
  <1>. DEFINE p == pages[n]
              s == SectionOf(p.url)
              listed == EntriesOf(f, s) \union {p}
              g == With(f, s, listed)
  <1>1. p \in Page /\ s \in Section /\ listed \in SUBSET Page /\ n \in Nat
    BY SectionType, EntriesType
  <1>2. \A i \in 1 .. n : i \in 1 .. n - 1 \/ i = n
    OBVIOUS
  <1>3. n \in 1 .. n /\ 1 .. n - 1 \subseteq 1 .. n
    OBVIOUS
  <1>4. Filed(f, pages[n]) = IF HasSection(p.url) THEN g ELSE f
    BY DEF Filed
  <1>5. /\ DOMAIN g.entries = DOMAIN f.entries \union {s}
        /\ \A x \in DOMAIN g.entries : g.entries[x] = IF x = s THEN listed ELSE f.entries[x]
        /\ g.order = IF s \in DOMAIN f.entries THEN f.order ELSE Append(f.order, s)
    <2>. HIDE DEF s, listed
    <2>. QED
      BY <1>1, WithType
  <1>6. f.order \in Seq(Section)
    BY EntriesType
  <1>7. CASE ~HasSection(p.url)
    <2>1. Filed(f, pages[n]) = f
      BY <1>4, <1>7
    <2>2. ASSUME NEW x \in DOMAIN f.entries, NEW q
          PROVE  q \in f.entries[x] <=>
                   \E i \in 1 .. n : q = pages[i] /\ HasSection(q.url) /\ SectionOf(q.url) = x
      BY <1>2, <1>3, <1>7 DEF Lists
    <2>3. \A i \in 1 .. n : HasSection(pages[i].url) => SectionOf(pages[i].url) \in DOMAIN f.entries
      BY <1>2, <1>7 DEF Lists
    <2>. QED
      BY <2>1, <2>2, <2>3 DEF Lists
  <1>8. CASE HasSection(p.url)
    <2>1. Filed(f, pages[n]) = g
      BY <1>4, <1>8
    <2>2. Range(g.order) = DOMAIN g.entries /\ IsInjective(g.order)
      <3>1. CASE s \in DOMAIN f.entries
        <4>1. DOMAIN g.entries = DOMAIN f.entries /\ g.order = f.order
          <5>. HIDE DEF g, s
          <5>. QED
            BY <1>5, <3>1
        <4>2. Range(f.order) = DOMAIN f.entries /\ IsInjective(f.order)
          BY DEF Lists
        <4>. HIDE DEF g
        <4>. QED
          BY <4>1, <4>2
      <3>2. CASE s \notin DOMAIN f.entries
        <4>1. s \notin Range(f.order) /\ IsInjective(f.order)
          BY <3>2 DEF Lists
        <4>2. Range(Append(f.order, s)) = Range(f.order) \union {s} /\ IsInjective(Append(f.order, s))
          <5>. HIDE DEF s
          <5>. QED
            BY <1>1, <1>6, <4>1, AppendedOrder
        <4>. QED
          BY <1>5, <3>2, <4>2 DEF Lists
      <3>. QED
        BY <3>1, <3>2
    <2>3. ASSUME NEW x \in DOMAIN g.entries
          PROVE  /\ g.entries[x] # {}
                 /\ \A q : q \in g.entries[x] <=>
                      \E i \in 1 .. n : q = pages[i] /\ HasSection(q.url) /\ SectionOf(q.url) = x
      <3>1. CASE x # s
        <4>1. x \in DOMAIN f.entries /\ g.entries[x] = f.entries[x]
          BY <1>5, <2>3, <3>1
        <4>2. f.entries[x] # {}
          BY <4>1 DEF Lists
        <4>3. ASSUME NEW q
              PROVE  q \in f.entries[x] <=>
                       \E i \in 1 .. n : q = pages[i] /\ HasSection(q.url) /\ SectionOf(q.url) = x
          BY <1>2, <1>3, <3>1, <4>1 DEF Lists
        <4>. QED
          BY <4>1, <4>2, <4>3
      <3>2. CASE x = s
        <4>1. g.entries[s] = listed
          BY <1>5, <3>2
        <4>2. ASSUME NEW q
              PROVE  q \in EntriesOf(f, s) <=>
                       \E i \in 1 .. n - 1 : q = pages[i] /\ HasSection(q.url) /\ SectionOf(q.url) = s
          <5>1. CASE s \in DOMAIN f.entries
            BY <5>1 DEF EntriesOf, Lists
          <5>2. CASE s \notin DOMAIN f.entries
            BY <5>2 DEF EntriesOf, Lists
          <5>. QED
            BY <5>1, <5>2
        <4>3. ASSUME NEW q
              PROVE  q \in listed <=>
                       \E i \in 1 .. n : q = pages[i] /\ HasSection(q.url) /\ SectionOf(q.url) = s
          BY <1>2, <1>3, <1>8, <4>2
        <4>4. p \in listed
          OBVIOUS
        <4>. QED
          BY <3>2, <4>1, <4>3, <4>4
      <3>. QED
        BY <3>1, <3>2
    <2>4. ASSUME NEW i \in 1 .. n, HasSection(pages[i].url)
          PROVE  SectionOf(pages[i].url) \in DOMAIN g.entries
      BY <1>2, <1>5, <2>4 DEF Lists
    <2>. HIDE DEF g
    <2>. QED
      BY <2>1, <2>2, <2>3, <2>4 DEF Lists
  <1>. QED
    BY <1>7, <1>8

(* What generate_llms_txt lists, in whatever order it read the pages.       *)
LEMMA GroupedLists ==
  ASSUME NEW pages \in Seq(Page)
  PROVE  Lists(Grouped(pages), pages, Len(pages))
  <1>. DEFINE m == Len(pages)
  <1>1. PICK f \in FiledStates(pages) : Grouped(pages) = f[m]
    BY GroupedRuns
  <1>2. /\ m \in Nat /\ \A n \in 0 .. m : f[n] \in Filing
        /\ f[0] = NoSections /\ \A n \in 1 .. m : f[n] = Filed(f[n - 1], pages[n])
    BY DEF FiledStates
  <1>. DEFINE T == {n \in 0 .. m : Lists(f[n], pages, n)}
  <1>3. 0 \in T
    <2>1. Lists(NoSections, pages, 0)
      BY DEF NoSections, Lists, Range, IsInjective
    <2>. QED
      BY <1>2, <2>1
  <1>4. ASSUME NEW n \in 1 .. m, n - 1 \in T
        PROVE  n \in T
    <2>1. n - 1 \in 0 .. m /\ n \in 0 .. m /\ Lists(f[n - 1], pages, n - 1)
      BY <1>2, <1>4
    <2>. DEFINE k == f[n - 1]
    <2>2. k \in Filing /\ f[n] = Filed(k, pages[n]) /\ Lists(k, pages, n - 1)
      BY <1>2, <2>1
    <2>. HIDE DEF k
    <2>3. Lists(Filed(k, pages[n]), pages, n)
      BY <2>2, FiledLists
    <2>. QED
      BY <2>1, <2>2, <2>3
  <1>5. m \in T
    <2>1. m \in Nat /\ \A n \in 1 .. m : n - 1 \in T => n \in T
      BY <1>2, <1>4
    <2>. HIDE DEF T, m
    <2>2. \A n \in 0 .. m : n \in T
      BY <1>3, <2>1, EveryPrefix
    <2>. QED
      BY <2>1, <2>2
  <1>. QED
    BY <1>1, <1>5

-----------------------------------------------------------------------------
(* The rows of the run.                                                     *)

(* A read brings every row once.                                            *)
LEMMA AllRead ==
  ASSUME NEW S, IsFiniteSet(S), NEW read \in SetToSeqs(S)
  PROVE  /\ read \in Seq(S) /\ Len(read) = Cardinality(S)
         /\ \A p \in S : \E i \in 1 .. Len(read) : read[i] = p
  <1>. DEFINE n == Cardinality(S)
  <1>1. n \in Nat
    BY FS_CardinalityType
  <1>2. read \in [1 .. n -> S] /\ \A i, j \in 1 .. n : i # j => read[i] # read[j]
    BY DEF SetToSeqs
  <1>3. read \in Seq(S) /\ Len(read) = n
    BY <1>1, <1>2
  <1>4. Cardinality(1 .. n) = n
    BY <1>1, FS_Interval
  <1>5. read \in Injection(1 .. n, S)
    BY <1>2 DEF Injection, IsInjective
  <1>6. read \in Surjection(1 .. n, S)
    BY <1>4, <1>5, FS_Injection
  <1>. QED
    BY <1>3, <1>6 DEF Surjection

LEMMA PagesFinite == IsFiniteSet(Page)
  <1>1. \A a, b : IsFiniteSet({a, b})
    <2>. SUFFICES ASSUME NEW a, NEW b PROVE IsFiniteSet({a, b})
      OBVIOUS
    <2>1. {a, b} = {a} \union {b}
      OBVIOUS
    <2>2. IsFiniteSet({a} \union {b})
      BY FS_Singleton, FS_AddElement
    <2>. QED
      BY <2>1, <2>2, Zenon
  <1>2. \A S, T : IsFiniteSet(S) /\ IsFiniteSet(T) => IsFiniteSet(S \union T)
    BY FS_Union
  <1>3. \A S, T : IsFiniteSet(S) /\ IsFiniteSet(T) => IsFiniteSet(S \X T)
    BY FS_Product
  <1>4. \A S, T, f : IsFiniteSet(S) /\ f \in Surjection(S, T) => IsFiniteSet(T)
    BY FS_Surjection
  <1>5. IsFiniteSet(Segment)
    <2>1. Segment = {"root", "docs"} \union {"blog", "assets"}
      BY DEF Segment
    <2>. QED
      BY <1>1, <1>2, <2>1
  <1>6. IsFiniteSet({"canonical", "slash", "query"})
    <2>1. {"canonical", "slash", "query"} = {"canonical", "slash"} \union {"slash", "query"}
      OBVIOUS
    <2>2. IsFiniteSet({"canonical", "slash"} \union {"slash", "query"})
      BY <1>1, <1>2
    <2>. QED
      BY <2>1, <2>2, Zenon
  <1>7. IsFiniteSet(Confidence)
    <2>1. Confidence = {0, 100} \union ({80, 75} \union {60, 60})
      BY DEF Confidence, ConfidenceFrom, Range
    <2>2. IsFiniteSet({0, 100}) /\ IsFiniteSet({80, 75}) /\ IsFiniteSet({60, 60})
      BY <1>1, Zenon
    <2>3. IsFiniteSet({0, 100} \union ({80, 75} \union {60, 60}))
      BY <1>2, <2>2, Zenon
    <2>. QED
      BY <2>1, <2>3, Zenon
  <1>8. IsFiniteSet(Address)
    <2>. DEFINE S == ({"http", "https"} \X {"own", "other"}) \X
                       (Segment \X {"canonical", "slash", "query"})
                f == [t \in S |-> [scheme |-> t[1][1], host |-> t[1][2],
                                   segment |-> t[2][1], written |-> t[2][2]]]
    <2>1. IsFiniteSet(S)
      BY <1>1, <1>3, <1>5, <1>6
    <2>2. f \in [S -> Address]
      BY DEF Address
    <2>3. ASSUME NEW u \in Address
          PROVE  \E t \in S : f[t] = u
      <3>. DEFINE t == <<<<u.scheme, u.host>>, <<u.segment, u.written>>>>
      <3>1. t \in S
        BY DEF Address
      <3>2. f[t] = [scheme |-> u.scheme, host |-> u.host,
                    segment |-> u.segment, written |-> u.written]
        BY <3>1
      <3>3. f[t] = u
        BY <3>2 DEF Address
      <3>. QED
        BY <3>1, <3>3
    <2>4. f \in Surjection(S, Address)
      <3>. HIDE DEF f, S
      <3>. QED
        BY <2>2, <2>3 DEF Surjection
    <2>. HIDE DEF f, S
    <2>. QED
      BY <1>4, <2>1, <2>4
  <1>9. IsFiniteSet(Page)
    <2>. DEFINE S == Address \X (Confidence \X Confidence)
                f == [t \in S |-> [url |-> t[1], title |-> t[2][1], description |-> t[2][2]]]
    <2>1. IsFiniteSet(S)
      BY <1>3, <1>7, <1>8
    <2>2. f \in [S -> Page]
      BY DEF Page
    <2>3. ASSUME NEW p \in Page
          PROVE  \E t \in S : f[t] = p
      <3>. DEFINE t == <<p.url, <<p.title, p.description>>>>
      <3>1. t \in S
        BY DEF Page
      <3>2. f[t] = [url |-> p.url, title |-> p.title, description |-> p.description]
        BY <3>1
      <3>3. f[t] = p
        BY <3>2 DEF Page
      <3>. QED
        BY <3>1, <3>3
    <2>4. f \in Surjection(S, Page)
      <3>. HIDE DEF f, S
      <3>. QED
        BY <2>2, <2>3 DEF Surjection
    <2>. HIDE DEF f, S
    <2>. QED
      BY <1>4, <2>1, <2>4
  <1>. QED
    BY <1>9

LEMMA CascadeType ==
  ASSUME NEW found \in SUBSET Range(Source)
  PROVE  Cascade(found) \in Confidence
  <1>1. DOMAIN Source = 1 .. 4 /\ \A i \in 1 .. 4 : Source[i] \in DOMAIN ConfidenceFrom
    BY DEF Source, ConfidenceFrom
  <1>2. CASE found = {}
    BY <1>2 DEF Cascade, Confidence
  <1>3. CASE found # {}
    <2>. DEFINE First(i) == Source[i] \in found /\ \A j \in 1 .. i - 1 : Source[j] \notin found
    <2>1. \E i \in DOMAIN Source : First(i)
      <3>. DEFINE T == {i \in 1 .. 4 : Source[i] \in found}
      <3>1. T # {}
        BY <1>1, <1>3 DEF Range
      <3>2. T \in SUBSET Nat
        OBVIOUS
      <3>3. PICK i \in T : \A k \in T : i <= k
        <4>. HIDE DEF T
        <4>. QED
          BY <3>1, <3>2, LeastNumber
      <3>4. i \in 1 .. 4 /\ \A j \in 1 .. i - 1 : j \in 1 .. 4 /\ ~(i <= j)
        BY <3>3
      <3>. QED
        BY <1>1, <3>3, <3>4
    <2>. DEFINE k == CHOOSE i \in DOMAIN Source : First(i)
    <2>2. k \in DOMAIN Source
      BY <2>1
    <2>3. Cascade(found) = ConfidenceFrom[Source[k]]
      BY <1>3 DEF Cascade
    <2>. HIDE DEF k
    <2>. QED
      BY <1>1, <2>2, <2>3 DEF Confidence, Range
  <1>. QED
    BY <1>2, <1>3

LEMMA UpsertedType ==
  ASSUME NEW table \in SUBSET Page, NEW pages \in SUBSET Page,
         OneByUrl(table), OneByUrl(pages)
  PROVE  Upserted(table, pages) \in SUBSET Page /\ OneByUrl(Upserted(table, pages))
  BY DEF Upserted, OneByUrl

(* extracted_page holds one row of each url.                                *)
RowsOK == /\ site \in SUBSET Address
          /\ rows \in SUBSET Page /\ OneByUrl(rows)

LEMMA RowsRead ==
  ASSUME RowsOK, NEW read \in SetToSeqs(rows)
  PROVE  /\ IsFiniteSet(rows) /\ read \in Seq(Page) /\ Len(read) = Cardinality(rows)
         /\ Len(read) \in Nat /\ \A i \in 1 .. Len(read) : read[i] \in rows
         /\ \A p \in rows : \E i \in 1 .. Len(read) : read[i] = p
  <1>1. IsFiniteSet(rows)
    BY PagesFinite, FS_Subset DEF RowsOK
  <1>2. read \in Seq(rows) /\ Len(read) = Cardinality(rows)
        /\ \A p \in rows : \E i \in 1 .. Len(read) : read[i] = p
    BY <1>1, AllRead
  <1>3. read \in Seq(Page)
    BY <1>2 DEF RowsOK
  <1>. QED
    BY <1>1, <1>2, <1>3

LEMMA ExtractedType ==
  ASSUME NEW u \in Address, NEW h \in PageHead
  PROVE  Extracted(u, h) \in Page /\ Extracted(u, h).url = u
  <1>1. h.title \in SUBSET Range(Source) /\ h.description \in SUBSET Range(Source)
    BY HeadAssumption
  <1>2. Cascade(h.title) \in Confidence /\ Cascade(h.description) \in Confidence
    BY <1>1, CascadeType
  <1>. QED
    BY <1>2 DEF Extracted, Page

LEMMA RowsStep ==
  ASSUME RowsOK, [Next]_vars
  PROVE  RowsOK'
  <1>1. CASE Extraction
    <2>0. PICK answering \in SUBSET site : \E head \in [answering -> PageHead] :
            rows' = Upserted(rows, {Extracted(u, head[u]) : u \in answering})
      BY <1>1 DEF Extraction
    <2>1. PICK head \in [answering -> PageHead] :
            rows' = Upserted(rows, {Extracted(u, head[u]) : u \in answering})
      BY <2>0
    <2>. DEFINE pages == {Extracted(u, head[u]) : u \in answering}
    <2>2. \A u \in answering : Extracted(u, head[u]) \in Page /\ Extracted(u, head[u]).url = u
      BY ExtractedType DEF RowsOK
    <2>3. pages \in SUBSET Page /\ OneByUrl(pages)
      BY <2>2 DEF OneByUrl
    <2>4. site' = site
      BY <1>1 DEF Extraction
    <2>. HIDE DEF pages
    <2>5. Upserted(rows, pages) \in SUBSET Page /\ OneByUrl(Upserted(rows, pages))
      BY <2>3, UpsertedType DEF RowsOK
    <2>. QED
      BY <2>1, <2>4, <2>5 DEF RowsOK, pages
  <1>2. CASE Canonicalization
    <2>1. PICK read \in SetToSeqs(rows) : rows' = Upserted(rows, Deduped(read))
      BY <1>2 DEF Canonicalization
    <2>2. read \in Seq(Page)
      BY RowsRead
    <2>3. Deduped(read) \in SUBSET Page /\ OneByUrl(Deduped(read))
      BY <2>2, DedupedBest
    <2>4. Upserted(rows, Deduped(read)) \in SUBSET Page /\ OneByUrl(Upserted(rows, Deduped(read)))
      BY <2>3, UpsertedType DEF RowsOK
    <2>5. site' = site
      BY <1>2 DEF Canonicalization
    <2>. QED
      BY <2>1, <2>4, <2>5 DEF RowsOK
  <1>3. CASE ScorePages \/ Generation \/ Again \/ UNCHANGED vars
    BY <1>3 DEF ScorePages, Generation, Again, vars, RowsOK
  <1>. QED
    BY <1>1, <1>2, <1>3 DEF Next

LEMMA RowsHold == Spec => []RowsOK
  <1>1. Init => RowsOK
    BY SiteAssumption DEF Init, RowsOK, OneByUrl
  <1>2. RowsOK /\ [Next]_vars => RowsOK'
    BY RowsStep
  <1>. QED
    BY <1>1, <1>2, PTL DEF Spec

-----------------------------------------------------------------------------
(* Canonicalization.                                                        *)

LEMMA BestRow ==
  ASSUME RowsOK, NEW read \in SetToSeqs(rows), NEW p0 \in rows
  PROVE  LET table == Upserted(rows, Deduped(read))
             u == Canonical(p0.url)
         IN  /\ Cardinality(At(table, u)) = 1
             /\ \A w \in At(table, u) :
                  /\ \E p \in Alike(rows, u) : w = [p EXCEPT !.url = u]
                  /\ \A p \in Alike(rows, u) : Combined(w) >= Combined(p)
  <1>. DEFINE D == Deduped(read)
              table == Upserted(rows, D)
              u == Canonical(p0.url)
  <1>1. /\ read \in Seq(Page) /\ \A i \in 1 .. Len(read) : read[i] \in rows
        /\ \A p \in rows : \E i \in 1 .. Len(read) : read[i] = p
    BY RowsRead
  <1>2. /\ D \in SUBSET Page /\ OneByUrl(D)
        /\ \A w \in D : \E i \in 1 .. Len(read) : w = Moved(read[i])
        /\ \A i \in 1 .. Len(read) : \E w \in D :
             w.url = Canonical(read[i].url) /\ Combined(w) >= Combined(read[i])
    BY <1>1, DedupedBest
  <1>3. /\ \A w \in D : \E p \in rows : w = Moved(p)
        /\ \A p \in rows : \E w \in D : w.url = Canonical(p.url) /\ Combined(w) >= Combined(p)
    BY <1>1, <1>2
  <1>. HIDE DEF D
  <1>4. PICK w \in D : w.url = u
    BY <1>3
  <1>. HIDE DEF u
  <1>5. At(table, u) = {w}
    <2>1. ASSUME NEW q \in table, q.url = u
          PROVE  q = w
      <3>1. q \in D
        BY <1>4, <2>1 DEF Upserted
      <3>. QED
        BY <1>2, <1>4, <2>1, <3>1 DEF OneByUrl
    <2>2. w \in table
      BY <1>4 DEF Upserted
    <2>. HIDE DEF table
    <2>. QED
      BY <1>4, <2>1, <2>2 DEF At
  <1>6. Cardinality(At(table, u)) = 1
    BY <1>5, FS_Singleton
  <1>7. \E p \in Alike(rows, u) : w = [p EXCEPT !.url = u]
    <2>1. PICK p \in rows : w = Moved(p)
      BY <1>3, <1>4
    <2>2. Canonical(p.url) = u
      BY <1>4, <2>1, MovedType DEF RowsOK
    <2>. QED
      BY <2>1, <2>2 DEF Alike, Moved
  <1>8. ASSUME NEW p \in Alike(rows, u)
        PROVE  Combined(w) >= Combined(p)
    <2>1. p \in rows /\ Canonical(p.url) = u
      BY DEF Alike
    <2>2. PICK v \in D : v.url = Canonical(p.url) /\ Combined(v) >= Combined(p)
      BY <1>3, <2>1
    <2>3. v = w
      BY <1>2, <1>4, <2>1, <2>2 DEF OneByUrl
    <2>. QED
      BY <2>2, <2>3
  <1>9. \A v \in At(table, u) : v = w
    BY <1>5
  <1>. HIDE DEF table
  <1>. QED
    BY <1>6, <1>7, <1>8, <1>9 DEF table, D, u

(* Canonicalization leaves one row of each canonical address, the best of   *)
(* the pages written like it: for any heads, any order of the rows and      *)
(* whatever earlier executions left in the table.                           *)
THEOREM CanonicalRowIsBestHolds == Spec => CanonicalRowIsBest
  <1>. DEFINE A == pc = "canonicalization" /\ pc' = "scoring" =>
                     \A u \in {Canonical(p.url) : p \in rows} :
                       /\ Cardinality(At(rows', u)) = 1
                       /\ \A w \in At(rows', u) :
                            /\ \E p \in Alike(rows, u) : w = [p EXCEPT !.url = u]
                            /\ \A p \in Alike(rows, u) : Combined(w) >= Combined(p)
  <1>1. RowsOK /\ [Next]_vars => [A]_vars
    <2>. SUFFICES ASSUME RowsOK, Next, pc = "canonicalization", pc' = "scoring", NEW p0 \in rows
                  PROVE  LET u == Canonical(p0.url)
                         IN  /\ Cardinality(At(rows', u)) = 1
                             /\ \A w \in At(rows', u) :
                                  /\ \E p \in Alike(rows, u) : w = [p EXCEPT !.url = u]
                                  /\ \A p \in Alike(rows, u) : Combined(w) >= Combined(p)
      OBVIOUS
    <2>1. Canonicalization
      BY DEF Next, Extraction, ScorePages, Generation, Again
    <2>2. PICK read \in SetToSeqs(rows) : rows' = Upserted(rows, Deduped(read))
      BY <2>1 DEF Canonicalization
    <2>. QED
      BY <2>2, BestRow
  <1>. QED
    BY <1>1, RowsHold, PTL DEF Spec, CanonicalRowIsBest

-----------------------------------------------------------------------------
(* The document.                                                            *)

(* The llms.txt lists every page that has a section, for any pages in any   *)
(* order.                                                                   *)
THEOREM DocumentListsEveryPageHolds == Spec => []DocumentListsEveryPage
  <1>1. Init => DocumentListsEveryPage
    BY DEF Init, DocumentListsEveryPage
  <1>2. RowsOK /\ DocumentListsEveryPage /\ [Next]_vars => DocumentListsEveryPage'
    <2>. SUFFICES ASSUME RowsOK, DocumentListsEveryPage, [Next]_vars
                  PROVE  DocumentListsEveryPage'
      OBVIOUS
    <2>1. CASE Generation
      <3>1. PICK read \in SetToSeqs(rows) : document' = Document(read)
        BY <2>1 DEF Generation
      <3>2. /\ read \in Seq(Page) /\ \A i \in 1 .. Len(read) : read[i] \in rows
            /\ \A p \in rows : \E i \in 1 .. Len(read) : read[i] = p
        BY RowsRead
      <3>. DEFINE f == Grouped(read)
      <3>3. Lists(f, read, Len(read))
        BY <3>2, GroupedLists
      <3>4. document'.order = f.order /\ document'.entries = f.entries /\ rows' = rows
        BY <2>1, <3>1 DEF Generation, Document
      <3>. HIDE DEF f
      <3>5. Range(f.order) = DOMAIN f.entries /\ IsInjective(f.order)
        BY <3>3 DEF Lists
      <3>6. ASSUME NEW p \in rows, HasSection(p.url)
            PROVE  /\ SectionOf(p.url) \in DOMAIN f.entries
                   /\ \A s \in DOMAIN f.entries : p \in f.entries[s] <=> s = SectionOf(p.url)
        BY <3>2, <3>3, <3>6 DEF Lists
      <3>7. ASSUME NEW s \in DOMAIN f.entries
            PROVE  f.entries[s] # {} /\ f.entries[s] \subseteq rows
        BY <3>2, <3>3 DEF Lists
      <3>. QED
        BY <3>4, <3>5, <3>6, <3>7 DEF DocumentListsEveryPage
    <2>2. CASE Extraction \/ Canonicalization \/ ScorePages \/ Again
      BY <2>2 DEF Extraction, Canonicalization, ScorePages, Again, DocumentListsEveryPage
    <2>3. CASE UNCHANGED vars
      BY <2>3 DEF vars, DocumentListsEveryPage
    <2>. QED
      BY <2>1, <2>2, <2>3 DEF Next
  <1>. QED
    BY <1>1, <1>2, RowsHold, PTL DEF Spec

(* From scoring to the document nothing else touches the rows.              *)
ScoresOK == pc \in {"generation", "done"} => scores = Scores(Counted(rows))

(* The score is that of the pages the document was made of, for any pages.  *)
THEOREM ScoreMatchesDocumentHolds == Spec => []ScoreMatchesDocument
  <1>. DEFINE I == ScoresOK /\ ScoreMatchesDocument
  <1>1. Init => I
    BY DEF Init, ScoresOK, ScoreMatchesDocument
  <1>2. RowsOK /\ I /\ [Next]_vars => I'
    <2>. SUFFICES ASSUME RowsOK, I, [Next]_vars
                  PROVE  I'
      OBVIOUS
    <2>1. CASE Generation
      <3>1. PICK read \in SetToSeqs(rows) : document' = Document(read)
        BY <2>1 DEF Generation
      <3>2. Len(read) = Cardinality(rows)
        BY RowsRead
      <3>3. document'.pages_crawled = Cardinality(rows)
        BY <3>1, <3>2 DEF Document
      <3>. QED
        BY <2>1, <3>3 DEF Generation, ScoresOK, ScoreMatchesDocument
    <2>2. CASE ScorePages
      BY <2>2 DEF ScorePages, ScoresOK, ScoreMatchesDocument
    <2>3. CASE Extraction \/ Canonicalization \/ Again
      BY <2>3 DEF Extraction, Canonicalization, Again, ScoresOK, ScoreMatchesDocument
    <2>4. CASE UNCHANGED vars
      BY <2>4 DEF vars, ScoresOK, ScoreMatchesDocument
    <2>. QED
      BY <2>1, <2>2, <2>3, <2>4 DEF Next
  <1>3. I => ScoreMatchesDocument
    OBVIOUS
  <1>. HIDE DEF I
  <1>. QED
    BY <1>1, <1>2, <1>3, RowsHold, PTL DEF Spec

-----------------------------------------------------------------------------
(* The score.                                                               *)

(* SumFunction adds the values of a set of arguments one by one.            *)
Pick(s) == CHOOSE x \in s : TRUE
Plus(f, g, s) == IF s = {} THEN 0 ELSE f[Pick(s)] + g[s \ {Pick(s)}]
UpTo(S, n) == {s \in SUBSET S : Cardinality(s) <= n}
Sums(f, g, n) == /\ g \in [UpTo(DOMAIN f, n) -> Int]
                 /\ \A s \in UpTo(DOMAIN f, n) : g[s] = Plus(f, g, s)

LEMMA OneLess ==
  ASSUME NEW S, IsFiniteSet(S), NEW n \in Nat, NEW s \in UpTo(S, n), s # {}
  PROVE  Pick(s) \in S /\ n # 0 /\ s \ {Pick(s)} \in UpTo(S, n - 1)
  <1>1. Pick(s) \in s
    BY DEF Pick
  <1>2. s \in SUBSET S /\ Cardinality(s) <= n
    BY DEF UpTo
  <1>3. IsFiniteSet(s) /\ Cardinality(s) \in Nat
    BY <1>2, FS_Subset, FS_CardinalityType
  <1>4. IsFiniteSet(s \ {Pick(s)}) /\ Cardinality(s \ {Pick(s)}) = Cardinality(s) - 1
    BY <1>1, <1>3, FS_RemoveElement
  <1>5. Cardinality(s \ {Pick(s)}) \in Nat
    BY <1>4, FS_CardinalityType
  <1>. QED
    BY <1>1, <1>2, <1>3, <1>4, <1>5 DEF UpTo

LEMMA SumsExist ==
  ASSUME NEW S, IsFiniteSet(S), NEW f \in [S -> Int], NEW m \in Nat
  PROVE  \E g : Sums(f, g, m)
  <1>. DEFINE T == {n \in 0 .. m : \E g : Sums(f, g, n)}
  <1>0. DOMAIN f = S
    OBVIOUS
  <1>1. 0 \in T
    <2>. DEFINE g == [s \in UpTo(S, 0) |-> 0]
    <2>1. \A s \in UpTo(S, 0) : s = {}
      BY OneLess
    <2>2. g \in [UpTo(S, 0) -> Int] /\ \A s \in UpTo(S, 0) : g[s] = 0
      OBVIOUS
    <2>. HIDE DEF g
    <2>3. Sums(f, g, 0)
      BY <1>0, <2>1, <2>2 DEF Sums, Plus
    <2>. QED
      BY <2>3
  <1>2. ASSUME NEW n \in 1 .. m, n - 1 \in T
        PROVE  n \in T
    <2>1. n \in Nat /\ n - 1 \in Nat
      OBVIOUS
    <2>2. PICK g : Sums(f, g, n - 1)
      BY <1>2
    <2>3. /\ g \in [UpTo(S, n - 1) -> Int]
          /\ \A s \in UpTo(S, n - 1) : g[s] = Plus(f, g, s)
      BY <1>0, <2>2 DEF Sums
    <2>. DEFINE h == [s \in UpTo(S, n) |-> Plus(f, g, s)]
    <2>4. ASSUME NEW s \in UpTo(S, n), s # {}
          PROVE  /\ Pick(s) \in S /\ s \ {Pick(s)} \in UpTo(S, n - 1)
                 /\ f[Pick(s)] + g[s \ {Pick(s)}] \in Int
      BY <2>1, <2>3, <2>4, OneLess
    <2>5. \A s \in UpTo(S, n) : Plus(f, g, s) \in Int
      BY <2>4 DEF Plus
    <2>6. h \in [UpTo(S, n) -> Int] /\ \A s \in UpTo(S, n) : h[s] = Plus(f, g, s)
      BY <2>5
    <2>. HIDE DEF h
    <2>7. UpTo(S, n - 1) \subseteq UpTo(S, n)
      <3>1. \A s \in SUBSET S : Cardinality(s) \in Nat
        BY FS_Subset, FS_CardinalityType
      <3>. QED
        BY <2>1, <3>1 DEF UpTo
    <2>8. ASSUME NEW s \in UpTo(S, n)
          PROVE  h[s] = Plus(f, h, s)
      <3>1. CASE s = {}
        BY <2>6, <3>1 DEF Plus
      <3>2. CASE s # {}
        <4>. DEFINE t == s \ {Pick(s)}
        <4>1. t \in UpTo(S, n - 1)
          BY <2>4, <3>2
        <4>2. h[t] = g[t]
          <5>. HIDE DEF t
          <5>. QED
            BY <2>3, <2>6, <2>7, <4>1
        <4>. QED
          BY <2>6, <3>2, <4>2 DEF Plus
      <3>. QED
        BY <3>1, <3>2
    <2>9. Sums(f, h, n)
      BY <1>0, <2>6, <2>8 DEF Sums
    <2>. QED
      BY <2>9
  <1>3. m \in T
    <2>1. \A n \in 1 .. m : n - 1 \in T => n \in T
      BY <1>2
    <2>. HIDE DEF T
    <2>2. \A n \in 0 .. m : n \in T
      BY <1>1, <2>1, EveryPrefix
    <2>. QED
      BY <2>2
  <1>. QED
    BY <1>3

LEMMA SumType ==
  ASSUME NEW S, IsFiniteSet(S), NEW f \in [S -> 0 .. 200]
  PROVE  SumFunction(f) \in 0 .. 200 * Cardinality(S)
  <1>. DEFINE m == Cardinality(S)
              Table(w) == [s \in SUBSET S |-> IF s = {} THEN 0 ELSE
                             f[CHOOSE x \in s : TRUE] + w[s \ {CHOOSE x \in s : TRUE}]]
              iter == CHOOSE w : w = Table(w)
  <1>1. SumFunction(f) = iter[S]
    <2>1. DOMAIN f = S
      OBVIOUS
    <2>. QED
      BY <2>1 DEF SumFunction, SumFunctionOnSet, FoldFunctionOnSet, MapThenFoldSet
  <1>2. m \in Nat
    BY FS_CardinalityType
  <1>3. UpTo(S, m) = SUBSET S
    <2>1. \A s \in SUBSET S : Cardinality(s) <= m
      BY FS_Subset
    <2>. HIDE DEF m
    <2>. QED
      BY <2>1 DEF UpTo
  <1>. HIDE DEF m
  <1>4. \E w : w = Table(w)
    <2>0. f \in [S -> Int]
      OBVIOUS
    <2>1. PICK g : Sums(f, g, m)
      BY <1>2, <2>0, SumsExist
    <2>2. g \in [SUBSET S -> Int] /\ \A s \in SUBSET S : g[s] = Plus(f, g, s)
      <3>1. DOMAIN f = S
        OBVIOUS
      <3>. QED
        BY <1>3, <2>1, <3>1 DEF Sums
    <2>3. \A s \in SUBSET S : g[s] = Table(g)[s]
      BY <2>2 DEF Plus, Pick
    <2>4. g = Table(g)
      <3>1. g = [s \in SUBSET S |-> g[s]]
        BY <2>2
      <3>2. Table(g) = [s \in SUBSET S |-> Table(g)[s]]
        OBVIOUS
      <3>. HIDE DEF Table
      <3>. QED
        BY <2>3, <3>1, <3>2
    <2>. HIDE DEF Table
    <2>. QED
      BY <2>4
  <1>5. iter = Table(iter)
    BY <1>4
  <1>6. \A s \in SUBSET S : iter[s] = Plus(f, iter, s)
    <2>1. \A s \in SUBSET S : Table(iter)[s] = Plus(f, iter, s)
      BY DEF Plus, Pick
    <2>. HIDE DEF Table, iter
    <2>. QED
      BY <1>5, <2>1
  <1>. HIDE DEF iter
  <1>. DEFINE T == {n \in 0 .. m : \A s \in UpTo(S, n) : iter[s] \in 0 .. 200 * n}
  <1>7. 0 \in T
    <2>1. \A s \in UpTo(S, 0) : s = {}
      BY OneLess
    <2>2. iter[{}] = 0
      BY <1>6 DEF Plus
    <2>3. 0 \in 0 .. 200 * 0 /\ 0 \in 0 .. m
      BY <1>2
    <2>. QED
      BY <2>1, <2>2, <2>3
  <1>8. ASSUME NEW n \in 1 .. m, n - 1 \in T
        PROVE  n \in T
    <2>1. n \in 0 .. m /\ n \in Nat
      BY <1>2
    <2>2. ASSUME NEW s \in UpTo(S, n)
          PROVE  iter[s] \in 0 .. 200 * n
      <3>1. iter[s] = Plus(f, iter, s)
        BY <1>6 DEF UpTo
      <3>2. CASE s = {}
        BY <2>1, <3>1, <3>2 DEF Plus
      <3>3. CASE s # {}
        <4>1. Pick(s) \in S /\ s \ {Pick(s)} \in UpTo(S, n - 1)
          BY <2>1, <3>3, OneLess
        <4>2. f[Pick(s)] \in 0 .. 200 /\ iter[s \ {Pick(s)}] \in 0 .. 200 * (n - 1)
          BY <1>8, <4>1
        <4>3. iter[s] = f[Pick(s)] + iter[s \ {Pick(s)}]
          BY <3>1, <3>3 DEF Plus
        <4>. QED
          BY <2>1, <4>2, <4>3
      <3>. QED
        BY <3>2, <3>3
    <2>. QED
      BY <2>1, <2>2
  <1>9. m \in T
    <2>. HIDE DEF T
    <2>1. \A n \in 0 .. m : n \in T
      BY <1>2, <1>7, <1>8, EveryPrefix
    <2>. QED
      BY <1>2, <2>1
  <1>10. S \in UpTo(S, m)
    BY <1>3
  <1>11. iter[S] \in 0 .. 200 * m
    BY <1>9, <1>10
  <1>. QED
    BY <1>1, <1>11 DEF m

LEMMA LargerQuotient ==
  ASSUME NEW a \in Int, NEW b \in Int, NEW d \in Nat \ {0}, b >= a + d
  PROVE  a \div d < b \div d
  OBVIOUS

(* No count is larger than what the pages allow.                            *)
LEMMA CountedType ==
  ASSUME RowsOK
  PROVE  LET c == Counted(rows)
         IN  /\ c \in [{"pages", "titled", "described", "confidence", "urls"} -> Nat]
             /\ c.pages = Cardinality(rows) /\ (rows # {} => c.pages > 0)
             /\ c.titled <= c.pages /\ c.described <= c.pages /\ c.urls <= c.pages
             /\ c.confidence <= 200 * c.pages
  <1>. DEFINE n == Cardinality(rows)
  <1>1. IsFiniteSet(rows)
    BY PagesFinite, FS_Subset DEF RowsOK
  <1>2. /\ n \in Nat /\ (rows # {} => n > 0)
        /\ \A S \in SUBSET rows : Cardinality(S) \in Nat /\ Cardinality(S) <= n
    BY <1>1, FS_Subset, FS_CardinalityType, FS_EmptySet
  <1>3. {p \in rows : p.title > 0} \in SUBSET rows /\ {p \in rows : p.description > 0} \in SUBSET rows
    OBVIOUS
  <1>4. SumFunction([p \in rows |-> Combined(p)]) \in 0 .. 200 * n
    <2>. DEFINE f == [p \in rows |-> Combined(p)]
    <2>1. f \in [rows -> 0 .. 200]
      BY CombinedType DEF RowsOK
    <2>. HIDE DEF f
    <2>2. SumFunction(f) \in 0 .. 200 * n
      BY <1>1, <2>1, SumType
    <2>. QED
      BY <2>2 DEF f
  <1>5. Cardinality({p.url : p \in rows}) \in Nat /\ Cardinality({p.url : p \in rows}) <= n
    <2>. DEFINE urls == {p.url : p \in rows}
                f == [p \in rows |-> p.url]
    <2>1. f \in Surjection(rows, urls)
      BY DEF Surjection
    <2>. HIDE DEF f, urls
    <2>2. IsFiniteSet(urls) /\ Cardinality(urls) <= n
      BY <1>1, <2>1, FS_Surjection
    <2>3. Cardinality(urls) \in Nat
      BY <2>2, FS_CardinalityType
    <2>. QED
      BY <2>2, <2>3 DEF urls
  <1>6. /\ Cardinality({p \in rows : p.title > 0}) \in Nat
        /\ Cardinality({p \in rows : p.title > 0}) <= n
        /\ Cardinality({p \in rows : p.description > 0}) \in Nat
        /\ Cardinality({p \in rows : p.description > 0}) <= n
    BY <1>2, <1>3
  <1>. HIDE DEF n
  <1>7. SumFunction([p \in rows |-> Combined(p)]) \in Nat
        /\ SumFunction([p \in rows |-> Combined(p)]) <= 200 * n
    BY <1>2, <1>4
  <1>. QED
    BY <1>2, <1>5, <1>6, <1>7 DEF Counted, n

(* guides/api.md:188: score breakdown values are between 0.0 and 1.0.       *)
Fraction == 0 .. One
ScoresOfFractions ==
  /\ scores.coverage \in Fraction /\ scores.confidence \in Fraction
  /\ scores.redundancy \in Fraction /\ scores.total \in Fraction

LEMMA RoundedFraction ==
  ASSUME NEW num \in Nat, NEW den \in Nat \ {0}, num <= One * den
  PROVE  Rounded(num, den) \in Fraction
  <1>. DEFINE a == 2 * num + den
              d == 2 * den
  <1>1. a \in Nat /\ d \in Nat \ {0} /\ a < (One + 1) * d
    BY DEF One
  <1>2. Rounded(num, den) = a \div d
    BY DEF Rounded
  <1>. HIDE DEF a, d
  <1>. DEFINE q == a \div d
  <1>3. q \in Nat /\ q < One + 1
    BY <1>1 DEF One
  <1>. HIDE DEF q
  <1>4. q \in Fraction
    BY <1>3 DEF Fraction, One
  <1>. QED
    BY <1>2, <1>4 DEF q

(* What score_pages returns is a breakdown of fractions, for any pages and  *)
(* any number of executions.                                                *)
THEOREM ScoresAreFractions == Spec => []ScoresOfFractions
  <1>1. Init => ScoresOfFractions
    BY DEF Init, Scores, NoPages, ScoresOfFractions, Fraction, One
  <1>2. RowsOK /\ ScoresOfFractions /\ [Next]_vars => ScoresOfFractions'
    <2>. SUFFICES ASSUME RowsOK, ScoresOfFractions, [Next]_vars
                  PROVE  ScoresOfFractions'
      OBVIOUS
    <2>1. CASE ScorePages
      <3>. DEFINE c == Counted(rows)
      <3>1. /\ c \in [{"pages", "titled", "described", "confidence", "urls"} -> Nat]
            /\ c.titled <= c.pages /\ c.described <= c.pages /\ c.urls <= c.pages
            /\ c.confidence <= 200 * c.pages
        BY CountedType
      <3>2. scores' = Scores(c)
        BY <2>1 DEF ScorePages
      <3>. HIDE DEF c
      <3>3. /\ c.pages \in Nat /\ c.titled \in Nat /\ c.described \in Nat
            /\ c.confidence \in Nat /\ c.urls \in Nat
        BY <3>1
      <3>4. CASE c.pages = 0
        <4>1. /\ scores'.coverage = 0 /\ scores'.confidence = 0
              /\ scores'.redundancy = 0 /\ scores'.total = 0
          BY <3>2, <3>4 DEF Scores
        <4>2. 0 \in Fraction
          BY DEF Fraction, One
        <4>. QED
          BY <4>1, <4>2 DEF ScoresOfFractions
      <3>5. CASE c.pages # 0
        <4>1. Coverage(c) \in Fraction
          <5>. DEFINE num == One * (c.titled + c.described)
                      den == 2 * c.pages
          <5>1. num \in Nat /\ den \in Nat \ {0} /\ num <= One * den
            BY <3>1, <3>3, <3>5 DEF One
          <5>. HIDE DEF num, den
          <5>2. Rounded(num, den) \in Fraction
            BY <5>1, RoundedFraction
          <5>. QED
            BY <5>2 DEF num, den, Coverage
        <4>2. ConfidenceOf(c) \in Fraction
          <5>. DEFINE num == One * c.confidence
                      den == 200 * c.pages
          <5>1. num \in Nat /\ den \in Nat \ {0} /\ num <= One * den
            BY <3>1, <3>3, <3>5 DEF One
          <5>. HIDE DEF num, den
          <5>2. Rounded(num, den) \in Fraction
            BY <5>1, RoundedFraction
          <5>. QED
            BY <5>2 DEF num, den, ConfidenceOf
        <4>3. Redundancy(c) \in Fraction
          <5>. DEFINE num == One * c.urls
                      den == c.pages
          <5>1. num \in Nat /\ den \in Nat \ {0} /\ num <= One * den
            BY <3>1, <3>3, <3>5 DEF One
          <5>. HIDE DEF num, den
          <5>2. Rounded(num, den) \in Fraction
            BY <5>1, RoundedFraction
          <5>. QED
            BY <5>2 DEF num, den, Redundancy
        <4>4. Total(c) \in Fraction
          <5>. DEFINE num == 5 * Weighted(c)
                      den == c.pages
          <5>1. num \in Nat /\ den \in Nat \ {0} /\ num <= One * den
            BY <3>1, <3>3, <3>5 DEF One, Weighted
          <5>. HIDE DEF num, den
          <5>2. Rounded(num, den) \in Fraction
            BY <5>1, RoundedFraction
          <5>. QED
            BY <5>2 DEF num, den, Total
        <4>. QED
          BY <3>2, <3>5, <4>1, <4>2, <4>3, <4>4 DEF Scores, ScoresOfFractions
      <3>. QED
        BY <3>4, <3>5
    <2>2. CASE UNCHANGED scores
      BY <2>2 DEF ScoresOfFractions
    <2>. QED
      BY <2>1, <2>2 DEF Next, Extraction, Canonicalization, Generation, Again, vars
  <1>. QED
    BY <1>1, <1>2, RowsHold, PTL DEF Spec

(* 64 of a field's weight of 640 and more per page are a ten-thousandth.    *)
LEMMA LossShows ==
  ASSUME NEW pages \in Nat \ {0}, pages <= 3200, NEW weight \in Int, NEW less \in Int,
         weight >= less + 640
  PROVE  Rounded(5 * less, pages) < Rounded(5 * weight, pages)
  <1>. DEFINE a == 2 * (5 * less) + pages
              b == 2 * (5 * weight) + pages
              d == 2 * pages
  <1>1. a \in Int /\ b \in Int /\ d \in Nat \ {0} /\ b >= a + d
    OBVIOUS
  <1>2. Rounded(5 * less, pages) = a \div d /\ Rounded(5 * weight, pages) = b \div d
    BY DEF Rounded
  <1>. HIDE DEF a, b, d
  <1>. QED
    BY <1>1, <1>2, LargerQuotient

(* Whatever the pages offer, a title or a description less lowers the       *)
(* score, in a run of up to 3200 pages.                                     *)
THEOREM EveryLossShowsHolds == Spec => []EveryLossShows
  <1>1. RowsOK => EveryLossShows
    <2>. SUFFICES ASSUME RowsOK, NEW n \in Copies, NEW p \in rows
                  PROVE  LET c == Scaled(Counted(rows), n)
                         IN  c.pages <= 3200 =>
                               /\ p.title > 0 => Total(WithoutTitle(c, p)) < Total(c)
                               /\ p.description > 0 => Total(WithoutDescription(c, p)) < Total(c)
      BY DEF EveryLossShows
    <2>. DEFINE F == {"pages", "titled", "described", "confidence", "urls"}
                c == Scaled(Counted(rows), n)
                t == WithoutTitle(c, p)
                e == WithoutDescription(c, p)
    <2>1. n \in Nat \ {0}
      BY CopiesAssumption
    <2>2. Counted(rows) \in [F -> Nat] /\ Counted(rows).pages > 0
      BY CountedType
    <2>3. c \in [F -> Int] /\ c.pages = n * Counted(rows).pages
      BY <2>1, <2>2 DEF Scaled
    <2>4. c.pages \in Nat \ {0}
      BY <2>1, <2>2, <2>3
    <2>5. SUFFICES ASSUME c.pages <= 3200
                   PROVE  /\ p.title > 0 => Total(t) < Total(c)
                          /\ p.description > 0 => Total(e) < Total(c)
      OBVIOUS
    <2>6. /\ p.title \in Nat /\ (p.title > 0 => p.title >= 60)
          /\ p.description \in Nat /\ (p.description > 0 => p.description >= 60)
      BY ConfidenceType DEF RowsOK, Page
    <2>. HIDE DEF c
    <2>7. /\ t.pages = c.pages /\ t.titled = c.titled - 1 /\ t.described = c.described
          /\ t.confidence = c.confidence - p.title /\ t.urls = c.urls
      BY <2>3 DEF WithoutTitle
    <2>8. /\ e.pages = c.pages /\ e.described = c.described - 1 /\ e.titled = c.titled
          /\ e.confidence = c.confidence - p.description /\ e.urls = c.urls
      BY <2>3 DEF WithoutDescription
    <2>9. /\ c.titled \in Int /\ c.described \in Int /\ c.confidence \in Int /\ c.urls \in Int
      BY <2>3
    <2>. HIDE DEF t, e
    <2>10. p.title > 0 => Total(t) < Total(c)
      <3>. SUFFICES ASSUME p.title > 0
                    PROVE  Total(t) < Total(c)
        OBVIOUS
      <3>1. Weighted(c) \in Int /\ Weighted(t) \in Int /\ Weighted(c) >= Weighted(t) + 640
        BY <2>6, <2>7, <2>9 DEF Weighted
      <3>. DEFINE m == c.pages
                  v == Weighted(c)
                  w == Weighted(t)
      <3>2. m \in Nat \ {0} /\ m <= 3200 /\ v \in Int /\ w \in Int /\ v >= w + 640
        BY <2>4, <2>5, <3>1
      <3>3. Total(t) = Rounded(5 * w, m) /\ Total(c) = Rounded(5 * v, m)
        BY <2>7 DEF Total
      <3>. HIDE DEF m, v, w
      <3>. QED
        BY <3>2, <3>3, LossShows
    <2>11. p.description > 0 => Total(e) < Total(c)
      <3>. SUFFICES ASSUME p.description > 0
                    PROVE  Total(e) < Total(c)
        OBVIOUS
      <3>1. Weighted(c) \in Int /\ Weighted(e) \in Int /\ Weighted(c) >= Weighted(e) + 640
        BY <2>6, <2>8, <2>9 DEF Weighted
      <3>. DEFINE m == c.pages
                  v == Weighted(c)
                  w == Weighted(e)
      <3>2. m \in Nat \ {0} /\ m <= 3200 /\ v \in Int /\ w \in Int /\ v >= w + 640
        BY <2>4, <2>5, <3>1
      <3>3. Total(e) = Rounded(5 * w, m) /\ Total(c) = Rounded(5 * v, m)
        BY <2>8 DEF Total
      <3>. HIDE DEF m, v, w
      <3>. QED
        BY <3>2, <3>3, LossShows
    <2>. QED
      BY <2>10, <2>11
  <1>. QED
    BY <1>1, RowsHold, PTL
=============================================================================
