---------------------------- MODULE StartupProofs ----------------------------
(***************************************************************************)
(* NoTableLeftBehind and DeadMeansCreated for any processes, tables and     *)
(* numbers of calls and losses.                                             *)
(***************************************************************************)
EXTENDS Startup, WellFoundedInduction, TLAPS

Busy(p) == pc[p] \in {"check", "create"}

(* What a process has looked for and not found is on its list until it      *)
(* exists; only a create_all that is under way has a list.                  *)
ListsAreComplete ==
  \A p \in Process :
    /\ Busy(p) => \A t \in 1 .. checked[p] : t \in tables \/ t \in todo[p]
    /\ pc[p] = "create" => checked[p] = LastTable
    /\ ~Busy(p) => todo[p] = {}

(* A listed table that has come to exist meanwhile tells how far the others *)
(* have got: SQLite's creations come in order, PostgreSQL's all at once.    *)
CreatedInOrder ==
  \A p \in Process : \A t \in todo[p] \intersect tables :
    \/ backend = "sqlite" /\ \A u \in Table : u < t => u \in tables
    \/ backend = "pgsql" /\ tables = Table

(* Somebody gave up, or is about to, because of a table another made.       *)
Beaten == \E p \in Process : Ended(p) \/ todo[p] \intersect tables # {}

(* Somebody whose list has none but missing tables.                         *)
Winner == \E p \in Process : pc[p] = "create" /\ todo[p] \intersect tables = {}

SomebodyWins == lost = 0 /\ Beaten /\ tables # Table => Winner

IInv == TypeOK /\ ListsAreComplete /\ CreatedInOrder /\ SomebodyWins /\ DeadMeansCreated

-----------------------------------------------------------------------------
LEMMA FirstIsLeast ==
  ASSUME NEW S \in SUBSET Table, S # {}
  PROVE  First(S) \in S /\ \A u \in S : First(S) <= u
  <1>. DEFINE less == OpToRel(<, Nat)
  <1>1. Table \subseteq Nat
    BY TableAssumption DEF Table
  <1>2. \E t \in S : \A u \in S : <<u, t>> \notin less
    <2>1. IsWellFoundedOn(less, Nat) /\ S \subseteq Nat
      BY <1>1, NatLessThanWellFounded
    <2>. HIDE DEF less
    <2>. QED
      BY <2>1, WFMin
  <1>3. \A t, u \in Nat : u < t => <<u, t>> \in less
    BY DEF OpToRel
  <1>. HIDE DEF less
  <1>4. \E t \in S : \A u \in S : t <= u
    <2>1. PICK t \in S : \A u \in S : <<u, t>> \notin less
      BY <1>2
    <2>2. \A u \in S : ~(u < t)
      BY <1>1, <1>3, <2>1
    <2>. QED
      BY <1>1, <2>2
  <1>. QED
    BY <1>4 DEF First

(* A process that creates lists every missing table.                        *)
LEMMA CreatorListsMissing ==
  ASSUME IInv, NEW p \in Process, pc[p] = "create"
  PROVE  Table \ tables \subseteq todo[p]
  BY DEF IInv, ListsAreComplete, Busy, Table

LEMMA InitIInv == Init => IInv
  BY TableAssumption, BoundAssumption
  DEF Init, IInv, TypeOK, ListsAreComplete, CreatedInOrder, SomebodyWins,
      DeadMeansCreated, Beaten, Ended, Busy, Label

LEMMA StartStep ==
  ASSUME IInv, NEW p \in Process, Start(p)
  PROVE  IInv'
  <1>1. /\ pc' = [pc EXCEPT ![p] = "check"] /\ checked' = [checked EXCEPT ![p] = 0]
        /\ todo' = [todo EXCEPT ![p] = {}] /\ begun' = begun + 1
        /\ UNCHANGED <<backend, tables, lost>> /\ pc[p] \in {"off", "ready", "dead"}
    BY DEF Start, Goto
  <1>2. TypeOK'
    BY <1>1, TableAssumption DEF IInv, TypeOK, Label
  <1>3. /\ pc'[p] = "check" /\ checked'[p] = 0 /\ todo'[p] = {}
        /\ \A q \in Process \ {p} : pc'[q] = pc[q] /\ checked'[q] = checked[q] /\ todo'[q] = todo[q]
    BY <1>1 DEF IInv, TypeOK
  <1>4. ListsAreComplete'
    BY <1>1, <1>3 DEF IInv, ListsAreComplete, Busy
  <1>5. CreatedInOrder'
    BY <1>1, <1>3 DEF IInv, CreatedInOrder
  <1>6. SomebodyWins'
    BY <1>1, <1>3 DEF IInv, SomebodyWins, Beaten, Winner, Ended
  <1>7. DeadMeansCreated'
    BY <1>1, <1>3 DEF IInv, DeadMeansCreated
  <1>. QED
    BY <1>2, <1>4, <1>5, <1>6, <1>7 DEF IInv

LEMMA CheckStep ==
  ASSUME IInv, NEW p \in Process, Check(p)
  PROVE  IInv'
  <1>. DEFINE next == checked[p] + 1
  <1>1. pc[p] = "check" /\ UNCHANGED <<backend, tables, begun, lost>>
    BY DEF Check
  <1>2. checked[p] \in 0 .. LastTable /\ LastTable \in Nat
    BY TableAssumption DEF IInv, TypeOK
  <1>3. CASE ~AllChecked(checked[p])
    <2>1. /\ checked' = [checked EXCEPT ![p] = next]
          /\ todo' = [todo EXCEPT ![p] = @ \union ({next} \ tables)] /\ pc' = pc
      BY <1>3 DEF Check, MissingTables
    <2>2. next \in Table /\ next \in 0 .. LastTable
      BY <1>2, <1>3 DEF AllChecked, Table
    <2>3. TypeOK'
      BY <1>1, <2>1, <2>2 DEF IInv, TypeOK
    <2>4. /\ checked'[p] = next /\ todo'[p] = todo[p] \union ({next} \ tables)
          /\ \A q \in Process \ {p} : checked'[q] = checked[q] /\ todo'[q] = todo[q]
      BY <2>1 DEF IInv, TypeOK
    <2>5. \A q \in Process : todo'[q] \intersect tables = todo[q] \intersect tables
      BY <2>4
    <2>6. ListsAreComplete'
      <3>1. \A t \in 1 .. next : t \in 1 .. checked[p] \/ t = next
        BY <1>2
      <3>. QED
        BY <1>1, <2>1, <2>4, <3>1 DEF IInv, ListsAreComplete, Busy
    <2>7. CreatedInOrder'
      BY <1>1, <2>5 DEF IInv, CreatedInOrder
    <2>8. SomebodyWins'
      BY <1>1, <2>1, <2>5 DEF IInv, SomebodyWins, Beaten, Winner, Ended
    <2>9. DeadMeansCreated'
      BY <1>1, <2>1 DEF IInv, DeadMeansCreated
    <2>. QED
      BY <2>3, <2>6, <2>7, <2>8, <2>9 DEF IInv
  <1>4. CASE AllChecked(checked[p])
    <2>1. pc' = [pc EXCEPT ![p] = "create"] /\ checked' = checked /\ todo' = todo
      BY <1>4 DEF Check, Goto
    <2>2. TypeOK'
      BY <1>1, <2>1 DEF IInv, TypeOK, Label
    <2>3. pc'[p] = "create" /\ \A q \in Process \ {p} : pc'[q] = pc[q]
      BY <2>1 DEF IInv, TypeOK
    <2>4. ListsAreComplete'
      BY <1>1, <1>4, <2>1, <2>3 DEF IInv, ListsAreComplete, Busy, AllChecked
    <2>5. CreatedInOrder'
      BY <1>1, <2>1 DEF IInv, CreatedInOrder
    <2>6. SomebodyWins'
      BY <1>1, <2>1, <2>3 DEF IInv, SomebodyWins, Beaten, Winner, Ended
    <2>7. DeadMeansCreated'
      BY <1>1, <2>3 DEF IInv, DeadMeansCreated
    <2>. QED
      BY <2>2, <2>4, <2>5, <2>6, <2>7 DEF IInv
  <1>. QED
    BY <1>3, <1>4

(* The collision: who gives up leaves a winner behind.                      *)
LEMMA GiveUpStep ==
  ASSUME IInv, NEW p \in Process, pc[p] = "create", NEW l \in {"ready", "dead"},
         todo[p] \intersect tables # {}, l = "dead" => tables = Table,
         pc' = [pc EXCEPT ![p] = l], todo' = [todo EXCEPT ![p] = {}],
         UNCHANGED <<backend, tables, checked, begun, lost>>
  PROVE  IInv'
  <1>1. TypeOK'
    BY DEF IInv, TypeOK, Label
  <1>2. /\ pc'[p] = l /\ todo'[p] = {}
        /\ \A q \in Process \ {p} : pc'[q] = pc[q] /\ todo'[q] = todo[q]
    BY DEF IInv, TypeOK
  <1>3. ListsAreComplete'
    BY <1>2 DEF IInv, ListsAreComplete, Busy
  <1>4. CreatedInOrder'
    BY <1>2 DEF IInv, CreatedInOrder
  <1>5. SomebodyWins'
    <2>1. Beaten
      BY DEF Beaten
    <2>. QED
      BY <1>2, <2>1 DEF IInv, SomebodyWins, Winner
  <1>6. DeadMeansCreated'
    BY <1>2 DEF IInv, DeadMeansCreated
  <1>. QED
    BY <1>1, <1>3, <1>4, <1>5, <1>6 DEF IInv

LEMMA CreateNextStep ==
  ASSUME IInv, NEW p \in Process, CreateNext(p)
  PROVE  IInv'
  <1>. DEFINE t == First(todo[p])
  <1>1. /\ backend = "sqlite" /\ pc[p] = "create" /\ todo[p] # {}
        /\ UNCHANGED <<backend, checked, begun, lost>>
    BY DEF CreateNext
  <1>2. todo[p] \in SUBSET Table
    BY DEF IInv, TypeOK
  <1>3. t \in todo[p] /\ t \in Table /\ \A u \in todo[p] : t <= u
    BY <1>1, <1>2, FirstIsLeast
  <1>. HIDE DEF t
  <1>4. CASE t \in tables
    <2>1. /\ pc' = [pc EXCEPT ![p] = "ready"] /\ todo' = [todo EXCEPT ![p] = {}]
          /\ tables' = tables
      BY <1>1, <1>4 DEF CreateNext, Goto, AfterError, t
    <2>2. todo[p] \intersect tables # {}
      BY <1>3, <1>4
    <2>. QED
      BY <1>1, <2>1, <2>2, GiveUpStep
  <1>5. CASE t \notin tables
    <2>1. /\ tables' = tables \union {t} /\ pc' = pc
          /\ todo' = [todo EXCEPT ![p] = todo[p] \ {t}]
      BY <1>5 DEF CreateNext, t
    <2>2. TypeOK'
      BY <1>1, <1>3, <2>1 DEF IInv, TypeOK
    <2>3. todo'[p] = todo[p] \ {t} /\ \A q \in Process \ {p} : todo'[q] = todo[q]
      BY <2>1 DEF IInv, TypeOK
    <2>4. Table \subseteq Int /\ \A u \in Table : u < t => u \in tables
      <3>1. Table \subseteq Int
        BY TableAssumption DEF Table
      <3>2. Table \ tables \subseteq todo[p]
        BY <1>1, CreatorListsMissing
      <3>. QED
        BY <1>3, <3>1, <3>2
    <2>5. ListsAreComplete'
      <3>1. \A q \in Process, u \in Table : u \in todo[q] => u \in todo'[q] \/ u \in tables'
        BY <2>1, <2>3
      <3>2. \A q \in Process : 1 .. checked[q] \subseteq Table
        BY TableAssumption DEF IInv, TypeOK, Table
      <3>3. \A q \in Process : todo'[q] \subseteq todo[q]
        BY <2>3
      <3>. QED
        BY <1>1, <2>1, <3>1, <3>2, <3>3 DEF IInv, ListsAreComplete, Busy
    <2>6. CreatedInOrder'
      <3>1. ASSUME NEW q \in Process, NEW u \in todo'[q], u \in tables'
            PROVE  \A v \in Table : v < u => v \in tables'
        <4>1. u \in todo[q] /\ (u \in tables \/ u = t)
          BY <2>1, <2>3, <3>1
        <4>2. CASE u \in tables
          BY <1>1, <2>1, <4>1, <4>2 DEF IInv, CreatedInOrder
        <4>3. CASE u = t
          BY <2>1, <2>4, <4>3
        <4>. QED
          BY <4>1, <4>2, <4>3
      <3>. QED
        BY <1>1, <3>1 DEF CreatedInOrder
    <2>7. SomebodyWins'
      <3>1. todo[p] \intersect tables = {}
        <4>. SUFFICES ASSUME NEW u \in todo[p], u \in tables
                      PROVE  FALSE
          OBVIOUS
        <4>1. \A v \in Table : v < u => v \in tables
          BY <1>1 DEF IInv, CreatedInOrder
        <4>2. t <= u /\ t # u /\ u \in Table
          BY <1>2, <1>3, <1>5
        <4>. QED
          BY <1>3, <1>5, <2>4, <4>1, <4>2
      <3>2. pc'[p] = "create" /\ todo'[p] \intersect tables' = {}
        BY <1>1, <2>1, <2>3, <3>1
      <3>. QED
        BY <3>2 DEF SomebodyWins, Winner
    <2>8. DeadMeansCreated'
      BY <1>1, <1>3, <2>1 DEF IInv, DeadMeansCreated
    <2>. QED
      BY <2>2, <2>5, <2>6, <2>7, <2>8 DEF IInv
  <1>. QED
    BY <1>4, <1>5

LEMMA CreateAllStep ==
  ASSUME IInv, NEW p \in Process, CreateAll(p)
  PROVE  IInv'
  <1>1. /\ backend = "pgsql" /\ pc[p] = "create" /\ todo' = [todo EXCEPT ![p] = {}]
        /\ UNCHANGED <<backend, checked, begun, lost>>
    BY DEF CreateAll
  <1>2. CASE todo[p] \intersect tables # {}
    <2>1. pc' = [pc EXCEPT ![p] = "dead"] /\ tables' = tables
      BY <1>1, <1>2 DEF CreateAll, Goto, AfterError
    <2>2. tables = Table
      BY <1>1, <1>2 DEF IInv, CreatedInOrder
    <2>. QED
      BY <1>1, <1>2, <2>1, <2>2, GiveUpStep
  <1>3. CASE todo[p] \intersect tables = {}
    <2>1. pc' = [pc EXCEPT ![p] = "ready"] /\ tables' = tables \union todo[p]
      BY <1>3 DEF CreateAll, Goto
    <2>2. tables' = Table
      BY <1>1, <2>1, CreatorListsMissing DEF IInv, TypeOK
    <2>3. TypeOK'
      BY <1>1, <2>1, <2>2 DEF IInv, TypeOK, Label
    <2>4. /\ pc'[p] = "ready" /\ todo'[p] = {}
          /\ \A q \in Process \ {p} : pc'[q] = pc[q] /\ todo'[q] = todo[q]
      BY <1>1, <2>1 DEF IInv, TypeOK
    <2>5. ListsAreComplete'
      BY <1>1, <2>1, <2>4 DEF IInv, ListsAreComplete, Busy
    <2>6. CreatedInOrder' /\ SomebodyWins' /\ DeadMeansCreated'
      BY <1>1, <2>2 DEF CreatedInOrder, SomebodyWins, DeadMeansCreated, Table
    <2>. QED
      BY <2>3, <2>5, <2>6 DEF IInv
  <1>. QED
    BY <1>2, <1>3

LEMMA DoneStep ==
  ASSUME IInv, NEW p \in Process, Done(p)
  PROVE  IInv'
  <1>1. /\ pc[p] = "create" /\ todo[p] = {} /\ pc' = [pc EXCEPT ![p] = "ready"]
        /\ UNCHANGED <<backend, tables, todo, checked, begun, lost>>
    BY DEF Done, Goto
  <1>2. TypeOK'
    BY <1>1 DEF IInv, TypeOK, Label
  <1>3. tables = Table
    BY <1>1, CreatorListsMissing DEF IInv, TypeOK
  <1>4. pc'[p] = "ready" /\ \A q \in Process \ {p} : pc'[q] = pc[q]
    BY <1>1 DEF IInv, TypeOK
  <1>5. ListsAreComplete'
    BY <1>1, <1>4 DEF IInv, ListsAreComplete, Busy
  <1>6. CreatedInOrder' /\ SomebodyWins' /\ DeadMeansCreated'
    BY <1>1, <1>3 DEF IInv, CreatedInOrder, SomebodyWins, DeadMeansCreated, Table
  <1>. QED
    BY <1>2, <1>5, <1>6 DEF IInv

LEMMA LoseStep ==
  ASSUME IInv, NEW p \in Process, Lose(p)
  PROVE  IInv'
  <1>1. PICK l \in {"off", AfterError} : pc' = [pc EXCEPT ![p] = l]
    BY DEF Lose, Goto
  <1>2. l \in {"off", "ready", "dead"}
    BY DEF AfterError
  <1>3. /\ todo' = [todo EXCEPT ![p] = {}] /\ lost' = lost + 1
        /\ UNCHANGED <<backend, tables, checked, begun>>
    BY DEF Lose
  <1>4. TypeOK' /\ lost' # 0
    BY <1>1, <1>2, <1>3 DEF IInv, TypeOK, Label
  <1>5. /\ pc'[p] = l /\ todo'[p] = {}
        /\ \A q \in Process \ {p} : pc'[q] = pc[q] /\ todo'[q] = todo[q]
    BY <1>1, <1>3 DEF IInv, TypeOK
  <1>6. ListsAreComplete'
    BY <1>2, <1>3, <1>5 DEF IInv, ListsAreComplete, Busy
  <1>7. CreatedInOrder'
    BY <1>3, <1>5 DEF IInv, CreatedInOrder
  <1>. QED
    BY <1>4, <1>6, <1>7 DEF IInv, SomebodyWins, DeadMeansCreated

LEMMA StepIInv == IInv /\ [Next]_vars => IInv'
  <1>. SUFFICES ASSUME IInv, [Next]_vars
                PROVE  IInv'
    OBVIOUS
  <1>1. ASSUME NEW p \in Process, Start(p) \/ Advance(p) \/ Lose(p)
        PROVE  IInv'
    BY <1>1, StartStep, CheckStep, CreateNextStep, CreateAllStep, DoneStep, LoseStep DEF Advance
  <1>2. CASE UNCHANGED vars
    BY <1>2 DEF vars, IInv, TypeOK, ListsAreComplete, CreatedInOrder, SomebodyWins,
                DeadMeansCreated, Beaten, Winner, Ended, Busy
  <1>. QED
    BY <1>1, <1>2 DEF Next

-----------------------------------------------------------------------------
(* Every variable keeps its type.                                           *)
THEOREM TypeCorrect == Spec => []TypeOK
  <1>1. IInv => TypeOK
    BY DEF IInv
  <1>. QED
    BY <1>1, InitIInv, StepIInv, PTL DEF Spec

(* However many processes race for however many tables: who gives up leaves *)
(* all that are missing to one that still creates them.                     *)
THEOREM NothingIsLeftBehind == Spec => []NoTableLeftBehind
  <1>1. IInv => NoTableLeftBehind
    <2>. SUFFICES ASSUME IInv, lost = 0, \E p \in Process : Ended(p), tables # Table
                  PROVE  \E p \in Process : pc[p] = "create" /\ Table \ tables \subseteq todo[p]
      BY DEF NoTableLeftBehind
    <2>1. Winner
      BY DEF IInv, SomebodyWins, Beaten
    <2>. QED
      BY <2>1, CreatorListsMissing DEF Winner
  <1>. QED
    BY <1>1, InitIInv, StepIInv, PTL DEF Spec

(* On PostgreSQL the loser of the race finds every table on its restart.    *)
THEOREM LosersFindAllTables == Spec => []DeadMeansCreated
  <1>1. IInv => DeadMeansCreated
    BY DEF IInv
  <1>. QED
    BY <1>1, InitIInv, StepIInv, PTL DEF Spec
=============================================================================
