-------------------------- MODULE RateLimiterProofs --------------------------
(***************************************************************************)
(* SequentialCallsAreSpaced for any threads, hosts and delay.               *)
(***************************************************************************)
EXTENDS RateLimiter, SequenceTheorems, TLAPS

(* A call that follows its predecessors is alone, ...                       *)
Alone(h) == \A t, u \in Inside(h) : t = u

(* ... the entry of its host is not older than any start, ...               *)
EntryIsNewest(h) == \A i \in 1 .. Len(starts[h]) : starts[h][i] <= lastSeen[h]

(* ... and it goes on no sooner than the delay after that entry.            *)
GoesOnLate(h) ==
  \A t \in Inside(h) :
    /\ pc[t] = "sleep" => call[t].wake >= lastSeen[h] + Delay
    /\ pc[t] = "store" => call[t].stamp >= lastSeen[h] + Delay

Sequential(h) == Alone(h) /\ EntryIsNewest(h) /\ GoesOnLate(h) /\ Apart(h)

(* The clock does not run backwards.                                        *)
EnteredBefore == \A t \in Thread : pc[t] # "out" => call[t].entered <= now

IInv == TypeOK /\ EnteredBefore /\ \A h \in Host : ~overlap[h] => Sequential(h)

-----------------------------------------------------------------------------
LEMMA InitIInv == Init => IInv
  <1>. SUFFICES ASSUME Init PROVE IInv
    OBVIOUS
  <1>1. TypeOK
    BY DelayAssumption, BoundAssumption
    DEF Init, TypeOK, Begun, Time, Step
  <1>. QED
    BY <1>1 DEF Init, IInv, EnteredBefore, Sequential, Alone, EntryIsNewest,
                GoesOnLate, Apart, Inside

LEMMA TypeStep ==
  ASSUME TypeOK, [Next]_vars
  PROVE  TypeOK'
  <1>. USE DelayAssumption, BoundAssumption DEF TypeOK, Time, Step
  <1>1. CASE Tick
    BY <1>1 DEF Tick
  <1>2. ASSUME NEW t \in Thread, NEW h \in Host, Enter(t, h)
        PROVE  TypeOK'
    BY <1>2 DEF Enter, Begun, At
  <1>3. ASSUME NEW t \in Thread, Look(t)
        PROVE  TypeOK'
    <2>. DEFINE due == WaitFor(call[t], lastSeen[call[t].host])
                wake == IF due > 0 THEN now + due ELSE now
    <2>1. wake \in Nat
      <3>1. call[t].entered \in Int /\ call[t].host \in Host
        OBVIOUS
      <3>2. lastSeen[call[t].host] \in Int
        BY <3>1 DEF LongPast
      <3>3. due \in Int /\ now \in Nat
        BY <3>1, <3>2 DEF WaitFor
      <3>. QED
        BY <3>3
    <2>. HIDE DEF wake
    <2>2. call' = [call EXCEPT ![t].wake = wake]
      BY <1>3 DEF Look, wake
    <2>3. call' \in [Thread -> [host : Host, entered : Time, wake : Nat, stamp : Time]]
      BY <2>1, <2>2
    <2>. QED
      BY <1>3, <2>3 DEF Look, At
  <1>4. ASSUME NEW t \in Thread, Wake(t)
        PROVE  TypeOK'
    BY <1>4 DEF Wake, At
  <1>5. ASSUME NEW t \in Thread, Store(t)
        PROVE  TypeOK'
    <2>. DEFINE h == call[t].host
    <2>1. h \in Host /\ call[t].stamp \in Time
      OBVIOUS
    <2>2. Append(starts[h], call[t].stamp) \in Seq(Time)
      BY <2>1, AppendProperties
    <2>3. starts' \in [Host -> Seq(Time)]
      BY <1>5, <2>1, <2>2 DEF Store
    <2>4. call' \in [Thread -> [host : Host, entered : Time, wake : Nat, stamp : Time]]
      BY <1>5, <2>1 DEF Store, Begun
    <2>. QED
      BY <1>5, <2>1, <2>3, <2>4 DEF Store, At
  <1>6. CASE UNCHANGED vars
    BY <1>6 DEF vars
  <1>. QED
    BY <1>1, <1>2, <1>3, <1>4, <1>5, <1>6 DEF Next

LEMMA ClockStep ==
  ASSUME TypeOK, EnteredBefore, [Next]_vars
  PROVE  EnteredBefore'
  <1>. USE DelayAssumption, BoundAssumption DEF TypeOK, Time, Step, EnteredBefore
  <1>1. CASE Tick
    BY <1>1 DEF Tick
  <1>2. ASSUME NEW t \in Thread, NEW h \in Host, Enter(t, h)
        PROVE  EnteredBefore'
    BY <1>2 DEF Enter, Begun, At
  <1>3. ASSUME NEW t \in Thread, pc[t] # "out", now' = now,
               NEW s \in Step, pc' = [pc EXCEPT ![t] = s],
               \A u \in Thread : call'[u].entered = call[u].entered
        PROVE  EnteredBefore'
    BY <1>3
  <1>6. ASSUME NEW t \in Thread, Look(t)
        PROVE  EnteredBefore'
    <2>1. \A u \in Thread : call'[u].entered = call[u].entered
      BY <1>6 DEF Look
    <2>2. pc[t] # "out" /\ now' = now /\ pc' = [pc EXCEPT ![t] = "sleep"]
      BY <1>6 DEF Look, At
    <2>. QED
      BY <1>3, <2>1, <2>2
  <1>7. ASSUME NEW t \in Thread, Wake(t)
        PROVE  EnteredBefore'
    <2>1. \A u \in Thread : call'[u].entered = call[u].entered
      BY <1>7 DEF Wake
    <2>2. pc[t] # "out" /\ now' = now /\ pc' = [pc EXCEPT ![t] = "store"]
      BY <1>7 DEF Wake, At
    <2>. QED
      BY <1>3, <2>1, <2>2
  <1>4. ASSUME NEW t \in Thread, Store(t)
        PROVE  EnteredBefore'
    BY <1>4 DEF Store, At
  <1>5. CASE UNCHANGED vars
    BY <1>5 DEF vars
  <1>. QED
    BY <1>1, <1>2, <1>4, <1>5, <1>6, <1>7 DEF Next

(* A step that leaves host h alone: its entry and starts, and the calls for *)
(* it.                                                                      *)
LeavesAlone(h) ==
  /\ lastSeen'[h] = lastSeen[h]
  /\ starts'[h] = starts[h]
  /\ Inside(h)' = Inside(h)
  /\ \A t \in Inside(h) : pc'[t] = pc[t] /\ call'[t] = call[t]

LEMMA UntouchedHost ==
  ASSUME NEW h \in Host, Sequential(h), LeavesAlone(h)
  PROVE  Sequential(h)'
  BY DEF LeavesAlone, Sequential, Alone, EntryIsNewest, GoesOnLate, Apart

LEMMA EnterStep ==
  ASSUME IInv, NEW t \in Thread, NEW g \in Host, Enter(t, g),
         NEW h \in Host, ~overlap'[h]
  PROVE  Sequential(h)'
  <1>1. ~overlap[h] /\ (g = h => Inside(h) = {})
    BY DEF IInv, TypeOK, Enter
  <1>2. Sequential(h)
    BY <1>1 DEF IInv
  <1>3. CASE g # h
    <2>1. t \notin Inside(h) /\ call'[t].host = g
      BY DEF IInv, TypeOK, Enter, Inside, Begun
    <2>2. \A u \in Thread \ {t} : pc'[u] = pc[u] /\ call'[u] = call[u]
      BY DEF IInv, TypeOK, Enter, At
    <2>3. LeavesAlone(h)
      BY <1>3, <2>1, <2>2 DEF LeavesAlone, Inside, Enter
    <2>. QED
      BY <1>2, <2>3, UntouchedHost
  <1>4. CASE g = h
    <2>1. \A u \in Thread \ {t} : pc'[u] = pc[u] /\ call'[u] = call[u]
      BY DEF IInv, TypeOK, Enter, At
    <2>2. pc'[t] = "look"
      BY DEF IInv, TypeOK, Enter, At
    <2>3. Inside(h)' \subseteq {t}
      BY <1>1, <1>4, <2>1 DEF Inside
    <2>4. lastSeen' = lastSeen /\ starts' = starts
      BY DEF Enter
    <2>. QED
      BY <1>2, <2>2, <2>3, <2>4
      DEF Sequential, Alone, EntryIsNewest, GoesOnLate, Apart
  <1>. QED
    BY <1>3, <1>4

LEMMA LookStep ==
  ASSUME IInv, NEW t \in Thread, Look(t), NEW h \in Host, ~overlap'[h]
  PROVE  Sequential(h)'
  <1>. DEFINE c == call[t]
              due == WaitFor(c, lastSeen[c.host])
              wake == IF due > 0 THEN now + due ELSE now
  <1>1. Sequential(h)
    BY DEF IInv, Look
  <1>2. c \in [host : Host, entered : Time, wake : Nat, stamp : Time] /\ pc[t] = "look"
    BY DEF IInv, TypeOK, Look
  <1>3. pc' = [pc EXCEPT ![t] = "sleep"] /\ lastSeen' = lastSeen /\ starts' = starts
    BY DEF Look, At
  <1>4. call' = [call EXCEPT ![t].wake = wake]
    BY DEF Look
  <1>5. wake >= lastSeen[c.host] + Delay
    <2>1. c.entered \in Int /\ c.host \in Host /\ now \in Int /\ Delay \in Int
      BY <1>2, DelayAssumption DEF IInv, TypeOK, Time
    <2>2. lastSeen[c.host] \in Int
      BY <2>1 DEF IInv, TypeOK, Time, LongPast
    <2>3. c.entered <= now
      BY <1>2 DEF IInv, EnteredBefore
    <2>. QED
      BY <2>1, <2>2, <2>3 DEF WaitFor
  <1>. HIDE DEF wake
  <1>6. \A u \in Thread \ {t} : pc'[u] = pc[u] /\ call'[u] = call[u]
    BY <1>3, <1>4 DEF IInv, TypeOK
  <1>7. pc'[t] = "sleep" /\ call'[t].host = c.host /\ call'[t].wake = wake
    BY <1>2, <1>3, <1>4 DEF IInv, TypeOK
  <1>8. Inside(h)' = Inside(h)
    BY <1>2, <1>6, <1>7 DEF Inside
  <1>9. GoesOnLate(h)'
    <2>. SUFFICES ASSUME NEW u \in Inside(h)
                  PROVE  /\ pc'[u] = "sleep" => call'[u].wake >= lastSeen[h] + Delay
                         /\ pc'[u] = "store" => call'[u].stamp >= lastSeen[h] + Delay
      BY <1>3, <1>8 DEF GoesOnLate
    <2>1. CASE u = t
      BY <1>5, <1>7, <2>1 DEF Inside
    <2>2. CASE u # t
      BY <1>1, <1>6, <2>2 DEF Sequential, GoesOnLate, Inside
    <2>. QED
      BY <2>1, <2>2
  <1>. QED
    BY <1>1, <1>3, <1>8, <1>9 DEF Sequential, Alone, EntryIsNewest, Apart

LEMMA WakeStep ==
  ASSUME IInv, NEW t \in Thread, Wake(t), NEW h \in Host, ~overlap'[h]
  PROVE  Sequential(h)'
  <1>1. Sequential(h)
    BY DEF IInv, Wake
  <1>2. pc' = [pc EXCEPT ![t] = "store"] /\ lastSeen' = lastSeen /\ starts' = starts
    BY DEF Wake, At
  <1>3. pc[t] = "sleep" /\ now >= call[t].wake
    BY DEF Wake
  <1>4. \A u \in Thread \ {t} : pc'[u] = pc[u] /\ call'[u] = call[u]
    BY DEF IInv, TypeOK, Wake, At
  <1>5. pc'[t] = "store" /\ call'[t].host = call[t].host /\ call'[t].stamp = now
    BY DEF IInv, TypeOK, Wake, At
  <1>6. Inside(h)' = Inside(h)
    BY <1>3, <1>4, <1>5 DEF Inside
  <1>7. GoesOnLate(h)'
    <2>. SUFFICES ASSUME NEW u \in Inside(h)
                  PROVE  /\ pc'[u] = "sleep" => call'[u].wake >= lastSeen[h] + Delay
                         /\ pc'[u] = "store" => call'[u].stamp >= lastSeen[h] + Delay
      BY <1>2, <1>6 DEF GoesOnLate
    <2>1. CASE u = t
      <3>1. call[t].wake >= lastSeen[h] + Delay
        BY <1>1, <1>3, <2>1 DEF Sequential, GoesOnLate
      <3>2. /\ now \in Int /\ call[t].wake \in Int
            /\ lastSeen[h] \in Int /\ Delay \in Int
        BY DelayAssumption DEF IInv, TypeOK, Time, LongPast
      <3>. QED
        BY <1>3, <1>5, <2>1, <3>1, <3>2
    <2>2. CASE u # t
      BY <1>1, <1>4, <2>2 DEF Sequential, GoesOnLate, Inside
    <2>. QED
      BY <2>1, <2>2
  <1>. QED
    BY <1>1, <1>2, <1>6, <1>7 DEF Sequential, Alone, EntryIsNewest, Apart

LEMMA StoreStep ==
  ASSUME IInv, NEW t \in Thread, Store(t), NEW h \in Host, ~overlap'[h]
  PROVE  Sequential(h)'
  <1>. DEFINE g == call[t].host
              stamp == call[t].stamp
  <1>1. Sequential(h)
    BY DEF IInv, Store
  <1>2. g \in Host /\ stamp \in Time /\ stamp \in Int /\ pc[t] = "store"
    BY DEF IInv, TypeOK, Time, Store
  <1>3. /\ lastSeen' = [lastSeen EXCEPT ![g] = stamp]
        /\ starts' = [starts EXCEPT ![g] = Append(@, stamp)]
        /\ pc' = [pc EXCEPT ![t] = "out"]
    BY DEF Store, At
  <1>4. \A u \in Thread \ {t} : pc'[u] = pc[u] /\ call'[u] = call[u]
    BY DEF IInv, TypeOK, Store, At
  <1>5. pc'[t] = "out"
    BY <1>3 DEF IInv, TypeOK
  <1>6. CASE g # h
    <2>1. t \notin Inside(h) /\ Inside(h)' = Inside(h)
      BY <1>4, <1>5, <1>6 DEF Inside
    <2>2. lastSeen'[h] = lastSeen[h] /\ starts'[h] = starts[h]
      BY <1>3, <1>6 DEF IInv, TypeOK
    <2>3. LeavesAlone(h)
      BY <1>4, <2>1, <2>2 DEF LeavesAlone, Inside
    <2>. QED
      BY <1>1, <2>3, UntouchedHost
  <1>7. CASE g = h
    <2>1. Inside(h)' = {}
      BY <1>1, <1>2, <1>4, <1>5, <1>7 DEF Sequential, Alone, Inside
    <2>2. stamp >= lastSeen[h] + Delay
      BY <1>1, <1>2, <1>7 DEF Sequential, GoesOnLate, Inside
    <2>3. lastSeen'[h] = stamp /\ starts'[h] = Append(starts[h], stamp)
      BY <1>2, <1>3, <1>7 DEF IInv, TypeOK
    <2>4. /\ starts[h] \in Seq(Time) /\ Len(starts[h]) \in Nat
          /\ \A i \in 1 .. Len(starts[h]) : starts[h][i] \in Int
      <3>1. starts[h] \in Seq(Time) /\ Time \subseteq Int
        BY DEF IInv, TypeOK, Time
      <3>. QED
        BY <3>1, LenProperties
    <2>5. /\ Len(starts'[h]) = Len(starts[h]) + 1
          /\ starts'[h][Len(starts[h]) + 1] = stamp
          /\ \A i \in 1 .. Len(starts[h]) : starts'[h][i] = starts[h][i]
      BY <1>2, <2>3, <2>4, AppendProperties
    <2>6. lastSeen[h] \in Int /\ Delay \in Nat
      BY DelayAssumption DEF IInv, TypeOK, Time, LongPast
    <2>7. \A i \in 1 .. Len(starts[h]) : starts[h][i] + Delay <= stamp
      BY <1>1, <1>2, <2>2, <2>4, <2>6 DEF Sequential, EntryIsNewest
    <2>8. EntryIsNewest(h)'
      BY <1>2, <2>3, <2>4, <2>5, <2>6, <2>7 DEF EntryIsNewest
    <2>9. Apart(h)'
      <3>. SUFFICES ASSUME NEW i \in 1 .. Len(starts[h]) + 1,
                           NEW j \in 1 .. Len(starts[h]) + 1, i < j
                    PROVE  starts'[h][j] - starts'[h][i] >= Delay
        BY <2>5 DEF Apart
      <3>1. i \in 1 .. Len(starts[h])
        BY <2>4
      <3>2. CASE j \in 1 .. Len(starts[h])
        BY <1>1, <2>5, <3>1, <3>2 DEF Sequential, Apart
      <3>3. CASE j = Len(starts[h]) + 1
        <4>1. starts'[h][j] = stamp /\ starts'[h][i] = starts[h][i]
          BY <2>5, <3>1, <3>3
        <4>2. starts[h][i] + Delay <= stamp /\ starts[h][i] \in Int
          BY <2>4, <2>7, <3>1
        <4>. HIDE DEF stamp
        <4>. QED
          BY <1>2, <2>6, <4>1, <4>2
      <3>. QED
        BY <2>4, <3>2, <3>3
    <2>. QED
      BY <2>1, <2>8, <2>9 DEF Sequential, Alone, GoesOnLate
  <1>. QED
    BY <1>6, <1>7

LEMMA StepIInv == IInv /\ [Next]_vars => IInv'
  <1>. SUFFICES ASSUME IInv, [Next]_vars
                PROVE  IInv'
    OBVIOUS
  <1>1. TypeOK' /\ EnteredBefore'
    BY TypeStep, ClockStep DEF IInv
  <1>2. ASSUME NEW h \in Host, ~overlap'[h]
        PROVE  Sequential(h)'
    <2>1. CASE Tick \/ UNCHANGED vars
      <3>1. UNCHANGED <<lastSeen, pc, call, starts, overlap>>
        BY <2>1 DEF Tick, vars
      <3>. QED
        BY <1>2, <3>1 DEF IInv, Sequential, Alone, EntryIsNewest, GoesOnLate, Apart, Inside
    <2>2. CASE \E t \in Thread, g \in Host : Enter(t, g)
      BY <1>2, <2>2, EnterStep
    <2>3. CASE \E t \in Thread : Look(t) \/ Wake(t) \/ Store(t)
      BY <1>2, <2>3, LookStep, WakeStep, StoreStep
    <2>. QED
      BY <2>1, <2>2, <2>3 DEF Next
  <1>. QED
    BY <1>1, <1>2 DEF IInv

-----------------------------------------------------------------------------
(* Every variable keeps its type.                                           *)
THEOREM TypeCorrect == Spec => []TypeOK
  <1>1. IInv => TypeOK
    BY DEF IInv
  <1>. QED
    BY <1>1, InitIInv, StepIInv, PTL DEF Spec

(* However many threads, hosts and starts: the runs of a host whose calls   *)
(* follow one another start at least the delay apart.                       *)
THEOREM RunsAreSpaced == Spec => []SequentialCallsAreSpaced
  <1>1. IInv => SequentialCallsAreSpaced
    BY DEF IInv, Sequential, SequentialCallsAreSpaced
  <1>. QED
    BY <1>1, InitIInv, StepIInv, PTL DEF Spec
=============================================================================
