----------------------------- MODULE RateLimiter -----------------------------
(***************************************************************************)
(* HostRateLimiter.wait (core/scheduler.py), which process_run calls before *)
(* the first stage of a run.  The API builds one CrawlPipeline, so all of   *)
(* its threads share one limiter and its dictionary of last requests; a     *)
(* thread can be switched out between any two of the steps below.           *)
(* penalize() has no caller and is left out.                                *)
(***************************************************************************)
EXTENDS Integers, Sequences

CONSTANTS Thread,     \* API threads that process runs
          Host,       \* hosts of the runs
          Delay,      \* per_host_delay_seconds, in ticks
          MaxTime,    \* bound: ticks of the clock
          MaxStarts   \* bound: runs started per host

ASSUME DelayAssumption == Delay \in Nat \ {0}
ASSUME BoundAssumption == MaxTime \in Nat /\ MaxStarts \in Nat

VARIABLES
  now,        \* monotonic()
  lastSeen,   \* _last_seen; a host without an entry has one that is long past
  pc,         \* next step of each thread in wait()
  call,       \* the local variables of each thread's call
  starts,     \* when the runs of each host went on, in the order they did
  overlap     \* hosts for which two calls of wait() have overlapped

vars == <<now, lastSeen, pc, call, starts, overlap>>

LongPast == -Delay
Step == {"out", "look", "sleep", "store"}
Time == 0 .. MaxTime
Inside(h) == {t \in Thread : pc[t] # "out" /\ call[t].host = h}
Begun(h, time) == [host |-> h, entered |-> time, wake |-> time, stamp |-> time]
At(t, step) == pc' = [pc EXCEPT ![t] = step]

Init ==
  /\ now = 0
  /\ lastSeen = [h \in Host |-> LongPast]
  /\ pc = [t \in Thread |-> "out"]
  /\ call \in [Thread -> {Begun(h, 0) : h \in Host}]
  /\ starts = [h \in Host |-> <<>>]
  /\ overlap = [h \in Host |-> FALSE]

Tick == /\ now < MaxTime
        /\ now' = now + 1
        /\ UNCHANGED <<lastSeen, pc, call, starts, overlap>>

(* now = monotonic()                                                        *)
Enter(t, h) ==
  /\ pc[t] = "out"
  /\ Len(starts[h]) < MaxStarts
  /\ call' = [call EXCEPT ![t] = Begun(h, now)]
  /\ overlap' = [overlap EXCEPT ![h] = @ \/ Inside(h) # {}]
  /\ At(t, "look")
  /\ UNCHANGED <<now, lastSeen, starts>>

(* How long the call sleeps, given the last request it found.               *)
MutWaitFor(c, last) == Delay - 1 - (c.entered - last)   \* seeded bug: a tick short
WaitFor(c, last) == Delay - (c.entered - last)

(* last = self._last_seen.get(host); sleep(wait_for) if that is positive.   *)
Look(t) ==
  LET due == WaitFor(call[t], lastSeen[call[t].host])
  IN  /\ pc[t] = "look"
      /\ call' = [call EXCEPT ![t].wake = IF due > 0 THEN now + due ELSE now]
      /\ At(t, "sleep")
      /\ UNCHANGED <<now, lastSeen, starts, overlap>>

(* The sleep is over, a moment or more later; monotonic() is read.          *)
Wake(t) ==
  /\ pc[t] = "sleep"
  /\ now >= call[t].wake
  /\ call' = [call EXCEPT ![t].stamp = now]
  /\ At(t, "store")
  /\ UNCHANGED <<now, lastSeen, starts, overlap>>

(* self._last_seen[host] = ..., and the run goes on to its first request.   *)
Store(t) ==
  LET h == call[t].host
  IN  /\ pc[t] = "store"
      /\ lastSeen' = [lastSeen EXCEPT ![h] = call[t].stamp]
      /\ starts' = [starts EXCEPT ![h] = Append(@, call[t].stamp)]
      /\ call' = [call EXCEPT ![t] = Begun(h, 0)]
      /\ At(t, "out")
      /\ UNCHANGED <<now, overlap>>

Next == \/ Tick
        \/ \E t \in Thread, h \in Host : Enter(t, h)
        \/ \E t \in Thread : Look(t) \/ Wake(t) \/ Store(t)

Spec == Init /\ [][Next]_vars

-----------------------------------------------------------------------------
(* The clock is bounded, so stamps are; a wake time may lie beyond it.      *)
TypeOK ==
  /\ now \in Time
  /\ lastSeen \in [Host -> Time \union {LongPast}]
  /\ pc \in [Thread -> Step]
  /\ call \in [Thread -> [host : Host, entered : Time, wake : Nat, stamp : Time]]
  /\ starts \in [Host -> Seq(Time)]
  /\ overlap \in [Host -> BOOLEAN]

Apart(h) == \A i, j \in 1 .. Len(starts[h]) :
              i < j => starts[h][j] - starts[h][i] >= Delay

(* As long as the calls for a host follow one another, whichever threads    *)
(* make them and whatever they do for other hosts meanwhile, its runs start *)
(* at least the delay apart.                                                *)
SequentialCallsAreSpaced == \A h \in Host : ~overlap[h] => Apart(h)
==============================================================================
