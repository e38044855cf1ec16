-------------------------- MODULE MetricsProperties --------------------------
(***************************************************************************)
(* What the metrics tell, against the tables they tell of.                  *)
(***************************************************************************)
EXTENDS Metrics, CrawlPipelineProperties

Owed(c) == Cardinality({p \in Process : c \in due[p]})
(* How often c is called once every process has made its calls.             *)
Told(c) == IF c \in Call THEN calls[c] + Owed(c) ELSE 0

(* The value of the up-down counter of a state: it goes up with every       *)
(* transition that enters the state and down with every one that leaves it. *)
SumOf(f) == f["absent"] + f["queued"] + f["processing"] + f["completed"] + f["failed"]
Entered(s) == SumOf([o \in ItemState |-> Told(<<"state", o, s>>)])
Left(s) == SumOf([o \in ItemState |-> Told(<<"state", s, o>>)])
Gauge(s) == Entered(s) - Left(s)

Lost(b) == used[b] > 0

(* "Current number of work items in each processing state": the counter     *)
(* agrees with the table through overlapping executions and database errors *)
(* as long as no process has died.                                          *)
GaugeMatchesTable ==
  ~Lost("crash") /\ ~Lost("api_crash") =>
    \A s \in ItemState \ {"absent"} : Gauge(s) = Cardinality({k \in DOMAIN items : items[k] = s})

(* A run counted as a success has five stages counted as successes, none of *)
(* them for two runs, whoever ran them.                                     *)
SuccessesAddUp ==
  \A s \in Stage : calls[<<"run", "success">>] <= calls[<<"stage", s, "success">>]

=============================================================================
