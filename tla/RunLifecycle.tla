---------------------------- MODULE RunLifecycle ----------------------------
(***************************************************************************)
(* What a crawl run promises to whoever polls its status, whatever the      *)
(* number of workers, API threads, crashes and redeliveries behind it:      *)
(*   - a run is queued before it is anything else, and it is seen running   *)
(*     before it is seen completed or failed;                               *)
(*   - a run never returns to queued, and never vanishes;                   *)
(*   - a run becomes completed only once its llms.txt can be served, and    *)
(*     an llms.txt that can be served stays servable.                       *)
(* A finished run may be processed again: the code never forbids it.        *)
(***************************************************************************)
CONSTANT Run

VARIABLES status, artifact
vars == <<status, artifact>>

Started(r) == status[r] \notin {"absent", "queued"}

Init == /\ status = [r \in Run |-> "absent"]
        /\ artifact = [r \in Run |-> FALSE]

Enqueue(r) == /\ status[r] = "absent"
              /\ status' = [status EXCEPT ![r] = "queued"]
              /\ UNCHANGED artifact

Start(r) == /\ status[r] # "absent"
            /\ status' = [status EXCEPT ![r] = "running"]
            /\ UNCHANGED artifact

Publish(r) == /\ Started(r)
              /\ artifact' = [artifact EXCEPT ![r] = TRUE]
              /\ UNCHANGED status

Complete(r) == /\ Started(r)
               /\ artifact[r]
               /\ status' = [status EXCEPT ![r] = "completed"]
               /\ UNCHANGED artifact

Fail(r) == /\ Started(r)
           /\ status' = [status EXCEPT ![r] = "failed"]
           /\ UNCHANGED artifact

Next == \E r \in Run : Enqueue(r) \/ Start(r) \/ Publish(r) \/ Complete(r) \/ Fail(r)

Spec == Init /\ [][Next]_vars
=============================================================================
