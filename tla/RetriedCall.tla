----------------------------- MODULE RetriedCall -----------------------------
(***************************************************************************)
(* What a stage of the pipeline may expect of a function it hands to        *)
(* RetryPolicy.run: it is called at most Retries + 1 times, one call after  *)
(* the other, and in the end the stage has the result of one call or an     *)
(* exception, never neither.                                                *)
(***************************************************************************)
EXTENDS Integers

CONSTANT Retries   \* RetryPolicy.retries

VARIABLES attempt,   \* calls that have failed, but for the last
          outcome    \* what RetryPolicy.run has done

vars == <<attempt, outcome>>

Init == attempt = 0 /\ outcome = "pending"

TryAgain == /\ outcome = "pending" /\ attempt < Retries
            /\ attempt' = attempt + 1
            /\ UNCHANGED outcome

Return == /\ outcome = "pending"
          /\ outcome' = "returned"
          /\ UNCHANGED attempt

Raise == /\ outcome = "pending" /\ attempt = Retries
         /\ outcome' = "raised"
         /\ UNCHANGED attempt

Next == TryAgain \/ Return \/ Raise

Spec == Init /\ [][Next]_vars /\ WF_vars(Next)
==============================================================================
