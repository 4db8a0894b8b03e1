----------------------------- MODULE JobLifecycle -----------------------------
(***************************************************************************)
(* What the priority job queue promises to the clients of submit(),        *)
(* stated without a heap, a dispatcher, threads or a dead-letter queue:    *)
(* an accepted job is executed at most MaxRetries + 1 times, one execution *)
(* after the other, and settles as "done" after one successful execution   *)
(* or as "dead" once the budget is used up.  Only a dead job can be        *)
(* revived, with a fresh budget.                                           *)
(*                                                                         *)
(* Two things end promises: a queue that is shut down need not settle what *)
(* it has, and once an operator has requeued a job that was not dead,      *)
(* which the code does not prevent, nothing is promised at all.            *)
(***************************************************************************)
EXTENDS Naturals

CONSTANTS Jobs, MaxRetries

VARIABLES phase,  \* phase[j]: "unknown", "pending", "done" or "dead"
          left,   \* left[j]: executions job j may still use
          closed, \* the queue has been shut down
          misused \* an operator has requeued a job that was not dead

vars == <<phase, left, closed, misused>>

Budget == MaxRetries + 1

Init ==
    /\ phase = [j \in Jobs |-> "unknown"]
    /\ left  = [j \in Jobs |-> 0]
    /\ closed = FALSE
    /\ misused = FALSE

\* The queue takes responsibility for j.
Accept(j) ==
    /\ phase[j] = "unknown"
    /\ phase' = [phase EXCEPT ![j] = "pending"]
    /\ left'  = [left  EXCEPT ![j] = Budget]

\* An execution succeeds.
Complete(j) ==
    /\ phase[j] = "pending"
    /\ phase' = [phase EXCEPT ![j] = "done"]
    /\ left'  = [left  EXCEPT ![j] = 0]

\* An execution fails: one unit of the budget is gone, and the last one
\* takes the job with it.
Fail(j) ==
    /\ phase[j] = "pending"
    /\ left'  = [left  EXCEPT ![j] = @ - 1]
    /\ phase' = [phase EXCEPT ![j] = IF left[j] = 1 THEN "dead" ELSE @]

\* An operator brings a dead job back.
Revive(j) ==
    /\ phase[j] = "dead"
    /\ phase' = [phase EXCEPT ![j] = "pending"]
    /\ left'  = [left  EXCEPT ![j] = Budget]

Settle(j) == Complete(j) \/ Fail(j)

Close == closed' = TRUE /\ UNCHANGED <<phase, left>>

\* What the queue does as long as it is used as it should be.
Step ==
    /\ ~misused /\ ~misused'
    /\ \/ (\E j \in Jobs : Accept(j) \/ Settle(j) \/ Revive(j)) /\ UNCHANGED closed
       \/ Close

Misuse == misused' = TRUE

Next == Step \/ Misuse

Spec == Init /\ [][Next]_vars

Owed(j) == Settle(j) /\ UNCHANGED <<closed, misused>> /\ ~closed /\ ~misused

\* With fairness every pending job settles: each failure uses up budget.
FairSpec == Spec /\ \A j \in Jobs : WF_vars(Owed(j))
===============================================================================
