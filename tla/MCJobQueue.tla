----------------------------- MODULE MCJobQueue -----------------------------
(* Instances of JobQueue for TLC. *)
EXTENDS JobQueue

CONSTANT Urgent \* the jobs submitted with PRIORITY_URGENT

\* PRIORITY_URGENT = 0, PRIORITY_NORMAL = 5
MCPriority == [j \in Jobs |-> IF j \in Urgent THEN 0 ELSE 5]
=============================================================================
