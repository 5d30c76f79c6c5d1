----------------------------- MODULE MCWorkerLoops -----------------------------
(* WorkerLoops for TLC: the invalid message is the second tenant's. *)
EXTENDS WorkerLoops

CONSTANTS m1, m2
TwoTenants == [m \in Messages |-> IF m = m1 THEN 1 ELSE 2]
================================================================================
