----------------------------- MODULE MCFlowPool -----------------------------
(* Small instances of FlowPool for TLC: the first two trajectories share a *)
(* task and have done the same, the third has a task of its own.           *)
EXTENDS FlowPool

CONSTANTS Shared, Own, w1

MCTaskOf == [t \in 1..N |-> IF t <= 2 THEN Shared ELSE Own]
MCLogOf == [t \in 1..N |-> IF t <= 2 THEN Shared ELSE Own]

\* All threads and rules to fall back to.
WithFallback == [threads : {Workers}, fallback : {TRUE}, key : BOOLEAN, file : BOOLEAN]

\* All threads without rules, and the default without a pool.
Both == [threads : {Workers}, fallback : {FALSE}, key : BOOLEAN, file : BOOLEAN]
        \cup [threads : {{w1}}, fallback : {TRUE}, key : BOOLEAN, file : BOOLEAN]
=============================================================================
