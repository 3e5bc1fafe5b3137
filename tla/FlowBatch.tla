----------------------------- MODULE FlowBatch ------------------------------
(***************************************************************************)
(* What compute_flow_step_rewards promises to the trainer about one batch: *)
(* every trajectory is settled once, in any order; the batch is done only  *)
(* when all are, and it fails only because the flow of one of them raised. *)
(* FlowPool implements it.                                                 *)
(***************************************************************************)
EXTENDS Naturals

CONSTANT Trajs          \* the trajectories of the batch

VARIABLES
    result,             \* [Trajs -> pending, settled or raised]
    batch               \* running, done or failed

vars == <<result, batch>>

TypeOK ==
    /\ result \in [Trajs -> {"pending", "settled", "raised"}]
    /\ batch \in {"running", "done", "failed"}

Init ==
    /\ result = [t \in Trajs |-> "pending"]
    /\ batch = "running"

Settle(t) ==
    /\ batch = "running"
    /\ result[t] = "pending"
    /\ \E v \in {"settled", "raised"} : result' = [result EXCEPT ![t] = v]
    /\ UNCHANGED batch

Done ==
    /\ batch = "running"
    /\ \A t \in Trajs : result[t] = "settled"
    /\ batch' = "done"
    /\ UNCHANGED result

Fail ==
    /\ batch = "running"
    /\ \E t \in Trajs : result[t] = "raised"
    /\ batch' = "failed"
    /\ UNCHANGED result

Next == (\E t \in Trajs : Settle(t)) \/ Done \/ Fail

Spec == Init /\ [][Next]_vars
=============================================================================
