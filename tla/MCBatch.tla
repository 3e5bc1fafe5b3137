------------------------------ MODULE MCBatch ------------------------------
(* Small instances of Batch for TLC. *)
EXTENDS Batch

Row(i, u, t) ==
    [id |-> i, uid |-> u, traj |-> t, obs |-> 1, next |-> 3, reward |-> 0, score |-> 0, valid |-> TRUE,
     flow |-> 0, cut |-> 0, len |-> 1, resp |-> 1, ret |-> 0, value |-> 0, logp |-> 0, adv |-> <<0, 1>>]

\* Rows of trajectories of[1], of[2], ..., two trajectories to a group.
Rows(of) == [i \in DOMAIN of |-> Row(i, (of[i] + 1) \div 2, of[i])]

\* A trajectory in won is paid for its last step.
Scored(b, won) ==
    [i \in DOMAIN b |->
        [b[i] EXCEPT !.score = IF b[i].traj \in won THEN 10 ELSE 0,
                     !.reward = IF b[i].traj \in won /\ \A j \in DOMAIN b : b[j].traj = b[i].traj => j <= i
                                THEN 8 ELSE 0]]

\* The next state of a row is where its trajectory's next row is; the last one
\* ends at the goal or elsewhere.
Linked(b) ==
    [i \in DOMAIN b |->
        LET later == {j \in DOMAIN b : b[j].traj = b[i].traj /\ j > i}
        IN  [b[i] EXCEPT !.next = IF later # {} THEN b[Min(later)].obs
                                  ELSE IF b[i].score > 0 THEN Goal ELSE 3]]

Decorated(b, invalid, used, blamed, seen, long) ==
    Linked([i \in DOMAIN b |->
        [b[i] EXCEPT !.valid = i \notin invalid,
                     !.flow = IF i \in used THEN 2 ELSE 0,
                     !.cut = IF i \in blamed THEN -1 ELSE 0,
                     !.obs = IF i \in seen THEN 2 ELSE 1,
                     !.len = IF i \in long THEN 5 ELSE (i % 3) + 1,
                     !.resp = IF i \in long THEN 2 ELSE 1]])

Small ==
    {Decorated(Scored(Rows(of), won), invalid, used, {3}, {2}, long) :
        of \in {<<1, 1, 2>>, <<1, 2, 2, 2>>}, won \in {{1}, {2}},
        invalid \in {{}, {1}, {2}}, used \in {{}, {2}}, long \in {{}, {1}}}

Large ==
    {Decorated(Scored(Rows(<<1, 1, 2, 3, 4, 4>>), won), invalid, {2}, {6}, {2, 5}, {3}) :
        won \in {{1, 4}}, invalid \in {{}, {2, 4}}}

\* Ten rows of five trajectories, the third group with one.
Wide ==
    {Decorated(Scored(Rows(<<1, 1, 2, 3, 3, 4, 4, 5, 5, 5>>), {1, 4, 5}), {3, 6}, {2}, {7}, {2, 9}, {1, 8})}

Single == {Rows(<<1>>)}

MCBatches == Small \cup Large \cup Wide \cup Single

Base == [trainer |-> "recipe", estimator |-> "obliflow", penalty |-> TRUE, balance |-> TRUE,
         padded |-> FALSE, dynamic |-> FALSE, tokens |-> 6, multiModal |-> FALSE,
         refMicro |-> 1, rolloutMicro |-> 1, actorMicro |-> 2, criticMicro |-> 2, mini |-> 8,
         unset |-> {}, agg |-> "seq-mean-token-mean"]

\* Mini-batches of 2 on each rank, of micro-batches of 2.
Pictures == [Base EXCEPT !.multiModal = TRUE, !.mini = 4]

\* Mini-batches of 5 rows, which is 2 on each rank.
OddPictures == [Pictures EXCEPT !.mini = 5, !.agg = "seq-mean-token-sum"]

MCConfigs ==
    {Base, [Base EXCEPT !.dynamic = TRUE], [Base EXCEPT !.dynamic = TRUE, !.agg = "token-mean"],
     [Base EXCEPT !.actorMicro = 1, !.balance = FALSE, !.agg = "seq-mean-token-sum-norm"],
     [Base EXCEPT !.balance = FALSE, !.penalty = FALSE]}
    \cup {OddPictures, [OddPictures EXCEPT !.padded = TRUE], [Pictures EXCEPT !.dynamic = TRUE]}
    \cup {[Pictures EXCEPT !.estimator = "gae", !.padded = p] : p \in BOOLEAN}
    \cup {[Base EXCEPT !.unset = {"ref"}, !.balance = FALSE], [Pictures EXCEPT !.unset = {"actor"}]}
    \cup {[Base EXCEPT !.estimator = e, !.trainer = t] : e \in {"grpo", "gigpo"}, t \in {"recipe", "verl"}}
    \cup {[Base EXCEPT !.estimator = e] : e \in {"hgpo", "graphgpo"}}
    \cup {[Base EXCEPT !.estimator = "gae", !.trainer = t, !.padded = p] : t \in {"recipe", "verl"}, p \in BOOLEAN}
=============================================================================
