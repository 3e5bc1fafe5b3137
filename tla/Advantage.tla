----------------------------- MODULE Advantage -----------------------------
(***************************************************************************)
(* Advantages of the rows of a batch, one row per step of a trajectory: of *)
(* ObliFlow (obli_flow/core_obliflow.py), GRPO (verl's core_algos.py),     *)
(* GiGPO (gigpo/core_gigpo.py), HGPO (recipe/hgpo/core_hgpo.py) and        *)
(* GraphGPO (recipe/GraphGPO/core_graph.py), in mean_norm.  The other mode *)
(* divides by a positive number of the group.  A number is a fraction      *)
(* <<n, d>> with d > 0.  A response is one token: a row's reward is the    *)
(* sum of its tokens'.                                                     *)
(***************************************************************************)
EXTENDS Integers, Sequences, FiniteSets, FiniteSetsExt, Folds, Functions

Plus(x, y) == <<x[1] * y[2] + y[1] * x[2], x[2] * y[2]>>
Times(x, n) == <<n * x[1], x[2]>>
Same(x, y) == x[1] * y[2] = y[1] * x[2]
Less(x, y) == x[1] * y[2] < y[1] * x[2]

\* value minus the mean of others, a function.
Centred(value, others) ==
    LET n == Cardinality(DOMAIN others)
    IN  <<n * value - SumFunction(others), n>>

Scores(b, S) == [j \in S |-> b[j].score]
Rets(b, S) == [j \in S |-> b[j].ret]

GroupOf(b, i) == {j \in DOMAIN b : b[j].uid = b[i].uid}

-----------------------------------------------------------------------------
(* compute_obliflow_outcome_advantage *)

\* Mutant: the last row speaks for the trajectory.
LastRow(b, i) == Max({j \in DOMAIN b : b[j].uid = b[i].uid /\ b[j].traj = b[i].traj})

\* The row that speaks for a trajectory: its first one in the batch.
FirstRow(b, i) == Min({j \in DOMAIN b : b[j].uid = b[i].uid /\ b[j].traj = b[i].traj})

\* Mutant: the advantages are handed out in another order than the scores
\* were collected in.
TrajectoryAdvantageShuffled(b, i) ==
    LET rows == {FirstRow(b, j) : j \in GroupOf(b, i)}
        other == rows \ {FirstRow(b, i)}
        row == IF other = {} THEN FirstRow(b, i) ELSE Min(other)
    IN  Centred(b[row].score, Scores(b, rows))

\* _trajectory_advantages, over the trajectories of the group.
TrajectoryAdvantage(b, i) ==
    Centred(b[FirstRow(b, i)].score, Scores(b, {FirstRow(b, j) : j \in GroupOf(b, i)}))

\* All of a group's trajectory advantages have the same denominator, so that
\* raw scores are compared by numerator.
ObliFlowAdvantage(b, i, alpha, beta) ==
    LET raw(j) == LET t == TrajectoryAdvantage(b, j)
                  IN  t[1] + t[2] * (alpha * b[j].flow + beta * b[j].cut)
        all == Centred(raw(i), [j \in GroupOf(b, i) |-> raw(j)])
    IN  <<all[1], all[2] * TrajectoryAdvantage(b, i)[2]>>

-----------------------------------------------------------------------------
(* compute_grpo_outcome_advantage, episode_norm_reward: over the rows of the *)
(* group, a single row compared with 0.                                      *)

GrpoAdvantage(b, i) ==
    IF GroupOf(b, i) = {i} THEN <<b[i].score, 1>>
    ELSE Centred(b[i].score, Scores(b, GroupOf(b, i)))

-----------------------------------------------------------------------------
(* GiGPO *)

\* compute_step_discounted_returns, with gamma = 1/2: the rows of one
\* trajectory from the last to the first.  Bound: rewards are multiples of a
\* power of two that is large enough.
StepReturns(b) ==
    LET later(i) == {j \in DOMAIN b : b[j].traj = b[i].traj /\ j > i}
        return[i \in DOMAIN b] ==
            b[i].reward + (IF later(i) = {} THEN 0 ELSE return[Min(later(i))] \div 2)
    IN  return

\* build_step_group without similarity: rows of the group with one anchor.
StepGroup(b, i) == {j \in GroupOf(b, i) : b[j].obs = b[i].obs}

\* step_norm_reward; a single row is compared with itself.
GigpoAdvantage(b, i, weight) ==
    Plus(GrpoAdvantage(b, i),
         Times(Centred(b[i].ret, Rets(b, StepGroup(b, i))), weight))

-----------------------------------------------------------------------------
(* HGPO *)

\* The states of row i's trajectory up to i.
Trail(b, i) ==
    LET rows == SelectSeq([j \in 1..i |-> j], LAMBDA j : b[j].uid = b[i].uid /\ b[j].traj = b[i].traj)
    IN  [n \in DOMAIN rows |-> b[rows[n]].obs]

Recent(s, k) == SubSeq(s, Len(s) - k + 1, Len(s))

\* The rows of the group that come from the same k states; k = 1 is the step
\* group.
Cluster(b, i, k) ==
    {j \in GroupOf(b, i) : /\ Len(Trail(b, j)) >= k
                           /\ Recent(Trail(b, j), k) = Recent(Trail(b, i), k)}

\* aggregate_items with length_weight_alpha = 1: the mean over the clusters
\* that have other rows, a cluster of k states weighing k + 1; an advantage of
\* 0 has no weight.  base_group is off.
HgpoAdvantage(b, i, history) ==
    LET of(k) == Centred(b[i].ret, Rets(b, Cluster(b, i, k)))
        ks == {k \in 1..(history + 1) : /\ k <= Len(Trail(b, i))
                                        /\ Cardinality(Cluster(b, i, k)) > 1
                                        /\ of(k)[1] # 0}
        all == MapThenFoldSet(Plus, <<0, 1>>, LAMBDA k : Times(of(k), k + 1), LAMBDA S : Min(S), ks)
    IN  IF ks = {} THEN <<0, 1>>
        ELSE <<all[1], all[2] * MapThenSumSet(LAMBDA k : k + 1, ks)>>

-----------------------------------------------------------------------------
(* GraphGPO *)

\* gather_rollout_data's next observation of the last step of a won episode.
Goal == 0

\* Mutant: the reverse graph is not reversed.
EdgesForward(b, i) == {<<b[j].next, b[j].obs>> : j \in GroupOf(b, i)}

\* from_data: the steps of a group's trajectories, as edges between states.
Edges(b, i) == {<<b[j].obs, b[j].next>> : j \in GroupOf(b, i)}

\* all_to_target_shortest_paths: steps to the goal; a state from which nobody
\* reached it counts as one step farther than the farthest.
Distances(edges) ==
    LET nodes == {e[1] : e \in edges} \cup {e[2] : e \in edges} \cup {Goal}
        within[n \in 0..Cardinality(nodes)] ==
            IF n = 0 THEN {Goal}
            ELSE within[n - 1] \cup {e[1] : e \in {e \in edges : e[2] \in within[n - 1]}}
        steps(v) == {n \in DOMAIN within : v \in within[n]}
        farthest == Max({Min(steps(v)) : v \in {v \in nodes : steps(v) # {}}})
    IN  [v \in nodes |-> IF steps(v) = {} THEN farthest + 1 ELSE Min(steps(v))]

\* compute_graph_path_returns with gamma = 1/2, in units of 10/32.  Bound: no
\* distance is above 5.
PathReturns(b) == [i \in DOMAIN b |-> 32 \div 2 ^ Distances(Edges(b, i))[b[i].next]]

\* compute_graphgpo_outcome_advantage
GraphgpoAdvantage(b, i, stepWeight, episodeWeight) ==
    Plus(Times(Centred(b[i].ret, Rets(b, StepGroup(b, i))), stepWeight),
         Times(GrpoAdvantage(b, i), episodeWeight))

-----------------------------------------------------------------------------
(* compute_gae_advantage_return: for a response of one token the difference *)
(* of reward and value, whitened over the whole batch.                      *)

GaeAdvantage(b, i) ==
    Centred(b[i].score - b[i].value, [j \in DOMAIN b |-> b[j].score - b[j].value])
=============================================================================
