------------------------------ MODULE Rollout ------------------------------
(***************************************************************************)
(* One training rollout: multi_turn_loop drives TrainBatch groups of       *)
(* GroupN environments in lock step, repeats the whole rollout while       *)
(* dynamic sampling has kept too few groups, and flattens what it kept     *)
(* into labelled rows.  An environment that is done is still stepped until *)
(* the others are: masks, not the loop, keep its extra steps out.          *)
(***************************************************************************)
EXTENDS Integers, FiniteSets, SequencesExt

CONSTANTS
    GroupN,         \* env.rollout.n: environments in a group
    Configs         \* the settings of a job, see below

ASSUME ConfigsAssumption ==
    /\ GroupN \in Nat \ {0}
    /\ \A c \in Configs :
          /\ {c.filter, c.kwargs} \subseteq BOOLEAN
          /\ {c.trainBatch, c.maxSteps} \subseteq Nat \ {0}
          /\ c.maxTries \in Int
          /\ c.outcomes # {}
          /\ c.outcomes \subseteq [reward : Int, done : BOOLEAN, won : BOOLEAN]

SuccessRate == "success_rate"
NoGame == "no game"

VARIABLES
    config,     \* the configuration; never changes
    pc,         \* loop, step, evaluate, done or raised
    try,        \* try_count
    envKwargs,  \* gen_batch still holds env_kwargs
    game,       \* [group -> the type of the game it plays in this try]
    isDone,     \* is_done
    reward,     \* episode_rewards
    length,     \* episode_lengths
    rows,       \* total_batch_list, with total_infos, of this try
    total,      \* the lists accumulated over the tries, index by index
    success,    \* total_success: one dictionary for each try
    output,     \* effective_batch
    rates       \* success_rate of gather_rollout_data: [key -> <<won, of>>]

attempt == <<game, isDone, reward, length, rows>>
result == <<output, rates>>
vars == <<config, pc, try, envKwargs, attempt, total, success, result>>

TrainBatch == config.trainBatch     \* data.train_batch_size: prompts, one group for each
MaxSteps == config.maxSteps         \* env.max_steps
MaxTries == config.maxTries         \* algorithm.filter_groups.max_num_gen_batches
Games == config.games               \* the task types that have a success key of their own
Outcomes == config.outcomes         \* what one environment may answer to one action

B == TrainBatch * GroupN
Envs == 1..B
GroupOf(e) == (e - 1) \div GroupN
Groups == {GroupOf(e) : e \in Envs}

\* algorithm.filter_groups.enable
FilterGroups == config.filter

\* The environment's reset needs env_kwargs (search).
NeedsKwargs == config.kwargs

Init ==
    /\ config \in Configs
    /\ pc = "loop"
    /\ try = 0
    /\ envKwargs = TRUE
    /\ game = [g \in Groups |-> NoGame]
    /\ isDone = [e \in Envs |-> FALSE]
    /\ reward = [e \in Envs |-> 0]
    /\ length = [e \in Envs |-> 0]
    /\ rows = [e \in Envs |-> <<>>]
    /\ total = [rows |-> <<>>, reward |-> <<>>, length |-> <<>>, traj |-> <<>>]
    /\ success = <<>>
    /\ output = <<>>
    /\ rates = <<>>

-----------------------------------------------------------------------------
(* One try: vanilla_multi_turn_loop.                                        *)

\* Fresh uuids: a trajectory and a group are new in every try.
TrajUid(e) == <<try, e>>
Uid(e) == <<try, GroupOf(e)>>

\* Mutant: dynamic_multi_turn_loop stops one short of the target.
KeepSamplingShort ==
    IF FilterGroups THEN Len(total.rows) < B - GroupN /\ try < MaxTries ELSE try = 0

KeepSampling ==
    IF FilterGroups THEN Len(total.rows) < B /\ try < MaxTries ELSE try = 0

\* Every environment of a group is seeded alike: they play the same game.
Reset ==
    /\ pc = "loop" /\ KeepSampling
    /\ NeedsKwargs => envKwargs
    /\ try' = try + 1
    /\ envKwargs' = FALSE
    /\ game' \in [Groups -> IF Games = {} THEN {NoGame} ELSE Games]
    /\ isDone' = [e \in Envs |-> FALSE]
    /\ reward' = [e \in Envs |-> 0]
    /\ length' = [e \in Envs |-> 0]
    /\ rows' = [e \in Envs |-> <<>>]
    /\ pc' = "step"
    /\ UNCHANGED <<config, total, success, result>>

\* env_kwargs was popped by the first try: reset(kwargs=None) raises.
ResetFails ==
    /\ pc = "loop" /\ KeepSampling
    /\ NeedsKwargs /\ ~envKwargs
    /\ try' = try + 1
    /\ pc' = "raised"
    /\ UNCHANGED <<config, envKwargs, attempt, total, success, result>>

\* Mutant: an environment's reward is added without its mask.
MaskedLate(active, value, old) == value

Masked(active, value, old) == IF active THEN value ELSE old

TryOver(done, recorded) == (\A e \in Envs : done[e]) \/ recorded = MaxSteps

\* envs.step on the whole batch; a row is recorded for every environment.
Step ==
    /\ pc = "step"
    /\ \E out \in [Envs -> Outcomes] :
          LET active == [e \in Envs |-> ~isDone[e]]
          IN  /\ reward' = [e \in Envs |->
                     Masked(active[e], reward[e] + out[e].reward, reward[e])]
              /\ length' = [e \in Envs |-> Masked(active[e], length[e] + 1, length[e])]
              /\ rows' = [e \in Envs |->
                     Append(rows[e], [traj |-> TrajUid(e), uid |-> Uid(e),
                                      step |-> Len(rows[e]), active |-> active[e],
                                      reward |-> out[e].reward, won |-> out[e].won])]
              /\ isDone' = [e \in Envs |-> isDone[e] \/ out[e].done]
    /\ pc' = IF TryOver(isDone', Len(rows'[1])) THEN "evaluate" ELSE "step"
    /\ UNCHANGED <<config, try, envKwargs, game, total, success, result>>

-----------------------------------------------------------------------------
(* The end of a try: success_evaluator and filter_group_data.               *)

\* Mutant: success_evaluator reads the last row, active or not.
LastActiveAny(s) == Len(s)

LastActive(s) == CHOOSE i \in DOMAIN s :
    s[i].active /\ \A j \in DOMAIN s : s[j].active => j <= i

Won(e) == rows[e][LastActive(rows[e])].won

\* The environments of S in their order.
InOrder(S) ==
    [i \in 1..Cardinality(S) |-> CHOOSE e \in S : Cardinality({f \in S : f <= e}) = i]

EnvsOfKey(key) == InOrder({e \in Envs : key = SuccessRate \/ game[GroupOf(e)] = key})

Keys == {SuccessRate} \cup ({game[g] : g \in Groups} \ {NoGame})

\* success_evaluator: a list for each key, one entry for each environment of it.
Evaluated == [key \in Keys |->
    LET members == EnvsOfKey(key) IN [k \in DOMAIN members |-> Won(members[k])]]

\* A group is kept when its episodes were not all rewarded alike.
Mixed(g) == \E e, f \in Envs :
    GroupOf(e) = g /\ GroupOf(f) = g /\ reward[e] # reward[f]

LastTry == ~FilterGroups \/ try = MaxTries

\* Mutant: filter_group_data keeps single episodes, not groups.
KeepIndicesOfEpisodes ==
    InOrder(IF LastTry THEN Envs ELSE {e \in Envs : reward[e] > 0})

KeepIndices ==
    InOrder(IF LastTry THEN Envs ELSE {e \in Envs : Mixed(GroupOf(e))})

\* numpy indexing: values[keep_indices]
At(values, indices) == [k \in DOMAIN indices |-> values[indices[k]]]

\* Only the keys that every environment contributed to can be indexed.
FilteredSuccess ==
    IF LastTry THEN Evaluated
    ELSE LET whole == {key \in Keys : Len(Evaluated[key]) = B}
         IN  [key \in whole |-> At(Evaluated[key], KeepIndices)]

\* Mutant: a try that keeps nothing is taken back.
EvaluateUncounted ==
    /\ pc = "evaluate"
    /\ pc' = "loop"
    /\ IF KeepIndices = <<>>
       THEN try' = try - 1 /\ UNCHANGED <<total, success>>
       ELSE /\ try' = try
            /\ total' = [rows |-> total.rows \o At(rows, KeepIndices),
                         reward |-> total.reward \o At(reward, KeepIndices),
                         length |-> total.length \o At(length, KeepIndices),
                         traj |-> total.traj \o
                                      At([e \in Envs |-> TrajUid(e)], KeepIndices)]
            /\ success' = Append(success, FilteredSuccess)
    /\ UNCHANGED <<config, envKwargs, attempt, result>>

Evaluate ==
    /\ pc = "evaluate"
    /\ total' = [rows |-> total.rows \o At(rows, KeepIndices),
                 reward |-> total.reward \o At(reward, KeepIndices),
                 length |-> total.length \o At(length, KeepIndices),
                 traj |-> total.traj \o At([e \in Envs |-> TrajUid(e)], KeepIndices)]
    /\ success' = Append(success, FilteredSuccess)
    /\ pc' = "loop"
    /\ UNCHANGED <<config, try, envKwargs, attempt, result>>

-----------------------------------------------------------------------------
(* The end of the rollout: the concatenations and gather_rollout_data.      *)

\* np.concatenate([]) raises, and so does a key of the first try that a
\* later one lacks.
Concatenable ==
    /\ success # <<>>
    /\ \A i \in DOMAIN success : DOMAIN success[1] \subseteq DOMAIN success[i]

Concatenated == [key \in DOMAIN success[1] |->
    FlattenSeq([i \in DOMAIN success |-> success[i][key]])]

Rate(wons) == <<Cardinality({k \in DOMAIN wons : wons[k]}), Len(wons)>>

\* total_batch_list[bs][i - 1]: the row before the first is the last.
Before(s, i) == s[IF i = 1 THEN Len(s) ELSE i - 1]

RowOf(k, i, label) ==
    LET row == total.rows[k][i]
    IN  [traj |-> row.traj, uid |-> row.uid, step |-> row.step,
         reward |-> row.reward, won |-> row.won,
         episodeReward |-> total.reward[k], episodeLength |-> total.length[k],
         success |-> label]

\* Mutant: only a trajectory that ran to the last step of the try is labelled.
GatherRowUnlabelled(gathered, k, i) ==
    IF total.rows[k][i].active
    THEN Append(gathered, RowOf(k, i, total.reward[k] > 0 /\ i = Len(total.rows[k])))
    ELSE gathered

\* The body of gather_rollout_data's inner loop, for row i of trajectory k.
GatherRow(gathered, k, i) ==
    LET rewarded == total.reward[k] > 0
    IN  IF total.rows[k][i].active
        THEN Append(gathered, RowOf(k, i, rewarded /\ i = Len(total.rows[k])))
        ELSE IF rewarded /\ Before(total.rows[k], i).active
        THEN [gathered EXCEPT ![Len(gathered)].success = TRUE]
        ELSE gathered

GatherTrajectory(gathered, k) ==
    LET after[i \in 0..Len(total.rows[k])] ==
            IF i = 0 THEN gathered ELSE GatherRow(after[i - 1], k, i)
    IN  after[Len(total.rows[k])]

Gathered ==
    LET after[k \in 0..Len(total.rows)] ==
            IF k = 0 THEN <<>> ELSE GatherTrajectory(after[k - 1], k)
    IN  after[Len(total.rows)]

Gather ==
    /\ pc = "loop" /\ ~KeepSampling
    /\ Concatenable
    /\ rates' = [key \in DOMAIN Concatenated |-> Rate(Concatenated[key])]
    /\ output' = Gathered
    /\ pc' = "done"
    /\ UNCHANGED <<config, try, envKwargs, attempt, total, success>>

GatherFails ==
    /\ pc = "loop" /\ ~KeepSampling
    /\ ~Concatenable
    /\ pc' = "raised"
    /\ UNCHANGED <<config, try, envKwargs, attempt, total, success, result>>

Next == Reset \/ ResetFails \/ Step \/ Evaluate \/ Gather \/ GatherFails

Spec == Init /\ [][Next]_vars

\* The driver is one thread that never waits for a condition.
FairSpec == Spec /\ WF_vars(Next)

-----------------------------------------------------------------------------
(* Properties.                                                              *)

Trajs == {output[i].traj : i \in DOMAIN output}
RowsOf(t) == {i \in DOMAIN output : output[i].traj = t}
LastRow(t) == output[Max(RowsOf(t))]
RewardOf(t) == LastRow(t).episodeReward
UidOf(t) == LastRow(t).uid

\* What training reads of a trajectory is whole and its own: its rows are
\* steps 0, 1, ... without a gap, as many as its episode length, and their
\* rewards add up to its episode reward, whatever the environment answered
\* after it was done and whatever the filter removed around it
\* (rollout_loop.py, vanilla_multi_turn_loop to gather_rollout_data).
OutputWhole ==
    pc = "done" => \A t \in Trajs :
        LET mine == RowsOf(t)
            first == Min(mine)
        IN  /\ mine = first..(first + Cardinality(mine) - 1)
            /\ \A i \in mine :
                  /\ output[i].step = i - first
                  /\ output[i].episodeLength = Cardinality(mine)
                  /\ output[i].episodeReward = SumFunction([j \in mine |-> output[j].reward])

\* gather_rollout_data labels the last active row of each rewarded
\* trajectory 'success', and no row else: the label is written through
\* effective_batch[-1], which must still be that trajectory's.
LabelsOfOutput ==
    \A t \in Trajs :
        \A i \in RowsOf(t) :
            output[i].success <=> RewardOf(t) > 0 /\ i = Max(RowsOf(t))

\* The success rate is that of the trajectories handed to training, each
\* judged by its own last active step (success_evaluator, base.py).
RateOfOutput ==
    rates[SuccessRate] =
        <<Cardinality({t \in Trajs : LastRow(t).won}), Cardinality(Trajs)>>

\* What is called a success is one: the label that GraphGPO's graph and the
\* flow graph read, and the rate that is reported.
SuccessLabelled == pc = "done" => LabelsOfOutput /\ RateOfOutput

\* Advantages are taken within a group: every group handed to training has
\* its GroupN trajectories, and under dynamic sampling only the last try
\* may contribute one whose rewards are all alike (filter_group_data).
GroupsWhole ==
    pc = "done" => \A t \in Trajs :
        LET mates == {s \in Trajs : UidOf(s) = UidOf(t)}
        IN  /\ Cardinality(mates) = GroupN
            /\ (FilterGroups /\ UidOf(t)[1] < MaxTries)
                   => \E s \in mates : RewardOf(s) # RewardOf(t)

\* "until a target batch size is met": training never gets fewer
\* trajectories than the target, and always fewer than twice as many.
TargetMet ==
    pc = "done" => /\ Cardinality(Trajs) >= B
                   /\ Cardinality(Trajs) <= IF FilterGroups THEN 2 * B - GroupN ELSE B

\* "Keeps sampling until the desired number of effective trajectories is
\* collected": the rollout does not die between two tries.
NeverRaises == pc # "raised"

\* The rollout ends, however often dynamic sampling discards everything.
Ends == <>(pc \in {"done", "raised"})
=============================================================================
