------------------------------- MODULE Batch -------------------------------
(***************************************************************************)
(* What fit does with the rows of one batch between rollout and update:    *)
(* returns, values, penalties, advantages, copies to make it divide,       *)
(* balancing, log probabilities and the update, by the trainers of the     *)
(* recipes and by verl's own, which takes the stages in another order.     *)
(* Ranks compute their shares in micro-batches and at their own pace.      *)
(***************************************************************************)
EXTENDS Advantage, Balance, DataProto

CONSTANTS
    World,          \* ranks of a worker group
    Batches,        \* the batches a rollout may return
    Configs,        \* the settings of a job
    Alpha, Beta,    \* algorithm.obliflow.alpha and beta
    StepWeight,     \* algorithm.gigpo.step_advantage_w
    EpisodeWeight,  \* algorithm.gigpo.episode_advantage_w, for GraphGPO
    HistoryLength,  \* env.history_length, for HGPO
    Penalty         \* invalid_action_penalty_coef

\* The columns of a row.  id is its place in the rollout's batch, ret its
\* return, len its tokens and resp those of its response; value, logp and adv
\* are what workers and driver add.
Columns == {"id", "uid", "traj", "obs", "next", "reward", "score", "valid", "flow", "cut",
            "len", "resp", "ret", "value", "logp", "adv"}

\* loss_agg_mode: how a micro-batch's losses become one.
Aggregations ==
    {"token-mean", "seq-mean-token-mean", "seq-mean-token-sum", "seq-mean-token-sum-norm"}

ASSUME WorldAssumption == World \in Nat \ {0}
ASSUME BatchAssumption ==
    \A b \in Batches :
        /\ b # << >> /\ b \in Seq(ToSet(b))
        /\ \A i, j \in DOMAIN b : b[i].traj = b[j].traj => b[i].uid = b[j].uid
        /\ \A i \in DOMAIN b :
              /\ DOMAIN b[i] = Columns
              /\ b[i].id = i /\ b[i].value = 0 /\ b[i].logp = 0
              /\ b[i].len \in Nat \ {0} /\ b[i].resp \in 1..b[i].len
              /\ {b[i].score, b[i].flow, b[i].cut} \subseteq Int

ASSUME WeightAssumption == {Alpha, Beta, StepWeight, EpisodeWeight, Penalty} \subseteq Int

\* fsdp_workers.py:152-160: a rank's mini-batch is not empty and its
\* micro-batches divide it.  verl's own trainer (ray_trainer.py:84-96) does
\* not know the estimators of the recipes.  Sizes are those the workers use;
\* unset names the *_per_gpu sizes that are null in the driver's config, which
\* _validate_config allows with dynamic batch sizes and with the deprecated
\* sizes of the whole job.
ASSUME ConfigAssumption ==
    \A c \in Configs :
        /\ {c.penalty, c.balance, c.padded, c.dynamic, c.multiModal} \subseteq BOOLEAN
        /\ {c.tokens, c.refMicro, c.rolloutMicro, c.actorMicro, c.criticMicro, c.mini}
              \subseteq Nat \ {0}
        /\ c.unset \subseteq {"ref", "rollout", "actor"}
        /\ c.agg \in Aggregations
        /\ c.mini \div World > 0
        /\ (c.mini \div World) % c.actorMicro = 0
        /\ c.estimator \in {"obliflow", "hgpo", "graphgpo"} => c.trainer = "recipe"

VARIABLES
    config,     \* the settings; never changes
    rolled,     \* the batch as the rollout returned it; never changes
    done,       \* how many stages of fit are over
    error,      \* why fit has raised, or "none"
    trained,    \* [rank -> its optimizer steps, each the micro-batches of
                \*  rows and the weight a row has in the gradient]
    batch, method, asked, shares, answers, padding, output

ranks == INSTANCE Dispatch WITH Methods <- {"values", "log_prob", "update"},
                                F <- LAMBDA row : row.id
call == <<method, asked, shares, answers, padding, output>>
vars == <<config, rolled, done, error, trained, batch, call>>

-----------------------------------------------------------------------------
(* Settings *)

\* Mutant: verl's order in the recipes.
RecipeStagesAdjustFirst ==
    <<"returns", "adjust", "values", "penalty", "advantage", "balance", "log_prob", "update">>

RecipeStages ==
    <<"returns", "values", "penalty", "advantage", "adjust", "balance", "log_prob", "update">>
VerlStages ==
    <<"returns", "adjust", "balance", "log_prob", "values", "penalty", "advantage", "update">>

\* Estimators that read step_rewards.
StepEstimators == {"gigpo", "hgpo", "graphgpo"}

Needed(c, stage) ==
    CASE stage = "returns" -> c.estimator \in StepEstimators
      [] stage = "values" -> c.estimator = "gae"
      [] stage = "penalty" -> c.penalty
      [] stage = "balance" -> c.balance
      [] OTHER -> TRUE

Stages(c) == IF c.trainer = "verl" THEN VerlStages ELSE RecipeStages

\* The smallest number that a and b divide (np.lcm).
Lcm(a, b) == Min({n \in 1..(a * b) : n % a = 0 /\ n % b = 0})

\* Mutant: the actor's micro-batches are forgotten.
DivisorWithoutActor(c) == Lcm(c.refMicro * World, c.rolloutMicro * World)

\* Mutant: micro-batch sizes are those of the whole job.
DivisorOfJob(c) ==
    Lcm(Lcm(c.refMicro, c.rolloutMicro), IF c.multiModal THEN c.mini ELSE c.actorMicro)

\* The sizes that adjust_batch multiplies.
Multiplied(c) == {"ref", "rollout"} \cup IF c.multiModal THEN {} ELSE {"actor"}

\* adjust_batch's size_divisor.
Divisor(c) ==
    Lcm(Lcm(c.refMicro * World, c.rolloutMicro * World),
        IF c.multiModal THEN c.mini ELSE c.actorMicro * World)

Init ==
    /\ config \in Configs
    /\ rolled \in Batches
    /\ batch = rolled
    /\ done = 0
    /\ error = "none"
    /\ trained = [r \in 1..World |-> << >>]
    /\ ranks!Idle

-----------------------------------------------------------------------------
(* Stages on the driver *)

Reached(stage) ==
    /\ error = "none" /\ method = "none"
    /\ done < Len(Stages(config)) /\ stage = Stages(config)[done + 1]

At(stage) == Reached(stage) /\ Needed(config, stage)

Continue == done' = done + 1 /\ UNCHANGED <<config, rolled, error, trained, call>>

Raise(why) == error' = why /\ UNCHANGED <<config, rolled, done, trained, batch, call>>

\* A stage that the settings do without.
Skip ==
    /\ \E stage \in {"returns", "values", "penalty", "balance"} :
           Reached(stage) /\ ~Needed(config, stage)
    /\ UNCHANGED batch
    /\ Continue

\* compute_step_discounted_returns, or compute_graph_path_returns.
WithReturns(c, b) ==
    LET returns == IF c.estimator = "graphgpo" THEN PathReturns(b) ELSE StepReturns(b)
    IN  [i \in DOMAIN b |-> [b[i] EXCEPT !.ret = returns[i]]]

Returns ==
    /\ At("returns")
    /\ batch' = WithReturns(config, batch)
    /\ Continue

\* apply_invalid_action_penalty, on the scores and on the returns if any.
Penalised(c, b) ==
    [i \in DOMAIN b |->
        IF b[i].valid THEN b[i]
        ELSE [b[i] EXCEPT !.score = @ - Penalty,
                          !.ret = IF c.estimator \in StepEstimators THEN @ - Penalty ELSE @]]

InvalidPenalty ==
    /\ At("penalty")
    /\ batch' = Penalised(config, batch)
    /\ Continue

AdvantageOf(c, b, i) ==
    CASE c.estimator = "obliflow" -> ObliFlowAdvantage(b, i, Alpha, Beta)
      [] c.estimator = "grpo" -> GrpoAdvantage(b, i)
      [] c.estimator = "gigpo" -> GigpoAdvantage(b, i, StepWeight)
      [] c.estimator = "hgpo" -> HgpoAdvantage(b, i, HistoryLength)
      [] c.estimator = "graphgpo" -> GraphgpoAdvantage(b, i, StepWeight, EpisodeWeight)
      [] OTHER -> GaeAdvantage(b, i)

WithAdvantages(c, b) == [i \in DOMAIN b |-> [b[i] EXCEPT !.adv = AdvantageOf(c, b, i)]]

ComputeAdvantage ==
    /\ At("advantage")
    /\ batch' = WithAdvantages(config, batch)
    /\ Continue

\* Mutant: replace=True.
CopiesWithReplacement(n, k) == IF k > n THEN {} ELSE [1..k -> 1..n]

\* np.random.choice(bs, to_add, replace=False)
Copies(n, k) == {f \in [1..k -> 1..n] : \A i, j \in 1..k : i # j => f[i] # f[j]}

\* adjust_batch with mode "copy".
Adjust ==
    /\ At("adjust")
    /\ config.unset \cap Multiplied(config) = {}
    /\ \E copies \in Copies(Len(batch), Missing(Len(batch), Divisor(config))) :
           batch' = batch \o Select(batch, copies)
    /\ Continue

AdjustFails ==
    /\ At("adjust")
    /\ config.unset \cap Multiplied(config) = {}
    /\ Missing(Len(batch), Divisor(config)) > Len(batch)
    /\ Raise("copies")

\* None times world_size.
NoSize ==
    /\ At("adjust")
    /\ config.unset \cap Multiplied(config) # {}
    /\ Raise("size")

Lengths(b) == [i \in DOMAIN b |-> b[i].len]

BalanceBatch ==
    /\ At("balance")
    /\ batch' = Select(batch, FlattenSeq(Partitions(Lengths(batch), World, TRUE)))
    /\ Continue

-----------------------------------------------------------------------------
(* Calls of the workers *)

\* ppo_mini_batch_size after the worker has divided it by the ranks.
Mini(c) == c.mini \div World

\* Rows in a part when n rows are cut into parts of k: torch's split or, with
\* multi-modal inputs, chunk into n \div k parts.
CutSize(c, n, k) == IF c.multiModal THEN PartSize(n, n \div k) ELSE k

Cuttable(c, n, k) == c.multiModal => Chunkable(n, n \div k, c.padded)

\* The worker's micro-batch size of a forward call.
ForwardMicro(c, called) == IF called = "values" THEN c.criticMicro ELSE c.rolloutMicro

\* The micro-batches of some rows of a rank: positions in these rows.
MicrosOf(c, called, rowsOf, r) ==
    IF c.dynamic
    THEN LET lensOf == [u \in DOMAIN rowsOf |-> Lengths(rowsOf[u])]
         IN  Partitions(lensOf[r], AgreedMicroBatches(lensOf, r, c.tokens), FALSE)
    ELSE Split([i \in DOMAIN rowsOf[r] |-> i],
               CutSize(c, Len(rowsOf[r]), ForwardMicro(c, called)))

\* compute_log_prob and compute_values: micro-batch after micro-batch, put
\* back into the order of the rows.
Forward(c, called, rowsOf, r) ==
    LET positions == FlattenSeq(MicrosOf(c, called, rowsOf, r))
        computed == [p \in DOMAIN positions |-> rowsOf[r][positions[p]].id]
    IN  IF c.dynamic THEN Select(computed, ReverseIdx(positions)) ELSE computed

Call(stage) ==
    /\ At(stage)
    /\ ranks!Begin(stage, config.padded)
    /\ UNCHANGED <<config, rolled, done, error, trained>>

\* DataProto.chunk's assertion.
CallFails(stage) ==
    /\ At(stage)
    /\ ~config.padded /\ Len(batch) % World # 0
    /\ Raise("chunk")

\* With multi-modal inputs and use_dynamic_bsz the micro-batches are cut one
\* way and put back the other: indices is unbound.  No job with these settings
\* gets as far as an update.
NoIndices == config.multiModal /\ config.dynamic

\* Every rank's rows, cut into the mini-batches of the optimizer steps.
MiniBatches(c, rowsOf) ==
    [r \in DOMAIN rowsOf |-> Split(rowsOf[r], CutSize(c, Len(rowsOf[r]), Mini(c)))]

\* Every chunk of rank r's call passes its assertions.
Cuts(c, called, rowsOf, r) ==
    IF called = "update"
    THEN /\ Cuttable(c, Len(rowsOf[r]), Mini(c))
         /\ \A m \in DOMAIN MiniBatches(c, rowsOf)[r] :
               Cuttable(c, Len(MiniBatches(c, rowsOf)[r][m]), c.actorMicro)
    ELSE Cuttable(c, Len(rowsOf[r]), ForwardMicro(c, called))

RankFails(r) ==
    /\ method # "none"
    /\ answers[r] = << >>
    /\ error = "none"
    /\ \/ ~Cuts(config, method, shares, r) /\ Raise("chunk")
       \/ Cuts(config, method, shares, r) /\ NoIndices /\ method # "update" /\ Raise("indices")

RankComputes(r) ==
    /\ method \in {"values", "log_prob"}
    /\ ~NoIndices /\ Cuts(config, method, shares, r)
    /\ ranks!Compute(r, Forward(config, method, shares, r))
    /\ UNCHANGED <<config, rolled, done, error, trained>>

\* Mutant: dynamic micro-batches are scaled like those of fixed size.
MicroWeightFixed(c, micro) == <<1, (Mini(c) \div c.actorMicro) * Len(micro)>>

\* agg_loss and the scaling by gradient_accumulation or, with dynamic batch
\* sizes, by the micro-batch's share of the mini-batch: what the loss of one of
\* its rows weighs or, in a mean over tokens, the loss of one token (leaving
\* out the width of the response tensor, by which "norm" divides every row).
MicroWeight(c, micro) ==
    LET scale == IF c.dynamic THEN <<Len(micro), Mini(c)>>
                 ELSE <<1, Mini(c) \div c.actorMicro>>
        losses == CASE c.agg = "token-mean" -> TotalLength([i \in DOMAIN micro |-> micro[i].resp])
                    [] c.agg = "seq-mean-token-sum-norm" -> 1
                    [] OTHER -> Len(micro)
    IN  <<scale[1], scale[2] * losses>>

\* update_policy: the micro-batches of step m of rank r.
GradientStep(c, rowsOf, r, m) ==
    LET minis == MiniBatches(c, rowsOf)
        rows == minis[r][m]
        lensOf == [u \in DOMAIN rowsOf |-> Lengths(minis[u][m])]
        micros == IF c.dynamic
                  THEN Partitions(lensOf[r], AgreedMicroBatches(lensOf, r, c.tokens), FALSE)
                  ELSE Split([i \in DOMAIN rows |-> i], CutSize(c, Len(rows), c.actorMicro))
    IN  [k \in DOMAIN micros |-> [i \in DOMAIN micros[k] |->
            [id |-> rows[micros[k][i]].id, weight |-> MicroWeight(c, Select(rows, micros[k]))]]]

\* The answer is the metrics, here something for each row.
RankUpdates(r) ==
    /\ method = "update"
    /\ Cuts(config, "update", shares, r)
    /\ ranks!Compute(r, [i \in DOMAIN shares[r] |-> shares[r][i].id])
    /\ trained' = [trained EXCEPT ![r] =
           [m \in DOMAIN MiniBatches(config, shares)[r] |-> GradientStep(config, shares, r, m)]]
    /\ UNCHANGED <<config, rolled, done, error>>

Column(b, out) ==
    IF method = "values" THEN [i \in DOMAIN b |-> [b[i] EXCEPT !.value = out[i]]]
    ELSE [i \in DOMAIN b |-> [b[i] EXCEPT !.logp = out[i]]]

\* The driver unions the answer into its batch; the update answers metrics.
Return ==
    /\ method # "none"
    /\ ranks!End
    /\ Len(output') = Len(batch) \/ method = "update"
    /\ batch' = IF method = "update" THEN batch ELSE Column(batch, output')
    /\ done' = done + 1
    /\ UNCHANGED <<config, rolled, error, trained>>

\* union_tensor_dict's assertion.
UnionFails ==
    /\ method # "none"
    /\ ranks!End
    /\ Len(output') # Len(batch) /\ method # "update"
    /\ error' = "union"
    /\ UNCHANGED <<config, rolled, done, trained, batch>>

Driver ==
    \/ Skip \/ Returns \/ InvalidPenalty \/ ComputeAdvantage
    \/ Adjust \/ AdjustFails \/ NoSize \/ BalanceBatch
    \/ \E stage \in {"values", "log_prob", "update"} : Call(stage) \/ CallFails(stage)
    \/ Return \/ UnionFails

Next == Driver \/ \E r \in ranks!Workers : RankComputes(r) \/ RankFails(r) \/ RankUpdates(r)

Spec == Init /\ [][Next]_vars

-----------------------------------------------------------------------------
(* Properties *)

Updated == error = "none" /\ done = Len(Stages(config))

\* compute_values, compute_log_prob (dp_actor.py, dp_critic.py,
\* seqlen_balancing.py): whatever the micro-batches and the order in which
\* ranks answer, copies and reordering, a row carries its own value and its
\* own log probabilities.
RowsKeepTheirOwn ==
    \A i \in DOMAIN batch : /\ batch[i].value \in {0, batch[i].id}
                            /\ batch[i].logp \in {0, batch[i].id}

\* func_generator, chunk, concat and padding: position i of what a call
\* returns answers row i of the batch that was passed.
CallsFit == ranks!AnswersFit

\* hgpo_ray_trainer.py:18-19, and the same order in the other recipes: the
\* rows that adjust_batch copies do not enter the means of their group, and
\* every row keeps the advantage it has among the rows of the rollout.
CopiesNotCounted ==
    config.trainer = "recipe" /\ Updated =>
        LET returned == IF config.estimator \in StepEstimators THEN WithReturns(config, rolled) ELSE rolled
            valued == [i \in DOMAIN rolled |->
                         IF config.estimator = "gae" THEN [returned[i] EXCEPT !.value = i]
                         ELSE returned[i]]
            scored == IF config.penalty THEN Penalised(config, valued) ELSE valued
        IN  \A i \in DOMAIN batch :
                Same(batch[i].adv, AdvantageOf(config, scored, batch[i].id))

\* Steps of the group lead from row i's next state to the goal, n of them.
LeadsToGoal(b, i, n) ==
    \E path \in [0..n -> GroupOf(b, i)] :
        /\ path[0] = i /\ b[path[n]].next = Goal
        /\ \A k \in 1..n : b[path[k]].obs = b[path[k - 1]].next

\* Nobody in the group led from row j's next state to the goal as fast as from
\* row i's.
Nearer(b, i, j) ==
    \E n \in 0..3 : LeadsToGoal(b, i, n) /\ \A m \in 0..n : ~LeadsToGoal(b, j, m)

ScorePays ==
    \A i, j \in DOMAIN batch :
        /\ batch[i].uid = batch[j].uid
        /\ batch[i].flow = batch[j].flow /\ batch[i].cut = batch[j].cut
        /\ rolled[FirstRow(rolled, batch[i].id)].score > rolled[FirstRow(rolled, batch[j].id)].score
        => ~Less(batch[i].adv, batch[j].adv)

NearnessPays ==
    \A i, j \in DOMAIN batch :
        /\ batch[i].uid = batch[j].uid /\ batch[i].obs = batch[j].obs
        /\ batch[i].score = batch[j].score /\ batch[i].valid = batch[j].valid
        /\ Nearer(rolled, batch[i].id, batch[j].id)
        => Less(batch[j].adv, batch[i].adv)

\* _trajectory_advantages (core_obliflow.py:153-185): of two rows of a group
\* with the same flow reward and blame, the one whose trajectory scored
\* higher does not get the lower advantage.  compute_graph_path_returns
\* (core_graph.py:774-838): of two steps out of one state with the same score,
\* the one that came nearer to the goal gets the higher advantage, whoever
\* reached the goal from there.
BetterPaysMore ==
    Updated => CASE config.estimator = "obliflow" -> ScorePays
                 [] config.estimator = "graphgpo" -> NearnessPays
                 [] OTHER -> TRUE

\* core_obliflow.py:167: ObliFlow reads a trajectory's score from its first
\* row, so that the penalty of an invalid action is felt by all rows when the
\* first action was invalid, and by none when a later one was.
OnlyFirstPenalty ==
    config.estimator = "obliflow" /\ config.penalty /\ Updated =>
        LET first == [i \in DOMAIN rolled |->
                        [rolled[i] EXCEPT !.valid =
                            @ \/ \E j \in 1..(i - 1) : rolled[j].traj = rolled[i].traj]]
        IN  \A i \in DOMAIN batch :
                Same(batch[i].adv, AdvantageOf(config, Penalised(config, first), batch[i].id))

\* Where rows have been trained on: rank, optimizer step, micro-batch, row.
Places ==
    UNION {UNION {UNION {{<<r, m, k, i>> : i \in DOMAIN trained[r][m][k]} :
                         k \in DOMAIN trained[r][m]} :
                  m \in DOMAIN trained[r]} :
           r \in DOMAIN trained}

TrainedAt(p) == trained[p[1]][p[2]][p[3]][p[4]]

\* adjust_batch, _balance_batch and the dispatch of the update: every row of
\* the rollout is trained on, none more than twice.
TrainedOnceOrTwice ==
    Updated =>
        \A id \in 1..Len(rolled) :
            Cardinality({p \in Places : TrainedAt(p).id = id}) \in {1, 2}

\* Where rows are to weigh the same: a mean over tokens is taken within each
\* micro-batch, a dynamic one scales the sum of "norm" by its rows, and the
\* parts of a padded multi-modal chunk need not be equal.
WeighsEvenly(c) ==
    /\ c.agg # "token-mean"
    /\ c.agg = "seq-mean-token-sum-norm" => ~c.dynamic
    /\ c.multiModal /\ c.padded => c.mini % World = 0

\* update_policy with adjust_batch's divisor: within an optimizer step all
\* rows of all ranks weigh the same, because no micro-batch is short.
EvenWeights ==
    Updated /\ WeighsEvenly(config) =>
        \A p, q \in Places : p[2] = q[2] => Same(TrainedAt(p).weight, TrainedAt(q).weight)

\* rearrange_micro_batches: FSDP's collectives need as many forward passes
\* from every rank, in every optimizer step.
RanksInStep ==
    Updated => \A r, u \in 1..World :
        /\ Len(trained[r]) = Len(trained[u])
        /\ \A m \in DOMAIN trained[r] : Len(trained[r][m]) = Len(trained[u][m])

\* _balance_batch: the ranks' loads differ by no more than the lengths of
\* World rows that are neighbours in length.
Balanced ==
    config.balance /\ method \in {"log_prob", "update"} =>
        LET lens == Lengths(batch)
            row == ByLength(lens)
            gap(o) == lens[row[o * World + World]] - lens[row[o * World + 1]]
            load == {TotalLength(Lengths(shares[r])) : r \in 1..World}
        IN  Max(load) - Min(load) <= Max({gap(o) : o \in 0..(Len(lens) \div World - 1)})

\* The rows divide wherever a stage divides them; adjust_batch does not ask the
\* critic, nor the ranks for their share of a multi-modal mini-batch.
Aligned(c, n) ==
    /\ n % Divisor(c) = 0
    /\ c.multiModal => /\ c.mini % World = 0
                       /\ c.estimator = "gae" => n % (c.criticMicro * World) = 0

\* adjust_batch's remainder and every chunk of driver and workers: a batch that
\* divides when it comes from the rollout goes through all stages, unless a
\* size is null or multi-modal inputs meet dynamic batch sizes.
AlignedGoesThrough ==
    /\ Aligned(config, Len(rolled))
    /\ config.unset \cap Multiplied(config) = {} /\ ~NoIndices
    => error = "none"
=============================================================================
