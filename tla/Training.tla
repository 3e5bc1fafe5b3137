------------------------------ MODULE Training ------------------------------
(***************************************************************************)
(* The loop of fit over the steps of a job: what each stage needs of the   *)
(* batch, which version of the actor or critic computed each column, what  *)
(* of a model is on the GPU while the inference engine holds its cache,    *)
(* and what a job that crashes, or is launched again, goes on from.  The   *)
(* rows of a batch are Batch's subject and the files of a checkpoint       *)
(* Checkpoint's; here a save is one step and loses nothing.                *)
(***************************************************************************)
EXTENDS Integers, Sequences, FiniteSetsExt

CONSTANTS
    Configs,            \* the settings of a job
    Epochs,             \* trainer.total_epochs
    BatchesPerEpoch,    \* len(train_dataloader)
    Turns,              \* bound on the turns of a rollout
    MaxLaunches         \* bound on the launches of a job

ASSUME TrainersAssumption ==
    \A c \in Configs : c.trainer \in {"obliflow", "hgpo", "graphgpo", "verl"}

ASSUME StylesAssumption == \A c \in Configs : c.style \in {"model", "rule", "none"}

ASSUME BatchesAssumption == BatchesPerEpoch \in Nat \ {0}

ASSUME StepsAssumption == \A c \in Configs : c.saveFreq \in Int /\ c.total \in Int

VARIABLES
    config,     \* the settings; never changes
    phase,      \* "launch", "validating", "ready", "top", "step", "ended" or "failed"
    at,         \* the stage of the step, an index of Stages(config)
    step,       \* global_steps
    epoch,      \* the epochs this launch has begun, less one
    drawn,      \* the batches the dataloader has given in its epoch
    columns,    \* the driver's batch: [column -> the versions that made it]
    rolled,     \* gen_batch_output, likewise
    made,       \* the versions that generated the turns so far
    turn,       \* the turns so far
    actor,      \* version of the actor: its updates
    critic,     \* version of the critic
    adapted,    \* the updates of the coefficient of the KL penalty (kl_ctrl)
    resident,   \* the parts of actor and critic on the GPU
    engine,     \* the inference engine: [weights, awake, first]
    baseSynced, \* base_sync_done of the sharding manager
    saved,      \* the latest checkpoint, or None
    resumedAt,  \* the step of the checkpoint this launch goes on from
    launches,   \* launches so far
    reruns      \* launches from a checkpoint of the last step

batchVars == <<columns, rolled, made, turn>>
loopVars == <<phase, at, step, epoch, drawn>>
models == <<actor, critic, adapted, resident>>
rollout == <<engine, baseSynced>>
history == <<saved, resumedAt, launches, reruns>>
vars == <<config, loopVars, batchVars, models, rollout, history>>

None == [step |-> 0]
Empty == [name \in {} |-> {}]

-----------------------------------------------------------------------------
(* The stages of a step *)

\* Mutant: the penalties are taken after the advantages.
RecipeStagesLatePenalty ==
    <<"rollout", "baseline", "replace", "returns", "mask", "model_score", "reward", "values",
      "scores", "penalty", "advantage", "kl", "adjust", "balance", "old_log_prob", "ref",
      "update_critic", "update_actor", "validate", "save">>

\* In the recipes the copies are made after the advantages, ...
RecipeStages ==
    <<"rollout", "baseline", "replace", "returns", "mask", "model_score", "reward", "values",
      "scores", "penalty", "kl", "advantage", "adjust", "balance", "old_log_prob", "ref",
      "update_critic", "update_actor", "validate", "save">>

\* ... in verl first of all, and the log probabilities precede the penalties.
VerlStages ==
    <<"rollout", "baseline", "replace", "returns", "adjust", "mask", "balance", "model_score",
      "reward", "old_log_prob", "ref", "values", "scores", "penalty", "kl", "advantage",
      "update_critic", "update_actor", "validate", "save">>

\* The trainers of hgpo and GraphGPO are copies of ObliFlow's but for their own
\* returns and advantages.
HgpoStages == RecipeStages
GraphgpoStages == RecipeStages

Stages(c) ==
    CASE c.trainer = "verl" -> VerlStages
      [] c.trainer = "hgpo" -> HgpoStages
      [] c.trainer = "graphgpo" -> GraphgpoStages
      [] c.trainer = "obliflow" -> RecipeStages

StepEstimators == {"gigpo", "hgpo", "graphgpo"}
UseCritic(c) == c.estimator = "gae"
UseReference(c) == c.klReward \/ c.klLoss

\* Mutant: off by one.
PastTheLast == step > config.total

IsLast == step >= config.total

\* Mutant: the last step is nothing special.
DuePeriodically(freq) == freq > 0 /\ step % freq = 0

Due(freq) == freq > 0 /\ (IsLast \/ step % freq = 0)

\* _validate asks a job with a reward model what the first row of the validation
\* data says of its reward: "model" is not validated, "rule" is, and no style at
\* all is a KeyError.
Skipped(c) == c.rm /\ c.style = "model"
Unstyled(c) == c.rm /\ c.style = "none"

\* The validation before training must have metrics.
Refused(c) == c.valBefore /\ (Skipped(c) \/ Unstyled(c))

\* The stages fit takes at this step.
Wanted(stage) ==
    CASE stage = "baseline" -> config.estimator = "remax"
      [] stage = "returns" -> config.estimator \in StepEstimators \cup {"obliflow"}
      [] stage = "model_score" -> config.rm
      [] stage \in {"values", "update_critic"} -> UseCritic(config)
      [] stage = "ref" -> UseReference(config)
      [] stage = "update_actor" -> config.warmup <= step
      [] stage = "validate" -> Due(config.testFreq) /\ ~Skipped(config)
      [] stage = "save" -> Due(config.saveFreq)
      [] OTHER -> TRUE

\* What the estimator reads.
AdvantageNeeds(c) ==
    {"rewards", "mask"} \cup
    CASE c.estimator = "gae" -> {"values"}
      [] c.estimator = "remax" -> {"baselines"}
      [] c.estimator = "obliflow" -> {"episode", "flow_rewards", "cut_blames"}
      [] c.estimator \in StepEstimators -> {"episode", "step_rewards"}
      [] OTHER -> {"episode"}

\* The columns a stage reads.  "sequences" are the token columns of generation,
\* "episode" what the rollout notes of every row, "whole" stands for as many
\* rows as divide among the ranks, which dispatch asserts.
Needs(c, stage) ==
    CASE stage = "returns" -> {"episode"}
      [] stage \in {"mask", "balance"} -> {"sequences"}
      [] stage \in {"model_score", "values", "old_log_prob", "ref"} -> {"sequences", "whole"}
      [] stage \in {"baseline", "reward"} -> IF c.rm THEN {"sequences"} ELSE {"sequences", "episode"}
      [] stage = "scores" -> {"reward"}
      [] stage = "penalty" -> {"scores", "sequences", "episode"}
      [] stage = "kl" -> {"scores"} \cup IF c.klReward THEN {"old_log_probs", "ref_log_prob"} ELSE {}
      [] stage = "advantage" -> AdvantageNeeds(c)
      [] stage = "update_critic" -> {"sequences", "whole", "values", "returns"}
      [] stage = "update_actor" -> {"sequences", "whole", "old_log_probs", "advantages"}
                                   \cup IF c.klLoss THEN {"ref_log_prob"} ELSE {}
      [] OTHER -> {}

\* The columns a stage adds.  compute_reward_async loads its reward manager by
\* load_reward_manager, which does not know "episode", the only one main
\* accepts: its future raises, and the batch has no reward.
Gives(c, stage) ==
    CASE stage = "returns" -> IF c.estimator = "obliflow" THEN {"flow_rewards", "cut_blames"} ELSE {"step_rewards"}
      [] stage = "mask" -> {"mask"}
      [] stage = "model_score" -> {"rm_scores"}
      [] stage = "reward" -> IF c.async THEN {} ELSE {"reward"}
      [] stage = "values" -> {"values"}
      [] stage = "scores" -> {"scores"}
      [] stage = "kl" -> {"rewards"}
      [] stage = "advantage" -> {"advantages", "returns"}
      [] stage = "adjust" -> {"whole"}
      [] stage = "old_log_prob" -> {"old_log_probs"}
      [] stage = "ref" -> {"ref_log_prob"}
      [] OTHER -> {}

\* Mutant: is_lora stays in the meta information of the batch.
VersionOfStickyLora(stage) ==
    CASE stage = "old_log_prob" -> {IF config.lora THEN 0 ELSE actor}
      [] stage = "values" -> {critic}
      [] stage = "ref" -> {0}
      [] OTHER -> {}

\* The version of the model a stage computes with: 0 is the pretrained model,
\* which is the reference, a worker's own or the actor without its adapter.
VersionOf(stage) ==
    CASE stage = "old_log_prob" -> {actor}
      [] stage = "values" -> {critic}
      [] stage = "ref" -> {0}
      [] OTHER -> {}

Stage == IF phase = "step" /\ at <= Len(Stages(config)) THEN Stages(config)[at] ELSE "none"
Missing == Needs(config, Stage) \ DOMAIN columns

\* To the next stage that is taken, or past the last.
NextStage(i) ==
    LET stages == Stages(config)
    IN  Min({j \in (i + 1)..Len(stages) : Wanted(stages[j])} \cup {Len(stages) + 1})

-----------------------------------------------------------------------------
(* Memory of the workers *)

Params(m) == IF config.offloadParam THEN {<<m, "param">>} ELSE {}
Optim(m) == IF config.offloadOptim THEN {<<m, "optim">>} ELSE {}
Offloadable(m) == Params(m) \cup Optim(m)
Parts(m) == {m} \X {"param", "optim"}
Models == {"actor"} \cup IF UseCritic(config) THEN {"critic"} ELSE {}

\* A call to the actor's workers and then, if there are any, to the critic's.
ForModels(Call(_, _), there) ==
    IF UseCritic(config) THEN Call(Call(there, "actor"), "critic") ELSE Call(there, "actor")

\* Forward passes and saves want the parameters, updates the optimizer as well;
\* what was loaded is offloaded at the end of the call.
Forward(there, m) == (there \cup Params(m)) \ Params(m)

\* Mutant: an update leaves the optimizer on the GPU.
UpdateKeepsOptim(there, m) == (there \cup Params(m) \cup Optim(m)) \ Params(m)

Update(there, m) == ((there \cup Params(m) \cup Optim(m)) \ Params(m)) \ Optim(m)

\* load_checkpoint restores both on the GPU.
Restored(there, m) == ((there \cup Parts(m)) \ Params(m)) \ Optim(m)

-----------------------------------------------------------------------------
(* Generation *)

\* Mutant: the adapter is never added once the base model is in place.
SyncBaseOnly == IF config.lora THEN 0 ELSE actor

\* The weights the sharding manager gives the engine.  Of a model with an
\* adapter the engine gets the base model until it has it (dummy weights do not
\* count), and the adapter only from then on.
Sync == IF config.lora /\ ~baseSynced THEN 0 ELSE actor

Generating ==
    \/ phase = "validating" \/ Stage \in {"rollout", "baseline"}
    \/ Stage = "validate" /\ ~Unstyled(config)

\* Mutant: layered_summon is refused however the base model was loaded.
NeverSummons == config.lora /\ config.layered

\* layered_summon cannot collect the base model.
CannotSummon == config.lora /\ config.layered /\ ~baseSynced

\* __enter__: load, collect, wake the weights, sync, offload, wake the cache.
WakeUp ==
    /\ Generating /\ ~engine.awake /\ ~CannotSummon
    /\ engine' = [weights |-> Sync, awake |-> TRUE, first |-> engine.weights = -1]
    /\ baseSynced' = TRUE
    /\ resident' = Forward(resident, "actor")
    /\ UNCHANGED <<config, loopVars, batchVars, actor, critic, adapted, history>>

WakeUpFails ==
    /\ Generating /\ ~engine.awake /\ CannotSummon
    /\ phase' = "failed"
    /\ UNCHANGED <<config, at, step, epoch, drawn, batchVars, models, rollout, history>>

\* __exit__ of any call but the last of the loop: the engine sleeps and the
\* next turn wakes it again.
NextTurn ==
    /\ engine.awake /\ turn + 1 < Turns /\ Stage # "baseline"
    /\ engine' = [engine EXCEPT !.awake = FALSE]
    /\ made' = made \cup {engine.weights}
    /\ turn' = turn + 1
    /\ UNCHANGED <<config, loopVars, columns, rolled, models, baseSynced, history>>

\* What generation adds to a batch.
WithSequences(batch, names) ==
    [n \in DOMAIN batch \cup names |->
        IF n = "sequences" THEN made \cup {engine.weights} ELSE IF n \in names THEN {} ELSE batch[n]]

\* The last call of a rollout, whose trajectories may or may not be as many as
\* divide among the ranks.
GenerationOver ==
    /\ engine.awake
    /\ engine' = [engine EXCEPT !.awake = FALSE]
    /\ made' = {} /\ turn' = 0
    /\ UNCHANGED <<config, step, epoch, drawn, models, baseSynced, history>>

RolloutOver ==
    /\ Stage = "rollout" /\ GenerationOver
    /\ \E whole \in SUBSET {"whole"} :
           rolled' = WithSequences(Empty, {"sequences", "episode"} \cup whole)
    /\ at' = NextStage(at)
    /\ UNCHANGED <<phase, columns>>

\* REMAX generates greedily once more, and scores what the dataloader's batch
\* and this generation hold together: no episode.
BaselineOver ==
    /\ Stage = "baseline" /\ GenerationOver
    /\ LET batch == WithSequences(columns, {"sequences"})
       IN  IF Needs(config, "baseline") \subseteq DOMAIN batch
           THEN /\ columns' = [n \in DOMAIN columns \cup {"baselines"} |-> {}]
                /\ at' = NextStage(at)
                /\ UNCHANGED phase
           ELSE phase' = "failed" /\ UNCHANGED <<at, columns>>
    /\ UNCHANGED rolled

ValidationOver ==
    /\ Stage = "validate" \/ phase = "validating"
    /\ GenerationOver
    /\ IF phase = "validating" THEN phase' = "ready" /\ UNCHANGED at
                               ELSE at' = NextStage(at) /\ UNCHANGED phase
    /\ UNCHANGED <<columns, rolled>>

-----------------------------------------------------------------------------
(* The other stages of a step *)

StageFails ==
    /\ Stage # "none" /\ ~Generating
    /\ Missing # {} \/ Stage = "validate"
    /\ phase' = "failed"
    /\ UNCHANGED <<config, at, step, epoch, drawn, batchVars, models, rollout, history>>

Taken ==
    /\ Stage # "none" /\ Missing = {}
    /\ at' = NextStage(at)
    /\ UNCHANGED <<config, phase, step, epoch, drawn, rolled, made, turn, rollout, resumedAt, launches, reruns>>

\* del batch; batch = gen_batch_output
Replace ==
    /\ Stage = "replace" /\ Taken
    /\ columns' = rolled
    /\ UNCHANGED <<models, saved>>

\* A stage that only adds columns, on the driver or in a worker.
Compute ==
    /\ Stage \notin {"rollout", "baseline", "replace", "update_critic", "update_actor", "validate", "save"}
    /\ Taken
    /\ columns' = [n \in DOMAIN columns \cup Gives(config, Stage) |->
                      IF n \in Gives(config, Stage) THEN VersionOf(Stage) ELSE columns[n]]
    /\ resident' = CASE Stage = "old_log_prob" \/ (Stage = "ref" /\ config.lora) -> Forward(resident, "actor")
                     [] Stage = "values" -> Forward(resident, "critic")
                     [] OTHER -> resident
    /\ adapted' = IF Stage = "kl" /\ config.klReward THEN adapted + 1 ELSE adapted
    /\ UNCHANGED <<actor, critic, saved>>

UpdateCritic ==
    /\ Stage = "update_critic" /\ Taken
    /\ critic' = critic + 1
    /\ resident' = Update(resident, "critic")
    /\ UNCHANGED <<columns, actor, adapted, saved>>

UpdateActor ==
    /\ Stage = "update_actor" /\ Taken
    /\ actor' = actor + 1
    /\ resident' = Update(resident, "actor")
    /\ UNCHANGED <<columns, critic, adapted, saved>>

\* Mutant: the dataloader's position is not saved.
CheckpointWithoutData == [step |-> step, actor |-> actor, critic |-> critic, drawn |-> 0]

\* What _save_checkpoint writes.
Checkpoint == [step |-> step, actor |-> actor, critic |-> critic, drawn |-> drawn]

Save ==
    /\ Stage = "save" /\ Taken
    /\ saved' = Checkpoint
    /\ resident' = ForModels(Forward, resident)
    /\ UNCHANGED <<columns, actor, critic, adapted>>

-----------------------------------------------------------------------------
(* The loop over steps and epochs, and launches *)

\* The dataloader gives what is left of its epoch; the epochs of fit are
\* counted from the launch.
DrawBatch ==
    /\ phase = "top"
    /\ IF drawn < BatchesPerEpoch
       THEN /\ drawn' = drawn + 1
            /\ phase' = "step" /\ at' = NextStage(0)
            /\ columns' = Empty /\ rolled' = Empty
            /\ UNCHANGED epoch
       ELSE /\ IF epoch + 1 < Epochs
               THEN epoch' = epoch + 1 /\ drawn' = 0 /\ UNCHANGED phase
               ELSE phase' = "ended" /\ UNCHANGED <<epoch, drawn>>
            /\ UNCHANGED <<at, columns, rolled>>
    /\ UNCHANGED <<config, step, made, turn, models, rollout, history>>

EndStep ==
    /\ phase = "step" /\ at > Len(Stages(config))
    /\ phase' = IF IsLast THEN "ended" ELSE "top"
    /\ step' = step + 1
    /\ UNCHANGED <<config, at, epoch, drawn, batchVars, models, rollout, history>>

\* init_workers, _load_checkpoint and the validation before training: one that is
\* skipped has no metrics, which an assertion refuses.
Launch ==
    /\ phase = "launch"
    /\ step' = saved.step /\ resumedAt' = saved.step /\ adapted' = 0
    /\ IF saved = None
       THEN actor' = 0 /\ critic' = 0 /\ drawn' = 0
       ELSE actor' = saved.actor /\ critic' = saved.critic /\ drawn' = saved.drawn
    /\ LET fresh == UNION {Parts(m) \ Offloadable(m) : m \in Models}
       IN  resident' = IF saved = None THEN fresh ELSE ForModels(Restored, fresh)
    /\ engine' = [weights |-> -1, awake |-> FALSE, first |-> FALSE]
    /\ baseSynced' = ~config.dummy
    /\ phase' = IF Refused(config) THEN "failed" ELSE IF config.valBefore THEN "validating" ELSE "ready"
    /\ at' = 0 /\ epoch' = 0
    /\ columns' = Empty /\ rolled' = Empty /\ made' = {} /\ turn' = 0
    /\ UNCHANGED <<config, saved, launches, reruns>>

StartLoop ==
    /\ phase = "ready"
    /\ phase' = "top" /\ step' = step + 1
    /\ UNCHANGED <<config, at, epoch, drawn, batchVars, models, rollout, history>>

\* The job dies anywhere, or has ended, and is launched again.
Relaunch ==
    /\ phase # "launch" /\ launches < MaxLaunches
    /\ phase' = "launch"
    /\ launches' = launches + 1
    /\ reruns' = IF saved.step >= config.total THEN reruns + 1 ELSE reruns
    /\ UNCHANGED <<config, at, step, epoch, drawn, batchVars, models, rollout, saved, resumedAt>>

Init ==
    /\ config \in Configs
    /\ phase = "launch" /\ at = 0 /\ step = 0 /\ epoch = 0 /\ drawn = 0
    /\ columns = Empty /\ rolled = Empty /\ made = {} /\ turn = 0
    /\ actor = 0 /\ critic = 0 /\ adapted = 0 /\ resident = {}
    /\ engine = [weights |-> -1, awake |-> FALSE, first |-> FALSE] /\ baseSynced = FALSE
    /\ saved = None /\ resumedAt = 0 /\ launches = 1 /\ reruns = 0

Progress ==
    \/ Launch \/ StartLoop \/ DrawBatch \/ EndStep
    \/ WakeUp \/ WakeUpFails \/ NextTurn \/ RolloutOver \/ BaselineOver \/ ValidationOver
    \/ StageFails \/ Replace \/ Compute \/ UpdateCritic \/ UpdateActor \/ Save

Next == Progress \/ Relaunch

\* The driver goes on; nothing launches a job again but its user.
Spec == Init /\ [][Next]_vars /\ WF_vars(Progress)

-----------------------------------------------------------------------------
(* Properties *)

\* The engine never generates with weights other than the actor's: every call
\* of a rollout, of a validation and of a baseline syncs them first.  The one
\* exception: an adapter on a base model loaded as "dummy" misses the first
\* call of a launch, so that a job resumed that way generates its first turn
\* with the pretrained model.
EngineFresh ==
    engine.awake => \/ engine.weights = actor
                    \/ engine.first /\ config.lora /\ config.dummy /\ engine.weights = 0

\* When the actor is updated, its old log probabilities are those of the weights
\* about to be updated, which also generated the rows (but for the turn that
\* EngineFresh excepts, if no validation took it), and the reference's those of
\* the pretrained model; when the critic is updated, so are its values.
OnPolicy ==
    /\ Stage = "update_actor" /\ Missing = {} =>
           /\ columns["old_log_probs"] = {actor}
           /\ columns["sequences"] \subseteq
                  IF config.lora /\ config.dummy /\ ~config.valBefore /\ step = resumedAt + 1
                  THEN {0, actor} ELSE {actor}
           /\ config.klLoss => columns["ref_log_prob"] = {0}
    /\ Stage = "update_critic" /\ Missing = {} => columns["values"] = {critic}

\* Nothing that the settings offload is on the GPU while the engine holds its
\* cache, whatever was called before, a restored checkpoint included.
RoomForCache ==
    engine.awake => resident \cap UNION {Offloadable(m) : m \in Models} = {}

\* Settings with which fit cannot take its first step: no reward comes from an
\* asynchronous reward function, REMAX scores a batch without episodes, the
\* recipes take the KL penalty before there are log probabilities, a layered
\* summon cannot collect the base model, and with a reward model the validation
\* before training wants rows whose style is "rule".
Doomed(c) ==
    \/ c.async \/ c.estimator = "remax"
    \/ c.klReward /\ c.trainer # "verl"
    \/ c.lora /\ c.dummy /\ c.layered
    \/ Refused(c)

\* Settings with which a later step may fail: in the recipes the critic and the
\* reward model get rows that may not divide, and a validation looks for a style.
AtRisk(c) ==
    \/ c.trainer # "verl" /\ (UseCritic(c) \/ c.rm)
    \/ c.testFreq > 0 /\ Unstyled(c)

\* No stage ever misses a column it reads, or gets rows that do not divide,
\* with settings other than those; with the first of them nothing is trained.
NoStageStarved ==
    /\ phase = "failed" => Doomed(config) \/ AtRisk(config)
    /\ Doomed(config) => actor = 0 /\ critic = 0 /\ saved = None

\* A job goes on as if it had never stopped: at every step the actor and the
\* critic have had the updates, and the dataloader has given the batches, of
\* the steps before, however often the job crashed and resumed.  Only the
\* coefficient of the KL penalty, which no checkpoint holds, starts over.
ResumesExactly ==
    phase = "top" =>
        /\ actor = Cardinality({s \in 1..(step - 1) : config.warmup <= s})
        /\ critic = IF UseCritic(config) THEN step - 1 ELSE 0
        /\ (step - 1 - drawn) % BatchesPerEpoch = 0
        /\ adapted = IF config.klReward THEN step - 1 - resumedAt ELSE 0

\* A crash costs at most save_freq steps, and the last step is always saved.
SavesInTime ==
    config.saveFreq > 0 =>
        /\ phase = "step" => step - saved.step <= config.saveFreq
        /\ phase = "ended" /\ step > config.total => saved.step = step - 1

\* A launch that is left alone ends, and fails only for the reasons above.  A
\* job whose batches suffice has then trained total_training_steps steps, however
\* it was interrupted, and one step more for each launch from the checkpoint of
\* the last step.
RunsToTotal ==
    LET enough == config.total <= Epochs * BatchesPerEpoch
    IN  <>[](\/ phase = "failed" /\ (Doomed(config) \/ AtRisk(config))
             \/ phase = "ended" /\ step <= config.total + 1 + reruns
                                /\ (enough => config.total < step))

=============================================================================
