# ObliFlow-GRPO: models, checks and proofs

This directory specifies the part of the repository that is its own: the
training loop of `recipe/ObliFlow` and of its siblings `recipe/hgpo`,
`recipe/GraphGPO` and `verl/trainer`, the credit assignment of `obli_flow`, and
what the loop calls: worker groups, micro-batches, the inference engine and the
checkpoint manager. Paths below are relative to the root of the repository,
`src/`.

1. [The system](#1-the-system)
2. [What is hard here](#2-what-is-hard-here)
3. [Modules](#3-modules)
4. [Runs, bounds and fairness](#4-runs-bounds-and-fairness)
5. [Where code and documents disagree](#5-where-code-and-documents-disagree)
6. [Proofs](#6-proofs)
7. [Not modelled](#7-not-modelled)
8. [Plan](#8-plan)

## 1. The system

One driver process (`RayPPOTrainer.fit`, `recipe/ObliFlow/obliflow_ray_trainer.py`)
repeats a training step. In a step it

1. rolls a batch of environments out with the current policy
   (`TrajectoryCollector.multi_turn_loop`, `recipe/ObliFlow/rollout_loop.py`),
2. builds a flow graph of each trajectory and pays every step for what it
   contributed (`compute_flow_step_rewards`, `obli_flow/core_obliflow.py`),
3. turns terminal and flow rewards into advantages
   (`compute_obliflow_outcome_advantage`, same file),
4. updates critic and actor through worker groups of Ray actors
   (`verl/single_controller`), and
5. when due, saves a checkpoint (`_save_checkpoint` and
   `verl/utils/checkpoint/fsdp_checkpoint_manager.py`).

| Component | State it keeps | Operations | Talks to | What makes it correct |
|---|---|---|---|---|
| Checkpointing | files of each `global_step_N`, the tracker file, `previous_saved_paths` of each rank (memory) | save, rotate, load | driver calls every rank of a group and waits; ranks meet at barriers | whatever crashed, a readable tracker names a whole checkpoint; rotation keeps what it must and no more |
| Rollout loop | per-environment masks, rewards, lengths, rows; lists accumulated over tries | `vanilla_multi_turn_loop`, `dynamic_multi_turn_loop`, `filter_group_data`, `gather_rollout_data` | environment managers (reset, step, `success_evaluator`), rollout workers | a trajectory handed to training is whole and its own; groups stay whole; labels fall on the right row |
| Flow of a batch | executor queue, futures, merged results | `compute_flow_step_rewards`, `_compute_trajectory_flow` | LLM client, metrics | every trajectory settled once; nothing runs on after the batch |
| LLM client | answer cache on disk, `_STATS`, `_WARNED` | `chat_json`, `get_llm_stats`, `warn_once` | an HTTP endpoint; shared by all threads | bounded attempts; each call counted once; a failure falls back |
| Obligations | none (pure) | `build_obligations`: offline file, LLM or rules | offline store, LLM client | each trajectory is judged by some obligations |
| Flow graph | action and artifact nodes, edges | `build_step_records`, extractors, `build_flow_graph` | projection of the environment manager | edges say what the step did; success is what the environment calls success |
| Step credits | `phi` after each step | `compute_step_credits` | graph | potential without hindsight, waste and blame where they belong |
| Advantages | none (pure) | `compute_obliflow_outcome_advantage`, GRPO, GiGPO, HGPO, GraphGPO, GAE | rows of the batch, by `uid`, `traj_uid` and state | normalised within a group; copies count nowhere; what did better is not paid less |
| Trainer step | the batch's columns and rows, `global_steps`, the position of the dataloader, `kl_ctrl` | `fit`'s stages, `adjust_batch`, `_balance_batch`, validation, `_load_checkpoint` | all of the above | each stage finds the columns it needs; every row is trained; a resumed job goes on as if it had never stopped |
| FSDP workers and the inference engine | parameters and optimizer, on the GPU or offloaded; the engine's copy of the weights; `base_sync_done` | `generate_sequences`, `compute_log_prob`, `compute_values`, `update_*`, `save/load_checkpoint`; `__enter__`/`__exit__` of the sharding manager | the driver, one call at a time | the engine generates with the weights that are trained; nothing offloaded is on the GPU beside its cache |
| Environment managers, memory | histories of each environment | `reset`, `step`, `build_text_obs` | environment workers (Ray actors, threads) | one history per environment, projection and validity aligned |
| Worker groups and dispatch | the share and the answer of each rank | pad, chunk, call, concat, unpad | driver and ranks, through Ray | position i of an answer belongs to row i of what was asked |
| Sequence-length balancing | none (pure) | `karmarkar_karp`, `rearrange_micro_batches` | ranks, by an all-reduce of the number of micro-batches | a permutation; equal numbers of rows, nearly equal loads; ranks in step |
| Inherited: async LLM servers, SGLang requests, tool rate limiter, Megatron workers, losses, other recipes | | | | see section 7 |

Interactions: the driver is one thread, and calls into worker groups block it
until every rank has answered. Real concurrency is in three places: the ranks of
a worker group (barriers), the thread pool over trajectories (shared cache and
counters), and the environments, which are stepped in lock step but finish at
different times. Between two launches of the job only the disk survives.

## 2. What is hard here

`PROJECT.json` lists every hazard with its line and with the properties that
cover it. By kind:

- **Crashes between two writes.** A checkpoint is many files written by many
  processes; the tracker that names it is truncated before it is written;
  rotation removes before it writes; the list of what may be removed is lost
  with the process.
- **Barriers and blocking calls** of driver and ranks.
- **Threads** that share a cache and counters which the driver resets, and an
  `executor.map` that fails while threads still work.
- **Retries**: four kinds of failure share one loop, one of them (the cache
  write) after the answer has already arrived.
- **Lock-step environments**: what is done is stepped on, and only masks keep
  the extra rows out; the label of a trajectory is written while looking at a
  row that is not part of it.
- **Dynamic sampling**: the rollout is repeated with the same inputs, which the
  first try has consumed, and five parallel lists are filtered side by side.
- **State changed under a reader**: the projection rewrites the list that is
  recorded afterwards; the last observation is overwritten with a verdict.
- **Columns that come and go**: the driver's batch is replaced by the rollout's,
  the stages have another order in verl than in the recipes, and switches add
  and drop stages; what a stage misses shows up hours into a job, if at all.
- **Rows that are copied, padded and permuted**, on the driver, by dispatch and
  again inside every rank, while advantages, log probabilities and values are
  tied to their rows.
- **Collective calls**: a rank with fewer micro-batches leaves the others waiting.
- **Copies of the weights** in the engine, one update behind unless synced, and
  memory that must be given back before the engine allocates its cache.
- **Order inside the credits**: the potential must keep the past and not know
  the future; ties and empty sets decide who is blamed.

## 3. Modules

| Module | Models | State and actions against the code |
|---|---|---|
| `Checkpoint` | `RayPPOTrainer._save_checkpoint`, `_load_checkpoint`, the saving part of `fit`, `FSDPCheckpointManager.save_checkpoint`, `find_latest_ckpt_path` | `shards`, `data`, `folders`, `tracker` are the disk: a file is absent, torn (opened for writing, not yet closed) or holds the number of the launch that wrote it. `pc` is the driver's position, `wpc` that of each rank of each role. `Rotate`, `OpenShard`, `CloseShard`, `Return` are the stretches of `save_checkpoint` between its two barriers; `DataOpen/Close` and `TrackerOpen/Close` the driver's own files. `Relaunch` is a crash or a restart at any point: memory is reset, the disk stays. The three shard files of a rank (model, optimizer, extra) are one. |
| `FlowBatch` | what `compute_flow_step_rewards` promises about one batch | abstract: each trajectory is settled once, in any order; done needs all, failed needs one that raised |
| `FlowPool` | `compute_flow_step_rewards`, `_compute_trajectory_flow`, `build_obligations`, `try_build_llm_obligations`, `verify_llm_subtasks_for_trajectory`, `chat_json`, `get_llm_stats` | one program counter per thread: `Take`, `Offline` or `OfflineFails` (the file cannot be loaded), then for the decomposition and again for the verification `NoKey`/`ReadFailed`/`CacheHit`/`CacheMiss`, `Answered`/`FormatRejected`/`PostFailed`, `Store`/`StoreFailed`, `Count` or `GiveUp`. What follows an answer (`Return`) or an exception (`Raise`) is part of the step that ends the call, because no shared state is touched in between. The main thread is `Collect`, `Cancel`, `Fail`, `Report`. An answer is usable (a member of `Variants`), a JSON object without anything usable (`Useless`), or none. Implements `FlowBatch`. |
| `Rollout` | `multi_turn_loop`, both loops, `filter_group_data`, `success_evaluator`, `gather_rollout_data` | `Reset`, `Step`, `Evaluate` are a try; `Gather` the end. `Step` steps every environment with any answer of `Outcomes`, done or not, as the loop does. `ResetFails` and `GatherFails` are the two exceptions the loop can meet between tries. `total` holds the lists accumulated over tries, index by index. |
| `FlowGraph` | the projections of ALFWorld and Search, `build_step_records`, `parse_response`, `AlfWorldExtractor`, `build_flow_graph`, `compute_step_credits` | `manager` is the environment manager, which decides how an answer is projected, whether the list is rewritten (`InPlace`) and what an unknown action does. `Act` is one pass of answer, projection, environment and record; `Gather` the label of `gather_rollout_data`; `Build` the graph of the records; `Verify` the edges of verified subtasks; `Credit` the credits of all steps. A text is the set of its keywords. Scores are in thousandths; weights are in tenths and the costs of edges already multiplied by `lambda_cost`, so that potentials come in ten-thousandths and every number is an integer. |
| `Training` | the loop of `fit` over steps, epochs and launches in the four trainers, `_load_checkpoint`, the workers' offloading, `FSDPVLLMShardingManager` | `columns` is the driver's batch as [column -> the versions of the model that made it], `rolled` the rollout's. A version is the number of updates, 0 the pretrained model. One action per stage of the step (`Compute` for those that only add columns), with what the stage reads (`Needs`), adds (`Gives`) and loads on the GPU (`Forward`, `Update`). `WakeUp`, `NextTurn` and the `..Over` actions are the calls of the engine in a rollout, a validation or REMAX's baseline. `StageFails` is a stage that misses a column. `Relaunch` is a crash anywhere or a finished job started again. A save is one step: its files are `Checkpoint`'s. |
| `Batch` | the rows of one step through `fit`'s stages: returns, penalty, advantage, `adjust_batch`, `_balance_batch`, values, log probabilities and update | `batch` is a sequence of rows (records); `done` how many stages are over, in the order of the trainer; `Skip` passes a stage that the settings do without. `Call`, `RankComputes`, `RankUpdates` and `Return` are a call of a worker group, through `Dispatch`; `AdjustFails`, `NoSize`, `CallFails`, `RankFails` and `UnionFails` the exceptions: too few rows to copy from, a size that is null, and the assertions of `chunk` on the driver and in a rank (`Cuts`) and of `union`. `trained` records the micro-batches of each rank and the weight of each row in the gradient (`MicroWeight`, by `loss_agg_mode`). |
| `Advantage` | the estimators as operators on sequences of rows | exact fractions `<<n, d>>`; ObliFlow, GRPO, GiGPO, HGPO (clusters of histories), GraphGPO (the graph of a group and distances in it), GAE for responses of one token |
| `Balance` | `verl/utils/seqlen_balancing.py` | the heap of `karmarkar_karp` as a set of states merged largest difference first; sorts are `Ordered` by an explicit order of the elements; micro-batches and the indices that put rows back |
| `DataProto`, `Dispatch` | `verl/protocol.py`; one `DP_COMPUTE_PROTO` call | `Begin` pads and cuts, `Compute(r, ..)` is one rank, in any order, `End` puts together and cuts off the padding |
| `MCFlowPool`, `MCRollout`, `MCFlowGraph`, `MCBatch`, `MCTraining` | small instances | the tasks and logs of three trajectories; what environments answer; a kitchen of four places and a question to search an answer for; batches of up to ten rows; twenty-two jobs |
| `Checkpoint_proofs`, `FlowPool_proofs`, `Rollout_proofs`, `FlowGraph_proofs`, `Dispatch_proofs`, `Batch_proofs`, `Training_proofs`, `DataLemmas` | proofs | section 6 |

How they compose: `Rollout` hands rows to `FlowGraph` (`Gather` of `FlowGraph`
is one trajectory's part of `Gather` of `Rollout`), and `FlowPool` decides which
obligations `Build` and which checks `Verify` of `FlowGraph` get; `FlowGraph`
takes every set and every verdict that `FlowPool` can deliver. `Batch` takes the
rows that `Rollout` gathers with the credits of `FlowGraph`, and instantiates
`Dispatch` for its calls. `Training` abstracts a step to its columns and is to
`Batch` what `fit` is to the body of its loop; `Checkpoint` refines its `Save`
and `Launch`. Definitions with `Mutant` in their comment are plausible mistakes in the code, used to show that each property can
be broken.

Abstractions worth knowing:

- `Checkpoint`: the writes of a rank are observed at their begin and end only.
  `MaxKeep = 0` stands for `null` (keep everything). A stage between two saves
  has no effect on the disk, so a training step is one action.
- `FlowPool`: two trajectories share a cache key of the decomposition if and
  only if they share their task, and one of the verification if they share the
  task's subtasks and the log of their actions. The cache may start with answers
  of earlier batches, but none for the tasks of the offline file. Whether an API
  key is configured and whether the offline file can be loaded is chosen once.
  `DiskMayFail` covers both ways: a write may fail, and any lookup may meet a file
  that cannot be read, which raises outside the retry loop and is not counted.
- `Rollout`: a text is not modelled, a reward is an integer, and a game is the
  task type that decides the extra success keys. The configuration is chosen
  once (`Configs`).
- `Batch`: a row has one advantage, value and log probability, its own identity
  where only the row matters; the number of its response tokens (`resp`) matters
  for its weight in the loss only. Scores and
  rewards are small integers; the rows of a rollout are among `MCBatches`. A row
  is named by its place in the rollout (`id`) and the rows of one trajectory share
  their group (`rollout_loop.py` draws `uid` per group of environments and repeats
  it). Settings are those that pass the workers' assertions: a rank has a
  mini-batch, and its micro-batches divide it. Sizes are those the workers use;
  `unset` names those that are null in the driver's configuration, which
  `_validate_config` lets pass with dynamic batch sizes. One switch `dynamic` stands
  for those of actor, rollout and critic, and one switch `padded` for auto padding on
  the driver and in the workers. `loss_mode: gspo`, which always averages over
  sequences, is the case of `seq-mean-token-mean`. Only the recipe's trainers know
  the ObliFlow estimator.
- `Training`: the settings are chosen once (`Configs`). The column `whole`
  stands for as many rows as divide among the ranks: a rollout may or may not
  deliver it, `adjust_batch` makes it so.
- `FlowGraph`: the policy answers anything in `Responses`; keywords come from
  the instance. An answer is told by its tags, its search or answer blocks and the
  action it names in them or, without tags, at its end (ALFWorld takes its last
  characters). The graph is a set of edges, because nothing the code computes
  from it depends on order except the cut blame, whose sort is modelled.

## 4. Runs, bounds and fairness

| Run | Question | Bounds, and why they are enough |
|---|---|---|
| `checkpoint` | Is a readable tracker always good? Does rotation keep what it may? Does a save ever block? | 2 ranks, actor and critic, saves at steps 2, 4 and 5 with 2 kept, so that the third save rotates; 3 launches, so that a save can be interrupted, repeated and interrupted again, and a finished run resumed |
| `checkpoint_tracker_torn`, `checkpoint_rotation_tracker` | violations, section 5 | 1 rank, 2 launches: shortest traces |
| `flow_parallel` | Is every call counted once, is every trajectory judged, whatever fails? | 2 threads on 3 trajectories, so that a thread takes a second one; two share a task (and its cache entry), the third is in the offline file, which may or may not load; 2 attempts, so that a rejected format can be retried and fail; reads and writes of the cache fail at will |
| `flow` | Does the pool implement `FlowBatch`, leave nothing running, end, and give a task one decomposition? | without fallback: as above, one attempt; with it: 1 thread (the default), two different usable answers of the LLM, failing disk |
| `rollout` | Are rows, labels, groups and the success rate those of the active steps? Does a rollout end with groups enough? | 1 group of 2, 3 steps with rewards in {-1, 0, 1}: one environment may be done two steps before the other; two games, 2 tries. For dynamic sampling 2 groups of 2 (one kept, one dropped) and 3 tries: first, middle and last |
| `rollout_task_keys`, `rollout_search_retry` | violations, section 5 | 1 step, 2 tries |
| `graph` | Are potential, waste, break and blame what they promise? | 4 steps, one more than a win needs; to ALFWorld well-formed answers, one without reasoning, two without tags (one ends in an admissible action); to Search the two blocks its prompt asks for, the same with action tags, two blocks and none; rules and subtasks; verdicts with and without a score, at a known and at an unknown step. ALFWorld's projection rewrites the answers in place (those of WebShop, Sokoban and AppWorld do too); Search's does not |
| `graph_projection` | violation, section 5 | 2 steps |
| `batch` | Do rows keep what is theirs through copying, padding, balancing and micro-batching? Do copies count in no mean? Do the ranks stay in step, and do rows weigh the same where the loss is a mean over sequences? Does a batch that divides go through? Does what did better get no less? | 2 ranks; 1, 3, 4, 6 and 10 rows of up to five trajectories in up to three groups, so that rows must be copied, divide, or are too few; all estimators, both orders, with and without penalty, balancing, padding, dynamic and multi-modal micro-batches, every `loss_agg_mode`, rows with one and with two response tokens, a multi-modal mini-batch of 5 that 2 ranks do not divide, and sizes that are null. 60,427 states in two minutes |
| `training` | Does the engine generate with the weights that are trained? Is every update on-policy? Does a stage ever miss a column? Does a job resume exactly, save in time and end? | 2 epochs of 3 batches, so that an epoch ends inside a job and `save_freq` (1, 2, 3) does and does not divide its length; totals of 3 (cut short), 6 and 7 (not reached); 3 launches, so that a resumed job can crash and a finished one be launched again; 2 turns; twenty-two jobs of the four trainers, thirteen that run, nine that cannot or may not |

What the properties say:

- `Checkpoint`: `TrackerComplete` (a tracker that can be read names a
  checkpoint whose every shard and `data.pt` are whole and of one launch),
  `LaunchKeepsAtMost` (one launch never leaves more folders of a role than it
  may, even in the middle of a save), `Finishes`.
- `FlowPool`: `StatsAccount` (the metrics of a finished batch account for every
  LLM call, once, but for those that an unreadable cache file ended), `AlwaysObliged` (`README.md:236-237`: "training can still run
  when LLM decomposition or verification is unavailable": no trajectory raises
  with the fallback, and a finished batch has obligations for each trajectory and
  a judgement of its subtasks), `QuietWhenOver` (no thread of the batch can write
  the cache or count when the trainer goes on), `SameDecomposition`,
  `ImplementsFlowBatch`, `Ends`.
- `Rollout`: `OutputWhole`, `SuccessLabelled` (the label of every row and the
  reported rate are those of its trajectory's last active step), `GroupsWhole`,
  `TargetMet`, `Ends`.
- `FlowGraph`: `PotentialKept`, `NoHindsight`, `EffectUsed` (`README.md:42`: "Was
  the artifact consumed by later actions?" Under Search, what a step did to the
  environment is no waste when the next answer parses to a valid action, which
  takes action tags that Search's prompt does not ask for. Under ALFWorld no
  recorded answer does, and a produced artifact counts as used only if it
  discharges an obligation), `BlameOnce`,
  `InvalidNoopPaid` (the claim of `tests/obliflow/test_flow_reward.py`; it needs
  that the rules a step may still discharge in part weigh no more than 2.5, as
  those of an ALFWorld task that names one state change do: `NoopsWeighLittle`),
  `CompletedCounts`.
- `Batch`: `RowsKeepTheirOwn`, `CallsFit`, `CopiesNotCounted`, `BetterPaysMore`
  (ObliFlow: of two rows alike in flow and blame the better trajectory's is not
  paid less; GraphGPO: of two steps out of one state the one that came nearer to
  the goal is paid more, whoever reached it), `OnlyFirstPenalty`,
  `TrainedOnceOrTwice`, `EvenWeights` (within an optimizer step all rows of all
  ranks weigh the same in the gradient, where `WeighsEvenly`), `RanksInStep`,
  `Balanced`, `AlignedGoesThrough` (a rollout whose rows divide wherever
  `adjust_batch`, the driver and the workers cut them raises nothing).
- `Training`: `EngineFresh`, `OnPolicy`, `RoomForCache`, `NoStageStarved`,
  `ResumesExactly`, `SavesInTime`, `RunsToTotal`.

Five of these name exceptions, which are what the code does:

- `NoStageStarved` and `RunsToTotal`: some settings that the trainers accept
  cannot finish a step (`Doomed`). An asynchronous reward function
  (`launch_reward_fn_async`) loads its manager by a function that does not know
  "episode", the only one that main accepts. REMAX scores the dataloader's batch,
  which has no episodes. In the recipes `use_kl_in_reward` reads log
  probabilities that are computed only later. `layered_summon` needs a base
  model that is not `dummy`. With a reward model `_validate` returns no metrics if
  the first row's `reward_model.style` is "model", which an assertion refuses
  before training, and raises `KeyError` if the rows name no style (as those that
  `examples/data_preprocess/prepare.py` writes); with "rule", which the Search-R1
  preprocessing writes, it runs and so does the job. Others depend on the data
  (`AtRisk`): the recipes call the critic or the reward model before `adjust_batch`
  has made the rows divide, and a validation during training looks for the style too.
- `EngineFresh`: an adapter on a base model loaded as `dummy`, where
  `docs/advance/ppo_lora.rst:30` requires `safetensors` (only `layered_summon` checks it),
  misses the first call of every launch, so that a resumed job generates its first turn with the pretrained
  model. With `val_before_train` a validation takes that call.
- `ResumesExactly`: the adaptive coefficient of the KL penalty is in no
  checkpoint and starts over. A launch that resumes a finished job trains one
  step more, and so does each later one (`reruns` in `RunsToTotal`).
- `EvenWeights`: `token-mean`, which `ppo_trainer.yaml` sets, takes the mean within
  each micro-batch, so that neither rows nor tokens weigh the same in a mini-batch
  when responses differ in length (`docs/algo/dapo.md:116` promises a mean "across
  all the tokens in all the sequences in a mini-batch"). With dynamic batch sizes
  `seq-mean-token-sum-norm` scales a sum by the rows of its micro-batch. A padded
  multi-modal chunk need not have equal parts unless the ranks divide the mini-batch.
- `AlignedGoesThrough`: `adjust_batch` multiplies the `*_per_gpu` sizes, which may be
  null: `TypeError` (`NoSize`). It asks neither the critic for its size nor the
  ranks for their share of a multi-modal mini-batch (`Aligned` does): a mini-batch of
  5 on 2 ranks makes the batch a multiple of 5, and a share of 5 is cut into 5 // 2
  parts, which `chunk` refuses. Multi-modal inputs with dynamic batch sizes never get
  through (`NoIndices`).

HGPO has no property of its own on who is paid more: a group whose advantages
are zero gets no weight among the history lengths, so that of two steps with
the same history the one with the higher return may get the lower advantage.
That is the formula in the code and no document says otherwise.

Runs disable the deadlock check because each of them models something that
really ends: a job that is done or has failed, a step, a batch, a rollout, one
trajectory's credits.

**Fairness.** `Checkpoint`: weak fairness of the driver and of each rank, since
each is a process that runs whenever it is not waiting; nothing obliges anyone
to relaunch. `FlowPool`: weak fairness of the main thread and of each worker
thread; a request ends because `urlopen` is given a timeout. No fairness makes a
request succeed. `Rollout`: weak fairness of the one thread there is.
`Training`: weak fairness of `Progress`, the driver's next action; nothing
obliges anyone to launch a job again. `Batch` and `FlowGraph` state safety only.

## 5. Where code and documents disagree

Each is a run that TLC refutes, with a finding in `PROJECT.json`.

- **Tracker file** (`checkpoint_tracker_torn`). "for atomic usage" says the
  comment, but `open(.., "w")` truncates before the number is written: a crash
  between leaves an empty file, and the next launch dies at `int("")`.
- **One checkpoint kept** (`checkpoint_rotation_tracker`). With
  `max_ckpt_to_keep=1`, which the trainer's deprecation warning recommends,
  rotation removes the checkpoint that the tracker names before the next is
  written. This is why the theorem of section 6 excludes exactly that value.
- **Success keys** (`rollout_task_keys`). Dynamic sampling joins the success
  dictionaries of its tries by the keys of the first, which depend on the games
  that were drawn: `KeyError`.
- **env_kwargs** (`rollout_search_retry`). The first try pops `env_kwargs`; the
  second resets the search environments with `None`.
- **Recorded answers** (`graph_projection`). `text_actions` is recorded after
  `envs.step`, whose projection has rewritten that list: for ALFWorld the parser
  sees no tags, every action node is empty and invalid, and every step pays the
  break penalty. The projections of WebShop, Sokoban and AppWorld rewrite their list
  as well.

A sixth one is described and not a run: `previous_saved_paths` is empty after a
restart, so that the folders of earlier launches are never removed, while the
docstring (`verl/utils/checkpoint/fsdp_checkpoint_manager.py:139`) says
"keeping at most `max_ckpt_to_keep`"; `LaunchKeepsAtMost` therefore counts the
folders of one launch.

## 6. Proofs

`Checkpoint_proofs` holds three theorems, for every number of ranks, steps, kept
checkpoints and launches, under the assumptions of `Checkpoint`
(`RanksAssumption`: the ranks are a finite, nonempty set; `StepsAssumption`: the
numbers are natural and steps, frequency and launches positive):

- `TypeCorrect`: `Spec => []TypeOK`.
- `TrackerAlwaysComplete`: `Spec => []TrackerComplete`, assuming `MaxKeep # 1`.
- `LaunchAlwaysKeepsAtMost`: `Spec => []LaunchKeepsAtMost`.

`TypeOK` is not inductive: that a step number stays among `Steps` needs a bound
on how far a launch can go beyond the tracker it resumed from (`StepBound`: each
launch at most one step further than all earlier ones), that a tracker names an
existing folder (`FolderInv`, else a launch would start from scratch and the
bound would be lost) and that ranks are inside a save only while the driver
waits for them (`CallInv`). Together they are `TypeInv`.

`TrackerComplete` needs two more facts. `SaveInv` says what the save in progress
has already put on disk at each point of the driver, so that the tracker is
written only for a whole checkpoint; a slow rank's rotation must not remove what
a fast rank has written, which follows from the first barrier. `PathsInv`
relates the tracker to what rotation may remove: the recorded paths of a rank
are below the current step, the newest comes last and is the only one that may
be the tracker's. With `MaxKeep # 1` rotation never reaches the last
(`KeepStartBound`), so that the tracker's folder survives. `IInv` is the
conjunction; `InitIInv` and the lemmas `StepType`, `StepPaths`, `StepSave` and
`StepTracker`, one case per action, show that it is inductive.

`LaunchKeepsAtMost` rests on `KeepInv`. `KeptInv` says that every rank by itself
remembers all that its launch has on disk, but for the step it is saving, and that
its list is shorter than `MaxKeep` while it saves; that rotation is local to each
rank then does no harm, since what one removes is gone for all. A rank that
finishes its shard adds to the disk what the others must account for: `BarrierInv`
has them all between their rotation and their own record. `PastInv` and
`LaunchBound` carry the bound over to the launches that are gone.

`FlowPool_proofs` holds six theorems about `FlowPool`, for every number of threads and trajectories, every assignment of tasks and logs
to trajectories, every bound on retries and every setting of the switches. The
assumptions are `PoolAssumption` (threads are a finite, nonempty set, at least
one trajectory), `SwitchAssumption` (switches are Boolean) and
`VariantsAssumption` (a usable answer is neither useless nor rules nor the
offline file's).

- `PoolTypes`, `PoolObliged`, `PoolQuiet`: `TypeOK`, `AlwaysObliged` and
  `QuietWhenOver` always hold.
- `PoolImplementsFlowBatch`: `Spec => ImplementsFlowBatch`, the safety of
  `FlowBatch` under the refinement mapping of `FlowPool`.
- `PoolSameDecomposition`: `SameDecomposition` always holds. It says something
  of one thread only; with two both may miss the cache.
- `PoolStatsAccount`: `StatsAccount` always holds.

Their inductive invariant is `PoolInv`. Its core is `ItemInv`: a thread that is
busy works on a trajectory taken out of the queue, still pending, and its own;
without it two threads could settle one trajectory twice and neither the
refinement nor the counters would hold. `QueueInv` keeps what is queued
untouched, `CallInv` ties a call to its purpose, its attempts and its answer,
`ResultInv` says what a result carries, and `MainInv` what the main thread has
seen, from which `OverIsQuiet` follows: a batch that is over has no pending
trajectory, so nobody can be busy. Two lemmas carry most actions: `EndKeepsInv`
(a thread ends with obligations and checks) and `GoOnKeepsInv` (it goes on);
`Return` and `Raise` are proved once, from these, and used by every action that
ends a call. `CacheInv` adds that a decomposition in use is the one in the cache
and that a request is made only for a key that is not there; `OneWorker` is
where the single thread comes in. `CountInv` relates what is accounted for, the
counters and the calls that an unreadable file ended (`Accounted`), to the
trajectories whose call is over (`Decomposed`, `Verified`), as long as none has
raised (`NoneRaised`): `CallEnds` shows
that a call that ends adds its trajectory to the set of its purpose, where it
was not before, and to no other.

`Rollout_proofs` has four theorems, for every `GroupN`, batch, number of steps and
of tries, whatever the environments answer, under `ConfigsAssumption` (sizes are
positive, switches Boolean, an environment answers something with an integer
reward). Raising (`NeverRaises`, refuted in section 5) is no way around them:
they speak of what is handed over when a rollout does end.

- `OutputAlwaysWhole`: `OutputWhole`. `SuccessAlwaysLabelled`: `SuccessLabelled`.
- `GroupsAlwaysWhole`: `GroupsWhole`. `TargetAlwaysMet`: `TargetMet`.

None of the four is inductive, since each speaks of `output` only. `RolloutInv`
carries what they rest on through the tries. `TryInv` says that the active rows of
an environment are a prefix of its rows, of the length in `length`, and that
`reward` is what that prefix was rewarded (`Played`): an environment that is done
is stepped on, and only the masks keep this true. `TotalInv` says the same of each
trajectory in the accumulated lists (`Whole`), that no trajectory is there twice,
and that its whole group is there, rewarded differently unless the last try was
not filtered (`InGroup`); `filter_group_data` indexes each list with the same
`keep_indices`, so they stay in step. `SuccessInv` relates the lists of
`success_evaluator`, flattened, to the last active row of each trajectory, and
`CountInv` counts: whole groups only, below the target before a try, and at the
target after the last one. `DoneInv` says what `gather_rollout_data` made of the
lists. The longest argument is that its two loops yield the flattening of the
labelled active prefixes (`GatheredIs`): when a row is not active and the one
before was, the last row gathered so far is the last of that same
trajectory, because every trajectory has an active row. The properties then follow
from where the rows of one trajectory lie in a flattening.

`Dispatch_proofs` has `AnswersAlwaysFit`: for every number of ranks, every set of
rows and every function a method computes for a row, a call answers row by row,
padded or not, in whatever order the ranks answer. It assumes that `"none"` is no
method and, because `Dispatch` leaves what the driver does between two calls open,
that the driver's batch is always a sequence of rows: `Spec /\ []IsSeq(batch) =>
[]AnswersFit`. `Batch_proofs` shows that `fit` keeps it one. `CallInv` says that each rank holds its
share of the padded batch and its own answer or none; the arithmetic of positions
and shares is that of `DataLemmas`.

`Training_proofs` has six theorems, for every set of settings and any number of
epochs, batches, turns and launches, under `TrainersAssumption` (the four
trainers), `BatchesAssumption` (an epoch has a batch) and `StepsAssumption` (the
settings that count steps are integers).

- `EngineAlwaysFresh`: `EngineFresh`. `EngineInv` adds that the engine is awake
  only while its job generates, so that no update meets it awake, and that the
  base model is missing only before the first call of a launch.
- `AlwaysRoomForCache`: `RoomForCache`, from `RoomInv`: nothing that is offloaded
  is on the GPU between two calls.
- `AlwaysResumesExactly`: `ResumesExactly`. `CountInv` counts inside a step
  too: the actor has this step's update once its stage is past, if the warm-up
  is over, and the checkpoint (`SavedInv`) holds what was reached at its step.
- `AlwaysSavesInTime`: `SavesInTime`. `TimeInv` adds that a checkpoint is at the
  end of a period or of the job, so that a resumed job keeps the periods.
- `AlwaysOnPolicy`: `OnPolicy`. `TurnsInv` follows who generated the turns so
  far, and `Unused` when the engine has not yet generated; `ColumnsInv` says
  which version made each column that is there.
- `NeverStarved`: `NoStageStarved`. `HaveInv` says that every stage that was
  taken has left its columns, from which `RecipeNeedsMet` and `VerlNeedsMet`
  conclude, for either order of the stages, that none is missing with settings
  that are neither `Doomed` nor `AtRisk`; `StuckInv` says how far a doomed job
  gets, for each reason, which is never as far as an update.

All rest on `OrderInv`, which knows where in the step the driver is. Its lemmas
read off the two orders of the stages what is needed of them: `StageOrder` (both
have the updates, the validation and the save at the same places), `NextStep`
(the stages that count something are neither skipped nor taken out of turn) and
`StageAt`.

`FlowGraph_proofs` has seven theorems, for every environment, every policy, every
length of the trajectory, every decomposition and whatever the verifier says,
under `WorldAssumption` (places, actions and answers fit together),
`WordsAssumption` (keyword sets are finite) and `GradeAssumption` (a decomposition
is finite with finite targets, a check scores between 0 and 1).

- `NeverHindsight`: `NoHindsight`. `GraphOfPrefix` is what it rests on: the graph
  of the first `n` records is what the graph of all records holds up to step `n`,
  because a step's edges depend on its record and on earlier ones only.
- `AlwaysEffectUsed`: `EffectUsed`. `HandoffIs` gives the next step's handoff edge
  a score of at least 0.5 and `UsedByNext` finds that edge in the graph. For the
  managers that rewrite the answers `ConsumedIs` and `UsedByDischarge` show that no
  consumption or transformation of a produced artifact is valid.
- `AlwaysBlameOnce`: `BlameOnce`. `Worst` shows that among finitely many scored
  steps there is a latest of the worst, so that the choice in `Blamed` is one;
  `CutIs` that the blame is never zero where it falls.
- `AlwaysPotentialKept`: `PotentialKept`. The potential is written as a sum over
  edges of what each discharges (`Worth`) less what it costs (`Spent`), so that the
  potential up to a step is the one before plus what the step's own edges add
  (`SumUnion` of `DataLemmas`), and no earlier edge is in question again.
- `CompletedAlwaysCount`: `CompletedCounts`. The edge that `Verify` adds for a
  completed subtask lies at a recorded step, so the last potential has it.
- `InvalidNoopAlwaysPaid`: `InvalidNoopPaid`, for every world with
  `NoopsWeighLittle`. `NoopInv` says that a noop's feedback is the environment's
  own and that it never wins; what such a step can discharge is then a part of the
  rules, never more than 0.3 of each (`NoopArtifacts`), less than what an invalid
  action costs. Without the bound on the weights the claim is false: enough rules
  discharged in part outweigh the penalty.
- `TypeCorrect`: `TypeOK`. `OverlapIs` and `ShareIs` bound the divisions,
  `StepEdgesAre` the scores of each kind of edge.

Their invariants are `EpisodeInv` (each record is one the loop can leave, and a
gathered episode has one) and `FlowInv` (the edges are the graph of the records and
what the checks add to it, the credits are those of that graph). The graph is
finite (`FiniteEdges`), which the penalties, being shares of counts, need.

`DataLemmas` has what the others need about data and the library's theorems do
not give, because its induction takes an operator as a parameter: `Induction` and
`SetInduction` are induction stated for a set of numbers or of finite sets, from
`Least`, which is the well-founded order of the naturals; `SomethingAddsUp`
and `AddsUpOnce` show that the fold under `SumFunctionOnSet` has one value, and the
`Sum...` lemmas are its algebra (a part, a union of disjoint sets, monotonicity, a
factor). `Parts`, `Position`, `OneQuotient` and `InShare` are division.

`Batch_proofs` has eleven theorems, for every number of ranks, every batch a rollout
may return and all settings, under `WorldAssumption` (there is a rank),
`BatchAssumption` and `ConfigAssumption` (the abstractions of `Batch` in section 3)
and `WeightAssumption` (scores, penalty and weights are integers, in a common unit).

- `CallsAlwaysFit`: `CallsFit`; `RowsAlwaysKeepTheirOwn`: `RowsKeepTheirOwn`;
  `AlignedAlwaysGoesThrough`: `AlignedGoesThrough`. All three follow from `JobInv`,
  which says between calls which rows the driver has (`KeptInv`: in the order of
  the rollout until the copies are added, then each once or twice, as many as
  `adjust_batch`'s divisor divides) and during a call which rows each rank has
  (`InCall`, `Share`), and that a rank that has answered could cut them and one that
  raised could not (`Sound`). `AlignedCuts` shows that every rank can when the
  rollout is `Aligned`. `RowByRowKeeps`, `AdjustKeeps`, `BalanceKeeps` and
  `ReturnKeeps` are its cases.
- `RanksAlwaysInStep`: `RanksInStep`, and `TrainedAlwaysOnceOrTwice`:
  `TrainedOnceOrTwice`, from `TrainedInv`: what a rank has trained on is the cut of
  its share into mini- and micro-batches. `SplitPositions` and `EveryPlace` (with
  `OnePlace`) say that cutting, with fixed or dynamic sizes, puts every row in
  exactly one place.
- `WeightsAlwaysEven`: `EvenWeights`, for all settings that `WeighsEvenly` names.
  Without multi-modal inputs `adjust_batch`'s divisor fills every micro-batch of
  fixed size, and a dynamic one is scaled by its rows; with them a share that passes
  `chunk`'s assertion has parts of one size (`EvenCut`), so that every micro-batch of
  a step has as many rows on every rank (`EvenSteps`, `WeightAt`).
- `CopiesAreNeverCounted`: `CopiesNotCounted`. `RecipeInv` says which columns the
  recipes' trainers have computed when, and that the advantages are those of the
  rows the rollout returned; copies come later and are copies of whole rows.
- `OnlyFirstAlwaysPenalised`: `OnlyFirstPenalty`. ObliFlow's outcome is that of the
  first row of a trajectory, so two batches that differ in the penalties of other
  rows have the same advantages (`AlikeAdvantage`).
- `BetterAlwaysPaysMore`: `BetterPaysMore`, if the penalty turns no higher score into
  a lower one (`PenaltyBelowScores`; no setting of the code bounds the penalty, and
  a larger one breaks the property) and step advantages have a positive weight
  (`algorithm.graphgpo.step_advantage_w` is 1 in every script). `RecipeInv` also says
  that a row still tells what its row of the rollout told (`Tells`). For ObliFlow
  (`ObliFlowPays`) the rows of a group share every mean, so that only the scores of
  the first rows are left to compare. For GraphGPO, `PathWithin` and `WithinPath` are
  that the levels of the backward search hold exactly the states with a path of so
  many steps; `LevelsFill` counts: a level that is new has more states behind it than
  levels, so that as many levels as states are enough (`LevelsClose`). Hence a step
  that came nearer has the smaller distance (`NearerIsCloser`), the larger return
  (`HalfAsMuch`) and the higher advantage (`GraphgpoPays`). As in the run, nearer
  means within three steps: returns are whole multiples of a power of 1/2.
- `LoadsAlwaysBalanced`: `Balanced`. Before the job: a state of the differencing
  method is even (`Even`: parts of one size, weights no more than G apart) and in
  descending order (`Descends`). The first states are, if G is the widest gap among
  World neighbours in length (`FirstStatesEven`), and a merge of two that are is
  again, because it pairs the heavier parts of one with the lighter parts of the
  other (`MergedEven`, `MergeEven`); so the one state left is (`KarmarkarKarpIs`).
  A permuted batch has the same sorted lengths and so the same gaps (`SameGaps`,
  by counting), and equal parts end where the shares of the ranks do
  (`EqualParts`, `BalanceEvens`). During the job `LoadsInv` says that from the
  balance on the batch is as even; no later stage moves a row or changes a length.
- `JobImplementsDispatch`: `Spec => ranks!Spec`. Every step of a job is a step of
  `Dispatch` or leaves the call alone, so that what is proved of one call holds of
  every call that `fit` makes.

The first half of the module is about the operators: that the largest differencing
method returns a partition, with parts of one size when asked for
(`KarmarkarKarpIs`, `PartitionsAre`), that micro-batches are one
(`RearrangedFamily`, `MicroBatchesIs`), and that the flattening of the cuts puts
every row back (`SplitFlat`, from `FlattenIs` of `DataLemmas`).

Only model-checked: liveness (`Finishes`, `Ends`, `RunsToTotal`), which the
prover cannot do under fairness. Every other property of a passing run is stated
by a theorem.

## 7. Not modelled

- Within modelled components: `resume_path` and a resume mode other than
  `auto`, the optional `hf_model` export, HDFS copies, the Megatron checkpoint
  manager; prompts and the parsing of LLM answers, `warn_once`, `.env` files;
  `preprocess_batch` and generation, tool-call counts; the WebShop extractor and
  obligations, graph metrics, extraction of keywords from text.
  In `Training` and `Batch`: metrics, `val_only`, the asynchronous rollout mode,
  Megatron and SGLang, Ulysses; the normalisation by a standard deviation, which
  has no exact fractions; advantages and values token by token; GiGPO's grouping of
  states by text similarity; dispatch modes other than `DP_COMPUTE_PROTO`.
- Components: scores of validation and metrics files (averages and appends);
  environment managers and memory (prompt texts);
  environment workers and third-party simulators (seen from outside, as any
  answer to a step); the WebShop extractor and obligations (the shape of the
  ALFWorld ones; WebShop's projection rewrites the answers in place as well, so that
  by the finding of `graph_projection` no parsed action is ever a search, a click or
  a purchase, which leaves its page transitions and partial scores); the offline file (string handling; its outcome is a
  parameter); async LLM servers, SGLang requests and tool rate limiters (ObliFlow's
  `fit` does not call them); the losses (floating-point tensors); reward managers
  (no state; a score is part of a row); the recipes of verl (dapo, prime, spin
  and the like), which nothing here calls.

## 8. Plan

Done: `Checkpoint`, `FlowBatch` and `FlowPool`, `Rollout`, `FlowGraph`, `Advantage`,
`Balance`, `Dispatch` and `Batch`, `Training`, with the theorems of section 6.

Left, most important first:

1. `Training` with `Checkpoint` in place of its one-step `Save`: that a torn
   tracker is all that can keep a job from resuming.
2. `FlowGraph` with the WebShop extractor and partial task scores.
3. Environment managers and memory: history buffers against the steps of each
   environment; validation rollouts between training rollouts.
4. The offline store's key lookup; SGLang requests and the token bucket of the
   search tool, if the recipe comes to use them.
