-------------------------- MODULE Training_proofs --------------------------
(***************************************************************************)
(* Proofs about Training, for every set of settings, every number of       *)
(* epochs, batches, turns and launches.                                    *)
(***************************************************************************)
EXTENDS Training, NaturalsInduction, WellFoundedInduction, FiniteSetTheorems, TLAPS

-----------------------------------------------------------------------------
(* The stages *)

\* A set of natural numbers has a least element, and Min returns it.
LEMMA LeastOf ==
    ASSUME NEW S \in SUBSET Nat, S # {}
    PROVE  Min(S) \in S /\ \A y \in S : Min(S) <= y
<1> DEFINE R == {ss \in Nat \X Nat : ss[1] < ss[2]}
<1>1. IsWellFoundedOn(R, Nat)
    BY NatLessThanWellFounded DEF OpToRel
<1> HIDE DEF R
<1>2. PICK x \in S : \A y \in S : ~(<<y, x>> \in R)
    BY <1>1, WFMin
<1>3. \A y \in S : x <= y
  <2> SUFFICES ASSUME NEW y \in S, y < x
               PROVE  FALSE
      OBVIOUS
  <2>1. <<y, x>> \in Nat \X Nat /\ <<y, x>>[1] < <<y, x>>[2]
      OBVIOUS
  <2>2. <<y, x>> \in R
      BY <2>1 DEF R
  <2> QED
      BY <1>2, <2>2
<1> QED
    BY <1>3 DEF Min

\* Where the KL penalty is taken.
KlAt == IF config.trainer = "verl" THEN 15 ELSE 11

\* Both orders of the stages agree on these places.
LEMMA StageOrder ==
    ASSUME config \in Configs
    PROVE  LET stages == Stages(config)
           IN  /\ Len(stages) = 20
               /\ \A i \in 1..20 :
                     /\ stages[i] # "none"
                     /\ stages[i] = "rollout" <=> i = 1
                     /\ stages[i] = "baseline" <=> i = 2
                     /\ stages[i] = "replace" <=> i = 3
                     /\ stages[i] = "kl" <=> i = KlAt
                     /\ stages[i] = "update_critic" <=> i = 17
                     /\ stages[i] = "update_actor" <=> i = 18
                     /\ stages[i] = "validate" <=> i = 19
                     /\ stages[i] = "save" <=> i = 20
<1> DEFINE i20 == \A i \in 1..20 : i = 1 \/ i = 2 \/ i = 3 \/ i = 4 \/ i = 5 \/ i = 6 \/ i = 7 \/ i = 8 \/ i = 9 \/ i = 10
                    \/ i = 11 \/ i = 12 \/ i = 13 \/ i = 14 \/ i = 15 \/ i = 16 \/ i = 17 \/ i = 18 \/ i = 19 \/ i = 20
<1>1. i20
    OBVIOUS
<1> HIDE DEF i20
<1>2. CASE config.trainer = "verl"
  <2>1. Stages(config) = VerlStages
      BY <1>2 DEF Stages
  <2> QED
      BY <1>1, <1>2, <2>1 DEF VerlStages, KlAt, i20
<1>3. CASE config.trainer \in {"obliflow", "hgpo", "graphgpo"}
  <2>1. Stages(config) = RecipeStages
      BY <1>3 DEF Stages, HgpoStages, GraphgpoStages
  <2>2. KlAt = 11
      BY <1>3 DEF KlAt
  <2> QED
      BY <1>1, <2>1, <2>2 DEF RecipeStages, i20
<1> QED
    BY <1>2, <1>3, TrainersAssumption

\* What lies between a stage and the next that is taken is not taken.
LEMMA NextStageIs ==
    ASSUME config \in Configs, NEW i \in 0..20
    PROVE  LET n == NextStage(i)
           IN  /\ n \in (i + 1)..21
               /\ n <= 20 => Wanted(Stages(config)[n])
               /\ \A j \in (i + 1)..20 : j < n => ~Wanted(Stages(config)[j])
<1> DEFINE L == Len(Stages(config))
           S == {j \in (i + 1)..L : Wanted(Stages(config)[j])} \cup {L + 1}
<1>1. L = 20
    BY StageOrder
<1>2. S \in SUBSET Nat /\ S # {} /\ S \subseteq (i + 1)..21
    BY <1>1
<1>3. NextStage(i) = Min(S)
    BY DEF NextStage
<1> HIDE DEF L
<1>4. Min(S) \in S /\ \A y \in S : Min(S) <= y
  <2> HIDE DEF S
  <2> QED BY <1>2, LeastOf
<1>5. \A j \in (i + 1)..20 : Wanted(Stages(config)[j]) => j \in S
    BY <1>1
<1>6. \A j \in S : j <= 20 => Wanted(Stages(config)[j])
    BY <1>1
<1> HIDE DEF S
<1>7. NextStage(i) \in (i + 1)..21 /\ NextStage(i) \in S
    BY <1>2, <1>3, <1>4
<1>8. NextStage(i) <= 20 => Wanted(Stages(config)[NextStage(i)])
    BY <1>6, <1>7
<1>9. ASSUME NEW j \in (i + 1)..20, j < NextStage(i)
      PROVE  ~Wanted(Stages(config)[j])
  <2>1. j \notin S
      BY <1>3, <1>4, <1>7, <1>9
  <2> QED
      BY <1>5, <2>1
<1> QED
    BY <1>7, <1>8, <1>9

\* The stages that count something are neither skipped nor taken out of turn.
LEMMA NextStep ==
    ASSUME config \in Configs, NEW i \in 0..20
    PROVE  LET n == NextStage(i)
           IN  /\ n \in (i + 1)..21
               /\ i = 0 => n = 1
               /\ i < 3 => n <= 3
               /\ i < KlAt => n <= KlAt
               /\ n = 17 => UseCritic(config)
               /\ i < 17 /\ n > 17 => ~UseCritic(config)
               /\ n = 18 => config.warmup <= step
               /\ i < 18 /\ n > 18 => ~(config.warmup <= step)
               /\ n = 20 => Due(config.saveFreq)
               /\ i < 20 /\ n > 20 => ~Due(config.saveFreq)
<1>1. /\ Stages(config)[1] = "rollout" /\ Stages(config)[KlAt] = "kl"
      /\ Stages(config)[3] = "replace"
      /\ Stages(config)[17] = "update_critic" /\ Stages(config)[18] = "update_actor"
      /\ Stages(config)[20] = "save"
      /\ KlAt \in {11, 15}
    BY StageOrder DEF KlAt
<1>2. /\ Wanted(Stages(config)[1]) /\ Wanted(Stages(config)[3]) /\ Wanted(Stages(config)[KlAt])
      /\ Wanted(Stages(config)[17]) <=> UseCritic(config)
      /\ Wanted(Stages(config)[18]) <=> config.warmup <= step
      /\ Wanted(Stages(config)[20]) <=> Due(config.saveFreq)
    BY <1>1 DEF Wanted
<1> QED
    BY <1>1, <1>2, NextStageIs

\* Where a step is.
OrderInv ==
    /\ config \in Configs
    /\ phase = "step" => /\ at \in 1..21
                         /\ at = 17 => UseCritic(config)
                         /\ at = 18 => config.warmup <= step
                         /\ at = 20 => Due(config.saveFreq)

\* Stages by their places.
LEMMA StageAt ==
    ASSUME OrderInv
    PROVE  /\ Stage # "none" => phase = "step" /\ at \in 1..20
           /\ phase = "step" => (at > Len(Stages(config)) <=> at = 21)
           /\ Stage = "rollout" <=> phase = "step" /\ at = 1
           /\ Stage = "baseline" <=> phase = "step" /\ at = 2
           /\ Stage = "replace" <=> phase = "step" /\ at = 3
           /\ Stage = "kl" <=> phase = "step" /\ at = KlAt
           /\ Stage = "update_critic" <=> phase = "step" /\ at = 17
           /\ Stage = "update_actor" <=> phase = "step" /\ at = 18
           /\ Stage = "validate" <=> phase = "step" /\ at = 19
           /\ Stage = "save" <=> phase = "step" /\ at = 20
<1>1. config \in Configs /\ KlAt \in {11, 15}
    BY DEF OrderInv, KlAt
<1>2. Len(Stages(config)) = 20
    BY <1>1, StageOrder
<1>3. phase = "step" => at \in 1..21
    BY DEF OrderInv
<1>4. CASE phase = "step" /\ at \in 1..20
  <2>1. Stage = Stages(config)[at]
      BY <1>2, <1>4 DEF Stage
  <2>2. /\ Stages(config)[at] # "none"
        /\ Stages(config)[at] = "rollout" <=> at = 1
        /\ Stages(config)[at] = "baseline" <=> at = 2
        /\ Stages(config)[at] = "replace" <=> at = 3
        /\ Stages(config)[at] = "kl" <=> at = KlAt
        /\ Stages(config)[at] = "update_critic" <=> at = 17
        /\ Stages(config)[at] = "update_actor" <=> at = 18
        /\ Stages(config)[at] = "validate" <=> at = 19
        /\ Stages(config)[at] = "save" <=> at = 20
      BY <1>1, <1>4, StageOrder
  <2> HIDE DEF KlAt
  <2> QED
      BY <1>2, <1>4, <2>1, <2>2
<1>5. CASE ~(phase = "step" /\ at \in 1..20)
  <2>1. Stage = "none"
      BY <1>2, <1>3, <1>5 DEF Stage
  <2> QED
      BY <1>1, <1>2, <1>3, <1>5, <2>1
<1> QED
    BY <1>4, <1>5

\* A stage leads to the next, or out of the stages.
LEMMA OrderNext ==
    ASSUME OrderInv, phase = "step", at \in 0..20 \/ Stage # "none",
           config' = config, phase' = phase, step' = step, at' = NextStage(at)
    PROVE  OrderInv'
<1>1. at \in 0..20 /\ config \in Configs
    BY StageAt DEF OrderInv
<1>2. /\ NextStage(at) \in 1..21
      /\ NextStage(at) = 17 => UseCritic(config)
      /\ NextStage(at) = 18 => config.warmup <= step
      /\ NextStage(at) = 20 => Due(config.saveFreq)
    BY <1>1, NextStep
<1> QED
    BY <1>1, <1>2 DEF OrderInv, UseCritic, Due, IsLast

LEMMA OrderStep == OrderInv /\ [Next]_vars => OrderInv'
<1> SUFFICES ASSUME OrderInv, [Next]_vars
             PROVE  OrderInv'
    OBVIOUS
<1> USE DEF OrderInv, vars, loopVars, UseCritic, Due, IsLast
<1>1. CASE Launch
    BY <1>1 DEF Launch
<1>2. CASE StartLoop
    BY <1>2 DEF StartLoop
<1>3. CASE DrawBatch
  <2>1. NextStage(0) = 1
      BY NextStep
  <2> QED
      BY <1>3, <2>1 DEF DrawBatch
<1>4. CASE EndStep
    BY <1>4 DEF EndStep
<1>5. CASE WakeUp
    BY <1>5 DEF WakeUp
<1>6. CASE WakeUpFails
    BY <1>6 DEF WakeUpFails
<1>7. CASE NextTurn
    BY <1>7 DEF NextTurn
<1>8. CASE RolloutOver
    BY <1>8, StageAt, OrderNext DEF RolloutOver, GenerationOver
<1>9. CASE BaselineOver
  <2>1. CASE at' = NextStage(at) /\ phase' = phase
      BY <1>9, <2>1, StageAt, OrderNext DEF BaselineOver, GenerationOver
  <2>2. CASE phase' = "failed"
      BY <1>9, <2>2 DEF BaselineOver, GenerationOver
  <2> QED
      BY <1>9, <2>1, <2>2 DEF BaselineOver
<1>10. CASE ValidationOver
  <2>1. CASE phase = "validating"
      BY <1>10, <2>1 DEF ValidationOver, GenerationOver
  <2>2. CASE phase # "validating"
      BY <1>10, <2>2, StageAt, OrderNext DEF ValidationOver, GenerationOver
  <2> QED
      BY <2>1, <2>2
<1>11. CASE StageFails
    BY <1>11 DEF StageFails
<1>12. CASE Replace \/ Compute \/ UpdateCritic \/ UpdateActor \/ Save
  <2>1. Taken
      BY <1>12 DEF Replace, Compute, UpdateCritic, UpdateActor, Save
  <2> QED
      BY <2>1, StageAt, OrderNext DEF Taken
<1>13. CASE Relaunch
    BY <1>13 DEF Relaunch
<1>14. CASE UNCHANGED vars
    BY <1>14
<1> QED
    BY <1>1, <1>2, <1>3, <1>4, <1>5, <1>6, <1>7, <1>8, <1>9, <1>10, <1>11, <1>12, <1>13,
       <1>14 DEF Next, Progress

-----------------------------------------------------------------------------
(* The engine *)

\* While the engine is awake its job generates, so that nothing is updated;
\* the base model is missing only before the first call of a launch.
EngineInv ==
    /\ engine.awake => Generating \/ phase = "launch"
    /\ phase # "launch" /\ ~baseSynced => config.dummy /\ engine.weights = -1
    /\ EngineFresh

\* A new job has not woken its engine.
LEMMA EngineInit == Init => EngineInv
  BY DEF Init, EngineInv, EngineFresh

\* Every step keeps that: only WakeUp wakes the engine, and only steps of
\* GenerationOver or Launch leave the stage with it.
LEMMA EngineStep == OrderInv /\ EngineInv /\ [Next]_vars => EngineInv'
<1> SUFFICES ASSUME OrderInv, EngineInv, [Next]_vars
             PROVE  EngineInv'
    OBVIOUS
<1> USE DEF EngineInv, EngineFresh, Generating, Stage, vars, loopVars, models, rollout, history
<1>1. CASE Launch
    BY <1>1 DEF Launch
<1>2. CASE StartLoop
    BY <1>2 DEF StartLoop
<1>3. CASE DrawBatch
    BY <1>3 DEF DrawBatch
<1>4. CASE EndStep
    BY <1>4, StageAt DEF EndStep
<1>5. CASE WakeUp
    BY <1>5 DEF WakeUp, Sync
<1>6. CASE WakeUpFails
    BY <1>6 DEF WakeUpFails
<1>7. CASE NextTurn
    BY <1>7 DEF NextTurn
<1>8. CASE RolloutOver
    BY <1>8 DEF RolloutOver, GenerationOver
<1>9. CASE BaselineOver
    BY <1>9 DEF BaselineOver, GenerationOver
<1>10. CASE ValidationOver
    BY <1>10 DEF ValidationOver, GenerationOver
<1>11. CASE StageFails
    BY <1>11 DEF StageFails
<1>12. CASE Replace
    BY <1>12 DEF Replace, Taken
<1>13. CASE Compute
    BY <1>13 DEF Compute, Taken
<1>14. CASE UpdateCritic
    BY <1>14 DEF UpdateCritic, Taken
<1>15. CASE UpdateActor
    BY <1>15 DEF UpdateActor, Taken
<1>16. CASE Save
    BY <1>16 DEF Save, Taken
<1>17. CASE Relaunch
    BY <1>17 DEF Relaunch
<1>18. CASE UNCHANGED vars
    BY <1>18
<1> QED
    BY <1>1, <1>2, <1>3, <1>4, <1>5, <1>6, <1>7, <1>8, <1>9, <1>10, <1>11, <1>12, <1>13,
       <1>14, <1>15, <1>16, <1>17, <1>18 DEF Next, Progress

\* A new job is in no stage.
LEMMA OrderInit == Init => OrderInv
  BY DEF Init, OrderInv

\* EngineFresh, for all settings: what generates is what is trained, but for
\* the first call of a launch with an adapter on dummy weights.
THEOREM EngineAlwaysFresh == Spec => []EngineFresh
<1>1. Init => OrderInv /\ EngineInv
    BY OrderInit, EngineInit
<1>2. OrderInv /\ EngineInv /\ [Next]_vars => (OrderInv /\ EngineInv)'
    BY OrderStep, EngineStep
<1>3. OrderInv /\ EngineInv => EngineFresh
    BY DEF EngineInv
<1> QED
    BY <1>1, <1>2, <1>3, PTL DEF Spec

-----------------------------------------------------------------------------
(* Memory *)

\* Nothing that the settings offload stays on the GPU.
RoomInv == resident \cap UNION {Offloadable(m) : m \in Models} = {}

\* Forward passes and updates leave on the GPU no more than they found.
LEMMA CallsOffload ==
    ASSUME NEW there, NEW m
    PROVE  Forward(there, m) \subseteq there /\ Update(there, m) \subseteq there
  BY DEF Forward, Update

LEMMA RoomLess == ASSUME RoomInv, resident' \subseteq resident, config' = config
                  PROVE  RoomInv'
  BY DEF RoomInv, Models, Offloadable, Params, Optim, UseCritic

\* A launch puts on the GPU what is not offloaded, and offloads what it restores.
LEMMA RoomLaunch == ASSUME Launch PROVE RoomInv'
<1> DEFINE fresh == UNION {Parts(m) \ Offloadable(m) : m \in Models}
           off == UNION {Offloadable(m) : m \in Models}
<1>1. fresh \cap off = {}
    BY DEF Parts, Offloadable, Params, Optim
<1>2. ASSUME NEW there, there \cap off = {}, NEW m
      PROVE  Restored(there, m) \cap off = {}
    BY <1>2 DEF Restored, Parts, Offloadable, Params, Optim
<1>3. resident' = fresh \/ resident' = ForModels(Restored, fresh)
    BY DEF Launch
<1>4. ForModels(Restored, fresh) \cap off = {}
  <2>1. ForModels(Restored, fresh) \in
            {Restored(Restored(fresh, "actor"), "critic"), Restored(fresh, "actor")}
      BY DEF ForModels
  <2> HIDE DEF fresh, off
  <2> QED
      BY <1>1, <1>2, <2>1
<1>5. RoomInv' <=> resident' \cap off = {}
    BY DEF Launch, RoomInv, Models, Offloadable, Params, Optim, UseCritic
<1> HIDE DEF fresh, off
<1> QED
    BY <1>1, <1>3, <1>4, <1>5

LEMMA RoomStep == RoomInv /\ [Next]_vars => RoomInv'
<1> SUFFICES ASSUME RoomInv, [Next]_vars
             PROVE  RoomInv'
    OBVIOUS
<1>1. CASE Launch
    BY <1>1, RoomLaunch
<1>2. CASE ~Launch
  <2>1. config' = config
      BY <1>2 DEF Next, Progress, vars, StartLoop, DrawBatch, EndStep, WakeUp, WakeUpFails,
                  NextTurn, RolloutOver, BaselineOver, ValidationOver, GenerationOver, StageFails,
                  Replace, Compute, UpdateCritic, UpdateActor, Save, Taken, Relaunch
  <2>2. resident' \subseteq resident
    <3>1. CASE WakeUp
        BY <3>1, CallsOffload DEF WakeUp
    <3>2. CASE Compute
        BY <3>2, CallsOffload DEF Compute
    <3>3. CASE UpdateCritic
        BY <3>3, CallsOffload DEF UpdateCritic
    <3>4. CASE UpdateActor
        BY <3>4, CallsOffload DEF UpdateActor
    <3>5. CASE Save
      <4>1. resident' = ForModels(Forward, resident)
          BY <3>5 DEF Save
      <4>2. ForModels(Forward, resident) \in
              {Forward(Forward(resident, "actor"), "critic"), Forward(resident, "actor")}
          BY DEF ForModels
      <4>3. Forward(resident, "actor") \subseteq resident
          BY CallsOffload
      <4>4. Forward(Forward(resident, "actor"), "critic") \subseteq Forward(resident, "actor")
          BY CallsOffload
      <4> QED
          BY <4>1, <4>2, <4>3, <4>4
    <3>6. CASE ~(WakeUp \/ Compute \/ UpdateCritic \/ UpdateActor \/ Save)
        BY <1>2, <3>6 DEF Next, Progress, vars, models, StartLoop, DrawBatch, EndStep, WakeUpFails,
                    NextTurn, RolloutOver, BaselineOver, ValidationOver, GenerationOver, StageFails,
                    Replace, Relaunch
    <3> QED
        BY <3>1, <3>2, <3>3, <3>4, <3>5, <3>6
  <2> QED
      BY <2>1, <2>2, RoomLess
<1> QED
    BY <1>1, <1>2

\* RoomForCache, for all settings: whatever was called before, nothing that is
\* offloaded is on the GPU while the engine holds its cache.
THEOREM AlwaysRoomForCache == Spec => []RoomForCache
<1>1. Init => RoomInv
    BY DEF Init, RoomInv
<1>2. RoomInv => RoomForCache
    BY DEF RoomInv, RoomForCache
<1> QED
    BY <1>1, <1>2, RoomStep, PTL DEF Spec

-----------------------------------------------------------------------------
(* Counting updates, batches and saves *)

\* The updates of the actor, and of the critic, in the first n steps.
ActorUpdates(c, n) == Cardinality({s \in 1..n : c.warmup <= s})
CriticUpdates(c, n) == IF UseCritic(c) THEN n ELSE 0
Adaptations(n) == IF config.klReward THEN n - resumedAt ELSE 0

\* So many batches out of the dataloader is where step n begins.
Whole(n) == (n - drawn) % BatchesPerEpoch = 0

LEMMA OneMoreUpdate ==
    ASSUME NEW c, NEW n \in Nat \ {0}
    PROVE  /\ ActorUpdates(c, n - 1) \in Nat
           /\ ActorUpdates(c, n) = IF c.warmup <= n THEN ActorUpdates(c, n - 1) + 1
                                                     ELSE ActorUpdates(c, n - 1)
<1> DEFINE S(k) == {s \in 1..k : c.warmup <= s}
<1>1. IsFiniteSet(1..(n - 1))
    BY FS_Interval
<1>2. IsFiniteSet(S(n - 1)) /\ Cardinality(S(n - 1)) \in Nat
    BY <1>1, FS_Subset, FS_CardinalityType
<1>3. CASE c.warmup <= n
  <2>1. S(n) = S(n - 1) \cup {n} /\ n \notin S(n - 1)
      BY <1>3
  <2>2. Cardinality(S(n - 1) \cup {n}) = Cardinality(S(n - 1)) + 1
      BY <1>2, <2>1, FS_AddElement
  <2> QED
      BY <1>2, <1>3, <2>1, <2>2 DEF ActorUpdates
<1>4. CASE ~(c.warmup <= n)
  <2>1. S(n) = S(n - 1)
      BY <1>4
  <2> QED
      BY <1>2, <1>4, <2>1 DEF ActorUpdates
<1> QED
    BY <1>3, <1>4

LEMMA NoUpdate == ASSUME NEW c PROVE ActorUpdates(c, 0) = 0
<1>1. {s \in 1..0 : c.warmup <= s} = {}
    OBVIOUS
<1> QED
    BY <1>1, FS_EmptySet DEF ActorUpdates

\* A period later is as good.
LEMMA Period ==
    ASSUME NEW F \in Nat \ {0}, NEW n \in Int, (n - F) % F = 0
    PROVE  n % F = 0
  OBVIOUS

\* What the job has done when step n begins.
Reached(n) ==
    /\ actor = ActorUpdates(config, n - 1)
    /\ critic = CriticUpdates(config, n - 1)
    /\ adapted = Adaptations(n - 1)
    /\ Whole(n - 1)

\* The latest checkpoint holds what the job had done by then.
SavedInv ==
    /\ saved.step \in Nat
    /\ saved # None => /\ saved.actor = ActorUpdates(config, saved.step)
                       /\ saved.critic = CriticUpdates(config, saved.step)
                       /\ saved.drawn \in 0..BatchesPerEpoch
                       /\ (saved.step - saved.drawn) % BatchesPerEpoch = 0

\* Where the loop is, what has been done of the step is counted.
CountInv ==
    /\ SavedInv
    /\ step \in Nat /\ drawn \in 0..BatchesPerEpoch /\ resumedAt \in Nat
    /\ phase \in {"validating", "ready"} => Reached(step + 1) /\ step = resumedAt
    /\ phase = "top" => step >= 1 /\ Reached(step)
    /\ phase = "step" =>
          /\ step >= 1
          /\ actor = ActorUpdates(config, IF at > 18 THEN step ELSE step - 1)
          /\ critic = CriticUpdates(config, IF at > 17 THEN step ELSE step - 1)
          /\ adapted = Adaptations(IF at > KlAt THEN step ELSE step - 1)
          /\ Whole(step)

\* A stage counts what it does.
LEMMA CountNext ==
    ASSUME OrderInv, CountInv, phase = "step", at \in 1..20,
           config' = config, phase' = phase, step' = step, drawn' = drawn,
           resumedAt' = resumedAt, at' = NextStage(at),
           actor' = IF at = 18 THEN actor + 1 ELSE actor,
           critic' = IF at = 17 THEN critic + 1 ELSE critic,
           adapted' = IF at = KlAt /\ config.klReward THEN adapted + 1 ELSE adapted,
           saved' = IF at = 20 THEN Checkpoint ELSE saved
    PROVE  CountInv'
<1>1. KlAt \in {11, 15} /\ KlAt' = KlAt
    BY DEF KlAt
<1>2. step \in Nat \ {0} /\ config \in Configs /\ resumedAt \in Nat
    BY DEF CountInv, OrderInv
<1>3. /\ at' \in (at + 1)..21
      /\ at < KlAt => at' <= KlAt
      /\ at = 17 => UseCritic(config)
      /\ at < 17 /\ at' > 17 => ~UseCritic(config)
      /\ at = 18 => config.warmup <= step
      /\ at < 18 /\ at' > 18 => ~(config.warmup <= step)
    BY <1>2, NextStep DEF OrderInv
<1>4. actor' = ActorUpdates(config, IF at' > 18 THEN step ELSE step - 1)
  <2>1. /\ actor = ActorUpdates(config, IF at > 18 THEN step ELSE step - 1)
        /\ ActorUpdates(config, step - 1) \in Nat
        /\ ActorUpdates(config, step) = IF config.warmup <= step THEN ActorUpdates(config, step - 1) + 1
                                                        ELSE ActorUpdates(config, step - 1)
      BY <1>2, OneMoreUpdate DEF CountInv
  <2> QED
      BY <1>3, <2>1
<1>5. critic' = CriticUpdates(config, IF at' > 17 THEN step ELSE step - 1)
    BY <1>2, <1>3 DEF CountInv, CriticUpdates
<1>6. adapted' = Adaptations(IF at' > KlAt THEN step ELSE step - 1)
    BY <1>1, <1>2, <1>3 DEF CountInv, Adaptations
<1>7. SavedInv'
  <2>1. CASE at = 20
    <3>1. saved' = [step |-> step, actor |-> actor, critic |-> critic, drawn |-> drawn]
        BY <2>1 DEF Checkpoint
    <3>2. actor = ActorUpdates(config, step) /\ critic = CriticUpdates(config, step)
          /\ drawn \in 0..BatchesPerEpoch /\ (step - drawn) % BatchesPerEpoch = 0
        BY <2>1 DEF CountInv, Whole
    <3> QED
        BY <1>2, <3>1, <3>2 DEF SavedInv
  <2>2. CASE at # 20
      BY <2>2 DEF CountInv, SavedInv, None
  <2> QED
      BY <2>1, <2>2
<1> QED
    BY <1>1, <1>2, <1>4, <1>5, <1>6, <1>7 DEF CountInv, Whole, Adaptations

LEMMA CountStep == OrderInv /\ CountInv /\ [Next]_vars => CountInv'
<1> SUFFICES ASSUME OrderInv, CountInv, [Next]_vars
             PROVE  CountInv'
    OBVIOUS
<1>1. CASE Launch
  <2>1. config' = config /\ saved' = saved /\ step' = saved.step /\ resumedAt' = saved.step
        /\ adapted' = 0 /\ phase' \in {"validating", "ready", "failed"}
      BY <1>1 DEF Launch
  <2>2. SavedInv /\ saved.step \in Nat
      BY DEF CountInv, SavedInv
  <2>3. /\ actor' = ActorUpdates(config, saved.step)
        /\ critic' = CriticUpdates(config, saved.step)
        /\ drawn' \in 0..BatchesPerEpoch
        /\ (saved.step - drawn') % BatchesPerEpoch = 0
    <3>1. CASE saved = None
        BY <1>1, <3>1, NoUpdate, BatchesAssumption DEF Launch, None, CriticUpdates
    <3>2. CASE saved # None
        BY <1>1, <2>2, <3>2 DEF Launch, SavedInv
    <3> QED
        BY <3>1, <3>2
  <2>4. SavedInv'
      BY <2>1, <2>2 DEF SavedInv, None
  <2> QED
      BY <2>1, <2>2, <2>3, <2>4 DEF CountInv, Reached, Whole, Adaptations
<1>2. CASE StartLoop
    BY <1>2 DEF StartLoop, CountInv, SavedInv, None, Reached, Whole, Adaptations, models, history, batchVars
<1>3. CASE DrawBatch
  <2>1. UNCHANGED <<config, step, actor, critic, adapted, saved, resumedAt>> /\ phase = "top"
      BY <1>3 DEF DrawBatch, models, history
  <2>2. SavedInv' /\ Reached(step) /\ step \in Nat \ {0} /\ drawn \in 0..BatchesPerEpoch
        /\ resumedAt \in Nat
      BY <2>1 DEF CountInv, SavedInv, None
  <2>3. CASE drawn < BatchesPerEpoch
    <3>1. drawn' = drawn + 1 /\ phase' = "step" /\ at' = NextStage(0)
        BY <1>3, <2>3 DEF DrawBatch
    <3>2. at' = 1
        BY <3>1, NextStep DEF OrderInv
    <3>3. drawn' \in 0..BatchesPerEpoch /\ step - drawn' = step - 1 - drawn
        BY <2>2, <2>3, <3>1, BatchesAssumption
    <3>4. KlAt' \in {11, 15}
        BY DEF KlAt
    <3> QED
        BY <2>1, <2>2, <3>1, <3>2, <3>3, <3>4 DEF CountInv, Reached, Whole, Adaptations
  <2>4. CASE ~(drawn < BatchesPerEpoch)
    <3>1. (step - 1) % BatchesPerEpoch = 0
      <4>1. drawn = BatchesPerEpoch
          BY <2>2, <2>4, BatchesAssumption
      <4>2. (step - 1 - BatchesPerEpoch) % BatchesPerEpoch = 0
          BY <2>2, <4>1 DEF Reached, Whole
      <4>3. step - 1 \in Int
          BY <2>2
      <4> QED
          BY <4>2, <4>3, Period, BatchesAssumption, Zenon
    <3>2. \/ drawn' = 0 /\ phase' = "top"
          \/ drawn' = drawn /\ phase' = "ended"
        BY <1>3, <2>1, <2>4 DEF DrawBatch
    <3> QED
        BY <2>1, <2>2, <3>1, <3>2, BatchesAssumption DEF CountInv, Reached, Whole, Adaptations
  <2> QED
      BY <2>3, <2>4
<1>4. CASE EndStep
  <2>1. UNCHANGED <<config, drawn, actor, critic, adapted, saved, resumedAt>> /\ phase = "step"
        /\ step' = step + 1 /\ phase' \in {"ended", "top"}
      BY <1>4 DEF EndStep, models, history
  <2>2. at = 21 /\ KlAt < 21
      BY <1>4, StageAt DEF EndStep, KlAt
  <2>3. SavedInv' /\ step \in Nat \ {0} /\ drawn \in 0..BatchesPerEpoch /\ resumedAt \in Nat
        /\ Reached(step + 1)
      BY <2>1, <2>2 DEF CountInv, SavedInv, None, Reached, Whole
  <2> QED
      BY <2>1, <2>3 DEF CountInv, Reached, Whole, Adaptations
<1>5. CASE UNCHANGED <<config, phase, at, step, drawn, actor, critic, adapted, saved, resumedAt>>
    BY <1>5 DEF CountInv, SavedInv, None, Reached, Whole, Adaptations, KlAt
<1>6. CASE phase' \in {"failed", "launch"}
           /\ UNCHANGED <<config, step, drawn, saved, resumedAt>>
    BY <1>6 DEF CountInv, SavedInv, None
<1>7. CASE /\ phase = "step" /\ at \in 1..20 /\ phase' = phase /\ at' = NextStage(at)
           /\ UNCHANGED <<config, step, drawn, resumedAt>>
           /\ actor' = IF at = 18 THEN actor + 1 ELSE actor
           /\ critic' = IF at = 17 THEN critic + 1 ELSE critic
           /\ adapted' = IF at = KlAt /\ config.klReward THEN adapted + 1 ELSE adapted
           /\ saved' = IF at = 20 THEN Checkpoint ELSE saved
    BY <1>7, CountNext
<1>8. CASE RolloutOver
    BY <1>7, <1>8, StageAt DEF RolloutOver, GenerationOver, models, history, KlAt
<1>9. CASE BaselineOver
  <2>1. CASE phase' = "failed"
      BY <1>6, <1>9, <2>1 DEF BaselineOver, GenerationOver, models, history
  <2>2. CASE phase' = phase /\ at' = NextStage(at)
      BY <1>7, <1>9, <2>2, StageAt DEF BaselineOver, GenerationOver, models, history, KlAt
  <2> QED
      BY <1>9, <2>1, <2>2 DEF BaselineOver
<1>10. CASE ValidationOver
  <2>1. CASE phase = "validating"
    <3>1. UNCHANGED <<config, step, drawn, actor, critic, adapted, saved, resumedAt>> /\ phase' = "ready"
        BY <1>10, <2>1 DEF ValidationOver, GenerationOver, models, history
    <3> QED
        BY <2>1, <3>1 DEF CountInv, SavedInv, None, Reached, Whole, Adaptations
  <2>2. CASE phase # "validating"
      BY <1>7, <1>10, <2>2, StageAt DEF ValidationOver, GenerationOver, models, history, KlAt
  <2> QED
      BY <2>1, <2>2
<1>11. CASE WakeUpFails \/ StageFails \/ Relaunch
    BY <1>6, <1>11 DEF WakeUpFails, StageFails, Relaunch, models, history
<1>12. CASE WakeUp \/ NextTurn \/ UNCHANGED vars
    BY <1>5, <1>12 DEF WakeUp, NextTurn, vars, loopVars, models, history
<1>13. CASE Replace
    BY <1>7, <1>13, StageAt DEF Replace, Taken, models, KlAt
<1>14. CASE Compute
    BY <1>7, <1>14, StageAt DEF Compute, Taken
<1>15. CASE UpdateCritic
    BY <1>7, <1>15, StageAt DEF UpdateCritic, Taken, KlAt
<1>16. CASE UpdateActor
    BY <1>7, <1>16, StageAt DEF UpdateActor, Taken, KlAt
<1>17. CASE Save
    BY <1>7, <1>17, StageAt DEF Save, Taken, KlAt
<1> QED
    BY <1>1, <1>2, <1>3, <1>4, <1>8, <1>9, <1>10, <1>11, <1>12, <1>13, <1>14, <1>15, <1>16,
       <1>17 DEF Next, Progress

LEMMA CountInit == Init => CountInv
  BY BatchesAssumption DEF Init, CountInv, SavedInv, None

\* ResumesExactly, for all settings: wherever a job crashed and however often it
\* was launched again, its models and its dataloader are where they would be.
THEOREM AlwaysResumesExactly == Spec => []ResumesExactly
<1>1. Init => OrderInv /\ CountInv
    BY OrderInit, CountInit
<1>2. OrderInv /\ CountInv /\ [Next]_vars => (OrderInv /\ CountInv)'
    BY OrderStep, CountStep
<1>3. OrderInv /\ CountInv => ResumesExactly
    BY DEF CountInv, Reached, Whole, Adaptations, CriticUpdates, ActorUpdates, ResumesExactly
<1> QED
    BY <1>1, <1>2, <1>3, PTL DEF Spec

-----------------------------------------------------------------------------
(* Saving in time *)

\* Step n is no further from the latest checkpoint than a period, and the steps
\* after the last follow a checkpoint each.
Late(n) ==
    /\ n - saved.step \in 1..config.saveFreq
    /\ n <= config.total \/ saved.step = n - 1

\* A checkpoint is at the end of a period or of the job, and a step that is due
\* has been saved once its stages are over.
TimeInv ==
    config.saveFreq > 0 =>
        /\ saved.step % config.saveFreq = 0 \/ saved.step >= config.total
        /\ phase \in {"validating", "ready"} => step = saved.step
        /\ phase = "top" => Late(step)
        /\ phase = "step" => IF at = 21 /\ Due(config.saveFreq) THEN saved.step = step
                             ELSE Late(step)
        /\ phase = "ended" /\ step > config.total => saved.step = step - 1

\* A step that is not due leaves room in its period.
LEMMA RoomInPeriod ==
    ASSUME CountInv, TimeInv, config \in Configs, config.saveFreq > 0, Late(step),
           ~Due(config.saveFreq)
    PROVE  step - saved.step < config.saveFreq /\ step < config.total
<1>1. /\ config.saveFreq \in Nat \ {0} /\ config.total \in Int
      /\ step \in Int /\ saved.step \in Int
    BY StepsAssumption DEF CountInv, SavedInv
<1>2. step < config.total /\ step % config.saveFreq # 0
    BY <1>1 DEF Due, IsLast
<1>3. saved.step % config.saveFreq = 0
    BY <1>1, <1>2 DEF TimeInv, Late
<1>4. step - saved.step # config.saveFreq
  <2>1. SUFFICES ASSUME step - saved.step = config.saveFreq
                 PROVE  FALSE
      OBVIOUS
  <2>2. step - config.saveFreq = saved.step
      BY <1>1, <2>1
  <2>3. (step - config.saveFreq) % config.saveFreq = 0
      BY <1>3, <2>2
  <2>4. step % config.saveFreq = 0
      BY <1>1, <2>3, Period, Zenon
  <2> QED
      BY <1>2, <2>4
<1> QED
    BY <1>1, <1>2, <1>4 DEF Late

\* The stages of a step up to the next leave the checkpoint or make it.
LEMMA TimeNext ==
    ASSUME OrderInv, CountInv, TimeInv, phase = "step", at \in 1..20,
           config' = config, phase' = phase, step' = step, at' = NextStage(at),
           saved' = IF at = 20 THEN Checkpoint ELSE saved
    PROVE  TimeInv'
<1> SUFFICES ASSUME config.saveFreq > 0
             PROVE  TimeInv'
    BY DEF TimeInv
<1>1. /\ config \in Configs /\ config.saveFreq \in Nat \ {0} /\ config.total \in Int
      /\ step \in Nat \ {0} /\ Late(step)
    BY StepsAssumption DEF CountInv, OrderInv, TimeInv
<1>2. /\ at' \in (at + 1)..21
      /\ at = 20 => Due(config.saveFreq)
      /\ at < 20 /\ at' > 20 => ~Due(config.saveFreq)
    BY <1>1, NextStep DEF OrderInv
<1>3. Due(config.saveFreq)' <=> Due(config.saveFreq)
    BY DEF Due, IsLast
<1>4. CASE at = 20
  <2>1. saved'.step = step /\ at' = 21
      BY <1>2, <1>4 DEF Checkpoint
  <2>2. step % config.saveFreq = 0 \/ step >= config.total
      BY <1>2, <1>4 DEF Due, IsLast
  <2> QED
      BY <1>2, <1>3, <1>4, <2>1, <2>2 DEF TimeInv
<1>5. CASE at # 20
  <2>1. saved' = saved /\ ~(at' = 21 /\ Due(config.saveFreq)')
      BY <1>2, <1>3, <1>5
  <2> QED
      BY <1>1, <2>1 DEF TimeInv, Late
<1> QED
    BY <1>4, <1>5

LEMMA TimeStep == OrderInv /\ CountInv /\ TimeInv /\ [Next]_vars => TimeInv'
<1> SUFFICES ASSUME OrderInv, CountInv, TimeInv, [Next]_vars
             PROVE  TimeInv'
    OBVIOUS
<1>1. /\ config \in Configs /\ config.saveFreq \in Int /\ config.total \in Int
      /\ step \in Nat /\ saved.step \in Nat
    BY StepsAssumption DEF CountInv, OrderInv, SavedInv
<1>2. CASE Launch
    BY <1>2 DEF Launch, TimeInv
<1>3. CASE StartLoop
    BY <1>1, <1>3 DEF StartLoop, TimeInv, Late, history
<1>4. CASE DrawBatch
  <2>1. UNCHANGED <<config, step, saved>> /\ phase = "top"
      BY <1>4 DEF DrawBatch, history
  <2>2. CASE phase' = "step" /\ at' = NextStage(0)
    <3>1. at' = 1
        BY <1>1, <2>2, NextStep
    <3> QED
        BY <2>1, <2>2, <3>1 DEF TimeInv, Late
  <2>3. CASE phase' \in {"top", "ended"}
      BY <1>1, <2>1, <2>3 DEF TimeInv, Late
  <2> QED
      BY <1>4, <2>1, <2>2, <2>3 DEF DrawBatch
<1>5. CASE EndStep
  <2>1. UNCHANGED <<config, saved>> /\ phase = "step" /\ step' = step + 1 /\ at = 21
        /\ phase' = IF IsLast THEN "ended" ELSE "top"
      BY <1>5, StageAt DEF EndStep, history
  <2>2. CASE config.saveFreq > 0 /\ Due(config.saveFreq)
    <3>1. saved.step = step
        BY <2>1, <2>2 DEF TimeInv
    <3> QED
        BY <1>1, <2>1, <2>2, <3>1 DEF TimeInv, Late
  <2>3. CASE config.saveFreq > 0 /\ ~Due(config.saveFreq)
    <3>1. Late(step) /\ step - saved.step < config.saveFreq /\ step < config.total
        BY <1>1, <2>1, <2>3, RoomInPeriod DEF TimeInv
    <3>2. phase' = "top"
        BY <1>1, <2>1, <3>1 DEF IsLast
    <3> QED
        BY <1>1, <2>1, <2>3, <3>1, <3>2 DEF TimeInv, Late
  <2> QED
      BY <2>1, <2>2, <2>3 DEF TimeInv
<1>6. CASE UNCHANGED <<config, phase, at, step, saved>>
    BY <1>6 DEF TimeInv, Late, Due, IsLast
<1>7. CASE phase' \in {"failed", "launch"} /\ UNCHANGED <<config, step, saved>>
    BY <1>7 DEF TimeInv
<1>8. CASE /\ phase = "step" /\ at \in 1..20 /\ phase' = phase /\ at' = NextStage(at)
           /\ UNCHANGED <<config, step>>
           /\ saved' = IF at = 20 THEN Checkpoint ELSE saved
    BY <1>8, TimeNext
<1>9. CASE RolloutOver
    BY <1>8, <1>9, StageAt DEF RolloutOver, GenerationOver, history
<1>10. CASE BaselineOver
    BY <1>7, <1>8, <1>10, StageAt DEF BaselineOver, GenerationOver, history
<1>11. CASE ValidationOver
  <2>1. CASE phase = "validating"
    <3>1. UNCHANGED <<config, step, saved>> /\ phase' = "ready"
        BY <1>11, <2>1 DEF ValidationOver, GenerationOver, history
    <3> QED
        BY <2>1, <3>1 DEF TimeInv
  <2>2. CASE phase # "validating"
      BY <1>8, <1>11, <2>2, StageAt DEF ValidationOver, GenerationOver, history
  <2> QED
      BY <2>1, <2>2
<1>12. CASE WakeUpFails \/ StageFails \/ Relaunch
    BY <1>7, <1>12 DEF WakeUpFails, StageFails, Relaunch, history
<1>13. CASE WakeUp \/ NextTurn \/ UNCHANGED vars
    BY <1>6, <1>13 DEF WakeUp, NextTurn, vars, loopVars, history
<1>14. CASE Replace \/ Compute \/ UpdateCritic \/ UpdateActor
    BY <1>8, <1>14, StageAt DEF Replace, Compute, UpdateCritic, UpdateActor, Taken
<1>15. CASE Save
    BY <1>8, <1>15, StageAt DEF Save, Taken
<1> QED
    BY <1>2, <1>3, <1>4, <1>5, <1>9, <1>10, <1>11, <1>12, <1>13, <1>14, <1>15 DEF Next, Progress

\* A new job has saved nothing, at step 0.
LEMMA TimeInit == Init => TimeInv
<1> SUFFICES ASSUME Init, config.saveFreq > 0
             PROVE  TimeInv
    BY DEF TimeInv
<1>1. config.saveFreq \in Nat \ {0}
    BY StepsAssumption DEF Init
<1>2. \A F \in Nat \ {0} : 0 % F = 0
    OBVIOUS
<1>3. 0 % config.saveFreq = 0
    BY <1>1, <1>2, Zenon
<1>4. saved.step = 0 /\ phase = "launch"
    BY DEF Init, None
<1> QED
    BY <1>3, <1>4 DEF TimeInv

\* SavesInTime, for all settings: the periods of a job that was launched again
\* are those of a job that never stopped.
THEOREM AlwaysSavesInTime == Spec => []SavesInTime
<1>1. Init => OrderInv /\ CountInv /\ TimeInv
    BY OrderInit, CountInit, TimeInit
<1>2. OrderInv /\ CountInv /\ TimeInv /\ [Next]_vars => (OrderInv /\ CountInv /\ TimeInv)'
    BY OrderStep, CountStep, TimeStep
<1>3. OrderInv /\ CountInv /\ TimeInv => SavesInTime
  <2> SUFFICES ASSUME OrderInv, CountInv, TimeInv, config.saveFreq > 0, phase = "step"
               PROVE  step - saved.step <= config.saveFreq
      BY DEF TimeInv, SavesInTime
  <2> QED
      BY StepsAssumption DEF OrderInv, CountInv, SavedInv, TimeInv, Late
<1> QED
    BY <1>1, <1>2, <1>3, PTL DEF Spec

-----------------------------------------------------------------------------
(* Versions *)

\* What may have generated the rows of this step.
Generators ==
    IF config.lora /\ config.dummy /\ ~config.valBefore /\ step = resumedAt + 1
    THEN {0, actor} ELSE {actor}

\* The engine has generated nothing in this launch.
Unused ==
    \/ phase \in {"launch", "failed", "validating", "ended"}
    \/ ~config.valBefore /\ (phase = "ready" \/ (step = resumedAt + 1 /\ phase = "top"))
    \/ ~config.valBefore /\ step = resumedAt + 1 /\ phase = "step" /\ at = 1

\* The turns so far are those of the call that is being made.
TurnsInv ==
    /\ engine \in [weights : Int, awake : BOOLEAN, first : BOOLEAN]
    /\ phase \in {"ready", "top"} => made = {}
    /\ phase = "step" /\ at = 1 => made \subseteq Generators
    /\ phase = "step" /\ at \notin {1, 19} => made = {}
    /\ engine.weights = -1 \/ (engine.awake /\ engine.first) => Unused

\* The rows, once they are the batch, and the columns computed from them.
ColumnsInv ==
    /\ phase = "step" /\ at <= 3 =>
          /\ DOMAIN rolled \subseteq {"sequences", "episode", "whole"}
          /\ "sequences" \in DOMAIN rolled => rolled["sequences"] \subseteq Generators
    /\ phase = "step" /\ at > 3 /\ at <= 18 =>
          /\ "sequences" \in DOMAIN columns => columns["sequences"] \subseteq Generators
          /\ "old_log_probs" \in DOMAIN columns => columns["old_log_probs"] = {actor}
          /\ "ref_log_prob" \in DOMAIN columns => columns["ref_log_prob"] = {0}
          /\ "values" \in DOMAIN columns /\ at <= 17 => columns["values"] = {critic}

LEMMA ActorNat == ASSUME CountInv, phase \in {"validating", "ready", "top", "step"}
                  PROVE  actor \in Nat
<1>1. \A n \in Nat : ActorUpdates(config, n) \in Nat
  <2> TAKE n \in Nat
  <2>1. ActorUpdates(config, (n + 1) - 1) \in Nat
      BY OneMoreUpdate
  <2> QED
      BY <2>1
<1> QED
    BY <1>1 DEF CountInv, Reached

\* What the engine holds in a rollout may generate its rows.
LEMMA RolloutGenerators ==
    ASSUME EngineInv, TurnsInv, Stage = "rollout", OrderInv, engine.awake
    PROVE  engine.weights \in Generators
<1>1. phase = "step" /\ at = 1
    BY StageAt
<1> QED
    BY <1>1 DEF EngineInv, EngineFresh, TurnsInv, Unused, Generators

LEMMA TurnsStep ==
    OrderInv /\ CountInv /\ EngineInv /\ TurnsInv /\ [Next]_vars => TurnsInv'
<1> SUFFICES ASSUME OrderInv, CountInv, EngineInv, TurnsInv, [Next]_vars
             PROVE  TurnsInv'
    OBVIOUS
<1>1. CASE Launch
  <2>1. phase' \in {"failed", "validating"} \/ (~config.valBefore /\ phase' = "ready")
      BY <1>1 DEF Launch
  <2>2. made' = {} /\ config' = config
      BY <1>1 DEF Launch
  <2>3. engine' = [weights |-> -1, awake |-> FALSE, first |-> FALSE]
      BY <1>1 DEF Launch
  <2> QED
      BY <2>1, <2>2, <2>3 DEF TurnsInv, Unused
<1>2. CASE StartLoop
    BY <1>2 DEF StartLoop, TurnsInv, Unused, CountInv, models, rollout, history, batchVars
<1>3. CASE DrawBatch
  <2>1. phase' = "step" => at' = 1
      BY <1>3, NextStep DEF DrawBatch, OrderInv
  <2> QED
      BY <1>3, <2>1 DEF DrawBatch, TurnsInv, Unused, models, rollout, history
<1>4. CASE EndStep
  <2>1. at = 21
      BY <1>4, StageAt DEF EndStep
  <2> QED
      BY <1>4, <2>1 DEF EndStep, TurnsInv, Unused, models, rollout, history, batchVars
<1>5. CASE WakeUp
  <2>1. engine.weights = -1 <=> engine'.first
      BY <1>5 DEF WakeUp
  <2>2. engine'.weights # -1 /\ engine' \in [weights : Int, awake : BOOLEAN, first : BOOLEAN]
    <3>1. actor \in Nat
        BY <1>5, ActorNat DEF WakeUp, Generating, Stage
    <3> QED
        BY <1>5, <3>1 DEF WakeUp, Sync
  <2> QED
      BY <1>5, <2>1, <2>2 DEF WakeUp, TurnsInv, Unused, Generators, loopVars, batchVars, history
<1>6. CASE NextTurn
  <2>1. CASE phase = "step" /\ at = 1
    <3>1. Stage = "rollout"
        BY <2>1, StageAt
    <3>2. engine.weights \in Generators
        BY <1>6, <3>1, RolloutGenerators DEF NextTurn
    <3> QED
        BY <1>6, <2>1, <3>2 DEF NextTurn, TurnsInv, Unused, Generators, loopVars, models, history
  <2>2. CASE ~(phase = "step" /\ at = 1)
    <3>1. ASSUME phase = "step"
          PROVE  at = 19
        BY <1>6, <2>2, <3>1, StageAt DEF NextTurn, EngineInv, Generating
    <3>2. phase \notin {"ready", "top"}
        BY <1>6 DEF NextTurn, EngineInv, Generating, Stage
    <3> QED
        BY <1>6, <2>2, <3>1, <3>2 DEF NextTurn, TurnsInv, Unused, Generators, loopVars, models, history
  <2> QED
      BY <2>1, <2>2
<1>7. CASE UNCHANGED vars
    BY <1>7 DEF vars, loopVars, batchVars, models, rollout, history, TurnsInv, Unused, Generators
<1>8. CASE WakeUpFails \/ StageFails \/ Relaunch
    BY <1>8 DEF WakeUpFails, StageFails, Relaunch, rollout, TurnsInv, Unused
<1>9. CASE RolloutOver \/ BaselineOver \/ ValidationOver
  <2>1. engine' = [engine EXCEPT !.awake = FALSE] /\ made' = {}
      BY <1>9 DEF RolloutOver, BaselineOver, ValidationOver, GenerationOver
  <2>3. ~engine'.awake /\ engine'.weights = engine.weights
        /\ engine' \in [weights : Int, awake : BOOLEAN, first : BOOLEAN]
      BY <2>1 DEF TurnsInv
  <2>4. phase \in {"validating", "step"} /\ UNCHANGED <<config, step, resumedAt>>
      BY <1>9 DEF RolloutOver, BaselineOver, ValidationOver, GenerationOver, Stage, history, EngineInv, TurnsInv
  <2>2. engine.weights # -1
    <3>1. engine.awake
        BY <1>9 DEF RolloutOver, BaselineOver, ValidationOver, GenerationOver
    <3>2. actor \in Nat
        BY <2>4, ActorNat
    <3> QED
        BY <3>1, <3>2 DEF EngineInv, EngineFresh
  <2> QED
      BY <2>1, <2>2, <2>3 DEF TurnsInv
<1>10. CASE Replace \/ Compute \/ UpdateCritic \/ UpdateActor \/ Save
  <2>1. Taken /\ at \notin {1, 19} /\ phase = "step" /\ at \in 1..20
      BY <1>10, StageAt DEF Replace, Compute, UpdateCritic, UpdateActor, Save, Taken
  <2>2. at' # 1
      BY <2>1, NextStep DEF Taken, OrderInv
  <2> QED
      BY <2>1, <2>2 DEF Taken, TurnsInv, Unused, rollout
<1> QED
    BY <1>1, <1>2, <1>3, <1>4, <1>5, <1>6, <1>7, <1>8, <1>9, <1>10 DEF Next, Progress

\* Nothing of the columns changes with the other steps.
LEMMA ColumnsKept ==
    ASSUME ColumnsInv, phase' # "step" \/ (at' = at /\ phase' = phase),
           UNCHANGED <<config, step, resumedAt, actor, critic, columns, rolled>>
    PROVE  ColumnsInv'
  BY DEF ColumnsInv, Generators

LEMMA ColumnsCompute ==
    ASSUME OrderInv, ColumnsInv, Compute
    PROVE  ColumnsInv'
<1>1. /\ phase = "step" /\ at > 3 /\ at \in 1..20 /\ phase' = phase
      /\ at' \in (at + 1)..21
      /\ UNCHANGED <<config, step, resumedAt, actor, critic>>
  <2>1. phase = "step" /\ at > 3 /\ at \in 1..20
      BY StageAt DEF Compute, Taken
  <2> QED
      BY <2>1, NextStep DEF Compute, Taken, OrderInv
<1>2. \A n : n \in DOMAIN columns' => /\ n \in DOMAIN columns \/ n \in Gives(config, Stage)
                                      /\ columns'[n] = IF n \in Gives(config, Stage)
                                                       THEN VersionOf(Stage) ELSE columns[n]
    BY DEF Compute
<1>3. /\ "sequences" \notin Gives(config, Stage)
      /\ "old_log_probs" \in Gives(config, Stage) => VersionOf(Stage) = {actor}
      /\ "ref_log_prob" \in Gives(config, Stage) => VersionOf(Stage) = {0}
      /\ "values" \in Gives(config, Stage) => VersionOf(Stage) = {critic}
    BY DEF Gives, VersionOf
<1>4. Generators' = Generators
    BY <1>1 DEF Generators
<1> QED
    BY <1>1, <1>2, <1>3, <1>4 DEF ColumnsInv

LEMMA ColumnsStep ==
    OrderInv /\ EngineInv /\ TurnsInv /\ ColumnsInv /\ [Next]_vars => ColumnsInv'
<1> SUFFICES ASSUME OrderInv, EngineInv, TurnsInv, ColumnsInv, [Next]_vars
             PROVE  ColumnsInv'
    OBVIOUS
<1>1. CASE Launch
    BY <1>1 DEF Launch, ColumnsInv
<1>2. CASE StartLoop \/ EndStep
    BY <1>2 DEF StartLoop, EndStep, ColumnsInv
<1>3. CASE DrawBatch
  <2>1. phase' = "step" => at' = 1 /\ rolled' = Empty
      BY <1>3, NextStep DEF DrawBatch, OrderInv
  <2>2. phase = "top"
      BY <1>3 DEF DrawBatch
  <2> QED
      BY <2>1, <2>2, <1>3 DEF DrawBatch, ColumnsInv, Empty
<1>4. CASE RolloutOver
  <2>0. phase = "step" /\ at = 1 /\ config \in Configs
      BY <1>4, StageAt DEF RolloutOver, OrderInv
  <2>1. at' \in 2..3 /\ phase' = "step"
      BY <1>4, <2>0, NextStep DEF RolloutOver
  <2>2. UNCHANGED <<config, step, resumedAt, actor>> /\ engine.awake
      BY <1>4 DEF RolloutOver, GenerationOver, models, history
  <2>3. made \cup {engine.weights} \subseteq Generators
      BY <1>4, <2>0, <2>2, RolloutGenerators DEF RolloutOver, TurnsInv
  <2>4. PICK whole \in SUBSET {"whole"} :
            rolled' = WithSequences(Empty, {"sequences", "episode"} \cup whole)
      BY <1>4 DEF RolloutOver
  <2>5. /\ DOMAIN rolled' \subseteq {"sequences", "episode", "whole"}
        /\ rolled'["sequences"] = made \cup {engine.weights}
      BY <2>4 DEF WithSequences, Empty
  <2> QED
      BY <2>0, <2>1, <2>2, <2>3, <2>5 DEF ColumnsInv, Generators
<1>5. CASE BaselineOver
  <2>0. phase = "step" /\ at = 2 /\ config \in Configs
      BY <1>5, StageAt DEF BaselineOver, OrderInv
  <2>1. NextStage(at) = 3
      BY <2>0, NextStep
  <2>2. UNCHANGED <<config, step, resumedAt, actor, rolled>>
      BY <1>5 DEF BaselineOver, GenerationOver, models, history
  <2>3. phase' = "failed" \/ (phase' = phase /\ at' = NextStage(at))
      BY <1>5 DEF BaselineOver
  <2> QED
      BY <2>0, <2>1, <2>2, <2>3 DEF ColumnsInv, Generators
<1>6. CASE ValidationOver
  <2>1. phase = "validating" \/ (phase = "step" /\ at = 19)
      BY <1>6, StageAt DEF ValidationOver
  <2>2. phase = "step" => at' \in 20..21
      BY <1>6, <2>1, NextStep DEF ValidationOver, OrderInv
  <2> QED
      BY <1>6, <2>1, <2>2 DEF ValidationOver, ColumnsInv
<1>7. CASE Replace
  <2>1. phase = "step" /\ at = 3 /\ NextStage(at) \in 4..21
      BY <1>7, StageAt, NextStep DEF Replace, OrderInv
  <2>2. UNCHANGED <<config, step, resumedAt, actor>> /\ columns' = rolled /\ at' = NextStage(at)
      BY <1>7 DEF Replace, Taken, models
  <2> QED
      BY <2>1, <2>2 DEF ColumnsInv, Generators
<1>8. CASE Compute
    BY <1>8, ColumnsCompute
<1>9. CASE UpdateCritic
  <2>1. phase = "step" /\ at = 17 /\ NextStage(at) \in 18..21
      BY <1>9, StageAt, NextStep DEF UpdateCritic, OrderInv
  <2> QED
      BY <1>9, <2>1 DEF UpdateCritic, Taken, ColumnsInv, Generators
<1>10. CASE UpdateActor \/ Save
  <2>1. phase = "step" /\ at \in {18, 20} /\ NextStage(at) \in 19..21
      BY <1>10, StageAt, NextStep DEF UpdateActor, Save, OrderInv
  <2> QED
      BY <1>10, <2>1 DEF UpdateActor, Save, Taken, ColumnsInv
<1>11. CASE WakeUp \/ NextTurn \/ UNCHANGED vars
    BY <1>11, ColumnsKept DEF WakeUp, NextTurn, vars, loopVars, batchVars, models, history
<1>12. CASE WakeUpFails \/ StageFails \/ Relaunch
    BY <1>12, ColumnsKept DEF WakeUpFails, StageFails, Relaunch, batchVars, models, history
<1> QED
    BY <1>1, <1>2, <1>3, <1>4, <1>5, <1>6, <1>7, <1>8, <1>9, <1>10, <1>11, <1>12 DEF Next, Progress

\* At the updates, the columns they read are there.
LEMMA VersionsGiveOnPolicy == OrderInv /\ ColumnsInv => OnPolicy
<1> SUFFICES ASSUME OrderInv, ColumnsInv
             PROVE  OnPolicy
    OBVIOUS
<1>1. ASSUME Stage = "update_actor", Missing = {}
      PROVE  /\ columns["old_log_probs"] = {actor}
             /\ columns["sequences"] \subseteq Generators
             /\ config.klLoss => columns["ref_log_prob"] = {0}
  <2>1. phase = "step" /\ at = 18
      BY <1>1, StageAt
  <2>2. "old_log_probs" \in DOMAIN columns /\ "sequences" \in DOMAIN columns
        /\ (config.klLoss => "ref_log_prob" \in DOMAIN columns)
      BY <1>1 DEF Missing, Needs
  <2> QED
      BY <2>1, <2>2 DEF ColumnsInv
<1>2. ASSUME Stage = "update_critic", Missing = {}
      PROVE  columns["values"] = {critic}
  <2>1. phase = "step" /\ at = 17
      BY <1>2, StageAt
  <2>2. "values" \in DOMAIN columns
      BY <1>2 DEF Missing, Needs
  <2> QED
      BY <2>1, <2>2 DEF ColumnsInv
<1> QED
    BY <1>1, <1>2 DEF OnPolicy, Generators

\* OnPolicy, for all settings: what an update reads was computed with the
\* weights it updates, from rows these weights generated.
THEOREM AlwaysOnPolicy == Spec => []OnPolicy
<1> DEFINE Inv == OrderInv /\ CountInv /\ EngineInv /\ TurnsInv /\ ColumnsInv
<1>1. Init => Inv
    BY OrderInit, CountInit, EngineInit DEF Init, TurnsInv, Unused, ColumnsInv
<1>2. Inv /\ [Next]_vars => Inv'
    BY OrderStep, CountStep, EngineStep, TurnsStep, ColumnsStep
<1>3. Inv => OnPolicy
    BY VersionsGiveOnPolicy
<1> QED
    BY <1>1, <1>2, <1>3, PTL DEF Spec

-----------------------------------------------------------------------------
(* What the stages find *)

\* Each stage that was taken has left its columns.
HaveInv ==
    /\ phase = "step" /\ at \in 1..20 => Wanted(Stages(config)[at])
    /\ phase = "step" /\ at \in 2..3 => {"sequences", "episode"} \subseteq DOMAIN rolled
    /\ phase = "step" /\ at > 3 =>
          /\ {"sequences", "episode"} \subseteq DOMAIN columns
          /\ \A j \in 4..20 : j < at /\ Wanted(Stages(config)[j])
                => Gives(config, Stages(config)[j]) \subseteq DOMAIN columns

LEMMA TwoOrders ==
    ASSUME config \in Configs
    PROVE  /\ config.trainer = "verl" => Stages(config) = VerlStages
           /\ config.trainer # "verl" => Stages(config) = RecipeStages
  BY TrainersAssumption DEF Stages, HgpoStages, GraphgpoStages

\* Which columns a stage leaves, and when it is taken.
LEMMA StageGives ==
    /\ Wanted("mask") /\ Gives(config, "mask") = {"mask"}
    /\ Wanted("scores") /\ Gives(config, "scores") = {"scores"}
    /\ Wanted("kl") /\ Gives(config, "kl") = {"rewards"}
    /\ Wanted("advantage") /\ Gives(config, "advantage") = {"advantages", "returns"}
    /\ Wanted("adjust") /\ Gives(config, "adjust") = {"whole"}
    /\ Wanted("old_log_prob") /\ Gives(config, "old_log_prob") = {"old_log_probs"}
    /\ Wanted("reward") /\ (~config.async => Gives(config, "reward") = {"reward"})
    /\ (UseReference(config) => Wanted("ref")) /\ Gives(config, "ref") = {"ref_log_prob"}
    /\ (UseCritic(config) => Wanted("values")) /\ Gives(config, "values") = {"values"}
    /\ config.estimator = "obliflow" =>
        Wanted("returns") /\ Gives(config, "returns") = {"flow_rewards", "cut_blames"}
    /\ config.estimator \in StepEstimators =>
        Wanted("returns") /\ Gives(config, "returns") = {"step_rewards"}
<1>1. Wanted("mask") /\ Gives(config, "mask") = {"mask"}
    BY DEF Wanted, Gives
<1>2. Wanted("scores") /\ Gives(config, "scores") = {"scores"}
    BY DEF Wanted, Gives
<1>3. Wanted("kl") /\ Gives(config, "kl") = {"rewards"}
    BY DEF Wanted, Gives
<1>4. Wanted("advantage") /\ Gives(config, "advantage") = {"advantages", "returns"}
    BY DEF Wanted, Gives
<1>5. Wanted("adjust") /\ Gives(config, "adjust") = {"whole"}
    BY DEF Wanted, Gives
<1>6. Wanted("old_log_prob") /\ Gives(config, "old_log_prob") = {"old_log_probs"}
    BY DEF Wanted, Gives
<1>7. Wanted("reward") /\ (~config.async => Gives(config, "reward") = {"reward"})
    BY DEF Wanted, Gives
<1>8. (UseReference(config) => Wanted("ref")) /\ Gives(config, "ref") = {"ref_log_prob"}
    BY DEF Wanted, Gives
<1>9. (UseCritic(config) => Wanted("values")) /\ Gives(config, "values") = {"values"}
    BY DEF Wanted, Gives
<1>10. config.estimator = "obliflow" =>
        Wanted("returns") /\ Gives(config, "returns") = {"flow_rewards", "cut_blames"}
    BY DEF Wanted, Gives, StepEstimators
<1>11. config.estimator \in StepEstimators =>
        Wanted("returns") /\ Gives(config, "returns") = {"step_rewards"}
    BY DEF Wanted, Gives, StepEstimators
<1> QED
    BY <1>1, <1>2, <1>3, <1>4, <1>5, <1>6, <1>7,
       <1>8, <1>9, <1>10, <1>11

\* What is there when a stage of the recipes begins, ...
LEMMA RecipeHave ==
    ASSUME OrderInv, HaveInv, phase = "step", at \in 4..20, config.trainer # "verl"
    PROVE  /\ "sequences" \in DOMAIN columns /\ "episode" \in DOMAIN columns
           /\ at > 4 /\ config.estimator = "obliflow" =>
                 "flow_rewards" \in DOMAIN columns /\ "cut_blames" \in DOMAIN columns
           /\ at > 4 /\ config.estimator \in StepEstimators => "step_rewards" \in DOMAIN columns
           /\ at > 5 => "mask" \in DOMAIN columns
           /\ at > 7 /\ ~config.async => "reward" \in DOMAIN columns
           /\ at > 9 => "scores" \in DOMAIN columns
           /\ at > 11 => "rewards" \in DOMAIN columns
           /\ at > 12 => "advantages" \in DOMAIN columns
           /\ at > 13 => "whole" \in DOMAIN columns
           /\ at > 15 => "old_log_probs" \in DOMAIN columns
           /\ at > 16 /\ UseReference(config) => "ref_log_prob" \in DOMAIN columns
<1>1. Stages(config) = RecipeStages
    BY TwoOrders DEF OrderInv
<1>2. /\ RecipeStages[4] = "returns" /\ RecipeStages[5] = "mask" /\ RecipeStages[7] = "reward"
      /\ RecipeStages[9] = "scores" /\ RecipeStages[11] = "kl" /\ RecipeStages[12] = "advantage"
      /\ RecipeStages[13] = "adjust" /\ RecipeStages[15] = "old_log_prob" /\ RecipeStages[16] = "ref"
    BY DEF RecipeStages
<1>3. ASSUME NEW j \in 4..20, j < at, Wanted(RecipeStages[j])
      PROVE  Gives(config, RecipeStages[j]) \subseteq DOMAIN columns
    BY <1>1, <1>3 DEF HaveInv
<1>4. /\ "sequences" \in DOMAIN columns /\ "episode" \in DOMAIN columns
      /\ at > 5 => "mask" \in DOMAIN columns
      /\ at > 7 /\ ~config.async => "reward" \in DOMAIN columns
      /\ at > 9 => "scores" \in DOMAIN columns
  <2>1. "sequences" \in DOMAIN columns /\ "episode" \in DOMAIN columns
      BY DEF HaveInv
  <2>2. (at > 5 => "mask" \in DOMAIN columns) /\ (at > 9 => "scores" \in DOMAIN columns)
      BY <1>2, <1>3, StageGives
  <2>3. at > 7 /\ ~config.async => "reward" \in DOMAIN columns
      BY <1>2, <1>3, StageGives
  <2> QED
      BY <2>1, <2>2, <2>3
<1>5. /\ at > 11 => "rewards" \in DOMAIN columns
      /\ at > 12 => "advantages" \in DOMAIN columns
      /\ at > 13 => "whole" \in DOMAIN columns
      /\ at > 15 => "old_log_probs" \in DOMAIN columns
      /\ at > 16 /\ UseReference(config) => "ref_log_prob" \in DOMAIN columns
  <2>1. at > 11 => "rewards" \in DOMAIN columns
      BY <1>2, <1>3, StageGives
  <2>2. at > 12 => "advantages" \in DOMAIN columns
      BY <1>2, <1>3, StageGives
  <2>3. at > 13 => "whole" \in DOMAIN columns
      BY <1>2, <1>3, StageGives
  <2>4. at > 15 => "old_log_probs" \in DOMAIN columns
      BY <1>2, <1>3, StageGives
  <2>5. at > 16 /\ UseReference(config) => "ref_log_prob" \in DOMAIN columns
      BY <1>2, <1>3, StageGives
  <2> QED
      BY <2>1, <2>2, <2>3, <2>4, <2>5
<1>6. /\ at > 4 /\ config.estimator = "obliflow" =>
            "flow_rewards" \in DOMAIN columns /\ "cut_blames" \in DOMAIN columns
      /\ at > 4 /\ config.estimator \in StepEstimators => "step_rewards" \in DOMAIN columns
    BY <1>2, <1>3, StageGives
<1> QED
    BY <1>4, <1>5, <1>6

\* ... and of verl.
LEMMA VerlHave ==
    ASSUME OrderInv, HaveInv, phase = "step", at \in 4..20, config.trainer = "verl"
    PROVE  /\ "sequences" \in DOMAIN columns /\ "episode" \in DOMAIN columns
           /\ at > 4 /\ config.estimator = "obliflow" =>
                 "flow_rewards" \in DOMAIN columns /\ "cut_blames" \in DOMAIN columns
           /\ at > 4 /\ config.estimator \in StepEstimators => "step_rewards" \in DOMAIN columns
           /\ at > 5 => "whole" \in DOMAIN columns
           /\ at > 6 => "mask" \in DOMAIN columns
           /\ at > 9 /\ ~config.async => "reward" \in DOMAIN columns
           /\ at > 10 => "old_log_probs" \in DOMAIN columns
           /\ at > 11 /\ UseReference(config) => "ref_log_prob" \in DOMAIN columns
           /\ at > 12 /\ UseCritic(config) => "values" \in DOMAIN columns
           /\ at > 13 => "scores" \in DOMAIN columns
           /\ at > 15 => "rewards" \in DOMAIN columns
           /\ at > 16 => "advantages" \in DOMAIN columns /\ "returns" \in DOMAIN columns
<1>1. Stages(config) = VerlStages
    BY TwoOrders DEF OrderInv
<1>2. /\ VerlStages[4] = "returns" /\ VerlStages[5] = "adjust" /\ VerlStages[6] = "mask"
      /\ VerlStages[9] = "reward" /\ VerlStages[10] = "old_log_prob" /\ VerlStages[11] = "ref"
      /\ VerlStages[12] = "values" /\ VerlStages[13] = "scores" /\ VerlStages[15] = "kl"
      /\ VerlStages[16] = "advantage"
    BY DEF VerlStages
<1>3. ASSUME NEW j \in 4..20, j < at, Wanted(VerlStages[j])
      PROVE  Gives(config, VerlStages[j]) \subseteq DOMAIN columns
    BY <1>1, <1>3 DEF HaveInv
<1>4. /\ "sequences" \in DOMAIN columns /\ "episode" \in DOMAIN columns
      /\ at > 5 => "whole" \in DOMAIN columns
      /\ at > 6 => "mask" \in DOMAIN columns
      /\ at > 9 /\ ~config.async => "reward" \in DOMAIN columns
      /\ at > 10 => "old_log_probs" \in DOMAIN columns
  <2>1. "sequences" \in DOMAIN columns /\ "episode" \in DOMAIN columns
      BY DEF HaveInv
  <2>2. (at > 5 => "whole" \in DOMAIN columns) /\ (at > 6 => "mask" \in DOMAIN columns)
      BY <1>2, <1>3, StageGives
  <2>3. /\ at > 9 /\ ~config.async => "reward" \in DOMAIN columns
        /\ at > 10 => "old_log_probs" \in DOMAIN columns
      BY <1>2, <1>3, StageGives
  <2> QED
      BY <2>1, <2>2, <2>3
<1>5. /\ at > 11 /\ UseReference(config) => "ref_log_prob" \in DOMAIN columns
      /\ at > 12 /\ UseCritic(config) => "values" \in DOMAIN columns
      /\ at > 13 => "scores" \in DOMAIN columns
      /\ at > 15 => "rewards" \in DOMAIN columns
      /\ at > 16 => "advantages" \in DOMAIN columns /\ "returns" \in DOMAIN columns
  <2>1. at > 11 /\ UseReference(config) => "ref_log_prob" \in DOMAIN columns
      BY <1>2, <1>3, StageGives
  <2>2. at > 12 /\ UseCritic(config) => "values" \in DOMAIN columns
      BY <1>2, <1>3, StageGives
  <2>3. at > 13 => "scores" \in DOMAIN columns
      BY <1>2, <1>3, StageGives
  <2>4. at > 15 => "rewards" \in DOMAIN columns
      BY <1>2, <1>3, StageGives
  <2>5. at > 16 => "advantages" \in DOMAIN columns /\ "returns" \in DOMAIN columns
      BY <1>2, <1>3, StageGives
  <2> QED
      BY <2>1, <2>2, <2>3, <2>4, <2>5
<1>6. /\ at > 4 /\ config.estimator = "obliflow" =>
            "flow_rewards" \in DOMAIN columns /\ "cut_blames" \in DOMAIN columns
      /\ at > 4 /\ config.estimator \in StepEstimators => "step_rewards" \in DOMAIN columns
    BY <1>2, <1>3, StageGives
<1> QED
    BY <1>4, <1>5, <1>6

\* With settings that are neither doomed nor at risk, the recipes finds what it reads.
LEMMA RecipeNeedsMet ==
    ASSUME OrderInv, HaveInv, phase = "step", at \in 4..20, config.trainer # "verl",
           ~Doomed(config), ~AtRisk(config)
    PROVE  Missing = {}
<1>1. Stages(config) = RecipeStages /\ Len(RecipeStages) = 20
    BY TwoOrders DEF OrderInv, RecipeStages
<1>2. Stage = RecipeStages[at] /\ Wanted(RecipeStages[at])
    BY <1>1 DEF Stage, HaveInv
<1>3. ~UseCritic(config) /\ ~config.rm /\ ~config.async /\ ~config.klReward /\ config.estimator # "remax"
    BY DEF Doomed, AtRisk
<1> SUFFICES Needs(config, RecipeStages[at]) \subseteq DOMAIN columns
    BY <1>2 DEF Missing
<1> HIDE DEF OrderInv, HaveInv
<1>4. CASE at \in {4, 5, 6, 7, 8}
    BY <1>2, <1>3, <1>4, RecipeHave DEF RecipeStages, Needs, AdvantageNeeds, UseCritic, UseReference, Wanted
<1>5. CASE at \in {9, 10, 11}
    BY <1>2, <1>3, <1>5, RecipeHave DEF RecipeStages, Needs, AdvantageNeeds, UseCritic, UseReference, Wanted
<1>6. CASE at \in {12, 13, 14}
    BY <1>2, <1>3, <1>6, RecipeHave DEF RecipeStages, Needs, AdvantageNeeds, UseCritic, UseReference, Wanted
<1>7. CASE at \in {15, 16, 17, 18, 19, 20}
    BY <1>2, <1>3, <1>7, RecipeHave DEF RecipeStages, Needs, AdvantageNeeds, UseCritic, UseReference, Wanted
<1> QED
    BY <1>4, <1>5, <1>6, <1>7

\* With settings that are neither doomed nor at risk, verl finds what it reads.
LEMMA VerlNeedsMet ==
    ASSUME OrderInv, HaveInv, phase = "step", at \in 4..20, config.trainer = "verl",
           ~Doomed(config), ~AtRisk(config)
    PROVE  Missing = {}
<1>1. Stages(config) = VerlStages /\ Len(VerlStages) = 20
    BY TwoOrders DEF OrderInv, VerlStages
<1>2. Stage = VerlStages[at] /\ Wanted(VerlStages[at])
    BY <1>1 DEF Stage, HaveInv
<1>3. ~config.async /\ config.estimator # "remax"
    BY DEF Doomed, AtRisk
<1> SUFFICES Needs(config, VerlStages[at]) \subseteq DOMAIN columns
    BY <1>2 DEF Missing
<1> HIDE DEF OrderInv, HaveInv
<1>4. CASE at \in {4, 5, 6, 7, 8}
    BY <1>2, <1>3, <1>4, VerlHave DEF VerlStages, Needs, AdvantageNeeds, UseCritic, UseReference, Wanted
<1>5. CASE at \in {9, 10, 11}
    BY <1>2, <1>3, <1>5, VerlHave DEF VerlStages, Needs, AdvantageNeeds, UseCritic, UseReference, Wanted
<1>6. CASE at \in {12, 13, 14}
    BY <1>2, <1>3, <1>6, VerlHave DEF VerlStages, Needs, AdvantageNeeds, UseCritic, UseReference, Wanted
<1>7. CASE at \in {15, 16, 17, 18, 19, 20}
    BY <1>2, <1>3, <1>7, VerlHave DEF VerlStages, Needs, AdvantageNeeds, UseCritic, UseReference, Wanted
<1> QED
    BY <1>4, <1>5, <1>6, <1>7

\* From stage to stage nothing is lost; the stages in between are not wanted.
LEMMA HaveNext ==
    ASSUME OrderInv, HaveInv, phase = "step", at \in 1..20,
           config' = config, phase' = phase, step' = step, at' = NextStage(at),
           at <= 2 => {"sequences", "episode"} \subseteq DOMAIN rolled',
           at = 3 => columns' = rolled,
           at > 3 => /\ DOMAIN columns \subseteq DOMAIN columns'
                     /\ Gives(config, Stages(config)[at]) \subseteq DOMAIN columns'
    PROVE  HaveInv'
<1>1. /\ at' \in (at + 1)..21
      /\ at' <= 20 => Wanted(Stages(config)[at'])
      /\ \A j \in (at + 1)..20 : j < at' => ~Wanted(Stages(config)[j])
      /\ at < 3 => at' <= 3
    BY NextStageIs, NextStep DEF OrderInv
<1>2. ASSUME NEW stage
      PROVE  Wanted(stage)' <=> Wanted(stage)
    BY DEF Wanted, Due, IsLast
<1>3. at' \in 1..20 => Wanted(Stages(config)[at])'
    BY <1>1 DEF Wanted, Due, IsLast
<1>4. ASSUME at' > 3
      PROVE  /\ {"sequences", "episode"} \subseteq DOMAIN columns'
             /\ \A j \in 4..20 : j < at' /\ Wanted(Stages(config)[j])
                   => Gives(config, Stages(config)[j]) \subseteq DOMAIN columns'
  <2>1. at >= 3
      BY <1>1, <1>4
  <2>2. {"sequences", "episode"} \subseteq DOMAIN columns'
      BY <2>1 DEF HaveInv
  <2>3. ASSUME NEW j \in 4..20, j < at', Wanted(Stages(config)[j])
        PROVE  Gives(config, Stages(config)[j]) \subseteq DOMAIN columns'
    <3>1. j <= at
        BY <1>1, <2>3
    <3> QED
        BY <2>1, <2>3, <3>1 DEF HaveInv
  <2> QED
      BY <2>2, <2>3
<1>5. \A j \in 4..20 : Wanted(Stages(config)[j])' <=> Wanted(Stages(config)[j])
    BY <1>2
<1>6. ASSUME at' \in 2..3
      PROVE  {"sequences", "episode"} \subseteq DOMAIN rolled'
    BY <1>1, <1>6
<1> QED
    BY <1>3, <1>4, <1>5, <1>6 DEF HaveInv

LEMMA HaveStep == OrderInv /\ HaveInv /\ [Next]_vars => HaveInv'
<1> SUFFICES ASSUME OrderInv, HaveInv, [Next]_vars
             PROVE  HaveInv'
    OBVIOUS
<1>1. CASE phase' # "step"
    BY <1>1 DEF HaveInv
<1>2. CASE UNCHANGED <<config, step, phase, at, columns, rolled>>
    BY <1>2 DEF HaveInv, Wanted, Due, IsLast
<1>3. CASE Launch \/ StartLoop \/ EndStep \/ WakeUpFails \/ StageFails \/ Relaunch
    BY <1>1, <1>3 DEF Launch, StartLoop, EndStep, WakeUpFails, StageFails, Relaunch
<1>4. CASE WakeUp \/ NextTurn \/ UNCHANGED vars
    BY <1>2, <1>4 DEF WakeUp, NextTurn, vars, loopVars, batchVars
<1>5. CASE DrawBatch
  <2>1. CASE phase' = "step"
    <3>1. at' = 1 /\ Wanted(Stages(config)[1])
        BY <1>5, <2>1, NextStep, NextStageIs DEF DrawBatch, OrderInv
    <3>2. config' = config /\ step' = step
        BY <1>5 DEF DrawBatch
    <3> QED
        BY <3>1, <3>2 DEF HaveInv, Wanted, Due, IsLast
  <2> QED
      BY <1>1, <2>1
<1>6. CASE RolloutOver
  <2>1. phase = "step" /\ at = 1
      BY <1>6, StageAt DEF RolloutOver
  <2>2. {"sequences", "episode"} \subseteq DOMAIN rolled'
      BY <1>6 DEF RolloutOver, WithSequences
  <2> QED
      BY <1>6, <2>1, <2>2, HaveNext DEF RolloutOver, GenerationOver
<1>7. CASE BaselineOver
  <2>1. phase = "step" /\ at = 2
      BY <1>7, StageAt DEF BaselineOver
  <2>2. UNCHANGED <<config, step, rolled>>
      BY <1>7 DEF BaselineOver, GenerationOver
  <2>3. phase' = "failed" \/ (phase' = phase /\ at' = NextStage(at))
      BY <1>7 DEF BaselineOver
  <2>4. {"sequences", "episode"} \subseteq DOMAIN rolled
      BY <2>1 DEF HaveInv
  <2> QED
      BY <1>1, <2>1, <2>2, <2>3, <2>4, HaveNext
<1>8. CASE ValidationOver
  <2>1. CASE phase = "validating"
      BY <1>1, <1>8, <2>1 DEF ValidationOver
  <2>2. CASE phase # "validating"
    <3>1. phase = "step" /\ at = 19 /\ Stages(config)[19] = "validate"
        BY <1>8, <2>2, StageAt, StageOrder DEF ValidationOver, OrderInv
    <3>2. Gives(config, Stages(config)[19]) = {}
        BY <3>1 DEF Gives
    <3> QED
        BY <1>8, <2>2, <3>1, <3>2, HaveNext DEF ValidationOver, GenerationOver
  <2> QED
      BY <2>1, <2>2
<1>9. CASE Replace
  <2>1. phase = "step" /\ at = 3
      BY <1>9, StageAt DEF Replace
  <2> QED
      BY <1>9, <2>1, HaveNext DEF Replace, Taken
<1>10. CASE Compute
  <2>1. phase = "step" /\ at > 3 /\ at \in 1..20 /\ Stage = Stages(config)[at]
      BY SMTT(30), <1>10, StageAt DEF Compute, Taken, Stage
  <2>2. DOMAIN columns' = DOMAIN columns \cup Gives(config, Stage)
      BY <1>10 DEF Compute
  <2> QED
      BY <1>10, <2>1, <2>2, HaveNext DEF Compute, Taken
<1>11. CASE UpdateCritic \/ UpdateActor \/ Save
  <2>1. phase = "step" /\ at \in {17, 18, 20} /\ Stage = Stages(config)[at]
      BY <1>11, StageAt DEF UpdateCritic, UpdateActor, Save, Taken, Stage
  <2>2. Gives(config, Stage) = {}
      BY <1>11 DEF UpdateCritic, UpdateActor, Save, Gives
  <2>3. UNCHANGED <<config, phase, step, columns>> /\ at' = NextStage(at)
      BY <1>11 DEF UpdateCritic, UpdateActor, Save, Taken
  <2> QED
      BY <2>1, <2>2, <2>3, HaveNext
<1> QED
    BY <1>3, <1>4, <1>5, <1>6, <1>7, <1>8, <1>9, <1>10, <1>11 DEF Next, Progress

\* What fails was doomed or at risk.
FailInv == phase = "failed" => Doomed(config) \/ AtRisk(config)

LEMMA SameConfig == [Next]_vars => config' = config
  BY DEF Next, Progress, vars, Launch, StartLoop, DrawBatch, EndStep, WakeUp, WakeUpFails,
         NextTurn, RolloutOver, BaselineOver, ValidationOver, GenerationOver, StageFails,
         Replace, Compute, UpdateCritic, UpdateActor, Save, Taken, Relaunch

LEMMA FailStep == OrderInv /\ HaveInv /\ EngineInv /\ FailInv /\ [Next]_vars => FailInv'
<1> SUFFICES ASSUME OrderInv, HaveInv, EngineInv, FailInv, [Next]_vars,
                    phase' = "failed", ~Doomed(config), ~AtRisk(config)
             PROVE  FALSE
    BY SameConfig DEF FailInv, Doomed, AtRisk, UseCritic
<1>1. phase # "failed"
    BY DEF FailInv
<1>2. CASE Launch
    BY <1>2 DEF Launch, Doomed
<1>3. CASE WakeUpFails
    BY <1>3 DEF WakeUpFails, CannotSummon, Generating, Stage, EngineInv, Doomed
<1>4. CASE BaselineOver
  <2>1. phase = "step" /\ at = 2 /\ Stages(config)[2] = "baseline"
      BY <1>4, StageAt, StageOrder DEF BaselineOver, OrderInv
  <2> QED
      BY <2>1 DEF HaveInv, Wanted, Doomed
<1>5. CASE StageFails
  <2>1. phase = "step" /\ (at \in 4..20 \/ Stage = "replace")
    <3>1. phase = "step" /\ at \in 1..20 /\ Stage = Stages(config)[at]
        BY <1>5, StageAt DEF StageFails, Stage, OrderInv
    <3>2. at \notin {1, 2} /\ (at = 3 => Stage = "replace")
        BY <1>5, <3>1, StageOrder DEF StageFails, Generating, OrderInv
    <3> QED
        BY <3>1, <3>2
  <2>2. Stage = "replace" => Missing = {}
      BY DEF Missing, Needs
  <2>3. Stage # "validate"
    <3>1. ASSUME Stage = "validate"
          PROVE  Unstyled(config) /\ Wanted("validate")
      <4>1. phase = "step" /\ at = 19
          BY <3>1, StageAt
      <4>2. Stage = Stages(config)[at]
          BY <3>1 DEF Stage
      <4>3. Wanted(Stages(config)[at])
          BY <4>1 DEF HaveInv
      <4>4. Unstyled(config)
          BY <1>5, <3>1 DEF StageFails, Generating
      <4> QED
          BY <3>1, <4>2, <4>3, <4>4
    <3>2. ASSUME Wanted("validate")
          PROVE  config.testFreq > 0
        BY <3>2 DEF Wanted, Due
    <3> QED
        BY <3>1, <3>2 DEF AtRisk
  <2>4. Missing # {}
      BY <1>5, <2>3 DEF StageFails
  <2> QED
      BY <2>1, <2>2, <2>4, RecipeNeedsMet, VerlNeedsMet
<1>6. CASE ~(Launch \/ WakeUpFails \/ BaselineOver \/ StageFails)
    BY <1>1, <1>6 DEF Next, Progress, vars, loopVars, StartLoop, DrawBatch, EndStep, WakeUp,
       NextTurn, RolloutOver, ValidationOver, Replace, Compute, UpdateCritic, UpdateActor, Save,
       Taken, Relaunch
<1> QED
    BY <1>2, <1>3, <1>4, <1>5, <1>6

\* Where "scores" and "advantage" are.
ScoresAt == IF config.trainer = "verl" THEN 13 ELSE 9
AdvantageAt == IF config.trainer = "verl" THEN 16 ELSE 12

LEMMA LaterStages ==
    ASSUME config \in Configs
    PROVE  /\ Stages(config)[ScoresAt] = "scores" /\ Stages(config)[AdvantageAt] = "advantage"
           /\ config.trainer # "verl" =>
                 KlAt = 11 /\ \A i \in 4..11 : Stages(config)[i] # "old_log_prob"
           /\ Stages(config)[KlAt] = "kl"
<1>1. CASE config.trainer = "verl"
    BY <1>1, TwoOrders DEF VerlStages, ScoresAt, AdvantageAt, KlAt
<1>2. CASE config.trainer # "verl"
  <2>1. \A i \in 4..11 : i = 4 \/ i = 5 \/ i = 6 \/ i = 7 \/ i = 8 \/ i = 9 \/ i = 10 \/ i = 11
      OBVIOUS
  <2>2. Stages(config) = RecipeStages
      BY <1>2, TwoOrders
  <2>3. \A i \in 4..11 : RecipeStages[i] # "old_log_prob"
      BY <2>1 DEF RecipeStages
  <2>4. RecipeStages[9] = "scores" /\ RecipeStages[12] = "advantage" /\ RecipeStages[11] = "kl"
      BY DEF RecipeStages
  <2> QED
      BY <1>2, <2>2, <2>3, <2>4 DEF ScoresAt, AdvantageAt, KlAt
<1> QED
    BY <1>1, <1>2

\* A doomed job never gets to the updates: each reason stops it at its stage.
StuckInv ==
    /\ Doomed(config) => actor = 0 /\ critic = 0 /\ saved = None
    /\ Refused(config) => phase \in {"launch", "failed"}
    /\ config.lora /\ config.dummy /\ config.layered =>
          ~baseSynced /\ ~engine.awake /\ (phase = "step" => at = 1)
    /\ phase = "step" /\ config.async =>
          at <= ScoresAt /\ (at > 3 => "reward" \notin DOMAIN columns)
    /\ phase = "step" /\ config.estimator = "remax" =>
          at <= AdvantageAt /\ (at > 3 => "baselines" \notin DOMAIN columns)
    /\ phase = "step" /\ config.klReward /\ config.trainer # "verl" =>
          at <= 11 /\ (at > 3 => "old_log_probs" \notin DOMAIN columns)

LEMMA StuckEarly == ASSUME StuckInv, OrderInv, Doomed(config), phase = "step" PROVE at <= 16
  BY DEF StuckInv, OrderInv, Doomed, ScoresAt, AdvantageAt

\* A stage that computes is not the one that stops the job, and does not help.
LEMMA StuckCompute ==
    ASSUME OrderInv, StuckInv, Compute
    PROVE  StuckInv'
<1>1. /\ phase = "step" /\ at > 3 /\ at \in 1..20 /\ Stage = Stages(config)[at] /\ config \in Configs
      /\ Needs(config, Stage) \subseteq DOMAIN columns
      /\ at' = NextStage(at) /\ DOMAIN columns' = DOMAIN columns \cup Gives(config, Stage)
      /\ UNCHANGED <<config, phase, actor, critic, saved, baseSynced, engine>>
    BY StageAt DEF Compute, Taken, Stage, OrderInv, Missing, rollout
<1>2. /\ ScoresAt \in {9, 13} /\ AdvantageAt \in {12, 16} /\ KlAt \in {11, 15}
      /\ Wanted("scores") /\ Wanted("advantage") /\ Wanted("kl")
    BY DEF ScoresAt, AdvantageAt, KlAt, Wanted
<1>3. ASSUME NEW j \in 4..20, at <= j, at # j, Wanted(Stages(config)[j])
      PROVE  at' <= j
    BY <1>1, <1>3, NextStageIs
<1>4. ASSUME config.async
      PROVE  at' <= ScoresAt /\ "reward" \notin DOMAIN columns'
  <2>1. at <= ScoresAt /\ "reward" \notin DOMAIN columns
      BY <1>1, <1>4 DEF StuckInv
  <2>2. at # ScoresAt
      BY <1>1, <2>1, LaterStages DEF Needs
  <2>3. at' <= ScoresAt
      BY <1>1, <1>2, <1>3, <2>1, <2>2, LaterStages
  <2>4. "reward" \notin Gives(config, Stage)
      BY <1>4 DEF Gives
  <2> QED
      BY <1>1, <2>1, <2>3, <2>4
<1>5. ASSUME config.estimator = "remax"
      PROVE  at' <= AdvantageAt /\ "baselines" \notin DOMAIN columns'
  <2>1. at <= AdvantageAt /\ "baselines" \notin DOMAIN columns
      BY <1>1, <1>5 DEF StuckInv
  <2>2. at # AdvantageAt
    <3>1. "baselines" \in AdvantageNeeds(config)
        BY <1>5 DEF AdvantageNeeds, StepEstimators
    <3>2. AdvantageNeeds(config) = Needs(config, "advantage")
        BY DEF Needs
    <3> QED
        BY <1>1, <2>1, <3>1, <3>2, LaterStages
  <2>3. at' <= AdvantageAt
      BY <1>1, <1>2, <1>3, <2>1, <2>2, LaterStages
  <2>4. "baselines" \notin Gives(config, Stage)
      BY DEF Gives
  <2> QED
      BY <1>1, <2>1, <2>3, <2>4
<1>6. ASSUME config.klReward, config.trainer # "verl"
      PROVE  at' <= 11 /\ "old_log_probs" \notin DOMAIN columns'
  <2>1. at <= 11 /\ "old_log_probs" \notin DOMAIN columns
      BY <1>1, <1>6 DEF StuckInv
  <2>2. at # 11
      BY <1>1, <1>6, <2>1, LaterStages DEF Needs
  <2>3. at' <= 11
      BY <1>1, <1>2, <1>3, <1>6, <2>1, <2>2, LaterStages
  <2>4. "old_log_probs" \notin Gives(config, Stage)
      BY <1>1, <1>6, <2>1, LaterStages DEF Gives
  <2> QED
      BY <1>1, <2>1, <2>3, <2>4
<1>7. ~(config.lora /\ config.dummy /\ config.layered)
    BY <1>1 DEF StuckInv
<1> QED
    BY <1>1, <1>4, <1>5, <1>6, <1>7 DEF StuckInv, ScoresAt, AdvantageAt

\* A step whose successor is no step leaves of it what does not speak of a step.
LEMMA StuckNoStep ==
    ASSUME StuckInv, phase' # "step", UNCHANGED <<config, actor, critic, saved>>,
           phase' \in {"launch", "failed"} \/ phase \notin {"launch", "failed"},
           \/ UNCHANGED <<baseSynced, engine>>
           \/ ~(config.lora /\ config.dummy /\ config.layered)
    PROVE  StuckInv'
  BY DEF StuckInv, Doomed

\* What does not touch the batch goes to the next stage, which comes no later
\* than those that stop the job.
LEMMA StuckNext ==
    ASSUME OrderInv, StuckInv, phase = "step", at \in 1..3,
           phase' = phase, UNCHANGED <<config, actor, critic, saved>>,
           at' = NextStage(at), ~(config.lora /\ config.dummy /\ config.layered),
           at = 3 => DOMAIN columns' \subseteq {"sequences", "episode", "whole"}
    PROVE  StuckInv'
<1>1. /\ at' <= ScoresAt /\ at' <= AdvantageAt /\ at' <= KlAt
      /\ at' \in 1..21 /\ (at < 3 => at' <= 3)
  <2>1. /\ ScoresAt \in {9, 13} /\ AdvantageAt \in {12, 16} /\ KlAt \in {11, 15}
        /\ Wanted("scores") /\ Wanted("advantage") /\ Wanted("kl")
      BY DEF ScoresAt, AdvantageAt, KlAt, Wanted
  <2>2. config \in Configs
      BY DEF OrderInv
  <2>3. \A j \in (at + 1)..20 : Wanted(Stages(config)[j]) => at' <= j
      BY <2>2, NextStageIs
  <2>4. at' \in 1..21 /\ (at < 3 => at' <= 3)
      BY <2>2, NextStep
  <2> QED
      BY <2>1, <2>2, <2>3, <2>4, LaterStages
<1>2. config.trainer # "verl" => KlAt = 11
    BY LaterStages DEF OrderInv
<1>3. at' > 3 => at = 3
    BY <1>1
<1>4. /\ Doomed(config) => actor = 0 /\ critic = 0 /\ saved = None
      /\ ~Refused(config)
    BY DEF StuckInv
<1> QED
    BY <1>1, <1>2, <1>3, <1>4 DEF StuckInv, Doomed, ScoresAt, AdvantageAt

LEMMA StuckStep ==
    OrderInv /\ ColumnsInv /\ TurnsInv /\ StuckInv /\ [Next]_vars => StuckInv'
<1> SUFFICES ASSUME OrderInv, ColumnsInv, TurnsInv, StuckInv, [Next]_vars
             PROVE  StuckInv'
    OBVIOUS
<1>1. CASE Launch
    BY <1>1 DEF Launch, StuckInv, Doomed, None
<1>2. CASE StartLoop \/ EndStep \/ WakeUpFails \/ StageFails
    BY <1>2, StuckNoStep DEF StartLoop, EndStep, WakeUpFails, StageFails, models, rollout, history
<1>3. CASE Relaunch
    BY <1>3, StuckNoStep DEF Relaunch, models, rollout
<1>4. CASE UNCHANGED vars
    BY <1>4 DEF StuckInv, Doomed, vars, loopVars, batchVars, models, rollout, history,
                ScoresAt, AdvantageAt
<1>5. CASE DrawBatch
  <2>1. CASE phase' = "step"
    <3>1. at' = 1
        BY <1>5, <2>1, NextStep DEF DrawBatch, OrderInv
    <3>2. ~Refused(config)
        BY <1>5 DEF DrawBatch, StuckInv
    <3>3. UNCHANGED <<config, actor, critic, saved, baseSynced, engine>>
        BY <1>5 DEF DrawBatch, models, rollout, history
    <3> QED
        BY <3>1, <3>2, <3>3 DEF StuckInv, Doomed, ScoresAt, AdvantageAt
  <2>2. CASE phase' # "step"
      BY <1>5, <2>2, StuckNoStep DEF DrawBatch, models, rollout, history
  <2> QED
      BY <2>1, <2>2
<1>6. CASE WakeUp
  <2>1. ~(config.lora /\ config.dummy /\ config.layered)
      BY <1>6 DEF WakeUp, CannotSummon, StuckInv
  <2>2. UNCHANGED <<config, phase, at, columns, actor, critic, saved>>
      BY <1>6 DEF WakeUp, loopVars, batchVars, history
  <2> QED
      BY <2>1, <2>2 DEF StuckInv, Doomed, ScoresAt, AdvantageAt
<1>7. CASE NextTurn
  <2>1. ~(config.lora /\ config.dummy /\ config.layered)
      BY <1>7 DEF NextTurn, StuckInv
  <2>2. UNCHANGED <<config, phase, at, columns, actor, critic, saved>>
      BY <1>7 DEF NextTurn, loopVars, models, history
  <2> QED
      BY <2>1, <2>2 DEF StuckInv, Doomed, ScoresAt, AdvantageAt
<1>8. CASE RolloutOver
  <2>1. phase = "step" /\ at = 1 /\ ~(config.lora /\ config.dummy /\ config.layered)
      BY <1>8, StageAt DEF RolloutOver, GenerationOver, StuckInv
  <2> QED
      BY <1>8, <2>1, StuckNext DEF RolloutOver, GenerationOver, models, history
<1>9. CASE BaselineOver
  <2>1. phase = "step" /\ at = 2 /\ ~(config.lora /\ config.dummy /\ config.layered)
      BY <1>9, StageAt DEF BaselineOver, GenerationOver, StuckInv
  <2>2. UNCHANGED <<config, actor, critic, saved>>
      BY <1>9 DEF BaselineOver, GenerationOver, models, history
  <2>3. phase' = "failed" \/ (phase' = phase /\ at' = NextStage(at))
      BY <1>9 DEF BaselineOver
  <2> QED
      BY <2>1, <2>2, <2>3, StuckNext, StuckNoStep
<1>10. CASE ValidationOver
  <2>1. /\ UNCHANGED <<config, actor, critic, saved>>
        /\ ~(config.lora /\ config.dummy /\ config.layered)
      BY <1>10 DEF ValidationOver, GenerationOver, models, history, StuckInv
  <2>2. CASE phase = "validating"
      BY <1>10, <2>1, <2>2, StuckNoStep DEF ValidationOver
  <2>3. CASE phase # "validating"
    <3>1. phase = "step" /\ at = 19 /\ phase' = "step"
        BY <1>10, <2>3, StageAt DEF ValidationOver
    <3>2. ~Doomed(config)
        BY <3>1, StuckEarly
    <3> QED
        BY <2>1, <3>1, <3>2 DEF StuckInv, Doomed
  <2> QED
      BY <2>2, <2>3
<1>11. CASE Replace
  <2>1. phase = "step" /\ at = 3
      BY <1>11, StageAt DEF Replace
  <2>2. /\ ~(config.lora /\ config.dummy /\ config.layered)
        /\ DOMAIN rolled \subseteq {"sequences", "episode", "whole"}
      BY <2>1 DEF StuckInv, ColumnsInv
  <2> QED
      BY <1>11, <2>1, <2>2, StuckNext DEF Replace, Taken, models
<1>12. CASE Compute
    BY <1>12, StuckCompute
<1>13. CASE UpdateCritic \/ UpdateActor \/ Save
  <2>1. phase = "step" /\ at \in {17, 18, 20}
      BY <1>13, StageAt DEF UpdateCritic, UpdateActor, Save
  <2>2. ~Doomed(config)
      BY <2>1, StuckEarly
  <2>3. config' = config /\ phase' = "step"
      BY <1>13, <2>1 DEF UpdateCritic, UpdateActor, Save, Taken
  <2> QED
      BY <2>2, <2>3 DEF StuckInv, Doomed
<1> QED
    BY <1>1, <1>2, <1>3, <1>4, <1>5, <1>6, <1>7, <1>8, <1>9, <1>10, <1>11, <1>12, <1>13
       DEF Next, Progress

\* Every stage finds its columns, with settings that are neither doomed nor at
\* risk; and with doomed settings nothing is ever trained or saved.
THEOREM NeverStarved == Spec => []NoStageStarved
<1> DEFINE Inv == OrderInv /\ EngineInv /\ CountInv /\ TurnsInv /\ ColumnsInv
                  /\ HaveInv /\ FailInv /\ StuckInv
<1>1. Init => Inv
  <2>1. Init => TurnsInv /\ ColumnsInv
      BY DEF Init, TurnsInv, Unused, ColumnsInv
  <2>2. Init => HaveInv /\ FailInv /\ StuckInv
      BY DEF Init, HaveInv, FailInv, StuckInv, Doomed
  <2> QED
      BY <2>1, <2>2, OrderInit, CountInit, EngineInit
<1>2. Inv /\ [Next]_vars => Inv'
    BY OrderStep, CountStep, EngineStep, TurnsStep, ColumnsStep, HaveStep, FailStep, StuckStep
<1>3. Inv => NoStageStarved
    BY DEF FailInv, StuckInv, NoStageStarved
<1> QED
    BY <1>1, <1>2, <1>3, PTL DEF Spec

=============================================================================
