---------------------------- MODULE MCTraining ----------------------------
(* Small instances of Training for TLC. *)
EXTENDS Training

Base == [trainer |-> "obliflow", estimator |-> "obliflow", rm |-> FALSE, style |-> "none", async |-> FALSE,
         klReward |-> FALSE, klLoss |-> TRUE, lora |-> FALSE, dummy |-> TRUE, layered |-> FALSE,
         offloadParam |-> TRUE, offloadOptim |-> TRUE, valBefore |-> TRUE,
         saveFreq |-> 2, testFreq |-> 2, warmup |-> 0, total |-> 6]

Lora == [Base EXCEPT !.lora = TRUE, !.valBefore = FALSE]
Verl == [Base EXCEPT !.trainer = "verl", !.estimator = "gigpo"]
Gae == [Base EXCEPT !.estimator = "gae", !.warmup = 2]

Healthy ==
    {Base, [Base EXCEPT !.total = 3, !.offloadParam = FALSE, !.valBefore = FALSE],
     [Base EXCEPT !.total = 7, !.testFreq = 0, !.klLoss = FALSE],
     [Base EXCEPT !.trainer = "hgpo", !.estimator = "hgpo", !.saveFreq = 3],
     [Base EXCEPT !.trainer = "graphgpo", !.estimator = "graphgpo", !.offloadOptim = FALSE],
     Lora, [Lora EXCEPT !.valBefore = TRUE], [Lora EXCEPT !.dummy = FALSE, !.layered = TRUE],
     [Verl EXCEPT !.klReward = TRUE, !.klLoss = FALSE], [Verl EXCEPT !.estimator = "grpo", !.saveFreq = 1],
     [Verl EXCEPT !.estimator = "gae", !.warmup = 2, !.saveFreq = 3],
     [Verl EXCEPT !.rm = TRUE, !.style = "model", !.valBefore = FALSE],
     [Verl EXCEPT !.rm = TRUE, !.style = "rule"]}

Unfit ==
    {[Base EXCEPT !.async = TRUE], [Base EXCEPT !.klReward = TRUE],
     [Verl EXCEPT !.estimator = "remax"], [Lora EXCEPT !.layered = TRUE],
     [Verl EXCEPT !.rm = TRUE], [Verl EXCEPT !.rm = TRUE, !.valBefore = FALSE],
     [Verl EXCEPT !.rm = TRUE, !.style = "model"], Gae,
     [Base EXCEPT !.rm = TRUE, !.style = "model", !.valBefore = FALSE]}

MCConfigs == Healthy \cup Unfit
=============================================================================
