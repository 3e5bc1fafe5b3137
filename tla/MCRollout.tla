----------------------------- MODULE MCRollout -----------------------------
(* Small instances of Rollout for TLC. *)
EXTENDS Rollout

CONSTANTS pick, heat

Goes == [reward |-> 0, done |-> FALSE, won |-> FALSE]
Scores == [reward |-> 1, done |-> FALSE, won |-> FALSE]
Slips == [reward |-> -1, done |-> FALSE, won |-> FALSE]
Wins == [reward |-> 1, done |-> TRUE, won |-> TRUE]

\* Sokoban: a step may be rewarded, or cost something.
StepReward == {Goes, Scores, Slips, Wins}

\* One group, rewarded at every step: an episode of up to three steps, and
\* two tries of up to two steps with games that may differ.
Episode ==
    [filter |-> FALSE, kwargs |-> FALSE, trainBatch |-> 1, maxSteps |-> 3,
     maxTries |-> 2, games |-> {pick, heat}, outcomes |-> StepReward]
Tries == [Episode EXCEPT !.filter = TRUE, !.maxSteps = 2]

\* Dynamic sampling over two groups, two steps and three tries, with a
\* reward at the end only (ALFWorld, WebShop).
TwoGroups ==
    [filter |-> TRUE, kwargs |-> FALSE, trainBatch |-> 2, maxSteps |-> 2,
     maxTries |-> 3, games |-> {}, outcomes |-> {Goes, Wins}]

\* A group, a step and two tries are enough for the two ways to raise.
OneStep == [TwoGroups EXCEPT !.trainBatch = 1, !.maxSteps = 1, !.maxTries = 2]
TaskKeys == {[OneStep EXCEPT !.games = {pick, heat}]}
SearchRetry == {[OneStep EXCEPT !.kwargs = TRUE]}
Jobs == {Episode, Tries, TwoGroups} \cup SearchRetry
=============================================================================
