----------------------------- MODULE Checkpoint -----------------------------
(***************************************************************************)
(* Saving, rotating and resuming checkpoints.                              *)
(*                                                                         *)
(* The driver (RayPPOTrainer.fit) trains one step at a time and, when a    *)
(* save is due, asks every rank of the actor group and then of the critic  *)
(* group to save its shard, writes data.pt and finally the tracker file    *)
(* that a later launch resumes from.  The ranks of a group run             *)
(* FSDPCheckpointManager.save_checkpoint side by side, separated by two    *)
(* barriers.  A crash may happen between any two steps: it loses the       *)
(* memory of the driver and of the ranks, among it the list of the paths   *)
(* that rotation may remove, and keeps the disk as it is.                  *)
(***************************************************************************)
EXTENDS Integers, Sequences, FiniteSets

CONSTANTS
    Ranks,          \* the ranks of a worker group
    UseCritic,      \* self.use_critic
    TotalSteps,     \* self.total_training_steps
    SaveFreq,       \* trainer.save_freq, positive: saving is on
    MaxKeep,        \* trainer.max_{actor,critic}_ckpt_to_keep; 0 stands for null
    MaxLaunches     \* bound: how often the job is started

ASSUME RanksAssumption == IsFiniteSet(Ranks) /\ Ranks # {}
ASSUME ModeAssumption == UseCritic \in BOOLEAN
ASSUME StepsAssumption == /\ TotalSteps \in Nat \ {0}
                          /\ SaveFreq \in Nat \ {0}
                          /\ MaxKeep \in Nat
                          /\ MaxLaunches \in Nat \ {0}

Roles == IF UseCritic THEN {"actor", "critic"} ELSE {"actor"}

\* A launch that resumes a finished run trains one step beyond TotalSteps.
Steps == 1..(TotalSteps + MaxLaunches - 1)

\* What a file holds: the number of the launch that wrote it, or one of these.
Absent == 0
Torn == -1
Content == -1..MaxLaunches

VARIABLES
    \* on disk
    shards,         \* [role -> [step -> [rank -> Content]]]: global_step_N/<role>
    data,           \* [step -> Content]: global_step_N/data.pt
    folders,        \* the N for which global_step_N exists
    tracker,        \* latest_checkpointed_iteration.txt: a step, Absent or Torn
    launches,       \* the launches so far, the current one included
    \* in memory
    pc,             \* what the driver does next
    global_steps,
    wpc,            \* [role -> [rank -> where the rank is in save_checkpoint]]
    previous_saved_paths   \* [role -> [rank -> sequence of steps]]

disk == <<shards, data, folders, tracker>>
vars == <<shards, data, folders, tracker, launches,
          pc, global_steps, wpc, previous_saved_paths>>

Everywhere(v) == [ro \in Roles |-> [r \in Ranks |-> v]]

Init ==
    /\ shards = [ro \in Roles |-> [s \in Steps |-> [r \in Ranks |-> Absent]]]
    /\ data = [s \in Steps |-> Absent]
    /\ folders = {}
    /\ tracker = Absent
    /\ launches = 1
    /\ pc = "load"
    /\ global_steps = 0
    /\ wpc = Everywhere("idle")
    /\ previous_saved_paths = Everywhere(<<>>)

-----------------------------------------------------------------------------
(* The driver: RayPPOTrainer._load_checkpoint, fit and _save_checkpoint.    *)

\* find_latest_ckpt_path found no tracker, or no folder of that name.
LoadFromScratch ==
    /\ pc = "load"
    /\ tracker # Torn
    /\ tracker \notin folders
    /\ global_steps' = 1
    /\ pc' = "train"
    /\ UNCHANGED <<disk, launches, wpc, previous_saved_paths>>

\* Every rank can torch.load its shard and data.pt, if there, is whole.
Loadable(s) ==
    /\ \A ro \in Roles, r \in Ranks : shards[ro][s][r] >= 1
    /\ data[s] # Torn

LoadResume ==
    /\ pc = "load"
    /\ tracker \in folders
    /\ Loadable(tracker)
    /\ global_steps' = tracker + 1
    /\ pc' = "train"
    /\ UNCHANGED <<disk, launches, wpc, previous_saved_paths>>

\* int("") raises on a torn tracker, torch.load on a missing or torn file.
LoadFails ==
    /\ pc = "load"
    /\ tracker = Torn \/ (tracker \in folders /\ ~Loadable(tracker))
    /\ pc' = "failed"
    /\ UNCHANGED <<disk, launches, global_steps, wpc, previous_saved_paths>>

\* Mutant: one step too many.
IsLastStepLate == global_steps > TotalSteps

IsLastStep == global_steps >= TotalSteps
SaveDue == IsLastStep \/ global_steps % SaveFreq = 0

\* The end of an iteration of the training loop.
EndStep ==
    /\ global_steps' = global_steps + 1
    /\ pc' = IF IsLastStep THEN "done" ELSE "train"

\* The ONE_TO_ALL call of save_checkpoint on the worker group of role ro.
Call(ro) ==
    /\ pc' = ro
    /\ wpc' = [wpc EXCEPT ![ro] = [r \in Ranks |-> "called"]]

TrainOnly ==
    /\ pc = "train"
    /\ ~SaveDue
    /\ EndStep
    /\ UNCHANGED <<disk, launches, wpc, previous_saved_paths>>

TrainAndSave ==
    /\ pc = "train"
    /\ SaveDue
    /\ Call("actor")
    /\ UNCHANGED <<disk, launches, global_steps, previous_saved_paths>>

\* Mutant: the call returns with the first rank.
FirstReturned(ro) == \E r \in Ranks : wpc[ro][r] = "returned"

AllReturned(ro) == \A r \in Ranks : wpc[ro][r] = "returned"

ActorSaved ==
    /\ pc = "actor"
    /\ AllReturned("actor")
    /\ IF UseCritic THEN Call("critic")
                    ELSE pc' = "data" /\ wpc' = wpc
    /\ UNCHANGED <<disk, launches, global_steps, previous_saved_paths>>

CriticSaved ==
    /\ pc = "critic"
    /\ AllReturned("critic")
    /\ pc' = "data"
    /\ UNCHANGED <<disk, launches, global_steps, wpc, previous_saved_paths>>

DataOpen ==
    /\ pc = "data"
    /\ data' = [data EXCEPT ![global_steps] = Torn]
    /\ pc' = "dataclose"
    /\ UNCHANGED <<shards, folders, tracker, launches, global_steps, wpc,
                   previous_saved_paths>>

DataClose ==
    /\ pc = "dataclose"
    /\ data' = [data EXCEPT ![global_steps] = launches]
    /\ pc' = "tracker"
    /\ UNCHANGED <<shards, folders, tracker, launches, global_steps, wpc,
                   previous_saved_paths>>

\* open(..., "w") truncates the tracker file before the new number is there.
TrackerOpen ==
    /\ pc = "tracker"
    /\ tracker' = Torn
    /\ pc' = "trackerclose"
    /\ UNCHANGED <<shards, data, folders, launches, global_steps, wpc,
                   previous_saved_paths>>

TrackerClose ==
    /\ pc = "trackerclose"
    /\ tracker' = global_steps
    /\ EndStep
    /\ UNCHANGED <<shards, data, folders, launches, wpc, previous_saved_paths>>

-----------------------------------------------------------------------------
(* A rank: FSDPCheckpointManager.save_checkpoint.                           *)

Goto(ro, r, l) == wpc' = [wpc EXCEPT ![ro][r] = l]

\* Mutant: the checkpoint about to be written is not counted.
KeepStartShort(paths) ==
    IF MaxKeep > 0 /\ Len(paths) >= MaxKeep THEN Len(paths) - MaxKeep ELSE 0

\* How many of the oldest saved paths this save removes: keep_start.
KeepStart(paths) ==
    IF MaxKeep > 0 /\ Len(paths) >= MaxKeep THEN Len(paths) - MaxKeep + 1 ELSE 0

\* shutil.rmtree takes the shards of all the ranks with the folder.
Rotate(ro, r) ==
    /\ wpc[ro][r] = "called"
    /\ LET paths == previous_saved_paths[ro][r]
           n == KeepStart(paths)
           doomed == {paths[i] : i \in 1..n}
       IN  /\ shards' = [shards EXCEPT ![ro] =
                           [s \in Steps |-> IF s \in doomed
                                            THEN [q \in Ranks |-> Absent]
                                            ELSE @[s]]]
           /\ previous_saved_paths' =
                [previous_saved_paths EXCEPT ![ro][r] = SubSeq(@, n + 1, Len(@))]
    /\ folders' = folders \cup {global_steps}
    /\ Goto(ro, r, "rotated")
    /\ UNCHANGED <<data, tracker, launches, pc, global_steps>>

\* The barrier after mkdir, then torch.save truncates what was there.
OpenShard(ro, r) ==
    /\ wpc[ro][r] = "rotated"
    /\ \A q \in Ranks : wpc[ro][q] # "called"
    /\ shards' = [shards EXCEPT ![ro][global_steps][r] = Torn]
    /\ Goto(ro, r, "writing")
    /\ UNCHANGED <<data, folders, tracker, launches, pc, global_steps,
                   previous_saved_paths>>

CloseShard(ro, r) ==
    /\ wpc[ro][r] = "writing"
    /\ shards' = [shards EXCEPT ![ro][global_steps][r] = launches]
    /\ Goto(ro, r, "written")
    /\ UNCHANGED <<data, folders, tracker, launches, pc, global_steps,
                   previous_saved_paths>>

\* Mutant: a barrier that a rank which has passed it closes again.
ReturnTogether(ro, r) ==
    /\ wpc[ro][r] = "written"
    /\ \A q \in Ranks : wpc[ro][q] = "written"
    /\ previous_saved_paths' =
         [previous_saved_paths EXCEPT ![ro][r] = Append(@, global_steps)]
    /\ Goto(ro, r, "returned")
    /\ UNCHANGED <<disk, launches, pc, global_steps>>

\* The barrier "wait for everyone to dump to local", then the path is recorded.
Return(ro, r) ==
    /\ wpc[ro][r] = "written"
    /\ \A q \in Ranks : wpc[ro][q] \in {"written", "returned"}
    /\ previous_saved_paths' =
         [previous_saved_paths EXCEPT ![ro][r] = Append(@, global_steps)]
    /\ Goto(ro, r, "returned")
    /\ UNCHANGED <<disk, launches, pc, global_steps>>

-----------------------------------------------------------------------------
\* The job is killed, or has ended, and is started again.
Relaunch ==
    /\ pc # "load"
    /\ launches < MaxLaunches
    /\ launches' = launches + 1
    /\ pc' = "load"
    /\ global_steps' = 0
    /\ wpc' = Everywhere("idle")
    /\ previous_saved_paths' = Everywhere(<<>>)
    /\ UNCHANGED disk

Driver ==
    \/ LoadFromScratch \/ LoadResume \/ LoadFails
    \/ TrainOnly \/ TrainAndSave
    \/ ActorSaved \/ CriticSaved
    \/ DataOpen \/ DataClose
    \/ TrackerOpen \/ TrackerClose

Rank(ro, r) == Rotate(ro, r) \/ OpenShard(ro, r) \/ CloseShard(ro, r) \/ Return(ro, r)

Next == Driver \/ (\E ro \in Roles, r \in Ranks : Rank(ro, r)) \/ Relaunch

\* The driver and every rank run until they wait for one another; nothing
\* obliges anyone to relaunch the job.
Fairness == WF_vars(Driver) /\ \A ro \in Roles, r \in Ranks : WF_vars(Rank(ro, r))

Spec == Init /\ [][Next]_vars
FairSpec == Spec /\ Fairness

-----------------------------------------------------------------------------
WorkerStates == {"idle", "called", "rotated", "writing", "written", "returned"}
DriverStates == {"load", "train", "actor", "critic", "data", "dataclose",
                 "tracker", "trackerclose", "done", "failed"}

\* The type invariant: every file on disk is absent, torn or written by one
\* launch, and the driver and the ranks stay inside their control points.
TypeOK ==
    /\ shards \in [Roles -> [Steps -> [Ranks -> Content]]]
    /\ data \in [Steps -> Content]
    /\ folders \subseteq Steps
    /\ tracker \in Steps \cup {Absent, Torn}
    /\ launches \in 1..MaxLaunches
    /\ pc \in DriverStates
    /\ global_steps \in Nat
    /\ wpc \in [Roles -> [Ranks -> WorkerStates]]
    /\ previous_saved_paths \in [Roles -> [Ranks -> Seq(Steps)]]

\* Every shard and data.pt of step s are whole and of one and the same launch.
Complete(s) ==
    \E l \in 1..launches :
        /\ data[s] = l
        /\ \A ro \in Roles, r \in Ranks : shards[ro][s][r] = l

\* Whatever crashed before, in this launch or an earlier one, a tracker that
\* can be read names a checkpoint that is whole and not mixed from two
\* launches: _load_checkpoint can resume from it.
TrackerComplete == tracker \in Steps => Complete(tracker)

\* The steps whose folder of role ro holds a file written by launch l.
KeptBy(ro, l) == {s \in Steps : \E r \in Ranks : shards[ro][s][r] = l}

\* Rotation: the shards one launch leaves on disk fill at most MaxKeep folders
\* of a role, even while the next one is being written.
LaunchKeepsAtMost ==
    MaxKeep > 0 =>
        \A ro \in Roles, l \in 1..MaxLaunches : Cardinality(KeptBy(ro, l)) <= MaxKeep

\* "for atomic usage", the comment on the tracker file: a launch finds the
\* number of a step in it, or no tracker at all.
TrackerAtomic == pc = "load" => tracker # Torn

\* The ranks and the driver never wait for one another for ever: every launch
\* that is not killed reaches the last step, unless it finds a torn tracker.
Finishes == <>[](pc = "done" \/ (pc = "failed" /\ tracker = Torn))
=============================================================================
