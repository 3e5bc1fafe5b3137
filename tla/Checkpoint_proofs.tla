------------------------- MODULE Checkpoint_proofs --------------------------
(***************************************************************************)
(* Proofs about Checkpoint: its types; that a readable tracker always      *)
(* names a whole checkpoint, for any number of ranks, steps, launches and  *)
(* kept checkpoints but one; and that a launch never keeps too many.       *)
(***************************************************************************)
EXTENDS Checkpoint, FiniteSetTheorems, SequenceTheorems, TLAPS

\* The driver is between two saves or inside one.
Active == DriverStates \ {"load", "done", "failed"}

\* The shards of the actor group are written, those of both, data.pt too.
AfterActor == {"critic", "data", "dataclose", "tracker", "trackerclose"}
AfterShards == {"data", "dataclose", "tracker", "trackerclose"}
AfterData == {"tracker", "trackerclose"}

\* Every launch goes at most one step further than all the earlier ones.
StepBound ==
    /\ tracker < TotalSteps + launches
    /\ pc = "load" => tracker + 1 < TotalSteps + launches
    /\ pc \in Active => /\ global_steps >= 1
                        /\ global_steps < TotalSteps + launches
                        /\ tracker < global_steps

\* A readable tracker names a folder that exists.
FolderInv ==
    /\ tracker \in Steps => tracker \in folders
    /\ \A ro \in Roles, r \in Ranks :
          pc = ro /\ wpc[ro][r] # "called" => global_steps \in folders
    /\ pc \in AfterActor => global_steps \in folders

\* A rank is inside save_checkpoint only while the driver waits for its group.
Saving == {"called", "rotated", "writing", "written"}
CallInv == \A ro \in Roles, r \in Ranks : wpc[ro][r] \in Saving => pc = ro

TypeInv == TypeOK /\ StepBound /\ FolderInv /\ CallInv

LEMMA InitType == Init => TypeInv
<1> SUFFICES ASSUME Init PROVE TypeInv
  OBVIOUS
<1> USE StepsAssumption DEF Init
<1>1. TypeOK
  BY DEF TypeOK, Content, Everywhere, WorkerStates, DriverStates, Absent, Torn
<1>2. StepBound
  BY DEF StepBound, Active, Absent
<1>3. FolderInv
  BY DEF FolderInv, AfterActor, Absent, Steps, Roles
<1>4. CallInv
  BY DEF CallInv, Saving, Everywhere
<1> QED
  BY <1>1, <1>2, <1>3, <1>4 DEF TypeInv

\* While a save goes on the current step is one of Steps.
LEMMA ActiveStep == TypeInv /\ pc \in Active => global_steps \in Steps
BY StepsAssumption DEF TypeInv, TypeOK, StepBound, Steps

LEMMA StepType == TypeInv /\ [Next]_vars => TypeInv'
<1> SUFFICES ASSUME TypeInv, [Next]_vars
             PROVE  TypeInv'
  OBVIOUS
<1> USE StepsAssumption DEF TypeInv, TypeOK, StepBound, FolderInv, CallInv, Saving,
                            Active, DriverStates, AfterActor, Roles
<1>0. pc \in Active => global_steps \in Steps
  BY ActiveStep
<1>1. CASE LoadFromScratch
  <2>1. tracker = Absent
    BY <1>1 DEF LoadFromScratch
  <2> QED
    BY <1>1, <2>1 DEF LoadFromScratch, disk, Absent
<1>2. CASE LoadResume
  BY <1>2 DEF LoadResume, disk, Steps
<1>3. CASE LoadFails
  BY <1>3 DEF LoadFails, disk
<1>4. CASE TrainOnly
  <2>1. TypeOK' /\ StepBound'
    BY <1>4 DEF TrainOnly, EndStep, IsLastStep, disk, Steps, Absent, Torn
  <2>2. FolderInv' /\ CallInv'
    BY <1>4 DEF TrainOnly, EndStep, disk
  <2> QED
    BY <2>1, <2>2
<1>5. CASE TrainAndSave
  BY <1>5 DEF TrainAndSave, Call, disk, WorkerStates
<1>6. CASE ActorSaved
  BY <1>6, RanksAssumption DEF ActorSaved, AllReturned, Call, disk, WorkerStates
<1>7. CASE CriticSaved
  BY <1>7 DEF CriticSaved, AllReturned, disk
<1>8. CASE DataOpen
  BY <1>8 DEF DataOpen, disk, Content, Torn
<1>9. CASE DataClose
  BY <1>9 DEF DataClose, disk, Content
<1>10. CASE TrackerOpen
  BY <1>10 DEF TrackerOpen, Torn, Steps
<1>11. CASE TrackerClose
  BY <1>11, <1>0 DEF TrackerClose, EndStep, IsLastStep, Steps
<1>12. CASE \E ro \in Roles, r \in Ranks : Rank(ro, r)
  <2> SUFFICES ASSUME NEW ro \in Roles, NEW r \in Ranks, Rank(ro, r)
               PROVE  TypeInv'
    BY <1>12
  <2> USE DEF WorkerStates
  <2>1. CASE Rotate(ro, r)
    <3> DEFINE p == previous_saved_paths[ro][r]
               n == KeepStart(p)
    <3>1. p \in Seq(Steps) /\ n \in 0..Len(p)
      BY <2>1 DEF Rotate, KeepStart
    <3>2. SubSeq(p, n + 1, Len(p)) \in Seq(Steps)
      BY <3>1
    <3>3. pc = ro /\ global_steps \in Steps
      BY <2>1, <1>0 DEF Rotate
    <3> HIDE DEF n
    <3>4. shards' \in [Roles -> [Steps -> [Ranks -> Content]]]
      BY SMTT(30), <2>1 DEF Rotate, Content, Absent
    <3>5. previous_saved_paths' \in [Roles -> [Ranks -> Seq(Steps)]]
      BY <2>1, <3>2 DEF Rotate, n
    <3> QED
      BY <2>1, <3>3, <3>4, <3>5 DEF Rotate, Goto
  <2>2. CASE OpenShard(ro, r)
    BY <2>2 DEF OpenShard, Goto, Content, Torn
  <2>3. CASE CloseShard(ro, r)
    BY SMTT(30), <2>3 DEF CloseShard, Goto, Content
  <2>4. CASE Return(ro, r)
    <3>1. pc = ro /\ global_steps \in Steps
      BY <2>4, <1>0 DEF Return
    <3> QED
      BY <2>4, <3>1 DEF Return, Goto, disk
  <2> QED
    BY <2>1, <2>2, <2>3, <2>4 DEF Rank
<1>13. CASE Relaunch
  <2>1. TypeOK'
    BY <1>13 DEF Relaunch, disk, Everywhere, WorkerStates, Content
  <2>2. StepBound'
    BY <1>13 DEF Relaunch, disk, Steps, Absent, Torn
  <2>3. FolderInv' /\ CallInv'
    BY <1>13 DEF Relaunch, disk, Everywhere
  <2> QED
    BY <2>1, <2>2, <2>3
<1>14. CASE UNCHANGED vars
  BY <1>14 DEF vars
<1> QED
  BY <1>1, <1>2, <1>3, <1>4, <1>5, <1>6, <1>7, <1>8, <1>9, <1>10, <1>11, <1>12,
     <1>13, <1>14 DEF Next, Driver

\* For every value of the constants the state keeps its type: a launch never
\* goes beyond the last folder of Steps, files belong to launches, and the
\* driver and the ranks stay inside the control points of save_checkpoint.
THEOREM TypeCorrect == Spec => []TypeOK
<1>1. Init => TypeInv
  BY InitType
<1>2. TypeInv /\ [Next]_vars => TypeInv'
  BY StepType
<1>3. TypeInv => TypeOK
  BY DEF TypeInv
<1> QED
  BY <1>1, <1>2, <1>3, PTL DEF Spec

-----------------------------------------------------------------------------
\* Of the paths p a rank remembers: none is of step g or later;
Below(p, g) == \A i \in 1..Len(p) : p[i] < g

\* only the last can be of step g;
NewestLast(p, g) ==
    /\ \A i \in 1..Len(p) : p[i] <= g
    /\ \A i \in 1..(Len(p) - 1) : p[i] < g

\* none but the last is of step t.
Avoids(p, t) == \A i \in 1..(Len(p) - 1) : p[i] # t

\* Until a rank records the path of the current step, rotation, which always
\* keeps its last path, cannot reach the step that the tracker names.
PathsOK(ro, r) ==
    LET p == previous_saved_paths[ro][r]
    IN  /\ pc = "load" => p = <<>>
        /\ pc \in Active => NewestLast(p, global_steps)
        /\ pc \in Active /\ Below(p, global_steps) => Avoids(p, tracker)
        /\ wpc[ro][r] \in Saving => Below(p, global_steps)
        /\ pc = "train" => Below(p, global_steps)
        /\ pc = "actor" /\ ro = "critic" => Below(p, global_steps)

PathsInv == \A ro \in Roles, r \in Ranks : PathsOK(ro, r)

LEMMA EmptyPaths ==
    ASSUME NEW g, NEW t
    PROVE  Below(<<>>, g) /\ NewestLast(<<>>, g) /\ Avoids(<<>>, t)
BY DEF Below, NewestLast, Avoids

LEMMA RotatedPaths ==
    ASSUME NEW p \in Seq(Steps), NEW n \in 0..Len(p), NEW g \in Nat, NEW t \in Int
    PROVE  LET q == SubSeq(p, n + 1, Len(p))
           IN  /\ Below(p, g) => Below(q, g)
               /\ NewestLast(p, g) => NewestLast(q, g)
               /\ Avoids(p, t) => Avoids(q, t)
<1> DEFINE q == SubSeq(p, n + 1, Len(p))
<1>1. Len(q) = Len(p) - n /\ \A i \in 1..Len(q) : q[i] = p[i + n]
  BY SubSeqProperties, Len(p) \in Nat
<1> HIDE DEF q
<1>2. Len(p) \in Nat
  OBVIOUS
<1>3. Below(p, g) => Below(q, g)
  <2> SUFFICES ASSUME Below(p, g), NEW i \in 1..Len(q) PROVE q[i] < g
    BY DEF Below
  <2>1. i + n \in 1..Len(p)
    BY <1>1, <1>2
  <2> QED
    BY <1>1, <2>1 DEF Below
<1>4. NewestLast(p, g) => NewestLast(q, g)
  <2> SUFFICES ASSUME NewestLast(p, g), NEW i \in 1..Len(q)
               PROVE  q[i] <= g /\ (i \in 1..(Len(q) - 1) => q[i] < g)
    BY <1>1, <1>2 DEF NewestLast
  <2>1. i + n \in 1..Len(p) /\ (i \in 1..(Len(q) - 1) => i + n \in 1..(Len(p) - 1))
    BY <1>1, <1>2
  <2> QED
    BY <1>1, <2>1 DEF NewestLast
<1>5. Avoids(p, t) => Avoids(q, t)
  <2> SUFFICES ASSUME Avoids(p, t), NEW i \in 1..(Len(q) - 1) PROVE q[i] # t
    BY DEF Avoids
  <2>1. i \in 1..Len(q) /\ i + n \in 1..(Len(p) - 1)
    BY <1>1, <1>2
  <2> QED
    BY <1>1, <2>1 DEF Avoids
<1> QED
  BY <1>3, <1>4, <1>5 DEF q

LEMMA RecordedPath ==
    ASSUME NEW p \in Seq(Steps), NEW g \in Steps, Below(p, g)
    PROVE  NewestLast(Append(p, g), g) /\ ~Below(Append(p, g), g)
<1> DEFINE q == Append(p, g)
<1>1. /\ Len(p) \in Nat /\ Len(q) = Len(p) + 1 /\ q[Len(p) + 1] = g
      /\ \A i \in 1..Len(p) : q[i] = p[i]
  OBVIOUS
<1> HIDE DEF q
<1>2. NewestLast(q, g)
  BY SMTT(30), <1>1, StepsAssumption DEF NewestLast, Below, Steps
<1>3. ~Below(q, g)
  BY <1>1, StepsAssumption DEF Below, Steps
<1> QED
  BY <1>2, <1>3 DEF q

LEMMA NextStepPaths ==
    ASSUME NEW p \in Seq(Steps), NEW g \in Nat, NewestLast(p, g)
    PROVE  Below(p, g + 1) /\ NewestLast(p, g + 1) /\ Avoids(p, g)
BY StepsAssumption DEF Below, NewestLast, Avoids, Steps

LEMMA TornTrackerPaths ==
    ASSUME NEW p \in Seq(Steps) PROVE Avoids(p, Torn)
BY StepsAssumption DEF Avoids, Steps, Torn

\* What the current save has already put on disk.
SaveInv ==
    /\ \A ro \in Roles, r \in Ranks :
          pc = ro /\ wpc[ro][r] \in {"written", "returned"} =>
              shards[ro][global_steps][r] = launches
    /\ pc \in AfterActor =>
          \A r \in Ranks : shards["actor"][global_steps][r] = launches
    /\ pc \in AfterShards =>
          \A ro \in Roles, r \in Ranks : shards[ro][global_steps][r] = launches
    /\ pc \in AfterData => data[global_steps] = launches

IInv == TypeInv /\ PathsInv /\ SaveInv /\ TrackerComplete

\* What rotation removes: only paths older than the last one it knows.
LEMMA KeepStartBound ==
    ASSUME MaxKeep # 1, NEW paths \in Seq(Steps)
    PROVE  /\ KeepStart(paths) \in 0..Len(paths)
           /\ KeepStart(paths) > 0 => KeepStart(paths) <= Len(paths) - 1
BY StepsAssumption DEF KeepStart

LEMMA InitIInv == Init => IInv
<1> SUFFICES ASSUME Init PROVE IInv
  OBVIOUS
<1>1. TypeInv
  BY InitType
<1>2. PathsInv
  BY EmptyPaths DEF Init, PathsInv, PathsOK, Active, Saving, Everywhere
<1>3. SaveInv /\ TrackerComplete
  BY StepsAssumption
     DEF Init, SaveInv, AfterActor, AfterShards, AfterData, TrackerComplete, Steps, Absent, Roles
<1> QED
  BY <1>1, <1>2, <1>3 DEF IInv

LEMMA StepPaths ==
    ASSUME MaxKeep # 1, TypeInv, PathsInv, [Next]_vars
    PROVE  PathsInv'
<1> SUFFICES ASSUME NEW ro \in Roles, NEW r \in Ranks
             PROVE  PathsOK(ro, r)'
  BY DEF PathsInv
<1> DEFINE p == previous_saved_paths[ro][r]
<1> USE DEF Active, DriverStates, Saving
<1>0. /\ PathsOK(ro, r)
      /\ p \in Seq(Steps)
      /\ pc \in Active => global_steps \in Steps
      /\ global_steps \in Nat /\ tracker \in Int
      /\ ro \in {"actor", "critic"}
      /\ wpc[ro][r] \in Saving => pc = ro
  BY ActiveStep, StepsAssumption
     DEF PathsInv, TypeInv, TypeOK, CallInv, Roles, Steps, Absent, Torn
<1>1. CASE LoadFromScratch \/ LoadResume
  <2>1. p = <<>> /\ p' = p
    BY <1>0, <1>1 DEF LoadFromScratch, LoadResume, PathsOK
  <2> QED
    BY <1>0, <1>1, <2>1, EmptyPaths DEF LoadFromScratch, LoadResume, PathsOK
<1>2. CASE LoadFails
  BY <1>0, <1>2 DEF LoadFails, PathsOK
<1>3. CASE TrainOnly
  BY <1>0, <1>3, NextStepPaths DEF TrainOnly, EndStep, disk, PathsOK
<1>4. CASE TrainAndSave
  BY <1>0, <1>4 DEF TrainAndSave, Call, disk, PathsOK, TypeInv, TypeOK
<1>5. CASE ActorSaved
  BY <1>0, <1>5 DEF ActorSaved, Call, disk, PathsOK, TypeInv, TypeOK
<1>6. CASE CriticSaved \/ DataOpen \/ DataClose
  BY <1>0, <1>6 DEF CriticSaved, DataOpen, DataClose, disk, PathsOK
<1>7. CASE TrackerOpen
  BY <1>0, <1>7, TornTrackerPaths DEF TrackerOpen, PathsOK
<1>8. CASE TrackerClose
  BY <1>0, <1>8, NextStepPaths DEF TrackerClose, EndStep, PathsOK
<1>9. CASE \E x \in Roles, q \in Ranks : Rank(x, q)
  <2> SUFFICES ASSUME NEW x \in Roles, NEW q \in Ranks, Rank(x, q)
               PROVE  PathsOK(ro, r)'
    BY <1>9
  <2>1. UNCHANGED <<pc, tracker, global_steps>>
    BY DEF Rank, Rotate, OpenShard, CloseShard, Return, disk
  <2>2. CASE x # ro \/ q # r
    <3>1. UNCHANGED <<p, wpc[ro][r]>>
      BY <2>2 DEF Rank, Rotate, OpenShard, CloseShard, Return, Goto, TypeInv, TypeOK
    <3> QED
      BY <1>0, <2>1, <3>1 DEF PathsOK
  <2>3. CASE x = ro /\ q = r /\ Rotate(ro, r)
    <3> DEFINE n == KeepStart(p)
    <3>1. n \in 0..Len(p)
      BY <1>0, KeepStartBound
    <3>2. p' = SubSeq(p, n + 1, Len(p)) /\ wpc'[ro][r] = "rotated" /\ wpc[ro][r] = "called"
      BY <2>3 DEF Rotate, Goto, TypeInv, TypeOK
    <3> HIDE DEF n
    <3> QED
      BY <1>0, <2>1, <3>1, <3>2, RotatedPaths DEF PathsOK
  <2>4. CASE x = ro /\ q = r /\ (OpenShard(ro, r) \/ CloseShard(ro, r))
    BY <1>0, <2>1, <2>4 DEF OpenShard, CloseShard, Goto, PathsOK, TypeInv, TypeOK
  <2>5. CASE x = ro /\ q = r /\ Return(ro, r)
    <3>1. p' = Append(p, global_steps) /\ wpc'[ro][r] = "returned" /\ wpc[ro][r] = "written"
      BY <2>5 DEF Return, Goto, TypeInv, TypeOK
    <3>2. NewestLast(p', global_steps) /\ ~Below(p', global_steps)
      BY <1>0, <3>1, RecordedPath DEF PathsOK
    <3> QED
      BY <1>0, <2>1, <3>1, <3>2 DEF PathsOK
  <2> QED
    BY <2>2, <2>3, <2>4, <2>5 DEF Rank
<1>10. CASE Relaunch
  BY <1>0, <1>10 DEF Relaunch, Everywhere, PathsOK
<1>11. CASE UNCHANGED vars
  BY <1>0, <1>11 DEF vars, PathsOK
<1> QED
  BY <1>1, <1>2, <1>3, <1>4, <1>5, <1>6, <1>7, <1>8, <1>9, <1>10, <1>11 DEF Next, Driver

LEMMA StepSave ==
    ASSUME TypeInv, PathsInv, SaveInv, [Next]_vars
    PROVE  SaveInv'
<1> USE DEF SaveInv, AfterActor, AfterShards, AfterData
<1>0. pc \in Active => global_steps \in Steps
  BY ActiveStep
<1>1. CASE LoadFromScratch \/ LoadResume \/ LoadFails
  BY <1>1 DEF LoadFromScratch, LoadResume, LoadFails, Roles
<1>2. CASE TrainOnly \/ TrainAndSave
  BY <1>2 DEF TrainOnly, TrainAndSave, Call, EndStep, Roles, TypeInv, TypeOK
<1>3. CASE ActorSaved
  BY <1>3 DEF ActorSaved, AllReturned, Call, disk, Roles, TypeInv, TypeOK
<1>4. CASE CriticSaved
  BY <1>4 DEF CriticSaved, AllReturned, disk, Roles
<1>5. CASE DataOpen \/ DataClose
  BY <1>5, <1>0 DEF DataOpen, DataClose, Roles, TypeInv, TypeOK, Active, DriverStates
<1>6. CASE TrackerOpen \/ TrackerClose
  BY <1>6 DEF TrackerOpen, TrackerClose, EndStep, Roles
<1>7. CASE \E ro \in Roles, r \in Ranks : Rank(ro, r)
  <2> SUFFICES ASSUME NEW ro \in Roles, NEW r \in Ranks, Rank(ro, r)
               PROVE  SaveInv'
    BY <1>7
  <2>1. CASE Rotate(ro, r)
    <3> DEFINE p == previous_saved_paths[ro][r]
               doomed == {p[i] : i \in 1..KeepStart(p)}
    <3>1. pc = ro /\ pc \in Active /\ Below(p, global_steps)
      BY <2>1 DEF Rotate, PathsInv, PathsOK, Saving, TypeInv, CallInv, Roles, Active, DriverStates
    <3>2. KeepStart(p) \in 0..Len(p)
      BY StepsAssumption DEF KeepStart, TypeInv, TypeOK
    <3>3. global_steps \notin doomed
      <4>1. p \in Seq(Steps) /\ Len(p) \in Nat
        BY DEF TypeInv, TypeOK
      <4>2. \A i \in 1..KeepStart(p) : i \in 1..Len(p)
        BY <3>2, <4>1
      <4>3. global_steps \in Int
        BY <3>1, <1>0, StepsAssumption DEF Steps
      <4> QED
        BY <3>1, <4>2, <4>3 DEF Below
    <3>4. \A x \in Roles, q \in Ranks :
             shards'[x][global_steps][q] = shards[x][global_steps][q]
      BY <2>1, <3>1, <3>3, <1>0 DEF Rotate, TypeInv, TypeOK
    <3> HIDE DEF p, doomed
    <3> QED
      BY ZenonT(90), <2>1, <3>1, <3>4 DEF Rotate, Goto, Roles, TypeInv, TypeOK
  <2>2. CASE OpenShard(ro, r)
    BY <2>2, <1>0 DEF OpenShard, Goto, TypeInv, TypeOK, CallInv, Saving, Roles, Active, DriverStates
  <2>3. CASE CloseShard(ro, r)
    BY <2>3, <1>0 DEF CloseShard, Goto, TypeInv, TypeOK, CallInv, Saving, Roles, Active, DriverStates
  <2>4. CASE Return(ro, r)
    BY <2>4 DEF Return, Goto, disk, TypeInv, TypeOK, CallInv, Saving, Roles
  <2> QED
    BY <2>1, <2>2, <2>3, <2>4 DEF Rank
<1>8. CASE Relaunch
  BY <1>8 DEF Relaunch, Roles
<1>9. CASE UNCHANGED vars
  BY <1>9 DEF vars
<1> QED
  BY <1>1, <1>2, <1>3, <1>4, <1>5, <1>6, <1>7, <1>8, <1>9 DEF Next, Driver

LEMMA StepTracker ==
    ASSUME MaxKeep # 1, IInv, [Next]_vars
    PROVE  TrackerComplete'
<1> USE DEF IInv
<1>0. /\ pc \in Active => global_steps \in Steps /\ tracker < global_steps
      /\ launches \in Nat \ {0}
  BY ActiveStep, StepsAssumption DEF TypeInv, TypeOK, StepBound
<1>1. SUFFICES ASSUME tracker' \in Steps
               PROVE  Complete(tracker)'
  BY DEF TrackerComplete
<1> DEFINE t == tracker
\* While the tracker stays, nothing below the step being saved is touched.
<1>2. ASSUME tracker' = t,
             launches' = launches \/ launches' = launches + 1,
             data'[t] = data[t],
             \A ro \in Roles, r \in Ranks : shards'[ro][t][r] = shards[ro][t][r]
      PROVE  Complete(tracker)'
  BY <1>0, <1>1, <1>2 DEF TrackerComplete, Complete
<1>3. CASE UNCHANGED <<disk, launches>>
  BY <1>1, <1>2, <1>3 DEF disk
<1>4. CASE Relaunch
  BY <1>1, <1>2, <1>4 DEF Relaunch, disk
<1>5. CASE DataOpen \/ DataClose
  <2>1. t \in Steps /\ global_steps \in Steps /\ t # global_steps
    BY <1>0, <1>1, <1>5, StepsAssumption
       DEF DataOpen, DataClose, Active, DriverStates, Steps
  <2> QED
    BY <1>1, <1>2, <1>5, <2>1 DEF DataOpen, DataClose, TypeInv, TypeOK
<1>6. CASE TrackerOpen
  BY <1>1, <1>6, StepsAssumption DEF TrackerOpen, Torn, Steps
<1>7. CASE TrackerClose
  <2>1. data[global_steps] = launches
    BY <1>7 DEF TrackerClose, SaveInv, AfterData
  <2>2. \A ro \in Roles, r \in Ranks : shards[ro][global_steps][r] = launches
    BY <1>7 DEF TrackerClose, SaveInv, AfterShards
  <2> QED
    BY <1>0, <1>7, <2>1, <2>2 DEF TrackerClose, Complete
<1>8. CASE \E ro \in Roles, r \in Ranks : Rank(ro, r)
  <2> SUFFICES ASSUME NEW ro \in Roles, NEW r \in Ranks, Rank(ro, r)
               PROVE  Complete(tracker)'
    BY <1>8
  <2>1. UNCHANGED <<tracker, launches, data>>
    BY DEF Rank, Rotate, OpenShard, CloseShard, Return, disk
  <2>2. t \in Steps
    BY <1>1, <2>1
  <2>3. CASE Rotate(ro, r)
    <3> DEFINE p == previous_saved_paths[ro][r]
               doomed == {p[i] : i \in 1..KeepStart(p)}
    <3>1. p \in Seq(Steps) /\ Len(p) \in Nat
      BY DEF TypeInv, TypeOK
    <3>2. KeepStart(p) \in Int /\ (KeepStart(p) > 0 => KeepStart(p) <= Len(p) - 1)
      BY <3>1, KeepStartBound
    <3>3. \A i \in 1..KeepStart(p) : i \in 1..(Len(p) - 1)
      BY <3>1, <3>2
    <3>4. pc = ro /\ wpc[ro][r] = "called"
      BY <2>3 DEF Rotate, TypeInv, CallInv, Saving
    <3>5. Avoids(p, tracker)
      BY <3>4 DEF PathsInv, PathsOK, Saving, Active, DriverStates, Roles
    <3>6. t \notin doomed
      BY <3>3, <3>5 DEF Avoids
    <3>7. \A x \in Roles, q \in Ranks : shards'[x][t][q] = shards[x][t][q]
      BY <2>2, <2>3, <3>6 DEF Rotate, TypeInv, TypeOK
    <3> QED
      BY <1>2, <2>1, <3>7
  <2>4. CASE OpenShard(ro, r) \/ CloseShard(ro, r)
    <3>1. pc \in Active
      BY <2>4 DEF OpenShard, CloseShard, TypeInv, CallInv, Saving, Active, DriverStates, Roles
    <3>2. t # global_steps /\ global_steps \in Steps
      BY <1>0, <2>2, <3>1, StepsAssumption DEF Steps
    <3>3. \/ shards' = [shards EXCEPT ![ro][global_steps][r] = Torn]
          \/ shards' = [shards EXCEPT ![ro][global_steps][r] = launches]
      BY <2>4 DEF OpenShard, CloseShard
    <3>4. shards \in [Roles -> [Steps -> [Ranks -> Content]]]
      BY DEF TypeInv, TypeOK
    <3>5. \A x \in Roles, q \in Ranks : shards'[x][t][q] = shards[x][t][q]
      BY ZenonT(90), <2>2, <3>2, <3>3, <3>4
    <3> QED
      BY <1>2, <2>1, <3>5
  <2>5. CASE Return(ro, r)
    BY <1>2, <2>1, <2>5 DEF Return, disk
  <2> QED
    BY <2>3, <2>4, <2>5 DEF Rank
<1> QED
  BY <1>3, <1>4, <1>5, <1>6, <1>7, <1>8
     DEF Next, Driver, LoadFromScratch, LoadResume, LoadFails, TrainOnly, TrainAndSave,
         ActorSaved, CriticSaved, vars, disk

\* Unless max_ckpt_to_keep is 1, and whatever is killed and restarted in
\* whatever order, a tracker that can be read names a checkpoint whose shards
\* and data.pt are all there, whole and written by one launch.
THEOREM TrackerAlwaysComplete == ASSUME MaxKeep # 1 PROVE Spec => []TrackerComplete
<1>1. Init => IInv
  BY InitIInv
<1>2. IInv /\ [Next]_vars => IInv'
  BY StepType, StepPaths, StepSave, StepTracker DEF IInv
<1>3. IInv => TrackerComplete
  BY DEF IInv
<1> QED
  BY <1>1, <1>2, <1>3, PTL DEF Spec

-----------------------------------------------------------------------------
\* No file is of a launch to come.
LaunchBound == \A ro \in Roles, s \in Steps, r \in Ranks : shards[ro][s][r] <= launches

\* The two barriers of save_checkpoint.
BarrierInv == \A ro \in Roles, q \in Ranks, r \in Ranks :
    /\ wpc[ro][q] \in {"writing", "written"} => wpc[ro][r] # "called"
    /\ wpc[ro][q] = "returned" => wpc[ro][r] \in {"written", "returned"}
    /\ wpc[ro][q] # "idle" => wpc[ro][r] # "idle"

\* The step a rank is saving: after its rotation, before it records the path.
InSave == {"rotated", "writing", "written"}
Current(ro, r) == IF wpc[ro][r] \in InSave THEN {global_steps} ELSE {}
Recorded(p) == {p[i] : i \in 1..Len(p)}

\* Every rank by itself remembers all that its launch has on disk.
KeptOK(ro, r) ==
    LET p == previous_saved_paths[ro][r]
    IN  /\ Len(p) <= MaxKeep
        /\ wpc[ro][r] \in InSave => Len(p) < MaxKeep
        /\ KeptBy(ro, launches) \subseteq Recorded(p) \cup Current(ro, r)
KeptInv == MaxKeep > 0 => \A ro \in Roles, r \in Ranks : KeptOK(ro, r)

\* The launches before have left no more than they kept.
PastInv == MaxKeep > 0 =>
    \A ro \in Roles, l \in 1..MaxLaunches :
        l # launches => Cardinality(KeptBy(ro, l)) <= MaxKeep

KeepInv == TypeInv /\ LaunchBound /\ BarrierInv /\ KeptInv /\ PastInv

LEMMA RecordedCount ==
    ASSUME NEW T, NEW p \in Seq(T)
    PROVE  IsFiniteSet(Recorded(p)) /\ Cardinality(Recorded(p)) <= Len(p)
<1> DEFINE f == [i \in 1..Len(p) |-> p[i]]
<1>1. Len(p) \in Nat
  OBVIOUS
<1>2. IsFiniteSet(1..Len(p)) /\ Cardinality(1..Len(p)) = Len(p)
  BY SMTT(30), <1>1, FS_Interval
<1>3. f \in Surjection(1..Len(p), Recorded(p))
  BY DEF Surjection, Recorded
<1> QED
  BY <1>2, <1>3, FS_Surjection

LEMMA Suffix ==
    ASSUME NEW T, NEW p \in Seq(T), NEW n \in 0..Len(p)
    PROVE  LET q == SubSeq(p, n + 1, Len(p))
           IN  Len(q) = Len(p) - n /\ \A i \in 1..(Len(p) - n) : q[i] = p[i + n]
BY SubSeqProperties, Len(p) \in Nat

LEMMA FiniteKept == \A ro, l : IsFiniteSet(KeptBy(ro, l))
<1>1. IsFiniteSet(Steps)
  BY StepsAssumption, FS_Interval DEF Steps
<1> QED
  BY <1>1, FS_Subset DEF KeptBy

LEMMA KeptNow ==
    ASSUME TypeInv, KeptInv, MaxKeep > 0, NEW ro \in Roles
    PROVE  Cardinality(KeptBy(ro, launches)) <= MaxKeep
<1>1. PICK r \in Ranks : TRUE
  BY RanksAssumption
<1> DEFINE p == previous_saved_paths[ro][r]
           R == Recorded(p)
           C == Current(ro, r)
           K == KeptBy(ro, launches)
<1>2. p \in Seq(Steps)
  BY DEF TypeInv, TypeOK
<1>3. IsFiniteSet(R) /\ Cardinality(R) <= Len(p) /\ Cardinality(R) \in Nat /\ Len(p) \in Nat
  BY <1>2, RecordedCount, FS_CardinalityType
<1>4. Len(p) <= MaxKeep /\ (wpc[ro][r] \in InSave => Len(p) < MaxKeep) /\ K \subseteq R \cup C
  BY DEF KeptInv, KeptOK
<1>5. MaxKeep \in Nat
  BY StepsAssumption
<1>6. CASE wpc[ro][r] \in InSave
  <2>1. C = {global_steps}
    BY <1>6 DEF Current
  <2> HIDE DEF R, C, K, p
  <2>2. IsFiniteSet(R \cup {global_steps}) /\ Cardinality(R \cup {global_steps}) <= Cardinality(R) + 1
    <3>1. Cardinality(R \cup {global_steps}) \in {Cardinality(R), Cardinality(R) + 1}
      BY <1>3, FS_AddElement
    <3> QED
      BY <1>3, <3>1, FS_AddElement
  <2>3. Cardinality(K) <= Cardinality(R \cup {global_steps}) /\ Cardinality(K) \in Nat
        /\ Cardinality(R \cup {global_steps}) \in Nat
    BY <1>4, <2>1, <2>2, FS_Subset, FS_CardinalityType
  <2> QED
    BY <1>3, <1>4, <1>5, <1>6, <2>2, <2>3 DEF K
<1>7. CASE wpc[ro][r] \notin InSave
  <2>1. C = {}
    BY <1>7 DEF Current
  <2> HIDE DEF R, C, K, p
  <2>2. Cardinality(K) <= Cardinality(R) /\ Cardinality(K) \in Nat
    BY <1>3, <1>4, <2>1, FS_Subset, FS_CardinalityType
  <2> QED
    BY <1>3, <1>4, <1>5, <2>2 DEF K
<1> QED
  BY <1>6, <1>7

LEMMA InitKeep == Init => KeepInv
<1> SUFFICES ASSUME Init PROVE KeepInv
  OBVIOUS
<1> USE StepsAssumption DEF Init, Everywhere
<1>1. TypeInv
  BY InitType
<1>2. LaunchBound /\ BarrierInv
  BY DEF LaunchBound, BarrierInv, Absent
<1>3. \A ro \in Roles, l \in 1..MaxLaunches : KeptBy(ro, l) = {}
  BY DEF KeptBy, Absent
<1>4. KeptInv
  <2> SUFFICES ASSUME MaxKeep > 0, NEW ro \in Roles, NEW r \in Ranks
               PROVE  KeptOK(ro, r)
    BY DEF KeptInv
  <2>1. KeptBy(ro, launches) = {}
    BY <1>3
  <2>2. previous_saved_paths[ro][r] = <<>> /\ wpc[ro][r] = "idle"
    OBVIOUS
  <2> QED
    BY <2>1, <2>2 DEF KeptOK, InSave
<1>5. PastInv
  <2>1. Cardinality({}) = 0
    BY FS_EmptySet
  <2>2. \A ro \in Roles, l \in 1..MaxLaunches : Cardinality(KeptBy(ro, l)) = 0
    BY <1>3, <2>1
  <2> QED
    BY <2>2 DEF PastInv
<1> QED
  BY <1>1, <1>2, <1>4, <1>5 DEF KeepInv

\* What a step does to the shards: files go, or are of the current launch.
LEMMA StepShards ==
    ASSUME TypeInv, [Next]_vars
    PROVE  /\ launches' \in {launches, launches + 1}
           /\ \A ro \in Roles, s \in Steps, r \in Ranks :
                 shards'[ro][s][r] \in {shards[ro][s][r], Absent, Torn, launches}
           /\ launches' # launches => shards' = shards
<1> USE DEF TypeInv, TypeOK
<1>1. CASE \E ro \in Roles, r \in Ranks : Rank(ro, r)
  <2> SUFFICES ASSUME NEW ro \in Roles, NEW r \in Ranks, Rank(ro, r)
               PROVE  /\ launches' = launches
                      /\ \A x \in Roles, s \in Steps, q \in Ranks :
                            shards'[x][s][q] \in {shards[x][s][q], Absent, Torn, launches}
    BY <1>1
  <2>1. CASE Rotate(ro, r)
    BY <2>1 DEF Rotate
  <2>2. CASE OpenShard(ro, r)
    BY <2>2 DEF OpenShard
  <2>3. CASE CloseShard(ro, r)
    BY <2>3 DEF CloseShard
  <2>4. CASE Return(ro, r)
    BY <2>4 DEF Return, disk
  <2> QED
    BY <2>1, <2>2, <2>3, <2>4 DEF Rank
<1>2. CASE Relaunch
  BY <1>2 DEF Relaunch, disk
<1>3. CASE Driver
  BY <1>3 DEF Driver, LoadFromScratch, LoadResume, LoadFails, TrainOnly, TrainAndSave,
              ActorSaved, CriticSaved, DataOpen, DataClose, TrackerOpen, TrackerClose, disk
<1>4. CASE UNCHANGED vars
  BY <1>4 DEF vars
<1> QED
  BY <1>1, <1>2, <1>3, <1>4 DEF Next

LEMMA StepLaunch ==
    ASSUME TypeInv, LaunchBound, [Next]_vars
    PROVE  LaunchBound'
<1> SUFFICES ASSUME NEW ro \in Roles, NEW s \in Steps, NEW r \in Ranks
             PROVE  shards'[ro][s][r] <= launches'
  BY DEF LaunchBound
<1>1. /\ shards'[ro][s][r] \in {shards[ro][s][r], Absent, Torn, launches}
      /\ launches' \in {launches, launches + 1}
  BY StepShards
<1>2. shards[ro][s][r] <= launches /\ shards[ro][s][r] \in Int /\ launches \in Nat
  BY StepsAssumption DEF LaunchBound, TypeInv, TypeOK, Content
<1> QED
  BY <1>1, <1>2 DEF Absent, Torn

LEMMA StepBarrier ==
    ASSUME TypeInv, BarrierInv, [Next]_vars
    PROVE  BarrierInv'
<1> USE DEF BarrierInv, TypeInv, TypeOK
<1>1. CASE \E ro \in Roles, r \in Ranks : Rank(ro, r)
  <2> SUFFICES ASSUME NEW ro \in Roles, NEW r \in Ranks, Rank(ro, r)
               PROVE  BarrierInv'
    BY <1>1
  <2>1. CASE Rotate(ro, r)
    BY <2>1 DEF Rotate, Goto
  <2>2. CASE OpenShard(ro, r)
    BY <2>2 DEF OpenShard, Goto
  <2>3. CASE CloseShard(ro, r)
    BY <2>3 DEF CloseShard, Goto
  <2>4. CASE Return(ro, r)
    BY <2>4 DEF Return, Goto
  <2> QED
    BY <2>1, <2>2, <2>3, <2>4 DEF Rank
<1>2. CASE Relaunch
  BY <1>2 DEF Relaunch, Everywhere
<1>3. CASE Driver
  BY <1>3 DEF Driver, LoadFromScratch, LoadResume, LoadFails, TrainOnly, TrainAndSave, Call,
              ActorSaved, CriticSaved, DataOpen, DataClose, TrackerOpen, TrackerClose
<1>4. CASE UNCHANGED vars
  BY <1>4 DEF vars
<1> QED
  BY <1>1, <1>2, <1>3, <1>4 DEF Next

LEMMA StepPast ==
    ASSUME TypeInv, KeptInv, PastInv, [Next]_vars
    PROVE  PastInv'
<1> SUFFICES ASSUME MaxKeep > 0, NEW ro \in Roles, NEW l \in 1..MaxLaunches, l # launches'
             PROVE  Cardinality(KeptBy(ro, l)') <= MaxKeep
  BY DEF PastInv
<1>1. KeptBy(ro, l)' \subseteq KeptBy(ro, l)
  BY StepShards DEF KeptBy, Absent, Torn
<1>2. Cardinality(KeptBy(ro, l)) <= MaxKeep
  BY KeptNow DEF PastInv
<1>3. IsFiniteSet(KeptBy(ro, l))
  BY FiniteKept
<1> DEFINE K == KeptBy(ro, l)
           L == KeptBy(ro, l)'
<1> HIDE DEF K, L
<1>4. Cardinality(L) <= Cardinality(K) /\ Cardinality(L) \in Nat /\ Cardinality(K) \in Nat
  BY <1>1, <1>3, FS_Subset, FS_CardinalityType DEF K, L
<1> QED
  BY <1>2, <1>4, StepsAssumption DEF K, L

LEMMA StepKept ==
    ASSUME TypeInv, LaunchBound, BarrierInv, KeptInv, [Next]_vars
    PROVE  KeptInv'
<1> SUFFICES ASSUME MaxKeep > 0, NEW ro \in Roles, NEW r \in Ranks
             PROVE  KeptOK(ro, r)'
  BY DEF KeptInv
<1> DEFINE p == previous_saved_paths[ro][r]
<1> USE DEF InSave
<1>0. /\ KeptOK(ro, r) /\ p \in Seq(Steps) /\ Len(p) \in Nat
      /\ MaxKeep \in Nat /\ launches \in Nat \ {0}
      /\ wpc[ro][r] \in Saving => pc = ro
      /\ ro \in {"actor", "critic"}
  BY StepsAssumption DEF KeptInv, TypeInv, TypeOK, CallInv, Roles
<1>1. ASSUME UNCHANGED <<shards, launches, p, wpc[ro][r]>>,
             wpc[ro][r] \in InSave => global_steps' = global_steps
      PROVE  KeptOK(ro, r)'
  BY <1>0, <1>1 DEF KeptOK, KeptBy, Current, Recorded
<1>2. CASE LoadFromScratch \/ LoadResume \/ LoadFails \/ TrainOnly
  BY <1>0, <1>1, <1>2 DEF LoadFromScratch, LoadResume, LoadFails, TrainOnly, disk, Saving
<1>3. CASE TrainAndSave \/ ActorSaved
  <2>1. UNCHANGED <<shards, launches, p, global_steps>>
    BY <1>3 DEF TrainAndSave, ActorSaved, disk
  <2>2. wpc[ro][r] \notin InSave \/ wpc'[ro][r] = wpc[ro][r]
    BY <1>0, <1>3 DEF TrainAndSave, ActorSaved, AllReturned, Call, Saving, TypeInv, TypeOK
  <2>3. wpc'[ro][r] \in {"called", wpc[ro][r]}
    BY <1>3 DEF TrainAndSave, ActorSaved, Call, TypeInv, TypeOK
  <2> QED
    BY <1>0, <2>1, <2>2, <2>3 DEF KeptOK, KeptBy, Current, Recorded
<1>4. CASE CriticSaved \/ DataOpen \/ DataClose \/ TrackerOpen \/ TrackerClose
  BY <1>0, <1>1, <1>4
     DEF CriticSaved, DataOpen, DataClose, TrackerOpen, TrackerClose, disk, Saving
<1>5. CASE \E x \in Roles, q \in Ranks : Rank(x, q)
  <2> SUFFICES ASSUME NEW x \in Roles, NEW q \in Ranks, Rank(x, q)
               PROVE  KeptOK(ro, r)'
    BY <1>5
  <2>1. UNCHANGED <<launches, global_steps>>
    BY DEF Rank, Rotate, OpenShard, CloseShard, Return
  <2>2. \A s \in Steps, y \in Ranks :
            \/ shards'[ro][s][y] \in {shards[ro][s][y], Absent, Torn}
            \/ x = ro /\ y = q /\ s = global_steps /\ CloseShard(x, q)
    <3>1. CASE Rotate(x, q)
      BY <3>1 DEF Rotate, TypeInv, TypeOK
    <3>2. CASE OpenShard(x, q)
      BY <3>2 DEF OpenShard, TypeInv, TypeOK
    <3>3. CASE CloseShard(x, q)
      BY <3>3 DEF CloseShard, TypeInv, TypeOK
    <3>4. CASE Return(x, q)
      BY <3>4 DEF Return, disk
    <3> QED
      BY <3>1, <3>2, <3>3, <3>4 DEF Rank
  <2>3. ASSUME ~(x = ro /\ CloseShard(x, q))
        PROVE  KeptBy(ro, launches)' \subseteq KeptBy(ro, launches)
    BY <1>0, <2>1, <2>2, <2>3 DEF KeptBy, Absent, Torn
  <2>4. CASE ~CloseShard(x, q) /\ (x # ro \/ q # r)
    <3>1. UNCHANGED <<p, wpc[ro][r]>>
      BY <2>4 DEF Rank, Rotate, OpenShard, Return, Goto, TypeInv, TypeOK
    <3> QED
      BY <1>0, <2>1, <2>3, <2>4, <3>1 DEF KeptOK, Current, Recorded
  <2>5. CASE CloseShard(x, q)
    <3>1. UNCHANGED p /\ wpc[x][q] = "writing"
          /\ wpc'[ro][r] = IF x = ro /\ q = r THEN "written" ELSE wpc[ro][r]
      BY <2>5 DEF CloseShard, Goto, TypeInv, TypeOK
    <3>2. Current(ro, r)' = Current(ro, r)
      BY <2>1, <3>1 DEF Current
    <3>3. CASE x # ro
      BY <1>0, <2>1, <2>3, <3>1, <3>2, <3>3 DEF KeptOK, Recorded
    <3>4. CASE x = ro
      <4>1. wpc[ro][r] \in InSave
        <5>1. wpc[ro][r] \notin {"called", "returned"}
          BY <3>1, <3>4 DEF BarrierInv
        <5>2. wpc[ro][r] # "idle"
          BY <3>1, <3>4 DEF BarrierInv
        <5> QED
          BY <5>1, <5>2 DEF TypeInv, TypeOK, WorkerStates
      <4>2. KeptBy(ro, launches)' \subseteq KeptBy(ro, launches) \cup {global_steps}
        BY <1>0, <2>1, <2>2 DEF KeptBy, Absent, Torn
      <4> QED
        BY <1>0, <2>1, <3>1, <3>2, <4>1, <4>2 DEF KeptOK, Recorded, Current
    <3> QED
      BY <3>3, <3>4
  <2>6. CASE x = ro /\ q = r /\ Rotate(ro, r)
    <3> DEFINE n == KeepStart(p)
               doomed == {p[i] : i \in 1..n}
    <3>1. n \in 0..Len(p) /\ Len(p) - n < MaxKeep
      <4> DEFINE m == Len(p)
      <4>1. m \in Nat /\ m <= MaxKeep /\ MaxKeep \in Nat
        BY <1>0 DEF KeptOK
      <4>2. n = IF MaxKeep > 0 /\ m >= MaxKeep THEN m - MaxKeep + 1 ELSE 0
        BY DEF KeepStart
      <4> HIDE DEF m, n
      <4>3. n \in 0..m /\ m - n < MaxKeep
        BY <4>1, <4>2
      <4> QED
        BY <4>3 DEF m
    <3>2. p' = SubSeq(p, n + 1, Len(p)) /\ wpc'[ro][r] = "rotated" /\ wpc[ro][r] = "called"
      BY <2>6 DEF Rotate, Goto, TypeInv, TypeOK
    <3>3. \A s \in doomed \cap Steps, y \in Ranks : shards'[ro][s][y] = Absent
      BY <2>6 DEF Rotate, TypeInv, TypeOK
    <3>4. KeptBy(ro, launches)' \subseteq KeptBy(ro, launches) \ doomed
      <4>1. KeptBy(ro, launches)' \subseteq KeptBy(ro, launches)
        BY <2>3, <2>6, <3>2 DEF CloseShard
      <4> HIDE DEF doomed
      <4>2. \A s \in Steps : s \in doomed => s \notin KeptBy(ro, launches)'
        BY <1>0, <2>1, <3>3 DEF KeptBy, Absent
      <4>3. KeptBy(ro, launches) \subseteq Steps
        BY DEF KeptBy
      <4> QED
        BY <4>1, <4>2, <4>3
    <3> HIDE DEF n
    <3>5. Len(p') = Len(p) - n /\ \A i \in 1..(Len(p) - n) : p'[i] = p[i + n]
      BY <1>0, <3>1, <3>2, Suffix
    <3>6. Recorded(p) \ doomed \subseteq Recorded(p')
      <4> SUFFICES ASSUME NEW i \in 1..Len(p), p[i] \notin doomed
                   PROVE  p[i] \in Recorded(p')
        BY DEF Recorded
      <4>1. i > n
        BY <1>0, <3>1
      <4>2. i - n \in 1..Len(p') /\ p'[i - n] = p[i]
        BY <1>0, <3>1, <3>5, <4>1
      <4> QED
        BY <4>2 DEF Recorded
    <3>7. KeptBy(ro, launches) \subseteq Recorded(p)
      BY <1>0, <3>2 DEF KeptOK, Current
    <3> HIDE DEF doomed
    <3>8. Len(p') < MaxKeep
      BY <1>0, <3>1, <3>5
    <3>9. KeptBy(ro, launches)' \subseteq Recorded(p')
      BY <3>4, <3>6, <3>7
    <3> QED
      BY <1>0, <3>5, <3>1, <3>8, <3>9 DEF KeptOK
  <2>7. CASE x = ro /\ q = r /\ OpenShard(ro, r)
    <3>1. UNCHANGED p /\ wpc[ro][r] = "rotated" /\ wpc'[ro][r] = "writing"
      BY <2>7 DEF OpenShard, Goto, TypeInv, TypeOK
    <3> QED
      BY <1>0, <2>1, <2>3, <2>7, <3>1 DEF KeptOK, Current, Recorded, OpenShard, CloseShard
  <2>8. CASE x = ro /\ q = r /\ Return(ro, r)
    <3>1. p' = Append(p, global_steps) /\ wpc[ro][r] = "written" /\ wpc'[ro][r] = "returned"
      BY <2>8 DEF Return, Goto, TypeInv, TypeOK
    <3>2. /\ Len(p') = Len(p) + 1 /\ p'[Len(p) + 1] = global_steps
          /\ \A i \in 1..Len(p) : p'[i] = p[i]
      BY <1>0, <3>1
    <3>3. Recorded(p) \cup {global_steps} \subseteq Recorded(p')
      <4>1. Len(p) + 1 \in 1..Len(p') /\ \A i \in 1..Len(p) : i \in 1..Len(p')
        BY <1>0, <3>2
      <4> QED
        BY <3>2, <4>1 DEF Recorded
    <3>4. KeptBy(ro, launches)' \subseteq KeptBy(ro, launches)
      BY <2>3, <2>8, <3>1 DEF CloseShard
    <3> QED
      BY <1>0, <3>1, <3>2, <3>3, <3>4 DEF KeptOK, Current
  <2> QED
    BY <2>4, <2>5, <2>6, <2>7, <2>8 DEF Rank
<1>6. CASE Relaunch
  <2>1. p' = <<>> /\ wpc'[ro][r] = "idle" /\ launches' = launches + 1 /\ shards' = shards
    BY <1>6 DEF Relaunch, Everywhere, disk
  <2>2. \A s \in Steps, y \in Ranks : shards'[ro][s][y] # launches'
    <3> TAKE s \in Steps, y \in Ranks
    <3>1. shards[ro][s][y] <= launches /\ shards[ro][s][y] \in Int
      BY StepsAssumption DEF LaunchBound, TypeInv, TypeOK, Content
    <3> QED
      BY <1>0, <2>1, <3>1
  <2>3. KeptBy(ro, launches)' = {}
    BY <2>2 DEF KeptBy
  <2> QED
    BY <1>0, <2>1, <2>3 DEF KeptOK
<1>7. CASE UNCHANGED vars
  BY <1>1, <1>7 DEF vars
<1> QED
  BY <1>2, <1>3, <1>4, <1>5, <1>6, <1>7 DEF Next, Driver

LEMMA KeepInvKeeps == KeepInv => LaunchKeepsAtMost
BY KeptNow DEF KeepInv, PastInv, LaunchKeepsAtMost

\* For every number of ranks and launches, and whatever was killed, one launch
\* never leaves its shards in more than max_ckpt_to_keep folders of a role: each
\* rank remembers by itself all that its launch has on disk, and the barriers
\* keep a rank that has recorded the new path from meeting one yet to write it.
THEOREM LaunchAlwaysKeepsAtMost == Spec => []LaunchKeepsAtMost
<1>1. Init => KeepInv
  BY InitKeep
<1>2. KeepInv /\ [Next]_vars => KeepInv'
  BY StepType, StepLaunch, StepBarrier, StepKept, StepPast DEF KeepInv
<1>3. KeepInv => LaunchKeepsAtMost
  BY KeepInvKeeps
<1> QED
  BY <1>1, <1>2, <1>3, PTL DEF Spec
=============================================================================
