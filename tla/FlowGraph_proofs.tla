-------------------------- MODULE FlowGraph_proofs --------------------------
(***************************************************************************)
(* Proofs about FlowGraph, for every environment, every policy, every      *)
(* decomposition of the task and whatever the verifier says.               *)
(***************************************************************************)
EXTENDS FlowGraph, DataLemmas, SequenceTheorems

-----------------------------------------------------------------------------
(* The episode *)

Words == {ObsWords[p] : p \in Places} \cup {ActionWords[a] : a \in Actions}
         \cup {{}, {"nothing", "happens"}, {"success"}}

Observations == [words : Words, noop : BOOLEAN, success : BOOLEAN]

StepRecords ==
    [accepted : BOOLEAN, format : BOOLEAN,
     action : Actions \cup {NoAction}, words : Words,
     anchor : Observations, next : Observations,
     lists : BOOLEAN, admissible : SUBSET Actions, won : BOOLEAN, reward : Int]

EpisodeInv ==
    /\ manager \in Managers /\ place \in Places /\ seen \in Observations
    /\ records \in Seq(StepRecords) /\ Len(records) <= MaxSteps
    /\ phase \in {"acting", "gathered", "built", "verified", "credited"}
    /\ phase # "acting" => records # <<>>
    /\ InPlace => \A i \in DOMAIN records : ~records[i].format

LEMMA SeenIs == \A p \in Places : Seen(p) \in Observations
  BY DEF Seen, Observations, Words

LEMMA FeedbackIs == Feedback \in Observations /\ SuccessObs \in Observations
  BY DEF Feedback, Noop, Silent, SuccessObs, Observations, Words

\* A step leaves a record; a projection that rewrites the answer leaves no tags.
LEMMA RecordIs ==
    ASSUME manager \in Managers, seen \in Observations,
           NEW text \in Responses[manager], NEW to \in Places, NEW obs \in Observations
    PROVE  /\ Record(text, to, obs) \in StepRecords
           /\ InPlace => ~Record(text, to, obs).format
<1>1. text \in Texts
    BY WorldAssumption
<1>2. Admissible[to] \in SUBSET Actions /\ Reward[to] \in Int
    BY WorldAssumption
<1>3. RecordedText(text) \in Texts /\ (InPlace => ~RecordedText(text).tags)
    BY <1>1 DEF RecordedText, Projected, Texts
<1>4. \A t \in Texts :
          /\ ValidFormat(t) \in BOOLEAN /\ Accepted(t) \in BOOLEAN
          /\ ParsedAction(t) \in Actions \cup {NoAction} /\ ParsedWords(t) \in Words
    BY DEF ValidFormat, Accepted, ParsedAction, ParsedWords, Words, Texts
<1>5. obs.noop \in BOOLEAN /\ (to \in Won) \in BOOLEAN /\ ListsAdmissible \in BOOLEAN
    BY DEF Observations, ListsAdmissible
<1>6. InPlace => ~ValidFormat(RecordedText(text))
    BY <1>3 DEF ValidFormat
<1>7. (IF to = place THEN 0 ELSE Reward[to]) \in Int
    BY <1>2
<1> HIDE DEF Observations, Words, Actions, Texts
<1> QED
    BY <1>1, <1>2, <1>3, <1>4, <1>5, <1>6, <1>7 DEF Record, StepRecords

LEMMA EpisodeInit == Init => EpisodeInv
  BY WorldAssumption, SeenIs DEF Init, EpisodeInv

LEMMA EpisodeStep == EpisodeInv /\ [Next]_vars => EpisodeInv'
<1> SUFFICES ASSUME EpisodeInv, [Next]_vars
             PROVE  EpisodeInv'
    OBVIOUS
<1> USE DEF EpisodeInv
<1>1. CASE Act
  <2>1. PICK text \in Responses[manager] :
            LET known == Names(text) /\ text.action \in Admissible[place]
                to == IF known THEN Result[<<place, text.action>>] ELSE place
                obs == IF known THEN Seen(to) ELSE Feedback
            IN  /\ place' = to
                /\ seen' = obs
                /\ records' = Append(records, Record(text, to, obs))
      BY <1>1 DEF Act
  <2>2. text.action \in Actions
      BY WorldAssumption DEF Texts
  <2>3. place' \in Places /\ seen' \in Observations
      BY <2>1, <2>2, WorldAssumption, SeenIs, FeedbackIs
  <2>4. records' = Append(records, Record(text, place', seen'))
      BY <2>1
  <2>5. /\ Record(text, place', seen') \in StepRecords
        /\ InPlace => ~Record(text, place', seen').format
      BY <2>3, RecordIs
  <2>6. Len(records) < MaxSteps
      BY <1>1, WorldAssumption DEF Act, Over
  <2>7. records' \in Seq(StepRecords) /\ Len(records') <= MaxSteps
      BY <2>4, <2>5, <2>6, WorldAssumption
  <2>8. InPlace' => \A i \in DOMAIN records' : ~records'[i].format
    <3> SUFFICES ASSUME InPlace', NEW i \in DOMAIN records'
                 PROVE  ~records'[i].format
        OBVIOUS
    <3>1. InPlace
        BY <1>1 DEF Act, InPlace
    <3>2. CASE i \in DOMAIN records
        BY <2>4, <3>1, <3>2
    <3>3. CASE i \notin DOMAIN records
      <4>1. i = Len(records) + 1
          BY <2>4, <3>3
      <4> QED
          BY <2>4, <2>5, <3>1, <4>1
    <3> QED
        BY <3>2, <3>3
  <2> QED
      BY <1>1, <2>3, <2>7, <2>8 DEF Act
<1>2. CASE Gather
  <2>1. records # <<>> /\ phase = "acting" /\ phase' = "gathered" /\ UNCHANGED <<manager, place, seen>>
      BY <1>2 DEF Gather, Over
  <2>2. records' \in Seq(StepRecords) /\ Len(records') = Len(records)
    <3>1. [records EXCEPT ![Len(records)].next = SuccessObs] \in Seq(StepRecords)
      <4>1. Len(records) \in 1..Len(records)
          BY <2>1
      <4>2. records[Len(records)] \in StepRecords
          BY <4>1
      <4>3. [records[Len(records)] EXCEPT !.next = SuccessObs] \in StepRecords
          BY <4>2, FeedbackIs DEF StepRecords
      <4> QED
          BY <4>1, <4>3
    <3>2. Len([records EXCEPT ![Len(records)].next = SuccessObs]) = Len(records)
        OBVIOUS
    <3> QED
        BY <1>2, <3>1, <3>2 DEF Gather
  <2>3. records' # <<>>
      BY <2>1, <2>2
  <2>4. DOMAIN records' = DOMAIN records /\ \A i \in DOMAIN records : records'[i].format = records[i].format
    <3>1. CASE records' = records
        BY <3>1
    <3>2. CASE records' = [records EXCEPT ![Len(records)].next = SuccessObs]
      <4>1. ASSUME NEW i \in DOMAIN records
            PROVE  records'[i].format = records[i].format
        <5>1. records[i] \in StepRecords
            OBVIOUS
        <5>2. records'[i] = IF i = Len(records) THEN [records[i] EXCEPT !.next = SuccessObs] ELSE records[i]
            BY <3>2
        <5> QED
            BY <5>1, <5>2 DEF StepRecords
      <4> QED
          BY <3>2, <4>1
    <3> QED
        BY <1>2, <3>1, <3>2 DEF Gather
  <2> QED
      BY <2>1, <2>2, <2>3, <2>4 DEF InPlace
<1>3. CASE Build
    BY <1>3 DEF Build, Graph, episode, InPlace
<1>4. CASE Verify
    BY <1>4 DEF Verify, episode, InPlace
<1>5. CASE Credit
    BY <1>5 DEF Credit, episode, InPlace
<1>6. CASE UNCHANGED vars
    BY <1>6 DEF vars, episode, InPlace
<1> QED
    BY <1>1, <1>2, <1>3, <1>4, <1>5, <1>6 DEF Next

-----------------------------------------------------------------------------
(* The graph is that of the records, but for what the verifier adds *)

FlowInv ==
    /\ phase \in {"acting", "gathered"} => edges = {} /\ obligations = {} /\ checks = <<>>
    /\ phase = "built" => checks = <<>>
    /\ phase \notin {"acting", "gathered"} => obligations \in Decompositions
    /\ phase \notin {"acting", "gathered"} =>
          \E judged \in SUBSET Subtasks :
             /\ phase = "built" \/ checks \in [judged -> Checks]
             /\ edges = Graph(records, obligations) \cup
                           IF phase = "built" THEN {} ELSE CheckEdges(records, checks)
    /\ credits = IF phase = "credited" THEN [i \in DOMAIN records |-> StepCredit(Flow, i)] ELSE <<>>

LEMMA FlowInit == Init => FlowInv
  BY DEF Init, FlowInv

LEMMA FlowStep == FlowInv /\ [Next]_vars => FlowInv'
<1> SUFFICES ASSUME FlowInv, [Next]_vars
             PROVE  FlowInv'
    OBVIOUS
<1>1. CASE Act
    BY <1>1 DEF Act, FlowInv, flow
<1>2. CASE Gather
    BY <1>2 DEF Gather, FlowInv, flow
<1>3. CASE Build
    BY <1>3 DEF Build, FlowInv, episode, Subtasks
<1>4. CASE Verify
    BY <1>4 DEF Verify, FlowInv, episode, Subtasks
<1>5. CASE Credit
    BY <1>5 DEF Credit, FlowInv, episode, flow, Subtasks, Flow
<1>6. CASE UNCHANGED vars
    BY <1>6 DEF FlowInv, vars, episode, flow, Subtasks, Flow
<1> QED
    BY <1>1, <1>2, <1>3, <1>4, <1>5, <1>6 DEF Next

-----------------------------------------------------------------------------
(* No hindsight *)

\* The edges a record adds are of its step.
LEMMA EdgesOfStep ==
    ASSUME NEW r, NEW i, NEW handoffs, NEW obs, NEW e \in StepEdges(r, i, handoffs, obs)
    PROVE  e.step = i
<1>1. CASE e \in Production(r, i)
    BY <1>1 DEF Production, Edge
<1>2. ASSUME NEW c \in Consumption(r, i, handoffs)
      PROVE  c.step = i
    BY <1>2 DEF Consumption, Edge
<1>3. CASE e \in Transformation(r, i, handoffs)
    BY <1>3 DEF Transformation, Edge
<1>4. CASE e \in Discharge(r, i, obs)
    BY <1>4 DEF Discharge, Edge
<1> QED
    BY <1>1, <1>2, <1>3, <1>4 DEF StepEdges

\* The graph of the first n records is what the graph holds up to step n.
LEMMA GraphOfPrefix ==
    ASSUME NEW R, NEW recs \in Seq(R), NEW n \in 1..Len(recs), NEW obs
    PROVE  LET cut == SubSeq(recs, 1, n)
           IN  /\ Graph(cut, obs) = UpTo(Graph(recs, obs), n)
               /\ UpTo(Graph(cut, obs), n) = Graph(cut, obs)
<1> DEFINE cut == SubSeq(recs, 1, n)
           part(s, i) == StepEdges(s[i], i, Handoffs(s, i), obs)
<1>1. DOMAIN recs = 1..Len(recs) /\ DOMAIN cut = 1..n /\ \A j \in 1..n : cut[j] = recs[j]
    OBVIOUS
<1> HIDE DEF cut
<1>2. ASSUME NEW i \in 1..n
      PROVE  Handoffs(cut, i) = Handoffs(recs, i)
  <2>1. \A j \in 1..(i - 1) : cut[j] = recs[j]
      BY <1>1
  <2>2. \A a : a \in Handoffs(cut, i) <=> a \in Handoffs(recs, i)
      BY <2>1 DEF Handoffs
  <2> QED
      BY <2>2, Zenon DEF Handoffs
<1>3. ASSUME NEW i \in 1..n
      PROVE  part(cut, i) = part(recs, i)
    BY <1>1, <1>2
<1>4. \A e : e \in Graph(cut, obs) <=> \E i \in 1..n : e \in part(cut, i)
    BY <1>1 DEF Graph
<1>5. \A e : e \in Graph(recs, obs) <=> \E i \in 1..Len(recs) : e \in part(recs, i)
    BY <1>1 DEF Graph
<1>6. \A i \in 1..Len(recs) : \A e \in part(recs, i) : e.step = i
    BY EdgesOfStep
<1> HIDE DEF part
<1>7. \A e : e \in Graph(cut, obs) <=> e \in UpTo(Graph(recs, obs), n)
    BY <1>3, <1>4, <1>5, <1>6 DEF UpTo
<1>8. \A e \in Graph(cut, obs) : e.step <= n
    BY <1>3, <1>4, <1>6
<1>9. Graph(cut, obs) = UpTo(Graph(recs, obs), n)
    BY <1>7 DEF UpTo
<1>10. UpTo(Graph(cut, obs), n) = Graph(cut, obs)
    BY <1>8 DEF UpTo
<1> QED
    BY <1>9, <1>10 DEF cut

\* Without subtasks the verifier adds nothing.
LEMMA NothingAdded == ASSUME FlowInv, phase = "credited", Subtasks = {}
                      PROVE  edges = Graph(records, obligations)
<1>1. PICK judged \in SUBSET Subtasks :
          checks \in [judged -> Checks] /\ edges = Graph(records, obligations) \cup CheckEdges(records, checks)
    BY DEF FlowInv
<1>2. DOMAIN checks = {}
    BY <1>1
<1>3. CheckEdges(records, checks) = {}
    BY <1>2 DEF CheckEdges
<1> QED
    BY <1>1, <1>3

LEMMA HindsightNever == EpisodeInv /\ FlowInv => NoHindsight
<1> SUFFICES ASSUME EpisodeInv, FlowInv, Subtasks = {}, NEW i \in Steps, i < Len(records)
             PROVE  credits[i].phi = Phi(FlowOf(SubSeq(records, 1, i)), i)
    BY DEF NoHindsight
<1>1. phase = "credited" /\ credits = [k \in DOMAIN records |-> StepCredit(Flow, k)]
    BY DEF FlowInv, Steps
<1>2. i \in 1..Len(records) /\ records \in Seq(StepRecords)
    BY <1>1 DEF Steps, EpisodeInv
<1>3. credits[i].phi = Phi(Flow, i)
    BY <1>1, <1>2 DEF StepCredit
<1>4. Phi(Flow, i) = Potential(obligations, UpTo(edges, i))
    BY DEF Phi, Flow
<1>5. UpTo(edges, i) = UpTo(Graph(SubSeq(records, 1, i), obligations), i)
    BY <1>1, <1>2, NothingAdded, GraphOfPrefix
<1>6. Phi(FlowOf(SubSeq(records, 1, i)), i)
          = Potential(obligations, UpTo(Graph(SubSeq(records, 1, i), obligations), i))
    BY DEF Phi, FlowOf
<1> QED
    BY <1>3, <1>4, <1>5, <1>6

\* The potential that a step is paid for is that of the trajectory up to it, of
\* whatever length, whatever came later.
THEOREM NeverHindsight == Spec => []NoHindsight
<1>1. Init => EpisodeInv /\ FlowInv
    BY EpisodeInit, FlowInit
<1>2. EpisodeInv /\ FlowInv /\ [Next]_vars => EpisodeInv' /\ FlowInv'
    BY EpisodeStep, FlowStep
<1> QED
    BY <1>1, <1>2, HindsightNever, PTL DEF Spec

-----------------------------------------------------------------------------
(* Scores and confidences *)

LEMMA FiniteWords == \A w \in Words : IsFiniteSet(w)
<1>1. IsFiniteSet({}) /\ IsFiniteSet({"success"}) /\ IsFiniteSet({"nothing", "happens"})
  <2>1. IsFiniteSet({"nothing"} \cup {"happens"})
      BY FS_Singleton, FS_AddElement
  <2>2. {"nothing"} \cup {"happens"} = {"nothing", "happens"}
      OBVIOUS
  <2> QED
      BY <2>1, <2>2, FS_EmptySet, FS_Singleton
<1> QED
    BY <1>1, WordsAssumption DEF Words

LEMMA Division ==
    ASSUME NEW n \in Nat, NEW d \in Nat \ {0}
    PROVE  n \div d \in Nat /\ (n % d) \in Nat /\ n = d * (n \div d) + (n % d)
  OBVIOUS

\* A part of at most a whole, in thousandths.
LEMMA ShareIs ==
    ASSUME NEW part \in Nat, NEW whole \in Nat \ {0}, part <= whole
    PROVE  (Full * part) \div whole \in 0..Full
<1>1. \A k \in Nat, q \in Nat : q > Full => ~(whole * q + k <= Full * whole)
    BY DEF Full
<1>2. Full * part <= Full * whole /\ Full * part \in Nat
    BY DEF Full
<1> DEFINE n == Full * part
<1> HIDE DEF n
<1>3. n \in Nat /\ n <= Full * whole
    BY <1>2 DEF n
<1>4. n \div whole \in Nat /\ (n % whole) \in Nat /\ n = whole * (n \div whole) + (n % whole)
    BY <1>3, Division
<1>5. ~(n \div whole > Full)
    BY <1>1, <1>3, <1>4
<1> QED
    BY <1>4, <1>5 DEF n, Full

LEMMA OverlapIs == ASSUME NEW a, NEW b, IsFiniteSet(a), IsFiniteSet(b)
                   PROVE  Overlap(a, b) \in 0..Full
<1>1. CASE a = {} \/ b = {}
    BY <1>1 DEF Overlap, Full
<1>2. CASE a # {} /\ b # {}
  <2>1. /\ Cardinality(a) \in Nat \ {0} /\ Cardinality(b) \in Nat \ {0}
        /\ Cardinality(a \cap b) \in Nat
        /\ Cardinality(a \cap b) <= Cardinality(a) /\ Cardinality(a \cap b) <= Cardinality(b)
      BY <1>2, FS_EmptySet, FS_CardinalityType, FS_Intersection
  <2>2. Smaller(Cardinality(a), Cardinality(b)) \in Nat \ {0}
        /\ Cardinality(a \cap b) <= Smaller(Cardinality(a), Cardinality(b))
      BY <2>1 DEF Smaller
  <2> QED
      BY <1>2, <2>1, <2>2, ShareIs DEF Overlap
<1> QED
    BY <1>1, <1>2

Confidences == {0, 200, 300, Full}

\* What an artifact is.
IsArtifact(a, i) ==
    /\ a.step = i /\ IsFiniteSet(a.words)
    /\ a.confidence \in Confidences

\* The artifacts of every record, those of some, and those of states.
Always(r, i) ==
    {Artifact(i, "observation_text", r.anchor.words, FALSE, Full),
     Artifact(i, "visible_objects", r.anchor.words, FALSE, Full),
     Artifact(i, "env_action", r.words, TRUE, IF NodeValid(r) THEN Full ELSE 0),
     Artifact(i, "action_effect", r.next.words, TRUE, IF r.next.noop THEN 200 ELSE Full)}
Sometimes(i) ==
    {Artifact(i, "admissible_actions", {}, FALSE, Full),
     Artifact(i, "success_state", {}, TRUE, Full)}
StateArtifact(r, i, w) ==
    Artifact(i, "object_state", {w}, TRUE, IF w \in r.next.words \/ ~r.next.noop THEN Full ELSE 300)
OfStates(r, i) ==
    {StateArtifact(r, i, w) : w \in {v \in StateWords : v \in r.words \cup r.next.words}}

LEMMA ArtifactKinds ==
    ASSUME NEW r, NEW i
    PROVE  Artifacts(r, i) \subseteq Always(r, i) \cup Sometimes(i) \cup OfStates(r, i)
<1> DEFINE A == Artifact(i, "observation_text", r.anchor.words, FALSE, Full)
           B == Artifact(i, "visible_objects", r.anchor.words, FALSE, Full)
           C == Artifact(i, "env_action", r.words, TRUE, IF NodeValid(r) THEN Full ELSE 0)
           D == Artifact(i, "action_effect", r.next.words, TRUE, IF r.next.noop THEN 200 ELSE Full)
           E == Artifact(i, "admissible_actions", {}, FALSE, Full)
           G == Artifact(i, "success_state", {}, TRUE, Full)
<1>1. Always(r, i) = {A, B, C, D} /\ Sometimes(i) = {E, G}
    BY DEF Always, Sometimes
<1>2. Artifacts(r, i) = {A, B, C, D}
          \cup {E : x \in {y \in {r.lists} : y}}
          \cup OfStates(r, i)
          \cup {G : x \in {y \in {r.won \/ r.next.success} : y}}
    BY Zenon DEF Artifacts, OfStates, StateArtifact
<1> HIDE DEF A, B, C, D, E, G
<1> QED
    BY <1>1, <1>2

LEMMA ArtifactsAre == ASSUME NEW r \in StepRecords, NEW i
                      PROVE  \A a \in Artifacts(r, i) : IsArtifact(a, i)
<1>1. r.anchor.words \in Words /\ r.next.words \in Words /\ r.words \in Words
    BY DEF StepRecords, Observations
<1>2. \A w : IsFiniteSet({w})
    BY FS_Singleton
<1>3. IsFiniteSet({})
    BY FS_EmptySet
<1>4. IsFiniteSet(r.anchor.words) /\ IsFiniteSet(r.next.words) /\ IsFiniteSet(r.words)
    BY <1>1, FiniteWords
<1>5. ASSUME NEW kind, NEW words, NEW produced, NEW confidence \in Confidences,
             IsFiniteSet(words)
      PROVE  IsArtifact(Artifact(i, kind, words, produced, confidence), i)
    BY <1>5 DEF Artifact, IsArtifact
<1>6. Full \in Confidences
    BY DEF Confidences
<1> HIDE DEF Artifact, IsArtifact
<1>7. \A a \in Always(r, i) : IsArtifact(a, i)
  <2> DEFINE ofAction == IF NodeValid(r) THEN Full ELSE 0
             ofEffect == IF r.next.noop THEN 200 ELSE Full
  <2>1. ofAction \in Confidences /\ ofEffect \in Confidences
      BY DEF Confidences
  <2> HIDE DEF ofAction, ofEffect
  <2>2. IsArtifact(Artifact(i, "observation_text", r.anchor.words, FALSE, Full), i)
        /\ IsArtifact(Artifact(i, "visible_objects", r.anchor.words, FALSE, Full), i)
      BY <1>4, <1>5, <1>6
  <2>3. IsArtifact(Artifact(i, "env_action", r.words, TRUE, ofAction), i)
      BY <1>4, <1>5, <2>1
  <2>4. IsArtifact(Artifact(i, "action_effect", r.next.words, TRUE, ofEffect), i)
      BY <1>4, <1>5, <2>1
  <2> QED
      BY <2>2, <2>3, <2>4 DEF Always, ofAction, ofEffect
<1>8. \A a \in Sometimes(i) : IsArtifact(a, i)
    BY <1>3, <1>5, <1>6 DEF Sometimes
<1>9. \A a \in OfStates(r, i) : IsArtifact(a, i)
  <2> TAKE a \in OfStates(r, i)
  <2>1. PICK w : a = Artifact(i, "object_state", {w}, TRUE,
                              IF w \in r.next.words \/ ~r.next.noop THEN Full ELSE 300)
      BY DEF OfStates, StateArtifact
  <2> DEFINE confidence == IF w \in r.next.words \/ ~r.next.noop THEN Full ELSE 300
  <2>2. confidence \in Confidences
      BY DEF Confidences
  <2> HIDE DEF confidence
  <2>3. IsArtifact(Artifact(i, "object_state", {w}, TRUE, confidence), i)
    <3>1. IsFiniteSet({w})
        BY <1>2
    <3> QED
        BY <1>5, <2>2, <3>1
  <2> QED
      BY <2>1, <2>3 DEF confidence
<1> QED
    BY <1>7, <1>8, <1>9, ArtifactKinds

-----------------------------------------------------------------------------
(* What a step did to the environment is no waste when the next is valid *)

LEMMA HandoffIs ==
    ASSUME NEW r \in StepRecords, NEW i \in Nat, NEW a, IsFiniteSet(a.words)
    PROVE  /\ HandoffScore(r, a, i) \in 0..Full
           /\ NodeValid(r) /\ a.step = i - 1 => HandoffScore(r, a, i) >= 500
<1> DEFINE x == Overlap(a.words, r.anchor.words)
           y == Overlap(a.words, r.words)
           z == IF a.step = i - 1 THEN 500 ELSE 0
<1>1. IsFiniteSet(r.anchor.words) /\ IsFiniteSet(r.words)
    BY FiniteWords DEF StepRecords, Observations
<1>2. x \in 0..Full /\ y \in 0..Full /\ z \in 0..Full
  <2>1. x \in 0..Full /\ y \in 0..Full
      BY <1>1, OverlapIs
  <2>2. z \in 0..Full
      BY DEF Full
  <2> QED
      BY <2>1, <2>2
<1> HIDE DEF x, y, z
<1>3. \E m \in {x, y, z} : \A n \in {x, y, z} : m >= n
  <2>1. CASE x >= y /\ x >= z
      BY <1>2, <2>1 DEF Full
  <2>2. CASE y >= x /\ y >= z
      BY <1>2, <2>2 DEF Full
  <2>3. CASE z >= x /\ z >= y
      BY <1>2, <2>3 DEF Full
  <2> QED
      BY <1>2, <2>1, <2>2, <2>3 DEF Full
<1> DEFINE m == Max({x, y, z})
<1>4. m \in {x, y, z} /\ m >= z
    BY <1>3 DEF Max
<1>5. HandoffScore(r, a, i) = IF ~NodeValid(r) THEN 0 ELSE m
    BY DEF HandoffScore, x, y, z
<1> HIDE DEF m
<1>6. a.step = i - 1 => z = 500
    BY DEF z
<1>7. m \in 0..Full /\ 0 \in 0..Full
    BY <1>2, <1>4 DEF Full
<1> QED
    BY <1>4, <1>5, <1>6, <1>7

\* The edges of every record are in the graph.
LEMMA GraphKept ==
    ASSUME EpisodeInv, FlowInv, phase = "credited", NEW i \in 1..Len(records)
    PROVE  StepEdges(records[i], i, Handoffs(records, i), obligations) \subseteq edges
<1>1. Graph(records, obligations) \subseteq edges
    BY DEF FlowInv
<1>2. DOMAIN records = 1..Len(records)
    BY DEF EpisodeInv
<1> QED
    BY <1>1, <1>2 DEF Graph

LEMMA UsedByNext ==
    ASSUME EpisodeInv, FlowInv, phase = "credited", NEW i \in 1..Len(records),
           i + 1 \in 1..Len(records), NodeValid(records[i + 1]),
           NEW a \in Produced(records[i], i), a.kind \in HandoffKinds
    PROVE  Used(Flow, a)
<1> DEFINE r == records[i + 1]
           score == HandoffScore(r, a, i + 1)
           e == Edge("consumption", a, ActionNode(i + 1), i + 1, score > 0, score, 0)
<1>1. records[i] \in StepRecords /\ r \in StepRecords
    BY DEF EpisodeInv
<1>2. IsArtifact(a, i)
    BY <1>1, ArtifactsAre DEF Produced
<1>3. score >= 500 /\ score \in 0..Full
  <2>1. IsFiniteSet(a.words) /\ a.step = (i + 1) - 1 /\ i + 1 \in Nat
      BY <1>2 DEF IsArtifact
  <2> QED
      BY ZenonT(90), <1>1, <2>1, HandoffIs
<1>4. a \in Handoffs(records, i + 1)
    BY DEF Handoffs
<1>5. e \in Consumption(r, i + 1, Handoffs(records, i + 1))
    BY <1>4 DEF Consumption
<1>6. e \in edges
    BY <1>5, GraphKept DEF StepEdges
<1> HIDE DEF score
<1>7. e.kind = "consumption" /\ e.valid = (score > 0) /\ e.src = a
    BY DEF Edge
<1>8. score > 0
    BY <1>3 DEF Full
<1> QED
    BY <1>6, <1>7, <1>8 DEF Used, Flow

\* Only an artifact of an earlier step, one that no action produced, or the
\* task can be consumed, and by an invalid action no artifact of an earlier one.
LEMMA ConsumedIs ==
    ASSUME NEW r, NEW i, NEW handoffs, ~NodeValid(r),
           NEW c \in Consumption(r, i, handoffs), c.valid
    PROVE  ~c.src.produced
<1> DEFINE consume(a, valid, score) == Edge("consumption", a, ActionNode(i), i, valid, score, 0)
           own(kind) == {a \in Artifacts(r, i) : a.kind = kind}
           goal == Overlap(r.words, TaskWords)
<1>1. \A a, valid, score : consume(a, valid, score).src = a /\ consume(a, valid, score).valid = valid
    BY DEF Edge
<1>2. ASSUME NEW a \in Artifacts(r, i), a.kind \in {"observation_text", "admissible_actions"}
      PROVE  ~a.produced
    BY <1>2, ArtifactKinds DEF Always, Sometimes, OfStates, StateArtifact, Artifact
<1>3. ~Task.produced
    BY DEF Task, Artifact
<1>4. \A a : HandoffScore(r, a, i) = 0
    BY DEF HandoffScore
<1> HIDE DEF consume
<1>5. \/ c = consume(Task, goal > 0 \/ i = 1, Larger(goal, IF i = 1 THEN 100 ELSE 0))
      \/ \E a \in own("observation_text") :
             c = consume(a, NodeValid(r), IF NodeValid(r) THEN Full ELSE 0)
      \/ \E a \in own("admissible_actions") :
             c = consume(a, Matches(r), IF Matches(r) THEN Full ELSE 0)
      \/ \E a \in handoffs : c = consume(a, HandoffScore(r, a, i) > 0, HandoffScore(r, a, i))
    BY DEF Consumption, consume
<1>6. CASE c = consume(Task, goal > 0 \/ i = 1, Larger(goal, IF i = 1 THEN 100 ELSE 0))
    BY <1>1, <1>3, <1>6
<1>7. CASE \E a \in own("observation_text") :
             c = consume(a, NodeValid(r), IF NodeValid(r) THEN Full ELSE 0)
    BY <1>1, <1>2, <1>7
<1>8. CASE \E a \in own("admissible_actions") :
             c = consume(a, Matches(r), IF Matches(r) THEN Full ELSE 0)
    BY <1>1, <1>2, <1>8
<1>9. CASE \E a \in handoffs : c = consume(a, HandoffScore(r, a, i) > 0, HandoffScore(r, a, i))
  <2>1. PICK a \in handoffs : c = consume(a, HandoffScore(r, a, i) > 0, HandoffScore(r, a, i))
      BY <1>9
  <2>2. (HandoffScore(r, a, i) > 0) = FALSE
      BY <1>4
  <2>3. c = consume(a, FALSE, HandoffScore(r, a, i))
      BY Zenon, <2>1, <2>2
  <2>4. c.valid = FALSE
      BY Zenon, <1>1, <2>3
  <2> QED
      BY Zenon, <2>4
<1> QED
    BY <1>5, <1>6, <1>7, <1>8, <1>9

\* Among answers that lost their tags, a produced artifact is used by nothing
\* but the obligations it discharges.
LEMMA UsedByDischarge ==
    ASSUME EpisodeInv, FlowInv, phase = "credited", InPlace,
           NEW e \in edges, e.kind # "production", e.valid, e.src.produced
    PROVE  e.kind = "discharge"
<1>1. PICK judged \in SUBSET Subtasks :
          checks \in [judged -> Checks] /\ edges = Graph(records, obligations) \cup CheckEdges(records, checks)
    BY DEF FlowInv
<1>2. CASE e \in CheckEdges(records, checks)
    BY <1>2 DEF CheckEdges, CheckEdge, Edge
<1>3. CASE e \in Graph(records, obligations)
  <2>1. PICK i \in DOMAIN records :
            e \in StepEdges(records[i], i, Handoffs(records, i), obligations)
      BY <1>3 DEF Graph
  <2> DEFINE r == records[i]
             handoffs == Handoffs(records, i)
  <2>2. ~NodeValid(r)
      BY DEF EpisodeInv, NodeValid
  <2>3. e \notin Production(r, i)
      BY DEF Production, Edge
  <2> HIDE DEF r, handoffs
  <2>4. e \notin Consumption(r, i, handoffs)
      BY <2>2, ConsumedIs
  <2>5. e \notin Transformation(r, i, handoffs)
    <3> SUFFICES ASSUME e \in Transformation(r, i, handoffs)
                 PROVE  FALSE
        OBVIOUS
    <3>1. PICK c \in Consumption(r, i, handoffs), a \in Produced(r, i) :
              LET valid == c.valid /\ a.confidence > 0 /\ r.accepted
              IN  e = Edge("transformation", c.src, a, i, valid,
                           IF valid THEN Smaller(c.score, a.confidence) ELSE 0, 0)
        BY DEF Transformation
    <3>2. e.src = c.src /\ c.valid
        BY <3>1 DEF Edge
    <3> QED
        BY <2>2, <3>2, ConsumedIs
  <2>6. e \in Discharge(r, i, obligations)
      BY <2>1, <2>3, <2>4, <2>5 DEF StepEdges, r, handoffs
  <2> QED
      BY <2>6 DEF Discharge, Edge
<1> QED
    BY <1>1, <1>2, <1>3

LEMMA EffectsUsed == EpisodeInv /\ FlowInv => EffectUsed
<1> SUFFICES ASSUME EpisodeInv, FlowInv, NEW i \in Steps
             PROVE  /\ i + 1 \in Steps /\ NodeValid(records[i + 1])
                           => \A a \in Wasted(Flow, i) : a.kind \notin HandoffKinds
                    /\ InPlace
                           => \A a \in Produced(records[i], i) : Used(Flow, a) =>
                                  \E e \in edges : e.kind = "discharge" /\ e.valid /\ e.src = a
    BY DEF EffectUsed
<1>1. phase = "credited" /\ DOMAIN credits = DOMAIN records
    BY DEF FlowInv, Steps
<1>2. ASSUME i + 1 \in Steps, NodeValid(records[i + 1]), NEW a \in Wasted(Flow, i)
      PROVE  a.kind \notin HandoffKinds
  <2>1. i \in 1..Len(records) /\ i + 1 \in 1..Len(records)
      BY <1>1, <1>2 DEF Steps, EpisodeInv
  <2>2. a \in Produced(records[i], i) /\ ~Used(Flow, a)
      BY DEF Wasted, Flow
  <2> QED
      BY <1>1, <1>2, <2>1, <2>2, UsedByNext
<1>3. ASSUME InPlace, NEW a \in Produced(records[i], i), Used(Flow, a)
      PROVE  \E e \in edges : e.kind = "discharge" /\ e.valid /\ e.src = a
  <2>1. PICK e \in edges : e.kind # "production" /\ e.valid /\ e.src = a
      BY <1>3 DEF Used, Flow
  <2>2. e.src.produced
      BY <2>1 DEF Produced
  <2> QED
      BY <1>1, <1>3, <2>1, <2>2, UsedByDischarge
<1> QED
    BY <1>2, <1>3

\* What a step did to the environment is handed on to a valid next step, with
\* a score of at least 0.5, whatever words the two share; with a projection
\* that rewrites the answers no step is valid, and nothing a step produced is
\* ever used but to discharge an obligation.
THEOREM AlwaysEffectUsed == Spec => []EffectUsed
<1>1. Init => EpisodeInv /\ FlowInv
    BY EpisodeInit, FlowInit
<1>2. EpisodeInv /\ FlowInv /\ [Next]_vars => EpisodeInv' /\ FlowInv'
    BY EpisodeStep, FlowStep
<1> QED
    BY <1>1, <1>2, EffectsUsed, PTL DEF Spec

-----------------------------------------------------------------------------
(* A graph is finite *)

LEMMA FiniteArtifacts ==
    ASSUME NEW r \in StepRecords, NEW i
    PROVE  IsFiniteSet(Artifacts(r, i))
<1>1. IsFiniteSet(r.next.words) /\ IsFiniteSet(r.words)
    BY FiniteWords DEF StepRecords, Observations
<1>2. IsFiniteSet(OfStates(r, i))
  <2> DEFINE states == {v \in StateWords : v \in r.words \cup r.next.words}
             f == [w \in states |-> StateArtifact(r, i, w)]
  <2>1. IsFiniteSet(states)
      BY <1>1, FS_Union, FS_Subset
  <2>2. OfStates(r, i) = {f[w] : w \in states}
      BY DEF OfStates
  <2> HIDE DEF f, states
  <2> QED
      BY <2>1, <2>2, FiniteImage
<1>3. IsFiniteSet(Always(r, i))
  <2> DEFINE A == Artifact(i, "observation_text", r.anchor.words, FALSE, Full)
             B == Artifact(i, "visible_objects", r.anchor.words, FALSE, Full)
             C == Artifact(i, "env_action", r.words, TRUE, IF NodeValid(r) THEN Full ELSE 0)
             D == Artifact(i, "action_effect", r.next.words, TRUE, IF r.next.noop THEN 200 ELSE Full)
  <2>1. Always(r, i) = {A, B, C, D}
      BY DEF Always
  <2> HIDE DEF A, B, C, D
  <2>2. {A, B, C, D} = (({A} \cup {B}) \cup {C}) \cup {D}
      OBVIOUS
  <2>3. IsFiniteSet({A} \cup {B})
      BY FS_Singleton, FS_AddElement
  <2>4. IsFiniteSet(({A} \cup {B}) \cup {C})
      BY <2>3, FS_AddElement
  <2>5. IsFiniteSet((({A} \cup {B}) \cup {C}) \cup {D})
      BY <2>4, FS_AddElement
  <2> QED
      BY <2>1, <2>2, <2>5
<1>4. IsFiniteSet(Sometimes(i))
  <2> DEFINE E == Artifact(i, "admissible_actions", {}, FALSE, Full)
             G == Artifact(i, "success_state", {}, TRUE, Full)
  <2>1. Sometimes(i) = {E, G}
      BY DEF Sometimes
  <2> HIDE DEF E, G
  <2>2. {E, G} = {E} \cup {G} /\ IsFiniteSet({E} \cup {G})
      BY FS_Singleton, FS_AddElement
  <2> QED
      BY <2>1, <2>2
<1>5. IsFiniteSet(Always(r, i) \cup Sometimes(i) \cup OfStates(r, i))
    BY <1>2, <1>3, <1>4, FS_Union
<1> QED
    BY <1>5, ArtifactKinds, FS_Subset

LEMMA FiniteHandoffs ==
    ASSUME NEW recs \in Seq(StepRecords), NEW i \in 1..Len(recs)
    PROVE  IsFiniteSet(Handoffs(recs, i))
<1> DEFINE of == [j \in 1..(i - 1) |-> {a \in Produced(recs[j], j) : a.kind \in HandoffKinds}]
<1>1. \A j \in 1..(i - 1) : IsFiniteSet(of[j])
  <2> TAKE j \in 1..(i - 1)
  <2>1. IsFiniteSet(Artifacts(recs[j], j))
      BY FiniteArtifacts
  <2> QED
      BY <2>1, FS_Subset DEF Produced
<1>2. Handoffs(recs, i) = UNION {of[j] : j \in 1..(i - 1)}
    BY DEF Handoffs
<1> HIDE DEF of
<1>3. IsFiniteSet({of[j] : j \in 1..(i - 1)})
  <2>1. IsFiniteSet(1..(i - 1))
      BY FS_Interval
  <2> QED
      BY <2>1, FiniteImage
<1>4. \A T \in {of[j] : j \in 1..(i - 1)} : IsFiniteSet(T)
    BY <1>1
<1> QED
    BY <1>2, <1>3, <1>4, FS_UNION

LEMMA FiniteStepEdges ==
    ASSUME NEW r \in StepRecords, NEW i, NEW handoffs, IsFiniteSet(handoffs), NEW obs, IsFiniteSet(obs)
    PROVE  IsFiniteSet(StepEdges(r, i, handoffs, obs))
<1>1. IsFiniteSet(Artifacts(r, i)) /\ IsFiniteSet(Produced(r, i))
    BY FiniteArtifacts, FS_Subset DEF Produced
<1>2. IsFiniteSet(Production(r, i))
  <2> DEFINE f == [a \in Produced(r, i) |-> Edge("production", ActionNode(i), a, i, a.confidence > 0,
                                                 a.confidence, EdgeCost(r, a))]
  <2>1. Production(r, i) = {f[a] : a \in Produced(r, i)}
      BY DEF Production
  <2> HIDE DEF f
  <2> QED
      BY <1>1, <2>1, FiniteImage
<1>3. IsFiniteSet(Consumption(r, i, handoffs))
  <2> DEFINE goal == Overlap(r.words, TaskWords)
             task == Edge("consumption", Task, ActionNode(i), i, goal > 0 \/ i = 1,
                          Larger(goal, IF i = 1 THEN 100 ELSE 0), 0)
             from(a, valid, score) == Edge("consumption", a, ActionNode(i), i, valid, score, 0)
             f == [a \in Artifacts(r, i) |-> from(a, NodeValid(r), IF NodeValid(r) THEN Full ELSE 0)]
             g == [a \in Artifacts(r, i) |-> from(a, Matches(r), IF Matches(r) THEN Full ELSE 0)]
             h == [a \in handoffs |-> from(a, HandoffScore(r, a, i) > 0, HandoffScore(r, a, i))]
             F == {f[a] : a \in Artifacts(r, i)}
             G == {g[a] : a \in Artifacts(r, i)}
             H == {h[a] : a \in handoffs}
  <2>1. IsFiniteSet({task}) /\ IsFiniteSet(F) /\ IsFiniteSet(G) /\ IsFiniteSet(H)
    <3>1. IsFiniteSet({task})
        BY FS_Singleton
    <3> HIDE DEF f, g, h, task
    <3>2. IsFiniteSet(F) /\ IsFiniteSet(G)
        BY <1>1, FiniteImage
    <3>3. IsFiniteSet(H)
        BY FiniteImage
    <3> QED
        BY <3>1, <3>2, <3>3
  <2>2. Consumption(r, i, handoffs) \subseteq {task} \cup F \cup G \cup H
      BY DEF Consumption
  <2> HIDE DEF task, F, G, H
  <2>3. IsFiniteSet({task} \cup F \cup G \cup H)
      BY <2>1, FS_Union
  <2> QED
      BY <2>2, <2>3, FS_Subset
<1>4. IsFiniteSet(Transformation(r, i, handoffs))
  <2> DEFINE to == {b \in Produced(r, i) : b.kind # "env_action"}
             pairs == Consumption(r, i, handoffs) \X to
             valid(c, a) == c.valid /\ a.confidence > 0 /\ r.accepted
             f == [p \in pairs |->
                      Edge("transformation", p[1].src, p[2], i, valid(p[1], p[2]),
                           IF valid(p[1], p[2]) THEN Smaller(p[1].score, p[2].confidence) ELSE 0, 0)]
  <2>1. IsFiniteSet(pairs)
      BY <1>1, <1>3, FS_Subset, FS_Product
  <2>2. Transformation(r, i, handoffs) \subseteq {f[p] : p \in pairs}
    <3> SUFFICES ASSUME NEW c \in Consumption(r, i, handoffs), NEW a \in to
                 PROVE  Edge("transformation", c.src, a, i, valid(c, a),
                             IF valid(c, a) THEN Smaller(c.score, a.confidence) ELSE 0, 0)
                            \in {f[p] : p \in pairs}
        BY DEF Transformation
    <3>1. <<c, a>> \in pairs
        OBVIOUS
    <3> QED
        BY <3>1
  <2> HIDE DEF f, pairs
  <2>3. IsFiniteSet({f[p] : p \in pairs})
      BY <2>1, FiniteImage
  <2> QED
      BY <2>2, <2>3, FS_Subset
<1>5. IsFiniteSet(Discharge(r, i, obs))
  <2> DEFINE pairs == Artifacts(r, i) \X obs
             f == [p \in pairs |-> Edge("discharge", p[1], p[2], i, TRUE, DischargeScore(p[1], p[2]), 0)]
  <2>1. IsFiniteSet(pairs)
      BY <1>1, FS_Product
  <2>2. Discharge(r, i, obs) \subseteq {f[p] : p \in pairs}
    <3> SUFFICES ASSUME NEW e \in Discharge(r, i, obs)
                 PROVE  e \in {f[p] : p \in pairs}
        OBVIOUS
    <3>1. PICK o \in obs, a \in Artifacts(r, i) :
              e = Edge("discharge", a, o, i, TRUE, DischargeScore(a, o), 0)
        BY DEF Discharge
    <3>2. <<a, o>> \in pairs
        OBVIOUS
    <3>3. f[<<a, o>>] = Edge("discharge", a, o, i, TRUE, DischargeScore(a, o), 0)
        BY <3>2
    <3> HIDE DEF f, pairs
    <3> QED
        BY <3>1, <3>2, <3>3
  <2> HIDE DEF f, pairs
  <2>3. IsFiniteSet({f[p] : p \in pairs})
      BY <2>1, FiniteImage
  <2> QED
      BY <2>2, <2>3, FS_Subset
<1> QED
    BY <1>2, <1>3, <1>4, <1>5, FS_Union DEF StepEdges

LEMMA FiniteGraph ==
    ASSUME NEW recs \in Seq(StepRecords), NEW obs, IsFiniteSet(obs)
    PROVE  IsFiniteSet(Graph(recs, obs))
<1> DEFINE of == [i \in 1..Len(recs) |-> StepEdges(recs[i], i, Handoffs(recs, i), obs)]
<1>1. \A i \in 1..Len(recs) : IsFiniteSet(of[i])
    BY FiniteHandoffs, FiniteStepEdges
<1>2. Graph(recs, obs) = UNION {of[i] : i \in 1..Len(recs)}
    BY DEF Graph
<1> HIDE DEF of
<1>3. IsFiniteSet({of[i] : i \in 1..Len(recs)})
  <2>1. IsFiniteSet(1..Len(recs))
      BY FS_Interval
  <2> QED
      BY <2>1, FiniteImage
<1>4. \A T \in {of[i] : i \in 1..Len(recs)} : IsFiniteSet(T)
    BY <1>1
<1> QED
    BY <1>2, <1>3, <1>4, FS_UNION

LEMMA FiniteEdges ==
    ASSUME EpisodeInv, FlowInv
    PROVE  IsFiniteSet(edges) /\ IsFiniteSet(obligations)
<1>1. CASE phase \in {"acting", "gathered"}
    BY <1>1, FS_EmptySet DEF FlowInv
<1>2. CASE phase \notin {"acting", "gathered"}
  <2>1. IsFiniteSet(obligations)
      BY <1>2, GradeAssumption DEF FlowInv
  <2>2. IsFiniteSet(Graph(records, obligations))
      BY <2>1, FiniteGraph DEF EpisodeInv
  <2>3. PICK judged \in SUBSET Subtasks :
            /\ phase = "built" \/ checks \in [judged -> Checks]
            /\ edges = Graph(records, obligations) \cup
                          IF phase = "built" THEN {} ELSE CheckEdges(records, checks)
      BY <1>2 DEF FlowInv
  <2>4. IsFiniteSet(judged)
      BY <2>1, FS_Subset DEF Subtasks, SubtasksOf
  <2>5. ASSUME phase # "built"
        PROVE  IsFiniteSet(CheckEdges(records, checks))
    <3> DEFINE f == [o \in judged |-> CheckEdge(records, o, checks[o])]
    <3>1. CheckEdges(records, checks) = {f[o] : o \in judged}
        BY <2>3, <2>5 DEF CheckEdges
    <3> HIDE DEF f
    <3> QED
        BY <2>4, <3>1, FiniteImage
  <2> QED
      BY <2>1, <2>2, <2>3, <2>5, FS_Union, FS_EmptySet
<1> QED
    BY <1>1, <1>2

-----------------------------------------------------------------------------
(* Blame *)

\* Of finitely many steps, one scored highest, and the latest of those.
LEMMA Worst ==
    ASSUME NEW n \in Nat, NEW S \in SUBSET (1..n), S # {}, NEW top \in Nat,
           NEW f, \A j \in S : f[j] \in 0..top
    PROVE  \E i \in S : \A j \in S : f[j] < f[i] \/ (f[j] = f[i] /\ j <= i)
<1> DEFINE V == {top - f[j] : j \in S}
<1>1. V \in SUBSET Nat /\ V # {}
  <2>1. ASSUME NEW j \in S
        PROVE  top - f[j] \in Nat
    <3>1. f[j] \in 0..top
        OBVIOUS
    <3> QED
        BY <3>1
  <2> QED
      BY <2>1
<1>2. PICK v \in V : \A u \in V : v <= u
    BY <1>1, Least
<1> DEFINE W == {n - j : j \in {k \in S : top - f[k] = v}}
<1>3. W \in SUBSET Nat /\ W # {}
    BY <1>2
<1>4. PICK w \in W : \A u \in W : w <= u
    BY <1>3, Least
<1>5. PICK i \in S : top - f[i] = v /\ w = n - i
    BY <1>4
<1>6. ASSUME NEW j \in S
      PROVE  f[j] < f[i] \/ (f[j] = f[i] /\ j <= i)
  <2>1. top - f[j] \in V
      OBVIOUS
  <2>2. v <= top - f[j]
      BY <1>2, <2>1
  <2>3. /\ f[j] \in Int /\ f[i] \in Int /\ top \in Int
        /\ i \in Int /\ j \in Int /\ n \in Int
    <3>1. f[j] \in 0..top /\ f[i] \in 0..top /\ i \in 1..n /\ j \in 1..n
        OBVIOUS
    <3> QED
        BY <3>1
  <2>4. CASE top - f[j] = v
    <3>1. n - j \in W
        BY <2>4
    <3>2. n - i <= n - j
        BY <1>4, <1>5, <3>1
    <3> QED
        BY <1>5, <2>3, <2>4, <3>2
  <2>5. CASE top - f[j] # v
    <3>1. top - f[i] <= top - f[j] /\ top - f[i] # top - f[j]
        BY <1>5, <2>2, <2>5
    <3> QED
        BY <2>3, <3>1
  <2> QED
      BY <2>4, <2>5
<1> QED
    BY <1>6

\* A step breaks by two at most.
LEMMA BreakIs ==
    ASSUME EpisodeInv, FlowInv, NEW i \in 1..Len(records)
    PROVE  BreakPenalty(Flow, i) \in 0..(2 * Full)
<1> DEFINE own == {e \in edges : e.step = i}
           broken == {e \in own : e.kind = "consumption" /\ ~e.valid}
           share == (Full * Cardinality(broken)) \div Larger(1, Cardinality(own))
           rest == (IF NodeValid(records[i]) THEN 0 ELSE Full) + share
                       + (IF records[i].next.noop THEN 500 ELSE 0)
<1>1. IsFiniteSet(own) /\ IsFiniteSet(broken)
    BY FiniteEdges, FS_Subset
<1>2. Cardinality(own) \in Nat /\ Cardinality(broken) \in Nat /\ Cardinality(broken) <= Cardinality(own)
    BY <1>1, FS_CardinalityType, FS_Subset
<1>3. share \in 0..Full
  <2> HIDE DEF own, broken
  <2>1. Larger(1, Cardinality(own)) \in Nat \ {0} /\ Cardinality(broken) <= Larger(1, Cardinality(own))
      BY <1>2 DEF Larger
  <2> QED
      BY <1>2, <2>1, ShareIs
<1> HIDE DEF share
<1>4. rest \in Nat
    BY <1>3 DEF Full
<1>5. BreakPenalty(Flow, i) = Smaller(2 * Full, rest)
    BY DEF BreakPenalty, Flow, share
<1> HIDE DEF rest
<1> QED
    BY <1>4, <1>5 DEF Smaller, Full

\* The step that is blamed is one of the trajectory, and none broke more.
LEMMA BlamedIs ==
    ASSUME EpisodeInv, FlowInv, phase = "credited"
    PROVE  /\ Blamed(Flow) \in 1..Len(records)
           /\ \A j \in 1..Len(records) : BreakPenalty(Flow, j) <= BreakPenalty(Flow, Blamed(Flow))
<1> DEFINE n == Len(records)
           f == [j \in 1..n |-> BreakPenalty(Flow, j)]
           S == {j \in 1..n : f[j] > 0}
           b == Blamed(Flow)
<1>1. n \in Nat /\ n >= 1 /\ DOMAIN records = 1..n
    BY DEF EpisodeInv
<1>2. \A j \in 1..n : f[j] \in 0..(2 * Full) /\ f[j] = BreakPenalty(Flow, j)
    BY BreakIs
<1>3. Broken(Flow) = S
    BY <1>1 DEF Broken, Flow
<1>4. \A j \in 1..n : f[j] \in Int /\ f[j] >= 0
  <2> TAKE j \in 1..n
  <2> DEFINE scored == f[j]
  <2>1. scored \in 0..(2 * Full)
      BY <1>2
  <2> HIDE DEF scored
  <2>2. scored \in Int /\ scored >= 0
      BY <2>1 DEF Full
  <2> QED
      BY <2>2 DEF scored
<1>5. ASSUME S = {}
      PROVE  b \in 1..n /\ \A j \in 1..n : f[j] <= f[b]
  <2>1. b = n
      BY <1>3, <1>5 DEF Blamed, Flow
  <2> HIDE DEF b, f
  <2>2. \A j \in 1..n : f[j] = 0
      BY <1>4, <1>5
  <2> QED
      BY <1>1, <2>1, <2>2
<1>6. ASSUME S # {}
      PROVE  b \in 1..n /\ \A j \in 1..n : f[j] <= f[b]
  <2>1. 2 * Full \in Nat
      BY DEF Full
  <2>2. \E i \in S : \A j \in S : f[j] < f[i] \/ (f[j] = f[i] /\ j <= i)
    <3> HIDE DEF f
    <3> QED
        BY <1>1, <1>2, <1>6, <2>1, Worst
  <2>3. \E i \in S : \A j \in S :
            \/ BreakPenalty(Flow, j) < BreakPenalty(Flow, i)
            \/ BreakPenalty(Flow, j) = BreakPenalty(Flow, i) /\ j <= i
      BY <1>2, <2>2
  <2>4. b \in S /\ \A j \in S :
            \/ BreakPenalty(Flow, j) < BreakPenalty(Flow, b)
            \/ BreakPenalty(Flow, j) = BreakPenalty(Flow, b) /\ j <= b
      BY <1>3, <1>6, <2>3 DEF Blamed
  <2>5. b \in S /\ \A j \in S : f[j] <  f[b] \/ f[j] = f[b]
      BY <2>4, <1>2
  <2> HIDE DEF b, f
  <2> QED
      BY <1>4, <2>5
<1>7. b \in 1..n /\ \A j \in 1..n : f[j] <= f[b]
    BY <1>5, <1>6
<1> HIDE DEF f
<1> QED
    BY <1>2, <1>7

\* The blame, which only the blamed step of a failed trajectory gets.
LEMMA CutIs ==
    ASSUME EpisodeInv, FlowInv, NEW i \in 1..Len(records)
    PROVE  /\ CutBlame(Flow, i) \in (-Full)..0
           /\ CutBlame(Flow, i) < 0 <=> Failed(Flow) # {} /\ i = Blamed(Flow)
<1> DEFINE break == BreakPenalty(Flow, i)
           severity == IF break > 0 THEN break ELSE 500
           quarter == severity \div 4
           count == Cardinality(Failed(Flow))
           blame == Smaller(Full, 250 * count + quarter)
<1>1. IsFiniteSet(Failed(Flow))
    BY FiniteEdges, FS_Subset DEF Failed, Flow
<1>2. count \in Nat /\ (Failed(Flow) # {} => count >= 1)
    BY <1>1, FS_CardinalityType, FS_EmptySet
<1>3. CutBlame(Flow, i) = IF Failed(Flow) = {} \/ i # Blamed(Flow) THEN 0 ELSE - blame
    BY DEF CutBlame
<1>4. break \in 0..(2 * Full)
    BY BreakIs
<1> HIDE DEF break
<1>5. severity \in Nat
    BY <1>4 DEF Full
<1> HIDE DEF severity
<1>6. quarter \in Nat
    BY <1>5
<1> HIDE DEF quarter, count
<1>7. blame \in 0..Full /\ (Failed(Flow) # {} => blame >= 250)
    BY <1>2, <1>6 DEF Smaller, Full
<1> HIDE DEF blame
<1> QED
    BY <1>3, <1>7 DEF Full

LEMMA BlamesOnce == EpisodeInv /\ FlowInv => BlameOnce
<1> SUFFICES ASSUME EpisodeInv, FlowInv, phase = "credited"
             PROVE  LET blamed == {i \in Steps : credits[i].cut < 0}
                    IN  /\ Cardinality(blamed) = IF Failed(Flow) = {} THEN 0 ELSE 1
                        /\ \A i \in blamed, j \in Steps : credits[j].break <= credits[i].break
    BY DEF BlameOnce
<1> DEFINE blamed == {i \in Steps : credits[i].cut < 0}
<1>1. Steps = 1..Len(records)
    BY DEF Steps, FlowInv, EpisodeInv
<1>2. \A i \in Steps : credits[i].cut = CutBlame(Flow, i) /\ credits[i].break = BreakPenalty(Flow, i)
  <2> TAKE i \in Steps
  <2>1. credits[i] = StepCredit(Flow, i)
      BY DEF Steps, FlowInv
  <2> QED
      BY <2>1 DEF StepCredit
<1>3. \A i \in Steps : credits[i].cut < 0 <=> Failed(Flow) # {} /\ i = Blamed(Flow)
    BY <1>1, <1>2, CutIs
<1>4. Blamed(Flow) \in Steps
    BY <1>1, BlamedIs
<1>5. blamed = IF Failed(Flow) = {} THEN {} ELSE {Blamed(Flow)}
    BY <1>3, <1>4
<1>6. Cardinality(blamed) = IF Failed(Flow) = {} THEN 0 ELSE 1
    BY <1>5, FS_EmptySet, FS_Singleton
<1>7. \A i \in blamed, j \in Steps : credits[j].break <= credits[i].break
    BY <1>1, <1>2, <1>3, BlamedIs
<1> QED
    BY <1>6, <1>7

\* A trajectory that left an obligation undischarged has one step to blame, one
\* that broke as much as any; a trajectory that left none has no step to blame.
THEOREM AlwaysBlameOnce == Spec => []BlameOnce
<1>1. Init => EpisodeInv /\ FlowInv
    BY EpisodeInit, FlowInit
<1>2. EpisodeInv /\ FlowInv /\ [Next]_vars => EpisodeInv' /\ FlowInv'
    BY EpisodeStep, FlowStep
<1> QED
    BY <1>1, <1>2, BlamesOnce, PTL DEF Spec

-----------------------------------------------------------------------------
(* Types *)

EdgeKinds == {"production", "consumption", "transformation", "discharge"}

IsEdge(e, i) ==
    e.kind \in EdgeKinds /\ e.step = i /\ e.score \in 0..Full /\ e.cost \in {0, 100, 400}

LEMMA EdgeIs ==
    ASSUME NEW kind \in EdgeKinds, NEW src, NEW dst, NEW i, NEW valid,
           NEW score \in 0..Full, NEW cost \in {0, 100, 400}
    PROVE  IsEdge(Edge(kind, src, dst, i, valid, score, cost), i)
  BY DEF Edge, IsEdge

LEMMA ConfidenceIs == Confidences \subseteq 0..Full /\ 0 \in 0..Full /\ Full \in 0..Full
  BY DEF Confidences, Full

LEMMA DischargeScoreIs ==
    ASSUME NEW a, a.confidence \in Confidences, IsFiniteSet(a.words), NEW o, IsFiniteSet(o.target)
    PROVE  DischargeScore(a, o) \in 0..Full
<1> DEFINE c == a.confidence
           x == Overlap(a.words, o.target)
           y == Larger(100, x)
<1>1. c \in {0, 200, 300, 1000}
    BY DEF Confidences, Full
<1>2. x \in 0..Full
    BY OverlapIs
<1>3. DischargeScore(a, o) \in {Full, c, c \div 2, (y * c) \div Full}
    BY DEF DischargeScore
<1> HIDE DEF c, x
<1>4. y \in 0..1000
    BY <1>2 DEF Larger, Full
<1> HIDE DEF y
<1>5. (y * c) \div Full \in 0..Full
    BY <1>1, <1>4 DEF Full
<1>6. c \in 0..Full /\ c \div 2 \in 0..Full /\ Full \in 0..Full
    BY <1>1 DEF Full
<1> QED
    BY <1>3, <1>5, <1>6

LEMMA ConsumptionIs ==
    ASSUME NEW r \in StepRecords, NEW i \in Nat, NEW handoffs,
           \A a \in handoffs : IsFiniteSet(a.words),
           NEW e \in Consumption(r, i, handoffs)
    PROVE  IsEdge(e, i)
<1> DEFINE goal == Overlap(r.words, TaskWords)
           first == IF i = 1 THEN 100 ELSE 0
           most == Larger(goal, first)
           own == IF NodeValid(r) THEN Full ELSE 0
           listed == IF Matches(r) THEN Full ELSE 0
           from(a, valid, score) == Edge("consumption", a, ActionNode(i), i, valid, score, 0)
<1>1. goal \in 0..Full
    BY OverlapIs, FiniteWords, WordsAssumption DEF StepRecords
<1>2. \E score \in 0..Full : \E a, valid : e = from(a, valid, score)
  <2>1. CASE e = from(Task, goal > 0 \/ i = 1, most)
    <3> HIDE DEF goal
    <3>1. most \in 0..Full
        BY <1>1 DEF Larger, Full
    <3> QED
        BY <2>1, <3>1
  <2>2. own \in 0..Full /\ listed \in 0..Full
      BY ConfidenceIs
  <2>3. CASE \E a : e = from(a, NodeValid(r), own)
      BY <2>2, <2>3
  <2>4. CASE \E a : e = from(a, Matches(r), listed)
      BY <2>2, <2>4
  <2>5. CASE \E a \in handoffs : e = from(a, HandoffScore(r, a, i) > 0, HandoffScore(r, a, i))
    <3>1. PICK a \in handoffs : e = from(a, HandoffScore(r, a, i) > 0, HandoffScore(r, a, i))
        BY <2>5
    <3>2. HandoffScore(r, a, i) \in 0..Full
        BY HandoffIs
    <3> QED
        BY <3>1, <3>2
  <2>6. \/ e = from(Task, goal > 0 \/ i = 1, most)
        \/ \E a : e = from(a, NodeValid(r), own)
        \/ \E a : e = from(a, Matches(r), listed)
        \/ \E a \in handoffs : e = from(a, HandoffScore(r, a, i) > 0, HandoffScore(r, a, i))
      BY DEF Consumption
  <2> QED
      BY <2>1, <2>3, <2>4, <2>5, <2>6
<1>3. PICK score \in 0..Full : \E a, valid : e = from(a, valid, score)
    BY <1>2
<1>4. "consumption" \in EdgeKinds /\ 0 \in {0, 100, 400}
    BY DEF EdgeKinds
<1> QED
    BY <1>3, <1>4, EdgeIs

LEMMA StepEdgesAre ==
    ASSUME NEW r \in StepRecords, NEW i \in Nat, NEW handoffs,
           \A a \in handoffs : IsFiniteSet(a.words),
           NEW obs, \A o \in obs : IsFiniteSet(o.target),
           NEW e \in StepEdges(r, i, handoffs, obs)
    PROVE  IsEdge(e, i)
<1> USE DEF EdgeKinds
<1>1. \A a \in Artifacts(r, i) : IsArtifact(a, i)
    BY ArtifactsAre
<1>2. CASE e \in Production(r, i)
  <2>1. PICK a \in Produced(r, i) :
            e = Edge("production", ActionNode(i), a, i, a.confidence > 0, a.confidence, EdgeCost(r, a))
      BY <1>2 DEF Production
  <2>2. a.confidence \in 0..Full
      BY <1>1, ConfidenceIs DEF Produced, IsArtifact
  <2>3. EdgeCost(r, a) \in {0, 100, 400}
      BY DEF EdgeCost
  <2> QED
      BY <2>1, <2>2, <2>3, EdgeIs
<1>3. CASE e \in Consumption(r, i, handoffs)
    BY <1>3, ConsumptionIs
<1>4. CASE e \in Transformation(r, i, handoffs)
  <2>1. PICK c \in Consumption(r, i, handoffs), a \in Produced(r, i) :
            LET valid == c.valid /\ a.confidence > 0 /\ r.accepted
            IN  e = Edge("transformation", c.src, a, i, valid,
                         IF valid THEN Smaller(c.score, a.confidence) ELSE 0, 0)
      BY <1>4 DEF Transformation
  <2>2. c.score \in 0..Full
      BY ConsumptionIs DEF IsEdge
  <2>3. a.confidence \in 0..Full
      BY <1>1, ConfidenceIs DEF Produced, IsArtifact
  <2> DEFINE valid == c.valid /\ a.confidence > 0 /\ r.accepted
             score == IF valid THEN Smaller(c.score, a.confidence) ELSE 0
  <2>4. score \in 0..Full
      BY <2>2, <2>3, ConfidenceIs DEF Smaller
  <2>5. e = Edge("transformation", c.src, a, i, valid, score, 0)
      BY <2>1
  <2> HIDE DEF valid, score
  <2> QED
      BY <2>4, <2>5, EdgeIs
<1>5. CASE e \in Discharge(r, i, obs)
  <2>1. PICK o \in obs, a \in Artifacts(r, i) :
            e = Edge("discharge", a, o, i, TRUE, DischargeScore(a, o), 0)
      BY <1>5 DEF Discharge
  <2>2. DischargeScore(a, o) \in 0..Full
      BY <1>1, DischargeScoreIs DEF IsArtifact
  <2> QED
      BY <2>1, <2>2 DEF Edge, IsEdge
<1> QED
    BY <1>2, <1>3, <1>4, <1>5 DEF StepEdges

LEMMA EdgesAre ==
    ASSUME EpisodeInv, FlowInv, NEW e \in edges
    PROVE  \E i \in DOMAIN records : IsEdge(e, i)
<1>1. phase \notin {"acting", "gathered"}
    BY DEF FlowInv
<1>2. records \in Seq(StepRecords) /\ records # <<>> /\ DOMAIN records = 1..Len(records)
    BY <1>1 DEF EpisodeInv
<1>3. \A o \in obligations : IsFiniteSet(o.target)
    BY <1>1, GradeAssumption DEF FlowInv
<1>4. PICK judged \in SUBSET Subtasks :
          /\ phase = "built" \/ checks \in [judged -> Checks]
          /\ edges = Graph(records, obligations) \cup
                        IF phase = "built" THEN {} ELSE CheckEdges(records, checks)
    BY <1>1 DEF FlowInv
<1>5. CASE e \in Graph(records, obligations)
  <2>1. PICK i \in DOMAIN records : e \in StepEdges(records[i], i, Handoffs(records, i), obligations)
      BY <1>5 DEF Graph
  <2>2. records[i] \in StepRecords /\ i \in Nat
      BY <1>2
  <2>3. \A a \in Handoffs(records, i) : IsFiniteSet(a.words)
    <3> TAKE a \in Handoffs(records, i)
    <3>1. PICK j \in 1..(i - 1) : a \in Artifacts(records[j], j)
        BY DEF Handoffs, Produced
    <3>2. records[j] \in StepRecords
        BY <1>2
    <3> QED
        BY <3>1, <3>2, ArtifactsAre DEF IsArtifact
  <2> QED
      BY <1>3, <2>1, <2>2, <2>3, StepEdgesAre
<1>6. CASE phase # "built" /\ e \in CheckEdges(records, checks)
  <2>1. PICK o \in judged : e = CheckEdge(records, o, checks[o])
      BY <1>4, <1>6 DEF CheckEdges
  <2> DEFINE c == checks[o]
             i == CheckedStep(records, c)
             src == SourceOf(records[i], i)
  <2>2. c \in [completed : BOOLEAN, step : Int, score : 0..1000]
      BY <1>4, <1>6, GradeAssumption
  <2>3. e = Edge("discharge", src, o, i, c.completed, c.score, 0)
      BY <2>1 DEF CheckEdge
  <2>4. i \in DOMAIN records
      BY <1>2 DEF CheckedStep
  <2>5. c.score \in 0..Full
      BY <2>2 DEF Full
  <2>6. "discharge" \in EdgeKinds /\ 0 \in {0, 100, 400}
      BY DEF EdgeKinds
  <2> HIDE DEF c, i, src
  <2> QED
      BY <2>3, <2>4, <2>5, <2>6, EdgeIs
<1> QED
    BY <1>4, <1>5, <1>6

LEMMA WasteIs ==
    ASSUME EpisodeInv, NEW i \in 1..Len(records)
    PROVE  WastePenalty(Flow, i) \in 0..Full
<1> DEFINE made == Produced(records[i], i)
           lost == Wasted(Flow, i)
<1>1. IsFiniteSet(made)
    BY FiniteArtifacts, FS_Subset DEF Produced, EpisodeInv
<1>2. lost \subseteq made
    BY DEF Wasted, Flow
<1>3. Cardinality(made) \in Nat /\ Cardinality(lost) \in Nat /\ Cardinality(lost) <= Cardinality(made)
    BY <1>1, <1>2, FS_CardinalityType, FS_Subset
<1>4. WastePenalty(Flow, i) = (Full * Cardinality(lost)) \div Larger(1, Cardinality(made))
    BY DEF WastePenalty, Flow
<1> HIDE DEF made, lost
<1>5. Larger(1, Cardinality(made)) \in Nat \ {0} /\ Cardinality(lost) <= Larger(1, Cardinality(made))
    BY <1>3 DEF Larger
<1> QED
    BY <1>3, <1>4, <1>5, ShareIs

LEMMA TypesOK == EpisodeInv /\ FlowInv => TypeOK
<1> SUFFICES ASSUME EpisodeInv, FlowInv
             PROVE  TypeOK
    OBVIOUS
<1>1. DOMAIN records = 1..Len(records) /\ records \in Seq(StepRecords)
    BY DEF EpisodeInv
<1>2. obligations \in Decompositions \cup {{}}
    BY DEF FlowInv
<1>3. \A i \in DOMAIN records :
          /\ {records[i].accepted, records[i].format, records[i].won} \subseteq BOOLEAN
          /\ records[i].action \in Actions \cup {NoAction}
  <2> TAKE i \in DOMAIN records
  <2>1. records[i] \in StepRecords
      BY <1>1
  <2> QED
      BY <2>1 DEF StepRecords
<1>4. \A e \in edges :
          /\ e.kind \in {"production", "consumption", "transformation", "discharge"}
          /\ e.step \in DOMAIN records
          /\ e.score \in 0..Full /\ e.cost \in {0, 100, 400}
    BY EdgesAre DEF IsEdge, EdgeKinds
<1>5. credits # <<>> <=> phase = "credited"
  <2>1. CASE phase = "credited"
    <3>1. records # <<>>
        BY <2>1 DEF EpisodeInv
    <3>2. DOMAIN credits = 1..Len(records) /\ Len(records) >= 1
        BY <1>1, <2>1, <3>1 DEF FlowInv
    <3> QED
        BY <2>1, <3>2
  <2>2. CASE phase # "credited"
      BY <2>2 DEF FlowInv
  <2> QED
      BY <2>1, <2>2
<1>6. \A i \in DOMAIN credits :
          /\ credits[i].waste \in 0..Full
          /\ credits[i].break \in 0..(2 * Full)
          /\ credits[i].cut \in (-Full)..0
  <2> TAKE i \in DOMAIN credits
  <2>1. i \in 1..Len(records) /\ credits[i] = StepCredit(Flow, i)
      BY <1>1 DEF FlowInv
  <2>2. /\ credits[i].waste = WastePenalty(Flow, i)
        /\ credits[i].break = BreakPenalty(Flow, i)
        /\ credits[i].cut = CutBlame(Flow, i)
      BY <2>1 DEF StepCredit
  <2> QED
      BY <2>1, <2>2, WasteIs, BreakIs, CutIs
<1> QED
    BY <1>2, <1>3, <1>4, <1>5, <1>6 DEF TypeOK, EpisodeInv

\* Every score, penalty and blame stays in its range.
THEOREM TypeCorrect == Spec => []TypeOK
<1>1. Init => EpisodeInv /\ FlowInv
    BY EpisodeInit, FlowInit
<1>2. EpisodeInv /\ FlowInv /\ [Next]_vars => EpisodeInv' /\ FlowInv'
    BY EpisodeStep, FlowStep
<1> QED
    BY <1>1, <1>2, TypesOK, PTL DEF Spec

-----------------------------------------------------------------------------
(* Potentials *)

LEMMA LargestIs ==
    ASSUME NEW S \in SUBSET (0..Full), IsFiniteSet(S)
    PROVE  /\ Largest(S) \in 0..Full /\ \A x \in S : x <= Largest(S)
           /\ Largest(S) = 0 \/ Largest(S) \in S
<1>1. IsFiniteSet(S \cup {0}) /\ S \cup {0} # {}
    BY FS_AddElement
<1>2. S \cup {0} \subseteq 0..Full /\ 0..Full \subseteq Int
    BY DEF Full
<1>3. Max(S \cup {0}) \in S \cup {0} /\ \A x \in S \cup {0} : x <= Max(S \cup {0})
    BY <1>1, <1>2, MaxIs
<1> QED
    BY <1>2, <1>3 DEF Largest

\* The best discharge of an obligation among some edges.
LEMMA BestIs ==
    ASSUME EpisodeInv, FlowInv, NEW es \in SUBSET edges, NEW o
    PROVE  /\ Best(es, o) \in 0..Full
           /\ \A e \in DischargeOf(es, o) : e.score <= Best(es, o)
           /\ Best(es, o) = 0 \/ \E e \in DischargeOf(es, o) : e.score = Best(es, o)
<1> DEFINE found == DischargeOf(es, o)
           f == [e \in found |-> e.score]
           S == {f[e] : e \in found}
<1>1. found \subseteq edges /\ IsFiniteSet(found)
    BY FiniteEdges, FS_Subset DEF DischargeOf
<1>2. \A e \in found : f[e] \in 0..Full /\ f[e] = e.score
    BY <1>1, EdgesAre DEF IsEdge
<1>3. Best(es, o) = Largest(S)
  <2>1. S = {e.score : e \in found}
      OBVIOUS
  <2> QED
      BY <2>1 DEF Best
<1> HIDE DEF found, f
<1>4. IsFiniteSet(S) /\ S \in SUBSET (0..Full)
    BY <1>1, <1>2, FiniteImage
<1>5. /\ Largest(S) \in 0..Full /\ \A x \in S : x <= Largest(S)
      /\ Largest(S) = 0 \/ Largest(S) \in S
  <2> HIDE DEF S
  <2> QED
      BY <1>4, LargestIs
<1> QED
    BY <1>2, <1>3, <1>5 DEF found

\* More edges discharge no less.
LEMMA BestGrows ==
    ASSUME EpisodeInv, FlowInv, NEW es \in SUBSET edges, NEW more \in SUBSET edges, es \subseteq more, NEW o
    PROVE  Best(es, o) <= Best(more, o)
<1>1. DischargeOf(es, o) \subseteq DischargeOf(more, o)
    BY DEF DischargeOf
<1>2. Best(es, o) \in 0..Full /\ Best(more, o) \in 0..Full
    BY BestIs
<1>3. CASE Best(es, o) = 0
    BY <1>2, <1>3 DEF Full
<1>4. CASE \E e \in DischargeOf(es, o) : e.score = Best(es, o)
    BY <1>1, <1>4, BestIs
<1> QED
    BY <1>3, <1>4, BestIs

CostOf == [e \in edges |-> e.cost]

LEMMA CostIs ==
    ASSUME EpisodeInv, FlowInv, NEW es \in SUBSET edges
    PROVE  /\ IsFiniteSet(es) /\ \A e \in es : CostOf[e] \in Nat /\ CostOf[e] = e.cost
           /\ Cost(es) = SumFunctionOnSet(CostOf, es) /\ Cost(es) \in Nat
<1>1. IsFiniteSet(es)
    BY FiniteEdges, FS_Subset
<1>2. \A e \in es : CostOf[e] \in Nat /\ CostOf[e] = e.cost
    BY EdgesAre DEF IsEdge, CostOf
<1> DEFINE own == [e \in es |-> e.cost]
<1>3. Cost(es) = SumFunctionOnSet(own, es)
    BY DEF Cost, SumFunction
<1>4. \A e \in es : own[e] \in Int /\ own[e] = CostOf[e]
    BY <1>2
<1> HIDE DEF own
<1>5. SumFunctionOnSet(own, es) = SumFunctionOnSet(CostOf, es)
    BY <1>1, <1>4, SumSame
<1>6. SumFunctionOnSet(CostOf, es) \in Nat
    BY <1>1, <1>2, SumOfNaturals
<1> QED
    BY <1>1, <1>2, <1>3, <1>5, <1>6

LEMMA CostOfPart ==
    ASSUME EpisodeInv, FlowInv, NEW es \in SUBSET edges, NEW some \in SUBSET es
    PROVE  Cost(some) <= Cost(es)
<1>1. some \in SUBSET edges
    OBVIOUS
<1>2. SumFunctionOnSet(CostOf, some) <= SumFunctionOnSet(CostOf, es)
    BY CostIs, SumOfPart
<1> QED
    BY <1>1, <1>2, CostIs

LEMMA CostOfTwo ==
    ASSUME EpisodeInv, FlowInv, NEW es \in SUBSET edges, NEW others \in SUBSET edges, es \cap others = {}
    PROVE  Cost(es \cup others) = Cost(es) + Cost(others)
<1>1. es \cup others \in SUBSET edges
    OBVIOUS
<1>2. IsFiniteSet(es) /\ IsFiniteSet(others) /\ \A e \in es \cup others : CostOf[e] \in Int
    BY <1>1, CostIs
<1>3. SumFunctionOnSet(CostOf, es \cup others)
          = SumFunctionOnSet(CostOf, es) + SumFunctionOnSet(CostOf, others)
    BY <1>2, SumUnion
<1> QED
    BY <1>1, <1>3, CostIs

\* What obligations are worth that some edges discharge.
Worth(es) == SumFunction([o \in obligations |-> o.weight * Best(es, o)])

LEMMA WorthIs ==
    ASSUME EpisodeInv, FlowInv, phase = "credited", NEW es \in SUBSET edges
    PROVE  /\ IsFiniteSet(obligations) /\ Worth(es) \in Nat
           /\ \A o \in obligations : o.weight \in 1..30 /\ o.weight * Best(es, o) \in Nat
           /\ \A o \in obligations : o.weight * Best(es, o) <= Worth(es)
<1> DEFINE f == [o \in obligations |-> o.weight * Best(es, o)]
<1>1. obligations \in Decompositions
    BY DEF FlowInv
<1>2. IsFiniteSet(obligations) /\ \A o \in obligations : o.weight \in 1..30
    BY <1>1, GradeAssumption
<1>3. ASSUME NEW o \in obligations
      PROVE  f[o] \in Nat
  <2> DEFINE w == o.weight
             best == Best(es, o)
  <2>1. w \in 1..30 /\ best \in 0..Full
      BY <1>2, BestIs
  <2>2. f[o] = w * best
      OBVIOUS
  <2> HIDE DEF w, best, f
  <2>3. w \in Nat /\ best \in Nat
      BY <2>1 DEF Full
  <2> QED
      BY <2>2, <2>3
<1>4. Worth(es) = SumFunctionOnSet(f, obligations)
    BY DEF Worth, SumFunction
<1>5. \A o \in obligations : f[o] = o.weight * Best(es, o)
    OBVIOUS
<1> HIDE DEF f
<1>6. SumFunctionOnSet(f, obligations) \in Nat
    BY <1>2, <1>3, SumOfNaturals
<1>7. ASSUME NEW o \in obligations
      PROVE  f[o] <= SumFunctionOnSet(f, obligations)
  <2>1. SumFunctionOnSet(f, {o}) <= SumFunctionOnSet(f, obligations)
    <3>1. {o} \in SUBSET obligations
        OBVIOUS
    <3> QED
        BY <1>2, <1>3, <3>1, SumOfPart
  <2>2. SumFunctionOnSet(f, {o}) = f[o]
    <3>1. f[o] \in Int
        BY <1>3
    <3> QED
        BY <3>1, SumOfOne
  <2> QED
      BY <2>1, <2>2
<1> QED
    BY <1>2, <1>3, <1>4, <1>5, <1>6, <1>7

LEMMA WorthGrows ==
    ASSUME EpisodeInv, FlowInv, phase = "credited",
           NEW es \in SUBSET edges, NEW more \in SUBSET edges, es \subseteq more
    PROVE  Worth(es) <= Worth(more)
<1> DEFINE f == [o \in obligations |-> o.weight * Best(es, o)]
           g == [o \in obligations |-> o.weight * Best(more, o)]
<1>1. ASSUME NEW o \in obligations
      PROVE  f[o] \in Int /\ g[o] \in Int /\ f[o] <= g[o]
  <2> DEFINE w == o.weight
             x == Best(es, o)
             y == Best(more, o)
  <2>1. w \in 1..30
      BY WorthIs
  <2>2. x \in 0..Full /\ y \in 0..Full /\ x <= y
      BY BestIs, BestGrows
  <2>3. f[o] = w * x /\ g[o] = w * y
      OBVIOUS
  <2> HIDE DEF w, x, y, f, g
  <2>4. w \in Nat /\ x \in Nat /\ y \in Nat
      BY <2>1, <2>2 DEF Full
  <2>5. w * x <= w * y
      BY <2>2, <2>4
  <2> QED
      BY <2>3, <2>4, <2>5
<1>2. Worth(es) = SumFunctionOnSet(f, obligations) /\ Worth(more) = SumFunctionOnSet(g, obligations)
    BY DEF Worth, SumFunction
<1> HIDE DEF f, g
<1> QED
    BY <1>1, <1>2, WorthIs, SumMonotonic

LEMMA PhiIs ==
    ASSUME EpisodeInv, FlowInv, phase = "credited", NEW i \in Int
    PROVE  /\ UpTo(edges, i) \in SUBSET edges
           /\ Phi(Flow, i) = Worth(UpTo(edges, i)) - Spent(UpTo(edges, i))
  BY DEF UpTo, Phi, Flow, Potential, Worth

\* The edges of one step.
OfStep(i) == {e \in edges : e.step = i}

LEMMA StepSpends ==
    ASSUME EpisodeInv, FlowInv, phase = "credited", NEW i \in 1..Len(records)
    PROVE  /\ Spent(UpTo(edges, i)) = Spent(UpTo(edges, i - 1)) + Spent(OfStep(i))
           /\ {Spent(UpTo(edges, i)), Spent(UpTo(edges, i - 1)), Spent(OfStep(i))} \subseteq Nat
<1> DEFINE valid(es) == {e \in es : e.valid}
<1>1. ASSUME NEW e \in edges
      PROVE  e.step \in Int
  <2>1. PICK k \in DOMAIN records : IsEdge(e, k)
      BY EdgesAre
  <2> QED
      BY <2>1 DEF IsEdge, EpisodeInv
<1>2. valid(UpTo(edges, i)) = valid(UpTo(edges, i - 1)) \cup valid(OfStep(i))
  <2>1. \A s \in Int : s <= i <=> s <= i - 1 \/ s = i
      OBVIOUS
  <2> QED
      BY <1>1, <2>1 DEF UpTo, OfStep
<1>3. valid(UpTo(edges, i - 1)) \cap valid(OfStep(i)) = {}
    BY DEF UpTo, OfStep
<1>4. valid(UpTo(edges, i - 1)) \in SUBSET edges /\ valid(OfStep(i)) \in SUBSET edges
      /\ valid(UpTo(edges, i)) \in SUBSET edges
    BY DEF UpTo, OfStep
<1>5. \A es : Spent(es) = Cost(valid(es))
    BY DEF Spent
<1> HIDE DEF valid
<1>6. Cost(valid(UpTo(edges, i))) = Cost(valid(UpTo(edges, i - 1))) + Cost(valid(OfStep(i)))
    BY <1>2, <1>3, <1>4, CostOfTwo
<1> QED
    BY <1>4, <1>5, <1>6, CostIs

\* A first step is paid against a potential of 0.
LEMMA DeltaIs ==
    ASSUME EpisodeInv, FlowInv, phase = "credited", NEW i \in 1..Len(records)
    PROVE  StepCredit(Flow, i).delta
               = Worth(UpTo(edges, i)) - Worth(UpTo(edges, i - 1)) - Spent(OfStep(i))
<1>1. i \in Int /\ i - 1 \in Int
    OBVIOUS
<1>2. StepCredit(Flow, i).delta = Phi(Flow, i) - (IF i = 1 THEN 0 ELSE Phi(Flow, i - 1))
    BY DEF StepCredit
<1>3. i = 1 => Phi(Flow, i - 1) = 0
  <2> SUFFICES ASSUME i = 1
               PROVE  Phi(Flow, 0) = 0
      OBVIOUS
  <2>1. UpTo(edges, 0) = {}
    <3> SUFFICES ASSUME NEW e \in edges, e.step <= 0
                 PROVE  FALSE
        BY DEF UpTo
    <3>1. PICK k \in DOMAIN records : IsEdge(e, k)
        BY EdgesAre
    <3> QED
        BY <3>1 DEF IsEdge, EpisodeInv
  <2>2. Spent({}) = 0
    <3>1. {e \in {} : e.valid} = {}
        OBVIOUS
    <3> QED
        BY <3>1, SumEmpty DEF Spent, Cost, SumFunction
  <2>3. Worth({}) = 0
    <3> DEFINE f == [o \in obligations |-> o.weight * Best({}, o)]
    <3>1. ASSUME NEW o \in obligations
          PROVE  f[o] = 0
      <4>1. DischargeOf({}, o) = {}
          BY DEF DischargeOf
      <4>2. {} \in SUBSET edges
          OBVIOUS
      <4>3. Best({}, o) = 0
          BY <4>1, BestIs
      <4>4. o.weight \in 1..30
          BY <4>2, WorthIs
      <4> DEFINE w == o.weight
      <4>5. f[o] = w * 0
          BY <4>3
      <4>6. w \in 1..30
          BY <4>4
      <4> HIDE DEF w, f
      <4> QED
          BY <4>5, <4>6
    <3>2. Worth({}) = SumFunctionOnSet(f, obligations)
        BY DEF Worth, SumFunction
    <3> HIDE DEF f
    <3> QED
        BY <3>1, <3>2, FiniteEdges, SumZero
  <2>4. Phi(Flow, 0) = Worth({}) - Spent({})
      BY <2>1, PhiIs
  <2> HIDE DEF Worth
  <2> QED
      BY <2>2, <2>3, <2>4
<1>4. StepCredit(Flow, i).delta = Phi(Flow, i) - Phi(Flow, i - 1)
  <2> DEFINE x == Phi(Flow, i)
             y == Phi(Flow, i - 1)
  <2>1. x \in Int /\ y \in Int
      BY <1>1, PhiIs, WorthIs, StepSpends
  <2> HIDE DEF x, y
  <2> QED
      BY <1>2, <1>3, <2>1 DEF x, y
<1> DEFINE a == Worth(UpTo(edges, i))
           b == Worth(UpTo(edges, i - 1))
           c == Spent(UpTo(edges, i))
           d == Spent(UpTo(edges, i - 1))
           s == Spent(OfStep(i))
<1>5. Phi(Flow, i) = a - c /\ Phi(Flow, i - 1) = b - d
    BY <1>1, PhiIs
<1>6. a \in Int /\ b \in Int /\ c \in Int /\ d \in Int /\ s \in Int /\ c = d + s
    BY <1>1, PhiIs, WorthIs, StepSpends
<1> HIDE DEF a, b, c, d, s
<1>7. (a - c) - (b - d) = a - b - s
    BY <1>6
<1> QED
    BY <1>4, <1>5, <1>7 DEF a, b, s

LEMMA CreditIs ==
    ASSUME EpisodeInv, FlowInv, NEW i \in Steps
    PROVE  phase = "credited" /\ i \in 1..Len(records) /\ credits[i] = StepCredit(Flow, i)
<1>1. phase = "credited" /\ credits = [k \in DOMAIN records |-> StepCredit(Flow, k)]
    BY DEF FlowInv, Steps
<1> QED
    BY <1>1 DEF Steps, EpisodeInv

LEMMA PotentialsKept == EpisodeInv /\ FlowInv => PotentialKept
<1> SUFFICES ASSUME EpisodeInv, FlowInv, NEW i \in Steps
             PROVE  credits[i].delta >= - Cost(OfStep(i))
    BY DEF PotentialKept, OfStep
<1> DEFINE before == UpTo(edges, i - 1)
           after == UpTo(edges, i)
<1>1. phase = "credited" /\ i \in 1..Len(records) /\ credits[i] = StepCredit(Flow, i)
    BY CreditIs
<1>2. before \subseteq after /\ after \subseteq edges /\ OfStep(i) \subseteq edges
  <2>1. ASSUME NEW e \in edges
        PROVE  e.step \in Int
    <3>1. PICK k \in DOMAIN records : IsEdge(e, k)
        BY EdgesAre
    <3> QED
        BY <3>1 DEF IsEdge, EpisodeInv
  <2>2. \A s \in Int : s <= i - 1 => s <= i
      BY <1>1
  <2> QED
      BY <2>1, <2>2 DEF UpTo, OfStep
<1>3. Worth(before) <= Worth(after)
    BY <1>1, <1>2, WorthGrows
<1>4. Spent(OfStep(i)) <= Cost(OfStep(i))
    BY <1>2, CostOfPart DEF Spent
<1>5. credits[i].delta = Worth(after) - Worth(before) - Spent(OfStep(i))
    BY <1>1, DeltaIs
<1>6. /\ Worth(before) \in Int /\ Worth(after) \in Int
      /\ Spent(OfStep(i)) \in Int /\ Cost(OfStep(i)) \in Int
    BY <1>1, <1>2, WorthIs, StepSpends, CostIs
<1> HIDE DEF before, after
<1> QED
    BY <1>3, <1>4, <1>5, <1>6

\* A step is never charged more than the cost of its own edges: what earlier
\* steps discharged stays discharged.
THEOREM AlwaysPotentialKept == Spec => []PotentialKept
<1>1. Init => EpisodeInv /\ FlowInv
    BY EpisodeInit, FlowInit
<1>2. EpisodeInv /\ FlowInv /\ [Next]_vars => EpisodeInv' /\ FlowInv'
    BY EpisodeStep, FlowStep
<1> QED
    BY <1>1, <1>2, PotentialsKept, PTL DEF Spec

-----------------------------------------------------------------------------
(* What the verifier saw completed *)

\* The edge of a completed subtask discharges it.
LEMMA CompletedIs ==
    ASSUME EpisodeInv, FlowInv, phase = "credited", NEW o \in DOMAIN checks, checks[o].completed
    PROVE  /\ o \in obligations /\ checks[o].score \in 0..Full
           /\ \E e \in DischargeOf(edges, o) : e.score = checks[o].score
<1>1. PICK judged \in SUBSET Subtasks :
          checks \in [judged -> Checks] /\ edges = Graph(records, obligations) \cup CheckEdges(records, checks)
    BY DEF FlowInv
<1>2. o \in judged /\ o \in obligations
    BY <1>1 DEF Subtasks, SubtasksOf
<1>3. checks[o].score \in 0..Full
    BY <1>1, <1>2, GradeAssumption DEF Full
<1> DEFINE e == CheckEdge(records, o, checks[o])
<1>4. e \in edges
    BY <1>1, <1>2 DEF CheckEdges
<1>5. e.kind = "discharge" /\ e.dst = o /\ e.valid = checks[o].completed /\ e.score = checks[o].score
    BY DEF CheckEdge, Edge
<1>6. e \in DischargeOf(edges, o)
    BY <1>4, <1>5 DEF DischargeOf
<1> QED
    BY <1>2, <1>3, <1>5, <1>6

LEMMA CompletedCount == EpisodeInv /\ FlowInv => CompletedCounts
<1> SUFFICES ASSUME EpisodeInv, FlowInv, phase = "credited", NEW o \in DOMAIN checks, checks[o].completed
             PROVE  /\ credits[Len(credits)].phi + Spent(edges) >= o.weight * checks[o].score
                    /\ checks[o].score > 0 => o \notin Failed(Flow)
    BY DEF CompletedCounts
<1>1. PICK e \in DischargeOf(edges, o) : e.score = checks[o].score
    BY CompletedIs
<1>2. o \in obligations /\ checks[o].score \in 0..Full
    BY CompletedIs
<1>3. credits[Len(credits)].phi + Spent(edges) = Worth(edges)
  <2> DEFINE n == Len(records)
  <2>1. n \in Nat \ {0} /\ DOMAIN records = 1..n
      BY DEF EpisodeInv
  <2>2. credits = [i \in 1..n |-> StepCredit(Flow, i)]
      BY <2>1 DEF FlowInv
  <2> HIDE DEF n
  <2>3. Len(credits) = n /\ credits[n] = StepCredit(Flow, n)
      BY <2>1, <2>2
  <2>4. credits[Len(credits)].phi = Phi(Flow, n)
      BY <2>3 DEF StepCredit
  <2>5. UpTo(edges, n) = edges
    <3> SUFFICES ASSUME NEW x \in edges
                 PROVE  x.step <= n
        BY DEF UpTo
    <3>1. PICK k \in DOMAIN records : IsEdge(x, k)
        BY EdgesAre
    <3> QED
        BY <2>1, <3>1 DEF IsEdge
  <2>6. Phi(Flow, n) = Worth(edges) - Spent(edges)
      BY <2>1, <2>5, PhiIs
  <2> DEFINE worth == Worth(edges)
             spent == Spent(edges)
  <2>7. worth \in Int
      BY WorthIs
  <2>8. spent \in Int
    <3>1. {x \in edges : x.valid} \in SUBSET edges
        OBVIOUS
    <3> QED
        BY <3>1, CostIs DEF Spent
  <2> HIDE DEF worth, spent
  <2>9. (worth - spent) + spent = worth
      BY <2>7, <2>8
  <2> QED
      BY <2>4, <2>6, <2>9 DEF worth, spent
<1>4. o.weight * checks[o].score <= Worth(edges)
  <2> DEFINE w == o.weight
             score == checks[o].score
             best == Best(edges, o)
             worth == Worth(edges)
  <2>1. w * best <= worth /\ worth \in Nat /\ w \in 1..30
      BY <1>2, WorthIs
  <2>2. best \in 0..Full /\ score <= best
      BY <1>1, BestIs
  <2>3. score \in 0..Full
      BY <1>2
  <2> HIDE DEF w, score, best, worth
  <2>4. w \in Nat /\ score \in Nat /\ best \in Nat
      BY <2>1, <2>2, <2>3 DEF Full
  <2>5. w * score <= w * best /\ w * score \in Nat /\ w * best \in Nat
      BY <2>2, <2>4
  <2>6. w * score <= worth
      BY <2>1, <2>5
  <2> QED
      BY <2>6 DEF w, score, worth
<1>5. credits[Len(credits)].phi + Spent(edges) >= o.weight * checks[o].score
    BY <1>3, <1>4
<1>6. checks[o].score > 0 => o \notin Failed(Flow)
  <2>1. ASSUME checks[o].score > 0, o \in Failed(Flow)
        PROVE  FALSE
    <3>1. e.score = 0
        BY <1>1, <2>1 DEF Failed, Flow
    <3> QED
        BY <1>1, <2>1, <3>1
  <2> QED
      BY <2>1
<1> QED
    BY <1>5, <1>6

\* A subtask that the verifier saw completed is in the last potential with its
\* whole score, whatever step the verifier named.
THEOREM CompletedAlwaysCount == Spec => []CompletedCounts
<1>1. Init => EpisodeInv /\ FlowInv
    BY EpisodeInit, FlowInit
<1>2. EpisodeInv /\ FlowInv /\ [Next]_vars => EpisodeInv' /\ FlowInv'
    BY EpisodeStep, FlowStep
<1> QED
    BY <1>1, <1>2, CompletedCount, PTL DEF Spec

-----------------------------------------------------------------------------
(* Invalid noops *)

\* The feedback of a noop is the environment's, and it changes no place.
NoopInv ==
    /\ records = <<>> => place \notin Final
    /\ \A i \in DOMAIN records :
          records[i].next.noop => records[i].next = Noop /\ ~records[i].won

LEMMA NoopInit == NoopsWeighLittle /\ Init => NoopInv
  BY DEF Init, NoopInv, NoopsWeighLittle

LEMMA NoopStep == NoopsWeighLittle /\ EpisodeInv /\ NoopInv /\ [Next]_vars => NoopInv'
<1> SUFFICES ASSUME NoopsWeighLittle, EpisodeInv, NoopInv, [Next]_vars
             PROVE  NoopInv'
    OBVIOUS
<1>1. CASE Act
  <2>1. PICK text \in Responses[manager] :
            LET known == Names(text) /\ text.action \in Admissible[place]
                to == IF known THEN Result[<<place, text.action>>] ELSE place
                obs == IF known THEN Seen(to) ELSE Feedback
            IN  /\ place' = to
                /\ seen' = obs
                /\ records' = Append(records, Record(text, to, obs))
      BY <1>1 DEF Act
  <2> DEFINE known == Names(text) /\ text.action \in Admissible[place]
             n == Len(records)
             r == Record(text, place', seen')
  <2>2. records' = Append(records, r) /\ seen' = IF known THEN Seen(place') ELSE Feedback
      BY <2>1
  <2>3. ~known => place' = place
      BY <2>1
  <2>4. r.next = seen' /\ r.won = (place' \in Won)
      BY DEF Record
  <2>5. place \notin Won
      BY <1>1, WorldAssumption DEF Act, Over, NoopInv
  <2>6. r.next.noop => r.next = Noop /\ ~r.won
    <3>1. known => ~r.next.noop
        BY <2>2, <2>4 DEF Seen
    <3>2. ~known => r.next = Feedback /\ ~r.won
        BY <2>2, <2>3, <2>4, <2>5
    <3>3. Feedback.noop => Feedback = Noop
        BY DEF Feedback, Silent
    <3> QED
        BY <3>1, <3>2, <3>3
  <2> HIDE DEF r, known
  <2>7. records \in Seq(StepRecords) /\ n \in Nat /\ DOMAIN records = 1..n
      BY DEF EpisodeInv
  <2>8. DOMAIN records' = 1..(n + 1) /\ records'[n + 1] = r /\ \A i \in 1..n : records'[i] = records[i]
      BY <2>2, <2>7
  <2>9. records' # <<>>
      BY <2>7, <2>8
  <2> QED
      BY <2>6, <2>7, <2>8, <2>9 DEF NoopInv
<1>2. CASE Gather
  <2>1. records # <<>> /\ place' = place
      BY <1>2 DEF Gather, Over
  <2>2. CASE records' = records
      BY <2>1, <2>2 DEF NoopInv
  <2>3. CASE records' = [records EXCEPT ![Len(records)].next = SuccessObs]
    <3>1. DOMAIN records' = DOMAIN records
        BY <2>3
    <3>2. ASSUME NEW i \in DOMAIN records
          PROVE  records'[i].next.noop => records'[i].next = Noop /\ ~records'[i].won
      <4>1. records[i] \in StepRecords
          BY DEF EpisodeInv
      <4>2. CASE i = Len(records)
        <5>1. records'[i] = [records[i] EXCEPT !.next = SuccessObs]
            BY <2>3, <4>2
        <5>2. records'[i].next = SuccessObs
            BY <4>1, <5>1 DEF StepRecords
        <5> QED
            BY <5>2 DEF SuccessObs
      <4>3. CASE i # Len(records)
          BY <2>3, <4>3 DEF NoopInv
      <4> QED
          BY <4>2, <4>3
    <3> QED
        BY <2>1, <3>1, <3>2 DEF NoopInv
  <2> QED
      BY <1>2, <2>2, <2>3 DEF Gather
<1>3. CASE UNCHANGED <<place, records>>
    BY <1>3 DEF NoopInv
<1> QED
    BY <1>1, <1>2, <1>3 DEF Next, Build, Verify, Credit, vars, episode

\* A step that the verifier named for a subtask.
Judged(i) == \E e \in edges : e.step = i /\ e.kind = "discharge" /\ e.dst \in Subtasks

\* A rejected action that did nothing.
InvalidNoop(i) == ~records[i].accepted /\ records[i].next.noop /\ ~Judged(i)

\* Its artifacts are worth little ...
LEMMA NoopArtifacts ==
    ASSUME EpisodeInv, NoopInv, NoopsWeighLittle, NEW i \in 1..Len(records), InvalidNoop(i),
           NEW a \in Artifacts(records[i], i)
    PROVE  /\ a.kind # "success_state"
           /\ a.kind = "object_state" => a.confidence = 300
           /\ a.kind = "env_action" => a.confidence = 0
           /\ a.kind = "action_effect" => a.confidence = 200
           /\ IsArtifact(a, i)
<1> DEFINE r == records[i]
<1>1. r \in StepRecords /\ r.next = Noop /\ ~r.won /\ ~r.accepted
    BY DEF EpisodeInv, NoopInv, InvalidNoop
<1>2. r.next.noop /\ ~r.next.success /\ r.next.words = Noop.words
    BY <1>1 DEF Noop
<1>3. ~NodeValid(r)
    BY <1>1 DEF NodeValid
<1>4. IsArtifact(a, i)
    BY <1>1, ArtifactsAre
<1> DEFINE A == Artifact(i, "observation_text", r.anchor.words, FALSE, Full)
           B == Artifact(i, "visible_objects", r.anchor.words, FALSE, Full)
           C == Artifact(i, "env_action", r.words, TRUE, IF NodeValid(r) THEN Full ELSE 0)
           D == Artifact(i, "action_effect", r.next.words, TRUE, IF r.next.noop THEN 200 ELSE Full)
           E == Artifact(i, "admissible_actions", {}, FALSE, Full)
           G == Artifact(i, "success_state", {}, TRUE, Full)
<1>5. Artifacts(r, i) = {A, B, C, D}
          \cup {E : x \in {y \in {r.lists} : y}}
          \cup OfStates(r, i)
          \cup {G : x \in {y \in {r.won \/ r.next.success} : y}}
    BY Zenon DEF Artifacts, OfStates, StateArtifact
<1>6. {y \in {r.won \/ r.next.success} : y} = {}
    BY <1>1, <1>2
<1>7. /\ A.kind = "observation_text" /\ B.kind = "visible_objects" /\ E.kind = "admissible_actions"
      /\ C.kind = "env_action" /\ C.confidence = 0
      /\ D.kind = "action_effect" /\ D.confidence = 200
    BY <1>2, <1>3 DEF Artifact
<1>8. ASSUME NEW b \in OfStates(r, i)
      PROVE  b.kind = "object_state" /\ b.confidence = 300
  <2>1. PICK w \in StateWords : b = Artifact(i, "object_state", {w}, TRUE,
                              IF w \in r.next.words \/ ~r.next.noop THEN Full ELSE 300)
      BY DEF OfStates, StateArtifact
  <2>2. w \notin r.next.words
      BY <1>2 DEF NoopsWeighLittle
  <2> QED
      BY <1>2, <2>1, <2>2 DEF Artifact
<1> HIDE DEF A, B, C, D, E, G, r
<1>9. a \in {A, B, C, D, E} \/ a \in OfStates(r, i)
    BY <1>5, <1>6 DEF r
<1> QED
    BY <1>4, <1>7, <1>8, <1>9

\* ... and discharge rules only, to less than a third.
LEMMA NoopDischarges ==
    ASSUME EpisodeInv, FlowInv, NoopInv, NoopsWeighLittle, phase = "credited",
           NEW i \in 1..Len(records), InvalidNoop(i),
           NEW o \in obligations, NEW e \in DischargeOf(edges, o), e.step = i
    PROVE  o.kind \in RuleKinds /\ e.score <= 300
<1>1. PICK judged \in SUBSET Subtasks :
          checks \in [judged -> Checks] /\ edges = Graph(records, obligations) \cup CheckEdges(records, checks)
    BY DEF FlowInv
<1>2. e \in edges /\ e.kind = "discharge" /\ e.dst = o
    BY DEF DischargeOf
<1>3. o \notin Subtasks
    BY <1>2 DEF InvalidNoop, Judged
<1>4. e \notin CheckEdges(records, checks)
  <2> SUFFICES ASSUME NEW p \in judged, e = CheckEdge(records, p, checks[p])
               PROVE  FALSE
      BY <1>1 DEF CheckEdges
  <2>1. e.dst = p
      BY DEF CheckEdge, Edge
  <2> QED
      BY <1>2, <1>3, <2>1
<1>5. PICK k \in DOMAIN records : e \in StepEdges(records[k], k, Handoffs(records, k), obligations)
    BY <1>1, <1>2, <1>4 DEF Graph
<1>6. k = i
    BY <1>5, EdgesOfStep
<1>7. e \in Discharge(records[i], i, obligations)
  <2>1. e \notin Production(records[i], i)
      BY <1>2 DEF Production, Edge
  <2>2. \A h : e \notin Consumption(records[i], i, h)
      BY <1>2 DEF Consumption, Edge
  <2>3. \A h : e \notin Transformation(records[i], i, h)
      BY <1>2 DEF Transformation, Edge
  <2> QED
      BY <1>5, <1>6, <2>1, <2>2, <2>3 DEF StepEdges
<1>8. PICK a \in Artifacts(records[i], i), p \in obligations :
          Discharges(a, p) /\ e = Edge("discharge", a, p, i, TRUE, DischargeScore(a, p), 0)
  <2>1. PICK p \in obligations :
            e \in {Edge("discharge", a, p, i, TRUE, DischargeScore(a, p), 0) :
                     a \in {b \in Artifacts(records[i], i) : Discharges(b, p)}}
      BY <1>7 DEF Discharge
  <2>2. PICK a \in {b \in Artifacts(records[i], i) : Discharges(b, p)} :
            e = Edge("discharge", a, p, i, TRUE, DischargeScore(a, p), 0)
      BY <2>1, Zenon
  <2> QED
      BY <2>2
<1>9. p = o /\ e.score = DischargeScore(a, o)
    BY <1>2, <1>8 DEF Edge
<1>10. /\ a.kind # "success_state"
       /\ a.kind = "object_state" => a.confidence = 300
       /\ a.kind = "env_action" => a.confidence = 0
       /\ a.kind = "action_effect" => a.confidence = 200
       /\ IsFiniteSet(a.words)
    BY NoopArtifacts DEF IsArtifact
<1>11. IsFiniteSet(o.target)
    BY GradeAssumption DEF FlowInv
<1>12. CASE o.kind = "state_transform"
  <2>1. a.kind \in {"object_state", "action_effect"}
      BY <1>8, <1>9, <1>12 DEF Discharges
  <2>2. e.score = IF a.kind = "object_state" THEN a.confidence ELSE a.confidence \div 2
      BY <1>9, <1>12 DEF DischargeScore
  <2>3. e.score = 300 \/ e.score = 200 \div 2
      BY <1>10, <2>1, <2>2
  <2> QED
      BY <1>12, <2>3 DEF RuleKinds
<1>13. CASE o.kind \in {"task_parse", "object_handoff"}
  <2>1. a.kind \in {"action_effect", "env_action"}
      BY <1>8, <1>9, <1>13 DEF Discharges
  <2> DEFINE x == Overlap(a.words, o.target)
             y == Larger(100, x)
             c == a.confidence
  <2>2. x \in 0..Full
      BY <1>10, <1>11, OverlapIs
  <2>3. e.score = (y * c) \div Full
      BY <1>9, <1>13 DEF DischargeScore
  <2>4. c = 0 \/ c = 200
      BY <1>10, <2>1
  <2> HIDE DEF x, c
  <2>5. y \in 0..1000
      BY <2>2 DEF Larger, Full
  <2> HIDE DEF y
  <2>6. (y * c) \div Full <= 300
    <3>1. y * c = 0 \/ y * c = 200 * y
        BY <2>4, <2>5
    <3>2. ASSUME NEW z, z = 0 \/ z = 200 * y
          PROVE  z \div 1000 <= 300
      <4>1. z \in Nat /\ z <= 200 * 1000
          BY <2>5, <3>2
      <4> QED
          BY <4>1
    <3> DEFINE z == y * c
    <3>3. z = 0 \/ z = 200 * y
        BY <3>1
    <3> HIDE DEF z
    <3>4. z \div 1000 <= 300
        BY <3>2, <3>3
    <3> QED
        BY <3>4 DEF z, Full
  <2> QED
      BY <1>13, <2>3, <2>6 DEF RuleKinds
<1>14. o.kind \in {"state_transform", "task_parse", "object_handoff"}
    BY <1>8, <1>9, <1>10 DEF Discharges
<1> QED
    BY <1>12, <1>13, <1>14


LEMMA NoopBest ==
    ASSUME EpisodeInv, FlowInv, NoopInv, NoopsWeighLittle, phase = "credited",
           NEW i \in 1..Len(records), InvalidNoop(i), NEW o \in obligations
    PROVE  Best(UpTo(edges, i), o)
               <= Best(UpTo(edges, i - 1), o) + (IF o.kind \in RuleKinds THEN 300 ELSE 0)
<1> DEFINE before == Best(UpTo(edges, i - 1), o)
           after == Best(UpTo(edges, i), o)
           more == IF o.kind \in RuleKinds THEN 300 ELSE 0
<1>1. UpTo(edges, i) \in SUBSET edges /\ UpTo(edges, i - 1) \in SUBSET edges
    BY DEF UpTo
<1>2. before \in 0..Full /\ after \in 0..Full
    BY <1>1, BestIs
<1>3. before \in Nat /\ after \in Nat /\ more \in Nat
  <2>1. more \in {0, 300}
      OBVIOUS
  <2> HIDE DEF before, after, more
  <2> QED
      BY <1>2, <2>1 DEF Full
<1>4. CASE after = 0
  <2> HIDE DEF before, after, more
  <2> QED
      BY <1>3, <1>4 DEF before, after, more
<1>5. CASE \E e \in DischargeOf(UpTo(edges, i), o) : e.score = after
  <2>1. PICK e \in DischargeOf(UpTo(edges, i), o) : e.score = after
      BY <1>5
  <2>2. e \in edges /\ e.step <= i /\ e \in DischargeOf(edges, o)
      BY <2>1 DEF DischargeOf, UpTo
  <2>3. e.step \in Int
    <3>1. PICK k \in DOMAIN records : IsEdge(e, k)
        BY <2>2, EdgesAre
    <3> QED
        BY <3>1 DEF IsEdge, EpisodeInv
  <2>4. CASE e.step = i
    <3>1. o.kind \in RuleKinds /\ e.score <= 300
        BY <2>2, <2>4, NoopDischarges
    <3>2. more = 300
        BY <3>1
    <3> HIDE DEF before, after, more
    <3>3. after <= 300
        BY <2>1, <3>1
    <3>4. after <= before + more
        BY <1>3, <3>2, <3>3
    <3> QED
        BY <3>4 DEF before, after, more
  <2>5. CASE e.step # i
    <3>1. e.step <= i - 1
        BY <2>2, <2>3, <2>5
    <3>2. e \in DischargeOf(UpTo(edges, i - 1), o)
        BY <2>2, <3>1 DEF DischargeOf, UpTo
    <3>3. e.score <= before
        BY <1>1, <3>2, BestIs
    <3> HIDE DEF before, after, more
    <3>4. after <= before + more
        BY <1>3, <2>1, <3>3
    <3> QED
        BY <3>4 DEF before, after, more
  <2> QED
      BY <2>4, <2>5
<1> QED
    BY <1>1, <1>4, <1>5, BestIs

LEMMA NoopWorth ==
    ASSUME EpisodeInv, FlowInv, NoopInv, NoopsWeighLittle, phase = "credited",
           NEW i \in 1..Len(records), InvalidNoop(i)
    PROVE  Worth(UpTo(edges, i)) <= Worth(UpTo(edges, i - 1)) + 7500
<1> DEFINE before == UpTo(edges, i - 1)
           after == UpTo(edges, i)
           f == [o \in obligations |-> o.weight * Best(after, o)]
           g == [o \in obligations |-> o.weight * Best(before, o)]
           h == [o \in obligations |-> IF o.kind \in RuleKinds THEN 300 * o.weight ELSE 0]
           all == [o \in obligations |-> g[o] + h[o]]
           rules == {o \in obligations : o.kind \in RuleKinds}
           weights == [o \in rules |-> o.weight]
<1>1. after \in SUBSET edges /\ before \in SUBSET edges
    BY DEF UpTo
<1>2. IsFiniteSet(obligations) /\ IsFiniteSet(rules) /\ IsFiniteSet(obligations \ rules)
    BY FiniteEdges, FS_Subset
<1>3. ASSUME NEW o \in obligations
      PROVE  /\ f[o] \in Int /\ g[o] \in Int /\ h[o] \in Int
             /\ all[o] = g[o] + h[o] /\ f[o] <= all[o]
             /\ o \in rules => weights[o] \in Int /\ h[o] = 300 * weights[o]
             /\ o \notin rules => h[o] = 0
  <2> DEFINE w == o.weight
             x == Best(before, o)
             y == Best(after, o)
             more == IF o.kind \in RuleKinds THEN 300 ELSE 0
  <2>1. w \in 1..30
      BY <1>1, WorthIs
  <2>2. x \in 0..Full /\ y \in 0..Full
      BY <1>1, BestIs
  <2>3. y <= x + more
      BY NoopBest
  <2>4. more \in {0, 300} /\ (o \in rules <=> more = 300)
      OBVIOUS
  <2>5. f[o] = w * y /\ g[o] = w * x /\ all[o] = g[o] + h[o]
      OBVIOUS
  <2>6. o \in rules => weights[o] = w /\ h[o] = 300 * w
      OBVIOUS
  <2>7. o \notin rules => h[o] = 0
      OBVIOUS
  <2> HIDE DEF w, x, y, more, f, g, h, all, rules, weights
  <2>8. w \in Nat /\ x \in Nat /\ y \in Nat
      BY <2>1, <2>2 DEF Full
  <2>9. w * y \in Nat /\ w * x \in Nat /\ w * y <= w * (x + more) /\ w * (x + more) = w * x + w * more
      BY <2>3, <2>4, <2>8
  <2>10. h[o] = w * more /\ h[o] \in Nat
      BY <2>4, <2>6, <2>7, <2>8
  <2> QED
      BY <2>5, <2>6, <2>7, <2>8, <2>9, <2>10
<1>4. /\ Worth(after) = SumFunctionOnSet(f, obligations)
      /\ Worth(before) = SumFunctionOnSet(g, obligations)
    BY DEF Worth, SumFunction
<1>5. SumFunctionOnSet(weights, rules) <= 25
  <2>1. SumFunction([o \in {p \in obligations : p.kind \in RuleKinds} |-> o.weight]) <= 25
      BY DEF FlowInv, NoopsWeighLittle
  <2> QED
      BY <2>1 DEF SumFunction
<1>6. rules \cup (obligations \ rules) = obligations /\ rules \cap (obligations \ rules) = {}
    OBVIOUS
<1> HIDE DEF f, g, h, all, rules, weights
<1>7. SumFunctionOnSet(f, obligations) <= SumFunctionOnSet(all, obligations)
    BY <1>2, <1>3, SumMonotonic
<1>8. SumFunctionOnSet(all, obligations) = SumFunctionOnSet(g, obligations) + SumFunctionOnSet(h, obligations)
    BY <1>2, <1>3, SumPlus
<1>9. SumFunctionOnSet(h, obligations) = SumFunctionOnSet(h, rules) + SumFunctionOnSet(h, obligations \ rules)
    BY <1>2, <1>3, <1>6, SumUnion
<1>10. SumFunctionOnSet(h, rules) = 300 * SumFunctionOnSet(weights, rules)
    BY <1>2, <1>3, <1>6, SumTimes
<1>11. SumFunctionOnSet(h, obligations \ rules) = 0
    BY <1>2, <1>3, SumZero
<1>12. SumFunctionOnSet(weights, rules) \in Int
    BY <1>2, <1>3, <1>6, SumType
<1>13. SumFunctionOnSet(f, obligations) \in Int /\ SumFunctionOnSet(g, obligations) \in Int
    BY <1>2, <1>3, SumType
<1> DEFINE a == SumFunctionOnSet(f, obligations)
           b == SumFunctionOnSet(g, obligations)
           c == SumFunctionOnSet(weights, rules)
           d == SumFunctionOnSet(all, obligations)
           k == SumFunctionOnSet(h, obligations)
<1>14. a \in Int /\ b \in Int /\ c \in Int /\ c <= 25 /\ k = 300 * c + 0 /\ d = b + k /\ a <= d
    BY <1>5, <1>7, <1>8, <1>9, <1>10, <1>11, <1>12, <1>13
<1>15. Worth(after) = a /\ Worth(before) = b
    BY <1>4
<1> HIDE DEF a, b, c, d, k, before, after
<1>16. a <= b + 7500
    BY <1>14
<1> QED
    BY <1>15, <1>16 DEF before, after

\* Its effect costs what an invalid action costs.
LEMMA NoopSpends ==
    ASSUME EpisodeInv, FlowInv, NoopInv, NoopsWeighLittle, phase = "credited",
           NEW i \in 1..Len(records), InvalidNoop(i)
    PROVE  Spent(OfStep(i)) >= 400
<1> DEFINE r == records[i]
           a == Artifact(i, "action_effect", r.next.words, TRUE, IF r.next.noop THEN 200 ELSE Full)
           e == Edge("production", ActionNode(i), a, i, a.confidence > 0, a.confidence, EdgeCost(r, a))
           valid == {x \in OfStep(i) : x.valid}
<1>1. a \in Produced(r, i)
  <2>1. a \in Artifacts(r, i)
      BY DEF Artifacts
  <2>2. a.produced
      BY DEF Artifact
  <2> QED
      BY <2>1, <2>2 DEF Produced
<1>2. a.confidence = 200 /\ a.kind = "action_effect"
    BY DEF Artifact, InvalidNoop
<1>3. EdgeCost(r, a) = 400
    BY DEF EdgeCost, InvalidNoop
<1> HIDE DEF a
<1>4. e \in edges
  <2>1. e \in Production(r, i)
      BY <1>1 DEF Production
  <2>2. e \in StepEdges(r, i, Handoffs(records, i), obligations)
    <3> HIDE DEF e
    <3> QED
        BY <2>1 DEF StepEdges
  <2> QED
      BY <2>2, GraphKept
<1>5. e.step = i /\ e.valid /\ e.cost = 400
  <2>1. e.step = i /\ e.cost = 400
      BY <1>3 DEF Edge
  <2>2. e.valid = (a.confidence > 0)
      BY DEF Edge
  <2>3. a.confidence > 0
      BY <1>2
  <2> QED
      BY <2>1, <2>2, <2>3
<1> HIDE DEF e
<1>6. e \in valid /\ valid \in SUBSET edges /\ {e} \in SUBSET valid /\ {e} \in SUBSET edges
    BY <1>4, <1>5 DEF OfStep
<1> HIDE DEF valid
<1>7. Cost({e}) <= Cost(valid)
    BY <1>6, CostOfPart
<1>8. Cost({e}) = 400
  <2>1. CostOf[e] = 400
      BY <1>4, <1>5 DEF CostOf
  <2>2. CostOf[e] \in Int
      BY <2>1
  <2>3. SumFunctionOnSet(CostOf, {e}) = CostOf[e]
      BY <2>2, SumOfOne
  <2> QED
      BY <1>6, <2>1, <2>3, CostIs
<1>9. Cost(valid) \in Nat
    BY <1>6, CostIs
<1>10. Spent(OfStep(i)) = Cost(valid)
    BY DEF Spent, valid
<1> QED
    BY <1>7, <1>8, <1>9, <1>10

\* It breaks by one and a half at least.
LEMMA NoopBreaks ==
    ASSUME EpisodeInv, FlowInv, NEW i \in 1..Len(records), InvalidNoop(i)
    PROVE  BreakPenalty(Flow, i) >= 1500
<1> DEFINE own == {e \in edges : e.step = i}
           broken == {e \in own : e.kind = "consumption" /\ ~e.valid}
           share == (Full * Cardinality(broken)) \div Larger(1, Cardinality(own))
<1>1. IsFiniteSet(own) /\ IsFiniteSet(broken)
    BY FiniteEdges, FS_Subset
<1>2. Cardinality(own) \in Nat /\ Cardinality(broken) \in Nat /\ Cardinality(broken) <= Cardinality(own)
    BY <1>1, FS_CardinalityType, FS_Subset
<1>3. share \in 0..Full
  <2> HIDE DEF own, broken
  <2>1. Larger(1, Cardinality(own)) \in Nat \ {0} /\ Cardinality(broken) <= Larger(1, Cardinality(own))
      BY <1>2 DEF Larger
  <2> QED
      BY <1>2, <2>1, ShareIs
<1> HIDE DEF share
<1>4. ~NodeValid(records[i]) /\ records[i].next.noop
    BY DEF InvalidNoop, NodeValid
<1>5. BreakPenalty(Flow, i) = Smaller(2 * Full, Full + share + 500)
    BY <1>4 DEF BreakPenalty, Flow, share
<1> QED
    BY <1>3, <1>5 DEF Smaller, Full

LEMMA InvalidNoopsPaid == NoopsWeighLittle /\ EpisodeInv /\ FlowInv /\ NoopInv => InvalidNoopPaid
<1> SUFFICES ASSUME NoopsWeighLittle, EpisodeInv, FlowInv, NoopInv, NEW i \in Steps, InvalidNoop(i)
             PROVE  credits[i].flow < 0
    BY DEF InvalidNoopPaid, InvalidNoop, Judged
<1>1. phase = "credited" /\ i \in 1..Len(records) /\ credits[i] = StepCredit(Flow, i)
    BY CreditIs
<1> DEFINE delta == StepCredit(Flow, i).delta
           waste == WastePenalty(Flow, i)
           break == BreakPenalty(Flow, i)
           cut == CutBlame(Flow, i)
           before == Worth(UpTo(edges, i - 1))
           after == Worth(UpTo(edges, i))
           spent == Spent(OfStep(i))
<1>2. credits[i].flow = delta - 2 * waste - 5 * break + 10 * cut
    BY <1>1 DEF StepCredit, FlowReward
<1>3. waste \in 0..Full /\ break \in 0..(2 * Full) /\ break >= 1500 /\ cut \in (-Full)..0
    BY <1>1, WasteIs, BreakIs, NoopBreaks, CutIs
<1>4. delta = after - before - spent
    BY <1>1, DeltaIs
<1>5. after <= before + 7500 /\ spent >= 400
    BY <1>1, NoopWorth, NoopSpends
<1>6. after \in Int /\ before \in Int /\ spent \in Int
  <2>1. UpTo(edges, i) \in SUBSET edges /\ UpTo(edges, i - 1) \in SUBSET edges
      BY DEF UpTo
  <2> QED
      BY <1>1, <2>1, WorthIs, StepSpends
<1> HIDE DEF delta, waste, break, cut, before, after, spent
<1>7. waste \in Int /\ waste >= 0 /\ break \in Int /\ cut \in Int /\ cut <= 0
    BY <1>3 DEF Full
<1> QED
    BY <1>2, <1>3, <1>4, <1>5, <1>6, <1>7

\* A rejected action that does nothing is paid negatively, however much the
\* steps before it earned and whatever the rest of the trajectory does, if the
\* rules it may still discharge in part weigh no more than 2.5.
THEOREM InvalidNoopAlwaysPaid == ASSUME NoopsWeighLittle PROVE Spec => []InvalidNoopPaid
<1>1. NoopsWeighLittle /\ Init => EpisodeInv /\ FlowInv /\ NoopInv
    BY EpisodeInit, FlowInit, NoopInit
<1>2. EpisodeInv /\ FlowInv /\ NoopInv /\ [Next]_vars => EpisodeInv' /\ FlowInv' /\ NoopInv'
    BY EpisodeStep, FlowStep, NoopStep
<1>3. EpisodeInv /\ FlowInv /\ NoopInv => InvalidNoopPaid
    BY InvalidNoopsPaid
<1> QED
    BY <1>1, <1>2, <1>3, PTL DEF Spec

=============================================================================
