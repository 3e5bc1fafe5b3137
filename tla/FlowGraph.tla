----------------------------- MODULE FlowGraph -----------------------------
(***************************************************************************)
(* One trajectory on its way to its step credits: the policy answers, the  *)
(* environment manager projects the answer and steps, the collector        *)
(* records the step, and when the episode is over build_flow_graph and     *)
(* compute_step_credits judge the records.  A text is the set of keywords  *)
(* it holds; scores are in thousandths, potentials in ten-thousandths.     *)
(***************************************************************************)
EXTENDS Integers, FiniteSets, Sequences, FiniteSetsExt, Functions

CONSTANTS
    Places,         \* the states of the environment
    Start,          \* [Managers -> Places]
    Won,            \* the places that win
    Final,          \* the places where the episode is done
    Admissible,     \* [Places -> set of actions]
    Result,         \* [Places \X actions -> Places]: where an action leads
    Reward,         \* [Places -> reward for entering it]
    ObsWords,       \* [Places -> keywords of its observation]
    ActionWords,    \* [actions -> keywords]
    TaskWords,      \* keywords of the task
    StateWords,     \* clean, heat, cool, slice
    Decompositions, \* what build_obligations may return: sets of [id, kind, target, weight]
    Responses,      \* [Managers -> what the policy may answer], see below
    Checks,         \* what the verifier may say of a subtask
    Managers,       \* the environment managers: alfworld, search
    MaxSteps

Actions == DOMAIN ActionWords

\* An answer: does it hold think tags, does it hold action tags, how many
\* search or answer blocks, and the action it names in them (in its last
\* characters when it has none).
Texts == [think : BOOLEAN, tags : BOOLEAN, blocks : 0..2, action : Actions]

ASSUME WorldAssumption ==
    /\ Managers \subseteq {"alfworld", "search"}
    /\ Start \in [Managers -> Places]
    /\ Won \subseteq Final /\ Final \subseteq Places
    /\ Admissible \in [Places -> SUBSET Actions]
    /\ Result \in [Places \X Actions -> Places]
    /\ Reward \in [Places -> Int]
    /\ Responses \in [Managers -> SUBSET Texts]
    /\ MaxSteps \in Nat \ {0}
ASSUME WordsAssumption ==
    /\ \A p \in Places : IsFiniteSet(ObsWords[p])
    /\ \A a \in Actions : IsFiniteSet(ActionWords[a])
    /\ IsFiniteSet(TaskWords)
ASSUME GradeAssumption ==
    /\ \A obs \in Decompositions :
          IsFiniteSet(obs) /\ \A o \in obs : o.weight \in 1..30 /\ IsFiniteSet(o.target)
    /\ Checks \subseteq [completed : BOOLEAN, step : Int, score : 0..1000]

Full == 1000        \* a score or a confidence of 1.0

VARIABLES
    manager,    \* the environment manager; never changes
    phase,      \* acting, gathered, built, verified or credited
    place,      \* the environment's state
    seen,       \* the current observation: anchor_obs of the next record
    records,    \* the StepRecords, in order of step
    obligations,\* graph.obligations
    edges,      \* graph.edges
    checks,     \* what the verifier said: [judged subtasks -> Checks]
    credits     \* the StepCredits

episode == <<manager, place, seen, records>>
flow == <<obligations, edges>>
vars == <<phase, episode, flow, checks, credits>>

\* The projection rewrites the list it is given.
InPlace == manager = "alfworld"

\* Its infos carry admissible_commands.
ListsAdmissible == manager = "alfworld"

SubtasksOf(obs) == {o \in obs : o.kind = "llm_subtask"}
Subtasks == SubtasksOf(obligations)

Seen(p) == [words |-> ObsWords[p], noop |-> FALSE, success |-> FALSE]
Noop == [words |-> {"nothing", "happens"}, noop |-> TRUE, success |-> FALSE]
Silent == [words |-> {}, noop |-> FALSE, success |-> FALSE]
SuccessObs == [words |-> {"success"}, noop |-> FALSE, success |-> TRUE]

Init ==
    /\ manager \in Managers
    /\ phase = "acting"
    /\ place = Start[manager]
    /\ seen = Seen(Start[manager])
    /\ records = <<>>
    /\ obligations = {}
    /\ edges = {}
    /\ checks = <<>>
    /\ credits = <<>>

-----------------------------------------------------------------------------
(* A step of the episode: projection, envs.step and the row it leaves.      *)

\* alfworld_projection: the text between the tags; without tags, the end of
\* the text.
Projected(text) == [text EXCEPT !.think = FALSE, !.tags = FALSE]

\* Whether the projection calls the answer valid; search_projection counts the
\* blocks and asks for no reasoning.
Accepted(text) ==
    IF manager = "alfworld" THEN text.tags /\ text.think ELSE text.blocks = 1

\* An answer without a block is the empty query to the search environment.
Names(text) == manager = "search" => text.blocks > 0

\* What the environment says to an action that it does not know.
Feedback == IF manager = "alfworld" THEN Noop ELSE Silent

\* text_actions is recorded after envs.step, and the projection may have
\* rewritten its elements.
RecordedText(text) == IF InPlace THEN Projected(text) ELSE text

NoAction == "no action"

\* parse_response: the action is what the tags of the recorded text enclose.
ParsedAction(text) == IF text.tags THEN text.action ELSE NoAction
ParsedWords(text) == IF text.tags THEN ActionWords[text.action] ELSE {}
ValidFormat(text) == text.tags /\ text.think

Record(text, to, obs) ==
    LET recorded == RecordedText(text)
    IN  [accepted |-> Accepted(text), format |-> ValidFormat(recorded),
         action |-> ParsedAction(recorded), words |-> ParsedWords(recorded),
         anchor |-> seen, next |-> obs, lists |-> ListsAdmissible,
         admissible |-> Admissible[to], won |-> to \in Won,
         reward |-> IF to = place THEN 0 ELSE Reward[to]]

\* The loop looks at done after a step.
Over == records # <<>> /\ (place \in Final \/ Len(records) = MaxSteps)

Act ==
    /\ phase = "acting" /\ ~Over
    /\ \E text \in Responses[manager] :
          LET known == Names(text) /\ text.action \in Admissible[place]
              to == IF known THEN Result[<<place, text.action>>] ELSE place
              obs == IF known THEN Seen(to) ELSE Feedback
          IN  /\ place' = to
              /\ seen' = obs
              /\ records' = Append(records, Record(text, to, obs))
    /\ UNCHANGED <<manager, phase, flow, checks, credits>>

EpisodeReward == SumFunction([i \in DOMAIN records |-> records[i].reward])

\* gather_rollout_data: the last observation of a rewarded episode.
Gather ==
    /\ phase = "acting" /\ Over
    /\ phase' = "gathered"
    /\ records' = IF EpisodeReward > 0
                  THEN [records EXCEPT ![Len(records)].next = SuccessObs] ELSE records
    /\ UNCHANGED <<manager, place, seen, flow, checks, credits>>

-----------------------------------------------------------------------------
(* AlfWorldExtractor, which serves every environment but WebShop.           *)

Larger(a, b) == IF a >= b THEN a ELSE b
Smaller(a, b) == IF a <= b THEN a ELSE b
Largest(S) == Max(S \cup {0})

Overlap(a, b) ==
    IF a = {} \/ b = {} THEN 0
    ELSE (Full * Cardinality(a \cap b)) \div Smaller(Cardinality(a), Cardinality(b))

\* ActionNode.valid
NodeValid(r) == r.accepted /\ r.format

\* produced: the artifact names the step's action as its producer.
Artifact(i, kind, words, produced, confidence) ==
    [step |-> i, kind |-> kind, words |-> words,
     produced |-> produced, confidence |-> confidence]

Task == Artifact(0, "task_intent", TaskWords, FALSE, Full)

Artifacts(r, i) ==
    LET states == {w \in StateWords : w \in r.words \cup r.next.words}
    IN  {Artifact(i, "observation_text", r.anchor.words, FALSE, Full),
         Artifact(i, "visible_objects", r.anchor.words, FALSE, Full),
         Artifact(i, "env_action", r.words, TRUE, IF NodeValid(r) THEN Full ELSE 0),
         Artifact(i, "action_effect", r.next.words, TRUE,
                  IF r.next.noop THEN 200 ELSE Full)}
        \cup {Artifact(i, "admissible_actions", {}, FALSE, Full) :
                 x \in {y \in {r.lists} : y}}
        \cup {Artifact(i, "object_state", {w}, TRUE,
                 IF w \in r.next.words \/ ~r.next.noop THEN Full ELSE 300) : w \in states}
        \cup {Artifact(i, "success_state", {}, TRUE, Full) :
                 x \in {y \in {r.won \/ r.next.success} : y}}

Produced(r, i) == {a \in Artifacts(r, i) : a.produced}

HandoffKinds == {"action_effect", "object_state", "success_state"}

\* Mutant: a step's artifacts are only handed on after the next step.
HandoffsLate(recs, i) ==
    UNION {{a \in Produced(recs[j], j) : a.kind \in HandoffKinds} : j \in 1..(i - 2)}

\* What earlier steps hand on: prior_handoff_artifacts when step i is reached.
Handoffs(recs, i) ==
    UNION {{a \in Produced(recs[j], j) : a.kind \in HandoffKinds} : j \in 1..(i - 1)}

-----------------------------------------------------------------------------
(* build_flow_graph: the edges of each kind that a record adds.             *)

Edge(kind, src, dst, i, valid, score, cost) ==
    [kind |-> kind, src |-> src, dst |-> dst, step |-> i,
     valid |-> valid, score |-> score, cost |-> cost]

ActionNode(i) == <<"action", i>>

\* lambda_cost (0.02) times _edge_cost, in ten-thousandths.
EdgeCost(r, a) ==
    IF ~r.accepted THEN 400 ELSE IF a.kind = "success_state" THEN 0 ELSE 100

Production(r, i) ==
    {Edge("production", ActionNode(i), a, i, a.confidence > 0, a.confidence,
          EdgeCost(r, a)) : a \in Produced(r, i)}

\* An empty action is contained in every admissible one.
Matches(r) == r.action = NoAction \/ r.action \in r.admissible

\* Mutant: whatever the answer, the artifact of the step before is consumed.
HandoffScoreUnguarded(r, a, i) ==
    Max({Overlap(a.words, r.anchor.words), Overlap(a.words, r.words),
         IF a.step = i - 1 THEN 500 ELSE 0})

\* _validate_prior_handoff; the reasoning names what the action names.
HandoffScore(r, a, i) ==
    IF ~NodeValid(r) THEN 0
    ELSE Max({Overlap(a.words, r.anchor.words), Overlap(a.words, r.words),
              IF a.step = i - 1 THEN 500 ELSE 0})

Consumption(r, i, handoffs) ==
    LET goal == Overlap(r.words, TaskWords)
        consume(a, valid, score) == Edge("consumption", a, ActionNode(i), i, valid, score, 0)
        own(kind) == {a \in Artifacts(r, i) : a.kind = kind}
    IN  {consume(Task, goal > 0 \/ i = 1, Larger(goal, IF i = 1 THEN 100 ELSE 0))}
        \cup {consume(a, NodeValid(r), IF NodeValid(r) THEN Full ELSE 0) :
                 a \in own("observation_text")}
        \cup {consume(a, Matches(r), IF Matches(r) THEN Full ELSE 0) :
                 a \in {b \in own("admissible_actions") : r.admissible # {}}}
        \cup {consume(a, HandoffScore(r, a, i) > 0, HandoffScore(r, a, i)) :
                 a \in handoffs}

Transformation(r, i, handoffs) ==
    {LET valid == c.valid /\ a.confidence > 0 /\ r.accepted
     IN  Edge("transformation", c.src, a, i, valid,
              IF valid THEN Smaller(c.score, a.confidence) ELSE 0, 0) :
        c \in Consumption(r, i, handoffs),
        a \in {b \in Produced(r, i) : b.kind # "env_action"}}

\* _verify_discharge for the rule obligations: what an artifact discharges ...
Discharges(a, o) ==
    \/ o.kind = "final_success" /\ a.kind = "success_state"
    \/ /\ o.kind = "state_transform" /\ o.target \subseteq a.words
       /\ a.kind \in {"object_state", "action_effect"}
    \/ /\ o.kind \in {"task_parse", "object_handoff"}
       /\ a.kind \in {"action_effect", "env_action"} /\ Overlap(a.words, o.target) > 0

\* ... and how far: an overlap counts for at least 0.1 of the confidence.
DischargeScore(a, o) ==
    CASE o.kind = "final_success" -> Full
      [] o.kind = "state_transform" ->
            IF a.kind = "object_state" THEN a.confidence ELSE a.confidence \div 2
      [] OTHER -> (Larger(100, Overlap(a.words, o.target)) * a.confidence) \div Full

Discharge(r, i, obs) ==
    UNION {{Edge("discharge", a, o, i, TRUE, DischargeScore(a, o), 0) :
               a \in {b \in Artifacts(r, i) : Discharges(b, o)}} :
           o \in obs \ SubtasksOf(obs)}

\* What record r adds as step i, given what is handed on to it.
StepEdges(r, i, handoffs, obs) ==
    Production(r, i) \cup Consumption(r, i, handoffs)
        \cup Transformation(r, i, handoffs) \cup Discharge(r, i, obs)

Graph(recs, obs) == UNION {StepEdges(recs[i], i, Handoffs(recs, i), obs) : i \in DOMAIN recs}

Build ==
    /\ phase = "gathered"
    /\ phase' = "built"
    /\ obligations' \in Decompositions
    /\ edges' = Graph(records, obligations')
    /\ UNCHANGED <<episode, checks, credits>>

\* _source_artifact_for_llm_check
Preferred == <<"success_state", "object_state", "action_effect">>
SourceOf(r, i) ==
    LET k == CHOOSE k \in DOMAIN Preferred :
                /\ \E a \in Artifacts(r, i) : a.kind = Preferred[k]
                /\ \A l \in 1..(k - 1) : \A a \in Artifacts(r, i) : a.kind # Preferred[l]
    IN  CHOOSE a \in Artifacts(r, i) : a.kind = Preferred[k]

\* A step the trajectory does not have, or no step, is the last one.
CheckedStep(recs, c) ==
    IF c.completed /\ c.step \in DOMAIN recs THEN c.step ELSE Len(recs)

CheckEdge(recs, o, c) ==
    LET i == CheckedStep(recs, c)
    IN  Edge("discharge", SourceOf(recs[i], i), o, i, c.completed, c.score, 0)

\* Mutant: a completed subtask whose step is unknown is passed over.
CheckEdgesKnown(recs, said) ==
    {CheckEdge(recs, o, said[o]) : o \in {p \in DOMAIN said : said[p].step \in DOMAIN recs}}

CheckEdges(recs, said) == {CheckEdge(recs, o, said[o]) : o \in DOMAIN said}

\* _add_llm_subtask_discharge_edges: the verifier may pass over a subtask.
Verify ==
    /\ phase = "built"
    /\ phase' = "verified"
    /\ \E judged \in SUBSET Subtasks : checks' \in [judged -> Checks]
    /\ edges' = edges \cup CheckEdges(records, checks')
    /\ UNCHANGED <<episode, obligations, credits>>

-----------------------------------------------------------------------------
(* compute_step_credits, of a graph g: [records, obligations, edges].       *)

Flow == [records |-> records, obligations |-> obligations, edges |-> edges]

DischargeOf(es, o) == {e \in es : e.kind = "discharge" /\ e.dst = o /\ e.valid}

\* The best score by which an obligation is discharged.
Best(es, o) == Largest({e.score : e \in DischargeOf(es, o)})

Cost(es) == SumFunction([e \in es |-> e.cost])

Spent(es) == Cost({e \in es : e.valid})

\* Weights are in tenths.
Potential(obs, es) == SumFunction([o \in obs |-> o.weight * Best(es, o)]) - Spent(es)

\* Mutant: compute_phi forgets what earlier steps discharged.
OnlyAt(es, s) == {e \in es : e.step = s}

\* Mutant: compute_phi already counts what later ones will.
WithLater(es, s) == es

UpTo(es, s) == {e \in es : e.step <= s}

\* compute_phi
Phi(g, s) == Potential(g.obligations, UpTo(g.edges, s))

Used(g, a) == \E e \in g.edges : e.kind # "production" /\ e.valid /\ e.src = a

Wasted(g, i) ==
    {a \in Produced(g.records[i], i) : ~Used(g, a) /\ a.kind # "success_state"}

WastePenalty(g, i) ==
    (Full * Cardinality(Wasted(g, i))) \div Larger(1, Cardinality(Produced(g.records[i], i)))

\* _break_penalty_for_step
BreakPenalty(g, i) ==
    LET own == {e \in g.edges : e.step = i}
        broken == {e \in own : e.kind = "consumption" /\ ~e.valid}
        invalid == IF NodeValid(g.records[i]) THEN 0 ELSE Full
        share == (Full * Cardinality(broken)) \div Larger(1, Cardinality(own))
        noop == IF g.records[i].next.noop THEN 500 ELSE 0
    IN  Smaller(2 * Full, invalid + share + noop)

Failed(g) == {o \in g.obligations : \A e \in DischargeOf(g.edges, o) : e.score = 0}

Broken(g) == {i \in DOMAIN g.records : BreakPenalty(g, i) > 0}

\* Mutant: the scored steps are sorted the other way round.
BlamedLeast(g) ==
    IF Broken(g) = {} THEN Len(g.records)
    ELSE CHOOSE i \in Broken(g) : \A j \in Broken(g) :
            \/ BreakPenalty(g, j) > BreakPenalty(g, i)
            \/ BreakPenalty(g, j) = BreakPenalty(g, i) /\ j >= i

\* _heuristic_cut_blame sorts (break score, step): the worst step, the
\* latest of equals; without a break the last step, with 0.5.
Blamed(g) ==
    IF Broken(g) = {} THEN Len(g.records)
    ELSE CHOOSE i \in Broken(g) : \A j \in Broken(g) :
            \/ BreakPenalty(g, j) < BreakPenalty(g, i)
            \/ BreakPenalty(g, j) = BreakPenalty(g, i) /\ j <= i

\* Mutant: the blame is not capped.
CutBlameUncapped(g, i) ==
    LET severity == IF BreakPenalty(g, i) > 0 THEN BreakPenalty(g, i) ELSE 500
    IN  IF Failed(g) = {} \/ i # Blamed(g) THEN 0
        ELSE - (250 * Cardinality(Failed(g)) + severity \div 4)

CutBlame(g, i) ==
    LET severity == IF BreakPenalty(g, i) > 0 THEN BreakPenalty(g, i) ELSE 500
    IN  IF Failed(g) = {} \/ i # Blamed(g) THEN 0
        ELSE - Smaller(Full, 250 * Cardinality(Failed(g)) + severity \div 4)

\* Mutant: the break penalty is added.
FlowRewardAddsBreak(delta, waste, break, cut) == delta - 2 * waste + 5 * break + 10 * cut

\* eta_waste is 0.2, rho_break 0.5.
FlowReward(delta, waste, break, cut) == delta - 2 * waste - 5 * break + 10 * cut

StepCredit(g, i) ==
    LET phi == Phi(g, i)
        delta == phi - (IF i = 1 THEN 0 ELSE Phi(g, i - 1))
        waste == WastePenalty(g, i)
        break == BreakPenalty(g, i)
        cut == CutBlame(g, i)
    IN  [phi |-> phi, delta |-> delta, waste |-> waste, break |-> break, cut |-> cut,
         flow |-> FlowReward(delta, waste, break, cut)]

Credit ==
    /\ phase = "verified"
    /\ phase' = "credited"
    /\ credits' = [i \in DOMAIN records |-> StepCredit(Flow, i)]
    /\ UNCHANGED <<episode, flow, checks>>

Next == Act \/ Gather \/ Build \/ Verify \/ Credit

Spec == Init /\ [][Next]_vars

-----------------------------------------------------------------------------
(* Properties.                                                              *)

TypeOK ==
    /\ manager \in Managers
    /\ obligations \in Decompositions \cup {{}}
    /\ phase \in {"acting", "gathered", "built", "verified", "credited"}
    /\ place \in Places
    /\ Len(records) <= MaxSteps
    /\ \A i \in DOMAIN records :
          /\ {records[i].accepted, records[i].format, records[i].won} \subseteq BOOLEAN
          /\ records[i].action \in Actions \cup {NoAction}
    /\ \A e \in edges :
          /\ e.kind \in {"production", "consumption", "transformation", "discharge"}
          /\ e.step \in DOMAIN records
          /\ e.score \in 0..Full /\ e.cost \in {0, 100, 400}
    /\ credits # <<>> <=> phase = "credited"
    /\ \A i \in DOMAIN credits :
          /\ credits[i].waste \in 0..Full
          /\ credits[i].break \in 0..(2 * Full)
          /\ credits[i].cut \in (-Full)..0

Steps == DOMAIN credits

\* A step takes nothing from the potential but its own cost: what was
\* discharged stays discharged (compute_phi's best over the edges so far).
PotentialKept ==
    \A i \in Steps : credits[i].delta >= - Cost({e \in edges : e.step = i})

\* The graph of records without subtasks.
FlowOf(recs) == [records |-> recs, obligations |-> obligations, edges |-> Graph(recs, obligations)]

\* Without subtasks the potential after a step is that of the trajectory cut
\* there: no later record changes it, and the 'success' that
\* gather_rollout_data writes over the last observation pays the last step.
NoHindsight ==
    Subtasks = {} =>
        \A i \in Steps : i < Len(records) =>
            credits[i].phi = Phi(FlowOf(SubSeq(records, 1, i)), i)

\* Blame falls on one step of a trajectory that left an obligation
\* undischarged, on none of one that did not, and no step broke more.
BlameOnce ==
    phase = "credited" =>
        LET blamed == {i \in Steps : credits[i].cut < 0}
        IN  /\ Cardinality(blamed) = IF Failed(Flow) = {} THEN 0 ELSE 1
            /\ \A i \in blamed, j \in Steps : credits[j].break <= credits[i].break

\* What the verifier saw completed counts, at a step of the trajectory, even
\* when it names a step that the trajectory does not have.
CompletedCounts ==
    phase = "credited" =>
        \A o \in DOMAIN checks : checks[o].completed =>
            /\ credits[Len(credits)].phi + Spent(edges)
                   >= o.weight * checks[o].score
            /\ checks[o].score > 0 => o \notin Failed(Flow)

\* "Was the artifact consumed by later actions?" (README.md:42)  What a step did
\* to the environment is no waste when the next action is valid; but where the
\* projection rewrites the answers no action is, and all that a step produces
\* is waste unless it discharges an obligation.
EffectUsed ==
    \A i \in Steps :
        /\ i + 1 \in Steps /\ NodeValid(records[i + 1])
               => \A a \in Wasted(Flow, i) : a.kind \notin HandoffKinds
        /\ InPlace
               => \A a \in Produced(records[i], i) : Used(Flow, a) =>
                      \E e \in edges : e.kind = "discharge" /\ e.valid /\ e.src = a

RuleKinds == {"task_parse", "object_handoff", "state_transform"}

\* What InvalidNoopPaid takes for granted: an episode does not begin won, the
\* feedback on a noop names no state, and the rules that such a step may still
\* discharge in part weigh no more than 2.5 together, which is what
\* build_alfworld_obligations gives a task that names one state.
NoopsWeighLittle ==
    /\ \A m \in Managers : Start[m] \notin Final
    /\ StateWords \cap Noop.words = {}
    /\ \A obs \in Decompositions :
          SumFunction([o \in {p \in obs : p.kind \in RuleKinds} |-> o.weight]) <= 25

\* test_invalid_noop_gets_negative_flow_reward: a rejected action that does
\* nothing is paid negatively, whatever came before, unless the verifier
\* found a subtask completed there.
InvalidNoopPaid ==
    \A i \in Steps :
        LET judged == \E e \in edges :
                e.step = i /\ e.kind = "discharge" /\ e.dst \in Subtasks
        IN  ~records[i].accepted /\ records[i].next.noop /\ ~judged
                => credits[i].flow < 0

\* "Action nodes: parsed tool calls": an answer that the projection accepted
\* is a valid action of the graph.
AcceptedIsValid ==
    phase # "acting" => \A i \in DOMAIN records :
        records[i].accepted => NodeValid(records[i])
=============================================================================
