---------------------------- MODULE MCFlowGraph ----------------------------
(* A kitchen for TLC, where the task is to heat an apple, and a question to *)
(* search an answer for: to how many degrees does one heat an apple.        *)
EXTENDS FlowGraph

Kitchen == {"hall", "fridge", "oven", "served"}
MCPlaces == Kitchen \cup {"question", "results", "right", "wrong"}
MCWon == {"served", "right"}
MCFinal == MCWon \cup {"wrong"}
MCStart == [m \in Managers |-> IF m = "alfworld" THEN "hall" ELSE "question"]

CookActions == {"take apple", "heat apple", "leave"}
SearchActions == {"how hot", "very hot", "cold"}
MCActions == CookActions \cup SearchActions \cup {"hmm"}

MCAdmissible ==
    [p \in MCPlaces |-> CASE p = "hall" -> {"take apple"}
                          [] p = "fridge" -> {"heat apple", "leave"}
                          [] p = "oven" -> {"leave"}
                          [] p \in {"question", "results"} -> SearchActions
                          [] OTHER -> {}]

MCResult ==
    [x \in MCPlaces \X MCActions |->
        CASE x = <<"hall", "take apple">> -> "fridge"
          [] x = <<"fridge", "heat apple">> -> "oven"
          [] x = <<"fridge", "leave">> -> "hall"
          [] x = <<"oven", "leave">> -> "served"
          [] x[2] = "how hot" -> "results"
          [] x[2] = "very hot" -> "right"
          [] x[2] = "cold" -> "wrong"
          [] OTHER -> x[1]]

MCReward == [p \in MCPlaces |-> IF p = "served" THEN 10 ELSE IF p = "right" THEN 1 ELSE 0]

MCObsWords ==
    [p \in MCPlaces |-> CASE p = "hall" -> {"door"}
                          [] p = "fridge" -> {"apple", "door"}
                          [] p = "oven" -> {"heat", "apple"}
                          [] p = "served" -> {"table"}
                          [] p = "question" -> {"heat", "apple", "degrees"}
                          [] p = "results" -> {"heat", "degrees"}
                          [] OTHER -> {}]

MCActionWords ==
    [a \in MCActions |-> CASE a = "take apple" -> {"apple"}
                           [] a = "heat apple" -> {"heat", "apple"}
                           [] a = "leave" -> {"door"}
                           [] a = "how hot" -> {"apple", "degrees"}
                           [] a = "very hot" -> {"degrees"}
                           [] OTHER -> {}]

MCTaskWords == {"heat", "apple"}
MCStateWords == {"heat"}

Rule(id, kind, target, weight) ==
    [id |-> id, kind |-> kind, target |-> target, weight |-> weight]
FinalSuccess == Rule("final", "final_success", {}, 30)

\* The target of a rule is a dictionary, and its keys are keywords too.
MCTaskTarget == MCTaskWords \cup {"task", "keywords"}

MCRules == {Rule("parse", "task_parse", MCTaskTarget, 5),
            Rule("state", "state_transform", {"heat"}, 10),
            Rule("handoff", "object_handoff", MCTaskTarget, 10),
            FinalSuccess}

MCSubtasks == {Rule("s1", "llm_subtask", {"apple"}, 10),
               Rule("s2", "llm_subtask", {"heat"}, 20),
               FinalSuccess}

Text(think, tags, blocks, action) ==
    [think |-> think, tags |-> tags, blocks |-> blocks, action |-> action]

\* To ALFWorld: well-formed answers, one without reasoning, and two without
\* tags, one of which ends in an admissible action.  To Search: the two kinds
\* of answer that its prompt asks for, one with action tags as well, one with
\* two blocks and one with none.
MCResponses ==
    [m \in Managers |->
        IF m = "alfworld"
        THEN {Text(TRUE, TRUE, 0, a) : a \in CookActions}
                 \cup {Text(FALSE, TRUE, 0, "heat apple"), Text(TRUE, FALSE, 0, "leave"),
                       Text(TRUE, FALSE, 0, "hmm")}
        ELSE {Text(TRUE, FALSE, 1, "how hot"), Text(TRUE, FALSE, 1, "cold"),
              Text(TRUE, TRUE, 1, "how hot"), Text(TRUE, TRUE, 1, "very hot"),
              Text(TRUE, FALSE, 2, "how hot"), Text(TRUE, TRUE, 0, "how hot")}]

\* Completed at a step, with a score or without, at a step that the
\* trajectory lacks, or not at all.
Check(done, at, grade) == [completed |-> done, step |-> at, score |-> grade]
MCChecks == {Check(TRUE, 2, 1000), Check(TRUE, 2, 0), Check(TRUE, 9, 100),
             Check(FALSE, 0, 0)}

\* What build_obligations returns without an LLM, and with one.
MCDecompositions == {MCRules, MCSubtasks}

\* ALFWorld's projection rewrites the answers in place, as do those of WebShop,
\* Sokoban and AppWorld; Search's does not.
MCManagers == {"alfworld", "search"}
OnlyAlfworld == {"alfworld"}

\* InvalidNoopPaid is proved from this.
ASSUME KitchenWeighsLittle == NoopsWeighLittle
=============================================================================
