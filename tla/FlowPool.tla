------------------------------ MODULE FlowPool ------------------------------
(***************************************************************************)
(* The flow of one batch: compute_flow_step_rewards hands the trajectories *)
(* to a pool of threads.  A thread finds the obligations of its trajectory *)
(* (offline file, LLM, or rules) and the checks of its subtasks (LLM or    *)
(* heuristic).  Threads share the LLM cache on disk and the counters of    *)
(* llm_client; every LLM call may answer, answer badly or fail.            *)
(***************************************************************************)
EXTENDS Integers, FiniteSets, Sequences

CONSTANTS
    Workers,        \* threads there may be
    N,              \* the number of trajectories
    TaskOf,         \* [1..N -> task]: what decides the decomposition's cache key
    LogOf,          \* [1..N -> log]: what the verifier is shown of the actions
    OfflineTasks,   \* the tasks that the offline file has subtasks for
    Variants,       \* the usable answers an LLM may give to one question
    MaxRetries,     \* llm_max_retries
    ResponseFormat, \* llm_response_format_json
    Caching,        \* llm_cache_dir is set
    DiskMayFail,    \* reading or writing the cache may raise
    UseVerifier,    \* use_llm_verifier
    Settings        \* the settings of a batch: [threads, fallback, key, file], see below

Trajs == 1..N
Tasks == {TaskOf[t] : t \in Trajs}
Logs == {LogOf[t] : t \in Trajs}

ASSUME PoolAssumption ==
    /\ N \in Nat \ {0}
    /\ IsFiniteSet(Workers)
    /\ Settings \subseteq [threads : (SUBSET Workers) \ {{}}, fallback : BOOLEAN,
                        key : BOOLEAN, file : BOOLEAN]
    /\ DOMAIN TaskOf = Trajs /\ DOMAIN LogOf = Trajs
    /\ OfflineTasks \subseteq Tasks
    /\ Variants # {}
    /\ MaxRetries \in Int
ASSUME SwitchAssumption ==
    {ResponseFormat, Caching, DiskMayFail, UseVerifier} \subseteq BOOLEAN

\* range(max(1, max_retries + 1))
Attempts == IF MaxRetries < 0 THEN 1 ELSE MaxRetries + 1

Purposes == {"decompose", "verify"}
Counters == {"requests", "cache_hits", "errors"}

\* A JSON object without a usable subtask, and no answer at all.
Useless == "useless"
Nothing == "nothing"
OfflineAnswer == "offline"
Answers == Variants \cup {Useless}
Decompositions == Variants \cup {OfflineAnswer}

ASSUME VariantsAssumption ==
    Variants \cap {Useless, Nothing, OfflineAnswer, "rules"} = {}

Keys == ({"decompose"} \X Tasks) \cup ({"verify"} \X Logs \X Decompositions)

VARIABLES
    setting,        \* the settings; never changes
    queued,         \* the next trajectory of the executor's queue
    pc,             \* [worker -> where it is]
    item,           \* [worker -> its trajectory]
    purpose,        \* [worker -> what its LLM call is for]
    attempt,        \* [worker -> attempts made in this call]
    format,         \* [worker -> response_format is in the payload]
    answer,         \* [worker -> what the LLM answered]
    cache,          \* [key -> the answer stored on disk, or Nothing]
    stats,          \* _STATS
    unread,         \* history: [purpose -> calls that ended reading the cache]
    decomposition,  \* [trajectory -> the subtasks it is judged by, or rules]
    checks,         \* [trajectory -> who judged them]
    result,         \* [trajectory -> pending, settled or raised]: its future
    collected,      \* the results the main thread has taken, in order
    batch,          \* running, cancelled, done or failed
    reported        \* the counters get_llm_stats returned to the metrics

\* min(llm_verify_parallelism, trajectories)
Threads == setting.threads
Parallel == Cardinality(Threads) > 1

\* llm_fallback_to_rules
Fallback == setting.fallback

\* llm_api_key_env is set in the environment.
HasKey == setting.key

\* The offline file can be loaded.
HasFile == setting.file

worker == <<pc, item, purpose, attempt, format, answer>>
outcome == <<decomposition, checks, result>>
main == <<setting, collected, batch, reported>>
vars == <<queued, worker, cache, stats, unread, outcome, main>>

Zero == [p \in Purposes |-> [c \in Counters |-> 0]]

\* The cache may hold decompositions that earlier batches left there (bounds:
\* of tasks that the offline file does not have, and no verifications).
Init ==
    /\ setting \in Settings
    /\ queued = 1
    /\ pc = [w \in Workers |-> "idle"]
    /\ item = [w \in Workers |-> 1]
    /\ purpose = [w \in Workers |-> "decompose"]
    /\ attempt = [w \in Workers |-> 0]
    /\ format = [w \in Workers |-> ResponseFormat]
    /\ answer = [w \in Workers |-> Nothing]
    /\ \E old \in [Tasks -> Answers \cup {Nothing}] :
          /\ \A k \in Tasks : ~Caching \/ k \in OfflineTasks => old[k] = Nothing
          /\ cache = [k \in Keys |-> IF k[1] = "decompose" THEN old[k[2]] ELSE Nothing]
    /\ stats = Zero
    /\ unread = [p \in Purposes |-> 0]
    /\ decomposition = [t \in Trajs |-> Nothing]
    /\ checks = [t \in Trajs |-> Nothing]
    /\ result = [t \in Trajs |-> "pending"]
    /\ collected = 0
    /\ batch = "running"
    /\ reported = Zero

-----------------------------------------------------------------------------
(* What a thread does when its call, or its trajectory, ends.               *)

Goto(w, l) == pc' = [pc EXCEPT ![w] = l]

End(w, v) ==
    /\ result' = [result EXCEPT ![item[w]] = v]
    /\ Goto(w, "idle")

\* The rule obligations have no LLM subtask: nothing is left to verify.
UseRules(w) ==
    /\ decomposition' = [decomposition EXCEPT ![item[w]] = "rules"]
    /\ checks' = checks
    /\ purpose' = purpose
    /\ End(w, "settled")

UseHeuristic(w) ==
    /\ checks' = [checks EXCEPT ![item[w]] = "heuristic"]
    /\ UNCHANGED <<decomposition, purpose>>
    /\ End(w, "settled")

\* Subtasks of the offline file or of the LLM: they are verified next.
UseSubtasks(w, d) ==
    /\ decomposition' = [decomposition EXCEPT ![item[w]] = d]
    /\ IF UseVerifier
       THEN /\ purpose' = [purpose EXCEPT ![w] = "verify"]
            /\ Goto(w, "lookup")
            /\ UNCHANGED <<checks, result>>
       ELSE /\ checks' = [checks EXCEPT ![item[w]] = "heuristic"]
            /\ purpose' = purpose
            /\ End(w, "settled")

\* chat_json returned a: subtasks or checks are parsed out of it.
Return(w, a) ==
    IF purpose[w] = "decompose"
    THEN IF a \in Variants THEN UseSubtasks(w, a) ELSE UseRules(w)
    ELSE IF a \in Variants
         THEN /\ checks' = [checks EXCEPT ![item[w]] = "llm"]
              /\ UNCHANGED <<decomposition, purpose>>
              /\ End(w, "settled")
         ELSE UseHeuristic(w)

\* Mutant: only a decomposition falls back.
RaiseVerification(w) ==
    IF Fallback /\ purpose[w] = "decompose"
    THEN UseRules(w)
    ELSE /\ UNCHANGED <<decomposition, checks, purpose>>
         /\ End(w, "raised")

\* chat_json raised: try_build_llm_obligations and
\* verify_llm_subtasks_for_trajectory fall back or raise again.
Raise(w) ==
    IF Fallback
    THEN IF purpose[w] = "decompose" THEN UseRules(w) ELSE UseHeuristic(w)
    ELSE /\ UNCHANGED <<decomposition, checks, purpose>>
         /\ End(w, "raised")

Inc(p, c) == stats' = [stats EXCEPT ![p][c] = @ + 1] /\ UNCHANGED unread

-----------------------------------------------------------------------------
(* A thread.                                                                *)

\* Without a pool the trajectories are computed one by one and the first
\* that raises ends the loop.
Take(w) ==
    /\ pc[w] = "idle"
    /\ queued <= N
    /\ Parallel \/ \A t \in Trajs : result[t] # "raised"
    /\ queued' = queued + 1
    /\ item' = [item EXCEPT ![w] = queued]
    /\ purpose' = [purpose EXCEPT ![w] = "decompose"]
    /\ Goto(w, "offline")
    /\ UNCHANGED <<attempt, format, answer, cache, stats, unread, outcome, main>>

\* build_obligations asks the offline file before the LLM.
Offline(w) ==
    /\ pc[w] = "offline" /\ HasFile
    /\ IF TaskOf[item[w]] \in OfflineTasks
       THEN UseSubtasks(w, OfflineAnswer)
       ELSE Goto(w, "lookup") /\ UNCHANGED <<purpose, outcome>>
    /\ UNCHANGED <<queued, item, attempt, format, answer, cache, stats, unread, main>>

\* A file that cannot be loaded covers no task, or raises without the fallback.
OfflineFails(w) ==
    /\ pc[w] = "offline" /\ ~HasFile
    /\ IF Fallback THEN Goto(w, "lookup") /\ UNCHANGED result ELSE End(w, "raised")
    /\ UNCHANGED <<queued, item, purpose, attempt, format, answer, cache, stats, unread,
                   decomposition, checks, main>>

Key(w) ==
    LET t == item[w]
    IN  IF purpose[w] = "decompose" THEN <<"decompose", TaskOf[t]>>
                                    ELSE <<"verify", LogOf[t], decomposition[t]>>

\* get_llm_config raises before anything is looked up or counted.
NoKey(w) ==
    /\ pc[w] = "lookup"
    /\ ~HasKey
    /\ Raise(w)
    /\ UNCHANGED <<queued, item, attempt, format, answer, cache, stats, unread, main>>

\* An unreadable file of the cache raises outside the retry loop: not counted.
ReadFailed(w) ==
    /\ pc[w] = "lookup" /\ HasKey
    /\ Caching /\ DiskMayFail
    /\ unread' = [unread EXCEPT ![purpose[w]] = @ + 1]
    /\ Raise(w)
    /\ UNCHANGED <<queued, item, attempt, format, answer, cache, stats, main>>

CacheHit(w) ==
    /\ pc[w] = "lookup" /\ HasKey
    /\ cache[Key(w)] # Nothing
    /\ Inc(purpose[w], "cache_hits")
    /\ Return(w, cache[Key(w)])
    /\ UNCHANGED <<queued, item, attempt, format, answer, cache, main>>

CacheMiss(w) ==
    /\ pc[w] = "lookup" /\ HasKey
    /\ cache[Key(w)] = Nothing
    /\ attempt' = [attempt EXCEPT ![w] = 0]
    /\ format' = [format EXCEPT ![w] = ResponseFormat]
    /\ Goto(w, "post")
    /\ UNCHANGED <<queued, item, purpose, answer, cache, stats, unread, outcome, main>>

\* Mutant: one attempt too many.
RetryOnceMore(w) ==
    /\ attempt' = [attempt EXCEPT ![w] = @ + 1]
    /\ Goto(w, IF attempt[w] + 1 <= Attempts THEN "post" ELSE "giveup")

\* The except clauses of the retry loop.
Retry(w) ==
    /\ attempt' = [attempt EXCEPT ![w] = @ + 1]
    /\ Goto(w, IF attempt[w] + 1 < Attempts THEN "post" ELSE "giveup")

Answered(w) ==
    /\ pc[w] = "post"
    /\ \E a \in Answers : answer' = [answer EXCEPT ![w] = a]
    /\ Goto(w, "store")
    /\ UNCHANGED <<queued, item, purpose, attempt, format, cache, stats, unread, outcome, main>>

\* HTTP 400, 404 or 422: the next attempt goes without response_format.
FormatRejected(w) ==
    /\ pc[w] = "post"
    /\ format[w]
    /\ format' = [format EXCEPT ![w] = FALSE]
    /\ Retry(w)
    /\ UNCHANGED <<queued, item, purpose, answer, cache, stats, unread, outcome, main>>

\* Any other HTTP error, a timeout, or content that is no JSON object.
PostFailed(w) ==
    /\ pc[w] = "post"
    /\ Retry(w)
    /\ UNCHANGED <<queued, item, purpose, format, answer, cache, stats, unread, outcome, main>>

\* Mutant: the answer is used and never stored.
StoreNothing(w) ==
    /\ pc[w] = "store"
    /\ Goto(w, "count")
    /\ UNCHANGED <<queued, item, purpose, attempt, format, answer, cache, stats, unread, outcome, main>>

\* _write_cache renames a whole file into place.
Store(w) ==
    /\ pc[w] = "store"
    /\ cache' = IF Caching THEN [cache EXCEPT ![Key(w)] = answer[w]] ELSE cache
    /\ Goto(w, "count")
    /\ UNCHANGED <<queued, item, purpose, attempt, format, answer, stats, unread, outcome, main>>

\* Mutant: the request is counted before its answer is stored.
StoreFailedCounted(w) ==
    /\ pc[w] = "store"
    /\ Caching /\ DiskMayFail
    /\ Inc(purpose[w], "requests")
    /\ Retry(w)
    /\ UNCHANGED <<queued, item, purpose, format, answer, cache, outcome, main>>

\* Mutant: a failed write is retried without using up an attempt.
StoreFailedFree(w) ==
    /\ pc[w] = "store"
    /\ Caching /\ DiskMayFail
    /\ Goto(w, "post")
    /\ UNCHANGED <<queued, item, purpose, attempt, format, answer, cache, stats, unread, outcome, main>>

\* The write is inside the try of the request: the answer is thrown away.
StoreFailed(w) ==
    /\ pc[w] = "store"
    /\ Caching /\ DiskMayFail
    /\ Retry(w)
    /\ UNCHANGED <<queued, item, purpose, format, answer, cache, stats, unread, outcome, main>>

Count(w) ==
    /\ pc[w] = "count"
    /\ Inc(purpose[w], "requests")
    /\ Return(w, answer[w])
    /\ UNCHANGED <<queued, item, attempt, format, answer, cache, main>>

GiveUp(w) ==
    /\ pc[w] = "giveup"
    /\ Inc(purpose[w], "errors")
    /\ Raise(w)
    /\ UNCHANGED <<queued, item, attempt, format, answer, cache, main>>

Worker(w) ==
    \/ Take(w) \/ Offline(w) \/ OfflineFails(w)
    \/ NoKey(w) \/ ReadFailed(w) \/ CacheHit(w) \/ CacheMiss(w)
    \/ Answered(w) \/ FormatRejected(w) \/ PostFailed(w)
    \/ Store(w) \/ StoreFailed(w)
    \/ Count(w) \/ GiveUp(w)

-----------------------------------------------------------------------------
(* The main thread: list(executor.map(...)), then the metrics.              *)

\* Mutant: a result that is not there yet is taken.
CollectEarly ==
    /\ batch = "running"
    /\ collected < N
    /\ result[collected + 1] # "raised"
    /\ collected' = collected + 1
    /\ UNCHANGED <<queued, setting, worker, cache, stats, unread, outcome, batch, reported>>

Collect ==
    /\ batch = "running"
    /\ collected < N
    /\ result[collected + 1] = "settled"
    /\ collected' = collected + 1
    /\ UNCHANGED <<queued, setting, worker, cache, stats, unread, outcome, batch, reported>>

\* The result taken next raises: executor.map cancels what has not started.
Cancel ==
    /\ batch = "running"
    /\ collected < N
    /\ result[collected + 1] = "raised"
    /\ queued' = N + 1
    /\ batch' = "cancelled"
    /\ UNCHANGED <<setting, worker, cache, stats, unread, outcome, collected, reported>>

AllIdle == \A w \in Workers : pc[w] = "idle"

\* Mutant: shutdown(wait=False).
FailAtOnce ==
    /\ batch = "cancelled"
    /\ batch' = "failed"
    /\ UNCHANGED <<queued, setting, worker, cache, stats, unread, outcome, collected, reported>>

\* shutdown(wait=True) joins the threads before the exception goes on.
Fail ==
    /\ batch = "cancelled"
    /\ AllIdle
    /\ batch' = "failed"
    /\ UNCHANGED <<queued, setting, worker, cache, stats, unread, outcome, collected, reported>>

\* get_llm_stats(reset=True) after the pool is joined.
Report ==
    /\ batch = "running"
    /\ collected = N
    /\ batch' = "done"
    /\ reported' = stats
    /\ stats' = Zero
    /\ UNCHANGED <<queued, setting, worker, cache, unread, outcome, collected>>

Main == Collect \/ Cancel \/ Fail \/ Report

Next == Main \/ (\E w \in Threads : Worker(w))

\* Threads are scheduled; a request ends because urlopen has a timeout.
Fairness == WF_vars(Main) /\ \A w \in Workers : WF_vars(w \in Threads /\ Worker(w))

Spec == Init /\ [][Next]_vars
FairSpec == Spec /\ Fairness

-----------------------------------------------------------------------------
WorkerStates == {"idle", "offline", "lookup", "post", "store", "count", "giveup"}

\* The type invariant; an attempt is never made beyond the bound.
TypeOK ==
    /\ setting \in Settings
    /\ queued \in 1..(N + 1)
    /\ pc \in [Workers -> WorkerStates]
    /\ item \in [Workers -> Trajs]
    /\ purpose \in [Workers -> Purposes]
    /\ attempt \in [Workers -> 0..Attempts]
    /\ format \in [Workers -> BOOLEAN]
    /\ answer \in [Workers -> Answers \cup {Nothing}]
    /\ cache \in [Keys -> Answers \cup {Nothing}]
    /\ stats \in [Purposes -> [Counters -> Nat]]
    /\ unread \in [Purposes -> Nat]
    /\ decomposition \in [Trajs -> Decompositions \cup {"rules", Nothing}]
    /\ checks \in [Trajs -> {"llm", "heuristic", Nothing}]
    /\ result \in [Trajs -> {"pending", "settled", "raised"}]
    /\ collected \in 0..N
    /\ batch \in {"running", "cancelled", "done", "failed"}
    /\ reported \in [Purposes -> [Counters -> Nat]]

Total(s, p) == s[p]["requests"] + s[p]["cache_hits"] + s[p]["errors"]
Covered(t) == HasFile /\ TaskOf[t] \in OfflineTasks
JudgedBySubtasks == {t \in Trajs : decomposition[t] \in Decompositions}

\* The counters of a finished batch account for every LLM call of its threads,
\* once: one decomposition per trajectory the offline file does not cover, one
\* verification per trajectory judged by subtasks.  A missing key is not counted,
\* nor is a call that an unreadable cache ended.
StatsAccount ==
    batch = "done" /\ HasKey =>
        /\ Total(reported, "decompose") + unread["decompose"] =
             Cardinality({t \in Trajs : ~Covered(t)})
        /\ Total(reported, "verify") + unread["verify"] =
             IF UseVerifier THEN Cardinality(JudgedBySubtasks) ELSE 0

\* The README's "training can still run when LLM decomposition or verification
\* is unavailable": with the fallback no trajectory raises, and a finished batch
\* has obligations for each and a judgement of all subtasks.
AlwaysObliged ==
    /\ Fallback => \A t \in Trajs : result[t] # "raised"
    /\ batch = "done" =>
         \A t \in Trajs : /\ decomposition[t] # Nothing
                          /\ t \in JudgedBySubtasks <=> checks[t] # Nothing

\* Nothing of the batch runs any more when the trainer goes on or gives up:
\* no thread is left to write the cache or to count into the next batch.
QuietWhenOver == batch \in {"done", "failed"} => AllIdle /\ queued = N + 1

\* The trajectories of one task, which are normalised against one another, are
\* never judged by two different answers of the LLM, even if writing the cache
\* may fail: an answer that was not stored is not used.  Only without a pool:
\* two threads may both miss the cache.
SameDecomposition ==
    ~Parallel /\ Caching =>
        \A t, u \in Trajs :
            TaskOf[t] = TaskOf[u] /\ {decomposition[t], decomposition[u]} \subseteq Variants
                => decomposition[t] = decomposition[u]

\* A batch ends whatever the LLM does: done with the fallback.
Ends == <>(IF Fallback THEN batch = "done" ELSE batch \in {"done", "failed"})

Abstract == INSTANCE FlowBatch
                WITH batch <- IF batch = "cancelled" THEN "running" ELSE batch

\* A batch settles each trajectory once, ends done only with all of them
\* settled and failed only after one of them raised.
ImplementsFlowBatch == Abstract!Spec
=============================================================================
