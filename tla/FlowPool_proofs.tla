-------------------------- MODULE FlowPool_proofs ---------------------------
(***************************************************************************)
(* Proofs about FlowPool, for any number of threads and trajectories: its  *)
(* types, that no trajectory is left without obligations or judgement,     *)
(* that nothing runs when a batch is over, that it implements FlowBatch's  *)
(* safety, that one thread with a cache uses one answer for each task, and *)
(* that the counters account for every call.                               *)
(***************************************************************************)
EXTENDS FlowPool, FiniteSetTheorems, TLAPS

Busy(w) == pc[w] # "idle"

\* A thread works on a trajectory that was taken out of the queue, that is not
\* judged yet, and that no other thread works on.
ItemInv ==
    /\ \A w \in Workers : Busy(w) =>
          /\ item[w] < queued
          /\ result[item[w]] = "pending"
          /\ checks[item[w]] = Nothing
    /\ \A v, w \in Workers : Busy(v) /\ Busy(w) /\ item[v] = item[w] => v = w

\* Nothing is known of a trajectory that is still queued.
QueueInv ==
    \A t \in Trajs : t >= queued =>
        /\ result[t] = "pending"
        /\ decomposition[t] = Nothing
        /\ checks[t] = Nothing

\* A verification is asked for a trajectory that has subtasks; a request is
\* made within the bound, and its answer is there when it is used.
CallInv ==
    \A w \in Workers : Busy(w) =>
        /\ pc[w] = "offline" => purpose[w] = "decompose"
        /\ IF purpose[w] = "decompose"
           THEN decomposition[item[w]] = Nothing
           ELSE decomposition[item[w]] \in Decompositions
        /\ pc[w] \in {"post", "store"} => attempt[w] < Attempts
        /\ pc[w] \in {"store", "count"} => answer[w] \in Answers

Judged(d, c) == d # Nothing /\ (d \in Decompositions <=> c # Nothing)

\* A settled trajectory has obligations, and checks if these are subtasks.
ResultInv ==
    \A t \in Trajs :
        /\ result[t] = "settled" => Judged(decomposition[t], checks[t])
        /\ result[t] = "raised" => ~Fallback

\* What the main thread has seen when it goes on.
MainInv ==
    /\ \A t \in Trajs : t <= collected => result[t] = "settled"
    /\ batch = "done" => collected = N
    /\ batch \in {"cancelled", "failed"} =>
          queued = N + 1 /\ \E t \in Trajs : result[t] = "raised"
    /\ batch = "failed" => AllIdle

PoolInv == TypeOK /\ ItemInv /\ QueueInv /\ CallInv /\ ResultInv /\ MainInv

LEMMA AttemptsType == Attempts \in Nat \ {0}
BY PoolAssumption DEF Attempts

LEMMA InitInv == Init => PoolInv
<1> SUFFICES ASSUME Init PROVE PoolInv
  OBVIOUS
<1> USE PoolAssumption, SwitchAssumption, AttemptsType DEF Init
<1>1. TypeOK
  <2>1. cache \in [Keys -> Answers \cup {Nothing}]
    <3>1. PICK old \in [Tasks -> Answers \cup {Nothing}] :
             cache = [k \in Keys |-> IF k[1] = "decompose" THEN old[k[2]] ELSE Nothing]
      OBVIOUS
    <3>2. \A k \in Keys : k[1] = "decompose" => k[2] \in Tasks
      BY DEF Keys
    <3> QED
      BY <3>1, <3>2
  <2>2. Zero \in [Purposes -> [Counters -> Nat]]
    BY DEF Zero
  <2>3. format \in [Workers -> BOOLEAN]
    OBVIOUS
  <2> QED
    BY <2>1, <2>2, <2>3 DEF TypeOK, WorkerStates, Purposes, Trajs
<1>2. ItemInv /\ CallInv
  BY DEF ItemInv, CallInv, Busy
<1>3. QueueInv
  BY DEF QueueInv
<1>4. ResultInv
  BY DEF ResultInv
<1>5. MainInv
  BY DEF MainInv, Trajs
<1> QED
  BY <1>1, <1>2, <1>3, <1>4, <1>5 DEF PoolInv

\* A thread ends with the obligations d and the checks c of its trajectory.
LEMMA EndKeepsInv ==
  ASSUME PoolInv, NEW w \in Workers, Busy(w),
         NEW v \in {"settled", "raised"}, End(w, v),
         NEW d \in Decompositions \cup {"rules", Nothing},
         NEW c \in {"llm", "heuristic", Nothing},
         decomposition' = [decomposition EXCEPT ![item[w]] = d],
         checks' = [checks EXCEPT ![item[w]] = c],
         v = "settled" => Judged(d, c),
         v = "raised" => ~Fallback,
         stats' \in [Purposes -> [Counters -> Nat]],
         unread' \in [Purposes -> Nat],
         UNCHANGED <<queued, item, purpose, attempt, format, answer, cache, main>>
  PROVE  PoolInv'
<1> USE PoolAssumption DEF PoolInv, End, Goto
<1>1. TypeOK'
  BY DEF TypeOK, WorkerStates, main
<1>2. /\ pc'[w] = "idle"
      /\ \A u \in Workers : u # w => pc'[u] = pc[u] /\ (Busy(u) => item[u] # item[w])
      /\ item[w] \in Trajs /\ item[w] < queued /\ result[item[w]] = "pending"
      /\ item' = item /\ queued' = queued /\ purpose' = purpose
      /\ attempt' = attempt /\ answer' = answer
  BY DEF TypeOK, ItemInv, Busy
<1>3. /\ result'[item[w]] = v /\ decomposition'[item[w]] = d /\ checks'[item[w]] = c
      /\ \A t \in Trajs : t # item[w] =>
            /\ result'[t] = result[t]
            /\ decomposition'[t] = decomposition[t]
            /\ checks'[t] = checks[t]
  BY <1>2 DEF TypeOK
<1>4. \A u \in Workers : item[u] \in Trajs
  BY DEF TypeOK
<1>5. ItemInv'
  BY <1>2, <1>3, <1>4 DEF ItemInv, Busy
<1>6. QueueInv'
  BY <1>2, <1>3 DEF QueueInv, Trajs, TypeOK
<1>7. CallInv'
  BY <1>2, <1>3, <1>4 DEF CallInv, Busy
<1>8. ResultInv'
  BY <1>2, <1>3 DEF ResultInv, Fallback, main
<1>9. MainInv'
  BY <1>2, <1>3 DEF MainInv, AllIdle, main, Busy
<1> QED
  BY <1>1, <1>5, <1>6, <1>7, <1>8, <1>9

\* A thread goes on with its trajectory, perhaps with subtasks found for it.
LEMMA GoOnKeepsInv ==
  ASSUME PoolInv, NEW w \in Workers, Busy(w),
         NEW l \in WorkerStates \ {"idle"}, Goto(w, l),
         TypeOK',
         UNCHANGED <<queued, item, checks, result, main>>,
         \A t \in Trajs : t # item[w] => decomposition'[t] = decomposition[t],
         \A u \in Workers : u # w =>
            /\ purpose'[u] = purpose[u]
            /\ attempt'[u] = attempt[u]
            /\ answer'[u] = answer[u],
         l = "offline" => purpose'[w] = "decompose",
         IF purpose'[w] = "decompose"
         THEN decomposition'[item[w]] = Nothing
         ELSE decomposition'[item[w]] \in Decompositions,
         l \in {"post", "store"} => attempt'[w] < Attempts,
         l \in {"store", "count"} => answer'[w] \in Answers
  PROVE  PoolInv'
<1> USE PoolAssumption DEF PoolInv, Goto
<1>1. /\ pc'[w] = l /\ l # "idle"
      /\ \A u \in Workers : u # w => pc'[u] = pc[u] /\ (Busy(u) => item[u] # item[w])
      /\ item[w] \in Trajs /\ item[w] < queued /\ result[item[w]] = "pending"
  BY DEF TypeOK, ItemInv, Busy
<1>2. \A u \in Workers : item[u] \in Trajs
  BY DEF TypeOK
<1>3. ItemInv'
  BY <1>1 DEF ItemInv, Busy
<1>4. QueueInv'
  <2>0. queued \in 1..(N + 1)
    BY DEF TypeOK
  <2>1. \A t \in Trajs : t >= queued => t # item[w]
    <3> HIDE DEF PoolInv
    <3> QED
      BY <1>1, <2>0 DEF Trajs
  <2> QED
    BY <1>1, <2>1 DEF QueueInv
<1>5. CallInv'
  BY <1>1, <1>2 DEF CallInv, Busy
<1>6. ResultInv'
  BY <1>1 DEF ResultInv, Fallback, main
<1>7. MainInv'
  BY <1>1 DEF MainInv, AllIdle, main, Busy
<1> QED
  BY <1>3, <1>4, <1>5, <1>6, <1>7

LEMMA IncType ==
  ASSUME TypeOK, NEW p \in Purposes, NEW c \in Counters, Inc(p, c)
  PROVE  stats' \in [Purposes -> [Counters -> Nat]] /\ unread' \in [Purposes -> Nat]
BY DEF TypeOK, Inc

\* The answers are not confused with one another.
LEMMA AnswersDistinct ==
  /\ "rules" \notin Decompositions /\ Nothing \notin Decompositions
  /\ Useless \notin Variants /\ Nothing \notin Answers
BY VariantsAssumption DEF Decompositions, Answers, Useless, Nothing, OfflineAnswer

LEMMA BusyCall ==
  ASSUME PoolInv, NEW w \in Workers, Busy(w)
  PROVE  /\ item[w] \in Trajs /\ purpose[w] \in Purposes
         /\ checks[item[w]] = Nothing
         /\ purpose[w] = "decompose" => decomposition[item[w]] = Nothing
         /\ purpose[w] = "verify" => decomposition[item[w]] \in Decompositions
BY DEF PoolInv, TypeOK, ItemInv, CallInv, Purposes

LEMMA KeyType ==
  ASSUME PoolInv, NEW w \in Workers, Busy(w)
  PROVE  Key(w) \in Keys
<1>1. item[w] \in Trajs /\ TaskOf[item[w]] \in Tasks /\ LogOf[item[w]] \in Logs
  BY BusyCall DEF Tasks, Logs
<1>2. purpose[w] = "decompose" \/ purpose[w] = "verify"
  BY BusyCall DEF Purposes
<1> QED
  BY <1>1, <1>2, BusyCall DEF Key, Keys

LEMMA RulesKeepInv ==
  ASSUME PoolInv, NEW w \in Workers, Busy(w), UseRules(w), purpose[w] = "decompose",
         stats' \in [Purposes -> [Counters -> Nat]],
         unread' \in [Purposes -> Nat],
         UNCHANGED <<queued, item, attempt, format, answer, cache, main>>
  PROVE  PoolInv'
<1>1. checks' = [checks EXCEPT ![item[w]] = Nothing]
  BY BusyCall DEF UseRules, PoolInv, TypeOK
<1>2. Judged("rules", Nothing)
  BY AnswersDistinct DEF Judged, Nothing
<1> QED
  BY <1>1, <1>2, EndKeepsInv DEF UseRules

LEMMA HeuristicKeepsInv ==
  ASSUME PoolInv, NEW w \in Workers, Busy(w), UseHeuristic(w), purpose[w] = "verify",
         stats' \in [Purposes -> [Counters -> Nat]],
         unread' \in [Purposes -> Nat],
         UNCHANGED <<queued, item, attempt, format, answer, cache, main>>
  PROVE  PoolInv'
<1>1. /\ decomposition[item[w]] \in Decompositions
      /\ decomposition' = [decomposition EXCEPT ![item[w]] = decomposition[item[w]]]
  BY BusyCall DEF UseHeuristic, PoolInv, TypeOK
<1>2. Judged(decomposition[item[w]], "heuristic")
  BY <1>1, AnswersDistinct DEF Judged, Nothing
<1> QED
  BY <1>1, <1>2, EndKeepsInv DEF UseHeuristic

LEMMA SubtasksKeepInv ==
  ASSUME PoolInv, NEW w \in Workers, Busy(w), NEW d \in Decompositions,
         UseSubtasks(w, d), purpose[w] = "decompose",
         stats' \in [Purposes -> [Counters -> Nat]],
         unread' \in [Purposes -> Nat],
         UNCHANGED <<queued, item, attempt, format, answer, cache, main>>
  PROVE  PoolInv'
<1>1. CASE UseVerifier
  <2>1. item[w] \in Trajs
    BY BusyCall
  <2>2. TypeOK'
    BY <1>1, <2>1 DEF UseSubtasks, Goto, PoolInv, TypeOK, WorkerStates, Purposes, main
  <2>3. /\ purpose'[w] = "verify"
        /\ \A u \in Workers : u # w => purpose'[u] = purpose[u]
        /\ decomposition'[item'[w]] = d
        /\ \A t \in Trajs : t # item[w] => decomposition'[t] = decomposition[t]
    BY <1>1, <2>1 DEF UseSubtasks, PoolInv, TypeOK
  <2> QED
    BY <1>1, <2>1, <2>2, <2>3, GoOnKeepsInv DEF UseSubtasks, WorkerStates
<1>2. CASE ~UseVerifier
  <2>1. Judged(d, "heuristic")
    BY AnswersDistinct DEF Judged, Nothing
  <2> QED
    BY <1>2, <2>1, EndKeepsInv DEF UseSubtasks
<1> QED
  BY <1>1, <1>2

LEMMA ReturnKeepsInv ==
  ASSUME PoolInv, NEW w \in Workers, Busy(w), NEW a \in Answers, Return(w, a),
         stats' \in [Purposes -> [Counters -> Nat]],
         unread' \in [Purposes -> Nat],
         UNCHANGED <<queued, item, attempt, format, answer, cache, main>>
  PROVE  PoolInv'
<1>1. CASE purpose[w] = "decompose"
  BY <1>1, RulesKeepInv, SubtasksKeepInv DEF Return, Decompositions
<1>2. CASE purpose[w] = "verify" /\ a \in Variants
  <2>1. /\ decomposition[item[w]] \in Decompositions
        /\ decomposition' = [decomposition EXCEPT ![item[w]] = decomposition[item[w]]]
    BY <1>2, BusyCall DEF Return, PoolInv, TypeOK
  <2>2. Judged(decomposition[item[w]], "llm")
    BY <2>1, AnswersDistinct DEF Judged, Nothing
  <2> QED
    BY <1>2, <2>1, <2>2, EndKeepsInv DEF Return
<1>3. CASE purpose[w] = "verify" /\ a \notin Variants
  BY <1>3, HeuristicKeepsInv DEF Return
<1> QED
  BY <1>1, <1>2, <1>3, BusyCall DEF Purposes

LEMMA RaiseKeepsInv ==
  ASSUME PoolInv, NEW w \in Workers, Busy(w), Raise(w),
         stats' \in [Purposes -> [Counters -> Nat]],
         unread' \in [Purposes -> Nat],
         UNCHANGED <<queued, item, attempt, format, answer, cache, main>>
  PROVE  PoolInv'
<1>1. CASE Fallback
  BY <1>1, RulesKeepInv, HeuristicKeepsInv, BusyCall DEF Raise, Purposes
<1>2. CASE ~Fallback
  <2>1. /\ decomposition[item[w]] \in Decompositions \cup {"rules", Nothing}
        /\ decomposition' = [decomposition EXCEPT ![item[w]] = decomposition[item[w]]]
        /\ checks' = [checks EXCEPT ![item[w]] = Nothing]
    BY <1>2, BusyCall DEF Raise, PoolInv, TypeOK
  <2> QED
    BY <1>2, <2>1, EndKeepsInv DEF Raise
<1> QED
  BY <1>1, <1>2

LEMMA TakeKeepsInv ==
  ASSUME PoolInv, NEW w \in Workers, Take(w)
  PROVE  PoolInv'
<1> USE PoolAssumption DEF PoolInv, Take, Goto
<1>1. TypeOK'
  BY DEF TypeOK, WorkerStates, Purposes, Trajs, outcome, main
<1>2. /\ queued \in Trajs /\ queued' = queued + 1
      /\ pc'[w] = "offline" /\ item'[w] = queued /\ purpose'[w] = "decompose"
      /\ \A u \in Workers : u # w =>
            pc'[u] = pc[u] /\ item'[u] = item[u] /\ purpose'[u] = purpose[u]
      /\ attempt' = attempt /\ answer' = answer
      /\ decomposition' = decomposition /\ checks' = checks /\ result' = result
  BY DEF TypeOK, Trajs, outcome
<1>3. \A u \in Workers : item[u] \in Trajs
  BY DEF TypeOK
<1>4. ItemInv'
  <2>1. \A u \in Workers : Busy(u) => item[u] # queued
    BY <1>2, <1>3 DEF ItemInv, Trajs
  <2>2. result[queued] = "pending" /\ checks[queued] = Nothing
    BY <1>2 DEF QueueInv, Trajs
  <2> QED
    BY <1>2, <1>3, <2>1, <2>2 DEF ItemInv, Busy, Trajs
<1>5. QueueInv'
  BY <1>2 DEF QueueInv, Trajs
<1>6. CallInv'
  BY <1>2, <1>3 DEF CallInv, QueueInv, Busy, Trajs
<1>7. ResultInv'
  BY <1>2 DEF ResultInv, Fallback, main
<1>8. MainInv'
  BY <1>2 DEF MainInv, main, AllIdle, Trajs
<1> QED
  BY <1>1, <1>4, <1>5, <1>6, <1>7, <1>8

\* A thread goes on with its call; only the call's own bookkeeping changes.
LEMMA CallKeepsInv ==
  ASSUME PoolInv, NEW w \in Workers, Busy(w),
         NEW l \in WorkerStates \ {"idle", "offline"}, Goto(w, l),
         NEW n \in 0..Attempts, attempt' = [attempt EXCEPT ![w] = n],
         NEW a \in Answers \cup {Nothing}, answer' = [answer EXCEPT ![w] = a],
         format' \in [Workers -> BOOLEAN],
         cache' \in [Keys -> Answers \cup {Nothing}],
         UNCHANGED <<queued, item, purpose, stats, unread, outcome, main>>,
         l \in {"post", "store"} => n < Attempts,
         l \in {"store", "count"} => a \in Answers
  PROVE  PoolInv'
<1> USE DEF PoolInv, outcome
<1>1. TypeOK'
  BY DEF TypeOK, Goto, main
<1>2. /\ attempt'[w] = n /\ answer'[w] = a
      /\ \A u \in Workers : u # w => attempt'[u] = attempt[u] /\ answer'[u] = answer[u]
  BY DEF TypeOK
<1>3. IF purpose'[w] = "decompose"
      THEN decomposition'[item[w]] = Nothing
      ELSE decomposition'[item[w]] \in Decompositions
  BY DEF CallInv
<1> QED
  BY <1>1, <1>2, <1>3, GoOnKeepsInv

LEMMA WorkerKeepsInv ==
  ASSUME PoolInv, NEW w \in Workers, Worker(w)
  PROVE  PoolInv'
<1> USE PoolAssumption, SwitchAssumption, AttemptsType
<1>0. /\ attempt[w] \in 0..Attempts
      /\ attempt = [attempt EXCEPT ![w] = attempt[w]]
      /\ answer[w] \in Answers \cup {Nothing}
      /\ answer = [answer EXCEPT ![w] = answer[w]]
      /\ format \in [Workers -> BOOLEAN]
      /\ cache \in [Keys -> Answers \cup {Nothing}]
      /\ stats \in [Purposes -> [Counters -> Nat]]
      /\ unread \in [Purposes -> Nat]
  BY DEF PoolInv, TypeOK
<1>1. CASE Take(w)
  BY <1>1, TakeKeepsInv
<1>2. CASE Offline(w)
  <2>0. Busy(w) /\ purpose[w] = "decompose"
    BY <1>2 DEF Offline, Busy, PoolInv, CallInv
  <2>1. CASE TaskOf[item[w]] \in OfflineTasks
    BY <1>0, <1>2, <2>0, <2>1, SubtasksKeepInv DEF Offline, Decompositions
  <2>2. CASE TaskOf[item[w]] \notin OfflineTasks
    <3>1. /\ Goto(w, "lookup") /\ "lookup" \in WorkerStates \ {"idle", "offline"}
          /\ UNCHANGED <<queued, item, purpose, stats, unread, outcome, main>>
          /\ attempt' = [attempt EXCEPT ![w] = attempt[w]]
          /\ answer' = [answer EXCEPT ![w] = answer[w]]
          /\ format' \in [Workers -> BOOLEAN]
          /\ cache' \in [Keys -> Answers \cup {Nothing}]
      BY <1>0, <1>2, <2>2 DEF Offline, WorkerStates
    <3> QED
      BY <1>0, <2>0, <3>1, CallKeepsInv
  <2> QED
    BY <2>1, <2>2
<1>14. CASE OfflineFails(w) /\ Fallback
  <2>1. /\ Busy(w) /\ Goto(w, "lookup") /\ "lookup" \in WorkerStates \ {"idle", "offline"}
        /\ UNCHANGED <<queued, item, purpose, stats, unread, outcome, main>>
        /\ attempt' = [attempt EXCEPT ![w] = attempt[w]]
        /\ answer' = [answer EXCEPT ![w] = answer[w]]
        /\ format' \in [Workers -> BOOLEAN]
        /\ cache' \in [Keys -> Answers \cup {Nothing}]
    BY <1>0, <1>14 DEF OfflineFails, WorkerStates, outcome, Busy
  <2> QED
    BY <1>0, <2>1, CallKeepsInv
<1>15. CASE OfflineFails(w) /\ ~Fallback
  <2>0. Busy(w) /\ purpose[w] = "decompose"
    BY <1>15 DEF OfflineFails, Busy, PoolInv, CallInv
  <2>1. /\ decomposition[item[w]] \in Decompositions \cup {"rules", Nothing}
        /\ decomposition' = [decomposition EXCEPT ![item[w]] = decomposition[item[w]]]
        /\ checks' = [checks EXCEPT ![item[w]] = Nothing]
    BY <1>15, <2>0, BusyCall DEF OfflineFails, PoolInv, TypeOK
  <2> QED
    BY <1>0, <1>15, <2>0, <2>1, EndKeepsInv DEF OfflineFails
<1>16. CASE ReadFailed(w)
  <2>1. Busy(w) /\ purpose[w] \in Purposes
    BY <1>16, BusyCall DEF ReadFailed, Busy
  <2>2. stats' \in [Purposes -> [Counters -> Nat]] /\ unread' \in [Purposes -> Nat]
    BY <1>0, <1>16, <2>1 DEF ReadFailed
  <2> QED
    BY <1>16, <2>1, <2>2, RaiseKeepsInv DEF ReadFailed
<1>3. CASE NoKey(w)
  BY <1>0, <1>3, RaiseKeepsInv DEF NoKey, Busy
<1>4. CASE CacheHit(w)
  <2>1. Busy(w) /\ purpose[w] \in Purposes
    BY <1>4, BusyCall DEF CacheHit, Busy
  <2>2. cache[Key(w)] \in Answers
    BY <1>0, <1>4, <2>1, KeyType DEF CacheHit
  <2>3. stats' \in [Purposes -> [Counters -> Nat]] /\ unread' \in [Purposes -> Nat]
    BY <1>4, <2>1, IncType DEF CacheHit, Counters, PoolInv
  <2> QED
    BY <1>4, <2>1, <2>2, <2>3, ReturnKeepsInv DEF CacheHit
<1>5. CASE CacheMiss(w)
  <2>1. /\ Busy(w)
        /\ Goto(w, "post") /\ "post" \in WorkerStates \ {"idle", "offline"}
        /\ UNCHANGED <<queued, item, purpose, stats, unread, outcome, main>>
        /\ attempt' = [attempt EXCEPT ![w] = 0]
        /\ answer' = [answer EXCEPT ![w] = answer[w]]
        /\ cache' \in [Keys -> Answers \cup {Nothing}]
    BY <1>0, <1>5 DEF CacheMiss, Busy, WorkerStates
  <2>2. format' \in [Workers -> BOOLEAN]
    BY <1>0, <1>5 DEF CacheMiss
  <2>3. 0 \in 0..Attempts /\ 0 < Attempts
    OBVIOUS
  <2> QED
    BY <1>0, <2>1, <2>2, <2>3, CallKeepsInv
<1>6. CASE Answered(w)
  <2>1. Busy(w) /\ attempt[w] < Attempts
    BY <1>6 DEF Answered, Busy, PoolInv, CallInv
  <2> QED
    BY <1>0, <1>6, <2>1, CallKeepsInv DEF Answered, WorkerStates
<1>7. ASSUME Busy(w), Retry(w), pc[w] \in {"post", "store"},
             format' \in [Workers -> BOOLEAN],
             UNCHANGED <<queued, item, purpose, answer, cache, stats, unread, outcome, main>>
      PROVE  PoolInv'
  <2>1. attempt[w] < Attempts
    BY <1>7 DEF PoolInv, CallInv
  <2>2. attempt[w] + 1 \in 0..Attempts
    BY <1>0, <2>1
  <2> DEFINE l == IF attempt[w] + 1 < Attempts THEN "post" ELSE "giveup"
  <2>3. /\ Goto(w, l) /\ l \in WorkerStates \ {"idle", "offline"}
        /\ l \in {"post", "store"} => attempt[w] + 1 < Attempts
        /\ l \notin {"store", "count"}
        /\ UNCHANGED <<queued, item, purpose, stats, unread, outcome, main>>
        /\ attempt' = [attempt EXCEPT ![w] = attempt[w] + 1]
        /\ answer' = [answer EXCEPT ![w] = answer[w]]
        /\ cache' \in [Keys -> Answers \cup {Nothing}]
    BY <1>0, <1>7 DEF Retry, WorkerStates
  <2> HIDE DEF l
  <2>4. PICK n \in 0..Attempts : n = attempt[w] + 1
    BY <2>2
  <2>5. PICK a \in Answers \cup {Nothing} : a = answer[w]
    BY <1>0
  <2>6. attempt' = [attempt EXCEPT ![w] = n] /\ answer' = [answer EXCEPT ![w] = a]
    BY <2>3, <2>4, <2>5, Zenon
  <2>7. (l \in {"post", "store"} => n < Attempts) /\ (l \in {"store", "count"} => a \in Answers)
    BY <2>3, <2>4
  <2>8. /\ PoolInv /\ w \in Workers /\ Busy(w) /\ format' \in [Workers -> BOOLEAN]
        /\ UNCHANGED <<queued, item, purpose, stats, unread, outcome, main>>
    BY <1>0, <1>7
  <2> QED
    BY <2>3, <2>6, <2>7, <2>8, CallKeepsInv
<1>8. CASE FormatRejected(w)
  BY <1>0, <1>7, <1>8 DEF FormatRejected, Busy
<1>9. CASE PostFailed(w)
  BY <1>0, <1>7, <1>9 DEF PostFailed, Busy
<1>10. CASE Store(w)
  <2>1. Busy(w) /\ answer[w] \in Answers
    BY <1>10 DEF Store, Busy, PoolInv, CallInv
  <2>2. cache' \in [Keys -> Answers \cup {Nothing}]
    BY <1>0, <1>10, <2>1, KeyType DEF Store
  <2>3. /\ Goto(w, "count") /\ "count" \in WorkerStates \ {"idle", "offline"}
        /\ UNCHANGED <<queued, item, purpose, attempt, format, answer, stats, unread, outcome, main>>
    BY <1>10 DEF Store, WorkerStates
  <2>4. PICK n \in 0..Attempts : n = attempt[w]
    BY <1>0
  <2>5. PICK a \in Answers : a = answer[w]
    BY <2>1
  <2>6. attempt' = [attempt EXCEPT ![w] = n] /\ answer' = [answer EXCEPT ![w] = a]
    BY <1>0, <2>3, <2>4, <2>5
  <2>7. /\ PoolInv /\ w \in Workers /\ format' \in [Workers -> BOOLEAN]
        /\ a \in Answers \cup {Nothing} /\ "count" \notin {"post", "store"}
        /\ UNCHANGED <<queued, item, purpose, stats, unread, outcome, main>>
    BY <1>0, <2>3
  <2> QED
    BY <2>1, <2>2, <2>3, <2>5, <2>6, <2>7, CallKeepsInv
<1>11. CASE StoreFailed(w)
  BY <1>0, <1>7, <1>11 DEF StoreFailed, Busy
<1>12. CASE Count(w)
  <2>1. Busy(w) /\ purpose[w] \in Purposes /\ answer[w] \in Answers
    BY <1>12, BusyCall DEF Count, Busy, PoolInv, CallInv
  <2>2. stats' \in [Purposes -> [Counters -> Nat]] /\ unread' \in [Purposes -> Nat]
    BY <1>12, <2>1, IncType DEF Count, Counters, PoolInv
  <2> QED
    BY <1>12, <2>1, <2>2, ReturnKeepsInv DEF Count
<1>13. CASE GiveUp(w)
  <2>1. Busy(w) /\ purpose[w] \in Purposes
    BY <1>13, BusyCall DEF GiveUp, Busy
  <2>2. stats' \in [Purposes -> [Counters -> Nat]] /\ unread' \in [Purposes -> Nat]
    BY <1>13, <2>1, IncType DEF GiveUp, Counters, PoolInv
  <2> QED
    BY <1>13, <2>1, <2>2, RaiseKeepsInv DEF GiveUp
<1> QED
  BY <1>1, <1>2, <1>3, <1>4, <1>5, <1>6, <1>8, <1>9, <1>10, <1>11, <1>12, <1>13, <1>14, <1>15,
     <1>16 DEF Worker

\* What PoolInv says of a batch that is over.
LEMMA OverIsQuiet == PoolInv => QuietWhenOver
<1> SUFFICES ASSUME PoolInv, batch \in {"done", "failed"}
             PROVE  AllIdle /\ queued = N + 1
  BY DEF QuietWhenOver
<1> USE PoolAssumption DEF PoolInv
<1>1. CASE batch = "done"
  <2>1. \A t \in Trajs : result[t] = "settled"
    BY <1>1 DEF MainInv, Trajs
  <2>2. \A w \in Workers : ~Busy(w)
    BY <2>1 DEF ItemInv, TypeOK
  <2>3. queued \notin Trajs
    BY <2>1 DEF QueueInv, Trajs
  <2> QED
    BY <2>2, <2>3 DEF AllIdle, Busy, TypeOK, Trajs
<1>2. CASE batch = "failed"
  BY <1>2 DEF MainInv
<1> QED
  BY <1>1, <1>2

LEMMA MainKeepsInv == PoolInv /\ Main => PoolInv'
<1> SUFFICES ASSUME PoolInv, Main PROVE PoolInv'
  OBVIOUS
<1> USE PoolAssumption DEF PoolInv, worker, outcome
<1>1. CASE Collect
  <2>1. TypeOK'
    BY <1>1 DEF Collect, TypeOK
  <2>2. ItemInv' /\ QueueInv' /\ CallInv' /\ ResultInv'
    BY <1>1 DEF Collect, ItemInv, QueueInv, CallInv, ResultInv, Fallback, Busy
  <2>3. MainInv'
    <3>1. collected \in Nat /\ N \in Nat /\ \A t \in Trajs : t \in Nat
      BY DEF Trajs, TypeOK
    <3>2. \A t \in Trajs : t =< collected + 1 => result[t] = "settled"
      BY <1>1, <3>1 DEF Collect, MainInv
    <3> QED
      BY <1>1, <3>1, <3>2 DEF Collect, MainInv, AllIdle
  <2> QED
    BY <2>1, <2>2, <2>3
<1>2. CASE Cancel
  <2>1. TypeOK'
    BY <1>2 DEF Cancel, TypeOK
  <2>2. ItemInv' /\ QueueInv' /\ CallInv' /\ ResultInv'
    BY <1>2 DEF Cancel, ItemInv, QueueInv, CallInv, ResultInv, Fallback, Busy, TypeOK, Trajs
  <2>3. MainInv'
    BY <1>2 DEF Cancel, MainInv, Trajs, TypeOK
  <2> QED
    BY <2>1, <2>2, <2>3
<1>3. CASE Fail
  <2>1. TypeOK'
    BY <1>3 DEF Fail, TypeOK
  <2>2. ItemInv' /\ QueueInv' /\ CallInv' /\ ResultInv'
    BY <1>3 DEF Fail, ItemInv, QueueInv, CallInv, ResultInv, Fallback, Busy
  <2>3. MainInv'
    BY <1>3 DEF Fail, MainInv, AllIdle
  <2> QED
    BY <2>1, <2>2, <2>3
<1>4. CASE Report
  <2>1. Zero \in [Purposes -> [Counters -> Nat]]
    BY DEF Zero
  <2>2. TypeOK'
    BY <1>4, <2>1 DEF Report, TypeOK
  <2>3. ItemInv' /\ QueueInv' /\ CallInv' /\ ResultInv'
    BY <1>4 DEF Report, ItemInv, QueueInv, CallInv, ResultInv, Fallback, Busy
  <2>4. MainInv'
    BY <1>4 DEF Report, MainInv
  <2> QED
    BY <2>2, <2>3, <2>4
<1> QED
  BY <1>1, <1>2, <1>3, <1>4 DEF Main

LEMMA StutterKeepsInv == PoolInv /\ UNCHANGED vars => PoolInv'
BY DEF PoolInv, TypeOK, ItemInv, QueueInv, CallInv, ResultInv, MainInv, Fallback, Busy, AllIdle,
       vars, worker, outcome, main

\* Only threads of the pool, some of Workers, take steps.
LEMMA ThreadsType == TypeOK => Threads \in SUBSET Workers
BY PoolAssumption DEF TypeOK, Threads

LEMMA NextKeepsInv == PoolInv /\ [Next]_vars => PoolInv'
BY ThreadsType, WorkerKeepsInv, MainKeepsInv, StutterKeepsInv DEF Next, PoolInv

LEMMA PoolInvariant == Spec => []PoolInv
BY InitInv, NextKeepsInv, PTL DEF Spec

\* Every variable keeps its type: no thread asks more often than max_retries
\* allows, and the executor's queue and the collected results stay in range.
THEOREM PoolTypes == Spec => []TypeOK
<1>1. PoolInv => TypeOK
  BY DEF PoolInv
<1> QED
  BY <1>1, PoolInvariant, PTL

\* Whatever the LLM, its cache and the threads do: with llm_fallback_to_rules no
\* trajectory raises, and when compute_flow_step_rewards returns every one of
\* them has obligations, and checks exactly if these are subtasks.
THEOREM PoolObliged == Spec => []AlwaysObliged
<1>1. PoolInv => AlwaysObliged
  <2> SUFFICES ASSUME PoolInv PROVE AlwaysObliged
    OBVIOUS
  <2>1. Fallback => \A t \in Trajs : result[t] # "raised"
    BY DEF PoolInv, ResultInv
  <2>2. batch = "done" => \A t \in Trajs : result[t] = "settled"
    BY DEF PoolInv, MainInv, Trajs
  <2> QED
    BY <2>1, <2>2 DEF PoolInv, ResultInv, Judged, AlwaysObliged, JudgedBySubtasks
<1> QED
  BY <1>1, PoolInvariant, PTL

\* When compute_flow_step_rewards returns or raises, no thread of its pool runs
\* and none is queued.
THEOREM PoolQuiet == Spec => []QuietWhenOver
BY OverIsQuiet, PoolInvariant, PTL

\* The only thing FlowBatch sees of a thread is that it settles its trajectory.
LEMMA WorkerSettles ==
  ASSUME PoolInv, NEW w \in Workers, Worker(w)
  PROVE  /\ batch' = batch
         /\ \/ result' = result
            \/ /\ Busy(w)
               /\ \E v \in {"settled", "raised"} :
                     result' = [result EXCEPT ![item[w]] = v]
<1> USE DEF outcome, main, Busy
<1>1. ASSUME NEW v \in {"settled", "raised"}, End(w, v), Busy(w)
      PROVE  \E x \in {"settled", "raised"} : result' = [result EXCEPT ![item[w]] = x]
  BY <1>1 DEF End
<1>2. ASSUME NEW a, Return(w, a), Busy(w)
      PROVE  result' = result \/ End(w, "settled")
  BY <1>2 DEF Return, UseSubtasks, UseRules, UseHeuristic
<1>3. ASSUME Raise(w), Busy(w)
      PROVE  End(w, "settled") \/ End(w, "raised")
  BY <1>3 DEF Raise, UseRules, UseHeuristic
<1>4. CASE Offline(w)
  BY <1>1, <1>4 DEF Offline, UseSubtasks
<1>10. CASE OfflineFails(w)
  BY <1>1, <1>10 DEF OfflineFails
<1>11. CASE ReadFailed(w)
  BY <1>1, <1>3, <1>11 DEF ReadFailed
<1>5. CASE NoKey(w)
  BY <1>1, <1>3, <1>5 DEF NoKey
<1>6. CASE CacheHit(w)
  BY <1>1, <1>2, <1>6 DEF CacheHit
<1>7. CASE Count(w)
  BY <1>1, <1>2, <1>7 DEF Count
<1>8. CASE GiveUp(w)
  BY <1>1, <1>3, <1>8 DEF GiveUp
<1>9. CASE \/ Take(w) \/ CacheMiss(w) \/ Answered(w) \/ FormatRejected(w)
           \/ PostFailed(w) \/ Store(w) \/ StoreFailed(w)
  BY <1>9 DEF Take, CacheMiss, Answered, FormatRejected, PostFailed, Store, StoreFailed
<1> QED
  BY <1>4, <1>5, <1>6, <1>7, <1>8, <1>9, <1>10, <1>11 DEF Worker

LEMMA StepImplements ==
  PoolInv /\ [Next]_vars => [Abstract!Next]_(Abstract!vars)
<1> SUFFICES ASSUME PoolInv, [Next]_vars
             PROVE  Abstract!Next \/ UNCHANGED Abstract!vars
  OBVIOUS
<1> USE PoolAssumption DEF Abstract!vars
<1>1. ASSUME NEW w \in Workers, Worker(w)
      PROVE  Abstract!Next \/ UNCHANGED Abstract!vars
  <2>1. CASE result' = result
    BY <1>1, <2>1, WorkerSettles
  <2>2. CASE /\ Busy(w)
             /\ \E v \in {"settled", "raised"} : result' = [result EXCEPT ![item[w]] = v]
    <3>1. item[w] \in Trajs /\ result[item[w]] = "pending"
      BY <2>2 DEF PoolInv, TypeOK, ItemInv
    <3>2. batch \in {"running", "cancelled"}
      BY <2>2, OverIsQuiet DEF PoolInv, TypeOK, QuietWhenOver, AllIdle, Busy
    <3>3. batch' = batch
      BY <1>1, WorkerSettles
    <3> QED
      BY <2>2, <3>1, <3>2, <3>3 DEF Abstract!Next, Abstract!Settle
  <2> QED
    BY <1>1, <2>1, <2>2, WorkerSettles
<1>2. CASE Collect \/ Cancel
  BY <1>2 DEF Collect, Cancel, outcome
<1>3. CASE Fail
  BY <1>3 DEF Fail, outcome, PoolInv, MainInv, Abstract!Next, Abstract!Fail
<1>4. CASE Report
  <2>1. \A t \in Trajs : result[t] = "settled"
    BY <1>4 DEF Report, PoolInv, MainInv, Trajs
  <2> QED
    BY <1>4, <2>1 DEF Report, outcome, Abstract!Next, Abstract!Done
<1>5. CASE UNCHANGED vars
  BY <1>5 DEF vars, outcome, main
<1> QED
  BY <1>1, <1>2, <1>3, <1>4, <1>5, ThreadsType DEF Next, Main, PoolInv

\* compute_flow_step_rewards settles each trajectory once, is done only when all
\* are settled and raises only after one of them raised, with any number of
\* threads, answers and failures: what is cancelled is still running there.
THEOREM PoolImplementsFlowBatch == Spec => ImplementsFlowBatch
<1>1. Init => Abstract!Init
  BY DEF Init, Abstract!Init
<1> QED
  BY <1>1, StepImplements, PoolInvariant, PTL DEF Spec, ImplementsFlowBatch, Abstract!Spec

-----------------------------------------------------------------------------
(* The cache, when one thread computes the trajectories.                    *)

\* A decomposition that was used is the one in the cache.  A request is made
\* only for a key that is not there, and its answer is used once it is.
CacheInv ==
    ~Parallel /\ Caching =>
        /\ \A t \in Trajs : decomposition[t] \in Variants =>
              cache[<<"decompose", TaskOf[t]>>] = decomposition[t]
        /\ \A w \in Threads : purpose[w] = "decompose" =>
              /\ pc[w] \in {"post", "store"} => cache[Key(w)] = Nothing
              /\ pc[w] = "count" => cache[Key(w)] = answer[w]

LEMMA OneWorker ==
  ASSUME PoolInv, ~Parallel, NEW u \in Threads, NEW w \in Threads
  PROVE  u = w
<1> SUFFICES ASSUME u # w PROVE FALSE
  OBVIOUS
<1>1. IsFiniteSet({u}) /\ Cardinality({u}) = 1
  BY FS_Singleton
<1>2. IsFiniteSet({u} \cup {w}) /\ Cardinality({u} \cup {w}) = 2
  BY <1>1, FS_AddElement
<1>0. IsFiniteSet(Threads)
  BY PoolAssumption, ThreadsType, FS_Subset DEF PoolInv
<1>3. Cardinality({u} \cup {w}) <= Cardinality(Threads)
  BY <1>0, FS_Subset
<1>4. Cardinality(Threads) \in Nat
  BY <1>0, FS_CardinalityType
<1> QED
  BY <1>2, <1>3, <1>4 DEF Parallel

LEMMA DecomposeKey ==
  ASSUME PoolInv, NEW w \in Workers, Busy(w), purpose[w] = "decompose"
  PROVE  item[w] \in Trajs /\ Key(w) = <<"decompose", TaskOf[item[w]]>>
BY BusyCall DEF Key

LEMMA VerifyKey ==
  ASSUME PoolInv, NEW w \in Workers, purpose[w] # "decompose",
         NEW t \in Trajs
  PROVE  Key(w) # <<"decompose", TaskOf[t]>>
<1>1. Key(w)[1] = "verify" /\ <<"decompose", TaskOf[t]>>[1] = "decompose"
  BY DEF Key
<1> QED
  BY <1>1

LEMMA InitCache == Init => CacheInv
BY InitInv, ThreadsType, VariantsAssumption DEF Init, CacheInv, Nothing, PoolInv

\* The subtasks of one trajectory are replaced, or nothing is.
LEMMA ReturnShape ==
  ASSUME PoolInv, NEW w \in Workers, Busy(w), NEW a, Return(w, a)
  PROVE  /\ pc'[w] \in {"idle", "lookup"}
         /\ \A t \in Trajs : decomposition'[t] \in Variants =>
               \/ decomposition'[t] = decomposition[t]
               \/ t = item[w] /\ purpose[w] = "decompose" /\ decomposition'[t] = a
<1> USE VariantsAssumption DEF PoolInv, TypeOK, End, Goto
<1>1. item[w] \in Trajs
  BY BusyCall
<1>2. CASE UseSubtasks(w, a) /\ purpose[w] = "decompose"
  BY <1>1, <1>2 DEF UseSubtasks
<1>3. CASE UseRules(w)
  BY <1>1, <1>3 DEF UseRules
<1>4. CASE UseHeuristic(w)
  BY <1>1, <1>4 DEF UseHeuristic
<1>5. CASE decomposition' = decomposition /\ End(w, "settled")
  BY <1>1, <1>5
<1> QED
  BY <1>2, <1>3, <1>4, <1>5 DEF Return

LEMMA RaiseShape ==
  ASSUME PoolInv, NEW w \in Workers, Busy(w), Raise(w)
  PROVE  /\ pc'[w] = "idle"
         /\ \A t \in Trajs : decomposition'[t] \in Variants =>
               decomposition'[t] = decomposition[t]
<1> USE VariantsAssumption DEF PoolInv, TypeOK, End, Goto
<1>1. item[w] \in Trajs
  BY BusyCall
<1> QED
  BY <1>1 DEF Raise, UseRules, UseHeuristic

LEMMA SettingKept == [Next]_vars => setting' = setting
BY DEF Next, Main, Collect, Cancel, Fail, Report, Worker, Take, Offline, OfflineFails, NoKey,
       ReadFailed, CacheHit, CacheMiss, Answered, FormatRejected, PostFailed, Store, StoreFailed, Count, GiveUp,
       vars, main

LEMMA WorkerKeepsCache ==
  ASSUME PoolInv, CacheInv, NEW w \in Threads, Worker(w)
  PROVE  CacheInv'
<1>a. w \in Workers
  BY ThreadsType DEF PoolInv
<1>b. Threads' = Threads
  BY SettingKept DEF Next, Threads
<1> SUFFICES ASSUME ~Parallel, Caching PROVE CacheInv'
  BY <1>b DEF CacheInv, Parallel
<1> USE VariantsAssumption, <1>a, <1>b DEF Goto
<1>0. \A u \in Threads : u = w
  BY OneWorker
<1>1. /\ pc \in [Workers -> WorkerStates] /\ item \in [Workers -> Trajs]
      /\ purpose \in [Workers -> Purposes] /\ answer \in [Workers -> Answers \cup {Nothing}]
      /\ cache \in [Keys -> Answers \cup {Nothing}]
      /\ decomposition \in [Trajs -> Decompositions \cup {"rules", Nothing}]
  BY DEF PoolInv, TypeOK
<1>2. /\ \A t \in Trajs : decomposition[t] \in Variants =>
            cache[<<"decompose", TaskOf[t]>>] = decomposition[t]
      /\ purpose[w] = "decompose" /\ pc[w] \in {"post", "store"} => cache[Key(w)] = Nothing
      /\ purpose[w] = "decompose" /\ pc[w] = "count" => cache[Key(w)] = answer[w]
  BY DEF CacheInv
\* What is left to show: the one thread's own part, and the trajectories'.
<1>3. ASSUME \A t \in Trajs : decomposition'[t] \in Variants =>
                cache'[<<"decompose", TaskOf[t]>>] = decomposition'[t],
             purpose'[w] = "decompose" =>
                /\ pc'[w] \in {"post", "store"} => cache'[Key(w)'] = Nothing
                /\ pc'[w] = "count" => cache'[Key(w)'] = answer'[w]
      PROVE  CacheInv'
  BY <1>0, <1>3 DEF CacheInv
<1>4. CASE Take(w)
  BY <1>1, <1>2, <1>3, <1>4 DEF Take, outcome
<1>5. CASE Offline(w)
  <2>1. item[w] \in Trajs
    BY <1>1
  <2> QED
    BY <1>1, <1>2, <1>3, <1>5, <2>1 DEF Offline, UseSubtasks, End, outcome
<1>14. CASE OfflineFails(w)
  BY <1>1, <1>2, <1>3, <1>14 DEF OfflineFails, End
<1>15. CASE ReadFailed(w)
  BY <1>2, <1>3, <1>15, RaiseShape DEF ReadFailed, Busy
<1>6. CASE NoKey(w)
  BY <1>2, <1>3, <1>6, RaiseShape DEF NoKey, Busy
<1>7. CASE CacheHit(w)
  <2>1. Busy(w)
    BY <1>7 DEF CacheHit, Busy
  <2>2. purpose[w] = "decompose" => cache[<<"decompose", TaskOf[item[w]]>>] = cache[Key(w)]
    BY <2>1, DecomposeKey
  <2> QED
    BY <1>2, <1>3, <1>7, <2>1, <2>2, ReturnShape DEF CacheHit
<1>8. CASE CacheMiss(w)
  BY <1>1, <1>2, <1>3, <1>8 DEF CacheMiss, Key, outcome
<1>9. CASE Answered(w)
  BY <1>1, <1>2, <1>3, <1>9 DEF Answered, Key, outcome
<1>10. CASE FormatRejected(w) \/ PostFailed(w) \/ StoreFailed(w)
  BY <1>1, <1>2, <1>3, <1>10
     DEF FormatRejected, PostFailed, StoreFailed, Retry, Key, outcome
<1>11. CASE Store(w)
  <2>1. Busy(w)
    BY <1>11 DEF Store, Busy
  <2>2. Key(w) \in Keys /\ Key(w)' = Key(w)
    BY <1>11, <2>1, KeyType DEF Store, Key, outcome
  <2>3. cache'[Key(w)] = answer[w] /\ answer' = answer
    BY <1>1, <1>11, <2>2 DEF Store
  <2>4. ASSUME NEW t \in Trajs, decomposition'[t] \in Variants
        PROVE  cache'[<<"decompose", TaskOf[t]>>] = decomposition'[t]
    <3>1. cache[<<"decompose", TaskOf[t]>>] = decomposition[t] /\ decomposition[t] \in Variants
      BY <1>2, <1>11, <2>4 DEF Store, outcome
    <3>2. <<"decompose", TaskOf[t]>> # Key(w)
      <4>1. CASE purpose[w] = "decompose"
        BY <1>2, <1>11, <3>1, <4>1, AnswersDistinct DEF Store, Answers
      <4>2. CASE purpose[w] # "decompose"
        BY <4>2, VerifyKey
      <4> QED
        BY <4>1, <4>2
    <3>3. <<"decompose", TaskOf[t]>> \in Keys
      BY DEF Keys, Tasks
    <3> QED
      BY <1>1, <1>11, <3>1, <3>2, <3>3 DEF Store, outcome
  <2> QED
    BY <1>1, <1>3, <1>11, <2>2, <2>3, <2>4 DEF Store
<1>12. CASE Count(w)
  <2>1. Busy(w)
    BY <1>12 DEF Count, Busy
  <2>2. purpose[w] = "decompose" => cache[<<"decompose", TaskOf[item[w]]>>] = answer[w]
    BY <1>2, <1>12, <2>1, DecomposeKey DEF Count
  <2> QED
    BY <1>2, <1>3, <1>12, <2>1, <2>2, ReturnShape DEF Count
<1>13. CASE GiveUp(w)
  BY <1>2, <1>3, <1>13, RaiseShape DEF GiveUp, Busy
<1> QED
  BY <1>4, <1>5, <1>6, <1>7, <1>8, <1>9, <1>10, <1>11, <1>12, <1>13, <1>14, <1>15 DEF Worker

LEMMA NextKeepsCache == PoolInv /\ CacheInv /\ [Next]_vars => CacheInv'
<1> SUFFICES ASSUME PoolInv, CacheInv, [Next]_vars PROVE CacheInv'
  OBVIOUS
<1>1. CASE Main \/ UNCHANGED vars
  <2>1. UNCHANGED <<pc, item, purpose, answer, cache, decomposition>>
    BY <1>1 DEF Main, Collect, Cancel, Fail, Report, vars, worker, outcome
  <2>2. Threads' = Threads
    BY SettingKept DEF Threads
  <2> QED
    BY <2>1, <2>2 DEF CacheInv, Key, Parallel
<1> QED
  BY <1>1, WorkerKeepsCache DEF Next

\* Without a pool, trajectories of one task that are judged by the LLM's subtasks
\* are judged by the same ones, even if writing the cache may fail.
THEOREM PoolSameDecomposition == Spec => []SameDecomposition
<1>1. CacheInv => SameDecomposition
  BY DEF CacheInv, SameDecomposition
<1> QED
  BY <1>1, InitCache, NextKeepsCache, PoolInvariant, PTL DEF Spec

-----------------------------------------------------------------------------
(* The counters.                                                            *)

\* The trajectories whose decomposition, whose verification was asked for and
\* is over, with an answer or without one.
Verified == {t \in Trajs : UseVerifier /\ result[t] # "pending"
                             /\ decomposition[t] \in Decompositions}

Decomposed ==
    {t \in Trajs : /\ ~Covered(t)
                   /\ \/ result[t] # "pending"
                      \/ \E w \in Workers : Busy(w) /\ item[w] = t /\ purpose[w] = "verify"}

\* The calls that are counted, and those that reading the cache ended.
Accounted(p) == Total(stats, p) + unread[p]

Asked(p) == IF p = "decompose" THEN Decomposed ELSE Verified

\* A decomposition goes to the LLM only if the offline file has no entry, and a
\* verification only if the configuration asks for one.
AskInv ==
    \A w \in Workers : Busy(w) =>
        IF purpose[w] = "decompose"
        THEN pc[w] # "offline" => ~Covered(item[w])
        ELSE UseVerifier

\* A batch of which a trajectory has raised is never done.
NoneRaised == \A t \in Trajs : result[t] # "raised"

CountInv ==
    /\ AskInv
    /\ HasKey /\ batch # "done" /\ NoneRaised =>
          \A p \in Purposes : Accounted(p) = Cardinality(Asked(p))
    /\ StatsAccount

LEMMA AskedFinite ==
  ASSUME NEW p \in Purposes
  PROVE  Asked(p) \in SUBSET Trajs /\ IsFiniteSet(Asked(p))
<1>1. Asked(p) \in SUBSET Trajs
  BY DEF Asked, Decomposed, Verified
<1>2. IsFiniteSet(Trajs)
  BY PoolAssumption, FS_Interval DEF Trajs
<1> QED
  BY <1>1, <1>2, FS_Subset

LEMMA InitCount == Init => CountInv
<1> SUFFICES ASSUME Init PROVE CountInv
  OBVIOUS
<1>1. AskInv /\ StatsAccount
  BY DEF Init, AskInv, StatsAccount, Busy
<1>2. ASSUME NEW p \in Purposes
      PROVE  Accounted(p) = Cardinality(Asked(p))
  <2>1. Asked(p) = {}
    BY DEF Init, Asked, Decomposed, Verified, Busy
  <2>2. Accounted(p) = 0
    BY <1>2 DEF Init, Accounted, Total, Zero, Counters
  <2> QED
    BY <2>1, <2>2, FS_EmptySet
<1> QED
  BY <1>1, <1>2 DEF CountInv

LEMMA IncTotal ==
  ASSUME TypeOK, NEW p \in Purposes, NEW c \in Counters, Inc(p, c)
  PROVE  \A q \in Purposes :
            Accounted(q)' = IF q = p THEN Accounted(q) + 1 ELSE Accounted(q)
<1>1. \A q \in Purposes, d \in Counters : stats[q][d] \in Nat
  BY DEF TypeOK
<1>2. \A q \in Purposes, d \in Counters :
         stats'[q][d] = IF q = p /\ d = c THEN stats[q][d] + 1 ELSE stats[q][d]
  BY DEF TypeOK, Inc
<1>3. Counters = {"requests", "cache_hits", "errors"}
  BY DEF Counters
<1>4. \A q \in Purposes : unread[q] \in Nat /\ unread'[q] = unread[q]
  BY DEF TypeOK, Inc
<1> QED
  BY <1>1, <1>2, <1>3, <1>4 DEF Total, Accounted

LEMMA UnreadTotal ==
  ASSUME TypeOK, NEW p \in Purposes, unread' = [unread EXCEPT ![p] = @ + 1], stats' = stats
  PROVE  \A q \in Purposes :
            Accounted(q)' = IF q = p THEN Accounted(q) + 1 ELSE Accounted(q)
<1>1. \A q \in Purposes, d \in Counters : stats[q][d] \in Nat
  BY DEF TypeOK
<1>2. \A q \in Purposes :
         unread[q] \in Nat /\ unread'[q] = IF q = p THEN unread[q] + 1 ELSE unread[q]
  BY DEF TypeOK
<1>3. Counters = {"requests", "cache_hits", "errors"}
  BY DEF Counters
<1>4. \A q \in Purposes, d \in Counters : stats'[q][d] = stats[q][d]
  OBVIOUS
<1>5. \A q \in Purposes :
         /\ stats[q]["requests"] \in Nat /\ stats[q]["cache_hits"] \in Nat
         /\ stats[q]["errors"] \in Nat
         /\ stats'[q]["requests"] = stats[q]["requests"]
         /\ stats'[q]["cache_hits"] = stats[q]["cache_hits"]
         /\ stats'[q]["errors"] = stats[q]["errors"]
  BY <1>1, <1>3, <1>4
<1>6. \A q \in Purposes : Total(stats, q) \in Nat /\ Total(stats, q)' = Total(stats, q)
  BY <1>5 DEF Total
<1> QED
  BY <1>2, <1>6 DEF Accounted

\* A thread's step leaves the trajectories of the other threads alone.
LEMMA OthersAsked ==
  ASSUME PoolInv, NEW w \in Workers, Busy(w), item' = item, setting' = setting,
         \A t \in Trajs : t # item[w] =>
            result'[t] = result[t] /\ decomposition'[t] = decomposition[t],
         \A u \in Workers : u # w => pc'[u] = pc[u] /\ purpose'[u] = purpose[u],
         NEW t \in Trajs, t # item[w]
  PROVE  (t \in Decomposed' <=> t \in Decomposed) /\ (t \in Verified' <=> t \in Verified)
BY DEF Decomposed, Verified, Busy, Covered, HasFile

\* Who asks is on its own trajectory, and is not counted yet.
LEMMA NotAskedYet ==
  ASSUME PoolInv, NEW w \in Workers, Busy(w)
  PROVE  /\ item[w] \notin Verified
         /\ item[w] \in Decomposed <=>
               ~Covered(item[w]) /\ purpose[w] = "verify"
BY BusyCall DEF PoolInv, ItemInv, Decomposed, Verified

\* A call that ends, with an answer or without, is the one call of its purpose
\* for its trajectory.
LEMMA CallEnds ==
  ASSUME PoolInv, AskInv, NEW w \in Workers, Busy(w), pc[w] # "offline",
         item' = item, setting' = setting,
         (\E a \in Answers : Return(w, a)) \/ Raise(w)
  PROVE  /\ AskInv'
         /\ item[w] \notin Asked(purpose[w])
         /\ \A p \in Purposes :
               Asked(p)' = IF p = purpose[w] THEN Asked(p) \cup {item[w]} ELSE Asked(p)
<1> DEFINE i == item[w]
<1>1. i \in Trajs /\ purpose[w] \in Purposes /\ result[i] = "pending"
  BY BusyCall DEF PoolInv, ItemInv
<1>2. /\ pc \in [Workers -> WorkerStates] /\ purpose \in [Workers -> Purposes]
      /\ decomposition \in [Trajs -> Decompositions \cup {"rules", Nothing}]
      /\ result \in [Trajs -> {"pending", "settled", "raised"}]
  BY DEF PoolInv, TypeOK
<1>3. /\ \A t \in Trajs : t # i => result'[t] = result[t] /\ decomposition'[t] = decomposition[t]
      /\ \A u \in Workers : u # w => pc'[u] = pc[u] /\ purpose'[u] = purpose[u]
  BY <1>1, <1>2 DEF Return, Raise, UseRules, UseHeuristic, UseSubtasks, End, Goto
<1>4. CASE purpose[w] = "decompose"
  <2>1. ~Covered(i)
    BY <1>4 DEF AskInv
  <2>2. /\ result'[i] # "pending" \/ (pc'[w] # "idle" /\ purpose'[w] = "verify")
        /\ UseVerifier /\ result'[i] # "pending" => decomposition'[i] \notin Decompositions
        /\ pc'[w] # "idle" => UseVerifier /\ purpose'[w] = "verify"
    BY <1>1, <1>2, <1>4, BusyCall, AnswersDistinct
       DEF Return, Raise, UseRules, UseSubtasks, End, Goto
  <2>3. i \in Decomposed' /\ i \notin Verified'
    BY <1>1, <2>1, <2>2 DEF Decomposed, Verified, Busy, Covered, HasFile
  <2>4. Decomposed' = Decomposed \cup {i}
    BY <1>1, <1>3, <2>3, OthersAsked DEF Decomposed
  <2>5. Verified' = Verified
    BY <1>1, <1>3, <2>3, OthersAsked, NotAskedYet DEF Verified
  <2>6. AskInv'
    BY <1>3, <2>2 DEF AskInv, Busy, Covered, HasFile
  <2> QED
    BY <1>4, <2>4, <2>5, <2>6, NotAskedYet DEF Asked, Purposes
<1>5. CASE purpose[w] = "verify"
  <2>1. UseVerifier
    BY <1>5 DEF AskInv
  <2>2. /\ result'[i] # "pending" /\ pc'[w] = "idle"
        /\ decomposition'[i] \in Decompositions
    BY <1>1, <1>2, <1>5, BusyCall DEF Return, Raise, UseHeuristic, End, Goto
  <2>3. i \in Verified' /\ (i \in Decomposed' <=> i \in Decomposed)
    BY <1>1, <1>5, <2>1, <2>2, NotAskedYet DEF Decomposed, Verified, Covered, HasFile
  <2>4. Verified' = Verified \cup {i}
    BY <1>1, <1>3, <2>3, OthersAsked DEF Verified
  <2>5. Decomposed' = Decomposed
    BY <1>1, <1>3, <2>3, OthersAsked DEF Decomposed
  <2>6. AskInv'
    BY <1>3, <2>2 DEF AskInv, Busy, Covered, HasFile
  <2> QED
    BY <1>5, <2>4, <2>5, <2>6, NotAskedYet DEF Asked, Purposes
<1> QED
  BY <1>1, <1>4, <1>5 DEF Purposes

\* A call that is counted when it ends.
LEMMA CountedCall ==
  ASSUME PoolInv, CountInv, NEW w \in Workers, Busy(w), pc[w] # "offline", HasKey,
         (\E a \in Answers : Return(w, a)) \/ Raise(w),
         \A q \in Purposes :
            Accounted(q)' = IF q = purpose[w] THEN Accounted(q) + 1 ELSE Accounted(q),
         NoneRaised' => NoneRaised,
         UNCHANGED <<item, setting, batch>>
  PROVE  CountInv'
<1>1. purpose[w] \in Purposes
  BY BusyCall
<1>2. batch # "done"
  BY OverIsQuiet DEF QuietWhenOver, AllIdle, Busy
<1>3. /\ AskInv'
      /\ item[w] \notin Asked(purpose[w])
      /\ \A p \in Purposes :
            Asked(p)' = IF p = purpose[w] THEN Asked(p) \cup {item[w]} ELSE Asked(p)
  BY CallEnds DEF CountInv
<1>4. ASSUME NEW p \in Purposes, NoneRaised
      PROVE  Accounted(p)' = Cardinality(Asked(p)')
  <2>1. Accounted(p)' = IF p = purpose[w] THEN Accounted(p) + 1 ELSE Accounted(p)
    OBVIOUS
  <2>2. Accounted(p) = Cardinality(Asked(p))
    BY <1>2, <1>4 DEF CountInv
  <2>3. p = purpose[w] =>
           Cardinality(Asked(p) \cup {item[w]}) = Cardinality(Asked(p)) + 1
    BY <1>3, AskedFinite, FS_AddElement
  <2> QED
    BY <1>3, <2>1, <2>2, <2>3
<1>5. StatsAccount'
  BY <1>2 DEF StatsAccount
<1> QED
  BY <1>3, <1>4, <1>5 DEF CountInv

\* A step that neither counts nor asks.
LEMMA UncountedStep ==
  ASSUME PoolInv, CountInv, AskInv', UNCHANGED <<setting, batch, stats, unread, reported>>,
         batch # "done", NoneRaised' => NoneRaised,
         HasKey /\ NoneRaised' => Decomposed' = Decomposed /\ Verified' = Verified
  PROVE  CountInv'
BY DEF CountInv, StatsAccount, Asked, Accounted, Total, HasKey

LEMMA WorkerKeepsCount ==
  ASSUME PoolInv, CountInv, NEW w \in Workers, Worker(w)
  PROVE  CountInv'
<1> USE DEF Goto
<1>1. /\ pc \in [Workers -> WorkerStates] /\ item \in [Workers -> Trajs]
      /\ purpose \in [Workers -> Purposes]
  BY DEF PoolInv, TypeOK
<1>2. AskInv
  BY DEF CountInv
<1>a. NoneRaised' => NoneRaised
  BY WorkerSettles DEF NoneRaised, PoolInv, ItemInv, TypeOK
<1>3. CASE Take(w)
  <2>1. batch # "done"
    BY <1>3, PoolAssumption, OverIsQuiet DEF Take, QuietWhenOver, PoolInv, TypeOK
  <2>2. AskInv' /\ Decomposed' = Decomposed /\ Verified' = Verified
    BY <1>1, <1>2, <1>3 DEF Take, AskInv, Decomposed, Verified, Busy, Covered, HasFile, outcome, main
  <2> QED
    BY <1>3, <2>1, <2>2, <1>a, UncountedStep DEF Take, main
<1>4. CASE Offline(w)
  <2>1. /\ Busy(w) /\ purpose[w] = "decompose" /\ item[w] \in Trajs
        /\ result[item[w]] = "pending"
    BY <1>4, BusyCall DEF Offline, Busy, PoolInv, CallInv, ItemInv
  <2>2. batch # "done"
    BY <2>1, OverIsQuiet DEF QuietWhenOver, AllIdle, Busy
  <2>3. /\ \A t \in Trajs : t # item[w] =>
              result'[t] = result[t] /\ decomposition'[t] = decomposition[t]
        /\ \A u \in Workers : u # w => pc'[u] = pc[u] /\ purpose'[u] = purpose[u]
        /\ item' = item /\ setting' = setting
    BY <1>1, <1>4 DEF Offline, UseSubtasks, End, PoolInv, TypeOK, outcome, main
  <2>4. CASE Covered(item[w])
    <3>1. /\ pc'[w] # "idle" => UseVerifier /\ purpose'[w] = "verify"
          /\ UseVerifier => result'[item[w]] = "pending"
      BY <1>1, <1>4, <2>1, <2>4 DEF Offline, UseSubtasks, End, Covered
    <3>2. item[w] \notin Decomposed' /\ item[w] \notin Verified'
      BY <2>3, <2>4, <3>1 DEF Decomposed, Verified, Covered, HasFile
    <3>3. Decomposed' = Decomposed /\ Verified' = Verified
      BY <2>1, <2>3, <3>2, OthersAsked, NotAskedYet DEF Decomposed, Verified
    <3>4. AskInv'
      BY <1>2, <2>3, <3>1 DEF AskInv, Busy, Covered, HasFile
    <3> QED
      BY <1>4, <2>2, <3>3, <3>4, <1>a, UncountedStep DEF Offline, main
  <2>5. CASE ~Covered(item[w])
    <3>1. AskInv' /\ Decomposed' = Decomposed /\ Verified' = Verified
      BY <1>1, <1>2, <1>4, <2>1, <2>5
         DEF Offline, AskInv, Decomposed, Verified, Busy, Covered, HasFile, outcome, main
    <3> QED
      BY <1>4, <2>2, <2>5, <3>1, <1>a, UncountedStep DEF Offline, main
  <2> QED
    BY <2>4, <2>5
<1>5. CASE NoKey(w)
  <2>1. Busy(w) /\ pc[w] # "offline"
    BY <1>5 DEF NoKey, Busy
  <2>2. batch # "done"
    BY <2>1, OverIsQuiet DEF QuietWhenOver, AllIdle, Busy
  <2>3. AskInv'
    BY <1>2, <1>5, <2>1, CallEnds DEF NoKey, main
  <2> QED
    BY <1>5, <2>2, <2>3, <1>a, UncountedStep DEF NoKey, main
<1>6. CASE CacheHit(w)
  <2>1. Busy(w) /\ cache[Key(w)] \in Answers
    BY <1>6, KeyType DEF CacheHit, Busy, PoolInv, TypeOK
  <2> QED
    BY <1>6, <2>1, BusyCall, IncTotal, <1>a, CountedCall DEF CacheHit, Counters, main, PoolInv
<1>7. CASE Count(w) /\ HasKey
  <2>1. Busy(w) /\ answer[w] \in Answers
    BY <1>7 DEF Count, Busy, PoolInv, CallInv
  <2> QED
    BY <1>7, <2>1, BusyCall, IncTotal, <1>a, CountedCall DEF Count, Counters, main, PoolInv
<1>8. CASE GiveUp(w) /\ HasKey
  BY <1>8, BusyCall, IncTotal, <1>a, CountedCall DEF GiveUp, Busy, Counters, main, PoolInv
<1>11. CASE ReadFailed(w)
  BY <1>11, BusyCall, UnreadTotal, <1>a, CountedCall DEF ReadFailed, Busy, main, PoolInv
\* What the file does not cover is asked of the LLM, or has raised.
<1>12. CASE OfflineFails(w)
  <2>1. /\ Busy(w) /\ purpose[w] = "decompose" /\ item[w] \in Trajs
        /\ result[item[w]] = "pending" /\ ~Covered(item[w])
    BY <1>12, BusyCall DEF OfflineFails, Busy, PoolInv, CallInv, ItemInv, Covered
  <2>2. batch # "done"
    BY <2>1, OverIsQuiet DEF QuietWhenOver, AllIdle, Busy
  <2>3. /\ pc'[w] \in {"idle", "lookup"} /\ (pc'[w] = "idle" => ~NoneRaised')
        /\ \A u \in Workers : u # w => pc'[u] = pc[u]
        /\ pc'[w] = "lookup" => result' = result
        /\ UNCHANGED <<item, purpose, stats, unread, decomposition, main>>
    BY <1>1, <1>12, <2>1 DEF OfflineFails, End, NoneRaised, PoolInv, TypeOK
  <2>4. AskInv'
    BY <1>2, <2>1, <2>3 DEF AskInv, Busy, Covered, HasFile, main
  <2>5. NoneRaised' => Decomposed' = Decomposed /\ Verified' = Verified
    BY <2>1, <2>3 DEF Decomposed, Verified, Busy, Covered, HasFile, main
  <2> QED
    BY <1>a, <2>2, <2>3, <2>4, <2>5, UncountedStep DEF main
\* Without a key a call never gets that far; nothing is claimed of it.
<1>9. CASE (Count(w) \/ GiveUp(w)) /\ ~HasKey
  <2>1. Busy(w) /\ pc[w] # "offline" /\ (Count(w) => answer[w] \in Answers)
    BY <1>9 DEF Count, GiveUp, Busy, PoolInv, CallInv
  <2>2. item' = item /\ setting' = setting
    BY <1>9 DEF Count, GiveUp, main
  <2>3. AskInv'
    BY <1>2, <1>9, <2>1, <2>2, CallEnds DEF Count, GiveUp
  <2> QED
    BY <1>9, <2>2, <2>3 DEF CountInv, StatsAccount, HasKey
<1>10. CASE \/ CacheMiss(w) \/ Answered(w) \/ FormatRejected(w) \/ PostFailed(w)
            \/ Store(w) \/ StoreFailed(w)
  <2>1. /\ pc[w] \notin {"idle", "offline"} /\ pc'[w] \notin {"idle", "offline"}
        /\ \A u \in Workers : u # w => pc'[u] = pc[u]
        /\ UNCHANGED <<item, purpose, stats, unread, outcome, main>>
    BY <1>1, <1>10
       DEF CacheMiss, Answered, FormatRejected, PostFailed, Store, StoreFailed, Retry
  <2>2. batch # "done"
    BY <2>1, OverIsQuiet DEF QuietWhenOver, AllIdle, Busy
  <2>3. AskInv' /\ Decomposed' = Decomposed /\ Verified' = Verified
    BY <1>2, <2>1 DEF AskInv, Decomposed, Verified, Busy, Covered, HasFile, outcome, main
  <2> QED
    BY <2>1, <2>2, <2>3, <1>a, UncountedStep DEF main
<1> QED
  BY <1>3, <1>4, <1>5, <1>6, <1>7, <1>8, <1>9, <1>10, <1>11, <1>12 DEF Worker

LEMMA ReportAccounts ==
  ASSUME PoolInv, CountInv, Report
  PROVE  CountInv'
<1>1. \A t \in Trajs : result[t] = "settled"
  BY DEF Report, PoolInv, MainInv, Trajs
<1>2. /\ Asked("decompose") = {t \in Trajs : ~Covered(t)}
      /\ Asked("verify") = IF UseVerifier THEN JudgedBySubtasks ELSE {}
  BY <1>1 DEF Asked, Decomposed, Verified, JudgedBySubtasks
<1>3. AskInv'
  BY DEF CountInv, AskInv, Report, worker, outcome, Busy, Covered, HasFile
<1>4. StatsAccount'
  <2>1. reported' = stats /\ setting' = setting /\ unread' = unread
        /\ JudgedBySubtasks' = JudgedBySubtasks
    BY DEF Report, outcome, JudgedBySubtasks
  <2>2. HasKey => \A p \in Purposes : Accounted(p) = Cardinality(Asked(p))
    BY <1>1 DEF CountInv, Report, NoneRaised
  <2>3. Cardinality({}) = 0
    BY FS_EmptySet
  <2> QED
    BY <1>2, <2>1, <2>2, <2>3
       DEF StatsAccount, Accounted, Total, Purposes, HasKey, HasFile, Covered
<1> QED
  BY <1>3, <1>4 DEF CountInv, Report

LEMMA NextKeepsCount == PoolInv /\ CountInv /\ [Next]_vars => CountInv'
<1> SUFFICES ASSUME PoolInv, CountInv, [Next]_vars PROVE CountInv'
  OBVIOUS
<1>1. CASE Collect \/ Cancel \/ Fail
  <2>1. /\ UNCHANGED <<worker, stats, unread, outcome, setting, reported>>
        /\ batch # "done" /\ batch' # "done"
    BY <1>1 DEF Collect, Cancel, Fail
  <2>2. AskInv' /\ Decomposed' = Decomposed /\ Verified' = Verified
    BY <2>1 DEF CountInv, AskInv, Decomposed, Verified, Busy, Covered, HasFile, worker, outcome
  <2> QED
    BY <2>1, <2>2 DEF CountInv, StatsAccount, Asked, Accounted, Total, HasKey, NoneRaised, outcome
<1>2. CASE UNCHANGED vars
  <2>1. /\ AskInv' <=> AskInv
        /\ NoneRaised' <=> NoneRaised
        /\ \A p \in Purposes : Asked(p)' = Asked(p) /\ Accounted(p)' = Accounted(p)
    BY <1>2 DEF AskInv, NoneRaised, Asked, Decomposed, Verified, Accounted, Total, Busy, HasFile,
                Covered, vars, worker, outcome, main
  <2>2. StatsAccount' <=> StatsAccount
    BY <1>2 DEF StatsAccount, Total, HasKey, HasFile, Covered, JudgedBySubtasks, vars, outcome, main
  <2>3. (HasKey' <=> HasKey) /\ batch' = batch
    BY <1>2 DEF HasKey, vars, main
  <2> QED
    BY <2>1, <2>2, <2>3 DEF CountInv
<1> QED
  BY <1>1, <1>2, ThreadsType, WorkerKeepsCount, ReportAccounts DEF Next, Main, PoolInv

\* The counters that compute_flow_step_rewards reports for a batch account for
\* every LLM call of its threads once, however the calls interleave and fail.
THEOREM PoolStatsAccount == Spec => []StatsAccount
<1>1. CountInv => StatsAccount
  BY DEF CountInv
<1> QED
  BY <1>1, InitCount, NextKeepsCount, PoolInvariant, PTL DEF Spec
=============================================================================
