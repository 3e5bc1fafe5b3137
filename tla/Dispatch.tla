------------------------------ MODULE Dispatch ------------------------------
(***************************************************************************)
(* One call of a DP_COMPUTE_PROTO method of a worker group: the driver     *)
(* cuts its batch into one share per rank, the ranks answer in any order,  *)
(* and the driver puts the answers together in the order of the ranks.     *)
(* What a call promises: it answers row by row.                            *)
(***************************************************************************)
EXTENDS DataProto

CONSTANTS
    World,      \* world_size of the worker group
    Methods,    \* the registered methods
    F(_)        \* what the method answers for one row

Workers == 1..World

VARIABLES
    batch,      \* the driver's batch
    method,     \* the method being called, or "none"
    asked,      \* the batch as the driver passed it
    shares,     \* [rank -> its rows]
    answers,    \* [rank -> its answer, << >> before it has one]
    padding,    \* rows added to make the batch divide
    output      \* what the last call returned

call == <<method, asked, shares, answers, padding, output>>

RowWise(b) == [i \in 1..Len(b) |-> F(b[i])]

Idle ==
    /\ method = "none"
    /\ asked = << >> /\ output = << >>
    /\ shares = [r \in Workers |-> << >>]
    /\ answers = [r \in Workers |-> << >>]
    /\ padding = 0

\* With auto padding the driver's own batch is padded, in place.
Begin(m, padded) ==
    /\ method = "none"
    /\ Len(batch) > 0
    /\ padded \/ Len(batch) % World = 0
    /\ method' = m
    /\ asked' = batch
    /\ padding' = IF padded THEN Missing(Len(batch), World) ELSE 0
    /\ batch' = IF padded THEN PadLast(batch, World) ELSE batch
    /\ shares' = Chunk(batch', World)
    /\ answers' = [r \in Workers |-> << >>]
    /\ UNCHANGED output

Compute(r, ans) ==
    /\ method # "none"
    /\ answers[r] = << >>
    /\ answers' = [answers EXCEPT ![r] = ans]
    /\ UNCHANGED <<batch, method, asked, shares, padding, output>>

AllAnswered == \A r \in Workers : answers[r] # << >>

End ==
    /\ method # "none"
    /\ AllAnswered
    /\ output' = Unpad(Concat(answers), padding)
    /\ method' = "none"
    /\ UNCHANGED <<asked, shares, answers, padding>>

\* Between two calls the driver does with its batch what it likes.
DriverActs == method = "none" /\ UNCHANGED call

Init == Idle

Next ==
    \/ DriverActs
    \/ \E padded \in BOOLEAN : \E m \in Methods : Begin(m, padded)
    \/ \E r \in Workers : Compute(r, RowWise(shares[r]))
    \/ End

Spec == Init /\ [][Next]_<<batch, call>>

-----------------------------------------------------------------------------

\* What the trainer relies on when it unions the output into its batch
\* (collect_dp_compute_data_proto, func_generator): position i of the output
\* answers row i of the batch that was passed, however slow a rank was and
\* however many rows were added.
AnswersFit == method = "none" => output = RowWise(asked)
=============================================================================
