-------------------------- MODULE Dispatch_proofs --------------------------
(***************************************************************************)
(* A call of a worker group answers row by row, for every number of ranks, *)
(* every batch and whatever a method answers for a row.                    *)
(***************************************************************************)
EXTENDS Dispatch, DataLemmas, SequenceTheorems, TLAPS

-----------------------------------------------------------------------------
\* The rows that divide, padded or not, are as many as the ranks' shares hold.
LEMMA Padded ==
    ASSUME NEW n \in Nat, NEW d \in Nat \ {0}
    PROVE  /\ Missing(n, d) \in Nat
           /\ \E q \in Nat : n + Missing(n, d) = d * q
<1>1. PICK q \in Nat, m \in 0..(d - 1) : n = d * q + m /\ n % d = m
    BY Quotient, Parts
<1>2. CASE m = 0
  <2>1. Missing(n, d) = 0
      BY <1>1, <1>2, Zenon DEF Missing
  <2>2. n + 0 = d * q /\ 0 \in Nat
      BY <1>1, <1>2
  <2> QED
      BY <2>1, <2>2, Zenon
<1>3. CASE m # 0
  <2>1. Missing(n, d) = d - m
      BY <1>1, <1>3, Zenon DEF Missing
  <2>2. n + (d - m) = d * (q + 1) /\ q + 1 \in Nat /\ d - m \in Nat
      BY <1>1
  <2> QED
      BY <2>1, <2>2, Zenon
<1> QED
    BY <1>2, <1>3

-----------------------------------------------------------------------------
(* A call *)

\* Row i of the batch that is cut: beyond those asked, the last again.
Given(i) == asked[IF i <= Len(asked) THEN i ELSE Len(asked)]

IsSeq(b) == b \in Seq({b[i] : i \in DOMAIN b})

\* During a call every rank has its share of the rows, and no answer or its own.
CallInv ==
    /\ method # "none" =>
          /\ IsSeq(asked) /\ Len(asked) > 0 /\ padding \in Nat
          /\ \E k \in Nat \ {0} :
                /\ Len(asked) + padding = k * World
                /\ shares = [r \in Workers |-> [j \in 1..k |-> Given((r - 1) * k + j)]]
          /\ answers = [r \in Workers |-> answers[r]]
          /\ \A r \in Workers : answers[r] = << >> \/ answers[r] = RowWise(shares[r])
    /\ AnswersFit

LEMMA BeginCall ==
    ASSUME World \in Nat \ {0}, IsSeq(batch),
           NEW m, NEW padded \in BOOLEAN, Begin(m, padded)
    PROVE  /\ padding' \in Nat
           /\ batch' = [i \in 1..(Len(asked') + padding') |-> Given(i)']
           /\ \E k \in Nat \ {0} :
                 /\ Len(asked') + padding' = k * World
                 /\ shares' = [r \in Workers |-> [j \in 1..k |-> Given((r - 1) * k + j)']]
<1> DEFINE n == Len(batch)
           g(i) == batch[IF i <= n THEN i ELSE n]
<1>1. n \in Nat \ {0} /\ asked' = batch /\ batch = [i \in 1..n |-> batch[i]]
    BY DEF Begin, IsSeq
<1>2. padding' = Missing(n, World)
  <2>1. CASE padded
      BY <2>1, Zenon DEF Begin
  <2>2. CASE ~padded
    <3>1. n % World = 0 /\ padding' = 0
        BY <2>2, Zenon DEF Begin
    <3> QED
        BY <3>1, Zenon DEF Missing
  <2> QED
      BY <2>1, <2>2
<1>3. PICK q \in Nat : n + padding' = World * q /\ padding' \in Nat
    BY <1>1, <1>2, Padded
<1>4. q \in Nat \ {0} /\ World * q = q * World
    BY <1>1, <1>3
<1>5. batch' = [i \in 1..(n + padding') |-> g(i)]
  <2>1. CASE padded
      BY <1>2, <2>1, Zenon DEF Begin, PadLast
  <2>2. CASE ~padded
    <3>1. batch' = batch /\ padding' = 0
        BY <2>2, Zenon DEF Begin
    <3>3. [i \in 1..n |-> batch[i]] = [i \in 1..n |-> g(i)]
        OBVIOUS
    <3>4. n + 0 = n
        BY <1>1
    <3> QED
        BY <1>1, <3>1, <3>3, <3>4
  <2> QED
      BY <2>1, <2>2
<1>6. Len(batch') = World * q
    BY <1>1, <1>3, <1>5
<1>7. Len(batch') \div World = q
    BY <1>3, <1>6, Multiple
<1>8. shares' = [r \in Workers |-> [j \in 1..q |-> batch'[(r - 1) * q + j]]]
    BY <1>7, Zenon DEF Begin, Chunk, Workers
<1>9. \A r \in Workers, j \in 1..q : batch'[(r - 1) * q + j] = g((r - 1) * q + j)
  <2> TAKE r \in Workers, j \in 1..q
  <2>1. (r - 1) * q + j \in 1..(q * World)
      BY <1>4, InShare DEF Workers
  <2> HIDE DEF g
  <2> QED
      BY <1>3, <1>4, <1>5, <2>1
<1>10. \A i : Given(i)' = g(i)
    BY <1>1 DEF Given
<1> HIDE DEF g
<1>11. shares' = [r \in Workers |-> [j \in 1..q |-> Given((r - 1) * q + j)']]
    BY <1>8, <1>9, <1>10
<1>12. batch' = [i \in 1..(Len(asked') + padding') |-> Given(i)']
    BY <1>1, <1>5, <1>10
<1> QED
    BY <1>1, <1>3, <1>4, <1>11, <1>12

\* The answers, put together and cut to the rows asked, answer row by row.
LEMMA EndCall ==
    ASSUME World \in Nat \ {0}, CallInv, End
    PROVE  output' = RowWise(asked)
<1> DEFINE n == Len(asked)
           Row == {asked[i] : i \in DOMAIN asked}
<1>1. /\ asked \in Seq(Row) /\ n \in Nat /\ n > 0 /\ padding \in Nat
      /\ answers = [r \in Workers |-> answers[r]]
      /\ \A r \in Workers : answers[r] = RowWise(shares[r])
    BY DEF CallInv, End, AllAnswered, IsSeq
<1> HIDE DEF Row
<1>2. PICK k \in Nat \ {0} :
          /\ n + padding = k * World
          /\ shares = [r \in Workers |-> [j \in 1..k |-> Given((r - 1) * k + j)]]
    BY DEF CallInv, End
<1>3. \A r \in Workers : Len(shares[r]) = k
    BY <1>2
<1>4. \A r \in Workers : answers[r] = [j \in 1..k |-> F(shares[r][j])]
    BY <1>1, <1>3, Zenon DEF RowWise
<1>5. \A r \in Workers, j \in 1..k : answers[r][j] = F(Given((r - 1) * k + j))
    BY <1>2, <1>4
<1>6. Len(answers[1]) = k
  <2>1. 1 \in Workers
      BY DEF Workers
  <2>2. answers[1] = [j \in 1..k |-> F(shares[1][j])]
      BY <1>4, <2>1, Zenon
  <2> QED
      BY <2>2
<1>7. Len(answers) = World
    BY <1>1 DEF Workers
<1> DEFINE all == [i \in 1..(k * World) |-> answers[((i - 1) \div k) + 1][((i - 1) % k) + 1]]
<1>8. Concat(answers) = all
    BY <1>6, <1>7, Zenon DEF Concat
<1>9. \A i \in 1..(k * World) : all[i] = F(Given(i))
  <2> TAKE i \in 1..(k * World)
  <2> DEFINE r == ((i - 1) \div k) + 1
             j == ((i - 1) % k) + 1
  <2>1. i - 1 \in 0..(k * World - 1)
      OBVIOUS
  <2>2. /\ (i - 1) \div k \in 0..(World - 1) /\ (i - 1) % k \in 0..(k - 1)
        /\ ((i - 1) \div k) * k + ((i - 1) % k) = i - 1
      BY <2>1, Position
  <2>3. r \in Workers /\ j \in 1..k /\ (r - 1) * k + j = i
      BY <2>2 DEF Workers
  <2>4. all[i] = answers[r][j]
      OBVIOUS
  <2> HIDE DEF r, j, all
  <2> QED
      BY <1>5, <2>3, <2>4
<1>10. all = [i \in 1..(k * World) |-> F(Given(i))]
    BY <1>9
<1> HIDE DEF all
<1>11. output' = SubSeq(all, 1, Len(all) - padding)
    BY <1>8, Zenon DEF End, Unpad
<1>12. Len(all) = k * World /\ k * World - padding = n
    BY <1>1, <1>2, <1>10
<1>13. output' = SubSeq(all, 1, n)
    BY <1>11, <1>12
<1>14. \A i \in 1..n : i \in 1..(k * World) /\ all[i] = F(asked[i])
    BY <1>1, <1>2, <1>10 DEF Given
<1> DEFINE T == {F(x) : x \in Row}
<1>15. \A i \in 1..n : all[i] \in T
    BY <1>1, <1>14
<1>16. /\ SubSeq(all, 1, n) \in Seq(T) /\ Len(SubSeq(all, 1, n)) = n
       /\ \A i \in 1..n : SubSeq(all, 1, n)[i] = all[i]
  <2> HIDE DEF T
  <2>1. \A i \in 1..(n - 1 + 1) : SubSeq(all, 1, n)[i] = all[1 + i - 1]
      BY <1>1, <1>15, SubSeqProperties
  <2>2. SubSeq(all, 1, n) \in Seq(T) /\ Len(SubSeq(all, 1, n)) = IF 1 <= n THEN n - 1 + 1 ELSE 0
      BY <1>1, <1>15, SubSeqProperties
  <2> QED
      BY <1>1, <2>1, <2>2
<1>17. SubSeq(all, 1, n) = [i \in 1..n |-> F(asked[i])]
    BY <1>14, <1>16
<1> QED
    BY <1>13, <1>17, Zenon DEF RowWise

LEMMA CallStep ==
    ASSUME World \in Nat \ {0}, "none" \notin Methods, CallInv, IsSeq(batch), [Next]_<<batch, call>>
    PROVE  CallInv'
<1> USE DEF call
<1>1. CASE DriverActs \/ UNCHANGED <<batch, call>>
  <2>1. UNCHANGED call
      BY <1>1 DEF DriverActs
  <2>2. IsSeq(asked)' <=> IsSeq(asked)
      BY <2>1 DEF IsSeq
  <2> QED
      BY <2>1, <2>2 DEF CallInv, AnswersFit, RowWise, Given
<1>2. ASSUME NEW padded \in BOOLEAN, NEW m \in Methods, Begin(m, padded)
      PROVE  CallInv'
  <2>1. /\ padding' \in Nat
        /\ \E k \in Nat \ {0} :
              /\ Len(asked') + padding' = k * World
              /\ shares' = [r \in Workers |-> [j \in 1..k |-> Given((r - 1) * k + j)']]
      BY <1>2, BeginCall
  <2>2. /\ method' # "none" /\ IsSeq(asked)' /\ Len(asked') > 0
        /\ answers' = [r \in Workers |-> << >>]
      BY <1>2 DEF Begin, IsSeq
  <2> QED
      BY <2>1, <2>2 DEF CallInv, AnswersFit, Given
<1>3. ASSUME NEW r \in Workers, Compute(r, RowWise(shares[r]))
      PROVE  CallInv'
  <2>1. /\ UNCHANGED <<method, asked, shares, padding, output>> /\ method # "none"
        /\ answers' = [answers EXCEPT ![r] = RowWise(shares[r])]
      BY <1>3 DEF Compute
  <2>2. answers' = [s \in Workers |-> answers'[s]]
        /\ \A s \in Workers : answers'[s] = << >> \/ answers'[s] = RowWise(shares[s])
      BY <2>1 DEF CallInv
  <2>3. IsSeq(asked)' <=> IsSeq(asked)
      BY <2>1 DEF IsSeq
  <2>4. \A i : Given(i)' = Given(i)
      BY <2>1 DEF Given
  <2>5. \A s \in Workers : RowWise(shares[s])' = RowWise(shares[s])
      BY <2>1 DEF RowWise
  <2>6. PICK k \in Nat \ {0} :
            /\ Len(asked) + padding = k * World
            /\ shares = [s \in Workers |-> [j \in 1..k |-> Given((s - 1) * k + j)]]
      BY <2>1 DEF CallInv
  <2>7. /\ Len(asked') + padding' = k * World
        /\ shares' = [s \in Workers |-> [j \in 1..k |-> Given((s - 1) * k + j)']]
      BY <2>1, <2>4, <2>6
  <2>8. IsSeq(asked)' /\ Len(asked') > 0 /\ padding' \in Nat /\ method' # "none"
      BY <2>1, <2>3 DEF CallInv
  <2> QED
      BY <2>2, <2>5, <2>7, <2>8 DEF CallInv, AnswersFit
<1>4. CASE End
  <2>1. output' = RowWise(asked)
      BY <1>4, EndCall
  <2>2. method' = "none" /\ asked' = asked
      BY <1>4 DEF End
  <2> QED
      BY <2>1, <2>2 DEF CallInv, AnswersFit, RowWise
<1> QED
    BY <1>1, <1>2, <1>3, <1>4 DEF Next

\* AnswersFit, for every number of ranks, every batch and every method: whatever
\* the driver does with its rows between two calls, and in whatever order the
\* ranks answer, a call returns the answer to each row it was passed, in order.
THEOREM AnswersAlwaysFit ==
    ASSUME World \in Nat \ {0}, "none" \notin Methods
    PROVE  Spec /\ []IsSeq(batch) => []AnswersFit
<1>1. Init => CallInv
    BY DEF Init, Idle, CallInv, AnswersFit, RowWise
<1>2. CallInv /\ IsSeq(batch) /\ [Next]_<<batch, call>> => CallInv'
    BY CallStep
<1>3. CallInv => AnswersFit
    BY DEF CallInv
<1> QED
    BY <1>1, <1>2, <1>3, PTL DEF Spec
=============================================================================
