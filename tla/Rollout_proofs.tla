--------------------------- MODULE Rollout_proofs ---------------------------
(***************************************************************************)
(* Proofs about Rollout, for every size of the groups and of the batch,    *)
(* every number of steps and of tries, whatever the environments answer.   *)
(* The invariant has a part for the try that is going on (TryInv), one for *)
(* the lists accumulated over the tries (TotalInv), and one for the number *)
(* of trajectories in them (CountInv); what is gathered is then read off   *)
(* the lists.                                                              *)
(***************************************************************************)
EXTENDS Rollout, DataLemmas, SequenceTheorems, TLAPS

-----------------------------------------------------------------------------
(* Environments and groups *)

LEMMA ConfigIs ==
    ASSUME config \in Configs
    PROVE  /\ GroupN \in Nat \ {0} /\ TrainBatch \in Nat \ {0} /\ B \in Nat \ {0}
           /\ B = TrainBatch * GroupN
           /\ MaxSteps \in Nat \ {0} /\ MaxTries \in Int
           /\ FilterGroups \in BOOLEAN /\ NeedsKwargs \in BOOLEAN
           /\ Outcomes # {} /\ Outcomes \subseteq [reward : Int, done : BOOLEAN, won : BOOLEAN]
           /\ IsFiniteSet(Envs) /\ Cardinality(Envs) = B
<1>1. /\ GroupN \in Nat \ {0} /\ TrainBatch \in Nat \ {0}
      /\ MaxSteps \in Nat \ {0} /\ MaxTries \in Int
      /\ FilterGroups \in BOOLEAN /\ NeedsKwargs \in BOOLEAN
      /\ Outcomes # {} /\ Outcomes \subseteq [reward : Int, done : BOOLEAN, won : BOOLEAN]
    BY ConfigsAssumption DEF TrainBatch, MaxSteps, MaxTries, FilterGroups, NeedsKwargs, Outcomes
<1>2. \A x, y \in Nat \ {0} : x * y \in Nat \ {0}
    OBVIOUS
<1>3. B \in Nat \ {0}
    BY <1>1, <1>2 DEF B
<1>4. IsFiniteSet(1..B) /\ Cardinality(1..B) = B
    BY <1>3, FS_Interval
<1> QED
    BY <1>1, <1>3, <1>4 DEF B, Envs

\* The environments of group g.
Members(g) == (g * GroupN + 1)..(g * GroupN + GroupN)

LEMMA MembersAre ==
    ASSUME config \in Configs, NEW g \in Nat
    PROVE  /\ IsFiniteSet(Members(g)) /\ Cardinality(Members(g)) = GroupN
           /\ g < TrainBatch => Members(g) = {e \in Envs : GroupOf(e) = g}
<1> DEFINE k == GroupN
           w == TrainBatch
<1>1. k \in Nat \ {0} /\ w \in Nat \ {0} /\ Envs = 1..(w * k) /\ g * k \in Nat
    BY ConfigIs DEF Envs, B
<1>2. Members(g) = (g * k + 1)..(g * k + k)
    BY DEF Members
<1> HIDE DEF k, w
<1>3. IsFiniteSet(Members(g)) /\ Cardinality(Members(g)) = k
  <2> DEFINE x == g * k
  <2>1. x \in Nat
      BY <1>1
  <2> HIDE DEF x
  <2>2. IsFiniteSet((x + 1)..(x + k)) /\ Cardinality((x + 1)..(x + k)) = k
      BY <1>1, <2>1, FS_Interval
  <2> QED
      BY <1>2, <2>2 DEF x
<1>4. ASSUME g < w, NEW e \in Members(g)
      PROVE  e \in Envs /\ GroupOf(e) = g
  <2>1. g + 1 \in 1..w /\ (g + 1) - 1 = g
      BY <1>1, <1>4
  <2>2. e - g * k \in 1..k /\ e \in Nat \ {0}
      BY <1>1, <1>2, <1>4
  <2>3. g * k + (e - g * k) \in 1..(k * w)
      BY <1>1, <2>1, <2>2, InShare
  <2>4. k * w = w * k
      BY <1>1
  <2>5. e \in Envs
      BY <1>1, <2>2, <2>3, <2>4
  <2>6. e - 1 \in Nat /\ (e - 1) \div k \in Nat /\ (e - 1) % k \in 0..(k - 1)
    <3>1. e - 1 \in Nat
        BY <2>2
    <3> QED
        BY <1>1, <3>1, Parts
  <2>7. e - 1 = k * ((e - 1) \div k) + ((e - 1) % k)
      BY <1>1, <2>6, Quotient
  <2>8. g * k + ((e - g * k) - 1) = ((e - 1) \div k) * k + ((e - 1) % k)
    <3> DEFINE q == (e - 1) \div k
               r == (e - 1) % k
    <3>1. e - 1 = k * q + r /\ q \in Nat /\ r \in Nat
        BY <2>6, <2>7
    <3> HIDE DEF q, r
    <3>2. k * q = q * k
        BY <1>1, <3>1
    <3> QED
        BY <1>1, <2>2, <3>1, <3>2 DEF q, r
  <2>9. (e - g * k) - 1 \in 0..(k - 1)
      BY <1>1, <2>2
  <2>10. g = (e - 1) \div k
    <3> DEFINE q == (e - 1) \div k
               r == (e - 1) % k
               i == (e - g * k) - 1
    <3>1. q \in Nat /\ r \in 0..(k - 1) /\ i \in 0..(k - 1) /\ g * k + i = q * k + r
        BY <2>6, <2>8, <2>9
    <3> HIDE DEF q, r, i
    <3>2. g = q
        BY <1>1, <3>1, OneQuotient
    <3> QED
        BY <3>2 DEF q
  <2> QED
      BY <2>5, <2>10 DEF GroupOf, k
<1>5. ASSUME NEW e \in Envs, GroupOf(e) = g
      PROVE  e \in Members(g)
  <2>1. e - 1 \in Nat
      BY <1>1
  <2>2. (e - 1) \div k = g /\ (e - 1) % k \in 0..(k - 1)
      BY <1>1, <1>5, <2>1, Parts DEF GroupOf, k
  <2>3. e - 1 = k * g + ((e - 1) % k)
      BY <1>1, <2>1, <2>2, Quotient
  <2> DEFINE r == (e - 1) % k
  <2>4. e = k * g + r + 1 /\ r \in 0..(k - 1) /\ k * g = g * k
      BY <1>1, <2>1, <2>2, <2>3
  <2> HIDE DEF r
  <2> QED
      BY <1>1, <1>2, <2>4
<1> QED
    BY <1>3, <1>4, <1>5 DEF k, w

LEMMA GroupIs ==
    ASSUME config \in Configs, NEW e \in Envs
    PROVE  GroupOf(e) \in 0..(TrainBatch - 1) /\ GroupOf(e) \in Groups
<1> DEFINE k == GroupN
           w == TrainBatch
<1>1. k \in Nat \ {0} /\ w \in Nat \ {0} /\ Envs = 1..(w * k)
    BY ConfigIs DEF Envs, B
<1> HIDE DEF k, w
<1>2. w * k = k * w /\ k * w \in Nat
    BY <1>1
<1>3. e - 1 \in 0..(k * w - 1)
    BY <1>1, <1>2
<1>4. (e - 1) \div k \in 0..(w - 1)
    BY <1>1, <1>3, Position
<1> QED
    BY <1>4 DEF GroupOf, Groups, k, w

LEMMA SameGroup ==
    ASSUME config \in Configs, NEW e \in Envs
    PROVE  /\ {f \in Envs : GroupOf(f) = GroupOf(e)} = Members(GroupOf(e))
           /\ IsFiniteSet(Members(GroupOf(e))) /\ Cardinality(Members(GroupOf(e))) = GroupN
<1>1. GroupOf(e) \in Nat /\ GroupOf(e) < TrainBatch
    BY ConfigIs, GroupIs
<1> QED
    BY <1>1, MembersAre

\* A number of whole groups has a multiple of GroupN members.
LEMMA WholeGroups ==
    ASSUME config \in Configs, NEW S \in SUBSET Envs,
           \A e \in S : \A f \in Envs : GroupOf(f) = GroupOf(e) => f \in S
    PROVE  \E q \in Nat : Cardinality(S) = q * GroupN
<1> DEFINE All == 0..(TrainBatch - 1)
           Of(T) == {e \in Envs : GroupOf(e) \in T}
           G == {T \in SUBSET All : \E q \in Nat : Cardinality(Of(T)) = q * GroupN}
<1>1. /\ GroupN \in Nat \ {0} /\ TrainBatch \in Nat \ {0} /\ IsFiniteSet(Envs)
    BY ConfigIs
<1>2. \A T : IsFiniteSet(Of(T)) /\ Cardinality(Of(T)) \in Nat
    BY <1>1, FS_Subset, FS_CardinalityType
<1>3. {} \in G
  <2>1. Of({}) = {}
      OBVIOUS
  <2>2. Cardinality(Of({})) = 0 * GroupN /\ 0 \in Nat
      BY <1>1, <2>1, FS_EmptySet
  <2> QED
      BY <2>2
<1>4. ASSUME NEW T \in G, NEW g \in All \ T
      PROVE  T \cup {g} \in G
  <2>1. PICK q \in Nat : Cardinality(Of(T)) = q * GroupN
      BY <1>4
  <2>2. g \in Nat /\ g < TrainBatch
      BY <1>1
  <2>3. /\ Members(g) = {e \in Envs : GroupOf(e) = g}
        /\ IsFiniteSet(Members(g)) /\ Cardinality(Members(g)) = GroupN
      BY <2>2, MembersAre
  <2>4. Of(T \cup {g}) = Of(T) \cup Members(g) /\ Of(T) \cap Members(g) = {}
      BY <2>3
  <2> HIDE DEF Of
  <2>5. /\ Cardinality(Of(T) \cup Members(g))
              = Cardinality(Of(T)) + Cardinality(Members(g)) - Cardinality(Of(T) \cap Members(g))
      BY <1>2, <2>3, FS_Union
  <2>6. Cardinality(Of(T) \cap Members(g)) = 0
      BY <2>4, FS_EmptySet
  <2>7. Cardinality(Of(T \cup {g})) = q * GroupN + GroupN
    <3> DEFINE x == q * GroupN
    <3>1. x \in Nat
        BY <1>1
    <3>2. Cardinality(Of(T)) = x
        BY <2>1
    <3> HIDE DEF x
    <3>3. Cardinality(Of(T) \cup Members(g)) = x + GroupN - 0
        BY <2>3, <2>5, <2>6, <3>2
    <3>4. Cardinality(Of(T \cup {g})) = Cardinality(Of(T) \cup Members(g))
        BY <2>4, Zenon
    <3>5. Cardinality(Of(T \cup {g})) = x + GroupN - 0
        BY <3>3, <3>4, Zenon
    <3>6. x + GroupN - 0 = x + GroupN
        BY <1>1, <3>1
    <3> QED
        BY <3>5, <3>6 DEF x
  <2>8. q * GroupN + GroupN = (q + 1) * GroupN /\ q + 1 \in Nat
      BY <1>1
  <2>9. T \cup {g} \in SUBSET All
      OBVIOUS
  <2> QED
      BY <2>7, <2>8, <2>9
<1> DEFINE U == {GroupOf(e) : e \in S}
<1>6. U \in SUBSET All
    BY GroupIs
<1>7. Of(U) = S
    OBVIOUS
<1> QED
  <2> DEFINE H == {T \in SUBSET U : T \in G}
  <2>1. {} \in H
      BY <1>3
  <2>2. ASSUME NEW T \in H, NEW g \in U \ T
        PROVE  T \cup {g} \in H
      BY <1>4, <1>6
  <2>3. IsFiniteSet(U) /\ H \in SUBSET SUBSET U
    <3>1. IsFiniteSet(All)
        BY <1>1, FS_Interval
    <3> HIDE DEF All, U
    <3> QED
        BY <1>6, <3>1, FS_Subset
  <2>4. U \in H
    <3> HIDE DEF H, U
    <3> QED
        BY <2>1, <2>2, <2>3, SetInduction
  <2> QED
      BY <1>7, <2>4

\* The place of e among the members of S.
RankIn(S, e) == Cardinality({f \in S : f <= e})

LEMMA RanksAre ==
    ASSUME config \in Configs, NEW S \in SUBSET Envs
    PROVE  /\ IsFiniteSet(S) /\ Cardinality(S) \in Nat
           /\ \A e \in S : RankIn(S, e) \in 1..Cardinality(S)
           /\ \A d, e \in S : RankIn(S, d) = RankIn(S, e) => d = e
           /\ \A i \in 1..Cardinality(S) : \E e \in S : RankIn(S, e) = i
<1> DEFINE n == Cardinality(S)
           upTo(e) == {f \in S : f <= e}
<1>1. IsFiniteSet(S) /\ n \in Nat /\ S \subseteq Int
  <2>1. IsFiniteSet(S)
      BY ConfigIs, FS_Subset
  <2>2. B \in Nat /\ S \subseteq 1..B
      BY ConfigIs DEF Envs
  <2>3. S \subseteq Int
      BY <2>2
  <2> QED
      BY <2>1, <2>3, FS_CardinalityType
<1>2. \A e : IsFiniteSet(upTo(e)) /\ Cardinality(upTo(e)) \in Nat /\ Cardinality(upTo(e)) <= n
  <2>1. \A e : upTo(e) \in SUBSET S
      OBVIOUS
  <2> HIDE DEF upTo
  <2> QED
      BY <1>1, <2>1, FS_Subset, FS_CardinalityType
<1>3. \A e \in S : Cardinality(upTo(e)) # 0
  <2>1. \A e \in S : upTo(e) # {}
      BY <1>1
  <2> HIDE DEF upTo
  <2> QED
      BY <1>2, <2>1, FS_EmptySet
<1>4. \A e : RankIn(S, e) = Cardinality(upTo(e))
    BY DEF RankIn
<1>5. \A e \in S : RankIn(S, e) \in 1..n
  <2> HIDE DEF upTo, n
  <2> QED
      BY <1>1, <1>2, <1>3, <1>4
<1>6. ASSUME NEW d \in S, NEW e \in S, d < e
      PROVE  RankIn(S, d) # RankIn(S, e)
  <2>1. upTo(d) \in SUBSET upTo(e) /\ e \in upTo(e) /\ e \notin upTo(d)
    <3>1. d \in Int /\ e \in Int /\ \A f \in S : f \in Int
        BY <1>1
    <3>2. \A f \in S : f <= d => f <= e
        BY <1>6, <3>1
    <3>3. e <= e /\ ~(e <= d)
        BY <1>6, <3>1
    <3> QED
        BY <3>2, <3>3
  <2> HIDE DEF upTo
  <2>2. Cardinality(upTo(e)) # Cardinality(upTo(d))
      BY <1>2, <2>1, FS_Subset
  <2> QED
      BY <1>4, <2>2
<1>7. ASSUME NEW d \in S, NEW e \in S, RankIn(S, d) = RankIn(S, e)
      PROVE  d = e
  <2>1. d < e \/ e < d \/ d = e
      BY <1>1
  <2> QED
      BY <1>6, <1>7, <2>1
<1> DEFINE rank == [e \in S |-> RankIn(S, e)]
<1>8. rank \in Injection(S, 1..n)
  <2>1. rank \in [S -> 1..n]
      BY <1>5
  <2>2. \A d, e \in S : rank[d] = rank[e] => d = e
      BY <1>7
  <2> HIDE DEF rank
  <2> QED
      BY <2>1, <2>2 DEF Injection, IsInjective
<1>9. rank \in Surjection(S, 1..n)
  <2>1. IsFiniteSet(1..n) /\ Cardinality(1..n) = n
      BY <1>1, FS_Interval
  <2> HIDE DEF rank
  <2> QED
      BY <1>8, <2>1, FS_Injection
<1>10. \A i \in 1..n : \E e \in S : RankIn(S, e) = i
  <2>1. \A i \in 1..n : \E e \in S : rank[e] = i
    <3> HIDE DEF rank
    <3> QED
        BY <1>9 DEF Surjection
  <2> QED
      BY <2>1
<1> QED
    BY <1>1, <1>5, <1>7, <1>10

\* The list has each member of S in one place.
LEMMA InOrderIs ==
    ASSUME config \in Configs, NEW S \in SUBSET Envs
    PROVE  /\ InOrder(S) \in Seq(S) /\ Len(InOrder(S)) = Cardinality(S) /\ Cardinality(S) \in Nat
           /\ \A i \in 1..Cardinality(S) : InOrder(S)[i] \in S /\ RankIn(S, InOrder(S)[i]) = i
           /\ \A i, j \in 1..Cardinality(S) : InOrder(S)[i] = InOrder(S)[j] => i = j
           /\ \A e \in S : \E i \in 1..Cardinality(S) : InOrder(S)[i] = e
<1> DEFINE n == Cardinality(S)
           s == InOrder(S)
<1>1. s = [i \in 1..n |-> CHOOSE e \in S : RankIn(S, e) = i]
    BY DEF InOrder, RankIn
<1>2. /\ n \in Nat
      /\ \A e \in S : RankIn(S, e) \in 1..n
      /\ \A d, e \in S : RankIn(S, d) = RankIn(S, e) => d = e
      /\ \A i \in 1..n : \E e \in S : RankIn(S, e) = i
    BY RanksAre
<1>3. \A i \in 1..n : s[i] \in S /\ RankIn(S, s[i]) = i
  <2> HIDE DEF n
  <2>1. \A i \in 1..n : s[i] = CHOOSE e \in S : RankIn(S, e) = i
      BY <1>1
  <2> HIDE DEF s
  <2> QED
      BY <1>2, <2>1
<1> HIDE DEF n, s
<1>4. s \in Seq(S) /\ Len(s) = n
  <2>1. s \in [1..n -> S]
      BY <1>1, <1>3
  <2> QED
      BY <1>2, <2>1
<1>5. \A e \in S : \E i \in 1..n : s[i] = e
    BY <1>2, <1>3
<1>6. \A i, j \in 1..n : s[i] = s[j] => i = j
    BY <1>3
<1> QED
    BY <1>2, <1>3, <1>4, <1>5, <1>6 DEF n, s

LEMMA AllInOrder ==
    ASSUME config \in Configs
    PROVE  Len(InOrder(Envs)) = B /\ \A e \in Envs : InOrder(Envs)[e] = e
<1>1. /\ B \in Nat /\ Envs = 1..B /\ Cardinality(Envs) = B
    BY ConfigIs DEF Envs
<1>2. \A e \in Envs : RankIn(Envs, e) = e
  <2> TAKE e \in Envs
  <2>1. {f \in Envs : f <= e} = 1..e /\ e \in Nat
      BY <1>1
  <2>2. Cardinality(1..e) = e
      BY <1>1, <2>1, FS_Interval
  <2> QED
      BY <2>1, <2>2 DEF RankIn
<1>3. /\ Len(InOrder(Envs)) = B
      /\ \A i \in 1..B : InOrder(Envs)[i] \in Envs /\ RankIn(Envs, InOrder(Envs)[i]) = i
    BY <1>1, InOrderIs
<1> QED
    BY <1>1, <1>2, <1>3

-----------------------------------------------------------------------------
(* The invariant *)

Row == [traj : Nat \X Nat, uid : Nat \X Int, step : Nat,
        active : BOOLEAN, reward : Int, won : BOOLEAN]

IsSeq(s) == s \in Seq({s[i] : i \in DOMAIN s})

TypeInv ==
    /\ config \in Configs /\ try \in Nat
    /\ pc \in {"loop", "step", "evaluate", "done", "raised"}
    /\ isDone \in [Envs -> BOOLEAN] /\ reward \in [Envs -> Int] /\ length \in [Envs -> Nat]
    /\ rows \in [Envs -> Seq(Row)]
    /\ total \in [rows : Seq(Seq(Row)), reward : Seq(Int), length : Seq(Nat),
                  traj : Seq(Nat \X Nat)]
    /\ Len(total.reward) = Len(total.rows) /\ Len(total.length) = Len(total.rows)
    /\ Len(total.traj) = Len(total.rows)
    /\ IsSeq(success)

\* The rows s of trajectory t, n of them, of which the first len are active.
Recorded(s, n, t, len) ==
    /\ Len(s) = n
    /\ \A i \in 1..n : /\ s[i].traj = t /\ s[i].uid = <<t[1], GroupOf(t[2])>>
                       /\ s[i].step = i - 1 /\ (s[i].active <=> i <= len)

\* What the first len rows of s were rewarded.
Earned(s, len) == SumFunctionOnSet([i \in 1..len |-> s[i].reward], 1..len)

\* Environment e after n steps.
Played(e, n) ==
    /\ Recorded(rows[e], n, TrajUid(e), length[e])
    /\ length[e] \in 0..n
    /\ n = 0 => ~isDone[e]
    /\ n > 0 => length[e] > 0
    /\ ~isDone[e] => length[e] = n
    /\ reward[e] = Earned(rows[e], length[e])

TryInv ==
    pc \in {"step", "evaluate"} =>
        /\ \A e \in Envs : Played(e, Len(rows[1]))
        /\ pc = "evaluate" => Len(rows[1]) > 0

\* The tries that are over.
Over == IF pc \in {"step", "evaluate"} THEN try - 1 ELSE try

\* Trajectory k of the lists.
Whole(k) ==
    /\ Recorded(total.rows[k], Len(total.rows[k]), total.traj[k], total.length[k])
    /\ total.length[k] \in 1..Len(total.rows[k])
    /\ total.reward[k] = Earned(total.rows[k], total.length[k])
    /\ total.traj[k][1] \in 1..Over /\ total.traj[k][2] \in Envs

\* Trajectories j and k are of one group.
Mates(j, k) ==
    /\ total.traj[j][1] = total.traj[k][1]
    /\ GroupOf(total.traj[j][2]) = GroupOf(total.traj[k][2])

\* Every member of the group of k is there, and not all are rewarded alike
\* unless the last try was not filtered.
InGroup(k) ==
    /\ \A f \in Envs : GroupOf(f) = GroupOf(total.traj[k][2]) =>
          \E j \in 1..Len(total.rows) : total.traj[j] = <<total.traj[k][1], f>>
    /\ FilterGroups /\ total.traj[k][1] < MaxTries =>
          \E j \in 1..Len(total.rows) : Mates(j, k) /\ total.reward[j] # total.reward[k]

TotalInv ==
    /\ \A k \in 1..Len(total.rows) : Whole(k) /\ InGroup(k)
    /\ \A j, k \in 1..Len(total.rows) : total.traj[j] = total.traj[k] => j = k

\* All that success_evaluator said of the trajectories of the lists.
AllWon == FlattenSeq([i \in DOMAIN success |-> success[i][SuccessRate]])

SuccessInv ==
    /\ \A i \in DOMAIN success : SuccessRate \in DOMAIN success[i]
    /\ AllWon \in Seq(BOOLEAN) /\ Len(AllWon) = Len(total.rows)
    /\ \A k \in 1..Len(total.rows) : AllWon[k] = total.rows[k][total.length[k]].won

\* How many trajectories there are before, in and after a try.
CountInv ==
    /\ pc \in {"step", "evaluate"} => try > 0
    /\ success # <<>> => try > 0
    /\ IF FilterGroups
       THEN /\ \E q \in Nat : Len(total.rows) = q * GroupN
            /\ Len(total.rows) <= 2 * B - GroupN
            /\ pc \in {"step", "evaluate"} => Len(total.rows) < B /\ try <= MaxTries
            /\ pc = "loop" /\ try > 0 => try <= MaxTries
            /\ pc = "loop" /\ try > 0 /\ try = MaxTries => Len(total.rows) >= B
       ELSE /\ try \in 0..1
            /\ pc # "raised" =>
                  Len(total.rows) = IF pc \in {"loop", "done"} /\ try = 1 THEN B ELSE 0

\* The rows of trajectory k that are gathered.
Labelled(k) ==
    [i \in 1..total.length[k] |-> RowOf(k, i, total.reward[k] > 0 /\ i = total.length[k])]

AllLabelled == [k \in 1..Len(total.rows) |-> Labelled(k)]

DoneInv ==
    pc = "done" => /\ ~KeepSampling /\ Concatenable
                   /\ FilterGroups => Len(total.rows) >= B
                   /\ ~FilterGroups => try = 1
                   /\ output = FlattenSeq(AllLabelled)
                   /\ rates[SuccessRate] = Rate(AllWon)

RolloutInv == TypeInv /\ TryInv /\ TotalInv /\ SuccessInv /\ CountInv /\ DoneInv

-----------------------------------------------------------------------------
(* Types *)

\* The environments that filter_group_data keeps.
Kept == IF LastTry THEN Envs ELSE {e \in Envs : Mixed(GroupOf(e))}

LEMMA KeepIndicesIs ==
    ASSUME config \in Configs
    PROVE  /\ Kept \in SUBSET Envs /\ Cardinality(Kept) \in 0..B
           /\ KeepIndices \in Seq(Kept) /\ Len(KeepIndices) = Cardinality(Kept)
           /\ \A i \in 1..Cardinality(Kept) : KeepIndices[i] \in Kept
           /\ \A i, j \in 1..Cardinality(Kept) : KeepIndices[i] = KeepIndices[j] => i = j
           /\ \A e \in Kept : \E i \in 1..Cardinality(Kept) : KeepIndices[i] = e
<1>1. Kept \in SUBSET Envs
    BY DEF Kept
<1>2. KeepIndices = InOrder(Kept)
    BY DEF KeepIndices, Kept
<1>3. Cardinality(Kept) \in 0..B
  <2>1. /\ IsFiniteSet(Envs) /\ Cardinality(Envs) = B /\ B \in Nat
      BY ConfigIs
  <2>2. IsFiniteSet(Kept) /\ Cardinality(Kept) <= B
      BY <1>1, <2>1, FS_Subset
  <2> QED
      BY <2>1, <2>2, FS_CardinalityType
<1> QED
    BY <1>1, <1>2, <1>3, InOrderIs

\* Indexing by the kept environments.
LEMMA AtIs ==
    ASSUME config \in Configs, NEW T, NEW f, \A e \in Envs : f[e] \in T
    PROVE  /\ At(f, KeepIndices) \in Seq(T) /\ Len(At(f, KeepIndices)) = Cardinality(Kept)
           /\ \A i \in 1..Cardinality(Kept) : At(f, KeepIndices)[i] = f[KeepIndices[i]]
<1> DEFINE n == Cardinality(Kept)
           s == KeepIndices
<1>1. /\ n \in Nat /\ DOMAIN s = 1..n /\ \A i \in 1..n : s[i] \in Envs
    BY KeepIndicesIs
<1>2. At(f, s) = [i \in 1..n |-> f[s[i]]]
    BY <1>1 DEF At
<1> HIDE DEF n, s
<1>3. At(f, s) \in [1..n -> T]
    BY <1>1, <1>2
<1> QED
    BY <1>1, <1>2, <1>3 DEF n, s

LEMMA TypeInit == Init => TypeInv
<1> SUFFICES ASSUME Init
             PROVE  TypeInv
    OBVIOUS
<1>1. << >> \in Seq(Row) /\ << >> \in Seq(Seq(Row)) /\ << >> \in Seq(Int) /\ << >> \in Seq(Nat)
      /\ << >> \in Seq(Nat \X Nat) /\ Len(<< >>) = 0
    OBVIOUS
<1>2. IsSeq(success)
    BY DEF Init, IsSeq
<1> QED
    BY <1>1, <1>2 DEF Init, TypeInv

\* The row that Step records of environment e.
NewRow(e, out) ==
    [traj |-> TrajUid(e), uid |-> Uid(e), step |-> Len(rows[e]), active |-> ~isDone[e],
     reward |-> out[e].reward, won |-> out[e].won]

LEMMA StepIs ==
    ASSUME TypeInv, Step
    PROVE  /\ pc = "step" /\ pc' \in {"step", "evaluate"}
           /\ UNCHANGED <<config, try, envKwargs, game, total, success, result>>
           /\ \E out \in [Envs -> Outcomes] : \A e \in Envs :
                 /\ out[e].reward \in Int /\ out[e].done \in BOOLEAN /\ out[e].won \in BOOLEAN
                 /\ NewRow(e, out) \in Row
                 /\ rows'[e] = Append(rows[e], NewRow(e, out))
                 /\ isDone'[e] = (isDone[e] \/ out[e].done)
                 /\ reward'[e] = IF isDone[e] THEN reward[e] ELSE reward[e] + out[e].reward
                 /\ length'[e] = IF isDone[e] THEN length[e] ELSE length[e] + 1
           /\ isDone' \in [Envs -> BOOLEAN] /\ reward' \in [Envs -> Int] /\ length' \in [Envs -> Nat]
           /\ rows' \in [Envs -> Seq(Row)]
<1>1. /\ pc = "step" /\ pc' \in {"step", "evaluate"}
      /\ UNCHANGED <<config, try, envKwargs, game, total, success, result>>
    BY Zenon DEF Step
<1>2. PICK out \in [Envs -> Outcomes] :
          /\ reward' = [e \in Envs |-> Masked(~isDone[e], reward[e] + out[e].reward, reward[e])]
          /\ length' = [e \in Envs |-> Masked(~isDone[e], length[e] + 1, length[e])]
          /\ rows' = [e \in Envs |-> Append(rows[e], NewRow(e, out))]
          /\ isDone' = [e \in Envs |-> isDone[e] \/ out[e].done]
    BY DEF Step, NewRow
<1>3. \A e \in Envs : /\ out[e].reward \in Int /\ out[e].done \in BOOLEAN /\ out[e].won \in BOOLEAN
    BY ConfigIs DEF TypeInv
<1>4. \A e \in Envs : /\ isDone[e] \in BOOLEAN /\ reward[e] \in Int /\ length[e] \in Nat
                      /\ rows[e] \in Seq(Row)
    BY DEF TypeInv
<1>5. \A e \in Envs : NewRow(e, out) \in Row
  <2> TAKE e \in Envs
  <2>1. TrajUid(e) \in Nat \X Nat /\ Uid(e) \in Nat \X Int
    <3>1. try \in Nat /\ e \in Nat
        BY ConfigIs DEF TypeInv, Envs
    <3>2. GroupOf(e) \in Int
        BY ConfigIs, GroupIs DEF TypeInv
    <3> QED
        BY <3>1, <3>2 DEF TrajUid, Uid
  <2>2. Len(rows[e]) \in Nat
      BY <1>4
  <2> QED
      BY <1>3, <1>4, <2>1, <2>2 DEF NewRow, Row
<1>6. \A e \in Envs : Append(rows[e], NewRow(e, out)) \in Seq(Row)
    BY <1>4, <1>5
<1>7. \A e \in Envs :
          /\ rows'[e] = Append(rows[e], NewRow(e, out))
          /\ isDone'[e] = (isDone[e] \/ out[e].done)
          /\ reward'[e] = IF isDone[e] THEN reward[e] ELSE reward[e] + out[e].reward
          /\ length'[e] = IF isDone[e] THEN length[e] ELSE length[e] + 1
    BY <1>2, <1>4 DEF Masked
<1>8. \A e \in Envs :
          /\ Masked(~isDone[e], reward[e] + out[e].reward, reward[e]) \in Int
          /\ Masked(~isDone[e], length[e] + 1, length[e]) \in Nat
          /\ (isDone[e] \/ out[e].done) \in BOOLEAN
    BY <1>3, <1>4 DEF Masked
<1>9. /\ isDone' \in [Envs -> BOOLEAN] /\ reward' \in [Envs -> Int] /\ length' \in [Envs -> Nat]
      /\ rows' \in [Envs -> Seq(Row)]
    BY <1>2, <1>6, <1>8
<1> QED
    BY <1>1, <1>3, <1>5, <1>7, <1>9

LEMMA Concatenation ==
    ASSUME NEW T, NEW s \in Seq(T), NEW t \in Seq(T)
    PROVE  /\ Len(s \o t) = Len(s) + Len(t)
           /\ \A k \in 1..Len(s) : (s \o t)[k] = s[k]
           /\ \A i \in 1..Len(t) : (s \o t)[Len(s) + i] = t[i]
  OBVIOUS

\* Trajectory k of the lists after a try, and what is said of it.
LEMMA EvaluateIs ==
    ASSUME TypeInv, Evaluate
    PROVE  /\ pc = "evaluate" /\ pc' = "loop"
           /\ UNCHANGED <<config, try, envKwargs, attempt, result>>
           /\ total' \in [rows : Seq(Seq(Row)), reward : Seq(Int), length : Seq(Nat),
                          traj : Seq(Nat \X Nat)]
           /\ Len(total'.rows) = Len(total.rows) + Cardinality(Kept)
           /\ Len(total'.reward) = Len(total'.rows) /\ Len(total'.length) = Len(total'.rows)
           /\ Len(total'.traj) = Len(total'.rows)
           /\ \A k \in 1..Len(total.rows) :
                 /\ total'.rows[k] = total.rows[k] /\ total'.reward[k] = total.reward[k]
                 /\ total'.length[k] = total.length[k] /\ total'.traj[k] = total.traj[k]
           /\ \A i \in 1..Cardinality(Kept) :
                 LET e == KeepIndices[i]
                     k == Len(total.rows) + i
                 IN  /\ total'.rows[k] = rows[e] /\ total'.reward[k] = reward[e]
                     /\ total'.length[k] = length[e] /\ total'.traj[k] = TrajUid(e)
           /\ success' = Append(success, FilteredSuccess)
<1>1. /\ pc = "evaluate" /\ pc' = "loop"
      /\ UNCHANGED <<config, try, envKwargs, attempt, result>>
      /\ success' = Append(success, FilteredSuccess)
    BY DEF Evaluate
<1> DEFINE n == Cardinality(Kept)
           m == Len(total.rows)
           uids == [e \in Envs |-> TrajUid(e)]
<1>2. total' = [rows |-> total.rows \o At(rows, KeepIndices),
                reward |-> total.reward \o At(reward, KeepIndices),
                length |-> total.length \o At(length, KeepIndices),
                traj |-> total.traj \o At(uids, KeepIndices)]
    BY Zenon DEF Evaluate
<1>3. /\ config \in Configs /\ m \in Nat /\ n \in Nat
      /\ total.rows \in Seq(Seq(Row)) /\ total.reward \in Seq(Int) /\ total.length \in Seq(Nat)
      /\ total.traj \in Seq(Nat \X Nat)
      /\ Len(total.reward) = m /\ Len(total.length) = m /\ Len(total.traj) = m
    BY KeepIndicesIs DEF TypeInv
<1>4. \A e \in Envs : /\ rows[e] \in Seq(Row) /\ reward[e] \in Int /\ length[e] \in Nat
                      /\ TrajUid(e) \in Nat \X Nat /\ uids[e] = TrajUid(e)
  <2>1. try \in Nat /\ \A e \in Envs : e \in Nat
      BY ConfigIs DEF TypeInv, Envs
  <2> QED
      BY <2>1 DEF TypeInv, TrajUid
<1>5. \A i \in 1..n : KeepIndices[i] \in Envs
    BY <1>3, KeepIndicesIs
<1>6. /\ At(rows, KeepIndices) \in Seq(Seq(Row)) /\ Len(At(rows, KeepIndices)) = n
      /\ \A i \in 1..n : At(rows, KeepIndices)[i] = rows[KeepIndices[i]]
  <2>1. \A e \in Envs : rows[e] \in Seq(Row)
      BY <1>4
  <2> QED
      BY <1>3, <2>1, AtIs
<1>7. /\ At(reward, KeepIndices) \in Seq(Int) /\ Len(At(reward, KeepIndices)) = n
      /\ \A i \in 1..n : At(reward, KeepIndices)[i] = reward[KeepIndices[i]]
  <2>1. \A e \in Envs : reward[e] \in Int
      BY <1>4
  <2> QED
      BY <1>3, <2>1, AtIs, Zenon
<1>8. /\ At(length, KeepIndices) \in Seq(Nat) /\ Len(At(length, KeepIndices)) = n
      /\ \A i \in 1..n : At(length, KeepIndices)[i] = length[KeepIndices[i]]
  <2>1. \A e \in Envs : length[e] \in Nat
      BY <1>4
  <2> QED
      BY <1>3, <2>1, AtIs, Zenon
<1>9. /\ At(uids, KeepIndices) \in Seq(Nat \X Nat) /\ Len(At(uids, KeepIndices)) = n
      /\ \A i \in 1..n : At(uids, KeepIndices)[i] = TrajUid(KeepIndices[i])
  <2>1. \A e \in Envs : uids[e] \in Nat \X Nat
      BY <1>4
  <2>2. \A i \in 1..n : uids[KeepIndices[i]] = TrajUid(KeepIndices[i])
      BY <1>4, <1>5
  <2> DEFINE T == Nat \X Nat
  <2>3. \A e \in Envs : uids[e] \in T
      BY <2>1
  <2> HIDE DEF uids, T
  <2>4. /\ At(uids, KeepIndices) \in Seq(T) /\ Len(At(uids, KeepIndices)) = n
        /\ \A i \in 1..n : At(uids, KeepIndices)[i] = uids[KeepIndices[i]]
      BY <1>3, <2>3, AtIs
  <2> QED
      BY <2>2, <2>4 DEF T
<1> DEFINE mr == At(rows, KeepIndices)
           mw == At(reward, KeepIndices)
           ml == At(length, KeepIndices)
           mt == At(uids, KeepIndices)
<1>10. /\ mr \in Seq(Seq(Row)) /\ mw \in Seq(Int) /\ ml \in Seq(Nat) /\ mt \in Seq(Nat \X Nat)
       /\ Len(mr) = n /\ Len(mw) = n /\ Len(ml) = n /\ Len(mt) = n
    BY <1>6, <1>7, <1>8, <1>9
<1>11. /\ total'.rows = total.rows \o mr /\ total'.reward = total.reward \o mw
       /\ total'.length = total.length \o ml /\ total'.traj = total.traj \o mt
    BY <1>2
<1> HIDE DEF n, m, uids, mr, mw, ml, mt
<1>12. total' \in [rows : Seq(Seq(Row)), reward : Seq(Int), length : Seq(Nat), traj : Seq(Nat \X Nat)]
  <2>1. /\ total.rows \o mr \in Seq(Seq(Row)) /\ total.reward \o mw \in Seq(Int)
        /\ total.length \o ml \in Seq(Nat) /\ total.traj \o mt \in Seq(Nat \X Nat)
      BY <1>3, <1>10
  <2>2. total' = [rows |-> total.rows \o mr, reward |-> total.reward \o mw,
                  length |-> total.length \o ml, traj |-> total.traj \o mt]
      BY <1>2 DEF mr, mw, ml, mt
  <2> QED
      BY <2>1, <2>2
<1>13. /\ Len(total'.rows) = m + n
       /\ \A k \in 1..m : total'.rows[k] = total.rows[k]
       /\ \A i \in 1..n : total'.rows[m + i] = mr[i]
  <2> DEFINE T == Seq(Row)
             s == total.rows
             u == total'.rows
  <2>1. s \in Seq(T) /\ mr \in Seq(T) /\ u = s \o mr /\ Len(s) = m /\ Len(mr) = n
      BY <1>3, <1>10, <1>11 DEF m
  <2> HIDE DEF T, s, u
  <2>2. /\ Len(s \o mr) = Len(s) + Len(mr)
        /\ \A k \in 1..Len(s) : (s \o mr)[k] = s[k]
        /\ \A i \in 1..Len(mr) : (s \o mr)[Len(s) + i] = mr[i]
    <3>1. s \in Seq(T) /\ mr \in Seq(T)
        BY <2>1
    <3> QED
        BY <3>1, Concatenation
  <2>3. Len(u) = m + n /\ (\A k \in 1..m : u[k] = s[k]) /\ \A i \in 1..n : u[m + i] = mr[i]
      BY <2>1, <2>2, Zenon
  <2> QED
      BY <2>3 DEF s, u
<1>14. /\ Len(total'.reward) = m + n
       /\ \A k \in 1..m : total'.reward[k] = total.reward[k]
       /\ \A i \in 1..n : total'.reward[m + i] = mw[i]
  <2> DEFINE T == Int
             s == total.reward
             u == total'.reward
  <2>1. s \in Seq(T) /\ mw \in Seq(T) /\ u = s \o mw /\ Len(s) = m /\ Len(mw) = n
      BY <1>3, <1>10, <1>11 DEF m
  <2> HIDE DEF T, s, u
  <2>2. /\ Len(s \o mw) = Len(s) + Len(mw)
        /\ \A k \in 1..Len(s) : (s \o mw)[k] = s[k]
        /\ \A i \in 1..Len(mw) : (s \o mw)[Len(s) + i] = mw[i]
    <3>1. s \in Seq(T) /\ mw \in Seq(T)
        BY <2>1
    <3> QED
        BY <3>1, Concatenation
  <2>3. Len(u) = m + n /\ (\A k \in 1..m : u[k] = s[k]) /\ \A i \in 1..n : u[m + i] = mw[i]
      BY <2>1, <2>2, Zenon
  <2> QED
      BY <2>3 DEF s, u
<1>15. /\ Len(total'.length) = m + n
       /\ \A k \in 1..m : total'.length[k] = total.length[k]
       /\ \A i \in 1..n : total'.length[m + i] = ml[i]
  <2> DEFINE T == Nat
             s == total.length
             u == total'.length
  <2>1. s \in Seq(T) /\ ml \in Seq(T) /\ u = s \o ml /\ Len(s) = m /\ Len(ml) = n
      BY <1>3, <1>10, <1>11 DEF m
  <2> HIDE DEF T, s, u
  <2>2. /\ Len(s \o ml) = Len(s) + Len(ml)
        /\ \A k \in 1..Len(s) : (s \o ml)[k] = s[k]
        /\ \A i \in 1..Len(ml) : (s \o ml)[Len(s) + i] = ml[i]
    <3>1. s \in Seq(T) /\ ml \in Seq(T)
        BY <2>1
    <3> QED
        BY <3>1, Concatenation
  <2>3. Len(u) = m + n /\ (\A k \in 1..m : u[k] = s[k]) /\ \A i \in 1..n : u[m + i] = ml[i]
      BY <2>1, <2>2, Zenon
  <2> QED
      BY <2>3 DEF s, u
<1>16. /\ Len(total'.traj) = m + n
       /\ \A k \in 1..m : total'.traj[k] = total.traj[k]
       /\ \A i \in 1..n : total'.traj[m + i] = mt[i]
  <2> DEFINE T == Nat \X Nat
             s == total.traj
             u == total'.traj
  <2>1. s \in Seq(T) /\ mt \in Seq(T) /\ u = s \o mt /\ Len(s) = m /\ Len(mt) = n
      BY <1>3, <1>10, <1>11 DEF m
  <2> HIDE DEF T, s, u
  <2>2. /\ Len(s \o mt) = Len(s) + Len(mt)
        /\ \A k \in 1..Len(s) : (s \o mt)[k] = s[k]
        /\ \A i \in 1..Len(mt) : (s \o mt)[Len(s) + i] = mt[i]
    <3>1. s \in Seq(T) /\ mt \in Seq(T)
        BY <2>1
    <3> QED
        BY <3>1, Concatenation
  <2>3. Len(u) = m + n /\ (\A k \in 1..m : u[k] = s[k]) /\ \A i \in 1..n : u[m + i] = mt[i]
      BY <2>1, <2>2, Zenon
  <2> QED
      BY <2>3 DEF s, u
<1>17. \A i \in 1..n :
          /\ total'.rows[m + i] = rows[KeepIndices[i]] /\ total'.reward[m + i] = reward[KeepIndices[i]]
          /\ total'.length[m + i] = length[KeepIndices[i]]
          /\ total'.traj[m + i] = TrajUid(KeepIndices[i])
  <2> SUFFICES ASSUME NEW i \in 1..n
               PROVE  /\ total'.rows[m + i] = rows[KeepIndices[i]]
                      /\ total'.reward[m + i] = reward[KeepIndices[i]]
                      /\ total'.length[m + i] = length[KeepIndices[i]]
                      /\ total'.traj[m + i] = TrajUid(KeepIndices[i])
      OBVIOUS
  <2>1. total'.rows[m + i] = mr[i] /\ total'.reward[m + i] = mw[i]
      BY <1>13, <1>14
  <2>2. total'.length[m + i] = ml[i] /\ total'.traj[m + i] = mt[i]
      BY <1>15, <1>16
  <2> QED
      BY <2>1, <2>2, <1>6, <1>7, <1>8, <1>9 DEF mr, mw, ml, mt
<1> QED
    BY <1>1, <1>12, <1>13, <1>14, <1>15, <1>16, <1>17 DEF m, n

LEMMA ResetIs ==
    ASSUME TypeInv, Reset
    PROVE  /\ pc = "loop" /\ pc' = "step" /\ KeepSampling /\ try' = try + 1
           /\ UNCHANGED <<config, total, success, result>>
           /\ isDone' = [e \in Envs |-> FALSE] /\ reward' = [e \in Envs |-> 0]
           /\ length' = [e \in Envs |-> 0] /\ rows' = [e \in Envs |-> << >>]
  BY Zenon DEF Reset

LEMMA ResetFailsIs ==
    ASSUME ResetFails
    PROVE  /\ pc = "loop" /\ pc' = "raised" /\ KeepSampling /\ try' = try + 1
           /\ UNCHANGED <<config, attempt, total, success, result>>
  BY Zenon DEF ResetFails

LEMMA GatherIs ==
    ASSUME Gather
    PROVE  /\ pc = "loop" /\ pc' = "done" /\ ~KeepSampling /\ Concatenable
           /\ output' = Gathered
           /\ rates' = [key \in DOMAIN Concatenated |-> Rate(Concatenated[key])]
           /\ UNCHANGED <<config, try, attempt, total, success>>
  BY Zenon DEF Gather

LEMMA GatherFailsIs ==
    ASSUME GatherFails
    PROVE  /\ pc = "loop" /\ pc' = "raised"
           /\ UNCHANGED <<config, try, attempt, total, success, result>>
  BY Zenon DEF GatherFails

\* A job goes on: the configuration stays, and everything in a stuttering step.
LEMMA ConfigStays == [Next]_vars => config' = config
<1>1. Reset \/ ResetFails \/ Step \/ Evaluate \/ Gather \/ GatherFails => config' = config
    BY Zenon DEF Reset, ResetFails, Step, Evaluate, Gather, GatherFails
<1> QED
    BY <1>1 DEF Next, vars

LEMMA SameEnvs == ASSUME config' = config PROVE Envs' = Envs /\ B' = B /\ Groups' = Groups
  BY DEF Envs, B, TrainBatch, Groups

LEMMA TypeStep == TypeInv /\ [Next]_vars => TypeInv'
<1> SUFFICES ASSUME TypeInv, [Next]_vars
             PROVE  TypeInv'
    OBVIOUS
<1>1. config' = config /\ Envs' = Envs
    BY ConfigStays, SameEnvs
<1>2. CASE Reset
  <2>1. /\ pc' = "step" /\ try' = try + 1
        /\ total' = total /\ success' = success
        /\ isDone' = [e \in Envs |-> FALSE] /\ reward' = [e \in Envs |-> 0]
        /\ length' = [e \in Envs |-> 0] /\ rows' = [e \in Envs |-> << >>]
      BY <1>2, ResetIs
  <2>2. /\ isDone' \in [Envs -> BOOLEAN] /\ reward' \in [Envs -> Int] /\ length' \in [Envs -> Nat]
      BY <2>1
  <2>3. rows' \in [Envs -> Seq(Row)]
    <3>1. << >> \in Seq(Row)
        OBVIOUS
    <3> QED
        BY <2>1, <3>1
  <2> QED
      BY <1>1, <2>1, <2>2, <2>3 DEF TypeInv, IsSeq
<1>3. CASE ResetFails
  <2>1. /\ pc' = "raised" /\ try' = try + 1 /\ UNCHANGED <<attempt, total, success>>
      BY <1>3, ResetFailsIs
  <2> QED
      BY <1>1, <2>1 DEF TypeInv, IsSeq, attempt
<1>4. CASE Step
  <2>1. /\ pc' \in {"step", "evaluate"} /\ UNCHANGED <<try, total, success>>
        /\ isDone' \in [Envs -> BOOLEAN] /\ reward' \in [Envs -> Int] /\ length' \in [Envs -> Nat]
        /\ rows' \in [Envs -> Seq(Row)]
      BY <1>4, StepIs
  <2> QED
      BY <1>1, <2>1 DEF TypeInv, IsSeq
<1>5. CASE Evaluate
  <2>1. /\ pc' = "loop" /\ UNCHANGED <<try, attempt>>
        /\ total' \in [rows : Seq(Seq(Row)), reward : Seq(Int), length : Seq(Nat),
                       traj : Seq(Nat \X Nat)]
        /\ Len(total'.reward) = Len(total'.rows) /\ Len(total'.length) = Len(total'.rows)
        /\ Len(total'.traj) = Len(total'.rows)
        /\ success' = Append(success, FilteredSuccess)
      BY <1>5, EvaluateIs
  <2>2. IsSeq(success')
    <3> DEFINE x == FilteredSuccess
               T == {success[i] : i \in DOMAIN success} \cup {x}
    <3>1. success \in Seq({success[i] : i \in DOMAIN success})
        BY DEF TypeInv, IsSeq
    <3>2. success \in Seq(T) /\ x \in T
        BY <3>1
    <3>3. success' = Append(success, x)
        BY <2>1
    <3> HIDE DEF x, T
    <3>4. success' \in Seq(T)
        BY <3>2, <3>3
    <3> QED
        BY <3>4 DEF IsSeq
  <2> QED
      BY <1>1, <2>1, <2>2 DEF TypeInv, attempt
<1>6. CASE Gather
  <2>1. pc' = "done" /\ UNCHANGED <<try, attempt, total, success>>
      BY <1>6, GatherIs
  <2> QED
      BY <1>1, <2>1 DEF TypeInv, IsSeq, attempt
<1>7. CASE GatherFails
  <2>1. pc' = "raised" /\ UNCHANGED <<try, attempt, total, success>>
      BY <1>7, GatherFailsIs
  <2> QED
      BY <1>1, <2>1 DEF TypeInv, IsSeq, attempt
<1>8. CASE UNCHANGED vars
    BY <1>1, <1>8 DEF TypeInv, IsSeq, attempt, vars
<1> QED
    BY <1>2, <1>3, <1>4, <1>5, <1>6, <1>7, <1>8 DEF Next

-----------------------------------------------------------------------------
(* A try *)

LEMMA TryInit == Init => TryInv
  BY DEF Init, TryInv

\* The rewards add up row by row.
LEMMA EarnedMore ==
    ASSUME NEW s \in Seq(Row), NEW t \in Seq(Row), NEW n \in Nat, n <= Len(s), n < Len(t),
           \A i \in 1..n : t[i] = s[i]
    PROVE  /\ Earned(t, n) = Earned(s, n)
           /\ Earned(t, n + 1) = Earned(t, n) + t[n + 1].reward
<1> DEFINE f == [i \in 1..n |-> s[i].reward]
           g == [i \in 1..n |-> t[i].reward]
           h == [i \in 1..(n + 1) |-> t[i].reward]
<1>1. IsFiniteSet(1..n) /\ 1..(n + 1) = (1..n) \cup {n + 1} /\ n + 1 \notin 1..n
  <2>1. IsFiniteSet(1..n)
      BY FS_Interval
  <2>2. 1..(n + 1) = (1..n) \cup {n + 1} /\ n + 1 \notin 1..n
      OBVIOUS
  <2> QED
      BY <2>1, <2>2
<1>2. \A i \in 1..Len(s) : s[i].reward \in Int
  <2>1. \A i \in 1..Len(s) : s[i] \in Row
      OBVIOUS
  <2> QED
      BY <2>1 DEF Row
<1>3. \A i \in 1..Len(t) : t[i].reward \in Int
  <2>1. \A i \in 1..Len(t) : t[i] \in Row
      OBVIOUS
  <2> QED
      BY <2>1 DEF Row
<1>4. \A i \in 1..n : i \in 1..Len(s) /\ i \in 1..Len(t)
    OBVIOUS
<1>5. n + 1 \in 1..Len(t)
    OBVIOUS
<1>6. \A i \in 1..n : f[i] \in Int /\ g[i] = f[i] /\ h[i] = g[i] /\ g[i] \in Int
    BY <1>1, <1>2, <1>3, <1>4
<1>7. h[n + 1] = t[n + 1].reward /\ h[n + 1] \in Int
    BY <1>3, <1>5
<1>8. Earned(t, n) = SumFunctionOnSet(g, 1..n) /\ Earned(s, n) = SumFunctionOnSet(f, 1..n)
      /\ Earned(t, n + 1) = SumFunctionOnSet(h, 1..(n + 1))
    BY DEF Earned
<1> HIDE DEF f, g, h
<1>9. SumFunctionOnSet(f, 1..n) = SumFunctionOnSet(g, 1..n)
    BY <1>1, <1>6, SumSame
<1>10. SumFunctionOnSet(g, 1..n) = SumFunctionOnSet(h, 1..n)
    BY <1>1, <1>6, SumSame
<1>11. SumFunctionOnSet(h, (1..n) \cup {n + 1}) = h[n + 1] + SumFunctionOnSet(h, 1..n)
  <2>1. \A i \in 1..n : h[i] \in Int
      BY <1>6
  <2> QED
      BY <1>1, <1>7, <2>1, SumWith
<1>12. SumFunctionOnSet(h, 1..n) \in Int
  <2>1. \A i \in 1..n : h[i] \in Int
      BY <1>6
  <2> QED
      BY <1>1, <2>1, SumType
<1>13. Earned(t, n + 1) = h[n + 1] + SumFunctionOnSet(h, 1..n)
    BY <1>1, <1>8, <1>11, Zenon
<1>14. h[n + 1] + SumFunctionOnSet(h, 1..n) = SumFunctionOnSet(h, 1..n) + h[n + 1]
    BY <1>7, <1>12
<1> QED
    BY <1>7, <1>8, <1>9, <1>10, <1>13, <1>14, Zenon

LEMMA PlayedFirst ==
    ASSUME TypeInv, Reset, NEW e \in Envs
    PROVE  Played(e, 0)'
<1>1. /\ isDone'[e] = FALSE /\ reward'[e] = 0 /\ length'[e] = 0 /\ rows'[e] = << >>
    BY ResetIs
<1>2. Recorded(<< >>, 0, TrajUid(e)', 0)
    BY DEF Recorded
<1>3. Earned(<< >>, 0) = 0
  <2>1. 1..0 = {}
      OBVIOUS
  <2> DEFINE f == [i \in 1..0 |-> << >>[i].reward]
  <2>2. Earned(<< >>, 0) = SumFunctionOnSet(f, {})
      BY <2>1 DEF Earned
  <2> HIDE DEF f
  <2> QED
      BY <2>2, SumEmpty
<1> QED
    BY <1>1, <1>2, <1>3 DEF Played

LEMMA PlayedOn ==
    ASSUME TypeInv, Step, NEW e \in Envs, NEW n \in Nat, Played(e, n)
    PROVE  Played(e, n + 1)'
<1>1. PICK out \in [Envs -> Outcomes] :
          /\ out[e].reward \in Int /\ out[e].done \in BOOLEAN
          /\ NewRow(e, out) \in Row
          /\ rows'[e] = Append(rows[e], NewRow(e, out))
          /\ isDone'[e] = (isDone[e] \/ out[e].done)
          /\ reward'[e] = IF isDone[e] THEN reward[e] ELSE reward[e] + out[e].reward
          /\ length'[e] = IF isDone[e] THEN length[e] ELSE length[e] + 1
    BY StepIs
<1>2. try' = try
    BY StepIs
<1> DEFINE s == rows[e]
           t == rows'[e]
           row == NewRow(e, out)
           len == length[e]
           id == TrajUid(e)
<1>3. s \in Seq(Row) /\ isDone[e] \in BOOLEAN /\ len \in 0..n /\ reward[e] \in Int
    BY DEF TypeInv, Played
<1>4. row \in Row /\ t = Append(s, row)
    BY <1>1
<1>5. /\ row.traj = id /\ row.uid = <<id[1], GroupOf(id[2])>> /\ row.step = Len(s)
      /\ row.active = ~isDone[e] /\ row.reward = out[e].reward
    BY DEF NewRow, TrajUid, Uid
<1>6. Recorded(s, n, id, len) /\ reward[e] = Earned(s, len)
    BY DEF Played
<1>7. /\ n = 0 => ~isDone[e]
      /\ n > 0 => len > 0
      /\ ~isDone[e] => len = n
    BY DEF Played
<1>8. TrajUid(e)' = id
    BY <1>2 DEF TrajUid
<1>9. /\ isDone'[e] = (isDone[e] \/ out[e].done)
      /\ reward'[e] = IF isDone[e] THEN reward[e] ELSE reward[e] + row.reward
      /\ length'[e] = IF isDone[e] THEN len ELSE len + 1
    BY <1>1, <1>5
<1> HIDE DEF s, t, row, len, id
<1>10. Len(s) = n
    BY <1>6 DEF Recorded
<1>11. t \in Seq(Row) /\ Len(t) = n + 1 /\ t[n + 1] = row /\ \A i \in 1..n : t[i] = s[i]
    BY <1>3, <1>4, <1>10
<1>12. ASSUME NEW k \in 0..(n + 1), row.active <=> n + 1 <= k, \A i \in 1..n : i <= k <=> i <= len
       PROVE  Recorded(t, n + 1, id, k)
  <2>1. ASSUME NEW i \in 1..(n + 1)
        PROVE  /\ t[i].traj = id /\ t[i].uid = <<id[1], GroupOf(id[2])>>
               /\ t[i].step = i - 1 /\ (t[i].active <=> i <= k)
    <3>1. CASE i \in 1..n
      <4>1. /\ s[i].traj = id /\ s[i].uid = <<id[1], GroupOf(id[2])>>
            /\ s[i].step = i - 1 /\ (s[i].active <=> i <= len)
          BY <1>6, <3>1 DEF Recorded
      <4> QED
          BY <1>11, <1>12, <3>1, <4>1
    <3>2. CASE i = n + 1
      <4>1. row.step = (n + 1) - 1
          BY <1>5, <1>10
      <4> QED
          BY <1>5, <1>11, <1>12, <3>2, <4>1
    <3> QED
        BY <3>1, <3>2
  <2> QED
      BY <1>11, <2>1 DEF Recorded
<1>13. n <= Len(s) /\ n < Len(t)
    BY <1>10, <1>11
<1>14. CASE isDone[e]
  <2>1. n > 0 /\ len \in 0..(n + 1) /\ len \in 0..n /\ len \in Nat /\ len > 0
      BY <1>3, <1>7, <1>14
  <2>2. isDone'[e] /\ reward'[e] = reward[e] /\ length'[e] = len
      BY <1>9, <1>14
  <2>3. Recorded(t, n + 1, id, len)
    <3>1. ~row.active
        BY <1>5, <1>14, Zenon
    <3>2. ~(n + 1 <= len)
        BY <2>1
    <3> QED
        BY <1>12, <2>1, <3>1, <3>2
  <2>4. Earned(t, len) = Earned(s, len)
    <3>1. len <= Len(s) /\ len < Len(t) /\ \A i \in 1..len : t[i] = s[i]
        BY <1>10, <1>11, <2>1
    <3> QED
        BY <1>3, <1>11, <2>1, <3>1, EarnedMore
  <2> QED
    <3>1. n + 1 # 0
        OBVIOUS
    <3> QED
        BY <1>6, <1>8, <2>1, <2>2, <2>3, <2>4, <3>1 DEF Played, t
<1>15. CASE ~isDone[e]
  <2>1. len = n
      BY <1>7, <1>15
  <2>2. reward'[e] = reward[e] + row.reward /\ length'[e] = n + 1
      BY <1>9, <1>15, <2>1
  <2>3. Recorded(t, n + 1, id, n + 1)
    <3>1. row.active
        BY <1>5, <1>15
    <3>2. n + 1 \in 0..(n + 1) /\ n + 1 <= n + 1 /\ \A i \in 1..n : i <= n + 1 <=> i <= len
        BY <2>1
    <3> QED
        BY <1>12, <3>1, <3>2
  <2>4. Earned(t, n) = Earned(s, n) /\ Earned(t, n + 1) = Earned(t, n) + t[n + 1].reward
      BY <1>3, <1>11, <1>13, EarnedMore
  <2>5. reward'[e] = Earned(t, n + 1)
      BY <1>6, <1>11, <2>1, <2>2, <2>4
  <2>6. n + 1 \in 0..(n + 1) /\ n + 1 # 0 /\ n + 1 > 0
      OBVIOUS
  <2> QED
      BY <1>8, <2>2, <2>3, <2>5, <2>6 DEF Played, t
<1> QED
    BY <1>3, <1>14, <1>15

LEMMA TryStep == TypeInv /\ TryInv /\ [Next]_vars => TryInv'
<1> SUFFICES ASSUME TypeInv, TryInv, [Next]_vars
             PROVE  TryInv'
    OBVIOUS
<1>1. config' = config /\ Envs' = Envs /\ 1 \in Envs
  <2>1. B \in Nat \ {0}
      BY ConfigIs DEF TypeInv
  <2> QED
      BY <2>1, ConfigStays, SameEnvs DEF Envs
<1>2. CASE Reset
  <2>1. pc' = "step" /\ rows'[1] = << >> /\ Len(<< >>) = 0
      BY <1>1, <1>2, ResetIs
  <2>2. \A e \in Envs : Played(e, 0)'
      BY <1>2, PlayedFirst
  <2> QED
      BY <1>1, <2>1, <2>2 DEF TryInv
<1>3. CASE Step
  <2>1. PICK n \in Nat : \A e \in Envs : Played(e, n)
    <3>1. rows[1] \in Seq(Row)
        BY <1>1 DEF TypeInv
    <3>2. pc = "step"
        BY <1>3, StepIs
    <3> QED
        BY <3>1, <3>2 DEF TryInv
  <2>2. \A e \in Envs : Played(e, n + 1)'
      BY <1>3, <2>1, PlayedOn
  <2>3. Len(rows'[1]) = n + 1 /\ n + 1 > 0
    <3>1. Played(1, n + 1)'
        BY <1>1, <2>2
    <3> QED
        BY <2>1, <3>1 DEF Played, Recorded
  <2> QED
      BY <1>1, <2>2, <2>3 DEF TryInv
<1>4. CASE Evaluate \/ Gather \/ ResetFails \/ GatherFails
  <2>1. pc' \in {"loop", "done", "raised"}
      BY <1>4, EvaluateIs, GatherIs, ResetFailsIs, GatherFailsIs
  <2> QED
      BY <2>1 DEF TryInv
<1>5. CASE UNCHANGED vars
    BY <1>1, <1>5 DEF TryInv, Played, TrajUid, vars, attempt
<1> QED
    BY <1>2, <1>3, <1>4, <1>5 DEF Next

-----------------------------------------------------------------------------
(* The lists after a try *)

\* A trajectory's last active row is that of its length.
LEMMA WonIs ==
    ASSUME TypeInv, TryInv, pc = "evaluate", NEW e \in Envs
    PROVE  /\ length[e] \in 1..Len(rows[e])
           /\ Won(e) = rows[e][length[e]].won /\ Won(e) \in BOOLEAN
<1> DEFINE s == rows[e]
           len == length[e]
           n == Len(rows[1])
<1>1. Played(e, n) /\ n > 0
    BY DEF TryInv
<1>2. s \in Seq(Row) /\ n \in Nat
  <2>1. 1 \in Envs
      BY ConfigIs DEF TypeInv, Envs
  <2>2. s \in Seq(Row) /\ rows[1] \in Seq(Row)
      BY <2>1 DEF TypeInv
  <2> QED
      BY <2>2
<1>3. Len(s) = n /\ len \in 1..n /\ \A i \in 1..n : s[i].active <=> i <= len
    BY <1>1, <1>2 DEF Played, Recorded
<1> HIDE DEF s, len, n
<1>4. DOMAIN s = 1..n
    BY <1>2, <1>3
<1>5. s[len].active /\ \A j \in DOMAIN s : s[j].active => j <= len
    BY <1>3, <1>4
<1>6. \A i \in DOMAIN s : (s[i].active /\ \A j \in DOMAIN s : s[j].active => j <= i) => i = len
    BY <1>2, <1>3, <1>4, <1>5
<1>7. LastActive(s) = len
    BY <1>3, <1>4, <1>5, <1>6 DEF LastActive
<1>8. s[len] \in Row
    BY <1>2, <1>3
<1>9. s[len].won \in BOOLEAN
    BY <1>8 DEF Row
<1> QED
    BY <1>3, <1>7, <1>9 DEF Won, s, len

\* The list of the success rate has one entry for each trajectory that is kept.
LEMMA FilteredSuccessIs ==
    ASSUME TypeInv, TryInv, pc = "evaluate"
    PROVE  LET wons == FilteredSuccess[SuccessRate]
           IN  /\ SuccessRate \in DOMAIN FilteredSuccess
               /\ wons \in Seq(BOOLEAN) /\ Len(wons) = Cardinality(Kept)
               /\ \A i \in 1..Cardinality(Kept) : wons[i] = Won(KeepIndices[i])
<1>1. config \in Configs /\ SuccessRate \in Keys
    BY DEF TypeInv, Keys
<1>2. EnvsOfKey(SuccessRate) = InOrder(Envs)
  <2>1. {e \in Envs : SuccessRate = SuccessRate \/ game[GroupOf(e)] = SuccessRate} = Envs
      OBVIOUS
  <2> QED
      BY <2>1 DEF EnvsOfKey
<1>3. /\ InOrder(Envs) \in Seq(Envs) /\ Len(InOrder(Envs)) = B /\ B \in Nat
      /\ \A e \in Envs : InOrder(Envs)[e] = e
      /\ Envs = 1..B
  <2>1. InOrder(Envs) \in Seq(Envs)
      BY <1>1, InOrderIs
  <2> QED
      BY <1>1, <2>1, AllInOrder, ConfigIs DEF Envs
<1>4. \A e \in Envs : Won(e) \in BOOLEAN
    BY WonIs
<1> DEFINE all == Evaluated[SuccessRate]
<1>5. all = [e \in Envs |-> Won(e)]
  <2>1. all = [k \in DOMAIN EnvsOfKey(SuccessRate) |-> Won(EnvsOfKey(SuccessRate)[k])]
      BY <1>1 DEF Evaluated
  <2>2. DOMAIN InOrder(Envs) = Envs
      BY <1>3
  <2>3. all = [k \in Envs |-> Won(InOrder(Envs)[k])]
      BY <1>2, <2>1, <2>2
  <2> QED
      BY <1>3, <2>3
<1> HIDE DEF all
<1>6. all \in Seq(BOOLEAN) /\ Len(all) = B /\ \A e \in Envs : all[e] = Won(e)
  <2>1. all \in [1..B -> BOOLEAN]
      BY <1>3, <1>4, <1>5
  <2> QED
      BY <1>3, <1>5, <2>1
<1>7. CASE LastTry
  <2>1. Kept = Envs /\ KeepIndices = InOrder(Envs) /\ FilteredSuccess = Evaluated
      BY <1>7 DEF Kept, KeepIndices, FilteredSuccess
  <2>2. Cardinality(Kept) = B
      BY <1>1, <2>1, ConfigIs
  <2>3. SuccessRate \in DOMAIN FilteredSuccess
      BY <1>1, <2>1 DEF Evaluated
  <2>4. FilteredSuccess[SuccessRate] = all
      BY <2>1 DEF all
  <2> QED
      BY <1>3, <1>6, <2>1, <2>2, <2>3, <2>4
<1>8. CASE ~LastTry
  <2> DEFINE whole == {key \in Keys : Len(Evaluated[key]) = B}
  <2>1. FilteredSuccess = [key \in whole |-> At(Evaluated[key], KeepIndices)]
      BY <1>8 DEF FilteredSuccess
  <2>2. SuccessRate \in whole
      BY <1>1, <1>6 DEF all
  <2>3. FilteredSuccess[SuccessRate] = At(all, KeepIndices) /\ SuccessRate \in DOMAIN FilteredSuccess
      BY <2>1, <2>2 DEF all
  <2>4. \A e \in Envs : all[e] \in BOOLEAN
      BY <1>4, <1>6
  <2>5. /\ At(all, KeepIndices) \in Seq(BOOLEAN) /\ Len(At(all, KeepIndices)) = Cardinality(Kept)
        /\ \A i \in 1..Cardinality(Kept) : At(all, KeepIndices)[i] = all[KeepIndices[i]]
      BY <1>1, <2>4, AtIs
  <2>6. \A i \in 1..Cardinality(Kept) : KeepIndices[i] \in Envs
      BY <1>1, KeepIndicesIs
  <2> QED
      BY <1>6, <2>3, <2>5, <2>6
<1> QED
    BY <1>7, <1>8

\* AllWon of another sequence of dictionaries.
WonIn(dicts) == FlattenSeq([i \in DOMAIN dicts |-> dicts[i][SuccessRate]])

LEMMA WonMore ==
    ASSUME IsSeq(success), NEW dict, dict[SuccessRate] \in Seq(BOOLEAN)
    PROVE  WonIn(Append(success, dict)) = WonIn(success) \o dict[SuccessRate]
<1> DEFINE n == Len(success)
           more == Append(success, dict)
           s == [i \in DOMAIN success |-> success[i][SuccessRate]]
           t == [i \in DOMAIN more |-> more[i][SuccessRate]]
           T == {success[i] : i \in DOMAIN success}
<1>1. success \in Seq(T)
    BY DEF IsSeq
<1> HIDE DEF T
<1>2. n \in Nat /\ DOMAIN success = 1..n
    BY <1>1
<1>3. DOMAIN more = 1..(n + 1) /\ more[n + 1] = dict /\ \A i \in 1..n : more[i] = success[i]
  <2> DEFINE U == T \cup {dict}
  <2>1. success \in Seq(U) /\ dict \in U
      BY <1>1
  <2> HIDE DEF U
  <2> QED
      BY <2>1
<1> HIDE DEF n, more
<1>4. s = [i \in 1..n |-> success[i][SuccessRate]] /\ t = [i \in 1..(n + 1) |-> more[i][SuccessRate]]
    BY <1>2, <1>3
<1>5. /\ \A i \in 1..n : t[i] = s[i]
      /\ t[n + 1] = dict[SuccessRate]
    BY <1>2, <1>3, <1>4
<1> HIDE DEF s, t
<1>6. s = [i \in 1..n |-> s[i]] /\ Len(s) = n /\ DOMAIN t = 1..(n + 1) /\ Len(t) = n + 1
    BY <1>2, <1>4
<1>7. FlattenSeq(t) = FlattenSeq(s) \o t[n + 1]
    BY <1>2, <1>5, <1>6, FlattenMore
<1> QED
    BY <1>5, <1>7 DEF WonIn, s, t, more

LEMMA SuccessInit == Init => SuccessInv
<1> SUFFICES ASSUME Init
             PROVE  SuccessInv
    OBVIOUS
<1>1. success = << >> /\ Len(total.rows) = 0
    BY DEF Init
<1>2. AllWon = << >>
  <2> DEFINE s == [i \in DOMAIN success |-> success[i][SuccessRate]]
  <2>1. s = << >> /\ Len(s) = 0
      BY <1>1
  <2> HIDE DEF s
  <2>2. FlattenSeq(s) = s
      BY <2>1 DEF FlattenSeq
  <2> QED
      BY <2>1, <2>2 DEF AllWon, s
<1>3. << >> \in Seq(BOOLEAN) /\ Len(<< >>) = 0 /\ DOMAIN << >> = {} /\ 1..0 = {}
    OBVIOUS
<1> QED
    BY <1>1, <1>2, <1>3 DEF SuccessInv

LEMMA SuccessStep == TypeInv /\ TryInv /\ SuccessInv /\ [Next]_vars => SuccessInv'
<1> SUFFICES ASSUME TypeInv, TryInv, SuccessInv, [Next]_vars
             PROVE  SuccessInv'
    OBVIOUS
<1>1. CASE Evaluate
  <2> DEFINE n == Len(total.rows)
             m == Cardinality(Kept)
             wons == FilteredSuccess[SuccessRate]
  <2>1. pc = "evaluate" /\ success' = Append(success, FilteredSuccess)
      BY <1>1, EvaluateIs
  <2>2. /\ SuccessRate \in DOMAIN FilteredSuccess
        /\ wons \in Seq(BOOLEAN) /\ Len(wons) = m
        /\ \A i \in 1..m : wons[i] = Won(KeepIndices[i])
      BY <2>1, FilteredSuccessIs
  <2>3. /\ AllWon \in Seq(BOOLEAN) /\ Len(AllWon) = n
        /\ \A k \in 1..n : AllWon[k] = total.rows[k][total.length[k]].won
        /\ \A i \in DOMAIN success : SuccessRate \in DOMAIN success[i]
      BY DEF SuccessInv
  <2>4. AllWon' = AllWon \o wons
    <3>1. IsSeq(success)
        BY DEF TypeInv
    <3>2. WonIn(Append(success, FilteredSuccess)) = WonIn(success) \o wons
        BY <2>2, <3>1, WonMore
    <3> QED
        BY <2>1, <3>2 DEF WonIn, AllWon
  <2>5. n \in Nat /\ m \in Nat
      BY KeepIndicesIs DEF TypeInv
  <2>6. /\ Len(total'.rows) = n + m
        /\ \A k \in 1..n : total'.rows[k] = total.rows[k] /\ total'.length[k] = total.length[k]
        /\ \A i \in 1..m : /\ total'.rows[n + i] = rows[KeepIndices[i]]
                           /\ total'.length[n + i] = length[KeepIndices[i]]
      BY <1>1, EvaluateIs
  <2>7. \A i \in 1..m : Won(KeepIndices[i]) = rows[KeepIndices[i]][length[KeepIndices[i]]].won
    <3>1. \A i \in 1..m : KeepIndices[i] \in Envs
        BY KeepIndicesIs DEF TypeInv
    <3> QED
        BY <2>1, <3>1, WonIs
  <2>8. \A i \in DOMAIN success' : SuccessRate \in DOMAIN success'[i]
    <3> DEFINE T == {success[i] : i \in DOMAIN success} \cup {FilteredSuccess}
               f == FilteredSuccess
    <3>1. success \in Seq(T) /\ f \in T
      <4>1. success \in Seq({success[i] : i \in DOMAIN success})
          BY DEF TypeInv, IsSeq
      <4> QED
          BY <4>1
    <3>2. \A x \in T : SuccessRate \in DOMAIN x
        BY <2>2, <2>3
    <3>3. success' = Append(success, f)
        BY <2>1
    <3> HIDE DEF T, f
    <3>4. success' \in Seq(T)
        BY <3>1, <3>3
    <3> QED
        BY <3>2, <3>4
  <2> HIDE DEF n, m, wons
  <2>9. /\ AllWon' \in Seq(BOOLEAN) /\ Len(AllWon') = n + m
        /\ \A k \in 1..n : AllWon'[k] = AllWon[k]
        /\ \A i \in 1..m : AllWon'[n + i] = wons[i]
    <3>1. /\ Len(AllWon \o wons) = Len(AllWon) + Len(wons)
          /\ \A k \in 1..Len(AllWon) : (AllWon \o wons)[k] = AllWon[k]
          /\ \A i \in 1..Len(wons) : (AllWon \o wons)[Len(AllWon) + i] = wons[i]
      <4>1. AllWon \in Seq(BOOLEAN) /\ wons \in Seq(BOOLEAN)
          BY <2>2, <2>3
      <4> QED
          BY <4>1, Concatenation
    <3>2. AllWon \o wons \in Seq(BOOLEAN)
        BY <2>2, <2>3
    <3> QED
        BY <2>2, <2>3, <2>4, <3>1, <3>2, Zenon
  <2>10. ASSUME NEW k \in 1..(n + m)
         PROVE  AllWon'[k] = total'.rows[k][total'.length[k]].won
    <3>1. CASE k \in 1..n
        BY <2>3, <2>6, <2>9, <3>1
    <3>2. CASE k \notin 1..n
      <4>1. k - n \in 1..m /\ k = n + (k - n)
          BY <2>5, <3>2
      <4>2. PICK i \in 1..m : k = n + i
          BY <4>1
      <4>3. AllWon'[k] = wons[i] /\ wons[i] = Won(KeepIndices[i])
          BY <2>2, <2>9, <4>2
      <4>4. total'.rows[k] = rows[KeepIndices[i]] /\ total'.length[k] = length[KeepIndices[i]]
          BY <2>6, <4>2
      <4>5. Won(KeepIndices[i]) = rows[KeepIndices[i]][length[KeepIndices[i]]].won
          BY <2>7
      <4> QED
          BY <4>3, <4>4, <4>5, Zenon
    <3> QED
        BY <3>1, <3>2
  <2> QED
      BY <2>6, <2>8, <2>9, <2>10 DEF SuccessInv
<1>2. CASE ~Evaluate
  <2>1. total' = total /\ success' = success
      BY <1>2, ResetIs, ResetFailsIs, StepIs, GatherIs, GatherFailsIs DEF Next, vars
  <2> QED
      BY <2>1 DEF SuccessInv, AllWon
<1> QED
    BY <1>1, <1>2

-----------------------------------------------------------------------------
(* The lists over the tries *)

LEMMA TotalInit == Init => TotalInv
<1> SUFFICES ASSUME Init
             PROVE  Len(total.rows) = 0 /\ 1..0 = {}
    BY DEF TotalInv
<1> QED
    BY DEF Init

LEMMA OverIs ==
    ASSUME TypeInv, [Next]_vars
    PROVE  /\ Over \in Int /\ Over' \in Int /\ Over <= Over'
           /\ Evaluate => Over = try - 1 /\ Over' = try
<1>1. try \in Nat /\ Over \in Int
    BY DEF TypeInv, Over
<1>2. CASE Reset
  <2>1. pc = "loop" /\ pc' = "step" /\ try' = try + 1
      BY <1>2, ResetIs
  <2>2. Over = try /\ Over' = (try + 1) - 1 /\ ~Evaluate
    <3>1. Over = try /\ Over' = try' - 1
        BY <2>1 DEF Over
    <3>2. ~Evaluate
        BY <2>1, EvaluateIs
    <3> QED
        BY <2>1, <3>1, <3>2
  <2> QED
      BY <1>1, <2>2
<1>3. CASE ResetFails
  <2>1. pc = "loop" /\ pc' = "raised" /\ try' = try + 1
      BY <1>3, ResetFailsIs
  <2>2. Over = try /\ Over' = try + 1
      BY <2>1 DEF Over
  <2>3. ~Evaluate
      BY <2>1, EvaluateIs
  <2> QED
      BY <1>1, <2>2, <2>3
<1>4. CASE Step
  <2>1. pc = "step" /\ pc' \in {"step", "evaluate"} /\ try' = try
      BY <1>4, StepIs
  <2>2. Over = try - 1 /\ Over' = try - 1
      BY <2>1 DEF Over
  <2>3. ~Evaluate
      BY <2>1, EvaluateIs
  <2> QED
      BY <1>1, <2>2, <2>3
<1>5. CASE Evaluate
  <2>1. pc = "evaluate" /\ pc' = "loop" /\ try' = try
      BY <1>5, EvaluateIs
  <2>2. Over = try - 1 /\ Over' = try
      BY <2>1 DEF Over
  <2> QED
      BY <1>1, <2>2
<1>6. CASE Gather \/ GatherFails
  <2>1. pc = "loop" /\ pc' \in {"done", "raised"} /\ try' = try
      BY <1>6, GatherIs, GatherFailsIs
  <2>2. Over = try /\ Over' = try
      BY <2>1 DEF Over
  <2>3. ~Evaluate
      BY <2>1, EvaluateIs
  <2> QED
      BY <1>1, <2>2, <2>3
<1>7. CASE UNCHANGED vars
  <2>1. pc' = pc /\ try' = try
      BY <1>7 DEF vars
  <2>2. Over' = Over
      BY <2>1 DEF Over
  <2>3. ~Evaluate
      BY <2>1, EvaluateIs
  <2> QED
      BY <1>1, <2>2, <2>3
<1> QED
    BY <1>2, <1>3, <1>4, <1>5, <1>6, <1>7 DEF Next

\* What a step leaves alone.
LEMMA TotalStays ==
    ASSUME TypeInv, [Next]_vars, ~Evaluate
    PROVE  total' = total /\ success' = success
  BY ResetIs, ResetFailsIs, StepIs, GatherIs, GatherFailsIs DEF Next, vars

\* A trajectory that a try adds.
LEMMA NewWhole ==
    ASSUME TypeInv, TryInv, CountInv, Evaluate,
           NEW i \in 1..Cardinality(Kept), NEW k, k = Len(total.rows) + i
    PROVE  Whole(k)'
<1>0. PICK e : e = KeepIndices[i]
    OBVIOUS
<1> DEFINE n == Len(rows[1])
<1>1. /\ pc = "evaluate" /\ pc' = "loop" /\ config' = config /\ try' = try
      /\ total'.rows[k] = rows[e] /\ total'.reward[k] = reward[e]
      /\ total'.length[k] = length[e] /\ total'.traj[k] = <<try, e>>
  <2>1. /\ pc = "evaluate" /\ pc' = "loop" /\ UNCHANGED <<config, try, envKwargs, attempt, result>>
        /\ total'.rows[k] = rows[e] /\ total'.reward[k] = reward[e]
        /\ total'.length[k] = length[e] /\ total'.traj[k] = TrajUid(e)
      BY <1>0, EvaluateIs
  <2> QED
      BY <2>1 DEF TrajUid
<1>2. e \in Envs
    BY <1>0, KeepIndicesIs DEF TypeInv
<1>3. Played(e, n)
    BY <1>1, <1>2 DEF TryInv
<1>4. length[e] \in 1..Len(rows[e])
    BY <1>1, <1>2, WonIs
<1>5. try \in Nat /\ try > 0
    BY <1>1 DEF TypeInv, CountInv
<1>6. Over' = try /\ Envs' = Envs
    BY <1>1, SameEnvs DEF Over
<1>7. Recorded(rows[e], Len(rows[e]), <<try, e>>, length[e]) /\ reward[e] = Earned(rows[e], length[e])
    BY <1>3 DEF Played, Recorded, TrajUid
<1>8. <<try, e>>[1] = try /\ <<try, e>>[2] = e
    OBVIOUS
<1>9. try \in 1..try
    BY <1>5
<1> QED
    BY <1>1, <1>2, <1>4, <1>6, <1>7, <1>8, <1>9 DEF Whole

\* All of its group is added, and one that was rewarded otherwise.
LEMMA NewInGroup ==
    ASSUME TypeInv, Evaluate,
           NEW i \in 1..Cardinality(Kept), NEW k, k = Len(total.rows) + i
    PROVE  InGroup(k)'
<1> DEFINE e == KeepIndices[i]
           m == Len(total.rows)
           n == Len(total.rows) + Cardinality(Kept)
<1>0. config \in Configs /\ m \in Nat /\ Cardinality(Kept) \in Nat
    BY KeepIndicesIs DEF TypeInv
<1>1. e \in Kept /\ Kept \in SUBSET Envs
    BY <1>0, KeepIndicesIs
<1>2. config' = config /\ Len(total'.rows) = n
    BY EvaluateIs
<1>3. \A f \in Kept : \E j \in 1..n : total'.traj[j] = <<try, f>> /\ total'.reward[j] = reward[f]
  <2> TAKE f \in Kept
  <2>1. PICK h \in 1..Cardinality(Kept) : KeepIndices[h] = f
      BY <1>0, KeepIndicesIs
  <2>2. total'.traj[m + h] = TrajUid(f) /\ total'.reward[m + h] = reward[f]
      BY <2>1, EvaluateIs
  <2>3. m + h \in 1..n
      BY <1>0
  <2> QED
      BY <2>2, <2>3 DEF TrajUid
<1>4. total'.traj[k] = <<try, e>> /\ total'.reward[k] = reward[e]
    BY EvaluateIs DEF TrajUid
<1>5. \A f \in Envs : GroupOf(f) = GroupOf(e) => f \in Kept
    BY <1>1 DEF Kept
<1>6. ASSUME FilterGroups, try < MaxTries
      PROVE  \E f \in Kept : GroupOf(f) = GroupOf(e) /\ reward[f] # reward[e]
  <2>1. ~LastTry
    <3>1. try # MaxTries
        BY <1>0, <1>6, ConfigIs DEF TypeInv
    <3> QED
        BY <1>6, <3>1 DEF LastTry
  <2>2. Mixed(GroupOf(e))
      BY <1>1, <2>1 DEF Kept
  <2>3. PICK c, d \in Envs : GroupOf(c) = GroupOf(e) /\ GroupOf(d) = GroupOf(e) /\ reward[c] # reward[d]
      BY <2>2 DEF Mixed
  <2>4. c \in Kept /\ d \in Kept
      BY <1>5, <2>3
  <2>5. reward[c] # reward[e] \/ reward[d] # reward[e]
      BY <2>3
  <2> QED
      BY <2>3, <2>4, <2>5
<1>7. /\ FilterGroups' = FilterGroups /\ MaxTries' = MaxTries /\ Envs' = Envs
    BY <1>2, SameEnvs DEF FilterGroups, MaxTries
<1>8. <<try, e>>[1] = try /\ <<try, e>>[2] = e
    OBVIOUS
<1> HIDE DEF e, m, n
<1>9. ASSUME NEW f \in Envs, GroupOf(f) = GroupOf(total'.traj[k][2])
      PROVE  \E j \in 1..Len(total'.rows) : total'.traj[j] = <<total'.traj[k][1], f>>
  <2>1. f \in Kept
      BY <1>4, <1>5, <1>8, <1>9
  <2> QED
      BY <1>2, <1>3, <1>4, <1>8, <2>1
<1>10. ASSUME FilterGroups, total'.traj[k][1] < MaxTries
       PROVE  \E j \in 1..Len(total'.rows) : Mates(j, k)' /\ total'.reward[j] # total'.reward[k]
  <2>1. try < MaxTries
      BY <1>4, <1>8, <1>10
  <2>2. PICK f \in Kept : GroupOf(f) = GroupOf(e) /\ reward[f] # reward[e]
      BY <1>6, <1>10, <2>1
  <2>3. PICK j \in 1..n : total'.traj[j] = <<try, f>> /\ total'.reward[j] = reward[f]
      BY <1>3, <2>2
  <2>4. <<try, f>>[1] = try /\ <<try, f>>[2] = f
      OBVIOUS
  <2>5. Mates(j, k)'
      BY <1>4, <1>8, <2>2, <2>3, <2>4 DEF Mates
  <2>6. total'.reward[j] # total'.reward[k]
      BY <1>4, <2>2, <2>3
  <2> QED
      BY <1>2, <2>3, <2>5, <2>6
<1> QED
    BY <1>7, <1>9, <1>10, Zenon DEF InGroup

LEMMA TotalStep == TypeInv /\ TryInv /\ CountInv /\ TotalInv /\ [Next]_vars => TotalInv'
<1> SUFFICES ASSUME TypeInv, TryInv, CountInv, TotalInv, [Next]_vars
             PROVE  TotalInv'
    OBVIOUS
<1>0. PICK n : n = Len(total.rows)
    OBVIOUS
<1>1. config' = config /\ Envs' = Envs /\ FilterGroups' = FilterGroups /\ MaxTries' = MaxTries
    BY ConfigStays, SameEnvs DEF FilterGroups, MaxTries
<1>2. Over \in Int /\ Over' \in Int /\ Over <= Over' /\ n \in Nat
    BY <1>0, OverIs DEF TypeInv
<1>3. \A x \in 1..Over : x \in 1..Over'
    BY <1>2
<1>4. CASE ~Evaluate
  <2>1. total' = total
      BY <1>4, TotalStays
  <2>2. ASSUME NEW k \in 1..n
        PROVE  Whole(k)' /\ InGroup(k)'
    <3>1. Whole(k) /\ InGroup(k)
        BY <1>0 DEF TotalInv
    <3>2. Whole(k)'
        BY <1>1, <1>3, <2>1, <3>1 DEF Whole
    <3>3. \A j : Mates(j, k)' <=> Mates(j, k)
        BY <2>1 DEF Mates
    <3>4. InGroup(k)'
        BY <1>1, <2>1, <3>1, <3>3 DEF InGroup
    <3> QED
        BY <3>2, <3>4
  <2> QED
      BY <1>0, <2>1, <2>2 DEF TotalInv
<1>5. CASE Evaluate
  <2>0. PICK m : m = Cardinality(Kept)
      OBVIOUS
  <2>1. /\ Len(total'.rows) = n + m /\ m \in Nat
        /\ \A k \in 1..n :
              /\ total'.rows[k] = total.rows[k] /\ total'.reward[k] = total.reward[k]
              /\ total'.length[k] = total.length[k] /\ total'.traj[k] = total.traj[k]
        /\ \A i \in 1..m : total'.traj[n + i] = <<try, KeepIndices[i]>>
    <3>1. m \in Nat
        BY <2>0, KeepIndicesIs DEF TypeInv
    <3> QED
        BY <1>0, <1>5, <2>0, <3>1, EvaluateIs DEF TrajUid
  <2>2. \A i \in 1..m : Whole(n + i)' /\ InGroup(n + i)'
      BY <1>0, <1>5, <2>0, NewWhole, NewInGroup
  <2>3. \A k \in 1..n : Whole(k) /\ InGroup(k)
      BY <1>0 DEF TotalInv
  <2>4. Over = try - 1 /\ Over' = try /\ try \in Nat
      BY <1>5, OverIs DEF TypeInv
  <2>5. \A i, j \in 1..m : KeepIndices[i] = KeepIndices[j] => i = j
      BY <2>0, KeepIndicesIs DEF TypeInv
  <2>6. \A k \in 1..(n + m) : k \in 1..n \/ \E i \in 1..m : k = n + i
    <3> TAKE k \in 1..(n + m)
    <3>1. CASE k <= n
        BY <3>1
    <3>2. CASE k > n
      <4>1. k - n \in 1..m /\ k = n + (k - n)
          BY <1>2, <2>1, <3>2
      <4> QED
          BY <4>1
    <3> QED
        BY <1>2, <2>1, <3>1, <3>2
  <2>7. \A k \in 1..n : k \in 1..(n + m)
      BY <1>2, <2>1
  <2>8. ASSUME NEW k \in 1..n
        PROVE  Whole(k)' /\ InGroup(k)'
    <3>1. Whole(k) /\ InGroup(k)
        BY <2>3
    <3>2. Whole(k)'
        BY <1>1, <1>3, <2>1, <3>1 DEF Whole
    <3>3. \A j \in 1..n : Mates(j, k)' <=> Mates(j, k)
        BY <2>1 DEF Mates
    <3>4. ASSUME NEW f \in Envs, GroupOf(f) = GroupOf(total'.traj[k][2])
          PROVE  \E j \in 1..Len(total'.rows) : total'.traj[j] = <<total'.traj[k][1], f>>
      <4>1. PICK j \in 1..n : total.traj[j] = <<total.traj[k][1], f>>
          BY <1>0, <2>1, <3>1, <3>4 DEF InGroup
      <4> QED
          BY <2>1, <2>7, <4>1
    <3>5. ASSUME FilterGroups, total'.traj[k][1] < MaxTries
          PROVE  \E j \in 1..Len(total'.rows) : Mates(j, k)' /\ total'.reward[j] # total'.reward[k]
      <4>1. PICK j \in 1..n : Mates(j, k) /\ total.reward[j] # total.reward[k]
          BY <1>0, <2>1, <3>1, <3>5 DEF InGroup
      <4> QED
          BY <2>1, <2>7, <3>3, <4>1
    <3>6. InGroup(k)'
        BY <1>1, <3>4, <3>5, Zenon DEF InGroup
    <3> QED
        BY <3>2, <3>6
  <2>9. \A k \in 1..Len(total'.rows) : Whole(k)' /\ InGroup(k)'
      BY <2>1, <2>2, <2>6, <2>8
  <2>10. \A k \in 1..n : \A i \in 1..m : total'.traj[k] # total'.traj[n + i]
    <3> SUFFICES ASSUME NEW k \in 1..n, NEW i \in 1..m, total'.traj[k] = total'.traj[n + i]
                 PROVE  FALSE
        OBVIOUS
    <3>1. total.traj[k][1] = try
        BY <2>1
    <3>2. total.traj[k][1] \in 1..Over
        BY <2>3 DEF Whole
    <3> QED
        BY <2>4, <3>1, <3>2
  <2>11. \A j, k \in 1..n : total'.traj[j] = total'.traj[k] => j = k
      BY <1>0, <2>1 DEF TotalInv
  <2>12. \A h, i \in 1..m : total'.traj[n + h] = total'.traj[n + i] => n + h = n + i
      BY <2>1, <2>5
  <2>13. ASSUME NEW j \in 1..(n + m), NEW k \in 1..(n + m), total'.traj[j] = total'.traj[k]
         PROVE  j = k
    <3>1. CASE j \in 1..n /\ k \in 1..n
        BY <2>11, <2>13, <3>1
    <3>2. CASE j \in 1..n /\ k \notin 1..n
        BY <2>6, <2>10, <2>13, <3>2
    <3>3. CASE j \notin 1..n /\ k \in 1..n
        BY <2>6, <2>10, <2>13, <3>3
    <3>4. CASE j \notin 1..n /\ k \notin 1..n
        BY <2>6, <2>12, <2>13, <3>4
    <3> QED
        BY <3>1, <3>2, <3>3, <3>4
  <2> QED
      BY <2>1, <2>9, <2>13 DEF TotalInv
<1> QED
    BY <1>4, <1>5

-----------------------------------------------------------------------------
(* The number of trajectories *)

LEMMA CountInit == Init => CountInv
<1> SUFFICES ASSUME Init
             PROVE  CountInv
    OBVIOUS
<1>1. pc = "loop" /\ try = 0 /\ success = << >> /\ Len(total.rows) = 0 /\ config \in Configs
    BY DEF Init
<1>2. GroupN \in Nat \ {0} /\ TrainBatch \in Nat \ {0} /\ B = TrainBatch * GroupN
    BY <1>1, ConfigIs
<1>3. \A w, g \in Nat \ {0} : g <= w * g /\ 0 = 0 * g /\ w * g \in Nat
    OBVIOUS
<1>4. GroupN <= B /\ 0 = 0 * GroupN /\ B \in Nat /\ 0 \in Nat
    BY <1>2, <1>3
<1>5. 0 <= 2 * B - GroupN
    BY <1>2, <1>4
<1> QED
    BY <1>1, <1>4, <1>5 DEF CountInv

\* Fewer than w groups are at most w - 1.
LEMMA OneGroupLess ==
    ASSUME NEW g \in Nat \ {0}, NEW w \in Nat, NEW q \in Nat, q * g < w * g
    PROVE  q * g <= w * g - g
<1>1. \A x, y \in Nat : x >= y => x * g >= y * g
    OBVIOUS
<1>2. q * g \in Nat /\ w * g \in Nat
    OBVIOUS
<1>3. q + 1 <= w
    BY <1>1, <1>2
<1>4. (q + 1) * g <= w * g
    BY <1>1, <1>3
<1>5. (q + 1) * g = q * g + g
    OBVIOUS
<1> QED
    BY <1>2, <1>4, <1>5

\* filter_group_data keeps whole groups, all of them in the last try.
LEMMA KeptIs ==
    ASSUME config \in Configs
    PROVE  /\ \E q \in Nat : Cardinality(Kept) = q * GroupN
           /\ Cardinality(Kept) \in 0..B
           /\ LastTry => Cardinality(Kept) = B
<1>1. Kept \in SUBSET Envs
    BY DEF Kept
<1>2. \A e \in Kept : \A f \in Envs : GroupOf(f) = GroupOf(e) => f \in Kept
    BY DEF Kept
<1>3. \E q \in Nat : Cardinality(Kept) = q * GroupN
    BY <1>1, <1>2, WholeGroups
<1>4. LastTry => Cardinality(Kept) = B
    BY ConfigIs DEF Kept
<1> QED
    BY <1>3, <1>4, KeepIndicesIs

LEMMA CountStep == TypeInv /\ CountInv /\ [Next]_vars => CountInv'
<1> SUFFICES ASSUME TypeInv, CountInv, [Next]_vars
             PROVE  CountInv'
    OBVIOUS
<1>0. PICK n, b, x : n = Len(total.rows) /\ b = B /\ x = MaxTries
    OBVIOUS
<1>1. config' = config /\ FilterGroups' = FilterGroups /\ MaxTries' = x /\ B' = b
    BY <1>0, ConfigStays, SameEnvs DEF FilterGroups, MaxTries
<1>2. /\ config \in Configs /\ try \in Nat /\ n \in Nat /\ x \in Int /\ b \in Nat
      /\ GroupN \in Nat \ {0} /\ TrainBatch \in Nat \ {0} /\ b = TrainBatch * GroupN
    BY <1>0, ConfigIs DEF TypeInv
<1>3. /\ pc \in {"step", "evaluate"} => try > 0
      /\ success # << >> => try > 0
    BY DEF CountInv
<1>4. FilterGroups =>
          /\ \E q \in Nat : n = q * GroupN
          /\ n <= 2 * b - GroupN
          /\ pc \in {"step", "evaluate"} => n < b /\ try <= x
          /\ pc = "loop" /\ try > 0 => try <= x
          /\ pc = "loop" /\ try > 0 /\ try = x => n >= b
    BY <1>0 DEF CountInv
<1>5. ~FilterGroups =>
          /\ try \in 0..1
          /\ pc # "raised" => n = IF pc \in {"loop", "done"} /\ try = 1 THEN b ELSE 0
    BY <1>0 DEF CountInv
<1>6. KeepSampling <=> IF FilterGroups THEN n < b /\ try < x ELSE try = 0
    BY <1>0 DEF KeepSampling
<1>7. CASE Reset
  <2>1. /\ pc = "loop" /\ pc' = "step" /\ KeepSampling /\ try' = try + 1
        /\ total' = total /\ success' = success
      BY <1>7, ResetIs
  <2>2. try' > 0 /\ Len(total'.rows) = n
      BY <1>0, <1>2, <2>1
  <2>3. CASE FilterGroups
    <3>1. n < b /\ try' <= x
        BY <1>2, <1>6, <2>1, <2>3
    <3> QED
        BY <1>1, <1>4, <2>1, <2>2, <2>3, <3>1 DEF CountInv
  <2>4. CASE ~FilterGroups
    <3>1. try' = 1 /\ n = 0
        BY <1>5, <1>6, <2>1, <2>4
    <3> QED
        BY <1>1, <2>1, <2>2, <2>4, <3>1 DEF CountInv
  <2> QED
      BY <2>3, <2>4
<1>8. CASE ResetFails
  <2>1. /\ pc = "loop" /\ pc' = "raised" /\ KeepSampling /\ try' = try + 1
        /\ total' = total /\ success' = success
      BY <1>8, ResetFailsIs
  <2>2. try' > 0 /\ Len(total'.rows) = n
      BY <1>0, <1>2, <2>1
  <2>3. CASE FilterGroups
      BY <1>1, <1>4, <2>1, <2>2, <2>3 DEF CountInv
  <2>4. CASE ~FilterGroups
    <3>1. try' = 1
        BY <1>6, <2>1, <2>4
    <3> QED
        BY <1>1, <2>1, <2>2, <2>4, <3>1 DEF CountInv
  <2> QED
      BY <2>3, <2>4
<1>9. CASE Step
  <2>1. /\ pc = "step" /\ pc' \in {"step", "evaluate"} /\ try' = try
        /\ total' = total /\ success' = success
      BY <1>9, StepIs
  <2>2. Len(total'.rows) = n
      BY <1>0, <2>1
  <2> QED
      BY <1>1, <1>3, <1>4, <1>5, <2>1, <2>2 DEF CountInv
<1>10. CASE Evaluate
  <2>0. PICK m : m = Cardinality(Kept)
      OBVIOUS
  <2>1. pc = "evaluate" /\ pc' = "loop" /\ try' = try /\ Len(total'.rows) = n + m
      BY <1>0, <1>10, <2>0, EvaluateIs
  <2>2. m \in 0..b /\ (\E q \in Nat : m = q * GroupN) /\ (LastTry => m = b)
      BY <1>0, <1>2, <2>0, KeptIs
  <2>3. try > 0
      BY <1>3, <2>1
  <2>4. CASE FilterGroups
    <3>1. PICK q \in Nat : n = q * GroupN
        BY <1>4, <2>4
    <3>2. PICK r \in Nat : m = r * GroupN
        BY <2>2
    <3>3. n + m = (q + r) * GroupN /\ q + r \in Nat
        BY <1>2, <3>1, <3>2
    <3>4. n < b /\ try <= x
        BY <1>4, <2>1, <2>4
    <3>5. n <= b - GroupN
        BY <1>2, <3>1, <3>4, OneGroupLess
    <3>6. n + m <= 2 * b - GroupN
        BY <1>2, <2>2, <3>5
    <3>7. try = x => n + m >= b
      <4>1. try = x => LastTry
          BY <1>0 DEF LastTry
      <4> QED
          BY <1>2, <2>2, <4>1
    <3> QED
        BY <1>1, <2>1, <2>3, <2>4, <3>3, <3>4, <3>6, <3>7 DEF CountInv
  <2>5. CASE ~FilterGroups
    <3>1. try = 1 /\ n = 0
        BY <1>5, <2>1, <2>3, <2>5
    <3>2. m = b
        BY <2>2, <2>5 DEF LastTry
    <3>3. n + m = b
        BY <1>2, <3>1, <3>2
    <3> QED
        BY <1>1, <2>1, <2>3, <2>5, <3>1, <3>3 DEF CountInv
  <2> QED
      BY <2>4, <2>5
<1>11. CASE Gather \/ GatherFails
  <2>1. /\ pc = "loop" /\ pc' \in {"done", "raised"} /\ try' = try
        /\ total' = total /\ success' = success
      BY <1>11, GatherIs, GatherFailsIs
  <2>2. Len(total'.rows) = n
      BY <1>0, <2>1
  <2> QED
      BY <1>1, <1>3, <1>4, <1>5, <2>1, <2>2 DEF CountInv
<1>12. CASE UNCHANGED vars
  <2>1. pc' = pc /\ try' = try /\ total' = total /\ success' = success
      BY <1>12 DEF vars
  <2> QED
      BY <1>0, <1>1, <2>1 DEF CountInv
<1> QED
    BY <1>7, <1>8, <1>9, <1>10, <1>11, <1>12 DEF Next

-----------------------------------------------------------------------------
(* What gather_rollout_data makes of the lists *)

OutRow == [traj : Nat \X Nat, uid : Nat \X Int, step : Nat, reward : Int, won : BOOLEAN,
           episodeReward : Int, episodeLength : Nat, success : BOOLEAN]

\* after[i] is what the inner loop has gathered after row i of trajectory k.
RowsAfter(after, gathered, k, n) ==
    after = [i \in 0..n |-> IF i = 0 THEN gathered ELSE GatherRow(after[i - 1], k, i)]

LEMMA SomeRowsAfter ==
    ASSUME NEW gathered, NEW k, NEW m \in Nat
    PROVE  \E after : RowsAfter(after, gathered, k, m)
<1> DEFINE N == {n \in Nat : \E after : RowsAfter(after, gathered, k, n)}
<1>1. 0 \in N
  <2> DEFINE one == [i \in 0..0 |-> gathered]
  <2>1. one = [i \in 0..0 |-> IF i = 0 THEN gathered ELSE GatherRow(one[i - 1], k, i)]
      OBVIOUS
  <2> HIDE DEF one
  <2>2. RowsAfter(one, gathered, k, 0)
      BY <2>1 DEF RowsAfter
  <2> QED
      BY <2>2
<1>2. ASSUME NEW n \in N
      PROVE  n + 1 \in N
  <2>1. PICK after : RowsAfter(after, gathered, k, n)
      OBVIOUS
  <2> DEFINE next == [i \in 0..(n + 1) |->
                         IF i = 0 THEN gathered ELSE GatherRow(after[i - 1], k, i)]
  <2>2. \A i \in 0..n : after[i] = IF i = 0 THEN gathered ELSE GatherRow(after[i - 1], k, i)
      BY <2>1 DEF RowsAfter
  <2>3. \A i \in 0..n : next[i] = after[i]
      BY <2>2
  <2>4. \A i \in 0..(n + 1) : i # 0 => next[i - 1] = after[i - 1]
    <3>1. \A i \in 0..(n + 1) : i # 0 => i - 1 \in 0..n
        OBVIOUS
    <3> QED
        BY <2>3, <3>1
  <2>5. next = [i \in 0..(n + 1) |-> IF i = 0 THEN gathered ELSE GatherRow(next[i - 1], k, i)]
      BY <2>4
  <2> HIDE DEF next
  <2>6. RowsAfter(next, gathered, k, n + 1)
      BY <2>5 DEF RowsAfter
  <2> QED
      BY <2>6
<1>3. \A n \in Nat : n \in N
  <2> HIDE DEF N
  <2>1. N \in SUBSET Nat
      BY DEF N
  <2> QED
      BY <1>1, <1>2, <2>1, Induction
<1> QED
    BY <1>3

LEMMA GatherTrajectoryIs ==
    ASSUME NEW gathered, NEW k, Len(total.rows[k]) \in Nat
    PROVE  \E after : /\ GatherTrajectory(gathered, k) = after[Len(total.rows[k])]
                      /\ after[0] = gathered
                      /\ \A i \in 1..Len(total.rows[k]) : after[i] = GatherRow(after[i - 1], k, i)
<1> DEFINE n == Len(total.rows[k])
           after == CHOOSE after : RowsAfter(after, gathered, k, n)
<1>1. RowsAfter(after, gathered, k, n)
    BY SomeRowsAfter
<1>2. GatherTrajectory(gathered, k) = after[n]
    BY Zenon DEF GatherTrajectory, RowsAfter
<1> HIDE DEF after, n
<1>3. n \in Nat
    BY DEF n
<1>4. after[0] = gathered /\ \A i \in 1..n : after[i] = GatherRow(after[i - 1], k, i)
    BY <1>1, <1>3 DEF RowsAfter
<1> QED
    BY <1>2, <1>4 DEF n

WithLabel(row, label) == [row EXCEPT !.success = label]
LastLabelled(s, label) == [s EXCEPT ![Len(s)].success = label]

\* effective_batch[-1] is the last row of t, which becomes u.
LEMMA LabelLast ==
    ASSUME NEW s \in Seq(OutRow), NEW t \in Seq(OutRow), NEW u \in Seq(OutRow),
           NEW yes, NEW n \in Nat \ {0}, Len(t) = n, Len(u) = n,
           \A j \in 1..(n - 1) : u[j] = t[j], u[n] = WithLabel(t[n], yes)
    PROVE  LastLabelled(s \o t, yes) = s \o u
<1> DEFINE m == Len(s)
           a == s \o t
           b == s \o u
           c == [a EXCEPT ![m + n].success = yes]
<1>0. ASSUME NEW v \in Seq(OutRow)
      PROVE  /\ s \o v \in Seq(OutRow)
             /\ Len(s \o v) = Len(s) + Len(v)
             /\ \A i \in 1..Len(s) : (s \o v)[i] = s[i]
             /\ \A j \in 1..Len(v) : (s \o v)[Len(s) + j] = v[j]
  <2>1. s \o v \in Seq(OutRow)
      OBVIOUS
  <2> QED
      BY <2>1, Concatenation
<1>1. /\ a \in Seq(OutRow) /\ Len(a) = m + n /\ m \in Nat
      /\ \A i \in 1..m : a[i] = s[i]
      /\ \A j \in 1..n : a[m + j] = t[j]
  <2>1. m \in Nat
      OBVIOUS
  <2> QED
      BY <1>0, <2>1, Zenon
<1>2. /\ b \in Seq(OutRow) /\ Len(b) = m + n
      /\ \A i \in 1..m : b[i] = s[i]
      /\ \A j \in 1..n : b[m + j] = u[j]
    BY <1>0, Zenon
<1> HIDE DEF a, b, m
<1>3. a = [i \in 1..(m + n) |-> a[i]] /\ b = [i \in 1..(m + n) |-> b[i]]
    BY <1>1, <1>2
<1>4. c = [i \in 1..(m + n) |-> IF i = m + n THEN WithLabel(a[i], yes) ELSE a[i]]
    BY <1>1, <1>3 DEF WithLabel
<1> HIDE DEF c
<1>5. ASSUME NEW i \in 1..(m + n)
      PROVE  b[i] = IF i = m + n THEN WithLabel(a[i], yes) ELSE a[i]
  <2>1. CASE i <= m
    <3>1. i \in 1..m /\ i # m + n
        BY <1>1, <2>1
    <3> QED
        BY <1>1, <1>2, <3>1
  <2>2. CASE i > m
    <3>1. PICK j \in 1..n : i = m + j
      <4>1. i - m \in 1..n /\ i = m + (i - m)
          BY <1>1, <2>2
      <4> QED
          BY <4>1
    <3>2. a[i] = t[j] /\ b[i] = u[j]
        BY <1>1, <1>2, <3>1
    <3>3. CASE j = n
        BY <3>1, <3>2, <3>3
    <3>4. CASE j # n
      <4>1. j \in 1..(n - 1) /\ i # m + n
          BY <1>1, <3>1, <3>4
      <4> QED
          BY <3>2, <4>1
    <3> QED
        BY <3>3, <3>4
  <2> QED
      BY <1>1, <2>1, <2>2
<1>6. b = c
    BY <1>3, <1>4, <1>5
<1>7. Len(s \o t) = m + n
    BY <1>1 DEF a
<1> QED
    BY <1>6, <1>7 DEF a, b, c, LastLabelled

LEMMA RowOfIs ==
    ASSUME TypeInv, NEW k \in 1..Len(total.rows), NEW i \in 1..Len(total.rows[k]),
           NEW label \in BOOLEAN
    PROVE  RowOf(k, i, label) \in OutRow
<1>1. total.rows[k][i] \in Row /\ total.reward[k] \in Int /\ total.length[k] \in Nat
  <2>1. total.rows \in Seq(Seq(Row)) /\ total.reward \in Seq(Int) /\ total.length \in Seq(Nat)
        /\ Len(total.reward) = Len(total.rows) /\ Len(total.length) = Len(total.rows)
      BY DEF TypeInv
  <2>2. total.rows[k] \in Seq(Row)
      BY <2>1
  <2>3. total.rows[k][i] \in Row
      BY <2>2
  <2>4. total.reward[k] \in Int
      BY <2>1
  <2>5. total.length[k] \in Nat
    <3> DEFINE lens == total.length
    <3>1. lens \in Seq(Nat) /\ k \in 1..Len(lens)
        BY <2>1
    <3> HIDE DEF lens
    <3>2. lens[k] \in Nat
        BY <3>1
    <3> QED
        BY <3>2 DEF lens
  <2> QED
      BY <2>3, <2>4, <2>5
<1>2. RowOf(k, i, label) =
          [traj |-> total.rows[k][i].traj, uid |-> total.rows[k][i].uid,
           step |-> total.rows[k][i].step,
           reward |-> total.rows[k][i].reward, won |-> total.rows[k][i].won,
           episodeReward |-> total.reward[k], episodeLength |-> total.length[k],
           success |-> label]
    BY DEF RowOf
<1> DEFINE row == total.rows[k][i]
<1>3. row.traj \in Nat \X Nat /\ row.uid \in Nat \X Int /\ row.step \in Nat
      /\ row.reward \in Int /\ row.won \in BOOLEAN
  <2> HIDE DEF row
  <2> QED
      BY <1>1 DEF Row, row
<1> QED
    BY <1>1, <1>2, <1>3 DEF OutRow

LEMMA LabelIs ==
    ASSUME NEW k, NEW i, NEW label, NEW yes
    PROVE  WithLabel(RowOf(k, i, label), yes) = RowOf(k, i, yes)
  BY DEF RowOf, WithLabel

\* A trajectory's active rows are added to what has been gathered; the label
\* is written to the last of them, be it the last row of the try or not.
LEMMA TrajectoryIs ==
    ASSUME TypeInv, NEW k \in 1..Len(total.rows), Whole(k), NEW gathered \in Seq(OutRow)
    PROVE  /\ GatherTrajectory(gathered, k) = gathered \o Labelled(k)
           /\ Labelled(k) \in Seq(OutRow) /\ Len(Labelled(k)) = total.length[k]
           /\ total.length[k] \in Nat \ {0}
<1> DEFINE s == total.rows[k]
           n == Len(s)
           len == total.length[k]
           rewarded == total.reward[k] > 0
           pre(i) == [j \in 1..i |-> RowOf(k, j, rewarded /\ j = n)]
<1>1. /\ s \in Seq(Row) /\ n \in Nat /\ len \in 1..n /\ len \in Nat
      /\ \A i \in 1..n : s[i].active <=> i <= len
  <2>1. s \in Seq(Row)
      BY DEF TypeInv
  <2> QED
      BY <2>1 DEF Whole, Recorded
<1>2. \A i \in 1..n : \A label \in BOOLEAN : RowOf(k, i, label) \in OutRow
    BY RowOfIs
<1>3. PICK after : /\ GatherTrajectory(gathered, k) = after[n]
                   /\ after[0] = gathered
                   /\ \A i \in 1..n : after[i] = GatherRow(after[i - 1], k, i)
  <2> HIDE DEF s, n, len, rewarded, pre
  <2>1. n = Len(total.rows[k]) /\ Len(total.rows[k]) \in Nat
      BY <1>1 DEF n, s
  <2>2. \E after : /\ GatherTrajectory(gathered, k) = after[Len(total.rows[k])]
                   /\ after[0] = gathered
                   /\ \A i \in 1..Len(total.rows[k]) : after[i] = GatherRow(after[i - 1], k, i)
      BY <2>1, GatherTrajectoryIs
  <2> QED
      BY <2>1, <2>2
<1>0. PICK yes : yes = TRUE
    OBVIOUS
<1>4. \A g, i : GatherRow(g, k, i) =
          IF s[i].active THEN Append(g, RowOf(k, i, rewarded /\ i = n))
          ELSE IF rewarded /\ Before(s, i).active
          THEN LastLabelled(g, yes) ELSE g
    BY <1>0 DEF GatherRow, LastLabelled
<1>5. \A i \in 1..n : i # 1 => Before(s, i) = s[i - 1]
    BY DEF Before
<1>6. Labelled(k) = [i \in 1..len |-> RowOf(k, i, rewarded /\ i = len)]
    BY DEF Labelled
<1>7. rewarded \in BOOLEAN /\ \A i : (rewarded /\ i = n) \in BOOLEAN /\ (rewarded /\ i = len) \in BOOLEAN
    OBVIOUS
<1> HIDE DEF s, n, len, rewarded
<1>9. Labelled(k) \in Seq(OutRow) /\ Len(Labelled(k)) = len
  <2>1. \A i \in 1..len : i \in 1..n
      BY <1>1
  <2>2. Labelled(k) \in [1..len -> OutRow]
      BY <1>2, <1>6, <1>7, <2>1
  <2> QED
      BY <1>1, <1>6, <2>2
<1>10. \A i \in 0..len : pre(i) \in Seq(OutRow) /\ Len(pre(i)) = i
  <2> TAKE i \in 0..len
  <2>1. i \in Nat /\ \A j \in 1..i : j \in 1..n
      BY <1>1
  <2>2. pre(i) \in [1..i -> OutRow]
      BY <1>2, <1>7, <2>1
  <2> QED
      BY <2>1, <2>2
\* While rows are active.
<1>11. \A i \in Nat : i <= len => after[i] = gathered \o pre(i)
  <2> DEFINE N == {i \in Nat : i <= len => after[i] = gathered \o pre(i)}
  <2>1. 0 \in N
    <3>1. pre(0) = << >>
        OBVIOUS
    <3> HIDE DEF pre
    <3>2. gathered \o << >> = gathered
        OBVIOUS
    <3> QED
        BY <1>3, <3>1, <3>2
  <2>2. ASSUME NEW i \in N
        PROVE  i + 1 \in N
    <3> SUFFICES ASSUME i + 1 <= len
                 PROVE  after[i + 1] = gathered \o pre(i + 1)
      <4> HIDE DEF pre
      <4> QED
          OBVIOUS
    <3> DEFINE x == RowOf(k, i + 1, rewarded /\ i + 1 = n)
    <3>1. i \in Nat /\ i \in 0..len /\ i + 1 \in 0..len /\ i + 1 \in 1..n /\ (i + 1) - 1 = i /\ i <= len
        BY <1>1
    <3>2. after[i + 1] = Append(after[i], x)
      <4>1. after[i + 1] = GatherRow(after[i], k, i + 1)
          BY <1>3, <3>1
      <4>2. s[i + 1].active
          BY <1>1, <3>1
      <4> QED
          BY <1>4, <4>1, <4>2, Zenon
    <3>3. after[i] = gathered \o pre(i)
      <4> HIDE DEF pre
      <4> QED
          BY <3>1
    <3>4. x \in OutRow
        BY <1>2, <1>7, <3>1
    <3>5. pre(i + 1) = Append(pre(i), x)
      <4>1. pre(i) \in Seq(OutRow) /\ Len(pre(i)) = i /\ pre(i + 1) \in Seq(OutRow) /\ Len(pre(i + 1)) = i + 1
          BY <1>10, <3>1
      <4>2. \A j \in 1..i : pre(i + 1)[j] = pre(i)[j]
          BY <3>1
      <4>3. pre(i + 1)[i + 1] = x
          BY <3>1
      <4> HIDE DEF pre, x
      <4> QED
          BY <3>1, <3>4, <4>1, <4>2, <4>3
    <3>6. pre(i) \in Seq(OutRow)
        BY <1>10, <3>1
    <3> HIDE DEF pre, x
    <3>7. Append(gathered \o pre(i), x) = gathered \o Append(pre(i), x)
      <4> DEFINE p == pre(i)
      <4>1. p \in Seq(OutRow) /\ gathered \in Seq(OutRow)
          BY <3>6
      <4> HIDE DEF N, p
      <4>2. Append(gathered \o p, x) = gathered \o Append(p, x)
          BY <3>4, <4>1
      <4> QED
          BY <4>2 DEF p
    <3> QED
        BY <3>2, <3>3, <3>5, <3>7, Zenon
  <2>3. \A i \in Nat : i \in N
    <3> HIDE DEF N
    <3>1. N \in SUBSET Nat
        BY DEF N
    <3> QED
        BY <2>1, <2>2, <3>1, Induction
  <2> QED
      BY <2>3
<1>12. after[len] = gathered \o pre(len)
    BY <1>1, <1>11
<1>13. CASE len = n
  <2>1. pre(len) = Labelled(k)
      BY <1>6, <1>13
  <2>2. GatherTrajectory(gathered, k) = gathered \o Labelled(k)
      BY <1>3, <1>12, <1>13, <2>1, Zenon
  <2>3. len \in Nat \ {0}
      BY <1>1
  <2> QED
      BY <1>9, <2>2, <2>3, Zenon DEF len
\* The row after the last active one writes the label, the others nothing.
<1>14. CASE len # n
  <2>0. len + 1 \in 1..n /\ (len + 1) - 1 = len /\ len + 1 # 1 /\ ~s[len + 1].active /\ s[len].active
        /\ len \in 1..len /\ len \in 0..len
      BY <1>1, <1>14
  <2>1. after[len + 1] = gathered \o Labelled(k)
    <3>1. after[len + 1] = IF rewarded THEN LastLabelled(after[len], yes)
                           ELSE after[len]
      <4>1. Before(s, len + 1) = s[len]
          BY <1>5, <2>0
      <4>2. after[len + 1] = GatherRow(after[len], k, len + 1)
          BY <1>3, <2>0
      <4> QED
          BY <1>4, <2>0, <4>1, <4>2, Zenon
    <3>2. pre(len) \in Seq(OutRow) /\ Len(pre(len)) = len
        BY <1>10, <2>0
    <3>3. \A j \in 1..len : pre(len)[j] = RowOf(k, j, FALSE)
      <4> TAKE j \in 1..len
      <4>1. pre(len)[j] = RowOf(k, j, rewarded /\ j = n)
          OBVIOUS
      <4>2. (rewarded /\ j = n) = FALSE
        <5>1. j # n
            BY <1>1, <1>14
        <5> QED
            BY <5>1, Zenon
      <4> QED
          BY <4>1, <4>2, Zenon
    <3> DEFINE p == pre(len)
    <3>4. p \in Seq(OutRow) /\ Len(p) = len /\ \A j \in 1..len : p[j] = RowOf(k, j, FALSE)
        BY <3>2, <3>3
    <3>5. after[len] = gathered \o p
        BY <1>12
    <3> HIDE DEF pre, p
    <3>6. CASE rewarded
      <4>1. \A j \in 1..(len - 1) : Labelled(k)[j] = p[j]
        <5> TAKE j \in 1..(len - 1)
        <5>1. j \in 1..len /\ j # len
            BY <1>1
        <5>2. (rewarded /\ j = len) = FALSE
            BY <5>1, Zenon
        <5>3. Labelled(k)[j] = RowOf(k, j, rewarded /\ j = len)
            BY <1>6, <5>1
        <5> QED
            BY <3>4, <5>1, <5>2, <5>3, Zenon
      <4>2. Labelled(k)[len] = WithLabel(p[len], yes)
        <5>1. Labelled(k)[len] = RowOf(k, len, rewarded /\ len = len)
            BY <1>6, <2>0
        <5>2. (rewarded /\ len = len) = yes
            BY <1>0, <3>6
        <5>3. p[len] = RowOf(k, len, FALSE)
            BY <2>0, <3>4
        <5>4. WithLabel(RowOf(k, len, FALSE), yes) = RowOf(k, len, yes)
            BY LabelIs
        <5> QED
            BY <5>1, <5>2, <5>3, <5>4, Zenon
      <4>3. LastLabelled(gathered \o p, yes) = gathered \o Labelled(k)
        <5>1. len \in Nat \ {0}
            BY <1>1
        <5>2. PICK t, u : t = p /\ u = Labelled(k)
            OBVIOUS
        <5>3. /\ gathered \in Seq(OutRow) /\ t \in Seq(OutRow) /\ u \in Seq(OutRow)
              /\ Len(t) = len /\ Len(u) = len
              /\ \A j \in 1..(len - 1) : u[j] = t[j]
              /\ u[len] = WithLabel(t[len], yes)
            BY <1>9, <3>4, <4>1, <4>2, <5>2
        <5>4. LastLabelled(gathered \o t, yes) = gathered \o u
            BY <5>1, <5>3, LabelLast
        <5> QED
            BY <5>2, <5>4
      <4> QED
          BY <3>1, <3>5, <3>6, <4>3, Zenon
    <3>7. CASE ~rewarded
      <4>1. p = Labelled(k)
        <5>1. \A j \in 1..len : Labelled(k)[j] = p[j]
          <6> TAKE j \in 1..len
          <6>1. (rewarded /\ j = len) = FALSE
              BY <3>7, Zenon
          <6>2. Labelled(k)[j] = RowOf(k, j, rewarded /\ j = len)
              BY <1>6
          <6> QED
              BY <3>4, <6>1, <6>2, Zenon
        <5> QED
            BY <1>9, <3>4, <5>1
      <4> QED
          BY <3>1, <3>5, <3>7, <4>1, Zenon
    <3> QED
        BY <3>6, <3>7
  <2>2. \A i \in Nat : len + 1 + i <= n => after[len + 1 + i] = gathered \o Labelled(k)
    <3> DEFINE N == {i \in Nat : len + 1 + i <= n => after[len + 1 + i] = gathered \o Labelled(k)}
    <3>1. 0 \in N
        BY <1>1, <2>1
    <3>2. ASSUME NEW i \in N
          PROVE  i + 1 \in N
      <4> SUFFICES ASSUME len + 1 + (i + 1) <= n
                   PROVE  after[len + 1 + (i + 1)] = gathered \o Labelled(k)
          OBVIOUS
      <4> DEFINE h == len + 1 + i
      <4>1. /\ i \in Nat /\ h \in 1..n /\ h + 1 \in 1..n /\ (h + 1) - 1 = h /\ h + 1 # 1
            /\ ~(h <= len) /\ ~(h + 1 <= len) /\ len + 1 + (i + 1) = h + 1
          BY <1>1
      <4>2. after[h] = gathered \o Labelled(k)
          BY <4>1
      <4> HIDE DEF h
      <4>3. ~s[h].active /\ ~s[h + 1].active /\ Before(s, h + 1) = s[h]
          BY <1>1, <1>5, <4>1
      <4>4. after[h + 1] = after[h]
          BY <1>3, <1>4, <4>1, <4>3
      <4> QED
          BY <4>1, <4>2, <4>4
    <3>3. \A i \in Nat : i \in N
      <4> HIDE DEF N
      <4>1. N \in SUBSET Nat
          BY DEF N
      <4> QED
          BY <3>1, <3>2, <4>1, Induction
    <3> QED
        BY <3>3
  <2>3. PICK i \in Nat : len + 1 + i = n
    <3>1. n - (len + 1) \in Nat /\ len + 1 + (n - (len + 1)) = n
        BY <1>1, <2>0
    <3> QED
        BY <3>1
  <2>4. len + 1 + i <= n
      BY <1>1, <2>3
  <2>5. after[n] = gathered \o Labelled(k)
      BY <2>2, <2>3, <2>4
  <2> QED
      BY <1>1, <1>3, <1>9, <2>5 DEF len
<1> QED
    BY <1>13, <1>14

TrajectoriesAfter(after, n) ==
    after = [k \in 0..n |-> IF k = 0 THEN << >> ELSE GatherTrajectory(after[k - 1], k)]

LEMMA SomeTrajectoriesAfter ==
    ASSUME NEW m \in Nat
    PROVE  \E after : TrajectoriesAfter(after, m)
<1> DEFINE N == {n \in Nat : \E after : TrajectoriesAfter(after, n)}
<1>1. 0 \in N
  <2> DEFINE one == [i \in 0..0 |-> << >>]
  <2>1. one = [i \in 0..0 |-> IF i = 0 THEN << >> ELSE GatherTrajectory(one[i - 1], i)]
      OBVIOUS
  <2> HIDE DEF one
  <2>2. TrajectoriesAfter(one, 0)
      BY <2>1 DEF TrajectoriesAfter
  <2> QED
      BY <2>2
<1>2. ASSUME NEW n \in N
      PROVE  n + 1 \in N
  <2>1. PICK after : TrajectoriesAfter(after, n)
      OBVIOUS
  <2> DEFINE next == [k \in 0..(n + 1) |->
                         IF k = 0 THEN << >> ELSE GatherTrajectory(after[k - 1], k)]
  <2>2. \A k \in 0..n : after[k] = IF k = 0 THEN << >> ELSE GatherTrajectory(after[k - 1], k)
      BY <2>1 DEF TrajectoriesAfter
  <2>3. \A k \in 0..n : next[k] = after[k]
      BY <2>2
  <2>4. \A k \in 0..(n + 1) : k # 0 => next[k - 1] = after[k - 1]
    <3>1. \A k \in 0..(n + 1) : k # 0 => k - 1 \in 0..n
        OBVIOUS
    <3> QED
        BY <2>3, <3>1
  <2>5. next = [k \in 0..(n + 1) |-> IF k = 0 THEN << >> ELSE GatherTrajectory(next[k - 1], k)]
      BY <2>4
  <2> HIDE DEF next
  <2>6. TrajectoriesAfter(next, n + 1)
      BY <2>5 DEF TrajectoriesAfter
  <2> QED
      BY <2>6
<1>3. \A n \in Nat : n \in N
  <2> HIDE DEF N
  <2>1. N \in SUBSET Nat
      BY DEF N
  <2> QED
      BY <1>1, <1>2, <2>1, Induction
<1> QED
    BY <1>3

\* The trajectories' rows, one trajectory after another.
LEMMA GatheredIs ==
    ASSUME TypeInv, TotalInv
    PROVE  Gathered = FlattenSeq(AllLabelled)
<1> DEFINE n == Len(total.rows)
           after == CHOOSE after : TrajectoriesAfter(after, n)
           part(k) == [j \in 1..k |-> Labelled(j)]
<1>1. n \in Nat
    BY DEF TypeInv
<1>2. TrajectoriesAfter(after, n)
    BY <1>1, SomeTrajectoriesAfter
<1>3. Gathered = after[n]
    BY Zenon DEF Gathered, TrajectoriesAfter
<1> HIDE DEF after
<1>4. after[0] = << >> /\ \A k \in 1..n : after[k] = GatherTrajectory(after[k - 1], k)
    BY <1>1, <1>2 DEF TrajectoriesAfter
<1>5. \A k \in 1..n : \A g \in Seq(OutRow) :
          /\ GatherTrajectory(g, k) = g \o Labelled(k)
          /\ Labelled(k) \in Seq(OutRow)
    BY TrajectoryIs DEF TotalInv
<1>6. \A k \in 1..n : Labelled(k) \in Seq(OutRow)
  <2>1. << >> \in Seq(OutRow)
      OBVIOUS
  <2> QED
      BY <1>5, <2>1
<1> HIDE DEF n
<1>7. \A k \in Nat : Len(part(k)) = k /\ DOMAIN part(k) = 1..k
    OBVIOUS
<1>8. \A k \in Nat : k <= n => after[k] = FlattenSeq(part(k)) /\ after[k] \in Seq(OutRow)
  <2> DEFINE N == {k \in Nat : k <= n => after[k] = FlattenSeq(part(k)) /\ after[k] \in Seq(OutRow)}
  <2>1. 0 \in N
    <3>1. part(0) = << >>
        OBVIOUS
    <3>2. FlattenSeq(<< >>) = << >>
      <4>1. PICK none : none = << >>
          OBVIOUS
      <4>2. Len(none) = 0
          BY <4>1
      <4>3. FlattenSeq(none) = none
          BY <4>2, Zenon DEF FlattenSeq
      <4> QED
          BY <4>1, <4>3
    <3> HIDE DEF part
    <3>3. << >> \in Seq(OutRow)
        OBVIOUS
    <3> QED
        BY <1>4, <3>1, <3>2, <3>3
  <2>2. ASSUME NEW k \in N
        PROVE  k + 1 \in N
    <3> HIDE DEF part
    <3> SUFFICES ASSUME k + 1 <= n
                 PROVE  after[k + 1] = FlattenSeq(part(k + 1)) /\ after[k + 1] \in Seq(OutRow)
        OBVIOUS
    <3>1. k \in Nat /\ k + 1 \in 1..n /\ (k + 1) - 1 = k /\ k <= n
        BY <1>1
    <3>2. after[k] = FlattenSeq(part(k)) /\ after[k] \in Seq(OutRow)
        BY <3>1
    <3>3. Labelled(k + 1) \in Seq(OutRow)
        BY <1>6, <3>1
    <3>4. after[k + 1] = after[k] \o Labelled(k + 1)
      <4>1. after[k + 1] = GatherTrajectory(after[k], k + 1)
          BY <1>4, <3>1
      <4> QED
          BY <1>5, <3>1, <3>2, <4>1
    <3>5. after[k + 1] \in Seq(OutRow)
        BY <3>2, <3>3, <3>4
    <3>6. FlattenSeq(part(k + 1)) = FlattenSeq(part(k)) \o Labelled(k + 1)
      <4>1. PICK s, t : s = part(k) /\ t = part(k + 1)
          OBVIOUS
      <4>2. /\ s = [i \in 1..k |-> s[i]] /\ Len(s) = k
            /\ DOMAIN t = 1..(k + 1) /\ Len(t) = k + 1 /\ t[k + 1] = Labelled(k + 1)
            /\ \A i \in 1..k : t[i] = s[i]
        <5>1. k + 1 \in Nat
            BY <3>1
        <5>2. Len(s) = k /\ DOMAIN t = 1..(k + 1) /\ Len(t) = k + 1
            BY <1>7, <3>1, <4>1, <5>1
        <5>3. s = [i \in 1..k |-> Labelled(i)] /\ t = [i \in 1..(k + 1) |-> Labelled(i)]
            BY <4>1 DEF part
        <5> QED
            BY <3>1, <5>2, <5>3
      <4>3. FlattenSeq(t) = FlattenSeq(s) \o t[k + 1]
        <5>1. k \in Nat /\ t[k + 1] \in Seq(OutRow)
            BY <3>1, <3>3, <4>2
        <5> HIDE DEF part
        <5> QED
            BY <4>2, <5>1, FlattenMore
      <4> QED
          BY <4>1, <4>2, <4>3
    <3> QED
        BY <3>2, <3>4, <3>5, <3>6
  <2>3. \A k \in Nat : k \in N
    <3> HIDE DEF N
    <3>1. N \in SUBSET Nat
        BY DEF N
    <3> QED
        BY <2>1, <2>2, <3>1, Induction
  <2> QED
      BY <2>3
<1>9. part(n) = AllLabelled
    BY DEF AllLabelled, n
<1>10. after[n] = FlattenSeq(part(n))
  <2> HIDE DEF part
  <2>1. n <= n
      BY <1>1
  <2> QED
      BY <1>1, <1>8, <2>1
<1> QED
    BY <1>3, <1>9, <1>10

-----------------------------------------------------------------------------
(* The end *)

LEMMA DoneInit == Init => DoneInv
  BY DEF Init, DoneInv

LEMMA SameLabelled == ASSUME total' = total PROVE AllLabelled' = AllLabelled
<1>1. \A k : \A i : \A label : RowOf(k, i, label)' = RowOf(k, i, label)
    BY Zenon DEF RowOf
<1>2. \A k : Labelled(k)' = Labelled(k)
    BY <1>1 DEF Labelled
<1> QED
    BY <1>2 DEF AllLabelled

LEMMA DoneStep == TypeInv /\ TotalInv /\ SuccessInv /\ CountInv /\ DoneInv /\ [Next]_vars => DoneInv'
<1> SUFFICES ASSUME TypeInv, TotalInv, SuccessInv, CountInv, DoneInv, [Next]_vars
             PROVE  DoneInv'
    OBVIOUS
<1>1. CASE Gather
  <2>1. /\ pc = "loop" /\ ~KeepSampling /\ Concatenable /\ output' = Gathered
        /\ rates' = [key \in DOMAIN Concatenated |-> Rate(Concatenated[key])]
        /\ config' = config /\ try' = try /\ total' = total /\ success' = success
      BY <1>1, GatherIs
  <2>2. KeepSampling' = KeepSampling /\ Concatenable' = Concatenable /\ B' = B
        /\ FilterGroups' = FilterGroups /\ AllWon' = AllWon
      BY <2>1, SameEnvs DEF KeepSampling, Concatenable, FilterGroups, MaxTries, AllWon, B, TrainBatch
  <2>3. try > 0
      BY <2>1 DEF Concatenable, CountInv
  <2>4. config \in Configs /\ try \in Nat /\ B \in Nat /\ Len(total.rows) \in Nat /\ MaxTries \in Int
      BY ConfigIs DEF TypeInv
  <2>5. FilterGroups => Len(total.rows) >= B
      BY <2>1, <2>3, <2>4 DEF KeepSampling, CountInv
  <2>6. ~FilterGroups => try = 1
      BY <2>1, <2>4 DEF KeepSampling, CountInv
  <2>7. output' = FlattenSeq(AllLabelled)'
    <3>1. output' = FlattenSeq(AllLabelled)
        BY <2>1, GatheredIs
    <3>2. AllLabelled' = AllLabelled
        BY <2>1, SameLabelled
    <3> QED
        BY <3>1, <3>2, Zenon
  <2>8. SuccessRate \in DOMAIN success[1]
    <3>1. 1 \in DOMAIN success
      <4> DEFINE T == {success[i] : i \in DOMAIN success}
      <4>1. success \in Seq(T) /\ success # << >>
          BY <2>1 DEF TypeInv, IsSeq, Concatenable
      <4> HIDE DEF T
      <4> QED
          BY <4>1
    <3> QED
        BY <3>1 DEF SuccessInv
  <2>9. SuccessRate \in DOMAIN Concatenated /\ Concatenated[SuccessRate] = AllWon
      BY <2>8, Zenon DEF Concatenated, AllWon
  <2>10. rates'[SuccessRate] = Rate(AllWon)
    <3>1. rates'[SuccessRate] = Rate(Concatenated[SuccessRate])
        BY <2>1, <2>9, Zenon
    <3> QED
        BY <2>9, <3>1, Zenon
  <2>11. Rate(AllWon)' = Rate(AllWon)
      BY <2>2 DEF Rate
  <2> QED
      BY <2>1, <2>2, <2>5, <2>6, <2>7, <2>10, <2>11 DEF DoneInv
<1>2. CASE Reset \/ ResetFails \/ Step \/ Evaluate \/ GatherFails
  <2>1. pc' # "done"
      BY <1>2, ResetIs, ResetFailsIs, StepIs, EvaluateIs, GatherFailsIs
  <2> QED
      BY <2>1 DEF DoneInv
<1>3. CASE UNCHANGED vars
  <2>1. /\ config' = config /\ pc' = pc /\ try' = try /\ total' = total /\ success' = success
        /\ output' = output /\ rates' = rates
      BY <1>3 DEF vars, result
  <2>2. KeepSampling' = KeepSampling /\ Concatenable' = Concatenable /\ B' = B
        /\ FilterGroups' = FilterGroups /\ Rate(AllWon)' = Rate(AllWon)
      BY <2>1, SameEnvs DEF KeepSampling, Concatenable, FilterGroups, MaxTries, AllWon, Rate, B, TrainBatch
  <2>3. FlattenSeq(AllLabelled)' = FlattenSeq(AllLabelled)
    <3>1. AllLabelled' = AllLabelled
        BY <2>1, SameLabelled
    <3> QED
        BY <3>1, Zenon
  <2> QED
      BY <2>1, <2>2, <2>3 DEF DoneInv
<1> QED
    BY <1>1, <1>2, <1>3 DEF Next

LEMMA AlwaysRolloutInv == Spec => []RolloutInv
<1>1. Init => RolloutInv
    BY TypeInit, TryInit, TotalInit, SuccessInit, CountInit, DoneInit DEF RolloutInv
<1>2. RolloutInv /\ [Next]_vars => RolloutInv'
    BY TypeStep, TryStep, TotalStep, SuccessStep, CountStep, DoneStep DEF RolloutInv
<1> QED
    BY <1>1, <1>2, PTL DEF Spec

-----------------------------------------------------------------------------
(* What is handed to training *)

Ended == RolloutInv /\ pc = "done"

\* Trajectory k of the lists.
LEMMA TrajectoriesAre ==
    ASSUME Ended
    PROVE  /\ Len(total.rows) \in Nat \ {0}
           /\ \A k \in 1..Len(total.rows) :
                 /\ Whole(k) /\ InGroup(k) /\ total.rows[k] \in Seq(Row)
                 /\ total.reward[k] \in Int /\ total.length[k] \in Nat \ {0}
                 /\ total.traj[k] \in Nat \X Nat
                 /\ Labelled(k) \in Seq(OutRow) /\ Len(Labelled(k)) = total.length[k]
                 /\ \A i \in 1..total.length[k] :
                       LET row == total.rows[k][i]
                       IN  /\ row.traj = total.traj[k]
                           /\ row.uid = <<total.traj[k][1], GroupOf(total.traj[k][2])>>
                           /\ row.step = i - 1 /\ row.reward \in Int
           /\ \A j, k \in 1..Len(total.rows) : total.traj[j] = total.traj[k] => j = k
<1>1. TypeInv /\ TotalInv /\ CountInv /\ DoneInv /\ pc = "done"
    BY DEF Ended, RolloutInv
<1>2. Len(total.rows) \in Nat
    BY <1>1 DEF TypeInv
<1>3. Len(total.rows) # 0
  <2>1. B \in Nat \ {0}
      BY <1>1, ConfigIs DEF TypeInv
  <2>2. CASE FilterGroups
      BY <1>1, <1>2, <2>1, <2>2 DEF DoneInv
  <2>3. CASE ~FilterGroups
      BY <1>1, <2>1, <2>3 DEF DoneInv, CountInv
  <2> QED
      BY <2>2, <2>3
<1>4. ASSUME NEW k \in 1..Len(total.rows)
      PROVE  /\ Whole(k) /\ InGroup(k) /\ total.rows[k] \in Seq(Row)
             /\ total.reward[k] \in Int /\ total.traj[k] \in Nat \X Nat
             /\ Labelled(k) \in Seq(OutRow) /\ Len(Labelled(k)) = total.length[k]
             /\ total.length[k] \in Nat \ {0}
  <2>1. Whole(k) /\ InGroup(k)
      BY <1>1 DEF TotalInv
  <2>2. total.rows[k] \in Seq(Row)
      BY <1>1 DEF TypeInv
  <2>3. total.reward[k] \in Int
    <3>1. total.reward \in Seq(Int) /\ Len(total.reward) = Len(total.rows)
        BY <1>1 DEF TypeInv
    <3> QED
        BY <3>1
  <2>4. total.traj[k] \in Nat \X Nat
    <3> DEFINE T == Nat \X Nat
    <3>1. total.traj \in Seq(T) /\ Len(total.traj) = Len(total.rows)
        BY <1>1 DEF TypeInv
    <3> HIDE DEF T
    <3>2. total.traj[k] \in T
        BY <3>1
    <3> QED
        BY <3>2 DEF T
  <2>5. << >> \in Seq(OutRow)
      OBVIOUS
  <2>6. /\ Labelled(k) \in Seq(OutRow) /\ Len(Labelled(k)) = total.length[k]
        /\ total.length[k] \in Nat \ {0}
      BY <1>1, <2>1, <2>5, TrajectoryIs
  <2> QED
      BY <2>1, <2>2, <2>3, <2>4, <2>6
<1>5. ASSUME NEW k \in 1..Len(total.rows), NEW i \in 1..total.length[k]
      PROVE  /\ total.rows[k][i].traj = total.traj[k]
             /\ total.rows[k][i].uid = <<total.traj[k][1], GroupOf(total.traj[k][2])>>
             /\ total.rows[k][i].step = i - 1 /\ total.rows[k][i].reward \in Int
  <2>1. Whole(k) /\ total.rows[k] \in Seq(Row) /\ total.length[k] \in Nat
      BY <1>4
  <2>2. i \in 1..Len(total.rows[k])
    <3>1. total.length[k] \in 1..Len(total.rows[k]) /\ Len(total.rows[k]) \in Nat
        BY <2>1 DEF Whole
    <3> QED
        BY <3>1
  <2>3. total.rows[k][i] \in Row
      BY <2>1, <2>2
  <2>4. total.rows[k][i].reward \in Int
      BY <2>3 DEF Row
  <2> QED
      BY <2>1, <2>2, <2>4 DEF Whole, Recorded
<1>6. \A j, k \in 1..Len(total.rows) : total.traj[j] = total.traj[k] => j = k
    BY <1>1 DEF TotalInv
<1> QED
    BY <1>2, <1>3, <1>4, <1>5, <1>6

\* The rows of trajectory k are the positions after start[k] of the output.
Placed(start, k) ==
    LET n == total.length[k]
    IN  /\ start[k] \in Nat
        /\ RowsOf(total.traj[k]) = (start[k] + 1)..(start[k] + n)
        /\ \A i \in 1..n : output[start[k] + i]
                              = RowOf(k, i, total.reward[k] > 0 /\ i = n)

LEMMA OutputIs ==
    ASSUME Ended
    PROVE  /\ \E start : \A k \in 1..Len(total.rows) : Placed(start, k)
           /\ Trajs = {total.traj[k] : k \in 1..Len(total.rows)}
<1> DEFINE n == Len(total.rows)
           s == AllLabelled
<1>1. /\ n \in Nat \ {0}
      /\ \A k \in 1..n :
            /\ total.length[k] \in Nat \ {0}
            /\ Labelled(k) \in Seq(OutRow) /\ Len(Labelled(k)) = total.length[k]
            /\ \A i \in 1..total.length[k] : total.rows[k][i].traj = total.traj[k]
      /\ \A j, k \in 1..n : total.traj[j] = total.traj[k] => j = k
    BY TrajectoriesAre
<1>2. output = FlattenSeq(s)
    BY DEF Ended, RolloutInv, DoneInv
<1>3. s = [k \in 1..n |-> Labelled(k)]
    BY DEF AllLabelled
<1>4. \A k \in 1..n : \A i \in 1..total.length[k] :
          /\ Labelled(k)[i] = RowOf(k, i, total.reward[k] > 0 /\ i = total.length[k])
          /\ Labelled(k)[i].traj = total.traj[k]
  <2> TAKE k \in 1..n
  <2> TAKE i \in 1..total.length[k]
  <2>1. total.rows[k][i].traj = total.traj[k]
      BY <1>1
  <2>2. Labelled(k)[i] = RowOf(k, i, total.reward[k] > 0 /\ i = total.length[k])
      BY DEF Labelled
  <2>3. \A label : RowOf(k, i, label).traj = total.rows[k][i].traj
      BY DEF RowOf
  <2> QED
      BY <2>1, <2>2, <2>3
<1> HIDE DEF n, s
<1>5. DOMAIN s = 1..n /\ Len(s) = n /\ \A k \in 1..n : s[k] = Labelled(k)
    BY <1>1, <1>3
<1>6. PICK start : Starts(start, output, s, n)
  <2>1. \A k \in 1..n : s[k] \in Seq(OutRow)
      BY <1>1, <1>5
  <2>2. \E start : Starts(start, FlattenSeq(s), s, n)
      BY <1>1, <1>5, <2>1, FlattenIs
  <2> QED
      BY <1>2, <2>2
<1>7. output \in Seq(OutRow)
    BY <1>1, <1>2, <1>5, FlattenIs
<1>8. DOMAIN output = 1..Len(output)
    BY <1>7
<1>9. /\ \A k \in 1..n : start[k] \in Nat
      /\ \A k \in 1..n : \A i \in 1..total.length[k] :
            start[k] + i \in DOMAIN output /\ output[start[k] + i] = Labelled(k)[i]
      /\ \A p \in DOMAIN output : \E k \in 1..n : \E i \in 1..total.length[k] : p = start[k] + i
  <2>1. \A k \in 1..n : start[k] \in Nat
      BY <1>6 DEF Starts
  <2>2. \A k \in 1..n : Len(s[k]) = total.length[k] /\ s[k] = Labelled(k)
      BY <1>1, <1>5
  <2>3. \A k \in 1..n : \A i \in 1..Len(s[k]) :
            start[k] + i \in 1..Len(output) /\ output[start[k] + i] = s[k][i]
      BY <1>6 DEF Starts
  <2>4. \A p \in 1..Len(output) : \E k \in 1..n : \E i \in 1..Len(s[k]) : p = start[k] + i
      BY <1>6 DEF Starts
  <2>5. \A k \in 1..n : \A i \in 1..total.length[k] :
            start[k] + i \in DOMAIN output /\ output[start[k] + i] = Labelled(k)[i]
      BY <1>8, <2>2, <2>3
  <2>6. \A p \in DOMAIN output : \E k \in 1..n : \E i \in 1..total.length[k] : p = start[k] + i
      BY <1>8, <2>2, <2>4
  <2> QED
      BY <2>1, <2>5, <2>6
<1>10. ASSUME NEW k \in 1..n
       PROVE  RowsOf(total.traj[k]) = (start[k] + 1)..(start[k] + total.length[k])
  <2>1. ASSUME NEW p \in RowsOf(total.traj[k])
        PROVE  p \in (start[k] + 1)..(start[k] + total.length[k])
    <3>1. p \in DOMAIN output /\ output[p].traj = total.traj[k]
        BY DEF RowsOf
    <3>2. PICK j \in 1..n : \E i \in 1..total.length[j] : p = start[j] + i
        BY <1>9, <3>1
    <3>3. PICK i \in 1..total.length[j] : p = start[j] + i
        BY <3>2
    <3>4. output[p].traj = total.traj[j]
        BY <1>4, <1>9, <3>3
    <3>5. j = k
        BY <1>1, <3>1, <3>4
    <3>6. PICK x \in Nat, y \in Nat : x = start[k] /\ y = total.length[k]
        BY <1>1, <1>9
    <3>7. i \in 1..y /\ p = x + i
        BY <3>3, <3>5, <3>6
    <3>8. p \in (x + 1)..(x + y)
        BY <3>6, <3>7
    <3> QED
        BY <3>6, <3>8, Zenon
  <2>2. ASSUME NEW p \in (start[k] + 1)..(start[k] + total.length[k])
        PROVE  p \in RowsOf(total.traj[k])
    <3>1. PICK i \in 1..total.length[k] : p = start[k] + i
      <4>1. p - start[k] \in 1..total.length[k] /\ p = start[k] + (p - start[k])
          BY <1>1, <1>9
      <4> QED
          BY <4>1
    <3>2. p \in DOMAIN output /\ output[p].traj = total.traj[k]
        BY <1>4, <1>9, <3>1
    <3> QED
        BY <3>2 DEF RowsOf
  <2> QED
      BY <2>1, <2>2
<1>11. \A k \in 1..n : Placed(start, k)
    BY <1>4, <1>9, <1>10 DEF Placed
<1>12. Trajs = {total.traj[k] : k \in 1..n}
  <2>1. ASSUME NEW p \in DOMAIN output
        PROVE  \E k \in 1..n : output[p].traj = total.traj[k]
      BY <1>4, <1>9
  <2>2. ASSUME NEW k \in 1..n
        PROVE  \E p \in DOMAIN output : output[p].traj = total.traj[k]
    <3>1. 1 \in 1..total.length[k]
        BY <1>1
    <3> QED
        BY <1>4, <1>9, <3>1
  <2> QED
      BY <2>1, <2>2 DEF Trajs
<1> QED
    BY <1>11, <1>12 DEF n

\* What the properties read of trajectory k.
LEMMA PlacedIs ==
    ASSUME Ended, NEW k \in 1..Len(total.rows), NEW start, Placed(start, k)
    PROVE  LET t == total.traj[k]
               a == start[k]
               n == total.length[k]
           IN  /\ a \in Nat /\ n \in Nat \ {0} /\ RowsOf(t) = (a + 1)..(a + n)
               /\ Min(RowsOf(t)) = a + 1 /\ Max(RowsOf(t)) = a + n /\ Cardinality(RowsOf(t)) = n
               /\ RewardOf(t) = total.reward[k]
               /\ UidOf(t) = <<t[1], GroupOf(t[2])>>
               /\ LastRow(t).won = total.rows[k][n].won
<1> DEFINE t == total.traj[k]
           a == start[k]
           n == total.length[k]
<1>1. /\ n \in Nat \ {0} /\ a \in Nat /\ RowsOf(t) = (a + 1)..(a + n)
      /\ output[a + n] = RowOf(k, n, total.reward[k] > 0 /\ n = n)
      /\ total.rows[k][n].uid = <<t[1], GroupOf(t[2])>>
  <2>1. n \in Nat \ {0} /\ \A i \in 1..n : total.rows[k][i].uid = <<t[1], GroupOf(t[2])>>
      BY TrajectoriesAre
  <2>2. n \in 1..n
      BY <2>1
  <2> QED
      BY <2>1, <2>2 DEF Placed
<1>2. /\ output[a + n].episodeReward = total.reward[k] /\ output[a + n].uid = total.rows[k][n].uid
      /\ output[a + n].won = total.rows[k][n].won
  <2>1. \A label : LET out == RowOf(k, n, label)
                    IN  /\ out.episodeReward = total.reward[k]
                        /\ out.uid = total.rows[k][n].uid /\ out.won = total.rows[k][n].won
      BY DEF RowOf
  <2> HIDE DEF a, n
  <2> QED
      BY <1>1, <2>1
<1> HIDE DEF t, a, n
<1> DEFINE S == (a + 1)..(a + n)
<1>3. /\ S \in SUBSET Int /\ S # {} /\ IsFiniteSet(S) /\ Cardinality(S) = n
  <2>1. a + 1 \in Int /\ a + n \in Int /\ a + 1 <= a + n
      BY <1>1
  <2>2. IsFiniteSet(S) /\ Cardinality(S) = (a + n) - (a + 1) + 1
      BY <2>1, FS_Interval
  <2>3. S # {} /\ S \in SUBSET Int
      BY <2>1
  <2>4. (a + n) - (a + 1) + 1 = n
      BY <1>1
  <2> QED
      BY <2>2, <2>3, <2>4
<1>4. Min(S) = a + 1
  <2>1. Min(S) \in S /\ \A x \in S : Min(S) <= x
    <3> HIDE DEF S
    <3> QED
        BY <1>3, MinIs
  <2>2. a + 1 \in S
      BY <1>1
  <2> QED
      BY <1>1, <2>1, <2>2
<1>5. Max(S) = a + n
  <2>1. Max(S) \in S /\ \A x \in S : x <= Max(S)
    <3> HIDE DEF S
    <3> QED
        BY <1>3, MaxIs
  <2>2. a + n \in S
      BY <1>1
  <2> QED
      BY <1>1, <2>1, <2>2
<1>6. RowsOf(t) = S
    BY <1>1
<1> HIDE DEF S
<1>7. LastRow(t) = output[a + n]
    BY <1>5, <1>6, Zenon DEF LastRow
<1>8. RewardOf(t) = total.reward[k] /\ UidOf(t) = <<t[1], GroupOf(t[2])>>
      /\ LastRow(t).won = total.rows[k][n].won
    BY <1>1, <1>2, <1>7 DEF RewardOf, UidOf
<1>9. Min(RowsOf(t)) = a + 1 /\ Max(RowsOf(t)) = a + n /\ Cardinality(RowsOf(t)) = n
    BY <1>3, <1>4, <1>5, <1>6
<1> QED
    BY <1>1, <1>8, <1>9 DEF t, a, n

LEMMA ListsOf ==
    ASSUME Ended, NEW t \in Trajs
    PROVE  \E k \in 1..Len(total.rows) : t = total.traj[k] /\ \E start : Placed(start, k)
<1>1. PICK k \in 1..Len(total.rows) : t = total.traj[k]
    BY OutputIs
<1>2. \E start : Placed(start, k)
    BY OutputIs
<1> QED
    BY <1>1, <1>2

\* Cardinality of what is said of the trajectories, list position by position.
LEMMA TrajsAre ==
    ASSUME Ended, NEW S \in SUBSET (1..Len(total.rows))
    PROVE  /\ IsFiniteSet({total.traj[k] : k \in S})
           /\ Cardinality({total.traj[k] : k \in S}) = Cardinality(S)
<1>1. IsFiniteSet(S)
  <2>1. IsFiniteSet(1..Len(total.rows))
    <3>1. 1 \in Int /\ Len(total.rows) \in Int
        BY TrajectoriesAre
    <3> QED
        BY <3>1, FS_Interval
  <2> QED
      BY <2>1, FS_Subset
<1>2. \A j, k \in S : total.traj[j] = total.traj[k] => j = k
    BY TrajectoriesAre
<1> QED
    BY <1>1, <1>2, OneToOne

LEMMA HowMany ==
    ASSUME Ended
    PROVE  Cardinality(Trajs) = Len(total.rows)
<1> DEFINE n == Len(total.rows)
<1>1. Trajs = {total.traj[k] : k \in 1..n}
    BY OutputIs
<1>2. Cardinality(1..n) = n
  <2>1. n \in Nat
      BY TrajectoriesAre
  <2> QED
      BY <2>1, FS_Interval
<1>3. Cardinality({total.traj[k] : k \in 1..n}) = Cardinality(1..n)
    BY TrajsAre
<1> QED
    BY <1>1, <1>2, <1>3

LEMMA WholeAtTheEnd == Ended => OutputWhole
<1> SUFFICES ASSUME Ended, NEW t \in Trajs
             PROVE  LET mine == RowsOf(t)
                        first == Min(mine)
                    IN  /\ mine = first..(first + Cardinality(mine) - 1)
                        /\ \A i \in mine :
                              /\ output[i].step = i - first
                              /\ output[i].episodeLength = Cardinality(mine)
                              /\ output[i].episodeReward = SumFunction([j \in mine |-> output[j].reward])
    BY DEF OutputWhole
<1>1. PICK k \in 1..Len(total.rows) : t = total.traj[k] /\ \E start : Placed(start, k)
    BY ListsOf
<1>2. PICK start : Placed(start, k)
    BY <1>1
<1> DEFINE a == start[k]
           n == total.length[k]
           mine == RowsOf(t)
           rewards == [j \in mine |-> output[j].reward]
           f == [i \in 1..n |-> total.rows[k][i].reward]
<1>3. /\ a \in Nat /\ n \in Nat \ {0} /\ mine = (a + 1)..(a + n)
      /\ Min(mine) = a + 1 /\ Cardinality(mine) = n
    BY <1>1, <1>2, PlacedIs
<1>4. /\ total.reward[k] = SumFunctionOnSet(f, 1..n)
      /\ \A i \in 1..n : total.rows[k][i].step = i - 1 /\ total.rows[k][i].reward \in Int
  <2>1. Whole(k) /\ \A i \in 1..n : total.rows[k][i].step = i - 1 /\ total.rows[k][i].reward \in Int
      BY TrajectoriesAre
  <2>2. total.reward[k] = SumFunctionOnSet(f, 1..n)
      BY <2>1 DEF Whole, Earned
  <2> QED
      BY <2>1, <2>2
<1>5. \A i \in 1..n : /\ output[a + i].step = total.rows[k][i].step
                      /\ output[a + i].reward = total.rows[k][i].reward
                      /\ output[a + i].episodeLength = n
                      /\ output[a + i].episodeReward = total.reward[k]
  <2> TAKE i \in 1..n
  <2>1. output[a + i] = RowOf(k, i, total.reward[k] > 0 /\ i = n)
      BY <1>2 DEF Placed
  <2> QED
      BY <2>1 DEF RowOf
<1>6. \A i \in 1..n : f[i] = total.rows[k][i].reward
    OBVIOUS
<1>7. SumFunction(rewards) = SumFunctionOnSet(rewards, mine)
    BY DEF SumFunction
<1>8. \A j \in mine : rewards[j] = output[j].reward
    OBVIOUS
<1> HIDE DEF a, n, f, rewards, mine
<1>9. \A i \in 1..n : a + i \in mine
    BY <1>3
<1>10. \A i \in 1..n : f[i] \in Int /\ rewards[a + i] = f[i]
    BY <1>4, <1>5, <1>6, <1>8, <1>9
<1>11. SumFunctionOnSet(rewards, (a + 1)..(a + n)) = SumFunctionOnSet(f, 1..n)
  <2>1. a \in Nat /\ n \in Nat
      BY <1>3
  <2> QED
      BY <1>10, <2>1, SumShifted, ZenonT(60)
<1>12. SumFunction(rewards) = total.reward[k]
    BY <1>3, <1>4, <1>7, <1>11
<1>13. mine = (a + 1)..((a + 1) + n - 1)
  <2>1. (a + 1) + n - 1 = a + n
      BY <1>3
  <2> QED
      BY <1>3, <2>1
<1>14. ASSUME NEW p \in mine
       PROVE  /\ output[p].step = p - (a + 1) /\ output[p].episodeLength = n
              /\ output[p].episodeReward = SumFunction(rewards)
  <2>1. PICK i \in 1..n : p = a + i
    <3>1. p - a \in 1..n /\ p = a + (p - a)
        BY <1>3
    <3> QED
        BY <3>1
  <2>2. i - 1 = p - (a + 1)
      BY <1>3, <2>1
  <2> QED
      BY <1>4, <1>5, <1>12, <2>1, <2>2
<1>15. /\ mine = Min(mine)..(Min(mine) + Cardinality(mine) - 1)
       /\ \A p \in mine : /\ output[p].step = p - Min(mine) /\ output[p].episodeLength = Cardinality(mine)
                          /\ output[p].episodeReward = SumFunction(rewards)
    BY <1>3, <1>13, <1>14
<1> QED
    BY <1>15 DEF mine, rewards

LEMMA LabelledAtTheEnd == Ended => SuccessLabelled
<1> SUFFICES ASSUME Ended
             PROVE  LabelsOfOutput /\ RateOfOutput
    BY DEF SuccessLabelled
<1>1. LabelsOfOutput
  <2> SUFFICES ASSUME NEW t \in Trajs, NEW p \in RowsOf(t)
               PROVE  output[p].success <=> RewardOf(t) > 0 /\ p = Max(RowsOf(t))
      BY DEF LabelsOfOutput
  <2>1. PICK k \in 1..Len(total.rows) : t = total.traj[k] /\ \E start : Placed(start, k)
      BY ListsOf
  <2>2. PICK start : Placed(start, k)
      BY <2>1
  <2> DEFINE a == start[k]
             n == total.length[k]
  <2>3. /\ a \in Nat /\ n \in Nat \ {0} /\ RowsOf(t) = (a + 1)..(a + n)
        /\ Max(RowsOf(t)) = a + n /\ RewardOf(t) = total.reward[k]
      BY <2>1, <2>2, PlacedIs
  <2>4. \A i \in 1..n : output[a + i] = RowOf(k, i, total.reward[k] > 0 /\ i = n)
      BY <2>2 DEF Placed
  <2> HIDE DEF a, n
  <2>5. PICK i \in 1..n : p = a + i
    <3>1. p - a \in 1..n /\ p = a + (p - a)
        BY <2>3
    <3> QED
        BY <3>1
  <2>6. output[p].success = (total.reward[k] > 0 /\ i = n)
    <3>1. output[p] = RowOf(k, i, total.reward[k] > 0 /\ i = n)
        BY <2>4, <2>5
    <3> QED
        BY <3>1 DEF RowOf
  <2>7. i = n <=> p = Max(RowsOf(t))
      BY <2>3, <2>5
  <2> QED
      BY <2>3, <2>6, <2>7
<1>2. RateOfOutput
  <2> DEFINE n == Len(total.rows)
             S == {k \in 1..n : AllWon[k]}
  <2>1. /\ n \in Nat /\ AllWon \in Seq(BOOLEAN) /\ Len(AllWon) = n
        /\ \A k \in 1..n : AllWon[k] = total.rows[k][total.length[k]].won
        /\ rates[SuccessRate] = Rate(AllWon)
      BY TrajectoriesAre DEF Ended, RolloutInv, SuccessInv, DoneInv
  <2>2. Rate(AllWon) = <<Cardinality(S), n>>
    <3>1. DOMAIN AllWon = 1..n
        BY <2>1
    <3> QED
        BY <2>1, <3>1 DEF Rate
  <2>3. {t \in Trajs : LastRow(t).won} = {total.traj[k] : k \in S}
    <3>1. Trajs = {total.traj[k] : k \in 1..n}
        BY OutputIs
    <3>2. \A k \in 1..n : LastRow(total.traj[k]).won = AllWon[k]
      <4> TAKE k \in 1..n
      <4>1. PICK start : Placed(start, k)
          BY OutputIs
      <4>2. LastRow(total.traj[k]).won = total.rows[k][total.length[k]].won
          BY <4>1, PlacedIs
      <4> QED
          BY <2>1, <4>2
    <3> QED
        BY <3>1, <3>2
  <2>4. Cardinality({total.traj[k] : k \in S}) = Cardinality(S)
    <3>1. S \in SUBSET (1..n)
        OBVIOUS
    <3> HIDE DEF S
    <3> QED
        BY <3>1, TrajsAre
  <2>5. Cardinality(Trajs) = n
      BY HowMany
  <2> HIDE DEF S
  <2> QED
      BY <2>1, <2>2, <2>3, <2>4, <2>5 DEF RateOfOutput
<1> QED
    BY <1>1, <1>2

LEMMA GroupsAtTheEnd == Ended => GroupsWhole
<1> SUFFICES ASSUME Ended, NEW t \in Trajs
             PROVE  LET mates == {s \in Trajs : UidOf(s) = UidOf(t)}
                    IN  /\ Cardinality(mates) = GroupN
                        /\ (FilterGroups /\ UidOf(t)[1] < MaxTries)
                               => \E s \in mates : RewardOf(s) # RewardOf(t)
    BY DEF GroupsWhole
<1> DEFINE n == Len(total.rows)
           mates == {s \in Trajs : UidOf(s) = UidOf(t)}
<1>1. Trajs = {total.traj[k] : k \in 1..n}
    BY OutputIs
<1>2. \A k \in 1..n : /\ UidOf(total.traj[k]) = <<total.traj[k][1], GroupOf(total.traj[k][2])>>
                      /\ RewardOf(total.traj[k]) = total.reward[k]
  <2> TAKE k \in 1..n
  <2>1. PICK start : Placed(start, k)
      BY OutputIs
  <2> QED
      BY <2>1, PlacedIs
<1>3. \A k \in 1..n : Whole(k) /\ InGroup(k) /\ total.traj[k] \in Nat \X Nat
    BY TrajectoriesAre
<1>4. PICK k \in 1..n : t = total.traj[k]
    BY <1>1
<1>5. PICK x, e : t = <<x, e>> /\ x \in Nat /\ e \in Envs
  <2>1. t \in Nat \X Nat /\ t[2] \in Envs
      BY <1>3, <1>4 DEF Whole
  <2> QED
      BY <2>1
<1>6. config \in Configs
    BY DEF Ended, RolloutInv, TypeInv
<1>7. UidOf(t) = <<x, GroupOf(e)>>
  <2>1. t[1] = x /\ t[2] = e
      BY <1>5
  <2>2. UidOf(t) = <<t[1], GroupOf(t[2])>>
      BY <1>2, <1>4
  <2> QED
      BY <2>1, <2>2
<1>8. InGroup(k)
    BY <1>3
<1>9. Cardinality(mates) = GroupN
  <2> DEFINE M == Members(GroupOf(e))
             f == [d \in M |-> <<x, d>>]
  <2>1. IsFiniteSet(M) /\ Cardinality(M) = GroupN /\ M = {d \in Envs : GroupOf(d) = GroupOf(e)}
      BY <1>5, <1>6, SameGroup
  <2> HIDE DEF M
  <2>2. \A c, d \in M : f[c] = f[d] => c = d
      OBVIOUS
  <2>3. mates = {f[d] : d \in M}
    <3>1. ASSUME NEW s \in mates
          PROVE  \E d \in M : s = f[d]
      <4>1. PICK j \in 1..n : s = total.traj[j]
          BY <1>1
      <4>2. s \in Nat \X Nat /\ s[2] \in Envs
          BY <1>3, <4>1 DEF Whole
      <4>3. UidOf(s) = <<s[1], GroupOf(s[2])>> /\ UidOf(s) = UidOf(t)
          BY <1>2, <4>1
      <4>4. s[1] = x /\ GroupOf(s[2]) = GroupOf(e)
          BY <1>7, <4>3
      <4>5. s[2] \in M
          BY <2>1, <4>2, <4>4
      <4>6. s = <<x, s[2]>>
          BY <4>2, <4>4
      <4> QED
          BY <4>5, <4>6
    <3>2. ASSUME NEW d \in M
          PROVE  f[d] \in mates
      <4>1. d \in Envs /\ GroupOf(d) = GroupOf(e)
          BY <2>1
      <4>2. PICK j \in 1..n : total.traj[j] = <<x, d>>
          BY <1>4, <1>5, <1>8, <4>1 DEF InGroup
      <4>3. UidOf(total.traj[j]) = <<x, GroupOf(d)>>
          BY <1>2, <4>2
      <4>4. total.traj[j] \in Trajs /\ UidOf(total.traj[j]) = UidOf(t)
          BY <1>1, <1>7, <4>1, <4>3
      <4>5. f[d] = total.traj[j]
          BY <4>2
      <4> QED
          BY <4>4, <4>5
    <3> QED
        BY <3>1, <3>2
  <2> HIDE DEF f
  <2>4. Cardinality({f[d] : d \in M}) = Cardinality(M)
      BY <2>1, <2>2, OneToOne
  <2> QED
      BY <2>1, <2>3, <2>4
<1>10. ASSUME FilterGroups, UidOf(t)[1] < MaxTries
       PROVE  \E s \in mates : RewardOf(s) # RewardOf(t)
  <2>1. total.traj[k][1] < MaxTries
      BY <1>4, <1>5, <1>7, <1>10
  <2>2. PICK j \in 1..n : Mates(j, k) /\ total.reward[j] # total.reward[k]
      BY <1>8, <1>10, <2>1 DEF InGroup
  <2>3. UidOf(total.traj[j]) = UidOf(t)
      BY <1>2, <1>4, <2>2 DEF Mates
  <2>4. total.traj[j] \in mates /\ RewardOf(total.traj[j]) # RewardOf(t)
      BY <1>1, <1>2, <1>4, <2>2, <2>3
  <2> QED
      BY <2>4
<1> QED
    BY <1>9, <1>10

LEMMA TargetAtTheEnd == Ended => TargetMet
<1> SUFFICES ASSUME Ended
             PROVE  /\ Cardinality(Trajs) >= B
                    /\ Cardinality(Trajs) <= IF FilterGroups THEN 2 * B - GroupN ELSE B
    BY DEF TargetMet
<1>1. TypeInv /\ CountInv /\ DoneInv /\ pc = "done"
    BY DEF Ended, RolloutInv
<1>2. B \in Nat /\ Cardinality(Trajs) = Len(total.rows)
    BY <1>1, ConfigIs, HowMany DEF TypeInv
<1>3. CASE FilterGroups
    BY <1>1, <1>2, <1>3 DEF CountInv, DoneInv
<1>4. CASE ~FilterGroups
    BY <1>1, <1>2, <1>4 DEF CountInv, DoneInv
<1> QED
    BY <1>3, <1>4

-----------------------------------------------------------------------------
(* The theorems *)

LEMMA AtTheEnd == RolloutInv => OutputWhole /\ SuccessLabelled /\ GroupsWhole /\ TargetMet
<1>1. CASE pc = "done"
  <2>1. RolloutInv => Ended
      BY <1>1 DEF Ended
  <2> QED
      BY <2>1, WholeAtTheEnd, LabelledAtTheEnd, GroupsAtTheEnd, TargetAtTheEnd
<1>2. CASE pc # "done"
    BY <1>2 DEF OutputWhole, SuccessLabelled, GroupsWhole, TargetMet
<1> QED
    BY <1>1, <1>2

\* Every trajectory handed to training is whole: its rows are its steps in
\* their order, as many as its episode length, and their rewards add up to
\* its episode reward (vanilla_multi_turn_loop's masks, filter_group_data
\* and gather_rollout_data together).
THEOREM OutputAlwaysWhole == Spec => []OutputWhole
  BY AlwaysRolloutInv, AtTheEnd, PTL

\* gather_rollout_data labels the last active row of each rewarded
\* trajectory and no other, and the success rate reported is that of the
\* trajectories it hands over.
THEOREM SuccessAlwaysLabelled == Spec => []SuccessLabelled
  BY AlwaysRolloutInv, AtTheEnd, PTL

\* Every group handed to training has its GroupN trajectories, and one that
\* a filtered try kept has two rewards at least (filter_group_data).
THEOREM GroupsAlwaysWhole == Spec => []GroupsWhole
  BY AlwaysRolloutInv, AtTheEnd, PTL

\* Training gets as many trajectories as it asked for, and under dynamic
\* sampling fewer than twice as many (dynamic_multi_turn_loop).
THEOREM TargetAlwaysMet == Spec => []TargetMet
  BY AlwaysRolloutInv, AtTheEnd, PTL

=============================================================================
