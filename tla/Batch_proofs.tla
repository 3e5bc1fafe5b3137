---------------------------- MODULE Batch_proofs ----------------------------
(***************************************************************************)
(* Proofs about Batch, for every number of ranks, every batch and every    *)
(* set of settings that passes the workers' assertions.  First what the    *)
(* balancing of Balance and the cuts of DataProto make of any rows, then   *)
(* the invariant JobInv of the job (which rows are where, between calls    *)
(* and within one), and on top of it TrainedInv (what the ranks have       *)
(* trained on), RecipeInv (which advantages the rows have, and so which    *)
(* are paid more) and LoadsInv (how even the ranks' loads are).            *)
(***************************************************************************)
EXTENDS Batch, DataLemmas, SequenceTheorems, TLAPS

-----------------------------------------------------------------------------
(* Ordered *)

\* R relates any two elements of S one way at least, and is transitive.
Orders(R, S) ==
    /\ \A x, y \in S : x # y => <<x, y>> \in R \/ <<y, x>> \in R
    /\ \A x, y, z \in S : <<x, y>> \in R /\ <<y, z>> \in R => <<x, z>> \in R

\* A finite ordered set has a first element.
LEMMA FirstOf ==
    ASSUME NEW S, IsFiniteSet(S), NEW R, Orders(R, S), NEW T \in SUBSET S, T # {}
    PROVE  \E x \in T : \A y \in T \ {x} : <<x, y>> \in R
<1> DEFINE G == {V \in SUBSET T : V = {} \/ \E x \in V : \A y \in V \ {x} : <<x, y>> \in R}
<1>1. IsFiniteSet(T)
    BY FS_Subset
<1>2. {} \in G /\ G \in SUBSET SUBSET T
    OBVIOUS
<1>3. ASSUME NEW V \in G, NEW x \in T \ V
      PROVE  V \cup {x} \in G
  <2>1. CASE V = {}
      BY <2>1
  <2>2. CASE V # {}
    <3>1. PICK z \in V : \A y \in V \ {z} : <<z, y>> \in R
        BY <2>2
    <3>2. x \in S /\ z \in S /\ x # z /\ V \subseteq S
        BY <1>2
    <3>3. CASE <<z, x>> \in R
      <4>1. \A y \in (V \cup {x}) \ {z} : <<z, y>> \in R
          BY <3>1, <3>3
      <4> QED
          BY <4>1
    <3>4. CASE <<x, z>> \in R
      <4>1. \A y \in (V \cup {x}) \ {x} : <<x, y>> \in R
        <5> TAKE y \in (V \cup {x}) \ {x}
        <5>1. y \in V /\ y \in S
            BY <3>2
        <5>2. y = z \/ <<z, y>> \in R
            BY <3>1, <5>1
        <5> QED
            BY <3>2, <3>4, <5>1, <5>2 DEF Orders
      <4> QED
          BY <4>1
    <3> QED
        BY <3>2, <3>3, <3>4 DEF Orders
  <2> QED
      BY <2>1, <2>2
<1>4. T \in G
  <2> HIDE DEF G
  <2> QED
      BY <1>1, <1>2, <1>3, SetInduction
<1> QED
    BY <1>4

\* first[n] is the first n elements of S.
Firsts(first, S, R, k) ==
    first = [n \in 0..k |->
                IF n = 0 THEN << >>
                ELSE LET taken == first[n - 1]
                         left == S \ ToSet(taken)
                     IN  Append(taken, CHOOSE x \in left : \A y \in left \ {x} : <<x, y>> \in R)]

FirstLeft(taken, S, R) ==
    LET left == S \ ToSet(taken)
    IN  Append(taken, CHOOSE x \in left : \A y \in left \ {x} : <<x, y>> \in R)

LEMMA SomethingFirsts ==
    ASSUME NEW S, NEW R, NEW k \in Nat
    PROVE  \E first : Firsts(first, S, R, k)
<1> DEFINE is(first, n) == first = [m \in 0..n |-> IF m = 0 THEN << >> ELSE FirstLeft(first[m - 1], S, R)]
           N == {n \in Nat : \E first : is(first, n)}
<1>1. 0 \in N
  <2> DEFINE first == [m \in 0..0 |-> << >>]
  <2>1. is(first, 0)
      OBVIOUS
  <2> QED
      BY <2>1
<1>2. ASSUME NEW n \in N
      PROVE  n + 1 \in N
  <2>1. PICK first : is(first, n)
      OBVIOUS
  <2> DEFINE next == [m \in 0..(n + 1) |-> IF m = 0 THEN << >> ELSE FirstLeft(first[m - 1], S, R)]
  <2>2. \A m \in 0..n : first[m] = IF m = 0 THEN << >> ELSE FirstLeft(first[m - 1], S, R)
      BY <2>1
  <2>3. n \in Nat /\ \A m \in 0..n : next[m] = first[m]
      BY <2>2
  <2>4. \A m \in 0..(n + 1) : m # 0 => next[m - 1] = first[m - 1]
    <3>1. \A m \in 0..(n + 1) : m # 0 => m - 1 \in 0..n
        BY <2>3
    <3> QED
        BY <2>3, <3>1
  <2>5. next = [m \in 0..(n + 1) |-> IF m = 0 THEN << >> ELSE FirstLeft(next[m - 1], S, R)]
      BY <2>4
  <2> HIDE DEF next
  <2>6. is(next, n + 1)
      BY <2>5
  <2>7. \E f : is(f, n + 1)
      BY <2>6
  <2> HIDE DEF is
  <2> QED
      BY <2>3, <2>7
<1>3. \A n \in Nat : n \in N
  <2> HIDE DEF N
  <2>1. N \in SUBSET Nat
      BY DEF N
  <2> QED
      BY <1>1, <1>2, <2>1, Induction
<1>4. PICK first : is(first, k)
    BY <1>3
<1> QED
    BY <1>4 DEF Firsts, FirstLeft

\* Ordered lists every element of the set once, first what comes before.
LEMMA OrderedIs ==
    ASSUME NEW S, IsFiniteSet(S), NEW R, Orders(R, S)
    PROVE  /\ Ordered(S, R) \in [1..Cardinality(S) -> S]
           /\ \A x \in S : \E i \in 1..Cardinality(S) : Ordered(S, R)[i] = x
           /\ \A i, j \in 1..Cardinality(S) : Ordered(S, R)[i] = Ordered(S, R)[j] => i = j
           /\ \A i, j \in 1..Cardinality(S) : i < j => <<Ordered(S, R)[i], Ordered(S, R)[j]>> \in R
<1> DEFINE k == Cardinality(S)
           first == CHOOSE first : Firsts(first, S, R, k)
<1>1. k \in Nat
    BY FS_CardinalityType
<1>2. Firsts(first, S, R, k)
    BY <1>1, SomethingFirsts
<1>3. Ordered(S, R) = first[k]
    BY Zenon DEF Ordered, Firsts
<1> HIDE DEF first, k
<1>4. \A n \in 0..k : first[n] = IF n = 0 THEN << >> ELSE FirstLeft(first[n - 1], S, R)
    BY <1>2 DEF Firsts, FirstLeft
<1> DEFINE Good(s, n) == /\ s \in [1..n -> S]
                         /\ \A i, j \in 1..n : s[i] = s[j] => i = j
                         /\ IsFiniteSet(ToSet(s)) /\ Cardinality(ToSet(s)) = n
                         /\ \A i, j \in 1..n : i < j => <<s[i], s[j]>> \in R
                         /\ \A i \in 1..n : \A y \in S \ ToSet(s) : <<s[i], y>> \in R
           N == {n \in Nat : n <= k => Good(first[n], n)}
<1>5. 0 \in N
  <2>1. first[0] = << >>
      BY <1>1, <1>4
  <2>2. ToSet(<< >>) = {}
      BY DEF ToSet
  <2>3. IsFiniteSet({}) /\ Cardinality({}) = 0
      BY FS_EmptySet
  <2>4. /\ << >> \in [1..0 -> S] /\ \A i, j \in 1..0 : << >>[i] = << >>[j] => i = j
        /\ \A i \in 1..0 : FALSE
    <3>1. \A i \in 1..0 : FALSE
        OBVIOUS
    <3>2. << >> = [i \in 1..0 |-> << >>[i]]
        BY <3>1
    <3> QED
        BY <3>1, <3>2
  <2>5. Good(<< >>, 0)
      BY <2>2, <2>3, <2>4
  <2> HIDE DEF Good
  <2>6. Good(first[0], 0)
      BY <2>1, <2>5
  <2> QED
      BY <2>6
<1>6. ASSUME NEW n \in N
      PROVE  n + 1 \in N
  <2> HIDE DEF Good
  <2> SUFFICES ASSUME n + 1 <= k
               PROVE  Good(first[n + 1], n + 1)
      OBVIOUS
  <2> DEFINE taken == first[n]
             left == S \ ToSet(taken)
             x == CHOOSE x \in left : \A y \in left \ {x} : <<x, y>> \in R
             next == first[n + 1]
  <2>1. n \in Nat /\ Good(taken, n)
      BY <1>1
  <2>2. next = Append(taken, x)
    <3>1. n + 1 \in 0..k /\ n + 1 # 0 /\ (n + 1) - 1 = n
        BY <1>1, <2>1
    <3> HIDE DEF N
    <3> QED
        BY <1>4, <3>1, Zenon DEF FirstLeft
  <2> USE DEF Good
  <2>3. x \in left /\ \A y \in left \ {x} : <<x, y>> \in R
    <3>1. left # {}
      <4>1. CASE left = {}
        <5>1. ToSet(taken) = S
            BY <2>1, <4>1 DEF ToSet
        <5> QED
            BY <1>1, <2>1, <5>1 DEF k
      <4> QED
          BY <4>1
    <3>2. left \in SUBSET S
        OBVIOUS
    <3> HIDE DEF left
    <3>3. \E y \in left : \A z \in left \ {y} : <<y, z>> \in R
        BY <3>1, <3>2, FirstOf
    <3> QED
        BY <3>3
  <2> HIDE DEF x, taken, next
  <2>4. taken \in Seq(S) /\ Len(taken) = n /\ DOMAIN taken = 1..n
      BY <2>1
  <2>5. DOMAIN next = 1..(n + 1) /\ next[n + 1] = x /\ \A i \in 1..n : next[i] = taken[i]
      BY <2>1, <2>2, <2>3, <2>4
  <2>6. next \in [1..(n + 1) -> S]
    <3>1. next \in Seq(S) /\ Len(next) = n + 1
        BY <2>1, <2>2, <2>3, <2>4
    <3> QED
        BY <3>1
  <2>7. ToSet(next) = ToSet(taken) \cup {x}
    <3>1. \A i \in 1..(n + 1) : i \in 1..n \/ i = n + 1
        BY <2>1
    <3>2. \A i \in 1..n : i \in 1..(n + 1)
        BY <2>1
    <3>3. n + 1 \in 1..(n + 1)
        BY <2>1
    <3> QED
        BY <2>4, <2>5, <3>1, <3>2, <3>3 DEF ToSet
  <2>8. x \notin ToSet(taken)
      BY <2>3
  <2>9. IsFiniteSet(ToSet(next)) /\ Cardinality(ToSet(next)) = n + 1
    <3> DEFINE D == ToSet(taken)
    <3>1. IsFiniteSet(D) /\ Cardinality(D) = n /\ x \notin D
        BY <2>1, <2>8
    <3> HIDE DEF D
    <3>2. IsFiniteSet(D \cup {x}) /\ Cardinality(D \cup {x}) = n + 1
        BY <3>1, FS_AddElement
    <3> QED
        BY <2>7, <3>2 DEF D
  <2>10. \A i, j \in 1..(n + 1) : next[i] = next[j] => i = j
    <3>1. \A i \in 1..(n + 1) : i \in 1..n \/ i = n + 1
        BY <2>1
    <3>2. \A i \in 1..n : next[i] # x
        BY <2>4, <2>5, <2>8 DEF ToSet
    <3>3. \A i, j \in 1..n : next[i] = next[j] => i = j
        BY <2>1, <2>5
    <3> QED
        BY <2>5, <3>1, <3>2, <3>3
  <2>11. \A i \in 1..(n + 1) : \A y \in S \ ToSet(next) : <<next[i], y>> \in R
    <3>1. \A i \in 1..(n + 1) : i \in 1..n \/ i = n + 1
        BY <2>1
    <3>2. \A y \in S \ ToSet(next) : y \in S \ ToSet(taken) /\ y \in left \ {x}
        BY <2>7
    <3>3. \A i \in 1..n : \A y \in S \ ToSet(taken) : <<taken[i], y>> \in R
        BY <2>1
    <3> QED
        BY <2>3, <2>5, <3>1, <3>2, <3>3
  <2>12. \A i, j \in 1..(n + 1) : i < j => <<next[i], next[j]>> \in R
    <3>1. \A i, j \in 1..(n + 1) : i < j => i \in 1..n /\ (j \in 1..n \/ j = n + 1)
        BY <2>1
    <3>2. \A i, j \in 1..n : i < j => <<taken[i], taken[j]>> \in R
        BY <2>1
    <3>3. \A i \in 1..n : <<taken[i], x>> \in R
        BY <2>1, <2>3
    <3> QED
        BY <2>5, <3>1, <3>2, <3>3
  <2> QED
      BY <2>6, <2>9, <2>10, <2>11, <2>12 DEF next
<1>7. \A n \in Nat : n \in N
  <2> HIDE DEF N
  <2>1. N \in SUBSET Nat
      BY DEF N
  <2> QED
      BY <1>5, <1>6, <2>1, Induction
<1>8. Good(first[k], k)
  <2>1. k \in N /\ k <= k
      BY <1>1, <1>7
  <2> QED
      BY <2>1
<1>9. ToSet(first[k]) = S
  <2>1. ToSet(first[k]) \subseteq S
      BY <1>8 DEF ToSet
  <2> QED
      BY <1>8, <2>1, FS_Subset DEF k
<1>10. \A x \in S : \E i \in 1..k : first[k][i] = x
    BY <1>8, <1>9 DEF ToSet
<1> QED
    BY <1>3, <1>8, <1>10 DEF k

-----------------------------------------------------------------------------
(* Karmarkar and Karp *)

LEMMA Interval ==
    ASSUME NEW n \in Nat
    PROVE  IsFiniteSet(1..n) /\ Cardinality(1..n) = n
  BY FS_Interval

LEMMA WeightIs ==
    ASSUME NEW n \in Nat, NEW lens \in [1..n -> Nat], NEW S \in SUBSET (1..n)
    PROVE  Weight(lens, S) \in Int /\ Cardinality(S) \in Nat /\ IsFiniteSet(S)
<1>1. IsFiniteSet(S)
    BY Interval, FS_Subset
<1>2. \A x \in S : lens[x] \in Int
    OBVIOUS
<1> QED
    BY <1>1, <1>2, SumType, FS_CardinalityType DEF Weight

LEMMA PermutationIs ==
    ASSUME NEW k \in Nat, NEW R, Orders(R, 1..k)
    PROVE  /\ Ordered(1..k, R) \in [1..k -> 1..k]
           /\ \A x \in 1..k : \E i \in 1..k : Ordered(1..k, R)[i] = x
           /\ \A i, j \in 1..k : Ordered(1..k, R)[i] = Ordered(1..k, R)[j] => i = j
           /\ \A i, j \in 1..k : i < j => <<Ordered(1..k, R)[i], Ordered(1..k, R)[j]>> \in R
<1> DEFINE S == 1..k
<1>1. IsFiniteSet(S) /\ Cardinality(S) = k
    BY Interval
<1>2. Orders(R, S)
    OBVIOUS
<1> HIDE DEF S
<1>3. /\ Ordered(S, R) \in [1..k -> S]
      /\ \A x \in S : \E i \in 1..k : Ordered(S, R)[i] = x
      /\ \A i, j \in 1..k : Ordered(S, R)[i] = Ordered(S, R)[j] => i = j
      /\ \A i, j \in 1..k : i < j => <<Ordered(S, R)[i], Ordered(S, R)[j]>> \in R
    BY <1>1, <1>2, OrderedIs
<1> QED
    BY <1>3 DEF S

\* t is s in another order.
Rearranged(t, s, k) ==
    \E o \in [1..k -> 1..k] :
        /\ \A i, j \in 1..k : o[i] = o[j] => i = j
        /\ \A x \in 1..k : \E i \in 1..k : o[i] = x
        /\ \A i \in 1..k : t[i] = s[o[i]]

\* The parts of a state from heavy to light.
Descends(s, lens, k) ==
    \A i, j \in 1..k : i < j => Weight(lens, s[i]) >= Weight(lens, s[j])

\* Sorting the parts of a state loses none of them.
LEMMA SortedIs ==
    ASSUME NEW n \in Nat, NEW lens \in [1..n -> Nat], NEW k \in Nat \ {0},
           NEW s, DOMAIN s = 1..k, \A i \in 1..k : s[i] \in SUBSET (1..n)
    PROVE  /\ Sorted(lens, s) \in [1..k -> SUBSET (1..n)]
           /\ Rearranged(Sorted(lens, s), s, k)
           /\ Descends(Sorted(lens, s), lens, k)
<1> DEFINE w == [i \in 1..k |-> Weight(lens, s[i])]
           c == [i \in 1..k |-> Cardinality(s[i])]
           R == HeaviestFirst(lens, s)
           o == Ordered(1..k, R)
<1>1. \A i \in 1..k : w[i] \in Int /\ c[i] \in Int
    BY WeightIs
<1> DEFINE before(x, y) ==
               \/ w[x] > w[y] \/ (w[x] = w[y] /\ c[x] > c[y])
               \/ ~(w[y] > w[x] \/ (w[y] = w[x] /\ c[y] > c[x])) /\ x < y
<1>2. \A x, y \in 1..k : <<x, y>> \in R <=> before(x, y)
    BY DEF HeaviestFirst, Heavier
<1> HIDE DEF w, c, R
<1>3. Orders(R, 1..k)
  <2>1. ASSUME NEW x \in 1..k, NEW y \in 1..k, x # y
        PROVE  <<x, y>> \in R \/ <<y, x>> \in R
    <3>1. x \in Int /\ y \in Int /\ w[x] \in Int /\ w[y] \in Int /\ c[x] \in Int /\ c[y] \in Int
        BY <1>1
    <3>2. before(x, y) \/ before(y, x)
        BY SMTT(30), <2>1, <3>1
    <3> QED
        BY <1>2, <3>2
  <2>2. ASSUME NEW x \in 1..k, NEW y \in 1..k, NEW z \in 1..k, <<x, y>> \in R, <<y, z>> \in R
        PROVE  <<x, z>> \in R
    <3>1. /\ x \in Int /\ y \in Int /\ w[x] \in Int /\ w[y] \in Int /\ c[x] \in Int /\ c[y] \in Int
          /\ z \in Int /\ w[z] \in Int /\ c[z] \in Int
        BY <1>1
    <3>2. before(x, y) /\ before(y, z)
        BY <1>2, <2>2
    <3>3. before(x, z)
        BY SMTT(30), <3>1, <3>2
    <3> QED
        BY <1>2, <3>3
  <2> QED
      BY <2>1, <2>2 DEF Orders
<1>5. /\ o \in [1..k -> 1..k]
      /\ \A x \in 1..k : \E i \in 1..k : o[i] = x
      /\ \A i, j \in 1..k : o[i] = o[j] => i = j
      /\ \A i, j \in 1..k : i < j => <<o[i], o[j]>> \in R
    BY <1>3, PermutationIs
<1>6. Sorted(lens, s) = [i \in 1..k |-> s[o[i]]]
    BY DEF Sorted, R
<1> HIDE DEF o
<1>7. \A i \in 1..k : o[i] \in 1..k /\ s[o[i]] \in SUBSET (1..n)
    BY <1>5
<1>8. Sorted(lens, s) \in [1..k -> SUBSET (1..n)] /\ \A i \in 1..k : Sorted(lens, s)[i] = s[o[i]]
    BY <1>6, <1>7
<1>9. ASSUME NEW i \in 1..k, NEW j \in 1..k, i < j
      PROVE  Weight(lens, Sorted(lens, s)[i]) >= Weight(lens, Sorted(lens, s)[j])
  <2>1. before(o[i], o[j]) /\ o[i] \in 1..k /\ o[j] \in 1..k
      BY <1>2, <1>5, <1>9
  <2>2. w[o[i]] >= w[o[j]]
    <3> DEFINE x == o[i]
               y == o[j]
    <3>1. w[x] \in Int /\ w[y] \in Int /\ before(x, y)
        BY <1>1, <2>1
    <3> HIDE DEF x, y
    <3> QED
        BY <3>1 DEF x, y
  <2>3. w[o[i]] = Weight(lens, s[o[i]]) /\ w[o[j]] = Weight(lens, s[o[j]])
      BY <2>1 DEF w
  <2> QED
      BY <1>8, <2>2, <2>3
<1> QED
    BY <1>5, <1>8, <1>9 DEF Rearranged, Descends

\* The states split the rows 1..n: every row is in exactly one set of one
\* state, and no state is without rows.
Splits(states, n, k) ==
    /\ IsFiniteSet(states)
    /\ \A s \in states : s \in [1..k -> SUBSET (1..n)] /\ \E i \in 1..k : s[i] # {}
    /\ \A s, t \in states : \A i, j \in 1..k : \A x \in s[i] : x \in t[j] => s = t /\ i = j
    /\ \A x \in 1..n : \E s \in states : \E i \in 1..k : x \in s[i]

LEMMA PopIs ==
    ASSUME NEW n \in Nat, NEW lens \in [1..n -> Nat], NEW k \in Nat \ {0},
           NEW states, IsFiniteSet(states), states # {},
           \A s \in states : s \in [1..k -> SUBSET (1..n)]
    PROVE  PopFirst(lens, states) \in states
<1> DEFINE sp == [s \in states |-> Spread(lens, s)]
           w == [s \in states |-> Weight(lens, Head(s))]
           c == [s \in states |-> Cardinality(Head(s))]
           before(s, t) == \/ sp[s] > sp[t]
                           \/ sp[s] = sp[t] /\ ~(w[t] > w[s] \/ (w[t] = w[s] /\ c[t] > c[s]))
           R == {x \in states \X states : before(x[1], x[2])}
<1>1. \A s \in states : sp[s] \in Int /\ w[s] \in Int /\ c[s] \in Int
  <2> TAKE s \in states
  <2>1. s \in Seq(SUBSET (1..n)) /\ Len(s) = k /\ 1 \in 1..k /\ k \in 1..k
      OBVIOUS
  <2>2. Head(s) = s[1] /\ Last(s) = s[k]
      BY <2>1 DEF Last
  <2>3. Head(s) \in SUBSET (1..n) /\ Last(s) \in SUBSET (1..n)
      BY <2>1, <2>2
  <2>4. Weight(lens, Head(s)) \in Int /\ Weight(lens, Last(s)) \in Int /\ Cardinality(Head(s)) \in Int
      BY SMTT(30), <2>3, WeightIs
  <2> QED
      BY <2>4 DEF Spread
<1>2. \A s, t \in states : <<s, t>> \in R <=> before(s, t)
    OBVIOUS
<1>3. Orders(R, states)
  <2> HIDE DEF sp, w, c, R
  <2>1. ASSUME NEW s \in states, NEW t \in states
        PROVE  <<s, t>> \in R \/ <<t, s>> \in R
    <3>1. /\ sp[s] \in Int /\ w[s] \in Int /\ c[s] \in Int
          /\ sp[t] \in Int /\ w[t] \in Int /\ c[t] \in Int
        BY <1>1
    <3>2. before(s, t) \/ before(t, s)
        BY <3>1
    <3> QED
        BY <1>2, <3>2
  <2>2. ASSUME NEW s \in states, NEW t \in states, NEW u \in states, <<s, t>> \in R, <<t, u>> \in R
        PROVE  <<s, u>> \in R
    <3>1. /\ sp[s] \in Int /\ w[s] \in Int /\ c[s] \in Int
          /\ sp[t] \in Int /\ w[t] \in Int /\ c[t] \in Int
          /\ sp[u] \in Int /\ w[u] \in Int /\ c[u] \in Int
        BY <1>1
    <3>2. before(s, t) /\ before(t, u)
        BY <1>2, <2>2
    <3>3. before(s, u)
        BY SMTT(30), <3>1, <3>2
    <3> QED
        BY <1>2, <3>3
  <2> QED
      BY <2>1, <2>2 DEF Orders
<1>4. PICK s \in states : \A t \in states \ {s} : before(s, t)
  <2>1. states \in SUBSET states
      OBVIOUS
  <2> HIDE DEF R
  <2>2. \E s \in states : \A t \in states \ {s} : <<s, t>> \in R
      BY <1>3, <2>1, FirstOf
  <2> QED
      BY <1>2, <2>2
<1>5. \A t \in states : before(s, t)
  <2>1. before(s, s)
    <3>1. sp[s] \in Int /\ w[s] \in Int /\ c[s] \in Int
        BY <1>1
    <3> HIDE DEF sp, w, c
    <3> QED
        BY <3>1
  <2> QED
      BY <1>4, <2>1
<1>6. \A t \in states : \/ Spread(lens, s) > Spread(lens, t)
                        \/ Spread(lens, s) = Spread(lens, t) /\ ~Heavier(lens, Head(t), Head(s))
    BY <1>5 DEF Heavier
<1> QED
    BY <1>6 DEF PopFirst

\* The first part of s with the last one of t, and so on.
Paired(s, t, k) == [i \in 1..k |-> s[i] \cup t[k + 1 - i]]

\* Two of the states become one.
LEMMA MergedTwo ==
    ASSUME NEW n \in Nat, NEW lens \in [1..n -> Nat], NEW k \in Nat \ {0},
           NEW states, Splits(states, n, k), Cardinality(states) > 1
    PROVE  \E s, t \in states :
              /\ s # t
              /\ MergeTwo(lens, states) =
                    (states \ {s, t}) \cup {Sorted(lens, Paired(s, t, k))}
<1> DEFINE s == PopFirst(lens, states)
           t == PopFirst(lens, states \ {s})
<1>1. IsFiniteSet(states) /\ Cardinality(states) \in Nat
      /\ \A u \in states : u \in [1..k -> SUBSET (1..n)]
    BY FS_CardinalityType DEF Splits
<1>2. s \in states
  <2>1. states # {}
      BY <1>1, FS_EmptySet
  <2> QED
      BY <1>1, <2>1, PopIs
<1> HIDE DEF s
<1>3. IsFiniteSet(states \ {s}) /\ Cardinality(states \ {s}) = Cardinality(states) - 1
    BY <1>1, <1>2, FS_RemoveElement
<1>4. t \in states \ {s}
  <2> DEFINE left == states \ {s}
  <2>1. left # {} /\ IsFiniteSet(left) /\ \A u \in left : u \in [1..k -> SUBSET (1..n)]
      BY <1>1, <1>3, FS_EmptySet
  <2> HIDE DEF left
  <2>2. PopFirst(lens, left) \in left
      BY <2>1, PopIs
  <2> QED
      BY <2>2 DEF left
<1>5. DOMAIN s = 1..k /\ Len(s) = k
    BY <1>1, <1>2
<1>6. MergeTwo(lens, states) = (states \ {s, t}) \cup {MergeStates(lens, s, t)}
    BY DEF MergeTwo, s
<1> HIDE DEF t
<1>7. MergeStates(lens, s, t) = Sorted(lens, Paired(s, t, k))
    BY <1>5 DEF MergeStates, Paired
<1>8. t \in states /\ s # t
    BY <1>4
<1> QED
    BY <1>2, <1>6, <1>7, <1>8

\* A merge of two states keeps every item in one part of one state, and leaves one
\* state fewer.
LEMMA MergeIs ==
    ASSUME NEW n \in Nat, NEW lens \in [1..n -> Nat], NEW k \in Nat \ {0},
           NEW states, Splits(states, n, k), Cardinality(states) > 1
    PROVE  /\ Splits(MergeTwo(lens, states), n, k)
           /\ Cardinality(MergeTwo(lens, states)) = Cardinality(states) - 1
<1>1. IsFiniteSet(states) /\ Cardinality(states) \in Nat
      /\ \A u \in states : u \in [1..k -> SUBSET (1..n)]
    BY FS_CardinalityType DEF Splits
<1>2. PICK s, t \in states :
          /\ s # t
          /\ MergeTwo(lens, states) =
                (states \ {s, t}) \cup {Sorted(lens, Paired(s, t, k))}
    BY MergedTwo
<1> DEFINE both == Paired(s, t, k)
           new == Sorted(lens, both)
           rest == states \ {s, t}
<1>3. IsFiniteSet(states \ {s}) /\ Cardinality(states \ {s}) = Cardinality(states) - 1
    BY <1>1, FS_RemoveElement
<1>4. t \in states /\ t \in states \ {s}
    BY <1>2
<1>5. s \in [1..k -> SUBSET (1..n)] /\ t \in [1..k -> SUBSET (1..n)] /\ s # t
    BY <1>1, <1>4
<1>6. \A i \in 1..k : k + 1 - i \in 1..k /\ k + 1 - (k + 1 - i) = i
    OBVIOUS
<1>7. both \in [1..k -> SUBSET (1..n)]
  <2>1. \A i \in 1..k : s[i] \cup t[k + 1 - i] \in SUBSET (1..n)
      BY <1>5, <1>6
  <2> QED
      BY <2>1 DEF Paired
<1>8. MergeTwo(lens, states) = rest \cup {new}
    BY <1>2
<1>9. \A i \in 1..k : both[i] = s[i] \cup t[k + 1 - i]
    BY DEF Paired
<1> HIDE DEF both
<1>25. /\ new \in [1..k -> SUBSET (1..n)]
       /\ Rearranged(new, both, k)
  <2>1. DOMAIN both = 1..k /\ \A i \in 1..k : both[i] \in SUBSET (1..n)
      BY <1>7
  <2> QED
      BY <2>1, SortedIs
<1> HIDE DEF new
<1>10. PICK o \in [1..k -> 1..k] :
          /\ \A i, j \in 1..k : o[i] = o[j] => i = j
          /\ \A x \in 1..k : \E i \in 1..k : o[i] = x
          /\ \A i \in 1..k : new[i] = both[o[i]]
    BY <1>25 DEF Rearranged
<1>11. new \in [1..k -> SUBSET (1..n)] /\ \A i \in 1..k : new[i] = both[o[i]]
    BY <1>10, <1>25
<1>12. \A u \in states : \A i \in 1..k : \A x \in s[i] : \A j \in 1..k : x \in u[j] => u = s /\ i = j
    BY <1>2 DEF Splits
<1>13. \A u \in states : \A i \in 1..k : \A x \in t[i] : \A j \in 1..k : x \in u[j] => u = t /\ i = j
    BY <1>4 DEF Splits
<1>14. \A i \in 1..k : \A x \in both[i] : x \in s[i] \/ x \in t[k + 1 - i]
    BY <1>9
<1>15. \A i, j \in 1..k : \A x \in both[i] : x \in both[j] => i = j
  <2> SUFFICES ASSUME NEW i \in 1..k, NEW j \in 1..k, NEW x \in both[i], x \in both[j]
               PROVE  i = j
      OBVIOUS
  <2>1. CASE x \in s[i]
    <3>1. x \notin t[k + 1 - j]
        BY <1>4, <1>5, <1>6, <1>12, <2>1
    <3>2. x \in s[j]
        BY <1>14, <3>1
    <3> QED
        BY <1>2, <1>12, <2>1, <3>2
  <2>2. CASE x \in t[k + 1 - i]
    <3>1. x \notin s[j]
        BY <1>2, <1>5, <1>6, <1>13, <2>2
    <3>2. x \in t[k + 1 - j]
        BY <1>14, <3>1
    <3>3. k + 1 - i = k + 1 - j
      <4> DEFINE a == k + 1 - i
                 b == k + 1 - j
      <4>1. a \in 1..k /\ b \in 1..k /\ x \in t[a] /\ x \in t[b] /\ t \in states
          BY <1>4, <1>6, <2>2, <3>2
      <4> HIDE DEF a, b
      <4>2. a = b
          BY <1>13, <4>1
      <4> QED
          BY <4>2 DEF a, b
    <3> QED
        BY <3>3
  <2> QED
      BY <1>14, <2>1, <2>2
<1>16. ASSUME NEW u \in rest, NEW i \in 1..k, NEW j \in 1..k, NEW x \in both[i]
       PROVE  x \notin u[j]
  <2>1. u \in states /\ u # s /\ u # t
      OBVIOUS
  <2>2. CASE x \in s[i]
      BY <1>12, <2>1, <2>2
  <2>3. CASE x \in t[k + 1 - i]
    <3> DEFINE a == k + 1 - i
    <3>1. a \in 1..k /\ x \in t[a]
        BY <1>6, <2>3
    <3> HIDE DEF a
    <3> QED
        BY <1>13, <2>1, <3>1
  <2> QED
      BY <1>14, <2>2, <2>3
<1>17. \A u \in rest : \A i, j \in 1..k : \A x \in new[i] : x \notin u[j]
    BY <1>10, <1>11, <1>16
<1>18. \A i, j \in 1..k : \A x \in new[i] : x \in new[j] => i = j
  <2>1. \A i \in 1..k : o[i] \in 1..k
      BY <1>10
  <2> TAKE i, j \in 1..k
  <2> TAKE x \in new[i]
  <2> HAVE x \in new[j]
  <2>2. x \in both[o[i]] /\ x \in both[o[j]]
      BY <1>11
  <2>3. o[i] = o[j]
      BY <1>15, <2>1, <2>2
  <2> QED
      BY <1>10, <2>3
<1>19. \E i \in 1..k : new[i] # {}
  <2>1. PICK i \in 1..k : s[i] # {}
      BY <1>2 DEF Splits
  <2>2. both[i] # {}
      BY <1>9, <2>1
  <2>3. PICK j \in 1..k : o[j] = i
      BY <1>10
  <2> QED
      BY <1>11, <2>2, <2>3
<1>20. \A x \in 1..n : (\E i \in 1..k : x \in new[i]) \/ \E u \in rest : \E i \in 1..k : x \in u[i]
  <2> TAKE x \in 1..n
  <2>1. PICK u \in states : \E i \in 1..k : x \in u[i]
      BY DEF Splits
  <2>0. PICK i \in 1..k : x \in u[i]
      BY <2>1
  <2>2. CASE u = s
    <3>1. x \in both[i]
        BY <1>9, <2>0, <2>2
    <3>2. PICK j \in 1..k : o[j] = i
        BY <1>10
    <3> QED
        BY <1>11, <3>1, <3>2
  <2>3. CASE u = t
    <3>1. x \in both[k + 1 - i] /\ k + 1 - i \in 1..k
        BY <1>6, <1>9, <2>0, <2>3
    <3>2. PICK j \in 1..k : o[j] = k + 1 - i
        BY <1>10, <3>1
    <3> QED
        BY <1>11, <3>1, <3>2
  <2> QED
      BY <2>0, <2>1, <2>2, <2>3
<1>21. new \notin rest
  <2>1. PICK i \in 1..k : new[i] # {}
      BY <1>19
  <2> QED
      BY <1>17, <2>1
<1>22. IsFiniteSet(rest) /\ Cardinality(rest) = Cardinality(states) - 2
  <2> DEFINE left == states \ {s}
  <2>1. IsFiniteSet(left) /\ t \in left /\ Cardinality(left) = Cardinality(states) - 1
      BY <1>3, <1>4
  <2> HIDE DEF left
  <2>2. IsFiniteSet(left \ {t}) /\ Cardinality(left \ {t}) = Cardinality(left) - 1
      BY <2>1, FS_RemoveElement
  <2>3. left \ {t} = rest
      BY DEF left
  <2>4. Cardinality(states) \in Int
      BY <1>1
  <2>5. Cardinality(left \ {t}) = Cardinality(states) - 2
      BY <2>1, <2>2, <2>4
  <2> HIDE DEF rest
  <2> QED
      BY <2>2, <2>3, <2>5, Zenon
<1> HIDE DEF rest
<1>23. IsFiniteSet(rest \cup {new}) /\ Cardinality(rest \cup {new}) = Cardinality(states) - 1
  <2>1. IsFiniteSet(rest \cup {new}) /\ Cardinality(rest \cup {new}) = Cardinality(rest) + 1
      BY <1>21, <1>22, FS_AddElement
  <2> QED
      BY <1>1, <1>22, <2>1
<1>24. Splits(rest \cup {new}, n, k)
  <2>1. rest \subseteq states
      BY DEF rest
  <2>2. \A u, v \in rest \cup {new} : \A i, j \in 1..k : \A x \in u[i] : x \in v[j] => u = v /\ i = j
    <3> TAKE u, v \in rest \cup {new}
    <3>1. CASE u \in rest /\ v \in rest
        BY <2>1, <3>1 DEF Splits
    <3>2. CASE u = new /\ v = new
        BY <1>18, <3>2
    <3>3. CASE u = new /\ v \in rest
        BY <1>17, <3>3
    <3>4. CASE u \in rest /\ v = new
        BY <1>17, <3>4
    <3> QED
        BY <3>1, <3>2, <3>3, <3>4
  <2>3. \A u \in rest \cup {new} : u \in [1..k -> SUBSET (1..n)] /\ \E i \in 1..k : u[i] # {}
      BY <1>11, <1>19, <2>1 DEF Splits
  <2>4. \A x \in 1..n : \E u \in rest \cup {new} : \E i \in 1..k : x \in u[i]
      BY <1>20
  <2> QED
      BY <1>23, <2>2, <2>3, <2>4 DEF Splits
<1> QED
    BY <1>8, <1>23, <1>24

\* Parts of a state with as many items each, and with weights that differ by no
\* more than G.
Even(s, lens, k, G) ==
    \A i, j \in 1..k : /\ Cardinality(s[i]) = Cardinality(s[j])
                       /\ Weight(lens, s[i]) - Weight(lens, s[j]) <= G

LEMMA SortedEven ==
    ASSUME NEW n \in Nat, NEW lens \in [1..n -> Nat], NEW k \in Nat \ {0}, NEW G,
           NEW s, DOMAIN s = 1..k, \A i \in 1..k : s[i] \in SUBSET (1..n), Even(s, lens, k, G)
    PROVE  Even(Sorted(lens, s), lens, k, G) /\ Descends(Sorted(lens, s), lens, k)
<1>1. Rearranged(Sorted(lens, s), s, k) /\ Descends(Sorted(lens, s), lens, k)
    BY SortedIs
<1>2. PICK o \in [1..k -> 1..k] : \A i \in 1..k : Sorted(lens, s)[i] = s[o[i]]
    BY <1>1 DEF Rearranged
<1>3. \A i \in 1..k : o[i] \in 1..k
    OBVIOUS
<1>4. Even(Sorted(lens, s), lens, k, G)
    BY <1>2, <1>3 DEF Even
<1> QED
    BY <1>1, <1>4

\* Sums differ by no more than one term, if the other is ahead where it counts.
LEMMA OneStaysBack ==
    ASSUME NEW a \in Int, NEW b \in Int, NEW x \in Int, NEW y \in Int, NEW G \in Nat,
           a - b <= G, x - y <= G, a <= b \/ x <= y
    PROVE  (a + x) - (b + y) <= G
    OBVIOUS

\* The heaviest parts of one state with the lightest of another.
LEMMA MergedEven ==
    ASSUME NEW n \in Nat, NEW lens \in [1..n -> Nat], NEW k \in Nat \ {0}, NEW G \in Nat,
           NEW s \in [1..k -> SUBSET (1..n)], Even(s, lens, k, G), Descends(s, lens, k),
           NEW t \in [1..k -> SUBSET (1..n)], Even(t, lens, k, G), Descends(t, lens, k),
           \A i, j \in 1..k : s[i] \cap t[j] = {}
    PROVE  Even(Paired(s, t, k), lens, k, G)
<1> DEFINE both == Paired(s, t, k)
           v == [i \in 1..k |-> Weight(lens, s[i])]
           w == [i \in 1..k |-> Weight(lens, t[i])]
           c == [i \in 1..k |-> Cardinality(s[i])]
           d == [i \in 1..k |-> Cardinality(t[i])]
<1>1. \A i \in 1..k : v[i] \in Int /\ w[i] \in Int /\ c[i] \in Int /\ d[i] \in Int
  <2> TAKE i \in 1..k
  <2>1. s[i] \in SUBSET (1..n) /\ t[i] \in SUBSET (1..n)
      OBVIOUS
  <2>2. Weight(lens, s[i]) \in Int /\ Cardinality(s[i]) \in Nat
      BY <2>1, WeightIs, Zenon
  <2>3. Weight(lens, t[i]) \in Int /\ Cardinality(t[i]) \in Nat
      BY <2>1, WeightIs, Zenon
  <2> QED
      BY <2>2, <2>3
<1>2. \A i, j \in 1..k : /\ v[i] - v[j] <= G /\ w[i] - w[j] <= G /\ c[i] = c[j] /\ d[i] = d[j]
                         /\ i < j => v[i] >= v[j] /\ w[i] >= w[j]
    BY DEF Even, Descends
<1>3. ASSUME NEW i \in 1..k, NEW j \in 1..k
      PROVE  /\ Cardinality(s[i] \cup t[j]) = c[i] + d[j]
             /\ Weight(lens, s[i] \cup t[j]) = v[i] + w[j]
  <2> DEFINE S == s[i]
             T == t[j]
  <2>1. S \in SUBSET (1..n) /\ T \in SUBSET (1..n) /\ S \cap T = {}
      OBVIOUS
  <2>2. c[i] = Cardinality(S) /\ d[j] = Cardinality(T) /\ v[i] = Weight(lens, S) /\ w[j] = Weight(lens, T)
      OBVIOUS
  <2> HIDE DEF S, T, c, d, v, w
  <2>3. IsFiniteSet(S) /\ IsFiniteSet(T) /\ Cardinality(S) \in Nat /\ Cardinality(T) \in Nat
      BY <2>1, WeightIs
  <2>4. Cardinality(S \cup T) = Cardinality(S) + Cardinality(T)
    <3>1. Cardinality(S \cup T) = Cardinality(S) + Cardinality(T) - Cardinality(S \cap T)
        BY <2>3, FS_Union
    <3>2. Cardinality(S \cap T) = 0
        BY <2>1, FS_EmptySet, Zenon
    <3> QED
        BY <2>3, <3>1, <3>2
  <2>5. Weight(lens, S \cup T) = Weight(lens, S) + Weight(lens, T)
    <3>1. \A x \in S \cup T : lens[x] \in Int
        BY <2>1
    <3> QED
        BY <2>1, <2>3, <3>1, SumUnion DEF Weight
  <2> QED
      BY <2>2, <2>4, <2>5 DEF S, T
<1> HIDE DEF v, w, c, d
<1>4. ASSUME NEW i \in 1..k, NEW j \in 1..k
      PROVE  /\ Cardinality(both[i]) = Cardinality(both[j])
             /\ Weight(lens, both[i]) - Weight(lens, both[j]) <= G
  <2>1. PICK a \in 1..k : a = k + 1 - i
      OBVIOUS
  <2>2. PICK b \in 1..k : b = k + 1 - j
      OBVIOUS
  <2>3. both[i] = s[i] \cup t[a] /\ both[j] = s[j] \cup t[b]
      BY <2>1, <2>2 DEF Paired
  <2> HIDE DEF both
  <2>4. (i < j => b < a) /\ (j < i => a < b) /\ (i = j => a = b)
      BY <2>1, <2>2
  <2>5. (v[i] + w[a]) - (v[j] + w[b]) <= G
    <3>1. /\ v[i] \in Int /\ v[j] \in Int /\ w[a] \in Int /\ w[b] \in Int
          /\ v[i] - v[j] <= G /\ w[a] - w[b] <= G
        BY <1>1, <1>2
    <3>2. CASE i < j
      <4>1. w[b] >= w[a]
          BY <1>2, <2>4, <3>2
      <4> QED
          BY <3>1, <4>1, OneStaysBack
    <3>3. CASE j < i
      <4>1. v[j] >= v[i]
          BY <1>2, <3>3
      <4> QED
          BY <3>1, <4>1, OneStaysBack
    <3>4. CASE i = j
      <4>1. w[b] >= w[a]
        <5>1. w[b] = w[a]
            BY <2>4, <3>4
        <5> QED
            BY <3>1, <5>1
      <4> QED
          BY <3>1, <4>1, OneStaysBack
    <3> QED
        BY <3>2, <3>3, <3>4
  <2>6. c[i] + d[a] = c[j] + d[b]
      BY <1>1, <1>2
  <2>7. /\ Cardinality(s[i] \cup t[a]) = c[i] + d[a] /\ Weight(lens, s[i] \cup t[a]) = v[i] + w[a]
        /\ Cardinality(s[j] \cup t[b]) = c[j] + d[b] /\ Weight(lens, s[j] \cup t[b]) = v[j] + w[b]
      BY <1>3
  <2> QED
      BY <2>3, <2>5, <2>6, <2>7, Zenon
<1> HIDE DEF both
<1> QED
    BY <1>4 DEF Even, both

\* Every state is even and in descending order.
AllEven(states, lens, k, G) ==
    \A s \in states : Even(s, lens, k, G) /\ Descends(s, lens, k)

LEMMA MergeEven ==
    ASSUME NEW n \in Nat, NEW lens \in [1..n -> Nat], NEW k \in Nat \ {0}, NEW G \in Nat,
           NEW states, Splits(states, n, k), Cardinality(states) > 1, AllEven(states, lens, k, G)
    PROVE  AllEven(MergeTwo(lens, states), lens, k, G)
<1>1. PICK s, t \in states :
          /\ s # t
          /\ MergeTwo(lens, states) =
                (states \ {s, t}) \cup {Sorted(lens, Paired(s, t, k))}
    BY MergedTwo
<1> DEFINE both == Paired(s, t, k)
<1>2. s \in [1..k -> SUBSET (1..n)] /\ t \in [1..k -> SUBSET (1..n)]
    BY DEF Splits
<1>3. \A i, j \in 1..k : s[i] \cap t[j] = {}
    BY <1>1 DEF Splits
<1>4. Even(both, lens, k, G)
    BY <1>2, <1>3, MergedEven DEF AllEven
<1>5. DOMAIN both = 1..k /\ \A i \in 1..k : both[i] \in SUBSET (1..n)
  <2>1. \A i \in 1..k : k + 1 - i \in 1..k
      OBVIOUS
  <2> QED
      BY <1>2, <2>1 DEF Paired
<1>6. MergeTwo(lens, states) = (states \ {s, t}) \cup {Sorted(lens, both)}
    BY <1>1
<1> HIDE DEF both
<1>7. Even(Sorted(lens, both), lens, k, G) /\ Descends(Sorted(lens, both), lens, k)
    BY <1>4, <1>5, SortedEven
<1> QED
    BY <1>6, <1>7 DEF AllEven

-----------------------------------------------------------------------------
(* The order of the rows and the partitions *)

\* ByLength is a permutation of the items, from short to long.
LEMMA ByLengthIs ==
    ASSUME NEW n \in Nat, NEW lens \in [1..n -> Nat]
    PROVE  /\ ByLength(lens) \in [1..n -> 1..n]
           /\ \A x \in 1..n : \E i \in 1..n : ByLength(lens)[i] = x
           /\ \A i, j \in 1..n : ByLength(lens)[i] = ByLength(lens)[j] => i = j
           /\ \A i, j \in 1..n : i < j => lens[ByLength(lens)[i]] <= lens[ByLength(lens)[j]]
<1> DEFINE R == ShortestFirst(lens)
           before(x, y) == lens[x] < lens[y] \/ (lens[x] = lens[y] /\ x < y)
<1>1. \A x, y \in 1..n : <<x, y>> \in R <=> before(x, y)
    BY DEF ShortestFirst
<1>2. \A x \in 1..n : lens[x] \in Int /\ x \in Int
    OBVIOUS
<1> HIDE DEF R
<1>3. Orders(R, 1..n)
  <2>1. ASSUME NEW x \in 1..n, NEW y \in 1..n, x # y
        PROVE  <<x, y>> \in R \/ <<y, x>> \in R
    <3>1. before(x, y) \/ before(y, x)
        BY <1>2, <2>1
    <3> QED
        BY <1>1, <3>1
  <2>2. ASSUME NEW x \in 1..n, NEW y \in 1..n, NEW z \in 1..n, <<x, y>> \in R, <<y, z>> \in R
        PROVE  <<x, z>> \in R
    <3>1. before(x, y) /\ before(y, z)
        BY <1>1, <2>2
    <3>2. lens[x] \in Int /\ lens[y] \in Int /\ lens[z] \in Int /\ x \in Int /\ y \in Int /\ z \in Int
        BY <1>2
    <3>3. before(x, z)
        BY <3>1, <3>2
    <3> QED
        BY <1>1, <3>3
  <2> QED
      BY <2>1, <2>2 DEF Orders
<1>4. ByLength(lens) = Ordered(1..n, R)
    BY DEF ByLength, R
<1>5. /\ Ordered(1..n, R) \in [1..n -> 1..n]
      /\ \A x \in 1..n : \E i \in 1..n : Ordered(1..n, R)[i] = x
      /\ \A i, j \in 1..n : Ordered(1..n, R)[i] = Ordered(1..n, R)[j] => i = j
      /\ \A i, j \in 1..n : i < j => <<Ordered(1..n, R)[i], Ordered(1..n, R)[j]>> \in R
    BY <1>3, PermutationIs
<1>6. \A x, y \in 1..n : <<x, y>> \in R => lens[x] <= lens[y]
    BY <1>1, <1>2
<1> DEFINE row == ByLength(lens)
<1>7. \A i, j \in 1..n : i < j => lens[row[i]] <= lens[row[j]]
  <2>1. \A i \in 1..n : row[i] \in 1..n
      BY <1>4, <1>5
  <2>2. \A i, j \in 1..n : i < j => <<row[i], row[j]>> \in R
      BY <1>4, <1>5, Zenon
  <2> HIDE DEF row
  <2> QED
      BY <1>6, <2>1, <2>2
<1> QED
    BY <1>4, <1>5, <1>7, Zenon

\* The states g[o] hold different rows, and together all.
Family(g, O, n, k) ==
    /\ IsFiniteSet(O) /\ O # {}
    /\ \A o \in O : g[o] \in [1..k -> SUBSET (1..n)] /\ \E i \in 1..k : g[o][i] # {}
    /\ \A o, p \in O : \A i, j \in 1..k : \A x \in g[o][i] : x \in g[p][j] => o = p /\ i = j
    /\ \A x \in 1..n : \E o \in O : \E i \in 1..k : x \in g[o][i]

LEMMA FamilySplits ==
    ASSUME NEW n, NEW k, NEW O, NEW g, Family(g, O, n, k),
           NEW states, \A o \in O : g[o] \in states, \A s \in states : \E o \in O : s = g[o]
    PROVE  Splits(states, n, k) /\ states # {}
<1>1. IsFiniteSet(states) /\ states # {}
  <2>1. states = {g[o] : o \in O} /\ IsFiniteSet(O) /\ O # {}
      BY DEF Family
  <2> QED
      BY <2>1, FiniteImage
<1>4. \A s \in states : s \in [1..k -> SUBSET (1..n)] /\ \E i \in 1..k : s[i] # {}
    BY DEF Family
<1>5. \A s, t \in states : \A i, j \in 1..k : \A x \in s[i] : x \in t[j] => s = t /\ i = j
    BY DEF Family
<1>6. \A x \in 1..n : \E s \in states : \E i \in 1..k : x \in s[i]
    BY DEF Family
<1> QED
    BY <1>1, <1>4, <1>5, <1>6 DEF Splits

\* A state may be written in another order.
LEMMA RearrangedFamily ==
    ASSUME NEW n, NEW k, NEW O, NEW g, Family(g, O, n, k),
           NEW h, \A o \in O : h[o] \in [1..k -> SUBSET (1..n)],
           \A o \in O : Rearranged(h[o], g[o], k)
    PROVE  Family(h, O, n, k)
<1>1. ASSUME NEW o \in O, NEW p \in O, NEW i \in 1..k, NEW j \in 1..k, NEW x \in h[o][i], x \in h[p][j]
      PROVE  o = p /\ i = j
  <2>1. Rearranged(h[o], g[o], k) /\ Rearranged(h[p], g[p], k)
      OBVIOUS
  <2>2. PICK f \in [1..k -> 1..k] : /\ \A a, b \in 1..k : f[a] = f[b] => a = b
                                    /\ \A a \in 1..k : h[o][a] = g[o][f[a]]
      BY <2>1 DEF Rearranged
  <2>3. PICK e \in [1..k -> 1..k] : \A a \in 1..k : h[p][a] = g[p][e[a]]
      BY <2>1 DEF Rearranged
  <2>4. f[i] \in 1..k /\ f[j] \in 1..k /\ e[j] \in 1..k
      OBVIOUS
  <2>5. x \in g[o][f[i]] /\ x \in g[p][e[j]]
      BY <1>1, <2>2, <2>3
  <2>6. o = p
      BY <2>4, <2>5 DEF Family
  <2>7. x \in g[o][f[j]]
      BY <1>1, <2>2, <2>6
  <2>8. f[i] = f[j]
      BY <2>4, <2>5, <2>7 DEF Family
  <2> QED
      BY <2>2, <2>6, <2>8
<1>2. ASSUME NEW o \in O, NEW i \in 1..k
      PROVE  \E j \in 1..k : h[o][j] = g[o][i]
  <2>1. Rearranged(h[o], g[o], k)
      OBVIOUS
  <2>2. PICK f \in [1..k -> 1..k] : /\ \A a \in 1..k : \E j \in 1..k : f[j] = a
                                    /\ \A j \in 1..k : h[o][j] = g[o][f[j]]
      BY <2>1 DEF Rearranged
  <2>3. PICK j \in 1..k : f[j] = i
      BY <2>2
  <2> QED
      BY <2>2, <2>3
<1>3. ASSUME NEW x \in 1..n
      PROVE  \E o \in O : \E i \in 1..k : x \in h[o][i]
  <2>1. PICK o \in O : \E i \in 1..k : x \in g[o][i]
      BY DEF Family
  <2>2. PICK i \in 1..k : x \in g[o][i]
      BY <2>1
  <2>3. PICK j \in 1..k : h[o][j] = g[o][i]
      BY <1>2
  <2> QED
      BY <2>2, <2>3
<1>4. \A o \in O : \E i \in 1..k : h[o][i] # {}
  <2> TAKE o \in O
  <2>1. PICK i \in 1..k : g[o][i] # {}
      BY DEF Family
  <2>2. PICK j \in 1..k : h[o][j] = g[o][i]
      BY <1>2
  <2> QED
      BY <2>1, <2>2
<1>5. IsFiniteSet(O) /\ O # {}
    BY DEF Family
<1> QED
    BY <1>1, <1>3, <1>4, <1>5 DEF Family

\* Without equal sizes every item is a state of its own at first.
LEMMA FirstStatesOfOne ==
    ASSUME NEW n \in Nat \ {0}, NEW lens \in [1..n -> Nat], NEW k \in Nat \ {0}
    PROVE  Splits(FirstStates(lens, k, FALSE), n, k) /\ FirstStates(lens, k, FALSE) # {}
<1> DEFINE row == ByLength(lens)
           g == [j \in 1..n |-> [i \in 1..k |-> IF i = 1 THEN {row[j]} ELSE {}]]
<1>1. /\ row \in [1..n -> 1..n] /\ \A x \in 1..n : \E i \in 1..n : row[i] = x
      /\ \A i, j \in 1..n : row[i] = row[j] => i = j
  <2>1. n \in Nat
      OBVIOUS
  <2> QED
      BY <2>1, ByLengthIs, Zenon
<1>2. FirstStates(lens, k, FALSE) = {g[j] : j \in 1..n}
  <2>1. DOMAIN row = 1..n
      BY <1>1
  <2> QED
      BY <2>1, Zenon DEF FirstStates
<1> HIDE DEF row
<1>3. \A j \in 1..n : \A i \in 1..k : g[j][i] = IF i = 1 THEN {row[j]} ELSE {}
    OBVIOUS
<1>4. \A j \in 1..n : g[j] \in [1..k -> SUBSET (1..n)]
  <2> TAKE j \in 1..n
  <2>1. row[j] \in 1..n
      BY <1>1
  <2>2. \A i \in 1..k : (IF i = 1 THEN {row[j]} ELSE {}) \in SUBSET (1..n)
      BY <2>1
  <2> QED
      BY <2>2
<1> HIDE DEF g
<1>5. 1 \in 1..k /\ 1..n # {} /\ IsFiniteSet(1..n)
    BY Interval
<1>6. \A j \in 1..n : g[j] \in [1..k -> SUBSET (1..n)] /\ \E i \in 1..k : g[j][i] # {}
  <2> TAKE j \in 1..n
  <2>1. g[j][1] = {row[j]}
      BY <1>3, <1>5
  <2> QED
      BY <1>4, <1>5, <2>1
<1>7. \A o, p \in 1..n : \A i, j \in 1..k : \A x \in g[o][i] : x \in g[p][j] => o = p /\ i = j
  <2> TAKE o, p \in 1..n
  <2> TAKE i, j \in 1..k
  <2> TAKE x \in g[o][i]
  <2> HAVE x \in g[p][j]
  <2>0. /\ g[o][i] = IF i = 1 THEN {row[o]} ELSE {}
        /\ g[p][j] = IF j = 1 THEN {row[p]} ELSE {}
      BY <1>3
  <2>1. i = 1 /\ x = row[o]
      BY <2>0
  <2>2. j = 1 /\ x = row[p]
      BY <2>0
  <2> QED
      BY <1>1, <2>1, <2>2
<1>8. \A x \in 1..n : \E o \in 1..n : \E i \in 1..k : x \in g[o][i]
  <2> TAKE x \in 1..n
  <2>1. PICK o \in 1..n : row[o] = x
      BY <1>1
  <2>2. g[o][1] = {row[o]}
      BY <1>3, <1>5
  <2> QED
      BY <1>5, <2>1, <2>2
<1>9. Family(g, 1..n, n, k)
    BY <1>5, <1>6, <1>7, <1>8 DEF Family
<1>10. /\ \A j \in 1..n : g[j] \in FirstStates(lens, k, FALSE)
       /\ \A s \in FirstStates(lens, k, FALSE) : \E j \in 1..n : s = g[j]
    BY <1>2
<1> QED
    BY <1>9, <1>10, FamilySplits

\* The rows o * k + 1, ..., o * k + k are those of one o only.
LEMMA OneRow ==
    ASSUME NEW k \in Nat \ {0}, NEW o \in Nat, NEW p \in Nat, NEW i \in 1..k, NEW j \in 1..k,
           o * k + i = p * k + j
    PROVE  o = p /\ i = j
<1>1. i - 1 \in 0..(k - 1) /\ j - 1 \in 0..(k - 1)
    OBVIOUS
<1>2. o * k + (i - 1) = p * k + (j - 1)
    OBVIOUS
<1>3. o = p /\ i - 1 = j - 1
    BY <1>1, <1>2, OneQuotient
<1> QED
    BY <1>3

\* With equal sizes k neighbours in length are a state at first.
LEMMA FirstStatesOfMany ==
    ASSUME NEW n \in Nat \ {0}, NEW lens \in [1..n -> Nat], NEW k \in Nat \ {0}, n % k = 0
    PROVE  Splits(FirstStates(lens, k, TRUE), n, k) /\ FirstStates(lens, k, TRUE) # {}
<1> DEFINE row == ByLength(lens)
           q == n \div k
           O == 0..(q - 1)
           state == [o \in O |-> [i \in 1..k |-> {row[o * k + i]}]]
           g == [o \in O |-> Sorted(lens, state[o])]
<1>1. /\ row \in [1..n -> 1..n] /\ \A x \in 1..n : \E i \in 1..n : row[i] = x
      /\ \A i, j \in 1..n : row[i] = row[j] => i = j
  <2>1. n \in Nat
      OBVIOUS
  <2> QED
      BY <2>1, ByLengthIs, ZenonT(60)
<1>2. FirstStates(lens, k, TRUE) = {g[o] : o \in O}
  <2>1. Len(lens) = n
      OBVIOUS
  <2> QED
      BY <2>1, ZenonT(60) DEF FirstStates
<1> HIDE DEF row
<1>3. n = k * q /\ q \in Nat \ {0}
  <2>1. n = k * q + (n % k) /\ q \in Nat
      BY Quotient, Parts
  <2> HIDE DEF q
  <2>2. n = k * q
      BY <2>1
  <2> QED
      BY <2>1, <2>2
<1> HIDE DEF q
<1>4. \A o \in O : \A i \in 1..k : o * k + i \in 1..n
  <2> TAKE o \in O
  <2> TAKE i \in 1..k
  <2>1. o + 1 \in 1..q /\ (o + 1) - 1 = o
      BY <1>3
  <2>2. ((o + 1) - 1) * k + i \in 1..(k * q)
      BY <1>3, <2>1, InShare
  <2> QED
      BY <1>3, <2>1, <2>2
<1>5. \A o, p \in O : \A i, j \in 1..k : o * k + i = p * k + j => o = p /\ i = j
  <2> TAKE o, p \in O
  <2> TAKE i, j \in 1..k
  <2> HAVE o * k + i = p * k + j
  <2>1. o \in Nat /\ p \in Nat
      OBVIOUS
  <2> QED
      BY <2>1, OneRow
<1>6. \A x \in 1..n : \E o \in O : \E i \in 1..k : x = o * k + i
  <2> TAKE x \in 1..n
  <2> DEFINE y == x - 1
             o == y \div k
             m == y % k
  <2>1. y \in 0..(k * q - 1)
      BY <1>3
  <2> HIDE DEF y
  <2>2. o \in 0..(q - 1) /\ m \in 0..(k - 1) /\ o * k + m = y
      BY <1>3, <2>1, Position, ZenonT(60)
  <2>3. o \in O /\ m \in 0..(k - 1) /\ o * k + m = x - 1
      BY <2>2 DEF y
  <2> HIDE DEF o, m
  <2>4. m + 1 \in 1..k /\ x = o * k + (m + 1)
      BY <2>3
  <2> QED
      BY <2>3, <2>4
<1> DEFINE at == [o \in O |-> [i \in 1..k |-> o * k + i]]
<1>7. \A o \in O : \A i \in 1..k : at[o][i] \in 1..n /\ state[o][i] = {row[at[o][i]]}
    BY <1>4
<1>8. \A o, p \in O : \A i, j \in 1..k : at[o][i] = at[p][j] => o = p /\ i = j
    BY <1>5
<1>9. ASSUME NEW x \in 1..n
      PROVE  \E o \in O : \E i \in 1..k : x = at[o][i]
  <2>1. PICK o \in O, i \in 1..k : x = o * k + i
      BY <1>6
  <2>2. at[o][i] = o * k + i
      OBVIOUS
  <2> QED
      BY <2>1, <2>2
<1> HIDE DEF at
<1>10. IsFiniteSet(O) /\ O # {}
  <2>1. IsFiniteSet(0..(q - 1))
      BY <1>3, FS_Interval
  <2>2. 0 \in 0..(q - 1)
      BY <1>3
  <2> QED
      BY <2>1, <2>2
<1>11. \A o \in O : DOMAIN state[o] = 1..k
    OBVIOUS
<1>12. \A o \in O : state[o] = [i \in 1..k |-> state[o][i]]
    OBVIOUS
<1>13. \A o \in O : g[o] = Sorted(lens, state[o])
    OBVIOUS
<1>14. \A o \in O : g[o] \in FirstStates(lens, k, TRUE)
    BY <1>2
<1>15. \A s \in FirstStates(lens, k, TRUE) : \E o \in O : s = g[o]
    BY <1>2
<1> HIDE DEF g, state, O
<1>16. \A o \in O : \A i \in 1..k : state[o][i] \in SUBSET (1..n)
  <2> TAKE o \in O
  <2> TAKE i \in 1..k
  <2>1. row[at[o][i]] \in 1..n
      BY <1>1, <1>7
  <2> QED
      BY <1>7, <2>1
<1>17. Family(state, O, n, k)
  <2>1. \A o \in O : state[o] \in [1..k -> SUBSET (1..n)]
      BY <1>12, <1>16
  <2>2. \A o \in O : \E i \in 1..k : state[o][i] # {}
    <3> TAKE o \in O
    <3>1. 1 \in 1..k
        OBVIOUS
    <3>2. state[o][1] = {row[at[o][1]]}
        BY <1>7, <3>1
    <3> QED
        BY <3>1, <3>2
  <2>3. ASSUME NEW o \in O, NEW p \in O, NEW i \in 1..k, NEW j \in 1..k,
               NEW x \in state[o][i], x \in state[p][j]
        PROVE  o = p /\ i = j
    <3> DEFINE a == at[o][i]
               b == at[p][j]
    <3>1. row[a] = row[b] /\ a \in 1..n /\ b \in 1..n
        BY <1>7, <2>3
    <3> HIDE DEF a, b
    <3>2. a = b
        BY <1>1, <3>1
    <3> QED
        BY <1>8, <3>2 DEF a, b
  <2>4. ASSUME NEW x \in 1..n
        PROVE  \E o \in O : \E i \in 1..k : x \in state[o][i]
    <3>1. PICK y \in 1..n : row[y] = x
        BY <1>1
    <3>2. PICK o \in O, i \in 1..k : y = at[o][i]
        BY <1>9
    <3> QED
        BY <1>7, <3>1, <3>2
  <2> QED
      BY <1>10, <2>1, <2>2, <2>3, <2>4 DEF Family
<1>18. ASSUME NEW o \in O
       PROVE  g[o] \in [1..k -> SUBSET (1..n)] /\ Rearranged(g[o], state[o], k)
  <2> DEFINE s == state[o]
  <2>1. DOMAIN s = 1..k /\ \A i \in 1..k : s[i] \in SUBSET (1..n)
      BY <1>11, <1>16
  <2> HIDE DEF s
  <2>2. Sorted(lens, s) \in [1..k -> SUBSET (1..n)] /\ Rearranged(Sorted(lens, s), s, k)
      BY <2>1, SortedIs
  <2> QED
      BY <1>13, <2>2 DEF s
<1>19. Family(g, O, n, k)
    BY <1>17, <1>18, RearrangedFamily
<1> QED
    BY <1>14, <1>15, <1>19, FamilySplits

\* The longest less the shortest of neighbours in length.
Gap(lens, k, o) == lens[ByLength(lens)[o * k + k]] - lens[ByLength(lens)[o * k + 1]]

\* Numbers between two that differ by no more than G do not either.
LEMMA SpreadBounds ==
    ASSUME NEW low \in Int, NEW a \in Int, NEW b \in Int, NEW high \in Int, NEW G \in Nat,
           low <= b, a <= high, high - low <= G
    PROVE  a - b <= G
    OBVIOUS

\* Which are the parts of a first state of one item each.
LEMMA FirstStatesEven ==
    ASSUME NEW n \in Nat \ {0}, NEW lens \in [1..n -> Nat], NEW k \in Nat \ {0}, n % k = 0,
           NEW G \in Nat, \A o \in 0..(n \div k - 1) : Gap(lens, k, o) <= G
    PROVE  AllEven(FirstStates(lens, k, TRUE), lens, k, G)
<1> DEFINE row == ByLength(lens)
           q == n \div k
           state(o) == [i \in 1..k |-> {row[o * k + i]}]
<1>1. row \in [1..n -> 1..n] /\ \A i, j \in 1..n : i < j => lens[row[i]] <= lens[row[j]]
  <2>1. n \in Nat
      OBVIOUS
  <2> QED
      BY <2>1, ByLengthIs, ZenonT(60)
<1>2. FirstStates(lens, k, TRUE) = {Sorted(lens, state(o)) : o \in 0..(q - 1)}
  <2>1. Len(lens) = n
      OBVIOUS
  <2> QED
      BY <2>1, ZenonT(60) DEF FirstStates
<1>3. n = k * q /\ q \in Nat
  <2>1. n = k * q + (n % k) /\ q \in Nat
      BY Quotient, Parts
  <2> HIDE DEF q
  <2> QED
      BY <2>1
<1>4. \A o \in 0..(q - 1) : lens[row[o * k + k]] - lens[row[o * k + 1]] <= G
    BY DEF Gap
<1> HIDE DEF q, row
<1>5. ASSUME NEW o \in 0..(q - 1)
      PROVE  /\ DOMAIN state(o) = 1..k /\ \A i \in 1..k : state(o)[i] \in SUBSET (1..n)
             /\ Even(state(o), lens, k, G)
  <2> DEFINE at == [i \in 1..k |-> o * k + i]
             t == state(o)
  <2>1. \A i \in 1..k : at[i] \in 1..n
    <3> TAKE i \in 1..k
    <3>1. o + 1 \in 1..q /\ (o + 1) - 1 = o
        BY <1>3
    <3>2. ((o + 1) - 1) * k + i \in 1..(k * q)
        BY <1>3, <3>1, InShare
    <3> QED
        BY <1>3, <3>1, <3>2
  <2>2. \A i, j \in 1..k : i < j => at[i] < at[j]
    <3>1. o * k \in Int
        OBVIOUS
    <3> QED
        BY <3>1
  <2>3. DOMAIN t = 1..k /\ \A i \in 1..k : t[i] = {row[at[i]]}
      OBVIOUS
  <2>4. lens[row[at[k]]] - lens[row[at[1]]] <= G
      BY <1>4
  <2> HIDE DEF at, t
  <2> DEFINE w == [i \in 1..k |-> lens[row[at[i]]]]
  <2>5. \A i \in 1..k : row[at[i]] \in 1..n /\ w[i] \in Int
    <3> TAKE i \in 1..k
    <3>1. row[at[i]] \in 1..n
        BY <1>1, <2>1
    <3>2. PICK x \in 1..n : x = row[at[i]]
        BY <3>1
    <3>3. w[i] = lens[x] /\ lens[x] \in Int
        BY <3>2
    <3> QED
        BY <3>1, <3>3
  <2>6. \A i, j \in 1..k : i < j => w[i] <= w[j]
      BY <1>1, <2>1, <2>2
  <2>7. ASSUME NEW i \in 1..k
        PROVE  Cardinality(t[i]) = 1 /\ Weight(lens, t[i]) = w[i]
    <3>1. PICK x : x = row[at[i]]
        OBVIOUS
    <3>2. t[i] = {x} /\ lens[x] \in Int /\ w[i] = lens[x]
        BY <2>3, <2>5, <3>1
    <3> HIDE DEF w
    <3>3. Weight(lens, {x}) = lens[x]
        BY <3>2, SumOfOne DEF Weight
    <3> QED
        BY <3>2, <3>3, FS_Singleton
  <2>8. w[k] - w[1] <= G
      BY <2>4
  <2> HIDE DEF w
  <2>9. \A i, j \in 1..k : w[i] - w[j] <= G
    <3> TAKE i, j \in 1..k
    <3>1. 1 \in 1..k /\ k \in 1..k
        OBVIOUS
    <3>2. w[1] <= w[j]
        BY <2>5, <2>6, <3>1
    <3>3. w[i] <= w[k]
        BY <2>5, <2>6, <3>1
    <3>4. /\ w[1] \in Int /\ w[i] \in Int /\ w[j] \in Int /\ w[k] \in Int
          /\ w[k] - w[1] <= G
        BY <2>5, <2>8, <3>1
    <3> QED
        BY <3>2, <3>3, <3>4, SpreadBounds
  <2>10. Even(t, lens, k, G)
      BY <2>7, <2>9 DEF Even
  <2>11. \A i \in 1..k : t[i] \in SUBSET (1..n)
      BY <2>3, <2>5
  <2> QED
      BY <2>3, <2>10, <2>11 DEF t
<1> HIDE DEF state
<1>6. ASSUME NEW o \in 0..(q - 1)
      PROVE  Even(Sorted(lens, state(o)), lens, k, G) /\ Descends(Sorted(lens, state(o)), lens, k)
  <2> DEFINE t == state(o)
  <2>1. DOMAIN t = 1..k /\ (\A i \in 1..k : t[i] \in SUBSET (1..n)) /\ Even(t, lens, k, G)
      BY <1>5
  <2> HIDE DEF t
  <2>2. Even(Sorted(lens, t), lens, k, G) /\ Descends(Sorted(lens, t), lens, k)
      BY <2>1, SortedEven
  <2> QED
      BY <2>2 DEF t
<1> QED
    BY <1>2, <1>6 DEF AllEven

-----------------------------------------------------------------------------
(* Partitions, flattened *)

\* merged[m] is what m merges make of the states first.
Merges(merged, lens, first, k) ==
    merged = [m \in 0..k |-> IF m = 0 THEN first ELSE MergeTwo(lens, merged[m - 1])]

LEMMA SomethingMerges ==
    ASSUME NEW lens, NEW first, NEW k \in Nat
    PROVE  \E merged : Merges(merged, lens, first, k)
<1> DEFINE N == {n \in Nat : \E merged : Merges(merged, lens, first, n)}
<1>1. 0 \in N
  <2> DEFINE merged == [m \in 0..0 |-> first]
  <2>1. Merges(merged, lens, first, 0)
      BY DEF Merges
  <2> QED
      BY <2>1
<1>2. ASSUME NEW n \in N
      PROVE  n + 1 \in N
  <2>1. PICK merged : Merges(merged, lens, first, n)
      OBVIOUS
  <2> DEFINE next == [m \in 0..(n + 1) |-> IF m = 0 THEN first ELSE MergeTwo(lens, merged[m - 1])]
  <2>2. \A m \in 0..n : merged[m] = IF m = 0 THEN first ELSE MergeTwo(lens, merged[m - 1])
      BY <2>1 DEF Merges
  <2>3. n \in Nat /\ \A m \in 0..n : next[m] = merged[m]
      BY <2>2
  <2>4. \A m \in 0..(n + 1) : m # 0 => next[m - 1] = merged[m - 1]
    <3>1. \A m \in 0..(n + 1) : m # 0 => m - 1 \in 0..n
        BY <2>3
    <3> QED
        BY <2>3, <3>1
  <2>5. next = [m \in 0..(n + 1) |-> IF m = 0 THEN first ELSE MergeTwo(lens, next[m - 1])]
      BY <2>4
  <2> HIDE DEF next
  <2>6. Merges(next, lens, first, n + 1)
      BY <2>5 DEF Merges
  <2>7. \E f : Merges(f, lens, first, n + 1)
      BY <2>6
  <2> QED
      BY <2>3, <2>7
<1>3. \A n \in Nat : n \in N
  <2> HIDE DEF N
  <2>1. N \in SUBSET Nat
      BY DEF N
  <2> QED
      BY <1>1, <1>2, <2>1, Induction
<1> QED
    BY <1>3

\* The parts are sets of rows, and every row is in exactly one.
Parted(s, n, k) ==
    /\ s \in [1..k -> SUBSET (1..n)]
    /\ \A i, j \in 1..k : \A x \in s[i] : x \in s[j] => i = j
    /\ \A x \in 1..n : \E i \in 1..k : x \in s[i]

\* karmarkar_karp (seqlen_balancing.py): every item is in exactly one of k
\* partitions, which are as even as the states it starts from.
LEMMA KarmarkarKarpIs ==
    ASSUME NEW n \in Nat \ {0}, NEW lens \in [1..n -> Nat], NEW k \in Nat \ {0},
           NEW equal \in BOOLEAN, equal => n % k = 0
    PROVE  /\ Parted(KarmarkarKarp(lens, k, equal), n, k)
           /\ \A G \in Nat : AllEven(FirstStates(lens, k, equal), lens, k, G)
                               => Even(KarmarkarKarp(lens, k, equal), lens, k, G)
<1> DEFINE first == FirstStates(lens, k, equal)
           c == Cardinality(first)
           merged == CHOOSE merged : Merges(merged, lens, first, c - 1)
<1>1. Splits(first, n, k) /\ first # {}
    BY FirstStatesOfOne, FirstStatesOfMany
<1>2. c \in Nat \ {0}
  <2>1. IsFiniteSet(first) /\ first # {}
      BY <1>1 DEF Splits
  <2> QED
      BY <2>1, FS_CardinalityType, FS_EmptySet
<1>3. KarmarkarKarp(lens, k, equal) = CHOOSE s \in merged[c - 1] : TRUE
    BY Zenon DEF KarmarkarKarp, Merges
<1>4. Merges(merged, lens, first, c - 1)
  <2>1. c - 1 \in Nat
      BY <1>2
  <2> HIDE DEF c
  <2> QED
      BY <2>1, SomethingMerges
<1> HIDE DEF merged, first
<1>5. \A m \in 0..(c - 1) : merged[m] = IF m = 0 THEN first ELSE MergeTwo(lens, merged[m - 1])
    BY <1>4 DEF Merges
<1> DEFINE Good(m) == /\ Splits(merged[m], n, k) /\ Cardinality(merged[m]) = c - m
                      /\ \A G \in Nat : AllEven(first, lens, k, G) => AllEven(merged[m], lens, k, G)
           N == {m \in Nat : m <= c - 1 => Good(m)}
<1> HIDE DEF c
<1>6. 0 \in N
  <2>1. merged[0] = first
      BY <1>2, <1>5
  <2>2. Cardinality(merged[0]) = c - 0
      BY <1>2, <2>1 DEF c
  <2> QED
      BY <1>1, <2>1, <2>2
<1>7. ASSUME NEW m \in N
      PROVE  m + 1 \in N
  <2> SUFFICES ASSUME m + 1 <= c - 1
               PROVE  Good(m + 1)
      OBVIOUS
  <2>1. /\ m \in Nat /\ Splits(merged[m], n, k) /\ Cardinality(merged[m]) = c - m
        /\ \A G \in Nat : AllEven(first, lens, k, G) => AllEven(merged[m], lens, k, G)
      BY <1>2
  <2>2. Cardinality(merged[m]) > 1 /\ (c - m) - 1 = c - (m + 1)
      BY <1>2, <2>1
  <2>3. merged[m + 1] = MergeTwo(lens, merged[m])
    <3>1. m + 1 \in 0..(c - 1) /\ m + 1 # 0 /\ (m + 1) - 1 = m
        BY <1>2, <2>1
    <3> QED
        BY <1>5, <3>1
  <2> DEFINE states == merged[m]
  <2>4. Splits(states, n, k) /\ Cardinality(states) > 1
      BY <2>1, <2>2
  <2> HIDE DEF states
  <2>5. /\ Splits(MergeTwo(lens, states), n, k)
        /\ Cardinality(MergeTwo(lens, states)) = Cardinality(states) - 1
      BY <2>4, MergeIs
  <2>6. \A G \in Nat : AllEven(states, lens, k, G) => AllEven(MergeTwo(lens, states), lens, k, G)
      BY <2>4, MergeEven
  <2> QED
      BY <2>1, <2>2, <2>3, <2>5, <2>6 DEF states
<1>8. \A m \in Nat : m \in N
  <2> HIDE DEF N
  <2>1. N \in SUBSET Nat
      BY DEF N
  <2> QED
      BY <1>6, <1>7, <2>1, Induction
<1> DEFINE last == merged[c - 1]
<1>9. /\ Splits(last, n, k) /\ Cardinality(last) = 1
      /\ \A G \in Nat : AllEven(first, lens, k, G) => AllEven(last, lens, k, G)
  <2>1. c - 1 \in Nat /\ c - 1 <= c - 1 /\ c - (c - 1) = 1
      BY <1>2
  <2>2. c - 1 \in N
      BY <1>8, <2>1
  <2> QED
      BY <2>1, <2>2
<1> HIDE DEF last
<1>10. PICK s : last = {s}
  <2>1. IsFiniteSet(last)
      BY <1>9 DEF Splits
  <2> QED
      BY <1>9, <2>1, FS_Singleton
<1>11. KarmarkarKarp(lens, k, equal) = s
    BY <1>3, <1>10 DEF last
<1>12. \A G \in Nat : AllEven(first, lens, k, G) => Even(s, lens, k, G)
    BY <1>9, <1>10 DEF AllEven
<1>13. Parted(s, n, k)
    BY <1>9, <1>10 DEF Splits, Parted
<1> QED
    BY <1>11, <1>12, <1>13, Zenon DEF first

LEMMA AscendingIs ==
    ASSUME NEW n \in Nat, NEW S \in SUBSET (1..n)
    PROVE  /\ Ascending(S) \in [1..Cardinality(S) -> S] /\ Cardinality(S) \in Nat
           /\ \A x \in S : \E i \in 1..Cardinality(S) : Ascending(S)[i] = x
           /\ \A i, j \in 1..Cardinality(S) : Ascending(S)[i] = Ascending(S)[j] => i = j
<1> DEFINE R == {x \in S \X S : x[1] < x[2]}
<1>1. IsFiniteSet(S) /\ Cardinality(S) \in Nat
    BY Interval, FS_Subset, FS_CardinalityType
<1>2. \A x, y \in S : <<x, y>> \in R <=> x < y
    OBVIOUS
<1> HIDE DEF R
<1>3. \A x \in S : x \in Int
    OBVIOUS
<1>4. Orders(R, S)
    BY <1>2, <1>3 DEF Orders
<1>5. /\ Ordered(S, R) \in [1..Cardinality(S) -> S]
      /\ \A x \in S : \E i \in 1..Cardinality(S) : Ordered(S, R)[i] = x
      /\ \A i, j \in 1..Cardinality(S) : Ordered(S, R)[i] = Ordered(S, R)[j] => i = j
    BY <1>1, <1>4, OrderedIs
<1>6. Ascending(S) = Ordered(S, R)
    BY DEF Ascending, R
<1> QED
    BY <1>1, <1>5, <1>6

\* Parts of the positions 1..n, each in some order.
Positions(parts, n, k) ==
    /\ DOMAIN parts = 1..k /\ Len(parts) = k
    /\ \A i \in 1..k : parts[i] \in Seq(1..n)
    /\ \A i \in 1..k : \A a, b \in 1..Len(parts[i]) : parts[i][a] = parts[i][b] => a = b
    /\ \A i, j \in 1..k : \A a \in 1..Len(parts[i]) : \A b \in 1..Len(parts[j]) :
          parts[i][a] = parts[j][b] => i = j
    /\ \A x \in 1..n : \E i \in 1..k : \E a \in 1..Len(parts[i]) : parts[i][a] = x

\* get_seqlen_balanced_partitions: k sequences that hold every position once.
LEMMA PartitionsAre ==
    ASSUME NEW n \in Nat \ {0}, NEW lens \in [1..n -> Nat], NEW k \in Nat \ {0},
           NEW equal \in BOOLEAN, equal => n % k = 0
    PROVE  Positions(Partitions(lens, k, equal), n, k)
<1> DEFINE s == KarmarkarKarp(lens, k, equal)
           parts == Partitions(lens, k, equal)
<1>1. Parted(s, n, k)
    BY KarmarkarKarpIs
<1>2. parts = [p \in 1..k |-> Ascending(s[p])]
    BY DEF Partitions
<1> HIDE DEF s, parts
<1>3. ASSUME NEW i \in 1..k
      PROVE  /\ parts[i] \in Seq(1..n)
             /\ \A a \in 1..Len(parts[i]) : parts[i][a] \in s[i]
             /\ \A x \in s[i] : \E a \in 1..Len(parts[i]) : parts[i][a] = x
             /\ \A a, b \in 1..Len(parts[i]) : parts[i][a] = parts[i][b] => a = b
  <2> DEFINE S == s[i]
             c == Cardinality(S)
             p == Ascending(S)
  <2>1. S \in SUBSET (1..n)
      BY <1>1 DEF Parted
  <2>2. parts[i] = p
      BY <1>2
  <2> HIDE DEF S
  <2>3. /\ p \in [1..c -> S] /\ c \in Nat
        /\ \A x \in S : \E a \in 1..c : p[a] = x
        /\ \A a, b \in 1..c : p[a] = p[b] => a = b
      BY <2>1, AscendingIs
  <2> HIDE DEF c, p
  <2>4. p \in Seq(1..n) /\ Len(p) = c
    <3>1. \A a \in 1..c : p[a] \in 1..n
        BY <2>1, <2>3
    <3>2. p \in [1..c -> 1..n]
        BY <2>3, <3>1
    <3> QED
        BY <2>3, <3>2
  <2> QED
      BY <2>2, <2>3, <2>4 DEF S
<1>4. \A i, j \in 1..k : \A a \in 1..Len(parts[i]) : \A b \in 1..Len(parts[j]) :
          parts[i][a] = parts[j][b] => i = j
  <2> TAKE i, j \in 1..k
  <2> TAKE a \in 1..Len(parts[i])
  <2> TAKE b \in 1..Len(parts[j])
  <2>1. parts[i][a] \in s[i] /\ parts[j][b] \in s[j]
      BY <1>3
  <2> QED
      BY <1>1, <2>1 DEF Parted
<1>5. ASSUME NEW x \in 1..n
      PROVE  \E i \in 1..k : \E a \in 1..Len(parts[i]) : parts[i][a] = x
  <2>1. PICK i \in 1..k : x \in s[i]
      BY <1>1 DEF Parted
  <2> QED
      BY <1>3, <2>1
<1>6. DOMAIN parts = 1..k /\ Len(parts) = k
    BY <1>2
<1> QED
    BY <1>3, <1>4, <1>5, <1>6 DEF Positions, parts

\* f puts 1..n in another order.
Permutes(f, n) ==
    /\ f \in Seq(1..n) /\ Len(f) = n
    /\ \A i, j \in 1..n : f[i] = f[j] => i = j
    /\ \A x \in 1..n : \E i \in 1..n : f[i] = x

\* Partitions that hold every position once, in a row, permute the positions.
LEMMA PositionsPermute ==
    ASSUME NEW n \in Nat, NEW k \in Nat \ {0}, NEW parts, Positions(parts, n, k)
    PROVE  Permutes(FlattenSeq(parts), n)
<1> DEFINE f == FlattenSeq(parts)
           m == Len(f)
<1>1. f \in Seq(1..n) /\ \E start : Starts(start, f, parts, k)
    BY FlattenIs DEF Positions
<1>2. PICK start : Starts(start, f, parts, k)
    BY <1>1
<1> HIDE DEF f
<1>3. m \in Nat /\ f \in [1..m -> 1..n]
    BY <1>1
<1> HIDE DEF m
<1>4. \A i \in 1..k : \A j \in 1..Len(parts[i]) : start[i] + j \in 1..m /\ f[start[i] + j] = parts[i][j]
    BY <1>2 DEF Starts, m
<1>5. \A p \in 1..m : \E i \in 1..k : \E j \in 1..Len(parts[i]) : p = start[i] + j
    BY <1>2 DEF Starts, m
<1>6. ASSUME NEW p \in 1..m, NEW q \in 1..m, f[p] = f[q]
      PROVE  p = q
  <2>1. PICK i \in 1..k : \E j \in 1..Len(parts[i]) : p = start[i] + j
      BY <1>5
  <2>2. PICK a \in 1..Len(parts[i]) : p = start[i] + a
      BY <2>1
  <2>3. PICK j \in 1..k : \E b \in 1..Len(parts[j]) : q = start[j] + b
      BY <1>5
  <2>4. PICK b \in 1..Len(parts[j]) : q = start[j] + b
      BY <2>3
  <2>5. f[p] = parts[i][a] /\ f[q] = parts[j][b]
      BY <1>4, <2>2, <2>4
  <2>0. parts[i][a] = parts[j][b]
      BY <1>6, <2>5
  <2>6. i = j
      BY <2>0 DEF Positions
  <2>7. a = b
      BY <1>6, <2>5, <2>6 DEF Positions
  <2> QED
      BY <2>2, <2>4, <2>6, <2>7
<1>7. ASSUME NEW x \in 1..n
      PROVE  \E p \in 1..m : f[p] = x
  <2>1. PICK i \in 1..k : \E a \in 1..Len(parts[i]) : parts[i][a] = x
      BY DEF Positions
  <2>2. PICK a \in 1..Len(parts[i]) : parts[i][a] = x
      BY <2>1
  <2> QED
      BY <1>4, <2>2
<1>8. m = n
  <2>1. {f[p] : p \in 1..m} = 1..n
      BY <1>3, <1>7
  <2>2. n <= m
    <3> DEFINE S == 1..m
    <3>1. IsFiniteSet(S) /\ Cardinality(S) = m
        BY <1>3, Interval
    <3>2. {f[p] : p \in S} = 1..n
        BY <2>1
    <3> HIDE DEF S
    <3>3. Cardinality({f[p] : p \in S}) <= Cardinality(S)
        BY <3>1, FiniteImage
    <3>4. Cardinality(1..n) = n
        BY Interval
    <3> QED
        BY <3>1, <3>2, <3>3, <3>4
  <2>3. m <= n
    <3> DEFINE S == 1..n
               g == [x \in 1..n |-> CHOOSE p \in 1..m : f[p] = x]
    <3>1. \A x \in 1..n : g[x] \in 1..m /\ f[g[x]] = x
        BY <1>7
    <3> HIDE DEF g
    <3>2. \A p \in 1..m : f[p] \in 1..n /\ g[f[p]] = p
      <4> TAKE p \in 1..m
      <4>1. f[p] \in 1..n
          BY <1>3
      <4> DEFINE q == g[f[p]]
      <4>2. q \in 1..m /\ f[q] = f[p]
          BY <3>1, <4>1
      <4> HIDE DEF q
      <4>3. q = p
          BY <1>6, <4>2
      <4> QED
          BY <4>1, <4>3 DEF q
    <3>3. {g[x] : x \in S} = 1..m
        BY <3>1, <3>2
    <3>4. IsFiniteSet(S) /\ Cardinality(S) = n
        BY Interval
    <3> HIDE DEF S
    <3>5. Cardinality({g[x] : x \in S}) <= Cardinality(S)
        BY <3>4, FiniteImage
    <3>6. Cardinality(1..m) = m
        BY <1>3, Interval
    <3> QED
        BY <3>3, <3>4, <3>5, <3>6
  <2> QED
      BY <1>3, <2>2, <2>3
<1> QED
    BY <1>1, <1>6, <1>7, <1>8 DEF Permutes, f, m

-----------------------------------------------------------------------------
(* Split *)

\* How many parts of k there are, and where the last one ends.
LEMMA Ceiling ==
    ASSUME NEW n \in Nat \ {0}, NEW k \in Nat \ {0}
    PROVE  LET q == (n + k - 1) \div k
           IN  q \in Nat \ {0} /\ (q - 1) * k < n /\ n <= q * k
<1> DEFINE m == n + k - 1
           q == m \div k
           r == m % k
<1>1. m \in Nat
    OBVIOUS
<1> HIDE DEF m
<1>2. m = k * q + r /\ q \in Nat /\ r \in 0..(k - 1)
    BY <1>1, Quotient, Parts
<1> HIDE DEF q, r
<1>3. (q - 1) * k = k * q - k /\ q * k = k * q /\ k * q \in Int
    BY <1>2
<1>4. (q - 1) * k < n /\ n <= q * k
    BY <1>2, <1>3 DEF m
<1>5. q # 0
    BY <1>2, <1>4
<1> QED
    BY <1>2, <1>4, <1>5 DEF q, m

\* The parts begin at 0, k, 2 * k, ...
SplitAt(s, b, k, q, T) ==
    /\ q \in Nat \ {0} /\ DOMAIN s = 1..q /\ Len(s) = q
    /\ (q - 1) * k < Len(b) /\ Len(b) <= q * k
    /\ \A i \in 1..q : s[i] \in Seq(T) /\ Len(s[i]) > 0
    /\ \A i \in 1..q : /\ (i - 1) * k \in Nat
                       /\ Len(s[i]) = IF i < q THEN k ELSE Len(b) - (q - 1) * k
                       /\ \A j \in 1..Len(s[i]) : /\ (i - 1) * k + j \in 1..Len(b)
                                                  /\ s[i][j] = b[(i - 1) * k + j]

\* DataProto.split and torch.split: parts of k rows, in the order of the rows.
LEMMA SplitIs ==
    ASSUME NEW T, NEW b \in Seq(T), Len(b) > 0, NEW k \in Nat \ {0}
    PROVE  SplitAt(Split(b, k), b, k, (Len(b) + k - 1) \div k, T)
<1> DEFINE n == Len(b)
           q == (n + k - 1) \div k
           s == Split(b, k)
           end(i) == IF i * k <= n THEN i * k ELSE n
<1>1. n \in Nat \ {0}
    OBVIOUS
<1>2. q \in Nat \ {0} /\ (q - 1) * k < n /\ n <= q * k
    BY <1>1, Ceiling
<1>3. s = [i \in 1..q |-> SubSeq(b, (i - 1) * k + 1, end(i))]
    BY DEF Split
<1> HIDE DEF q, s
<1>4. ASSUME NEW i \in 1..q
      PROVE  /\ (i - 1) * k \in Nat /\ i * k = (i - 1) * k + k
             /\ (i - 1) * k <= (q - 1) * k /\ (i < q => i * k <= (q - 1) * k)
  <2>1. \A a, c \in Int : (a + c) * k = a * k + c * k
      OBVIOUS
  <2>2. \A a \in Nat : a * k \in Nat
      OBVIOUS
  <2>3. i * k = (i - 1) * k + k
      BY <2>1
  <2>4. q - i \in Nat /\ q - 1 = (i - 1) + (q - i) /\ i - 1 \in Nat
      BY <1>2
  <2>5. (q - 1) * k = (i - 1) * k + (q - i) * k
      BY <2>1, <2>4
  <2>6. (i - 1) * k \in Nat /\ (q - i) * k \in Nat
      BY <2>2, <2>4
  <2>7. ASSUME i < q
        PROVE  i * k <= (q - 1) * k
    <3> DEFINE d == (q - 1) - i
    <3>1. d \in Nat /\ q - 1 = i + d /\ i \in Nat
        BY <1>2, <2>7
    <3> HIDE DEF d
    <3>2. (q - 1) * k = i * k + d * k
        BY <2>1, <3>1
    <3>3. i * k \in Nat /\ d * k \in Nat
        BY <2>2, <3>1
    <3> QED
        BY <3>2, <3>3
  <2> QED
      BY <2>3, <2>5, <2>6, <2>7
<1>5. ASSUME NEW i \in 1..q
      PROVE  /\ s[i] \in Seq(T)
             /\ Len(s[i]) = IF i < q THEN k ELSE n - (q - 1) * k
             /\ Len(s[i]) > 0
             /\ \A j \in 1..Len(s[i]) : (i - 1) * k + j \in 1..n /\ s[i][j] = b[(i - 1) * k + j]
  <2> DEFINE a == (i - 1) * k
             e == end(i)
  <2>1. a \in Nat /\ i * k = a + k /\ a < n
      BY <1>1, <1>2, <1>4
  <2>2. e \in Nat /\ e <= n /\ a < e /\ e = (IF i < q THEN a + k ELSE n)
    <3>1. CASE i < q
        BY <1>1, <1>2, <1>4, <2>1, <3>1
    <3>2. CASE ~(i < q)
      <4>1. i = q
          BY <1>2, <3>2
      <4>2. n <= i * k
          BY <1>2, <4>1
      <4> QED
          BY <1>1, <2>1, <3>2, <4>2
    <3> QED
        BY <3>1, <3>2
  <2>3. s[i] = SubSeq(b, a + 1, e)
      BY <1>3
  <2>4. ~(i < q) => a = (q - 1) * k
      BY <1>2
  <2> HIDE DEF a, e
  <2>5. \A p \in (a + 1)..e : b[p] \in T
      BY <1>1, <2>1, <2>2
  <2>6. /\ SubSeq(b, a + 1, e) \in Seq(T)
        /\ Len(SubSeq(b, a + 1, e)) = IF a + 1 <= e THEN e - (a + 1) + 1 ELSE 0
        /\ \A j \in 1..(e - (a + 1) + 1) : SubSeq(b, a + 1, e)[j] = b[(a + 1) + j - 1]
      BY <2>1, <2>2, <2>5, SubSeqProperties
  <2>7. Len(s[i]) = e - a /\ s[i] \in Seq(T) /\ \A j \in 1..(e - a) : s[i][j] = b[a + j]
    <3>1. e - (a + 1) + 1 = e - a /\ a + 1 <= e
        BY <2>1, <2>2
    <3>2. \A j \in 1..(e - a) : (a + 1) + j - 1 = a + j
        BY <2>1
    <3> QED
        BY <2>3, <2>6, <3>1, <3>2
  <2>8. \A j \in 1..(e - a) : a + j \in 1..n
      BY <1>1, <2>1, <2>2
  <2>9. e - a > 0 /\ e - a = IF i < q THEN k ELSE n - (q - 1) * k
      BY <2>1, <2>2, <2>4
  <2> QED
      BY <2>7, <2>8, <2>9 DEF a
<1>6. DOMAIN s = 1..q /\ Len(s) = q
    BY <1>2, <1>3
<1>7. \A i \in 1..q : (i - 1) * k \in Nat
    BY <1>4
<1>8. SplitAt(s, b, k, q, T)
    BY <1>2, <1>5, <1>6, <1>7 DEF SplitAt
<1> QED
    BY <1>8 DEF s, q

\* Put together, the parts are what was split.
LEMMA SplitFlat ==
    ASSUME NEW T, NEW b \in Seq(T), Len(b) > 0, NEW k \in Nat \ {0}
    PROVE  FlattenSeq(Split(b, k)) = b
<1> DEFINE n == Len(b)
           q == (n + k - 1) \div k
           s == Split(b, k)
           f == FlattenSeq(s)
<1>1. SplitAt(s, b, k, q, T)
    BY SplitIs
<1> HIDE DEF s, q
<1>2. q \in Nat \ {0} /\ DOMAIN s = 1..q /\ Len(s) = q
    BY <1>1 DEF SplitAt
<1>3. f \in Seq(T) /\ \E start : Starts(start, f, s, q)
  <2>1. \A i \in 1..q : s[i] \in Seq(T)
      BY <1>1 DEF SplitAt
  <2> QED
      BY <1>2, <2>1, FlattenIs
<1>4. PICK start : Starts(start, f, s, q)
    BY <1>3
<1> HIDE DEF f
<1> DEFINE N == {i \in Nat : i < q => start[i + 1] = i * k}
<1>5. 0 \in N
    BY <1>4 DEF Starts
<1>6. ASSUME NEW i \in N
      PROVE  i + 1 \in N
  <2> SUFFICES ASSUME i + 1 < q
               PROVE  start[i + 2] = (i + 1) * k
      OBVIOUS
  <2> DEFINE m == i + 1
  <2>1. i \in Nat /\ m \in 1..(q - 1) /\ m \in 1..q /\ m < q /\ start[m] = i * k /\ i + 2 = m + 1
      BY <1>2
  <2> HIDE DEF m
  <2>2. start[m + 1] = start[m] + Len(s[m])
      BY <1>4, <2>1 DEF Starts
  <2>3. Len(s[m]) = k
      BY <1>1, <2>1 DEF SplitAt
  <2>4. (i + 1) * k = i * k + k
      BY <2>1
  <2> QED
      BY <2>1, <2>2, <2>3, <2>4
<1>7. \A i \in Nat : i \in N
  <2> HIDE DEF N
  <2>1. N \in SUBSET Nat
      BY DEF N
  <2> QED
      BY <1>5, <1>6, <2>1, Induction
<1>8. \A i \in 1..q : start[i] = (i - 1) * k
  <2> TAKE i \in 1..q
  <2>1. i - 1 \in Nat /\ i - 1 < q /\ (i - 1) + 1 = i
      BY <1>2
  <2>2. i - 1 \in N
      BY <1>7, <2>1
  <2> QED
      BY <2>1, <2>2
<1>9. Len(f) = n
  <2>1. Len(f) = start[q] + Len(s[q]) /\ start[q] = (q - 1) * k
      BY <1>2, <1>4, <1>8 DEF Starts
  <2>2. Len(s[q]) = n - (q - 1) * k /\ (q - 1) * k \in Nat /\ n \in Nat
    <3>1. q \in 1..q /\ ~(q < q)
        BY <1>2
    <3> QED
        BY <1>1, <3>1 DEF SplitAt
  <2> QED
      BY <2>1, <2>2
<1>10. ASSUME NEW p \in 1..n
       PROVE  f[p] = b[p]
  <2>1. PICK i \in 1..q : \E j \in 1..Len(s[i]) : p = start[i] + j
      BY <1>4, <1>9 DEF Starts
  <2>2. PICK j \in 1..Len(s[i]) : p = start[i] + j
      BY <2>1
  <2>3. f[start[i] + j] = s[i][j]
      BY <1>4 DEF Starts
  <2>4. s[i][j] = b[(i - 1) * k + j]
      BY <1>1 DEF SplitAt
  <2> QED
      BY <1>8, <2>2, <2>3, <2>4
<1>11. f = [p \in 1..n |-> f[p]] /\ b = [p \in 1..n |-> b[p]]
    BY <1>3, <1>9
<1> QED
    BY <1>10, <1>11 DEF f, s

-----------------------------------------------------------------------------
(* Micro-batches *)

\* Rows with a length.
HaveLengths(rows) ==
    /\ rows \in Seq(ToSet(rows)) /\ Len(rows) > 0
    /\ \A i \in 1..Len(rows) : rows[i].len \in Nat \ {0}

LEMMA LengthsAre ==
    ASSUME NEW rows, HaveLengths(rows)
    PROVE  /\ Len(rows) \in Nat \ {0} /\ DOMAIN rows = 1..Len(rows)
           /\ Lengths(rows) \in [1..Len(rows) -> Nat]
           /\ \A i \in 1..Len(rows) : Lengths(rows)[i] \in Nat \ {0}
<1>1. Len(rows) \in Nat \ {0} /\ DOMAIN rows = 1..Len(rows)
    BY DEF HaveLengths
<1>2. Lengths(rows) = [i \in 1..Len(rows) |-> rows[i].len]
    BY <1>1 DEF Lengths
<1>3. \A i \in 1..Len(rows) : rows[i].len \in Nat \ {0}
    BY DEF HaveLengths
<1> QED
    BY <1>1, <1>2, <1>3

\* rearrange_micro_batches asks for at least one micro-batch and no more than rows.
LEMMA MicroBatchesIs ==
    ASSUME NEW n \in Nat \ {0}, NEW lens \in [1..n -> Nat], \A i \in 1..n : lens[i] \in Nat \ {0},
           NEW tokens \in Nat \ {0}
    PROVE  MicroBatches(lens, tokens) \in 1..n
<1> DEFINE total == TotalLength(lens)
           q == (total + tokens - 1) \div tokens
<1>1. total \in Nat \ {0}
  <2> DEFINE S == 1..n
             T == {1}
  <2>1. IsFiniteSet(S) /\ T \in SUBSET S /\ \A x \in S : lens[x] \in Nat
      BY Interval
  <2>2. lens[1] \in Nat \ {0} /\ lens[1] \in Int
      OBVIOUS
  <2>3. SumFunctionOnSet(lens, T) = lens[1]
      BY <2>2, SumOfOne
  <2>4. total = SumFunctionOnSet(lens, S)
      BY DEF TotalLength, Weight
  <2> HIDE DEF S, T, total
  <2>5. SumFunctionOnSet(lens, S) \in Nat
      BY <2>1, SumOfNaturals
  <2>6. SumFunctionOnSet(lens, T) <= SumFunctionOnSet(lens, S)
      BY <2>1, SumOfPart
  <2> QED
      BY <2>2, <2>3, <2>4, <2>5, <2>6
<1> HIDE DEF total
<1>2. q \in Nat \ {0}
    BY <1>1, Ceiling
<1>3. Len(lens) = n
    OBVIOUS
<1>4. MicroBatches(lens, tokens) = IF q < n THEN q ELSE n
    BY <1>3 DEF MicroBatches, total
<1> HIDE DEF q
<1> QED
    BY <1>2, <1>4

\* The ranks agree on a number of micro-batches, of one row at least if the
\* shortest rank has enough.
LEMMA AgreedIs ==
    ASSUME NEW w \in Nat \ {0}, NEW rowsOf, DOMAIN rowsOf = 1..w, \A u \in 1..w : HaveLengths(rowsOf[u]),
           NEW tokens \in Nat \ {0}, NEW r
    PROVE  AgreedMicroBatches([u \in DOMAIN rowsOf |-> Lengths(rowsOf[u])], r, tokens) \in Nat \ {0}
<1> DEFINE lensOf == [u \in DOMAIN rowsOf |-> Lengths(rowsOf[u])]
           f == [u \in 1..w |-> MicroBatches(lensOf[u], tokens)]
           S == {f[u] : u \in 1..w}
<1>1. \A u \in 1..w : f[u] \in Nat \ {0}
  <2> TAKE u \in 1..w
  <2> DEFINE n == Len(rowsOf[u])
             lens == Lengths(rowsOf[u])
  <2>1. n \in Nat \ {0} /\ lens \in [1..n -> Nat] /\ \A i \in 1..n : lens[i] \in Nat \ {0}
      BY LengthsAre
  <2>2. lensOf[u] = lens
      OBVIOUS
  <2> HIDE DEF n, lens
  <2>3. MicroBatches(lens, tokens) \in 1..n
      BY <2>1, MicroBatchesIs
  <2> QED
      BY <2>1, <2>2, <2>3
<1>2. AgreedMicroBatches(lensOf, r, tokens) = Max(S)
  <2>1. DOMAIN lensOf = 1..w
      OBVIOUS
  <2>2. {MicroBatches(lensOf[u], tokens) : u \in DOMAIN lensOf} = S
      BY <2>1
  <2> HIDE DEF S, lensOf
  <2> QED
      BY <2>2 DEF AgreedMicroBatches
<1> HIDE DEF f
<1>3. IsFiniteSet(S)
  <2> DEFINE D == 1..w
  <2>1. IsFiniteSet(D)
      BY Interval
  <2> HIDE DEF D
  <2>2. IsFiniteSet({f[u] : u \in D})
      BY <2>1, FiniteImage
  <2> QED
      BY <2>2 DEF D
<1>4. S \in SUBSET Int /\ S # {} /\ S \in SUBSET (Nat \ {0})
  <2>1. 1 \in 1..w
      OBVIOUS
  <2> QED
      BY <1>1, <2>1
<1> HIDE DEF S
<1>5. Max(S) \in S
    BY <1>3, <1>4, MaxIs
<1> QED
    BY <1>2, <1>4, <1>5 DEF lensOf

LEMMA SplitPositions ==
    ASSUME NEW n \in Nat \ {0}, NEW k \in Nat \ {0}
    PROVE  Positions(Split([i \in 1..n |-> i], k), n, (n + k - 1) \div k)
<1> DEFINE b == [i \in 1..n |-> i]
           q == (n + k - 1) \div k
           s == Split(b, k)
           T == 1..n
<1>1. b \in Seq(T) /\ Len(b) = n /\ \A i \in 1..n : b[i] = i
    OBVIOUS
<1> HIDE DEF T, b
<1>2. FlattenSeq(s) = b
    BY <1>1, SplitFlat
<1>3. SplitAt(s, b, k, (Len(b) + k - 1) \div k, T)
  <2>1. Len(b) > 0
      BY <1>1
  <2>2. b \in Seq(T)
      BY <1>1
  <2> QED
      BY <2>1, <2>2, SplitIs
<1>4. SplitAt(s, b, k, q, T)
    BY <1>1, <1>3
<1> HIDE DEF s, q
<1>5. q \in Nat \ {0} /\ DOMAIN s = 1..q /\ Len(s) = q
    BY <1>4 DEF SplitAt
<1>6. \E start : Starts(start, FlattenSeq(s), s, q)
  <2>1. \A i \in 1..q : s[i] \in Seq(T)
      BY <1>4 DEF SplitAt
  <2> QED
      BY <1>5, <2>1, FlattenIs
<1>7. PICK start : Starts(start, b, s, q)
    BY <1>2, <1>6
<1>8. ASSUME NEW x \in 1..n
      PROVE  \E i \in 1..q : \E a \in 1..Len(s[i]) : s[i][a] = x
  <2>1. PICK i \in 1..q : \E a \in 1..Len(s[i]) : x = start[i] + a
      BY <1>1, <1>7 DEF Starts
  <2>2. PICK a \in 1..Len(s[i]) : x = start[i] + a
      BY <2>1
  <2>3. b[start[i] + a] = s[i][a]
      BY <1>7 DEF Starts
  <2> QED
      BY <1>1, <2>2, <2>3
<1>9. ASSUME NEW i \in 1..q, NEW a \in 1..Len(s[i])
      PROVE  a \in 1..k /\ i - 1 \in Nat /\ s[i][a] = (i - 1) * k + a
  <2>1. Len(s[i]) <= k /\ Len(s[i]) \in Nat
    <3>1. Len(s[i]) = IF i < q THEN k ELSE n - (q - 1) * k
        BY <1>1, <1>4 DEF SplitAt
    <3>2. n <= q * k /\ q * k = (q - 1) * k + k /\ (q - 1) * k \in Int
      <4>1. n <= q * k
          BY <1>1, <1>4 DEF SplitAt
      <4>2. \A c \in Int : (c - 1) * k = c * k - k
          OBVIOUS
      <4> QED
          BY <1>5, <4>1, <4>2
    <3>3. Len(s[i]) \in Nat
        BY <1>4 DEF SplitAt
    <3> QED
        BY <3>1, <3>2, <3>3
  <2>2. (i - 1) * k + a \in 1..n /\ s[i][a] = b[(i - 1) * k + a]
      BY <1>1, <1>4 DEF SplitAt
  <2> QED
      BY <1>1, <1>5, <2>1, <2>2
<1>10. ASSUME NEW i \in 1..q, NEW j \in 1..q, NEW a \in 1..Len(s[i]), NEW c \in 1..Len(s[j]), s[i][a] = s[j][c]
       PROVE  i = j /\ a = c
  <2> DEFINE ii == i - 1
             jj == j - 1
  <2>1. ii \in Nat /\ jj \in Nat /\ a \in 1..k /\ c \in 1..k /\ ii * k + a = jj * k + c
      BY <1>9, <1>10
  <2>2. ii = jj => i = j
      BY <1>5
  <2> HIDE DEF ii, jj
  <2>3. ii = jj /\ a = c
      BY <2>1, OneRow
  <2> QED
      BY <2>2, <2>3
<1>11. \A i \in 1..q : s[i] \in Seq(1..n)
    BY <1>4 DEF SplitAt, T
<1>12. /\ \A i \in 1..q : \A a, c \in 1..Len(s[i]) : s[i][a] = s[i][c] => a = c
       /\ \A i, j \in 1..q : \A a \in 1..Len(s[i]) : \A c \in 1..Len(s[j]) : s[i][a] = s[j][c] => i = j
    BY <1>10
<1>13. Positions(s, n, q)
    BY <1>5, <1>8, <1>11, <1>12 DEF Positions
<1> QED
    BY <1>13 DEF s, q, b

-----------------------------------------------------------------------------
(* Calls *)

\* What the assumptions say of a job's settings.
LEMMA ConfigIs ==
    ASSUME NEW c \in Configs
    PROVE  /\ c.dynamic \in BOOLEAN /\ c.padded \in BOOLEAN /\ c.multiModal \in BOOLEAN
           /\ c.tokens \in Nat \ {0} /\ c.refMicro \in Nat \ {0} /\ c.rolloutMicro \in Nat \ {0}
           /\ c.actorMicro \in Nat \ {0} /\ c.criticMicro \in Nat \ {0} /\ c.mini \in Nat \ {0}
           /\ Mini(c) \in Nat \ {0} /\ Mini(c) % c.actorMicro = 0
<1>1. /\ {c.penalty, c.balance, c.padded, c.dynamic, c.multiModal} \subseteq BOOLEAN
      /\ {c.tokens, c.refMicro, c.rolloutMicro, c.actorMicro, c.criticMicro, c.mini}
            \subseteq Nat \ {0}
      /\ c.mini \div World > 0
      /\ (c.mini \div World) % c.actorMicro = 0
    BY ConfigAssumption
<1>2. /\ c.dynamic \in BOOLEAN /\ c.padded \in BOOLEAN /\ c.multiModal \in BOOLEAN
      /\ c.tokens \in Nat \ {0} /\ c.refMicro \in Nat \ {0} /\ c.rolloutMicro \in Nat \ {0}
      /\ c.actorMicro \in Nat \ {0} /\ c.criticMicro \in Nat \ {0} /\ c.mini \in Nat \ {0}
    BY <1>1
<1>3. World \in Nat \ {0}
    BY WorldAssumption
<1> DEFINE m == c.mini
<1>4. m \div World \in Nat
  <2>1. m \in Nat
      BY <1>2
  <2> HIDE DEF m
  <2> QED
      BY <1>3, <2>1, Parts
<1> QED
    BY <1>1, <1>2, <1>4 DEF Mini

\* Where chunk does not fail, its parts have rows.
LEMMA CutSizeIs ==
    ASSUME NEW c \in Configs, NEW n \in Nat \ {0}, NEW k \in Nat \ {0}, Cuttable(c, n, k)
    PROVE  CutSize(c, n, k) \in Nat \ {0}
<1>1. CASE ~c.multiModal
    BY <1>1 DEF CutSize
<1>2. CASE c.multiModal
  <2> DEFINE q == n \div k
  <2>1. q \in Nat
      BY Parts
  <2>2. q > 0
      BY <1>2 DEF Cuttable, Chunkable
  <2>3. CutSize(c, n, k) = PartSize(n, q)
      BY <1>2 DEF CutSize
  <2> HIDE DEF q
  <2>4. q \in Nat \ {0}
      BY <2>1, <2>2
  <2>5. (n + q - 1) \div q \in Nat \ {0}
      BY <2>4, Ceiling
  <2> QED
      BY <2>3, <2>5 DEF PartSize
<1> QED
    BY <1>1, <1>2

LEMMA ForwardMicroIs ==
    ASSUME NEW c \in Configs, NEW called
    PROVE  ForwardMicro(c, called) \in Nat \ {0}
    BY ConfigIs DEF ForwardMicro

\* Rows with lengths for every rank.
ForAllRanks(rowsOf) ==
    DOMAIN rowsOf = 1..World /\ \A u \in 1..World : HaveLengths(rowsOf[u])

\* Micro-batches of either kind hold every row of the rank once.
LEMMA MicrosAre ==
    ASSUME NEW c \in Configs, NEW called, NEW rowsOf, ForAllRanks(rowsOf), NEW r \in 1..World,
           Cuttable(c, Len(rowsOf[r]), ForwardMicro(c, called))
    PROVE  \E q \in Nat \ {0} : Positions(MicrosOf(c, called, rowsOf, r), Len(rowsOf[r]), q)
<1> DEFINE n == Len(rowsOf[r])
           lens == Lengths(rowsOf[r])
<1> USE DEF ForAllRanks
<1>1. n \in Nat \ {0} /\ DOMAIN rowsOf[r] = 1..n /\ lens \in [1..n -> Nat]
    BY LengthsAre
<1>2. World \in Nat \ {0}
    BY WorldAssumption
<1>3. CASE c.dynamic
  <2> DEFINE lensOf == [u \in DOMAIN rowsOf |-> Lengths(rowsOf[u])]
             q == AgreedMicroBatches(lensOf, r, c.tokens)
  <2>1. c.tokens \in Nat \ {0}
      BY ConfigIs
  <2>2. q \in Nat \ {0}
      BY <1>2, <2>1, AgreedIs
  <2>3. MicrosOf(c, called, rowsOf, r) = Partitions(lens, q, FALSE)
    <3>1. lensOf[r] = lens
        OBVIOUS
    <3> QED
        BY <1>3, <3>1 DEF MicrosOf
  <2> HIDE DEF q, lens, n
  <2>4. Positions(Partitions(lens, q, FALSE), n, q)
      BY <1>1, <2>2, PartitionsAre
  <2> QED
      BY <2>2, <2>3, <2>4 DEF n
<1>4. CASE ~c.dynamic
  <2> DEFINE k == CutSize(c, n, ForwardMicro(c, called))
             q == (n + k - 1) \div k
  <2>1. k \in Nat \ {0}
    <3> HIDE DEF n
    <3> QED
        BY <1>1, ForwardMicroIs, CutSizeIs DEF n
  <2>2. MicrosOf(c, called, rowsOf, r) = Split([i \in 1..n |-> i], k)
      BY <1>1, <1>4 DEF MicrosOf
  <2> HIDE DEF k, n
  <2>3. Positions(Split([i \in 1..n |-> i], k), n, q)
      BY <1>1, <2>1, SplitPositions
  <2>4. q \in Nat \ {0}
      BY <1>1, <2>1, Ceiling
  <2> QED
      BY <2>2, <2>3, <2>4 DEF n
<1> QED
    BY <1>3, <1>4

\* Whatever the micro-batches, a rank's answer is its rows' answers in order.
Ids(rows) == [i \in 1..Len(rows) |-> rows[i].id]

\* Whatever the micro-batches, the rank's answer is in the order of its rows.
LEMMA ForwardIs ==
    ASSUME NEW c \in Configs, NEW called, NEW rowsOf, ForAllRanks(rowsOf), NEW r \in 1..World,
           Cuttable(c, Len(rowsOf[r]), ForwardMicro(c, called))
    PROVE  Forward(c, called, rowsOf, r) = Ids(rowsOf[r])
<1> DEFINE rows == rowsOf[r]
           n == Len(rows)
           parts == MicrosOf(c, called, rowsOf, r)
           f == FlattenSeq(parts)
           computed == [p \in DOMAIN f |-> rows[f[p]].id]
           back == ReverseIdx(f)
<1> SUFFICES Forward(c, called, rowsOf, r) = [i \in 1..n |-> rows[i].id]
    BY Zenon DEF Ids
<1>1. n \in Nat \ {0} /\ DOMAIN rows = 1..n
    BY LengthsAre DEF ForAllRanks
<1>2. Forward(c, called, rowsOf, r) = IF c.dynamic THEN Select(computed, back) ELSE computed
    BY DEF Forward
<1>3. Permutes(f, n)
  <2>1. PICK q \in Nat \ {0} : Positions(parts, n, q)
      BY MicrosAre
  <2> HIDE DEF parts, n
  <2> QED
      BY <1>1, <2>1, PositionsPermute
<1>4. ~c.dynamic => \A p \in 1..n : f[p] = p
  <2> SUFFICES ASSUME ~c.dynamic
               PROVE  \A p \in 1..n : f[p] = p
      OBVIOUS
  <2> DEFINE k == CutSize(c, n, ForwardMicro(c, called))
             b == [i \in 1..n |-> i]
             T == 1..n
  <2>1. k \in Nat \ {0}
    <3> HIDE DEF n
    <3> QED
        BY <1>1, ForwardMicroIs, CutSizeIs DEF n
  <2>2. parts = Split(b, k)
      BY <1>1 DEF MicrosOf
  <2>3. b \in Seq(T) /\ Len(b) > 0 /\ \A p \in 1..n : b[p] = p
      BY <1>1
  <2> HIDE DEF k, b, T
  <2>4. FlattenSeq(Split(b, k)) = b
      BY <2>1, <2>3, SplitFlat
  <2> HIDE DEF parts, n
  <2> QED
      BY <2>2, <2>3, <2>4
<1> HIDE DEF f, parts
<1>5. DOMAIN f = 1..n /\ \A p \in 1..n : f[p] \in 1..n
  <2>1. f \in Seq(1..n) /\ Len(f) = n
      BY <1>3 DEF Permutes
  <2> HIDE DEF n
  <2> QED
      BY <2>1
<1>6. \A p \in 1..n : computed[p] = rows[f[p]].id
    BY <1>5
<1>7. computed = [p \in 1..n |-> rows[f[p]].id]
    BY <1>5
<1>8. CASE ~c.dynamic
  <2>1. computed = [p \in 1..n |-> rows[p].id]
      BY <1>4, <1>7, <1>8
  <2> QED
      BY <1>2, <1>8, <2>1
<1>9. CASE c.dynamic
  <2>1. back = [i \in 1..n |-> CHOOSE p \in 1..n : f[p] = i]
      BY <1>5 DEF ReverseIdx
  <2>2. \A i \in 1..n : back[i] \in 1..n /\ f[back[i]] = i
    <3> HIDE DEF back, n
    <3>1. \A i \in 1..n : \E p \in 1..n : f[p] = i
        BY <1>3 DEF Permutes
    <3> QED
        BY <2>1, <3>1
  <2>3. Len(back) = n
      BY <1>1, <2>1
  <2> HIDE DEF back, computed
  <2>4. Select(computed, back) = [i \in 1..n |-> computed[back[i]]]
      BY <2>3 DEF Select
  <2>5. \A i \in 1..n : computed[back[i]] = rows[i].id
      BY <1>6, <2>2
  <2> QED
      BY <1>2, <1>9, <2>4, <2>5
<1> QED
    BY <1>8, <1>9, ConfigIs

-----------------------------------------------------------------------------
(* The divisor *)

LEMMA Divides ==
    ASSUME NEW d \in Nat \ {0}, NEW n \in Nat
    PROVE  /\ n % d = 0 => n \div d \in Nat /\ n = d * (n \div d)
           /\ \A q \in Nat : n = d * q => n % d = 0
<1>1. n = d * (n \div d) + (n % d) /\ n \div d \in Nat /\ n % d \in 0..(d - 1)
    BY Quotient, Parts
<1>2. ASSUME NEW q \in Nat, n = d * q
      PROVE  n % d = 0
  <2> DEFINE p == n \div d
             r == n % d
  <2>1. p * d + r = q * d + 0 /\ p \in Nat /\ r \in 0..(d - 1) /\ 0 \in 0..(d - 1)
    <3>1. n = d * p + r /\ p \in Nat /\ r \in 0..(d - 1)
        BY <1>1
    <3> HIDE DEF p, r
    <3> QED
        BY <1>2, <3>1
  <2> HIDE DEF p, r
  <2>2. r = 0
      BY <2>1, OneQuotient
  <2> QED
      BY <2>2 DEF r
<1>3. n % d = 0 => n = d * (n \div d)
  <2> DEFINE p == n \div d
  <2>1. n % d = 0 => n = d * p + 0
      BY <1>1
  <2>2. d * p \in Int
      BY <1>1
  <2> HIDE DEF p
  <2>3. n % d = 0 => n = d * p
      BY <2>1, <2>2
  <2> QED
      BY <2>3 DEF p
<1> QED
    BY <1>1, <1>2, <1>3

LEMMA DividesOn ==
    ASSUME NEW d \in Nat \ {0}, NEW m \in Nat \ {0}, NEW n \in Nat, n % m = 0, m % d = 0
    PROVE  n % d = 0
<1> DEFINE a == n \div m
           b == m \div d
<1>1. n = m * a /\ a \in Nat
    BY Divides
<1>2. m = d * b /\ b \in Nat
    BY Divides
<1> HIDE DEF a, b
<1>3. n = (d * b) * a
    BY <1>1, <1>2
<1>4. n = d * (b * a) /\ b * a \in Nat
    BY <1>1, <1>2, <1>3
<1> DEFINE q == b * a
<1>5. n = d * q /\ q \in Nat
    BY <1>4
<1> HIDE DEF q
<1> QED
    BY <1>5, Divides

LEMMA Product2 ==
    ASSUME NEW x \in Int, NEW y \in Int
    PROVE  x * y \in Int /\ x * y = y * x
    OBVIOUS

LEMMA Product ==
    ASSUME NEW a \in Nat \ {0}, NEW b \in Nat \ {0}
    PROVE  a * b \in Nat \ {0} /\ (a * b) % a = 0 /\ (a * b) % b = 0
<1> DEFINE n == a * b
<1>1. n \in Nat \ {0}
    OBVIOUS
<1>2. n = a * b /\ n = b * a
    OBVIOUS
<1> HIDE DEF n
<1>3. n % a = 0 /\ n % b = 0
    BY <1>1, <1>2, Divides
<1> QED
    BY <1>1, <1>3 DEF n

\* Where the parts of a split hold k rows and d divides k and all rows, d
\* divides every part.
AllMultiples(s, d, q) == \A i \in 1..q : Len(s[i]) % d = 0

LEMMA SplitDivides ==
    ASSUME NEW s, NEW b, NEW k \in Nat \ {0}, NEW q, NEW T, SplitAt(s, b, k, q, T), Len(b) \in Nat,
           NEW d \in Nat \ {0}, k % d = 0, Len(b) % d = 0
    PROVE  AllMultiples(s, d, q)
<1> SUFFICES ASSUME NEW i \in 1..q
             PROVE  Len(s[i]) % d = 0
    BY DEF AllMultiples
<1>1. q \in Nat \ {0}
    BY DEF SplitAt
<1>2. PICK x \in Nat : k = d * x
    BY Divides
<1> DEFINE n == Len(b)
<1>3. PICK y \in Nat : n = d * y
  <2> HIDE DEF n
  <2>1. n \in Nat /\ n % d = 0
      BY DEF n
  <2> QED
      BY <2>1, Divides
<1>4. CASE i < q
    BY <1>4 DEF SplitAt
<1>5. CASE ~(i < q)
  <2> DEFINE w == y - (q - 1) * x
             l == Len(s[i])
  <2>1. i = q
      BY <1>1, <1>5
  <2>2. l = n - (q - 1) * k /\ l > 0 /\ (q - 1) * k < n
      BY <2>1 DEF SplitAt
  <2>3. (q - 1) * (d * x) = d * ((q - 1) * x)
      BY <1>1
  <2>4. w \in Int /\ d * w = d * y - d * ((q - 1) * x)
      BY <1>1
  <2>5. l = d * w
    <3> DEFINE z == d * ((q - 1) * x)
    <3>1. l = d * y - z
        BY <1>2, <1>3, <2>2, <2>3
    <3>2. d * w = d * y - z
        BY <2>4
    <3> QED
        BY <3>1, <3>2
  <2> HIDE DEF w, l, n
  <2>6. l > 0
      BY <2>2
  <2>7. w \in Nat
      BY <2>4, <2>5, <2>6
  <2>8. l \in Nat
      BY <2>5, <2>7
  <2>9. l % d = 0
      BY <2>5, <2>7, <2>8, Divides
  <2> QED
      BY <2>9 DEF l
<1> QED
    BY <1>4, <1>5

\* Where k divides all rows, every part holds k.
AllFull(s, k, q) == \A i \in 1..q : Len(s[i]) = k

LEMMA SplitFull ==
    ASSUME NEW s, NEW b, NEW k \in Nat \ {0}, NEW q, NEW T, SplitAt(s, b, k, q, T), Len(b) \in Nat,
           Len(b) % k = 0
    PROVE  AllFull(s, k, q)
<1> SUFFICES ASSUME NEW i \in 1..q
             PROVE  Len(s[i]) = k
    BY DEF AllFull
<1>1. q \in Nat \ {0}
    BY DEF SplitAt
<1> DEFINE l == Len(s[i])
<1>2. CASE i < q
    BY <1>2 DEF SplitAt
<1>3. CASE ~(i < q)
  <2>1. i = q
      BY <1>1, <1>3
  <2>2. k % k = 0
      OBVIOUS
  <2>3. l % k = 0
      BY <2>2, SplitDivides DEF AllMultiples
  <2> DEFINE n == Len(b)
             z == (q - 1) * k
  <2>4. l = n - z /\ l > 0 /\ n <= q * k /\ n \in Nat
      BY <2>1 DEF SplitAt
  <2>5. q * k = z + k /\ z \in Int
      BY <1>1
  <2> HIDE DEF l, n, z
  <2>6. l \in 1..k
      BY <2>4, <2>5
  <2>7. PICK w \in Nat : l = k * w
    <3>1. l \in Nat
        BY <2>6
    <3>2. l = k * (l \div k) /\ l \div k \in Nat
        BY <2>3, <3>1, Divides
    <3> QED
        BY <3>2
  <2>8. w = 1
      BY <2>6, <2>7
  <2> QED
      BY <2>7, <2>8 DEF l
<1> QED
    BY <1>2, <1>3

LEMMA FullParts ==
    ASSUME NEW T, NEW b \in Seq(T), Len(b) > 0, NEW k \in Nat \ {0}, Len(b) % k = 0
    PROVE  \A i \in DOMAIN Split(b, k) : Len(Split(b, k)[i]) = k
<1> DEFINE s == Split(b, k)
           q == (Len(b) + k - 1) \div k
<1>1. SplitAt(s, b, k, q, T)
    BY SplitIs
<1> HIDE DEF s, q
<1>2. Len(b) \in Nat /\ DOMAIN s = 1..q
    BY <1>1 DEF SplitAt
<1>3. AllFull(s, k, q)
    BY <1>1, <1>2, SplitFull
<1> QED
    BY <1>2, <1>3 DEF AllFull, s

LEMMA Cancel ==
    ASSUME NEW x \in Nat, NEW y \in Nat, NEW w \in Nat \ {0}, x * w = y * w
    PROVE  x = y
<1>1. x * w + 0 = y * w + 0 /\ 0 \in 0..(w - 1)
    OBVIOUS
<1> QED
    BY <1>1, OneQuotient

\* The ranks' share of a multiple of m rows each is a multiple of m.
IsMultiple(k, m) == \E q \in Nat \ {0} : k = q * m

LEMMA ShareDivides ==
    ASSUME NEW k \in Nat \ {0}, NEW m \in Nat \ {0}, NEW n \in Nat, n = k * World, n % (m * World) = 0
    PROVE  IsMultiple(k, m)
<1>1. World \in Nat \ {0}
    BY WorldAssumption
<1> DEFINE w == m * World
<1>2. w \in Nat \ {0}
    BY <1>1, Product
<1>3. PICK q \in Nat : n = w * q
  <2> HIDE DEF w
  <2>1. n % w = 0
      BY DEF w
  <2> QED
      BY <1>2, <2>1, Divides
<1>4. (m * World) * q = (q * m) * World /\ q * m \in Nat
    BY <1>1
<1> DEFINE y == q * m
<1>5. k * World = y * World /\ y \in Nat
    BY <1>3, <1>4
<1> HIDE DEF y
<1>6. k = y
    BY <1>1, <1>5, Cancel
<1>7. q # 0
    BY <1>6 DEF y
<1> QED
    BY <1>6, <1>7 DEF IsMultiple, y

\* chunk cuts a multiple of m rows into parts of m, padding or not.
LEMMA EvenCut ==
    ASSUME NEW q \in Nat \ {0}, NEW m \in Nat \ {0}, NEW n \in Nat, n = q * m, NEW padded
    PROVE  PartSize(n, n \div m) = m /\ Chunkable(n, n \div m, padded)
<1>1. n = m * q
    BY Product2
<1>2. n \div m = q
    BY <1>1, Multiple
<1>3. (q * m + (q - 1)) \div q = m /\ (m * q + (m - 1)) \div m = q
    OBVIOUS
<1>4. n + q - 1 = q * m + (q - 1) /\ n + m - 1 = m * q + (m - 1)
  <2> DEFINE x == q * m
             y == m * q
  <2>1. n = x /\ n = y /\ x \in Int /\ y \in Int
      BY <1>1, Product2
  <2> HIDE DEF x, y
  <2>2. n + q - 1 = x + (q - 1) /\ n + m - 1 = y + (m - 1)
      BY <2>1
  <2> QED
      BY <2>2 DEF x, y
<1>5. PartSize(n, q) = m /\ (n + m - 1) \div m = q
    BY <1>3, <1>4 DEF PartSize
<1>6. n % q = 0
    BY Product
<1>7. Chunkable(n, q, padded)
    BY <1>5, <1>6 DEF Chunkable
<1> QED
    BY <1>2, <1>5, <1>7

LEMMA LcmIs ==
    ASSUME NEW a \in Nat \ {0}, NEW b \in Nat \ {0}
    PROVE  Lcm(a, b) \in Nat \ {0} /\ Lcm(a, b) % a = 0 /\ Lcm(a, b) % b = 0
<1> DEFINE n == a * b
           S == {m \in 1..n : m % a = 0 /\ m % b = 0}
<1>1. n \in Nat \ {0} /\ n % a = 0 /\ n % b = 0
    BY Product
<1>2. Lcm(a, b) = Min(S)
    BY DEF Lcm
<1> HIDE DEF n
<1>3. n \in S /\ S \in SUBSET (1..n)
    BY <1>1
<1>4. IsFiniteSet(S) /\ S # {} /\ S \in SUBSET Int
  <2>1. IsFiniteSet(1..n)
      BY <1>1, Interval
  <2> DEFINE I == 1..n
  <2>2. IsFiniteSet(I) /\ I \in SUBSET Int /\ S \in SUBSET I
      BY <1>1, <1>3, <2>1
  <2> HIDE DEF S, I
  <2>3. IsFiniteSet(S)
      BY <2>2, FS_Subset
  <2> QED
      BY <1>3, <2>2, <2>3
<1>5. Min(S) \in S
  <2> HIDE DEF S
  <2> QED
      BY <1>4, MinIs
<1> QED
    BY <1>1, <1>2, <1>5

\* adjust_batch's divisor is a multiple of the ranks and of what they cut.
LEMMA DivisorIs ==
    ASSUME NEW c \in Configs
    PROVE  /\ Divisor(c) \in Nat \ {0} /\ Divisor(c) % World = 0
           /\ Divisor(c) % (c.rolloutMicro * World) = 0
           /\ ~c.multiModal => Divisor(c) % (c.actorMicro * World) = 0
           /\ c.multiModal => Divisor(c) % c.mini = 0
<1> DEFINE a == c.refMicro * World
           b == c.rolloutMicro * World
           d == c.actorMicro * World
           m == c.mini
           e == IF c.multiModal THEN m ELSE d
<1>1. World \in Nat \ {0} /\ c.multiModal \in BOOLEAN /\ m \in Nat \ {0}
    BY WorldAssumption, ConfigIs
<1>2. a \in Nat \ {0} /\ a % World = 0
  <2>1. c.refMicro \in Nat \ {0}
      BY ConfigIs
  <2> QED
      BY <1>1, <2>1, Product
<1>3. b \in Nat \ {0}
  <2>1. c.rolloutMicro \in Nat \ {0}
      BY ConfigIs
  <2> QED
      BY <1>1, <2>1, Product
<1>4. d \in Nat \ {0}
  <2>1. c.actorMicro \in Nat \ {0}
      BY ConfigIs
  <2> QED
      BY <1>1, <2>1, Product
<1>5. Divisor(c) = Lcm(Lcm(a, b), e)
    BY DEF Divisor
<1> HIDE DEF a, b, d, m
<1>6. e \in Nat \ {0}
    BY <1>1, <1>4
<1> HIDE DEF e
<1> DEFINE l == Lcm(a, b)
           n == Lcm(l, e)
<1>7. l \in Nat \ {0} /\ l % a = 0 /\ l % b = 0
    BY <1>2, <1>3, LcmIs
<1> HIDE DEF l
<1>8. n \in Nat \ {0} /\ n % l = 0 /\ n % e = 0
    BY <1>6, <1>7, LcmIs
<1>9. Divisor(c) = n
    BY <1>5 DEF l
<1> HIDE DEF n
<1>10. l % World = 0
    BY <1>1, <1>2, <1>7, DividesOn
<1>11. n % World = 0
    BY <1>1, <1>7, <1>8, <1>10, DividesOn
<1>12. n % b = 0
    BY <1>3, <1>7, <1>8, DividesOn
<1> QED
    BY <1>8, <1>9, <1>11, <1>12 DEF b, e, d, m

calls == INSTANCE Dispatch_proofs WITH Methods <- {"values", "log_prob", "update"},
                                       F <- LAMBDA row : row.id

-----------------------------------------------------------------------------
(* Stages *)

\* How many stages are over when the copies have been added.
Adjusted(c) == IF c.trainer = "verl" THEN 2 ELSE 5

Called == {"values", "log_prob", "update"}

\* Where the stages stand in the two orders.
LEMMA StagesAre ==
    ASSUME NEW c
    PROVE  /\ Len(Stages(c)) = 8 /\ Adjusted(c) \in 1..7
           /\ \A d \in 0..7 :
                 /\ Stages(c)[d + 1] = "adjust" <=> d + 1 = Adjusted(c)
                 /\ Stages(c)[d + 1] = "balance" => d >= Adjusted(c)
                 /\ Stages(c)[d + 1] = "update" <=> d = 7
                 /\ Stages(c)[d + 1] # "none"
                 /\ c.trainer # "verl" =>
                       /\ Stages(c)[d + 1] = "returns" <=> d = 0
                       /\ Stages(c)[d + 1] = "values" <=> d = 1
                       /\ Stages(c)[d + 1] = "penalty" <=> d = 2
                       /\ Stages(c)[d + 1] = "advantage" <=> d = 3
<1>1. CASE c.trainer = "verl"
  <2>1. Stages(c) = VerlStages /\ Adjusted(c) = 2
      BY <1>1 DEF Stages, Adjusted
  <2> QED
      BY <1>1, <2>1 DEF VerlStages
<1>2. CASE c.trainer # "verl"
  <2>1. Stages(c) = RecipeStages /\ Adjusted(c) = 5
      BY <1>2 DEF Stages, Adjusted
  <2> QED
      BY <1>2, <2>1 DEF RecipeStages
<1> QED
    BY <1>1, <1>2

-----------------------------------------------------------------------------
(* Rows *)

IsSeq(b) == b \in Seq({b[i] : i \in DOMAIN b})

LEMMA FunctionIsSeq ==
    ASSUME NEW n \in Nat, NEW b, b = [i \in 1..n |-> b[i]]
    PROVE  IsSeq(b) /\ Len(b) = n /\ DOMAIN b = 1..n
<1>1. DOMAIN b = 1..n
    BY Zenon
<1>2. Len(b) = n
    BY <1>1
<1>3. b \in [1..n -> {b[i] : i \in DOMAIN b}]
    BY <1>1
<1> QED
    BY <1>1, <1>2, <1>3 DEF IsSeq

LEMMA SeqIsFunction ==
    ASSUME NEW b, IsSeq(b)
    PROVE  /\ Len(b) \in Nat /\ DOMAIN b = 1..Len(b)
           /\ b = [i \in 1..Len(b) |-> b[i]]
    BY DEF IsSeq

\* A row of a batch that a rollout of n rows has become: it is one of them, and
\* what workers have computed for it is its own.
Fine(row, n) ==
    /\ DOMAIN row = Columns
    /\ row.id \in 1..n /\ row.len \in Nat \ {0}
    /\ row.value \in {0, row.id} /\ row.logp \in {0, row.id}

Good(b, n) ==
    /\ IsSeq(b) /\ Len(b) > 0
    /\ \A i \in 1..Len(b) : Fine(b[i], n)

\* Other columns change, and every row stays the row it is.
LEMMA Fine1 ==
    ASSUME NEW row, NEW n, Fine(row, n), NEW x
    PROVE  /\ Fine([row EXCEPT !.ret = x], n) /\ [row EXCEPT !.ret = x].id = row.id
           /\ Fine([row EXCEPT !.adv = x], n) /\ [row EXCEPT !.adv = x].id = row.id
           /\ Fine([row EXCEPT !.score = x], n) /\ [row EXCEPT !.score = x].id = row.id
<1>1. {"id", "len", "value", "logp", "ret", "adv", "score"} \subseteq DOMAIN row
    BY DEF Fine, Columns
<1> QED
    BY <1>1 DEF Fine

LEMMA Fine2 ==
    ASSUME NEW row, NEW n, Fine(row, n)
    PROVE  /\ Fine([row EXCEPT !.value = row.id], n) /\ [row EXCEPT !.value = row.id].id = row.id
           /\ Fine([row EXCEPT !.logp = row.id], n) /\ [row EXCEPT !.logp = row.id].id = row.id
<1>1. {"id", "len", "value", "logp", "ret", "adv", "score"} \subseteq DOMAIN row
    BY DEF Fine, Columns
<1> QED
    BY <1>1 DEF Fine

\* out is b row by row, each row the row it was.
SameRows(out, b, n) ==
    /\ Good(out, n) /\ Len(out) = Len(b)
    /\ \A i \in 1..Len(b) : out[i].id = b[i].id

LEMMA SameRowsIf ==
    ASSUME NEW b, NEW n, Good(b, n), NEW out,
           out = [i \in 1..Len(b) |-> out[i]],
           \A i \in 1..Len(b) : Fine(out[i], n) /\ out[i].id = b[i].id
    PROVE  SameRows(out, b, n)
<1>1. Len(b) \in Nat \ {0}
    BY SeqIsFunction DEF Good
<1>2. IsSeq(out) /\ Len(out) = Len(b)
    BY <1>1, FunctionIsSeq
<1> QED
    BY <1>1, <1>2 DEF SameRows, Good

LEMMA WithReturnsIs ==
    ASSUME NEW c, NEW b, NEW n, Good(b, n)
    PROVE  SameRows(WithReturns(c, b), b, n)
<1> DEFINE returns == IF c.estimator = "graphgpo" THEN PathReturns(b) ELSE StepReturns(b)
           out == [i \in DOMAIN b |-> [b[i] EXCEPT !.ret = returns[i]]]
<1>1. WithReturns(c, b) = out
    BY DEF WithReturns
<1>2. DOMAIN b = 1..Len(b)
    BY SeqIsFunction DEF Good
<1> HIDE DEF returns
<1>3. \A i \in 1..Len(b) : Fine(out[i], n) /\ out[i].id = b[i].id
  <2> TAKE i \in 1..Len(b)
  <2>1. Fine(b[i], n)
      BY DEF Good
  <2> DEFINE x == returns[i]
  <2>2. out[i] = [b[i] EXCEPT !.ret = x]
      BY <1>2
  <2> HIDE DEF out, x
  <2>3. Fine([b[i] EXCEPT !.ret = x], n) /\ [b[i] EXCEPT !.ret = x].id = b[i].id
      BY <2>1, Fine1
  <2> QED
      BY <2>2, <2>3
<1>4. out = [i \in 1..Len(b) |-> out[i]]
    BY <1>2
<1> HIDE DEF out
<1> QED
    BY <1>1, <1>3, <1>4, SameRowsIf

LEMMA WithAdvantagesIs ==
    ASSUME NEW c, NEW b, NEW n, Good(b, n)
    PROVE  SameRows(WithAdvantages(c, b), b, n)
<1> DEFINE out == [i \in DOMAIN b |-> [b[i] EXCEPT !.adv = AdvantageOf(c, b, i)]]
<1>1. WithAdvantages(c, b) = out
    BY DEF WithAdvantages
<1>2. DOMAIN b = 1..Len(b)
    BY SeqIsFunction DEF Good
<1>3. \A i \in 1..Len(b) : Fine(out[i], n) /\ out[i].id = b[i].id
  <2> TAKE i \in 1..Len(b)
  <2>1. Fine(b[i], n)
      BY DEF Good
  <2> DEFINE x == AdvantageOf(c, b, i)
  <2>2. out[i] = [b[i] EXCEPT !.adv = x]
      BY <1>2
  <2> HIDE DEF out, x
  <2>3. Fine([b[i] EXCEPT !.adv = x], n) /\ [b[i] EXCEPT !.adv = x].id = b[i].id
      BY <2>1, Fine1
  <2> QED
      BY <2>2, <2>3
<1>4. out = [i \in 1..Len(b) |-> out[i]]
    BY <1>2
<1> HIDE DEF out
<1> QED
    BY <1>1, <1>3, <1>4, SameRowsIf

LEMMA PenalisedIs ==
    ASSUME NEW c, NEW b, NEW n, Good(b, n)
    PROVE  SameRows(Penalised(c, b), b, n)
<1> DEFINE scored(i) == [b[i] EXCEPT !.score = @ - Penalty]
           ret(i) == IF c.estimator \in StepEstimators THEN b[i].ret - Penalty ELSE b[i].ret
           out == Penalised(c, b)
<1>2. DOMAIN b = 1..Len(b)
    BY SeqIsFunction DEF Good
<1>3. \A i \in 1..Len(b) : Fine(out[i], n) /\ out[i].id = b[i].id
  <2> TAKE i \in 1..Len(b)
  <2>1. Fine(b[i], n)
      BY DEF Good
  <2>2. out[i] = IF b[i].valid THEN b[i]
                 ELSE [b[i] EXCEPT !.score = @ - Penalty,
                                   !.ret = IF c.estimator \in StepEstimators THEN @ - Penalty ELSE @]
      BY <1>2 DEF Penalised
  <2>3. [b[i] EXCEPT !.score = @ - Penalty,
                     !.ret = IF c.estimator \in StepEstimators THEN @ - Penalty ELSE @]
        = [scored(i) EXCEPT !.ret = ret(i)]
      BY <2>1 DEF Fine, Columns
  <2>4. Fine(scored(i), n) /\ scored(i).id = b[i].id
      BY <2>1, Fine1
  <2> HIDE DEF scored, ret, out
  <2>5. Fine([scored(i) EXCEPT !.ret = ret(i)], n) /\ [scored(i) EXCEPT !.ret = ret(i)].id = scored(i).id
      BY <2>4, Fine1
  <2> QED
      BY <2>1, <2>2, <2>3, <2>4, <2>5
<1>4. out = [i \in 1..Len(b) |-> out[i]]
    BY <1>2 DEF Penalised
<1> HIDE DEF out
<1>5. SameRows(out, b, n)
    BY <1>3, <1>4, SameRowsIf
<1> QED
    BY <1>5 DEF out

-----------------------------------------------------------------------------
(* Copies and the balance *)

\* Every row of the rollout is among the rows of b, and none three times.
OnceOrTwice(b, n) ==
    /\ \A x \in 1..n : \E i \in 1..Len(b) : b[i].id = x
    /\ \A i, j, l \in 1..Len(b) : b[i].id = b[j].id /\ b[j].id = b[l].id => i = j \/ j = l \/ i = l

\* The rows are those of the rollout, in their order.
InOrder(b, n) ==
    /\ Len(b) = n
    /\ \A i \in 1..Len(b) : b[i].id = i

\* out holds rows of b.
Drawn(out, b) ==
    /\ Len(out) \in Nat /\ DOMAIN out = 1..Len(out) /\ out = [i \in 1..Len(out) |-> out[i]]
    /\ \A i \in 1..Len(out) : \E j \in 1..Len(b) : out[i] = b[j]

LEMMA DrawnIs ==
    ASSUME NEW b, NEW n, Good(b, n), NEW out, Drawn(out, b), Len(out) > 0
    PROVE  Good(out, n)
<1>1. IsSeq(out)
    BY FunctionIsSeq DEF Drawn
<1>2. \A i \in 1..Len(out) : Fine(out[i], n)
    BY DEF Drawn, Good
<1> QED
    BY <1>1, <1>2 DEF Good

\* The rows at positions that are as many as there are rows to be had.
Balances(out, b, f) ==
    /\ Len(out) = Len(b) /\ DOMAIN out = 1..Len(b)
    /\ \A i \in 1..Len(b) : f[i] \in 1..Len(b) /\ out[i] = b[f[i]]

\* A permutation of good rows is good.
LEMMA PermutedIs ==
    ASSUME NEW b, NEW n, Good(b, n), NEW f, Permutes(f, Len(b))
    PROVE  /\ Good(Select(b, f), n) /\ Balances(Select(b, f), b, f)
<1> DEFINE out == Select(b, f)
<1>1. Len(b) \in Nat \ {0}
    BY SeqIsFunction DEF Good
<1>2. Len(f) = Len(b) /\ \A i \in 1..Len(b) : f[i] \in 1..Len(b)
  <2> DEFINE k == Len(b)
  <2>1. k \in Nat /\ f \in Seq(1..k) /\ Len(f) = k
      BY <1>1 DEF Permutes
  <2> HIDE DEF k
  <2>2. \A i \in 1..k : f[i] \in 1..k
      BY <2>1
  <2> QED
      BY <2>1, <2>2 DEF k
<1>3. out = [i \in 1..Len(b) |-> b[f[i]]]
    BY <1>2, Zenon DEF Select
<1>4. Len(out) = Len(b) /\ DOMAIN out = 1..Len(b) /\ out = [i \in 1..Len(out) |-> out[i]]
    BY <1>1, <1>3
<1>5. \A i \in 1..Len(b) : out[i] = b[f[i]]
    BY <1>3
<1> HIDE DEF out
<1>6. Drawn(out, b)
    BY <1>1, <1>2, <1>4, <1>5 DEF Drawn
<1>7. Good(out, n)
    BY <1>1, <1>4, <1>6, DrawnIs
<1> QED
    BY <1>2, <1>4, <1>5, <1>7 DEF out, Balances

LEMMA PermutedOnceOrTwice ==
    ASSUME NEW b, NEW n, NEW f, Permutes(f, Len(b)), NEW out, Balances(out, b, f), OnceOrTwice(b, n)
    PROVE  OnceOrTwice(out, n)
<1>1. \A x \in 1..n : \E i \in 1..Len(out) : out[i].id = x
  <2> TAKE x \in 1..n
  <2>1. PICK j \in 1..Len(b) : b[j].id = x
      BY DEF OnceOrTwice
  <2>2. PICK i \in 1..Len(b) : f[i] = j
      BY DEF Permutes
  <2> QED
      BY <2>1, <2>2 DEF Balances
<1>2. ASSUME NEW i \in 1..Len(out), NEW j \in 1..Len(out), NEW l \in 1..Len(out),
             out[i].id = out[j].id, out[j].id = out[l].id
      PROVE  i = j \/ j = l \/ i = l
  <2>1. /\ i \in 1..Len(b) /\ j \in 1..Len(b) /\ l \in 1..Len(b)
        /\ f[i] \in 1..Len(b) /\ f[j] \in 1..Len(b) /\ f[l] \in 1..Len(b)
        /\ out[i] = b[f[i]] /\ out[j] = b[f[j]] /\ out[l] = b[f[l]]
      BY DEF Balances
  <2>2. b[f[i]].id = b[f[j]].id /\ b[f[j]].id = b[f[l]].id
      BY <1>2, <2>1
  <2> DEFINE x == f[i]
             y == f[j]
             z == f[l]
  <2>3. x \in 1..Len(b) /\ y \in 1..Len(b) /\ z \in 1..Len(b) /\ b[x].id = b[y].id /\ b[y].id = b[z].id
      BY <2>1, <2>2
  <2> HIDE DEF x, y, z
  <2>4. x = y \/ y = z \/ x = z
      BY <2>3 DEF OnceOrTwice
  <2>5. f[i] = f[j] \/ f[j] = f[l] \/ f[i] = f[l]
      BY <2>4 DEF x, y, z
  <2> QED
      BY <2>1, <2>5 DEF Permutes
<1> QED
    BY <1>1, <1>2 DEF OnceOrTwice

LEMMA LengthsOf ==
    ASSUME NEW b, NEW n, Good(b, n)
    PROVE  /\ Len(b) \in Nat \ {0} /\ HaveLengths(b)
           /\ Lengths(b) \in [1..Len(b) -> Nat]
<1>1. HaveLengths(b)
  <2>1. b \in Seq(ToSet(b))
      BY DEF Good, IsSeq, ToSet
  <2> QED
      BY <2>1 DEF Good, HaveLengths, Fine
<1> QED
    BY <1>1, LengthsAre

\* _balance_batch permutes the rows.
LEMMA BalanceIs ==
    ASSUME NEW b, NEW n, Good(b, n), Len(b) % World = 0
    PROVE  \E f : /\ FlattenSeq(Partitions(Lengths(b), World, TRUE)) = f
                  /\ Permutes(f, Len(b))
<1> DEFINE k == Len(b)
           lens == Lengths(b)
           parts == Partitions(lens, World, TRUE)
<1>1. k \in Nat \ {0} /\ lens \in [1..k -> Nat] /\ World \in Nat \ {0} /\ k % World = 0
    BY LengthsOf, WorldAssumption
<1> HIDE DEF k, lens
<1>2. Positions(Partitions(lens, World, TRUE), k, World)
    BY <1>1, PartitionsAre
<1> HIDE DEF parts
<1>3. Permutes(FlattenSeq(parts), k)
    BY <1>1, <1>2, PositionsPermute DEF parts
<1> QED
    BY <1>3 DEF parts, k, lens

\* The batch with copies added.
LEMMA AdjustIs ==
    ASSUME NEW b, NEW n \in Nat, Good(b, n), InOrder(b, n), NEW d \in Nat \ {0},
           NEW copies \in Copies(Len(b), Missing(Len(b), d))
    PROVE  LET out == b \o Select(b, copies)
           IN  /\ Good(out, n) /\ OnceOrTwice(out, n) /\ Len(out) % d = 0
               /\ Len(b) % d = 0 => Len(out) = Len(b) /\ InOrder(out, n)
               /\ Drawn(out, b)
<1> DEFINE k == Missing(Len(b), d)
           more == Select(b, copies)
           out == b \o more
<1>1. Len(b) = n /\ n \in Nat \ {0} /\ b \in Seq({b[i] : i \in DOMAIN b}) /\ DOMAIN b = 1..n
    BY SeqIsFunction DEF Good, InOrder, IsSeq
<1>2. k \in Nat /\ \E q \in Nat : n + k = d * q
    BY <1>1, calls!Padded DEF Missing, calls!Missing
<1> HIDE DEF k
<1>3. /\ copies \in [1..k -> 1..n]
      /\ \A i, j \in 1..k : i # j => copies[i] # copies[j]
  <2>1. copies \in {f \in [1..k -> 1..n] : \A i, j \in 1..k : i # j => f[i] # f[j]}
      BY <1>1 DEF Copies, k
  <2> QED
      BY <2>1
<1>4. Len(copies) = k
    BY <1>2, <1>3
<1>5. more = [i \in 1..k |-> b[copies[i]]]
    BY <1>4, Zenon DEF Select
<1>6. more \in Seq({b[i] : i \in DOMAIN b}) /\ Len(more) = k
    BY <1>1, <1>2, <1>3, <1>5
<1> DEFINE Row == {b[i] : i \in DOMAIN b}
<1> HIDE DEF more, Row
<1>7. /\ out \in Seq(Row) /\ Len(out) = n + k
      /\ \A i \in 1..(n + k) : out[i] = IF i <= n THEN b[i] ELSE more[i - n]
  <2>1. b \in Seq(Row) /\ more \in Seq(Row)
      BY <1>1, <1>6 DEF Row
  <2>2. out \in Seq(Row) /\ Len(out) = Len(b) + Len(more)
      BY <2>1, ConcatProperties, Zenon
  <2> QED
      BY <1>1, <1>2, <1>6, <2>1, <2>2
<1>8. \A i \in 1..k : more[i] = b[copies[i]]
    BY <1>5
<1> HIDE DEF out
<1>9. DOMAIN out = 1..(n + k) /\ out = [i \in 1..(n + k) |-> out[i]] /\ n + k \in Nat \ {0}
    BY <1>1, <1>2, <1>7
<1>10. ASSUME NEW i \in 1..(n + k)
       PROVE  /\ out[i] = b[IF i <= n THEN i ELSE copies[i - n]]
              /\ (IF i <= n THEN i ELSE copies[i - n]) \in 1..n
  <2>1. CASE i <= n
      BY <1>1, <1>2, <1>7, <2>1
  <2>2. CASE ~(i <= n)
    <3>1. i - n \in 1..k
        BY <1>1, <1>2, <2>2
    <3> QED
        BY <1>3, <1>7, <1>8, <2>2, <3>1
  <2> QED
      BY <2>1, <2>2
<1>11. Drawn(out, b)
    BY <1>1, <1>7, <1>9, <1>10 DEF Drawn
<1>12. Good(out, n)
    BY <1>7, <1>9, <1>11, DrawnIs
<1>13. \A i \in 1..(n + k) : out[i].id = IF i <= n THEN i ELSE copies[i - n]
    BY <1>1, <1>10 DEF InOrder
<1>14. OnceOrTwice(out, n)
  <2>1. ASSUME NEW x \in 1..n
        PROVE  \E i \in 1..Len(out) : out[i].id = x
    <3>1. x \in 1..(n + k) /\ x <= n
        BY <1>1, <1>2
    <3>2. out[x].id = x
        BY <1>13, <3>1
    <3> QED
        BY <1>7, <3>1, <3>2
  <2>2. ASSUME NEW i \in 1..(n + k), NEW j \in 1..(n + k), NEW l \in 1..(n + k),
               out[i].id = out[j].id, out[j].id = out[l].id
        PROVE  i = j \/ j = l \/ i = l
    <3>1. ASSUME NEW u \in 1..(n + k), NEW v \in 1..(n + k), out[u].id = out[v].id, (u <= n) = (v <= n)
          PROVE  u = v
      <4>1. CASE u <= n
          BY <1>1, <1>13, <3>1, <4>1
      <4>2. CASE ~(u <= n)
        <5>1. u - n \in 1..k /\ v - n \in 1..k /\ copies[u - n] = copies[v - n]
            BY <1>1, <1>2, <1>13, <3>1, <4>2
        <5>2. u - n = v - n
            BY <1>3, <5>1
        <5> QED
            BY <1>1, <5>2
      <4> QED
          BY <4>1, <4>2
    <3>2. \/ (i <= n) = (j <= n) \/ (j <= n) = (l <= n) \/ (i <= n) = (l <= n)
        OBVIOUS
    <3> QED
        BY <2>2, <3>1, <3>2
  <2> QED
      BY <1>7, <2>1, <2>2 DEF OnceOrTwice
<1>15. Len(out) % d = 0
  <2>1. PICK q \in Nat : n + k = d * q
      BY <1>2
  <2> DEFINE m == n + k
  <2>2. m \in Nat /\ m = d * q
      BY <1>1, <1>2, <2>1
  <2> HIDE DEF m
  <2>3. m % d = 0
      BY <2>2, Divides
  <2> QED
      BY <1>7, <2>3 DEF m
<1>16. Len(b) % d = 0 => Len(out) = Len(b) /\ InOrder(out, n)
  <2> HAVE Len(b) % d = 0
  <2>1. k = 0
      BY DEF k, Missing
  <2> QED
      BY <1>1, <1>7, <1>13, <2>1 DEF InOrder
<1> QED
    BY <1>11, <1>12, <1>14, <1>15, <1>16 DEF out, more

-----------------------------------------------------------------------------
(* The calls of a job are calls of Dispatch. *)

LEMMA SameBegin ==
    ASSUME NEW m, NEW padded, ranks!Begin(m, padded)
    PROVE  calls!Begin(m, padded)
    BY DEF ranks!Begin, calls!Begin, ranks!Workers, calls!Workers, ranks!Chunk, calls!Chunk,
           ranks!PadLast, calls!PadLast, ranks!Missing, calls!Missing

LEMMA SameEnd ==
    ASSUME ranks!End
    PROVE  calls!End
    BY DEF ranks!End, calls!End, ranks!AllAnswered, calls!AllAnswered, ranks!Workers, calls!Workers,
           ranks!Unpad, calls!Unpad, ranks!Concat, calls!Concat

LEMMA SameFit == CallsFit <=> calls!AnswersFit
    BY DEF CallsFit, ranks!AnswersFit, calls!AnswersFit, ranks!RowWise, calls!RowWise

-----------------------------------------------------------------------------
(* The invariant *)

\* The rows the driver goes on with: during a call those that it asked about.
Kept == IF method = "none" THEN batch ELSE asked

\* The ranks have their shares of the batch, all as large.
Share(k) ==
    /\ Len(batch) = k * World
    /\ shares = [r \in 1..World |-> [j \in 1..k |-> batch[(r - 1) * k + j]]]

\* Rank r can answer.
Sound(r) == Cuts(config, method, shares, r) /\ (NoIndices => method = "update")

InCall ==
    /\ done < 8 /\ method = Stages(config)[done + 1] /\ method \in Called
    /\ batch = [i \in 1..(Len(asked) + padding) |-> calls!Given(i)]
    /\ Len(asked) % World = 0 => padding = 0
    /\ Needed(config, method)
    /\ \A r \in 1..World : answers[r] # << >> => Sound(r)
    /\ error # "none" => \E r \in 1..World : ~Sound(r)

\* While nothing has failed: the order of the rollout until the copies are
\* added, then its rows once or twice and a number that divides.
KeptInv ==
    /\ done < Adjusted(config) => InOrder(Kept, Len(rolled))
    /\ done >= Adjusted(config) =>
          OnceOrTwice(Kept, Len(rolled)) /\ Len(Kept) % Divisor(config) = 0
    /\ Len(rolled) % Divisor(config) = 0 => Len(Kept) = Len(rolled)

JobInv ==
    /\ config \in Configs /\ rolled \in Batches /\ done \in 0..8
    /\ Good(batch, Len(rolled))
    /\ calls!CallInv
    /\ method # "none" => InCall
    /\ method # "none" \/ done = 8 => \E k \in Nat \ {0} : Share(k)
    /\ error = "none" => KeptInv
    /\ AlignedGoesThrough

LEMMA SameSound ==
    ASSUME UNCHANGED <<config, method, shares>>
    PROVE  \A r : Sound(r)' <=> Sound(r)
    BY DEF Sound, NoIndices, Cuts, Cuttable, MiniBatches, CutSize, Mini, ForwardMicro

LEMMA SameThrough ==
    ASSUME UNCHANGED <<config, rolled, error>>
    PROVE  AlignedGoesThrough' <=> AlignedGoesThrough
    BY DEF AlignedGoesThrough, Aligned, Divisor, Multiplied, NoIndices

\* What the invariant says when a stage of the driver begins.
LEMMA BetweenCalls ==
    ASSUME JobInv, NEW stage, Reached(stage)
    PROVE  /\ config \in Configs /\ rolled \in Batches /\ done \in 0..7 /\ Kept = batch
           /\ Good(batch, Len(rolled)) /\ KeptInv /\ Len(rolled) \in Nat \ {0}
           /\ error = "none" /\ method = "none"
           /\ stage = Stages(config)[done + 1]
<1>1. Len(Stages(config)) = 8
    BY StagesAre
<1>2. rolled \in Seq(ToSet(rolled)) /\ rolled # << >>
    BY BatchAssumption DEF JobInv
<1>3. Len(rolled) \in Nat \ {0}
  <2> DEFINE T == ToSet(rolled)
  <2>1. rolled \in Seq(T)
      BY <1>2
  <2> HIDE DEF T
  <2> QED
      BY <1>2, <2>1
<1> QED
    BY <1>1, <1>3 DEF JobInv, Reached, Kept

\* A stage of the driver that takes its rows one by one, or none of them.
RowByRow ==
    /\ \E stage : Reached(stage) /\ stage \notin {"adjust", "update"}
    /\ SameRows(batch', batch, Len(rolled))
    /\ Continue

LEMMA RowByRowIf ==
    ASSUME JobInv, Skip \/ Returns \/ InvalidPenalty \/ ComputeAdvantage
    PROVE  RowByRow
<1> DEFINE n == Len(rolled)
<1>1. Good(batch, n)
    BY DEF JobInv
<1> HIDE DEF n
<1>2. CASE Skip
  <2>1. /\ \E stage : Reached(stage) /\ stage \notin {"adjust", "update"}
        /\ batch' = batch /\ Continue
      BY <1>2 DEF Skip
  <2>2. SameRows(batch, batch, n)
      BY <1>1 DEF SameRows
  <2> QED
      BY <2>1, <2>2 DEF RowByRow, n
<1>3. CASE Returns
  <2>1. Reached("returns") /\ batch' = WithReturns(config, batch) /\ Continue
      BY <1>3 DEF Returns, At
  <2>2. SameRows(batch', batch, n)
      BY <1>1, <2>1, WithReturnsIs
  <2> QED
      BY <2>1, <2>2 DEF RowByRow, n
<1>4. CASE InvalidPenalty
  <2>1. Reached("penalty") /\ batch' = Penalised(config, batch) /\ Continue
      BY <1>4 DEF InvalidPenalty, At
  <2>2. SameRows(batch', batch, n)
      BY <1>1, <2>1, PenalisedIs
  <2> QED
      BY <2>1, <2>2 DEF RowByRow, n
<1>5. CASE ComputeAdvantage
  <2>1. Reached("advantage") /\ batch' = WithAdvantages(config, batch) /\ Continue
      BY <1>5 DEF ComputeAdvantage, At
  <2>2. SameRows(batch', batch, n)
      BY <1>1, <2>1, WithAdvantagesIs
  <2> QED
      BY <2>1, <2>2 DEF RowByRow, n
<1> QED
    BY <1>2, <1>3, <1>4, <1>5

\* What a stage of the driver leaves alone.
LEMMA CallsIdle ==
    ASSUME JobInv, method = "none", UNCHANGED call
    PROVE  calls!CallInv'
<1>1. calls!CallInv /\ calls!IsSeq(batch) /\ World \in Nat \ {0} /\ "none" \notin Called
    BY WorldAssumption DEF JobInv, Good, IsSeq, calls!IsSeq, Called
<1>2. calls!DriverActs
    BY DEF calls!DriverActs, call, calls!call
<1>3. [calls!Next]_<<batch, calls!call>>
    BY <1>2 DEF calls!Next
<1> QED
    BY <1>1, <1>3, calls!CallStep DEF Called

LEMMA RowByRowKeeps ==
    ASSUME JobInv, RowByRow
    PROVE  JobInv'
<1> DEFINE n == Len(rolled)
<1>1. PICK stage : Reached(stage) /\ stage \notin {"adjust", "update"}
    BY DEF RowByRow
<1>2. /\ config \in Configs /\ rolled \in Batches /\ done \in 0..7 /\ Kept = batch
      /\ Good(batch, n) /\ KeptInv /\ error = "none" /\ method = "none"
      /\ stage = Stages(config)[done + 1]
    BY <1>1, BetweenCalls
<1>3. done + 1 # Adjusted(config) /\ done # 7 /\ Adjusted(config) \in 1..7
    BY <1>1, <1>2, StagesAre
<1>4. SameRows(batch', batch, n) /\ done' = done + 1 /\ UNCHANGED <<config, rolled, error, call>>
    BY DEF RowByRow, Continue
<1>5. calls!CallInv'
    BY <1>2, <1>4, CallsIdle
<1>6. method' = "none" /\ Kept' = batch'
    BY <1>2, <1>4 DEF Kept, call
<1>7. (done' < Adjusted(config)) = (done < Adjusted(config))
    BY <1>2, <1>3, <1>4
<1>8. Good(batch', n) /\ Len(batch') = Len(batch) /\ \A i \in 1..Len(batch) : batch'[i].id = batch[i].id
    BY <1>4 DEF SameRows
<1>9. InOrder(batch, n) => InOrder(batch', n)
    BY <1>8 DEF InOrder
<1>10. OnceOrTwice(batch, n) => OnceOrTwice(batch', n)
    BY <1>8 DEF OnceOrTwice
<1>11. KeptInv'
  <2>1. /\ done' < Adjusted(config) => InOrder(Kept', n)
        /\ ~(done' < Adjusted(config)) => OnceOrTwice(Kept', n) /\ Len(Kept') % Divisor(config) = 0
        /\ n % Divisor(config) = 0 => Len(Kept') = n
    <3>1. done >= Adjusted(config) <=> ~(done < Adjusted(config))
        BY <1>2, <1>3
    <3> HIDE DEF n
    <3> QED
        BY <1>2, <1>6, <1>7, <1>8, <1>9, <1>10, <3>1 DEF KeptInv, n
  <2>2. done' >= Adjusted(config) <=> ~(done' < Adjusted(config))
      BY <1>2, <1>3, <1>4
  <2>3. config' = config /\ rolled' = rolled
      BY <1>4
  <2> QED
      BY <2>1, <2>2, <2>3 DEF KeptInv, Adjusted, Divisor
<1>12. done' \in 0..8 /\ done' # 8
    BY <1>2, <1>3, <1>4
<1>13. AlignedGoesThrough'
    BY <1>4, SameThrough DEF JobInv
<1> QED
    BY <1>2, <1>4, <1>5, <1>6, <1>8, <1>11, <1>12, <1>13 DEF JobInv

-----------------------------------------------------------------------------
(* Stages that change the batch *)

\* The copies: every row once or twice, and a number that the divisor divides.
LEMMA AdjustKeeps ==
    ASSUME JobInv, Adjust
    PROVE  JobInv'
<1> DEFINE n == Len(rolled)
           d == Divisor(config)
<1>1. Reached("adjust") /\ done' = done + 1 /\ UNCHANGED <<config, rolled, error, call>>
    BY DEF Adjust, At, Continue
<1>2. /\ config \in Configs /\ rolled \in Batches /\ done \in 0..7 /\ Kept = batch
      /\ Good(batch, n) /\ KeptInv /\ error = "none" /\ method = "none" /\ n \in Nat \ {0}
      /\ "adjust" = Stages(config)[done + 1]
    BY <1>1, BetweenCalls
<1>3. done + 1 = Adjusted(config) /\ done < 7 /\ Adjusted(config) \in 1..7
  <2>1. /\ "adjust" = "adjust" <=> done + 1 = Adjusted(config)
        /\ Adjusted(config) \in 1..7
      BY <1>2, StagesAre
  <2> QED
      BY <1>2, <2>1
<1>4. InOrder(batch, n)
    BY <1>2, <1>3 DEF KeptInv
<1>5. d \in Nat \ {0}
    BY <1>2, DivisorIs
<1>6. PICK copies \in Copies(Len(batch), Missing(Len(batch), d)) : batch' = batch \o Select(batch, copies)
    BY DEF Adjust
<1> HIDE DEF n, d
<1>7. /\ Good(batch', n) /\ OnceOrTwice(batch', n) /\ Len(batch') % d = 0
      /\ Len(batch) % d = 0 => Len(batch') = Len(batch)
    BY <1>2, <1>4, <1>5, <1>6, AdjustIs
<1>8. calls!CallInv'
    BY <1>1, <1>2, CallsIdle
<1>9. method' = "none" /\ Kept' = batch'
    BY <1>1, <1>2 DEF Kept, call
<1>10. KeptInv'
  <2>1. d' = d /\ n' = n /\ Adjusted(config)' = Adjusted(config)
      BY <1>1 DEF d, n, Divisor, Adjusted
  <2>2. ~(done' < Adjusted(config)')
      BY <1>1, <1>2, <1>3, <2>1
  <2>3. n % d = 0 => Len(batch') = n
      BY <1>4, <1>7 DEF InOrder
  <2> QED
      BY <1>7, <1>9, <2>1, <2>2, <2>3 DEF KeptInv, n, d
<1>11. done' \in 0..8 /\ done' # 8
    BY <1>1, <1>2, <1>3
<1>12. AlignedGoesThrough'
    BY <1>1, SameThrough DEF JobInv
<1> QED
    BY <1>1, <1>2, <1>7, <1>8, <1>9, <1>10, <1>11, <1>12 DEF JobInv, n

\* After the adjustment the ranks divide the rows.
LEMMA WorldDivides ==
    ASSUME NEW c \in Configs, NEW b, NEW n, Good(b, n), Len(b) % Divisor(c) = 0
    PROVE  Len(b) % World = 0
<1> DEFINE m == Len(b)
           d == Divisor(c)
<1>1. m \in Nat /\ d \in Nat \ {0} /\ World \in Nat \ {0} /\ d % World = 0
    BY DivisorIs, LengthsOf, WorldAssumption
<1> HIDE DEF m, d
<1>2. m % d = 0
    BY DEF m, d
<1>3. m % World = 0
    BY <1>1, <1>2, DividesOn
<1> QED
    BY <1>3 DEF m

LEMMA BalanceKeeps ==
    ASSUME JobInv, BalanceBatch
    PROVE  JobInv'
<1> DEFINE n == Len(rolled)
           d == Divisor(config)
<1>1. Reached("balance") /\ done' = done + 1 /\ UNCHANGED <<config, rolled, error, call>>
    BY DEF BalanceBatch, At, Continue
<1>2. /\ config \in Configs /\ rolled \in Batches /\ done \in 0..7 /\ Kept = batch
      /\ Good(batch, n) /\ KeptInv /\ error = "none" /\ method = "none" /\ n \in Nat \ {0}
      /\ "balance" = Stages(config)[done + 1]
    BY <1>1, BetweenCalls
<1>3. done >= Adjusted(config) /\ done < 7 /\ Adjusted(config) \in 1..7
  <2>1. /\ "balance" = "balance" => done >= Adjusted(config)
        /\ "balance" = "update" <=> done = 7
        /\ Adjusted(config) \in 1..7
      BY <1>2, StagesAre
  <2> QED
      BY <1>2, <2>1
<1>4. OnceOrTwice(batch, n) /\ Len(batch) % d = 0 /\ (n % d = 0 => Len(batch) = n)
    BY <1>2, <1>3 DEF KeptInv
<1>5. Len(batch) % World = 0
    BY <1>2, <1>4, WorldDivides
<1>6. batch' = Select(batch, FlattenSeq(Partitions(Lengths(batch), World, TRUE)))
    BY DEF BalanceBatch
<1> HIDE DEF n, d
<1>7. PICK f : /\ FlattenSeq(Partitions(Lengths(batch), World, TRUE)) = f
               /\ Permutes(f, Len(batch))
    BY <1>2, <1>5, BalanceIs
<1>8. Good(batch', n) /\ Balances(batch', batch, f)
    BY <1>2, <1>6, <1>7, PermutedIs
<1>9. OnceOrTwice(batch', n) /\ Len(batch') = Len(batch)
    BY <1>4, <1>7, <1>8, PermutedOnceOrTwice DEF Balances
<1>10. calls!CallInv'
    BY <1>1, <1>2, CallsIdle
<1>11. method' = "none" /\ Kept' = batch'
    BY <1>1, <1>2 DEF Kept, call
<1>12. KeptInv'
  <2>1. d' = d /\ n' = n /\ Adjusted(config)' = Adjusted(config)
      BY <1>1 DEF d, n, Divisor, Adjusted
  <2>2. ~(done' < Adjusted(config)')
      BY <1>1, <1>2, <1>3, <2>1
  <2> QED
      BY <1>4, <1>9, <1>11, <2>1, <2>2 DEF KeptInv, n, d
<1>13. done' \in 0..8 /\ done' # 8
    BY <1>1, <1>2, <1>3
<1>14. AlignedGoesThrough'
    BY <1>1, SameThrough DEF JobInv
<1> QED
    BY <1>1, <1>2, <1>8, <1>10, <1>11, <1>12, <1>13, <1>14 DEF JobInv, n

\* Neither the copies nor the shares fail for a batch that divides.
LEMMA AdjustFailsKeeps ==
    ASSUME JobInv, AdjustFails
    PROVE  JobInv'
<1> DEFINE n == Len(rolled)
           d == Divisor(config)
<1>1. /\ Reached("adjust") /\ Missing(Len(batch), d) > Len(batch)
      /\ error' = "copies" /\ UNCHANGED <<config, rolled, done, batch, call>>
    BY DEF AdjustFails, At, Raise
<1>2. config \in Configs /\ Kept = batch /\ Good(batch, n) /\ KeptInv /\ method = "none" /\ done \in 0..7
    BY <1>1, BetweenCalls
<1>3. n % d # 0
  <2> SUFFICES ASSUME n % d = 0 PROVE FALSE
      OBVIOUS
  <2>1. Len(batch) % d = 0
      BY <1>2 DEF KeptInv
  <2>2. Missing(Len(batch), d) = 0
      BY <2>1 DEF Missing
  <2>3. Len(batch) \in Nat
      BY <1>2, LengthsOf
  <2> QED
      BY <1>1, <2>2, <2>3
<1>4. calls!CallInv' /\ method' = "none"
    BY <1>1, <1>2, CallsIdle DEF call
<1>5. n' = n /\ d' = d
    BY <1>1 DEF Divisor
<1> HIDE DEF n, d
<1>6. n' % d' # 0
    BY <1>3, <1>5
<1>7. AlignedGoesThrough'
    BY <1>6 DEF AlignedGoesThrough, Aligned, n, d
<1> QED
    BY <1>1, <1>2, <1>4, <1>7 DEF JobInv, n

\* A null size fails whether the batch divides or not.
LEMMA NoSizeKeeps ==
    ASSUME JobInv, NoSize
    PROVE  JobInv'
<1>1. /\ Reached("adjust") /\ config.unset \cap Multiplied(config) # {}
      /\ error' = "size" /\ UNCHANGED <<config, rolled, done, batch, call>>
    BY DEF NoSize, At, Raise
<1>2. config \in Configs /\ Good(batch, Len(rolled)) /\ method = "none" /\ done \in 0..7
    BY <1>1, BetweenCalls
<1>3. calls!CallInv' /\ method' = "none"
    BY <1>1, <1>2, CallsIdle DEF call
<1>4. AlignedGoesThrough'
    BY <1>1 DEF AlignedGoesThrough, Multiplied
<1> QED
    BY <1>1, <1>2, <1>3, <1>4 DEF JobInv

LEMMA CallFailsKeeps ==
    ASSUME JobInv, NEW stage \in Called, CallFails(stage)
    PROVE  JobInv'
<1> DEFINE n == Len(rolled)
           d == Divisor(config)
<1>1. /\ Reached(stage) /\ Len(batch) % World # 0
      /\ error' = "chunk" /\ UNCHANGED <<config, rolled, done, batch, call>>
    BY DEF CallFails, At, Raise
<1>2. config \in Configs /\ Kept = batch /\ Good(batch, n) /\ KeptInv /\ method = "none" /\ done \in 0..7
    BY <1>1, BetweenCalls
<1>3. n % d # 0
  <2> SUFFICES ASSUME n % d = 0 PROVE FALSE
      OBVIOUS
  <2>1. Len(batch) % d = 0
      BY <1>2 DEF KeptInv
  <2>2. Len(batch) % World = 0
      BY <1>2, <2>1, WorldDivides
  <2> QED
      BY <1>1, <2>2
<1>4. calls!CallInv' /\ method' = "none"
    BY <1>1, <1>2, CallsIdle DEF call
<1>5. n' = n /\ d' = d
    BY <1>1 DEF Divisor
<1> HIDE DEF n, d
<1>6. n' % d' # 0
    BY <1>3, <1>5
<1>7. AlignedGoesThrough'
    BY <1>6 DEF AlignedGoesThrough, Aligned, n, d
<1> QED
    BY <1>1, <1>2, <1>4, <1>7 DEF JobInv, n

\* Between a call's begin and its end only answers come in.
LEMMA Waiting ==
    ASSUME JobInv, method # "none", UNCHANGED <<config, rolled, done, batch, method, asked, shares, padding>>
    PROVE  /\ Good(batch', Len(rolled')) /\ config' \in Configs /\ rolled' \in Batches /\ done' \in 0..8
           /\ \E k \in Nat \ {0} : Share(k)'
           /\ error = "none" => KeptInv'
<1>1. \A k : Share(k)' <=> Share(k)
    BY DEF Share
<1>2. Kept' = Kept
    BY DEF Kept
<1>3. KeptInv' <=> KeptInv
    BY <1>2 DEF KeptInv, Adjusted, Divisor
<1>4. \E k \in Nat \ {0} : Share(k)
    BY DEF JobInv
<1> QED
    BY <1>1, <1>3, <1>4 DEF JobInv

-----------------------------------------------------------------------------
(* Calls begin and ranks answer *)

\* A call of the workers, padded or not.
LEMMA CallKeeps ==
    ASSUME JobInv, NEW stage \in Called, Call(stage)
    PROVE  JobInv'
<1> DEFINE n == Len(rolled)
           d == Divisor(config)
<1>1. /\ Reached(stage) /\ Needed(config, stage) /\ ranks!Begin(stage, config.padded)
      /\ UNCHANGED <<config, rolled, done, error, trained>>
    BY DEF Call, At
<1>2. /\ config \in Configs /\ rolled \in Batches /\ done \in 0..7 /\ Kept = batch
      /\ Good(batch, n) /\ KeptInv /\ error = "none" /\ method = "none" /\ n \in Nat \ {0}
      /\ stage = Stages(config)[done + 1]
    BY <1>1, BetweenCalls
<1>3. calls!Begin(stage, config.padded) /\ config.padded \in BOOLEAN
    BY <1>1, <1>2, SameBegin, ConfigIs
<1>4. World \in Nat \ {0} /\ calls!IsSeq(batch) /\ stage # "none"
    BY <1>2, WorldAssumption DEF Good, IsSeq, calls!IsSeq, Called
<1>5. /\ padding' \in Nat
      /\ batch' = [i \in 1..(Len(asked') + padding') |-> calls!Given(i)']
      /\ \E k \in Nat \ {0} :
            /\ Len(asked') + padding' = k * World
            /\ shares' = [r \in calls!Workers |-> [j \in 1..k |-> calls!Given((r - 1) * k + j)']]
    BY <1>3, <1>4, calls!BeginCall
<1>6. calls!CallInv'
  <2>1. [calls!Next]_<<batch, calls!call>>
      BY <1>3 DEF calls!Next, Called
  <2>2. calls!CallInv /\ "none" \notin Called
      BY DEF JobInv, Called
  <2> QED
      BY <1>4, <2>1, <2>2, calls!CallStep DEF Called
<1>7. method' = stage /\ asked' = batch /\ answers' = [r \in 1..World |-> << >>]
    BY <1>1 DEF ranks!Begin, ranks!Workers
<1>8. Kept' = batch
    BY <1>4, <1>7 DEF Kept
<1> DEFINE k == Len(batch) + padding'
<1>9. k \in Nat \ {0} /\ Len(batch) \in Nat \ {0} /\ Len(batch) <= k
    BY <1>2, <1>5, LengthsOf
<1>10. batch' = [i \in 1..k |-> batch[IF i <= Len(batch) THEN i ELSE Len(batch)]]
    BY <1>5, <1>7 DEF calls!Given
<1> HIDE DEF n, d, k
<1>11. Len(batch') = k /\ DOMAIN batch' = 1..k /\ batch' = [i \in 1..Len(batch') |-> batch'[i]]
    BY <1>9, <1>10
<1>12. Drawn(batch', batch)
  <2>1. ASSUME NEW i \in 1..Len(batch')
        PROVE  \E j \in 1..Len(batch) : batch'[i] = batch[j]
    <3> DEFINE j == IF i <= Len(batch) THEN i ELSE Len(batch)
    <3>1. i \in 1..k
        BY <1>11, <2>1
    <3>2. batch'[i] = batch[j]
        BY <1>10, <3>1
    <3>3. j \in 1..Len(batch)
        BY <1>9, <3>1
    <3> QED
        BY <3>2, <3>3
  <2>2. Len(batch') \in Nat /\ DOMAIN batch' = 1..Len(batch')
      BY <1>9, <1>11
  <2> QED
      BY <1>11, <2>1, <2>2 DEF Drawn
<1>13. Good(batch', n)
    BY <1>2, <1>9, <1>11, <1>12, DrawnIs
<1>14. \E m \in Nat \ {0} : Share(m)'
  <2>1. PICK m \in Nat \ {0} :
            /\ k = m * World
            /\ shares' = [r \in 1..World |-> [j \in 1..m |-> calls!Given((r - 1) * m + j)']]
      BY <1>5, <1>7 DEF k, calls!Workers
  <2>2. ASSUME NEW r \in 1..World, NEW j \in 1..m
        PROVE  batch'[(r - 1) * m + j] = calls!Given((r - 1) * m + j)'
    <3>1. (r - 1) * m + j \in 1..(m * World)
        BY <1>4, InShare
    <3> DEFINE i == (r - 1) * m + j
    <3>2. i \in 1..k
        BY <2>1, <3>1
    <3> HIDE DEF i
    <3>3. batch' = [x \in 1..k |-> calls!Given(x)']
        BY <1>5, <1>7 DEF k
    <3>4. batch'[i] = calls!Given(i)'
        BY <3>2, <3>3
    <3> QED
        BY <3>4 DEF i
  <2>3. [r \in 1..World |-> [j \in 1..m |-> calls!Given((r - 1) * m + j)']]
        = [r \in 1..World |-> [j \in 1..m |-> batch'[(r - 1) * m + j]]]
      BY <2>2
  <2>4. shares' = [r \in 1..World |-> [j \in 1..m |-> batch'[(r - 1) * m + j]]]
      BY <2>1, <2>3
  <2> QED
      BY <1>11, <2>1, <2>4 DEF Share
<1>15. KeptInv'
    BY <1>1, <1>2, <1>8 DEF KeptInv, Adjusted, Divisor
<1>16. InCall'
  <2>1. done' < 8 /\ method' = Stages(config')[done' + 1] /\ method' \in Called
      BY <1>1, <1>2, <1>7
  <2>2. Stages(config)' = Stages(config')
      BY <1>1 DEF Stages
  <2>3. Len(asked') % World = 0 => padding' = 0
    <3>1. padding' = Missing(Len(batch), World) \/ padding' = 0
        BY <1>1 DEF ranks!Begin, ranks!Missing, Missing
    <3> QED
        BY <1>7, <3>1 DEF Missing
  <2>4. \A r \in 1..World : answers'[r] = << >>
      BY <1>7
  <2>5. error' = "none" /\ Needed(config, method)'
      BY <1>1, <1>2, <1>7 DEF Needed, StepEstimators
  <2> QED
      BY <1>5, <2>1, <2>2, <2>3, <2>4, <2>5 DEF InCall
<1>17. AlignedGoesThrough'
    BY <1>1, <1>2 DEF AlignedGoesThrough
<1> QED
    BY <1>1, <1>2, <1>6, <1>13, <1>14, <1>15, <1>16, <1>17 DEF JobInv, n

\* A rank's share as rows with lengths.
LEMMA ShareIs ==
    ASSUME NEW n, Good(batch, n), NEW k \in Nat \ {0}, Share(k)
    PROVE  /\ DOMAIN shares = 1..World
           /\ \A r \in 1..World : Good(shares[r], n) /\ Len(shares[r]) = k /\ DOMAIN shares[r] = 1..k
           /\ \A r \in 1..World : \A j \in 1..k :
                 /\ (r - 1) * k + j \in 1..Len(batch)
                 /\ shares[r][j] = batch[(r - 1) * k + j]
<1>1. World \in Nat \ {0}
    BY WorldAssumption
<1>2. Len(batch) = k * World /\ shares = [r \in 1..World |-> [j \in 1..k |-> batch[(r - 1) * k + j]]]
    BY DEF Share
<1>3. ASSUME NEW r \in 1..World
      PROVE  /\ Good(shares[r], n) /\ Len(shares[r]) = k /\ DOMAIN shares[r] = 1..k
             /\ \A j \in 1..k : /\ (r - 1) * k + j \in 1..Len(batch)
                                /\ shares[r][j] = batch[(r - 1) * k + j]
  <2>1. shares[r] = [j \in 1..k |-> batch[(r - 1) * k + j]]
      BY <1>2
  <2> DEFINE at == [j \in 1..k |-> (r - 1) * k + j]
             s == shares[r]
  <2>2. \A j \in 1..k : at[j] \in 1..(k * World)
      BY <1>1, InShare
  <2>3. s = [j \in 1..k |-> batch[at[j]]]
      BY <2>1
  <2> HIDE DEF at, s
  <2>4. Len(s) = k /\ DOMAIN s = 1..k /\ s = [j \in 1..Len(s) |-> s[j]] /\ Len(s) > 0
      BY <2>3
  <2>5. \A j \in 1..k : at[j] \in 1..Len(batch) /\ s[j] = batch[at[j]]
      BY <1>2, <2>2, <2>3
  <2>6. Drawn(s, batch)
      BY <2>4, <2>5 DEF Drawn
  <2>7. Good(s, n)
      BY <2>4, <2>6, DrawnIs
  <2> QED
      BY <2>4, <2>5, <2>7 DEF s, at
<1> QED
    BY <1>2, <1>3

\* During a call the driver keeps what it asked about, and the padding.
LEMMA AskedIs ==
    ASSUME JobInv, method # "none"
    PROVE  /\ IsSeq(asked) /\ Len(asked) \in Nat \ {0} /\ padding \in Nat
           /\ Len(batch) = Len(asked) + padding
           /\ padding = 0 => batch = asked
<1>1. calls!CallInv /\ InCall
    BY DEF JobInv
<1>2. IsSeq(asked) /\ Len(asked) \in Nat \ {0} /\ padding \in Nat
  <2>1. calls!IsSeq(asked) /\ Len(asked) > 0 /\ padding \in Nat
      BY <1>1 DEF calls!CallInv
  <2>2. IsSeq(asked)
      BY <2>1 DEF calls!IsSeq, IsSeq
  <2> QED
      BY <2>1, <2>2, SeqIsFunction
<1> DEFINE k == Len(asked) + padding
<1>3. k \in Nat /\ batch = [i \in 1..k |-> calls!Given(i)]
    BY <1>1, <1>2 DEF InCall
<1>4. Len(batch) = k
    BY <1>3
<1>5. padding = 0 => batch = asked
  <2> HAVE padding = 0
  <2>1. k = Len(asked)
      BY <1>2
  <2>2. asked = [i \in 1..Len(asked) |-> asked[i]]
      BY <1>2, SeqIsFunction
  <2>3. \A i \in 1..Len(asked) : calls!Given(i) = asked[i]
      BY <1>2 DEF calls!Given
  <2> HIDE DEF k
  <2> QED
      BY <1>3, <2>1, <2>2, <2>3
<1> QED
    BY <1>2, <1>4, <1>5

\* The rows of an aligned batch divide wherever a rank cuts them.
LEMMA AlignedCuts ==
    ASSUME JobInv, method # "none", error = "none", Aligned(config, Len(rolled)), NEW r \in 1..World
    PROVE  Cuts(config, method, shares, r)
<1> DEFINE n == Len(rolled)
           d == Divisor(config)
           called == method
           rows == shares[r]
           micro == ForwardMicro(config, called)
<1>1. /\ config \in Configs /\ Good(batch, n) /\ KeptInv /\ InCall
      /\ config.multiModal \in BOOLEAN /\ config.padded \in BOOLEAN
    BY ConfigIs DEF JobInv
<1>2. CASE ~config.multiModal
    BY <1>2 DEF Cuts, Cuttable
<1>3. CASE config.multiModal
  <2>1. PICK k \in Nat \ {0} : Share(k)
      BY DEF JobInv
  <2>2. Len(rows) = k /\ DOMAIN shares = 1..World /\ Good(rows, n)
    <3> HIDE DEF n
    <3> QED
        BY <1>1, <2>1, ShareIs
  <2>3. n = k * World /\ n \in Nat
    <3>1. Len(asked) = n /\ n % d = 0
        BY DEF Aligned, KeptInv, Kept, JobInv
    <3>2. d \in Nat \ {0} /\ d % World = 0 /\ World \in Nat \ {0}
        BY <1>1, DivisorIs, WorldAssumption
    <3>3. Len(asked) \in Nat /\ Len(batch) = Len(asked) + padding
        BY AskedIs
    <3> HIDE DEF n, d
    <3>4. n % World = 0
        BY <3>1, <3>2, <3>3, DividesOn
    <3>5. padding = 0
        BY <1>1, <3>1, <3>4 DEF InCall
    <3> QED
        BY <2>1, <3>1, <3>3, <3>5 DEF Share
  <2> HIDE DEF n, called
  <2>4. CASE called # "update"
    <3>1. micro \in Nat \ {0} /\ n % (micro * World) = 0
      <4>1. CASE called = "values"
        <5>1. n % (config.criticMicro * World) = 0
            BY <1>1, <1>3, <4>1 DEF InCall, Needed, StepEstimators, Aligned, n, called
        <5> QED
            BY <1>1, <4>1, <5>1, ConfigIs DEF ForwardMicro
      <4>2. CASE called # "values"
        <5> DEFINE w == config.rolloutMicro * World
        <5>1. config.rolloutMicro \in Nat \ {0} /\ World \in Nat \ {0}
            BY <1>1, ConfigIs, WorldAssumption
        <5>2. w \in Nat \ {0} /\ d % w = 0 /\ d \in Nat \ {0} /\ n % d = 0
            BY <1>1, <5>1, Product, DivisorIs DEF Aligned, n
        <5> HIDE DEF w, d
        <5>3. n % w = 0
            BY <2>3, <5>2, DividesOn
        <5> QED
            BY <4>2, <5>1, <5>3 DEF ForwardMicro, w
      <4> QED
          BY <4>1, <4>2
    <3> HIDE DEF micro
    <3>2. PICK q \in Nat \ {0} : k = q * micro
      <4>1. IsMultiple(k, micro)
          BY <2>3, <3>1, ShareDivides
      <4> QED
          BY <4>1 DEF IsMultiple
    <3>3. Chunkable(k, k \div micro, config.padded)
      <4>1. micro \in Nat \ {0} /\ k \in Nat
          BY <3>1
      <4> QED
          BY <3>2, <4>1, EvenCut, Zenon
    <3> QED
        BY <2>2, <2>4, <3>3 DEF Cuts, Cuttable, micro, called
  <2>5. CASE called = "update"
    <3> DEFINE s == Mini(config)
               a == config.actorMicro
               minis == MiniBatches(config, shares)[r]
    <3>1. s \in Nat \ {0} /\ a \in Nat \ {0} /\ s % a = 0 /\ World \in Nat \ {0} /\ config.mini \in Nat \ {0}
        BY <1>1, ConfigIs, WorldAssumption
    <3>2. PICK q \in Nat \ {0} : k = q * s
      <4> DEFINE m == config.mini
      <4>1. m \in Nat \ {0} /\ d % m = 0 /\ m % World = 0 /\ d \in Nat \ {0} /\ n % d = 0
          BY <1>1, <1>3, <3>1, DivisorIs DEF Aligned, n
      <4>2. s = m \div World
          BY DEF Mini
      <4> HIDE DEF d, m
      <4>3. n % m = 0
          BY <2>3, <4>1, DividesOn
      <4>4. m = World * s /\ s \in Int /\ World \in Int
          BY <3>1, <4>1, <4>2, Divides
      <4> HIDE DEF s
      <4>5. m = s * World
          BY <4>4, Product2
      <4>6. n % (s * World) = 0
          BY <4>3, <4>5
      <4>7. IsMultiple(k, s)
          BY <2>3, <3>1, <4>6, ShareDivides
      <4> QED
          BY <4>7 DEF IsMultiple
    <3>3. Cuttable(config, k, s) /\ CutSize(config, k, s) = s
      <4> HIDE DEF s
      <4>1. PartSize(k, k \div s) = s /\ Chunkable(k, k \div s, config.padded)
        <5>1. s \in Nat \ {0} /\ k \in Nat
            BY <3>1
        <5> QED
            BY <3>2, <5>1, EvenCut, Zenon
      <4> QED
          BY <1>3, <4>1 DEF Cuttable, CutSize
    <3>4. minis = Split(rows, s)
        BY <2>2, <3>3 DEF MiniBatches
    <3> HIDE DEF s, minis, a, rows
    <3>5. \A m \in DOMAIN minis : Len(minis[m]) = s
      <4> DEFINE U == {rows[i] : i \in DOMAIN rows}
      <4>1. rows \in Seq(U) /\ Len(rows) > 0
          BY <2>2 DEF Good, IsSeq
      <4>2. s \in Nat \ {0} /\ Len(rows) % s = 0
        <5>1. q * s \in Nat /\ (q * s) % s = 0
            BY <3>1, Product
        <5> QED
            BY <2>2, <3>1, <3>2, <5>1
      <4> HIDE DEF U
      <4> QED
          BY <3>4, <4>1, <4>2, FullParts
    <3>6. Cuttable(config, s, a)
      <4>1. s = a * (s \div a) /\ s \div a \in Nat
          BY <3>1, Divides
      <4> DEFINE z == s \div a
      <4>2. z \in Nat \ {0} /\ s = z * a
        <5>1. s = a * z /\ z \in Nat
            BY <4>1
        <5> HIDE DEF z
        <5>2. s = z * a /\ z # 0
            BY <3>1, <5>1, Product2
        <5> QED
            BY <5>1, <5>2
      <4> HIDE DEF z
      <4>3. Chunkable(s, s \div a, config.padded)
          BY <1>1, <3>1, <4>2, EvenCut
      <4> QED
          BY <4>3 DEF Cuttable
    <3> QED
        BY <2>2, <2>5, <3>3, <3>5, <3>6 DEF Cuts, minis, s, a, rows, called
  <2> QED
      BY <2>4, <2>5
<1> QED
    BY <1>1, <1>2, <1>3

\* A rank's answer is its rows one by one, which is what Dispatch asks of it.
LEMMA RankKeeps ==
    ASSUME JobInv, NEW r \in 1..World, RankComputes(r) \/ RankUpdates(r)
    PROVE  JobInv' /\ calls!Compute(r, calls!RowWise(shares[r]))
<1>1. /\ method # "none" /\ UNCHANGED <<config, rolled, done, error, batch, method, asked, shares, padding, output>>
      /\ Sound(r)
    BY DEF RankComputes, RankUpdates, ranks!Compute, Sound
<1>2. PICK k \in Nat \ {0} : Share(k)
    BY <1>1 DEF JobInv
<1>3. Good(batch, Len(rolled)) /\ config \in Configs /\ World \in Nat \ {0}
    BY WorldAssumption DEF JobInv
<1> DEFINE n == Len(rolled)
<1> HIDE DEF n
<1>4. /\ DOMAIN shares = 1..World /\ \A u \in 1..World : Good(shares[u], n) /\ DOMAIN shares[u] = 1..Len(shares[u])
    BY <1>2, <1>3, ShareIs DEF n
<1>5. \A u \in 1..World : HaveLengths(shares[u])
    BY <1>4, LengthsOf
<1>6. method # "update" => Forward(config, method, shares, r) = [i \in 1..Len(shares[r]) |-> shares[r][i].id]
  <2> HAVE method # "update"
  <2> DEFINE called == method
  <2>1. config \in Configs /\ ForAllRanks(shares) /\ Cuttable(config, Len(shares[r]), ForwardMicro(config, called))
      BY <1>1, <1>3, <1>4, <1>5 DEF ForAllRanks, Sound, Cuts
  <2> HIDE DEF called
  <2>2. Forward(config, called, shares, r) = Ids(shares[r])
      BY <2>1, ForwardIs
  <2> QED
      BY <2>2, Zenon DEF Ids, called
<1>7. calls!Compute(r, calls!RowWise(shares[r]))
  <2>1. ranks!Compute(r, [i \in 1..Len(shares[r]) |-> shares[r][i].id])
      BY <1>4, <1>6 DEF RankComputes, RankUpdates
  <2> QED
      BY <2>1 DEF ranks!Compute, calls!Compute, calls!RowWise
<1>8. calls!CallInv'
  <2>1. [calls!Next]_<<batch, calls!call>>
      BY <1>7 DEF calls!Next, calls!Workers
  <2>2. calls!CallInv /\ calls!IsSeq(batch) /\ "none" \notin Called
      BY <1>3 DEF JobInv, Called, Good, IsSeq, calls!IsSeq
  <2> QED
      BY <1>3, <2>1, <2>2, calls!CallStep DEF Called
<1>9. InCall'
  <2>1. InCall
      BY <1>1 DEF JobInv
  <2>2. \A u \in 1..World : answers'[u] # << >> => Sound(u)
      BY <1>1, <1>7, <2>1 DEF InCall, calls!Compute
  <2>3. \A i : calls!Given(i)' = calls!Given(i)
      BY <1>1 DEF calls!Given
  <2>4. \A u : Sound(u)' <=> Sound(u)
      BY <1>1, SameSound
  <2>5. batch' = [i \in 1..(Len(asked') + padding') |-> calls!Given(i)']
      BY <1>1, <2>1, <2>3 DEF InCall
  <2>6. Needed(config, method)' /\ Stages(config)' = Stages(config)
      BY <1>1, <2>1 DEF InCall, Needed, StepEstimators, Stages
  <2> QED
      BY <1>1, <2>1, <2>2, <2>4, <2>5, <2>6 DEF InCall
<1>10. /\ Good(batch', Len(rolled')) /\ config' \in Configs /\ rolled' \in Batches /\ done' \in 0..8
       /\ \E m \in Nat \ {0} : Share(m)'
       /\ error = "none" => KeptInv'
    BY <1>1, Waiting
<1>11. AlignedGoesThrough'
    BY <1>1, SameThrough DEF JobInv
<1> QED
    BY <1>1, <1>7, <1>8, <1>9, <1>10, <1>11 DEF JobInv

LEMMA RankFailsKeeps ==
    ASSUME JobInv, NEW r \in 1..World, RankFails(r)
    PROVE  JobInv'
<1>1. /\ method # "none" /\ error = "none" /\ error' # "none" /\ ~Sound(r)
      /\ UNCHANGED <<config, rolled, done, batch, method, asked, shares, answers, padding, output>>
    BY DEF RankFails, Raise, call, Sound
<1>2. /\ Good(batch', Len(rolled')) /\ config' \in Configs /\ rolled' \in Batches /\ done' \in 0..8
      /\ \E m \in Nat \ {0} : Share(m)'
    BY <1>1, Waiting
<1>3. calls!CallInv'
  <2>1. [calls!Next]_<<batch, calls!call>>
      BY <1>1 DEF calls!call
  <2>2. calls!CallInv /\ calls!IsSeq(batch) /\ "none" \notin Called /\ World \in Nat \ {0}
      BY WorldAssumption DEF JobInv, Called, Good, IsSeq, calls!IsSeq
  <2> QED
      BY <2>1, <2>2, calls!CallStep DEF Called
<1>4. InCall'
  <2>1. InCall
      BY <1>1 DEF JobInv
  <2>3. \A i : calls!Given(i)' = calls!Given(i)
      BY <1>1 DEF calls!Given
  <2>4. \A u : Sound(u)' <=> Sound(u)
      BY <1>1, SameSound
  <2>5. batch' = [i \in 1..(Len(asked') + padding') |-> calls!Given(i)']
      BY <1>1, <2>1, <2>3 DEF InCall
  <2>6. Needed(config, method)' /\ Stages(config)' = Stages(config)
      BY <1>1, <2>1 DEF InCall, Needed, StepEstimators, Stages
  <2> QED
      BY <1>1, <2>1, <2>4, <2>5, <2>6 DEF InCall
<1>5. AlignedGoesThrough'
  <2>1. ~(Aligned(config, Len(rolled)) /\ ~NoIndices)
      BY <1>1, AlignedCuts DEF Sound
  <2>2. UNCHANGED <<config, rolled>>
      BY <1>1
  <2> QED
      BY <2>1, <2>2 DEF AlignedGoesThrough, Aligned, Divisor, NoIndices
<1> QED
    BY <1>1, <1>2, <1>3, <1>4, <1>5 DEF JobInv

-----------------------------------------------------------------------------
(* Calls end *)

\* What a call has returned when it ends.
LEMMA EndOfCall ==
    ASSUME JobInv, method # "none", ranks!End
    PROVE  /\ output' = Ids(asked) /\ method' = "none" /\ UNCHANGED <<asked, shares, answers, padding>>
           /\ error = "none" /\ \A r \in 1..World : Sound(r)
           /\ IsSeq(asked) /\ Len(asked) \in Nat \ {0} /\ padding \in Nat
           /\ Len(batch) = Len(asked) + padding
           /\ padding = 0 => batch = asked
           /\ done >= Adjusted(config) => padding = 0
<1>1. calls!End /\ calls!CallInv /\ World \in Nat \ {0} /\ InCall
    BY SameEnd, WorldAssumption DEF JobInv
<1>2. output' = Ids(asked)
  <2>1. output' = calls!RowWise(asked)
      BY <1>1, calls!EndCall
  <2> QED
      BY <2>1, Zenon DEF calls!RowWise, Ids
<1>3. /\ method' = "none" /\ UNCHANGED <<asked, shares, answers, padding>>
      /\ \A r \in 1..World : answers[r] # << >>
    BY <1>1 DEF calls!End, calls!AllAnswered, calls!Workers
<1>4. error = "none" /\ \A r \in 1..World : Sound(r)
    BY <1>1, <1>3 DEF InCall
<1>5. /\ IsSeq(asked) /\ Len(asked) \in Nat \ {0} /\ padding \in Nat
      /\ Len(batch) = Len(asked) + padding
      /\ padding = 0 => batch = asked
    BY AskedIs
<1>6. done >= Adjusted(config) => padding = 0
  <2> HAVE done >= Adjusted(config)
  <2>1. KeptInv /\ Kept = asked /\ config \in Configs
      BY <1>4 DEF JobInv, Kept
  <2> DEFINE m == Len(asked)
             d == Divisor(config)
  <2>2. m \in Nat \ {0} /\ d \in Nat \ {0} /\ d % World = 0
      BY <1>5, <2>1, DivisorIs
  <2>3. m % d = 0
      BY <2>1 DEF KeptInv
  <2> HIDE DEF m, d
  <2>4. m % World = 0
      BY <1>1, <2>2, <2>3, DividesOn
  <2> QED
      BY <1>1, <2>4 DEF InCall, m
<1> QED
    BY <1>2, <1>3, <1>4, <1>5, <1>6

\* The answer is put into its column, every row's own.
LEMMA ColumnIs ==
    ASSUME NEW n, Good(batch, n)
    PROVE  /\ SameRows(Column(batch, Ids(batch)), batch, n)
           /\ method = "values" =>
                 Column(batch, Ids(batch)) = [i \in 1..Len(batch) |-> [batch[i] EXCEPT !.value = batch[i].id]]
           /\ method # "values" =>
                 Column(batch, Ids(batch)) = [i \in 1..Len(batch) |-> [batch[i] EXCEPT !.logp = batch[i].id]]
<1>1. DOMAIN batch = 1..Len(batch)
    BY SeqIsFunction DEF Good
<1> DEFINE out == Column(batch, Ids(batch))
<1>2. \A i \in 1..Len(batch) : Ids(batch)[i] = batch[i].id
    BY DEF Ids
<1>3. method = "values" => out = [i \in 1..Len(batch) |-> [batch[i] EXCEPT !.value = batch[i].id]]
    BY <1>1, <1>2 DEF Column
<1>4. method # "values" => out = [i \in 1..Len(batch) |-> [batch[i] EXCEPT !.logp = batch[i].id]]
    BY <1>1, <1>2 DEF Column
<1> HIDE DEF out
<1>5. \A i \in 1..Len(batch) : Fine(out[i], n) /\ out[i].id = batch[i].id
  <2> TAKE i \in 1..Len(batch)
  <2>1. Fine(batch[i], n)
      BY DEF Good
  <2>2. /\ Fine([batch[i] EXCEPT !.value = batch[i].id], n) /\ [batch[i] EXCEPT !.value = batch[i].id].id = batch[i].id
        /\ Fine([batch[i] EXCEPT !.logp = batch[i].id], n) /\ [batch[i] EXCEPT !.logp = batch[i].id].id = batch[i].id
      BY <2>1, Fine2
  <2> QED
      BY <1>3, <1>4, <2>2
<1>6. out = [i \in 1..Len(batch) |-> out[i]]
    BY <1>3, <1>4
<1>7. SameRows(out, batch, n)
    BY <1>5, <1>6, SameRowsIf
<1> QED
    BY <1>3, <1>4, <1>7 DEF out

\* After a call the driver's batch has its rows, each with its own answer.
LEMMA ReturnIs ==
    ASSUME JobInv, Return
    PROVE  /\ padding = 0 /\ batch = asked /\ output' = Ids(batch)
           /\ SameRows(batch', batch, Len(rolled))
           /\ method' = "none" /\ done' = done + 1 /\ done < 8
           /\ error = "none" /\ UNCHANGED <<config, rolled, error, trained, asked, shares, answers, padding>>
           /\ calls!End /\ method = Stages(config)[done + 1]
<1>1. /\ method # "none" /\ ranks!End /\ done' = done + 1 /\ UNCHANGED <<config, rolled, error, trained>>
      /\ Len(output') = Len(batch) \/ method = "update"
      /\ batch' = IF method = "update" THEN batch ELSE Column(batch, output')
    BY DEF Return
<1>2. /\ output' = Ids(asked) /\ method' = "none" /\ UNCHANGED <<asked, shares, answers, padding>>
      /\ error = "none"
      /\ IsSeq(asked) /\ Len(asked) \in Nat \ {0} /\ padding \in Nat
      /\ Len(batch) = Len(asked) + padding
      /\ padding = 0 => batch = asked
      /\ done >= Adjusted(config) => padding = 0
    BY <1>1, EndOfCall
<1>3. InCall /\ done \in 0..8 /\ Good(batch, Len(rolled))
    BY <1>1 DEF JobInv
<1>4. padding = 0
  <2>1. CASE method = "update"
    <3>1. done \in 0..7 /\ Stages(config)[done + 1] = "update"
        BY <1>3, <2>1 DEF InCall
    <3>2. done = 7 /\ Adjusted(config) \in 1..7
        BY <3>1, StagesAre
    <3> QED
        BY <1>2, <3>2
  <2>2. CASE method # "update"
    <3>1. Len(output') = Len(asked)
        BY <1>2 DEF Ids
    <3> QED
        BY <1>1, <1>2, <2>2, <3>1
  <2> QED
      BY <2>1, <2>2
<1>5. SameRows(batch', batch, Len(rolled))
  <2>1. CASE method = "update"
    <3>1. batch' = batch
        BY <1>1, <2>1
    <3> QED
        BY <1>3, <3>1 DEF SameRows
  <2>2. CASE method # "update"
    <3>1. batch' = Column(batch, Ids(batch))
        BY <1>1, <1>2, <1>4, <2>2
    <3> DEFINE n == Len(rolled)
    <3> HIDE DEF n
    <3>2. SameRows(Column(batch, Ids(batch)), batch, n)
        BY <1>3, ColumnIs DEF n
    <3> QED
        BY <3>1, <3>2 DEF n
  <2> QED
      BY <2>1, <2>2
<1> QED
    BY <1>1, <1>2, <1>3, <1>4, <1>5, SameEnd DEF InCall

-----------------------------------------------------------------------------
(* The job *)

\* The answer joins the batch: row i's own.
LEMMA ReturnKeeps ==
    ASSUME JobInv, Return
    PROVE  JobInv'
<1> DEFINE n == Len(rolled)
           d == Divisor(config)
<1>1. /\ padding = 0 /\ batch = asked /\ SameRows(batch', batch, n)
      /\ method' = "none" /\ done' = done + 1 /\ done < 8
      /\ error = "none" /\ UNCHANGED <<config, rolled, error, trained, asked, shares, answers, padding>>
      /\ calls!End /\ method = Stages(config)[done + 1]
    BY ReturnIs
<1>2. /\ config \in Configs /\ rolled \in Batches /\ done \in 0..7 /\ Kept = batch
      /\ Good(batch, n) /\ KeptInv /\ method # "none" /\ World \in Nat \ {0}
    BY <1>1, WorldAssumption DEF JobInv, Return, Kept
<1>3. method \in Called
    BY <1>2 DEF JobInv, InCall
<1>4. done + 1 # Adjusted(config) /\ Adjusted(config) \in 1..7 /\ (method = "update" <=> done = 7)
  <2>1. /\ method = "adjust" <=> done + 1 = Adjusted(config)
        /\ method = "update" <=> done = 7
        /\ Adjusted(config) \in 1..7
      BY <1>1, <1>2, StagesAre
  <2> QED
      BY <1>3, <2>1 DEF Called
<1>5. calls!CallInv'
  <2>1. [calls!Next]_<<batch, calls!call>>
      BY <1>1 DEF calls!Next
  <2>2. calls!CallInv /\ calls!IsSeq(batch) /\ "none" \notin Called
      BY <1>2 DEF JobInv, Called, Good, IsSeq, calls!IsSeq
  <2> QED
      BY <1>2, <2>1, <2>2, calls!CallStep DEF Called
<1>6. Kept' = batch'
    BY <1>1 DEF Kept
<1>7. (done' < Adjusted(config)) = (done < Adjusted(config))
    BY <1>1, <1>2, <1>4
<1>8. Good(batch', n) /\ Len(batch') = Len(batch) /\ \A i \in 1..Len(batch) : batch'[i].id = batch[i].id
    BY <1>1 DEF SameRows
<1>9. InOrder(batch, n) => InOrder(batch', n)
    BY <1>8 DEF InOrder
<1>10. OnceOrTwice(batch, n) => OnceOrTwice(batch', n)
    BY <1>8 DEF OnceOrTwice
<1>11. KeptInv'
  <2>1. /\ done' < Adjusted(config) => InOrder(Kept', n)
        /\ ~(done' < Adjusted(config)) => OnceOrTwice(Kept', n) /\ Len(Kept') % d = 0
        /\ n % d = 0 => Len(Kept') = n
    <3>1. done >= Adjusted(config) <=> ~(done < Adjusted(config))
        BY <1>2, <1>4
    <3> HIDE DEF n, d
    <3> QED
        BY <1>2, <1>6, <1>7, <1>8, <1>9, <1>10, <3>1 DEF KeptInv, n, d
  <2>2. done' >= Adjusted(config) <=> ~(done' < Adjusted(config))
      BY <1>1, <1>2, <1>4
  <2>3. config' = config /\ rolled' = rolled
      BY <1>1
  <2> QED
      BY <2>1, <2>2, <2>3 DEF KeptInv, Adjusted, Divisor
<1>12. done' = 8 => \E k \in Nat \ {0} : Share(k)'
  <2> HAVE done' = 8
  <2>1. batch' = batch
      BY <1>1, <1>2, <1>4 DEF Return
  <2>2. PICK k \in Nat \ {0} : Share(k)
      BY <1>2 DEF JobInv
  <2>3. Share(k)'
      BY <1>1, <2>1, <2>2 DEF Share
  <2> QED
      BY <2>3
<1>13. done' \in 0..8
    BY <1>1, <1>2
<1>14. AlignedGoesThrough'
    BY <1>1, SameThrough DEF JobInv
<1> QED
    BY <1>1, <1>2, <1>5, <1>8, <1>11, <1>12, <1>13, <1>14 DEF JobInv, n

LEMMA UnionFailsKeeps ==
    ASSUME JobInv, UnionFails
    PROVE  JobInv'
<1> DEFINE n == Len(rolled)
           d == Divisor(config)
<1>1. /\ method # "none" /\ ranks!End /\ error' = "union" /\ Len(output') # Len(batch) /\ method # "update"
      /\ UNCHANGED <<config, rolled, done, trained, batch>>
    BY DEF UnionFails
<1>2. /\ output' = Ids(asked) /\ method' = "none" /\ UNCHANGED <<asked, shares, answers, padding>>
      /\ error = "none" /\ Len(asked) \in Nat \ {0} /\ padding \in Nat
      /\ Len(batch) = Len(asked) + padding
    BY <1>1, EndOfCall
<1>3. /\ config \in Configs /\ rolled \in Batches /\ done \in 0..7 /\ Kept = asked
      /\ Good(batch, n) /\ KeptInv /\ InCall /\ World \in Nat \ {0}
    BY <1>1, <1>2, WorldAssumption DEF JobInv, Kept, InCall
<1>4. n % d # 0
  <2> SUFFICES ASSUME n % d = 0 PROVE FALSE
      OBVIOUS
  <2>1. Len(asked) = n /\ n % d = 0 /\ d \in Nat \ {0} /\ d % World = 0
      BY <1>3, DivisorIs DEF KeptInv
  <2> HIDE DEF d
  <2>2. n \in Nat /\ n % World = 0
    <3>1. n \in Nat
        BY <1>2, <2>1
    <3> HIDE DEF n
    <3> QED
        BY <1>3, <2>1, <3>1, DividesOn
  <2>3. padding = 0
      BY <1>3, <2>1, <2>2 DEF InCall
  <2>4. Len(output') = Len(asked)
      BY <1>2 DEF Ids
  <2> QED
      BY <1>1, <1>2, <2>3, <2>4
<1>5. calls!CallInv'
  <2>1. [calls!Next]_<<batch, calls!call>>
      BY <1>1, SameEnd DEF calls!Next
  <2>2. calls!CallInv /\ calls!IsSeq(batch) /\ "none" \notin Called
      BY <1>3 DEF JobInv, Called, Good, IsSeq, calls!IsSeq
  <2> QED
      BY <1>3, <2>1, <2>2, calls!CallStep DEF Called
<1>6. done # 7
  <2>1. method = "update" <=> done = 7
    <3>1. method = Stages(config)[done + 1]
        BY <1>3 DEF InCall
    <3> QED
        BY <1>3, <3>1, StagesAre
  <2> QED
      BY <1>1, <2>1
<1>7. n' = n /\ d' = d
    BY <1>1 DEF Divisor
<1> HIDE DEF n, d
<1>8. n' % d' # 0
    BY <1>4, <1>7
<1>9. AlignedGoesThrough'
    BY <1>8 DEF AlignedGoesThrough, Aligned, n, d
<1> QED
    BY <1>1, <1>2, <1>3, <1>5, <1>6, <1>9 DEF JobInv, n

LEMMA JobInit ==
    ASSUME Init
    PROVE  JobInv
<1> DEFINE n == Len(rolled)
<1>1. config \in Configs /\ rolled \in Batches /\ batch = rolled /\ done = 0 /\ error = "none" /\ method = "none"
    BY DEF Init, ranks!Idle
<1>2. /\ batch # << >> /\ batch \in Seq(ToSet(batch))
      /\ \A i \in DOMAIN batch :
            /\ DOMAIN batch[i] = Columns
            /\ batch[i].id = i /\ batch[i].value = 0 /\ batch[i].logp = 0
            /\ batch[i].len \in Nat \ {0}
    BY <1>1, BatchAssumption
<1>3. IsSeq(batch)
    BY <1>2 DEF IsSeq, ToSet
<1>4. n = Len(batch) /\ n \in Nat \ {0} /\ DOMAIN batch = 1..n
  <2>1. Len(batch) \in Nat /\ DOMAIN batch = 1..Len(batch)
      BY <1>3, SeqIsFunction
  <2>2. Len(batch) # 0
      BY <1>2
  <2> QED
      BY <1>1, <2>1, <2>2
<1>5. Good(batch, n) /\ InOrder(batch, n)
  <2> HIDE DEF n
  <2>1. \A i \in 1..n : Fine(batch[i], n)
      BY <1>2, <1>4 DEF Fine
  <2> QED
      BY <1>2, <1>3, <1>4, <2>1 DEF Good, InOrder
<1>6. KeptInv
  <2>1. Adjusted(config) \in 1..7 /\ Kept = batch /\ Len(Kept) = n
      BY <1>1, StagesAre DEF Kept
  <2>2. done < Adjusted(config) /\ ~(done >= Adjusted(config))
      BY <1>1, <2>1
  <2> QED
      BY <1>5, <2>1, <2>2 DEF KeptInv
<1>7. calls!CallInv
  <2>1. asked = << >> /\ output = << >>
      BY DEF Init, ranks!Idle
  <2>2. calls!RowWise(asked) = << >>
      BY <2>1 DEF calls!RowWise
  <2> QED
      BY <1>1, <2>1, <2>2 DEF calls!CallInv, calls!AnswersFit
<1>8. AlignedGoesThrough
    BY <1>1 DEF AlignedGoesThrough
<1> QED
    BY <1>1, <1>5, <1>6, <1>7, <1>8 DEF JobInv

LEMMA JobStep ==
    ASSUME JobInv, [Next]_vars
    PROVE  JobInv'
<1>1. CASE Skip \/ Returns \/ InvalidPenalty \/ ComputeAdvantage
    BY <1>1, RowByRowIf, RowByRowKeeps
<1>2. CASE Adjust \/ AdjustFails \/ NoSize \/ BalanceBatch
    BY <1>2, AdjustKeeps, AdjustFailsKeeps, NoSizeKeeps, BalanceKeeps
<1>3. ASSUME NEW stage \in {"values", "log_prob", "update"}, Call(stage) \/ CallFails(stage)
      PROVE  JobInv'
    BY <1>3, CallKeeps, CallFailsKeeps DEF Called
<1>4. CASE Return \/ UnionFails
    BY <1>4, ReturnKeeps, UnionFailsKeeps
<1>5. ASSUME NEW r \in ranks!Workers, RankComputes(r) \/ RankFails(r) \/ RankUpdates(r)
      PROVE  JobInv'
    BY <1>5, RankKeeps, RankFailsKeeps DEF ranks!Workers
<1>6. CASE UNCHANGED vars
  <2>1. \A k : Share(k)' <=> Share(k)
      BY <1>6 DEF vars, call, Share
  <2>2. KeptInv' <=> KeptInv
      BY <1>6 DEF vars, call, KeptInv, Kept, Adjusted, Divisor
  <2>3. InCall' <=> InCall
    <3>1. \A i : calls!Given(i)' = calls!Given(i)
        BY <1>6 DEF vars, call, calls!Given
    <3>2. UNCHANGED <<config, rolled, done, error, batch, method, asked, answers, padding>>
        BY <1>6 DEF vars, call
    <3>3. Stages(config)' = Stages(config) /\ (Needed(config, method)' <=> Needed(config, method))
        BY <3>2 DEF Needed, StepEstimators, Stages
    <3>4. \A u : Sound(u)' <=> Sound(u)
        BY <1>6, SameSound DEF vars, call
    <3>5. [i \in 1..(Len(asked') + padding') |-> calls!Given(i)'] = [i \in 1..(Len(asked) + padding) |-> calls!Given(i)]
        BY <3>1, <3>2
    <3> QED
        BY <3>2, <3>3, <3>4, <3>5 DEF InCall
  <2>4. calls!CallInv'
    <3>1. [calls!Next]_<<batch, calls!call>>
        BY <1>6 DEF vars, call, calls!call
    <3>2. calls!CallInv /\ calls!IsSeq(batch) /\ "none" \notin Called /\ World \in Nat \ {0}
        BY WorldAssumption DEF JobInv, Called, Good, IsSeq, calls!IsSeq
    <3> QED
        BY <3>1, <3>2, calls!CallStep DEF Called
  <2>5. AlignedGoesThrough'
      BY <1>6, SameThrough DEF vars, call, JobInv
  <2> QED
      BY <1>6, <2>1, <2>2, <2>3, <2>4, <2>5 DEF vars, call, JobInv
<1> QED
    BY <1>1, <1>2, <1>3, <1>4, <1>5, <1>6 DEF Next, Driver

\* CallsFit: position i of what a call of the workers returns answers row i of the batch
\* that was passed (func_generator, chunk, padding, concat), in every call of a job.
THEOREM CallsAlwaysFit == Spec => []CallsFit
<1>1. JobInv => CallsFit
    BY SameFit DEF JobInv, calls!CallInv
<1> QED
    BY <1>1, JobInit, JobStep, PTL DEF Spec

\* RowsKeepTheirOwn: whatever the micro-batches, padding, copies and reordering, a row's
\* value and log probabilities are its own (compute_values, compute_log_prob).
THEOREM RowsAlwaysKeepTheirOwn == Spec => []RowsKeepTheirOwn
<1>1. JobInv => RowsKeepTheirOwn
  <2> SUFFICES ASSUME JobInv
               PROVE  RowsKeepTheirOwn
      OBVIOUS
  <2>1. DOMAIN batch = 1..Len(batch) /\ \A i \in 1..Len(batch) : Fine(batch[i], Len(rolled))
      BY SeqIsFunction DEF JobInv, Good
  <2> QED
      BY <2>1 DEF RowsKeepTheirOwn, Fine
<1> QED
    BY <1>1, JobInit, JobStep, PTL DEF Spec

\* AlignedGoesThrough: a rollout that divides wherever adjust_batch, the driver and the
\* workers cut it passes every stage and every chunk's assertion, whatever the settings,
\* unless a size is null or multi-modal inputs meet dynamic batch sizes.
THEOREM AlignedAlwaysGoesThrough == Spec => []AlignedGoesThrough
<1>1. JobInv => AlignedGoesThrough
    BY DEF JobInv
<1> QED
    BY <1>1, JobInit, JobStep, PTL DEF Spec

-----------------------------------------------------------------------------
(* The update *)

\* Every rank has k rows.
Shares(rowsOf, n, k) ==
    /\ k \in Nat \ {0} /\ DOMAIN rowsOf = 1..World
    /\ \A r \in 1..World : Good(rowsOf[r], n) /\ Len(rowsOf[r]) = k

\* The positions of a rank's rows, cut into the q mini-batches.
MiniPositions(c, k) == Split([j \in 1..k |-> j], CutSize(c, k, Mini(c)))

\* The mini-batches of a rank are the rows at these positions.
Minis(rowsOf, minis, mp, n, q) ==
    \A r \in 1..World :
        /\ DOMAIN minis[r] = 1..q /\ Len(minis[r]) = q
        /\ \A m \in 1..q :
              /\ Good(minis[r][m], n) /\ Len(minis[r][m]) = Len(mp[m])
              /\ \A i \in 1..Len(mp[m]) : minis[r][m][i] = rowsOf[r][mp[m][i]]

LEMMA IdentityIs ==
    ASSUME NEW k \in Nat \ {0}
    PROVE  /\ [j \in 1..k |-> j] \in Seq(1..k) /\ Len([j \in 1..k |-> j]) = k
           /\ \A j \in 1..k : [i \in 1..k |-> i][j] = j
    OBVIOUS

\* Mini-batches have the same positions on every rank.
LEMMA MinisAre ==
    ASSUME NEW c \in Configs, NEW rowsOf, NEW n, NEW k, Shares(rowsOf, n, k), Cuttable(c, k, Mini(c))
    PROVE  \E q \in Nat \ {0} :
              /\ Positions(MiniPositions(c, k), k, q)
              /\ Minis(rowsOf, MiniBatches(c, rowsOf), MiniPositions(c, k), n, q)
              /\ SplitAt(MiniPositions(c, k), [j \in 1..k |-> j], CutSize(c, k, Mini(c)), q, 1..k)
<1> DEFINE s == CutSize(c, k, Mini(c))
           id == [j \in 1..k |-> j]
           T == 1..k
           mp == Split(id, s)
           q == (k + s - 1) \div s
           minis == MiniBatches(c, rowsOf)
<1>1. k \in Nat \ {0} /\ DOMAIN rowsOf = 1..World
    BY DEF Shares
<1>2. s \in Nat \ {0}
    BY <1>1, ConfigIs, CutSizeIs
<1>3. id \in Seq(T) /\ Len(id) = k /\ \A j \in 1..k : id[j] = j
    BY <1>1, IdentityIs
<1>4. Positions(mp, k, q)
  <2> HIDE DEF s
  <2> QED
      BY <1>1, <1>2, SplitPositions
<1> HIDE DEF s, id, T
<1>5. SplitAt(mp, id, s, q, T)
  <2>1. Len(id) > 0 /\ (Len(id) + s - 1) \div s = q
      BY <1>1, <1>3
  <2> QED
      BY <1>2, <1>3, <2>1, SplitIs
<1> HIDE DEF mp, q
<1>6. q \in Nat \ {0}
    BY <1>5 DEF SplitAt
<1>7. ASSUME NEW r \in 1..World
      PROVE  /\ DOMAIN minis[r] = 1..q /\ Len(minis[r]) = q
             /\ \A m \in 1..q :
                   /\ Good(minis[r][m], n) /\ Len(minis[r][m]) = Len(mp[m])
                   /\ \A i \in 1..Len(mp[m]) : minis[r][m][i] = rowsOf[r][mp[m][i]]
  <2> DEFINE rows == rowsOf[r]
             U == {rows[i] : i \in DOMAIN rows}
             of == minis[r]
  <2>1. Good(rows, n) /\ Len(rows) = k
      BY DEF Shares
  <2>2. rows \in Seq(U)
      BY <2>1 DEF Good, IsSeq
  <2>3. of = Split(rows, s)
      BY <1>1, <2>1 DEF MiniBatches, s
  <2> HIDE DEF rows, U, of
  <2>4. Len(rows) > 0 /\ (Len(rows) + s - 1) \div s = q
      BY <1>1, <2>1 DEF q
  <2>5. SplitAt(of, rows, s, q, U)
      BY <1>2, <2>2, <2>3, <2>4, SplitIs
  <2>6. DOMAIN of = 1..q /\ Len(of) = q
      BY <2>5 DEF SplitAt
  <2>7. ASSUME NEW m \in 1..q
        PROVE  /\ Good(of[m], n) /\ Len(of[m]) = Len(mp[m])
               /\ \A i \in 1..Len(mp[m]) : of[m][i] = rows[mp[m][i]]
    <3>1. Len(of[m]) = Len(mp[m]) /\ of[m] \in Seq(U) /\ Len(of[m]) > 0
      <4>1. of[m] \in Seq(U) /\ Len(of[m]) > 0
          BY <2>5 DEF SplitAt
      <4>2. Len(of[m]) = IF m < q THEN s ELSE Len(rows) - (q - 1) * s
          BY <2>5, Zenon DEF SplitAt
      <4>3. Len(mp[m]) = IF m < q THEN s ELSE Len(id) - (q - 1) * s
          BY <1>5, Zenon DEF SplitAt
      <4>4. Len(rows) = Len(id)
          BY <1>3, <2>1
      <4> QED
          BY <4>1, <4>2, <4>3, <4>4, Zenon
    <3>2. ASSUME NEW i \in 1..Len(mp[m])
          PROVE  of[m][i] = rows[mp[m][i]] /\ mp[m][i] \in 1..k
      <4> DEFINE at == (m - 1) * s + i
      <4>1. at \in 1..Len(id) /\ mp[m][i] = id[at]
          BY <1>5 DEF SplitAt
      <4>2. of[m][i] = rows[at]
          BY <2>5, <3>1 DEF SplitAt
      <4> HIDE DEF at
      <4>3. id[at] = at
          BY <1>3, <4>1
      <4> QED
          BY <1>3, <4>1, <4>2, <4>3
    <3>3. Drawn(of[m], rows)
      <4>1. Len(of[m]) \in Nat /\ DOMAIN of[m] = 1..Len(of[m]) /\ of[m] = [i \in 1..Len(of[m]) |-> of[m][i]]
          BY <3>1
      <4>2. \A i \in 1..Len(of[m]) : \E j \in 1..Len(rows) : of[m][i] = rows[j]
          BY <2>1, <3>1, <3>2
      <4> QED
          BY <4>1, <4>2 DEF Drawn
    <3>4. Good(of[m], n)
        BY <2>1, <3>1, <3>3, DrawnIs
    <3> QED
        BY <3>1, <3>2, <3>4
  <2> QED
      BY <2>6, <2>7 DEF of, rows
<1>8. Minis(rowsOf, minis, mp, n, q)
    BY <1>7 DEF Minis
<1> QED
    BY <1>4, <1>5, <1>6, <1>8 DEF mp, id, s, T, MiniPositions

-----------------------------------------------------------------------------
(* An optimizer step *)

\* The micro-batches of step m, as positions in the mini-batch of rank r, and
\* what a row weighs in one of them.
StepRows(c, rowsOf, m) == [u \in DOMAIN rowsOf |-> MiniBatches(c, rowsOf)[u][m]]

StepMicros(c, rowsOf, r, m) ==
    LET stepRows == StepRows(c, rowsOf, m)
        lensOf == [u \in DOMAIN stepRows |-> Lengths(stepRows[u])]
    IN  IF c.dynamic
        THEN Partitions(lensOf[r], AgreedMicroBatches(lensOf, r, c.tokens), FALSE)
        ELSE Split([i \in 1..Len(stepRows[r]) |-> i], CutSize(c, Len(stepRows[r]), c.actorMicro))

WeightIn(c, rowsOf, r, m, k) ==
    MicroWeight(c, Select(StepRows(c, rowsOf, m)[r], StepMicros(c, rowsOf, r, m)[k]))

\* The same rows, each with what it weighs.
Weighted(c, rowsOf, r, m) ==
    LET micros == StepMicros(c, rowsOf, r, m)
    IN  [k \in DOMAIN micros |-> [i \in DOMAIN micros[k] |->
            [id |-> StepRows(c, rowsOf, m)[r][micros[k][i]].id, weight |-> WeightIn(c, rowsOf, r, m, k)]]]

\* An optimizer step, as rows and weights at positions of the mini-batch.
LEMMA GradientStepIs ==
    ASSUME NEW c, NEW rowsOf, NEW r \in DOMAIN rowsOf, NEW m, NEW n, Good(StepRows(c, rowsOf, m)[r], n)
    PROVE  GradientStep(c, rowsOf, r, m) = Weighted(c, rowsOf, r, m)
<1> DEFINE minis == MiniBatches(c, rowsOf)
           rows == minis[r][m]
           lensOf == [u \in DOMAIN rowsOf |-> Lengths(minis[u][m])]
           micros == IF c.dynamic
                     THEN Partitions(lensOf[r], AgreedMicroBatches(lensOf, r, c.tokens), FALSE)
                     ELSE Split([i \in DOMAIN rows |-> i], CutSize(c, Len(rows), c.actorMicro))
<1>1. rows = StepRows(c, rowsOf, m)[r]
    BY DEF StepRows
<1>2. DOMAIN rows = 1..Len(rows)
    BY <1>1, SeqIsFunction DEF Good
<1>3. lensOf = [u \in DOMAIN StepRows(c, rowsOf, m) |-> Lengths(StepRows(c, rowsOf, m)[u])]
    BY DEF StepRows
<1>4. micros = StepMicros(c, rowsOf, r, m)
    BY <1>1, <1>2, <1>3 DEF StepMicros
<1>5. GradientStep(c, rowsOf, r, m) =
         [k \in DOMAIN micros |-> [i \in DOMAIN micros[k] |->
             [id |-> rows[micros[k][i]].id, weight |-> MicroWeight(c, Select(rows, micros[k]))]]]
    BY Zenon DEF GradientStep
<1> HIDE DEF micros, rows
<1> QED
    BY <1>1, <1>4, <1>5, Zenon DEF Weighted, WeightIn

\* In a step all ranks have as many micro-batches.
LEMMA StepMicrosAre ==
    ASSUME NEW c \in Configs, NEW rowsOf, DOMAIN rowsOf = 1..World, NEW m, NEW n, NEW l \in Nat \ {0},
           \A r \in 1..World : Good(MiniBatches(c, rowsOf)[r][m], n) /\ Len(MiniBatches(c, rowsOf)[r][m]) = l,
           Cuttable(c, l, c.actorMicro)
    PROVE  \E p \in Nat \ {0} : \A r \in 1..World :
              /\ Positions(StepMicros(c, rowsOf, r, m), l, p)
              /\ ~c.dynamic =>
                    SplitAt(StepMicros(c, rowsOf, r, m), [i \in 1..l |-> i], CutSize(c, l, c.actorMicro), p, 1..l)
<1> DEFINE stepRows == StepRows(c, rowsOf, m)
           lensOf == [u \in DOMAIN stepRows |-> Lengths(stepRows[u])]
           agreed == AgreedMicroBatches(lensOf, 1, c.tokens)
<1>1. DOMAIN stepRows = 1..World /\ \A r \in 1..World : Good(stepRows[r], n) /\ Len(stepRows[r]) = l
    BY DEF StepRows
<1> HIDE DEF stepRows
<1>2. World \in Nat \ {0} /\ c.tokens \in Nat \ {0} /\ c.actorMicro \in Nat \ {0} /\ c.dynamic \in BOOLEAN
    BY WorldAssumption, ConfigIs
<1>3. \A r \in 1..World : HaveLengths(stepRows[r]) /\ Lengths(stepRows[r]) \in [1..l -> Nat]
    BY <1>1, LengthsOf
<1>4. \A r \in 1..World : lensOf[r] \in [1..l -> Nat]
    BY <1>1, <1>3
<1>5. CASE c.dynamic
  <2>1. agreed \in Nat \ {0}
      BY <1>1, <1>2, <1>3, AgreedIs
  <2>2. ASSUME NEW r \in 1..World
        PROVE  Positions(StepMicros(c, rowsOf, r, m), l, agreed)
    <3>1. AgreedMicroBatches(lensOf, r, c.tokens) = agreed
        BY DEF AgreedMicroBatches
    <3>2. StepMicros(c, rowsOf, r, m) = Partitions(lensOf[r], agreed, FALSE)
        BY <1>5, <3>1 DEF StepMicros, stepRows
    <3> HIDE DEF agreed, lensOf
    <3> DEFINE lens == lensOf[r]
    <3>3. lens \in [1..l -> Nat]
        BY <1>4
    <3> HIDE DEF lens
    <3>4. Positions(Partitions(lens, agreed, FALSE), l, agreed)
        BY <2>1, <3>3, PartitionsAre
    <3> QED
        BY <3>2, <3>4 DEF lens
  <2> HIDE DEF agreed
  <2> QED
      BY <1>5, <2>1, <2>2
<1>6. CASE ~c.dynamic
  <2> DEFINE id == [i \in 1..l |-> i]
             T == 1..l
             a == CutSize(c, l, c.actorMicro)
             p == (l + a - 1) \div a
  <2>1. \A r \in 1..World : StepMicros(c, rowsOf, r, m) = Split(id, a)
      BY <1>1, <1>6 DEF StepMicros, stepRows
  <2>2. id \in Seq(T) /\ Len(id) = l
      BY IdentityIs
  <2>3. a \in Nat \ {0}
      BY <1>2, CutSizeIs
  <2>4. Positions(Split(id, a), l, p)
    <3> HIDE DEF a
    <3> QED
        BY <2>3, SplitPositions
  <2> HIDE DEF id, T, a
  <2>5. SplitAt(Split(id, a), id, a, p, T)
    <3>1. Len(id) > 0 /\ (Len(id) + a - 1) \div a = p
        BY <2>2
    <3> QED
        BY <2>2, <2>3, <3>1, SplitIs
  <2> HIDE DEF p
  <2>6. p \in Nat \ {0}
      BY <2>5 DEF SplitAt
  <2>7. \A r \in 1..World : /\ Positions(StepMicros(c, rowsOf, r, m), l, p)
                            /\ SplitAt(StepMicros(c, rowsOf, r, m), id, a, p, T)
      BY <2>1, <2>4, <2>5
  <2> QED
      BY <1>6, <2>6, <2>7 DEF id, a, T
<1> QED
    BY <1>2, <1>5, <1>6

-----------------------------------------------------------------------------
(* What the ranks have trained on *)

StepsOf(r) == [m \in DOMAIN MiniBatches(config, shares)[r] |-> GradientStep(config, shares, r, m)]

\* A rank that has answered the update has taken its steps.
TrainedInv ==
    /\ DOMAIN trained = 1..World
    /\ method = "update" => \A r \in 1..World : answers[r] # << >> => trained[r] = StepsOf(r)
    /\ done = 8 => \A r \in 1..World : trained[r] = StepsOf(r) /\ Cuts(config, "update", shares, r)

LEMMA SameSteps ==
    ASSUME UNCHANGED <<config, shares>>
    PROVE  \A r : /\ StepsOf(r)' = StepsOf(r)
                  /\ Cuts(config, "update", shares, r)' <=> Cuts(config, "update", shares, r)
    BY DEF StepsOf, MiniBatches, GradientStep, MicroWeight, CutSize, Mini, Cuts, Cuttable

LEMMA TrainedStep ==
    ASSUME JobInv, TrainedInv, [Next]_vars
    PROVE  TrainedInv'
<1>1. method # "none" => done < 8
    BY DEF JobInv, InCall
<1>2. ASSUME UNCHANGED <<config, trained, done, method, shares, answers>>
      PROVE  TrainedInv'
  <2>1. \A r : /\ StepsOf(r)' = StepsOf(r)
               /\ Cuts(config, "update", shares, r)' <=> Cuts(config, "update", shares, r)
      BY <1>2, SameSteps
  <2> QED
      BY <1>2, <2>1 DEF TrainedInv
<1>3. CASE AdjustFails \/ NoSize \/ UNCHANGED vars
  <2>1. UNCHANGED <<config, trained, done, method, shares, answers>>
      BY <1>3 DEF AdjustFails, NoSize, Raise, vars, call
  <2> QED
      BY <1>2, <2>1
<1>4. ASSUME NEW stage, Reached(stage), stage # "update", done' = done + 1, method' = method, trained' = trained
      PROVE  TrainedInv'
  <2>1. method = "none" /\ done \in 0..7 /\ stage = Stages(config)[done + 1]
      BY <1>4, BetweenCalls
  <2>2. done # 7
      BY <1>4, <2>1, StagesAre
  <2> QED
      BY <1>4, <2>1, <2>2 DEF TrainedInv
<1>5. CASE Skip \/ Returns \/ InvalidPenalty \/ ComputeAdvantage
  <2>1. RowByRow
      BY <1>5, RowByRowIf
  <2>2. PICK stage : Reached(stage) /\ stage # "update"
      BY <2>1 DEF RowByRow
  <2>3. done' = done + 1 /\ method' = method /\ trained' = trained
      BY <2>1 DEF RowByRow, Continue, call
  <2> QED
      BY <1>4, <2>2, <2>3
<1>6. CASE Adjust
  <2>1. Reached("adjust") /\ done' = done + 1 /\ method' = method /\ trained' = trained
      BY <1>6 DEF Adjust, At, Continue, call
  <2> QED
      BY <1>4, <2>1
<1>7. CASE BalanceBatch
  <2>1. Reached("balance") /\ done' = done + 1 /\ method' = method /\ trained' = trained
      BY <1>7 DEF BalanceBatch, At, Continue, call
  <2> QED
      BY <1>4, <2>1
<1>8. ASSUME NEW stage \in Called, CallFails(stage)
      PROVE  TrainedInv'
  <2>1. UNCHANGED <<config, trained, done, method, shares, answers>>
      BY <1>8 DEF CallFails, Raise, call
  <2> QED
      BY <1>2, <2>1
<1>9. ASSUME NEW stage \in Called, Call(stage)
      PROVE  TrainedInv'
  <2>1. UNCHANGED <<done, trained>> /\ answers' = [r \in 1..World |-> << >>]
      BY <1>9 DEF Call, ranks!Begin, ranks!Workers
  <2>2. done \in 0..7
      BY <1>9, BetweenCalls DEF Call, At
  <2> QED
      BY <2>1, <2>2 DEF TrainedInv
<1>10. CASE Return
  <2>1. /\ UNCHANGED <<config, trained, shares, answers>> /\ done' = done + 1 /\ done < 8 /\ method' = "none"
        /\ method = Stages(config)[done + 1] /\ calls!End
      BY <1>10, ReturnIs
  <2>2. \A r : /\ StepsOf(r)' = StepsOf(r)
               /\ Cuts(config, "update", shares, r)' <=> Cuts(config, "update", shares, r)
      BY <2>1, SameSteps
  <2>3. done' = 8 => method = "update"
    <3>1. done \in 0..7
        BY <2>1 DEF JobInv
    <3> QED
        BY <2>1, <3>1, StagesAre
  <2>4. \A r \in 1..World : answers[r] # << >> /\ Sound(r)
      BY <1>10, <2>1, EndOfCall DEF Return, calls!End, calls!AllAnswered, calls!Workers
  <2> QED
      BY <2>1, <2>2, <2>3, <2>4 DEF TrainedInv, Sound
<1>11. CASE UnionFails
  <2>1. UNCHANGED <<trained, done>> /\ method' = "none" /\ method # "none"
      BY <1>11 DEF UnionFails, ranks!End
  <2>2. done < 8 /\ done \in 0..8
      BY <1>1, <2>1 DEF JobInv
  <2> QED
      BY <2>1, <2>2 DEF TrainedInv
<1>12. ASSUME NEW r \in 1..World, RankFails(r)
       PROVE  TrainedInv'
  <2>1. UNCHANGED <<config, trained, done, method, shares, answers>>
      BY <1>12 DEF RankFails, Raise, call
  <2> QED
      BY <1>2, <2>1
<1>13. ASSUME NEW r \in 1..World, RankComputes(r)
       PROVE  TrainedInv'
  <2>1. UNCHANGED <<trained, done, method>> /\ method # "update" /\ method # "none"
      BY <1>13 DEF RankComputes, ranks!Compute
  <2>2. done < 8 /\ done \in 0..8
      BY <1>1, <2>1 DEF JobInv
  <2> QED
      BY <2>1, <2>2 DEF TrainedInv
<1>14. ASSUME NEW r \in 1..World, RankUpdates(r)
       PROVE  TrainedInv'
  <2>1. /\ UNCHANGED <<config, done, method, shares>> /\ method = "update" /\ answers[r] = << >>
        /\ \E ans : answers' = [answers EXCEPT ![r] = ans]
        /\ trained' = [trained EXCEPT ![r] = StepsOf(r)]
      BY <1>14 DEF RankUpdates, ranks!Compute, StepsOf
  <2>2. \A u : StepsOf(u)' = StepsOf(u)
      BY <2>1, SameSteps
  <2>3. done # 8
      BY <1>1, <2>1 DEF JobInv
  <2>4. answers = [u \in 1..World |-> answers[u]]
      BY <2>1 DEF JobInv, calls!CallInv, calls!Workers
  <2> QED
      BY <2>1, <2>2, <2>3, <2>4 DEF TrainedInv
<1> QED
    BY <1>3, <1>5, <1>6, <1>7, <1>8, <1>9, <1>10, <1>11, <1>12, <1>13, <1>14 DEF Next, Driver, ranks!Workers, Called

LEMMA TrainedInit ==
    ASSUME Init
    PROVE  TrainedInv
    BY DEF Init, ranks!Idle, TrainedInv

-----------------------------------------------------------------------------
(* The ranks in step *)

\* Of one step: every rank has p micro-batches, and what it trained on.
StepTrained(mp, m, p) ==
    \A r \in 1..World :
        /\ Positions(StepMicros(config, shares, r, m), Len(mp[m]), p)
        /\ ~config.dynamic =>
              SplitAt(StepMicros(config, shares, r, m), [i \in 1..Len(mp[m]) |-> i],
                      CutSize(config, Len(mp[m]), config.actorMicro), p, 1..Len(mp[m]))
        /\ DOMAIN trained[r][m] = 1..p /\ Len(trained[r][m]) = p
        /\ \A k \in 1..p :
              /\ DOMAIN trained[r][m][k] = 1..Len(StepMicros(config, shares, r, m)[k])
              /\ \A i \in 1..Len(StepMicros(config, shares, r, m)[k]) :
                    trained[r][m][k][i] =
                       [id |-> shares[r][mp[m][StepMicros(config, shares, r, m)[k][i]]].id,
                        weight |-> WeightIn(config, shares, r, m, k)]

\* Of the update: every rank has k rows, and takes q steps.
UpdateDone(mp, k, q) ==
    /\ k \in Nat \ {0} /\ q \in Nat \ {0} /\ Share(k) /\ Shares(shares, Len(rolled), k)
    /\ Positions(mp, k, q)
    /\ SplitAt(mp, [j \in 1..k |-> j], CutSize(config, k, Mini(config)), q, 1..k)
    /\ Cuttable(config, k, Mini(config)) /\ \A m \in 1..q : Cuttable(config, Len(mp[m]), config.actorMicro)
    /\ DOMAIN trained = 1..World
    /\ \A r \in 1..World : DOMAIN trained[r] = 1..q /\ Len(trained[r]) = q
    /\ \A m \in 1..q : Len(mp[m]) \in Nat \ {0} /\ \E p \in Nat \ {0} : StepTrained(mp, m, p)

\* What the invariants say of a job that is over.
LEMMA UpdatedIs ==
    ASSUME JobInv, TrainedInv, Updated
    PROVE  /\ config \in Configs /\ Good(batch, Len(rolled)) /\ Len(rolled) \in Nat \ {0}
           /\ OnceOrTwice(batch, Len(rolled)) /\ Len(batch) % Divisor(config) = 0
           /\ method = "none" /\ done = 8 /\ KeptInv /\ Kept = batch
           /\ \E k, q : UpdateDone(MiniPositions(config, k), k, q)
<1> DEFINE n == Len(rolled)
<1>1. done = 8 /\ error = "none" /\ method = "none"
    BY StagesAre DEF Updated, JobInv, InCall
<1>2. config \in Configs /\ Good(batch, n) /\ KeptInv /\ Kept = batch
    BY <1>1 DEF JobInv, Kept
<1>3. OnceOrTwice(batch, n) /\ Len(batch) % Divisor(config) = 0
  <2>1. done >= Adjusted(config)
      BY <1>1, StagesAre
  <2> QED
      BY <1>2, <2>1 DEF KeptInv
<1>4. n \in Nat \ {0}
  <2>1. rolled \in Seq(ToSet(rolled)) /\ rolled # << >>
      BY BatchAssumption DEF JobInv
  <2> DEFINE T == ToSet(rolled)
  <2>2. rolled \in Seq(T)
      BY <2>1
  <2> HIDE DEF T
  <2> QED
      BY <2>1, <2>2
<1> HIDE DEF n
<1>5. PICK k \in Nat \ {0} : Share(k)
    BY <1>1 DEF JobInv
<1>6. Shares(shares, n, k)
    BY <1>2, <1>5, ShareIs DEF Shares
<1>15. /\ \A r \in 1..World : Cuts(config, "update", shares, r)
       /\ Cuttable(config, k, Mini(config)) /\ 1 \in 1..World
  <2>1. \A r \in 1..World : Cuts(config, "update", shares, r)
      BY <1>1 DEF TrainedInv
  <2>2. 1 \in 1..World
      BY WorldAssumption
  <2>3. Len(shares[1]) = k
      BY <1>6, <2>2 DEF Shares
  <2> QED
      BY <2>1, <2>2, <2>3 DEF Cuts
<1>7. PICK q \in Nat \ {0} :
              /\ Positions(MiniPositions(config, k), k, q)
              /\ Minis(shares, MiniBatches(config, shares), MiniPositions(config, k), n, q)
              /\ SplitAt(MiniPositions(config, k), [j \in 1..k |-> j], CutSize(config, k, Mini(config)), q, 1..k)
    BY <1>2, <1>6, <1>15, MinisAre
<1> DEFINE mp == MiniPositions(config, k)
           minis == MiniBatches(config, shares)
<1> HIDE DEF mp, minis
<1>8. \A r \in 1..World : /\ DOMAIN minis[r] = 1..q /\ Len(minis[r]) = q
                          /\ \A m \in 1..q :
                                /\ Good(minis[r][m], n) /\ Len(minis[r][m]) = Len(mp[m])
                                /\ \A i \in 1..Len(mp[m]) : minis[r][m][i] = shares[r][mp[m][i]]
    BY <1>7 DEF Minis, mp, minis
<1>9. DOMAIN trained = 1..World /\ \A r \in 1..World : trained[r] = StepsOf(r)
    BY <1>1 DEF TrainedInv
<1>10. \A r \in 1..World : trained[r] = [m \in 1..q |-> GradientStep(config, shares, r, m)]
    BY <1>8, <1>9 DEF StepsOf, minis
<1>11. ASSUME NEW r \in 1..World
       PROVE  DOMAIN trained[r] = 1..q /\ Len(trained[r]) = q
  <2>1. trained[r] = [m \in 1..q |-> GradientStep(config, shares, r, m)]
      BY <1>10
  <2>2. DOMAIN trained[r] = 1..q
      BY <2>1, Zenon
  <2> QED
      BY <2>2
<1>12. ASSUME NEW m \in 1..q
       PROVE  /\ Len(mp[m]) \in Nat \ {0} /\ \E p \in Nat \ {0} : StepTrained(mp, m, p)
              /\ Cuttable(config, Len(mp[m]), config.actorMicro)
  <2> DEFINE l == Len(mp[m])
  <2>1. \A r \in 1..World : Good(minis[r][m], n) /\ Len(minis[r][m]) = l
      BY <1>8
  <2>2. l \in Nat \ {0} /\ DOMAIN shares = 1..World
    <3>1. 1 \in 1..World
        BY WorldAssumption
    <3>2. Good(minis[1][m], n) /\ Len(minis[1][m]) = l
        BY <2>1, <3>1
    <3> QED
        BY <1>6, <3>2, LengthsOf DEF Shares
  <2>6. Cuttable(config, l, config.actorMicro)
      BY <1>8, <1>15 DEF Cuts, minis
  <2> HIDE DEF l
  <2>3. PICK p \in Nat \ {0} : \A r \in 1..World :
              /\ Positions(StepMicros(config, shares, r, m), l, p)
              /\ ~config.dynamic =>
                    SplitAt(StepMicros(config, shares, r, m), [i \in 1..l |-> i],
                            CutSize(config, l, config.actorMicro), p, 1..l)
      BY <1>2, <2>1, <2>2, <2>6, StepMicrosAre DEF minis
  <2>4. ASSUME NEW r \in 1..World
        PROVE  /\ DOMAIN trained[r][m] = 1..p /\ Len(trained[r][m]) = p
               /\ \A kk \in 1..p :
                     /\ DOMAIN trained[r][m][kk] = 1..Len(StepMicros(config, shares, r, m)[kk])
                     /\ \A i \in 1..Len(StepMicros(config, shares, r, m)[kk]) :
                           trained[r][m][kk][i] =
                              [id |-> shares[r][mp[m][StepMicros(config, shares, r, m)[kk][i]]].id,
                               weight |-> WeightIn(config, shares, r, m, kk)]
    <3> DEFINE micros == StepMicros(config, shares, r, m)
               rows == StepRows(config, shares, m)[r]
    <3>1. rows = minis[r][m]
        BY <2>2 DEF StepRows, minis
    <3>2. Good(rows, n) /\ r \in DOMAIN shares
        BY <2>1, <2>2, <3>1
    <3>3. Positions(micros, l, p)
        BY <2>3
    <3> HIDE DEF micros, rows
    <3>4. GradientStep(config, shares, r, m) =
             [kk \in DOMAIN micros |-> [i \in DOMAIN micros[kk] |->
                 [id |-> rows[micros[kk][i]].id, weight |-> WeightIn(config, shares, r, m, kk)]]]
      <4>1. Good(StepRows(config, shares, m)[r], n)
          BY <3>2 DEF rows
      <4>2. GradientStep(config, shares, r, m)
            = Weighted(config, shares, r, m)
          BY <3>2, <4>1, GradientStepIs
      <4> QED
          BY <4>2, Zenon DEF micros, rows, Weighted
    <3>5. trained[r][m] = GradientStep(config, shares, r, m)
        BY <1>10
    <3>6. /\ DOMAIN micros = 1..p
          /\ \A kk \in 1..p : /\ DOMAIN micros[kk] = 1..Len(micros[kk])
                              /\ \A i \in 1..Len(micros[kk]) : micros[kk][i] \in 1..l
      <4>1. DOMAIN micros = 1..p /\ \A kk \in 1..p : micros[kk] \in Seq(1..l)
          BY <3>3 DEF Positions
      <4>2. ASSUME NEW kk \in 1..p
            PROVE  /\ DOMAIN micros[kk] = 1..Len(micros[kk])
                   /\ \A i \in 1..Len(micros[kk]) : micros[kk][i] \in 1..l
        <5> DEFINE s == micros[kk]
        <5>1. s \in Seq(1..l)
            BY <4>1
        <5> HIDE DEF s
        <5>2. DOMAIN s = 1..Len(s) /\ \A i \in 1..Len(s) : s[i] \in 1..l
            BY <2>2, <5>1
        <5> QED
            BY <5>2 DEF s
      <4> QED
          BY <4>1, <4>2
    <3>7. \A i \in 1..l : rows[i] = shares[r][mp[m][i]]
        BY <1>8, <3>1 DEF l
    <3>8. trained[r][m] =
             [kk \in 1..p |-> [i \in 1..Len(micros[kk]) |->
                 [id |-> rows[micros[kk][i]].id, weight |-> WeightIn(config, shares, r, m, kk)]]]
        BY <3>4, <3>5, <3>6
    <3>9. \A kk \in 1..p : \A i \in 1..Len(micros[kk]) : rows[micros[kk][i]] = shares[r][mp[m][micros[kk][i]]]
        BY <3>6, <3>7
    <3>10. DOMAIN trained[r][m] = 1..p /\ Len(trained[r][m]) = p
        BY <3>8
    <3>11. ASSUME NEW kk \in 1..p
           PROVE  /\ DOMAIN trained[r][m][kk] = 1..Len(micros[kk])
                  /\ \A i \in 1..Len(micros[kk]) :
                        trained[r][m][kk][i] =
                           [id |-> shares[r][mp[m][micros[kk][i]]].id, weight |-> WeightIn(config, shares, r, m, kk)]
      <4>1. trained[r][m][kk] = [i \in 1..Len(micros[kk]) |->
                 [id |-> rows[micros[kk][i]].id, weight |-> WeightIn(config, shares, r, m, kk)]]
          BY <3>8
      <4> QED
          BY <3>9, <4>1
    <3> QED
        BY <3>10, <3>11 DEF micros
  <2>5. StepTrained(mp, m, p)
      BY <2>3, <2>4 DEF StepTrained, l
  <2> QED
      BY <2>2, <2>5, <2>6 DEF l
<1>13. UpdateDone(mp, k, q)
    BY <1>5, <1>6, <1>7, <1>9, <1>11, <1>12, <1>15 DEF UpdateDone, mp, n
<1>14. \E kk, qq : UpdateDone(MiniPositions(config, kk), kk, qq)
    BY <1>13 DEF mp
<1> QED
    BY <1>1, <1>2, <1>3, <1>4, <1>14 DEF n

\* RanksInStep: all ranks take as many optimizer steps and, in each, as many
\* micro-batches (update_policy, rearrange_micro_batches), so that no collective waits.
THEOREM RanksAlwaysInStep == Spec => []RanksInStep
<1>1. JobInv /\ TrainedInv => RanksInStep
  <2> SUFFICES ASSUME JobInv, TrainedInv, Updated, NEW r \in 1..World, NEW u \in 1..World
               PROVE  /\ Len(trained[r]) = Len(trained[u])
                      /\ \A m \in DOMAIN trained[r] : Len(trained[r][m]) = Len(trained[u][m])
      BY DEF RanksInStep
  <2>1. PICK k, q : UpdateDone(MiniPositions(config, k), k, q)
      BY UpdatedIs
  <2>2. Len(trained[r]) = q /\ Len(trained[u]) = q /\ DOMAIN trained[r] = 1..q
      BY <2>1 DEF UpdateDone
  <2>3. ASSUME NEW m \in 1..q
        PROVE  Len(trained[r][m]) = Len(trained[u][m])
    <3>1. PICK p \in Nat \ {0} : StepTrained(MiniPositions(config, k), m, p)
        BY <2>1 DEF UpdateDone
    <3> QED
        BY <3>1 DEF StepTrained
  <2> QED
      BY <2>2, <2>3
<1>2. Init => JobInv /\ TrainedInv
    BY JobInit, TrainedInit
<1>3. JobInv /\ TrainedInv /\ [Next]_vars => (JobInv /\ TrainedInv)'
    BY JobStep, TrainedStep
<1> QED
    BY <1>1, <1>2, <1>3, PTL DEF Spec

-----------------------------------------------------------------------------
(* Where a row has been trained on *)

LEMMA PlacesAre ==
    ASSUME NEW p
    PROVE  p \in Places <=>
              \E r \in DOMAIN trained : \E m \in DOMAIN trained[r] : \E k \in DOMAIN trained[r][m] :
                 \E i \in DOMAIN trained[r][m][k] : p = <<r, m, k, i>>
    BY DEF Places

\* The row of the batch that was trained on at a place.
MicrosAt(p) == StepMicros(config, shares, p[1], p[2])
ShareRow(p, mp) == mp[p[2]][MicrosAt(p)[p[3]][p[4]]]
RowAt(p, mp, k) == (p[1] - 1) * k + ShareRow(p, mp)

PlaceIn(p, mp, k, q) ==
    /\ p = <<p[1], p[2], p[3], p[4]>>
    /\ p[1] \in 1..World /\ p[2] \in 1..q
    /\ p[3] \in 1..Len(MicrosAt(p)) /\ p[4] \in 1..Len(MicrosAt(p)[p[3]])
    /\ MicrosAt(p)[p[3]][p[4]] \in 1..Len(mp[p[2]])
    /\ ShareRow(p, mp) \in 1..k
    /\ RowAt(p, mp, k) \in 1..Len(batch)
    /\ TrainedAt(p).id = batch[RowAt(p, mp, k)].id
    /\ TrainedAt(p).weight = WeightIn(config, shares, p[1], p[2], p[3])

LEMMA PositionIn ==
    ASSUME NEW parts, NEW n \in Nat, NEW k \in Nat, Positions(parts, n, k), NEW i \in 1..k, NEW j \in 1..Len(parts[i])
    PROVE  parts[i][j] \in 1..n
<1> DEFINE s == parts[i]
<1>1. s \in Seq(1..n)
    BY DEF Positions
<1> HIDE DEF s
<1>2. \A a \in 1..Len(s) : s[a] \in 1..n
    BY <1>1
<1> QED
    BY <1>2 DEF s

LEMMA PlaceIs ==
    ASSUME NEW mp, NEW k, NEW q, UpdateDone(mp, k, q), Good(batch, Len(rolled)),
           NEW r \in 1..World, NEW m \in 1..q, NEW p \in Nat \ {0}, StepTrained(mp, m, p),
           NEW x \in 1..p, NEW i \in 1..Len(StepMicros(config, shares, r, m)[x])
    PROVE  /\ <<r, m, x, i>> \in Places
           /\ PlaceIn(<<r, m, x, i>>, mp, k, q)
<1> DEFINE micros == StepMicros(config, shares, r, m)
           place == <<r, m, x, i>>
           j == micros[x][i]
           h == mp[m][j]
           n == Len(rolled)
<1>1. /\ k \in Nat \ {0} /\ q \in Nat \ {0} /\ Share(k) /\ Positions(mp, k, q) /\ DOMAIN trained = 1..World
      /\ DOMAIN trained[r] = 1..q /\ Len(mp[m]) \in Nat \ {0}
    BY DEF UpdateDone
<1>2. /\ Positions(micros, Len(mp[m]), p) /\ DOMAIN trained[r][m] = 1..p
      /\ DOMAIN trained[r][m][x] = 1..Len(micros[x])
      /\ trained[r][m][x][i] = [id |-> shares[r][h].id, weight |-> WeightIn(config, shares, r, m, x)]
    BY DEF StepTrained
<1>3. place \in Places
    BY <1>1, <1>2, PlacesAre
<1>4. Len(micros) = p
    BY <1>2 DEF Positions
<1>5. j \in 1..Len(mp[m])
  <2> DEFINE l == Len(mp[m])
  <2>1. l \in Nat /\ p \in Nat /\ Positions(micros, l, p)
      BY <1>1, <1>2
  <2> HIDE DEF micros, l
  <2>2. micros[x][i] \in 1..l
      BY <2>1, PositionIn DEF micros
  <2> QED
      BY <2>2 DEF l
<1> HIDE DEF j
<1>6. h \in 1..k
    BY <1>1, <1>5, PositionIn
<1>7. (r - 1) * k + h \in 1..Len(batch) /\ shares[r][h] = batch[(r - 1) * k + h]
  <2> HIDE DEF h
  <2> QED
      BY <1>1, <1>6, ShareIs
<1>8. MicrosAt(place) = micros /\ ShareRow(place, mp) = h
    BY DEF MicrosAt, ShareRow, j
<1>9. RowAt(place, mp, k) = (r - 1) * k + h
    BY <1>8 DEF RowAt
<1>10. TrainedAt(place) = [id |-> shares[r][h].id, weight |-> WeightIn(config, shares, r, m, x)]
    BY <1>2 DEF TrainedAt
<1>11. TrainedAt(place).id = batch[RowAt(place, mp, k)].id /\ TrainedAt(place).weight = WeightIn(config, shares, r, m, x)
  <2> HIDE DEF place, h, micros
  <2> QED
      BY <1>7, <1>9, <1>10
<1>12. MicrosAt(place)[place[3]][place[4]] = j
    BY <1>8 DEF j
<1>13. PlaceIn(place, mp, k, q)
  <2>1. place = <<place[1], place[2], place[3], place[4]>> /\ place[1] = r /\ place[2] = m /\ place[3] = x /\ place[4] = i
      OBVIOUS
  <2> HIDE DEF place, h, micros
  <2> QED
      BY <1>4, <1>5, <1>6, <1>7, <1>8, <1>9, <1>11, <1>12, <2>1 DEF PlaceIn, micros
<1> QED
    BY <1>3, <1>13

\* Every place stands for one row of the batch.
LEMMA EveryPlace ==
    ASSUME NEW mp, NEW k, NEW q, UpdateDone(mp, k, q), Good(batch, Len(rolled)), NEW place \in Places
    PROVE  PlaceIn(place, mp, k, q)
<1>1. PICK r \in DOMAIN trained : \E m \in DOMAIN trained[r] : \E x \in DOMAIN trained[r][m] :
              \E i \in DOMAIN trained[r][m][x] : place = <<r, m, x, i>>
    BY PlacesAre
<1>2. PICK m \in DOMAIN trained[r] : \E x \in DOMAIN trained[r][m] :
              \E i \in DOMAIN trained[r][m][x] : place = <<r, m, x, i>>
    BY <1>1
<1>3. PICK x \in DOMAIN trained[r][m] : \E i \in DOMAIN trained[r][m][x] : place = <<r, m, x, i>>
    BY <1>2
<1>4. PICK i \in DOMAIN trained[r][m][x] : place = <<r, m, x, i>>
    BY <1>3
<1>5. r \in 1..World
    BY DEF UpdateDone
<1>6. m \in 1..q
    BY <1>5 DEF UpdateDone
<1>7. PICK p \in Nat \ {0} : StepTrained(mp, m, p)
    BY <1>6 DEF UpdateDone
<1>8. x \in 1..p
    BY <1>5, <1>7 DEF StepTrained
<1>9. i \in 1..Len(StepMicros(config, shares, r, m)[x])
    BY <1>5, <1>7, <1>8 DEF StepTrained
<1> QED
    BY <1>4, <1>5, <1>6, <1>7, <1>8, <1>9, PlaceIs

\* No two places train on one row of the batch ...
LEMMA OnePlace ==
    ASSUME NEW mp, NEW k, NEW q, UpdateDone(mp, k, q), Good(batch, Len(rolled)),
           NEW a \in Places, NEW b \in Places, RowAt(a, mp, k) = RowAt(b, mp, k)
    PROVE  a = b
<1>1. PlaceIn(a, mp, k, q) /\ PlaceIn(b, mp, k, q)
    BY EveryPlace
<1>2. k \in Nat \ {0} /\ Positions(mp, k, q) /\ World \in Nat \ {0}
    BY WorldAssumption DEF UpdateDone
<1>3. a[1] = b[1] /\ ShareRow(a, mp) = ShareRow(b, mp)
  <2> DEFINE o == a[1] - 1
             u == b[1] - 1
             x == ShareRow(a, mp)
             y == ShareRow(b, mp)
  <2>1. o \in Nat /\ u \in Nat /\ x \in 1..k /\ y \in 1..k /\ o * k + x = u * k + y
    <3>1. o * k + x = u * k + y
        BY Zenon DEF RowAt
    <3>2. a[1] \in 1..World /\ b[1] \in 1..World
        BY <1>1, Zenon DEF PlaceIn
    <3>3. o \in Nat /\ u \in Nat
        BY <1>2, <3>2
    <3>4. x \in 1..k /\ y \in 1..k
        BY <1>1, Zenon DEF PlaceIn
    <3> QED
        BY <3>1, <3>3, <3>4, Zenon
  <2>2. a[1] \in Int /\ b[1] \in Int
      BY <1>1 DEF PlaceIn
  <2>3. o = u /\ x = y
    <3> HIDE DEF o, u, x, y
    <3> QED
        BY <1>2, <2>1, OneRow
  <2> QED
      BY <2>2, <2>3
<1>4. a[2] = b[2] /\ MicrosAt(a)[a[3]][a[4]] = MicrosAt(b)[b[3]][b[4]]
  <2> DEFINE m == a[2]
             l == b[2]
             x == MicrosAt(a)[a[3]][a[4]]
             y == MicrosAt(b)[b[3]][b[4]]
  <2>1. m \in 1..q /\ l \in 1..q /\ x \in 1..Len(mp[m]) /\ y \in 1..Len(mp[l])
      BY <1>1 DEF PlaceIn
  <2>2. mp[m][x] = mp[l][y]
      BY <1>3 DEF ShareRow
  <2> HIDE DEF m, l, x, y
  <2>3. m = l
      BY <1>2, <2>1, <2>2 DEF Positions
  <2>4. x = y
      BY <1>2, <2>1, <2>2, <2>3 DEF Positions
  <2> QED
      BY <2>3, <2>4 DEF m, l, x, y
<1>5. a[3] = b[3] /\ a[4] = b[4]
  <2> DEFINE micros == MicrosAt(a)
             x == a[3]
             y == b[3]
             i == a[4]
             j == b[4]
             r == a[1]
             m == a[2]
  <2>1. MicrosAt(b) = micros
      BY <1>3, <1>4 DEF MicrosAt
  <2>2. x \in 1..Len(micros) /\ y \in 1..Len(micros) /\ i \in 1..Len(micros[x]) /\ j \in 1..Len(micros[y])
      BY <1>1, <2>1 DEF PlaceIn
  <2>3. micros[x][i] = micros[y][j]
      BY <1>4, <2>1
  <2>4. m \in 1..q /\ r \in 1..World /\ micros = StepMicros(config, shares, r, m)
      BY <1>1 DEF PlaceIn, MicrosAt
  <2> HIDE DEF micros, x, y, i, j, r, m
  <2>5. PICK p \in Nat \ {0} : StepTrained(mp, m, p)
      BY <2>4 DEF UpdateDone
  <2>6. Positions(micros, Len(mp[m]), p)
      BY <2>4, <2>5 DEF StepTrained
  <2>7. Len(micros) = p
      BY <2>6 DEF Positions
  <2>8. x = y
      BY <2>2, <2>3, <2>6, <2>7 DEF Positions
  <2>9. i = j
      BY <2>2, <2>3, <2>6, <2>7, <2>8 DEF Positions
  <2> QED
      BY <2>8, <2>9 DEF x, y, i, j
<1> QED
    BY <1>1, <1>3, <1>4, <1>5 DEF PlaceIn

\* ... and every one is trained on somewhere.
LEMMA SomePlace ==
    ASSUME NEW mp, NEW k, NEW q, UpdateDone(mp, k, q), Good(batch, Len(rolled)), NEW row \in 1..Len(batch)
    PROVE  \E a \in Places : RowAt(a, mp, k) = row
<1>1. k \in Nat \ {0} /\ Positions(mp, k, q) /\ World \in Nat \ {0} /\ Len(batch) = k * World
    BY WorldAssumption DEF UpdateDone, Share
<1>2. PICK r \in 1..World, h \in 1..k : row = (r - 1) * k + h
  <2> DEFINE z == row - 1
  <2>1. z \in 0..(k * World - 1)
      BY <1>1
  <2>2. z \div k \in 0..(World - 1) /\ z % k \in 0..(k - 1) /\ (z \div k) * k + (z % k) = z
    <3> HIDE DEF z
    <3> QED
        BY <1>1, <2>1, Position
  <2> DEFINE r == (z \div k) + 1
             h == (z % k) + 1
  <2>3. r \in 1..World /\ h \in 1..k
      BY <1>1, <2>2
  <2>4. row = (r - 1) * k + h
      BY <1>1, <2>2
  <2> HIDE DEF r, h
  <2> QED
      BY <2>3, <2>4
<1>3. PICK m \in 1..q : \E j \in 1..Len(mp[m]) : mp[m][j] = h
    BY <1>1 DEF Positions
<1>4. PICK j \in 1..Len(mp[m]) : mp[m][j] = h
    BY <1>3
<1>5. PICK p \in Nat \ {0} : StepTrained(mp, m, p)
    BY DEF UpdateDone
<1> DEFINE micros == StepMicros(config, shares, r, m)
<1>6. Positions(micros, Len(mp[m]), p)
    BY <1>5 DEF StepTrained
<1> HIDE DEF micros
<1>7. PICK x \in 1..p : \E i \in 1..Len(micros[x]) : micros[x][i] = j
    BY <1>6 DEF Positions
<1>8. PICK i \in 1..Len(micros[x]) : micros[x][i] = j
    BY <1>7
<1> DEFINE place == <<r, m, x, i>>
<1>9. place \in Places
    BY <1>5, <1>8, PlaceIs DEF micros
<1>10. RowAt(place, mp, k) = row
    BY <1>2, <1>4, <1>8 DEF RowAt, ShareRow, MicrosAt, micros
<1> QED
    BY <1>9, <1>10

-----------------------------------------------------------------------------
(* Once or twice *)

\* A set without three different elements.
LEMMA OneOrTwo ==
    ASSUME NEW S, NEW x \in S, \A a, b, c \in S : a = b \/ b = c \/ a = c
    PROVE  Cardinality(S) \in {1, 2}
<1>1. IsFiniteSet({x}) /\ Cardinality({x}) = 1
    BY FS_Singleton
<1>2. CASE S = {x}
    BY <1>1, <1>2
<1>3. CASE S # {x}
  <2>1. PICK y \in S : y # x
      BY <1>3
  <2>2. S = {x} \cup {y}
      BY <2>1
  <2>3. Cardinality({x} \cup {y}) = Cardinality({x}) + 1
      BY <1>1, <2>1, FS_AddElement
  <2> QED
      BY <1>1, <2>2, <2>3
<1> QED
    BY <1>2, <1>3

\* TrainedOnceOrTwice: after adjust_batch, _balance_batch, dispatch and update every row
\* of the rollout has been trained on, none more than twice.
THEOREM TrainedAlwaysOnceOrTwice == Spec => []TrainedOnceOrTwice
<1>1. JobInv /\ TrainedInv => TrainedOnceOrTwice
  <2> SUFFICES ASSUME JobInv, TrainedInv, Updated, NEW id \in 1..Len(rolled)
               PROVE  Cardinality({p \in Places : TrainedAt(p).id = id}) \in {1, 2}
      BY DEF TrainedOnceOrTwice
  <2>1. PICK k, q : UpdateDone(MiniPositions(config, k), k, q)
      BY UpdatedIs
  <2> DEFINE mp == MiniPositions(config, k)
             S == {p \in Places : TrainedAt(p).id = id}
  <2>2. UpdateDone(mp, k, q) /\ Good(batch, Len(rolled)) /\ OnceOrTwice(batch, Len(rolled))
      BY <2>1, UpdatedIs
  <2> HIDE DEF mp, S
  <2>3. PICK row \in 1..Len(batch) : batch[row].id = id
      BY <2>2 DEF OnceOrTwice
  <2>4. PICK x \in Places : RowAt(x, mp, k) = row
      BY <2>2, SomePlace
  <2>5. x \in S
    <3>1. PlaceIn(x, mp, k, q)
        BY <2>2, EveryPlace
    <3> QED
        BY <2>3, <2>4, <3>1 DEF PlaceIn, S
  <2>6. ASSUME NEW a \in S, NEW b \in S, NEW c \in S
        PROVE  a = b \/ b = c \/ a = c
    <3> DEFINE i == RowAt(a, mp, k)
               j == RowAt(b, mp, k)
               l == RowAt(c, mp, k)
    <3>1. a \in Places /\ b \in Places /\ c \in Places
          /\ TrainedAt(a).id = id /\ TrainedAt(b).id = id /\ TrainedAt(c).id = id
        BY DEF S
    <3>2. PlaceIn(a, mp, k, q) /\ PlaceIn(b, mp, k, q) /\ PlaceIn(c, mp, k, q)
        BY <2>2, <3>1, EveryPlace
    <3>3. /\ i \in 1..Len(batch) /\ j \in 1..Len(batch) /\ l \in 1..Len(batch)
          /\ batch[i].id = id /\ batch[j].id = id /\ batch[l].id = id
        BY <3>1, <3>2, Zenon DEF PlaceIn
    <3>4. i = j \/ j = l \/ i = l
      <4> HIDE DEF i, j, l
      <4> QED
          BY <2>2, <3>3 DEF OnceOrTwice
    <3>5. i = j => a = b
        BY <2>2, <3>1, OnePlace
    <3>6. j = l => b = c
        BY <2>2, <3>1, OnePlace
    <3>7. i = l => a = c
        BY <2>2, <3>1, OnePlace
    <3> QED
        BY <3>4, <3>5, <3>6, <3>7
  <2>7. Cardinality(S) \in {1, 2}
      BY <2>5, <2>6, OneOrTwo
  <2> QED
      BY <2>7 DEF S
<1>2. Init => JobInv /\ TrainedInv
    BY JobInit, TrainedInit
<1>3. JobInv /\ TrainedInv /\ [Next]_vars => (JobInv /\ TrainedInv)'
    BY JobStep, TrainedStep
<1> QED
    BY <1>1, <1>2, <1>3, PTL DEF Spec

-----------------------------------------------------------------------------
(* Weights *)

\* What a row weighs among so many, if losses are not averaged over tokens.
Weighs(c, size) ==
    LET scale == IF c.dynamic THEN <<size, Mini(c)>> ELSE <<1, Mini(c) \div c.actorMicro>>
        losses == IF c.agg = "seq-mean-token-sum-norm" THEN 1 ELSE size
    IN  <<scale[1], scale[2] * losses>>

LEMMA WeighsByRows ==
    ASSUME NEW c, c.agg # "token-mean", NEW rowsOf, NEW r, NEW m, NEW k,
           Len(StepMicros(c, rowsOf, r, m)[k]) \in Nat
    PROVE  WeightIn(c, rowsOf, r, m, k) = Weighs(c, Len(StepMicros(c, rowsOf, r, m)[k]))
<1> DEFINE rows == StepRows(c, rowsOf, m)[r]
           f == StepMicros(c, rowsOf, r, m)[k]
           micro == Select(rows, f)
<1>1. WeightIn(c, rowsOf, r, m, k) = MicroWeight(c, micro)
    BY DEF WeightIn
<1>2. Len(micro) = Len(f)
    BY DEF Select
<1> HIDE DEF micro, f
<1>3. MicroWeight(c, micro) = Weighs(c, Len(f))
    BY <1>2 DEF MicroWeight, Weighs
<1> QED
    BY <1>1, <1>3 DEF f

\* A dynamic micro-batch is scaled by its rows and averaged over them.
LEMMA WeighsSame ==
    ASSUME NEW c \in Configs, NEW x \in Nat, NEW y \in Nat, WeighsEvenly(c), ~c.dynamic => x = y
    PROVE  Same(Weighs(c, x), Weighs(c, y))
<1>1. CASE ~c.dynamic
    BY <1>1, Zenon DEF Same
<1>2. CASE c.dynamic
  <2> DEFINE s == Mini(c)
  <2>1. s \in Nat
      BY ConfigIs
  <2>2. Weighs(c, x) = <<x, s * x>> /\ Weighs(c, y) = <<y, s * y>>
      BY <1>2 DEF Weighs, WeighsEvenly
  <2> HIDE DEF s
  <2>3. x * (s * y) = y * (s * x)
      BY <2>1
  <2> QED
      BY <2>2, <2>3 DEF Same
<1> QED
    BY <1>1, <1>2

\* adjust_batch's divisor fills the actor's micro-batches.
LEMMA MicroDividesShare ==
    ASSUME NEW c \in Configs, ~c.multiModal, NEW k \in Nat \ {0}, NEW n \in Nat, n = k * World,
           n % Divisor(c) = 0
    PROVE  k % c.actorMicro = 0
<1> DEFINE d == Divisor(c)
           a == c.actorMicro
           w == a * World
<1>1. a \in Nat \ {0} /\ World \in Nat \ {0}
    BY ConfigIs, WorldAssumption
<1>2. w \in Nat \ {0} /\ d \in Nat \ {0} /\ d % w = 0
    BY <1>1, Product, DivisorIs
<1> HIDE DEF w, d
<1>3. n % w = 0
    BY <1>2, DividesOn DEF d
<1> HIDE DEF a
<1>4. IsMultiple(k, a)
    BY <1>1, <1>3, ShareDivides DEF w
<1>5. PICK q \in Nat \ {0} : k = q * a
    BY <1>4 DEF IsMultiple
<1>6. (q * a) % a = 0
    BY <1>1, Product
<1> QED
    BY <1>5, <1>6 DEF a

\* Equal micro-batches: the rows of a step are a multiple of their size.
LEMMA EvenSteps ==
    ASSUME JobInv, TrainedInv, Updated, WeighsEvenly(config), ~config.dynamic,
           NEW mp, NEW k, NEW q, UpdateDone(mp, k, q), NEW m \in 1..q
    PROVE  Len(mp[m]) % CutSize(config, Len(mp[m]), config.actorMicro) = 0
<1> DEFINE n == Len(batch)
           l == Len(mp[m])
           a == config.actorMicro
           s == Mini(config)
           T == 1..k
           id == [j \in 1..k |-> j]
<1>1. /\ config \in Configs /\ Good(batch, Len(rolled)) /\ n % Divisor(config) = 0
      /\ config.multiModal \in BOOLEAN /\ config.padded \in BOOLEAN
      /\ a \in Nat \ {0} /\ s \in Nat \ {0} /\ s % a = 0 /\ World \in Nat \ {0}
    BY UpdatedIs, ConfigIs, WorldAssumption
<1>2. /\ k \in Nat \ {0} /\ n = k * World /\ n \in Nat /\ l \in Nat \ {0}
      /\ Len(id) = k /\ SplitAt(mp, id, CutSize(config, k, s), q, T)
      /\ Cuttable(config, k, s) /\ Cuttable(config, l, a)
    BY <1>1, LengthsOf, IdentityIs DEF UpdateDone, Share
<1> HIDE DEF n, l, a, s, T, id
<1>3. CASE ~config.multiModal
  <2>1. CutSize(config, k, s) = s /\ CutSize(config, l, a) = a
      BY <1>3 DEF CutSize
  <2>2. k % a = 0
      BY <1>1, <1>2, <1>3, MicroDividesShare DEF a, n
  <2>3. Len(id) \in Nat /\ Len(id) % a = 0 /\ SplitAt(mp, id, s, q, T)
      BY <1>2, <2>1, <2>2
  <2>4. AllMultiples(mp, a, q)
      BY <1>1, <2>3, SplitDivides
  <2> QED
      BY <2>1, <2>4 DEF AllMultiples, l, a
<1>4. CASE config.multiModal /\ ~config.padded
  <2> DEFINE y == l \div a
  <2>1. l % y = 0 /\ y > 0 /\ y \in Nat
    <3>1. l % y = 0 /\ y > 0
        BY <1>2, <1>4 DEF Cuttable, Chunkable
    <3>2. y \in Nat
        BY <1>1, <1>2, Parts
    <3> QED
        BY <3>1, <3>2
  <2>2. CutSize(config, l, a) = PartSize(l, y)
      BY <1>4 DEF CutSize
  <2> HIDE DEF y
  <2>3. y \in Nat \ {0} /\ l \in Nat
      BY <1>2, <2>1
  <2> DEFINE z == l \div y
  <2>4. z \in Nat /\ l = y * z
      BY <2>1, <2>3, Divides
  <2> HIDE DEF z
  <2>5. (y * z + (y - 1)) \div y = z
      BY <2>3, <2>4
  <2>6. l + y - 1 = y * z + (y - 1)
      BY <2>3, <2>4
  <2>7. PartSize(l, y) = z
      BY <2>5, <2>6 DEF PartSize
  <2>8. z # 0 /\ l = z * y
      BY <1>2, <2>3, <2>4, Product2
  <2>9. (z * y) % z = 0
      BY <2>3, <2>4, <2>8, Product
  <2> QED
      BY <2>2, <2>7, <2>8, <2>9 DEF l, a
<1>5. CASE config.multiModal /\ config.padded
  <2>1. \E x \in Nat \ {0} : k = x * s
    <3> DEFINE w == config.mini
               d == Divisor(config)
    <3>1. w \in Nat \ {0} /\ w % World = 0 /\ d \in Nat \ {0} /\ d % w = 0 /\ s = w \div World
        BY <1>1, <1>5, ConfigIs, DivisorIs DEF WeighsEvenly, Mini, s
    <3> HIDE DEF w, d
    <3>2. n % w = 0
        BY <1>1, <1>2, <3>1, DividesOn DEF d
    <3>3. w = World * s
        BY <1>1, <3>1, Divides
    <3>4. w = s * World
        BY <1>1, <3>3, Product2
    <3>5. IsMultiple(k, s)
        BY <1>1, <1>2, <3>2, <3>4, ShareDivides
    <3> QED
        BY <3>5 DEF IsMultiple
  <2>2. PICK x \in Nat \ {0} : k = x * s
      BY <2>1
  <2>3. PartSize(k, k \div s) = s
      BY <1>1, <1>2, <2>2, EvenCut
  <2>4. CutSize(config, k, s) = s
      BY <1>5, <2>3 DEF CutSize
  <2>5. (x * s) % s = 0
      BY <1>1, Product
  <2>6. Len(id) \in Nat /\ Len(id) % s = 0 /\ SplitAt(mp, id, s, q, T)
      BY <1>2, <2>2, <2>4, <2>5
  <2>7. AllFull(mp, s, q)
      BY <1>1, <2>6, SplitFull
  <2>8. l = s
      BY <2>7 DEF AllFull, l
  <2> DEFINE z == s \div a
  <2>9. z \in Nat /\ s = a * z
      BY <1>1, Divides
  <2> HIDE DEF z
  <2>10. z \in Nat \ {0} /\ s = z * a
      BY <1>1, <2>9, Product2
  <2>11. PartSize(s, s \div a) = a
      BY <1>1, <2>10, EvenCut
  <2>12. CutSize(config, l, a) = a
      BY <1>5, <2>8, <2>11 DEF CutSize
  <2> QED
      BY <1>1, <2>8, <2>12 DEF l, a
<1> QED
    BY <1>1, <1>3, <1>4, <1>5

\* Rows trained on in equal micro-batches, in a step of some mini-batch.
InEqualMicros(p, mp, size) ==
    /\ size \in Nat /\ TrainedAt(p).weight = Weighs(config, size)
    /\ ~config.dynamic => size = CutSize(config, Len(mp[p[2]]), config.actorMicro)

LEMMA WeightAt ==
    ASSUME JobInv, TrainedInv, Updated, WeighsEvenly(config),
           NEW mp, NEW k, NEW q, UpdateDone(mp, k, q), NEW p \in Places
    PROVE  \E size : InEqualMicros(p, mp, size)
<1> DEFINE a == config.actorMicro
           m == p[2]
           r == p[1]
           x == p[3]
           micros == StepMicros(config, shares, r, m)
           l == Len(mp[m])
           size == Len(micros[x])
           c == CutSize(config, l, a)
           ones == [i \in 1..l |-> i]
           U == 1..l
<1>1. config \in Configs /\ Good(batch, Len(rolled))
    BY UpdatedIs
<1>2. PlaceIn(p, mp, k, q)
    BY <1>1, EveryPlace
<1>3. /\ m \in 1..q /\ r \in 1..World /\ x \in 1..Len(micros)
      /\ TrainedAt(p).weight = WeightIn(config, shares, r, m, x)
    BY <1>2 DEF PlaceIn, MicrosAt
<1>4. l \in Nat \ {0} /\ Cuttable(config, l, a)
    BY <1>3 DEF UpdateDone
<1>5. PICK t \in Nat \ {0} : StepTrained(mp, m, t)
    BY <1>3 DEF UpdateDone
<1>6. Positions(micros, l, t) /\ (~config.dynamic => SplitAt(micros, ones, c, t, U))
    BY <1>3, <1>5 DEF StepTrained
<1>7. size \in Nat /\ x \in 1..t
  <2> DEFINE s == micros[x]
  <2>1. Len(micros) = t
      BY <1>6 DEF Positions
  <2>2. x \in 1..t
      BY <1>3, <2>1
  <2>3. s \in Seq(1..l)
      BY <1>6, <2>2 DEF Positions
  <2> HIDE DEF s
  <2>4. Len(s) \in Nat
      BY <2>3
  <2> QED
      BY <2>2, <2>4 DEF s
<1>8. TrainedAt(p).weight = Weighs(config, size)
    BY <1>3, <1>7, WeighsByRows DEF WeighsEvenly
<1>9. ~config.dynamic => size = c
  <2> HAVE ~config.dynamic
  <2>1. l % c = 0
      BY <1>3, EvenSteps
  <2> HIDE DEF l, a
  <2>2. c \in Nat \ {0}
      BY <1>1, <1>4, ConfigIs, CutSizeIs DEF a
  <2>3. Len(ones) = l
      BY <1>4, IdentityIs
  <2> HIDE DEF c, ones, U, micros, x
  <2>4. AllFull(micros, c, t)
    <3>1. SplitAt(micros, ones, c, t, U) /\ Len(ones) \in Nat /\ Len(ones) % c = 0
        BY <1>4, <1>6, <2>1, <2>3
    <3> QED
        BY <2>2, <3>1, SplitFull
  <2> QED
      BY <1>7, <2>4 DEF AllFull
<1>10. InEqualMicros(p, mp, size)
    BY <1>7, <1>8, <1>9 DEF InEqualMicros
<1> QED
    BY <1>10

\* EvenWeights: where the losses of a micro-batch are not averaged over its
\* tokens, all rows of an optimizer step weigh the same, on every rank and
\* whatever the lengths (update_policy, agg_loss, adjust_batch).
THEOREM WeightsAlwaysEven == Spec => []EvenWeights
<1>1. JobInv /\ TrainedInv => EvenWeights
  <2> SUFFICES ASSUME JobInv, TrainedInv, Updated, WeighsEvenly(config),
                      NEW p \in Places, NEW u \in Places, p[2] = u[2]
               PROVE  Same(TrainedAt(p).weight, TrainedAt(u).weight)
      BY DEF EvenWeights
  <2>1. PICK k, q : UpdateDone(MiniPositions(config, k), k, q)
      BY UpdatedIs
  <2> DEFINE mp == MiniPositions(config, k)
  <2>2. UpdateDone(mp, k, q)
      BY <2>1
  <2> HIDE DEF mp
  <2>3. PICK x : InEqualMicros(p, mp, x)
      BY <2>2, WeightAt
  <2>4. PICK y : InEqualMicros(u, mp, y)
      BY <2>2, WeightAt
  <2>5. config \in Configs /\ x \in Nat /\ y \in Nat /\ (~config.dynamic => x = y)
      BY <2>3, <2>4 DEF InEqualMicros, JobInv
  <2>6. Same(Weighs(config, x), Weighs(config, y))
      BY <2>5, WeighsSame
  <2> QED
      BY <2>3, <2>4, <2>6, Zenon DEF InEqualMicros
<1>2. Init => JobInv /\ TrainedInv
    BY JobInit, TrainedInit
<1>3. JobInv /\ TrainedInv /\ [Next]_vars => (JobInv /\ TrainedInv)'
    BY JobStep, TrainedStep
<1> QED
    BY <1>1, <1>2, <1>3, PTL DEF Spec

-----------------------------------------------------------------------------
(* The recipes' order: advantages before copies *)

\* The rows of the rollout after one, two and three stages.
ReturnedRows ==
    IF config.estimator \in StepEstimators THEN WithReturns(config, rolled) ELSE rolled
ValuedRows ==
    [i \in DOMAIN rolled |->
        IF config.estimator = "gae" THEN [ReturnedRows[i] EXCEPT !.value = i] ELSE ReturnedRows[i]]
ScoredRows == IF config.penalty THEN Penalised(config, ValuedRows) ELSE ValuedRows

\* A row tells what the row of the rollout tells that it is.
Tells(row, told) ==
    /\ row.uid = told.uid /\ row.obs = told.obs /\ row.score = told.score /\ row.valid = told.valid
    /\ row.flow = told.flow /\ row.cut = told.cut

\* Every row has the advantage it has among the rows of the rollout.
HaveAdvantages(b) ==
    \A i \in 1..Len(b) : /\ b[i].adv = AdvantageOf(config, ScoredRows, b[i].id)
                         /\ Tells(b[i], ScoredRows[b[i].id])

RecipeInv ==
    /\ method = "values" => config.estimator = "gae"
    /\ config.trainer # "verl" /\ error = "none" =>
          /\ done = 0 => Kept = rolled
          /\ done = 1 => Kept = ReturnedRows
          /\ done = 2 => Kept = ValuedRows
          /\ done = 3 => Kept = ScoredRows
          /\ done >= 4 => HaveAdvantages(Kept)

LEMMA SameRollout ==
    ASSUME UNCHANGED <<config, rolled>>
    PROVE  /\ ReturnedRows' = ReturnedRows /\ ValuedRows' = ValuedRows /\ ScoredRows' = ScoredRows
           /\ \A b : HaveAdvantages(b)' <=> HaveAdvantages(b)
<1>1. ReturnedRows' = ReturnedRows
    BY DEF ReturnedRows, WithReturns
<1>2. ValuedRows' = ValuedRows
    BY <1>1 DEF ValuedRows
<1>3. ScoredRows' = ScoredRows
    BY <1>2 DEF ScoredRows, Penalised
<1>4. \A b : HaveAdvantages(b)' <=> HaveAdvantages(b)
    BY <1>3 DEF HaveAdvantages, AdvantageOf, Tells
<1> QED
    BY <1>1, <1>2, <1>3, <1>4

LEMMA DrawnAdvantages ==
    ASSUME NEW b, HaveAdvantages(b), NEW out, Drawn(out, b)
    PROVE  HaveAdvantages(out)
    BY DEF HaveAdvantages, Drawn

\* A stage that gives the driver new rows.
LEMMA RecipeGoesOn ==
    ASSUME JobInv, RecipeInv, NEW stage, Reached(stage), done' = done + 1, UNCHANGED <<config, rolled, error, call>>,
           config.trainer # "verl" =>
              /\ stage = "returns" /\ batch = rolled => batch' = ReturnedRows
              /\ stage = "values" /\ batch = ReturnedRows => batch' = ValuedRows
              /\ stage = "penalty" /\ batch = ValuedRows => batch' = ScoredRows
              /\ stage = "advantage" /\ batch = ScoredRows /\ InOrder(batch, Len(rolled)) => HaveAdvantages(batch')
              /\ stage \notin {"returns", "values", "penalty", "advantage"} /\ HaveAdvantages(batch) => HaveAdvantages(batch')
    PROVE  RecipeInv'
<1>1. /\ done \in 0..7 /\ Kept = batch /\ KeptInv /\ error = "none" /\ method = "none"
      /\ stage = Stages(config)[done + 1]
    BY BetweenCalls
<1>2. method' = "none" /\ Kept' = batch'
    BY <1>1 DEF Kept, call
<1>3. CASE config.trainer = "verl"
    BY <1>2, <1>3 DEF RecipeInv
<1>4. CASE config.trainer # "verl"
  <2>1. /\ stage = "returns" <=> done = 0
        /\ stage = "values" <=> done = 1
        /\ stage = "penalty" <=> done = 2
        /\ stage = "advantage" <=> done = 3
        /\ Adjusted(config) = 5
      BY <1>1, <1>4, StagesAre DEF Adjusted
  <2>2. done = 3 => InOrder(batch, Len(rolled))
      BY <1>1, <2>1 DEF KeptInv
  <2>3. /\ done = 0 => batch' = ReturnedRows
        /\ done = 1 => batch' = ValuedRows
        /\ done = 2 => batch' = ScoredRows
        /\ done = 3 => HaveAdvantages(batch')
        /\ done >= 4 => HaveAdvantages(batch')
      BY <1>1, <1>4, <2>1, <2>2 DEF RecipeInv
  <2>4. /\ done' = 1 => batch' = ReturnedRows
        /\ done' = 2 => batch' = ValuedRows
        /\ done' = 3 => batch' = ScoredRows
        /\ done' >= 4 => HaveAdvantages(batch')
        /\ done' # 0
      BY <1>1, <2>3
  <2> QED
      BY <1>2, <2>4, SameRollout DEF RecipeInv
<1> QED
    BY <1>3, <1>4

\* No stage is over, or the rows do not matter any more.
LEMMA RecipeStays ==
    ASSUME RecipeInv, UNCHANGED <<config, rolled, done>>, error' # "none" \/ (Kept' = Kept /\ error' = error),
           method' = "values" => config.estimator = "gae"
    PROVE  RecipeInv'
    BY SameRollout DEF RecipeInv

LEMMA RolledIs ==
    ASSUME JobInv
    PROVE  /\ DOMAIN rolled = 1..Len(rolled) /\ rolled = [i \in DOMAIN rolled |-> rolled[i]]
           /\ ReturnedRows = [i \in DOMAIN rolled |-> ReturnedRows[i]]
           /\ config.estimator # "gae" => ValuedRows = ReturnedRows
<1>1. rolled \in Seq(ToSet(rolled))
    BY BatchAssumption DEF JobInv
<1>2. DOMAIN rolled = 1..Len(rolled) /\ rolled = [i \in DOMAIN rolled |-> rolled[i]]
  <2> DEFINE T == ToSet(rolled)
  <2>1. rolled \in Seq(T)
      BY <1>1
  <2> HIDE DEF T
  <2> QED
      BY <2>1
<1>3. ReturnedRows = [i \in DOMAIN rolled |-> ReturnedRows[i]]
    BY <1>2 DEF ReturnedRows, WithReturns
<1> QED
    BY <1>2, <1>3, Zenon DEF ValuedRows

-----------------------------------------------------------------------------
(* What the copies leave alone *)

LEMMA RecipeDriverStep ==
    ASSUME JobInv, RecipeInv, Skip \/ Returns \/ InvalidPenalty \/ ComputeAdvantage \/ Adjust \/ BalanceBatch
    PROVE  RecipeInv'
<1>1. CASE Skip
  <2>1. PICK stage \in {"returns", "values", "penalty", "balance"} :
            Reached(stage) /\ ~Needed(config, stage)
      BY <1>1 DEF Skip
  <2>2. batch' = batch /\ done' = done + 1 /\ UNCHANGED <<config, rolled, error, call>>
      BY <1>1 DEF Skip, Continue
  <2>3. /\ stage = "returns" /\ batch = rolled => batch' = ReturnedRows
        /\ stage = "values" /\ batch = ReturnedRows => batch' = ValuedRows
        /\ stage = "penalty" /\ batch = ValuedRows => batch' = ScoredRows
      BY <2>1, <2>2, RolledIs DEF Needed, ReturnedRows, ScoredRows
  <2> QED
      BY <2>1, <2>2, <2>3, RecipeGoesOn
<1>2. CASE Returns
  <2>1. /\ Reached("returns") /\ done' = done + 1 /\ UNCHANGED <<config, rolled, error, call>>
        /\ batch' = WithReturns(config, batch) /\ config.estimator \in StepEstimators
      BY <1>2 DEF Returns, At, Continue, Needed
  <2>2. batch = rolled => batch' = ReturnedRows
      BY <2>1 DEF ReturnedRows
  <2> QED
      BY <2>1, <2>2, RecipeGoesOn
<1>3. CASE InvalidPenalty
  <2>1. /\ Reached("penalty") /\ done' = done + 1 /\ UNCHANGED <<config, rolled, error, call>>
        /\ batch' = Penalised(config, batch) /\ config.penalty
      BY <1>3 DEF InvalidPenalty, At, Continue, Needed
  <2>2. batch = ValuedRows => batch' = ScoredRows
      BY <2>1 DEF ScoredRows
  <2> QED
      BY <2>1, <2>2, RecipeGoesOn
<1>4. CASE ComputeAdvantage
  <2>1. /\ Reached("advantage") /\ done' = done + 1 /\ UNCHANGED <<config, rolled, error, call>>
        /\ batch' = WithAdvantages(config, batch)
      BY <1>4 DEF ComputeAdvantage, At, Continue
  <2> DEFINE n == Len(rolled)
  <2>2. Good(batch, n)
      BY DEF JobInv
  <2>3. ASSUME batch = ScoredRows, InOrder(batch, n)
        PROVE  HaveAdvantages(batch')
    <3>1. SameRows(batch', batch, n)
      <4> HIDE DEF n
      <4> QED
          BY <2>1, <2>2, WithAdvantagesIs
    <3>2. DOMAIN batch = 1..Len(batch) /\ Len(batch') = Len(batch)
        BY <2>2, <3>1, SeqIsFunction DEF Good, SameRows
    <3>3. ASSUME NEW i \in 1..Len(batch')
          PROVE  /\ batch'[i].adv = AdvantageOf(config, ScoredRows, batch'[i].id)
                 /\ Tells(batch'[i], ScoredRows[batch'[i].id])
      <4>1. batch'[i].id = i /\ i \in DOMAIN batch
          BY <2>3, <3>1, <3>2 DEF SameRows, InOrder
      <4>2. batch'[i] = [batch[i] EXCEPT !.adv = AdvantageOf(config, batch, i)]
          BY <2>1, <4>1 DEF WithAdvantages
      <4>3. DOMAIN batch[i] = Columns
          BY <2>2, <3>2 DEF Good, Fine
      <4>4. batch'[i].adv = AdvantageOf(config, batch, i) /\ Tells(batch'[i], batch[i])
          BY <4>2, <4>3 DEF Columns, Tells
      <4> QED
          BY <2>3, <4>1, <4>4
    <3> QED
        BY <3>3 DEF HaveAdvantages
  <2> QED
      BY <2>1, <2>3, RecipeGoesOn
<1>5. CASE Adjust
  <2> DEFINE n == Len(rolled)
             d == Divisor(config)
  <2>1. Reached("adjust") /\ done' = done + 1 /\ UNCHANGED <<config, rolled, error, call>>
      BY <1>5 DEF Adjust, At, Continue
  <2>2. /\ config \in Configs /\ done \in 0..7 /\ Kept = batch /\ Good(batch, n) /\ KeptInv /\ n \in Nat \ {0}
        /\ "adjust" = Stages(config)[done + 1]
      BY <2>1, BetweenCalls
  <2>3. done < Adjusted(config)
    <3>1. "adjust" = "adjust" <=> done + 1 = Adjusted(config)
        BY <2>2, StagesAre
    <3> QED
        BY <2>2, <3>1
  <2>4. InOrder(batch, n) /\ d \in Nat \ {0}
      BY <2>2, <2>3, DivisorIs DEF KeptInv
  <2>5. PICK copies \in Copies(Len(batch), Missing(Len(batch), d)) : batch' = batch \o Select(batch, copies)
      BY <1>5 DEF Adjust
  <2> HIDE DEF n, d
  <2>6. Drawn(batch', batch)
      BY <2>2, <2>4, <2>5, AdjustIs
  <2> QED
      BY <2>1, <2>6, DrawnAdvantages, RecipeGoesOn
<1>6. CASE BalanceBatch
  <2> DEFINE n == Len(rolled)
  <2>1. /\ Reached("balance") /\ done' = done + 1 /\ UNCHANGED <<config, rolled, error, call>>
        /\ batch' = Select(batch, FlattenSeq(Partitions(Lengths(batch), World, TRUE)))
      BY <1>6 DEF BalanceBatch, At, Continue
  <2>2. /\ config \in Configs /\ done \in 0..7 /\ Kept = batch /\ Good(batch, n) /\ KeptInv
        /\ "balance" = Stages(config)[done + 1]
      BY <2>1, BetweenCalls
  <2>3. done >= Adjusted(config)
    <3>1. "balance" = "balance" => done >= Adjusted(config)
        BY <2>2, StagesAre
    <3> QED
        BY <3>1
  <2>4. Len(batch) % Divisor(config) = 0
      BY <2>2, <2>3 DEF KeptInv
  <2> HIDE DEF n
  <2>5. Len(batch) % World = 0
      BY <2>2, <2>4, WorldDivides
  <2>6. PICK f : FlattenSeq(Partitions(Lengths(batch), World, TRUE)) = f /\ Permutes(f, Len(batch))
      BY <2>2, <2>5, BalanceIs
  <2>7. Good(batch', n) /\ Balances(batch', batch, f)
      BY <2>1, <2>2, <2>6, PermutedIs
  <2>8. Drawn(batch', batch)
      BY <2>7, SeqIsFunction DEF Balances, Drawn, Good
  <2> QED
      BY <2>1, <2>8, DrawnAdvantages, RecipeGoesOn
<1> QED
    BY <1>1, <1>2, <1>3, <1>4, <1>5, <1>6

LEMMA RecipeReturn ==
    ASSUME JobInv, RecipeInv, Return
    PROVE  RecipeInv'
<1> DEFINE n == Len(rolled)
<1>1. /\ batch = asked /\ output' = Ids(batch) /\ SameRows(batch', batch, n)
      /\ method' = "none" /\ done' = done + 1 /\ done < 8
      /\ error = "none" /\ UNCHANGED <<config, rolled, error>>
      /\ method = Stages(config)[done + 1]
    BY ReturnIs
<1>2. Good(batch, n) /\ KeptInv /\ done \in 0..7 /\ method \in Called /\ Kept = batch
    BY <1>1 DEF JobInv, Return, InCall, Kept
<1>3. Kept' = batch'
    BY <1>1 DEF Kept
<1>4. CASE config.trainer = "verl"
    BY <1>1, <1>4 DEF RecipeInv
<1>5. CASE config.trainer # "verl"
  <2>1. /\ method = "values" <=> done = 1
        /\ method = "returns" <=> done = 0
        /\ method = "penalty" <=> done = 2
        /\ method = "advantage" <=> done = 3
        /\ Adjusted(config) = 5
      BY <1>1, <1>2, <1>5, StagesAre DEF Adjusted
  <2>2. DOMAIN batch = 1..Len(batch) /\ \A i \in 1..Len(batch) : DOMAIN batch[i] = Columns
      BY <1>2, SeqIsFunction DEF Good, Fine
  <2>3. CASE method = "values"
    <3>1. batch = ReturnedRows /\ config.estimator = "gae" /\ InOrder(batch, n)
        BY <1>1, <1>2, <1>5, <2>1, <2>3 DEF RecipeInv, KeptInv
    <3>2. batch' = Column(batch, Ids(batch))
        BY <1>1, <2>3 DEF Return
    <3>3. batch' = [i \in 1..Len(batch) |-> [batch[i] EXCEPT !.value = batch[i].id]]
      <4> HIDE DEF n
      <4> QED
          BY <1>2, <2>3, <3>2, ColumnIs
    <3>4. \A i \in 1..Len(batch) : batch[i].id = i
        BY <3>1 DEF InOrder
    <3>5. DOMAIN rolled = 1..Len(batch)
        BY <3>1, RolledIs DEF InOrder
    <3>6. batch' = ValuedRows
        BY <3>1, <3>3, <3>4, <3>5 DEF ValuedRows
    <3> QED
        BY <1>1, <1>3, <2>1, <2>3, <3>6, SameRollout DEF RecipeInv
  <2>4. CASE method # "values"
    <3>1. done \in 4..7
        BY <1>2, <2>1, <2>4 DEF Called
    <3>2. HaveAdvantages(batch)
        BY <1>1, <1>2, <1>5, <3>1 DEF RecipeInv
    <3>3. Len(batch') = Len(batch) /\ \A i \in 1..Len(batch) : batch'[i].id = batch[i].id
        BY <1>1 DEF SameRows
    <3>4. \A i \in 1..Len(batch) : batch'[i].adv = batch[i].adv /\ Tells(batch'[i], batch[i])
      <4>1. CASE method = "update"
        <5>1. batch' = batch
            BY <4>1 DEF Return
        <5> QED
            BY <5>1 DEF Tells
      <4>2. CASE method # "update"
        <5>1. batch' = Column(batch, Ids(batch))
            BY <1>1, <4>2 DEF Return
        <5>2. batch' = [i \in 1..Len(batch) |-> [batch[i] EXCEPT !.logp = batch[i].id]]
          <6> HIDE DEF n
          <6> QED
              BY <1>2, <2>4, <5>1, ColumnIs
        <5> QED
            BY <2>2, <5>2 DEF Columns, Tells
      <4> QED
          BY <4>1, <4>2
    <3>5. HaveAdvantages(batch')
        BY <3>2, <3>3, <3>4 DEF HaveAdvantages, Tells
    <3>6. done' >= 4 /\ done' # 0 /\ done' # 1 /\ done' # 2 /\ done' # 3
        BY <1>1, <3>1
    <3> QED
        BY <1>1, <1>3, <3>5, <3>6, SameRollout DEF RecipeInv
  <2> QED
      BY <2>3, <2>4
<1> QED
    BY <1>4, <1>5

LEMMA RecipeStep ==
    ASSUME JobInv, RecipeInv, [Next]_vars
    PROVE  RecipeInv'
<1>1. CASE Skip \/ Returns \/ InvalidPenalty \/ ComputeAdvantage \/ Adjust \/ BalanceBatch
    BY <1>1, RecipeDriverStep
<1>2. CASE AdjustFails \/ NoSize
  <2>1. error' # "none" /\ UNCHANGED <<config, rolled, done, method>>
      BY <1>2 DEF AdjustFails, NoSize, Raise, call
  <2> QED
      BY <2>1, RecipeStays DEF RecipeInv
<1>3. ASSUME NEW stage \in Called, CallFails(stage)
      PROVE  RecipeInv'
  <2>1. error' # "none" /\ UNCHANGED <<config, rolled, done, method>>
      BY <1>3 DEF CallFails, Raise, call
  <2> QED
      BY <2>1, RecipeStays DEF RecipeInv
<1>4. ASSUME NEW stage \in Called, Call(stage)
      PROVE  RecipeInv'
  <2>1. /\ UNCHANGED <<config, rolled, done, error>> /\ method = "none" /\ method' = stage /\ asked' = batch
        /\ Needed(config, stage)
      BY <1>4 DEF Call, At, ranks!Begin
  <2>2. Kept' = Kept
      BY <2>1 DEF Kept, Called
  <2>3. stage = "values" => config.estimator = "gae"
      BY <2>1 DEF Needed
  <2> QED
      BY <2>1, <2>2, <2>3, RecipeStays
<1>5. CASE Return
    BY <1>5, RecipeReturn
<1>6. CASE UnionFails
  <2>1. error' # "none" /\ UNCHANGED <<config, rolled, done>> /\ method' = "none"
      BY <1>6 DEF UnionFails, ranks!End
  <2> QED
      BY <2>1, RecipeStays
<1>7. ASSUME NEW r \in 1..World, RankComputes(r) \/ RankUpdates(r)
      PROVE  RecipeInv'
  <2>1. UNCHANGED <<config, rolled, done, error, batch, method, asked>>
      BY <1>7 DEF RankComputes, RankUpdates, ranks!Compute
  <2>2. Kept' = Kept
      BY <2>1 DEF Kept
  <2> QED
      BY <2>1, <2>2, RecipeStays DEF RecipeInv
<1>8. ASSUME NEW r \in 1..World, RankFails(r)
      PROVE  RecipeInv'
  <2>1. error' # "none" /\ UNCHANGED <<config, rolled, done, method>>
      BY <1>8 DEF RankFails, Raise, call
  <2> QED
      BY <2>1, RecipeStays DEF RecipeInv
<1>9. CASE UNCHANGED vars
  <2>1. UNCHANGED <<config, rolled, done, error, batch, method, asked>>
      BY <1>9 DEF vars, call
  <2>2. Kept' = Kept
      BY <2>1 DEF Kept
  <2> QED
      BY <2>1, <2>2, RecipeStays DEF RecipeInv
<1> QED
    BY <1>1, <1>2, <1>3, <1>4, <1>5, <1>6, <1>7, <1>8, <1>9 DEF Next, Driver, ranks!Workers, Called

LEMMA RecipeInit ==
    ASSUME Init
    PROVE  RecipeInv
    BY DEF Init, ranks!Idle, RecipeInv, Kept

\* A row of a recipe's job that is over has the advantage it had among the
\* rows of the rollout, after the penalties.
LEMMA AdvantagesAre ==
    ASSUME JobInv, TrainedInv, RecipeInv, config.trainer = "recipe", Updated, NEW i \in DOMAIN batch
    PROVE  /\ batch[i].adv = AdvantageOf(config, ScoredRows, batch[i].id)
           /\ batch[i].id \in 1..Len(rolled) /\ Tells(batch[i], ScoredRows[batch[i].id])
<1>1. /\ done = 8 /\ Kept = batch /\ error = "none" /\ DOMAIN batch = 1..Len(batch)
      /\ Good(batch, Len(rolled))
    BY UpdatedIs, SeqIsFunction DEF Updated, Good
<1>2. HaveAdvantages(batch)
    BY <1>1 DEF RecipeInv
<1>3. batch[i].adv = AdvantageOf(config, ScoredRows, batch[i].id) /\ Tells(batch[i], ScoredRows[batch[i].id])
    BY <1>1, <1>2 DEF HaveAdvantages
<1>4. batch[i].id \in 1..Len(rolled)
    BY <1>1 DEF Good, Fine
<1> QED
    BY <1>3, <1>4

\* CopiesNotCounted: the rows that adjust_batch copies are in no mean of their
\* group, and every row keeps the advantage that the rollout's rows give it
\* (fit of the recipes' trainers), whatever was copied, reordered and computed
\* by whom.
THEOREM CopiesAreNeverCounted == Spec => []CopiesNotCounted
<1>1. JobInv /\ TrainedInv /\ RecipeInv => CopiesNotCounted
  <2> SUFFICES ASSUME JobInv, TrainedInv, RecipeInv, config.trainer = "recipe", Updated, NEW i \in DOMAIN batch
               PROVE  Same(batch[i].adv, AdvantageOf(config, ScoredRows, batch[i].id))
      BY DEF CopiesNotCounted, ScoredRows, ValuedRows, ReturnedRows
  <2> QED
      BY AdvantagesAre, Zenon DEF Same
<1> QED
    BY <1>1, JobInit, TrainedInit, RecipeInit, JobStep, TrainedStep, RecipeStep, PTL DEF Spec

-----------------------------------------------------------------------------
(* ObliFlow reads first rows *)

\* Two batches that differ in nothing that ObliFlow reads.
AlikeForObliFlow(b, f, n) ==
    /\ DOMAIN b = 1..n /\ DOMAIN f = 1..n
    /\ \A i \in 1..n : /\ b[i].uid = f[i].uid /\ b[i].traj = f[i].traj
                       /\ b[i].flow = f[i].flow /\ b[i].cut = f[i].cut
    /\ \A i \in 1..n : b[FirstRow(b, i)].score = f[FirstRow(b, i)].score

LEMMA FirstRowIs ==
    ASSUME NEW n \in Nat, NEW b, DOMAIN b = 1..n, NEW i \in 1..n
    PROVE  /\ FirstRow(b, i) \in 1..n
           /\ b[FirstRow(b, i)].uid = b[i].uid /\ b[FirstRow(b, i)].traj = b[i].traj
           /\ \A j \in 1..n : b[j].uid = b[i].uid /\ b[j].traj = b[i].traj => FirstRow(b, i) <= j
<1> DEFINE S == {j \in DOMAIN b : b[j].uid = b[i].uid /\ b[j].traj = b[i].traj}
<1>1. i \in S /\ S \in SUBSET (1..n)
    OBVIOUS
<1>2. IsFiniteSet(S)
    BY <1>1, FS_Interval, FS_Subset, 1 \in Int, n \in Int
<1>3. S \in SUBSET Int /\ S # {}
    BY <1>1
<1>4. Min(S) \in S /\ \A x \in S : Min(S) <= x
  <2> HIDE DEF S
  <2> QED
      BY <1>2, <1>3, MinIs
<1>5. FirstRow(b, i) = Min(S)
    BY DEF FirstRow
<1> QED
    BY <1>4, <1>5

LEMMA AlikeAdvantage ==
    ASSUME NEW n \in Nat, NEW b, NEW f, AlikeForObliFlow(b, f, n), NEW i \in 1..n, NEW alpha, NEW beta
    PROVE  ObliFlowAdvantage(b, i, alpha, beta) = ObliFlowAdvantage(f, i, alpha, beta)
<1>1. ASSUME NEW j \in 1..n
      PROVE  GroupOf(b, j) = GroupOf(f, j) /\ GroupOf(b, j) \in SUBSET (1..n)
    BY DEF GroupOf, AlikeForObliFlow
<1>2. ASSUME NEW j \in 1..n
      PROVE  FirstRow(b, j) = FirstRow(f, j)
  <2>1. {l \in DOMAIN b : b[l].uid = b[j].uid /\ b[l].traj = b[j].traj}
        = {l \in DOMAIN f : f[l].uid = f[j].uid /\ f[l].traj = f[j].traj}
      BY DEF AlikeForObliFlow
  <2> QED
      BY <2>1, Zenon DEF FirstRow
<1>3. ASSUME NEW j \in 1..n
      PROVE  b[FirstRow(b, j)].score = f[FirstRow(f, j)].score
    BY <1>2 DEF AlikeForObliFlow
<1>4. ASSUME NEW j \in 1..n
      PROVE  TrajectoryAdvantage(b, j) = TrajectoryAdvantage(f, j)
  <2> DEFINE S == {FirstRow(b, l) : l \in GroupOf(b, j)}
             T == {FirstRow(f, l) : l \in GroupOf(f, j)}
  <2>1. S = T
      BY <1>1, <1>2
  <2>2. \A x \in S : b[x].score = f[x].score
      BY <1>1, <1>2, <1>3
  <2>3. Scores(b, S) = Scores(f, T)
      BY <2>1, <2>2 DEF Scores
  <2>4. TrajectoryAdvantage(b, j) = Centred(b[FirstRow(b, j)].score, Scores(b, S))
      BY Zenon DEF TrajectoryAdvantage
  <2>5. TrajectoryAdvantage(f, j) = Centred(f[FirstRow(f, j)].score, Scores(f, T))
      BY Zenon DEF TrajectoryAdvantage
  <2> QED
      BY <1>3, <2>3, <2>4, <2>5, Zenon
<1> DEFINE raw(g, j) == LET t == TrajectoryAdvantage(g, j)
                        IN  t[1] + t[2] * (alpha * g[j].flow + beta * g[j].cut)
           raws(g) == [j \in GroupOf(g, i) |-> raw(g, j)]
           all(g) == Centred(raw(g, i), raws(g))
<1>5. ASSUME NEW j \in 1..n
      PROVE  raw(b, j) = raw(f, j)
    BY <1>4, Zenon DEF AlikeForObliFlow
<1> HIDE DEF raw
<1>6. raws(b) = raws(f)
    BY <1>1, <1>5
<1>7. all(b) = all(f)
    BY <1>5, <1>6, Zenon
<1>8. ASSUME NEW g
      PROVE  ObliFlowAdvantage(g, i, alpha, beta) = <<all(g)[1], all(g)[2] * TrajectoryAdvantage(g, i)[2]>>
    BY Zenon DEF ObliFlowAdvantage, raw
<1> QED
    BY <1>4, <1>7, <1>8, Zenon

\* Only the invalid first rows of trajectories are penalised.
FirstInvalid == [i \in DOMAIN rolled |->
                   [rolled[i] EXCEPT !.valid =
                       @ \/ \E j \in 1..(i - 1) : rolled[j].traj = rolled[i].traj]]

LEMMA PenaltiesAlike ==
    ASSUME rolled \in Batches, NEW n \in Nat, DOMAIN rolled = 1..n
    PROVE  AlikeForObliFlow(Penalised(config, rolled), Penalised(config, FirstInvalid), n)
<1> DEFINE b == Penalised(config, rolled)
           f == Penalised(config, FirstInvalid)
           score(i, valid) == IF valid THEN rolled[i].score ELSE rolled[i].score - Penalty
<1>1. \A i \in 1..n : /\ DOMAIN rolled[i] = Columns
                      /\ \A j \in 1..n : rolled[i].traj = rolled[j].traj => rolled[i].uid = rolled[j].uid
    BY BatchAssumption
<1>2. DOMAIN b = 1..n /\ DOMAIN f = 1..n /\ DOMAIN FirstInvalid = 1..n
    BY DEF Penalised, FirstInvalid
<1>3. ASSUME NEW i \in 1..n
      PROVE  /\ b[i].uid = rolled[i].uid /\ b[i].traj = rolled[i].traj
             /\ b[i].flow = rolled[i].flow /\ b[i].cut = rolled[i].cut
             /\ b[i].score = score(i, rolled[i].valid)
    BY <1>1 DEF Penalised, Columns
<1>4. ASSUME NEW i \in 1..n
      PROVE  /\ FirstInvalid[i] = [rolled[i] EXCEPT !.valid = @ \/ \E j \in 1..(i - 1) : rolled[j].traj = rolled[i].traj]
             /\ FirstInvalid[i].valid <=> rolled[i].valid \/ \E j \in 1..(i - 1) : rolled[j].traj = rolled[i].traj
             /\ FirstInvalid[i].uid = rolled[i].uid /\ FirstInvalid[i].traj = rolled[i].traj
             /\ FirstInvalid[i].flow = rolled[i].flow /\ FirstInvalid[i].cut = rolled[i].cut
             /\ FirstInvalid[i].score = rolled[i].score
             /\ DOMAIN FirstInvalid[i] = Columns
    BY <1>1, Zenon DEF FirstInvalid, Columns
<1>5. ASSUME NEW i \in 1..n
      PROVE  /\ f[i].uid = rolled[i].uid /\ f[i].traj = rolled[i].traj
             /\ f[i].flow = rolled[i].flow /\ f[i].cut = rolled[i].cut
             /\ f[i].score = score(i, FirstInvalid[i].valid)
    BY <1>2, <1>4 DEF Penalised, Columns
<1>6. ASSUME NEW i \in 1..n
      PROVE  b[FirstRow(b, i)].score = f[FirstRow(b, i)].score
  <2> DEFINE x == FirstRow(b, i)
  <2>1. /\ x \in 1..n /\ b[x].uid = b[i].uid /\ b[x].traj = b[i].traj
        /\ \A j \in 1..n : b[j].uid = b[i].uid /\ b[j].traj = b[i].traj => x <= j
      BY <1>2, FirstRowIs
  <2> HIDE DEF x, b, f
  <2>2. ~\E j \in 1..(x - 1) : rolled[j].traj = rolled[x].traj
    <3> SUFFICES ASSUME NEW j \in 1..(x - 1), rolled[j].traj = rolled[x].traj PROVE FALSE
        OBVIOUS
    <3>1. j \in 1..n /\ j < x
        BY <2>1
    <3>2. rolled[j].uid = rolled[x].uid
        BY <1>1, <2>1, <3>1
    <3>3. b[j].uid = b[i].uid /\ b[j].traj = b[i].traj
        BY <1>3, <2>1, <3>1, <3>2
    <3> QED
        BY <2>1, <3>1, <3>3
  <2>3. FirstInvalid[x].valid <=> rolled[x].valid
      BY <1>4, <2>1, <2>2
  <2>4. score(x, FirstInvalid[x].valid) = score(x, rolled[x].valid)
      BY <2>3, Zenon
  <2> QED
      BY <1>3, <1>5, <2>1, <2>4 DEF x
<1> QED
    BY <1>2, <1>3, <1>5, <1>6 DEF AlikeForObliFlow

\* OnlyFirstPenalty: with ObliFlow an invalid action counts when it is the
\* first row of its trajectory, and the penalty of any other changes no
\* advantage (_trajectory_advantages, core_obliflow.py:167).
THEOREM OnlyFirstAlwaysPenalised == Spec => []OnlyFirstPenalty
<1>1. JobInv /\ TrainedInv /\ RecipeInv => OnlyFirstPenalty
  <2> SUFFICES ASSUME JobInv, TrainedInv, RecipeInv, config.estimator = "obliflow", config.penalty, Updated,
                      NEW i \in DOMAIN batch
               PROVE  Same(batch[i].adv, AdvantageOf(config, Penalised(config, FirstInvalid), batch[i].id))
      BY DEF OnlyFirstPenalty, FirstInvalid
  <2> DEFINE n == Len(rolled)
             x == batch[i].id
  <2>1. config \in Configs /\ rolled \in Batches /\ n \in Nat
      BY UpdatedIs DEF JobInv
  <2>2. config.trainer = "recipe"
      BY <2>1, ConfigAssumption
  <2>3. batch[i].adv = AdvantageOf(config, ScoredRows, x) /\ x \in 1..n
      BY <2>2, AdvantagesAre
  <2>4. ScoredRows = Penalised(config, rolled) /\ DOMAIN rolled = 1..n
    <3>1. ReturnedRows = rolled
        BY DEF ReturnedRows, StepEstimators
    <3>2. ValuedRows = rolled /\ DOMAIN rolled = 1..n
        BY <3>1, RolledIs
    <3> QED
        BY <3>2, Zenon DEF ScoredRows
  <2>5. \A b : AdvantageOf(config, b, x) = ObliFlowAdvantage(b, x, Alpha, Beta)
      BY DEF AdvantageOf
  <2>6. ObliFlowAdvantage(Penalised(config, rolled), x, Alpha, Beta)
        = ObliFlowAdvantage(Penalised(config, FirstInvalid), x, Alpha, Beta)
    <3>1. AlikeForObliFlow(Penalised(config, rolled), Penalised(config, FirstInvalid), n)
        BY <2>1, <2>4, PenaltiesAlike
    <3> HIDE DEF n, x
    <3> QED
        BY <2>1, <2>3, <3>1, AlikeAdvantage
  <2> HIDE DEF x
  <2>7. batch[i].adv = AdvantageOf(config, Penalised(config, FirstInvalid), x)
      BY <2>3, <2>4, <2>5, <2>6, Zenon
  <2> QED
      BY <2>7, Zenon DEF Same, x
<1> QED
    BY <1>1, JobInit, TrainedInit, RecipeInit, JobStep, TrainedStep, RecipeStep, PTL DEF Spec

-----------------------------------------------------------------------------
(* Steps to the goal *)

\* within[n] is the states from which the goal is at most n steps away.
Within(within, edges, k) ==
    within = [n \in 0..k |->
                IF n = 0 THEN {Goal}
                ELSE within[n - 1] \cup {e[1] : e \in {e \in edges : e[2] \in within[n - 1]}}]

\* One step farther from the goal.
Farther(S, edges) == S \cup {e[1] : e \in {e \in edges : e[2] \in S}}

Nodes(edges) == {e[1] : e \in edges} \cup {e[2] : e \in edges} \cup {Goal}

LEMMA SomethingWithin ==
    ASSUME NEW edges, NEW k \in Nat
    PROVE  \E within : Within(within, edges, k)
<1> DEFINE is(within, n) == within = [m \in 0..n |-> IF m = 0 THEN {Goal} ELSE Farther(within[m - 1], edges)]
           N == {n \in Nat : \E within : is(within, n)}
<1>1. 0 \in N
  <2> DEFINE within == [m \in 0..0 |-> {Goal}]
  <2>1. is(within, 0)
      OBVIOUS
  <2> QED
      BY <2>1
<1>2. ASSUME NEW n \in N
      PROVE  n + 1 \in N
  <2>1. PICK within : is(within, n)
      OBVIOUS
  <2> DEFINE next == [m \in 0..(n + 1) |-> IF m = 0 THEN {Goal} ELSE Farther(within[m - 1], edges)]
  <2>2. \A m \in 0..n : within[m] = IF m = 0 THEN {Goal} ELSE Farther(within[m - 1], edges)
      BY <2>1
  <2>3. n \in Nat /\ \A m \in 0..n : next[m] = within[m]
    <3>1. n \in Nat /\ \A m \in 0..n : m \in 0..(n + 1)
        OBVIOUS
    <3> QED
        BY <2>2, <3>1, Zenon
  <2>4. \A m \in 0..(n + 1) : m # 0 => next[m - 1] = within[m - 1]
    <3>1. \A m \in 0..(n + 1) : m # 0 => m - 1 \in 0..n
        BY <2>3
    <3> QED
        BY <2>3, <3>1
  <2>5. next = [m \in 0..(n + 1) |-> IF m = 0 THEN {Goal} ELSE Farther(next[m - 1], edges)]
      BY <2>4
  <2> HIDE DEF next
  <2>6. is(next, n + 1)
      BY <2>5
  <2>7. \E w : is(w, n + 1)
      BY <2>6
  <2> HIDE DEF is
  <2> QED
      BY <2>3, <2>7
<1>3. \A n \in Nat : n \in N
  <2> HIDE DEF N
  <2>1. N \in SUBSET Nat
      BY DEF N
  <2> QED
      BY <1>1, <1>2, <2>1, Induction
<1>4. PICK within : is(within, k)
    BY <1>3
<1> QED
    BY <1>4 DEF Within, Farther

LEMMA WithinIs ==
    ASSUME NEW edges, NEW k \in Nat, NEW within, Within(within, edges, k)
    PROVE  /\ DOMAIN within = 0..k /\ within[0] = {Goal}
           /\ \A n \in 1..k : within[n] = Farther(within[n - 1], edges)
<1>1. within = [n \in 0..k |-> IF n = 0 THEN {Goal} ELSE Farther(within[n - 1], edges)]
    BY DEF Within, Farther
<1>2. 0 \in 0..k /\ \A n \in 1..k : n \in 0..k /\ n # 0
    OBVIOUS
<1> QED
    BY <1>1, <1>2

LEMMA NodesAre ==
    ASSUME NEW edges, IsFiniteSet(edges)
    PROVE  /\ IsFiniteSet(Nodes(edges)) /\ Cardinality(Nodes(edges)) \in Nat \ {0}
           /\ Goal \in Nodes(edges)
           /\ \A e \in edges : e[1] \in Nodes(edges) /\ e[2] \in Nodes(edges)
<1> DEFINE f == [e \in edges |-> e[1]]
           t == [e \in edges |-> e[2]]
           F == {f[e] : e \in edges}
           T == {t[e] : e \in edges}
<1>1. IsFiniteSet(F) /\ IsFiniteSet(T)
    BY FiniteImage
<1>2. Nodes(edges) = F \cup T \cup {Goal}
    BY DEF Nodes
<1> HIDE DEF F, T
<1>3. IsFiniteSet(F \cup T)
    BY <1>1, FS_Union
<1>4. IsFiniteSet(F \cup T \cup {Goal})
    BY <1>3, FS_AddElement
<1>5. Goal \in Nodes(edges) /\ IsFiniteSet(Nodes(edges))
    BY <1>2, <1>4
<1>6. Cardinality(Nodes(edges)) \in Nat \ {0}
    BY <1>5, OneLess
<1>7. \A e \in edges : e[1] \in Nodes(edges) /\ e[2] \in Nodes(edges)
    BY DEF Nodes
<1> QED
    BY <1>5, <1>6, <1>7

\* A state that is new at level n comes after n others.
LEMMA LevelsFill ==
    ASSUME NEW edges, IsFiniteSet(edges), NEW k \in Nat, NEW within, Within(within, edges, k)
    PROVE  /\ \A n \in 0..k : within[n] \in SUBSET Nodes(edges)
           /\ \A n \in 1..k : within[n - 1] \subseteq within[n]
           /\ \A n \in 1..k : within[n] # within[n - 1] => n <= Cardinality(within[n - 1])
<1> DEFINE S == Nodes(edges)
           N == {n \in Nat : n <= k => within[n] \in SUBSET S}
           M == {n \in Nat : n + 1 <= k => (within[n + 1] # within[n] => n + 1 <= Cardinality(within[n]))}
<1>1. /\ within[0] = {Goal}
      /\ \A n \in 1..k : within[n] = Farther(within[n - 1], edges)
    BY WithinIs
<1>2. /\ IsFiniteSet(S) /\ Goal \in S
      /\ \A e \in edges : e[1] \in S /\ e[2] \in S
    BY NodesAre
<1> HIDE DEF S
<1>3. \A n \in Nat : n + 1 <= k => n + 1 \in 1..k /\ (n + 1) - 1 = n /\ within[n + 1] = Farther(within[n], edges)
    BY <1>1
<1>4. \A n \in Nat : n \in N
  <2>1. 0 \in N
      BY <1>1, <1>2
  <2>2. ASSUME NEW n \in N
        PROVE  n + 1 \in N
    <3> SUFFICES ASSUME n + 1 <= k
                 PROVE  within[n + 1] \in SUBSET S
        OBVIOUS
    <3>1. n \in Nat /\ within[n] \in SUBSET S
        OBVIOUS
    <3>2. within[n + 1] = Farther(within[n], edges)
        BY <1>3, <3>1
    <3> HIDE DEF N
    <3> QED
        BY <1>2, <3>1, <3>2 DEF Farther
  <2>3. N \in SUBSET Nat
      OBVIOUS
  <2> HIDE DEF N
  <2> QED
      BY <2>1, <2>2, <2>3, Induction
<1>5. \A n \in 0..k : within[n] \in SUBSET S /\ IsFiniteSet(within[n])
  <2>1. \A n \in 0..k : within[n] \in SUBSET S
      BY <1>4
  <2> QED
      BY <1>2, <2>1, FS_Subset
<1>6. \A n \in 1..k : within[n - 1] \subseteq within[n]
    BY <1>1 DEF Farther
<1>7. \A n \in Nat : n \in M
  <2>1. 0 \in M
    <3>1. Cardinality(within[0]) = 1
        BY <1>1, FS_Singleton
    <3> QED
        BY <3>1
  <2>2. ASSUME NEW n \in M
        PROVE  n + 1 \in M
    <3> SUFFICES ASSUME (n + 1) + 1 <= k, within[(n + 1) + 1] # within[n + 1]
                 PROVE  (n + 1) + 1 <= Cardinality(within[n + 1])
        OBVIOUS
    <3>1. /\ n \in Nat /\ n \in 0..k /\ n + 1 \in 0..k /\ n + 1 <= k
          /\ within[n + 1] # within[n] => n + 1 <= Cardinality(within[n])
        OBVIOUS
    <3> HIDE DEF M
    <3>2. within[n + 1] = Farther(within[n], edges) /\ within[(n + 1) + 1] = Farther(within[n + 1], edges)
        BY <1>3, <3>1
    <3>3. PICK e \in edges : e[2] \in within[n + 1] /\ e[1] \notin within[n + 1]
        BY <3>2 DEF Farther
    <3>4. e[2] \notin within[n] /\ within[n] \subseteq within[n + 1]
        BY <3>2, <3>3 DEF Farther
    <3>5. n + 1 <= Cardinality(within[n])
        BY <3>1, <3>3, <3>4
    <3> DEFINE A == within[n]
               B == within[n + 1]
    <3>6. IsFiniteSet(A) /\ IsFiniteSet(B)
        BY <1>5, <3>1
    <3>7. A \subseteq B /\ e[2] \in B /\ e[2] \notin A
        BY <3>3, <3>4
    <3> HIDE DEF A, B
    <3>8. Cardinality(A) < Cardinality(B) /\ Cardinality(A) \in Nat /\ Cardinality(B) \in Nat
        BY <3>6, <3>7, FS_Subset, FS_CardinalityType
    <3> QED
        BY <3>1, <3>5, <3>8 DEF A, B
  <2>3. M \in SUBSET Nat
      OBVIOUS
  <2> HIDE DEF M
  <2> QED
      BY <2>1, <2>2, <2>3, Induction
<1>8. ASSUME NEW n \in 1..k, within[n] # within[n - 1]
      PROVE  n <= Cardinality(within[n - 1])
  <2>1. n - 1 \in M /\ (n - 1) + 1 = n /\ n <= k
      BY <1>7
  <2> QED
      BY <1>8, <2>1
<1> QED
    BY <1>5, <1>6, <1>8 DEF S

\* As many levels as there are states hold every state that leads to the goal.
LEMMA LevelsClose ==
    ASSUME NEW edges, IsFiniteSet(edges), NEW k, k = Cardinality(Nodes(edges)),
           NEW within, Within(within, edges, k), NEW e \in edges, e[2] \in within[k]
    PROVE  e[1] \in within[k]
<1> SUFFICES ASSUME e[1] \notin within[k]
             PROVE  FALSE
    OBVIOUS
<1>1. k \in Nat \ {0} /\ IsFiniteSet(Nodes(edges)) /\ e[1] \in Nodes(edges)
    BY NodesAre
<1>2. k \in 1..k /\ k \in 0..k /\ k - 1 \in 0..k
    BY <1>1
<1>3. /\ within[k] \in SUBSET Nodes(edges) /\ within[k - 1] \subseteq within[k]
      /\ within[k] # within[k - 1] => k <= Cardinality(within[k - 1])
    BY <1>1, <1>2, LevelsFill
<1>4. within[k] = Farther(within[k - 1], edges)
  <2>1. k \in Nat
      BY <1>1
  <2>2. \A n \in 1..k : within[n] = Farther(within[n - 1], edges)
      BY <2>1, WithinIs
  <2> QED
      BY <1>2, <2>2
<1>5. e[2] \notin within[k - 1]
    BY <1>4 DEF Farther
<1>6. k <= Cardinality(within[k - 1])
    BY <1>3, <1>5
<1> DEFINE A == within[k - 1]
           B == within[k]
           S == Nodes(edges)
<1>7. IsFiniteSet(S) /\ Cardinality(S) = k /\ B \subseteq S /\ A \subseteq B /\ e[1] \in S /\ e[1] \notin B
    BY <1>1, <1>3
<1>8. k <= Cardinality(A)
    BY <1>6
<1> HIDE DEF A, B, S
<1>9. IsFiniteSet(B) /\ Cardinality(B) < Cardinality(S)
    BY <1>7, FS_Subset, FS_CardinalityType
<1>10. Cardinality(A) <= Cardinality(B) /\ Cardinality(A) \in Nat /\ Cardinality(B) \in Nat
    BY <1>7, <1>9, FS_Subset, FS_CardinalityType
<1> QED
    BY <1>1, <1>7, <1>8, <1>9, <1>10

LEMMA Between ==
    ASSUME NEW k \in Nat, NEW S \in SUBSET (0..k), S # {}
    PROVE  /\ Min(S) \in S /\ Min(S) \in 0..k /\ \A x \in S : Min(S) <= x
           /\ Max(S) \in Nat /\ \A x \in S : x <= Max(S)
<1>1. IsFiniteSet(0..k)
    BY FS_Interval
<1>2. IsFiniteSet(S)
    BY <1>1, FS_Subset
<1>3. S \in SUBSET Int /\ 0..k \subseteq Nat
    OBVIOUS
<1>4. Min(S) \in S /\ \A x \in S : Min(S) <= x
    BY <1>2, <1>3, MinIs
<1>5. Max(S) \in S /\ \A x \in S : x <= Max(S)
    BY <1>2, <1>3, MaxIs
<1> QED
    BY <1>3, <1>4, <1>5, Zenon

\* within holds the states that reach the goal in each number of steps up to k,
\* and the distances are the fewest of them, at most far, or one more than far.
Measures(edges, k, within, far) ==
    /\ Within(within, edges, k) /\ far \in Nat
    /\ \A v \in Nodes(edges) :
          IF \E n \in 0..k : v \in within[n]
          THEN /\ Distances(edges)[v] \in 0..k /\ v \in within[Distances(edges)[v]]
               /\ Distances(edges)[v] <= far
               /\ \A n \in 0..k : v \in within[n] => Distances(edges)[v] <= n
          ELSE Distances(edges)[v] = far + 1

\* How far the farthest of the states is from which the goal was reached.
LEMMA DistancesAre ==
    ASSUME NEW edges, IsFiniteSet(edges)
    PROVE  \E within, far : Measures(edges, Cardinality(Nodes(edges)), within, far)
<1> DEFINE nodes == {e[1] : e \in edges} \cup {e[2] : e \in edges} \cup {Goal}
           within == CHOOSE within :
                        within = [n \in 0..Cardinality(nodes) |->
                            IF n = 0 THEN {Goal}
                            ELSE within[n - 1] \cup {e[1] : e \in {e \in edges : e[2] \in within[n - 1]}}]
           steps(v) == {n \in DOMAIN within : v \in within[n]}
           known == {v \in nodes : steps(v) # {}}
           mins == {Min(steps(v)) : v \in known}
           farthest == Max(mins)
<1>0. PICK k : k = Cardinality(Nodes(edges))
    OBVIOUS
<1>1. Distances(edges) = [v \in nodes |-> IF steps(v) = {} THEN farthest + 1 ELSE Min(steps(v))]
    BY Zenon DEF Distances
<1>2. nodes = Nodes(edges)
    BY DEF Nodes
<1>3. k \in Nat /\ IsFiniteSet(nodes) /\ Goal \in nodes
    BY <1>0, <1>2, NodesAre
<1>4. Within(within, edges, k)
  <2>1. \E w : Within(w, edges, k)
      BY <1>0, <1>3, SomethingWithin
  <2> HIDE DEF nodes
  <2> QED
      BY <1>0, <1>2, <2>1, Zenon DEF Within
<1>5. DOMAIN within = 0..k /\ within[0] = {Goal}
  <2> HIDE DEF within
  <2> QED
      BY <1>3, <1>4, WithinIs
<1> HIDE DEF within, nodes
<1>6. \A v : steps(v) = {n \in 0..k : v \in within[n]}
    BY <1>5
<1>7. ASSUME NEW v, steps(v) # {}
      PROVE  Min(steps(v)) \in steps(v) /\ \A n \in steps(v) : Min(steps(v)) <= n
  <2> DEFINE S == steps(v)
  <2>1. S \in SUBSET (0..k) /\ S # {}
      BY <1>6, <1>7
  <2> HIDE DEF S
  <2>2. Min(S) \in S /\ \A n \in S : Min(S) <= n
      BY <1>3, <2>1, Between
  <2> QED
      BY <2>2 DEF S
<1>8. ASSUME NEW v \in known
      PROVE  Min(steps(v)) \in 0..k
  <2>1. Min(steps(v)) \in steps(v)
      BY <1>7
  <2> QED
      BY <1>6, <2>1
<1> HIDE DEF steps
<1>9. mins \in SUBSET (0..k) /\ mins # {}
  <2>1. mins \in SUBSET (0..k)
      BY <1>8
  <2>2. 0 \in steps(Goal)
      BY <1>3, <1>5, <1>6
  <2>3. Goal \in known
      BY <1>3, <2>2
  <2> QED
      BY <2>1, <2>3
<1>10. farthest \in Nat /\ \A x \in mins : x <= farthest
  <2> HIDE DEF mins
  <2> QED
      BY <1>3, <1>9, Between
<1>11. \A v \in known : Min(steps(v)) <= farthest
  <2>1. \A v \in known : Min(steps(v)) \in mins
      OBVIOUS
  <2> QED
      BY <1>10, <2>1
<1> HIDE DEF farthest
<1>12. ASSUME NEW v \in nodes
       PROVE  IF \E n \in 0..k : v \in within[n]
              THEN /\ Distances(edges)[v] \in 0..k /\ v \in within[Distances(edges)[v]]
                   /\ Distances(edges)[v] <= farthest
                   /\ \A n \in 0..k : v \in within[n] => Distances(edges)[v] <= n
              ELSE Distances(edges)[v] = farthest + 1
  <2>1. Distances(edges)[v] = IF steps(v) = {} THEN farthest + 1 ELSE Min(steps(v))
      BY <1>1
  <2>2. steps(v) = {} <=> ~\E n \in 0..k : v \in within[n]
      BY <1>6
  <2>3. CASE steps(v) = {}
      BY <2>1, <2>2, <2>3
  <2>4. CASE steps(v) # {}
    <3> DEFINE m == Min(steps(v))
    <3>1. m \in steps(v) /\ (\A n \in steps(v) : m <= n) /\ m <= farthest
        BY <1>7, <1>11, <2>4
    <3>2. Distances(edges)[v] = m
        BY <2>1, <2>4
    <3> HIDE DEF m
    <3>3. m \in 0..k /\ v \in within[m] /\ \A n \in 0..k : v \in within[n] => m <= n
        BY <1>6, <3>1
    <3>4. \E n \in 0..k : v \in within[n]
        BY <3>3
    <3> QED
        BY <3>1, <3>2, <3>3, <3>4, Zenon
  <2> QED
      BY <2>3, <2>4
<1>13. Measures(edges, k, within, farthest)
    BY <1>2, <1>4, <1>10, <1>12 DEF Measures
<1> QED
    BY <1>0, <1>13

-----------------------------------------------------------------------------
(* Nearer to the goal *)

LEMMA OneGroup ==
    ASSUME NEW b, NEW n \in Nat, DOMAIN b = 1..n, NEW i \in 1..n, NEW j \in 1..n, b[i].uid = b[j].uid
    PROVE  /\ GroupOf(b, i) = GroupOf(b, j) /\ GroupOf(b, i) \in SUBSET (1..n) /\ i \in GroupOf(b, i)
           /\ j \in GroupOf(b, i)
           /\ \A l \in GroupOf(b, i) : b[l].uid = b[i].uid
    BY DEF GroupOf

LEMMA EdgesAre ==
    ASSUME NEW b, NEW n \in Nat, DOMAIN b = 1..n, NEW i \in 1..n
    PROVE  /\ IsFiniteSet(Edges(b, i))
           /\ \A j \in GroupOf(b, i) : <<b[j].obs, b[j].next>> \in Edges(b, i)
           /\ \A e \in Edges(b, i) : \E j \in GroupOf(b, i) : e[1] = b[j].obs /\ e[2] = b[j].next
<1>1. IsFiniteSet(1..n) /\ GroupOf(b, i) \in SUBSET (1..n)
    BY Interval, OneGroup
<1>2. IsFiniteSet(GroupOf(b, i))
    BY <1>1, FS_Subset
<1> DEFINE f == [j \in GroupOf(b, i) |-> <<b[j].obs, b[j].next>>]
           S == GroupOf(b, i)
<1>3. Edges(b, i) = {f[j] : j \in S}
    BY DEF Edges
<1> HIDE DEF f, S
<1>4. IsFiniteSet({f[j] : j \in S})
    BY <1>2, FiniteImage DEF S
<1>5. IsFiniteSet(Edges(b, i))
    BY <1>3, <1>4
<1>6. \A j \in GroupOf(b, i) : <<b[j].obs, b[j].next>> \in Edges(b, i)
    BY DEF Edges
<1>7. \A e \in Edges(b, i) : \E j \in GroupOf(b, i) : e[1] = b[j].obs /\ e[2] = b[j].next
    BY DEF Edges
<1> QED
    BY <1>5, <1>6, <1>7

\* Steps that lead to the goal, the last k of them.
LEMMA PathWithin ==
    ASSUME NEW b, NEW n \in Nat, DOMAIN b = 1..n, NEW i \in 1..n, NEW k, k = Cardinality(Nodes(Edges(b, i))),
           NEW within, Within(within, Edges(b, i), k), NEW m \in Nat, LeadsToGoal(b, i, m)
    PROVE  \E x \in 0..k : x <= m /\ b[i].next \in within[x]
<1>1. PICK path \in [0..m -> GroupOf(b, i)] :
          /\ path[0] = i /\ b[path[m]].next = Goal
          /\ \A x \in 1..m : b[path[x]].obs = b[path[x - 1]].next
    BY DEF LeadsToGoal
<1> DEFINE edges == Edges(b, i)
           level(x) == IF x <= k THEN x ELSE k
           N == {x \in Nat : x <= m => b[path[m - x]].next \in within[level(x)]}
<1>2. /\ IsFiniteSet(edges)
      /\ \A j \in GroupOf(b, i) : <<b[j].obs, b[j].next>> \in edges
    BY EdgesAre
<1> HIDE DEF edges
<1>3. k \in Nat
    BY <1>2, NodesAre DEF edges
<1>4. within[0] = {Goal} /\ \A x \in 1..k : within[x] = Farther(within[x - 1], edges)
    BY <1>3, WithinIs DEF edges
<1>5. \A e \in edges : e[2] \in within[k] => e[1] \in within[k]
    BY <1>2, LevelsClose DEF edges
<1>6. 0 \in N
  <2>1. m - 0 = m /\ level(0) = 0
      BY <1>3
  <2>2. b[path[m - 0]].next \in within[level(0)]
      BY <1>1, <1>4, <2>1
  <2> QED
      BY <2>2
<1>7. ASSUME NEW x \in N
      PROVE  x + 1 \in N
  <2> SUFFICES ASSUME x + 1 <= m
               PROVE  b[path[m - (x + 1)]].next \in within[level(x + 1)]
      OBVIOUS
  <2>1. x \in Nat /\ b[path[m - x]].next \in within[level(x)]
      OBVIOUS
  <2> HIDE DEF N
  <2>2. m - x \in 1..m /\ (m - x) - 1 = m - (x + 1) /\ m - x \in 0..m
      BY <2>1
  <2>3. b[path[m - x]].obs = b[path[m - (x + 1)]].next /\ path[m - x] \in GroupOf(b, i)
      BY <1>1, <2>2
  <2>4. PICK e \in edges : e[1] = b[path[m - (x + 1)]].next /\ e[2] = b[path[m - x]].next
    <3>1. <<b[path[m - x]].obs, b[path[m - x]].next>> \in edges
        BY <1>2, <2>3
    <3> QED
        BY <2>3, <3>1
  <2>5. CASE x + 1 <= k
    <3>1. level(x) = x /\ level(x + 1) = x + 1 /\ x + 1 \in 1..k /\ (x + 1) - 1 = x
        BY <1>3, <2>1, <2>5
    <3>2. within[x + 1] = Farther(within[x], edges)
        BY <1>4, <3>1
    <3> QED
        BY <2>1, <2>4, <3>1, <3>2 DEF Farther
  <2>6. CASE ~(x + 1 <= k)
    <3>1. level(x) = k /\ level(x + 1) = k
        BY <1>3, <2>1, <2>6
    <3> QED
        BY <1>5, <2>1, <2>4, <3>1
  <2> QED
      BY <2>5, <2>6
<1>8. \A x \in Nat : x \in N
  <2>1. N \in SUBSET Nat
      OBVIOUS
  <2> HIDE DEF N
  <2> QED
      BY <1>6, <1>7, <2>1, Induction
<1>9. b[i].next \in within[level(m)]
  <2>1. b[path[m - m]].next \in within[level(m)]
    <3>1. m \in N /\ m <= m
        BY <1>8
    <3> QED
        BY <3>1
  <2>2. m - m = 0
      OBVIOUS
  <2> QED
      BY <1>1, <2>1, <2>2
<1>10. level(m) \in 0..k /\ level(m) <= m
    BY <1>3
<1> QED
    BY <1>9, <1>10

LEMMA WithinPath ==
    ASSUME NEW b, NEW n \in Nat, DOMAIN b = 1..n, NEW i \in 1..n, NEW k \in Nat,
           NEW within, Within(within, Edges(b, i), k), NEW m \in 0..k,
           NEW j \in GroupOf(b, i), b[j].next \in within[m]
    PROVE  \E x \in 0..m : LeadsToGoal(b, j, x)
<1> DEFINE N == {y \in Nat : y <= k => \A l \in GroupOf(b, i) : b[l].next \in within[y] =>
                                          \E x \in 0..y : LeadsToGoal(b, l, x)}
<1>1. within[0] = {Goal} /\ \A x \in 1..k : within[x] = Farther(within[x - 1], Edges(b, i))
    BY WithinIs
<1>2. \A l \in GroupOf(b, i) : l \in 1..n /\ GroupOf(b, l) = GroupOf(b, i) /\ l \in GroupOf(b, l)
  <2> TAKE l \in GroupOf(b, i)
  <2>1. l \in 1..n /\ b[l].uid = b[i].uid
      BY DEF GroupOf
  <2> QED
      BY <2>1, OneGroup
<1>3. 0 \in N
  <2>1. ASSUME NEW l \in GroupOf(b, i), b[l].next = Goal
        PROVE  LeadsToGoal(b, l, 0)
    <3> DEFINE path == [x \in 0..0 |-> l]
    <3>1. path \in [0..0 -> GroupOf(b, l)] /\ path[0] = l /\ \A x \in 1..0 : FALSE
        BY <1>2
    <3> HIDE DEF path
    <3> QED
        BY <2>1, <3>1 DEF LeadsToGoal
  <2> QED
      BY <1>1, <2>1
<1>4. ASSUME NEW y \in N
      PROVE  y + 1 \in N
  <2> SUFFICES ASSUME y + 1 <= k, NEW l \in GroupOf(b, i), b[l].next \in within[y + 1]
               PROVE  \E x \in 0..(y + 1) : LeadsToGoal(b, l, x)
      OBVIOUS
  <2>1. /\ y \in Nat
        /\ \A o \in GroupOf(b, i) : b[o].next \in within[y] => \E x \in 0..y : LeadsToGoal(b, o, x)
      OBVIOUS
  <2> HIDE DEF N
  <2>2. y + 1 \in 1..k /\ (y + 1) - 1 = y
      BY <2>1
  <2>3. within[y + 1] = Farther(within[y], Edges(b, i))
      BY <1>1, <2>2
  <2>4. CASE b[l].next \in within[y]
    <3>1. PICK x \in 0..y : LeadsToGoal(b, l, x)
        BY <2>1, <2>4
    <3> QED
        BY <2>1, <3>1
  <2>5. CASE b[l].next \notin within[y]
    <3>1. PICK e \in Edges(b, i) : e[1] = b[l].next /\ e[2] \in within[y]
        BY <2>3, <2>5 DEF Farther
    <3>2. PICK o \in GroupOf(b, i) : e[1] = b[o].obs /\ e[2] = b[o].next
        BY EdgesAre
    <3>3. PICK x \in 0..y : LeadsToGoal(b, o, x)
        BY <2>1, <3>1, <3>2
    <3>4. PICK path \in [0..x -> GroupOf(b, o)] :
              /\ path[0] = o /\ b[path[x]].next = Goal
              /\ \A z \in 1..x : b[path[z]].obs = b[path[z - 1]].next
        BY <3>3 DEF LeadsToGoal
    <3> DEFINE longer == [z \in 0..(x + 1) |-> IF z = 0 THEN l ELSE path[z - 1]]
    <3>5. x \in Nat /\ x + 1 \in 0..(y + 1) /\ \A z \in 1..(x + 1) : z \in 0..(x + 1) /\ z # 0 /\ z - 1 \in 0..x
        BY <2>1
    <3>6. longer[0] = l /\ \A z \in 1..(x + 1) : longer[z] = path[z - 1]
        BY <3>5
    <3>7. longer \in [0..(x + 1) -> GroupOf(b, l)]
      <4>1. \A z \in 0..(x + 1) : z = 0 \/ z \in 1..(x + 1)
          BY <3>5
      <4>2. \A z \in 0..(x + 1) : longer[z] \in GroupOf(b, l)
          BY <1>2, <3>4, <3>5, <3>6, <4>1
      <4> QED
          BY <4>2
    <3> HIDE DEF longer
    <3>8. b[longer[x + 1]].next = Goal
      <4>1. x + 1 \in 1..(x + 1) /\ (x + 1) - 1 = x
          BY <3>5
      <4> QED
          BY <3>4, <3>6, <4>1
    <3>9. ASSUME NEW z \in 1..(x + 1)
          PROVE  b[longer[z]].obs = b[longer[z - 1]].next
      <4>1. CASE z = 1
        <5>1. longer[z] = o /\ longer[z - 1] = l
          <6>1. z - 1 = 0
              BY <4>1
          <6> QED
              BY <3>4, <3>6, <6>1
        <5> QED
            BY <3>1, <3>2, <5>1
      <4>2. CASE z # 1
        <5>1. z - 1 \in 1..x /\ z - 1 \in 1..(x + 1)
            BY <3>5, <4>2
        <5>2. longer[z] = path[z - 1] /\ longer[z - 1] = path[(z - 1) - 1]
            BY <3>6, <5>1
        <5> QED
            BY <3>4, <5>1, <5>2
      <4> QED
          BY <4>1, <4>2
    <3>10. LeadsToGoal(b, l, x + 1)
        BY <3>6, <3>7, <3>8, <3>9 DEF LeadsToGoal
    <3> QED
        BY <3>5, <3>10
  <2> QED
      BY <2>4, <2>5
<1>5. \A y \in Nat : y \in N
  <2>1. N \in SUBSET Nat
      OBVIOUS
  <2> HIDE DEF N
  <2> QED
      BY <1>3, <1>4, <2>1, Induction
<1>6. m \in N /\ m <= k
    BY <1>5
<1> QED
    BY <1>6

\* Nearer is a smaller distance.
LEMMA NearerIsCloser ==
    ASSUME NEW b, NEW n \in Nat, DOMAIN b = 1..n, NEW i \in 1..n, NEW j \in 1..n, b[i].uid = b[j].uid,
           Nearer(b, i, j)
    PROVE  /\ Edges(b, j) = Edges(b, i)
           /\ Distances(Edges(b, i))[b[i].next] \in 0..3 /\ Distances(Edges(b, i))[b[j].next] \in Nat
           /\ Distances(Edges(b, i))[b[i].next] < Distances(Edges(b, i))[b[j].next]
<1> DEFINE edges == Edges(b, i)
           k == Cardinality(Nodes(edges))
           v == b[i].next
           w == b[j].next
<1>1. GroupOf(b, i) = GroupOf(b, j) /\ i \in GroupOf(b, i) /\ j \in GroupOf(b, i)
    BY OneGroup
<1>2. Edges(b, j) = edges
    BY <1>1 DEF Edges
<1>3. IsFiniteSet(edges) /\ <<b[i].obs, v>> \in edges /\ <<b[j].obs, w>> \in edges
    BY <1>1, EdgesAre
<1>4. k \in Nat /\ v \in Nodes(edges) /\ w \in Nodes(edges)
  <2>1. <<b[i].obs, v>>[2] \in Nodes(edges) /\ <<b[j].obs, w>>[2] \in Nodes(edges)
      BY <1>3, NodesAre
  <2>2. k \in Nat
      BY <1>3, NodesAre
  <2> QED
      BY <2>1, <2>2
<1>5. PICK within, far : Measures(edges, k, within, far)
  <2> HIDE DEF edges
  <2> QED
      BY <1>3, DistancesAre
<1>6. /\ Within(within, edges, k) /\ far \in Nat
      /\ \A u \in Nodes(edges) :
            IF \E m \in 0..k : u \in within[m]
            THEN /\ Distances(edges)[u] \in 0..k /\ u \in within[Distances(edges)[u]]
                 /\ Distances(edges)[u] <= far
                 /\ \A m \in 0..k : u \in within[m] => Distances(edges)[u] <= m
            ELSE Distances(edges)[u] = far + 1
  <2> HIDE DEF edges, k, v, w
  <2> QED
      BY <1>5 DEF Measures
<1>7. PICK m \in 0..3 : LeadsToGoal(b, i, m) /\ \A x \in 0..m : ~LeadsToGoal(b, j, x)
    BY DEF Nearer
<1> DEFINE dv == Distances(edges)[v]
           dw == Distances(edges)[w]
<1>8. PICK x \in 0..k : x <= m /\ v \in within[x]
  <2>1. m \in Nat
      OBVIOUS
  <2> QED
      BY <1>6, <1>7, <2>1, PathWithin
<1>9. dv \in 0..k /\ dv <= far /\ dv <= m
  <2>1. dv \in 0..k /\ dv <= far /\ dv <= x
      BY <1>4, <1>6, <1>8
  <2> HIDE DEF dv, k
  <2> QED
      BY <1>4, <1>8, <2>1
<1>10. CASE \E y \in 0..k : w \in within[y]
  <2>1. dw \in 0..k /\ w \in within[dw]
      BY <1>4, <1>6, <1>10
  <2>2. ASSUME dw <= m
        PROVE  FALSE
    <3>1. \E y \in 0..dw : LeadsToGoal(b, j, y)
      <4> HIDE DEF dw, k
      <4> QED
          BY <1>1, <1>4, <1>6, <2>1, WithinPath
    <3> HIDE DEF dw, k
    <3>2. \A y \in 0..dw : y \in 0..m
        BY <1>4, <2>1, <2>2
    <3> QED
        BY <1>7, <3>1, <3>2
  <2> HIDE DEF dv, dw, k
  <2>3. dv \in 0..3 /\ dw \in Nat /\ dv < dw
      BY <1>4, <1>9, <2>1, <2>2
  <2> QED
      BY <1>2, <2>3 DEF dv, dw
<1>11. CASE ~\E y \in 0..k : w \in within[y]
  <2>1. dw = far + 1
      BY <1>4, <1>6, <1>11
  <2> HIDE DEF dv, dw, k
  <2>2. dv \in 0..3 /\ dw \in Nat /\ dv < dw
      BY <1>4, <1>6, <1>9, <2>1
  <2> QED
      BY <1>2, <2>2 DEF dv, dw
<1> QED
    BY <1>10, <1>11

-----------------------------------------------------------------------------
(* Powers of two *)

LEMMA PowersGrow ==
    ASSUME NEW p \in Nat, NEW q \in Nat, p <= q
    PROVE  2 ^ p \in Nat /\ 2 ^ q \in Nat /\ 2 ^ p <= 2 ^ q
<1>1. ASSUME NEW n \in Nat
      PROVE  IsFiniteSet(SUBSET (1..n)) /\ Cardinality(SUBSET (1..n)) = 2 ^ n /\ 2 ^ n \in Nat
  <2>1. IsFiniteSet(1..n) /\ Cardinality(1..n) = n
      BY Interval
  <2>2. IsFiniteSet(SUBSET (1..n)) /\ Cardinality(SUBSET (1..n)) = 2 ^ Cardinality(1..n)
      BY <2>1, FS_SUBSET
  <2>3. Cardinality(SUBSET (1..n)) \in Nat
      BY <2>2, FS_CardinalityType
  <2> QED
      BY <2>1, <2>2, <2>3, Zenon
<1>2. SUBSET (1..p) \in SUBSET (SUBSET (1..q))
  <2>1. 1..p \subseteq 1..q
      OBVIOUS
  <2> QED
      BY <2>1
<1>3. Cardinality(SUBSET (1..p)) <= Cardinality(SUBSET (1..q))
    BY <1>1, <1>2, FS_Subset
<1>4. Cardinality(SUBSET (1..p)) = 2 ^ p /\ Cardinality(SUBSET (1..q)) = 2 ^ q /\ 2 ^ p \in Nat /\ 2 ^ q \in Nat
    BY <1>1
<1> QED
    BY <1>3, <1>4, Zenon

LEMMA TimesKeeps ==
    ASSUME NEW k \in Nat, NEW x \in Int, NEW y \in Int, x <= y
    PROVE  k * x \in Int /\ k * y \in Int /\ k * x <= k * y
    OBVIOUS

LEMMA TimesKeepsStrictly ==
    ASSUME NEW k \in Nat \ {0}, NEW x \in Int, NEW y \in Int, x < y
    PROVE  k * x \in Int /\ k * y \in Int /\ k * x < k * y
    OBVIOUS

LEMMA WholeShares ==
    ASSUME NEW y \in Nat \ {0}, NEW N \in Nat
    PROVE  N \div y \in Nat /\ y * (N \div y) <= N
<1>1. N \div y \in Nat /\ N % y \in 0..(y - 1)
    BY Parts
<1>2. N = y * (N \div y) + (N % y)
    BY Quotient
<1> DEFINE q == N \div y
           r == N % y
<1>3. q \in Nat /\ r \in Nat /\ N = y * q + r
    BY <1>1, <1>2
<1> HIDE DEF q, r
<1>4. y * q <= N
    BY <1>3
<1> QED
    BY <1>3, <1>4 DEF q

\* a shares of c are N.
LEMMA AtMost ==
    ASSUME NEW a \in Nat \ {0}, NEW c \in Nat, NEW y \in Nat, a <= y, NEW N \in Nat, N = a * c
    PROVE  N \div y \in Nat /\ N \div y <= c
<1> DEFINE z == N \div y
<1>1. y \in Nat \ {0}
    OBVIOUS
<1>2. z \in Nat /\ y * z <= N
    BY <1>1, WholeShares
<1> HIDE DEF z
<1>3. y * z <= N /\ y * z \in Nat
    BY <1>2, Product2
<1>4. a * z <= y * z
    BY <1>2
<1>5. ASSUME c + 1 <= z
      PROVE  FALSE
  <2>1. a * (c + 1) <= a * z
      BY <1>2, <1>5
  <2>2. a * (c + 1) = a * c + a /\ a * c \in Nat /\ a * z \in Nat
      BY <1>2
  <2> QED
      BY <1>3, <1>4, <2>1, <2>2
<1>6. z <= c
    BY <1>2, <1>5
<1> QED
    BY <1>2, <1>6 DEF z

\* A return is less than the return of a smaller distance.
LEMMA HalfAsMuch ==
    ASSUME NEW p \in 0..3, NEW q \in Nat, p < q
    PROVE  /\ 32 \div 2 ^ p \in Nat /\ 32 \div 2 ^ q \in Nat
           /\ 32 \div 2 ^ q < 32 \div 2 ^ p
<1>1. 2 ^ q \in Nat /\ 2 ^ (p + 1) <= 2 ^ q
  <2>1. p + 1 \in Nat /\ p + 1 <= q
      OBVIOUS
  <2> QED
      BY <2>1, PowersGrow
<1> DEFINE y == 2 ^ q
           less(a, c) == a \in Nat \ {0} /\ c \in Nat /\ a <= y /\ 32 = a * c
<1>2. \A a, c : less(a, c) => 32 \div y \in Nat /\ 32 \div y <= c
  <2>1. y \in Nat
      BY <1>1
  <2> HIDE DEF y
  <2> QED
      BY <2>1, AtMost
<1>3. CASE p = 0
  <2>1. 2 ^ p = 1 /\ 2 ^ (p + 1) = 2
      BY <1>3
  <2>2. less(2, 16)
      BY <1>1, <2>1
  <2>3. 32 \div y \in Nat /\ 32 \div y <= 16
      BY <1>2, <2>2
  <2>4. 32 \div 2 ^ p = 32
      BY <2>1
  <2> HIDE DEF y
  <2>5. 32 \div y < 32
      BY <2>3
  <2> QED
      BY <2>3, <2>4, <2>5 DEF y
<1>4. CASE p = 1
  <2>1. 2 ^ p = 2 /\ 2 ^ (p + 1) = 4
      BY <1>4
  <2>2. less(4, 8)
      BY <1>1, <2>1
  <2>3. 32 \div y \in Nat /\ 32 \div y <= 8
      BY <1>2, <2>2
  <2>4. 32 \div 2 ^ p = 16
      BY <2>1
  <2> HIDE DEF y
  <2>5. 32 \div y < 16
      BY <2>3
  <2> QED
      BY <2>3, <2>4, <2>5 DEF y
<1>5. CASE p = 2
  <2>1. 2 ^ p = 4 /\ 2 ^ (p + 1) = 8
      BY <1>5
  <2>2. less(8, 4)
      BY <1>1, <2>1
  <2>3. 32 \div y \in Nat /\ 32 \div y <= 4
      BY <1>2, <2>2
  <2>4. 32 \div 2 ^ p = 8
      BY <2>1
  <2> HIDE DEF y
  <2>5. 32 \div y < 8
      BY <2>3
  <2> QED
      BY <2>3, <2>4, <2>5 DEF y
<1>6. CASE p = 3
  <2>1. 2 ^ p = 8 /\ 2 ^ (p + 1) = 16
      BY <1>6
  <2>2. less(16, 2)
      BY <1>1, <2>1
  <2>3. 32 \div y \in Nat /\ 32 \div y <= 2
      BY <1>2, <2>2
  <2>4. 32 \div 2 ^ p = 4
      BY <2>1
  <2> HIDE DEF y
  <2>5. 32 \div y < 4
      BY <2>3
  <2> QED
      BY <2>3, <2>4, <2>5 DEF y
<1> QED
    BY <1>3, <1>4, <1>5, <1>6

-----------------------------------------------------------------------------
(* Better pays more *)

\* The size of a group, and the sum of what is known of its rows.
LEMMA CentredIs ==
    ASSUME NEW f, IsFiniteSet(DOMAIN f), DOMAIN f # {}, \A x \in DOMAIN f : f[x] \in Int
    PROVE  \E c \in Nat \ {0}, sum \in Int : \A v : Centred(v, f) = <<c * v - sum, c>>
<1> DEFINE c == Cardinality(DOMAIN f)
           sum == SumFunctionOnSet(f, DOMAIN f)
<1>1. c \in Nat \ {0}
  <2>1. PICK x : x \in DOMAIN f
      OBVIOUS
  <2> QED
      BY <2>1, OneLess
<1>2. sum \in Int
    BY SumType
<1>3. SumFunction(f) = sum
    BY Zenon DEF SumFunction
<1>4. \A v : Centred(v, f) = <<c * v - sum, c>>
    BY <1>3, Zenon DEF Centred
<1> QED
    BY <1>1, <1>2, <1>4

LEMMA NotLess ==
    ASSUME NEW c \in Nat \ {0}, NEW N \in Nat \ {0}, NEW sum \in Int, NEW R \in Int, NEW t \in Int,
           NEW low \in Int, NEW high \in Int, low <= high
    PROVE  ~((N * ((c * high - sum) + c * t) - R) * (N * c) < (N * ((c * low - sum) + c * t) - R) * (N * c))
<1>1. c * low \in Int /\ c * high \in Int /\ c * low <= c * high /\ c * t \in Int
    BY TimesKeeps
<1>2. PICK x \in Int : x = (c * low - sum) + c * t
    BY <1>1
<1>3. PICK y \in Int : y = (c * high - sum) + c * t
    BY <1>1
<1>4. x <= y
    BY <1>1, <1>2, <1>3
<1>5. N * x \in Int /\ N * y \in Int /\ N * x <= N * y
    BY <1>4, TimesKeeps
<1>6. PICK u \in Int : u = N * x - R
    BY <1>5
<1>7. PICK v \in Int : v = N * y - R
    BY <1>5
<1>8. u <= v
    BY <1>5, <1>6, <1>7
<1>9. PICK D \in Nat : D = N * c
    OBVIOUS
<1>10. D * u \in Int /\ D * v \in Int /\ D * u <= D * v
    BY <1>8, TimesKeeps
<1>11. u * D = D * u /\ v * D = D * v
    BY Product2
<1>12. ~(v * D < u * D)
    BY <1>10, <1>11
<1> QED
    BY <1>2, <1>3, <1>6, <1>7, <1>9, <1>12, Zenon

LEMMA LessIfLess ==
    ASSUME NEW c \in Nat \ {0}, NEW d \in Nat \ {0}, NEW w \in Nat \ {0}, NEW sum \in Int, NEW g \in Int,
           NEW low \in Int, NEW high \in Int, low < high
    PROVE  ((w * (c * low - sum)) * d + g * c) * (c * d) < ((w * (c * high - sum)) * d + g * c) * (c * d)
<1>1. c * low \in Int /\ c * high \in Int /\ c * low < c * high
    BY TimesKeepsStrictly
<1>2. PICK x \in Int : x = c * low - sum
    BY <1>1
<1>3. PICK y \in Int : y = c * high - sum
    BY <1>1
<1>4. w * x \in Int /\ w * y \in Int /\ w * x < w * y
  <2>1. x < y
      BY <1>1, <1>2, <1>3
  <2> QED
      BY <2>1, TimesKeepsStrictly
<1>5. d * (w * x) \in Int /\ d * (w * y) \in Int /\ d * (w * x) < d * (w * y)
    BY <1>4, TimesKeepsStrictly
<1>6. (w * x) * d = d * (w * x) /\ (w * y) * d = d * (w * y)
    BY <1>4, Product2
<1>7. g * c \in Int
    BY Product2
<1>8. PICK u \in Int : u = (w * x) * d + g * c
    BY <1>5, <1>6, <1>7
<1>9. PICK v \in Int : v = (w * y) * d + g * c
    BY <1>5, <1>6, <1>7
<1>10. u < v
    BY <1>5, <1>6, <1>7, <1>8, <1>9
<1>11. PICK D \in Nat \ {0} : D = c * d
    OBVIOUS
<1>12. D * u < D * v
    BY <1>10, TimesKeepsStrictly
<1>13. u * D = D * u /\ v * D = D * v
    BY Product2
<1>14. u * D < v * D
    BY <1>12, <1>13
<1> QED
    BY <1>2, <1>3, <1>8, <1>9, <1>11, <1>14, Zenon

\* The numbers of n rows.
Numbers(b, n) ==
    /\ DOMAIN b = 1..n
    /\ \A i \in 1..n : {b[i].score, b[i].flow, b[i].cut} \subseteq Int

LEMMA GroupIs ==
    ASSUME NEW n \in Nat, NEW b, DOMAIN b = 1..n, NEW i \in 1..n, NEW S \in SUBSET GroupOf(b, i), i \in S
    PROVE  IsFiniteSet(S) /\ S # {} /\ S \in SUBSET (1..n)
<1>1. S \in SUBSET (1..n) /\ IsFiniteSet(1..n)
    BY Interval DEF GroupOf
<1> QED
    BY <1>1, FS_Subset

LEMMA ObliFlowPays ==
    ASSUME NEW n \in Nat, NEW b, Numbers(b, n), NEW alpha \in Int, NEW beta \in Int,
           NEW i \in 1..n, NEW j \in 1..n, b[i].uid = b[j].uid, b[i].flow = b[j].flow, b[i].cut = b[j].cut,
           b[FirstRow(b, j)].score <= b[FirstRow(b, i)].score
    PROVE  ~Less(ObliFlowAdvantage(b, i, alpha, beta), ObliFlowAdvantage(b, j, alpha, beta))
<1> DEFINE G == GroupOf(b, i)
           S == {FirstRow(b, l) : l \in G}
           score(l) == b[FirstRow(b, l)].score
           t(l) == alpha * b[l].flow + beta * b[l].cut
<1>1. /\ DOMAIN b = 1..n
      /\ \A l \in 1..n : b[l].score \in Int /\ b[l].flow \in Int /\ b[l].cut \in Int
    BY DEF Numbers
<1>2. /\ GroupOf(b, j) = G /\ G \in SUBSET (1..n) /\ i \in G /\ j \in G
      /\ \A l \in G : GroupOf(b, l) = G
  <2>1. G \in SUBSET (1..n) /\ i \in G /\ j \in G /\ \A l \in G : b[l].uid = b[i].uid
      BY <1>1, OneGroup
  <2>2. \A l \in G : GroupOf(b, l) = G
      BY <1>1, <2>1, OneGroup
  <2> QED
      BY <2>1, <2>2
<1>3. IsFiniteSet(G) /\ G # {}
    BY <1>1, <1>2, GroupIs
<1>4. S \in SUBSET (1..n) /\ S # {} /\ \A l \in G : FirstRow(b, l) \in 1..n
  <2>1. \A l \in G : FirstRow(b, l) \in 1..n
      BY <1>1, <1>2, FirstRowIs
  <2> QED
      BY <1>2, <2>1
<1>5. IsFiniteSet(S)
    BY <1>4, Interval, FS_Subset
<1>6. PICK c \in Nat \ {0}, sum \in Int : \A v : Centred(v, Scores(b, S)) = <<c * v - sum, c>>
  <2>1. DOMAIN Scores(b, S) = S /\ \A x \in S : Scores(b, S)[x] = b[x].score
      BY DEF Scores
  <2> HIDE DEF S
  <2>2. \A x \in DOMAIN Scores(b, S) : Scores(b, S)[x] \in Int
      BY <1>1, <1>4, <2>1
  <2>3. IsFiniteSet(DOMAIN Scores(b, S)) /\ DOMAIN Scores(b, S) # {}
      BY <1>4, <1>5, <2>1
  <2> DEFINE f == Scores(b, S)
  <2> HIDE DEF f
  <2>4. \E c \in Nat \ {0}, sum \in Int : \A v : Centred(v, f) = <<c * v - sum, c>>
      BY <2>2, <2>3, CentredIs DEF f
  <2> QED
      BY <2>4 DEF f
<1>7. ASSUME NEW l \in G
      PROVE  TrajectoryAdvantage(b, l) = <<c * score(l) - sum, c>>
  <2>1. TrajectoryAdvantage(b, l) = Centred(score(l), Scores(b, {FirstRow(b, m) : m \in GroupOf(b, l)}))
      BY Zenon DEF TrajectoryAdvantage
  <2>2. {FirstRow(b, m) : m \in GroupOf(b, l)} = S
      BY <1>2
  <2> HIDE DEF S
  <2> QED
      BY <1>6, <2>1, <2>2, Zenon
<1> HIDE DEF S
<1>8. ASSUME NEW l \in G
      PROVE  score(l) \in Int /\ t(l) \in Int /\ (c * score(l) - sum) + c * t(l) \in Int
  <2>1. score(l) \in Int /\ b[l].flow \in Int /\ b[l].cut \in Int
      BY <1>1, <1>2, <1>4
  <2>2. alpha * b[l].flow \in Int /\ beta * b[l].cut \in Int
      BY <2>1, Product2
  <2>3. t(l) \in Int
      BY <2>2
  <2> HIDE DEF t, score
  <2>4. c * score(l) \in Int /\ c * t(l) \in Int
      BY <2>1, <2>3, Product2 DEF score
  <2> QED
      BY <2>1, <2>3, <2>4 DEF score
<1> DEFINE raw(l) == LET r == TrajectoryAdvantage(b, l)
                     IN  r[1] + r[2] * (alpha * b[l].flow + beta * b[l].cut)
           raws(k) == [l \in GroupOf(b, k) |-> raw(l)]
           all(k) == Centred(raw(k), raws(k))
<1>9. ASSUME NEW l \in G
      PROVE  raw(l) = (c * score(l) - sum) + c * t(l)
  <2>1. TrajectoryAdvantage(b, l)[1] = c * score(l) - sum /\ TrajectoryAdvantage(b, l)[2] = c
      BY <1>7
  <2> QED
      BY <2>1, Zenon
<1>10. ASSUME NEW k
       PROVE  ObliFlowAdvantage(b, k, alpha, beta) = <<all(k)[1], all(k)[2] * TrajectoryAdvantage(b, k)[2]>>
    BY Zenon DEF ObliFlowAdvantage
<1> HIDE DEF raw, t, score
<1>11. raws(j) = raws(i) /\ DOMAIN raws(i) = G /\ \A l \in G : raws(i)[l] = raw(l)
    BY <1>2
<1>12. PICK N \in Nat \ {0}, R \in Int : \A v : Centred(v, raws(i)) = <<N * v - R, N>>
  <2> DEFINE f == raws(i)
  <2>1. DOMAIN f = G /\ \A l \in G : f[l] \in Int
      BY <1>8, <1>9, <1>11
  <2> HIDE DEF f
  <2>2. IsFiniteSet(DOMAIN f) /\ DOMAIN f # {} /\ \A x \in DOMAIN f : f[x] \in Int
      BY <1>3, <2>1
  <2>3. \E N \in Nat \ {0}, R \in Int : \A v : Centred(v, f) = <<N * v - R, N>>
      BY <2>2, CentredIs
  <2> QED
      BY <2>3 DEF f
<1>13. all(i) = <<N * raw(i) - R, N>> /\ all(j) = <<N * raw(j) - R, N>>
    BY <1>11, <1>12, Zenon
<1> HIDE DEF all, raws
<1>14. ASSUME NEW k \in {i, j}
       PROVE  ObliFlowAdvantage(b, k, alpha, beta) = <<N * ((c * score(k) - sum) + c * t(k)) - R, N * c>>
  <2>1. k \in G /\ all(k) = <<N * raw(k) - R, N>>
      BY <1>2, <1>13
  <2>2. raw(k) = (c * score(k) - sum) + c * t(k) /\ TrajectoryAdvantage(b, k)[2] = c
      BY <1>7, <1>9, <2>1
  <2>3. all(k)[1] = N * raw(k) - R /\ all(k)[2] = N
      BY <2>1
  <2> QED
      BY <1>10, <2>2, <2>3, Zenon
<1>15. t(i) = t(j) /\ score(i) \in Int /\ score(j) \in Int /\ t(i) \in Int /\ score(j) <= score(i)
  <2>1. t(i) = t(j)
      BY Zenon DEF t
  <2>2. score(j) <= score(i)
      BY Zenon DEF score
  <2> QED
      BY <1>2, <1>8, <2>1, <2>2
<1>16. ~((N * ((c * score(i) - sum) + c * t(i)) - R) * (N * c) < (N * ((c * score(j) - sum) + c * t(i)) - R) * (N * c))
    BY <1>15, NotLess
<1>17. ObliFlowAdvantage(b, j, alpha, beta) = <<N * ((c * score(j) - sum) + c * t(i)) - R, N * c>>
    BY <1>14, <1>15
<1>18. ObliFlowAdvantage(b, i, alpha, beta) = <<N * ((c * score(i) - sum) + c * t(i)) - R, N * c>>
    BY <1>14
<1> DEFINE x == N * ((c * score(i) - sum) + c * t(i)) - R
           y == N * ((c * score(j) - sum) + c * t(i)) - R
           D == N * c
<1>19. ~(x * D < y * D)
    BY <1>16
<1>20. ObliFlowAdvantage(b, i, alpha, beta) = <<x, D>> /\ ObliFlowAdvantage(b, j, alpha, beta) = <<y, D>>
    BY <1>17, <1>18
<1> HIDE DEF x, y, D
<1> QED
    BY <1>19, <1>20 DEF Less

LEMMA GraphgpoPays ==
    ASSUME NEW n \in Nat, NEW b, Numbers(b, n), \A l \in 1..n : b[l].ret \in Int,
           NEW w \in Nat \ {0}, NEW e \in Int, NEW i \in 1..n, NEW j \in 1..n, i # j, b[i].uid = b[j].uid, b[i].obs = b[j].obs,
           b[i].score = b[j].score, b[j].ret < b[i].ret
    PROVE  Less(GraphgpoAdvantage(b, j, w, e), GraphgpoAdvantage(b, i, w, e))
<1> DEFINE G == GroupOf(b, i)
           S == StepGroup(b, i)
           f == Rets(b, S)
           h == Scores(b, G)
           score == b[i].score
<1>1. /\ DOMAIN b = 1..n
      /\ \A l \in 1..n : b[l].score \in Int /\ b[l].ret \in Int
    BY DEF Numbers
<1>2. GroupOf(b, j) = G /\ G \in SUBSET (1..n) /\ i \in G /\ j \in G /\ G # {i} /\ G # {j}
    BY <1>1, OneGroup
<1>3. StepGroup(b, j) = S /\ S \in SUBSET G /\ i \in S
    BY <1>2 DEF StepGroup
<1>4. IsFiniteSet(G) /\ IsFiniteSet(S) /\ S # {} /\ G # {} /\ S \in SUBSET (1..n)
  <2>1. G \in SUBSET GroupOf(b, i)
      OBVIOUS
  <2> HIDE DEF G, S
  <2>2. IsFiniteSet(G) /\ G # {}
      BY <1>1, <1>2, <2>1, GroupIs
  <2>3. IsFiniteSet(S)
      BY <1>3, <2>2, FS_Subset
  <2> QED
      BY <1>2, <1>3, <2>2, <2>3
<1>5. /\ DOMAIN f = S /\ \A x \in S : f[x] = b[x].ret
      /\ DOMAIN h = G /\ \A x \in G : h[x] = b[x].score
    BY DEF Rets, Scores
<1>6. GraphgpoAdvantage(b, i, w, e) = Plus(Times(Centred(b[i].ret, f), w), Times(GrpoAdvantage(b, i), e))
    BY Zenon DEF GraphgpoAdvantage
<1>7. GraphgpoAdvantage(b, j, w, e) = Plus(Times(Centred(b[j].ret, f), w), Times(GrpoAdvantage(b, j), e))
  <2> HIDE DEF S
  <2>1. GraphgpoAdvantage(b, j, w, e)
        = Plus(Times(Centred(b[j].ret, Rets(b, StepGroup(b, j))), w), Times(GrpoAdvantage(b, j), e))
      BY Zenon DEF GraphgpoAdvantage
  <2> QED
      BY <1>3, <2>1, Zenon
<1>8. GrpoAdvantage(b, i) = Centred(score, h) /\ GrpoAdvantage(b, j) = Centred(score, h)
  <2>1. GrpoAdvantage(b, i) = Centred(score, h)
      BY <1>2, Zenon DEF GrpoAdvantage
  <2> HIDE DEF G
  <2>2. GrpoAdvantage(b, j) = Centred(b[j].score, Scores(b, GroupOf(b, j)))
      BY <1>2, Zenon DEF GrpoAdvantage
  <2> QED
      BY <1>2, <2>1, <2>2, Zenon
<1> HIDE DEF f, h, S, G, score
<1>9. PICK c \in Nat \ {0}, sum \in Int : \A v : Centred(v, f) = <<c * v - sum, c>>
  <2>1. IsFiniteSet(DOMAIN f) /\ DOMAIN f # {} /\ \A x \in DOMAIN f : f[x] \in Int
      BY <1>1, <1>4, <1>5
  <2> QED
      BY <2>1, CentredIs
<1>10. PICK d \in Nat \ {0}, total \in Int : \A v : Centred(v, h) = <<d * v - total, d>>
  <2>1. IsFiniteSet(DOMAIN h) /\ DOMAIN h # {} /\ \A x \in DOMAIN h : h[x] \in Int
      BY <1>1, <1>2, <1>4, <1>5
  <2> QED
      BY <2>1, CentredIs
<1>11. PICK g \in Int : g = e * (d * score - total)
  <2>1. d * score \in Int
      BY <1>1, Product2 DEF score
  <2>2. d * score - total \in Int
      BY <2>1
  <2>3. e * (d * score - total) \in Int
      BY <2>2, Product2
  <2> QED
      BY <2>3
<1>12. ASSUME NEW l \in {i, j}
       PROVE  GraphgpoAdvantage(b, l, w, e) = <<(w * (c * b[l].ret - sum)) * d + g * c, c * d>>
  <2> DEFINE r == c * b[l].ret - sum
  <2>1. GraphgpoAdvantage(b, l, w, e) = Plus(Times(<<r, c>>, w), Times(<<d * score - total, d>>, e))
      BY <1>6, <1>7, <1>8, <1>9, <1>10
  <2> HIDE DEF r
  <2>2. Times(<<r, c>>, w) = <<w * r, c>> /\ Times(<<d * score - total, d>>, e) = <<g, d>>
      BY <1>11, Zenon DEF Times
  <2>3. Plus(<<w * r, c>>, <<g, d>>) = <<(w * r) * d + g * c, c * d>>
      BY Zenon DEF Plus
  <2> QED
      BY <2>1, <2>2, <2>3, Zenon DEF r
<1>13. b[j].ret \in Int /\ b[i].ret \in Int
    BY <1>1
<1>14. ((w * (c * b[j].ret - sum)) * d + g * c) * (c * d) < ((w * (c * b[i].ret - sum)) * d + g * c) * (c * d)
    BY <1>13, LessIfLess
<1> DEFINE x == (w * (c * b[j].ret - sum)) * d + g * c
           y == (w * (c * b[i].ret - sum)) * d + g * c
           D == c * d
<1>15. GraphgpoAdvantage(b, j, w, e) = <<x, D>> /\ GraphgpoAdvantage(b, i, w, e) = <<y, D>>
    BY <1>12
<1>16. x * D < y * D
    BY <1>14
<1> HIDE DEF x, y, D
<1> QED
    BY <1>15, <1>16 DEF Less

\* What a return is.
LEMMA ReturnsAre ==
    ASSUME NEW b, NEW n \in Nat, DOMAIN b = 1..n, NEW i \in 1..n
    PROVE  PathReturns(b)[i] = 32 \div 2 ^ Distances(Edges(b, i))[b[i].next] /\ PathReturns(b)[i] \in Nat
<1> DEFINE edges == Edges(b, i)
           d == Distances(edges)[b[i].next]
<1>1. PathReturns(b)[i] = 32 \div 2 ^ d
    BY DEF PathReturns
<1>2. IsFiniteSet(edges) /\ <<b[i].obs, b[i].next>> \in edges
    BY EdgesAre, OneGroup
<1>3. b[i].next \in Nodes(edges)
  <2>1. <<b[i].obs, b[i].next>>[2] \in Nodes(edges)
      BY <1>2, NodesAre
  <2> QED
      BY <2>1
<1>4. d \in Nat
  <2> DEFINE k == Cardinality(Nodes(edges))
             v == b[i].next
  <2>1. k \in Nat
      BY <1>2, NodesAre
  <2> HIDE DEF edges
  <2>2. PICK within, far : Measures(edges, k, within, far)
      BY <1>2, DistancesAre
  <2> HIDE DEF k, v
  <2>3. /\ far \in Nat
        /\ \A u \in Nodes(edges) : Distances(edges)[u] \in 0..k \/ Distances(edges)[u] = far + 1
      BY <2>2 DEF Measures
  <2>4. d \in 0..k \/ d = far + 1
      BY <1>3, <2>3 DEF v
  <2> HIDE DEF d
  <2> QED
      BY <2>1, <2>3, <2>4
<1> HIDE DEF d
<1>5. 2 ^ 0 = 1
    OBVIOUS
<1>6. 2 ^ 0 <= 2 ^ d /\ 2 ^ d \in Nat
  <2>1. 0 \in Nat /\ 0 <= d
      BY <1>4
  <2> HIDE DEF d
  <2> QED
      BY <1>4, <2>1, PowersGrow
<1> DEFINE y == 2 ^ d
<1>7. 1 <= y /\ y \in Nat
    BY <1>5, <1>6
<1> HIDE DEF y
<1>8. 32 \div y \in Nat
  <2>1. 1 \in Nat \ {0} /\ 32 \in Nat /\ 32 = 1 * 32
      OBVIOUS
  <2> QED
      BY <1>7, <2>1, AtMost
<1> QED
    BY <1>1, <1>8 DEF y, d

\* The rows of the rollout after the penalties.
LEMMA ScoredIs ==
    ASSUME rolled \in Batches, config.estimator \in {"obliflow", "graphgpo"}, NEW n \in Nat, DOMAIN rolled = 1..n,
           config.estimator # "gae" => ValuedRows = ReturnedRows
    PROVE  /\ DOMAIN ScoredRows = 1..n
           /\ \A x \in 1..n :
                 /\ ScoredRows[x].uid = rolled[x].uid /\ ScoredRows[x].traj = rolled[x].traj
                 /\ ScoredRows[x].obs = rolled[x].obs /\ ScoredRows[x].valid = rolled[x].valid
                 /\ ScoredRows[x].flow = rolled[x].flow /\ ScoredRows[x].cut = rolled[x].cut
                 /\ ScoredRows[x].score
                    = IF config.penalty /\ ~rolled[x].valid THEN rolled[x].score - Penalty ELSE rolled[x].score
                 /\ config.estimator = "graphgpo" =>
                       ScoredRows[x].ret
                       = IF config.penalty /\ ~rolled[x].valid THEN PathReturns(rolled)[x] - Penalty
                         ELSE PathReturns(rolled)[x]
<1>1. \A x \in 1..n : DOMAIN rolled[x] = Columns
    BY BatchAssumption
<1> DEFINE b == ReturnedRows
           paths == PathReturns(rolled)
<1>2. /\ DOMAIN b = 1..n
      /\ \A x \in 1..n : /\ DOMAIN b[x] = Columns
                         /\ b[x].uid = rolled[x].uid /\ b[x].traj = rolled[x].traj
                         /\ b[x].obs = rolled[x].obs /\ b[x].valid = rolled[x].valid
                         /\ b[x].flow = rolled[x].flow /\ b[x].cut = rolled[x].cut
                         /\ b[x].score = rolled[x].score
                         /\ config.estimator = "graphgpo" => b[x].ret = paths[x]
  <2>1. CASE config.estimator = "obliflow"
    <3>1. b = rolled
        BY <2>1 DEF ReturnedRows, StepEstimators
    <3> QED
        BY <1>1, <2>1, <3>1
  <2>2. CASE config.estimator = "graphgpo"
    <3>1. b = [x \in DOMAIN rolled |-> [rolled[x] EXCEPT !.ret = paths[x]]]
        BY <2>2 DEF ReturnedRows, StepEstimators, WithReturns
    <3> HIDE DEF paths, b
    <3>2. DOMAIN b = 1..n /\ \A x \in 1..n : b[x] = [rolled[x] EXCEPT !.ret = paths[x]]
        BY <3>1
    <3>3. {"uid", "traj", "obs", "valid", "flow", "cut", "score", "ret"} \subseteq Columns
        BY DEF Columns
    <3> QED
        BY <1>1, <3>2, <3>3
  <2> QED
      BY <2>1, <2>2
<1>3. ScoredRows = IF config.penalty THEN Penalised(config, b) ELSE b
    BY Zenon DEF ScoredRows
<1> HIDE DEF b, paths
<1>4. CASE ~config.penalty
  <2>1. ScoredRows = b
      BY <1>3, <1>4, Zenon
  <2> QED
      BY <1>2, <1>4, <2>1 DEF paths
<1>5. CASE config.penalty
  <2>1. ScoredRows = [x \in DOMAIN b |->
                        IF b[x].valid THEN b[x]
                        ELSE [b[x] EXCEPT !.score = @ - Penalty,
                                          !.ret = IF config.estimator \in StepEstimators THEN @ - Penalty ELSE @]]
      BY <1>3, <1>5, Zenon DEF Penalised
  <2>2. DOMAIN ScoredRows = 1..n
      BY <1>2, <2>1
  <2>3. ASSUME NEW x \in 1..n
        PROVE  /\ ScoredRows[x].uid = b[x].uid /\ ScoredRows[x].traj = b[x].traj
               /\ ScoredRows[x].obs = b[x].obs /\ ScoredRows[x].valid = b[x].valid
               /\ ScoredRows[x].flow = b[x].flow /\ ScoredRows[x].cut = b[x].cut
               /\ ScoredRows[x].score = IF b[x].valid THEN b[x].score ELSE b[x].score - Penalty
               /\ config.estimator = "graphgpo" =>
                     ScoredRows[x].ret = IF b[x].valid THEN b[x].ret ELSE b[x].ret - Penalty
    <3>1. ScoredRows[x] = IF b[x].valid THEN b[x]
                          ELSE [b[x] EXCEPT !.score = @ - Penalty,
                                            !.ret = IF config.estimator \in StepEstimators THEN @ - Penalty ELSE @]
        BY <1>2, <2>1
    <3>2. {"uid", "traj", "obs", "valid", "flow", "cut", "score", "ret"} \subseteq DOMAIN b[x]
        BY <1>2 DEF Columns
    <3>3. CASE b[x].valid
        BY <3>1, <3>3
    <3>4. CASE ~b[x].valid
        BY <3>1, <3>2, <3>4 DEF StepEstimators
    <3> QED
        BY <3>3, <3>4
  <2> QED
      BY <1>2, <1>5, <2>2, <2>3 DEF paths
<1> QED
    BY <1>4, <1>5

\* The penalty of an invalid action does not turn a higher score into a lower
\* one (apply_invalid_action_penalty, with a coefficient of 0.1 and scores of 0
\* and 10).
PenaltyBelowScores ==
    /\ Penalty \in Nat
    /\ \A b \in Batches : \A i, j \in DOMAIN b :
          b[i].score > b[j].score => b[i].score - Penalty >= b[j].score

\* What is known of a row of a job that is over, by its row of the rollout.
LEMMA RowIs ==
    ASSUME JobInv, TrainedInv, RecipeInv, Updated, config.estimator \in {"obliflow", "graphgpo"},
           NEW i \in DOMAIN batch
    PROVE  /\ rolled \in Batches /\ Len(rolled) \in Nat /\ DOMAIN rolled = 1..Len(rolled)
           /\ config.estimator # "gae" => ValuedRows = ReturnedRows
           /\ batch[i].id \in 1..Len(rolled)
           /\ batch[i].adv = AdvantageOf(config, ScoredRows, batch[i].id)
           /\ Tells(batch[i], ScoredRows[batch[i].id])
<1>1. config \in Configs /\ rolled \in Batches /\ Len(rolled) \in Nat
    BY UpdatedIs DEF JobInv
<1>2. config.trainer = "recipe"
    BY <1>1, ConfigAssumption
<1>3. DOMAIN rolled = 1..Len(rolled) /\ (config.estimator # "gae" => ValuedRows = ReturnedRows)
    BY RolledIs
<1>4. /\ batch[i].id \in 1..Len(rolled)
      /\ batch[i].adv = AdvantageOf(config, ScoredRows, batch[i].id)
      /\ Tells(batch[i], ScoredRows[batch[i].id])
    BY <1>2, AdvantagesAre
<1> QED
    BY <1>1, <1>3, <1>4

LEMMA ScoresPay ==
    ASSUME JobInv, TrainedInv, RecipeInv, Updated, config.estimator = "obliflow", PenaltyBelowScores
    PROVE  ScorePays
<1> SUFFICES ASSUME NEW i \in DOMAIN batch, NEW j \in DOMAIN batch, batch[i].uid = batch[j].uid,
                    batch[i].flow = batch[j].flow, batch[i].cut = batch[j].cut,
                    rolled[FirstRow(rolled, batch[i].id)].score > rolled[FirstRow(rolled, batch[j].id)].score
             PROVE  ~Less(batch[i].adv, batch[j].adv)
    BY DEF ScorePays
<1>1. config.estimator \in {"obliflow", "graphgpo"}
    OBVIOUS
<1>2. PICK n \in Nat : n = Len(rolled)
    BY <1>1, RowIs
<1>3. PICK x : x = batch[i].id
    OBVIOUS
<1>4. PICK y : y = batch[j].id
    OBVIOUS
<1>5. PICK b : b = ScoredRows
    OBVIOUS
<1>6. rolled \in Batches /\ DOMAIN rolled = 1..n /\ (config.estimator # "gae" => ValuedRows = ReturnedRows)
    BY <1>1, <1>2, RowIs
<1>7. x \in 1..n /\ batch[i].adv = AdvantageOf(config, b, x) /\ Tells(batch[i], b[x])
    BY <1>1, <1>2, <1>3, <1>5, RowIs
<1>8. y \in 1..n /\ batch[j].adv = AdvantageOf(config, b, y) /\ Tells(batch[j], b[y])
    BY <1>1, <1>2, <1>4, <1>5, RowIs
<1>9. /\ DOMAIN b = 1..n
      /\ \A l \in 1..n :
            /\ b[l].uid = rolled[l].uid /\ b[l].traj = rolled[l].traj
            /\ b[l].flow = rolled[l].flow /\ b[l].cut = rolled[l].cut
            /\ b[l].score = IF config.penalty /\ ~rolled[l].valid THEN rolled[l].score - Penalty ELSE rolled[l].score
    BY <1>1, <1>5, <1>6, ScoredIs
<1>10. \A l \in 1..n : rolled[l].score \in Int /\ rolled[l].flow \in Int /\ rolled[l].cut \in Int
    BY <1>6, BatchAssumption
<1>11. Numbers(b, n)
  <2>1. Penalty \in Int
      BY WeightAssumption
  <2>2. ASSUME NEW l \in 1..n
        PROVE  b[l].score \in Int /\ b[l].flow \in Int /\ b[l].cut \in Int
    <3>1. PICK s \in Int, p \in Int : s = rolled[l].score /\ p = Penalty
        BY <1>10, <2>1
    <3>2. s - p \in Int
        BY <3>1
    <3>3. b[l].score = s \/ b[l].score = s - p
        BY <1>9, <3>1, Zenon
    <3>4. b[l].flow \in Int /\ b[l].cut \in Int
        BY <1>9, <1>10, Zenon
    <3> QED
        BY <3>1, <3>2, <3>3, <3>4, Zenon
  <2> QED
      BY <1>9, <2>2 DEF Numbers
<1>12. ASSUME NEW l \in 1..n
       PROVE  FirstRow(b, l) = FirstRow(rolled, l) /\ FirstRow(b, l) \in 1..n
  <2>1. {m \in DOMAIN b : b[m].uid = b[l].uid /\ b[m].traj = b[l].traj}
        = {m \in DOMAIN rolled : rolled[m].uid = rolled[l].uid /\ rolled[m].traj = rolled[l].traj}
      BY <1>6, <1>9
  <2>2. FirstRow(b, l) = FirstRow(rolled, l)
      BY <2>1, Zenon DEF FirstRow
  <2>3. FirstRow(b, l) \in 1..n
      BY <1>9, FirstRowIs
  <2> QED
      BY <2>2, <2>3
<1>13. b[FirstRow(b, y)].score <= b[FirstRow(b, x)].score
  <2>1. PICK p \in 1..n : p = FirstRow(rolled, x) /\ p = FirstRow(b, x)
      BY <1>7, <1>12
  <2>2. PICK q \in 1..n : q = FirstRow(rolled, y) /\ q = FirstRow(b, y)
      BY <1>8, <1>12
  <2>3. rolled[p].score > rolled[q].score
      BY <1>3, <1>4, <2>1, <2>2
  <2>4. rolled[p].score - Penalty >= rolled[q].score /\ Penalty \in Nat
      BY <1>6, <2>3 DEF PenaltyBelowScores
  <2>5. PICK u \in Int : u = rolled[p].score
      BY <1>10
  <2>6. PICK v \in Int : v = rolled[q].score
      BY <1>10
  <2>7. b[p].score \in {u, u - Penalty} /\ b[q].score \in {v, v - Penalty}
      BY <1>9, <2>5, <2>6
  <2>8. b[q].score <= b[p].score
      BY <2>4, <2>5, <2>6, <2>7
  <2> QED
      BY <2>1, <2>2, <2>8
<1>14. b[x].uid = b[y].uid /\ b[x].flow = b[y].flow /\ b[x].cut = b[y].cut
    BY <1>7, <1>8 DEF Tells
<1>15. ~Less(ObliFlowAdvantage(b, x, Alpha, Beta), ObliFlowAdvantage(b, y, Alpha, Beta))
  <2>1. Alpha \in Int /\ Beta \in Int
      BY WeightAssumption
  <2> QED
      BY <1>7, <1>8, <1>11, <1>13, <1>14, <2>1, ObliFlowPays
<1>16. batch[i].adv = ObliFlowAdvantage(b, x, Alpha, Beta) /\ batch[j].adv = ObliFlowAdvantage(b, y, Alpha, Beta)
    BY <1>7, <1>8 DEF AdvantageOf
<1> QED
    BY <1>15, <1>16, Zenon

LEMMA NearerPays ==
    ASSUME JobInv, TrainedInv, RecipeInv, Updated, config.estimator = "graphgpo", StepWeight > 0
    PROVE  NearnessPays
<1> SUFFICES ASSUME NEW i \in DOMAIN batch, NEW j \in DOMAIN batch, batch[i].uid = batch[j].uid,
                    batch[i].obs = batch[j].obs, batch[i].score = batch[j].score, batch[i].valid = batch[j].valid,
                    Nearer(rolled, batch[i].id, batch[j].id)
             PROVE  Less(batch[j].adv, batch[i].adv)
    BY DEF NearnessPays
<1>1. config.estimator \in {"obliflow", "graphgpo"}
    OBVIOUS
<1>2. PICK n \in Nat : n = Len(rolled)
    BY <1>1, RowIs
<1>3. PICK x : x = batch[i].id
    OBVIOUS
<1>4. PICK y : y = batch[j].id
    OBVIOUS
<1>5. PICK b : b = ScoredRows
    OBVIOUS
<1>6. rolled \in Batches /\ DOMAIN rolled = 1..n /\ (config.estimator # "gae" => ValuedRows = ReturnedRows)
    BY <1>1, <1>2, RowIs
<1>7. x \in 1..n /\ batch[i].adv = AdvantageOf(config, b, x) /\ Tells(batch[i], b[x])
    BY <1>1, <1>2, <1>3, <1>5, RowIs
<1>8. y \in 1..n /\ batch[j].adv = AdvantageOf(config, b, y) /\ Tells(batch[j], b[y])
    BY <1>1, <1>2, <1>4, <1>5, RowIs
<1>9. /\ DOMAIN b = 1..n
      /\ \A l \in 1..n :
            /\ b[l].uid = rolled[l].uid /\ b[l].obs = rolled[l].obs /\ b[l].valid = rolled[l].valid
            /\ b[l].flow = rolled[l].flow /\ b[l].cut = rolled[l].cut
            /\ b[l].score = IF config.penalty /\ ~rolled[l].valid THEN rolled[l].score - Penalty ELSE rolled[l].score
            /\ b[l].ret = IF config.penalty /\ ~rolled[l].valid THEN PathReturns(rolled)[l] - Penalty
                          ELSE PathReturns(rolled)[l]
    BY <1>1, <1>5, <1>6, ScoredIs
<1>10. \A l \in 1..n : /\ rolled[l].score \in Int /\ rolled[l].flow \in Int /\ rolled[l].cut \in Int
                       /\ PathReturns(rolled)[l] \in Int
  <2>1. \A l \in 1..n : rolled[l].score \in Int /\ rolled[l].flow \in Int /\ rolled[l].cut \in Int
      BY <1>6, BatchAssumption
  <2>2. ASSUME NEW l \in 1..n
        PROVE  PathReturns(rolled)[l] \in Int
    <3>1. PathReturns(rolled)[l] \in Nat
        BY <1>6, ReturnsAre
    <3> QED
        BY <3>1
  <2> QED
      BY <2>1, <2>2
<1>11. Numbers(b, n) /\ (\A l \in 1..n : b[l].ret \in Int) /\ Penalty \in Int
  <2>1. Penalty \in Int
      BY WeightAssumption
  <2>2. ASSUME NEW l \in 1..n
        PROVE  b[l].score \in Int /\ b[l].flow \in Int /\ b[l].cut \in Int /\ b[l].ret \in Int
    <3>1. PICK u \in Int : u = rolled[l].score
        BY <1>10
    <3>2. PICK v \in Int : v = PathReturns(rolled)[l]
        BY <1>10
    <3>3. b[l].score \in {u, u - Penalty} /\ b[l].ret \in {v, v - Penalty}
        BY <1>9, <3>1, <3>2
    <3>4. b[l].score \in Int /\ b[l].ret \in Int
        BY <2>1, <3>3
    <3> QED
        BY <1>9, <1>10, <3>4
  <2> QED
      BY <1>9, <2>1, <2>2 DEF Numbers
<1>12. /\ b[x].uid = b[y].uid /\ b[x].obs = b[y].obs /\ b[x].score = b[y].score
       /\ rolled[x].uid = rolled[y].uid /\ rolled[x].valid = rolled[y].valid
  <2>1. b[x].uid = b[y].uid /\ b[x].obs = b[y].obs /\ b[x].score = b[y].score /\ b[x].valid = b[y].valid
      BY <1>7, <1>8 DEF Tells
  <2> QED
      BY <1>7, <1>8, <1>9, <2>1
<1>13. PathReturns(rolled)[y] < PathReturns(rolled)[x]
  <2>1. Nearer(rolled, x, y)
      BY <1>3, <1>4
  <2> DEFINE edges == Edges(rolled, x)
             p == Distances(edges)[rolled[x].next]
             q == Distances(edges)[rolled[y].next]
  <2>2. Edges(rolled, y) = edges /\ p \in 0..3 /\ q \in Nat /\ p < q
      BY <1>6, <1>7, <1>8, <1>12, <2>1, NearerIsCloser
  <2>3. PathReturns(rolled)[x] = 32 \div 2 ^ p
      BY <1>6, <1>7, ReturnsAre
  <2>4. PathReturns(rolled)[y] = 32 \div 2 ^ q
    <3>1. PathReturns(rolled)[y] = 32 \div 2 ^ Distances(Edges(rolled, y))[rolled[y].next]
        BY <1>6, <1>8, ReturnsAre
    <3> QED
        BY <2>2, <3>1, Zenon
  <2> HIDE DEF p, q
  <2>5. 32 \div 2 ^ q < 32 \div 2 ^ p
      BY <2>2, HalfAsMuch
  <2> QED
      BY <2>3, <2>4, <2>5, Zenon
<1>14. b[y].ret < b[x].ret
  <2>1. PICK u \in Int : u = PathReturns(rolled)[x]
      BY <1>7, <1>10
  <2>2. PICK v \in Int : v = PathReturns(rolled)[y]
      BY <1>8, <1>10
  <2>3. CASE config.penalty /\ ~rolled[x].valid
    <3>1. b[x].ret = u - Penalty /\ b[y].ret = v - Penalty
        BY <1>7, <1>8, <1>9, <1>12, <2>1, <2>2, <2>3, Zenon
    <3> QED
        BY <1>11, <1>13, <2>1, <2>2, <3>1
  <2>4. CASE ~(config.penalty /\ ~rolled[x].valid)
    <3>1. b[x].ret = u /\ b[y].ret = v
        BY <1>7, <1>8, <1>9, <1>12, <2>1, <2>2, <2>4, Zenon
    <3> QED
        BY <1>13, <2>1, <2>2, <3>1
  <2> QED
      BY <2>3, <2>4
<1>15. Less(GraphgpoAdvantage(b, y, StepWeight, EpisodeWeight), GraphgpoAdvantage(b, x, StepWeight, EpisodeWeight))
  <2>1. StepWeight \in Nat \ {0} /\ EpisodeWeight \in Int
      BY WeightAssumption
  <2>2. x # y /\ b[x].ret \in Int /\ b[y].ret \in Int
      BY <1>7, <1>8, <1>11, <1>14
  <2> QED
      BY <1>7, <1>8, <1>11, <1>12, <1>14, <2>1, <2>2, GraphgpoPays
<1>16. /\ batch[i].adv = GraphgpoAdvantage(b, x, StepWeight, EpisodeWeight)
       /\ batch[j].adv = GraphgpoAdvantage(b, y, StepWeight, EpisodeWeight)
    BY <1>7, <1>8 DEF AdvantageOf
<1> QED
    BY <1>15, <1>16, Zenon

\* BetterPaysMore, if the penalty is below the difference of any two scores and
\* step advantages count: with ObliFlow the row of the trajectory that scored
\* higher never gets the lower advantage (_trajectory_advantages,
\* core_obliflow.py:153-185), and with GraphGPO the step that came nearer to the
\* goal gets the higher one (compute_graph_path_returns, core_graph.py:774-838),
\* through penalties, copies and reordering.
THEOREM BetterAlwaysPaysMore ==
    ASSUME PenaltyBelowScores, StepWeight > 0
    PROVE  Spec => []BetterPaysMore
<1>1. JobInv /\ TrainedInv /\ RecipeInv => BetterPaysMore
  <2> SUFFICES ASSUME JobInv, TrainedInv, RecipeInv, Updated
               PROVE  CASE config.estimator = "obliflow" -> ScorePays
                        [] config.estimator = "graphgpo" -> NearnessPays
                        [] OTHER -> TRUE
      BY DEF BetterPaysMore
  <2>1. CASE config.estimator = "obliflow"
    <3>1. ScorePays
        BY <2>1, ScoresPay
    <3> QED
        BY <2>1, <3>1
  <2>2. CASE config.estimator = "graphgpo"
    <3>1. NearnessPays
        BY <2>2, NearerPays
    <3> QED
        BY <2>2, <3>1
  <2>3. CASE config.estimator \notin {"obliflow", "graphgpo"}
      BY <2>3
  <2> QED
      BY <2>1, <2>2, <2>3
<1> QED
    BY <1>1, JobInit, TrainedInit, RecipeInit, JobStep, TrainedStep, RecipeStep, PTL DEF Spec

-----------------------------------------------------------------------------
(* Even parts *)

\* The lengths that p draws from lens, added up.
PartLoad(lens, p) == TotalLength([a \in 1..Len(p) |-> lens[p[a]]])

\* A part weighs what its rows weigh, in any order.
LEMMA PartWeighs ==
    ASSUME NEW n \in Nat, NEW lens \in [1..n -> Nat], NEW S \in SUBSET (1..n)
    PROVE  /\ Len(Ascending(S)) = Cardinality(S)
           /\ PartLoad(lens, Ascending(S)) = Weight(lens, S)
<1> DEFINE p == Ascending(S)
           c == Cardinality(S)
           f == [a \in 1..c |-> lens[p[a]]]
<1>1. /\ p \in [1..c -> S] /\ c \in Nat
      /\ \A x \in S : \E i \in 1..c : p[i] = x
      /\ \A i, j \in 1..c : p[i] = p[j] => i = j
    BY AscendingIs
<1> HIDE DEF p, c
<1>0. p \in [1..c -> S] /\ c \in Nat /\ \A x \in S : \E i \in 1..c : p[i] = x
    BY <1>1
<1>2. Len(p) = c
    BY <1>0
<1>3. {p[a] : a \in 1..c} = S
    BY <1>0
<1>4. \A a \in 1..c : f[a] \in Int /\ lens[p[a]] = f[a]
  <2>1. p \in [1..c -> S] /\ S \in SUBSET (1..n)
      BY <1>0
  <2>2. \A a \in 1..c : p[a] \in 1..n
      BY <2>1
  <2>3. \A x \in 1..n : lens[x] \in Int
      OBVIOUS
  <2> QED
      BY <2>2, <2>3
<1>5. PartLoad(lens, p) = SumFunctionOnSet(f, 1..c)
    BY <1>2 DEF PartLoad, TotalLength, Weight
<1> HIDE DEF f
<1> DEFINE C == 1..c
<1>6. IsFiniteSet(C)
    BY <1>1, Interval
<1>7. SumFunctionOnSet(lens, {p[a] : a \in C}) = SumFunctionOnSet(f, C)
  <2>1. \A a \in C : f[a] \in Int /\ lens[p[a]] = f[a]
      BY <1>4
  <2>2. \A i, j \in C : p[i] = p[j] => i = j
      BY <1>1
  <2> HIDE DEF C
  <2> QED
      BY <1>6, <2>1, <2>2, SumRenamed
<1> QED
    BY <1>2, <1>3, <1>5, <1>7 DEF Weight, p, c

\* get_seqlen_balanced_partitions with equal_size: parts of one size, with
\* loads that differ by no more than neighbours in length do.
LEMMA PartitionsEven ==
    ASSUME NEW n \in Nat \ {0}, NEW lens \in [1..n -> Nat], NEW k \in Nat \ {0}, n % k = 0,
           NEW G \in Nat, \A o \in 0..(n \div k - 1) : Gap(lens, k, o) <= G
    PROVE  \A i, j \in 1..k :
              /\ Len(Partitions(lens, k, TRUE)[i]) = Len(Partitions(lens, k, TRUE)[j])
              /\ PartLoad(lens, Partitions(lens, k, TRUE)[i])
                    - PartLoad(lens, Partitions(lens, k, TRUE)[j]) <= G
<1> DEFINE s == KarmarkarKarp(lens, k, TRUE)
           parts == Partitions(lens, k, TRUE)
<1>1. AllEven(FirstStates(lens, k, TRUE), lens, k, G)
    BY FirstStatesEven
<1>2. TRUE \in BOOLEAN
    OBVIOUS
<1>3. Parted(s, n, k) /\ Even(s, lens, k, G)
    BY <1>1, <1>2, KarmarkarKarpIs
<1>4. \A i \in 1..k : parts[i] = Ascending(s[i])
    BY DEF Partitions
<1> HIDE DEF s, parts
<1>5. ASSUME NEW i \in 1..k
      PROVE  Len(parts[i]) = Cardinality(s[i]) /\ PartLoad(lens, parts[i]) = Weight(lens, s[i])
  <2> DEFINE S == s[i]
  <2>1. S \in SUBSET (1..n) /\ n \in Nat
      BY <1>3 DEF Parted
  <2> HIDE DEF S
  <2>2. Len(Ascending(S)) = Cardinality(S) /\ PartLoad(lens, Ascending(S)) = Weight(lens, S)
      BY <2>1, PartWeighs
  <2> QED
      BY <1>4, <2>2 DEF S
<1>6. \A i, j \in 1..k : /\ Len(parts[i]) = Len(parts[j])
                         /\ PartLoad(lens, parts[i]) - PartLoad(lens, parts[j]) <= G
    BY <1>3, <1>5 DEF Even
<1> QED
    BY <1>6 DEF parts

\* all holds the k parts of s one after another, c positions each.
InRow(all, s, k, c) ==
    /\ Len(all) = k * c
    /\ \A r \in 1..k : \A j \in 1..c : all[(r - 1) * c + j] = s[r][j]

\* Parts of one size follow each other at equal distances.
LEMMA EqualParts ==
    ASSUME NEW k \in Nat \ {0}, NEW c \in Nat, NEW s, NEW start, NEW all, Starts(start, all, s, k),
           \A i \in 1..k : Len(s[i]) = c
    PROVE  InRow(all, s, k, c)
<1> DEFINE N == {i \in Nat : i + 1 \in 1..k => start[i + 1] = i * c}
<1>1. 0 \in N
    BY DEF Starts
<1>2. ASSUME NEW i \in N
      PROVE  i + 1 \in N
  <2>1. CASE i + 2 \in 1..k
    <3>1. i \in Nat /\ i + 1 \in 1..(k - 1) /\ i + 1 \in 1..k
        BY <2>1
    <3>2. start[i + 1] = i * c /\ start[i + 1 + 1] = start[i + 1] + Len(s[i + 1]) /\ Len(s[i + 1]) = c
        BY <3>1 DEF Starts
    <3>3. i * c + c = (i + 1) * c
        BY <3>1
    <3> QED
        BY <3>1, <3>2, <3>3
  <2> QED
      BY <2>1
<1>3. \A i \in Nat : i \in N
  <2> HIDE DEF N
  <2>1. N \in SUBSET Nat
      BY DEF N
  <2> QED
      BY <1>1, <1>2, <2>1, Induction
<1>4. \A r \in 1..k : start[r] = (r - 1) * c
  <2> TAKE r \in 1..k
  <2>1. r - 1 \in Nat /\ r - 1 + 1 = r
      OBVIOUS
  <2> QED
      BY <1>3, <2>1
<1>5. Len(all) = k * c
  <2>1. k \in 1..k /\ Len(all) = start[k] + Len(s[k])
      BY DEF Starts
  <2>2. (k - 1) * c + c = k * c
      OBVIOUS
  <2> QED
      BY <1>4, <2>1, <2>2
<1>6. \A r \in 1..k : \A j \in 1..c : all[(r - 1) * c + j] = s[r][j]
  <2> TAKE r \in 1..k
  <2> TAKE j \in 1..c
  <2>1. j \in 1..Len(s[r])
      OBVIOUS
  <2>2. all[start[r] + j] = s[r][j]
      BY <2>1 DEF Starts
  <2> QED
      BY <1>4, <2>2
<1> QED
    BY <1>5, <1>6 DEF InRow

\* g lists the items, each once, from short to long.
Lists(g, lens, n) ==
    /\ g \in [1..n -> 1..n]
    /\ \A i, j \in 1..n : g[i] = g[j] => i = j
    /\ \A x \in 1..n : \E i \in 1..n : g[i] = x
    /\ \A i, j \in 1..n : i < j => lens[g[i]] <= lens[g[j]]

\* Two ways to do so find the same lengths.
LEMMA NoShorter ==
    ASSUME NEW n \in Nat, NEW lens \in [1..n -> Nat], NEW g, Lists(g, lens, n), NEW h, Lists(h, lens, n),
           NEW m \in 1..n
    PROVE  lens[g[m]] >= lens[h[m]]
<1>1. /\ \A x \in 1..n : lens[x] \in Int
      /\ \A i \in 1..n : g[i] \in 1..n /\ h[i] \in 1..n
    BY DEF Lists
<1> SUFFICES ASSUME lens[g[m]] < lens[h[m]]
             PROVE  FALSE
  <2>1. lens[g[m]] \in Int /\ lens[h[m]] \in Int
      BY <1>1
  <2> QED
      BY <2>1
<1> DEFINE A == 1..m
           B == 1..(m - 1)
<1>2. \A j \in A : \E l \in B : g[j] = h[l]
  <2> TAKE j \in A
  <2>1. j \in 1..n /\ g[j] \in 1..n /\ lens[g[j]] <= lens[g[m]]
    <3>1. j \in 1..n /\ (j = m \/ j < m)
        OBVIOUS
    <3>2. g[j] \in 1..n /\ g[m] \in 1..n
        BY <1>1, <3>1
    <3>3. lens[g[j]] = lens[g[m]] \/ lens[g[j]] <= lens[g[m]]
        BY <3>1 DEF Lists
    <3> QED
        BY <1>1, <3>1, <3>2, <3>3
  <2>2. PICK l \in 1..n : h[l] = g[j]
      BY <2>1 DEF Lists
  <2>3. l < m
    <3> SUFFICES ASSUME l = m \/ m < l
                 PROVE  FALSE
        OBVIOUS
    <3>1. h[m] \in 1..n /\ h[l] \in 1..n /\ g[m] \in 1..n
        BY <1>1
    <3>2. lens[h[m]] = lens[h[l]] \/ lens[h[m]] <= lens[h[l]]
        BY DEF Lists
    <3>3. lens[h[m]] \in Int /\ lens[h[l]] \in Int /\ lens[g[m]] \in Int
        BY <1>1, <3>1
    <3>4. lens[h[l]] = lens[g[j]]
        BY <2>2
    <3>5. lens[h[l]] <= lens[g[m]]
        BY <2>1, <3>4
    <3> QED
        BY <3>2, <3>3, <3>5
  <2> QED
      BY <2>2, <2>3
<1>3. IsFiniteSet(A) /\ Cardinality(A) = m /\ IsFiniteSet(B) /\ Cardinality(B) = m - 1
  <2>1. m \in Nat /\ m - 1 \in Nat
      OBVIOUS
  <2> QED
      BY <2>1, Interval
<1>4. \A j, l \in A : g[j] = g[l] => j = l
  <2>1. \A j \in A : j \in 1..n
      OBVIOUS
  <2> HIDE DEF A
  <2> QED
      BY <2>1, Zenon DEF Lists
<1>5. {g[j] : j \in A} \subseteq {h[l] : l \in B}
    BY <1>2
<1> HIDE DEF A, B
<1>6. Cardinality({g[j] : j \in A}) = m
    BY <1>3, <1>4, OneToOne
<1>7. IsFiniteSet({h[l] : l \in B}) /\ Cardinality({h[l] : l \in B}) <= m - 1
    BY <1>3, FiniteImage
<1>8. Cardinality({g[j] : j \in A}) <= Cardinality({h[l] : l \in B})
    BY <1>5, <1>7, FS_Subset
<1>9. Cardinality({h[l] : l \in B}) \in Nat
    BY <1>7, FS_CardinalityType
<1> QED
    BY <1>6, <1>7, <1>8, <1>9

\* Rows in another order have the same lengths, from short to long.
LEMMA SameGaps ==
    ASSUME NEW n \in Nat, NEW lens \in [1..n -> Nat], NEW more \in [1..n -> Nat], NEW f, Permutes(f, n),
           \A i \in 1..n : more[i] = lens[f[i]]
    PROVE  \A i \in 1..n : more[ByLength(more)[i]] = lens[ByLength(lens)[i]]
<1> DEFINE h == ByLength(lens)
           row == ByLength(more)
           g == [i \in 1..n |-> f[row[i]]]
<1>1. Lists(h, lens, n)
    BY ByLengthIs, Zenon DEF Lists
<1>2. Lists(row, more, n)
    BY ByLengthIs, Zenon DEF Lists
<1> HIDE DEF h, row
<1>3. \A i \in 1..n : row[i] \in 1..n /\ g[i] = f[row[i]]
    BY <1>2 DEF Lists
<1>4. \A i \in 1..n : f[i] \in 1..n
  <2>1. f \in Seq(1..n) /\ Len(f) = n
      BY DEF Permutes
  <2> QED
      BY <2>1
<1>5. g \in [1..n -> 1..n]
    BY <1>3, <1>4
<1> HIDE DEF g
<1>6. \A i \in 1..n : more[row[i]] = lens[g[i]]
    BY <1>3
<1>7. \A i, j \in 1..n : g[i] = g[j] => i = j
  <2> TAKE i, j \in 1..n
  <2> HAVE g[i] = g[j]
  <2>1. f[row[i]] = f[row[j]] /\ row[i] \in 1..n /\ row[j] \in 1..n
      BY <1>3
  <2> DEFINE x == row[i]
             y == row[j]
  <2>2. x \in 1..n /\ y \in 1..n /\ f[x] = f[y]
      BY <2>1
  <2> HIDE DEF x, y
  <2>3. x = y
      BY <2>2 DEF Permutes
  <2> QED
      BY <1>2, <2>3, Zenon DEF Lists, x, y
<1>8. \A x \in 1..n : \E i \in 1..n : g[i] = x
  <2> TAKE x \in 1..n
  <2>1. PICK j \in 1..n : f[j] = x
      BY DEF Permutes
  <2>2. PICK i \in 1..n : row[i] = j
      BY <1>2 DEF Lists
  <2> QED
      BY <1>3, <2>1, <2>2
<1>9. ASSUME NEW i \in 1..n, NEW j \in 1..n, i < j
      PROVE  lens[g[i]] <= lens[g[j]]
  <2>1. more[row[i]] <= more[row[j]]
      BY <1>2, <1>9 DEF Lists
  <2>2. more[row[i]] = lens[g[i]] /\ more[row[j]] = lens[g[j]]
      BY <1>6, <1>9
  <2> QED
      BY <2>1, <2>2, Zenon
<1>10. Lists(g, lens, n)
    BY <1>5, <1>7, <1>8, <1>9 DEF Lists
<1>11. \A i \in 1..n : lens[g[i]] >= lens[h[i]] /\ lens[h[i]] >= lens[g[i]]
    BY <1>1, <1>10, NoShorter
<1>12. \A i \in 1..n : lens[h[i]] \in Int /\ lens[g[i]] \in Int
  <2>1. \A i \in 1..n : h[i] \in 1..n /\ g[i] \in 1..n
      BY <1>1, <1>5 DEF Lists
  <2> QED
      BY <2>1
<1>13. \A i \in 1..n : more[row[i]] = lens[h[i]]
  <2> TAKE i \in 1..n
  <2>1. lens[g[i]] >= lens[h[i]] /\ lens[h[i]] >= lens[g[i]] /\ lens[h[i]] \in Int /\ lens[g[i]] \in Int
      BY <1>11, <1>12
  <2>2. lens[g[i]] = lens[h[i]]
      BY <2>1
  <2> QED
      BY <1>6, <2>2
<1> QED
    BY <1>13 DEF h, row

\* What rank r is given of m rows each.
Load(lens, m, r) == TotalLength([j \in 1..m |-> lens[(r - 1) * m + j]])

\* The ranks' loads differ by no more than some neighbours in length do.
EvenLoads(lens) ==
    /\ Len(lens) % World = 0
    /\ \A r, u \in 1..World : \E o \in 0..(Len(lens) \div World - 1) :
           Load(lens, Len(lens) \div World, r) - Load(lens, Len(lens) \div World, u) <= Gap(lens, World, o)

\* The widest gap between neighbours in length.
LEMMA WidestGap ==
    ASSUME NEW n \in Nat \ {0}, NEW lens \in [1..n -> Nat], NEW k \in Nat \ {0}, n % k = 0
    PROVE  \E w \in 0..(n \div k - 1) :
              Gap(lens, k, w) \in Nat /\ \A o \in 0..(n \div k - 1) : Gap(lens, k, o) <= Gap(lens, k, w)
<1> DEFINE q == n \div k
           row == ByLength(lens)
           O == 0..(q - 1)
           g == [o \in O |-> Gap(lens, k, o)]
<1>1. q \in Nat \ {0} /\ q * k = n
  <2>1. n = k * q + (n % k) /\ q \in Nat
      BY Quotient, Parts
  <2>2. q * k = n
      BY <2>1
  <2> HIDE DEF q
  <2> QED
      BY <2>1, <2>2
<1> HIDE DEF q
<1>2. \A o \in O : o * k + 1 \in 1..n /\ o * k + k \in 1..n /\ (k = 1 \/ o * k + 1 < o * k + k)
  <2> TAKE o \in O
  <2>1. o \in Nat /\ o <= q - 1
      BY <1>1
  <2>2. o * k \in Nat /\ o * k + k = (o + 1) * k
      BY <2>1
  <2>3. (o + 1) * k <= q * k
      BY <1>1, <2>1
  <2> QED
      BY <1>1, <2>2, <2>3
<1>3. \A i \in 1..n : row[i] \in 1..n
    BY ByLengthIs
<1>4. \A i, j \in 1..n : i < j => lens[row[i]] <= lens[row[j]]
    BY ByLengthIs
<1> HIDE DEF row
<1>5. ASSUME NEW o \in O
      PROVE  Gap(lens, k, o) \in Nat
  <2> DEFINE a == o * k + 1
             b == o * k + k
  <2>1. a \in 1..n /\ b \in 1..n /\ (a = b \/ a < b)
      BY <1>2
  <2>2. Gap(lens, k, o) = lens[row[b]] - lens[row[a]]
      BY DEF Gap, row
  <2> HIDE DEF a, b
  <2>3. row[a] \in 1..n /\ row[b] \in 1..n
      BY <1>3, <2>1
  <2>4. lens[row[a]] \in Nat /\ lens[row[b]] \in Nat
      BY <2>3
  <2>5. a = b \/ lens[row[a]] <= lens[row[b]]
      BY <1>4, <2>1
  <2> QED
      BY <2>2, <2>4, <2>5
<1>6. \A o \in O : g[o] = Gap(lens, k, o) /\ g[o] \in Nat
    BY <1>5
<1> HIDE DEF g
<1>7. IsFiniteSet(O) /\ 0 \in O
  <2>1. q - 1 \in Nat
      BY <1>1
  <2> QED
      BY <2>1, FS_Interval
<1> HIDE DEF O
<1> DEFINE W == {g[o] : o \in O}
<1>8. IsFiniteSet(W) /\ W # {} /\ W \in SUBSET Int
    BY <1>6, <1>7, FiniteImage
<1> HIDE DEF W
<1>9. Max(W) \in W /\ \A x \in W : x <= Max(W)
    BY <1>8, MaxIs
<1>10. PICK w \in O : g[w] = Max(W)
    BY <1>9 DEF W
<1>11. \A o \in O : g[o] <= g[w]
    BY <1>9, <1>10 DEF W
<1>12. \E v \in O : Gap(lens, k, v) \in Nat /\ \A o \in O : Gap(lens, k, o) <= Gap(lens, k, v)
    BY <1>6, <1>11, Zenon
<1> QED
    BY <1>12 DEF O, q

\* _balance_batch leaves the ranks with even loads.
LEMMA BalanceEvens ==
    ASSUME NEW b, NEW n, Good(b, n), Len(b) % World = 0
    PROVE  EvenLoads(Lengths(Select(b, FlattenSeq(Partitions(Lengths(b), World, TRUE)))))
<1> DEFINE z == Len(b)
           lens == Lengths(b)
           parts == Partitions(lens, World, TRUE)
           flat == FlattenSeq(parts)
           out == Select(b, flat)
           more == Lengths(out)
           m == z \div World
<1>1. z \in Nat \ {0} /\ lens \in [1..z -> Nat] /\ World \in Nat \ {0} /\ z % World = 0
    BY LengthsOf, WorldAssumption
<1>2. Permutes(flat, z)
    BY BalanceIs
<1>3. Good(out, n) /\ Balances(out, b, flat)
    BY <1>2, PermutedIs
<1>4. \A i \in 1..z : lens[i] = b[i].len
  <2>1. DOMAIN b = 1..z
      BY SeqIsFunction DEF Good
  <2> QED
      BY <2>1 DEF Lengths
<1> HIDE DEF z, lens
<1>5. Positions(parts, z, World)
    BY <1>1, PartitionsAre
<1>6. PICK w \in 0..(z \div World - 1) :
         Gap(lens, World, w) \in Nat /\ \A o \in 0..(z \div World - 1) : Gap(lens, World, o) <= Gap(lens, World, w)
    BY <1>1, WidestGap
<1>7. \A i, j \in 1..World :
         /\ Len(parts[i]) = Len(parts[j])
         /\ PartLoad(lens, parts[i]) - PartLoad(lens, parts[j]) <= Gap(lens, World, w)
    BY <1>1, <1>6, PartitionsEven
<1> HIDE DEF parts
<1>8. PICK start : Starts(start, flat, parts, World)
  <2>1. \E start : Starts(start, flat, parts, World)
      BY <1>1, <1>5, FlattenIs DEF Positions
  <2> QED
      BY <2>1
<1> DEFINE c == Len(parts[1])
<1>9. c \in Nat /\ \A i \in 1..World : Len(parts[i]) = c
  <2>1. 1 \in 1..World
      BY <1>1
  <2>2. parts[1] \in Seq(1..z)
      BY <2>1, <1>5 DEF Positions
  <2> QED
      BY <1>7, <2>1, <2>2
<1> HIDE DEF c, flat
<1>10. /\ Len(flat) = World * c
       /\ \A r \in 1..World : \A j \in 1..c : flat[(r - 1) * c + j] = parts[r][j]
  <2>1. InRow(flat, parts, World, c)
      BY <1>1, <1>8, <1>9, EqualParts
  <2> QED
      BY <2>1 DEF InRow
<1>11. z = World * c /\ m = c
  <2>1. z = World * c
      BY <1>2, <1>10 DEF Permutes
  <2>2. (World * c) \div World = c
      BY <1>1, <1>9, Multiple
  <2> QED
      BY <2>1, <2>2
<1> HIDE DEF m
<1>12. /\ Len(out) = z /\ \A i \in 1..z : flat[i] \in 1..z /\ out[i] = b[flat[i]]
    BY <1>3 DEF Balances, z
<1>13. Len(more) = z /\ more \in [1..z -> Nat] /\ \A i \in 1..z : more[i] = out[i].len
  <2> HIDE DEF out
  <2>1. DOMAIN out = 1..Len(out)
      BY <1>3, SeqIsFunction DEF Good
  <2>2. more \in [1..Len(out) -> Nat] /\ Len(out) \in Nat
      BY <1>3, LengthsOf
  <2>3. \A i \in 1..z : more[i] = out[i].len
      BY <1>12, <2>1 DEF Lengths
  <2> HIDE DEF more
  <2>4. Len(out) = z
      BY <1>12
  <2>5. more \in [1..z -> Nat] /\ z \in Nat
      BY <2>2, <2>4
  <2>6. Len(more) = z
      BY <2>5
  <2> QED
      BY <2>3, <2>5, <2>6
<1> HIDE DEF out, more
<1>14. \A i \in 1..z : more[i] = lens[flat[i]]
  <2> TAKE i \in 1..z
  <2>1. flat[i] \in 1..z /\ out[i] = b[flat[i]] /\ more[i] = out[i].len
      BY <1>12, <1>13
  <2>2. lens[flat[i]] = b[flat[i]].len
      BY <1>4, <2>1
  <2> QED
      BY <2>1, <2>2
<1>15. \A i \in 1..z : more[ByLength(more)[i]] = lens[ByLength(lens)[i]]
    BY <1>1, <1>2, <1>13, <1>14, SameGaps
<1>16. Gap(more, World, w) = Gap(lens, World, w)
  <2>1. w * World + World \in 1..z /\ w * World + 1 \in 1..z
    <3>1. w \in Nat /\ w + 1 <= c
        BY <1>6, <1>9, <1>11 DEF m
    <3>2. w * World \in Nat /\ w * World + World = (w + 1) * World
        BY <1>1, <3>1
    <3>3. (w + 1) * World <= c * World /\ c * World = World * c
        BY <1>1, <1>9, <3>1
    <3> QED
        BY <1>1, <1>11, <3>2, <3>3
  <2> QED
      BY <1>15, <2>1 DEF Gap
<1>17. ASSUME NEW r \in 1..World
       PROVE  Load(more, c, r) = PartLoad(lens, parts[r])
  <2>1. \A j \in 1..c : more[(r - 1) * c + j] = lens[parts[r][j]]
    <3> TAKE j \in 1..c
    <3>1. (r - 1) * c + j \in 1..z
      <4>1. c \in Nat \ {0}
          BY <1>9
      <4>2. (r - 1) * c + j \in 1..(c * World)
          BY <1>1, <4>1, InShare
      <4>3. c * World = World * c
          BY <1>1, <1>9
      <4> QED
          BY <1>11, <4>2, <4>3
    <3> QED
        BY <1>10, <1>14, <3>1
  <2>2. [j \in 1..c |-> more[(r - 1) * c + j]] = [a \in 1..c |-> lens[parts[r][a]]]
      BY <2>1
  <2> QED
      BY <1>9, <2>2, Zenon DEF Load, PartLoad
<1>18. \A r, u \in 1..World : Load(more, m, r) - Load(more, m, u) <= Gap(more, World, w)
    BY <1>7, <1>11, <1>16, <1>17
<1>19. Len(more) % World = 0 /\ Len(more) \div World = m
    BY <1>1, <1>13 DEF m
<1>20. w \in 0..(m - 1)
    BY <1>6 DEF m
<1>21. EvenLoads(more)
    BY <1>18, <1>19, <1>20 DEF EvenLoads
<1> QED
    BY <1>21 DEF more, out, flat, parts, lens

-----------------------------------------------------------------------------
(* The loads of the ranks *)

\* The stages that are over once the batch is balanced.
BalancedAt(c) == IF c.trainer = "verl" THEN 3 ELSE 6

LEMMA BalanceStage ==
    ASSUME NEW c, NEW d \in 0..7
    PROVE  /\ Stages(c)[d + 1] = "balance" <=> d + 1 = BalancedAt(c)
           /\ Stages(c)[d + 1] \in {"log_prob", "update"} => d >= BalancedAt(c)
           /\ Adjusted(c) < BalancedAt(c) /\ BalancedAt(c) \in 1..7 /\ Adjusted(c) \in 1..7
<1>1. CASE c.trainer = "verl"
  <2>1. Stages(c) = VerlStages /\ Adjusted(c) = 2 /\ BalancedAt(c) = 3
      BY <1>1 DEF Stages, Adjusted, BalancedAt
  <2> QED
      BY <2>1 DEF VerlStages
<1>2. CASE c.trainer # "verl"
  <2>1. Stages(c) = RecipeStages /\ Adjusted(c) = 5 /\ BalancedAt(c) = 6
      BY <1>2 DEF Stages, Adjusted, BalancedAt
  <2> QED
      BY <2>1 DEF RecipeStages
<1> QED
    BY <1>1, <1>2

\* Once balanced, the rows stay where they are.
LoadsInv ==
    config.balance /\ done >= BalancedAt(config) => EvenLoads(Lengths(Kept))

\* Other columns change, and every row stays as long.
SameLengths(out, b) ==
    /\ DOMAIN out = DOMAIN b
    /\ \A i \in DOMAIN b : out[i].len = b[i].len

LEMMA SameLoads ==
    ASSUME NEW b, NEW out, SameLengths(out, b)
    PROVE  Lengths(out) = Lengths(b)
    BY DEF SameLengths, Lengths

LEMMA SameLength ==
    ASSUME NEW row, DOMAIN row = Columns, NEW x, NEW y
    PROVE  /\ [row EXCEPT !.ret = x].len = row.len /\ [row EXCEPT !.adv = x].len = row.len
           /\ [row EXCEPT !.value = x].len = row.len /\ [row EXCEPT !.logp = x].len = row.len
           /\ [row EXCEPT !.score = x, !.ret = y].len = row.len
<1>1. {"len", "value", "logp", "ret", "adv", "score"} \subseteq DOMAIN row
    BY DEF Columns
<1> QED
    BY <1>1

\* What the driver's stages and the workers' columns do to the rows.
LEMMA StagesSameLengths ==
    ASSUME NEW b, \A i \in DOMAIN b : DOMAIN b[i] = Columns, NEW c, NEW out
    PROVE  /\ SameLengths(WithReturns(c, b), b) /\ SameLengths(WithAdvantages(c, b), b)
           /\ SameLengths(Penalised(c, b), b) /\ SameLengths(Column(b, out), b)
<1>1. SameLengths(WithReturns(c, b), b)
  <2> DEFINE returns == IF c.estimator = "graphgpo" THEN PathReturns(b) ELSE StepReturns(b)
  <2>1. WithReturns(c, b) = [i \in DOMAIN b |-> [b[i] EXCEPT !.ret = returns[i]]]
      BY DEF WithReturns
  <2> HIDE DEF returns
  <2>2. ASSUME NEW i \in DOMAIN b
        PROVE  WithReturns(c, b)[i].len = b[i].len
    <3>1. WithReturns(c, b)[i] = [b[i] EXCEPT !.ret = returns[i]]
        BY <2>1
    <3> QED
        BY <3>1, SameLength
  <2> QED
      BY <2>1, <2>2 DEF SameLengths
<1>2. SameLengths(WithAdvantages(c, b), b)
    BY SameLength DEF SameLengths, WithAdvantages
<1>3. SameLengths(Penalised(c, b), b)
  <2> DEFINE ret(i) == IF c.estimator \in StepEstimators THEN b[i].ret - Penalty ELSE b[i].ret
  <2>1. Penalised(c, b) =
            [i \in DOMAIN b |-> IF b[i].valid THEN b[i]
                                ELSE [b[i] EXCEPT !.score = b[i].score - Penalty, !.ret = ret(i)]]
      BY DEF Penalised
  <2> HIDE DEF ret
  <2>2. ASSUME NEW i \in DOMAIN b
        PROVE  Penalised(c, b)[i].len = b[i].len
    <3>1. Penalised(c, b)[i] = IF b[i].valid THEN b[i]
                               ELSE [b[i] EXCEPT !.score = b[i].score - Penalty, !.ret = ret(i)]
        BY <2>1
    <3>2. [b[i] EXCEPT !.score = b[i].score - Penalty, !.ret = ret(i)].len = b[i].len
        BY SameLength
    <3> QED
        BY <3>1, <3>2
  <2> QED
      BY <2>1, <2>2 DEF SameLengths
<1>4. SameLengths(Column(b, out), b)
  <2>1. CASE method = "values"
      BY <2>1, SameLength DEF SameLengths, Column
  <2>2. CASE method # "values"
      BY <2>2, SameLength DEF SameLengths, Column
  <2> QED
      BY <2>1, <2>2
<1> QED
    BY <1>1, <1>2, <1>3, <1>4

\* A stage that leaves every row as long.
LEMMA LoadsGoOn ==
    ASSUME LoadsInv, done \in 0..7, NEW stage, stage = Stages(config)[done + 1],
           stage = "balance" => ~config.balance,
           done' = done + 1, UNCHANGED config, Lengths(Kept)' = Lengths(Kept)
    PROVE  LoadsInv'
<1> SUFFICES ASSUME config.balance, done' >= BalancedAt(config)
             PROVE  EvenLoads(Lengths(Kept))
    BY DEF LoadsInv, EvenLoads, Load, Gap, BalancedAt
<1>1. done + 1 # BalancedAt(config) /\ BalancedAt(config) \in 1..7
    BY BalanceStage
<1>2. done >= BalancedAt(config)
    BY <1>1
<1> QED
    BY <1>2 DEF LoadsInv

LEMMA LoadsStay ==
    ASSUME LoadsInv, UNCHANGED <<config, done>>, Kept' = Kept
    PROVE  LoadsInv'
    BY DEF LoadsInv, BalancedAt

LEMMA LoadsDriverStep ==
    ASSUME JobInv, LoadsInv, Skip \/ Returns \/ InvalidPenalty \/ ComputeAdvantage \/ Adjust \/ BalanceBatch
    PROVE  LoadsInv'
<1> DEFINE n == Len(rolled)
<1> DEFINE Out == {WithReturns(config, batch), Penalised(config, batch), WithAdvantages(config, batch)}
           Takes(stage) == /\ Reached(stage) /\ done' = done + 1 /\ UNCHANGED <<config, rolled, call>>
                           /\ \/ stage = "adjust"
                              \/ stage = "balance" /\ BalanceBatch
                              \/ stage \notin {"adjust", "balance"} /\ batch' \in Out
                              \/ batch' = batch /\ ~Needed(config, stage)
<1>0. \E stage : Takes(stage)
  <2>1. CASE Skip
    <3>1. PICK stage \in {"returns", "values", "penalty", "balance"} :
              Reached(stage) /\ ~Needed(config, stage)
        BY <2>1 DEF Skip
    <3>2. Takes(stage)
        BY <2>1, <3>1 DEF Skip, Continue
    <3> QED
        BY <3>2
  <2>2. CASE Returns
    <3>1. Takes("returns")
        BY <2>2 DEF Returns, At, Continue
    <3> QED
        BY <3>1
  <2>3. CASE InvalidPenalty
    <3>1. Takes("penalty")
        BY <2>3 DEF InvalidPenalty, At, Continue
    <3> QED
        BY <3>1
  <2>4. CASE ComputeAdvantage
    <3>1. Takes("advantage")
        BY <2>4 DEF ComputeAdvantage, At, Continue
    <3> QED
        BY <3>1
  <2>5. CASE Adjust
    <3>1. Takes("adjust")
        BY <2>5 DEF Adjust, At, Continue
    <3> QED
        BY <3>1
  <2>6. CASE BalanceBatch
    <3>1. Takes("balance")
        BY <2>6 DEF BalanceBatch, At, Continue
    <3> QED
        BY <3>1
  <2> QED
      BY <2>1, <2>2, <2>3, <2>4, <2>5, <2>6
<1>1. PICK stage : Takes(stage)
    BY <1>0
<1>2. /\ config \in Configs /\ done \in 0..7 /\ Kept = batch /\ Good(batch, n) /\ KeptInv
      /\ method = "none" /\ stage = Stages(config)[done + 1]
    BY <1>1, BetweenCalls
<1>3. Kept' = batch'
    BY <1>1, <1>2 DEF Kept, call
<1>4. CASE stage = "adjust"
  <2>1. done + 1 = Adjusted(config)
    <3>1. done \in 0..7 /\ Stages(config)[done + 1] = "adjust"
        BY <1>2, <1>4
    <3>2. Stages(config)[done + 1] = "adjust" <=> done + 1 = Adjusted(config)
        BY <3>1, StagesAre
    <3> QED
        BY <3>1, <3>2
  <2>2. ~(done' >= BalancedAt(config)) /\ BalancedAt(config)' = BalancedAt(config)
      BY <1>1, <1>2, <2>1, BalanceStage DEF BalancedAt
  <2> QED
      BY <2>2 DEF LoadsInv
<1>5. CASE stage = "balance" /\ BalanceBatch
  <2>1. batch' = Select(batch, FlattenSeq(Partitions(Lengths(batch), World, TRUE)))
      BY <1>5 DEF BalanceBatch
  <2>2. done >= Adjusted(config)
    <3>1. "balance" = "balance" => done >= Adjusted(config)
        BY <1>2, <1>5, StagesAre
    <3> QED
        BY <3>1
  <2>3. Len(batch) % Divisor(config) = 0
      BY <1>2, <2>2 DEF KeptInv
  <2> HIDE DEF n
  <2>4. Len(batch) % World = 0
      BY <1>2, <2>3, WorldDivides
  <2>5. EvenLoads(Lengths(batch'))
      BY <1>2, <2>1, <2>4, BalanceEvens
  <2>6. EvenLoads(Lengths(batch))' <=> EvenLoads(Lengths(batch'))
      BY DEF EvenLoads, Lengths, Load, Gap
  <2> QED
      BY <1>3, <2>5, <2>6 DEF LoadsInv
<1>6. CASE stage \notin {"adjust", "balance"} \/ (batch' = batch /\ ~Needed(config, stage))
  <2>1. stage = "balance" => ~config.balance
      BY <1>6 DEF Needed
  <2>2. Lengths(batch') = Lengths(batch)
    <3>1. CASE batch' = batch
        BY <3>1
    <3>2. CASE batch' \in {WithReturns(config, batch), Penalised(config, batch), WithAdvantages(config, batch)}
      <4>1. \A i \in DOMAIN batch : DOMAIN batch[i] = Columns
          BY <1>2, SeqIsFunction DEF Good, Fine
      <4>2. SameLengths(batch', batch)
          BY <3>2, <4>1, StagesSameLengths
      <4> QED
          BY <4>2, SameLoads
    <3> QED
        BY <1>1, <1>6, <3>1, <3>2
  <2>3. Lengths(Kept)' = Lengths(Kept)
      BY <1>2, <1>3, <2>2 DEF Lengths
  <2> QED
      BY <1>1, <1>2, <2>1, <2>3, LoadsGoOn
<1> QED
    BY <1>1, <1>4, <1>5, <1>6

LEMMA LoadsReturn ==
    ASSUME JobInv, LoadsInv, Return
    PROVE  LoadsInv'
<1>1. /\ batch = asked /\ output' = Ids(batch) /\ method' = "none" /\ done' = done + 1 /\ done < 8
      /\ UNCHANGED config /\ method = Stages(config)[done + 1]
    BY ReturnIs
<1>2. Good(batch, Len(rolled)) /\ done \in 0..7 /\ method \in Called /\ Kept = batch /\ Kept' = batch'
    BY <1>1 DEF JobInv, Return, InCall, Kept
<1>3. Lengths(batch') = Lengths(batch)
  <2>1. CASE method = "update"
      BY <2>1 DEF Return
  <2>2. CASE method # "update"
    <3>1. batch' = Column(batch, Ids(batch))
        BY <1>1, <2>2 DEF Return
    <3>2. \A i \in DOMAIN batch : DOMAIN batch[i] = Columns
        BY <1>2, SeqIsFunction DEF Good, Fine
    <3>3. SameLengths(batch', batch)
        BY <3>1, <3>2, StagesSameLengths
    <3> QED
        BY <3>3, SameLoads
  <2> QED
      BY <2>1, <2>2
<1>4. Lengths(Kept)' = Lengths(Kept)
    BY <1>2, <1>3 DEF Lengths
<1>5. method # "balance"
    BY <1>2 DEF Called
<1> QED
    BY <1>1, <1>2, <1>4, <1>5, LoadsGoOn

LEMMA LoadsStep ==
    ASSUME JobInv, LoadsInv, [Next]_vars
    PROVE  LoadsInv'
<1>1. CASE Skip \/ Returns \/ InvalidPenalty \/ ComputeAdvantage \/ Adjust \/ BalanceBatch
    BY <1>1, LoadsDriverStep
<1>2. CASE AdjustFails \/ NoSize \/ (\E stage \in Called : CallFails(stage)) \/ (\E r \in 1..World : RankFails(r))
  <2>1. UNCHANGED <<config, done, batch, method, asked>>
      BY <1>2 DEF AdjustFails, NoSize, CallFails, RankFails, Raise, call
  <2> QED
      BY <2>1, LoadsStay DEF Kept
<1>3. ASSUME NEW stage \in Called, Call(stage)
      PROVE  LoadsInv'
  <2>1. UNCHANGED <<config, done>> /\ method = "none" /\ method' = stage /\ asked' = batch
      BY <1>3 DEF Call, At, ranks!Begin
  <2>2. Kept' = Kept
      BY <2>1 DEF Kept, Called
  <2> QED
      BY <2>1, <2>2, LoadsStay
<1>4. CASE Return
    BY <1>4, LoadsReturn
<1>5. CASE UnionFails
  <2>1. method # "none" /\ ranks!End /\ UNCHANGED <<config, done, batch>>
      BY <1>5 DEF UnionFails
  <2>2. method' = "none" /\ Kept' = batch /\ Kept = asked
      BY <2>1 DEF ranks!End, Kept
  <2>3. CASE done >= BalancedAt(config)
    <3>1. done \in 0..7
        BY <2>1 DEF JobInv, InCall
    <3>2. done >= Adjusted(config)
        BY <2>3, <3>1, BalanceStage
    <3>3. batch = asked
        BY <2>1, <3>2, EndOfCall
    <3> QED
        BY <2>1, <2>2, <3>3, LoadsStay
  <2>4. CASE ~(done >= BalancedAt(config))
      BY <2>1, <2>4 DEF LoadsInv, BalancedAt
  <2> QED
      BY <2>3, <2>4
<1>6. ASSUME NEW r \in 1..World, RankComputes(r) \/ RankUpdates(r)
      PROVE  LoadsInv'
  <2>1. UNCHANGED <<config, done, batch, method, asked>>
      BY <1>6 DEF RankComputes, RankUpdates, ranks!Compute
  <2> QED
      BY <2>1, LoadsStay DEF Kept
<1>7. CASE UNCHANGED vars
  <2>1. UNCHANGED <<config, done, batch, method, asked>>
      BY <1>7 DEF vars, call
  <2> QED
      BY <2>1, LoadsStay DEF Kept
<1> QED
    BY <1>1, <1>2, <1>3, <1>4, <1>5, <1>6, <1>7 DEF Next, Driver, ranks!Workers, Called

LEMMA LoadsInit ==
    ASSUME Init
    PROVE  LoadsInv
<1>1. done = 0
    BY DEF Init
<1>2. BalancedAt(config) \in {3, 6}
    BY DEF BalancedAt
<1> QED
    BY <1>1, <1>2 DEF LoadsInv

\* During a call after the balance the shares are as even as the batch.
LEMMA LoadsBalanced ==
    ASSUME JobInv, LoadsInv
    PROVE  Balanced
<1> SUFFICES ASSUME config.balance, method \in {"log_prob", "update"}
             PROVE  LET lens == Lengths(batch)
                        row == ByLength(lens)
                        gap(o) == lens[row[o * World + World]] - lens[row[o * World + 1]]
                        load == {TotalLength(Lengths(shares[r])) : r \in 1..World}
                    IN  Max(load) - Min(load) <= Max({gap(o) : o \in 0..(Len(lens) \div World - 1)})
    BY Zenon DEF Balanced
<1> DEFINE n == Len(rolled)
           lens == Lengths(batch)
           z == Len(batch)
           m == Len(lens) \div World
           total == [r \in 1..World |-> TotalLength(Lengths(shares[r]))]
           load == {total[r] : r \in 1..World}
           O == 0..(m - 1)
           gap == [o \in O |-> Gap(lens, World, o)]
           gaps == {gap[o] : o \in O}
<1>1. done \in 0..7 /\ method = Stages(config)[done + 1] /\ Good(batch, n) /\ method # "none" /\ InCall
    BY DEF JobInv, InCall
<1>2. Kept = asked /\ done >= BalancedAt(config)
    BY <1>1, BalanceStage DEF Kept
<1>3. EvenLoads(Lengths(asked))
    BY <1>2 DEF LoadsInv
<1>4. batch = asked
  <2>1. DOMAIN asked = 1..Len(asked)
      BY <1>1, AskedIs, SeqIsFunction
  <2>2. Len(Lengths(asked)) = Len(asked)
    <3>1. Len(asked) \in Nat
        BY <1>1, AskedIs
    <3> QED
        BY <2>1, <3>1 DEF Lengths
  <2>3. Len(asked) % World = 0
      BY <1>3, <2>2 DEF EvenLoads
  <2>4. padding = 0
      BY <1>1, <2>3 DEF InCall
  <2> QED
      BY <1>1, <2>4, AskedIs
<1>5. PICK k \in Nat \ {0} : Share(k)
    BY <1>1 DEF JobInv
<1>6. z = k * World /\ World \in Nat \ {0} /\ DOMAIN batch = 1..z
    BY <1>1, <1>5, WorldAssumption, SeqIsFunction DEF Share, Good
<1>7. lens \in [1..z -> Nat] /\ z \in Nat \ {0} /\ \A i \in 1..z : lens[i] = batch[i].len
  <2>1. \A i \in 1..z : lens[i] = batch[i].len
      BY <1>6 DEF Lengths
  <2> HIDE DEF lens, z, n
  <2> QED
      BY <1>1, <2>1, LengthsOf DEF lens, z
<1> HIDE DEF lens, z
<1>8. Len(lens) = z /\ m = k
  <2>1. Len(lens) = z
      BY <1>7
  <2>2. k * World = World * k /\ (World * k) \div World = k
      BY <1>6, Multiple
  <2> QED
      BY <1>6, <2>1, <2>2
<1>9. EvenLoads(lens)
    BY <1>3, <1>4 DEF lens
<1> HIDE DEF m
<1>10. \A r, u \in 1..World : \E o \in O : Load(lens, m, r) - Load(lens, m, u) <= Gap(lens, World, o)
    BY <1>9 DEF EvenLoads, m
<1>11. ASSUME NEW r \in 1..World
       PROVE  total[r] = Load(lens, m, r)
  <2> HIDE DEF n
  <2>1. /\ DOMAIN shares[r] = 1..k
        /\ \A j \in 1..k : /\ (r - 1) * k + j \in 1..z
                           /\ shares[r][j] = batch[(r - 1) * k + j]
      BY <1>1, <1>5, ShareIs DEF z
  <2>2. Lengths(shares[r]) = [j \in 1..k |-> lens[(r - 1) * k + j]]
      BY <1>7, <2>1 DEF Lengths
  <2> QED
      BY <1>8, <2>2, Zenon DEF Load
<1>12. \A r \in 1..World : total[r] \in Int
  <2> TAKE r \in 1..World
  <2> HIDE DEF n
  <2>1. Good(shares[r], n)
      BY <1>1, <1>5, ShareIs
  <2> DEFINE some == Lengths(shares[r])
             l == Len(shares[r])
  <2>2. l \in Nat \ {0} /\ some \in [1..l -> Nat]
      BY <2>1, LengthsOf
  <2> HIDE DEF some, l
  <2>3. Weight(some, 1..l) \in Int /\ DOMAIN some = 1..l
      BY <2>2, WeightIs
  <2> QED
      BY <2>3 DEF TotalLength, some
<1> HIDE DEF total
<1>13. \A r, u \in 1..World : \E o \in O : total[r] - total[u] <= Gap(lens, World, o)
    BY <1>10, <1>11
<1>14. IsFiniteSet(load) /\ load # {} /\ load \in SUBSET Int
  <2>1. IsFiniteSet(1..World) /\ 1 \in 1..World
      BY <1>6, Interval
  <2> QED
      BY <1>12, <2>1, FiniteImage
<1>15. Max(load) \in load /\ Min(load) \in load
    BY <1>14, MaxIs, MinIs
<1>16. \A o \in O : Gap(lens, World, o) \in Int
  <2> TAKE o \in O
  <2>1. o * World + World \in 1..z /\ o * World + 1 \in 1..z
    <3>1. o \in Nat /\ o + 1 <= k
        BY <1>8
    <3>2. o * World \in Nat /\ o * World + World = (o + 1) * World
        BY <1>6, <3>1
    <3>3. (o + 1) * World <= k * World
        BY <1>6, <3>1
    <3> QED
        BY <1>6, <3>2, <3>3
  <2>2. \A i \in 1..z : ByLength(lens)[i] \in 1..z
      BY <1>7, ByLengthIs
  <2> QED
      BY <1>7, <2>1, <2>2 DEF Gap
<1>17. \A o \in O : gap[o] = Gap(lens, World, o) /\ gap[o] \in Int
    BY <1>16
<1>18. IsFiniteSet(O) /\ 0 \in O
  <2>1. m - 1 \in Nat
      BY <1>8
  <2> QED
      BY <2>1, FS_Interval
<1> HIDE DEF gap, O
<1>19. IsFiniteSet(gaps) /\ gaps # {} /\ gaps \in SUBSET Int
    BY <1>17, <1>18, FiniteImage
<1>20. \A g \in gaps : g <= Max(gaps) /\ Max(gaps) \in Int
    BY <1>19, MaxIs
<1>21. PICK r \in 1..World : Max(load) = total[r]
    BY <1>15
<1>22. PICK u \in 1..World : Min(load) = total[u]
    BY <1>15
<1>23. PICK o \in O : total[r] - total[u] <= Gap(lens, World, o)
    BY <1>13
<1>24. Max(load) - Min(load) <= Max(gaps)
  <2>1. gap[o] <= Max(gaps) /\ Max(gaps) \in Int /\ gap[o] \in Int /\ gap[o] = Gap(lens, World, o)
      BY <1>17, <1>20
  <2>2. total[r] \in Int /\ total[u] \in Int
      BY <1>12
  <2> HIDE DEF load, gaps
  <2> QED
      BY <1>21, <1>22, <1>23, <2>1, <2>2
<1>25. load = {TotalLength(Lengths(shares[x])) : x \in 1..World}
    BY Zenon DEF total
<1>26. gaps = {lens[ByLength(lens)[x * World + World]] - lens[ByLength(lens)[x * World + 1]] :
                  x \in 0..(Len(lens) \div World - 1)}
    BY Zenon DEF gap, Gap, O, m
<1> HIDE DEF load, gaps
<1> QED
    BY <1>24, <1>25, <1>26, Zenon DEF lens

\* _balance_batch and the shares of the calls after it: the ranks' loads differ
\* by no more than the widest gap within World rows that are neighbours in
\* length, whatever the lengths and however many ranks.
THEOREM LoadsAlwaysBalanced == Spec => []Balanced
<1>1. Init => JobInv /\ LoadsInv
    BY JobInit, LoadsInit
<1>2. JobInv /\ LoadsInv /\ [Next]_vars => JobInv' /\ LoadsInv'
    BY JobStep, LoadsStep
<1> QED
    BY <1>1, <1>2, LoadsBalanced, PTL DEF Spec

-----------------------------------------------------------------------------
(* A job's calls are calls of Dispatch *)

\* The driver's stages and its failures leave the call alone.
LEMMA DriverStage ==
    ASSUME Skip \/ Returns \/ InvalidPenalty \/ ComputeAdvantage \/ Adjust \/ BalanceBatch
    PROVE  ranks!DriverActs
<1>1. method = "none"
    BY DEF Skip, Returns, InvalidPenalty, ComputeAdvantage, Adjust, BalanceBatch, At, Reached
<1>2. UNCHANGED call
    BY DEF Skip, Returns, InvalidPenalty, ComputeAdvantage, Adjust, BalanceBatch, Continue
<1> QED
    BY <1>1, <1>2 DEF ranks!DriverActs, ranks!call, call

LEMMA CallStep ==
    ASSUME JobInv, [Next]_vars
    PROVE  [ranks!Next]_<<batch, call>>
<1>1. CASE Skip \/ Returns \/ InvalidPenalty \/ ComputeAdvantage \/ Adjust \/ BalanceBatch
    BY <1>1, DriverStage DEF ranks!Next
<1>2. CASE AdjustFails \/ NoSize \/ \E stage \in Called : CallFails(stage)
    BY <1>2 DEF AdjustFails, NoSize, CallFails, Raise
<1>3. ASSUME NEW stage \in Called, Call(stage)
      PROVE  ranks!Next
  <2>1. config.padded \in BOOLEAN
      BY ConfigIs DEF JobInv
  <2>2. ranks!Begin(stage, config.padded)
      BY <1>3 DEF Call
  <2> QED
      BY <2>1, <2>2, Zenon DEF ranks!Next, Called
<1>4. CASE Return \/ UnionFails
  <2>1. ranks!End
      BY <1>4 DEF Return, UnionFails
  <2> QED
      BY <2>1 DEF ranks!Next
<1>5. ASSUME NEW r \in 1..World, RankComputes(r) \/ RankUpdates(r)
      PROVE  ranks!Next
  <2>1. calls!Compute(r, calls!RowWise(shares[r]))
      BY <1>5, RankKeeps
  <2>2. ranks!Compute(r, ranks!RowWise(shares[r]))
      BY <2>1 DEF calls!Compute, ranks!Compute, calls!RowWise, ranks!RowWise
  <2> QED
      BY <2>2 DEF ranks!Next, ranks!Workers
<1>6. ASSUME NEW r \in 1..World, RankFails(r)
      PROVE  UNCHANGED <<batch, call>>
    BY <1>6 DEF RankFails, Raise
<1>7. CASE UNCHANGED vars
    BY <1>7 DEF vars
<1> QED
    BY <1>1, <1>2, <1>3, <1>4, <1>5, <1>6, <1>7 DEF Next, Driver, ranks!Workers, Called

\* Every step of a job, with its micro-batches, its two stage orders and its
\* failures, is a step of Dispatch or leaves the call alone: what Dispatch
\* promises of one call (single_controller and protocol.py) holds of all calls
\* that fit makes.
THEOREM JobImplementsDispatch == Spec => ranks!Spec
<1>1. Init => ranks!Init
    BY DEF Init, ranks!Init
<1>2. JobInv /\ [Next]_vars => [ranks!Next]_<<batch, ranks!call>>
  <2>1. ranks!call = call /\ ranks!call' = call'
      BY DEF ranks!call, call
  <2> QED
      BY <2>1, CallStep
<1> QED
    BY <1>1, <1>2, JobInit, JobStep, PTL DEF Spec, ranks!Spec
=============================================================================
