----------------------------- MODULE DataLemmas -----------------------------
(***************************************************************************)
(* Induction without operator parameters, and what follows from it about   *)
(* the sums of Functions.tla, about division, and about the flattening of  *)
(* SequencesExt.tla.  The induction theorems of the library                *)
(* take the property to be proved as an operator; here it is the set of    *)
(* those that have it, and the statements are first-order.                 *)
(***************************************************************************)
EXTENDS Integers, FiniteSets, FiniteSetsExt, Functions, SequencesExt,
        FiniteSetTheorems, SequenceTheorems, WellFoundedInduction, NaturalsInduction, TLAPS

-----------------------------------------------------------------------------
(* Induction *)

\* A set of natural numbers has a least element.
LEMMA Least ==
    ASSUME NEW S \in SUBSET Nat, S # {}
    PROVE  \E x \in S : \A y \in S : x <= y
<1> DEFINE R == {ss \in Nat \X Nat : ss[1] < ss[2]}
<1>1. IsWellFoundedOn(R, Nat)
    BY NatLessThanWellFounded DEF OpToRel
<1> HIDE DEF R
<1>2. PICK x \in S : \A y \in S : ~(<<y, x>> \in R)
    BY <1>1, WFMin
<1>3. ASSUME NEW y \in S, y < x
      PROVE  FALSE
  <2>1. <<y, x>> \in Nat \X Nat /\ <<y, x>>[1] < <<y, x>>[2]
      BY <1>3
  <2> QED
      BY <1>2, <2>1 DEF R
<1> QED
    BY <1>3

\* A set that holds 0, and with every number the next one, holds them all.
LEMMA Induction ==
    ASSUME NEW S \in SUBSET Nat, 0 \in S, \A n \in S : n + 1 \in S
    PROVE  \A n \in Nat : n \in S
<1> SUFFICES ASSUME Nat \ S # {}
             PROVE  FALSE
    OBVIOUS
<1>1. PICK n \in Nat \ S : \A m \in Nat \ S : n <= m
    BY Least
<1>2. n - 1 \in Nat
    BY <1>1
<1>3. n - 1 \in S
    BY <1>1, <1>2
<1>4. (n - 1) + 1 = n
    BY <1>1
<1> QED
    BY <1>1, <1>3, <1>4

\* One element less.
LEMMA OneLess ==
    ASSUME NEW S, IsFiniteSet(S), NEW x \in S
    PROVE  /\ IsFiniteSet(S \ {x}) /\ Cardinality(S) \in Nat \ {0}
           /\ Cardinality(S \ {x}) = Cardinality(S) - 1
  BY FS_RemoveElement, FS_CardinalityType, FS_EmptySet

\* Properties of finite sets: of the empty one, and kept when an element is
\* added.
LEMMA SetInduction ==
    ASSUME NEW S, IsFiniteSet(S), NEW G \in SUBSET SUBSET S, {} \in G,
           \A T \in G : \A x \in S \ T : T \cup {x} \in G
    PROVE  S \in G
<1> DEFINE N == {n \in Nat : \A T \in SUBSET S : Cardinality(T) = n => T \in G}
<1>1. \A T \in SUBSET S : IsFiniteSet(T)
    BY FS_Subset
<1>2. 0 \in N
    BY <1>1, FS_EmptySet
<1>3. ASSUME NEW n \in N
      PROVE  n + 1 \in N
  <2> SUFFICES ASSUME NEW T \in SUBSET S, Cardinality(T) = n + 1
               PROVE  T \in G
      OBVIOUS
  <2>0. n \in Nat /\ T # {}
      BY <1>1, FS_EmptySet
  <2>1. PICK x \in T : TRUE
      BY <2>0
  <2>2. Cardinality(T \ {x}) = n
      BY <1>1, <2>0, OneLess
  <2>3. T \ {x} \in G
      BY <2>2
  <2>4. (T \ {x}) \cup {x} = T
      OBVIOUS
  <2> QED
      BY <2>3, <2>4
<1>4. \A n \in Nat : n \in N
  <2>1. N \in SUBSET Nat
      OBVIOUS
  <2> HIDE DEF N
  <2> QED
      BY <1>2, <1>3, <2>1, Induction
<1>5. Cardinality(S) \in Nat
    BY FS_CardinalityType
<1> QED
    BY <1>4, <1>5

\* The image of a finite set is finite, and no larger.
LEMMA FiniteImage ==
    ASSUME NEW S, IsFiniteSet(S), NEW f
    PROVE  IsFiniteSet({f[x] : x \in S}) /\ Cardinality({f[x] : x \in S}) <= Cardinality(S)
<1> DEFINE T == {f[x] : x \in S}
           g == [x \in S |-> f[x]]
<1>1. g \in Surjection(S, T)
    BY DEF Surjection
<1> QED
    BY <1>1, FS_Surjection

\* A one-to-one image has as many members.
LEMMA OneToOne ==
    ASSUME NEW S, IsFiniteSet(S), NEW f, \A x, y \in S : f[x] = f[y] => x = y
    PROVE  IsFiniteSet({f[x] : x \in S}) /\ Cardinality({f[x] : x \in S}) = Cardinality(S)
<1> DEFINE T == {f[x] : x \in S}
           g == [x \in S |-> f[x]]
<1>1. IsFiniteSet(T)
    BY FiniteImage
<1>2. g \in [S -> T] /\ (\A x, y \in S : g[x] = g[y] => x = y) /\ \A t \in T : \E x \in S : g[x] = t
    OBVIOUS
<1> HIDE DEF g, T
<1>3. g \in Injection(S, T) /\ g \in Surjection(S, T)
    BY <1>2 DEF Injection, IsInjective, Surjection
<1>4. Cardinality(S) = Cardinality(T)
    BY <1>1, <1>3, FS_Injection
<1> QED
    BY <1>1, <1>4 DEF T

\* A finite set of numbers has a greatest and a least one.
LEMMA MaxIs ==
    ASSUME NEW S \in SUBSET Int, IsFiniteSet(S), S # {}
    PROVE  Max(S) \in S /\ \A x \in S : x <= Max(S)
<1> DEFINE G == {T \in SUBSET S : T # {} => \E m \in T : \A x \in T : m >= x}
<1>1. {} \in G /\ G \in SUBSET SUBSET S
    OBVIOUS
<1>2. ASSUME NEW T \in G, NEW y \in S \ T
      PROVE  T \cup {y} \in G
  <2>1. CASE T = {}
    <3>1. y \in T \cup {y} /\ \A x \in T \cup {y} : y >= x
        BY <2>1
    <3> QED
        BY <3>1
  <2>2. CASE T # {}
    <3>1. PICK m \in T : \A x \in T : m >= x
        BY <2>2
    <3>2. m \in Int /\ y \in Int /\ \A x \in T : x \in Int
        OBVIOUS
    <3>3. CASE m >= y
        BY <3>1, <3>3
    <3>4. CASE ~(m >= y)
      <4>1. \A x \in T \cup {y} : y >= x
          BY <3>1, <3>2, <3>4
      <4> QED
          BY <4>1
    <3> QED
        BY <3>3, <3>4
  <2> QED
      BY <2>1, <2>2
<1>3. S \in G
  <2> HIDE DEF G
  <2> QED
      BY <1>1, <1>2, SetInduction
<1>4. PICK m \in S : \A x \in S : m >= x
    BY <1>3
<1>5. Max(S) \in S /\ \A x \in S : Max(S) >= x
    BY <1>4 DEF Max
<1> QED
    BY <1>5

LEMMA MinIs ==
    ASSUME NEW S \in SUBSET Int, IsFiniteSet(S), S # {}
    PROVE  Min(S) \in S /\ \A x \in S : Min(S) <= x
<1> DEFINE f == [x \in S |-> -x]
           T == {f[x] : x \in S}
<1>1. \A x \in S : f[x] = -x /\ f[x] \in Int
    OBVIOUS
<1> HIDE DEF f
<1>2. IsFiniteSet(T)
    BY FiniteImage
<1>3. T \in SUBSET Int /\ T # {}
    BY <1>1
<1>4. PICK m \in S : \A x \in S : m <= x
  <2>1. Max(T) \in T /\ \A y \in T : y <= Max(T)
    <3> HIDE DEF T
    <3> QED
        BY <1>2, <1>3, MaxIs
  <2>2. PICK m \in S : Max(T) = f[m]
      BY <2>1
  <2>3. ASSUME NEW x \in S
        PROVE  m <= x
    <3>1. f[x] <= f[m] /\ x \in Int /\ m \in Int
        BY <2>1, <2>2
    <3> QED
        BY <1>1, <3>1
  <2> QED
      BY <2>3
<1>5. Min(S) \in S /\ \A x \in S : Min(S) <= x
    BY <1>4 DEF Min
<1> QED
    BY <1>5

-----------------------------------------------------------------------------
(* Sums are well defined *)

\* iter adds up f over the subsets of S the way MapThenFoldSet does.
AddsUp(iter, f, S) ==
    iter = [s \in SUBSET S |->
               IF s = {} THEN 0
               ELSE LET x == CHOOSE x \in s : TRUE IN f[x] + iter[s \ {x}]]

LEMMA SumIs == ASSUME NEW f, NEW S
               PROVE  SumFunctionOnSet(f, S) = (CHOOSE iter : AddsUp(iter, f, S))[S]
  BY DEF SumFunctionOnSet, FoldFunctionOnSet, MapThenFoldSet, AddsUp

Term(iter, f, s) ==
    IF s = {} THEN 0 ELSE f[CHOOSE x \in s : TRUE] + iter[s \ {CHOOSE x \in s : TRUE}]

LEMMA AddsUpIs ==
    ASSUME NEW f, NEW S, NEW iter
    PROVE  AddsUp(iter, f, S) <=> iter = [s \in SUBSET S |-> Term(iter, f, s)]
  BY DEF AddsUp, Term

LEMMA SomethingAddsUp ==
    ASSUME NEW f, NEW S, IsFiniteSet(S)
    PROVE  \E iter : AddsUp(iter, f, S)
<1> DEFINE upTo(it, n) == \A s \in SUBSET S : Cardinality(s) <= n => it[s] = Term(it, f, s)
           N == {n \in Nat : \E it : upTo(it, n)}
<1>1. \A s \in SUBSET S : IsFiniteSet(s) /\ Cardinality(s) \in Nat
    BY FS_Subset, FS_CardinalityType
<1>2. 0 \in N
  <2> DEFINE it == [s \in SUBSET S |-> 0]
  <2>1. ASSUME NEW s \in SUBSET S, Cardinality(s) <= 0
        PROVE  it[s] = Term(it, f, s)
    <3>1. s = {}
        BY <1>1, <2>1, FS_EmptySet
    <3> QED
        BY <3>1 DEF Term
  <2>2. upTo(it, 0)
      BY <2>1
  <2> QED
      BY <2>2
<1>3. ASSUME NEW n \in N
      PROVE  n + 1 \in N
  <2>1. PICK it : upTo(it, n)
      OBVIOUS
  <2> DEFINE next == [s \in SUBSET S |-> IF Cardinality(s) <= n THEN it[s] ELSE Term(it, f, s)]
  <2>2. ASSUME NEW s \in SUBSET S, Cardinality(s) <= n + 1
        PROVE  next[s] = Term(next, f, s)
    <3>1. next[s] = Term(it, f, s)
        BY <2>1
    <3>2. ASSUME NEW x \in s
          PROVE  next[s \ {x}] = it[s \ {x}]
      <4>1. Cardinality(s \ {x}) <= n
          BY <1>1, <2>2, OneLess
      <4> QED
          BY <4>1
    <3>3. Term(it, f, s) = Term(next, f, s)
      <4>1. CASE s = {}
          BY <4>1 DEF Term
      <4>2. CASE s # {}
        <5> DEFINE x == CHOOSE x \in s : TRUE
        <5>1. x \in s
            BY <4>2
        <5>2. next[s \ {x}] = it[s \ {x}]
            BY <3>2, <5>1
        <5> QED
            BY <4>2, <5>2 DEF Term
      <4> QED
          BY <4>1, <4>2
    <3> QED
        BY <3>1, <3>3
  <2>3. upTo(next, n + 1)
      BY <2>2
  <2>4. n + 1 \in Nat
      OBVIOUS
  <2> HIDE DEF upTo, next
  <2> QED
      BY <2>3, <2>4
<1>4. \A n \in Nat : n \in N
  <2>1. N \in SUBSET Nat
      OBVIOUS
  <2> HIDE DEF N
  <2> QED
      BY <1>2, <1>3, <2>1, Induction
<1>5. PICK it : upTo(it, Cardinality(S))
    BY <1>1, <1>4
<1>6. \A s \in SUBSET S : it[s] = Term(it, f, s)
  <2> TAKE s \in SUBSET S
  <2>1. Cardinality(s) <= Cardinality(S)
      BY FS_Subset
  <2> QED
      BY <1>5, <2>1
<1> DEFINE iter == [s \in SUBSET S |-> it[s]]
<1>7. ASSUME NEW s \in SUBSET S
      PROVE  iter[s] = Term(iter, f, s)
  <2>1. CASE s = {}
      BY <1>6, <2>1 DEF Term
  <2>2. CASE s # {}
    <3> DEFINE x == CHOOSE x \in s : TRUE
    <3>1. x \in s
        BY <2>2
    <3>2. iter[s \ {x}] = it[s \ {x}] /\ iter[s] = it[s]
        BY <3>1
    <3> QED
        BY <1>6, <2>2, <3>2 DEF Term
  <2> QED
      BY <2>1, <2>2
<1>8. iter = [s \in SUBSET S |-> Term(iter, f, s)]
    BY <1>7
<1> HIDE DEF iter
<1> QED
    BY <1>8, AddsUpIs

\* What adds up over a set adds up over its subsets, in one way only.
LEMMA AddsUpOnce ==
    ASSUME NEW f, NEW S, IsFiniteSet(S), NEW T \in SUBSET S,
           NEW all, AddsUp(all, f, S), NEW some, AddsUp(some, f, T)
    PROVE  \A s \in SUBSET T : all[s] = some[s]
<1> DEFINE N == {n \in Nat : \A s \in SUBSET T : Cardinality(s) = n => all[s] = some[s]}
<1>1. \A s \in SUBSET T : /\ IsFiniteSet(s) /\ Cardinality(s) \in Nat
                          /\ all[s] = Term(all, f, s) /\ some[s] = Term(some, f, s)
  <2> TAKE s \in SUBSET T
  <2>1. s \in SUBSET S
      OBVIOUS
  <2>2. all[s] = Term(all, f, s)
      BY <2>1, AddsUpIs
  <2>3. some[s] = Term(some, f, s)
      BY AddsUpIs
  <2> QED
      BY <2>1, <2>2, <2>3, FS_Subset, FS_CardinalityType
<1>2. 0 \in N
    BY <1>1, FS_EmptySet DEF Term
<1>3. ASSUME NEW n \in N
      PROVE  n + 1 \in N
  <2> SUFFICES ASSUME NEW s \in SUBSET T, Cardinality(s) = n + 1
               PROVE  all[s] = some[s]
      OBVIOUS
  <2> DEFINE x == CHOOSE x \in s : TRUE
  <2>1. n \in Nat /\ s # {}
      BY FS_EmptySet
  <2>2. x \in s
      BY <2>1
  <2> HIDE DEF x
  <2>3. Cardinality(s \ {x}) = n
      BY <1>1, <2>1, <2>2, OneLess
  <2>4. all[s \ {x}] = some[s \ {x}]
      BY <2>3
  <2> QED
      BY <1>1, <2>1, <2>4 DEF Term, x
<1>4. \A n \in Nat : n \in N
  <2>1. N \in SUBSET Nat
      OBVIOUS
  <2> HIDE DEF N
  <2> QED
      BY <1>2, <1>3, <2>1, Induction
<1> QED
    BY <1>1, <1>4

LEMMA SumUnfolds ==
    ASSUME NEW f, NEW S, IsFiniteSet(S), S # {}
    PROVE  \E x \in S : SumFunctionOnSet(f, S) = f[x] + SumFunctionOnSet(f, S \ {x})
<1> DEFINE all == CHOOSE iter : AddsUp(iter, f, S)
           x == CHOOSE x \in S : TRUE
           some == CHOOSE iter : AddsUp(iter, f, S \ {x})
<1>1. x \in S
    OBVIOUS
<1>2. IsFiniteSet(S \ {x})
    BY FS_Subset
<1>3. AddsUp(all, f, S)
    BY SomethingAddsUp
<1>4. AddsUp(some, f, S \ {x})
    BY <1>2, SomethingAddsUp
<1> HIDE DEF all, some
<1>5. all[S] = Term(all, f, S)
    BY <1>3, AddsUpIs
<1>6. all[S \ {x}] = some[S \ {x}]
    BY <1>3, <1>4, AddsUpOnce
<1>7. all[S] = f[x] + some[S \ {x}]
    BY <1>5, <1>6 DEF Term
<1> QED
    BY <1>1, <1>7, SumIs DEF all, some

-----------------------------------------------------------------------------
(* What sums are *)

LEMMA SumEmpty == ASSUME NEW f PROVE SumFunctionOnSet(f, {}) = 0
  BY DEF SumFunctionOnSet, FoldFunctionOnSet, MapThenFoldSet

LEMMA SumType ==
    ASSUME NEW f, NEW S, IsFiniteSet(S), \A x \in S : f[x] \in Int
    PROVE  SumFunctionOnSet(f, S) \in Int
<1> DEFINE N == {n \in Nat : \A T \in SUBSET S : Cardinality(T) = n => SumFunctionOnSet(f, T) \in Int}
<1>1. \A T \in SUBSET S : IsFiniteSet(T)
    BY FS_Subset
<1>2. 0 \in N
    BY <1>1, FS_EmptySet, SumEmpty
<1>3. ASSUME NEW n \in N
      PROVE  n + 1 \in N
  <2> SUFFICES ASSUME NEW T \in SUBSET S, Cardinality(T) = n + 1
               PROVE  SumFunctionOnSet(f, T) \in Int
      OBVIOUS
  <2>1. n \in Nat /\ T # {} /\ IsFiniteSet(T)
      BY <1>1, FS_EmptySet
  <2>2. PICK x \in T : SumFunctionOnSet(f, T) = f[x] + SumFunctionOnSet(f, T \ {x})
      BY <2>1, SumUnfolds
  <2>3. Cardinality(T \ {x}) = n
      BY <2>1, OneLess
  <2>4. SumFunctionOnSet(f, T \ {x}) \in Int
      BY <2>3
  <2> QED
      BY <2>2, <2>4
<1>4. \A n \in Nat : n \in N
  <2>1. N \in SUBSET Nat
      OBVIOUS
  <2> HIDE DEF N
  <2> QED
      BY <1>2, <1>3, <2>1, Induction
<1>5. Cardinality(S) \in Nat
    BY FS_CardinalityType
<1> QED
    BY <1>4, <1>5

\* Any element may be taken out of a sum.
LEMMA SumWithout ==
    ASSUME NEW f, NEW S, IsFiniteSet(S), \A x \in S : f[x] \in Int, NEW y \in S
    PROVE  SumFunctionOnSet(f, S) = f[y] + SumFunctionOnSet(f, S \ {y})
<1> DEFINE sum(T) == SumFunctionOnSet(f, T)
           N == {n \in Nat : \A T \in SUBSET S : Cardinality(T) = n =>
                                 \A x \in T : sum(T) = f[x] + sum(T \ {x})}
<1>1. \A T \in SUBSET S : IsFiniteSet(T) /\ sum(T) \in Int
  <2> TAKE T \in SUBSET S
  <2>1. IsFiniteSet(T) /\ \A x \in T : f[x] \in Int
      BY FS_Subset
  <2> QED
      BY <2>1, SumType
<1>2. 0 \in N
  <2> SUFFICES ASSUME NEW T \in SUBSET S, Cardinality(T) = 0, NEW x \in T
               PROVE  FALSE
      OBVIOUS
  <2> QED
      BY <1>1, FS_EmptySet
<1>3. ASSUME NEW n \in N
      PROVE  n + 1 \in N
  <2> SUFFICES ASSUME NEW T \in SUBSET S, Cardinality(T) = n + 1, NEW x \in T
               PROVE  sum(T) = f[x] + sum(T \ {x})
      OBVIOUS
  <2>1. n \in Nat /\ T # {} /\ IsFiniteSet(T)
      BY <1>1, FS_EmptySet
  <2>2. PICK z \in T : sum(T) = f[z] + sum(T \ {z})
      BY <2>1, SumUnfolds
  <2>3. CASE x = z
      BY <2>2, <2>3
  <2>4. CASE x # z
    <3>1. T \ {x} \in SUBSET S /\ T \ {z} \in SUBSET S /\ (T \ {z}) \ {x} \in SUBSET S
        OBVIOUS
    <3>2. Cardinality(T \ {x}) = n /\ Cardinality(T \ {z}) = n
        BY <2>1, OneLess
    <3>3. sum(T \ {z}) = f[x] + sum((T \ {z}) \ {x})
        BY <2>4, <3>1, <3>2
    <3>4. sum(T \ {x}) = f[z] + sum((T \ {x}) \ {z})
        BY <2>4, <3>1, <3>2
    <3>5. (T \ {x}) \ {z} = (T \ {z}) \ {x}
        OBVIOUS
    <3>6. /\ sum((T \ {z}) \ {x}) \in Int /\ sum(T \ {x}) \in Int
          /\ f[x] \in Int /\ f[z] \in Int
        BY <1>1, <3>1
    <3> HIDE DEF sum
    <3> QED
        BY <2>2, <3>3, <3>4, <3>5, <3>6
  <2> QED
      BY <2>3, <2>4
<1>4. \A n \in Nat : n \in N
  <2>1. N \in SUBSET Nat
      OBVIOUS
  <2> HIDE DEF N
  <2> QED
      BY <1>2, <1>3, <2>1, Induction
<1>5. Cardinality(S) \in Nat
    BY FS_CardinalityType
<1> QED
    BY <1>4, <1>5

\* An element that is added adds its term.
LEMMA SumWith ==
    ASSUME NEW f, NEW S, IsFiniteSet(S), \A x \in S : f[x] \in Int, NEW y, y \notin S, f[y] \in Int
    PROVE  SumFunctionOnSet(f, S \cup {y}) = f[y] + SumFunctionOnSet(f, S)
<1>1. IsFiniteSet(S \cup {y}) /\ (S \cup {y}) \ {y} = S /\ \A x \in S \cup {y} : f[x] \in Int
    BY FS_AddElement
<1> QED
    BY <1>1, SumWithout

\* Sums are compared term by term.
LEMMA SumMonotonic ==
    ASSUME NEW f, NEW g, NEW S, IsFiniteSet(S),
           \A x \in S : f[x] \in Int /\ g[x] \in Int /\ f[x] <= g[x]
    PROVE  SumFunctionOnSet(f, S) <= SumFunctionOnSet(g, S)
<1> DEFINE G == {T \in SUBSET S : SumFunctionOnSet(f, T) <= SumFunctionOnSet(g, T)}
<1>1. {} \in G
    BY SumEmpty
<1>2. ASSUME NEW T \in G, NEW x \in S \ T
      PROVE  T \cup {x} \in G
  <2>1. IsFiniteSet(T) /\ \A y \in T : f[y] \in Int /\ g[y] \in Int
      BY FS_Subset
  <2>2. /\ SumFunctionOnSet(f, T) \in Int /\ SumFunctionOnSet(g, T) \in Int
        /\ SumFunctionOnSet(f, T \cup {x}) = f[x] + SumFunctionOnSet(f, T)
        /\ SumFunctionOnSet(g, T \cup {x}) = g[x] + SumFunctionOnSet(g, T)
      BY <2>1, SumType, SumWith
  <2>3. SumFunctionOnSet(f, T) <= SumFunctionOnSet(g, T) /\ f[x] <= g[x] /\ f[x] \in Int /\ g[x] \in Int
      OBVIOUS
  <2> QED
      BY <2>2, <2>3
<1>3. G \in SUBSET SUBSET S
    OBVIOUS
<1>4. S \in G
  <2> HIDE DEF G
  <2> QED
      BY <1>1, <1>2, <1>3, SetInduction
<1> QED
    BY <1>4

\* A sum depends on the terms only.
LEMMA SumSame ==
    ASSUME NEW f, NEW g, NEW S, IsFiniteSet(S), \A x \in S : f[x] \in Int /\ f[x] = g[x]
    PROVE  SumFunctionOnSet(f, S) = SumFunctionOnSet(g, S)
<1>1. SumFunctionOnSet(f, S) <= SumFunctionOnSet(g, S) /\ SumFunctionOnSet(g, S) <= SumFunctionOnSet(f, S)
    BY SumMonotonic
<1>2. SumFunctionOnSet(f, S) \in Int /\ SumFunctionOnSet(g, S) \in Int
    BY SumType
<1> QED
    BY <1>1, <1>2

\* Two sets without a common element.
LEMMA SumUnion ==
    ASSUME NEW f, NEW S, IsFiniteSet(S), NEW T, IsFiniteSet(T), S \cap T = {},
           \A x \in S \cup T : f[x] \in Int
    PROVE  SumFunctionOnSet(f, S \cup T) = SumFunctionOnSet(f, S) + SumFunctionOnSet(f, T)
<1> DEFINE sum(U) == SumFunctionOnSet(f, U)
           G == {U \in SUBSET T : sum(S \cup U) = sum(S) + sum(U)}
<1>1. sum(S) \in Int
    BY SumType
<1>2. {} \in G
    BY <1>1, SumEmpty
<1>3. ASSUME NEW U \in G, NEW x \in T \ U
      PROVE  U \cup {x} \in G
  <2>1. IsFiniteSet(U) /\ IsFiniteSet(S \cup U)
      BY FS_Subset, FS_Union
  <2>2. sum(U) \in Int /\ sum(S \cup U) \in Int /\ f[x] \in Int
      BY <2>1, SumType
  <2>3. sum(U \cup {x}) = f[x] + sum(U)
      BY <2>1, SumWith
  <2>4. sum((S \cup U) \cup {x}) = f[x] + sum(S \cup U)
      BY <2>1, SumWith
  <2>5. (S \cup U) \cup {x} = S \cup (U \cup {x})
      OBVIOUS
  <2>6. sum(S \cup U) = sum(S) + sum(U)
      OBVIOUS
  <2>7. sum(S \cup (U \cup {x})) = sum(S) + sum(U \cup {x})
    <3>1. sum(S \cup (U \cup {x})) = f[x] + (sum(S) + sum(U))
        BY <2>4, <2>5, <2>6
    <3>2. sum(S) + sum(U \cup {x}) = sum(S) + (f[x] + sum(U))
        BY <2>3
    <3>3. \A i, j, k \in Int : i + (j + k) = j + (i + k)
        OBVIOUS
    <3> QED
        BY <1>1, <2>2, <3>1, <3>2, <3>3
  <2>8. U \cup {x} \in SUBSET T
      OBVIOUS
  <2> QED
      BY <2>7, <2>8
<1>4. G \in SUBSET SUBSET T
    OBVIOUS
<1>5. T \in G
  <2> HIDE DEF G
  <2> QED
      BY <1>2, <1>3, <1>4, SetInduction
<1> QED
    BY <1>5

\* Terms that are not negative do not add up to less than some of them.
LEMMA SumOfNaturals ==
    ASSUME NEW f, NEW S, IsFiniteSet(S), \A x \in S : f[x] \in Nat
    PROVE  SumFunctionOnSet(f, S) \in Nat
<1> DEFINE G == {T \in SUBSET S : SumFunctionOnSet(f, T) \in Nat}
<1>1. {} \in G
    BY SumEmpty
<1>2. ASSUME NEW T \in G, NEW x \in S \ T
      PROVE  T \cup {x} \in G
  <2>1. IsFiniteSet(T) /\ \A y \in T : f[y] \in Int
      BY FS_Subset
  <2>2. SumFunctionOnSet(f, T \cup {x}) = f[x] + SumFunctionOnSet(f, T)
      BY <2>1, SumWith
  <2> QED
      BY <2>2
<1>3. G \in SUBSET SUBSET S
    OBVIOUS
<1>4. S \in G
  <2> HIDE DEF G
  <2> QED
      BY <1>1, <1>2, <1>3, SetInduction
<1> QED
    BY <1>4

LEMMA SumOfPart ==
    ASSUME NEW f, NEW S, IsFiniteSet(S), \A x \in S : f[x] \in Nat, NEW T \in SUBSET S
    PROVE  SumFunctionOnSet(f, T) <= SumFunctionOnSet(f, S)
<1>1. IsFiniteSet(T) /\ IsFiniteSet(S \ T) /\ T \cup (S \ T) = S /\ T \cap (S \ T) = {}
    BY FS_Subset
<1>2. \A x \in T \cup (S \ T) : f[x] \in Int
    OBVIOUS
<1>3. SumFunctionOnSet(f, S) = SumFunctionOnSet(f, T) + SumFunctionOnSet(f, S \ T)
    BY <1>1, <1>2, SumUnion
<1>4. SumFunctionOnSet(f, T) \in Nat /\ SumFunctionOnSet(f, S \ T) \in Nat
    BY <1>1, SumOfNaturals
<1> QED
    BY <1>3, <1>4

\* Two terms for every element.
LEMMA SumPlus ==
    ASSUME NEW f, NEW g, NEW h, NEW S, IsFiniteSet(S),
           \A x \in S : f[x] \in Int /\ g[x] \in Int /\ h[x] = f[x] + g[x]
    PROVE  SumFunctionOnSet(h, S) = SumFunctionOnSet(f, S) + SumFunctionOnSet(g, S)
<1> DEFINE G == {T \in SUBSET S :
                    SumFunctionOnSet(h, T) = SumFunctionOnSet(f, T) + SumFunctionOnSet(g, T)}
<1>1. {} \in G /\ G \in SUBSET SUBSET S
    BY SumEmpty
<1>2. ASSUME NEW T \in G, NEW x \in S \ T
      PROVE  T \cup {x} \in G
  <2>1. /\ IsFiniteSet(T) /\ \A y \in T \cup {x} : f[y] \in Int /\ g[y] \in Int /\ h[y] \in Int
        /\ h[x] = f[x] + g[x]
      BY FS_Subset
  <2>2. /\ SumFunctionOnSet(f, T \cup {x}) = f[x] + SumFunctionOnSet(f, T)
        /\ SumFunctionOnSet(g, T \cup {x}) = g[x] + SumFunctionOnSet(g, T)
        /\ SumFunctionOnSet(h, T \cup {x}) = h[x] + SumFunctionOnSet(h, T)
      BY <2>1, SumWith
  <2>3. SumFunctionOnSet(f, T) \in Int /\ SumFunctionOnSet(g, T) \in Int
      BY <2>1, SumType
  <2>4. SumFunctionOnSet(h, T) = SumFunctionOnSet(f, T) + SumFunctionOnSet(g, T)
      OBVIOUS
  <2> QED
      BY <2>1, <2>2, <2>3, <2>4
<1>3. S \in G
  <2> HIDE DEF G
  <2> QED
      BY <1>1, <1>2, SetInduction
<1> QED
    BY <1>3

\* The same multiple of every term.
LEMMA SumTimes ==
    ASSUME NEW f, NEW g, NEW k \in Int, NEW S, IsFiniteSet(S),
           \A x \in S : f[x] \in Int /\ g[x] = k * f[x]
    PROVE  SumFunctionOnSet(g, S) = k * SumFunctionOnSet(f, S)
<1> DEFINE G == {T \in SUBSET S : SumFunctionOnSet(g, T) = k * SumFunctionOnSet(f, T)}
<1>1. {} \in G /\ G \in SUBSET SUBSET S
    BY SumEmpty
<1>2. ASSUME NEW T \in G, NEW x \in S \ T
      PROVE  T \cup {x} \in G
  <2>1. /\ IsFiniteSet(T) /\ \A y \in T \cup {x} : f[y] \in Int /\ g[y] \in Int
        /\ g[x] = k * f[x]
      BY FS_Subset
  <2>2. /\ SumFunctionOnSet(f, T \cup {x}) = f[x] + SumFunctionOnSet(f, T)
        /\ SumFunctionOnSet(g, T \cup {x}) = g[x] + SumFunctionOnSet(g, T)
      BY <2>1, SumWith
  <2>3. SumFunctionOnSet(f, T) \in Int /\ f[x] \in Int
      BY <2>1, SumType
  <2>4. SumFunctionOnSet(g, T) = k * SumFunctionOnSet(f, T)
      OBVIOUS
  <2>5. \A i, j \in Int : k * i + k * j = k * (i + j)
      OBVIOUS
  <2>6. SumFunctionOnSet(g, T \cup {x}) = k * SumFunctionOnSet(f, T \cup {x})
      BY <2>1, <2>2, <2>3, <2>4, <2>5
  <2> QED
      BY <2>6
<1>3. S \in G
  <2> HIDE DEF G
  <2> QED
      BY <1>1, <1>2, SetInduction
<1> QED
    BY <1>3

LEMMA SumZero ==
    ASSUME NEW f, NEW S, IsFiniteSet(S), \A x \in S : f[x] = 0
    PROVE  SumFunctionOnSet(f, S) = 0
<1>1. \A x \in S : f[x] \in Int /\ f[x] = 0 * f[x]
    OBVIOUS
<1>2. SumFunctionOnSet(f, S) \in Int
    BY <1>1, SumType
<1>3. SumFunctionOnSet(f, S) = 0 * SumFunctionOnSet(f, S)
  <2>1. 0 \in Int
      OBVIOUS
  <2> QED
      BY <1>1, <2>1, SumTimes
<1> QED
    BY <1>2, <1>3

LEMMA SumOfOne ==
    ASSUME NEW f, NEW x, f[x] \in Int
    PROVE  SumFunctionOnSet(f, {x}) = f[x]
<1>1. IsFiniteSet({x}) /\ {x} \ {x} = {}
    BY FS_Singleton
<1>2. SumFunctionOnSet(f, {x}) = f[x] + SumFunctionOnSet(f, {x} \ {x})
    BY <1>1, SumWithout
<1> QED
    BY <1>1, <1>2, SumEmpty

\* The same terms, further on.
LEMMA SumShifted ==
    ASSUME NEW a \in Nat, NEW n \in Nat, NEW f, NEW g,
           \A i \in 1..n : f[i] \in Int /\ g[a + i] = f[i]
    PROVE  SumFunctionOnSet(g, (a + 1)..(a + n)) = SumFunctionOnSet(f, 1..n)
<1> DEFINE N == {m \in Nat : m <= n =>
                    SumFunctionOnSet(g, (a + 1)..(a + m)) = SumFunctionOnSet(f, 1..m)}
<1>1. 0 \in N
  <2>1. (a + 1)..(a + 0) = {} /\ 1..0 = {}
      OBVIOUS
  <2> QED
      BY <2>1, SumEmpty
<1>2. ASSUME NEW m \in N
      PROVE  m + 1 \in N
  <2> SUFFICES ASSUME m + 1 <= n
               PROVE  SumFunctionOnSet(g, (a + 1)..(a + (m + 1))) = SumFunctionOnSet(f, 1..(m + 1))
      OBVIOUS
  <2> DEFINE S == (a + 1)..(a + m)
             T == 1..m
  <2>1. m \in Nat /\ m <= n
      OBVIOUS
  <2>2. /\ (a + 1)..(a + (m + 1)) = S \cup {a + (m + 1)} /\ a + (m + 1) \notin S
        /\ 1..(m + 1) = T \cup {m + 1} /\ m + 1 \notin T
      BY <2>1
  <2>3. IsFiniteSet(S) /\ IsFiniteSet(T)
    <3>1. a + 1 \in Int /\ a + m \in Int /\ 1 \in Int /\ m \in Int
        BY <2>1
    <3> QED
        BY <3>1, FS_Interval
  <2>4. \A i \in T : f[i] \in Int
      BY <2>1
  <2>5. \A j \in S : g[j] \in Int
    <3> TAKE j \in S
    <3>1. j - a \in 1..n /\ a + (j - a) = j
        BY <2>1
    <3> QED
        BY <3>1
  <2>6. f[m + 1] \in Int /\ g[a + (m + 1)] = f[m + 1]
    <3>1. m + 1 \in 1..n
        BY <2>1
    <3> QED
        BY <3>1
  <2>7. SumFunctionOnSet(g, S) = SumFunctionOnSet(f, T)
      BY <2>1
  <2> HIDE DEF S, T
  <2>8. SumFunctionOnSet(f, T \cup {m + 1}) = f[m + 1] + SumFunctionOnSet(f, T)
      BY <2>2, <2>3, <2>4, <2>6, SumWith
  <2>9. SumFunctionOnSet(g, S \cup {a + (m + 1)}) = g[a + (m + 1)] + SumFunctionOnSet(g, S)
      BY <2>2, <2>3, <2>5, <2>6, SumWith
  <2> QED
      BY <2>2, <2>6, <2>7, <2>8, <2>9, Zenon
<1>3. \A m \in Nat : m \in N
  <2> HIDE DEF N
  <2>1. N \in SUBSET Nat
      BY DEF N
  <2> QED
      BY <1>1, <1>2, <2>1, Induction
<1>4. n <= n
    OBVIOUS
<1> QED
    BY <1>3, <1>4

\* Sums with the terms under other names.
LEMMA SumRenamed ==
    ASSUME NEW S, IsFiniteSet(S), NEW f, NEW g, NEW p,
           \A x \in S : f[x] \in Int /\ g[p[x]] = f[x],
           \A x, y \in S : p[x] = p[y] => x = y
    PROVE  SumFunctionOnSet(g, {p[x] : x \in S}) = SumFunctionOnSet(f, S)
<1> DEFINE image(T) == {p[x] : x \in T}
           G == {T \in SUBSET S : SumFunctionOnSet(g, image(T)) = SumFunctionOnSet(f, T)}
<1>1. {} \in G
  <2>1. image({}) = {}
      OBVIOUS
  <2>2. SumFunctionOnSet(g, image({})) = SumFunctionOnSet(f, {})
      BY <2>1, SumEmpty
  <2> QED
      BY <2>2
<1>2. ASSUME NEW T \in G, NEW x \in S \ T
      PROVE  T \cup {x} \in G
  <2>1. IsFiniteSet(T) /\ (\A y \in T : f[y] \in Int) /\ f[x] \in Int /\ x \notin T /\ T \in SUBSET S
      BY FS_Subset
  <2>2. SumFunctionOnSet(f, T \cup {x}) = f[x] + SumFunctionOnSet(f, T)
      BY <2>1, SumWith
  <2>3. image(T \cup {x}) = image(T) \cup {p[x]} /\ p[x] \notin image(T)
      BY <2>1
  <2>4. SumFunctionOnSet(g, image(T)) = SumFunctionOnSet(f, T)
      OBVIOUS
  <2>5. IsFiniteSet(image(T)) /\ \A y \in image(T) : g[y] \in Int
      BY <2>1, FiniteImage
  <2> DEFINE I == image(T)
             z == p[x]
  <2>6. IsFiniteSet(I) /\ (\A y \in I : g[y] \in Int) /\ z \notin I /\ g[z] \in Int /\ g[z] = f[x]
      BY <2>1, <2>3, <2>5
  <2> HIDE DEF I, z
  <2>7. SumFunctionOnSet(g, I \cup {z}) = g[z] + SumFunctionOnSet(g, I)
      BY <2>6, SumWith
  <2>8. SumFunctionOnSet(g, image(T \cup {x})) = SumFunctionOnSet(f, T \cup {x})
      BY <2>2, <2>3, <2>4, <2>6, <2>7, Zenon DEF I, z
  <2> QED
      BY <2>1, <2>8
<1>3. G \in SUBSET SUBSET S
    OBVIOUS
<1>4. S \in G
  <2> HIDE DEF G
  <2> QED
      BY <1>1, <1>2, <1>3, SetInduction
<1> QED
    BY <1>4

-----------------------------------------------------------------------------
(* Division *)

LEMMA Quotient ==
    ASSUME NEW k \in Nat \ {0}, NEW i \in Nat
    PROVE  i = k * (i \div k) + (i % k)
  OBVIOUS

LEMMA Parts ==
    ASSUME NEW k \in Nat \ {0}, NEW i \in Nat
    PROVE  i \div k \in Nat /\ i % k \in 0..(k - 1)
<1>1. i \div k \in Nat
    OBVIOUS
<1>2. i % k \in 0..(k - 1)
    OBVIOUS
<1> QED
    BY <1>1, <1>2

\* Position i, counted from 0, of the rows in w parts of k.
LEMMA Position ==
    ASSUME NEW k \in Nat \ {0}, NEW w \in Nat, NEW i \in 0..(k * w - 1)
    PROVE  /\ i \div k \in 0..(w - 1)
           /\ i % k \in 0..(k - 1)
           /\ (i \div k) * k + (i % k) = i
<1>1. i \in Nat /\ i < k * w
    OBVIOUS
<1>2. i = k * (i \div k) + (i % k) /\ i \div k \in Nat /\ i % k \in 0..(k - 1)
    BY <1>1, Quotient, Parts
<1>3. \A q, r \in Nat : q >= w => ~(k * q + r < k * w)
    OBVIOUS
<1>4. i \div k < w
    BY <1>1, <1>2, <1>3
<1>5. (i \div k) * k + (i % k) = i
    BY <1>2
<1> QED
    BY <1>2, <1>4, <1>5

LEMMA Multiple ==
    ASSUME NEW d \in Nat \ {0}, NEW q \in Nat
    PROVE  (d * q) \div d = q
  OBVIOUS

\* A quotient and a remainder determine a number in one way.
LEMMA OneQuotient ==
    ASSUME NEW k \in Nat \ {0}, NEW a \in Nat, NEW b \in Nat, NEW i \in 0..(k - 1), NEW j \in 0..(k - 1),
           a * k + i = b * k + j
    PROVE  a = b /\ i = j
<1>1. (k * a + i) \div k = a /\ (k * b + j) \div k = b
    OBVIOUS
<1>2. k * a = a * k /\ k * b = b * k
    OBVIOUS
<1> QED
    BY <1>1, <1>2

\* Position j of part r is one of the positions.
LEMMA InShare ==
    ASSUME NEW k \in Nat \ {0}, NEW w \in Nat, NEW r \in 1..w, NEW j \in 1..k
    PROVE  (r - 1) * k + j \in 1..(k * w)
<1>1. (r - 1) * k >= 0 /\ (r - 1) * k <= (w - 1) * k
    OBVIOUS
<1>2. (w - 1) * k = k * w - k /\ (r - 1) * k \in Int /\ k * w \in Int
    OBVIOUS
<1> QED
    BY <1>1, <1>2

-----------------------------------------------------------------------------
(* FlattenSeq *)

\* flat[m] is the first m parts of s in a row.
Flattens(flat, s, k) ==
    flat = [i \in 1..k |-> IF i = 1 THEN s[i] ELSE flat[i - 1] \o s[i]]

LEMMA SomethingFlattens ==
    ASSUME NEW s, NEW k \in Nat
    PROVE  \E flat : Flattens(flat, s, k)
<1> DEFINE N == {n \in Nat : \E flat : Flattens(flat, s, n)}
<1>1. 0 \in N
  <2>1. Flattens([i \in 1..0 |-> s[i]], s, 0)
      BY DEF Flattens
  <2> QED
      BY <2>1
<1>2. ASSUME NEW n \in N
      PROVE  n + 1 \in N
  <2>1. PICK flat : Flattens(flat, s, n)
      OBVIOUS
  <2> DEFINE next == [i \in 1..(n + 1) |-> IF i = 1 THEN s[i] ELSE flat[i - 1] \o s[i]]
  <2>2. \A i \in 1..n : flat[i] = IF i = 1 THEN s[i] ELSE flat[i - 1] \o s[i]
      BY <2>1 DEF Flattens
  <2>3. \A i \in 1..n : next[i] = flat[i]
      BY <2>2
  <2>4. \A i \in 1..(n + 1) : i # 1 => next[i - 1] = flat[i - 1]
    <3>1. \A i \in 1..(n + 1) : i # 1 => i - 1 \in 1..n
        OBVIOUS
    <3> QED
        BY <2>3, <3>1
  <2>5. next = [i \in 1..(n + 1) |-> IF i = 1 THEN s[i] ELSE next[i - 1] \o s[i]]
      BY <2>4
  <2> HIDE DEF next
  <2>6. Flattens(next, s, n + 1)
      BY <2>5 DEF Flattens
  <2> QED
      BY <2>6
<1>3. \A n \in Nat : n \in N
  <2> HIDE DEF N
  <2>1. N \in SUBSET Nat
      BY DEF N
  <2> QED
      BY <1>1, <1>2, <2>1, Induction
<1> QED
    BY <1>3

\* Part i of s is in all after position start[i].
Starts(start, all, s, k) ==
    /\ start \in [1..k -> Nat] /\ start[1] = 0
    /\ \A i \in 1..(k - 1) : start[i + 1] = start[i] + Len(s[i])
    /\ Len(all) = start[k] + Len(s[k])
    /\ \A i \in 1..k : \A j \in 1..Len(s[i]) :
          start[i] + j \in 1..Len(all) /\ all[start[i] + j] = s[i][j]
    /\ \A p \in 1..Len(all) : \E i \in 1..k : \E j \in 1..Len(s[i]) : p = start[i] + j

\* FlattenSeq puts the parts of s one after another.
LEMMA FlattenIs ==
    ASSUME NEW T, NEW k \in Nat \ {0}, NEW s, DOMAIN s = 1..k, Len(s) = k, \A i \in 1..k : s[i] \in Seq(T)
    PROVE  FlattenSeq(s) \in Seq(T) /\ \E start : Starts(start, FlattenSeq(s), s, k)
<1> DEFINE flat == CHOOSE flat : Flattens(flat, s, k)
<1>1. Flattens(flat, s, k)
    BY SomethingFlattens
<1>2. FlattenSeq(s) = flat[k]
    BY Zenon DEF FlattenSeq, Flattens
<1> HIDE DEF flat
<1>3. /\ flat[1] = s[1]
      /\ \A i \in 1..k : i # 1 => flat[i] = flat[i - 1] \o s[i]
  <2>1. \A i \in 1..k : flat[i] = IF i = 1 THEN s[i] ELSE flat[i - 1] \o s[i]
      BY <1>1 DEF Flattens
  <2>2. 1 \in 1..k
      OBVIOUS
  <2> QED
      BY <2>1, <2>2
<1> DEFINE start == [i \in 1..k |-> IF i = 1 THEN 0 ELSE Len(flat[i - 1])]
           Good(m) == flat[m] \in Seq(T)
                      /\ Starts([i \in 1..m |-> start[i]], flat[m], s, m)
           N == {n \in Nat : n < k => Good(n + 1)}
<1>4. 0 \in N
  <2> DEFINE at == [i \in 1..1 |-> start[i]]
  <2>1. at[1] = 0 /\ at \in [1..1 -> Nat]
      OBVIOUS
  <2>2. flat[1] \in Seq(T) /\ Len(flat[1]) \in Nat
      BY <1>3
  <2> HIDE DEF at
  <2>3. Starts(at, flat[1], s, 1)
      BY <1>3, <2>1, <2>2 DEF Starts
  <2>4. Good(1)
      BY <2>2, <2>3 DEF at
  <2> QED
      BY <2>4
<1>5. ASSUME NEW n \in N
      PROVE  n + 1 \in N
  <2> SUFFICES ASSUME n + 1 < k
               PROVE  Good(n + 2)
      OBVIOUS
  <2> DEFINE m == n + 1
             at == [i \in 1..m |-> start[i]]
             next == [i \in 1..(m + 1) |-> start[i]]
             all == flat[m]
             more == flat[m + 1]
             new == s[m + 1]
  <2>1. n \in Nat /\ m \in 1..k /\ m + 1 \in 1..k /\ m \in Nat /\ n + 2 = m + 1
      OBVIOUS
  <2>2. all \in Seq(T) /\ Starts(at, all, s, m)
      BY <2>1
  <2>3. new \in Seq(T) /\ more = all \o new
    <3>1. m + 1 # 1 /\ (m + 1) - 1 = m
        BY <2>1
    <3> QED
        BY <1>3, <2>1, <3>1
  <2>4. next \in [1..(m + 1) -> Nat] /\ next[m + 1] = Len(all) /\ \A i \in 1..m : next[i] = at[i]
    <3>1. next[m + 1] = Len(all)
        BY <2>1
    <3>2. \A i \in 1..m : next[i] = at[i]
        BY <2>1
    <3>3. \A i \in 1..m : at[i] \in Nat
        BY <2>2 DEF Starts
    <3>4. \A i \in 1..(m + 1) : next[i] \in Nat
      <4> HIDE DEF next, at, all
      <4> QED
          BY SMTT(30), <2>1, <2>2, <3>1, <3>2, <3>3
    <3> QED
        BY <3>1, <3>2, <3>4
  <2> HIDE DEF at, next, all, more, new, m
  <2>5. /\ Len(all) \in Nat /\ Len(new) \in Nat /\ Len(more) = Len(all) + Len(new)
        /\ more \in Seq(T)
        /\ \A p \in 1..Len(all) : more[p] = all[p]
        /\ \A j \in 1..Len(new) : more[Len(all) + j] = new[j]
      BY <2>2, <2>3
  <2>6. next[1] = 0 /\ \A i \in 1..m : next[i + 1] = next[i] + Len(s[i])
    <3>1. \A i \in 1..(m - 1) : next[i + 1] = next[i] + Len(s[i])
      <4>1. \A i \in 1..(m - 1) : i \in 1..m /\ i + 1 \in 1..m
          BY <2>1
      <4> QED
          BY <2>2, <2>4, <4>1 DEF Starts
    <3>2. next[m + 1] = next[m] + Len(s[m])
        BY <2>1, <2>2, <2>4 DEF Starts
    <3>3. \A i \in 1..m : i \in 1..(m - 1) \/ i = m
        BY <2>1
    <3>4. next[1] = 0
        BY <2>1, <2>2, <2>4 DEF Starts
    <3> QED
        BY <3>1, <3>2, <3>3, <3>4
  <2>7. \A i \in 1..(m + 1) : \A j \in 1..Len(s[i]) :
            next[i] + j \in 1..Len(more) /\ more[next[i] + j] = s[i][j]
    <3> TAKE i \in 1..(m + 1)
    <3> TAKE j \in 1..Len(s[i])
    <3>1. CASE i \in 1..m
      <4>1. at[i] + j \in 1..Len(all) /\ all[at[i] + j] = s[i][j] /\ next[i] = at[i]
          BY SMTT(30), <2>2, <2>4, <3>1 DEF Starts
      <4>2. at[i] + j \in 1..Len(more)
          BY <2>5, <4>1
      <4> QED
          BY <2>5, <4>1, <4>2
    <3>2. CASE i = m + 1
      <4>1. next[i] = Len(all) /\ s[i] = new
          BY <2>4, <3>2 DEF new
      <4>2. j \in 1..Len(new)
          BY <4>1
      <4>3. Len(all) + j \in 1..Len(more)
          BY <2>5, <4>2
      <4> QED
          BY <2>5, <4>1, <4>2, <4>3
    <3> QED
        BY <2>1, <3>1, <3>2
  <2>8. ASSUME NEW p \in 1..Len(more)
        PROVE  \E i \in 1..(m + 1) : \E j \in 1..Len(s[i]) : p = next[i] + j
    <3>1. CASE p <= Len(all)
      <4>1. p \in 1..Len(all)
          BY <2>5, <3>1
      <4>2. PICK i \in 1..m : \E j \in 1..Len(s[i]) : p = at[i] + j
          BY <2>2, <4>1 DEF Starts
      <4>3. i \in 1..(m + 1) /\ next[i] = at[i]
          BY <2>1, <2>4
      <4> QED
          BY <4>2, <4>3
    <3>2. CASE p > Len(all)
      <4>1. p - Len(all) \in 1..Len(new) /\ p = Len(all) + (p - Len(all))
          BY <2>5, <3>2
      <4>2. m + 1 \in 1..(m + 1) /\ s[m + 1] = new
          BY <2>1 DEF new
      <4> QED
          BY <2>4, <4>1, <4>2
    <3> QED
        BY <2>5, <3>1, <3>2
  <2>9. Starts(next, more, s, m + 1)
    <3>1. (m + 1) - 1 = m
        BY <2>1
    <3>2. Len(more) = next[m + 1] + Len(s[m + 1])
        BY <2>4, <2>5 DEF new
    <3> QED
        BY <2>4, <2>6, <2>7, <2>8, <3>1, <3>2, Zenon DEF Starts
  <2> QED
      BY <2>1, <2>5, <2>9 DEF next, more
<1>6. \A n \in Nat : n \in N
  <2> HIDE DEF N
  <2>1. N \in SUBSET Nat
      BY DEF N
  <2> QED
      BY <1>4, <1>5, <2>1, Induction
<1>7. Good(k)
  <2>1. k - 1 \in Nat /\ k - 1 < k /\ (k - 1) + 1 = k
      OBVIOUS
  <2>2. k - 1 \in N
      BY <1>6, <2>1
  <2> QED
      BY <2>1, <2>2
<1> QED
    BY <1>2, <1>7

\* One part more goes to the end.
LEMMA FlattenMore ==
    ASSUME NEW k \in Nat, NEW s, s = [i \in 1..k |-> s[i]], Len(s) = k,
           NEW t, DOMAIN t = 1..(k + 1), Len(t) = k + 1, \A i \in 1..k : t[i] = s[i],
           NEW T, t[k + 1] \in Seq(T)
    PROVE  FlattenSeq(t) = FlattenSeq(s) \o t[k + 1]
<1> DEFINE more == CHOOSE flat : Flattens(flat, t, k + 1)
           flat == CHOOSE flat : Flattens(flat, s, k)
<1>1. Flattens(more, t, k + 1) /\ Flattens(flat, s, k)
  <2>1. k + 1 \in Nat
      OBVIOUS
  <2> QED
      BY <2>1, SomethingFlattens
<1>2. FlattenSeq(t) = more[k + 1]
  <2>1. Len(t) # 0
      OBVIOUS
  <2> QED
      BY <2>1, Zenon DEF FlattenSeq, Flattens
<1>3. /\ Len(s) = 0 => FlattenSeq(s) = s
      /\ Len(s) # 0 => FlattenSeq(s) = flat[k]
  <2>1. ASSUME Len(s) = 0
        PROVE  FlattenSeq(s) = s
      BY <2>1, Zenon DEF FlattenSeq
  <2>2. ASSUME Len(s) # 0
        PROVE  FlattenSeq(s) = flat[k]
      BY <2>2, Zenon DEF FlattenSeq, Flattens
  <2> QED
      BY <2>1, <2>2
<1> HIDE DEF more, flat
<1>4. /\ \A i \in 1..(k + 1) : more[i] = IF i = 1 THEN t[i] ELSE more[i - 1] \o t[i]
      /\ \A i \in 1..k : flat[i] = IF i = 1 THEN s[i] ELSE flat[i - 1] \o s[i]
    BY <1>1 DEF Flattens
<1>5. CASE k = 0
  <2>1. more[1] = t[1]
      BY <1>4, <1>5
  <2>2. s = << >>
      BY <1>5
  <2>3. t[1] \in Seq(T)
      BY <1>5
  <2>4. << >> \o t[1] = t[1]
      BY <2>3
  <2> QED
      BY <1>2, <1>3, <1>5, <2>1, <2>2, <2>4
<1>6. CASE k # 0
  <2> DEFINE N == {n \in Nat : n < k => more[n + 1] = flat[n + 1]}
  <2>1. 0 \in N
      BY <1>4, <1>6
  <2>2. ASSUME NEW n \in N
        PROVE  n + 1 \in N
    <3> SUFFICES ASSUME n + 1 < k
                 PROVE  more[n + 2] = flat[n + 2]
        OBVIOUS
    <3>1. n + 2 \in 1..k /\ n + 2 \in 1..(k + 1) /\ n + 2 # 1 /\ (n + 2) - 1 = n + 1 /\ n < k
        OBVIOUS
    <3>2. more[n + 1] = flat[n + 1]
        BY <3>1
    <3>3. more[n + 2] = more[n + 1] \o t[n + 2] /\ flat[n + 2] = flat[n + 1] \o s[n + 2]
        BY <1>4, <3>1
    <3> QED
        BY <3>1, <3>2, <3>3
  <2>3. \A n \in Nat : n \in N
    <3> HIDE DEF N
    <3>1. N \in SUBSET Nat
        BY DEF N
    <3> QED
        BY <2>1, <2>2, <3>1, Induction
  <2>4. k - 1 \in Nat /\ k - 1 < k /\ (k - 1) + 1 = k
      BY <1>6
  <2>5. more[k] = flat[k]
      BY <2>3, <2>4
  <2>6. k + 1 \in 1..(k + 1) /\ k + 1 # 1 /\ (k + 1) - 1 = k
      BY <1>6
  <2>7. more[k + 1] = more[k] \o t[k + 1]
      BY <1>4, <2>6
  <2> QED
      BY <1>2, <1>3, <1>6, <2>5, <2>7
<1> QED
    BY <1>5, <1>6

=============================================================================
