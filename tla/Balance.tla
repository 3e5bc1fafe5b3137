------------------------------ MODULE Balance ------------------------------
(***************************************************************************)
(* verl/utils/seqlen_balancing.py: rows of different lengths are split     *)
(* into parts of about equal total length with the largest differencing    *)
(* method of Karmarkar and Karp.  A state is a sequence of k sets of rows, *)
(* heaviest first; the two states with the largest spread are merged until *)
(* one is left.                                                            *)
(***************************************************************************)
EXTENDS Integers, Sequences, FiniteSets, FiniteSetsExt, SequencesExt

Weight(lens, S) == SumFunctionOnSet(lens, S)

\* The elements of S, first those that come before others.
Ordered(S, before) ==
    LET first[n \in 0..Cardinality(S)] ==
            IF n = 0 THEN << >>
            ELSE LET done == first[n - 1]
                     left == S \ ToSet(done)
                 IN  Append(done, CHOOSE x \in left : \A y \in left \ {x} : <<x, y>> \in before)
    IN  first[Cardinality(S)]

\* Set.__lt__, up to the items that break a tie of weight and size.
Heavier(lens, S, Q) ==
    \/ Weight(lens, S) > Weight(lens, Q)
    \/ Weight(lens, S) = Weight(lens, Q) /\ Cardinality(S) > Cardinality(Q)

\* Heaviest first; sets that tie keep their order.
HeaviestFirst(lens, state) ==
    {x \in (DOMAIN state) \X (DOMAIN state) :
        \/ Heavier(lens, state[x[1]], state[x[2]])
        \/ ~Heavier(lens, state[x[2]], state[x[1]]) /\ x[1] < x[2]}

Sorted(lens, state) ==
    LET order == Ordered(DOMAIN state, HeaviestFirst(lens, state))
    IN  [i \in DOMAIN state |-> state[order[i]]]

Spread(lens, state) == Weight(lens, Head(state)) - Weight(lens, Last(state))

\* Mutant: heaviest to heaviest.
MergeStatesAligned(lens, s, t) == Sorted(lens, [i \in DOMAIN s |-> s[i] \cup t[i]])

\* State.merge: the heaviest set takes in the other state's lightest.
MergeStates(lens, s, t) ==
    Sorted(lens, [i \in DOMAIN s |-> s[i] \cup t[Len(s) + 1 - i]])

\* State.__lt__: the heap gives the state with the largest spread first.
PopFirst(lens, states) ==
    CHOOSE s \in states : \A t \in states :
        \/ Spread(lens, s) > Spread(lens, t)
        \/ Spread(lens, s) = Spread(lens, t) /\ ~Heavier(lens, Head(t), Head(s))

MergeTwo(lens, states) ==
    LET s == PopFirst(lens, states)
        t == PopFirst(lens, states \ {s})
    IN  (states \ {s, t}) \cup {MergeStates(lens, s, t)}

\* The shorter of two rows first, and of equals the earlier.
ShortestFirst(lens) ==
    {x \in (DOMAIN lens) \X (DOMAIN lens) :
        lens[x[1]] < lens[x[2]] \/ (lens[x[1]] = lens[x[2]] /\ x[1] < x[2])}

ByLength(lens) == Ordered(DOMAIN lens, ShortestFirst(lens))

\* With equal_size a first state holds k neighbours in length, one per set;
\* otherwise each row is a state of its own.
FirstStates(lens, k, equal) ==
    LET row == ByLength(lens)
    IN  IF equal
        THEN {Sorted(lens, [i \in 1..k |-> {row[o * k + i]}]) : o \in 0..(Len(lens) \div k - 1)}
        ELSE {[i \in 1..k |-> IF i = 1 THEN {row[j]} ELSE {}] : j \in DOMAIN row}

\* The two states with the largest spread are merged until one is left.
KarmarkarKarp(lens, k, equal) ==
    LET first == FirstStates(lens, k, equal)
        merged[n \in 0..(Cardinality(first) - 1)] ==
            IF n = 0 THEN first ELSE LET states == merged[n - 1] IN MergeTwo(lens, states)
    IN  CHOOSE s \in merged[Cardinality(first) - 1] : TRUE

Ascending(S) == Ordered(S, {x \in S \X S : x[1] < x[2]})

\* get_seqlen_balanced_partitions: the parts, each in ascending order.
Partitions(lens, k, equal) ==
    [p \in 1..k |-> Ascending(KarmarkarKarp(lens, k, equal)[p])]

-----------------------------------------------------------------------------
(* rearrange_micro_batches: as many parts as the tokens need, on every rank *)
(* the maximum over the ranks (all_reduce).                                 *)

TotalLength(lens) == Weight(lens, DOMAIN lens)

MicroBatches(lens, tokens) ==
    LET needed == (TotalLength(lens) + tokens - 1) \div tokens
    IN  IF needed < Len(lens) THEN needed ELSE Len(lens)

\* Mutant: each rank for itself.
OwnMicroBatches(lensOf, r, tokens) == MicroBatches(lensOf[r], tokens)

AgreedMicroBatches(lensOf, r, tokens) == Max({MicroBatches(lensOf[u], tokens) : u \in DOMAIN lensOf})

\* get_reverse_idx: where position i went.
ReverseIdx(positions) == [i \in DOMAIN positions |-> CHOOSE p \in DOMAIN positions : positions[p] = i]
=============================================================================
