----------------------------- MODULE DataProto -----------------------------
(***************************************************************************)
(* The batch that driver and workers exchange (verl/protocol.py): a        *)
(* sequence of rows, cut into equal chunks for the ranks of a worker group *)
(* and put together from their answers.                                    *)
(***************************************************************************)
EXTENDS Integers, Sequences

\* select_idxs and reorder: the rows at the given positions, in their order.
Select(b, positions) == [i \in 1..Len(positions) |-> b[positions[i]]]

\* How many rows n lacks to be a multiple of d.
Missing(n, d) == IF n % d = 0 THEN 0 ELSE d - (n % d)

\* DataProto.padding: the last row again and again.
PadLast(b, d) == [i \in 1..(Len(b) + Missing(Len(b), d)) |->
                    b[IF i <= Len(b) THEN i ELSE Len(b)]]

\* Mutant: the wrong end.
UnpadFront(b, k) == SubSeq(b, k + 1, Len(b))

\* unpad_dataproto, and what func_generator drops from the output.
Unpad(b, k) == SubSeq(b, 1, Len(b) - k)

\* chunk: n equal parts; the caller has checked that the rows divide.
Chunk(b, n) == LET k == Len(b) \div n
               IN [r \in 1..n |-> [j \in 1..k |-> b[(r - 1) * k + j]]]

\* Mutant: the first row of each rank, then the second.
ConcatInterleaved(parts) ==
    LET k == Len(parts)
    IN  [i \in 1..(k * Len(parts[1])) |-> parts[((i - 1) % k) + 1][((i - 1) \div k) + 1]]

\* concat of equal parts, in the order of the ranks.
Concat(parts) == LET k == Len(parts[1])
                 IN [i \in 1..(k * Len(parts)) |->
                       parts[((i - 1) \div k) + 1][((i - 1) % k) + 1]]

\* torch's split: parts of k rows, the last one what is left.
Split(b, k) == [p \in 1..((Len(b) + k - 1) \div k) |->
                  SubSeq(b, (p - 1) * k + 1,
                         IF p * k <= Len(b) THEN p * k ELSE Len(b))]

\* torch.chunk: the rows of a part if n rows are cut into k parts.
PartSize(n, k) == (n + k - 1) \div k

\* DataProto.chunk's assertions on n rows: equal parts or, where padding is
\* enabled, as many parts as were asked for.
Chunkable(n, k, padded) ==
    /\ k > 0
    /\ IF padded THEN (n + PartSize(n, k) - 1) \div PartSize(n, k) = k ELSE n % k = 0
=============================================================================
