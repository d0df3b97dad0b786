-------------------------------- MODULE Lists --------------------------------
(***************************************************************************)
(* What the code does to a Python list, on a sequence: a comprehension with*)
(* a condition, sum() and sorted(). Each is written with a set or a        *)
(* sequence as its argument, never with an operator, so that ListTheorems  *)
(* can say once what it does and a proof can cite that.                    *)
(***************************************************************************)
EXTENDS SequencesExt, Integers

(* [x for x in seq if x in good]                                           *)
Those(seq, good) ==
    FoldLeft(LAMBDA kept, x : IF x \in good THEN Append(kept, x) ELSE kept, <<>>, seq)

(* sum(numbers)                                                            *)
SumOf(numbers) == FoldLeft(LAMBDA sum, n : sum + n, 0, numbers)

(* The elements of a finite set in a strict total order, which is given as *)
(* the set of its pairs: an element comes after all that are before it.    *)
InOrder(S, before) ==
    [k \in 1 .. Cardinality(S) |->
        CHOOSE x \in S : Cardinality({y \in S : <<y, x>> \in before}) = k - 1]

(* seq[:n]                                                                 *)
First(seq, n) == SubSeq(seq, 1, IF Len(seq) < n THEN Len(seq) ELSE n)
=============================================================================
