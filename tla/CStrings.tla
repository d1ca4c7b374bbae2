------------------------------ MODULE CStrings ------------------------------
(***************************************************************************)
(* What Swift's arrays and the C functions make of strings, which are      *)
(* sequences of numbers: the length up to a NUL, running totals, and       *)
(* strings put one behind the other.                                       *)
(*                                                                         *)
(* The running totals and joins are recursive functions, not folds, so     *)
(* that CStrings_proofs can say what they compute.                         *)
(***************************************************************************)
EXTENDS Integers, Sequences

NUL == 0

\* strlen(x), of a buffer that ends in a NUL or behind its last character.
CLength(x) ==
    CHOOSE n \in 0 .. Len(x) :
        /\ \A k \in 1 .. n : x[k] # NUL
        /\ n < Len(x) => x[n + 1] = NUL

\* What a C string function sees of x.
CutAtNul(x) == SubSeq(x, 1, CLength(x))

\* scan(counts, 0, +), with the 0 in front of it.
Sums(counts) ==
    LET sum[k \in 0 .. Len(counts)] == IF k = 0 THEN 0 ELSE sum[k - 1] + counts[k]
    IN sum

\* append(contentsOf:) of one sequence after the other.
Joins(xs) ==
    LET join[k \in 0 .. Len(xs)] == IF k = 0 THEN <<>> ELSE join[k - 1] \o xs[k]
    IN join

\* All of them.
Joined(xs) == Joins(xs)[Len(xs)]
=============================================================================
