------------------------------ MODULE Amounts ------------------------------
(***************************************************************************)
(* Amounts added up from left to right, as the code adds its floats.       *)
(***************************************************************************)
EXTENDS Integers, Sequences

Sums(amounts) ==
    LET sum[n \in 0 .. Len(amounts)] == IF n = 0 THEN 0 ELSE sum[n - 1] + amounts[n]
    IN  sum

SumOf(amounts) == Sums(amounts)[Len(amounts)]
=============================================================================
