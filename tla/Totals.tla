-------------------------------- MODULE Totals --------------------------------
(* Sums of the numbers in a sequence, for the properties that count.       *)
EXTENDS Naturals, Sequences

Total(counts) ==
    LET upto[k \in 0 .. Len(counts)] == IF k = 0 THEN 0 ELSE upto[k - 1] + counts[k]
    IN  upto[Len(counts)]
=============================================================================
