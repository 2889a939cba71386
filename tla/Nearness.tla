------------------------------ MODULE Nearness ------------------------------
(***************************************************************************)
(* How far two times are apart, for the lookups of reader.Recording and    *)
(* the time vcap.barcode makes of a number.                                *)
(***************************************************************************)
EXTENDS Integers

Distance(a, b) == IF a < b THEN b - a ELSE a - b

\* Of C the one nearest to t in time, the first of equals.
NearestOf(C, time, t) ==
    CHOOSE j \in C : \A k \in C :
        \/ Distance(time[j], t) < Distance(time[k], t)
        \/ Distance(time[j], t) = Distance(time[k], t) /\ j <= k

\* barcode.reconstruct_ms: of the times whose low part is encoded, in the
\* period of the reference and the two beside it, the nearest to the
\* reference, the earliest of equals.
Recovered(encoded, reference, period) ==
    LET base == (reference \div period) * period
        candidates == {base + encoded - period, base + encoded, base + encoded + period}
    IN  NearestOf(candidates, [c \in candidates |-> c], reference)
=============================================================================
