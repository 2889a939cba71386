---------------------------- MODULE MCRecording -----------------------------
(* All recordings of up to four frames in up to three segments, and of     *)
(* five in one, over three timestamps: empty segments anywhere, equal      *)
(* timestamps on both sides of a rollover, gaps.                           *)
EXTENDS Playback, MCJpeg

MCTimes == {0, 2, 5}

MCIndexes ==
    UNION {{[count |-> n, ts |-> ts] :
               ts \in {f \in [0..(n - 1) -> MCTimes] : Ascending(f, n)}}
           : n \in 0..5}

Total(r) == FoldFunction(LAMBDA x, n : x.count + n, 0, r)

MCRecordings ==
    {r \in UNION {[1..n -> {x \in MCIndexes : x.count <= 4}] : n \in 0..3} :
        Total(r) <= 4 /\ InOrder(r)}
    \cup {<<x>> : x \in {y \in MCIndexes : y.count = 5}}

MCTargets == -1..6
MCTolerances == {AnyDistance, 0, 1}
=============================================================================
