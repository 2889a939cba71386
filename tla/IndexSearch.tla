---------------------------- MODULE IndexSearch -----------------------------
(***************************************************************************)
(* index.IndexReader.search of vcap_py: the binary search every lookup by  *)
(* time goes through, one step per round of its loop, one call after       *)
(* another.                                                                *)
(***************************************************************************)
EXTENDS Index

VARIABLES
    index,   \* the index searched, [count, ts]
    target,  \* ts_mono_ns
    lo, hi,  \* the range still to be searched
    best,    \* the best record found so far, -1 for none
    pc       \* "idle" before the first call, "loop" in it, "done" after it

searchVars == <<index, target, lo, hi, best, pc>>

NoIndex == [count |-> 0, ts |-> [i \in 0..-1 |-> 0]]

SearchTypeOK ==
    /\ IsIndex(index)
    /\ target \in Int
    /\ lo \in 0..index.count
    /\ hi \in -1..(index.count - 1)
    /\ best \in -1..(index.count - 1)
    /\ pc \in {"idle", "loop", "done"}

SearchInit ==
    /\ index = NoIndex
    /\ target = 0
    /\ lo = 0 /\ hi = -1 /\ best = -1
    /\ pc = "idle"

Begin(x, t) ==
    /\ pc # "loop"
    /\ index' = x
    /\ target' = t
    /\ lo' = 0
    /\ hi' = x.count - 1
    /\ best' = -1
    /\ pc' = "loop"

Mid == (lo + hi) \div 2

\* Mutant: a hit ends the search, the first of equals or not.
GoRightStopsAtEqual ==
    /\ pc = "loop"
    /\ lo <= hi
    /\ index.ts[Mid] <= target
    /\ best' = Mid
    /\ lo' = IF index.ts[Mid] = target THEN hi + 1 ELSE Mid + 1
    /\ UNCHANGED <<index, target, hi, pc>>

GoRight ==
    /\ pc = "loop"
    /\ lo <= hi
    /\ index.ts[Mid] <= target
    /\ best' = Mid
    /\ lo' = Mid + 1
    /\ UNCHANGED <<index, target, hi, pc>>

GoLeft ==
    /\ pc = "loop"
    /\ lo <= hi
    /\ index.ts[Mid] > target
    /\ hi' = Mid - 1
    /\ UNCHANGED <<index, target, lo, best, pc>>

Return ==
    /\ pc = "loop"
    /\ lo > hi
    /\ pc' = "done"
    /\ UNCHANGED <<index, target, lo, hi, best>>

Round == GoRight \/ GoLeft \/ Return

SearchNext == Round \/ \E x \in Indexes, t \in Targets : Begin(x, t)

SearchSpec == SearchInit /\ [][SearchNext]_searchVars

-----------------------------------------------------------------------------
(* Properties.                                                             *)

\* search returns the last frame captured at or before the timestamp.
SearchIsRight ==
    pc = "done" => IsLastAtOrBefore(index.ts, index.count, target, best)

\* Every round shrinks the range: the loop cannot go round for ever, as it
\* would if a bound were set to mid itself.
RangeShrinks ==
    [][pc = "loop" /\ pc' = "loop" => hi' - lo' < hi - lo]_searchVars

\* The records already excluded really are, and best is the record just
\* before the range.
Excluded ==
    /\ \A i \in 0..(lo - 1) : index.ts[i] <= target
    /\ \A i \in (hi + 1)..(index.count - 1) : index.ts[i] > target
    /\ best = lo - 1
    /\ lo <= hi + 1
    /\ pc # "loop" => lo > hi
=============================================================================
