------------------------------- MODULE Index --------------------------------
(***************************************************************************)
(* A .idx file as index.IndexReader of vcap_py presents it: a number of    *)
(* whole records, numbered from 0, and the timestamp of each.  What a      *)
(* lookup by time asks of it is stated here, for the binary search and for *)
(* the recordings made of several indexes.                                 *)
(***************************************************************************)
EXTENDS Integers

CONSTANTS
    Indexes,  \* the indexes that are searched
    Targets   \* the timestamps that are looked for

\* Timestamps of one recording do not go backwards: that is what search
\* needs of an index, and what vcap-verify checks of a recording.
Ascending(ts, n) == \A i, j \in 0..(n - 1) : i <= j => ts[i] <= ts[j]

IsIndex(x) ==
    /\ x.count \in Nat
    /\ x.ts \in [0..(x.count - 1) -> Int]
    /\ Ascending(x.ts, x.count)

ASSUME IndexesAssumption == \A x \in Indexes : IsIndex(x)
ASSUME TargetsAssumption == Targets \subseteq Int

\* What search promises: the last record at or before the target, and -1
\* exactly when every record is later.  Duplicate timestamps give the last.
IsLastAtOrBefore(ts, n, t, r) ==
    /\ r \in -1..(n - 1)
    /\ r >= 0 => ts[r] <= t
    /\ \A i \in 0..(n - 1) : i > r => ts[i] > t
=============================================================================
