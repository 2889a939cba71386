----------------------------- MODULE Recording ------------------------------
(***************************************************************************)
(* reader.Recording of vcap_py, the lookups: a recording is a sequence of  *)
(* segments, each with an index of its own, presented as one sequence of   *)
(* frames numbered from 0.  One call per behaviour: the recording and the  *)
(* question are chosen, the answer is computed the way the code does, its  *)
(* binary search step by step, and the properties compare it with the      *)
(* answer over the whole timeline.                                         *)
(***************************************************************************)
EXTENDS IndexSearch, Nearness, Sequences, SequencesExt

CONSTANTS
    Recordings, \* recordings, each a sequence of indexes [count, ts]
    Tolerances, \* tolerances asked for, AnyDistance standing for None
    AnyDistance

VARIABLES
    rec,   \* the recording
    call,  \* the question: [op, ...] or NoCall
    answered, \* the call has returned
    answer \* what it returned, None standing for None

vars == <<rec, call, answered, answer, searchVars>>

None == -2
NoCall == [op |-> "none"]

\* Segment after segment, time goes on.
InOrder(r) ==
    \A s, u \in 1..Len(r) : s < u =>
        \A i \in 0..(r[s].count - 1), j \in 0..(r[u].count - 1) :
            r[s].ts[i] <= r[u].ts[j]

ASSUME RecordingsAssumption ==
    \A r \in Recordings : r \in Seq(Indexes) /\ InOrder(r)
ASSUME TolerancesAssumption == Tolerances \ {AnyDistance} \subseteq Int

Init ==
    /\ SearchInit
    /\ rec \in Recordings
    /\ call = NoCall /\ answered = FALSE /\ answer = None

-----------------------------------------------------------------------------
(* Recording.__init__: the frames before each segment, and all of them.    *)

Start[s \in 1..(Len(rec) + 1)] == IF s = 1 THEN 0 ELSE Start[s - 1] + rec[s - 1].count

Count == Start[Len(rec) + 1]

Latest(S) == CHOOSE s \in S : \A t \in S : t <= s

\* Mutant: -1 is the last frame but one.
FromEndOneOff(g) ==
    IF g < 0 THEN g + Count - 1 ELSE g

\* _locate: the last segment that starts at or before frame g, and the
\* record of it g is; a negative g counts from the end.
FromEnd(g) == IF g < 0 THEN g + Count ELSE g

\* IndexError
OutOfRange == <<>>

Locate(g) ==
    LET s == Latest({s \in 1..Len(rec) : Start[s] <= g})
    IN  <<s, g - Start[s]>>

Time(g) == LET at == Locate(g) IN rec[at[1]].ts[at[2]]

\* The segments that have a frame at or before t.
Begun(t) == {s \in 1..Len(rec) : rec[s].count > 0 /\ rec[s].ts[0] <= t}

\* Mutant: the frames of earlier segments are not counted.
IndexAtLocal(t) == IF Begun(t) = {} THEN -1 ELSE best

\* index_at: the last of them answers, with what its search returned.
IndexAt(t) == IF Begun(t) = {} THEN -1 ELSE Start[Latest(Begun(t))] + best

\* Mutant: only the frame before is considered.
AtOrBefore(t, tolerance) ==
    LET i == IndexAt(t)
        near == IF i < 0 THEN 0 ELSE i
    IN  IF Count = 0 \/ (tolerance # AnyDistance /\ Distance(Time(near), t) > tolerance)
        THEN None ELSE near

\* at: of the frames before and after t the nearer one, the earlier one if
\* they are equally near, if it is within the tolerance.
At(t, tolerance) ==
    LET i == IndexAt(t)
        candidates == {j \in {i, i + 1} : 0 <= j /\ j < Count}
        near == NearestOf(candidates, [j \in candidates |-> Time(j)], t)
    IN  IF Count = 0 \/ (tolerance # AnyDistance /\ Distance(Time(near), t) > tolerance)
        THEN None ELSE near

\* IndexReader.nearest, on the index of one segment
Nearest(x, t) ==
    IF x.count = 0 THEN None
    ELSE IF best < 0 THEN 0
    ELSE IF best >= x.count - 1 THEN x.count - 1
    ELSE IF t - x.ts[best] <= x.ts[best + 1] - t THEN best ELSE best + 1

-----------------------------------------------------------------------------
Ask(question) ==
    /\ call = NoCall
    /\ call' = question
    /\ UNCHANGED rec

AskLocate(g) ==
    /\ Ask([op |-> "locate", g |-> g])
    /\ answered' = TRUE
    /\ answer' = IF FromEnd(g) \in 0..(Count - 1) THEN Locate(FromEnd(g)) ELSE OutOfRange
    /\ UNCHANGED searchVars

\* index_at calls search, unless everything is later than t.
SearchBegun(t) ==
    IF Begun(t) = {} THEN UNCHANGED searchVars
    ELSE Begin(rec[Latest(Begun(t))], t)

AskIndexAt(t) ==
    /\ Ask([op |-> "index_at", t |-> t])
    /\ SearchBegun(t)
    /\ UNCHANGED <<answered, answer>>

AskAt(t, tolerance) ==
    /\ Ask([op |-> "at", t |-> t, tolerance |-> tolerance])
    /\ SearchBegun(t)
    /\ UNCHANGED <<answered, answer>>

AskNearest(s, t) ==
    /\ Ask([op |-> "nearest", s |-> s, t |-> t])
    /\ IF rec[s].count = 0 THEN UNCHANGED searchVars ELSE Begin(rec[s], t)
    /\ UNCHANGED <<answered, answer>>

Searching == Round /\ UNCHANGED <<rec, call, answered, answer>>

Reply(op, result) ==
    /\ call.op = op /\ ~answered
    /\ pc # "loop"
    /\ answered' = TRUE /\ answer' = result
    /\ UNCHANGED <<rec, call, searchVars>>

ReplyIndexAt == Reply("index_at", IndexAt(call.t))
ReplyAt == Reply("at", At(call.t, call.tolerance))
ReplyNearest == Reply("nearest", Nearest(rec[call.s], call.t))

Answered == answered /\ UNCHANGED vars

Next ==
    \/ \E g \in -(Count + 1)..Count : AskLocate(g)
    \/ \E t \in Targets : AskIndexAt(t)
    \/ \E t \in Targets, tolerance \in Tolerances : AskAt(t, tolerance)
    \/ \E s \in 1..Len(rec), t \in Targets : AskNearest(s, t)
    \/ Searching
    \/ ReplyIndexAt \/ ReplyAt \/ ReplyNearest
    \/ Answered

Spec == Init /\ [][Next]_vars

-----------------------------------------------------------------------------
(* The reference: the recording laid out as one sequence.                  *)

\* <<segment, local index>> of every frame, in order
Timeline ==
    FlattenSeq([s \in 1..Len(rec) |-> [k \in 1..rec[s].count |-> <<s, k - 1>>]])

TimeOf(g) == rec[Timeline[g + 1][1]].ts[Timeline[g + 1][2]]

Frames == 0..(Len(Timeline) - 1)

\* g is a frame of F nearest to t, in time the earlier one if two are.
IsNearest(g, F, time, t) ==
    /\ g \in F
    /\ \A k \in F :
        \/ Distance(time[g], t) < Distance(time[k], t)
        \/ Distance(time[g], t) = Distance(time[k], t) /\ time[g] <= time[k]

-----------------------------------------------------------------------------
(* Properties.                                                             *)

\* A frame number finds the frame with that number, from either end, whatever
\* way the recording is cut into segments, empty ones included; and exactly the
\* numbers that no frame has are out of range.
LocateIsPosition ==
    call.op = "locate" =>
        LET i == (IF call.g < 0 THEN call.g + Len(Timeline) ELSE call.g) + 1
        IN  answer = IF i \in 1..Len(Timeline) THEN Timeline[i] ELSE OutOfRange

Times == [g \in Frames |-> TimeOf(g)]

\* index_at searches one segment and is right about all of them.
IndexAtIsGlobal ==
    call.op = "index_at" /\ answered =>
        IsLastAtOrBefore(Times, Len(Timeline), call.t, answer)

\* at returns a nearest frame of the whole recording, and None exactly when
\* no frame of it is within the tolerance; nearest does the same for one
\* segment.
NearestIsNearest ==
    answered =>
        /\ call.op = "at" =>
              LET tooFar(k) == call.tolerance # AnyDistance
                                /\ Distance(Times[k], call.t) > call.tolerance
              IN  IF answer = None THEN \A k \in Frames : tooFar(k)
                  ELSE ~tooFar(answer) /\ IsNearest(answer, Frames, Times, call.t)
        /\ call.op = "nearest" =>
              LET x == rec[call.s]
              IN  IF answer = None THEN x.count = 0
                  ELSE IsNearest(answer, 0..(x.count - 1), x.ts, call.t)
=============================================================================
