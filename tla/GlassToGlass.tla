---------------------------- MODULE GlassToGlass ----------------------------
(***************************************************************************)
(* tools/vcap-glass-to-glass: a window shows the time as bars, a thread    *)
(* captures frames of the display, and the main thread, when the window is *)
(* gone, reads the bars back and subtracts.                                *)
(*                                                                         *)
(* Times are whole milliseconds of one clock.  What display, cable and     *)
(* card make of the window is a scene (geometry, levels, surroundings) and *)
(* what each frame caught: one painting, or two of them torn, perhaps with *)
(* one bar misread.                                                        *)
(***************************************************************************)
EXTENDS Barcode

CONSTANTS
    Scenes,      \* sequence of [covered, left, pitch, white, black, background],
                 \* see Columns
    FirstPaint,  \* time of the first painting
    Gaps,        \* times between paintings
    Takes,       \* what may happen to a frame, [lag, torn, mix, misread, state]:
                 \* lag is from the latest painting to its timestamp; mix quarters of the band's rows show the latest painting,
                 \* the others the one before if torn; a bar may be misread,
                 \* 0 for none; state "flagged" is that of a frame not ok, and
                 \* "broken" that of one that is ok and cannot be decoded
    MaxPaints,   \* bound: paintings
    FramesWanted \* --frames

ASSUME GlassAssumption ==
    /\ FirstPaint \in Nat /\ Gaps \subseteq Nat
    /\ Takes \subseteq [lag : Int, torn : BOOLEAN, mix : 0..4, misread : 0..TotalBars,
                        state : {"ok", "flagged", "broken"}]
    /\ MaxPaints \in Nat \ {0} /\ FramesWanted \in Nat \ {0}

\* A frame is of paintings not half a wrap old, as reconstruct_ms takes for
\* granted: tens of milliseconds, and not minutes.
ASSUME IntervalsAssumption ==
    \A take \in Takes, gap \in {0} \cup Gaps : 2 * Distance(take.lag + gap, 0) < WrapMs

VARIABLES
    scene,
    main,     \* the main thread: "loop" of the window, "join", "judge" how
              \* the thread ended, "count" what it captured, "measure", "exited"
    outcome,  \* how it exited: "result" (code 0), "error", "empty" or
              \* "unreadable" (code 1), "crashed" with a traceback
    paints,   \* times of the paintings
    worker,   \* the thread: "open", "read", "check" a frame, "store" it,
              \* "close", "finally", "dead"
    cause,    \* an exception is under way in it
    late,     \* the deadline has passed
    frame,    \* the frame the thread holds
    done, error, captured,  \* of Measurement
    gaveUp,   \* history: the join timed out
    judged,   \* frames measured
    latencies \* of measure(): [of, latency], of being a frame's place

workerVars == <<worker, cause, late, frame, captured, error>>
measureVars == <<judged, latencies, outcome>>
glassVars == <<scene, main, outcome, paints, worker, cause, late, frame,
               done, error, captured, gaveUp, judged, latencies>>

-----------------------------------------------------------------------------
(* The bars on the display, and a frame of them.                           *)

\* band_columns of a picture.  Bars are pitch half columns wide, from column
\* left; where there are none, or if the window is covered, the background
\* shows.
Columns(p) ==
    LET s == Scenes[p.scene]
        old == Encode(p.old)
        new == Encode(p.new)
        lit(isWhite, b) == IF isWhite # (b = p.misread) THEN s.white ELSE s.black
        level == [b \in 1..TotalBars |->
                    ((4 - p.mix) * lit(old[b], b) + p.mix * lit(new[b], b)) \div 4]
        bar(x) == (2 * x + 1 - 2 * s.left) \div s.pitch + 1
    IN  [x \in DOMAIN s.background |->
            IF s.covered \/ bar(x) \notin 1..TotalBars THEN s.background[x]
            ELSE level[bar(x)]]

\* The times of the first n paintings, and the pictures there can be of them.
PaintTimes[n \in 1..MaxPaints] ==
    IF n = 1 THEN {FirstPaint}
    ELSE PaintTimes[n - 1] \cup {t + gap : t \in PaintTimes[n - 1], gap \in Gaps}

Pictures ==
    {[scene |-> s, old |-> t % WrapMs, new |-> (t + gap) % WrapMs,
      mix |-> take.mix, misread |-> take.misread] :
        s \in DOMAIN Scenes, t \in PaintTimes[MaxPaints], gap \in {0} \cup Gaps,
        take \in Takes}

Picture(f) == [scene |-> scene, old |-> f.old % WrapMs, new |-> f.new % WrapMs,
               mix |-> f.mix, misread |-> f.misread]

\* decode_dc_image of every picture
Reading == {[picture |-> p, number |-> DecodeColumns(Columns(p))] : p \in Pictures}

\* ... and of a frame.
Encoded(f) == (CHOOSE r \in Reading : r.picture = Picture(f)).number

Frame == [ts : Int, old : Nat, new : Nat, mix : 0..4, misread : 0..TotalBars,
          state : {"ok", "flagged", "broken"}]

NoFrame == [state |-> "none"]

LastPainted == paints[Len(paints)]
Before == paints[Max({1, Len(paints) - 1})]

TypeOK ==
    /\ scene \in DOMAIN Scenes
    /\ main \in {"loop", "join", "judge", "count", "measure", "exited"}
    /\ outcome \in {"none", "result", "error", "empty", "unreadable", "crashed"}
    /\ paints \in Seq(Nat) /\ Len(paints) \in 1..MaxPaints
    /\ worker \in {"open", "read", "check", "store", "close", "finally", "dead"}
    /\ cause \in BOOLEAN
    /\ late \in BOOLEAN
    /\ frame \in Frame \cup {NoFrame}
    /\ done \in BOOLEAN
    /\ error \in BOOLEAN
    /\ captured \in Seq(Frame) /\ Len(captured) <= FramesWanted
    /\ gaveUp \in BOOLEAN
    /\ judged \in 0..Len(captured)
    /\ latencies \in Seq([of : 1..judged, latency : Int])

GlassInit ==
    /\ scene \in DOMAIN Scenes
    /\ main = "loop" /\ outcome = "none"
    /\ paints = <<FirstPaint>>
    /\ worker = "open" /\ cause = FALSE
    /\ late = FALSE /\ frame = NoFrame
    /\ done = FALSE /\ error = FALSE /\ captured = <<>>
    /\ gaveUp = FALSE
    /\ judged = 0 /\ latencies = <<>>

-----------------------------------------------------------------------------
(* capture(), on a thread of its own.                                      *)

Working == main # "exited"

WorkerTo(step) == worker' = step /\ UNCHANGED <<scene, main, paints, gaveUp, measureVars>>

Open ==
    /\ Working /\ worker = "open"
    /\ \/ WorkerTo("read") /\ UNCHANGED error
       \/ WorkerTo("finally") /\ error' = TRUE
    /\ UNCHANGED <<cause, late, frame, done, captured>>

\* The deadline passes; it is asked for in the loop only.
Expire ==
    /\ Working /\ worker \in {"read", "check"}
    /\ ~late /\ late' = TRUE
    /\ UNCHANGED <<scene, main, paints, worker, cause, frame, done, error, captured,
                   gaveUp, measureVars>>

\* A frame of the latest painting, or of it and the one before.
Arrive ==
    /\ Working /\ worker = "read"
    /\ \E take \in Takes :
        frame' = [ts |-> LastPainted + take.lag, new |-> LastPainted,
                  old |-> IF take.torn THEN Before ELSE LastPainted,
                  mix |-> take.mix, misread |-> take.misread, state |-> take.state]
    /\ WorkerTo("check")
    /\ UNCHANGED <<cause, late, done, error, captured>>

\* NoSignal after 3 s, StreamError or OSError
ReadThrows ==
    /\ Working /\ worker = "read"
    /\ cause' = TRUE
    /\ WorkerTo("close")
    /\ UNCHANGED <<late, frame, done, error, captured>>

\* The window has been closed, or the deadline has passed.
Stop ==
    /\ Working /\ worker = "check"
    /\ done \/ late
    /\ frame' = NoFrame
    /\ WorkerTo("close")
    /\ UNCHANGED <<cause, late, done, error, captured>>

Skip ==
    /\ Working /\ worker = "check"
    /\ ~done /\ ~late
    /\ frame.state = "flagged"
    /\ frame' = NoFrame
    /\ WorkerTo("read")
    /\ UNCHANGED <<cause, late, done, error, captured>>

\* Once tested, a frame is stored whatever happens meanwhile.
Keep ==
    /\ Working /\ worker = "check"
    /\ ~done /\ ~late
    /\ frame.state # "flagged"
    /\ WorkerTo("store")
    /\ UNCHANGED <<cause, late, frame, done, error, captured>>

Store ==
    /\ Working /\ worker = "store"
    /\ captured' = Append(captured, frame)
    /\ frame' = NoFrame
    /\ WorkerTo(IF Len(captured') >= FramesWanted THEN "close" ELSE "read")
    /\ UNCHANGED <<cause, late, done, error>>

\* The with statement closes the source, and an exception becomes the error.
Close ==
    /\ Working /\ worker = "close"
    /\ error' = (error \/ cause)
    /\ WorkerTo("finally")
    /\ UNCHANGED <<cause, late, frame, done, captured>>

\* Mutant: only an error closes the window.
FinallyOnError ==
    /\ Working /\ worker = "finally"
    /\ done' = (done \/ error)
    /\ WorkerTo("dead")
    /\ UNCHANGED <<cause, late, frame, error, captured>>

Finally ==
    /\ Working /\ worker = "finally"
    /\ done' = TRUE
    /\ WorkerTo("dead")
    /\ UNCHANGED <<cause, late, frame, error, captured>>

-----------------------------------------------------------------------------
(* The main thread: show_pattern() and main().                             *)

\* tick: another painting, some time after the one before.
Paint ==
    /\ main = "loop"
    /\ ~done
    /\ Len(paints) < MaxPaints
    /\ \E gap \in Gaps : paints' = Append(paints, LastPainted + gap)
    /\ UNCHANGED <<scene, main, done, gaveUp, workerVars, measureVars>>

\* WM_DELETE_WINDOW
CloseWindow ==
    /\ main = "loop"
    /\ ~done
    /\ done' = TRUE
    /\ UNCHANGED <<scene, main, paints, gaveUp, workerVars, measureVars>>

\* tick, when all is done; or KeyboardInterrupt.
LeaveLoop ==
    /\ main = "loop"
    /\ done' = TRUE
    /\ main' = "join"
    /\ UNCHANGED <<scene, paints, gaveUp, workerVars, measureVars>>

\* worker.join(timeout=5.0)
Join ==
    /\ main = "join"
    /\ main' = "judge"
    /\ gaveUp' = (worker # "dead")
    /\ UNCHANGED <<scene, paints, done, workerVars, measureVars>>

Exit(how) == main' = "exited" /\ outcome' = how

Judge ==
    /\ main = "judge"
    /\ IF error THEN Exit("error") ELSE main' = "count" /\ UNCHANGED outcome
    /\ UNCHANGED <<scene, paints, done, gaveUp, workerVars, judged, latencies>>

JudgeFrames ==
    /\ main = "count"
    /\ IF captured = <<>> THEN Exit("empty") ELSE main' = "measure" /\ UNCHANGED outcome
    /\ UNCHANGED <<scene, paints, done, gaveUp, workerVars, judged, latencies>>

\* The number read in a frame, if it is a JPEG.
Number(f) == IF f.state = "ok" THEN Encoded(f) ELSE Refused

Judged(latency) ==
    /\ judged' = judged + 1
    /\ latencies' = IF -50 < latency /\ latency < 1000
                    THEN Append(latencies, [of |-> judged + 1, latency |-> latency])
                    ELSE latencies
    /\ UNCHANGED <<main, outcome>>

\* One round of measure(), of a list that may still grow: a JpegError or a
\* DecodeError is counted and forgotten, and an implausible latency too;
\* another exception is not caught, such as the IndexError of a broken frame.
Measure ==
    /\ main = "measure"
    /\ judged < Len(captured)
    /\ \E number \in {Number(captured[judged + 1])} :
        \/ /\ number = Crashed \/ captured[judged + 1].state = "broken"
           /\ Exit("crashed") /\ UNCHANGED <<judged, latencies>>
        \/ /\ number = Refused
           /\ judged' = judged + 1
           /\ UNCHANGED <<main, outcome, latencies>>
        \/ /\ number \in Nat
           /\ LET ts == captured[judged + 1].ts
              IN  Judged(ts - ReconstructMs(number, ts))
    /\ UNCHANGED <<scene, paints, done, gaveUp, workerVars>>

Report ==
    /\ main = "measure"
    /\ judged = Len(captured)
    /\ Exit(IF latencies = <<>> THEN "unreadable" ELSE "result")
    /\ UNCHANGED <<scene, paints, done, gaveUp, workerVars, judged, latencies>>

Exited == main = "exited" /\ UNCHANGED glassVars

-----------------------------------------------------------------------------
Worker == Open \/ Arrive \/ ReadThrows \/ Stop \/ Skip \/ Keep \/ Store \/ Close \/ Finally
Tick == done /\ LeaveLoop
Interrupt == ~done /\ LeaveLoop
Main == Tick \/ Join \/ Judge \/ JudgeFrames \/ Measure \/ Report

GlassNext == Worker \/ Expire \/ Main \/ Paint \/ CloseWindow \/ Interrupt \/ Exited

GlassSpec == GlassInit /\ [][GlassNext]_glassVars

\* Both threads run: a read returns or raises within its timeout of 3 s, the
\* window ticks, the join returns.  Time passes.  Nobody need close the window,
\* and the device need not deliver a frame that is ok.
FairSpec ==
    GlassSpec /\ WF_glassVars(Worker) /\ WF_glassVars(Expire) /\ WF_glassVars(Main)

-----------------------------------------------------------------------------
(* Properties.                                                             *)

\* The bars at either end, which tell where the pattern is.
EndBars == {1, 2, TotalBars - 1, TotalBars}

\* What the latencies rest on, of the decoder alone.  It is never fooled:
\* whatever was torn, and whatever bar between those of the ends was misread,
\* it makes of a picture one of the two numbers in it, or none.
NeverFooled ==
    \A p \in Pictures : p.misread \notin EndBars =>
        DecodeColumns(Columns(p)) \in {p.old, p.new, Refused, Crashed}

\* And it reads every picture of one number that is not covered.
CleanPicturesAreRead ==
    \A p \in Pictures :
        ~Scenes[p.scene].covered /\ p.misread = 0 /\ p.old = p.new =>
            DecodeColumns(Columns(p)) = p.old

\* The latency of a frame is the time since one of the paintings it shows:
\* never that of another number, whatever was torn, misread or cut off, and
\* whatever side of a wrap of the 20 bits the frame was taken on.  Of a frame
\* with a bar misread at an end nothing is said: the bars are looked for
\* elsewhere then, and what is read there can have the right check.
LatencyIsTrue ==
    \A i \in DOMAIN latencies :
        LET f == captured[latencies[i].of]
        IN  f.misread \notin EndBars =>
                latencies[i].latency \in {f.ts - f.old, f.ts - f.new}

\* A whole picture of one painting, not older than a second.
Clean(f) ==
    /\ f.state = "ok" /\ f.misread = 0
    /\ f.old = f.new
    /\ f.ts - f.new > -50 /\ f.ts - f.new < 1000

\* Such a picture is always read, wherever in the frame the window is,
\* however wide its bars, whatever surrounds it.
CleanFramesCount ==
    ~Scenes[scene].covered =>
        \A i \in 1..judged : Clean(captured[i]) =>
            \E j \in DOMAIN latencies : latencies[j].of = i

\* The tool ends: the thread ends by its frames, an error or the deadline, be
\* there nothing but flagged frames, and however it ends it closes the window;
\* a window closed first does not wait for ever, and the frames a thread adds
\* after the join are not measured without end.
Finishes == <>(main = "exited")
=============================================================================
