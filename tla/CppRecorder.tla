---------------------------- MODULE CppRecorder -----------------------------
(***************************************************************************)
(* tools/vcap_record.cpp with vcap::AsyncWriter and vcap::SegmentWriter:   *)
(* the recorder in C++, "a close mirror" of the Python one.                *)
(*                                                                         *)
(* Two threads: main reads frames, queues them, and on its way out stops   *)
(* the writer thread and rewrites the manifest; the writer thread sleeps   *)
(* on a condition variable and drains the queue.  A critical section is    *)
(* one step, a notification outside it another.  There is no sentinel and  *)
(* no timeout here; the way out of an exception is the destructors.        *)
(*                                                                         *)
(* A write() of SegmentWriter is one step that returns, throws, or returns *)
(* although fflush failed, which nothing looks at.  SIGKILL is not a step: *)
(* what it leaves behind is the manifest and stored, in any state.         *)
(***************************************************************************)
EXTENDS Naturals, Sequences, SequencesExt

CONSTANTS
    Depth,       \* depth_ of the queue, 240 in the program
    MaxFrames,   \* bound: frames the device delivers
    MaxSegments, \* bound: segments of the recording
    MayFail      \* TRUE: files and device may fail

ASSUME QueueAssumption == Depth \in Nat \ {0}
ASSUME CppBoundsAssumption == MaxFrames \in Nat /\ MaxSegments \in Nat \ {0}
ASSUME CppFaultsAssumption == MayFail \in BOOLEAN

Frame == 1..MaxFrames
Empty == 0

VARIABLES
    main,      \* the step of main()
    way,       \* how main() leaves: "ok" (code 0), "noSignal" and "overrun"
               \* (code 1), "unwound" by an exception (code 2)
    stopSignal,\* g_stopping
    late,      \* history: frames accepted after the signal
    frames,    \* frames_yielded of the source
    queue, highWater, stopping, error,  \* AsyncWriter; error_ is not empty
    thread,    \* the writer thread: "ready" to lock the mutex, "asleep" in
               \* not_empty_.wait, "write" in SegmentWriter::write, "dead"
    hand,      \* the frame it took, kept if writing it failed
    segments,  \* segments_.size()
    stored,    \* the frames that can be read back, [frame, segment]
    silent,    \* history: a failure of stdio went unnoticed
    manifest,  \* manifest.json
    accepted, written,  \* history: frames queued, frames write() returned from
    verdict    \* history: how the close of AsyncWriter ended

queueVars  == <<queue, highWater, stopping>>
threadVars == <<thread, hand, error, segments, stored, written>>
mainVars   == <<main, way, late, frames, accepted, verdict, manifest>>
vars == <<main, way, stopSignal, late, frames, queue, highWater, stopping,
          error, thread, hand, segments, stored, silent, manifest, accepted,
          written, verdict>>

NoManifest == [state |-> "none"]
Torn       == [state |-> "torn"]
Manifest == {NoManifest, Torn} \cup
    [state : {"start", "final"}, listed : 1..MaxSegments,
     frames : 0..MaxFrames, highWater : 0..Depth]

TypeOK ==
    /\ main \in {"describe", "read", "push", "notify", "check", "stop", "wake",
                 "join", "finish", "exited"}
    /\ way \in {"ok", "noSignal", "overrun", "unwound"}
    /\ stopSignal \in BOOLEAN
    /\ late \in 0..MaxFrames
    /\ frames \in 0..MaxFrames
    /\ queue \in Seq(Frame) /\ Len(queue) <= Depth
    /\ highWater \in 0..Depth
    /\ stopping \in BOOLEAN
    /\ error \in BOOLEAN
    /\ thread \in {"ready", "asleep", "write", "dead"}
    /\ hand \in Frame \cup {Empty}
    /\ segments \in 1..MaxSegments
    /\ stored \in Seq([frame : Frame, segment : 1..MaxSegments])
    /\ silent \in BOOLEAN
    /\ manifest \in Manifest
    /\ accepted \in Seq(Frame)
    /\ written \in Seq(Frame)
    /\ verdict \in {"none", "ok", "raised"}

\* The source is open and the SegmentWriter has made its first segment.
Init ==
    /\ main = "describe" /\ way = "ok"
    /\ stopSignal = FALSE /\ late = 0
    /\ frames = 0
    /\ queue = <<>> /\ highWater = 0 /\ stopping = FALSE
    /\ thread = "ready" /\ hand = Empty /\ error = FALSE
    /\ segments = 1 /\ stored = <<>> /\ silent = FALSE
    /\ manifest = NoManifest
    /\ accepted = <<>> /\ written = <<>> /\ verdict = "none"

At(step) == main = step

-----------------------------------------------------------------------------
(* Manifest::write: a temporary file and a rename.  fopen and rename are   *)
(* checked and throw; fwrite, fflush, fsync and fclose are not, and what a *)
(* full disk left of the text is renamed over the manifest.                *)

\* What Manifest::write puts into the file.
Text(state) == [state |-> state, listed |-> segments,
                frames |-> IF state = "final" THEN Len(written) ELSE 0,
                highWater |-> IF state = "final" THEN highWater ELSE 0]

WriteManifest(state, next) ==
    /\ \/ main' = next /\ manifest' = Text(state) /\ UNCHANGED <<way, silent>>
       \/ /\ MayFail
          /\ main' = next /\ manifest' = Torn /\ silent' = TRUE /\ UNCHANGED way
       \/ /\ MayFail
          /\ main' = "exited" /\ way' = "unwound" /\ UNCHANGED <<manifest, silent>>
    /\ UNCHANGED <<stopSignal, late, frames, queueVars, threadVars, accepted,
                   verdict>>

\* Before the first frame; the AsyncWriter is made, and its thread started,
\* after it.
Describe == At("describe") /\ WriteManifest("start", "read")

-----------------------------------------------------------------------------
(* The loop of main().                                                     *)

\* VideoSource::read returns a frame, ...
ReadFrame ==
    /\ At("read")
    /\ frames < MaxFrames
    /\ frames' = frames + 1
    /\ main' = "push"
    /\ UNCHANGED <<way, stopSignal, late, queueVars, threadVars, silent,
                   manifest, accepted, verdict>>

\* main() leaves the loop.
Leave(how) == main' = "stop" /\ way' = how

\* ... throws NoSignal, after the timeout or because the device that was
\* reported ready had nothing, or throws StreamError.  The first is caught
\* where it ends the recording, the second outside of it all.
ReadThrows ==
    /\ At("read")
    /\ Leave("noSignal") \/ (MayFail /\ Leave("unwound"))
    /\ UNCHANGED <<stopSignal, late, frames, queueVars, threadVars, silent,
                   manifest, accepted, verdict>>

\* AsyncWriter::write in its critical section: the error of the thread, ...
PushThrows ==
    /\ At("push")
    /\ error
    /\ Leave("unwound")
    /\ UNCHANGED <<stopSignal, late, frames, queueVars, threadVars, silent,
                   manifest, accepted, verdict>>

Measured == IF Len(queue) > highWater THEN Len(queue) ELSE highWater

\* Mutant: the peak is taken only when the frame fits.
PushOverrunsUnmeasured ==
    /\ At("push")
    /\ ~error
    /\ Len(queue) >= Depth
    /\ Leave("overrun")
    /\ UNCHANGED <<stopSignal, late, frames, queueVars, threadVars, silent,
                   manifest, accepted, verdict>>

\* ... a full queue, which is an end of the recording as well, ...
PushOverruns ==
    /\ At("push")
    /\ ~error
    /\ Len(queue) >= Depth
    /\ highWater' = Measured
    /\ Leave("overrun")
    /\ UNCHANGED <<stopSignal, late, frames, queue, stopping, threadVars,
                   silent, manifest, accepted, verdict>>

\* ... or room.
Push ==
    /\ At("push")
    /\ ~error
    /\ Len(queue) < Depth
    /\ highWater' = Measured
    /\ queue' = Append(queue, frames)
    /\ accepted' = Append(accepted, frames)
    /\ late' = IF stopSignal THEN late + 1 ELSE late
    /\ main' = "notify"
    /\ UNCHANGED <<way, stopSignal, frames, stopping, threadVars, silent,
                   manifest, verdict>>

\* Whoever waits on not_empty_ goes for the mutex again.
Wake == thread' = IF thread = "asleep" THEN "ready" ELSE thread

\* notify_one, after the unlock
Notify ==
    /\ At("notify")
    /\ Wake
    /\ main' = "check"
    /\ UNCHANGED <<way, stopSignal, late, frames, queueVars, hand, error,
                   segments, stored, written, silent, manifest, accepted,
                   verdict>>

\* Mutant: only the limits end the loop.
CheckLimitsOnly ==
    /\ At("check")
    /\ Leave("ok") \/ (main' = "read" /\ UNCHANGED way)
    /\ UNCHANGED <<stopSignal, late, frames, queueVars, threadVars, silent,
                   manifest, accepted, verdict>>

\* The signal, --frames and --seconds, the last two being reached at any
\* frame.
Check ==
    /\ At("check")
    /\ Leave("ok") \/ (~stopSignal /\ main' = "read" /\ UNCHANGED way)
    /\ UNCHANGED <<stopSignal, late, frames, queueVars, threadVars, silent,
                   manifest, accepted, verdict>>

-----------------------------------------------------------------------------
(* AsyncWriter::close, called by main() or by the destructor.              *)

Stop ==
    /\ At("stop")
    /\ stopping' = TRUE
    /\ main' = "wake"
    /\ UNCHANGED <<way, stopSignal, late, frames, queue, highWater, threadVars,
                   silent, manifest, accepted, verdict>>

\* Mutant: stopping_ is set, and nobody told.
WakeThreadForgotten ==
    /\ At("wake")
    /\ main' = "join"
    /\ UNCHANGED <<way, stopSignal, late, frames, queueVars, threadVars,
                   silent, manifest, accepted, verdict>>

\* notify_all
WakeThread ==
    /\ At("wake")
    /\ Wake
    /\ main' = "join"
    /\ UNCHANGED <<way, stopSignal, late, frames, queueVars, hand, error,
                   segments, stored, written, silent, manifest, accepted,
                   verdict>>

\* Mutant: close() does not rethrow.
JoinedKeepsQuiet ==
    /\ At("join")
    /\ thread = "dead"
    /\ IF way = "unwound"
       THEN verdict' = "raised" /\ main' = "exited" /\ way' = "unwound"
       ELSE verdict' = "ok" /\ main' = "finish" /\ UNCHANGED way
    /\ UNCHANGED <<stopSignal, late, frames, queueVars, threadVars, silent,
                   manifest, accepted>>

\* join, the close of the files, of which no failure is noticed, and the
\* error of the thread.  It unwinds main(); the destructor swallows it.
Joined ==
    /\ At("join")
    /\ thread = "dead"
    /\ IF error \/ way = "unwound"
       THEN verdict' = "raised" /\ main' = "exited" /\ way' = "unwound"
       ELSE verdict' = "ok" /\ main' = "finish" /\ UNCHANGED way
    /\ UNCHANGED <<stopSignal, late, frames, queueVars, threadVars, silent,
                   manifest, accepted>>

Finish == At("finish") /\ WriteManifest("final", "exited")

-----------------------------------------------------------------------------
(* AsyncWriter::run on the writer thread, alive once the loop has begun.   *)

Running == main \notin {"describe", "exited"}

\* The predicate of the wait, and the wait itself, with the mutex held.
Sleep ==
    /\ Running
    /\ thread = "ready"
    /\ queue = <<>> /\ ~stopping
    /\ thread' = "asleep"
    /\ UNCHANGED <<mainVars, stopSignal, queueVars, hand, error, segments,
                   stored, written, silent>>

\* wait may return at any time, and looks at its predicate again.
SpuriousWake ==
    /\ thread = "asleep"
    /\ Wake
    /\ UNCHANGED <<mainVars, stopSignal, queueVars, hand, error, segments,
                   stored, written, silent>>

Take ==
    /\ Running
    /\ thread = "ready"
    /\ queue # <<>>
    /\ hand' = Head(queue)
    /\ queue' = Tail(queue)
    /\ thread' = "write"
    /\ UNCHANGED <<mainVars, stopSignal, highWater, stopping, error, segments,
                   stored, written, silent>>

\* Mutant: stopping is enough, drained or not.
ReturnUndrained ==
    /\ Running
    /\ thread = "ready"
    /\ stopping
    /\ thread' = "dead"
    /\ UNCHANGED <<mainVars, stopSignal, queueVars, hand, error, segments,
                   stored, written, silent>>

Return ==
    /\ Running
    /\ thread = "ready"
    /\ queue = <<>> /\ stopping
    /\ thread' = "dead"
    /\ UNCHANGED <<mainVars, stopSignal, queueVars, hand, error, segments,
                   stored, written, silent>>

\* SegmentWriter::roll, if the frame does not fit; the segment counts only
\* after both its files are open.
MayRoll == segments' \in {segments, segments + 1} /\ segments' <= MaxSegments

\* SegmentWriter::write returns: the frame and its record are in the page
\* cache, unless an fflush failed, of the stream or the index.
WriteFrame ==
    /\ thread = "write"
    /\ MayRoll
    /\ written' = Append(written, hand)
    /\ \/ stored' = Append(stored, [frame |-> hand, segment |-> segments'])
            /\ UNCHANGED silent
       \/ MayFail /\ silent' = TRUE /\ UNCHANGED stored
    /\ hand' = Empty
    /\ thread' = "ready"
    /\ UNCHANGED <<mainVars, stopSignal, queueVars, error>>

\* It throws, out of roll() or of fwrite, before anything is counted.
WriteThrows ==
    /\ MayFail
    /\ thread = "write"
    /\ MayRoll
    /\ error' = TRUE
    /\ thread' = "dead"
    /\ stopping' = TRUE
    /\ UNCHANGED <<mainVars, stopSignal, queue, highWater, hand, stored,
                   written, silent>>

-----------------------------------------------------------------------------
\* SIGINT or SIGTERM: on_signal
Signal ==
    /\ ~stopSignal
    /\ ~At("exited")
    /\ stopSignal' = TRUE
    /\ UNCHANGED <<mainVars, queueVars, threadVars, silent>>

Exited == At("exited") /\ UNCHANGED vars

Main == Describe \/ ReadFrame \/ ReadThrows \/ PushThrows \/ PushOverruns
            \/ Push \/ Notify \/ Check \/ Stop \/ WakeThread \/ Joined \/ Finish
Run == Sleep \/ Take \/ Return \/ WriteFrame \/ WriteThrows

Next == Main \/ Run \/ SpuriousWake \/ Signal \/ Exited

Spec == Init /\ [][Next]_vars

\* Both threads run, read() returns within its timeout, and disk operations
\* return.  Wakeups without a notification are not counted on.
FairSpec == Spec /\ WF_vars(Main) /\ WF_vars(Run)

-----------------------------------------------------------------------------
(* Properties.                                                             *)

\* The queue of the C++ recorder keeps the promise of the Python one: frames
\* are written in the order accepted, without a hole, and a close() that
\* returns has written them all, whatever order the threads run in.
Log == INSTANCE FrameLog WITH committed <- written, broken <- error
ImplementsLog == Log!LogSpec

\* A signal ends the loop at the frame under way: at most one frame that was
\* not yet queued when it came is recorded after it.
StopsPromptly == late <= 1

\* What a reader of the directory finds: frames of segments it has heard of.
ShownFrames ==
    IF manifest.state \in {"none", "torn"} THEN <<>>
    ELSE FlattenSeq([i \in DOMAIN stored |->
                        IF stored[i].segment <= manifest.listed
                        THEN <<stored[i].frame>> ELSE <<>>])

\* As long as stdio has not failed silently: a directory with frames in it
\* describes itself, in every state the process may be killed in; a manifest
\* that says "ended" counts and shows every frame that was ever accepted; it
\* is there unless the process left by an exception; and if the queue
\* overran, it says that the queue was full.
ManifestIsHonest ==
    ~silent =>
        /\ stored # <<>> => manifest.state \in {"start", "final"}
        /\ manifest.state = "final" =>
              /\ manifest.frames = Len(accepted)
              /\ ShownFrames = accepted
              /\ way = "overrun" => manifest.highWater = Depth
        /\ At("exited") /\ way # "unwound" => manifest.state = "final"

\* Once the signal is there main() exits, whatever the device and the disk
\* do: no wakeup of the writer thread is lost, and the queue being full with
\* its thread dead does not hold up the close, as it does in Python.
StopFinishes == stopSignal ~> At("exited")

-----------------------------------------------------------------------------
(* The inductive invariant behind TypeOK, StopsPromptly and ImplementsLog. *)

Held == IF hand = Empty THEN 0 ELSE 1

\* Frames are written, in the hand of the thread, and queued, in that order.
EachFrameOnce ==
    /\ Len(accepted) = Len(written) + Held + Len(queue)
    /\ \A i \in 1..Len(written) : written[i] = accepted[i]
    /\ hand # Empty => hand = accepted[Len(written) + 1]
    /\ \A i \in 1..Len(queue) : queue[i] = accepted[Len(written) + Held + i]

\* The frame being pushed has not been accepted before.
FramesCounted ==
    /\ Len(accepted) <= frames
    /\ At("push") => Len(accepted) < frames

ThreadState ==
    /\ thread \in {"ready", "asleep"} => hand = Empty /\ ~error
    /\ thread = "write" => hand # Empty /\ ~error
    /\ thread = "dead" /\ ~error => hand = Empty /\ queue = <<>> /\ stopping

\* Unless the thread died, the queue is stopped by close() only; nothing has
\* an outcome before that.
MainState ==
    /\ stopping /\ ~error => main \in {"wake", "join", "finish", "exited"}
    /\ main \notin {"finish", "exited"} => verdict = "none"

\* A frame accepted after the signal is the last one.
LateState ==
    /\ late <= 1 /\ late <= Len(accepted)
    /\ late # 0 => stopSignal /\ main \notin {"describe", "read", "push"}

IInv == TypeOK /\ EachFrameOnce /\ FramesCounted /\ ThreadState /\ MainState
            /\ LateState

-----------------------------------------------------------------------------
(* What ManifestIsHonest needs besides.                                    *)

\* No frame is in a segment that does not count yet; and if stdio kept its
\* word, what can be read back is what write() returned from.
StoredState ==
    /\ \A i \in 1..Len(stored) : stored[i].segment <= segments
    /\ ~silent => /\ Len(stored) = Len(written)
                  /\ \A i \in 1..Len(written) : stored[i].frame = written[i]

\* Nothing runs before the first manifest is there, and nothing after the last
\* one, which says what the writer came to.
TextState ==
    /\ At("describe") => manifest.state = "none"
    /\ manifest.state = "none" =>
          /\ thread = "ready" /\ stored = <<>>
          /\ At("describe") \/ (At("exited") /\ way = "unwound")
    /\ manifest.state = "torn" => silent
    /\ At("finish") => thread = "dead" /\ ~error
    /\ manifest.state = "final" =>
          /\ At("exited") /\ thread = "dead" /\ ~error
          /\ manifest = Text("final")
    /\ At("exited") /\ way # "unwound" => manifest.state \in {"torn", "final"}

\* An overrun was measured, and nothing is queued after it.
OverrunState ==
    way = "overrun" =>
        /\ highWater = Depth
        /\ main \in {"stop", "wake", "join", "finish", "exited"}

HonestInv == IInv /\ StoredState /\ TextState /\ OverrunState

-----------------------------------------------------------------------------
\* "Write ... atomically, so a reader never sees half of one": whatever fails,
\* a manifest on disk can be read.
NeverHalfAManifest == manifest.state # "torn"
=============================================================================
