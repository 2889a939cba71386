---------------------------- MODULE AsyncWriter -----------------------------
(***************************************************************************)
(* writer.AsyncWriter of vcap_py: a SegmentWriter on a thread of its own,  *)
(* fed through a bounded queue.Queue.                                      *)
(*                                                                         *)
(* Two processes.  The caller (the capture loop) calls write() once per    *)
(* frame and finally close(); the writer thread runs _run().  A queue      *)
(* operation is atomic (queue.Queue holds its mutex), everything between   *)
(* two of them interleaves.  SegmentWriter.write is one step here, which   *)
(* succeeds or raises; module SegmentWriter opens it up.                   *)
(***************************************************************************)
EXTENDS Naturals, Sequences

CONSTANTS
    Depth,       \* maxsize of the queue, 240 in the code
    MaxFrames,   \* bound: calls of write() made by the caller
    DiskMayFail, \* TRUE: SegmentWriter.write and close may raise OSError
    MayStall     \* TRUE: the thread may need more than join's 30 s to finish

ASSUME DepthAssumption == Depth \in Nat \ {0}
ASSUME MaxFramesAssumption == MaxFrames \in Nat
ASSUME FlagAssumption == DiskMayFail \in BOOLEAN /\ MayStall \in BOOLEAN

Frame == 1..MaxFrames
Stop  == 0          \* the None that asks the thread to return
Empty == 0          \* nothing in the thread's hand

VARIABLES
    caller,     \* where the caller is: in write(), in close(), between calls
    offered,    \* frames the caller has offered to write() so far
    queue,      \* the queue.Queue: frames, then possibly Stop
    highWater,  \* AsyncWriter.high_water
    error,      \* AsyncWriter._error is not None
    thread,     \* "get": in queue.get(); "write": in writer.write(); "dead"
    hand,       \* the item the thread took, kept if writing it failed
    fileOpen,   \* the SegmentWriter has files open
    outcome,    \* what close() did: "none" yet, "ok" or "raised"
    accepted,   \* history: frames put on the queue, in order
    written,    \* history: frames SegmentWriter.write returned from, in order
    peak,       \* history: most frames that were ever waiting
    overran,    \* history: write() has raised WriterOverrun
    gaveUp      \* history: the join of close() timed out

callerVars == <<caller, offered>>
threadVars == <<thread, hand>>
history    == <<accepted, written, peak, overran, gaveUp>>
vars == <<caller, offered, queue, highWater, error, thread, hand, fileOpen,
          outcome, accepted, written, peak, overran, gaveUp>>

CallerStates == {"idle", "measure", "put", "sentinel", "join", "shut",
                 "report", "closed"}

TypeOK ==
    /\ caller \in CallerStates
    /\ offered \in 0..MaxFrames
    /\ queue \in Seq(Frame \cup {Stop})
    /\ Len(queue) <= Depth
    /\ highWater \in 0..Depth
    /\ error \in BOOLEAN
    /\ thread \in {"get", "write", "dead"}
    /\ hand \in Frame \cup {Empty}
    /\ fileOpen \in BOOLEAN
    /\ outcome \in {"none", "ok", "raised"}
    /\ accepted \in Seq(Frame)
    /\ written \in Seq(Frame)
    /\ peak \in 0..Depth
    /\ overran \in BOOLEAN
    /\ gaveUp \in BOOLEAN

Init ==
    /\ caller = "idle"
    /\ offered = 0
    /\ queue = <<>>
    /\ highWater = 0
    /\ error = FALSE
    /\ thread = "get"
    /\ hand = Empty
    /\ fileOpen = TRUE
    /\ outcome = "none"
    /\ accepted = <<>>
    /\ written = <<>>
    /\ peak = 0
    /\ overran = FALSE
    /\ gaveUp = FALSE

-----------------------------------------------------------------------------
(* The caller in write(frame).                                             *)

\* if self._error is not None: raise self._error
WriteRaises ==
    /\ caller = "idle"
    /\ offered < MaxFrames
    /\ error
    /\ offered' = offered + 1
    /\ UNCHANGED <<caller, queue, highWater, error, threadVars, fileOpen,
                   outcome, history>>

WriteBegins ==
    /\ caller = "idle"
    /\ offered < MaxFrames
    /\ ~error
    /\ offered' = offered + 1
    /\ caller' = "measure"
    /\ UNCHANGED <<queue, highWater, error, threadVars, fileOpen, outcome,
                   history>>

\* Mutant: high_water is the last depth, not the largest.
MeasureLast ==
    /\ caller = "measure"
    /\ caller' = "put"
    /\ highWater' = Len(queue)
    /\ UNCHANGED <<offered, queue, error, threadVars, fileOpen, outcome,
                   history>>

\* depth = qsize(); high_water = the larger: read before the put, and the
\* thread may take an item in between.
Measure ==
    /\ caller = "measure"
    /\ caller' = "put"
    /\ highWater' = IF Len(queue) > highWater THEN Len(queue) ELSE highWater
    /\ UNCHANGED <<offered, queue, error, threadVars, fileOpen, outcome,
                   history>>

\* put_nowait with room
Put ==
    /\ caller = "put"
    /\ Len(queue) < Depth
    /\ caller' = "idle"
    /\ queue' = Append(queue, offered)
    /\ accepted' = Append(accepted, offered)
    /\ peak' = IF Len(queue) + 1 > peak THEN Len(queue) + 1 ELSE peak
    /\ UNCHANGED <<offered, highWater, error, threadVars, fileOpen, outcome,
                   written, overran, gaveUp>>

\* Mutant: a full queue makes room by dropping its oldest frame.
OverrunEvicts ==
    /\ caller = "put"
    /\ Len(queue) = Depth
    /\ caller' = "idle"
    /\ queue' = Append(Tail(queue), offered)
    /\ accepted' = Append(accepted, offered)
    /\ UNCHANGED <<offered, highWater, error, threadVars, fileOpen, outcome,
                   written, peak, overran, gaveUp>>

\* put_nowait raises Full, write() raises WriterOverrun; the frame is dropped
Overrun ==
    /\ caller = "put"
    /\ Len(queue) = Depth
    /\ caller' = "idle"
    /\ overran' = TRUE
    /\ UNCHANGED <<offered, queue, highWater, error, threadVars, fileOpen,
                   outcome, accepted, written, peak, gaveUp>>

-----------------------------------------------------------------------------
(* The caller in close().                                                  *)

CloseBegins ==
    /\ caller = "idle"
    /\ caller' = "sentinel"
    /\ UNCHANGED <<offered, queue, highWater, error, threadVars, fileOpen,
                   outcome, history>>

\* queue.put(None), which waits for room without a timeout
PutSentinel ==
    /\ caller = "sentinel"
    /\ Len(queue) < Depth
    /\ queue' = Append(queue, Stop)
    /\ caller' = "join"
    /\ UNCHANGED <<offered, highWater, error, threadVars, fileOpen, outcome,
                   history>>

\* Mutant: close() does not join the thread.
JoinedAtOnce ==
    /\ caller = "join"
    /\ caller' = "shut"
    /\ UNCHANGED <<offered, queue, highWater, error, threadVars, fileOpen,
                   outcome, history>>

Joined ==
    /\ caller = "join"
    /\ thread = "dead"
    /\ caller' = "shut"
    /\ UNCHANGED <<offered, queue, highWater, error, threadVars, fileOpen,
                   outcome, history>>

\* join(timeout=30.0) gives up; nothing looks at is_alive() afterwards
JoinTimesOut ==
    /\ MayStall
    /\ caller = "join"
    /\ thread # "dead"
    /\ caller' = "shut"
    /\ gaveUp' = TRUE
    /\ UNCHANGED <<offered, queue, highWater, error, threadVars, fileOpen,
                   outcome, accepted, written, peak, overran>>

CloseWriter ==
    /\ caller = "shut"
    /\ fileOpen' = FALSE
    /\ caller' = "report"
    /\ UNCHANGED <<offered, queue, highWater, error, threadVars, outcome,
                   history>>

\* the final flush or fsync raises out of close()
CloseWriterRaises ==
    /\ DiskMayFail
    /\ caller = "shut"
    /\ caller' = "closed"
    /\ outcome' = "raised"
    /\ UNCHANGED <<offered, queue, highWater, error, threadVars, fileOpen,
                   history>>

\* if self._error is not None: raise self._error
Report ==
    /\ caller = "report"
    /\ caller' = "closed"
    /\ outcome' = IF error THEN "raised" ELSE "ok"
    /\ UNCHANGED <<offered, queue, highWater, error, threadVars, fileOpen,
                   history>>

-----------------------------------------------------------------------------
(* The writer thread, _run().                                              *)

GetFrame ==
    /\ thread = "get"
    /\ queue # <<>>
    /\ Head(queue) # Stop
    /\ hand' = Head(queue)
    /\ queue' = Tail(queue)
    /\ thread' = "write"
    /\ UNCHANGED <<callerVars, highWater, error, fileOpen, outcome, history>>

\* Mutant: continue where the code returns.
GetStopGoesOn ==
    /\ thread = "get"
    /\ queue # <<>>
    /\ Head(queue) = Stop
    /\ queue' = Tail(queue)
    /\ UNCHANGED <<callerVars, highWater, error, threadVars, fileOpen, outcome,
                   history>>

GetStop ==
    /\ thread = "get"
    /\ queue # <<>>
    /\ Head(queue) = Stop
    /\ queue' = Tail(queue)
    /\ thread' = "dead"
    /\ UNCHANGED <<callerVars, highWater, error, hand, fileOpen, outcome,
                   history>>

\* SegmentWriter.write returns.  When the writer has been closed meanwhile,
\* it does so for a frame that does not fit any more: the next files are
\* opened for it.
WriteFrame ==
    /\ thread = "write"
    /\ written' = Append(written, hand)
    /\ hand' = Empty
    /\ thread' = "get"
    /\ fileOpen' = TRUE
    /\ UNCHANGED <<callerVars, queue, highWater, error, outcome, accepted,
                   peak, overran, gaveUp>>

\* Mutant: except: pass.
WriteFailsIsPassedOver ==
    /\ thread = "write"
    /\ DiskMayFail \/ ~fileOpen
    /\ thread' = "get"
    /\ hand' = Empty
    /\ UNCHANGED <<callerVars, queue, highWater, error, fileOpen, outcome,
                   history>>

\* except BaseException: the thread records the error and returns.  Any other
\* frame that reaches a closed SegmentWriter fails the same way.
WriteFails ==
    /\ thread = "write"
    /\ DiskMayFail \/ ~fileOpen
    /\ error' = TRUE
    /\ thread' = "dead"
    /\ UNCHANGED <<callerVars, queue, highWater, hand, fileOpen, outcome,
                   history>>

-----------------------------------------------------------------------------
\* close() has returned: the process may exit, and the daemon thread with it.
Finished ==
    /\ caller = "closed"
    /\ UNCHANGED vars

Write == WriteRaises \/ WriteBegins \/ Measure \/ Put \/ Overrun
Close == CloseBegins \/ PutSentinel \/ Joined \/ JoinTimesOut \/ CloseWriter
            \/ CloseWriterRaises \/ Report
Run   == GetFrame \/ GetStop \/ WriteFrame \/ WriteFails

Next == Write \/ Close \/ Run \/ Finished

Spec == Init /\ [][Next]_vars

\* The capture loop finishes a call it has made, the operating system runs
\* the writer thread, and every disk operation returns.  Nothing obliges the
\* caller to make another call.
Fairness ==
    /\ WF_vars(Measure \/ Put \/ Overrun)
    /\ WF_vars(PutSentinel \/ Joined \/ CloseWriter \/ CloseWriterRaises
               \/ Report)
    /\ WF_vars(Run)

FairSpec == Spec /\ Fairness

-----------------------------------------------------------------------------
(* Properties.                                                             *)

Held == IF hand = Empty THEN 0 ELSE 1

HasStop == queue # <<>> /\ queue[Len(queue)] = Stop

\* Frames waiting in the queue, the sentinel not counted.
Waiting == IF HasStop THEN Len(queue) - 1 ELSE Len(queue)

\* Every accepted frame is in exactly one place, and in order: first the
\* frames written, then the one in the thread's hand, then the queue.  No
\* interleaving of write(), close() and _run() loses, duplicates or swaps
\* one, not even when the disk fails or close() stops waiting.
NothingVanishes ==
    /\ Len(accepted) = Len(written) + Held + Waiting
    /\ \A i \in 1..Len(written) : written[i] = accepted[i]
    /\ hand # Empty => hand = accepted[Len(written) + 1]
    /\ \A i \in 1..Waiting : queue[i] = accepted[Len(written) + Held + i]

\* high_water is sampled before the put, while the thread is taking items:
\* the reported peak is never more than one frame away from the real one.
HighWaterNearPeak == highWater <= peak /\ peak <= highWater + 1

\* A recording that overran says so: whenever write() has raised
\* WriterOverrun, the high_water the manifest will carry equals the depth.
OverrunIsShown == overran => highWater = Depth

HighWaterIsHonest == HighWaterNearPeak /\ OverrunIsShown

\* "Drains rather than discards": close() that returns normally has written
\* every frame write() accepted.
CloseTellsLoss == outcome = "ok" => written = accepted

\* Once close() has returned or raised without giving up on the thread, the
\* thread is gone: the counters and the list of segments Session.close then
\* puts in the manifest cannot move.
CountersFinal == outcome # "none" /\ ~gaveUp => thread = "dead"

\* Unless the join gave up, the end of close() is the end: nothing moves any
\* more, and if it returned normally everything accepted was written.
CloseIsFinal == CountersFinal /\ (~gaveUp => CloseTellsLoss)

-----------------------------------------------------------------------------
(* The inductive invariant behind the properties above: where the sentinel *)
(* can be, what the thread's state says of the error and of the queue, and *)
(* what the caller's position says of the thread.                          *)

AfterSentinel == {"join", "shut", "report", "closed"}

StopIsLast ==
    \A i \in 1..Len(queue) :
        queue[i] = Stop => i = Len(queue) /\ caller \in AfterSentinel

ThreadState ==
    /\ thread = "get" => hand = Empty /\ ~error
    /\ thread = "write" => hand # Empty /\ ~error
    /\ thread = "dead" /\ ~error =>
          hand = Empty /\ queue = <<>> /\ caller \in AfterSentinel

CallerState ==
    /\ caller \in {"idle", "measure", "put", "sentinel"} =>
          outcome = "none" /\ fileOpen
    /\ caller \in {"join", "shut"} => outcome = "none" /\ fileOpen
    /\ caller = "report" => outcome = "none"
    /\ caller = "closed" => outcome # "none"
    /\ caller \in {"measure", "put"} => offered \in Frame
    /\ caller = "put" => highWater <= peak /\ Len(queue) <= highWater

\* Unless the join gave up.
JoinState == ~gaveUp /\ caller \in {"shut", "report", "closed"} => thread = "dead"

PeakState == Waiting <= peak /\ HighWaterIsHonest

IInv ==
    /\ TypeOK
    /\ NothingVanishes
    /\ StopIsLast
    /\ ThreadState
    /\ CallerState
    /\ JoinState
    /\ PeakState

-----------------------------------------------------------------------------
\* AsyncWriter keeps the promise of FrameLog, with the frames that
\* SegmentWriter.write returned from as the recording.  A close() that
\* returns after the join timed out promises nothing, and does not say so:
\* its caller sees an ordinary return.
Verdict == IF outcome = "ok" /\ gaveUp THEN "abandoned" ELSE outcome

Log == INSTANCE FrameLog WITH committed <- written, broken <- error,
                              verdict <- Verdict
ImplementsLog == Log!LogSpec

\* close() returns: neither the put of the sentinel nor the join waits for
\* ever.
CloseReturns == (caller = "sentinel") ~> (caller = "closed")

\* There is exactly one way for it not to: the thread died and left the
\* queue full.  From anywhere else close() returns, whatever the disk does.
Stuck == caller = "sentinel" /\ thread = "dead" /\ Len(queue) = Depth
CloseReturnsUnlessStuck == (caller = "sentinel") ~> (caller = "closed" \/ Stuck)
=============================================================================
