---------------------------- MODULE VideoSource -----------------------------
(***************************************************************************)
(* source.VideoSource of vcap_py: reading frames from a V4L2 device whose  *)
(* driver fills a small ring of memory-mapped buffers.                     *)
(*                                                                         *)
(* Two actors.  The driver fills the buffers it has been given, in order,  *)
(* numbers every frame the device sends whether or not it had a buffer for *)
(* it, and starts numbering afresh at each STREAMON.  The reader takes a   *)
(* filled buffer, copies it, gives it back and yields the copy; between    *)
(* any two of its ioctls the driver moves on, and the device may be        *)
(* unplugged.  The driver is external: its actions are modelled from what  *)
(* source.py expects of it.                                                *)
(***************************************************************************)
EXTENDS Integers, Sequences, FiniteSets

CONSTANTS
    Requested,  \* buffers asked for, 4 in the code
    Timeout,    \* of select, 2 s in the code
    Patience,   \* of frames(), 5 s in the code; times are whole units
    MaxFrames,  \* bound: frames the device sends per stream
    MaxStreams, \* bound: successful calls of open()
    ErrorSeqs,  \* sequence numbers the driver flags with BUF_FLAG_ERROR
    TornSeqs    \* sequence numbers whose payload is not a whole JPEG

ASSUME RequestedAssumption == Requested \in Nat \ {0}
ASSUME TimesAssumption == Timeout \in Nat \ {0} /\ Patience \in Nat
ASSUME BoundsAssumption == MaxFrames \in Nat /\ MaxStreams \in Nat
ASSUME BadSeqsAssumption == ErrorSeqs \subseteq Nat /\ TornSeqs \subseteq Nat

NoBuffer == 0
NoSeq    == -1       \* _last_seq is None
NotWaiting == -1     \* waiting_since is None

VARIABLES
    pc,        \* "closed"; in frames(): "select", "dequeue", "copy",
               \* "requeue"; "stopped" once an exception has ended it
    nBuffers,  \* n_buffers: as granted by the last REQBUFS
    held,      \* the buffer the reader has dequeued and not requeued
    got,       \* buf.sequence of the held buffer
    lastSeq,   \* _last_seq, which open() does not reset
    stats,     \* frames_yielded, driver_dropped, driver_errors, corrupt
    raised,    \* what ended frames(); "DequeueError" is the OSError of DQBUF,
               \* "OSError" that of QBUF
    waited,    \* time since waiting_since
    quiet,     \* history: time since the last frame, or the beginning
    plugged,   \* the device is there
    incoming,  \* driver: buffers waiting to be filled, in order
    outgoing,  \* driver: buffers filled and not dequeued, in order
    memory,    \* which frame the memory of each buffer holds
    produced,  \* driver: next sequence number of this stream
    stream,    \* history: how many streams were opened
    lost,      \* history: <<stream, seq>> the driver had no buffer for
    counted,   \* history: the frames read() counted in frames_yielded
    returned   \* history: how many of those it returned

timeVars == <<waited, quiet>>
bufferVars == <<nBuffers, held, got>>
countVars == <<lastSeq, stats, counted>>
driverVars == <<plugged, incoming, outgoing, memory, produced, lost>>
vars == <<pc, raised, returned, stream, timeVars, bufferVars, countVars, driverVars>>

Buffers == 1..Requested
Frame == [stream : Nat, seq : Nat, data : Int, dropped : Nat, flags : SUBSET
             {"driver_error", "corrupt", "gap_before"}]

TypeOK ==
    /\ pc \in {"closed", "select", "dequeue", "copy", "requeue", "stopped"}
    /\ nBuffers \in Buffers /\ held \in Buffers \cup {NoBuffer} /\ got \in Nat
    /\ lastSeq \in Nat \cup {NoSeq}
    /\ stats \in [yielded : Nat, dropped : Nat, errors : Nat, corrupt : Nat]
    /\ raised \in {"none", "NoSignal", "StreamError", "DequeueError", "OSError"}
    /\ waited \in Nat \cup {NotWaiting} /\ quiet \in Nat
    /\ plugged \in BOOLEAN
    /\ incoming \in Seq(Buffers) /\ outgoing \in Seq(Buffers)
    /\ memory \in [Buffers -> Nat \cup {NoSeq}]
    /\ produced \in Nat /\ stream \in Nat /\ lost \subseteq Nat \X Nat
    /\ counted \in Seq(Frame) /\ returned \in Nat

Init ==
    /\ pc = "closed" /\ raised = "none"
    /\ nBuffers = Requested /\ held = NoBuffer /\ got = 0
    /\ lastSeq = NoSeq /\ counted = <<>>
    /\ stats = [yielded |-> 0, dropped |-> 0, errors |-> 0, corrupt |-> 0]
    /\ waited = NotWaiting /\ quiet = 0
    /\ plugged = TRUE
    /\ incoming = <<>> /\ outgoing = <<>>
    /\ memory = [b \in Buffers |-> NoSeq]
    /\ produced = 0 /\ stream = 0 /\ lost = {} /\ returned = 0

-----------------------------------------------------------------------------
(* open() and close()                                                      *)

\* REQBUFS grants at most what was asked for; every buffer is queued before
\* STREAMON, and only then may the driver fill one.  frames() begins.
Open ==
    /\ pc = "closed"
    /\ plugged
    /\ stream < MaxStreams
    /\ nBuffers' \in 1..nBuffers
    /\ incoming' = [i \in 1..nBuffers' |-> i] /\ outgoing' = <<>>
    /\ held' = NoBuffer
    /\ produced' = 0 /\ stream' = stream + 1
    /\ waited' = NotWaiting /\ quiet' = 0
    /\ pc' = "select" /\ raised' = "none"
    /\ UNCHANGED <<got, countVars, returned, plugged, memory, lost>>

\* One of the ioctls fails: everything is closed and the exception leaves.
\* n_buffers may have been reduced by then.
OpenFails ==
    /\ pc = "closed"
    /\ nBuffers' \in 1..nBuffers
    /\ UNCHANGED <<pc, raised, returned, stream, timeVars, held, got, countVars, driverVars>>

\* STREAMOFF, munmap, close: the driver forgets every buffer, filled or not.
Close ==
    /\ pc \in {"select", "stopped"}
    /\ incoming' = <<>> /\ outgoing' = <<>> /\ held' = NoBuffer
    /\ pc' = "closed"
    /\ UNCHANGED <<raised, returned, stream, timeVars, nBuffers, got, countVars,
                   plugged, memory, produced, lost>>

-----------------------------------------------------------------------------
(* frames()                                                                *)

\* time later, with or without a frame
Later(time) ==
    /\ quiet' = quiet + time
    /\ waited' = IF waited = NotWaiting THEN NotWaiting ELSE waited + time

Stop(kind) == raised' = kind /\ pc' = "stopped"

\* A NoSignal after some time: it is swallowed, unless nothing has arrived
\* for as long as the patience lasts, counted from the end of the first read
\* that had nothing.
NothingFor(time) ==
    /\ quiet' = quiet + time
    /\ waited' = IF waited = NotWaiting THEN 0 ELSE waited + time
    /\ IF waited' >= Patience THEN Stop("NoSignal") ELSE pc' = "select" /\ UNCHANGED raised

\* Mutant: waiting_since is not forgotten when a frame arrives.
YieldStillWaiting == quiet' = 0 /\ UNCHANGED waited

\* A frame: the wait is over.
Yield == quiet' = 0 /\ waited' = NotWaiting

-----------------------------------------------------------------------------
(* read(): select, DQBUF, copy and account, QBUF                           *)

SelectTimesOut ==
    /\ pc = "select"
    /\ plugged
    /\ outgoing = <<>>
    /\ NothingFor(Timeout)
    /\ UNCHANGED <<returned, stream, bufferVars, countVars, driverVars>>

\* Readable: a buffer is filled, the device has gone (POLLERR), or select
\* was wrong, which the code allows for.
SelectReady ==
    /\ pc = "select"
    /\ pc' = "dequeue"
    /\ \E time \in 0..(Timeout - 1) : Later(time)
    /\ UNCHANGED <<raised, returned, stream, bufferVars, countVars, driverVars>>

\* Mutant: a view of the buffer is lent out and the buffer requeued at once.
GiveBackAtOnce(buffer) == incoming' = Append(incoming, buffer)

\* The driver does not have a buffer back before QBUF.
GiveBack(buffer) == UNCHANGED incoming

Dequeue ==
    /\ pc = "dequeue"
    /\ plugged
    /\ outgoing # <<>>
    /\ held' = Head(outgoing) /\ got' = memory[held']
    /\ outgoing' = Tail(outgoing) /\ GiveBack(held')
    /\ pc' = "copy"
    /\ UNCHANGED <<raised, returned, stream, timeVars, nBuffers, countVars,
                   plugged, memory, produced, lost>>

\* Mutant: every OSError of DQBUF is taken for EAGAIN.
AnyErrno == outgoing = <<>>

\* EAGAIN: the device is there and has nothing.
EAgain == plugged /\ outgoing = <<>>

DequeueNothing ==
    /\ pc = "dequeue"
    /\ EAgain
    /\ NothingFor(0)
    /\ UNCHANGED <<returned, stream, bufferVars, countVars, driverVars>>

\* Another errno: ENODEV and EIO become a StreamError, any other leaves as it
\* is, and EIO may come of a device that is still there.
DequeueFails ==
    /\ pc = "dequeue"
    /\ ~EAgain
    /\ Stop("StreamError") \/ Stop("DequeueError")
    /\ UNCHANGED <<returned, stream, timeVars, bufferVars, countVars, driverVars>>

\* Mutant: without - 1.
DroppedOneTooMany ==
    IF lastSeq # NoSeq /\ got > lastSeq THEN got - lastSeq ELSE 0

\* The payload is copied while the buffer is held, then accounted for.
Dropped == IF lastSeq # NoSeq /\ got > lastSeq + 1 THEN got - lastSeq - 1 ELSE 0

Flags == (IF got \in ErrorSeqs THEN {"driver_error"} ELSE {})
           \cup (IF got \in TornSeqs THEN {"corrupt"} ELSE {})
           \cup (IF Dropped > 0 THEN {"gap_before"} ELSE {})

Copy ==
    /\ pc = "copy"
    /\ counted' = Append(counted,
                    [stream |-> stream, seq |-> got, data |-> memory[held],
                     dropped |-> Dropped, flags |-> Flags])
    /\ stats' = [yielded |-> stats.yielded + 1,
                 dropped |-> stats.dropped + Dropped,
                 errors  |-> stats.errors + (IF got \in ErrorSeqs THEN 1 ELSE 0),
                 corrupt |-> stats.corrupt + (IF got \in TornSeqs THEN 1 ELSE 0)]
    /\ lastSeq' = got
    /\ pc' = "requeue"
    /\ UNCHANGED <<raised, returned, stream, timeVars, bufferVars, driverVars>>

\* Mutant: the buffer of a corrupt frame is not requeued.
QueueUnlessCorrupt ==
    IF got \in TornSeqs THEN UNCHANGED incoming ELSE incoming' = Append(incoming, held)

Queue == incoming' = Append(incoming, held)

\* finally: QBUF, then the frame is returned
Requeue ==
    /\ pc = "requeue"
    /\ plugged
    /\ Queue
    /\ held' = NoBuffer
    /\ returned' = returned + 1
    /\ Yield
    /\ pc' = "select"
    /\ UNCHANGED <<raised, stream, nBuffers, got, countVars, plugged, outgoing,
                   memory, produced, lost>>

\* QBUF fails in the finally clause: its OSError replaces the return
RequeueGone ==
    /\ pc = "requeue"
    /\ ~plugged
    /\ Stop("OSError")
    /\ UNCHANGED <<returned, stream, timeVars, bufferVars, countVars, driverVars>>

-----------------------------------------------------------------------------
(* The driver and the device.                                              *)

Streaming == pc # "closed" /\ plugged

readerVars == <<pc, raised, returned, stream, timeVars, bufferVars, countVars>>

Fill ==
    /\ Streaming
    /\ produced < MaxFrames
    /\ incoming # <<>>
    /\ memory' = [memory EXCEPT ![Head(incoming)] = produced]
    /\ outgoing' = Append(outgoing, Head(incoming))
    /\ incoming' = Tail(incoming)
    /\ produced' = produced + 1
    /\ UNCHANGED <<readerVars, plugged, lost>>

\* No buffer free: the frame is dropped and its number used up.
Drop ==
    /\ Streaming
    /\ produced < MaxFrames
    /\ incoming = <<>>
    /\ lost' = lost \cup {<<stream, produced>>}
    /\ produced' = produced + 1
    /\ UNCHANGED <<readerVars, plugged, incoming, outgoing, memory>>

Unplug ==
    /\ plugged
    /\ plugged' = FALSE
    /\ UNCHANGED <<readerVars, incoming, outgoing, memory, produced, lost>>

-----------------------------------------------------------------------------
Read == SelectTimesOut \/ SelectReady \/ Dequeue \/ DequeueNothing
            \/ DequeueFails \/ Copy \/ Requeue \/ RequeueGone

Next == Open \/ OpenFails \/ Close \/ Read \/ Fill \/ Drop \/ Unplug

Spec == Init /\ [][Next]_vars

\* select returns when there is something to return for.
SelectWakes == (outgoing # <<>> \/ ~plugged) /\ SelectReady

\* The capture loop goes on: a call begun is finished, select wakes when it
\* should, and is not wrong for ever when it should time out.
FairSpec == /\ Spec
            /\ WF_vars(Dequeue \/ DequeueNothing \/ DequeueFails \/ Copy
                       \/ Requeue \/ RequeueGone)
            /\ WF_vars(SelectWakes)
            /\ SF_vars(SelectTimesOut)

-----------------------------------------------------------------------------
(* Properties.                                                             *)

Members(s) == {s[i] : i \in DOMAIN s}

\* No buffer is leaked or used twice: while the stream is open every granted
\* buffer is in exactly one of the driver's queues or in the reader's hand.
\* A leak of one buffer per exception would starve the driver silently.
BuffersConserved ==
    pc # "closed" =>
        /\ Len(incoming) + Len(outgoing) + (IF held = NoBuffer THEN 0 ELSE 1)
              = nBuffers
        /\ Members(incoming) \cup Members(outgoing) \cup ({held} \ {NoBuffer})
              = 1..nBuffers

\* The bytes of a frame are those the driver numbered: the copy is made
\* before the buffer is given back, however fast the driver refills it.
FrameMatchesItsSeq ==
    \A k \in 1..Len(counted) : counted[k].data = counted[k].seq

\* driver_dropped is exact: it counts precisely the frames the driver had no
\* buffer for and that were followed by a frame which was read.  Closing and
\* reopening neither loses nor invents any, although _last_seq is not reset.
DropsCountedExactly ==
    stats.dropped =
        Cardinality({x \in lost : \E k \in 1..Len(counted) :
                        counted[k].stream = x[1] /\ counted[k].seq > x[2]})

\* The frames read from one stream are in order and each says how many were
\* dropped just before it; FLAG_GAP_BEFORE is set exactly on those.
GapsAreWhereFramesWereLost ==
    \A k \in 1..Len(counted) :
        LET f == counted[k]
            before == {x \in lost : x[1] = f.stream /\ x[2] < f.seq /\
                         \A j \in 1..(k - 1) :
                            counted[j].stream = f.stream => counted[j].seq < x[2]}
        IN  /\ f.dropped = Cardinality(before)
            /\ "gap_before" \in f.flags <=> before # {}

\* Every frame that was counted was returned, but for one whose buffer could
\* not be given back: after an unplug between DQBUF and QBUF the statistics
\* know of a frame that nobody has.
FramesAreReturned ==
    stats.yielded - returned = IF pc = "requeue" \/ raised = "OSError" THEN 1 ELSE 0

DropAccountingIsExact ==
    DropsCountedExactly /\ GapsAreWhereFramesWereLost /\ FramesAreReturned

\* frames() gives up when nothing has arrived for as long as it was asked to
\* wait, never earlier, however its reads were cut up by frames and spurious
\* wakeups; and it has given up within two timeouts more, from the last frame
\* on: with no signal, that is how soon a recorder told to stop can stop.
PatienceIsKept ==
    /\ raised = "NoSignal" => quiet >= Patience
    /\ quiet < Patience + 2 * Timeout

\* A filled buffer is read unless the stream is closed or ends, and
\* unplugging ends the capture loop, and so does a device that sends no more:
\* it never waits for ever.
LoopProgresses ==
    /\ \A b \in Buffers :
          (b \in Members(outgoing)) ~>
              (b \notin Members(outgoing) \/ pc \in {"closed", "stopped"})
    /\ (~plugged) ~> (pc \in {"closed", "stopped"})
    /\ (produced = MaxFrames) ~> (pc \in {"closed", "stopped"})
=============================================================================
