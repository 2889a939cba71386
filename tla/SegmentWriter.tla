--------------------------- MODULE SegmentWriter ----------------------------
(***************************************************************************)
(* writer.SegmentWriter of vcap_py: frames appended to a pair of files,    *)
(* a stream of JPEG bytes and an index of fixed-size records, rolled over  *)
(* to a new pair when the stream would exceed segment_bytes.               *)
(*                                                                         *)
(* Bytes travel through three layers: the buffer of the Python file        *)
(* object, the page cache of the operating system, the disk.  All three    *)
(* hold prefixes of the same append-only file, so a layer is the length of *)
(* its prefix: what survives the process is the page cache's, what         *)
(* survives the machine is at least what was fsynced.                      *)
(*                                                                         *)
(* One call of write() is a sequence of steps, and the process or the      *)
(* machine may die between any two of them.  The module starts after       *)
(* __init__, with the first pair of files open.                            *)
(***************************************************************************)
EXTENDS Naturals, Sequences

CONSTANTS
    Lens,         \* the lengths in bytes a frame may have
    SegmentBytes, \* segment_bytes: rollover limit, 0 for none
    FsyncEvery,   \* fsync_every: frames between two fsyncs, 0 for never
    MaxFrames,    \* bound: calls of write()
    DiskMayFail   \* TRUE: an operation on a file may raise OSError

ASSUME LensAssumption == Lens \subseteq Nat
ASSUME LimitAssumption == SegmentBytes \in Nat /\ FsyncEvery \in Nat
ASSUME SegmentFramesAssumption == MaxFrames \in Nat
ASSUME SegmentFlagAssumption == DiskMayFail \in BOOLEAN

VARIABLES
    segs,      \* the segments written so far, the last one being open
    pc,        \* the step write() or close() is at
    len,       \* len(frame) of the call in progress
    offset,    \* _segment_offset
    sinceSync, \* _since_sync
    framesWritten, \* frames_written
    returned,  \* calls of write() that have returned
    fate       \* "alive", "killed" (the process) or "powercut" (the machine)

restVars == <<len, offset, sinceSync, framesWritten, returned, fate>>
vars == <<segs, pc, restVars>>

Record == [off : Nat, len : Nat]

\* One segment: the index records written to it, the bytes written to its
\* stream, and how far each file has got into the page cache (os) and is
\* known to be on the disk (sync).  The index counts whole records.
Segment == [recs : Seq(Record), bytes : Nat, streamOs : Nat, streamSync : Nat,
            indexOs : Nat, indexSync : Nat]

NewSegment == [recs |-> <<>>, bytes |-> 0, streamOs |-> 0, streamSync |-> 0,
               indexOs |-> 0, indexSync |-> 0]

Steps == {"idle", "rollStream", "rollIndex", "open", "data", "record",
          "flushStream", "flushIndex", "syncStream", "syncIndex",
          "closeStream", "closeIndex", "closed", "failed", "abandoned"}

TypeOK ==
    /\ segs \in Seq(Segment) /\ segs # <<>>
    /\ pc \in Steps
    /\ len \in Nat /\ offset \in Nat /\ sinceSync \in Nat
    /\ framesWritten \in Nat /\ returned \in Nat
    /\ fate \in {"alive", "killed", "powercut"}

Init ==
    /\ segs = <<NewSegment>>
    /\ pc = "idle"
    /\ len = 0 /\ offset = 0 /\ sinceSync = 0
    /\ framesWritten = 0 /\ returned = 0
    /\ fate = "alive"

Current == segs[Len(segs)]

Step(from, to) == fate = "alive" /\ pc = from /\ pc' = to

\* The open segment becomes s.
SetCurrent(s) == segs' = [segs EXCEPT ![Len(segs)] = s]

\* A step that does no more than that.
FileStep(from, to, s) == Step(from, to) /\ SetCurrent(s) /\ UNCHANGED restVars

\* fh.flush(); os.fsync(fh.fileno()); for the stream, for the index
StreamSynced(s) == [s EXCEPT !.streamOs = s.bytes, !.streamSync = s.bytes]

\* Mutant: the fsync covers the stream only.
IndexFlushed(s) == [s EXCEPT !.indexOs = Len(s.recs)]

IndexSynced(s) == [s EXCEPT !.indexOs = Len(s.recs), !.indexSync = Len(s.recs)]

-----------------------------------------------------------------------------
(* write(frame)                                                            *)

\* Mutant: the limit is tested before the frame is counted in.
FullAlready(n) == SegmentBytes # 0 /\ offset > SegmentBytes

Full(n) == SegmentBytes # 0 /\ offset + n > SegmentBytes

Write(n) ==
    /\ returned < MaxFrames
    /\ Step("idle", IF Full(n) THEN "rollStream" ELSE "data")
    /\ len' = n
    /\ UNCHANGED <<segs, offset, sinceSync, framesWritten, returned, fate>>

\* _roll: _close_segment, the stream first
RollStream == FileStep("rollStream", "rollIndex", StreamSynced(Current))
RollIndex == FileStep("rollIndex", "open", IndexSynced(Current))

\* Mutant: _segment_offset is not reset.
OffsetKept == UNCHANGED offset

OffsetReset == offset' = 0

\* _roll: the next pair of files; _since_sync is not reset
OpenNext ==
    /\ Step("open", "data")
    /\ segs' = Append(segs, NewSegment)
    /\ OffsetReset
    /\ UNCHANGED <<len, sinceSync, framesWritten, returned, fate>>

\* stream.write: buffered, and the buffer may spill into the page cache
WriteData ==
    \E os \in Current.streamOs..(Current.bytes + len) :
        FileStep("data", "record", [Current EXCEPT !.bytes = @ + len, !.streamOs = os])

\* Mutant: the index is flushed, and the stream is not.
IndexFirst == "flushIndex"

FirstFlush == "flushStream"

\* index.write(pack(...)) and the counters.  The buffer of the index is
\* flushed every frame, so it never has to spill.
WriteRecord ==
    /\ Step("record", FirstFlush)
    /\ SetCurrent([Current EXCEPT !.recs = Append(@, [off |-> offset, len |-> len])])
    /\ offset' = offset + len
    /\ framesWritten' = framesWritten + 1
    /\ UNCHANGED <<len, sinceSync, returned, fate>>

FlushStream == FileStep("flushStream", "flushIndex", [Current EXCEPT !.streamOs = Current.bytes])

\* Mutant: the index waits for its 64 KB buffer to fill.
NotFlushed(s) == s

Flushed(s) == [s EXCEPT !.indexOs = Len(s.recs)]

\* Mutant: > for >=.
DueLate == sinceSync' > FsyncEvery

Due == sinceSync' >= FsyncEvery

\* index.flush(), and the decision whether this frame is the one to fsync
FlushIndex ==
    /\ SetCurrent(Flushed(Current))
    /\ sinceSync' = IF FsyncEvery = 0 THEN sinceSync ELSE sinceSync + 1
    /\ IF FsyncEvery # 0 /\ Due
       THEN Step("flushIndex", "syncStream") /\ UNCHANGED returned
       ELSE Step("flushIndex", "idle") /\ returned' = returned + 1
    /\ UNCHANGED <<len, offset, framesWritten, fate>>

SyncStream == FileStep("syncStream", "syncIndex", StreamSynced(Current))

SyncIndex ==
    /\ Step("syncIndex", "idle")
    /\ SetCurrent(IndexSynced(Current))
    /\ sinceSync' = 0
    /\ returned' = returned + 1
    /\ UNCHANGED <<len, offset, framesWritten, fate>>

-----------------------------------------------------------------------------
(* close(): _close_segment once more                                       *)

Close == Step("idle", "closeStream") /\ UNCHANGED <<segs, restVars>>
CloseStream == FileStep("closeStream", "closeIndex", StreamSynced(Current))
CloseIndex == FileStep("closeIndex", "closed", IndexSynced(Current))

-----------------------------------------------------------------------------
(* Failures.                                                               *)

\* The operation under way raises OSError, having moved part of the buffer.
\* The exception leaves write(), and with it the writer thread, for good.
StreamFlushes == {"rollStream", "flushStream", "syncStream", "closeStream"}
FileOps == StreamFlushes \cup {"rollIndex", "open", "flushIndex", "syncIndex", "closeIndex"}

IoError ==
    /\ DiskMayFail
    /\ pc \in FileOps
    /\ \E os \in Current.streamOs..(IF pc \in StreamFlushes THEN Current.bytes ELSE Current.streamOs) :
          FileStep(pc, "failed", [Current EXCEPT !.streamOs = os])

\* stream.write raises: only a frame larger than the buffer gets as far as
\* the file here, and part of it may be there then.
SpillFails ==
    /\ DiskMayFail
    /\ \E os \in Current.bytes..(Current.bytes + len) :
          FileStep("data", "failed", [Current EXCEPT !.bytes = os, !.streamOs = os])

\* What is left to do after an error: AsyncWriter.close calls close(), whose
\* flush of the stream may raise again before the index is reached, and the
\* file objects flush themselves when they are collected.  Each buffer
\* reaches the page cache, or part of it, or none.
Abandon ==
    \E so \in Current.streamOs..Current.bytes, io \in Current.indexOs..Len(Current.recs) :
        FileStep("failed", "abandoned", [Current EXCEPT !.streamOs = so, !.indexOs = io])

Dies(how) ==
    /\ fate = "alive" /\ fate' = how
    /\ UNCHANGED <<segs, pc, len, offset, sinceSync, framesWritten, returned>>

\* SIGKILL, the OOM killer: the buffers of the process are gone.
Kill == pc \notin {"closed", "abandoned"} /\ Dies("killed")

PowerCut == Dies("powercut")

\* After the cut, a segment turns out to have lost any part of what was in
\* the page cache and not yet fsynced, of either file.
LoseTail(i) ==
    /\ fate = "powercut"
    /\ i \in 1..Len(segs)
    /\ \E so \in segs[i].streamSync..segs[i].streamOs,
          io \in segs[i].indexSync..segs[i].indexOs :
          segs' = [segs EXCEPT ![i].streamOs = so, ![i].indexOs = io]
    /\ UNCHANGED <<pc, restVars>>

Stopped ==
    /\ fate = "killed" \/ pc \in {"closed", "abandoned"}
    /\ UNCHANGED vars

-----------------------------------------------------------------------------
WriteSteps == RollStream \/ RollIndex \/ OpenNext \/ WriteData \/ WriteRecord
                \/ FlushStream \/ FlushIndex \/ SyncStream \/ SyncIndex
CloseSteps == Close \/ CloseStream \/ CloseIndex
Failures   == IoError \/ SpillFails \/ Abandon \/ Kill \/ PowerCut
                \/ \E i \in 1..Len(segs) : LoseTail(i)

Next == (\E n \in Lens : Write(n)) \/ WriteSteps \/ CloseSteps \/ Failures
            \/ Stopped

Spec == Init /\ [][Next]_vars

-----------------------------------------------------------------------------
(* Properties.                                                             *)

End(r) == r.off + r.len

\* Record k of segment s can be read back: it and its bytes are there.
Readable(s, k) == k <= s.indexOs /\ End(s.recs[k]) <= s.streamOs

\* Records of the open segment whose write() has returned: the call under
\* way, or the one that raised, may have written one more.
ReturnedHere == Len(Current.recs) - (framesWritten - returned)

\* The records of a segment tile its stream: each starts where the previous
\* one ends, across flushes, errors and rollovers, which is what lets a
\* reader seek by the index alone.
RecordsTile ==
    \A i \in 1..Len(segs) :
        LET s == segs[i] IN
        /\ \A k \in 1..Len(s.recs) :
              s.recs[k].off = IF k = 1 THEN 0 ELSE End(s.recs[k - 1])
        /\ s.recs # <<>> => End(s.recs[Len(s.recs)]) <= s.bytes

\* "This process dying is covered unconditionally": every frame whose
\* write() returned can be read back after the process was killed at any
\* step, in whatever segment it is.
KillLosesNothing ==
    fate = "killed" =>
        \A i \in 1..Len(segs) :
            LET done == IF i = Len(segs) THEN ReturnedHere
                        ELSE Len(segs[i].recs)
            IN  \A k \in 1..done : Readable(segs[i], k)

\* fsync_every bounds what a power cut costs, over segment boundaries too:
\* all segments but the open one are intact, and of the open one all but
\* the last fsync_every - 1 frames whose write() returned can be read.
PowerCutBound ==
    FsyncEvery # 0 =>
        \A i \in 1..Len(segs) : \A k \in 1..Len(segs[i].recs) :
            (i < Len(segs) \/ k + FsyncEvery <= ReturnedHere + 1)
                => Readable(segs[i], k)

\* A segment that was closed, by rollover or by close(), is on the disk in
\* full: no power cut afterwards can touch it.
ClosedIsDurable ==
    \A i \in 1..Len(segs) :
        (i < Len(segs) \/ pc = "closed") =>
            /\ segs[i].streamSync = segs[i].bytes
            /\ segs[i].indexSync = Len(segs[i].recs)

\* No segment exceeds the limit unless one frame alone does, ...
SegmentsBounded ==
    SegmentBytes # 0 =>
        \A i \in 1..Len(segs) :
            segs[i].bytes <= SegmentBytes \/ Len(segs[i].recs) <= 1

\* ... and every segment but the first was opened for a frame that did not
\* fit.
RolledWhenFull ==
    \A i \in 1..Len(segs) - 1 :
        segs[i + 1].recs # <<>> =>
            segs[i].bytes + segs[i + 1].recs[1].len > SegmentBytes

RolloverIsTight == SegmentsBounded /\ RolledWhenFull

\* "the stream first, so the index never references bytes the OS has not
\* seen": true until an I/O error, which damages the tail and nothing else.
\* At most the frame whose write() raised gets into the index without its
\* bytes, when the files are collected.
ErrorHurtsLastOnly ==
    fate # "powercut" =>
        \A i \in 1..Len(segs) : \A k \in 1..segs[i].indexOs :
            End(segs[i].recs[k]) > segs[i].streamOs =>
                i = Len(segs) /\ k = Len(segs[i].recs) /\ pc = "abandoned"
=============================================================================
