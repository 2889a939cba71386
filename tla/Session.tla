------------------------------ MODULE Session -------------------------------
(***************************************************************************)
(* session.Session of vcap_py and the directory it leaves behind: open(),  *)
(* the capture loop, close(), a crash at any step, and the same directory  *)
(* used again by the next run, as systemd/vcap-record.service.in does.     *)
(*                                                                         *)
(* It composes the components that have modules of their own, each seen    *)
(* through its contract: the queue and its thread through FrameLog, which  *)
(* AsyncWriter implements; SegmentWriter through "a frame whose write()    *)
(* returned is in the page cache"; the manifest through manifest.write, a  *)
(* temporary file, fsync and rename.  What a reader then sees is           *)
(* reader.Recording: the segments the manifest lists, and no others.       *)
(***************************************************************************)
EXTENDS Naturals, Sequences, SequencesExt

CONSTANTS
    MaxRuns,     \* bound: sessions recorded into the directory, one by one
    MaxFrames,   \* bound: frames captured per session
    MaxSegments, \* bound: segments per session
    Depth,       \* maxsize of the writer's queue, 240 in the code
    MayFail,     \* TRUE: devices and files may raise
    MayCrash     \* TRUE: the process may be killed

ASSUME RunsAssumption == MaxRuns \in Nat \ {0} /\ MaxFrames \in Nat
                            /\ MaxSegments \in Nat \ {0}
ASSUME DepthAssumption == Depth \in Nat \ {0}
ASSUME FaultsAssumption == MayFail \in BOOLEAN /\ MayCrash \in BOOLEAN

VARIABLES
    run,       \* which session this is; frames are <<run, n>>
    pc,        \* the step of open(), of the loop or of close()
    source,    \* "closed" or "streaming"
    segment,   \* _segment_no of this session's writer
    counted,   \* frames_written of this session's writer
    fileOpen,  \* the files of its segment are open
    reported,  \* the frames_written that finalize read at the end
    files,     \* directory: the frames in each segment's pair of files
    exists,    \* directory: the segments whose files exist
    manifest,  \* directory: manifest.json
    tmp,       \* directory: manifest.json.tmp
    accepted, committed, broken, verdict,  \* the writer, see FrameLog
    complete   \* history: frames of earlier sessions that ended cleanly

logVars == <<accepted, committed, broken, verdict>>
writerVars == <<segment, counted, fileOpen>>
directory == <<files, exists, manifest, tmp>>
vars == <<run, pc, source, segment, counted, fileOpen, reported, files, exists, manifest,
          tmp, accepted, committed, broken, verdict, complete>>

Segments == 0..(MaxSegments - 1)
Frame == (1..MaxRuns) \X (1..MaxFrames)

NoFile  == [run |-> 0, listed |-> 0, ended |-> FALSE, frames |-> 0]
Partial == [run |-> 0, listed |-> 0, ended |-> TRUE, frames |-> 0]
Manifest == [run : 0..MaxRuns, listed : 0..MaxSegments, ended : BOOLEAN,
             frames : 0..MaxFrames]

TypeOK ==
    /\ run \in 1..MaxRuns
    /\ pc \in {"start", "sourceOpen", "writerOpen", "openTmp", "openReplace",
               "running", "closing", "closeSource", "closeTmp",
               "closeReplace", "done", "openFailed", "closeFailed", "dead"}
    /\ source \in {"closed", "streaming"}
    /\ segment \in Segments
    /\ counted \in 0..MaxFrames
    /\ fileOpen \in BOOLEAN
    /\ reported \in 0..MaxFrames
    /\ files \in [Segments -> Seq(Frame)]
    /\ exists \subseteq Segments
    /\ manifest \in Manifest
    /\ tmp \in Manifest
    /\ accepted \in Seq(Frame)
    /\ committed \in Seq(Frame)
    /\ broken \in BOOLEAN
    /\ verdict \in {"none", "ok", "raised", "abandoned"}
    /\ complete \subseteq Frame

Log == INSTANCE FrameLog

Init ==
    /\ run = 1
    /\ pc = "start"
    /\ source = "closed"
    /\ segment = 0
    /\ counted = 0
    /\ fileOpen = FALSE
    /\ reported = 0
    /\ files = [s \in Segments |-> <<>>]
    /\ exists = {}
    /\ manifest = NoFile
    /\ tmp = NoFile
    /\ Log!LogInit
    /\ complete = {}

At(step) == pc = step

\* The step under way raises, or may raise, if anything can.
Raises(next) == MayFail /\ pc' = next

\* open(..., "wb") of a segment's stream leaves nothing of what was there.
Truncated(s) == [files EXCEPT ![s] = <<>>]

-----------------------------------------------------------------------------
(* Session.open                                                            *)

OpenSource ==
    /\ At("start")
    /\ \/ pc' = "sourceOpen" /\ source' = "streaming"
       \/ Raises("openFailed") /\ UNCHANGED source
    /\ UNCHANGED <<run, writerVars, reported, directory, logVars, complete>>

\* Mutant: "ab" for "wb".
OpenWriterAppends ==
    /\ At("sourceOpen")
    /\ exists' = exists \cup {0}
    /\ segment' = 0
    /\ counted' = 0
    /\ fileOpen' = TRUE
    /\ pc' = "writerOpen"
    /\ UNCHANGED <<run, source, reported, files, manifest, tmp, logVars, complete>>

\* SegmentWriter.__init__ rolls to segment 0, truncating what is there: the
\* stream first, so that it may be gone when opening the index fails.
OpenWriter ==
    /\ At("sourceOpen")
    /\ \/ /\ files' = Truncated(0)
          /\ exists' = exists \cup {0}
          /\ segment' = 0
          /\ counted' = 0
          /\ fileOpen' = TRUE
          /\ pc' = "writerOpen"
       \/ /\ Raises("openFailed")
          /\ files' \in {files, Truncated(0)}
          /\ UNCHANGED <<writerVars, exists>>
    /\ UNCHANGED <<run, source, reported, manifest, tmp, logVars, complete>>

\* Mutant: the manifest is written at the end only.
BuildManifestLater ==
    /\ At("writerOpen")
    /\ pc' = "running"
    /\ UNCHANGED <<run, source, writerVars, reported, directory, logVars, complete>>

\* AsyncWriter starts its thread, manifest.build describes the session, and
\* manifest.write begins with an empty temporary file.
BuildManifest ==
    /\ At("writerOpen")
    /\ tmp' = Partial
    /\ pc' = "openTmp"
    /\ UNCHANGED <<run, source, writerVars, reported, files, exists, manifest, logVars,
                   complete>>

\* json.dump, flush, fsync
FillTmp(step, next, failed, m) ==
    /\ At(step)
    /\ \/ tmp' = m /\ pc' = next
       \/ Raises(failed) /\ UNCHANGED tmp
    /\ UNCHANGED <<run, source, writerVars, reported, files, exists, manifest, logVars,
                   complete>>

\* os.replace
Replace(step, next) ==
    /\ At(step)
    /\ manifest' = tmp
    /\ tmp' = NoFile
    /\ pc' = next
    /\ UNCHANGED <<run, source, writerVars, reported, files, exists, logVars>>

\* Mutant: the list of segments is the one of open().
CurrentFirst(ended) ==
    [run |-> run, listed |-> 1, ended |-> ended,
     frames |-> IF ended THEN reported ELSE 0]

\* The list of segments is the writer's own, one entry per roll up to this
\* moment; the number of frames is the one finalize() read before.
Current(ended) == [run |-> run, listed |-> segment + 1, ended |-> ended,
                   frames |-> IF ended THEN reported ELSE 0]

OpenFill    == FillTmp("openTmp", "openReplace", "openFailed", Current(FALSE))
OpenReplace == Replace("openReplace", "running") /\ UNCHANGED complete

-----------------------------------------------------------------------------
(* Session.frames on the caller's thread, SegmentWriter.write on the other *)

\* The thread has a frame in hand and the queue is full.
QueueFull == Len(accepted) - Len(committed) > Depth

Capture ==
    /\ At("running")
    /\ Len(accepted) < MaxFrames
    /\ ~QueueFull
    /\ Log!Accept(<<run, Len(accepted) + 1>>)
    /\ UNCHANGED <<run, pc, source, writerVars, reported, directory, complete>>

\* The thread outlives the capture loop: it drains while close() waits, and a
\* close() that has stopped waiting leaves it running until the process ends.
ThreadRuns ==
    \/ pc \in {"running", "closing"}
    \/ /\ verdict = "abandoned"
       /\ pc \in {"closeSource", "closeTmp", "closeReplace", "done", "closeFailed"}

WithFrame == [files EXCEPT ![segment] =
                 Append(@, accepted[Len(committed) + 1])]

WriteFrame ==
    /\ ThreadRuns
    /\ fileOpen
    /\ Log!Commit
    /\ files' = WithFrame
    /\ counted' = counted + 1
    /\ UNCHANGED <<run, pc, source, segment, fileOpen, reported, exists, manifest, tmp,
                   complete>>

\* The next frame does not fit any more, and this session may have one more
\* segment.
NeedsRoll ==
    /\ Len(committed) < Len(accepted)
    /\ files[segment] # <<>>
    /\ segment + 1 \in Segments

\* _roll, inside the write() of that frame: it opens the next files, also
\* when close() has closed those of the last segment meanwhile.
Roll ==
    /\ ThreadRuns
    /\ ~broken
    /\ NeedsRoll
    /\ segment' = segment + 1
    /\ fileOpen' = TRUE
    /\ files' = Truncated(segment + 1)
    /\ exists' = exists \cup {segment + 1}
    /\ UNCHANGED <<run, pc, source, counted, reported, manifest, tmp, logVars, complete>>

\* Writing the bytes fails, or a flush after the frame has been counted, when
\* its record may reach the index all the same (module SegmentWriter); or the
\* files of the next segment cannot be opened, and its stream was.  A writer
\* that was closed fails like this without any fault of the disk.
WriteFails ==
    /\ MayFail \/ ~fileOpen
    /\ ThreadRuns
    /\ Len(committed) < Len(accepted)
    /\ Log!Break
    /\ \/ UNCHANGED <<counted, files>>
       \/ counted' = counted + 1 /\ files' \in {files, WithFrame}
       \/ MayFail /\ NeedsRoll /\ files' = Truncated(segment + 1) /\ UNCHANGED counted
    /\ UNCHANGED <<run, pc, source, segment, fileOpen, reported, exists, manifest, tmp,
                   complete>>

-----------------------------------------------------------------------------
(* Session.close, reached when the loop ends: by count, by deadline, by a  *)
(* signal, by NoSignal or StreamError, or because write() raised.          *)

CloseBegins ==
    /\ At("running")
    /\ pc' = "closing"
    /\ UNCHANGED <<run, source, writerVars, reported, directory, logVars, complete>>

\* queue.put(None) waits for room, for ever when the thread died and left the
\* queue full: the finally clause is not reached then.
Hangs == At("closing") /\ broken /\ QueueFull

\* How AsyncWriter.close ends.  Everything is written; or it raises, for the
\* thread or for the last flush; or its join stops waiting for a thread that
\* is still at work, and close() goes on as if it were not.  A last flush
\* that fails leaves the files open.
WriterEnds ==
    /\ ~QueueFull
    /\ \/ Log!CloseOk
       \/ Log!CloseRaises /\ (broken \/ (MayFail /\ committed = accepted))
       \/ Log!CloseGivesUp /\ ~broken
    /\ fileOpen' = FALSE \/ (MayFail /\ verdict' # "ok" /\ UNCHANGED fileOpen)

\* Mutant: without the finally, an error skips the rest.
WriterClosesNoFinally ==
    /\ At("closing")
    /\ WriterEnds
    /\ pc' = IF verdict' = "raised" THEN "closeFailed" ELSE "closeSource"
    /\ UNCHANGED <<run, source, segment, counted, reported, directory, complete>>

\* AsyncWriter.close returns or raises; the finally clause follows either way.
WriterCloses ==
    /\ At("closing")
    /\ WriterEnds
    /\ pc' = "closeSource"
    /\ UNCHANGED <<run, source, segment, counted, reported, directory, complete>>

\* source.close(), manifest.finalize, and the temporary file is begun.
SourceCloses ==
    /\ At("closeSource")
    /\ source' = "closed"
    /\ reported' = counted
    /\ tmp' = Partial
    /\ pc' = "closeTmp"
    /\ UNCHANGED <<run, writerVars, files, exists, manifest, logVars, complete>>

CloseFill ==
    FillTmp("closeTmp", "closeReplace", "closeFailed", Current(TRUE))

CloseReplace ==
    /\ Replace("closeReplace", "done")
    /\ complete' = complete \cup {committed[i] : i \in 1..Len(committed)}

-----------------------------------------------------------------------------
Over == pc \in {"done", "openFailed", "closeFailed", "dead"}

Crash ==
    /\ MayCrash
    /\ ~Over
    /\ pc' = "dead"
    /\ source' = "closed"
    /\ UNCHANGED <<run, writerVars, reported, directory, logVars, complete>>

\* The next run starts in the same directory, in a new process.
Restart ==
    /\ Over
    /\ run < MaxRuns
    /\ run' = run + 1
    /\ pc' = "start"
    /\ source' = "closed"
    /\ segment' = 0 /\ counted' = 0 /\ fileOpen' = FALSE
    /\ reported' = 0
    /\ accepted' = <<>> /\ committed' = <<>>
    /\ broken' = FALSE /\ verdict' = "none"
    /\ UNCHANGED <<directory, complete>>

Open  == OpenSource \/ OpenWriter \/ BuildManifest \/ OpenFill \/ OpenReplace
Close == CloseBegins \/ WriterCloses \/ SourceCloses \/ CloseFill
            \/ CloseReplace
Thread == WriteFrame \/ Roll \/ WriteFails

\* The last session is over, or hangs until somebody kills it.
Stopped == ((Over /\ run = MaxRuns) \/ Hangs) /\ UNCHANGED vars

Next == Open \/ Capture \/ Thread \/ Close \/ Crash \/ Restart \/ Stopped

Spec == Init /\ [][Next]_vars

\* The operating system runs both threads and every file operation returns:
\* close() goes on wherever it does not wait for the queue, and the thread
\* drains meanwhile.
FairSpec ==
    /\ Spec
    /\ WF_vars(WriterCloses \/ SourceCloses \/ CloseFill \/ CloseReplace)
    /\ WF_vars(Thread)

-----------------------------------------------------------------------------
(* reader.Recording                                                        *)

\* Opening the directory works when the manifest is there and whole.
Opens == manifest # NoFile /\ manifest # Partial

\* A reader skips a listed segment whose files do not exist.
FramesOf(s) == IF s \in exists THEN files[s] ELSE <<>>

\* All frames of the recording, segment after segment.
Shown == FlattenSeq([i \in 1..manifest.listed |-> FramesOf(i - 1)])

-----------------------------------------------------------------------------
(* Properties.                                                             *)

\* At no moment, crashes and restarts included, does the directory present
\* frames of two sessions as one recording.
NoMixedRecording ==
    Opens => \A i, j \in 1..Len(Shown) : Shown[i][1] = Shown[j][1]

\* "Written before the first frame so that a session killed by a crash still
\* describes itself": as soon as a frame of this session is in a file, the
\* directory opens, is attributed to this session, and shows in order the
\* frames of every segment the manifest lists.
SelfDescribing ==
    committed # <<>> =>
        /\ Opens
        /\ manifest.run = run
        /\ IsPrefix(Shown, accepted)
        /\ IsPrefix(files[0], Shown)

\* A manifest that has its end record shows frames of this session from the
\* first on, in order, and says at most one frame more than there are.
\* Unless close() stopped waiting for the writer, it shows every committed
\* frame and says their number, which only a failed write can make one too
\* many; and when close() returned after the thread had ended without an
\* error, it shows every frame accepted.
EndedIsExact ==
    manifest.ended /\ Opens /\ manifest.run = run =>
        /\ IsPrefix(Shown, accepted)
        /\ manifest.frames <= Len(Shown) + 1
        /\ verdict # "abandoned" =>
              /\ IsPrefix(committed, Shown)
              /\ manifest.frames = Len(Shown)
                    \/ (broken /\ manifest.frames = Len(Shown) + 1)
        /\ verdict = "ok" => Shown = accepted

\* A stop ends with the device released and the manifest rewritten, also when
\* the writer raises or does not finish in time, unless the manifest itself
\* cannot be written, the process is killed, or close() hangs: the one way to
\* that is a thread that died of an error and left its queue full.
StopFinishes ==
    (pc = "closing") ~>
        \/ Hangs
        \/ /\ source = "closed"
           /\ pc \in {"closeFailed", "dead"} \/ (manifest.ended /\ manifest.run = run)

\* "This process dying is covered unconditionally": after a crash a reader
\* gets every frame that had reached the files.
CrashLosesNothing == pc = "dead" => IsPrefix(committed, Shown)

\* "A recording directory is created per start": a session does not destroy
\* the recording of one that had ended.
EarlierRecordingSurvives ==
    \A f \in complete : \E s \in exists : \E i \in 1..Len(files[s]) : files[s][i] = f
=============================================================================
