# A TLA+ model of hdmi_capture

hdmi_capture records the HDMI output of a machine through a USB capture card:
it reads MJPEG frames from V4L2 with the driver's timestamps, appends them to a
stream file with an index beside it, describes the recording in a manifest, and
reads recordings back by frame number or by time.  A recording is made once, on
a machine nobody watches, next to the control data it must be aligned with.
What makes the program correct is therefore mostly about what is *lost*: a frame
dropped by the driver, a frame in a queue when the disk fails, a frame in a
buffer when the process dies.  Each loss must be bounded, and must be told.

Paths below are relative to the repository; `vcap/` is `vcap_py/vcap/`.

## The system

| Component | State it keeps | Operations | Interacts with |
|---|---|---|---|
| Capture source, `vcap/source.py` | fd, mmapped buffers, last sequence number, counters | open, close, read, frames | driver (ioctls), session |
| Recording thread, `vcap/writer.py` AsyncWriter | bounded queue, error slot, high-water mark | write, close, the thread's loop | capture loop (queue), segment files |
| Segment files, `vcap/writer.py` SegmentWriter | two open files, offset, fsync counter, list of segments | write, rollover, close | file system, recording thread |
| Session, `vcap/session.py`, `vcap/manifest.py`, `tools/vcap-record` | the three above, manifest | open, frames, close | directory, signals, systemd unit |
| Latest frame slot, `vcap/ring.py`, `tools/vcap-view` | one frame, generation, counter | put, get, wait_for_new | producer thread, viewer threads (condition variable) |
| Index and reader, `vcap/index.py`, `vcap/reader.py` | mmapped index files, segment starts | search, nearest, locate, index_at, at, flagged | directory left by a session |
| C++ recorder, `vcap_cpp/` | queue under a mutex, stop flags, two open files, manifest | main loop, writer thread, manifest writes | the same formats, read by the Python reader |
| JPEG structure and decoder, `vcap/frame.py`, `vcap/jpeg_dc.py` | the place in the scan, bits not yet given, predictions | dimensions, whole or fragment, decode_dc | frames of a recording, bar code |
| Bar code, glass-to-glass, `vcap/barcode.py`, `tools/vcap-glass-to-glass` | a code shown and decoded | encode, decode, reconstruct | display, capture source, JPEG decoder |
| Devices, `vcap/device.py`, `vcap/probe.py`, `vcap/outputs.py` | none | find, measure | sysfs, udev, driver |
| Verification, `tools/vcap-verify` | none | check a recording | reader |

What is hard in it:

* *Two threads and a queue.* The capture loop must never wait for the disk; the
  thread must drain at shutdown; either side may fail while the other goes on.
* *Crashes.* Two files and a manifest are written step by step, the process or
  the machine may die in between, and the same directory may be used again.
* *A driver that does not wait.* Buffers change hands between ioctls, the device
  may be unplugged at any of them, numbering starts afresh with each stream.
* *A condition variable with timeouts*, followed by several viewers.
* *Boundaries*: rollover exactly at the limit, empty segments and indexes, equal
  timestamps, negative frame numbers; a scan that ends in the middle of a code.
* *A machine that changes*: nodes are renumbered and links led elsewhere while
  the program goes through them.

`PROJECT.json` lists these line by line under `hazards`.

## The modules

    FrameLog        what handing frames to a recorder promises
      ^ implemented by (refinement, checked and proved)
    AsyncWriter     capture loop, queue, thread          <- AsyncWriterProofs
    CppRecorder     main loop, queue, writer thread in C++  <- CppRecorderProofs
      (implements FrameLog as well)
    SegmentWriter   stream and index file, three layers  <- SegmentWriterProofs
      ^ used by
    Verify          what vcap-verify finds of the files left behind
      (SegmentWriterProofs is about both)
    Session         directory, manifest, crash, restart  <- SessionProofs
      (uses FrameLog)
    VideoSource     driver's buffer ring, read(), frames()  <- VideoSourceProofs
    LatestFrame     slot with generations and a condition variable
    Discovery       find_capture_card while cards come and go
      ^ both composed by
    View            main() and the handlers of vcap-view <- ViewProofs
      (ViewProofs is about all three)
    Index           what an index is, what a search must return
      ^ used by
    IndexSearch     the binary search, step by step
      ^ used by
    Recording       lookups over the segments of a recording
    Nearness        how far times are apart; used by Recording and Barcode
    Jpeg            marker walks, bit reader, Huffman and DC decoding
      ^ both composed by
    Playback        the reading side, one call per behaviour <- ReadingProofs
    Barcode         a number as bars, the number back, its time
      ^ used by
    GlassToGlass    window, capture thread and main thread of the latency tool
      (ReadingProofs is about IndexSearch, Recording, Jpeg, Barcode and
      GlassToGlass)

    OperatorProofs  lemmas on what the modules above are made of

A module is one component, its actions are named for the code's operations, and
an operation that other actors can interrupt is cut at the points where they
can.  `MC*` modules give values to the constants that are sets of records; the
other configurations run on the component's module itself.  Operators marked
`Mutant:` are plausible bugs kept beside the definition they distort: with any
of them in its place, the named property fails, which is how we know that the
property can.

**AsyncWriter** cuts `write()` at the error test, the reading of `qsize()` and
the put; `close()` at the put of the sentinel, the join, the close of the files
and the error test; the thread at its get and its write.  `queue.Queue`
operations are atomic.  The history variables `accepted`, `written`, `peak`,
`overran` and `gaveUp` only record.  `Verdict` maps a normal return after the
join timed out to FrameLog's `abandoned`.  After such a join the thread goes on
behind `close()`: what it writes then fails, as the files are closed, or goes into
the files that a rollover opens anew.

**CppRecorder** is `vcap_record.cpp` with its AsyncWriter.  A critical section
of the mutex is one step; the notification, which the code makes after the
unlock, is another; a wait is left by a notification or spuriously and looks at
its predicate again.  There is no sentinel and no timeout: `close()` sets
`stopping_`, notifies and joins.  An exception out of `read()`, of `write()` or
of the joined thread skips the last manifest write and runs the destructors,
which close the writer without throwing (`way = "unwound"`).  SegmentWriter is
one step here: it returns, throws, or returns although an `fflush` failed that
nothing looks at (history variable `silent`); the same goes for the text of the
manifest.  SIGKILL is no action: what it leaves is `stored` and `manifest` in
any reachable state.  The progress line reads two counters while the thread
writes them, a data race; only the line shows them, and they are left out.

**SegmentWriter** cuts `write()` at each file operation.  A file is append-only,
so what each layer holds (Python's buffer, the page cache, the disk) is the
length of a prefix: in bytes for the stream, in whole records for the index.
`Kill` loses the buffers, `PowerCut` then `LoseTail` loses any part of either
file that was not fsynced, independently.  The stream's 1 MB buffer may spill at
any length, also when the write of the bytes raises after a part of them
(`SpillFails`); the index is flushed each frame and never spills.  `IoError` stops
the writer for good, as the exception does, and so does `SpillFails`; `Abandon` is what happens to the
buffers afterwards, when `close()` is tried and the files are collected.

**Verify** adds no step to it: in every state in which nobody writes any more it
opens what is in the files, as a reader does, with any number of the segments
listed in the manifest, and compares what vcap-verify reports of the frames it
samples with what it would report of them all.

**VideoSource** has the reader at select, DQBUF, copy and QBUF, and the driver
between any two.  The driver fills the buffers in the order it got them and
uses up a number for a frame it has no buffer for: that is what `source.py`
counts on, and is marked external in the map.  `open()` is one step (nobody else
acts before STREAMON) that may fail at any ioctl, with the buffer count reduced
already.  `_last_seq` survives `close()`, as in the code.  A model run where the
first frame of a stream could itself be dropped is excluded by the driver
having all buffers at STREAMON.  Time is counted by the reader alone: a select
that times out takes `Timeout`, one that wakes any part of it, the rest takes
none; `quiet` is the time since the last frame and `waited` what `frames()` can
tell of it, as it looks at the clock only after its first read has timed out.
With nothing to dequeue DQBUF is EAGAIN; otherwise it may fail with any errno, of
a device that is still there too:
ENODEV and EIO are StreamError, another one leaves as it is (`DequeueError`).

**LatestFrame** makes code holding the lock one step and waiting two: a waiter
that was notified or timed out must take the lock again.

**Discovery** takes every look at the machine as a step: listing the links,
resolving each of them, listing the nodes, resolving a path, asking the node it led to, opening the node
of the device chosen.  `Plug` and `Unplug`, with what udev does to the links,
come between any two.  A card has two nodes and a link to each; cards of one
model may share their links, and are then allowed or forbidden together.  A substring is a set of the names it occurs in.
**View** starts the server once a card is found and puts frames once the device
is open; what Discovery knew is then forgotten, for nothing looks at it again.

**Session** composes the others through their contracts: the queue and thread
are `INSTANCE FrameLog`, a file is the sequence of frames in it,
`manifest.write` is three steps (empty temporary file, contents, rename).
`Shown` is what `reader.Recording` finds: the frames of the segments the manifest
lists, in that order, a listed segment without files counting for none.  A restart goes into the same directory, as the unit file
does: systemd turns `%%Y` into `%Y`, and nothing expands it further.
`WriterCloses` has the three ends that `AsyncWriter.close` has.  It returns with
the thread dead and everything written; it raises; or its join gives up, returns
as if all were well, and the thread runs on (`ThreadRuns`) while the source is
closed, the counters are read (`reported`) and the manifest is written: it may
still write, fail on a closed file, or open the files of one more segment.  The
fourth possibility is that it does not end: `Hangs` is the thread dead and the
queue, of `Depth` frames, full, so that the sentinel waits for room for ever.  A
truncation comes before the opening of the second file of a segment, and stays
when that opening fails.

**Recording** answers each question the way the code does: it picks the segment,
runs the steps of IndexSearch on its index, and turns the record found into a
frame number.  The properties compare the answers with the recording laid out
as one sequence.  A frame number just outside of it, at either end, gets the
IndexError of `_locate` (`OutOfRange`).

**Jpeg** is `decode_dc` in steps: a segment, an MCU, a DC or an AC code each, and
the functions of `frame.py` as operators.  Bytes are numbers and the bit reader
is a position and a count, so that what it does at the end of a scan, at a
stuffed byte and at a marker is the code's.  `MCJpeg` holds an encoder written
from the standard, not from the decoder, with what is true of each image, where
its markers are among it; payloads are its files, whole or cut.  **Playback** puts
a call of the decoder beside the lookups of Recording.

**Barcode** has no state.  A picture is a row of column means; the code's
fractions (a pitch of 2.5 columns, the mean of a bar, a tolerance of 0.30) are
whole numbers over a common denominator, and Python's rounding of halves to even
is kept.  `Refused` is DecodeError, `Crashed` the ZeroDivisionError of
`sample_bars` when a wrong geometry puts a bar on the last column.

**GlassToGlass** is the tool: `tick` paints the time, the thread stores frames
with their timestamps, and after the window is gone `measure()` reads the list,
which the thread may still be appending to if the join gave up: it tests the
window and the deadline (`Keep`) before it stores (`Store`), and between the two
the main thread can get as far as it likes.  `Expire` is the moment the deadline
passes; a device may send frames, flagged ones among them, for as long as it
takes.  A frame may be whole and undecodable ("broken"): a JpegError, or the
IndexError that nothing catches.  A *scene* is
what the display and the card make of the window: where it is, how wide a bar
is, its levels, what is beside it, or a desktop that covers it.  A frame is of
the latest painting or torn between the last two, with a bar misread perhaps;
`Columns` is the row of levels the decoder gets to see of it, and `Reading` the
number of each picture there can be, so that TLC decodes each of them once.

## What is checked

| Run | Shows |
|---|---|
| `async_faults` | with a disk that fails or stalls anywhere: frames keep their places and their order (NothingVanishes), high_water is within one of the true peak and equals the depth after an overrun (HighWaterIsHonest), nothing moves after a close that joined (CloseIsFinal), a close that did not give up raises exactly when frames were lost (CloseIsFinal), the queue and thread implement FrameLog (ImplementsLog), and close() returns from everywhere but one state (CloseReturnsUnlessStuck) |
| `async_blocked` | *violation*: in that state close() never returns |
| `segment_crash` | a killed process loses no frame whose write() returned (KillLosesNothing); a power cut costs at most fsync_every - 1 of them, over rollovers too (PowerCutBound); a closed segment is safe (ClosedIsDurable); records tile the stream (RecordsTile); rollover is exact (RolloverIsTight); an I/O error spoils at most the frame whose write() raised (ErrorHurtsLastOnly); vcap-verify, which reads a sample, finds a recording damaged whenever reading all of it would (SampleIsEnough) |
| `source_read` | no buffer leaks or is used twice (BuffersConserved); the bytes are those the sequence number belongs to (FrameMatchesItsSeq); the drop counter and the gap flags are exact, over a reopened stream too, and every counted frame was returned but one whose QBUF failed (DropAccountingIsExact); with no signal the loop ends after its patience, and within two timeouts of it (PatienceIsKept); what is filled is read, and unplugging or silence ends the loop (LoopProgresses) |
| `latest_view` | while nothing moves, a card is found by a text if and only if it is the only one meant (SelectionIsExact); what streams is what the device is called, whatever moved while the others were looked at (StreamIsWhatItIsCalled); no lost wakeup, and a viewer up to date by generation has seen the frame (SleepersHaveSeenIt); it is served the newest one (ServedNewest, NewFrameIsServed) |
| `session_crash` | over two sessions in one directory, killed or failing at any step: never frames of two sessions in one recording (NoMixedRecording); a recording with a frame in it can be opened and is its own session's (SelfDescribing); a finished manifest agrees with the files as far as AsyncWriter.close() can know, and shows every accepted frame when the thread had ended without an error (EndedIsExact); a stop releases the device and writes the manifest, after a join that gave up too, unless AsyncWriter.close() hangs (StopFinishes) |
| `session_rollover` | *violation*: after a rollover and a crash the later segments are not in the manifest, so a reader does not see them |
| `session_restart` | *violation*: a second start truncates the recording of the first |
| `cpp_faults` | with files, device and manifest that may fail, and spurious wakeups: a signal lets at most one more frame into the recording (StopsPromptly); a manifest that can be read describes the files exactly as far as stdio failures went noticed (ManifestIsHonest); the queue and thread implement FrameLog (ImplementsLog); no wakeup is lost on the way out (StopFinishes) |
| `cpp_manifest` | *violation*: a full disk leaves a truncated manifest; the shortest trace is the first write, and the last one, which replaces a good manifest, takes the same path |
| `recording_lookup` | the search returns the last record at or before the target (SearchIsRight), and frame numbers, `index_at`, `at` and `nearest` agree with the whole timeline (LocateIsPosition, IndexAtIsGlobal, NearestIsNearest); a JPEG cut anywhere decodes to what was encoded before the cut (PrefixIsDecoded), its decoding ends (CutScanIsFinished), and fragments are told from whole frames by walks that agree (FragmentsAreTold) |
| `glass_to_glass` | a latency is the time since a painting the frame shows, whatever was torn, mislocated or, but for the bars at the ends, misread (LatencyIsTrue); an undamaged picture always yields one, on both sides of a wrap (CleanFramesCount); the tool ends by its deadline however the window and the thread do, be there flagged frames only or frames stored after the join (Finishes) |

The violations are described, with the lines that promise otherwise, under
`findings` in `PROJECT.json`.  Smaller disagreements have no run of their own:

* SegmentWriter's comment "the index never references bytes the OS has not
  seen" (`vcap/writer.py`, and `writer.cpp:110`) does not hold after a failed
  flush; ErrorHurtsLastOnly and ManifestIsHonest are what holds instead.
* After a join that timed out `close()` of the Python writer returns normally
  with frames unwritten, although it "drains rather than discards"
  (`writer.py:235`), and the session writes its end record over them, with a number
  of frames that may be behind or ahead of the files: the premise `~gaveUp` of
  CloseIsFinal, `abandoned` in FrameLog, and the premises on `verdict` in
  EndedIsExact, which is what still holds.
* An unplug between DQBUF and QBUF leaves `read()` as a plain OSError, not as
  the StreamError that callers catch (`source.py:289`), and so does an errno of
  DQBUF other than EAGAIN, ENODEV and EIO (`source.py:256`): "OSError" and
  "DequeueError" of VideoSource.
* In C++ a StreamError or an error of the thread is caught outside the block
  that writes the last manifest (`vcap_record.cpp:135`), so frames behind a
  rollover are not listed; and a DQBUF that has nothing ends the recording as
  NoSignal although the comment calls it "a race, not a fault"
  (`source.cpp:216`): ReadThrows.
* `sample_bars` divides by zero where a wrong geometry puts a bar on the last
  column, for instance with a desktop bright in columns 100 to 134 and in the
  last one of 240: neither `_decode_at` nor `measure()` catches it, and the tool
  ends with a traceback, where `barcode.DecodeError` is "the pattern could not
  be read out of this frame" (`barcode.py:111`).  Outcome `crashed` of
  GlassToGlass, reached by its last scene.
* A bar that is misread at an end of the row can be fatal to a reading, although
  its check is right: the pattern is looked for from its first bright column to
  its last one, and where something bright begins beside the window, the decoder
  finds other bars.  With the last bar lost at the left of a bright background the
  number 8 is read as 17, so that a latency of 31 ms is reported for one of 40.  Of the
  numbers tried with TLC, 191 of them in each scene of MCGlassToGlass, only the
  first two bars and the last two can do so;
  `decode_columns` says of itself that random bits pass the check one time in
  sixteen (`barcode.py:227` to 239) and leaves the rest to the plausibility of
  the latency.  LatencyIsTrue excepts these bars (`EndBars`).
* `read_bit` promises that a scan ends at a marker, but it passes over the FF and
  reads the code of the marker as data (`jpeg_dc.py:101` to 109); after a byte is
  lost a restart therefore does not bring the decoder back into step.
  PrefixIsDecoded promises nothing behind the damage.
* A frame header cut off within its components raises IndexError
  (`jpeg_dc.py:232`) where `decode_dc` promises JpegError: `result` of Jpeg; the
  latency tool ends with a traceback of it, outcome `crashed` of GlassToGlass.  And
  `decode_dc` reads a length after every marker, also after those that
  `jpeg_dimensions` knows to have none.
* Patience is counted from the end of the first read that timed out
  (`source.py:307`), so a recorder waits up to two timeouts longer:
  PatienceIsKept has the exact bound.
* `docs/hardware.md:252` says that `find_capture_card()` resolves through by-id,
  and `VideoSource.open` opens the node it was resolved to then
  (`source.py:118`): after a replug in between another card is recorded, under
  the name of the first.  StreamIsWhatItIsCalled has the premise that nothing
  moved since; `docs/hardware.md:256` leaves cards with the same link untested:
  the second part of SelectionIsExact is what happens to them.
* `find_capture_card` raises OSError for a path that exists and cannot be opened,
  and so does the opening of a device; vcap-view catches neither: outcome
  `oserror` of Discovery.
* LatestFrame's `overwritten` counts every put but the first, not the frames
  overwritten unread, as its comment and `tests/test_ring.py:40` have it.

### Bounds

* AsyncWriter: depth 3 and 6 frames: the queue can fill, refuse, drain and fill
  again, with the sentinel behind a full queue.  The proofs need no bound.
* CppRecorder: depth 2, 4 frames, 2 segments: the queue overruns, drains and
  sleeps, before and after a rollover, with every stop and failure in between.
* SegmentWriter: lengths 1, 2 and 4 with a limit of 3: frames that fit, that
  fill a segment exactly, and that are larger than one; 4 frames and
  fsync_every 2, so that the fsync counter crosses a rollover.
* VideoSource: 2 buffers (granted 1 or 2), 4 frames per stream, 2 streams: the
  driver runs out of buffers before, between and after reads of either stream.
  A timeout of 2 and a patience of 3: one timeout is not enough, two are, and a
  wakeup may cut either short.
* Verify: samples of 1 and 2, so that the stride skips frames of every file.
* Discovery: three cards on four nodes, two of them behind one pair of links,
  any model of which may be forbidden; two moves, so that a node can change hands or a card
  come back elsewhere.
* Jpeg: grey images of three blocks with restarts after one, two or no blocks,
  and colour ones with six and eight blocks; codes of 1 to 11 bits, stuffed
  bytes, clamped samples; cut at every byte of the scan, at every byte of the
  file for some, at either end, with 1 to 4 bytes lost.  Recordings do not
  matter to the decoder: it is asked beside one only.
* LatestFrame: 2 viewers and 3 puts: one viewer asleep, one between waking and
  its lock, and a put in between.
* Session: 2 sessions of at most 4 frames in at most 3 segments, so that the
  second can be shorter or longer than the first; a depth of 2, so that a queue
  is full with a frame in hand and one in a file.
* Recording: up to 4 frames in up to 3 segments, empty ones among them, and one
  segment of five records; targets before, at, between and after the timestamps.
* GlassToGlass: the 20 bits of the program.  100 columns, with bars of 2, 2.5
  and 3 of them, clean and washed out, with dark and bright surroundings on
  either side and both: each of the four geometries is the right one in a scene.
  Three paintings before and after a wrap, 8 ms apart or too far apart to be a
  plausible latency.  Two frames are wanted, so that one can be measured while the
  other is in hand, and the list grow after the join; of frames that are not
  stored there is no bound, nor of the time they take.  A bar that is misread is
  a data bar or the last one; it is one bar in a frame, as two can collide
  in a check of four bits, which `barcode.py:229` says of itself.

### Fairness

Only of what the program or the system drives on by itself, and weak but for
one action: a call of `write()` or `close()` that has begun goes on; the operating
system schedules the writer threads and `main()` of the C++ recorder, and each
disk operation returns; its `read()` returns within its timeout; a wakeup that
nobody notified is never counted on;
`select` wakes for a filled buffer or a vanished device, and times out in the end
although it may wake for nothing again and again (strong fairness of
SelectTimesOut: the driver is not wrong for ever); a woken thread gets the
lock in the end, and a viewer calls `wait_for_new` again; the capture thread of
vcap-glass-to-glass runs, its `read()` returning or raising within 3 s, and so do
the window's timer and the main thread, whose join returns, and its deadline
passes in the end.  Session asks that its thread and `close()` go on, and not
that `close()` gets past a full queue.  Nobody is obliged to close the window.  Nothing obliges the
caller to write another frame or the device to send one, and the timeout of the
join is never obliged to happen.

`CHECK_DEADLOCK FALSE` is set in the AsyncWriter runs where a disk may fail: in
the state `async_blocked` exhibits the caller really waits for ever; and in
`latest_view`, as vcap-view ends when it finds no card.

## What is proved

By TLAPS, for every value of the constants.

*AsyncWriterProofs.*  The properties of AsyncWriter are not inductive on their
own: that a frame is not lost when the thread takes the sentinel needs to know
that nothing is queued behind the sentinel, which needs to know where the caller
is.  `IInv` adds to the type invariant and to NothingVanishes where the
sentinel can be (StopIsLast), what the thread's state says of its hand, of the
error and of the queue (ThreadState), what the caller's position says of the
files and the outcome (CallerState), that a join that did not give up found the
thread dead (JoinState), and the bounds on the peak (PeakState).  It is proved
for the steps of write(), of close() and of the thread in three lemmas.  From it:

* TypeCorrect, Accounting, HighWater, FinalClose: TypeOK, NothingVanishes,
  HighWaterIsHonest and CloseIsFinal are invariants;
* Implements: every behaviour is one of FrameLog.  The lemma Drained (a dead
  thread without an error has written everything) is the step that makes an
  ordinary close a `CloseOk`;
* NoSilentLoss: unless the join gave up, a normal return means every frame was
  written.

*CppRecorderProofs.*  The invariant has EachFrameOnce (what was written, is in
hand and is queued is what was accepted), FramesCounted (the frame number tells
the accepted frames), ThreadState (what each state of the thread says of hand,
queue and error), MainState (what each step of `main()` says of `stopping_`, the
outcome and the thread), and LateState (a late frame has just been pushed, or
the loop is over).  Each step of the main thread and of the writer thread keeps
it, from which TypeCorrect, Prompt (StopsPromptly) and Implements (ImplementsLog)
follow.  For ManifestIsHonest the invariant is extended by HonestInv: no frame is in a
segment that does not count yet, and unless stdio kept an error to itself, what
can be read back is what write() returned from (StoredState); nothing runs
before the first manifest is there, and the last is written when the thread has
been joined without an error, so that no frame can overtake either (TextState);
an overrun was measured at the depth, and nothing is pushed after it
(OverrunState).  From it: ManifestIsHonestHolds.

*SegmentWriterProofs.*  That a reader finds after a crash what it should depends
on how far the three layers of two files have got, in the middle of a write.
`IInv` says of every segment but the last that it is finished: tiled, flushed,
synced if syncing is asked for, and within the limit (Earlier); of the last, how
offset, bytes and last record agree at each step of write() (OffsetState,
CallState), how the layers are ordered (CacheState), that the records not yet
synced are no more than the fsync counter (SyncState), what close() has done so
far (CloseState) and why a segment was begun (RollState).  From it follow
TilesAlways, KillIsHarmless, PowerCutIsBounded, ClosedSurvives, RolloverIsExact
and ErrorsStayAtTheTail, for every limit, every fsync_every and all lengths.

SampleIsEnoughAlways is about Verify.  A reader finds an entry truncated when its
record says more bytes than the stream has.  The invariant says that only the
last segment can miss bytes, and that they are missing from its end, so that if
any entry is truncated the last one is (MissingFromThereOn); and the last frame
is in every sample.  The lemmas on FlattenSeq say where it is in the listing.

*VideoSourceProofs.*  BuffersConserved counts places; OnePlace adds that no
buffer is in two of them, HandState what the reader holds at each step,
MemoryState that a filled buffer has the bytes of its own number until it is
given back, WaitState how `waited`, `quiet` and the timeouts done relate, and
EndState which error ends the loop where.  From it: NoBufferLeaks,
PayloadIsItsOwn, GivesUpInTime and CountedIsReturned, one part of
DropAccountingIsExact.

The other parts of it count sets of lost numbers, which is not inductive by
itself.  `DInv` says that the numbers of a stream are each read,
waiting or lost, that those waiting are in order (LineState), that what was read
is in order and behind the next number to read (CountState), and that the first
number of a stream is never lost, since every buffer is queued when it starts
(LostState).  So a number lost now is behind everything read, and what lies
between two reads is exactly what `sequence - last - 1` counts: AccountingIsExact,
for any number of buffers, frames and streams.

*SessionProofs.*  What a directory shows depends on two sequences of steps: those
of a session and those of the thread, with a crash between any two and the
leavings of earlier sessions in the same files.  `IInv` says that a manifest is
of this session or an earlier one and lists segments that are there and hold
frames of that session only (ManifestInv); that the manifest is this session's
from the end of `open()` on, and that until then nothing was accepted
(PhaseInv); that a manifest about to be renamed is whole, that one with its end
record says at most one frame more than its segments hold, and that it lists every
segment and has the writer's own number unless close() gave up on the thread, which
may open segments and count frames from then on (TmpInv); how accepted, committed and verdict agree
(LogInv); and that the segments of the session, put end to end, are the
committed frames and perhaps the one whose write failed (FilesInv).
NoMixedRecordingHolds, SelfDescribingHolds and EndedIsExactHolds follow: a
manifest that lists fewer segments, the first one or one overtaken by a thread
that close() did not wait for, shows a prefix of them.

*ReadingProofs.*  The search first: with `Excluded` (what lies left of the range
is at or before the target, what lies right of it is after, and `best` is the
record before the range), SearchCorrect and SearchProgress (each round leaves a
smaller range, so the loop ends), for any sequence of searches on ascending
indexes; SearchesCorrect says the same of those that Recording begins.  Then the
lookups: `Timeline` has the frames of segment s from Start[s] on, so that the
last segment that starts at or before g is the one g is in, and never an empty
one (LocateCorrect); no frame of a later segment is at or before the target, and
all of the earlier ones are (IndexAtCorrect); times ascend along the timeline,
so the nearest of all frames is the last at or before the time or the one after
it, and with equal times the first of those (NearestCorrect).  LookupsCorrect says all
of this of Playback, where frames are decoded beside the lookups.

Then the JPEG.  `SizeFrom` is recursive and ends because it only looks further
on; the segments of an image lead from one to the next, and whatever is before
the frame header leads towards it, so what is found is the image's size or, when
the frame header is cut off, nothing (FoundIsTold).  The decoder walks by other rules
but goes from segment to segment too (JpegInv: where it stands as long as it is
before the scan; what it read of the size is the image's; behind the start of a
scan it has read one).  A part without the beginning of a file has no SOI at its
start, one without the end no EOI at its end.  Together: FragmentsToldApart.
BlocksCoverImage is about where the blocks of a scan go: the digits of a place
in its mixed base are the MCU and the block, so every place is taken once, and the
bounds test of `_decode_scan` (`jpeg_dc.py:326`) never refuses a block.

Of the bar code: two numbers that differ in one bit have check bits that differ
too, so a bar misread among the data, the check or the reference bars leaves a
number whose bars are those painted, or is refused (MisreadBarIsCaught), for
any number of bits.  And of the tool around it: LatencyIsTrueOfDecoder and
CleanFramesCountOfDecoder.  GlassInv says that the paintings follow one another
by the gaps there can be, and that each frame captured or in hand is one of the
pictures there can be, less than half a period away from what it shows, so that
ReconstructExact leads from a number that was read back to its painting; and that
as long as the thread is in its loop, or about to store, one frame is still
wanted.  The last gives GlassTypeCorrect: also when frames are stored after the
join, behind the back of measure(), the list is never longer than what is wanted,
and what is measured is what was there.
What a decoder has to do for it is a hypothesis of these two theorems:
NeverFooled (of a picture it makes one of the numbers in it, or none) and
CleanPicturesAreRead.  They speak of the decoder of Barcode and of the pictures
there can be, and TLC evaluates both to TRUE for the constants of
MCGlassToGlass (add `ASSUME NeverFooled /\ CleanPicturesAreRead` to it).

*ViewProofs.*  Of the slot: with what it says of its generation and what each
state of a consumer says of what it was shown, NoLostWakeup and NewestServed, for
any finite number of viewers.  ViewerServed says that they hold in the program as
a whole.  Of the search: a node is of one card only and a link leads where it
may (WorldOK); what was learnt about a device is true as long as nothing moved
since its path was resolved (SearchOK), which is StreamIsWhatItIsCalledHolds; and
as long as nothing has moved at all, the candidates are those of the cards looked
at so far, one each and under the name the links resolved gave them (LabelledSoFar
while they are), and what is still
to do is the nodes of the others (ExactState), from which SelectionIsExactHolds.

*OperatorProofs.*  Lemmas the other modules cite: what FlattenSeq returns, where
each element of each part goes and that fewer parts give a prefix; what
`NearestOf` and `IsPrefix` say; and the theorem ReconstructExact: a time that is
less than half a period from the frame's own timestamp is what `reconstruct_ms`
returns for its low bits.  Two multiples of the period that are less than two
apart are neighbours, so the time is among the three candidates, and each of the
others is further away.

FlattenSeq is defined by a recursive function, and an induction over the length
of its argument is needed to say what it returns.  The library's induction
theorems take an operator, which the provers cannot instantiate; well-founded
minima (WFMin over the naturals) take none and do as well: LeastNumber and
SetInduction.  Where the proofs need a filter, the models have a set or an empty
part instead of SelectSeq, of which the provers know nothing.

The assumptions are those the modules state about their constants: a depth of
at least one, natural bounds, ascending indexes, a counter of at least one bit;
and, where there is something to justify:

* RecordingsAssumption: the indexes of a recording are ascending, and segment
  after segment, since one writer appends frames of one monotonic clock;
* TolerancesAssumption: a tolerance is a whole number of nanoseconds, as
  `tolerance_ns: int | None` says;
* LinksAssumption: the name of a link says what it leads to (udev ends it with
  `-video-index0` or `-video-index1`) and what the card calls itself;
  `DeniedAlike`, a condition on the initial states, says that cards of one link
  have the same rights, which udev gives by the same properties.  If one of two
  twins could be forbidden alone, a link that leads to it would name a card
  that `find_capture_card` does not find;
* ImagesAssumption: what a JPEG file is.  Its markers follow one another by the
  lengths of their segments, up to a scan or the end; one is a frame header, which
  says its size; there is no SOI but at its start.  Of a file that is cut, there is also no
  EOI but at its end: an embedded thumbnail would have both, and the cards send
  none;
* IntervalsAssumption: the window is painted at times that are less than half a
  period of the counter apart from the frames;
* HintsAssumption: a text that occurs in the path of a node is that path.  With no
  node `/dev/video1` the code takes that text for part of `/dev/video10`, as it
  takes every text: nodes whose numbers begin alike are left out.

Model-checked only: PrefixIsDecoded and CutScanIsFinished of Jpeg, and the
hypotheses NeverFooled and CleanPicturesAreRead of GlassToGlass.  They compare a
decoder with an encoder, on the files and pictures that the MC modules make: to
prove them for all files and pictures would take the exact layout of a scan, bit
by bit, and of a row of bars, with its rounding, and an induction over each.
All liveness is out of the prover's reach, and so is what SelectSeq computes.

## What is not modelled

* The contents of frames, manifest fields and messages; HTTP in vcap-view.
* What format, rate and clock the driver grants: read() does not depend on it.
* The ioctls of the C++ VideoSource, a copy of the Python ones, the layers of
  durability of its SegmentWriter, and its own device lookup.
* The averages over columns of `jpeg_dc.column_means`, between the decoder of
  Jpeg and the picture of Barcode.
* What vcap-verify says of timestamps, flags and geometry; `gaps()` and `flagged()`
  of the reader: sums over entries that no step of another actor can disturb.
* vcap-latency (the instant at which the size of the payloads changes), the
  measurements of vcap-probe and the lookup of a monitor: thresholds on measured
  data, with nothing in the code to say what the right answer is.
* Export, decoding and the V4L2 structure layouts: calls into libraries and
  declarations, with no behaviour of their own.

## What could follow

The bit reader of Jpeg, without its codes; NeverFooled for any row of levels,
which needs the geometry of the bars and its rounding; the C++ SegmentWriter as an
instance of SegmentWriter without its fsync.
