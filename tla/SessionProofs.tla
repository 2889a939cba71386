--------------------------- MODULE SessionProofs ----------------------------
(***************************************************************************)
(* Theorems about module Session, for any number of sessions, frames and   *)
(* segments: what a directory shows a reader, whatever failed or was       *)
(* killed on the way.                                                      *)
(*                                                                         *)
(* The invariant says where the frames are.  As long as the manifest is    *)
(* not this session's it has accepted nothing; from then on its segments,  *)
(* put end to end, hold the committed frames in order, and perhaps the one *)
(* whose write failed.  A manifest lists a first part of the segments of   *)
(* the session it names, and one with an end record all of them, unless    *)
(* close() gave up on the thread: then the thread may add a segment, or a  *)
(* frame, after the list was made, and only a lower bound of what the      *)
(* listed segments hold is left.                                           *)
(***************************************************************************)
EXTENDS Session, OperatorProofs

\* The segments of a session, one after another, and what they hold.
ContentsOf(fs) == [i \in 1..MaxSegments |-> fs[i - 1]]
InFiles == Flat(ContentsOf(files), segment + 1)

AllOfRun(s, r) == \A j \in 1..Len(files[s]) : files[s][j][1] = r

BeforeManifest == {"start", "sourceOpen", "writerOpen", "openTmp", "openReplace",
                   "openFailed"}
AfterManifest == {"running", "closing", "closeSource", "closeTmp", "closeReplace",
                  "done", "closeFailed"}

Described == manifest.run = run
WriterIsOpen == Described \/ pc \in {"writerOpen", "openTmp", "openReplace"}

\* A manifest is of this session or an earlier one, and the segments it lists
\* are there and of that session.
ManifestInv ==
    manifest # NoFile =>
        /\ manifest.run \in 1..run
        /\ manifest.listed >= 1
        /\ \A s \in 0..(manifest.listed - 1) : s \in exists /\ AllOfRun(s, manifest.run)

\* The manifest is this session's from the end of open() on, and until then
\* nothing has been accepted.
PhaseInv ==
    /\ pc \in BeforeManifest => ~Described
    /\ pc \in AfterManifest => Described
    /\ ~Described => accepted = <<>> /\ committed = <<>> /\ ~broken /\ verdict = "none"

\* At most one frame more than the first n segments hold; and the writer's own
\* number, unless close() gave up on its thread.
Counts(number, n) ==
    /\ number <= Len(Flat(ContentsOf(files), n)) + 1
    /\ verdict # "abandoned" => number = counted

\* What close() writes of this session.
IsEndRecord(m) ==
    /\ m.run = run /\ m.ended
    /\ m.listed \in 1..(segment + 1)
    /\ Counts(m.frames, m.listed)
    /\ verdict # "abandoned" => m.listed = segment + 1

\* The manifest about to be renamed is whole; one of this session lists some
\* of its segments, and all of them once it has its end record.
TmpInv ==
    /\ pc = "openReplace" => tmp = Current(FALSE)
    /\ pc = "closeTmp" => Counts(reported, segment + 1)
    /\ pc = "closeReplace" => IsEndRecord(tmp)
    /\ Described => manifest.listed <= segment + 1
    /\ Described /\ manifest.ended => pc = "done" /\ IsEndRecord(manifest)

LogInv ==
    /\ Len(accepted) <= MaxFrames
    /\ \A i \in 1..Len(accepted) : accepted[i][1] = run
    /\ Len(committed) <= Len(accepted)
    /\ \A i \in 1..Len(committed) : committed[i] = accepted[i]
    /\ broken => Len(committed) < Len(accepted)
    /\ verdict = "ok" => committed = accepted /\ ~broken

\* The files of this session hold what is committed, and perhaps the frame
\* whose write failed.
FilesInv ==
    WriterIsOpen =>
        /\ \A s \in 0..segment : s \in exists /\ AllOfRun(s, run)
        /\ \/ InFiles = committed
           \/ broken /\ InFiles = Append(committed, accepted[Len(committed) + 1])
        /\ \/ counted = Len(InFiles)
           \/ broken /\ counted = Len(committed) + 1

IInv == TypeOK /\ ManifestInv /\ PhaseInv /\ TmpInv /\ LogInv /\ FilesInv

-----------------------------------------------------------------------------
(* The files of a session, put end to end.                                 *)

LEMMA ContentsType ==
    ASSUME NEW fs \in [Segments -> Seq(Frame)]
    PROVE  ContentsOf(fs) \in [1..MaxSegments -> Seq(Frame)]
<1>1. \A i \in 1..MaxSegments : i - 1 \in Segments
  BY RunsAssumption DEF Segments
<1> QED  BY <1>1 DEF ContentsOf

\* A frame added to the last file comes at the end, ...
LEMMA AddedAtEnd ==
    ASSUME NEW fs \in [Segments -> Seq(Frame)], NEW s \in Segments, NEW f \in Frame
    PROVE  Flat(ContentsOf([fs EXCEPT ![s] = Append(@, f)]), s + 1)
               = Append(Flat(ContentsOf(fs), s + 1), f)
<1> DEFINE gs == [fs EXCEPT ![s] = Append(@, f)]
           a == ContentsOf(fs)
           b == ContentsOf(gs)
<1>0. MaxSegments \in Nat /\ s \in Nat /\ s \in 0..(MaxSegments - 1)
        /\ s \in 0..MaxSegments /\ s + 1 \in 1..MaxSegments
  BY RunsAssumption DEF Segments
<1>1. gs \in [Segments -> Seq(Frame)]
  OBVIOUS
<1>2. a \in [1..MaxSegments -> Seq(Frame)] /\ b \in [1..MaxSegments -> Seq(Frame)]
  BY <1>1, ContentsType
<1>3. b[s + 1] = Append(a[s + 1], f)
  BY <1>0 DEF ContentsOf
<1>4. Agree(a, b, s)
  <2>1. \A i \in 1..s : i \in 1..MaxSegments /\ i - 1 \in Segments /\ i - 1 # s
    BY <1>0 DEF Segments
  <2> QED  BY <2>1 DEF Agree, ContentsOf
<1> HIDE DEF a, b, gs
<1>5. Flat(a, s) = Flat(b, s)
  BY <1>0, <1>4, FlattenSame
<1>6. FlattensBySteps(Frame, MaxSegments, a) /\ FlattensBySteps(Frame, MaxSegments, b)
  BY <1>0, <1>2, FlattenSteps
<1>7. Flat(a, s + 1) = Flat(a, s) \o a[s + 1] /\ Flat(b, s + 1) = Flat(a, s) \o b[s + 1]
        /\ Flat(a, s) \in Seq(Frame) /\ a[s + 1] \in Seq(Frame)
  BY <1>0, <1>5, <1>6 DEF FlattensBySteps
<1>8. ASSUME NEW x \in Seq(Frame), NEW y \in Seq(Frame)
      PROVE  x \o Append(y, f) = Append(x \o y, f)
  OBVIOUS
<1>9. Flat(b, s + 1) = Append(Flat(a, s + 1), f)
  BY <1>3, <1>7, <1>8
<1> QED  BY <1>9 DEF a, b, gs

\* ... and a file that is begun adds nothing.
LEMMA BegunEmpty ==
    ASSUME NEW fs \in [Segments -> Seq(Frame)], NEW s \in Segments
    PROVE  Flat(ContentsOf([fs EXCEPT ![s] = <<>>]), s + 1) = Flat(ContentsOf(fs), s)
<1> DEFINE gs == [fs EXCEPT ![s] = <<>>]
           a == ContentsOf(fs)
           b == ContentsOf(gs)
<1>0. MaxSegments \in Nat /\ s \in Nat /\ s \in 0..(MaxSegments - 1)
        /\ s \in 0..MaxSegments /\ s + 1 \in 1..MaxSegments
  BY RunsAssumption DEF Segments
<1>1. gs \in [Segments -> Seq(Frame)]
  <2>1. <<>> \in Seq(Frame)
    OBVIOUS
  <2> QED  BY <2>1
<1>2. a \in [1..MaxSegments -> Seq(Frame)] /\ b \in [1..MaxSegments -> Seq(Frame)]
  BY <1>1, ContentsType
<1>3. b[s + 1] = <<>>
  BY <1>0 DEF ContentsOf
<1>4. Agree(a, b, s)
  <2>1. \A i \in 1..s : i \in 1..MaxSegments /\ i - 1 \in Segments /\ i - 1 # s
    BY <1>0 DEF Segments
  <2> QED  BY <2>1 DEF Agree, ContentsOf
<1> HIDE DEF a, b, gs
<1>5. Flat(a, s) = Flat(b, s)
  BY <1>0, <1>4, FlattenSame
<1>6. FlattensBySteps(Frame, MaxSegments, b)
  BY <1>0, <1>2, FlattenSteps
<1>7. Flat(b, s + 1) = Flat(b, s) \o b[s + 1] /\ Flat(b, s) \in Seq(Frame)
  BY <1>0, <1>6 DEF FlattensBySteps
<1>8. Flat(b, s + 1) = Flat(b, s)
  BY <1>3, <1>7, ConcatEmptySeq
<1> QED  BY <1>5, <1>8 DEF a, b, gs

\* The first k files hold a beginning of what the first l hold.
LEMMA FirstFiles ==
    ASSUME NEW fs \in [Segments -> Seq(Frame)],
           NEW l \in 1..MaxSegments, NEW k \in 1..l
    PROVE  /\ Flat(ContentsOf(fs), k) \in Seq(Frame)
           /\ Flat(ContentsOf(fs), l) \in Seq(Frame)
           /\ Len(Flat(ContentsOf(fs), k)) <= Len(Flat(ContentsOf(fs), l))
           /\ \A p \in 1..Len(Flat(ContentsOf(fs), k)) :
                 Flat(ContentsOf(fs), l)[p] = Flat(ContentsOf(fs), k)[p]
           /\ Flat(ContentsOf(fs), 1) = fs[0]
<1> DEFINE a == ContentsOf(fs)
<1>0. MaxSegments \in Nat /\ l \in 0..MaxSegments /\ k \in 0..MaxSegments /\ k \in 0..l
        /\ 0 \in 0..(MaxSegments - 1) /\ 0 \in 0..MaxSegments /\ 1 \in 1..MaxSegments
        /\ 0 \in Segments
  BY RunsAssumption DEF Segments
<1>1. a \in [1..MaxSegments -> Seq(Frame)]
  BY ContentsType
<1>2. a[1] = fs[0]
  BY <1>0 DEF ContentsOf
<1> HIDE DEF a
<1>3. Flattens(Frame, MaxSegments, a)
  BY <1>0, <1>1, FlattenFacts
<1>4. FlattensBySteps(Frame, MaxSegments, a) /\ IsGrowing(a, MaxSegments)
  BY <1>3 DEF Flattens
<1>5. Flat(a, k) \in Seq(Frame) /\ Flat(a, l) \in Seq(Frame)
  BY <1>0, <1>4 DEF FlattensBySteps
<1>6. /\ Len(Flat(a, k)) <= Len(Flat(a, l))
      /\ \A p \in 1..Len(Flat(a, k)) : Flat(a, l)[p] = Flat(a, k)[p]
  BY <1>0, <1>4 DEF IsGrowing
<1>7. Flat(a, 1) = fs[0]
  <2>1. Flat(a, 0 + 1) = Flat(a, 0) \o a[0 + 1] /\ Flat(a, 0) \in Seq(Frame)
          /\ Len(Flat(a, 0)) = 0 /\ a[0 + 1] \in Seq(Frame)
    BY <1>0, <1>4 DEF FlattensBySteps
  <2>2. Flat(a, 0) = <<>>
    BY <2>1
  <2>3. Flat(a, 0 + 1) = a[0 + 1]
    BY <2>1, <2>2, ConcatEmptySeq
  <2> QED  BY <1>2, <2>3
<1> QED  BY <1>5, <1>6, <1>7 DEF a

\* No file holds nothing.
LEMMA NoFiles ==
    ASSUME NEW fs \in [Segments -> Seq(Frame)]
    PROVE  Flat(ContentsOf(fs), 0) = <<>>
<1> DEFINE a == ContentsOf(fs)
<1>1. a \in [1..MaxSegments -> Seq(Frame)] /\ MaxSegments \in Nat
  BY ContentsType, RunsAssumption
<1> HIDE DEF a
<1>2. FlattensBySteps(Frame, MaxSegments, a)
  BY <1>1, FlattenSteps
<1>3. Flat(a, 0) \in Seq(Frame) /\ Len(Flat(a, 0)) = 0
  BY <1>1, <1>2 DEF FlattensBySteps
<1> QED  BY <1>3 DEF a

-----------------------------------------------------------------------------
(* The invariant, one action after the other.                              *)

LEMMA TypeFacts ==
    ASSUME TypeOK
    PROVE  /\ run \in Nat /\ run >= 1 /\ run <= MaxRuns
           /\ segment \in Nat /\ segment <= MaxSegments - 1 /\ MaxSegments \in Nat
           /\ segment + 1 \in 1..MaxSegments
           /\ counted \in Nat /\ MaxFrames \in Nat /\ MaxRuns \in Nat /\ counted <= MaxFrames
           /\ Len(accepted) \in Nat /\ Len(committed) \in Nat
           /\ InFiles \in Seq(Frame) /\ Len(InFiles) \in Nat
<1>1. /\ run \in Nat /\ run >= 1 /\ run <= MaxRuns
      /\ segment \in Nat /\ segment <= MaxSegments - 1 /\ MaxSegments \in Nat
      /\ segment + 1 \in 1..MaxSegments
      /\ counted \in Nat /\ MaxFrames \in Nat /\ MaxRuns \in Nat /\ counted <= MaxFrames
      /\ Len(accepted) \in Nat /\ Len(committed) \in Nat
  BY RunsAssumption DEF TypeOK, Segments
<1>2. InFiles \in Seq(Frame)
  <2>1. files \in [Segments -> Seq(Frame)] /\ segment + 1 \in 1..(segment + 1)
    BY <1>1 DEF TypeOK
  <2> QED  BY <1>1, <2>1, FirstFiles DEF InFiles
<1> QED  BY <1>1, <1>2

\* A step of open() or close() that leaves the writer and the manifest alone.
LEMMA PlainStep ==
    ASSUME IInv, TypeOK',
           UNCHANGED <<run, segment, counted, files, exists, manifest, accepted,
                       committed, broken, verdict>>,
           PhaseInv', pc = "done" => pc' = "done",
           pc' = "openReplace" => tmp' = Current(FALSE)',
           pc' = "closeTmp" => Counts(reported', segment + 1),
           pc' = "closeReplace" => IsEndRecord(tmp'),
           pc' \in {"writerOpen", "openTmp", "openReplace"} => WriterIsOpen
    PROVE  IInv'
<1>1. ManifestInv'
  BY DEF IInv, ManifestInv, AllOfRun
<1>2. TmpInv'
  <2>1. ASSUME NEW number, NEW n
        PROVE  Counts(number, n) => /\ number <= Len(Flat(ContentsOf(files'), n)) + 1
                                    /\ verdict' # "abandoned" => number = counted'
    BY DEF Counts
  <2>2. pc' = "closeTmp" => Counts(reported, segment + 1)'
    BY <2>1 DEF Counts
  <2>3. ASSUME NEW m, IsEndRecord(m)
        PROVE  /\ m.run = run' /\ m.ended
               /\ m.listed \in 1..(segment' + 1)
               /\ m.frames <= Len(Flat(ContentsOf(files'), m.listed)) + 1
               /\ verdict' # "abandoned" => m.frames = counted' /\ m.listed = segment' + 1
    BY <2>3 DEF IsEndRecord, Counts
  <2>4. pc' = "closeReplace" => IsEndRecord(tmp)'
    BY <2>3 DEF IsEndRecord, Counts
  <2>5. Described' /\ manifest'.ended => pc' = "done" /\ IsEndRecord(manifest)'
    BY <2>3 DEF IInv, TmpInv, Described, IsEndRecord, Counts
  <2>6. Described' => manifest'.listed <= segment' + 1
    BY DEF IInv, TmpInv, Described
  <2> QED  BY <2>2, <2>4, <2>5, <2>6 DEF TmpInv
<1>3. LogInv'
  BY DEF IInv, LogInv
<1>4. InFiles' = InFiles
  BY DEF InFiles, ContentsOf
<1>5. FilesInv'
  <2>1. WriterIsOpen' => WriterIsOpen
    BY DEF WriterIsOpen, Described
  <2> QED  BY <1>4, <2>1 DEF IInv, FilesInv, AllOfRun
<1> QED  BY <1>1, <1>2, <1>3, <1>5 DEF IInv

LEMMA ManifestType ==
    ASSUME TypeOK, NEW e \in BOOLEAN
    PROVE  Current(e) \in Manifest /\ Partial \in Manifest /\ NoFile \in Manifest
<1>1. /\ run \in 0..MaxRuns /\ 0 \in 0..MaxRuns
      /\ segment + 1 \in 0..MaxSegments /\ 0 \in 0..MaxSegments
      /\ reported \in 0..MaxFrames /\ 0 \in 0..MaxFrames
  BY TypeFacts DEF TypeOK
<1> QED  BY <1>1 DEF Current, Manifest, Partial, NoFile

LEMMA InitKeeps ==
    ASSUME Init
    PROVE  IInv
<1>1. TypeOK
  <2>1. 0 \in Segments /\ 1 \in 1..MaxRuns /\ 0 \in 0..MaxFrames /\ NoFile \in Manifest
    BY RunsAssumption DEF Segments, Manifest, NoFile
  <2>2. files \in [Segments -> Seq(Frame)] /\ <<>> \in Seq(Frame)
    BY DEF Init
  <2> QED  BY <2>1, <2>2 DEF Init, TypeOK, Log!LogInit
<1>2. ManifestInv /\ PhaseInv /\ TmpInv
  BY DEF Init, ManifestInv, PhaseInv, TmpInv, Described, NoFile, BeforeManifest,
         AfterManifest, Log!LogInit
<1>3. LogInv
  BY RunsAssumption DEF Init, LogInv, Log!LogInit
<1>4. FilesInv
  BY DEF Init, FilesInv, WriterIsOpen, Described, NoFile
<1> QED  BY <1>1, <1>2, <1>3, <1>4 DEF IInv

LEMMA OpenSourceKeeps ==
    ASSUME IInv, OpenSource
    PROVE  IInv'
<1> USE DEF OpenSource, At, Raises, logVars, writerVars, directory
<1>1. TypeOK'
  BY DEF IInv, TypeOK
<1>2. PhaseInv'
  BY DEF IInv, PhaseInv, Described, BeforeManifest, AfterManifest
<1> QED  BY <1>1, <1>2, PlainStep

LEMMA OpenWriterKeeps ==
    ASSUME IInv, OpenWriter
    PROVE  IInv'
<1>0. /\ pc = "sourceOpen" /\ files' \in {files, Truncated(0)}
      /\ exists \subseteq exists' /\ exists' \subseteq exists \cup {0}
      /\ UNCHANGED <<run, source, reported, manifest, tmp, accepted, committed, broken,
                      verdict, complete>>
      /\ \/ /\ pc' = "writerOpen" /\ files' = Truncated(0) /\ exists' = exists \cup {0}
            /\ segment' = 0 /\ counted' = 0 /\ fileOpen' = TRUE
         \/ pc' = "openFailed" /\ UNCHANGED <<segment, counted, fileOpen>>
  BY DEF OpenWriter, At, Raises, logVars, writerVars
<1>t. /\ 0 \in Segments /\ 0 \in 0..MaxFrames
      /\ files \in [Segments -> Seq(Frame)] /\ exists \subseteq Segments
  BY RunsAssumption DEF IInv, TypeOK, Segments
<1>r. Truncated(0) \in [Segments -> Seq(Frame)] /\ Truncated(0)[0] = <<>>
        /\ \A s \in Segments : Truncated(0)[s] = files[s] \/ Truncated(0)[s] = <<>>
  <2>1. <<>> \in Seq(Frame)
    OBVIOUS
  <2> QED  BY <1>t, <2>1 DEF Truncated
<1>1. TypeOK'
  <2>1. files' \in [Segments -> Seq(Frame)] /\ exists' \subseteq Segments
    BY <1>0, <1>t, <1>r
  <2>2. segment' \in Segments /\ counted' \in 0..MaxFrames /\ fileOpen' \in BOOLEAN
    BY <1>0, <1>t DEF IInv, TypeOK
  <2> QED  BY <1>0, <2>1, <2>2 DEF IInv, TypeOK
<1>2. ~Described /\ committed = <<>> /\ accepted = <<>> /\ ~broken /\ verdict = "none"
  BY <1>0 DEF IInv, PhaseInv, BeforeManifest
<1>3. PhaseInv'
  BY <1>0, <1>2 DEF PhaseInv, Described, AfterManifest
<1>4. TmpInv'
  BY <1>0, <1>2 DEF TmpInv, Described
<1>5. LogInv'
  BY <1>0 DEF IInv, LogInv
<1>6. ManifestInv'
  <2>1. SUFFICES ASSUME manifest # NoFile
                 PROVE  \A s \in 0..(manifest.listed - 1) :
                           s \in exists' /\ AllOfRun(s, manifest.run)'
    BY <1>0 DEF IInv, ManifestInv
  <2>2. TAKE s \in 0..(manifest.listed - 1)
  <2>3. s \in exists /\ AllOfRun(s, manifest.run)
    BY <2>1 DEF IInv, ManifestInv
  <2>4. s \in Segments
    BY <1>t, <2>3
  <2>5. AllOfRun(s, manifest.run)'
    <3>1. CASE files'[s] = files[s]
      BY <1>0, <2>3, <3>1 DEF AllOfRun
    <3>2. CASE files'[s] = <<>>
      BY <3>2 DEF AllOfRun
    <3> QED  BY <1>0, <1>r, <2>4, <3>1, <3>2
  <2> QED  BY <1>0, <2>3, <2>5
<1>7. FilesInv'
  <2>1. CASE pc' = "openFailed"
    BY <1>0, <1>2, <2>1 DEF FilesInv, WriterIsOpen, Described
  <2>2. CASE pc' = "writerOpen"
    <3>0. files' = Truncated(0) /\ exists' = exists \cup {0} /\ segment' = 0 /\ counted' = 0
      BY <1>0, <2>2
    <3>1. Flat(ContentsOf(Truncated(0)), 0 + 1) = <<>>
      BY <1>t, BegunEmpty, NoFiles DEF Truncated
    <3>2. InFiles' = <<>>
      BY <3>0, <3>1 DEF InFiles, ContentsOf
    <3>3. \A s \in 0..segment' : s \in exists' /\ AllOfRun(s, run)'
      BY <1>r, <3>0 DEF AllOfRun
    <3> QED  BY <1>0, <1>2, <3>0, <3>2, <3>3 DEF FilesInv
  <2> QED  BY <1>0, <2>1, <2>2
<1> QED  BY <1>1, <1>3, <1>4, <1>5, <1>6, <1>7 DEF IInv

LEMMA BuildManifestKeeps ==
    ASSUME IInv, BuildManifest
    PROVE  IInv'
<1> USE DEF BuildManifest, At, logVars, writerVars
<1>1. TypeOK'
  BY ManifestType DEF IInv, TypeOK
<1>2. PhaseInv'
  BY DEF IInv, PhaseInv, Described, BeforeManifest, AfterManifest
<1> QED  BY <1>1, <1>2, PlainStep DEF WriterIsOpen

LEMMA OpenFillKeeps ==
    ASSUME IInv, OpenFill
    PROVE  IInv'
<1> USE DEF OpenFill, FillTmp, At, Raises, logVars, writerVars
<1>1. TypeOK'
  BY ManifestType DEF IInv, TypeOK
<1>2. PhaseInv'
  BY DEF IInv, PhaseInv, Described, BeforeManifest, AfterManifest
<1>3. Current(FALSE)' = Current(FALSE)
  BY DEF Current
<1> QED  BY <1>1, <1>2, <1>3, PlainStep DEF WriterIsOpen

\* The manifest of the start is there before the first frame.
LEMMA OpenReplaceKeeps ==
    ASSUME IInv, OpenReplace
    PROVE  IInv'
<1> USE DEF At, logVars, writerVars
<1>0. /\ pc = "openReplace" /\ manifest' = tmp /\ tmp' = NoFile /\ pc' = "running"
      /\ UNCHANGED <<run, segment, counted, fileOpen, reported, files, exists, accepted,
                      committed, broken, verdict, source, complete>>
  BY DEF OpenReplace, Replace
<1>1. manifest' = Current(FALSE) /\ ~Described
  BY <1>0 DEF IInv, TmpInv, PhaseInv, BeforeManifest
<1>2. TypeOK'
  BY <1>0, ManifestType DEF IInv, TypeOK
<1>3. Described' /\ manifest'.listed = segment + 1 /\ manifest'.ended = FALSE
  BY <1>0, <1>1 DEF Current, Described
<1>4. PhaseInv'
  BY <1>0, <1>3 DEF PhaseInv, BeforeManifest
<1>f. \A s \in 0..segment : s \in exists /\ AllOfRun(s, run)
  BY <1>0 DEF IInv, FilesInv, WriterIsOpen
<1>5. ManifestInv'
  <2>1. (segment + 1) - 1 = segment /\ segment + 1 >= 1 /\ run \in 1..run
    BY TypeFacts DEF IInv
  <2>2. \A s \in 0..segment : s \in exists' /\ AllOfRun(s, manifest.run)'
    BY <1>0, <1>f, <1>3 DEF AllOfRun, Described
  <2> QED  BY <1>0, <1>3, <2>1, <2>2 DEF ManifestInv, Described
<1>6. TmpInv'
  <2>1. segment \in Nat
    BY TypeFacts DEF IInv
  <2> QED  BY <1>0, <1>3, <2>1 DEF TmpInv
<1>7. LogInv'
  BY <1>0 DEF IInv, LogInv
<1>8. FilesInv'
  <2>1. InFiles' = InFiles
    BY <1>0 DEF InFiles, ContentsOf
  <2> QED  BY <1>0, <2>1 DEF IInv, FilesInv, WriterIsOpen, AllOfRun
<1> QED  BY <1>2, <1>4, <1>5, <1>6, <1>7, <1>8 DEF IInv

\* Only a session whose manifest is there accepts a frame.
LEMMA CaptureKeeps ==
    ASSUME IInv, Capture
    PROVE  IInv'
<1> DEFINE f == <<run, Len(accepted) + 1>>
<1>0. /\ pc = "running" /\ Len(accepted) < MaxFrames /\ verdict = "none"
      /\ accepted' = Append(accepted, f)
      /\ UNCHANGED <<run, pc, source, segment, counted, fileOpen, reported, files, exists,
                      manifest, tmp, complete, committed, broken, verdict>>
  BY DEF Capture, At, Log!Accept, writerVars, directory
<1>1. accepted \in Seq(Frame) /\ committed \in Seq(Frame)
  BY DEF IInv, TypeOK
<1>2. f \in Frame /\ f[1] = run
  BY <1>0, TypeFacts DEF IInv, Frame
<1> HIDE DEF f
<1>3. /\ Len(accepted') = Len(accepted) + 1
      /\ accepted' \in Seq(Frame)
      /\ accepted'[Len(accepted) + 1] = f
      /\ \A i \in 1..Len(accepted) : accepted'[i] = accepted[i]
  BY <1>0, <1>1, <1>2
<1>4. TypeOK'
  BY <1>0, <1>3 DEF IInv, TypeOK
<1>5. ManifestInv'
  BY <1>0 DEF IInv, ManifestInv, AllOfRun
<1>6. PhaseInv'
  BY <1>0 DEF IInv, PhaseInv, Described, AfterManifest, BeforeManifest
<1>e. TmpInv'
  <2>1. ~manifest.ended
    BY <1>0 DEF IInv, PhaseInv, TmpInv, AfterManifest, TypeOK, Manifest
  <2> QED  BY <1>0, <2>1 DEF IInv, TmpInv, Described
<1>7. LogInv'
  BY <1>0, <1>1, <1>2, <1>3, TypeFacts DEF IInv, LogInv
<1>8. FilesInv'
  <2>1. InFiles' = InFiles
    BY <1>0 DEF InFiles, ContentsOf
  <2>2. broken => accepted'[Len(committed) + 1] = accepted[Len(committed) + 1]
    BY <1>1, <1>3 DEF IInv, LogInv
  <2> QED  BY <1>0, <2>1, <2>2 DEF IInv, FilesInv, WriterIsOpen, Described, AllOfRun
<1> QED  BY <1>4, <1>5, <1>6, <1>e, <1>7, <1>8 DEF IInv

\* What WithFrame does to the files.
LEMMA WithFrameFacts ==
    ASSUME TypeOK, LogInv, Len(committed) < Len(accepted)
    PROVE  LET f == accepted[Len(committed) + 1]
           IN  /\ f \in Frame /\ f[1] = run
               /\ WithFrame \in [Segments -> Seq(Frame)]
               /\ \A s \in Segments \ {segment} : WithFrame[s] = files[s]
               /\ WithFrame[segment] = Append(files[segment], f)
               /\ Flat(ContentsOf(WithFrame), segment + 1) = Append(InFiles, f)
<1> DEFINE f == accepted[Len(committed) + 1]
<1>1. accepted \in Seq(Frame) /\ committed \in Seq(Frame) /\ segment \in Segments
        /\ files \in [Segments -> Seq(Frame)]
  BY DEF TypeOK
<1>2. Len(committed) + 1 \in 1..Len(accepted)
  BY <1>1
<1>3. f \in Frame /\ f[1] = run
  BY <1>1, <1>2 DEF LogInv
<1> HIDE DEF f
<1>4. WithFrame = [files EXCEPT ![segment] = Append(@, f)]
  BY DEF WithFrame, f
<1>5. /\ WithFrame \in [Segments -> Seq(Frame)]
      /\ \A s \in Segments \ {segment} : WithFrame[s] = files[s]
      /\ WithFrame[segment] = Append(files[segment], f)
  BY <1>1, <1>3, <1>4
<1>6. Flat(ContentsOf(WithFrame), segment + 1) = Append(InFiles, f)
  BY <1>1, <1>3, <1>4, AddedAtEnd DEF InFiles
<1> QED  BY <1>3, <1>5, <1>6 DEF f

\* The files after a frame more is in them, committed or not.
LEMMA MoreInFiles ==
    ASSUME IInv, Len(committed) < Len(accepted), Described,
           files' = WithFrame, UNCHANGED <<run, segment, exists, manifest>>
    PROVE  /\ files' \in [Segments -> Seq(Frame)]
           /\ ManifestInv'
           /\ InFiles' = Append(InFiles, accepted[Len(committed) + 1])
           /\ \A s \in 0..segment : s \in exists' /\ AllOfRun(s, run)'
<1>1. TypeOK /\ LogInv
  BY DEF IInv
<1>2. segment \in Segments /\ files \in [Segments -> Seq(Frame)] /\ exists \subseteq Segments
  BY <1>1 DEF TypeOK
<1> DEFINE f == accepted[Len(committed) + 1]
<1>3. /\ f[1] = run
      /\ f \in Frame
      /\ files' \in [Segments -> Seq(Frame)]
      /\ \A s \in Segments \ {segment} : files'[s] = files[s]
      /\ files'[segment] = Append(files[segment], f)
      /\ Flat(ContentsOf(files'), segment + 1) = Append(InFiles, f)
  BY <1>1, WithFrameFacts
<1> HIDE DEF f
<1>4. ASSUME NEW s \in Segments, AllOfRun(s, run)
      PROVE  AllOfRun(s, run)'
  <2>1. CASE s = segment
    <3>1. files[s] \in Seq(Frame)
      BY <1>2
    <3> QED  BY <1>3, <1>4, <2>1, <3>1 DEF AllOfRun
  <2>2. CASE s # segment
    BY <1>3, <1>4, <2>2 DEF AllOfRun
  <2> QED  BY <2>1, <2>2
<1>5. \A s \in 0..segment : s \in exists /\ AllOfRun(s, run)
  BY DEF IInv, FilesInv, WriterIsOpen
<1>6. \A s \in 0..segment : s \in exists' /\ AllOfRun(s, run)'
  BY <1>2, <1>4, <1>5
<1>7. ManifestInv'
  <2>1. SUFFICES ASSUME manifest # NoFile, NEW s \in 0..(manifest.listed - 1)
                 PROVE  s \in exists' /\ AllOfRun(s, manifest.run)'
    BY DEF IInv, ManifestInv
  <2>2. s \in exists /\ AllOfRun(s, manifest.run)
    BY <2>1 DEF IInv, ManifestInv
  <2>3. s \in Segments /\ manifest.run = run
    BY <1>2, <2>2 DEF Described
  <2>4. AllOfRun(s, run)'
    BY <1>4, <2>2, <2>3
  <2> QED  BY <2>2, <2>3, <2>4 DEF AllOfRun
<1>8. InFiles' = Append(InFiles, f)
  BY <1>3 DEF InFiles, ContentsOf
<1> QED  BY <1>3, <1>6, <1>7, <1>8 DEF f

\* The thread writes: what that leaves as it was.
LEMMA ThreadFacts ==
    ASSUME IInv, ThreadRuns, Len(committed) < Len(accepted)
    PROVE  /\ Described /\ verdict # "ok"
           /\ pc \in {"running", "closing"} \/ verdict = "abandoned"
           /\ pc # "openReplace"
<1>1. Described
  BY DEF IInv, PhaseInv, ThreadRuns, AfterManifest
<1>2. verdict # "ok"
  BY DEF IInv, LogInv
<1> QED  BY <1>1, <1>2 DEF ThreadRuns

\* The files of this session only get longer.
FilesGrow ==
    /\ \A n \in 1..(segment + 1) :
          Len(Flat(ContentsOf(files), n)) <= Len(Flat(ContentsOf(files'), n))
    /\ Len(InFiles) <= Len(InFiles')

\* What a list made before says of them still holds then.
LEMMA CountsKeep ==
    ASSUME TypeOK, TypeOK', FilesGrow, verdict = "abandoned", verdict' = verdict,
           NEW n \in 1..(segment + 1), NEW number \in Nat, Counts(number, n)
    PROVE  number <= Len(Flat(ContentsOf(files'), n)) + 1
<1>1. number <= Len(Flat(ContentsOf(files), n)) + 1
  BY DEF Counts
<1>2. Len(Flat(ContentsOf(files), n)) <= Len(Flat(ContentsOf(files'), n))
  BY DEF FilesGrow
<1>3. n \in 1..MaxSegments /\ n \in 1..n
  BY TypeFacts
<1>4. Len(Flat(ContentsOf(files), n)) \in Nat
  <2>1. Flat(ContentsOf(files), n) \in Seq(Frame)
    BY <1>3, FirstFiles DEF TypeOK
  <2> QED  BY <2>1
<1>5. Len(Flat(ContentsOf(files'), n)) \in Nat
  <2>1. Flat(ContentsOf(files'), n) \in Seq(Frame)
    BY <1>3, FirstFiles DEF TypeOK
  <2> QED  BY <2>1
<1> QED  BY <1>1, <1>2, <1>4, <1>5

LEMMA ThreadStep ==
    ASSUME IInv, ThreadRuns, Len(committed) < Len(accepted), TypeOK', FilesGrow,
           UNCHANGED <<run, pc, manifest, tmp, reported, accepted, verdict>>,
           segment' \in {segment, segment + 1}
    PROVE  PhaseInv' /\ TmpInv'
<1>1. Described /\ (pc \in {"running", "closing"} \/ verdict = "abandoned")
        /\ pc # "openReplace"
  BY ThreadFacts
<1>2. PhaseInv'
  BY <1>1 DEF PhaseInv, Described, ThreadRuns, BeforeManifest
<1>3. /\ manifest.listed \in Nat /\ segment \in Nat /\ manifest.listed <= segment + 1
      /\ segment' \in Nat /\ segment' >= segment
      /\ TypeOK /\ manifest.frames \in Nat /\ tmp.frames \in Nat /\ reported \in Nat
  <2>1. TypeOK /\ segment \in Nat
    BY TypeFacts DEF IInv
  <2>2. manifest \in Manifest /\ tmp \in Manifest /\ reported \in Nat
    BY <2>1 DEF TypeOK
  <2>3. manifest.listed \in Nat /\ manifest.frames \in Nat /\ tmp.frames \in Nat
    BY <2>2 DEF Manifest
  <2>4. manifest.listed <= segment + 1
    BY <1>1 DEF IInv, TmpInv
  <2> QED  BY <2>1, <2>2, <2>3, <2>4
<1>4. TmpInv'
  <2>1. manifest'.listed <= segment' + 1
    BY <1>3
  <2>2. ASSUME NEW m, m.frames \in Nat, IsEndRecord(m), verdict = "abandoned"
        PROVE  /\ m.run = run' /\ m.ended /\ m.listed \in 1..(segment' + 1)
               /\ m.frames <= Len(Flat(ContentsOf(files'), m.listed)) + 1
    <3>1. m.run = run /\ m.ended /\ m.listed \in 1..(segment + 1) /\ Counts(m.frames, m.listed)
      BY <2>2 DEF IsEndRecord
    <3>2. PICK n : n = m.listed
      OBVIOUS
    <3>3. PICK k : k = m.frames
      OBVIOUS
    <3>4. k <= Len(Flat(ContentsOf(files'), n)) + 1
      BY <1>3, <2>2, <3>1, <3>2, <3>3, CountsKeep
    <3>5. m.listed \in 1..(segment' + 1)
      BY <1>3, <3>1
    <3> QED  BY <3>1, <3>2, <3>3, <3>4, <3>5
  <2>3. pc = "closeReplace" => IsEndRecord(tmp)'
    <3>1. SUFFICES ASSUME pc = "closeReplace" PROVE IsEndRecord(tmp)'
      OBVIOUS
    <3>2. IsEndRecord(tmp) /\ verdict = "abandoned"
      BY <1>1, <3>1 DEF IInv, TmpInv
    <3> QED  BY <1>3, <2>2, <3>2 DEF IsEndRecord, Counts
  <2>4. manifest.ended => pc = "done" /\ IsEndRecord(manifest)'
    <3>1. SUFFICES ASSUME manifest.ended PROVE pc = "done" /\ IsEndRecord(manifest)'
      OBVIOUS
    <3>2. pc = "done" /\ IsEndRecord(manifest)
      BY <1>1, <3>1 DEF IInv, TmpInv
    <3>3. verdict = "abandoned"
      BY <1>1, <3>2
    <3> QED  BY <1>3, <2>2, <3>2, <3>3 DEF IsEndRecord, Counts
  <2>5. pc = "closeTmp" => Counts(reported, segment + 1)'
    <3>1. SUFFICES ASSUME pc = "closeTmp" PROVE Counts(reported, segment + 1)'
      OBVIOUS
    <3>2. Counts(reported, segment + 1) /\ verdict = "abandoned"
      BY <1>1, <3>1 DEF IInv, TmpInv
    <3>3. reported <= Len(InFiles) + 1
      BY <3>2 DEF Counts, InFiles
    <3>4. Len(InFiles) <= Len(InFiles') /\ Len(InFiles) \in Nat
      BY <1>3, TypeFacts DEF FilesGrow
    <3>5. InFiles' \in Seq(Frame)
      <4>0. segment' \in Segments /\ files' \in [Segments -> Seq(Frame)]
        BY DEF TypeOK
      <4>1. segment' + 1 \in 1..MaxSegments /\ segment' + 1 \in 1..(segment' + 1)
        <5>1. segment' \in 0..(MaxSegments - 1) /\ MaxSegments \in Nat
          BY <4>0, RunsAssumption DEF Segments
        <5>2. ASSUME NEW x \in 0..(MaxSegments - 1)
              PROVE  x + 1 \in 1..MaxSegments /\ x + 1 \in 1..(x + 1)
          BY <5>1
        <5> QED  BY <5>1, <5>2
      <4>2. PICK l : l = segment' + 1
        OBVIOUS
      <4>3. Flat(ContentsOf(files'), l) \in Seq(Frame)
        BY <4>0, <4>1, <4>2, FirstFiles
      <4> QED  BY <4>2, <4>3 DEF InFiles, ContentsOf
    <3>6. reported <= Len(InFiles') + 1
      BY <1>3, <3>3, <3>4, <3>5
    <3> QED  BY <3>2, <3>6 DEF Counts, InFiles
  <2> QED  BY <1>1, <2>1, <2>3, <2>4, <2>5 DEF TmpInv, Described
<1> QED  BY <1>2, <1>4

\* Files that agree up to segment n hold the same up to there.
LEMMA SameBelow ==
    ASSUME NEW fs, NEW gs, NEW n \in 1..MaxSegments,
           \A s \in 0..(n - 1) : fs[s] = gs[s]
    PROVE  Flat(ContentsOf(fs), n) = Flat(ContentsOf(gs), n)
<1>1. \A i \in 1..n : i \in 1..MaxSegments /\ i - 1 \in 0..(n - 1)
  BY RunsAssumption
<1>2. Agree(ContentsOf(fs), ContentsOf(gs), n)
  BY <1>1 DEF Agree, ContentsOf
<1>3. n \in Nat
  OBVIOUS
<1> QED  BY <1>2, <1>3, FlattenSame

\* Neither a frame more ...
LEMMA FrameGrows ==
    ASSUME TypeOK, LogInv, Len(committed) < Len(accepted), files' = WithFrame,
           segment' = segment
    PROVE  FilesGrow
<1> DEFINE f == accepted[Len(committed) + 1]
<1>1. /\ f \in Frame
      /\ \A s \in Segments \ {segment} : WithFrame[s] = files[s]
      /\ Flat(ContentsOf(WithFrame), segment + 1) = Append(InFiles, f)
  BY WithFrameFacts
<1> HIDE DEF f
<1>2. segment \in Nat /\ segment + 1 \in 1..MaxSegments /\ MaxSegments \in Nat
        /\ InFiles \in Seq(Frame) /\ Segments = 0..(MaxSegments - 1)
  BY TypeFacts DEF Segments
<1>3. Len(Append(InFiles, f)) = Len(InFiles) + 1 /\ Len(InFiles) \in Nat
  BY <1>1, <1>2
<1>4. ASSUME NEW n \in 1..(segment + 1)
      PROVE  Len(Flat(ContentsOf(files), n)) <= Len(Flat(ContentsOf(files'), n))
  <2>1. CASE n = segment + 1
    <3>1. Len(Flat(ContentsOf(files), n)) = Len(InFiles)
            /\ Len(Flat(ContentsOf(files'), n)) = Len(InFiles) + 1
      BY <1>1, <1>3, <2>1 DEF InFiles
    <3> QED  BY <1>3, <3>1
  <2>2. CASE n # segment + 1
    <3>1. n \in 1..MaxSegments /\ n - 1 < segment /\ n \in 1..n
      BY <1>2, <2>2
    <3>2. \A s \in 0..(n - 1) : files[s] = WithFrame[s]
      BY <1>1, <1>2, <3>1
    <3>3. Flat(ContentsOf(files), n) = Flat(ContentsOf(WithFrame), n)
      BY <3>1, <3>2, SameBelow
    <3>4. Flat(ContentsOf(files), n) \in Seq(Frame)
      BY <3>1, FirstFiles DEF TypeOK
    <3>5. Len(Flat(ContentsOf(files), n)) \in Nat
      BY <3>4
    <3> QED  BY <3>3, <3>5
  <2> QED  BY <2>1, <2>2
<1>5. InFiles' = Flat(ContentsOf(WithFrame), segment + 1)
  BY DEF InFiles, ContentsOf
<1>6. Len(InFiles) <= Len(InFiles')
  BY <1>1, <1>3, <1>5
<1> QED  BY <1>4, <1>6 DEF FilesGrow

\* ... nor one segment more makes them shorter.
LEMMA NextSegment ==
    ASSUME TypeOK, segment + 1 \in Segments, files' = Truncated(segment + 1),
           segment' \in {segment, segment + 1}
    PROVE  /\ files' \in [Segments -> Seq(Frame)]
           /\ files'[segment + 1] = <<>>
           /\ \A s \in Segments \ {segment + 1} : files'[s] = files[s]
           /\ InFiles' = InFiles
           /\ FilesGrow
<1>1. /\ segment \in Nat /\ segment + 1 \in 1..MaxSegments /\ MaxSegments \in Nat
      /\ InFiles \in Seq(Frame) /\ Segments = 0..(MaxSegments - 1)
      /\ files \in [Segments -> Seq(Frame)]
  BY TypeFacts DEF Segments, TypeOK
<1>2. /\ files' \in [Segments -> Seq(Frame)]
      /\ files'[segment + 1] = <<>>
      /\ \A s \in Segments \ {segment + 1} : files'[s] = files[s]
  <2>1. <<>> \in Seq(Frame)
    OBVIOUS
  <2> QED  BY <1>1, <2>1 DEF Truncated
<1>3. ASSUME NEW n \in 1..(segment + 1)
      PROVE  Flat(ContentsOf(files), n) = Flat(ContentsOf(files'), n)
  <2>1. n \in 1..MaxSegments /\ n - 1 <= segment
    BY <1>1
  <2>2. \A s \in 0..(n - 1) : s \in Segments \ {segment + 1}
    BY <1>1, <2>1
  <2>3. \A s \in 0..(n - 1) : files[s] = files'[s]
    BY <1>2, <2>2
  <2> QED  BY <2>1, <2>3, SameBelow
<1>4. InFiles' = InFiles
  <2>1. CASE segment' = segment
    <3>1. segment + 1 \in 1..(segment + 1)
      BY <1>1
    <3>2. Flat(ContentsOf(files), segment + 1) = Flat(ContentsOf(files'), segment + 1)
      BY <1>3, <3>1
    <3> QED  BY <2>1, <3>2 DEF InFiles, ContentsOf
  <2>2. CASE segment' = segment + 1
    <3>1. Flat(ContentsOf([files EXCEPT ![segment + 1] = <<>>]), (segment + 1) + 1)
              = Flat(ContentsOf(files), segment + 1)
      BY <1>1, BegunEmpty
    <3> QED  BY <2>2, <3>1 DEF InFiles, ContentsOf, Truncated
  <2> QED  BY <2>1, <2>2
<1>5. FilesGrow
  <2>1. ASSUME NEW n \in 1..(segment + 1)
        PROVE  Len(Flat(ContentsOf(files), n)) <= Len(Flat(ContentsOf(files'), n))
    <3>1. n \in 1..MaxSegments /\ n \in 1..n
      BY <1>1
    <3>2. Flat(ContentsOf(files), n) \in Seq(Frame)
      BY <1>1, <3>1, FirstFiles
    <3>3. Len(Flat(ContentsOf(files), n)) \in Nat
      BY <3>2
    <3> QED  BY <1>3, <3>3
  <2>2. Len(InFiles) <= Len(InFiles')
    <3>1. Len(InFiles) \in Nat
      BY <1>1
    <3> QED  BY <1>4, <3>1
  <2> QED  BY <2>1, <2>2 DEF FilesGrow
<1> QED  BY <1>2, <1>4, <1>5

\* Files that stay as they are do not get shorter either.
LEMMA SameGrows ==
    ASSUME TypeOK, UNCHANGED <<files, segment>>
    PROVE  FilesGrow
<1>1. segment + 1 \in 1..MaxSegments /\ InFiles \in Seq(Frame)
        /\ files \in [Segments -> Seq(Frame)] /\ MaxSegments \in Nat
  BY TypeFacts DEF TypeOK
<1>2. ASSUME NEW n \in 1..(segment + 1)
      PROVE  Len(Flat(ContentsOf(files), n)) <= Len(Flat(ContentsOf(files'), n))
  <2>1. n \in 1..MaxSegments /\ n \in 1..n
    BY <1>1
  <2>2. Flat(ContentsOf(files), n) \in Seq(Frame)
    BY <1>1, <2>1, FirstFiles
  <2>3. Len(Flat(ContentsOf(files), n)) \in Nat
    BY <2>2
  <2> QED  BY <2>3
<1>3. InFiles' = InFiles
  BY DEF InFiles, ContentsOf
<1>4. Len(InFiles) \in Nat
  BY <1>1
<1> QED  BY <1>2, <1>3, <1>4 DEF FilesGrow

LEMMA WriteFrameKeeps ==
    ASSUME IInv, WriteFrame
    PROVE  IInv'
<1> DEFINE f == accepted[Len(committed) + 1]
<1>0. /\ ThreadRuns /\ ~broken /\ Len(committed) < Len(accepted)
      /\ committed' = Append(committed, f)
      /\ files' = WithFrame /\ counted' = counted + 1
      /\ UNCHANGED <<run, pc, source, segment, fileOpen, reported, exists, manifest, tmp,
                      complete, accepted, broken, verdict>>
  BY DEF WriteFrame, Log!Commit
<1>1. Described /\ verdict # "ok"
  BY <1>0, ThreadFacts
<1>2. /\ files' \in [Segments -> Seq(Frame)]
      /\ ManifestInv'
      /\ InFiles' = Append(InFiles, f)
      /\ \A s \in 0..segment : s \in exists' /\ AllOfRun(s, run)'
  BY <1>0, <1>1, MoreInFiles
<1>3. accepted \in Seq(Frame) /\ committed \in Seq(Frame)
  BY DEF IInv, TypeOK
<1>4. f \in Frame
  BY <1>0, WithFrameFacts DEF IInv
<1>5. InFiles = committed /\ counted = Len(committed)
  BY <1>0, <1>1 DEF IInv, FilesInv, WriterIsOpen
<1>6. /\ Len(committed') = Len(committed) + 1
      /\ committed' \in Seq(Frame)
      /\ committed'[Len(committed) + 1] = f
      /\ \A i \in 1..Len(committed) : committed'[i] = committed[i]
  <2> HIDE DEF f
  <2> QED  BY <1>0, <1>3, <1>4
<1>n. Len(accepted) \in Nat /\ Len(committed) \in Nat /\ Len(accepted) <= MaxFrames
        /\ MaxFrames \in Nat
  BY TypeFacts DEF IInv, LogInv
<1>7. TypeOK'
  <2>1. counted' \in 0..MaxFrames
    BY <1>0, <1>5, <1>n
  <2> QED  BY <1>0, <1>2, <1>6, <2>1 DEF IInv, TypeOK
<1>8. PhaseInv' /\ TmpInv'
  <2>1. FilesGrow
    BY <1>0, FrameGrows DEF IInv
  <2> QED  BY <1>0, <1>7, <2>1, ThreadStep
<1>9. LogInv'
  <2>1. \A i \in 1..Len(committed') : committed'[i] = accepted[i]
    BY <1>3, <1>6, <1>n DEF IInv, LogInv
  <2>2. Len(committed') <= Len(accepted)
    BY <1>0, <1>6, <1>n
  <2> QED  BY <1>0, <1>1, <2>1, <2>2 DEF IInv, LogInv
<1>10. FilesInv'
  <2>1. InFiles' = committed'
    BY <1>0, <1>2, <1>5
  <2>2. counted' = Len(InFiles')
    BY <1>0, <1>5, <1>6, <2>1
  <2>3. \A s \in 0..segment' : s \in exists' /\ AllOfRun(s, run)'
    BY <1>0, <1>2
  <2> QED  BY <1>0, <2>1, <2>2, <2>3 DEF FilesInv, AllOfRun
<1> QED  BY <1>2, <1>7, <1>8, <1>9, <1>10 DEF IInv

\* Truncating a file leaves what a manifest says of the others, and of it.
LEMMA TruncatedKeeps ==
    ASSUME IInv, segment + 1 \in Segments,
           files'[segment + 1] = <<>>,
           \A s \in Segments \ {segment + 1} : files'[s] = files[s],
           exists \subseteq exists', UNCHANGED <<run, manifest>>
    PROVE  ManifestInv'
<1>1. SUFFICES ASSUME manifest # NoFile, NEW s \in 0..(manifest.listed - 1)
               PROVE  s \in exists' /\ AllOfRun(s, manifest.run)'
  BY DEF IInv, ManifestInv
<1>2. s \in exists /\ AllOfRun(s, manifest.run)
  BY <1>1 DEF IInv, ManifestInv
<1>3. s \in Segments
  BY <1>2 DEF IInv, TypeOK
<1>4. CASE s = segment + 1
  BY <1>2, <1>4 DEF AllOfRun
<1>5. CASE s # segment + 1
  BY <1>2, <1>3, <1>5 DEF AllOfRun
<1> QED  BY <1>4, <1>5

\* A segment more, empty at first.
LEMMA RollKeeps ==
    ASSUME IInv, Roll
    PROVE  IInv'
<1>0. /\ ThreadRuns /\ ~broken /\ Len(committed) < Len(accepted)
      /\ segment + 1 \in Segments /\ segment' = segment + 1 /\ fileOpen' = TRUE
      /\ files' = Truncated(segment + 1)
      /\ exists' = exists \cup {segment + 1}
      /\ UNCHANGED <<run, pc, source, counted, reported, manifest, tmp, accepted, committed,
                      broken, verdict, complete>>
  BY DEF Roll, NeedsRoll, logVars
<1>1. Described /\ verdict # "ok"
  BY <1>0, ThreadFacts
<1>2. /\ TypeOK /\ files \in [Segments -> Seq(Frame)] /\ exists \subseteq Segments
      /\ segment \in Nat /\ manifest.listed \in Nat
  <2>1. TypeOK
    BY DEF IInv
  <2>2. segment \in Nat
    BY <2>1, TypeFacts
  <2> QED  BY <2>1, <2>2 DEF TypeOK, Manifest
<1>3. /\ files' \in [Segments -> Seq(Frame)]
      /\ files'[segment + 1] = <<>>
      /\ \A s \in Segments \ {segment + 1} : files'[s] = files[s]
      /\ InFiles' = InFiles
      /\ FilesGrow
  BY <1>0, <1>2, NextSegment
<1>4. TypeOK'
  BY <1>0, <1>2, <1>3 DEF TypeOK
<1>6. ManifestInv'
  BY <1>0, <1>2, <1>3, TruncatedKeeps
<1>7. PhaseInv' /\ TmpInv'
  BY <1>0, <1>3, <1>4, ThreadStep
<1>8. LogInv'
  BY <1>0 DEF IInv, LogInv
<1>9. FilesInv'
  <2>1. InFiles = committed /\ counted = Len(InFiles)
    BY <1>0, <1>1 DEF IInv, FilesInv, WriterIsOpen
  <2>3. \A s \in 0..segment : s \in exists /\ AllOfRun(s, run)
    BY <1>1 DEF IInv, FilesInv, WriterIsOpen
  <2>4. ASSUME NEW s \in 0..(segment + 1)
        PROVE  s \in exists' /\ \A j \in 1..Len(files'[s]) : files'[s][j][1] = run
    <3>1. CASE s = segment + 1
      BY <1>0, <1>3, <3>1
    <3>2. CASE s # segment + 1
      <4>1. s \in 0..segment
        BY <1>2, <3>2
      <4>2. s \in Segments /\ files'[s] = files[s]
        BY <1>2, <1>3, <2>3, <3>2, <4>1
      <4> QED  BY <1>0, <2>3, <4>1, <4>2 DEF AllOfRun
    <3> QED  BY <3>1, <3>2
  <2> QED  BY <1>0, <1>3, <2>1, <2>4 DEF FilesInv, AllOfRun
<1> QED  BY <1>4, <1>6, <1>7, <1>8, <1>9 DEF IInv

\* The write of a frame fails: counted or not, in the files or not.
LEMMA WriteFailsKeeps ==
    ASSUME IInv, WriteFails
    PROVE  IInv'
<1>0. /\ ThreadRuns /\ ~broken /\ broken' /\ Len(committed) < Len(accepted)
      /\ \/ UNCHANGED <<counted, files>>
         \/ counted' = counted + 1 /\ files' \in {files, WithFrame}
         \/ segment + 1 \in Segments /\ files' = Truncated(segment + 1) /\ counted' = counted
      /\ UNCHANGED <<run, pc, source, segment, fileOpen, reported, exists, manifest, tmp,
                      complete, accepted, committed, verdict>>
  BY DEF WriteFails, NeedsRoll, Log!Break
<1>1. Described /\ verdict # "ok"
  BY <1>0, ThreadFacts
<1>2. InFiles = committed /\ counted = Len(committed)
  BY <1>0, <1>1 DEF IInv, FilesInv, WriterIsOpen
<1>n. Len(accepted) \in Nat /\ Len(committed) \in Nat /\ Len(accepted) <= MaxFrames
        /\ MaxFrames \in Nat
  BY TypeFacts DEF IInv, LogInv
<1>3. counted' \in 0..MaxFrames /\ broken' = TRUE
  <2>1. broken' \in BOOLEAN
    BY DEF WriteFails, Log!Break
  <2> QED  BY <1>0, <1>2, <1>n, <2>1
<1>4. TypeOK' /\ FilesGrow => PhaseInv' /\ TmpInv'
  BY <1>0, ThreadStep
<1>5. LogInv'
  BY <1>0, <1>1 DEF IInv, LogInv
<1>6. CASE files' = files
  <2>1. TypeOK'
    BY <1>0, <1>3, <1>6 DEF IInv, TypeOK
  <2>2. ManifestInv'
    BY <1>0, <1>6 DEF IInv, ManifestInv, AllOfRun
  <2>3. InFiles' = InFiles
    BY <1>0, <1>6 DEF InFiles, ContentsOf
  <2>4. counted' = Len(committed') \/ counted' = Len(committed') + 1
    BY <1>0, <1>2
  <2>5. FilesInv'
    BY <1>0, <1>1, <1>2, <1>6, <2>3, <2>4 DEF IInv, FilesInv, WriterIsOpen, AllOfRun
  <2>6. FilesGrow
    BY <1>0, <1>6, SameGrows DEF IInv
  <2> QED  BY <1>4, <1>5, <2>1, <2>2, <2>5, <2>6 DEF IInv
<1>7. CASE counted' = counted + 1 /\ files' = WithFrame
  <2>1. /\ files' \in [Segments -> Seq(Frame)]
        /\ ManifestInv'
        /\ InFiles' = Append(InFiles, accepted[Len(committed) + 1])
        /\ \A s \in 0..segment : s \in exists' /\ AllOfRun(s, run)'
    BY <1>0, <1>1, <1>7, MoreInFiles
  <2>2. TypeOK'
    BY <1>0, <1>3, <2>1 DEF IInv, TypeOK
  <2>3. InFiles' = Append(committed', accepted'[Len(committed') + 1])
    BY <1>0, <1>2, <2>1
  <2>4. counted' = Len(committed') + 1
    BY <1>0, <1>2, <1>7
  <2>5. \A s \in 0..segment' : s \in exists' /\ AllOfRun(s, run)'
    BY <1>0, <2>1
  <2>6. FilesInv'
    BY <1>0, <2>3, <2>4, <2>5 DEF FilesInv, AllOfRun
  <2>7. FilesGrow
    BY <1>0, <1>7, FrameGrows DEF IInv
  <2> QED  BY <1>4, <1>5, <2>1, <2>2, <2>6, <2>7 DEF IInv
<1>8. CASE segment + 1 \in Segments /\ files' = Truncated(segment + 1) /\ counted' = counted
  <2>0. TypeOK
    BY DEF IInv
  <2>1. /\ files' \in [Segments -> Seq(Frame)]
        /\ files'[segment + 1] = <<>>
        /\ \A s \in Segments \ {segment + 1} : files'[s] = files[s]
        /\ InFiles' = InFiles
        /\ FilesGrow
    BY <1>0, <1>8, <2>0, NextSegment
  <2>2. TypeOK'
    BY <1>0, <1>3, <2>0, <2>1 DEF TypeOK
  <2>3. ManifestInv'
    BY <1>0, <1>8, <2>1, TruncatedKeeps
  <2>4. FilesInv'
    <3>1. \A s \in 0..segment : s \in exists /\ AllOfRun(s, run)
      BY <1>1 DEF IInv, FilesInv, WriterIsOpen
    <3>2. \A s \in 0..segment : s \in Segments \ {segment + 1}
      BY <2>0, TypeFacts DEF Segments
    <3>3. \A s \in 0..segment : s \in exists /\ AllOfRun(s, run)'
      BY <1>0, <2>1, <3>1, <3>2 DEF AllOfRun
    <3> QED  BY <1>0, <1>2, <1>8, <2>1, <3>3 DEF FilesInv, AllOfRun
  <2> QED  BY <1>4, <1>5, <2>1, <2>2, <2>3, <2>4 DEF IInv
<1> QED  BY <1>0, <1>6, <1>7, <1>8

LEMMA CloseBeginsKeeps ==
    ASSUME IInv, CloseBegins
    PROVE  IInv'
<1> USE DEF CloseBegins, At, logVars, writerVars, directory
<1>1. TypeOK'
  BY DEF IInv, TypeOK
<1>2. PhaseInv'
  BY DEF IInv, PhaseInv, Described, BeforeManifest, AfterManifest
<1> QED  BY <1>1, <1>2, PlainStep

\* The verdict is "ok" only when everything accepted is committed; after a
\* join that gave up the thread goes on.
LEMMA WriterClosesKeeps ==
    ASSUME IInv, WriterCloses
    PROVE  IInv'
<1>0. /\ pc = "closing" /\ pc' = "closeSource"
      /\ UNCHANGED <<run, source, segment, counted, reported, files, exists, manifest, tmp,
                      complete, accepted, committed, broken>>
      /\ fileOpen' \in {FALSE, fileOpen}
      /\ \/ verdict' = "ok" /\ ~broken /\ committed = accepted
         \/ verdict' \in {"raised", "abandoned"}
  BY DEF WriterCloses, WriterEnds, At, directory, Log!CloseOk, Log!CloseRaises,
         Log!CloseGivesUp
<1>1. Described /\ ~manifest.ended
  BY <1>0 DEF IInv, PhaseInv, TmpInv, AfterManifest, TypeOK, Manifest
<1>2. TypeOK'
  BY <1>0 DEF IInv, TypeOK
<1>3. ManifestInv'
  BY <1>0 DEF IInv, ManifestInv, AllOfRun
<1>4. PhaseInv'
  BY <1>0, <1>1 DEF PhaseInv, Described, BeforeManifest
<1>5. TmpInv'
  BY <1>0, <1>1 DEF IInv, TmpInv, Described
<1>6. LogInv'
  BY <1>0 DEF IInv, LogInv
<1>7. FilesInv'
  <2>1. InFiles' = InFiles
    BY <1>0 DEF InFiles, ContentsOf
  <2> QED  BY <1>0, <1>1, <2>1 DEF IInv, FilesInv, WriterIsOpen, AllOfRun
<1> QED  BY <1>2, <1>3, <1>4, <1>5, <1>6, <1>7 DEF IInv

LEMMA SourceClosesKeeps ==
    ASSUME IInv, SourceCloses
    PROVE  IInv'
<1> USE DEF SourceCloses, At, logVars, writerVars
<1>1. TypeOK'
  BY ManifestType DEF IInv, TypeOK
<1>2. PhaseInv'
  BY DEF IInv, PhaseInv, Described, BeforeManifest, AfterManifest
<1>3. Counts(reported', segment + 1)
  <2>1. Described
    BY DEF IInv, PhaseInv, AfterManifest
  <2>2. \/ InFiles = committed
        \/ broken /\ InFiles = Append(committed, accepted[Len(committed) + 1])
    BY <2>1 DEF IInv, FilesInv, WriterIsOpen
  <2>3. counted = Len(InFiles) \/ (broken /\ counted = Len(committed) + 1)
    BY <2>1 DEF IInv, FilesInv, WriterIsOpen
  <2>4. /\ Len(InFiles) \in Nat /\ Len(committed) \in Nat /\ counted \in Nat
        /\ committed \in Seq(Frame) /\ accepted \in Seq(Frame)
    BY TypeFacts DEF IInv, TypeOK
  <2>5. Len(committed) <= Len(InFiles)
    <3>1. CASE InFiles = committed
      BY <2>4, <3>1
    <3>2. CASE broken /\ InFiles = Append(committed, accepted[Len(committed) + 1])
      <4>1. Len(InFiles) = Len(committed) + 1
        BY <2>4, <3>2
      <4> QED  BY <2>4, <4>1
    <3> QED  BY <2>2, <3>1, <3>2
  <2>6. counted <= Len(InFiles) + 1
    BY <2>3, <2>4, <2>5
  <2> QED  BY <2>6 DEF Counts, InFiles
<1> QED  BY <1>1, <1>2, <1>3, PlainStep

LEMMA CloseFillKeeps ==
    ASSUME IInv, CloseFill
    PROVE  IInv'
<1> USE DEF CloseFill, FillTmp, At, Raises, logVars, writerVars
<1>1. TypeOK'
  BY ManifestType DEF IInv, TypeOK
<1>2. PhaseInv'
  BY DEF IInv, PhaseInv, Described, BeforeManifest, AfterManifest
<1>3. IsEndRecord(Current(TRUE))
  <2>1. Counts(reported, segment + 1)
    BY DEF IInv, TmpInv
  <2>2. segment + 1 \in 1..(segment + 1)
    BY TypeFacts DEF IInv
  <2> QED  BY <2>1, <2>2 DEF IsEndRecord, Current
<1> QED  BY <1>1, <1>2, <1>3, PlainStep

\* The manifest of the end is what close() prepared.
LEMMA CloseReplaceKeeps ==
    ASSUME IInv, CloseReplace
    PROVE  IInv'
<1>0. /\ pc = "closeReplace" /\ manifest' = tmp /\ tmp' = NoFile /\ pc' = "done"
      /\ complete' = complete \cup {committed[i] : i \in 1..Len(committed)}
      /\ UNCHANGED <<run, segment, counted, fileOpen, reported, files, exists, accepted,
                      committed, broken, verdict, source>>
  BY DEF CloseReplace, Replace, At, logVars, writerVars
<1>1. IsEndRecord(tmp) /\ Described
  BY <1>0 DEF IInv, TmpInv, PhaseInv, AfterManifest
<1>2. TypeOK'
  <2>1. \A i \in 1..Len(committed) : committed[i] \in Frame
    BY DEF IInv, TypeOK
  <2> QED  BY <1>0, <2>1, ManifestType DEF IInv, TypeOK
<1>3. Described' /\ manifest'.run = run
  BY <1>0, <1>1 DEF IsEndRecord, Described
<1>n. segment \in Nat /\ tmp.listed \in 1..(segment + 1)
  BY <1>1, TypeFacts DEF IInv, IsEndRecord
<1>4. PhaseInv'
  BY <1>0, <1>3 DEF PhaseInv, BeforeManifest
<1>f. \A s \in 0..segment : s \in exists /\ AllOfRun(s, run)
  BY <1>1 DEF IInv, FilesInv, WriterIsOpen
<1>5. ManifestInv'
  <2>1. tmp.listed >= 1 /\ run \in 1..run /\ \A s \in 0..(tmp.listed - 1) : s \in 0..segment
    BY <1>n, TypeFacts DEF IInv
  <2>2. \A s \in 0..segment : s \in exists' /\ AllOfRun(s, manifest.run)'
    BY <1>0, <1>f, <1>3 DEF AllOfRun
  <2> QED  BY <1>0, <1>3, <2>1, <2>2 DEF ManifestInv
<1>6. TmpInv'
  <2>1. IsEndRecord(manifest)'
    BY <1>0, <1>1 DEF IsEndRecord, Counts, ContentsOf
  <2>2. manifest'.listed <= segment' + 1
    BY <1>0, <1>n
  <2> QED  BY <1>0, <2>1, <2>2 DEF TmpInv
<1>7. LogInv'
  BY <1>0 DEF IInv, LogInv
<1>8. FilesInv'
  <2>1. InFiles' = InFiles
    BY <1>0 DEF InFiles, ContentsOf
  <2> QED  BY <1>0, <1>1, <2>1 DEF IInv, FilesInv, WriterIsOpen, AllOfRun
<1> QED  BY <1>2, <1>4, <1>5, <1>6, <1>7, <1>8 DEF IInv

LEMMA CrashKeeps ==
    ASSUME IInv, Crash
    PROVE  IInv'
<1> USE DEF Crash, logVars, writerVars, directory
<1>1. TypeOK'
  BY DEF IInv, TypeOK
<1>2. PhaseInv'
  BY DEF IInv, PhaseInv, Described, BeforeManifest, AfterManifest
<1> QED  BY <1>1, <1>2, PlainStep DEF Over

\* A new process, in the directory as it is.
LEMMA RestartKeeps ==
    ASSUME IInv, Restart
    PROVE  IInv'
<1>0. /\ run < MaxRuns /\ run' = run + 1 /\ pc' = "start" /\ source' = "closed"
      /\ segment' = 0 /\ counted' = 0 /\ fileOpen' = FALSE /\ reported' = 0
      /\ accepted' = <<>> /\ committed' = <<>> /\ broken' = FALSE /\ verdict' = "none"
      /\ UNCHANGED <<files, exists, manifest, tmp, complete>>
  BY DEF Restart, directory
<1>1. run \in Nat /\ MaxRuns \in Nat /\ run >= 1 /\ manifest \in Manifest
  BY TypeFacts DEF IInv, TypeOK
<1>2. TypeOK'
  <2>1. run' \in 1..MaxRuns
    BY <1>0, <1>1
  <2>2. segment' \in Segments /\ counted' \in 0..MaxFrames /\ reported' \in 0..MaxFrames
    BY <1>0, RunsAssumption DEF Segments
  <2>3. accepted' \in Seq(Frame) /\ committed' \in Seq(Frame)
    BY <1>0
  <2>4. /\ files' \in [Segments -> Seq(Frame)] /\ exists' \subseteq Segments
        /\ manifest' \in Manifest /\ tmp' \in Manifest /\ complete' \subseteq Frame
    BY <1>0 DEF IInv, TypeOK
  <2> QED  BY <1>0, <2>1, <2>2, <2>3, <2>4 DEF TypeOK
<1>3. manifest = NoFile \/ manifest.run \in 1..run
  BY DEF IInv, ManifestInv
<1>4. ~Described'
  BY <1>0, <1>1, <1>3 DEF Described, NoFile
<1>5. ManifestInv'
  <2>1. manifest.run \in 1..run => manifest.run \in 1..(run + 1)
    BY <1>1
  <2> QED  BY <1>0, <2>1 DEF IInv, ManifestInv, AllOfRun
<1>6. PhaseInv'
  BY <1>0, <1>4 DEF PhaseInv, AfterManifest
<1>7. TmpInv'
  BY <1>0, <1>4 DEF TmpInv
<1>8. LogInv'
  BY <1>0, RunsAssumption DEF LogInv
<1>9. FilesInv'
  BY <1>0, <1>4 DEF FilesInv, WriterIsOpen
<1> QED  BY <1>2, <1>5, <1>6, <1>7, <1>8, <1>9 DEF IInv

-----------------------------------------------------------------------------
(* Every step, and what follows.                                           *)

LEMMA StepKeeps ==
    ASSUME IInv, [Next]_vars
    PROVE  IInv'
<1>1. CASE Open
  BY <1>1, OpenSourceKeeps, OpenWriterKeeps, BuildManifestKeeps, OpenFillKeeps,
     OpenReplaceKeeps DEF Open
<1>2. CASE Capture
  BY <1>2, CaptureKeeps
<1>3. CASE Thread
  BY <1>3, WriteFrameKeeps, RollKeeps, WriteFailsKeeps DEF Thread
<1>4. CASE Close
  BY <1>4, CloseBeginsKeeps, WriterClosesKeeps, SourceClosesKeeps, CloseFillKeeps,
     CloseReplaceKeeps DEF Close
<1>5. CASE Crash
  BY <1>5, CrashKeeps
<1>6. CASE Restart
  BY <1>6, RestartKeeps
<1>7. CASE UNCHANGED vars
  <2> USE DEF vars, logVars
  <2>1. TypeOK'
    BY <1>7 DEF IInv, TypeOK
  <2>2. PhaseInv'
    BY <1>7 DEF IInv, PhaseInv, Described
  <2>3. /\ pc' = "openReplace" => tmp' = Current(FALSE)'
        /\ pc' = "closeTmp" => Counts(reported', segment + 1)
        /\ pc' = "closeReplace" => IsEndRecord(tmp')
        /\ pc' \in {"writerOpen", "openTmp", "openReplace"} => WriterIsOpen
    BY <1>7 DEF IInv, TmpInv, WriterIsOpen, Current
  <2> QED  BY <1>7, <2>1, <2>2, <2>3, PlainStep
<1> QED  BY <1>1, <1>2, <1>3, <1>4, <1>5, <1>6, <1>7 DEF Next, Stopped

\* The invariant holds in every reachable state.
THEOREM Invariant == Spec => []IInv
<1>1. Init => IInv
  BY InitKeeps
<1>2. IInv /\ [Next]_vars => IInv'
  BY StepKeeps
<1> QED  BY <1>1, <1>2, PTL DEF Spec

\* Every variable keeps its type.
THEOREM TypeCorrect == Spec => []TypeOK
<1>1. IInv => TypeOK
  BY DEF IInv
<1> QED  BY <1>1, Invariant, PTL

\* What a reader finds: the first segments of one session, put end to end.
LEMMA ShownIs ==
    ASSUME IInv, manifest # NoFile
    PROVE  /\ manifest.listed \in 1..MaxSegments
           /\ Shown = Flat(ContentsOf(files), manifest.listed)
           /\ files \in [Segments -> Seq(Frame)]
<1>1. /\ manifest.listed \in 1..MaxSegments
      /\ files \in [Segments -> Seq(Frame)]
      /\ \A s \in 0..(manifest.listed - 1) : s \in exists
      /\ MaxSegments \in Nat
  BY RunsAssumption DEF IInv, TypeOK, Manifest, ManifestInv
<1>2. ASSUME NEW i \in 1..manifest.listed
      PROVE  FramesOf(i - 1) = ContentsOf(files)[i]
  <2>1. i - 1 \in 0..(manifest.listed - 1) /\ i \in 1..MaxSegments
    BY <1>1
  <2> QED  BY <1>1, <2>1 DEF FramesOf, ContentsOf
<1>3. [i \in 1..manifest.listed |-> FramesOf(i - 1)] = First(ContentsOf(files), manifest.listed)
  BY <1>2 DEF First
<1> QED  BY <1>1, <1>3 DEF Shown, Flat

\* At no moment does the directory show frames of two sessions as one
\* recording (reader.Recording over manifest.write and SegmentWriter._roll).
THEOREM NoMixedRecordingHolds == Spec => []NoMixedRecording
<1>1. IInv => NoMixedRecording
  <2> SUFFICES ASSUME IInv, Opens PROVE \A i \in 1..Len(Shown) : Shown[i][1] = manifest.run
    BY DEF NoMixedRecording
  <2> DEFINE n == manifest.listed
             a == First(ContentsOf(files), n)
             A == {f \in Frame : f[1] = manifest.run}
  <2>1. n \in 1..MaxSegments /\ Shown = Flat(ContentsOf(files), n)
          /\ files \in [Segments -> Seq(Frame)] /\ MaxSegments \in Nat
    BY ShownIs, RunsAssumption DEF Opens
  <2>2. \A s \in 0..(n - 1) : \A j \in 1..Len(files[s]) : files[s][j][1] = manifest.run
    BY DEF IInv, ManifestInv, AllOfRun, Opens
  <2>3. ContentsOf(files) \in [1..MaxSegments -> Seq(Frame)]
    BY <2>1, ContentsType
  <2>4. a \in [1..n -> Seq(Frame)] /\ n \in Nat
    BY <2>1, <2>3 DEF First
  <2>5. ASSUME NEW i \in 1..n, NEW j \in 1..Len(a[i])
        PROVE  a[i][j] \in A
    <3>1. a[i] = files[i - 1] /\ i - 1 \in 0..(n - 1) /\ i - 1 \in Segments
      BY <2>1 DEF First, ContentsOf, Segments
    <3>2. files[i - 1] \in Seq(Frame)
      BY <2>1, <3>1
    <3> QED  BY <2>2, <3>1, <3>2
  <2>6. Flat(a, n) = Flat(ContentsOf(files), n)
    <3>1. Agree(a, ContentsOf(files), n)
      BY DEF Agree, First
    <3> QED  BY <2>4, <3>1, FlattenSame
  <2> HIDE DEF a, n, A
  <2>7. \A p \in 1..Len(Flat(a, n)) : Flat(a, n)[p] \in A
    BY <2>4, <2>5, FlattenAll
  <2> QED  BY <2>1, <2>6, <2>7 DEF A
<1> QED  BY <1>1, Invariant, PTL

\* What a directory that is described by this session's manifest shows: some
\* first frames of its files, which are the first that were accepted.
LEMMA ShownFacts ==
    ASSUME IInv, Described, manifest # NoFile
    PROVE  /\ Shown \in Seq(Frame)
           /\ InFiles \in Seq(Frame)
           /\ Len(Shown) <= Len(InFiles)
           /\ \A p \in 1..Len(Shown) : InFiles[p] = Shown[p]
           /\ IsPrefix(Shown, accepted)
<1>t. accepted \in Seq(Frame) /\ committed \in Seq(Frame)
        /\ Len(committed) \in Nat /\ Len(accepted) \in Nat
  BY TypeFacts DEF IInv, TypeOK
<1> DEFINE n == manifest.listed
<1>1. n \in 1..MaxSegments /\ Shown = Flat(ContentsOf(files), n)
        /\ files \in [Segments -> Seq(Frame)]
  BY ShownIs
<1>2. segment + 1 \in 1..MaxSegments /\ n \in 1..(segment + 1)
  BY <1>1, TypeFacts DEF IInv, TmpInv
<1> HIDE DEF n
<1>3. /\ Shown \in Seq(Frame) /\ InFiles \in Seq(Frame)
      /\ Len(Shown) <= Len(InFiles)
      /\ \A p \in 1..Len(Shown) : InFiles[p] = Shown[p]
  BY <1>1, <1>2, FirstFiles DEF InFiles
<1>4. Len(InFiles) <= Len(accepted) /\ \A p \in 1..Len(InFiles) : InFiles[p] = accepted[p]
  <2>1. CASE InFiles = committed
    BY <2>1 DEF IInv, LogInv
  <2>2. CASE broken /\ InFiles = Append(committed, accepted[Len(committed) + 1])
    <3>1. Len(committed) < Len(accepted)
            /\ \A i \in 1..Len(committed) : committed[i] = accepted[i]
      BY <2>2 DEF IInv, LogInv
    <3>2. accepted[Len(committed) + 1] \in Frame
      BY <1>t, <3>1
    <3>3. Len(InFiles) = Len(committed) + 1
      BY <1>t, <2>2, <3>2
    <3>4. \A p \in 1..(Len(committed) + 1) : InFiles[p] = accepted[p]
      BY <1>t, <2>2, <3>1, <3>2
    <3> QED  BY <1>t, <3>1, <3>3, <3>4
  <2> QED  BY <2>1, <2>2 DEF IInv, FilesInv, WriterIsOpen
<1>5. IsPrefix(Shown, accepted)
  <2>1. Len(Shown) <= Len(accepted) /\ \A p \in 1..Len(Shown) : Shown[p] = accepted[p]
    BY <1>t, <1>3, <1>4
  <2> QED  BY <1>t, <1>3, <2>1, PrefixIs
<1> QED  BY <1>3, <1>5

\* As soon as a frame of a session is in a file, the directory describes it
\* and shows its frames in order (Session.open writes the manifest first).
THEOREM SelfDescribingHolds == Spec => []SelfDescribing
<1>1. IInv => SelfDescribing
  <2> SUFFICES ASSUME IInv, committed # <<>>
               PROVE  /\ Opens /\ manifest.run = run
                      /\ IsPrefix(Shown, accepted)
                      /\ IsPrefix(files[0], Shown)
    BY DEF SelfDescribing
  <2>1. Described
    BY DEF IInv, PhaseInv
  <2>t. run \in Nat /\ run >= 1
    BY TypeFacts DEF IInv
  <2>2. Opens
    BY <2>1, <2>t DEF Opens, Described, NoFile, Partial
  <2>3. Shown \in Seq(Frame) /\ IsPrefix(Shown, accepted)
    BY <2>1, <2>2, ShownFacts DEF Opens
  <2>4. IsPrefix(files[0], Shown)
    <3> DEFINE n == manifest.listed
    <3>1. n \in 1..MaxSegments /\ Shown = Flat(ContentsOf(files), n)
            /\ files \in [Segments -> Seq(Frame)]
      BY <2>2, ShownIs DEF Opens
    <3>2. 1 \in 1..n /\ 0 \in Segments
      BY <3>1, RunsAssumption DEF Segments
    <3> HIDE DEF n
    <3>3. /\ files[0] \in Seq(Frame)
          /\ Len(files[0]) <= Len(Shown)
          /\ \A p \in 1..Len(files[0]) : files[0][p] = Shown[p]
      <4>1. /\ Flat(ContentsOf(files), 1) \in Seq(Frame)
            /\ Len(Flat(ContentsOf(files), 1)) <= Len(Flat(ContentsOf(files), n))
            /\ \A p \in 1..Len(Flat(ContentsOf(files), 1)) :
                  Flat(ContentsOf(files), n)[p] = Flat(ContentsOf(files), 1)[p]
            /\ Flat(ContentsOf(files), 1) = files[0]
        BY <3>1, <3>2, FirstFiles
      <4> QED  BY <3>1, <4>1
    <3> QED  BY <2>3, <3>3, PrefixIs
  <2> QED  BY <2>1, <2>2, <2>3, <2>4 DEF Described
<1> QED  BY <1>1, Invariant, PTL

\* A manifest with its end record shows frames of its session from the first
\* on and says at most one more than there are, even when close() gave up on
\* the writer's thread and that goes on; when it did not, it shows every
\* committed frame and says their number, but for one whose write failed, and
\* after an "ok" every frame handed over (Session.close, AsyncWriter.close).
THEOREM EndedIsExactHolds == Spec => []EndedIsExact
<1>1. IInv => EndedIsExact
  <2> SUFFICES ASSUME IInv, manifest.ended, Opens, manifest.run = run
               PROVE  /\ IsPrefix(Shown, accepted)
                      /\ manifest.frames <= Len(Shown) + 1
                      /\ verdict # "abandoned" =>
                            /\ IsPrefix(committed, Shown)
                            /\ manifest.frames = Len(Shown)
                                  \/ (broken /\ manifest.frames = Len(Shown) + 1)
                      /\ verdict = "ok" => Shown = accepted
    BY DEF EndedIsExact
  <2>1. Described
    BY DEF Described
  <2>2. IsEndRecord(manifest)
    BY <2>1 DEF IInv, TmpInv
  <2>3. IsPrefix(Shown, accepted)
    BY <2>1, ShownFacts DEF Opens
  <2>4. manifest.frames <= Len(Shown) + 1
    <3>1. Shown = Flat(ContentsOf(files), manifest.listed)
      BY ShownIs DEF Opens
    <3> QED  BY <2>2, <3>1 DEF IsEndRecord, Counts
  <2>5. ASSUME verdict # "abandoned"
        PROVE  /\ IsPrefix(committed, Shown)
               /\ manifest.frames = Len(Shown)
                     \/ (broken /\ manifest.frames = Len(Shown) + 1)
               /\ verdict = "ok" => Shown = accepted
    <3>1. manifest.listed = segment + 1 /\ manifest.frames = counted
      BY <2>2, <2>5 DEF IsEndRecord, Counts
    <3>2. Shown = InFiles
      BY <3>1, ShownIs DEF Opens, InFiles
    <3>t. accepted \in Seq(Frame) /\ committed \in Seq(Frame) /\ InFiles \in Seq(Frame)
            /\ Len(committed) \in Nat /\ counted \in Nat
      BY TypeFacts DEF IInv, TypeOK
    <3>3. CASE InFiles = committed
      <4>1. IsPrefix(committed, Shown)
        BY <3>2, <3>3, <3>t, PrefixIs
      <4>2. counted = Len(Shown) \/ (broken /\ counted = Len(Shown) + 1)
        BY <2>1, <3>2, <3>3 DEF IInv, FilesInv, WriterIsOpen
      <4>3. verdict = "ok" => Shown = accepted
        BY <3>2, <3>3 DEF IInv, LogInv
      <4> QED  BY <3>1, <4>1, <4>2, <4>3
    <3>4. CASE broken /\ InFiles = Append(committed, accepted[Len(committed) + 1])
      <4>1. Len(committed) < Len(accepted) /\ verdict # "ok"
        BY <3>4 DEF IInv, LogInv
      <4>2. accepted[Len(committed) + 1] \in Frame
        BY <3>t, <4>1
      <4>3. Len(InFiles) = Len(committed) + 1
              /\ \A p \in 1..Len(committed) : committed[p] = InFiles[p]
        BY <3>t, <3>4, <4>2
      <4>4. IsPrefix(committed, Shown)
        BY <3>2, <3>t, <4>3, PrefixIs
      <4>5. counted = Len(Shown)
        BY <2>1, <3>2, <3>t, <4>3 DEF IInv, FilesInv, WriterIsOpen
      <4> QED  BY <3>1, <4>1, <4>4, <4>5
    <3> QED  BY <2>1, <3>3, <3>4 DEF IInv, FilesInv, WriterIsOpen
  <2> QED  BY <2>3, <2>4, <2>5
<1> QED  BY <1>1, Invariant, PTL
=============================================================================
