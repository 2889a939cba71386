------------------------- MODULE CppRecorderProofs --------------------------
(***************************************************************************)
(* Proofs about CppRecorder, for every depth of the queue, every number of *)
(* frames and segments, and every failure: its type invariant, that a      *)
(* signal ends it within one frame, that it implements FrameLog, and that  *)
(* the manifest it leaves is honest.                                       *)
(***************************************************************************)
EXTENDS CppRecorder, OperatorProofs

\* Steps that do not touch the frames leave every one where it is.
LEMMA FramesStay ==
    ASSUME EachFrameOnce, UNCHANGED <<queue, hand, accepted, written>>
    PROVE  EachFrameOnce'
BY DEF EachFrameOnce, Held

\* The inductive invariant holds initially.
LEMMA InitIInv == Init => IInv
<1> SUFFICES ASSUME Init PROVE IInv
  OBVIOUS
<1> USE QueueAssumption, CppBoundsAssumption DEF Init
<1>1. TypeOK
  <2>1. manifest \in Manifest  BY DEF Manifest
  <2>2. /\ queue \in Seq(Frame) /\ Len(queue) <= Depth
        /\ accepted \in Seq(Frame) /\ written \in Seq(Frame)
        /\ stored \in Seq([frame : Frame, segment : 1..MaxSegments])
    OBVIOUS
  <2>3. late \in 0..MaxFrames /\ frames \in 0..MaxFrames
        /\ highWater \in 0..Depth /\ segments \in 1..MaxSegments
    OBVIOUS
  <2> QED BY <2>1, <2>2, <2>3 DEF TypeOK
<1>2. EachFrameOnce  BY DEF EachFrameOnce, Held
<1>3. FramesCounted /\ ThreadState /\ MainState /\ LateState
  BY DEF FramesCounted, ThreadState, MainState, LateState, At
<1> QED BY <1>1, <1>2, <1>3 DEF IInv

\* No more frames are written than the device delivered.
LEMMA Counts ==
    ASSUME TypeOK, EachFrameOnce, FramesCounted
    PROVE  /\ Len(written) \in 0..MaxFrames
           /\ Len(accepted) \in 0..MaxFrames
           /\ late <= Len(accepted) => late \in 0..MaxFrames
<1>1. /\ Len(written) \in Nat /\ Len(queue) \in Nat /\ Len(accepted) \in Nat
      /\ Held \in {0, 1} /\ frames \in 0..MaxFrames /\ late \in 0..MaxFrames
  BY DEF TypeOK, Held
<1> QED BY <1>1, CppBoundsAssumption DEF EachFrameOnce, FramesCounted

\* The writes of the manifest preserve the inductive invariant.
LEMMA ManifestStep == IInv /\ (Describe \/ Finish) => IInv'
<1> SUFFICES ASSUME IInv, Describe \/ Finish PROVE IInv'
  OBVIOUS
<1> USE DEF queueVars, threadVars
<1>t. TypeOK /\ EachFrameOnce /\ FramesCounted /\ ThreadState /\ MainState
      /\ LateState
  BY DEF IInv
<1>0. /\ main \in {"describe", "finish"} /\ main' \in {"read", "exited"}
      /\ main = "finish" => main' = "exited"
      /\ way' \in {way, "unwound"}
      /\ silent' \in BOOLEAN
      /\ manifest' \in {manifest, Torn, Text("start"), Text("final")}
      /\ UNCHANGED <<stopSignal, late, frames, queue, highWater, stopping,
                     thread, hand, error, segments, stored, written,
                     accepted, verdict>>
  BY <1>t DEF Describe, Finish, WriteManifest, At, TypeOK
<1>1. TypeOK'
  <2>1. manifest' \in Manifest
    <3>1. Len(written) \in 0..MaxFrames  BY <1>t, Counts
    <3>2. segments \in 1..MaxSegments /\ highWater \in 0..Depth
          /\ manifest \in Manifest /\ 0 \in 0..MaxFrames /\ 0 \in 0..Depth
      BY <1>t, QueueAssumption, CppBoundsAssumption DEF TypeOK
    <3>3. Text("start") \in Manifest /\ Text("final") \in Manifest
      BY <3>1, <3>2 DEF Text, Manifest
    <3> QED BY <1>0, <3>2, <3>3 DEF Manifest
  <2> QED BY <1>t, <1>0, <2>1 DEF TypeOK
<1>2. EachFrameOnce'  BY <1>t, <1>0, FramesStay
<1>3. FramesCounted'  BY <1>t, <1>0 DEF FramesCounted, At
<1>4. ThreadState'  BY <1>t, <1>0 DEF ThreadState
<1>5. MainState'  BY <1>t, <1>0 DEF MainState
<1>6. LateState'  BY <1>t, <1>0 DEF LateState
<1> QED BY <1>1, <1>2, <1>3, <1>4, <1>5, <1>6 DEF IInv

\* The loop of main() preserves the inductive invariant.
LEMMA LoopStep ==
    IInv /\ (ReadFrame \/ ReadThrows \/ PushThrows \/ PushOverruns \/ Push
                \/ Notify \/ Check) => IInv'
<1> SUFFICES ASSUME IInv, ReadFrame \/ ReadThrows \/ PushThrows
                             \/ PushOverruns \/ Push \/ Notify \/ Check
             PROVE  IInv'
  OBVIOUS
<1> USE QueueAssumption, CppBoundsAssumption
<1> USE DEF queueVars, threadVars
<1>t. TypeOK /\ EachFrameOnce /\ FramesCounted /\ ThreadState /\ MainState
      /\ LateState
  BY DEF IInv
<1>n. /\ Len(queue) \in Nat /\ Len(accepted) \in Nat /\ Len(written) \in Nat
      /\ Held \in {0, 1} /\ highWater \in Nat /\ frames \in Nat /\ late \in Nat
  BY <1>t DEF TypeOK, Held
<1>1. CASE ReadFrame
  <2>0. /\ main = "read" /\ main' = "push"
        /\ frames < MaxFrames /\ frames' = frames + 1
        /\ UNCHANGED <<way, stopSignal, late, queue, highWater, stopping,
                       thread, hand, error, segments, stored, written, silent,
                       manifest, accepted, verdict>>
    BY <1>1 DEF ReadFrame, At
  <2>1. TypeOK'  BY <1>t, <2>0 DEF TypeOK
  <2>2. EachFrameOnce'  BY <1>t, <2>0, FramesStay
  <2>3. FramesCounted'  BY <1>t, <1>n, <2>0 DEF FramesCounted, At
  <2>4. ThreadState'  BY <1>t, <2>0 DEF ThreadState
  <2>5. MainState'  BY <1>t, <2>0 DEF MainState
  <2>6. LateState'  BY <1>t, <2>0 DEF LateState
  <2> QED BY <2>1, <2>2, <2>3, <2>4, <2>5, <2>6 DEF IInv
<1>2. CASE ReadThrows \/ PushThrows \/ PushOverruns
  <2>0. /\ main \in {"read", "push"} /\ main' = "stop"
        /\ way' \in {"noSignal", "overrun", "unwound"}
        /\ highWater' \in {highWater, Measured}
        /\ UNCHANGED <<stopSignal, late, frames, queue, stopping,
                       thread, hand, error, segments, stored, written, silent,
                       manifest, accepted, verdict>>
    BY <1>2 DEF ReadThrows, PushThrows, PushOverruns, Leave, At
  <2>1. TypeOK'
    <3>1. Measured \in 0..Depth  BY <1>t DEF Measured, TypeOK
    <3> QED BY <1>t, <2>0, <3>1 DEF TypeOK
  <2>2. EachFrameOnce'  BY <1>t, <2>0, FramesStay
  <2>3. FramesCounted'  BY <1>t, <2>0 DEF FramesCounted, At
  <2>4. ThreadState'  BY <1>t, <2>0 DEF ThreadState
  <2>5. MainState'  BY <1>t, <2>0 DEF MainState
  <2>6. LateState'  BY <1>t, <2>0 DEF LateState
  <2> QED BY <2>1, <2>2, <2>3, <2>4, <2>5, <2>6 DEF IInv
<1>3. CASE Push
  <2>0. /\ main = "push" /\ main' = "notify" /\ ~error
        /\ Len(queue) < Depth
        /\ highWater' = Measured
        /\ queue' = Append(queue, frames)
        /\ accepted' = Append(accepted, frames)
        /\ late' = IF stopSignal THEN late + 1 ELSE late
        /\ UNCHANGED <<way, stopSignal, frames, stopping, thread, hand, error,
                       segments, stored, written, silent, manifest, verdict>>
    BY <1>3 DEF Push, At
  <2>f. Len(accepted) < frames /\ frames \in Frame
    BY <1>t, <1>n, <2>0 DEF FramesCounted, At, TypeOK, Frame
  <2>l. late = 0  BY <1>t, <2>0 DEF LateState
  <2>q. /\ queue \in Seq(Frame) /\ accepted \in Seq(Frame)
        /\ queue' \in Seq(Frame) /\ accepted' \in Seq(Frame)
        /\ Len(queue') = Len(queue) + 1
        /\ Len(accepted') = Len(accepted) + 1
        /\ \A i \in 1..Len(queue) : queue'[i] = queue[i]
        /\ queue'[Len(queue) + 1] = frames
        /\ \A i \in 1..Len(accepted) : accepted'[i] = accepted[i]
        /\ accepted'[Len(accepted) + 1] = frames
    BY <1>t, <2>0, <2>f DEF TypeOK
  <2>1. TypeOK'
    <3>1. Measured \in 0..Depth  BY <1>t DEF Measured, TypeOK
    <3>2. late' \in 0..MaxFrames  BY <1>t, <1>n, <2>0, <2>l, <2>f DEF Frame
    <3>3. Len(queue') <= Depth  BY <2>q, <2>0, <1>n
    <3> QED BY <1>t, <2>0, <2>q, <3>1, <3>2, <3>3 DEF TypeOK
  <2>2. EachFrameOnce'
    <3>1. Held' = Held /\ (hand # Empty => Held = 1)  BY <2>0 DEF Held
    <3>2. Len(accepted) = Len(written) + Held + Len(queue)
      BY <1>t DEF EachFrameOnce
    <3>3. Len(accepted') = Len(written') + Held' + Len(queue')
      BY <3>1, <3>2, <2>q, <2>0, <1>n
    <3>4. ASSUME NEW i \in 1..Len(written') PROVE written'[i] = accepted'[i]
      <4>1. i \in 1..Len(accepted) /\ i \in 1..Len(written)
        BY <3>2, <1>n, <2>0
      <4>2. written[i] = accepted[i]  BY <4>1, <1>t DEF EachFrameOnce
      <4> QED BY <4>1, <4>2, <2>q, <2>0
    <3>5. (hand # Empty => hand = accepted[Len(written) + 1])'
      <4> SUFFICES ASSUME hand # Empty
                   PROVE  hand = accepted'[Len(written) + 1]
        BY <2>0
      <4>1. Len(written) + 1 \in 1..Len(accepted)  BY <3>1, <3>2, <1>n
      <4>2. hand = accepted[Len(written) + 1]  BY <1>t DEF EachFrameOnce
      <4> QED BY <4>1, <4>2, <2>q
    <3>6. ASSUME NEW i \in 1..Len(queue')
          PROVE  queue'[i] = accepted'[Len(written') + Held' + i]
      <4>1. CASE i = Len(queue) + 1
        BY <4>1, <3>1, <3>2, <1>n, <2>q, <2>0
      <4>2. CASE i # Len(queue) + 1
        <5>1. i \in 1..Len(queue)  BY <4>2, <1>n, <2>q
        <5>2. Len(written) + Held + i \in 1..Len(accepted)
          BY <5>1, <1>n, <3>2
        <5>3. queue[i] = accepted[Len(written) + Held + i]
          BY <5>1, <1>t DEF EachFrameOnce
        <5> QED BY <5>1, <5>2, <5>3, <3>1, <2>q, <2>0
      <4> QED BY <4>1, <4>2
    <3> QED BY <3>3, <3>4, <3>5, <3>6 DEF EachFrameOnce
  <2>3. FramesCounted'
    BY <1>n, <2>0, <2>f, <2>q DEF FramesCounted, At
  <2>4. ThreadState'
    <3>1. ~(thread = "dead")  BY <1>t, <2>0 DEF ThreadState, MainState
    <3> QED BY <1>t, <2>0, <3>1 DEF ThreadState
  <2>5. MainState'  BY <1>t, <2>0 DEF MainState
  <2>6. LateState'  BY <1>n, <2>0, <2>l, <2>q DEF LateState
  <2> QED BY <2>1, <2>2, <2>3, <2>4, <2>5, <2>6 DEF IInv
<1>4. CASE Notify
  <2>0. /\ main = "notify" /\ main' = "check"
        /\ thread' = IF thread = "asleep" THEN "ready" ELSE thread
        /\ UNCHANGED <<way, stopSignal, late, frames, queue, highWater,
                       stopping, hand, error, segments, stored, written,
                       silent, manifest, accepted, verdict>>
    BY <1>4 DEF Notify, Wake, At
  <2>1. TypeOK'  BY <1>t, <2>0 DEF TypeOK
  <2>2. EachFrameOnce'  BY <1>t, <2>0, FramesStay
  <2>3. FramesCounted'  BY <1>t, <2>0 DEF FramesCounted, At
  <2>4. ThreadState'  BY <1>t, <2>0 DEF ThreadState
  <2>5. MainState'  BY <1>t, <2>0 DEF MainState
  <2>6. LateState'  BY <1>t, <2>0 DEF LateState
  <2> QED BY <2>1, <2>2, <2>3, <2>4, <2>5, <2>6 DEF IInv
<1>5. CASE Check
  <2>0. /\ main = "check" /\ main' \in {"stop", "read"}
        /\ main' = "read" => ~stopSignal
        /\ way' \in {way, "ok"}
        /\ UNCHANGED <<stopSignal, late, frames, queue, highWater, stopping,
                       thread, hand, error, segments, stored, written, silent,
                       manifest, accepted, verdict>>
    BY <1>5 DEF Check, Leave, At
  <2>1. TypeOK'  BY <1>t, <2>0 DEF TypeOK
  <2>2. EachFrameOnce'  BY <1>t, <2>0, FramesStay
  <2>3. FramesCounted'  BY <1>t, <2>0 DEF FramesCounted, At
  <2>4. ThreadState'  BY <1>t, <2>0 DEF ThreadState
  <2>5. MainState'  BY <1>t, <2>0 DEF MainState
  <2>6. LateState'  BY <1>t, <2>0 DEF LateState
  <2> QED BY <2>1, <2>2, <2>3, <2>4, <2>5, <2>6 DEF IInv
<1> QED BY <1>1, <1>2, <1>3, <1>4, <1>5

\* AsyncWriter::close and the signal preserve the inductive invariant.
LEMMA CloseStep ==
    IInv /\ (Stop \/ WakeThread \/ Joined \/ Signal) => IInv'
<1> SUFFICES ASSUME IInv, Stop \/ WakeThread \/ Joined \/ Signal PROVE IInv'
  OBVIOUS
<1> USE DEF queueVars, threadVars, mainVars
<1>t. TypeOK /\ EachFrameOnce /\ FramesCounted /\ ThreadState /\ MainState
      /\ LateState
  BY DEF IInv
<1>1. CASE Stop \/ WakeThread
  <2>0. /\ main \in {"stop", "wake"} /\ main' \in {"wake", "join"}
        /\ thread' \in {thread, IF thread = "asleep" THEN "ready" ELSE thread}
        /\ stopping' \in BOOLEAN /\ (stopping => stopping')
        /\ UNCHANGED <<way, stopSignal, late, frames, queue, highWater,
                       hand, error, segments, stored, written, silent,
                       manifest, accepted, verdict>>
    BY <1>1, <1>t DEF Stop, WakeThread, Wake, At, TypeOK
  <2>1. TypeOK'  BY <1>t, <2>0 DEF TypeOK
  <2>2. EachFrameOnce'  BY <1>t, <2>0, FramesStay
  <2>3. FramesCounted'  BY <1>t, <2>0 DEF FramesCounted, At
  <2>4. ThreadState'  BY <1>t, <2>0 DEF ThreadState, TypeOK
  <2>5. MainState'  BY <1>t, <2>0 DEF MainState
  <2>6. LateState'  BY <1>t, <2>0 DEF LateState
  <2> QED BY <2>1, <2>2, <2>3, <2>4, <2>5, <2>6 DEF IInv
<1>2. CASE Joined
  <2>0. /\ main = "join" /\ main' \in {"finish", "exited"}
        /\ way' \in {way, "unwound"}
        /\ verdict' \in {"ok", "raised"}
        /\ UNCHANGED <<stopSignal, late, frames, queue, highWater, stopping,
                       thread, hand, error, segments, stored, written, silent,
                       manifest, accepted>>
    BY <1>2 DEF Joined, At
  <2>1. TypeOK'  BY <1>t, <2>0 DEF TypeOK
  <2>2. EachFrameOnce'  BY <1>t, <2>0, FramesStay
  <2>3. FramesCounted'  BY <1>t, <2>0 DEF FramesCounted, At
  <2>4. ThreadState'  BY <1>t, <2>0 DEF ThreadState
  <2>5. MainState'  BY <1>t, <2>0 DEF MainState
  <2>6. LateState'  BY <1>t, <2>0 DEF LateState
  <2> QED BY <2>1, <2>2, <2>3, <2>4, <2>5, <2>6 DEF IInv
<1>3. CASE Signal
  <2>0. /\ stopSignal' = TRUE
        /\ UNCHANGED <<main, way, late, frames, queue, highWater, stopping,
                       thread, hand, error, segments, stored, written, silent,
                       manifest, accepted, verdict>>
    BY <1>3 DEF Signal
  <2>1. TypeOK'  BY <1>t, <2>0 DEF TypeOK
  <2>2. EachFrameOnce'  BY <1>t, <2>0, FramesStay
  <2>3. FramesCounted'  BY <1>t, <2>0 DEF FramesCounted, At
  <2>4. ThreadState'  BY <1>t, <2>0 DEF ThreadState
  <2>5. MainState'  BY <1>t, <2>0 DEF MainState
  <2>6. LateState'  BY <1>t, <2>0 DEF LateState
  <2> QED BY <2>1, <2>2, <2>3, <2>4, <2>5, <2>6 DEF IInv
<1> QED BY <1>1, <1>2, <1>3

\* The writer thread preserves the inductive invariant.
LEMMA RunStep == IInv /\ (Run \/ SpuriousWake) => IInv'
<1> SUFFICES ASSUME IInv, Run \/ SpuriousWake PROVE IInv'
  OBVIOUS
<1> USE QueueAssumption, CppBoundsAssumption
<1> USE DEF queueVars, mainVars
<1>t. TypeOK /\ EachFrameOnce /\ FramesCounted /\ ThreadState /\ MainState
      /\ LateState
  BY DEF IInv
<1>n. /\ Len(queue) \in Nat /\ Len(accepted) \in Nat /\ Len(written) \in Nat
      /\ Held \in {0, 1} /\ Len(accepted) = Len(written) + Held + Len(queue)
      /\ queue \in Seq(Frame) /\ written \in Seq(Frame)
  BY <1>t DEF TypeOK, Held, EachFrameOnce
<1>1. CASE Sleep \/ SpuriousWake \/ Return
  <2>0. /\ UNCHANGED <<main, way, stopSignal, late, frames, queue, highWater,
                       stopping, hand, error, segments, stored, written,
                       silent, manifest, accepted, verdict>>
        /\ thread' \in {"ready", "asleep", "dead"}
        /\ hand = Empty /\ ~error
        /\ thread' = "dead" => queue = <<>> /\ stopping
    <3>1. CASE Sleep  BY <3>1, <1>t DEF Sleep, ThreadState
    <3>2. CASE SpuriousWake  BY <3>2, <1>t DEF SpuriousWake, Wake, ThreadState
    <3>3. CASE Return  BY <3>3, <1>t DEF Return, ThreadState
    <3> QED BY <1>1, <3>1, <3>2, <3>3
  <2>1. TypeOK'  BY <1>t, <2>0 DEF TypeOK
  <2>2. EachFrameOnce'  BY <1>t, <2>0, FramesStay
  <2>3. FramesCounted'  BY <1>t, <2>0 DEF FramesCounted, At
  <2>4. ThreadState'  BY <1>t, <2>0 DEF ThreadState
  <2>5. MainState'  BY <1>t, <2>0 DEF MainState
  <2>6. LateState'  BY <1>t, <2>0 DEF LateState
  <2> QED BY <2>1, <2>2, <2>3, <2>4, <2>5, <2>6 DEF IInv
<1>2. CASE Take
  <2>0. /\ thread = "ready" /\ thread' = "write" /\ queue # <<>>
        /\ hand' = Head(queue) /\ queue' = Tail(queue)
        /\ UNCHANGED <<main, way, stopSignal, late, frames, highWater,
                       stopping, error, segments, stored, written, silent,
                       manifest, accepted, verdict>>
    BY <1>2 DEF Take
  <2>h. hand = Empty /\ ~error /\ Held = 0
    BY <1>t, <2>0 DEF ThreadState, Held
  <2>q. /\ Len(queue) # 0 /\ Head(queue) = queue[1] /\ queue[1] \in Frame
        /\ Tail(queue) \in Seq(Frame) /\ Len(Tail(queue)) = Len(queue) - 1
        /\ \A i \in 1..(Len(queue) - 1) : Tail(queue)[i] = queue[i + 1]
    BY <1>n, <2>0
  <2>e. Held' = 1 /\ hand' # Empty  BY <2>0, <2>q DEF Held, Frame, Empty
  <2>1. TypeOK'
    <3>1. Len(queue') <= Depth  BY <1>t, <1>n, <2>0, <2>q DEF TypeOK
    <3> QED BY <1>t, <2>0, <2>q, <3>1 DEF TypeOK
  <2>2. EachFrameOnce'
    <3>1. \A i \in 1..Len(queue) : queue[i] = accepted[Len(written) + i]
      BY <1>t, <1>n, <2>h DEF EachFrameOnce
    <3>2. Len(accepted') = Len(written') + Held' + Len(queue')
      BY <1>n, <2>h, <2>e, <2>q, <2>0
    <3>3. \A i \in 1..Len(written') : written'[i] = accepted'[i]
      BY <1>t, <2>0 DEF EachFrameOnce
    <3>4. hand' = accepted'[Len(written') + 1]
      BY <3>1, <1>n, <2>q, <2>0
    <3>5. ASSUME NEW i \in 1..Len(queue')
          PROVE  queue'[i] = accepted'[Len(written') + Held' + i]
      <4>1. i \in 1..(Len(queue) - 1) /\ i + 1 \in 1..Len(queue)
        BY <1>n, <2>q, <2>0
      <4>2. queue'[i] = queue[i + 1]  BY <4>1, <2>q, <2>0
      <4>3. queue[i + 1] = accepted[Len(written) + (i + 1)]
        BY <4>1, <3>1
      <4>4. Len(written) + (i + 1) = Len(written') + Held' + i
        BY <4>1, <1>n, <2>e, <2>0
      <4> QED BY <4>2, <4>3, <4>4, <2>0
    <3> QED BY <3>2, <3>3, <3>4, <3>5 DEF EachFrameOnce
  <2>3. FramesCounted'  BY <1>t, <2>0 DEF FramesCounted, At
  <2>4. ThreadState'  BY <1>t, <2>0, <2>h, <2>e DEF ThreadState
  <2>5. MainState'  BY <1>t, <2>0 DEF MainState
  <2>6. LateState'  BY <1>t, <2>0 DEF LateState
  <2> QED BY <2>1, <2>2, <2>3, <2>4, <2>5, <2>6 DEF IInv
<1>3. CASE WriteFrame
  <2>0. /\ thread = "write" /\ thread' = "ready" /\ hand' = Empty
        /\ written' = Append(written, hand)
        /\ segments' \in {segments, segments + 1}
        /\ segments' <= MaxSegments
        /\ \/ stored' = Append(stored, [frame |-> hand, segment |-> segments'])
           \/ stored' = stored
        /\ silent' \in BOOLEAN
        /\ UNCHANGED <<main, way, stopSignal, late, frames, queue, highWater,
                       stopping, error, manifest, accepted, verdict>>
    BY <1>3, <1>t DEF WriteFrame, MayRoll, TypeOK
  <2>h. hand # Empty /\ ~error /\ Held = 1 /\ Held' = 0 /\ hand \in Frame
    BY <1>t, <2>0 DEF ThreadState, Held, TypeOK
  <2>w. /\ written' \in Seq(Frame) /\ Len(written') = Len(written) + 1
        /\ \A i \in 1..Len(written) : written'[i] = written[i]
        /\ written'[Len(written) + 1] = hand
    BY <1>n, <2>0, <2>h
  <2>1. TypeOK'
    <3>1. segments' \in 1..MaxSegments
      BY <1>t, <2>0 DEF TypeOK
    <3>2. [frame |-> hand, segment |-> segments']
              \in [frame : Frame, segment : 1..MaxSegments]
      BY <3>1, <2>h
    <3>3. stored' \in Seq([frame : Frame, segment : 1..MaxSegments])
      <4>1. stored \in Seq([frame : Frame, segment : 1..MaxSegments])
        BY <1>t DEF TypeOK
      <4>2. CASE stored' = stored  BY <4>1, <4>2
      <4>3. CASE stored' = Append(stored, [frame |-> hand,
                                           segment |-> segments'])
        BY <4>1, <4>3, <3>2, AppendProperties, Zenon
      <4> QED BY <2>0, <4>2, <4>3
    <3> QED BY <1>t, <2>0, <2>w, <3>1, <3>3 DEF TypeOK
  <2>2. EachFrameOnce'
    <3>1. Len(accepted') = Len(written') + Held' + Len(queue')
      BY <1>n, <2>h, <2>w, <2>0
    <3>2. ASSUME NEW i \in 1..Len(written') PROVE written'[i] = accepted'[i]
      <4>1. CASE i = Len(written) + 1
        BY <4>1, <1>t, <2>h, <2>w, <2>0 DEF EachFrameOnce
      <4>2. CASE i # Len(written) + 1
        <5>1. i \in 1..Len(written)  BY <4>2, <1>n, <2>w
        <5> QED BY <5>1, <1>t, <2>w, <2>0 DEF EachFrameOnce
      <4> QED BY <4>1, <4>2
    <3>3. ASSUME NEW i \in 1..Len(queue')
          PROVE  queue'[i] = accepted'[Len(written') + Held' + i]
      <4>1. queue[i] = accepted[Len(written) + Held + i]
        BY <1>t, <2>0 DEF EachFrameOnce
      <4>2. Len(written') + Held' + i = Len(written) + Held + i
        BY <1>n, <2>h, <2>w, <2>0
      <4> QED BY <4>1, <4>2, <2>0
    <3> QED BY <3>1, <3>2, <3>3, <2>0 DEF EachFrameOnce
  <2>3. FramesCounted'  BY <1>t, <2>0 DEF FramesCounted, At
  <2>4. ThreadState'  BY <1>t, <2>0, <2>h DEF ThreadState
  <2>5. MainState'  BY <1>t, <2>0 DEF MainState
  <2>6. LateState'  BY <1>t, <2>0 DEF LateState
  <2> QED BY <2>1, <2>2, <2>3, <2>4, <2>5, <2>6 DEF IInv
<1>4. CASE WriteThrows
  <2>0. /\ thread = "write" /\ thread' = "dead" /\ error' = TRUE
        /\ stopping' = TRUE
        /\ segments' \in {segments, segments + 1}
        /\ segments' <= MaxSegments
        /\ UNCHANGED <<main, way, stopSignal, late, frames, queue, highWater,
                       hand, stored, written, silent, manifest, accepted,
                       verdict>>
    BY <1>4 DEF WriteThrows, MayRoll
  <2>1. TypeOK'
    <3>1. segments' \in 1..MaxSegments
      BY <1>t, <2>0 DEF TypeOK
    <3> QED BY <1>t, <2>0, <3>1 DEF TypeOK
  <2>2. EachFrameOnce'  BY <1>t, <2>0, FramesStay
  <2>3. FramesCounted'  BY <1>t, <2>0 DEF FramesCounted, At
  <2>4. ThreadState'  BY <1>t, <2>0 DEF ThreadState
  <2>5. MainState'  BY <1>t, <2>0 DEF MainState
  <2>6. LateState'  BY <1>t, <2>0 DEF LateState
  <2> QED BY <2>1, <2>2, <2>3, <2>4, <2>5, <2>6 DEF IInv
<1> QED BY <1>1, <1>2, <1>3, <1>4 DEF Run

\* A stuttering step preserves the inductive invariant.
LEMMA StutterStep == IInv /\ UNCHANGED vars => IInv'
<1> SUFFICES ASSUME IInv, UNCHANGED vars PROVE IInv'
  OBVIOUS
<1> USE DEF vars
<1>1. TypeOK'  BY DEF IInv, TypeOK
<1>2. EachFrameOnce'  BY FramesStay DEF IInv
<1>3. FramesCounted' /\ ThreadState' /\ MainState' /\ LateState'
  BY DEF IInv, FramesCounted, ThreadState, MainState, LateState, At
<1> QED BY <1>1, <1>2, <1>3 DEF IInv

\* Every step preserves the inductive invariant, ...
LEMMA IInvStep == IInv /\ [Next]_vars => IInv'
  BY ManifestStep, LoopStep, CloseStep, RunStep, StutterStep
     DEF Next, Main, Exited

\* ... which therefore holds in every reachable state.
LEMMA Invariance == Spec => []IInv
BY InitIInv, IInvStep, PTL DEF Spec

\* Type correctness: in particular the queue never exceeds its depth.
THEOREM TypeCorrect == Spec => []TypeOK
<1>1. IInv => TypeOK  BY DEF IInv
<1> QED BY <1>1, Invariance, PTL

\* A signal ends the recording within one frame, whatever step it finds the
\* two threads at.
THEOREM Prompt == Spec => []StopsPromptly
<1>1. IInv => StopsPromptly  BY DEF IInv, LateState, StopsPromptly
<1> QED BY <1>1, Invariance, PTL

\* With the thread gone and no error recorded, everything was written.
LEMMA Drained ==
    ASSUME IInv, thread = "dead", ~error
    PROVE  written = accepted
<1>1. Held = 0 /\ queue = <<>>  BY DEF IInv, ThreadState, Held
<1>2. written \in Seq(Frame) /\ accepted \in Seq(Frame)
  BY DEF IInv, TypeOK
<1>3. Len(accepted) = Len(written)
  BY <1>1, <1>2 DEF IInv, EachFrameOnce
<1>4. \A i \in 1..Len(written) : written[i] = accepted[i]
  BY DEF IInv, EachFrameOnce
<1> QED BY <1>2, <1>3, <1>4, SeqEqual

\* Every step of the recorder is a step of FrameLog or changes nothing it
\* sees.
LEMMA LogStep ==
    ASSUME IInv, [Next]_vars
    PROVE  [Log!LogNext]_Log!logVars
<1> USE DEF Log!logVars, Log!LogNext, queueVars, threadVars, mainVars
<1>1. CASE Push
  <2>1. verdict = "none"
    BY <1>1 DEF Push, At, IInv, MainState
  <2>2. frames \in Frame
    <3>1. Len(accepted) < frames /\ Len(accepted) \in Nat
          /\ frames \in 0..MaxFrames
      BY <1>1 DEF Push, IInv, FramesCounted, TypeOK
    <3> QED BY <3>1, CppBoundsAssumption DEF Frame
  <2>3. Log!Accept(frames)  BY <1>1, <2>1 DEF Push, Log!Accept
  <2> QED BY <2>2, <2>3
<1>2. CASE WriteFrame
  <2>1. ~error /\ hand # Empty
    BY <1>2 DEF WriteFrame, IInv, ThreadState
  <2>2. hand = accepted[Len(written) + 1]
    BY <2>1 DEF IInv, EachFrameOnce
  <2>3. Len(written) < Len(accepted)
    <3>1. Held = 1 /\ Len(written) \in Nat /\ Len(queue) \in Nat
      BY <2>1 DEF Held, IInv, TypeOK
    <3> QED BY <3>1 DEF IInv, EachFrameOnce
  <2>4. Log!Commit
    BY <1>2, <2>1, <2>2, <2>3 DEF WriteFrame, Log!Commit
  <2> QED BY <2>4
<1>3. CASE WriteThrows
  <2>1. ~error  BY <1>3 DEF WriteThrows, IInv, ThreadState
  <2>2. Log!Break  BY <1>3, <2>1 DEF WriteThrows, Log!Break
  <2> QED BY <2>2
<1>4. CASE Joined
  <2>1. verdict = "none" /\ thread = "dead"
    BY <1>4 DEF Joined, At, IInv, MainState
  <2>2. CASE error \/ way = "unwound"
    <3>1. Log!CloseRaises
      BY <1>4, <2>1, <2>2 DEF Joined, Log!CloseRaises
    <3> QED BY <3>1
  <2>3. CASE ~(error \/ way = "unwound")
    <3>1. Log!CloseOk
      BY <1>4, <2>1, <2>3, Drained DEF Joined, Log!CloseOk
    <3> QED BY <3>1
  <2> QED BY <2>2, <2>3
<1>5. CASE ~(Push \/ WriteFrame \/ WriteThrows \/ Joined)
  <2>1. UNCHANGED <<accepted, written, error, verdict>>
    BY <1>5 DEF Next, Main, Run, Exited, Describe, Finish, WriteManifest,
       ReadFrame, ReadThrows, PushThrows, PushOverruns, Notify, Check, Stop,
       WakeThread, Sleep, Take, Return, SpuriousWake, Signal, vars
  <2> QED BY <2>1
<1> QED BY <1>1, <1>2, <1>3, <1>4, <1>5

\* The recorder implements FrameLog, whatever device and disk do.
THEOREM Implements == Spec => ImplementsLog
<1>1. Init => Log!LogInit  BY DEF Init, Log!LogInit
<1>2. IInv /\ [Next]_vars => [Log!LogNext]_Log!logVars
  BY LogStep
<1> QED BY <1>1, <1>2, Invariance, PTL
        DEF Spec, ImplementsLog, Log!LogSpec

-----------------------------------------------------------------------------
(* The manifest.  It is written twice: before the writer thread exists, and *)
(* after it was joined, so that neither text can be overtaken by a frame.   *)

\* Nothing is recorded, and no manifest written.
LEMMA InitHonest == Init => HonestInv
<1> SUFFICES ASSUME Init PROVE HonestInv
  OBVIOUS
<1>1. IInv
  BY InitIInv
<1>2. StoredState
  BY DEF Init, StoredState
<1>3. TextState /\ OverrunState
  BY DEF Init, TextState, OverrunState, At, NoManifest
<1> QED  BY <1>1, <1>2, <1>3 DEF HonestInv

\* The writer appends what it has in hand, to a segment that counts.
LEMMA StoredStep ==
    ASSUME HonestInv, [Next]_vars
    PROVE  StoredState'
<1> USE DEF queueVars, threadVars, mainVars
<1>t. /\ written \in Seq(Frame) /\ Len(written) \in Nat
      /\ stored \in Seq([frame : Frame, segment : 1..MaxSegments])
      /\ Len(stored) \in Nat /\ segments \in Nat
  BY DEF HonestInv, IInv, TypeOK
<1>i. ASSUME NEW i \in 1..Len(stored) PROVE stored[i].segment \in Nat
  <2>1. stored[i] \in [frame : Frame, segment : 1..MaxSegments]
    BY <1>t, ElementOfSeq
  <2>2. stored[i].segment \in 1..MaxSegments
    BY <2>1
  <2> QED  BY <2>2
<1>h. StoredState
  BY DEF HonestInv
<1>1. CASE WriteFrame
  <2>0. /\ hand \in Frame /\ written' = Append(written, hand)
        /\ segments' \in {segments, segments + 1}
        /\ \/ stored' = Append(stored, [frame |-> hand, segment |-> segments'])
                  /\ silent' = silent
           \/ silent' = TRUE /\ stored' = stored
    BY <1>1 DEF WriteFrame, MayRoll, HonestInv, IInv, ThreadState, TypeOK
  <2>s. segments <= segments' /\ segments' \in Nat
    BY <1>t, <2>0
  <2>w. /\ Len(written') = Len(written) + 1
        /\ \A i \in 1..Len(written) : written'[i] = written[i]
        /\ written'[Len(written) + 1] = hand
    BY <1>t, <2>0
  <2>1. CASE stored' = Append(stored, [frame |-> hand, segment |-> segments'])
                  /\ silent' = silent
    <3> DEFINE r == [frame |-> hand, segment |-> segments']
    <3>r. r.frame = hand /\ r.segment = segments'
      OBVIOUS
    <3> HIDE DEF r
    <3>1. /\ Len(stored') = Len(stored) + 1
          /\ \A i \in 1..Len(stored) : stored'[i] = stored[i]
          /\ stored'[Len(stored) + 1] = r
      BY <1>t, <2>1 DEF r
    <3>2. ASSUME NEW i \in 1..Len(stored') PROVE stored'[i].segment <= segments'
      <4>1. CASE i = Len(stored) + 1
        BY <2>s, <3>r, <3>1, <4>1
      <4>2. CASE i # Len(stored) + 1
        <5>1. i \in 1..Len(stored)
          BY <1>t, <3>1, <4>2
        <5>2. stored[i].segment <= segments /\ stored[i].segment \in Nat
          BY <1>h, <1>i, <5>1 DEF StoredState
        <5>3. stored'[i] = stored[i]
          BY <3>1, <5>1
        <5> QED  BY <1>t, <2>s, <5>2, <5>3
      <4> QED  BY <4>1, <4>2
    <3>3. ASSUME ~silent'
          PROVE  /\ Len(stored') = Len(written')
                 /\ \A i \in 1..Len(written') : stored'[i].frame = written'[i]
      <4>1. /\ Len(stored) = Len(written)
            /\ \A i \in 1..Len(written) : stored[i].frame = written[i]
        BY <1>h, <2>1, <3>3 DEF StoredState
      <4>2. ASSUME NEW i \in 1..Len(written') PROVE stored'[i].frame = written'[i]
        <5>1. CASE i = Len(written) + 1
          BY <2>w, <3>r, <3>1, <4>1, <5>1
        <5>2. CASE i # Len(written) + 1
          <6>1. i \in 1..Len(written) /\ i \in 1..Len(stored)
            BY <1>t, <2>w, <4>1, <5>2
          <6> QED  BY <2>w, <3>1, <4>1, <6>1
        <5> QED  BY <5>1, <5>2
      <4> QED  BY <2>w, <3>1, <4>1, <4>2
    <3> QED  BY <3>2, <3>3 DEF StoredState
  <2>2. CASE silent' = TRUE /\ stored' = stored
    <3>1. ASSUME NEW i \in 1..Len(stored) PROVE stored[i].segment <= segments'
      <4>1. stored[i].segment <= segments /\ stored[i].segment \in Nat
        BY <1>h, <1>i DEF StoredState
      <4> QED  BY <1>t, <2>s, <4>1
    <3> QED  BY <2>2, <3>1 DEF StoredState
  <2> QED  BY <2>0, <2>1, <2>2
<1>2. CASE WriteThrows
  <2>0. /\ UNCHANGED <<stored, written, silent>>
        /\ segments' \in {segments, segments + 1}
    BY <1>2 DEF WriteThrows, MayRoll
  <2>1. ASSUME NEW i \in 1..Len(stored) PROVE stored[i].segment <= segments'
    <3>1. stored[i].segment <= segments /\ stored[i].segment \in Nat
      BY <1>h, <1>i DEF StoredState
    <3> QED  BY <1>t, <2>0, <3>1
  <2> QED  BY <1>h, <2>0, <2>1 DEF StoredState
<1>3. CASE ~(WriteFrame \/ WriteThrows)
  <2>1. /\ UNCHANGED <<stored, written, segments>>
        /\ silent' = silent \/ silent' = TRUE
    BY <1>3 DEF Next, Main, Run, Exited, Describe, Finish, WriteManifest,
       ReadFrame, ReadThrows, PushThrows, PushOverruns, Push, Notify, Check,
       Stop, WakeThread, Joined, Sleep, Take, Return, SpuriousWake, Signal, vars
  <2> QED  BY <1>h, <2>1 DEF StoredState
<1> QED  BY <1>1, <1>2, <1>3

\* A full queue is measured before it is reported.
LEMMA OverrunStep ==
    ASSUME HonestInv, [Next]_vars
    PROVE  OverrunState'
<1> USE DEF queueVars, threadVars, mainVars
<1>h. OverrunState
  BY DEF HonestInv
<1>1. CASE PushOverruns
  <2>1. /\ main' = "stop" /\ highWater' = Measured /\ Len(queue) >= Depth
    BY <1>1 DEF PushOverruns, Leave
  <2>2. Len(queue) <= Depth /\ Len(queue) \in Nat /\ highWater \in 0..Depth
    BY DEF HonestInv, IInv, TypeOK
  <2>3. Measured = Depth
    BY <2>1, <2>2, QueueAssumption DEF Measured
  <2> QED  BY <2>1, <2>3 DEF OverrunState
<1>2. CASE Describe \/ Finish
  <2>1. /\ main' \in {"read", "exited"} /\ way' \in {way, "unwound"}
        /\ main \in {"describe", "finish"} /\ highWater' = highWater
        /\ main = "finish" => main' = "exited"
    BY <1>2 DEF Describe, Finish, WriteManifest, At
  <2> QED  BY <1>h, <2>1 DEF OverrunState
<1>3. CASE ReadFrame \/ ReadThrows \/ PushThrows \/ Push \/ Notify \/ Check
  <2>1. main \in {"read", "push", "notify", "check"}
        /\ way' \in {way, "noSignal", "unwound", "ok"}
    BY <1>3 DEF ReadFrame, ReadThrows, PushThrows, Push, Notify, Check, Leave, At
  <2> QED  BY <1>h, <2>1 DEF OverrunState
<1>4. CASE Stop \/ WakeThread \/ Joined
  <2>1. /\ main' \in {"wake", "join", "finish", "exited"} /\ way' \in {way, "unwound"}
        /\ highWater' = highWater /\ main \in {"stop", "wake", "join"}
    BY <1>4 DEF Stop, WakeThread, Joined, At
  <2> QED  BY <1>h, <2>1 DEF OverrunState
<1>5. CASE Run \/ SpuriousWake \/ Signal \/ Exited \/ UNCHANGED vars
  <2>1. UNCHANGED <<main, way, highWater>>
    BY <1>5 DEF Run, Sleep, Take, Return, WriteFrame, WriteThrows, SpuriousWake,
       Signal, Exited, vars
  <2> QED  BY <1>h, <2>1 DEF OverrunState
<1> QED  BY <1>1, <1>2, <1>3, <1>4, <1>5 DEF Next, Main

\* The first manifest comes before all frames, the last one after them.
LEMMA TextStep ==
    ASSUME HonestInv, [Next]_vars
    PROVE  TextState'
<1> USE DEF queueVars, threadVars, mainVars
<1>h. TextState /\ ThreadState
  BY DEF HonestInv, IInv
<1>s. /\ NoManifest.state = "none" /\ Torn.state = "torn"
      /\ Text("start").state = "start" /\ Text("final").state = "final"
  BY DEF NoManifest, Torn, Text
<1>1. CASE Describe
  <2>0. /\ At("describe") /\ main' \in {"read", "exited"}
        /\ UNCHANGED <<highWater, thread, error, segments, stored, written>>
        /\ \/ manifest' = Text("start") /\ main' = "read" /\ silent' = silent
           \/ manifest' = Torn /\ main' = "read" /\ silent' = TRUE
           \/ manifest' = manifest /\ main' = "exited" /\ way' = "unwound"
    BY <1>1 DEF Describe, WriteManifest, At
  <2>1. manifest.state = "none" /\ thread = "ready" /\ stored = <<>>
    BY <1>h, <2>0 DEF TextState
  <2> QED  BY <1>s, <2>0, <2>1 DEF TextState, At
<1>2. CASE Finish
  <2>0. /\ At("finish") /\ main' = "exited"
        /\ UNCHANGED <<highWater, thread, error, segments, stored, written>>
        /\ \/ manifest' = Text("final") /\ silent' = silent
           \/ manifest' = Torn /\ silent' = TRUE
           \/ manifest' = manifest /\ way' = "unwound" /\ silent' = silent
    BY <1>2 DEF Finish, WriteManifest, At
  <2>1. /\ thread = "dead" /\ ~error
        /\ manifest.state \notin {"none", "final"}
        /\ manifest.state = "torn" => silent
    BY <1>h, <2>0 DEF TextState, At
  <2>2. Text("final")' = Text("final")
    BY <2>0 DEF Text
  <2> QED  BY <1>s, <2>0, <2>1, <2>2 DEF TextState, At
<1>3. CASE ReadFrame \/ ReadThrows \/ PushThrows \/ PushOverruns \/ Push
              \/ Notify \/ Check \/ Stop \/ WakeThread
  <2>0. /\ main \in {"read", "push", "notify", "check", "stop", "wake"}
        /\ main' \in {"read", "push", "notify", "check", "stop", "wake", "join"}
        /\ UNCHANGED <<manifest, silent>>
    BY <1>3 DEF ReadFrame, ReadThrows, PushThrows, PushOverruns, Push, Notify,
       Check, Stop, WakeThread, Leave, At
  <2>1. /\ manifest.state \notin {"none", "final"}
        /\ manifest.state = "torn" => silent
    BY <1>h, <2>0 DEF TextState, At
  <2> QED  BY <2>0, <2>1 DEF TextState, At
<1>4. CASE Joined
  <2>0. /\ main = "join" /\ thread = "dead"
        /\ main' = "finish" => ~error
        /\ main' \in {"finish", "exited"}
        /\ main' = "exited" => way' = "unwound"
        /\ UNCHANGED <<manifest, silent, thread, error>>
    BY <1>4 DEF Joined, At
  <2>1. /\ manifest.state \notin {"none", "final"}
        /\ manifest.state = "torn" => silent
    BY <1>h, <2>0 DEF TextState, At
  <2> QED  BY <2>0, <2>1 DEF TextState, At
<1>5. CASE Sleep \/ Take \/ Return
  <2>0. /\ main \notin {"describe", "exited"} /\ thread = "ready"
        /\ UNCHANGED <<manifest, silent, main, way>>
    BY <1>5 DEF Sleep, Take, Return, Running
  <2>1. /\ manifest.state \notin {"none", "final"} /\ main # "finish"
        /\ manifest.state = "torn" => silent
    BY <1>h, <2>0 DEF TextState, At
  <2> QED  BY <2>0, <2>1 DEF TextState, At
<1>6. CASE WriteFrame \/ WriteThrows \/ SpuriousWake
  <2>0. /\ thread \in {"asleep", "write"}
        /\ silent' = silent \/ silent' = TRUE
        /\ UNCHANGED <<manifest, main, way>>
    BY <1>6 DEF WriteFrame, WriteThrows, SpuriousWake
  <2>1. /\ manifest.state \notin {"none", "final"}
        /\ main \notin {"describe", "finish"}
        /\ manifest.state = "torn" => silent
    BY <1>h, <2>0 DEF TextState, At
  <2> QED  BY <1>h, <2>0, <2>1 DEF TextState, At
<1>7. CASE Signal \/ Exited \/ UNCHANGED vars
  <2>0. UNCHANGED <<manifest, silent, main, way, highWater, thread, error,
                    segments, stored, written>>
    BY <1>7 DEF Signal, Exited, vars
  <2>1. Text("final")' = Text("final")
    BY <2>0 DEF Text
  <2> QED  BY <1>h, <2>0, <2>1 DEF TextState, At
<1> QED  BY <1>1, <1>2, <1>3, <1>4, <1>5, <1>6, <1>7 DEF Next, Main, Run

\* HonestInv holds throughout, given what IInv says of the writer.
LEMMA HonestInvariance == Spec => []HonestInv
<1>1. HonestInv /\ [Next]_vars => HonestInv'
  <2> SUFFICES ASSUME HonestInv, [Next]_vars PROVE HonestInv'
    OBVIOUS
  <2>1. IInv'
    BY IInvStep DEF HonestInv
  <2>2. StoredState'
    BY StoredStep
  <2>3. OverrunState'
    BY OverrunStep
  <2>4. TextState'
    BY TextStep
  <2> QED  BY <2>1, <2>2, <2>3, <2>4 DEF HonestInv
<1> QED  BY InitHonest, <1>1, PTL DEF Spec

\* If stdio kept its word, a reader of the last manifest is shown what was
\* written.
LEMMA ShowsAll ==
    ASSUME HonestInv, ~silent, manifest.state = "final"
    PROVE  ShownFrames = written
<1> DEFINE ss == [i \in DOMAIN stored |->
                    IF stored[i].segment <= manifest.listed
                    THEN <<stored[i].frame>> ELSE <<>>]
<1>1. /\ written \in Seq(Frame) /\ Len(written) \in Nat
      /\ stored \in Seq([frame : Frame, segment : 1..MaxSegments])
  BY DEF HonestInv, IInv, TypeOK
<1>2. manifest.listed = segments
  BY DEF HonestInv, TextState, Text
<1>3. /\ \A i \in 1..Len(stored) : stored[i].segment <= segments
      /\ Len(stored) = Len(written)
      /\ \A i \in 1..Len(written) : stored[i].frame = written[i]
  BY DEF HonestInv, StoredState
<1>4. DOMAIN stored = 1..Len(written)
  BY <1>1, <1>3
<1>5. ASSUME NEW i \in 1..Len(written) PROVE ss[i] = <<written[i]>>
  <2>1. i \in DOMAIN stored /\ i \in 1..Len(stored)
    BY <1>3, <1>4
  <2>2. stored[i].segment <= manifest.listed /\ stored[i].frame = written[i]
    BY <1>2, <1>3, <2>1
  <2> QED  BY <2>1, <2>2
<1>6. ss = [i \in 1..Len(written) |-> ss[i]]
  BY <1>4
<1>s. ShownFrames = FlattenSeq(ss)
  BY DEF ShownFrames
<1> HIDE DEF ss
<1>7. ss \in [1..Len(written) -> Seq(Frame)]
  <2>1. ASSUME NEW i \in 1..Len(written) PROVE ss[i] \in Seq(Frame)
    <3>1. written[i] \in Frame
      BY <1>1
    <3>2. <<written[i]>> \in Seq(Frame)
      BY <3>1
    <3> QED  BY <1>5, <3>2
  <2> QED  BY <1>6, <2>1
<1> QED  BY <1>1, <1>5, <1>7, <1>s, FlattenSingles

\* The manifest of the C++ recorder is honest, for every order of the two
\* threads and every failure that stdio reports: a directory with frames can
\* be read whenever the process is killed, one that says it ended shows every
\* frame accepted, and it does say so unless an exception was the end.
THEOREM ManifestIsHonestHolds == Spec => []ManifestIsHonest
<1>1. HonestInv => ManifestIsHonest
  <2> SUFFICES ASSUME HonestInv, ~silent
               PROVE  /\ stored # <<>> => manifest.state \in {"start", "final"}
                      /\ manifest.state = "final" =>
                            /\ manifest.frames = Len(accepted)
                            /\ ShownFrames = accepted
                            /\ way = "overrun" => manifest.highWater = Depth
                      /\ At("exited") /\ way # "unwound" => manifest.state = "final"
    BY DEF ManifestIsHonest
  <2>1. manifest.state \in {"none", "torn", "start", "final"}
    <3>1. manifest \in Manifest
      BY DEF HonestInv, IInv, TypeOK
    <3> QED  BY <3>1 DEF Manifest, NoManifest, Torn
  <2>2. stored # <<>> => manifest.state \in {"start", "final"}
    BY <2>1 DEF HonestInv, TextState
  <2>3. ASSUME manifest.state = "final"
        PROVE  /\ manifest.frames = Len(accepted)
               /\ ShownFrames = accepted
               /\ way = "overrun" => manifest.highWater = Depth
    <3>1. /\ thread = "dead" /\ ~error /\ manifest = Text("final")
      BY <2>3 DEF HonestInv, TextState
    <3>2. written = accepted
      BY <3>1, Drained DEF HonestInv
    <3>3. manifest.frames = Len(written) /\ manifest.highWater = highWater
      BY <3>1 DEF Text
    <3>4. ShownFrames = written
      BY <2>3, ShowsAll
    <3>5. way = "overrun" => highWater = Depth
      BY DEF HonestInv, OverrunState
    <3> QED  BY <3>2, <3>3, <3>4, <3>5
  <2>4. At("exited") /\ way # "unwound" => manifest.state = "final"
    BY DEF HonestInv, TextState
  <2> QED  BY <2>2, <2>3, <2>4
<1> QED  BY <1>1, HonestInvariance, PTL
=============================================================================
