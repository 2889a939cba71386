-------------------------- MODULE AsyncWriterProofs -------------------------
(***************************************************************************)
(* Proofs about AsyncWriter, for every Depth and every number of frames:   *)
(* its type invariant, the accounting of accepted frames, what high_water  *)
(* is worth, and that it implements FrameLog, whatever the disk does and   *)
(* however long it takes.                                                  *)
(***************************************************************************)
EXTENDS AsyncWriter, SequenceTheorems, TLAPS

\* The inductive invariant holds initially.
LEMMA InitIInv == Init => IInv
<1> SUFFICES ASSUME Init PROVE IInv
  OBVIOUS
<1> USE DepthAssumption, MaxFramesAssumption DEF Init
<1>1. TypeOK
  <2>1. /\ Len(queue) = 0 /\ queue \in Seq(Frame \cup {Stop})
        /\ accepted \in Seq(Frame) /\ written \in Seq(Frame)
    OBVIOUS
  <2>2. highWater \in 0..Depth /\ peak \in 0..Depth /\ offered \in 0..MaxFrames
    OBVIOUS
  <2>3. caller \in CallerStates  BY DEF CallerStates
  <2>4. /\ error \in BOOLEAN /\ fileOpen \in BOOLEAN /\ overran \in BOOLEAN
        /\ gaveUp \in BOOLEAN
        /\ thread \in {"get", "write", "dead"}
        /\ outcome \in {"none", "ok", "raised"}
        /\ hand \in Frame \cup {Empty}
    OBVIOUS
  <2>5. Len(queue) <= Depth  BY <2>1
  <2> QED BY <2>1, <2>2, <2>3, <2>4, <2>5, Zenon DEF TypeOK
<1>2. Held = 0 /\ Waiting = 0 /\ Len(queue) = 0
  BY DEF Held, Waiting, HasStop
<1>3. NothingVanishes  BY <1>2 DEF NothingVanishes
<1>4. StopIsLast /\ ThreadState /\ CallerState /\ JoinState
  BY <1>2 DEF StopIsLast, ThreadState, CallerState, JoinState
<1>5. PeakState
  BY <1>2 DEF PeakState, HighWaterIsHonest,
           HighWaterNearPeak, OverrunIsShown
<1> QED BY <1>1, <1>3, <1>4, <1>5 DEF IInv

\* Steps that move only the caller, the error or high_water leave every
\* frame where it is.
LEMMA FramesStay ==
    ASSUME NothingVanishes, UNCHANGED <<queue, hand, accepted, written>>
    PROVE  NothingVanishes' /\ Waiting' = Waiting
BY DEF NothingVanishes, Held, Waiting, HasStop

\* Until the sentinel is queued, the queue holds frames only.
LEMMA NoSentinelYet ==
    ASSUME TypeOK, StopIsLast, caller \notin AfterSentinel
    PROVE  /\ ~HasStop
           /\ Waiting = Len(queue)
           /\ \A i \in 1..Len(queue) : queue[i] \in Frame
BY DEF TypeOK, StopIsLast, HasStop, Waiting, Stop

\* The calls of write() preserve the inductive invariant.
LEMMA WriteStep == IInv /\ Write => IInv'
<1> SUFFICES ASSUME IInv, Write PROVE IInv'
  OBVIOUS
<1> USE DepthAssumption, MaxFramesAssumption, FlagAssumption
<1> USE DEF threadVars, history, Stop
<1>t. TypeOK /\ NothingVanishes /\ StopIsLast /\ ThreadState /\ CallerState
      /\ JoinState /\ PeakState
  BY DEF IInv
<1>1. CASE WriteRaises \/ WriteBegins
  <2>0. /\ caller = "idle" /\ offered < MaxFrames /\ offered' = offered + 1
        /\ caller' \in {"idle", "measure"}
        /\ UNCHANGED <<queue, highWater, error, thread, hand, fileOpen,
                       outcome, accepted, written, peak, overran, gaveUp>>
    BY <1>1 DEF WriteRaises, WriteBegins
  <2>1. TypeOK'  BY <1>t, <2>0 DEF TypeOK, CallerStates
  <2>2. NothingVanishes' /\ Waiting' = Waiting
    BY <1>t, <2>0, FramesStay
  <2>3. StopIsLast'  BY <1>t, <2>0 DEF StopIsLast, AfterSentinel
  <2>4. ThreadState'  BY <1>t, <2>0 DEF ThreadState, AfterSentinel
  <2>5. CallerState'
    BY <1>t, <2>0, <2>1 DEF CallerState, TypeOK, Frame
  <2>6. JoinState'  BY <1>t, <2>0 DEF JoinState
  <2>7. PeakState'
    BY <1>t, <2>0, <2>2 DEF PeakState, HighWaterIsHonest,
           HighWaterNearPeak, OverrunIsShown
  <2> QED BY <2>1, <2>2, <2>3, <2>4, <2>5, <2>6, <2>7 DEF IInv
<1>2. CASE Measure
  <2>0. /\ caller = "measure" /\ caller' = "put"
        /\ highWater' = IF Len(queue) > highWater
                        THEN Len(queue) ELSE highWater
        /\ UNCHANGED <<offered, queue, error, thread, hand, fileOpen,
                       outcome, accepted, written, peak, overran, gaveUp>>
    BY <1>2 DEF Measure
  <2>1. TypeOK'  BY <1>t, <2>0 DEF TypeOK, CallerStates
  <2>2. NothingVanishes' /\ Waiting' = Waiting
    BY <1>t, <2>0, FramesStay
  <2>3. StopIsLast'  BY <1>t, <2>0 DEF StopIsLast, AfterSentinel
  <2>4. ThreadState'  BY <1>t, <2>0 DEF ThreadState, AfterSentinel
  <2>w. Waiting = Len(queue)
    BY <1>t, <2>0, NoSentinelYet DEF AfterSentinel
  <2>h. Len(queue) \in Nat /\ highWater \in Nat /\ peak \in Nat
        /\ Len(queue) <= Depth
    BY <1>t DEF TypeOK
  <2>7. PeakState'
    BY <1>t, <2>0, <2>2, <2>w, <2>h
       DEF PeakState, HighWaterIsHonest,
           HighWaterNearPeak, OverrunIsShown
  <2>5. CallerState'
    BY <1>t, <2>0, <2>w, <2>h, <2>7
       DEF CallerState, PeakState, HighWaterIsHonest, HighWaterNearPeak
  <2>6. JoinState'  BY <1>t, <2>0 DEF JoinState
  <2> QED BY <2>1, <2>2, <2>3, <2>4, <2>5, <2>6, <2>7 DEF IInv
<1>3. CASE Put
  <2>0. /\ caller = "put" /\ caller' = "idle" /\ Len(queue) < Depth
        /\ queue' = Append(queue, offered)
        /\ accepted' = Append(accepted, offered)
        /\ peak' = IF Len(queue) + 1 > peak THEN Len(queue) + 1 ELSE peak
        /\ UNCHANGED <<offered, highWater, error, thread, hand, fileOpen,
                       outcome, written, overran, gaveUp>>
    BY <1>3 DEF Put
  <2>o. offered \in Frame /\ highWater <= peak /\ Len(queue) <= highWater
    BY <1>t, <2>0 DEF CallerState
  <2>q. /\ queue \in Seq(Frame \cup {0}) /\ accepted \in Seq(Frame)
        /\ Len(queue) \in Nat /\ highWater \in Nat /\ peak \in Nat
        /\ Len(queue') = Len(queue) + 1
        /\ Len(accepted') = Len(accepted) + 1
        /\ \A i \in 1..Len(queue) : queue'[i] = queue[i]
        /\ queue'[Len(queue) + 1] = offered
        /\ \A i \in 1..Len(accepted) : accepted'[i] = accepted[i]
        /\ accepted'[Len(accepted) + 1] = offered
    BY <1>t, <2>0, <2>o DEF TypeOK
  <2>1. TypeOK'
    BY <1>t, <2>0, <2>o, <2>q DEF TypeOK, CallerStates
  <2>w. /\ Waiting = Len(queue)
        /\ \A i \in 1..Len(queue) : queue[i] \in Frame
    BY <1>t, <2>0, NoSentinelYet DEF AfterSentinel
  <2>v. Waiting' = Len(queue) + 1
    BY <2>q, <2>o DEF Waiting, HasStop, Frame
  <2>2. NothingVanishes'
    <3>1. Held' = Held /\ Held \in {0, 1} /\ Len(written) \in Nat
          /\ (hand # Empty => Held = 1)
      BY <1>t, <2>0 DEF Held, TypeOK
    <3>2. Len(accepted) = Len(written) + Held + Len(queue)
      BY <1>t, <2>w DEF NothingVanishes
    <3>3. Len(accepted') = Len(written') + Held' + Waiting'
      BY <3>1, <3>2, <2>q, <2>v, <2>0
    <3>4. \A i \in 1..Len(written') : written'[i] = accepted'[i]
      <4> SUFFICES ASSUME NEW i \in 1..Len(written)
                   PROVE  written[i] = accepted'[i]
        BY <2>0
      <4>1. i \in 1..Len(accepted)  BY <3>1, <3>2, <2>q
      <4>2. written[i] = accepted[i]  BY <1>t DEF NothingVanishes
      <4> QED BY <4>1, <4>2, <2>q
    <3>5. (hand # Empty => hand = accepted[Len(written) + 1])'
      BY <1>t, <3>1, <3>2, <2>q, <2>0 DEF NothingVanishes
    <3>6. ASSUME NEW i \in 1..Waiting'
          PROVE  queue'[i] = accepted'[Len(written') + Held' + i]
      <4>1. CASE i = Len(queue) + 1
        BY <4>1, <3>1, <3>2, <2>q, <2>0
      <4>2. CASE i # Len(queue) + 1
        <5>1. i \in 1..Len(queue)  BY <4>2, <2>v, <2>q
        <5>2. Len(written) + Held + i \in 1..Len(accepted)
          BY <5>1, <3>1, <3>2, <2>q
        <5>3. queue[i] = accepted[Len(written) + Held + i]
          BY <5>1, <1>t, <2>w DEF NothingVanishes
        <5> QED BY <5>1, <5>2, <5>3, <3>1, <2>q, <2>0
      <4> QED BY <4>1, <4>2
    <3> QED BY <3>3, <3>4, <3>5, <3>6 DEF NothingVanishes
  <2>3. StopIsLast'
    BY <1>t, <2>0, <2>o, <2>q, <2>w DEF StopIsLast, Frame
  <2>4. ThreadState'  BY <1>t, <2>0 DEF ThreadState, AfterSentinel
  <2>5. CallerState'  BY <1>t, <2>0 DEF CallerState
  <2>6. JoinState'  BY <1>t, <2>0 DEF JoinState
  <2>7. PeakState'
    BY <1>t, <2>0, <2>o, <2>q, <2>v
       DEF PeakState, HighWaterIsHonest,
           HighWaterNearPeak, OverrunIsShown
  <2> QED BY <2>1, <2>2, <2>3, <2>4, <2>5, <2>6, <2>7 DEF IInv
<1>4. CASE Overrun
  <2>0. /\ caller = "put" /\ caller' = "idle" /\ Len(queue) = Depth
        /\ overran' = TRUE
        /\ UNCHANGED <<offered, queue, highWater, error, thread, hand,
                       fileOpen, outcome, accepted, written, peak, gaveUp>>
    BY <1>4 DEF Overrun
  <2>1. TypeOK'  BY <1>t, <2>0 DEF TypeOK, CallerStates
  <2>2. NothingVanishes' /\ Waiting' = Waiting
    BY <1>t, <2>0, FramesStay
  <2>3. StopIsLast'  BY <1>t, <2>0 DEF StopIsLast, AfterSentinel
  <2>4. ThreadState'  BY <1>t, <2>0 DEF ThreadState, AfterSentinel
  <2>5. CallerState'  BY <1>t, <2>0 DEF CallerState
  <2>6. JoinState'  BY <1>t, <2>0 DEF JoinState
  <2>7. PeakState'
    BY <1>t, <2>0, <2>2
       DEF PeakState, HighWaterIsHonest,
           HighWaterNearPeak, OverrunIsShown, CallerState, TypeOK
  <2> QED BY <2>1, <2>2, <2>3, <2>4, <2>5, <2>6, <2>7 DEF IInv
<1> QED BY <1>1, <1>2, <1>3, <1>4 DEF Write

\* The steps of close() preserve the inductive invariant.
LEMMA CloseStep == IInv /\ Close => IInv'
<1> SUFFICES ASSUME IInv, Close PROVE IInv'
  OBVIOUS
<1> USE DepthAssumption, MaxFramesAssumption, FlagAssumption
<1> USE DEF threadVars, history, Stop
<1>t. TypeOK /\ NothingVanishes /\ StopIsLast /\ ThreadState /\ CallerState
      /\ JoinState /\ PeakState
  BY DEF IInv
<1>1. CASE PutSentinel
  <2>0. /\ caller = "sentinel" /\ caller' = "join" /\ Len(queue) < Depth
        /\ queue' = Append(queue, 0)
        /\ UNCHANGED <<offered, highWater, error, thread, hand, fileOpen,
                       outcome, accepted, written, peak, overran, gaveUp>>
    BY <1>1 DEF PutSentinel
  <2>q. /\ queue \in Seq(Frame \cup {0}) /\ Len(queue) \in Nat
        /\ Len(queue') = Len(queue) + 1
        /\ \A i \in 1..Len(queue) : queue'[i] = queue[i]
        /\ queue'[Len(queue) + 1] = 0
    BY <1>t, <2>0 DEF TypeOK
  <2>1. TypeOK'  BY <1>t, <2>0, <2>q DEF TypeOK, CallerStates
  <2>w. /\ Waiting = Len(queue)
        /\ \A i \in 1..Len(queue) : queue[i] \in Frame
    BY <1>t, <2>0, NoSentinelYet DEF AfterSentinel
  <2>v. Waiting' = Len(queue) /\ Held' = Held
    BY <2>q, <2>0 DEF Waiting, HasStop, Held
  <2>2. NothingVanishes'
    BY <1>t, <2>0, <2>q, <2>w, <2>v DEF NothingVanishes
  <2>3. StopIsLast'
    BY <1>t, <2>0, <2>q, <2>w DEF StopIsLast, Frame, AfterSentinel
  <2>4. ThreadState'  BY <1>t, <2>0 DEF ThreadState, AfterSentinel
  <2>5. CallerState'  BY <1>t, <2>0 DEF CallerState
  <2>6. JoinState'  BY <1>t, <2>0 DEF JoinState
  <2>7. PeakState'
    BY <1>t, <2>0, <2>w, <2>v
       DEF PeakState, HighWaterIsHonest,
           HighWaterNearPeak, OverrunIsShown
  <2> QED BY <2>1, <2>2, <2>3, <2>4, <2>5, <2>6, <2>7 DEF IInv
<1>2. CASE ~PutSentinel
  <2>0. /\ UNCHANGED <<offered, queue, highWater, error, thread, hand,
                       accepted, written, peak, overran>>
        /\ \/ /\ caller = "idle" /\ caller' = "sentinel"
              /\ gaveUp' = gaveUp
              /\ UNCHANGED <<fileOpen, outcome>>
           \/ /\ caller = "join" /\ caller' = "shut"
              /\ \/ thread = "dead" /\ gaveUp' = gaveUp
                 \/ gaveUp' = TRUE
              /\ UNCHANGED <<fileOpen, outcome>>
           \/ /\ caller = "shut" /\ caller' = "report"
              /\ gaveUp' = gaveUp
              /\ fileOpen' = FALSE /\ outcome' = outcome
           \/ /\ caller = "shut" /\ caller' = "closed"
              /\ gaveUp' = gaveUp
              /\ fileOpen' = fileOpen /\ outcome' = "raised"
           \/ /\ caller = "report" /\ caller' = "closed"
              /\ gaveUp' = gaveUp
              /\ outcome' \in {"ok", "raised"} /\ fileOpen' = fileOpen
    BY <1>2 DEF Close, CloseBegins, Joined, JoinTimesOut, CloseWriter,
                CloseWriterRaises, Report
  <2>1. TypeOK'  BY ZenonT(30), <1>t, <2>0 DEF TypeOK, CallerStates
  <2>2. NothingVanishes' /\ Waiting' = Waiting
    BY <1>t, <2>0, FramesStay
  <2>3. StopIsLast'  BY <1>t, <2>0 DEF StopIsLast, AfterSentinel
  <2>4. ThreadState'  BY <1>t, <2>0 DEF ThreadState, AfterSentinel
  <2>5. CallerState'  BY <1>t, <2>0 DEF CallerState
  <2>6. JoinState'  BY <1>t, <2>0 DEF JoinState, TypeOK
  <2>7. PeakState'
    BY <1>t, <2>0, <2>2 DEF PeakState, HighWaterIsHonest,
           HighWaterNearPeak, OverrunIsShown
  <2> QED BY <2>1, <2>2, <2>3, <2>4, <2>5, <2>6, <2>7 DEF IInv
<1> QED BY <1>1, <1>2

\* Taking the first item of the queue: what remains, and where it is.
LEMMA QueueTail ==
    ASSUME TypeOK, queue # <<>>, queue' = Tail(queue)
    PROVE  /\ Len(queue) \in Nat \ {0}
           /\ queue[1] = Head(queue)
           /\ Head(queue) \in Frame \cup {0}
           /\ queue' \in Seq(Frame \cup {0})
           /\ Len(queue') = Len(queue) - 1
           /\ \A i \in 1..Len(queue') : queue'[i] = queue[i + 1]
BY HeadTailProperties DEF TypeOK, Stop

\* The steps of the writer thread preserve the inductive invariant.
LEMMA RunStep == IInv /\ Run => IInv'
<1> SUFFICES ASSUME IInv, Run PROVE IInv'
  OBVIOUS
<1> USE DepthAssumption, MaxFramesAssumption, FlagAssumption
<1> USE DEF callerVars, threadVars, history, Stop, Empty
<1>t. TypeOK /\ NothingVanishes /\ StopIsLast /\ ThreadState /\ CallerState
      /\ JoinState /\ PeakState
  BY DEF IInv
<1>n. /\ Len(written) \in Nat /\ Len(accepted) \in Nat /\ Len(queue) \in Nat
      /\ highWater \in Nat /\ peak \in Nat
  BY <1>t DEF TypeOK
<1>1. CASE GetFrame
  <2>0. /\ thread = "get" /\ thread' = "write" /\ queue # <<>>
        /\ Head(queue) # 0 /\ hand' = Head(queue) /\ queue' = Tail(queue)
        /\ UNCHANGED <<caller, offered, highWater, error, fileOpen, outcome,
                       accepted, written, peak, overran, gaveUp>>
    BY <1>1 DEF GetFrame
  <2>q. /\ Len(queue) \in Nat \ {0}
        /\ queue[1] = Head(queue) /\ Head(queue) \in Frame
        /\ queue' \in Seq(Frame \cup {0}) /\ Len(queue') = Len(queue) - 1
        /\ \A i \in 1..Len(queue') : queue'[i] = queue[i + 1]
    BY <1>t, <2>0, QueueTail
  <2>1. TypeOK'  BY <1>t, <2>0, <2>q DEF TypeOK
  <2>h. hand = 0 /\ ~error /\ Held = 0 /\ Held' = 1
    BY <1>t, <2>0 DEF ThreadState, Held
  <2>w. Waiting \in Nat /\ Waiting' = Waiting - 1 /\ Waiting >= 1
    <3>1. CASE HasStop
      <4>1. Len(queue) # 1  BY <3>1, <2>q, <2>0 DEF HasStop
      <4>2. HasStop'
        <5>1. queue'[Len(queue')] = queue[Len(queue)]
          BY <4>1, <2>q
        <5>2. queue' # <<>>  BY <4>1, <2>q
        <5> QED BY <5>1, <5>2, <3>1 DEF HasStop
      <4> QED BY <3>1, <4>1, <4>2, <2>q DEF Waiting
    <3>2. CASE ~HasStop
      <4>1. ~HasStop'
        <5> SUFFICES ASSUME queue' # <<>>
                     PROVE  queue'[Len(queue')] # 0
          BY DEF HasStop
        <5>1. Len(queue') >= 1  BY <2>q
        <5>2. queue'[Len(queue')] = queue[Len(queue)]  BY <5>1, <2>q
        <5> QED BY <5>2, <3>2, <2>0 DEF HasStop
      <4> QED BY <3>2, <4>1, <2>q DEF Waiting
    <3> QED BY <3>1, <3>2
  <2>2. NothingVanishes'
    <3>1. Len(accepted) = Len(written) + Waiting
      BY <1>t, <2>h, <1>n, <2>w DEF NothingVanishes
    <3>2. \A i \in 1..Waiting : queue[i] = accepted[Len(written) + i]
      BY <1>t, <2>h, <1>n DEF NothingVanishes
    <3>3. hand' = accepted[Len(written) + 1]
      BY <3>2, <2>0, <2>q, <2>w
    <3>4. ASSUME NEW i \in 1..Waiting'
          PROVE  queue'[i] = accepted'[Len(written') + Held' + i]
      <4>1. i \in 1..Len(queue') /\ i + 1 \in 1..Waiting
        BY <2>w, <2>q DEF Waiting
      <4>2. queue'[i] = queue[i + 1]  BY <4>1, <2>q
      <4>3. queue[i + 1] = accepted[Len(written) + (i + 1)]
        BY <4>1, <3>2
      <4>4. Len(written) + (i + 1) = Len(written) + 1 + i
        BY <1>n
      <4> QED BY <4>2, <4>3, <4>4, <2>h, <2>0
    <3>5. Len(accepted') = Len(written') + Held' + Waiting'
      BY <3>1, <2>h, <2>w, <2>0, <1>n
    <3> QED BY <3>3, <3>4, <3>5, <1>t, <2>0 DEF NothingVanishes
  <2>3. StopIsLast'
    <3> SUFFICES ASSUME NEW i \in 1..Len(queue'), queue'[i] = 0
                 PROVE  i = Len(queue') /\ caller \in AfterSentinel
      BY <2>0 DEF StopIsLast
    <3>1. i + 1 \in 1..Len(queue) /\ queue[i + 1] = 0  BY <2>q
    <3>2. i + 1 = Len(queue) /\ caller \in AfterSentinel
      BY <3>1, <1>t DEF StopIsLast
    <3> QED BY <3>2, <2>q
  <2>4. ThreadState'  BY <1>t, <2>0, <2>q, <2>h DEF ThreadState, Frame
  <2>5. CallerState'
    BY <1>t, <2>0, <2>q, <1>n DEF CallerState
  <2>6. JoinState'  BY <1>t, <2>0 DEF JoinState
  <2>7. PeakState'
    BY <1>t, <2>0, <2>w, <1>n
       DEF PeakState, HighWaterIsHonest,
           HighWaterNearPeak, OverrunIsShown
  <2> QED BY <2>1, <2>2, <2>3, <2>4, <2>5, <2>6, <2>7 DEF IInv
<1>2. CASE GetStop
  <2>0. /\ thread = "get" /\ thread' = "dead" /\ queue # <<>>
        /\ Head(queue) = 0 /\ queue' = Tail(queue)
        /\ UNCHANGED <<caller, offered, highWater, error, hand, fileOpen,
                       outcome, accepted, written, peak, overran, gaveUp>>
    BY <1>2 DEF GetStop
  <2>q. /\ Len(queue) \in Nat \ {0} /\ queue[1] = 0
        /\ queue' \in Seq(Frame \cup {0}) /\ Len(queue') = Len(queue) - 1
    BY <1>t, <2>0, QueueTail
  <2>l. Len(queue) = 1 /\ caller \in AfterSentinel
    BY <1>t, <2>q DEF StopIsLast
  <2>e. queue' = <<>> /\ HasStop /\ ~HasStop' /\ Waiting = 0
        /\ Waiting' = 0 /\ Held' = Held
    BY <2>q, <2>l, <2>0 DEF HasStop, Waiting, Held
  <2>1. TypeOK'  BY <1>t, <2>0, <2>q DEF TypeOK
  <2>2. NothingVanishes'  BY <1>t, <2>0, <2>e DEF NothingVanishes
  <2>3. StopIsLast'  BY <2>e DEF StopIsLast
  <2>4. ThreadState'  BY <1>t, <2>0, <2>e, <2>l DEF ThreadState
  <2>5. CallerState'
    BY <1>t, <2>0, <2>l DEF CallerState, AfterSentinel
  <2>6. JoinState'  BY <1>t, <2>0 DEF JoinState
  <2>7. PeakState'
    BY <1>t, <2>0, <2>e, <1>n
       DEF PeakState, HighWaterIsHonest,
           HighWaterNearPeak, OverrunIsShown
  <2> QED BY <2>1, <2>2, <2>3, <2>4, <2>5, <2>6, <2>7 DEF IInv
<1>3. CASE WriteFrame
  <2>0. /\ thread = "write" /\ thread' = "get" /\ hand' = 0
        /\ written' = Append(written, hand)
        /\ fileOpen' = TRUE
        /\ UNCHANGED <<caller, offered, queue, highWater, error, outcome,
                       accepted, peak, overran, gaveUp>>
    BY <1>3 DEF WriteFrame
  <2>h. hand # 0 /\ ~error /\ Held = 1 /\ Held' = 0 /\ hand \in Frame
    BY <1>t, <2>0 DEF ThreadState, Held, TypeOK
  <2>q. /\ Len(written') = Len(written) + 1
        /\ \A i \in 1..Len(written) : written'[i] = written[i]
        /\ written'[Len(written) + 1] = hand
    BY <1>t, <2>0, <2>h DEF TypeOK
  <2>1. TypeOK'  BY <1>t, <2>0, <2>h DEF TypeOK
  <2>w. Waiting' = Waiting /\ Waiting \in Nat
    BY <2>0, <1>n DEF Waiting, HasStop
  <2>2. NothingVanishes'
    <3>1. Len(accepted) = Len(written) + 1 + Waiting
      BY <1>t, <2>h DEF NothingVanishes
    <3>2. hand = accepted[Len(written) + 1]
      BY <1>t, <2>h DEF NothingVanishes
    <3>3. \A i \in 1..Waiting : queue[i] = accepted[Len(written) + 1 + i]
      BY <1>t, <2>h DEF NothingVanishes
    <3>4. Len(accepted') = Len(written') + Held' + Waiting'
      BY <3>1, <2>q, <2>h, <2>w, <2>0, <1>n
    <3>5. ASSUME NEW i \in 1..Len(written')
          PROVE  written'[i] = accepted'[i]
      <4>1. CASE i = Len(written) + 1
        BY <4>1, <3>2, <2>q, <2>0
      <4>2. CASE i # Len(written) + 1
        <5>1. i \in 1..Len(written)  BY <4>2, <2>q, <1>n
        <5>2. written[i] = accepted[i]
          BY <5>1, <1>t DEF NothingVanishes
        <5> QED BY <5>1, <5>2, <2>q, <2>0
      <4> QED BY <4>1, <4>2
    <3>6. ASSUME NEW i \in 1..Waiting'
          PROVE  queue'[i] = accepted'[Len(written') + Held' + i]
      <4>1. queue[i] = accepted[Len(written) + 1 + i]
        BY <3>3, <2>w
      <4>2. Len(written') + Held' + i = Len(written) + 1 + i
        BY <2>q, <2>h, <2>w, <1>n
      <4> QED BY <4>1, <4>2, <2>0
    <3> QED BY <3>4, <3>5, <3>6, <2>0 DEF NothingVanishes
  <2>3. StopIsLast'  BY <1>t, <2>0 DEF StopIsLast
  <2>4. ThreadState'  BY <1>t, <2>0, <2>h DEF ThreadState
  <2>5. CallerState'  BY <1>t, <2>0 DEF CallerState
  <2>6. JoinState'
    BY <1>t, <2>0 DEF JoinState
  <2>7. PeakState'
    BY <1>t, <2>0, <2>w DEF PeakState, HighWaterIsHonest,
           HighWaterNearPeak, OverrunIsShown
  <2> QED BY <2>1, <2>2, <2>3, <2>4, <2>5, <2>6, <2>7 DEF IInv
<1>4. CASE WriteFails
  <2>0. /\ thread = "write" /\ thread' = "dead" /\ error' = TRUE
        /\ UNCHANGED <<caller, offered, queue, highWater, hand, fileOpen,
                       outcome, accepted, written, peak, overran, gaveUp>>
    BY <1>4 DEF WriteFails
  <2>1. TypeOK'  BY <1>t, <2>0 DEF TypeOK
  <2>2. NothingVanishes' /\ Waiting' = Waiting
    BY <1>t, <2>0, FramesStay
  <2>3. StopIsLast'  BY <1>t, <2>0 DEF StopIsLast
  <2>4. ThreadState'  BY <1>t, <2>0 DEF ThreadState
  <2>5. CallerState'  BY <1>t, <2>0 DEF CallerState
  <2>6. JoinState'  BY <1>t, <2>0 DEF JoinState
  <2>7. PeakState'
    BY <1>t, <2>0, <2>2 DEF PeakState, HighWaterIsHonest,
           HighWaterNearPeak, OverrunIsShown
  <2> QED BY <2>1, <2>2, <2>3, <2>4, <2>5, <2>6, <2>7 DEF IInv
<1> QED BY <1>1, <1>2, <1>3, <1>4 DEF Run

\* A stuttering step preserves the inductive invariant.
LEMMA StutterStep == IInv /\ UNCHANGED vars => IInv'
<1> SUFFICES ASSUME IInv, UNCHANGED vars PROVE IInv'
  OBVIOUS
<1> USE DEF vars
<1>1. TypeOK'  BY DEF IInv, TypeOK
<1>2. NothingVanishes' /\ Waiting' = Waiting  BY FramesStay DEF IInv
<1>3. StopIsLast' /\ ThreadState' /\ CallerState' /\ JoinState'
  BY DEF IInv, StopIsLast, ThreadState, CallerState, JoinState
<1>4. PeakState'
  BY <1>2 DEF IInv, PeakState, HighWaterIsHonest,
           HighWaterNearPeak, OverrunIsShown
<1> QED BY <1>1, <1>2, <1>3, <1>4 DEF IInv

\* The inductive invariant holds in every reachable state.
LEMMA Invariance == Spec => []IInv
<1>1. IInv /\ [Next]_vars => IInv'
  BY WriteStep, CloseStep, RunStep, StutterStep DEF Next, Finished
<1> QED BY InitIInv, <1>1, PTL DEF Spec

\* Type correctness of AsyncWriter: in particular the queue never exceeds
\* its depth, sentinel included.
THEOREM TypeCorrect == Spec => []TypeOK
<1>1. IInv => TypeOK  BY DEF IInv
<1> QED BY <1>1, Invariance, PTL

\* Accepted frames are written, held or queued, in order, exactly once.
THEOREM Accounting == Spec => []NothingVanishes
<1>1. IInv => NothingVanishes  BY DEF IInv
<1> QED BY <1>1, Invariance, PTL

\* The high-water mark the manifest carries is within one of the real peak.
THEOREM HighWater == Spec => []HighWaterIsHonest
<1>1. IInv => HighWaterIsHonest  BY DEF IInv, PeakState
<1> QED BY <1>1, Invariance, PTL

\* Unless the join gave up, the thread is gone by the time close() has an
\* outcome.
THEOREM Quiet == Spec => []CountersFinal
<1>1. IInv => CountersFinal
  <2> SUFFICES ASSUME IInv, outcome # "none", ~gaveUp PROVE thread = "dead"
    BY DEF CountersFinal
  <2>1. caller = "closed"
    BY DEF IInv, CallerState, TypeOK, CallerStates
  <2> QED BY <2>1 DEF IInv, JoinState
<1> QED BY <1>1, Invariance, PTL

\* With the thread gone and no error recorded, everything was written.
LEMMA Drained ==
    ASSUME IInv, thread = "dead", ~error
    PROVE  written = accepted
<1>1. hand = Empty /\ queue = <<>>  BY DEF IInv, ThreadState
<1>2. Held = 0 /\ Waiting = 0
  BY <1>1 DEF Held, Waiting, HasStop
<1>3. written \in Seq(Frame) /\ accepted \in Seq(Frame)
  BY DEF IInv, TypeOK
<1>4. Len(accepted) = Len(written)
  BY <1>2, <1>3 DEF IInv, NothingVanishes
<1>5. \A i \in 1..Len(written) : written[i] = accepted[i]
  BY DEF IInv, NothingVanishes
<1> QED BY <1>3, <1>4, <1>5, SeqEqual

\* The initial states of AsyncWriter are initial states of FrameLog.
LEMMA LogInitially == Init => Log!LogInit
BY DEF Init, Log!LogInit, Verdict

\* Every step of AsyncWriter is a step of FrameLog or changes nothing it
\* sees.
LEMMA LogStep ==
    ASSUME IInv, [Next]_vars
    PROVE  [Log!LogNext]_Log!logVars
<1> USE DEF Log!logVars, Log!LogNext, callerVars, threadVars, history, Verdict
<1>1. CASE Put
  <2>1. outcome = "none" /\ offered \in Frame
    BY <1>1 DEF Put, IInv, CallerState
  <2>2. Log!Accept(offered)  BY <1>1, <2>1 DEF Put, Log!Accept
  <2> QED BY <2>1, <2>2
<1>2. CASE WriteFrame
  <2>1. ~error /\ hand # Empty
    BY <1>2 DEF WriteFrame, IInv, ThreadState
  <2>2. hand = accepted[Len(written) + 1]
    BY <2>1 DEF IInv, NothingVanishes
  <2>3. Len(written) < Len(accepted)
    <3>1. Held = 1  BY <2>1 DEF Held
    <3>2. Len(written) \in Nat /\ Len(queue) \in Nat
      BY DEF IInv, TypeOK
    <3>3. Waiting \in Nat  BY <3>2 DEF Waiting, HasStop, IInv, TypeOK
    <3> QED BY <3>1, <3>2, <3>3 DEF IInv, NothingVanishes
  <2>4. Log!Commit
    BY <1>2, <2>1, <2>2, <2>3 DEF WriteFrame, Log!Commit
  <2> QED BY <2>4
<1>3. CASE WriteFails
  <2>1. ~error  BY <1>3 DEF WriteFails, IInv, ThreadState
  <2>2. Log!Break  BY <1>3, <2>1 DEF WriteFails, Log!Break
  <2> QED BY <2>2
<1>4. CASE CloseWriterRaises
  <2>1. Log!CloseRaises
    BY <1>4 DEF CloseWriterRaises, Log!CloseRaises, IInv, CallerState
  <2> QED BY <2>1
<1>5. CASE Report
  <2>1. outcome = "none" /\ (gaveUp \/ thread = "dead")
    BY <1>5 DEF Report, IInv, CallerState, JoinState
  <2>2. CASE error
    <3>1. Log!CloseRaises
      BY <1>5, <2>1, <2>2 DEF Report, Log!CloseRaises
    <3> QED BY <3>1
  <2>3. CASE ~error /\ ~gaveUp
    <3>1. Log!CloseOk
      BY <1>5, <2>1, <2>3, Drained DEF Report, Log!CloseOk
    <3> QED BY <3>1
  <2>4. CASE ~error /\ gaveUp
    <3>1. Log!CloseGivesUp
      BY <1>5, <2>1, <2>4 DEF Report, Log!CloseGivesUp
    <3> QED BY <3>1
  <2> QED BY <2>2, <2>3, <2>4
<1>6. CASE JoinTimesOut
  <2>1. outcome = "none" /\ outcome' = "none"
    BY <1>6 DEF JoinTimesOut, IInv, CallerState
  <2> QED BY <1>6, <2>1 DEF JoinTimesOut
<1>7. CASE ~(Put \/ WriteFrame \/ WriteFails \/ CloseWriterRaises \/ Report
             \/ JoinTimesOut)
  <2>1. UNCHANGED <<accepted, written, error, outcome, gaveUp>>
    BY <1>7 DEF Next, Write, Close, Run, Finished, WriteRaises, WriteBegins,
       Measure, Overrun, CloseBegins, PutSentinel, Joined, CloseWriter,
       GetFrame, GetStop, vars
  <2> QED BY <2>1
<1> QED BY <1>1, <1>2, <1>3, <1>4, <1>5, <1>6, <1>7

\* AsyncWriter implements FrameLog, whatever the disk does.
THEOREM Implements == Spec => ImplementsLog
<1>1. IInv /\ [Next]_vars => [Log!LogNext]_Log!logVars
  BY LogStep
<1> QED BY LogInitially, Invariance, <1>1, PTL
        DEF Spec, ImplementsLog, Log!LogSpec

\* What a caller may rely on: unless the join gave up, close() that returns
\* has written everything.
THEOREM NoSilentLoss == Spec => [](~gaveUp => CloseTellsLoss)
<1> DEFINE I == IInv /\ (~gaveUp => CloseTellsLoss)
<1>1. Init => I  BY InitIInv DEF Init, CloseTellsLoss
<1>2. I /\ [Next]_vars => I'
  <2> SUFFICES ASSUME I, [Next]_vars, ~gaveUp' PROVE CloseTellsLoss'
    BY WriteStep, CloseStep, RunStep, StutterStep DEF Next, Finished
  <2> USE DEF callerVars, threadVars, history
  <2>g. ~gaveUp
    BY DEF Next, Write, Close, Run, Finished, WriteRaises, WriteBegins, Measure,
       Put, Overrun, CloseBegins, PutSentinel, Joined, JoinTimesOut,
       CloseWriter, CloseWriterRaises, Report, GetFrame, GetStop, WriteFrame,
       WriteFails, vars
  <2>1. CASE Report
    <3>1. thread = "dead"  BY <2>1, <2>g DEF Report, IInv, JoinState
    <3> QED BY <2>1, <3>1, Drained DEF Report, CloseTellsLoss
  <2>2. CASE outcome # "none" /\ ~Report
    <3>1. thread = "dead" /\ caller = "closed"
      BY <2>2, <2>g DEF IInv, CallerState, JoinState, TypeOK, CallerStates
    <3>2. UNCHANGED <<accepted, written, outcome>>
      BY <2>2, <3>1 DEF Next, Write, Close, Run, Finished, WriteRaises,
         WriteBegins, Measure, Put, Overrun, CloseBegins, PutSentinel,
         Joined, JoinTimesOut, CloseWriter, CloseWriterRaises, GetFrame,
         GetStop, WriteFrame, WriteFails, vars
    <3> QED BY <3>2, <2>g DEF CloseTellsLoss
  <2>3. CASE outcome = "none" /\ ~Report
    <3>1. outcome' # "ok"
      BY <2>3 DEF Next, Write, Close, Run, Finished, WriteRaises,
         WriteBegins, Measure, Put, Overrun, CloseBegins, PutSentinel,
         Joined, JoinTimesOut, CloseWriter, CloseWriterRaises, GetFrame,
         GetStop, WriteFrame, WriteFails, vars
    <3> QED BY <3>1 DEF CloseTellsLoss
  <2> QED BY <2>1, <2>2, <2>3
<1> QED BY <1>1, <1>2, PTL DEF Spec

\* Unless the join gave up, the end of close() is the end.
THEOREM FinalClose == Spec => []CloseIsFinal
BY Quiet, NoSilentLoss, PTL DEF CloseIsFinal
=============================================================================
