------------------------- MODULE VideoSourceProofs --------------------------
(***************************************************************************)
(* The buffers, the payload and the patience of a capture loop, for any    *)
(* number of buffers, frames and streams, any timeout and any patience;    *)
(* and, in the second part, the exactness of its drop counter.             *)
(***************************************************************************)
EXTENDS VideoSource, FiniteSetTheorems, TLAPS

NoRepeats(s) == \A i, j \in DOMAIN s : s[i] = s[j] => i = j

\* A buffer is in one place only, and the reader's hand is where the step
\* under way says it is.
OnePlace ==
    /\ NoRepeats(incoming) /\ NoRepeats(outgoing)
    /\ Members(incoming) \cap Members(outgoing) = {}
    /\ held \notin Members(incoming) \cup Members(outgoing)

HandState ==
    /\ pc \in {"closed", "select", "dequeue"} => held = NoBuffer
    /\ pc \in {"copy", "requeue"} => held # NoBuffer

\* What was filled holds a frame, and the one in hand still holds its own.
MemoryState ==
    /\ \A b \in Members(outgoing) : memory[b] \in Nat
    /\ pc = "copy" => memory[held] = got

\* waited runs behind quiet by the time it took to notice, one timeout at
\* most; it is tested at the end of each read that had nothing, so at select
\* it has not reached the patience.
WaitState ==
    /\ waited = NotWaiting =>
          quiet < Timeout /\ (pc = "select" => quiet = 0)
    /\ waited # NotWaiting =>
          /\ waited <= quiet /\ quiet <= waited + Timeout
          /\ waited < Patience + Timeout
          /\ pc = "select" => waited < Patience
    /\ raised = "NoSignal" => waited # NotWaiting /\ waited >= Patience

\* An exception is the end of the loop; the one of QBUF means an unplug.
EndState ==
    /\ pc \in {"select", "dequeue", "copy", "requeue"} => raised = "none"
    /\ raised = "OSError" => ~plugged

IInv == TypeOK /\ BuffersConserved /\ OnePlace /\ HandState /\ MemoryState
          /\ FrameMatchesItsSeq /\ WaitState /\ EndState /\ FramesAreReturned

-----------------------------------------------------------------------------
(* Queues of buffers.                                                      *)

LEMMA Dequeued ==
    ASSUME NEW S, NEW s \in Seq(S), s # <<>>
    PROVE  /\ Head(s) \in S /\ Tail(s) \in Seq(S)
           /\ Len(Tail(s)) = Len(s) - 1
           /\ Members(s) = Members(Tail(s)) \cup {Head(s)}
           /\ NoRepeats(s) => NoRepeats(Tail(s)) /\ Head(s) \notin Members(Tail(s))
<1>1. /\ Len(s) \in Nat \ {0} /\ Head(s) = s[1] /\ Head(s) \in S /\ Tail(s) \in Seq(S)
      /\ Len(Tail(s)) = Len(s) - 1
      /\ \A i \in 1..Len(s) - 1 : Tail(s)[i] = s[i + 1]
  OBVIOUS
<1>2. DOMAIN s = 1..Len(s) /\ DOMAIN Tail(s) = 1..Len(s) - 1
  BY <1>1
<1>3. Members(s) = Members(Tail(s)) \cup {Head(s)}
  <2>1. ASSUME NEW i \in DOMAIN s PROVE s[i] \in Members(Tail(s)) \cup {Head(s)}
    <3>1. CASE i = 1
      BY <1>1, <3>1
    <3>2. CASE i # 1
      <4>1. i - 1 \in DOMAIN Tail(s) /\ Tail(s)[i - 1] = s[i]
        BY <1>1, <1>2, <3>2
      <4> QED  BY <4>1 DEF Members
    <3> QED  BY <3>1, <3>2
  <2>2. ASSUME NEW i \in DOMAIN Tail(s) PROVE Tail(s)[i] \in Members(s)
    <3>1. i + 1 \in DOMAIN s /\ Tail(s)[i] = s[i + 1]
      BY <1>1, <1>2
    <3> QED  BY <3>1 DEF Members
  <2>3. Head(s) \in Members(s)
    BY <1>1, <1>2 DEF Members
  <2> QED  BY <2>1, <2>2, <2>3 DEF Members
<1>4. ASSUME NoRepeats(s) PROVE NoRepeats(Tail(s)) /\ Head(s) \notin Members(Tail(s))
  BY <1>1, <1>2, <1>4 DEF NoRepeats, Members
<1> QED  BY <1>1, <1>3, <1>4

LEMMA Enqueued ==
    ASSUME NEW S, NEW s \in Seq(S), NEW x \in S
    PROVE  /\ Append(s, x) \in Seq(S)
           /\ Len(Append(s, x)) = Len(s) + 1
           /\ Members(Append(s, x)) = Members(s) \cup {x}
           /\ NoRepeats(s) /\ x \notin Members(s) => NoRepeats(Append(s, x))
<1>1. /\ Len(s) \in Nat /\ Append(s, x) \in Seq(S) /\ Len(Append(s, x)) = Len(s) + 1
      /\ Append(s, x)[Len(s) + 1] = x
      /\ \A i \in 1..Len(s) : Append(s, x)[i] = s[i]
  OBVIOUS
<1>2. DOMAIN s = 1..Len(s) /\ DOMAIN Append(s, x) = 1..Len(s) + 1
  BY <1>1
<1>3. Members(Append(s, x)) = Members(s) \cup {x}
  <2>1. ASSUME NEW i \in DOMAIN Append(s, x)
        PROVE  Append(s, x)[i] \in Members(s) \cup {x}
    <3>1. CASE i = Len(s) + 1
      BY <1>1, <3>1
    <3>2. CASE i \in 1..Len(s)
      BY <1>1, <1>2, <3>2 DEF Members
    <3> QED  BY <1>1, <1>2, <3>1, <3>2
  <2>2. ASSUME NEW i \in DOMAIN s PROVE s[i] \in Members(Append(s, x))
    <3>1. i \in DOMAIN Append(s, x) /\ Append(s, x)[i] = s[i]
      BY <1>1, <1>2
    <3> QED  BY <3>1 DEF Members
  <2>3. x \in Members(Append(s, x))
    BY <1>1, <1>2 DEF Members
  <2> QED  BY <2>1, <2>2, <2>3 DEF Members
<1>4. ASSUME NoRepeats(s), x \notin Members(s) PROVE NoRepeats(Append(s, x))
  BY <1>1, <1>2, <1>4 DEF NoRepeats, Members
<1> QED  BY <1>1, <1>3, <1>4

\* The driver's queues of a stream just opened.
LEMMA Granted ==
    ASSUME NEW n \in Buffers
    PROVE  LET q == [i \in 1..n |-> i] IN
           /\ q \in Seq(Buffers) /\ Len(q) = n
           /\ Members(q) = 1..n /\ NoRepeats(q)
  BY RequestedAssumption DEF Buffers, Members, NoRepeats

LEMMA NothingQueued ==
    /\ <<>> \in Seq(Buffers) /\ Len(<<>>) = 0
    /\ Members(<<>>) = {} /\ NoRepeats(<<>>)
  BY DEF Members, NoRepeats

-----------------------------------------------------------------------------
LEMMA InitIInv == Init => IInv
<1> SUFFICES ASSUME Init PROVE IInv
  OBVIOUS
<1>1. TypeOK
  BY RequestedAssumption DEF Init, TypeOK, Buffers, Frame
<1>2. BuffersConserved /\ OnePlace /\ HandState /\ MemoryState
  BY NothingQueued DEF Init, BuffersConserved, OnePlace, HandState, MemoryState
<1>3. FrameMatchesItsSeq /\ WaitState /\ EndState /\ FramesAreReturned
  BY TimesAssumption
  DEF Init, FrameMatchesItsSeq, WaitState, EndState, FramesAreReturned, NotWaiting
<1> QED  BY <1>1, <1>2, <1>3 DEF IInv

\* Steps that move no buffer.
BuffersStay ==
    \/ OpenFails \/ SelectTimesOut \/ SelectReady \/ DequeueNothing \/ DequeueFails
    \/ Copy \/ RequeueGone \/ Unplug \/ Drop \/ UNCHANGED vars

LEMMA NextCases ==
    [Next]_vars => BuffersStay \/ Open \/ Close \/ Dequeue \/ Requeue \/ Fill
  BY DEF Next, Read, BuffersStay

\* What such a step does to the state the other conjuncts speak of.
LEMMA StayFacts ==
    ASSUME TypeOK, HandState, BuffersStay
    PROVE  /\ UNCHANGED <<incoming, outgoing, memory, held, got>>
           /\ nBuffers' = nBuffers \/ (pc = "closed" /\ nBuffers' \in 1..nBuffers)
           /\ pc = "closed" <=> pc' = "closed"
           /\ pc' \in {"closed", "select", "dequeue"} =>
                 pc \in {"closed", "select", "dequeue"}
           /\ pc' \in {"copy", "requeue"} => pc \in {"copy", "requeue"}
           /\ pc' = "copy" => pc = "copy"
<1>1. CASE OpenFails
  BY <1>1 DEF OpenFails, driverVars
<1>2. CASE SelectTimesOut \/ SelectReady \/ DequeueNothing \/ DequeueFails \/ RequeueGone
  BY <1>2 DEF SelectTimesOut, SelectReady, DequeueNothing, DequeueFails, RequeueGone,
              NothingFor, Stop, bufferVars, driverVars
<1>3. CASE Copy
  BY <1>3 DEF Copy, bufferVars, driverVars
<1>4. CASE Unplug \/ Drop \/ UNCHANGED vars
  BY <1>4 DEF Unplug, Drop, vars, readerVars, bufferVars, driverVars
<1> QED  BY <1>1, <1>2, <1>3, <1>4 DEF BuffersStay

LEMMA BuffersKeep ==
    IInv /\ [Next]_vars => BuffersConserved' /\ OnePlace' /\ HandState'
<1> SUFFICES ASSUME IInv, [Next]_vars
             PROVE  BuffersConserved' /\ OnePlace' /\ HandState'
  OBVIOUS
<1>t. /\ incoming \in Seq(Buffers) /\ outgoing \in Seq(Buffers)
      /\ Len(incoming) \in Nat /\ Len(outgoing) \in Nat
      /\ nBuffers \in Nat \ {0} /\ nBuffers \in Buffers
      /\ Members(incoming) \subseteq Buffers /\ Members(outgoing) \subseteq Buffers
      /\ NoBuffer \notin Buffers
  BY SMTT(30), RequestedAssumption DEF IInv, TypeOK, Members, Buffers, NoBuffer
<1>1. CASE BuffersStay
  BY <1>1, StayFacts DEF IInv, BuffersConserved, OnePlace, HandState
<1>2. CASE Open
  <2>1. PICK n \in 1..nBuffers :
            /\ nBuffers' = n /\ incoming' = [i \in 1..n |-> i] /\ outgoing' = <<>>
            /\ held' = NoBuffer /\ pc' = "select"
    BY <1>2 DEF Open
  <2> DEFINE q == [i \in 1..n |-> i]
  <2>2. n \in Nat /\ n \in Buffers /\ NoBuffer \notin 1..n
    BY <1>t, RequestedAssumption DEF Buffers, NoBuffer
  <2>3. Len(q) = n /\ Members(q) = 1..n /\ NoRepeats(q)
    BY <2>2, Granted
  <2>4. incoming' = q
    BY <2>1
  <2> HIDE DEF q
  <2>5. BuffersConserved'
    BY <2>1, <2>2, <2>3, <2>4, NothingQueued DEF BuffersConserved
  <2>6. OnePlace'
    BY <2>1, <2>2, <2>3, <2>4, NothingQueued DEF OnePlace
  <2> QED  BY <2>1, <2>5, <2>6 DEF HandState
<1>3. CASE Close
  BY <1>3, NothingQueued DEF Close, BuffersConserved, OnePlace, HandState
<1>4. CASE Dequeue
  <2>1. /\ pc = "dequeue" /\ pc' = "copy" /\ held = NoBuffer
        /\ outgoing # <<>> /\ held' = Head(outgoing) /\ outgoing' = Tail(outgoing)
        /\ UNCHANGED <<incoming, nBuffers>>
    BY <1>4 DEF Dequeue, GiveBack, IInv, HandState
  <2>2. /\ Head(outgoing) \in Buffers /\ Len(outgoing') = Len(outgoing) - 1
        /\ Members(outgoing) = Members(outgoing') \cup {held'}
        /\ NoRepeats(outgoing') /\ held' \notin Members(outgoing')
    BY <1>t, <2>1, Dequeued DEF IInv, OnePlace
  <2>3. held' # NoBuffer
    BY <1>t, <2>1, <2>2
  <2>4. BuffersConserved'
    BY <1>t, <2>1, <2>2, <2>3 DEF IInv, BuffersConserved
  <2>5. OnePlace'
    BY <2>1, <2>2 DEF IInv, OnePlace
  <2> QED  BY <2>1, <2>3, <2>4, <2>5 DEF HandState
<1>5. CASE Requeue
  <2>1. /\ pc = "requeue" /\ pc' = "select" /\ held # NoBuffer /\ held \in Buffers
        /\ incoming' = Append(incoming, held) /\ held' = NoBuffer
        /\ UNCHANGED <<outgoing, nBuffers>>
    BY <1>5 DEF Requeue, Queue, IInv, HandState, TypeOK
  <2>2. /\ Len(incoming') = Len(incoming) + 1
        /\ Members(incoming') = Members(incoming) \cup {held}
        /\ NoRepeats(incoming')
    BY <1>t, <2>1, Enqueued DEF IInv, OnePlace
  <2>4. BuffersConserved'
    BY <1>t, <2>1, <2>2 DEF IInv, BuffersConserved
  <2>5. OnePlace'
    BY <1>t, <2>1, <2>2 DEF IInv, OnePlace
  <2> QED  BY <2>1, <2>4, <2>5 DEF HandState
<1>6. CASE Fill
  <2>1. /\ incoming # <<>> /\ incoming' = Tail(incoming)
        /\ outgoing' = Append(outgoing, Head(incoming))
        /\ UNCHANGED <<pc, nBuffers, held>>
    BY <1>6 DEF Fill, readerVars, bufferVars
  <2>2. /\ Head(incoming) \in Buffers /\ Len(incoming') = Len(incoming) - 1
        /\ Members(incoming) = Members(incoming') \cup {Head(incoming)}
        /\ NoRepeats(incoming') /\ Head(incoming) \notin Members(incoming')
    BY <1>t, <2>1, Dequeued DEF IInv, OnePlace
  <2>3. Head(incoming) \notin Members(outgoing) /\ Head(incoming) # held
    BY <2>2 DEF IInv, OnePlace
  <2>4. /\ Len(outgoing') = Len(outgoing) + 1
        /\ Members(outgoing') = Members(outgoing) \cup {Head(incoming)}
        /\ NoRepeats(outgoing')
    BY <1>t, <2>1, <2>2, <2>3, Enqueued DEF IInv, OnePlace
  <2>5. BuffersConserved'
    <3>1. pc # "closed"
      BY <1>6 DEF Fill, Streaming
    <3>2. Len(incoming') + Len(outgoing') = Len(incoming) + Len(outgoing)
      BY <1>t, <2>2, <2>4
    <3>3. Members(incoming') \cup Members(outgoing') = Members(incoming) \cup Members(outgoing)
      BY <2>2, <2>4
    <3> QED  BY <1>t, <2>1, <2>2, <2>4, <3>1, <3>2, <3>3 DEF IInv, BuffersConserved
  <2>6. OnePlace'
    BY <2>1, <2>2, <2>3, <2>4 DEF IInv, OnePlace
  <2> QED  BY <2>1, <2>5, <2>6 DEF IInv, HandState
<1> QED  BY <1>1, <1>2, <1>3, <1>4, <1>5, <1>6, NextCases

\* Members of a queue are buffers.
LEMMA MembersType ==
    ASSUME TypeOK
    PROVE  Members(incoming) \subseteq Buffers /\ Members(outgoing) \subseteq Buffers
  BY DEF TypeOK, Members

LEMMA TypeKeeps == IInv /\ [Next]_vars => TypeOK'
<1> SUFFICES ASSUME IInv, [Next]_vars PROVE TypeOK'
  OBVIOUS
<1>t. TypeOK /\ HandState /\ MemoryState
  BY DEF IInv
<1>1. CASE Open
  <2>1. /\ nBuffers' \in Buffers
        /\ incoming' = [i \in 1..nBuffers' |-> i]
    BY <1>1, <1>t, RequestedAssumption DEF Open, Buffers, TypeOK
  <2>2. incoming' \in Seq(Buffers)
    BY <2>1, Granted
  <2> QED  BY <1>1, <1>t, <2>1, <2>2, NothingQueued DEF Open, TypeOK, countVars
<1>2. CASE OpenFails
  <2>1. nBuffers' \in Buffers
    BY <1>2, <1>t, RequestedAssumption DEF OpenFails, Buffers, TypeOK
  <2> QED  BY <1>2, <1>t, <2>1 DEF OpenFails, TypeOK, countVars, timeVars, driverVars
<1>3. CASE Close
  BY <1>3, <1>t, NothingQueued DEF Close, TypeOK, countVars, timeVars
<1>4. CASE SelectTimesOut \/ DequeueNothing
  <2>1. /\ UNCHANGED <<returned, stream, bufferVars, countVars, driverVars>>
        /\ NothingFor(Timeout) \/ NothingFor(0)
    BY <1>4 DEF SelectTimesOut, DequeueNothing
  <2>2. /\ quiet' \in Nat /\ waited' \in Nat
        /\ pc' \in {"select", "stopped"} /\ raised' \in {raised, "NoSignal"}
    BY SMTT(30), <1>t, <2>1, TimesAssumption DEF NothingFor, Stop, TypeOK, NotWaiting
  <2> QED  BY <1>t, <2>1, <2>2 DEF TypeOK, bufferVars, countVars, driverVars
<1>5. CASE SelectReady
  <2>1. /\ UNCHANGED <<raised, returned, stream, bufferVars, countVars, driverVars>>
        /\ pc' = "dequeue" /\ quiet' \in Nat /\ waited' \in Nat \cup {NotWaiting}
    BY <1>5, <1>t, TimesAssumption DEF SelectReady, Later, TypeOK, NotWaiting
  <2> QED  BY <1>t, <2>1 DEF TypeOK, bufferVars, countVars, driverVars
<1>6. CASE Dequeue
  <2>1. /\ held' \in Buffers /\ outgoing' \in Seq(Buffers) /\ held' \in Members(outgoing)
        /\ got' = memory[held']
    BY <1>6, <1>t, Dequeued DEF Dequeue, TypeOK
  <2>2. got' \in Nat
    BY <1>t, <2>1 DEF MemoryState
  <2> QED  BY <1>6, <1>t, <2>1, <2>2 DEF Dequeue, GiveBack, TypeOK, countVars, timeVars
<1>7. CASE DequeueFails \/ RequeueGone
  BY <1>7, <1>t
  DEF DequeueFails, RequeueGone, Stop, TypeOK, bufferVars, countVars, timeVars, driverVars
<1>8. CASE Copy
  <2>1. /\ pc' = "requeue" /\ lastSeq' = got
        /\ UNCHANGED <<raised, returned, stream, timeVars, bufferVars, driverVars>>
    BY <1>8 DEF Copy
  <2>2. Dropped \in Nat
    BY <1>t DEF Dropped, TypeOK, NoSeq
  <2>3. stats' \in [yielded : Nat, dropped : Nat, errors : Nat, corrupt : Nat]
    <3>1. /\ stats.yielded + 1 \in Nat /\ stats.dropped + Dropped \in Nat
          /\ stats.errors + (IF got \in ErrorSeqs THEN 1 ELSE 0) \in Nat
          /\ stats.corrupt + (IF got \in TornSeqs THEN 1 ELSE 0) \in Nat
      BY SMTT(30), <1>t, <2>2 DEF TypeOK
    <3> QED  BY <1>8, <3>1 DEF Copy
  <2>4. [stream |-> stream, seq |-> got, data |-> memory[held],
         dropped |-> Dropped, flags |-> Flags] \in Frame
    <3>1. held \in Buffers
      BY <1>8, <1>t DEF Copy, HandState, TypeOK
    <3>2. memory[held] \in Int
      BY <1>t, <3>1 DEF TypeOK, NoSeq
    <3>3. Flags \in SUBSET {"driver_error", "corrupt", "gap_before"}
      BY DEF Flags
    <3> QED  BY <1>t, <2>2, <3>2, <3>3 DEF TypeOK, Frame
  <2>5. counted' \in Seq(Frame)
    BY <1>8, <1>t, <2>4 DEF Copy, TypeOK
  <2> QED  BY <1>t, <2>1, <2>3, <2>5 DEF TypeOK, bufferVars, timeVars, driverVars
<1>9. CASE Requeue
  <2>1. incoming' \in Seq(Buffers)
    BY <1>9, <1>t, Enqueued DEF Requeue, Queue, HandState, TypeOK
  <2> QED  BY <1>9, <1>t, <2>1 DEF Requeue, Yield, TypeOK, countVars
<1>10. CASE Fill
  <2>1. /\ Head(incoming) \in Buffers /\ incoming' \in Seq(Buffers)
        /\ outgoing' \in Seq(Buffers)
    BY <1>10, <1>t, Dequeued, Enqueued DEF Fill, TypeOK
  <2>2. memory' \in [Buffers -> Nat \cup {NoSeq}] /\ produced' \in Nat
    BY <1>10, <1>t, <2>1 DEF Fill, TypeOK
  <2> QED  BY <1>10, <1>t, <2>1, <2>2
           DEF Fill, TypeOK, readerVars, timeVars, bufferVars, countVars
<1>11. CASE Drop
  <2>1. lost' \subseteq Nat \X Nat /\ produced' \in Nat
    BY <1>11, <1>t DEF Drop, TypeOK
  <2> QED  BY <1>11, <1>t, <2>1 DEF Drop, TypeOK, readerVars, timeVars, bufferVars, countVars
<1>12. CASE Unplug \/ UNCHANGED vars
  BY <1>12, <1>t
  DEF Unplug, TypeOK, vars, readerVars, timeVars, bufferVars, countVars, driverVars
<1> QED  BY <1>1, <1>2, <1>3, <1>4, <1>5, <1>6, <1>7, <1>8, <1>9, <1>10, <1>11, <1>12
         DEF Next, Read

\* The copy is made while the buffer is in hand, and out of the driver's reach.
LEMMA MemoryKeeps == IInv /\ [Next]_vars => MemoryState' /\ FrameMatchesItsSeq'
<1> SUFFICES ASSUME IInv, [Next]_vars PROVE MemoryState' /\ FrameMatchesItsSeq'
  OBVIOUS
<1>t. TypeOK /\ HandState /\ MemoryState /\ OnePlace /\ FrameMatchesItsSeq
  BY DEF IInv
<1>1. CASE BuffersStay
  <2>1. MemoryState'
    BY <1>1, <1>t, StayFacts DEF MemoryState
  <2>2. CASE Copy
    <3> DEFINE f == [stream |-> stream, seq |-> got, data |-> memory[held],
                     dropped |-> Dropped, flags |-> Flags]
    <3>1. counted' = Append(counted, f) /\ f.data = f.seq
      BY <1>t, <2>2 DEF Copy, MemoryState
    <3> HIDE DEF f
    <3>2. \A k \in 1..Len(counted') : counted'[k].data = counted'[k].seq
      BY <1>t, <3>1 DEF TypeOK, FrameMatchesItsSeq
    <3> QED  BY <2>1, <3>2 DEF FrameMatchesItsSeq
  <2>3. CASE UNCHANGED counted
    BY <1>t, <2>1, <2>3 DEF FrameMatchesItsSeq
  <2> QED  BY <1>1, <2>2, <2>3
           DEF BuffersStay, OpenFails, SelectTimesOut, SelectReady, DequeueNothing,
               DequeueFails, RequeueGone, Unplug, Drop, vars, readerVars, countVars
<1>2. CASE Open \/ Close
  <2>1. outgoing' = <<>> /\ pc' # "copy" /\ UNCHANGED counted
    BY <1>2 DEF Open, Close, countVars
  <2> QED  BY <1>t, <2>1, NothingQueued DEF MemoryState, FrameMatchesItsSeq
<1>3. CASE Dequeue
  <2>1. /\ held' = Head(outgoing) /\ got' = memory[held'] /\ outgoing' = Tail(outgoing)
        /\ UNCHANGED <<memory, counted>>
    BY <1>3 DEF Dequeue, countVars
  <2>2. Members(outgoing') \subseteq Members(outgoing)
    BY <1>3, <1>t, <2>1, Dequeued DEF Dequeue, TypeOK
  <2> QED  BY <1>t, <2>1, <2>2 DEF MemoryState, FrameMatchesItsSeq
<1>4. CASE Requeue
  BY <1>4, <1>t DEF Requeue, countVars, MemoryState, FrameMatchesItsSeq
<1>5. CASE Fill
  <2>1. /\ incoming # <<>> /\ memory' = [memory EXCEPT ![Head(incoming)] = produced]
        /\ outgoing' = Append(outgoing, Head(incoming))
        /\ UNCHANGED <<pc, held, got, counted>>
    BY <1>5 DEF Fill, readerVars, bufferVars, countVars
  <2>2. /\ Head(incoming) \in Buffers /\ Head(incoming) # held
        /\ Members(outgoing') = Members(outgoing) \cup {Head(incoming)}
    <3>1. Head(incoming) \in Buffers /\ Head(incoming) \in Members(incoming)
      BY <1>t, <2>1, Dequeued DEF TypeOK
    <3>2. Members(outgoing') = Members(outgoing) \cup {Head(incoming)}
      BY <1>t, <2>1, <3>1, Enqueued DEF TypeOK
    <3> QED  BY <1>t, <3>1, <3>2 DEF OnePlace
  <2>3. MemoryState'
    <3>1. \A b \in Members(outgoing') : memory'[b] \in Nat
      BY <1>t, <2>1, <2>2, MembersType DEF MemoryState, TypeOK
    <3>2. pc = "copy" => memory'[held] = got
      BY <1>t, <2>1, <2>2 DEF MemoryState, HandState, TypeOK
    <3> QED  BY <2>1, <3>1, <3>2 DEF MemoryState
  <2> QED  BY <1>t, <2>1, <2>3 DEF FrameMatchesItsSeq
<1> QED  BY <1>1, <1>2, <1>3, <1>4, <1>5, NextCases

\* How long it has been waited, what ended the loop, and what was returned.
LEMMA WaitKeeps ==
    IInv /\ [Next]_vars => WaitState' /\ EndState' /\ FramesAreReturned'
<1> SUFFICES ASSUME IInv, [Next]_vars
             PROVE  WaitState' /\ EndState' /\ FramesAreReturned'
  OBVIOUS
<1>t. /\ WaitState /\ EndState /\ FramesAreReturned
      /\ quiet \in Nat /\ waited \in Nat \cup {-1} /\ NotWaiting = -1
      /\ Timeout \in Nat \ {0} /\ Patience \in Nat
      /\ stats.yielded \in Nat /\ returned \in Nat
  BY TimesAssumption DEF IInv, TypeOK, NotWaiting
<1>1. CASE Open
  <2>1. /\ waited' = -1 /\ quiet' = 0 /\ raised' = "none" /\ pc' = "select"
        /\ pc = "closed" /\ raised # "OSError" /\ UNCHANGED <<plugged, stats, returned>>
    BY <1>1, <1>t DEF Open, countVars, NotWaiting, EndState
  <2> QED  BY <1>t, <2>1 DEF WaitState, EndState, FramesAreReturned
<1>2. CASE OpenFails \/ Close
  <2>1. /\ UNCHANGED <<waited, quiet, raised, plugged, stats, returned>>
        /\ pc' = "closed" /\ pc # "requeue"
    BY <1>2 DEF OpenFails, Close, countVars, driverVars, timeVars
  <2> QED  BY <1>t, <2>1 DEF WaitState, EndState, FramesAreReturned
<1>3. CASE SelectTimesOut \/ DequeueNothing
  <2>1. PICK time \in {0, Timeout} :
            /\ NothingFor(time)
            /\ time = Timeout => pc = "select"
            /\ time = 0 => pc = "dequeue"
    BY <1>3, <1>t DEF SelectTimesOut, DequeueNothing
  <2>2. UNCHANGED <<plugged, stats, returned>> /\ raised = "none"
    BY <1>3, <1>t DEF SelectTimesOut, DequeueNothing, driverVars, countVars, EndState
  <2>3. /\ quiet' = quiet + time
        /\ waited' = IF waited = -1 THEN 0 ELSE waited + time
        /\ IF waited' >= Patience THEN raised' = "NoSignal" /\ pc' = "stopped"
                                  ELSE pc' = "select" /\ raised' = raised
    BY <2>1 DEF NothingFor, Stop, NotWaiting
  <2>4. WaitState'
    <3>1. CASE waited = -1
      BY <1>t, <2>1, <2>2, <2>3, <3>1 DEF WaitState
    <3>2. CASE waited # -1
      BY <1>t, <2>1, <2>2, <2>3, <3>2 DEF WaitState
    <3> QED  BY <3>1, <3>2
  <2>5. EndState' /\ FramesAreReturned'
    BY <1>t, <2>1, <2>2, <2>3 DEF EndState, FramesAreReturned
  <2> QED  BY <2>4, <2>5
<1>4. CASE SelectReady
  <2>1. PICK time \in 0..(Timeout - 1) : Later(time)
    BY <1>4 DEF SelectReady
  <2>2. /\ pc = "select" /\ pc' = "dequeue" /\ raised = "none"
        /\ UNCHANGED <<raised, plugged, stats, returned>>
    BY <1>4, <1>t DEF SelectReady, driverVars, countVars, EndState
  <2> QED  BY <1>t, <2>1, <2>2 DEF Later, WaitState, EndState, FramesAreReturned
<1>5. CASE Dequeue
  BY <1>5, <1>t
  DEF Dequeue, countVars, timeVars, WaitState, EndState, FramesAreReturned
<1>6. CASE DequeueFails \/ RequeueGone
  <2>1. /\ UNCHANGED <<waited, quiet, plugged, stats, returned>> /\ pc' = "stopped"
        /\ raised = "none"
        /\ \/ pc = "dequeue" /\ raised' \in {"StreamError", "DequeueError"}
           \/ pc = "requeue" /\ raised' = "OSError" /\ ~plugged
    BY <1>6, <1>t DEF DequeueFails, RequeueGone, Stop, countVars, driverVars, timeVars, EndState
  <2> QED  BY <1>t, <2>1 DEF WaitState, EndState, FramesAreReturned
<1>7. CASE Copy
  <2>1. /\ UNCHANGED <<raised, returned, waited, quiet, plugged>>
        /\ stats'.yielded = stats.yielded + 1 /\ pc = "copy" /\ pc' = "requeue"
    BY <1>7 DEF Copy, timeVars, driverVars
  <2> QED  BY <1>t, <2>1 DEF WaitState, EndState, FramesAreReturned
<1>8. CASE Requeue
  <2>1. /\ UNCHANGED <<raised, stats, plugged>> /\ returned' = returned + 1
        /\ quiet' = 0 /\ waited' = -1 /\ pc = "requeue" /\ pc' = "select"
        /\ raised = "none"
    BY <1>8, <1>t DEF Requeue, Yield, countVars, NotWaiting, EndState
  <2> QED  BY <1>t, <2>1 DEF WaitState, EndState, FramesAreReturned
<1>9. CASE Fill \/ Drop \/ Unplug \/ UNCHANGED vars
  <2>1. /\ UNCHANGED <<pc, raised, returned, waited, quiet, stats>>
        /\ plugged' = plugged \/ ~plugged'
    BY <1>9 DEF Fill, Drop, Unplug, vars, readerVars, timeVars, countVars, driverVars
  <2> QED  BY <1>t, <2>1 DEF WaitState, EndState, FramesAreReturned
<1> QED  BY <1>1, <1>2, <1>3, <1>4, <1>5, <1>6, <1>7, <1>8, <1>9 DEF Next, Read

LEMMA Invariance == Spec => []IInv
<1>1. IInv /\ [Next]_vars => IInv'
  BY TypeKeeps, BuffersKeep, MemoryKeeps, WaitKeeps DEF IInv
<1> QED  BY InitIInv, <1>1, PTL DEF Spec

-----------------------------------------------------------------------------
(* Theorems.                                                               *)

\* Every variable keeps its type.
THEOREM TypeCorrect == Spec => []TypeOK
<1>1. IInv => TypeOK
  BY DEF IInv
<1> QED  BY <1>1, Invariance, PTL

\* No buffer is leaked and none is in two places, whatever frames are flagged
\* or torn and whenever the device is unplugged or the stream reopened.
THEOREM NoBufferLeaks == Spec => []BuffersConserved
<1>1. IInv => BuffersConserved
  BY DEF IInv
<1> QED  BY <1>1, Invariance, PTL

\* The bytes of every frame are those the driver numbered, however fast it
\* refills the buffers.
THEOREM PayloadIsItsOwn == Spec => []FrameMatchesItsSeq
<1>1. IInv => FrameMatchesItsSeq
  BY DEF IInv
<1> QED  BY <1>1, Invariance, PTL

\* frames() gives up after its patience, never before it and less than two
\* timeouts after it, whatever the timeout and the patience are.
THEOREM GivesUpInTime == Spec => []PatienceIsKept
<1>1. IInv => PatienceIsKept
  BY TimesAssumption DEF IInv, TypeOK, WaitState, PatienceIsKept, NotWaiting
<1> QED  BY <1>1, Invariance, PTL

\* Every frame that was counted was returned, but for one whose buffer could
\* not be given back after an unplug.
THEOREM CountedIsReturned == Spec => []FramesAreReturned
<1>1. IInv => FramesAreReturned
  BY DEF IInv
<1> QED  BY <1>1, Invariance, PTL

-----------------------------------------------------------------------------
(***************************************************************************)
(* The drop counter and the gap flags of read() are exact, for any number  *)
(* of buffers, frames and streams.                                         *)
(*                                                                         *)
(* The numbers of a stream fall into those read, those waiting and those   *)
(* lost, and the driver hands the waiting ones over in order.  So what     *)
(* lies between two numbers read one after the other is what was lost      *)
(* there; and the first number of a stream, for which the driver had all   *)
(* its buffers, is never among the lost, so that none is missed before the *)
(* first frame, where _last_seq is still that of the stream before.        *)
(***************************************************************************)
\* The first number of this stream that was not read yet.
Unread ==
    IF counted # <<>> /\ counted[Len(counted)].stream = stream THEN lastSeq + 1 ELSE 0

\* What was read: in the order of the streams, and of the numbers of this one.
CountState ==
    /\ counted # <<>> => lastSeq = counted[Len(counted)].seq
    /\ Unread <= produced
    /\ \A k \in 1..Len(counted) :
          /\ counted[k].stream <= stream
          /\ counted[k].stream = stream => counted[k].seq < Unread

\* What was lost: numbers given out, but not the first, nor the last read.
LostState ==
    /\ IsFiniteSet(lost)
    /\ \A x \in lost :
          /\ x[1] <= stream
          /\ x[1] = stream => x[2] \in 1..(produced - 1)
    /\ Unread > 0 => <<stream, lastSeq>> \notin lost

\* The number of the i-th filled buffer.
Waiting(i) == memory[outgoing[i]]

\* What is waiting, behind what is in the reader's hand: every unread number
\* that was not lost, in order.
LineState ==
    pc # "closed" =>
        /\ \A i \in 1..Len(outgoing) :
              Waiting(i) \in Unread..(produced - 1) /\ <<stream, Waiting(i)>> \notin lost
        /\ \A i, j \in 1..Len(outgoing) : i < j => Waiting(i) < Waiting(j)
        /\ pc = "copy" =>
              /\ got \in Unread..(produced - 1) /\ <<stream, got>> \notin lost
              /\ \A i \in 1..Len(outgoing) : got < Waiting(i)
        /\ \A q \in Unread..(produced - 1) :
              \/ <<stream, q>> \in lost
              \/ pc = "copy" /\ q = got
              \/ \E i \in 1..Len(outgoing) : Waiting(i) = q
        /\ pc \in {"copy", "requeue"} \/ held # NoBuffer => produced > 0

DInv == CountState /\ LostState /\ LineState

-----------------------------------------------------------------------------
LEMMA Types ==
    ASSUME TypeOK
    PROVE  /\ counted \in Seq(Frame) /\ Len(counted) \in Nat
           /\ \A k \in 1..Len(counted) :
                 /\ counted[k] \in Frame
                 /\ counted[k].stream \in Nat /\ counted[k].seq \in Nat
           /\ lastSeq \in Int /\ stream \in Nat /\ produced \in Nat /\ got \in Nat
           /\ Unread \in Int
           /\ \A x \in lost : x = <<x[1], x[2]>> /\ x[1] \in Nat /\ x[2] \in Nat
           /\ outgoing \in Seq(Buffers) /\ Len(outgoing) \in Nat
<1>1. counted \in Seq(Frame) /\ Len(counted) \in Nat
  BY DEF TypeOK
<1>2. ASSUME NEW k \in 1..Len(counted)
      PROVE  counted[k] \in Frame /\ counted[k].stream \in Nat /\ counted[k].seq \in Nat
  <2>1. counted[k] \in Frame
    BY <1>1
  <2> QED  BY <2>1 DEF Frame
<1>3. lastSeq \in Int /\ stream \in Nat /\ produced \in Nat /\ got \in Nat
  BY DEF TypeOK, NoSeq
<1>4. \A x \in lost : x = <<x[1], x[2]>> /\ x[1] \in Nat /\ x[2] \in Nat
  BY DEF TypeOK
<1>5. outgoing \in Seq(Buffers) /\ Len(outgoing) \in Nat
  BY DEF TypeOK
<1>6. Unread \in Int
  BY <1>3 DEF Unread
<1> QED  BY <1>1, <1>2, <1>3, <1>4, <1>5, <1>6

\* There is a last frame, unless none of the stream was read.
LEMMA LastRead ==
    ASSUME TypeOK, DInv
    PROVE  /\ Unread \in Nat
           /\ Unread > 0 =>
                 /\ Len(counted) \in 1..Len(counted) /\ lastSeq = Unread - 1
                 /\ counted[Len(counted)].stream = stream
                 /\ counted[Len(counted)].seq = lastSeq
<1>1. Len(counted) \in Nat /\ (counted # <<>> => Len(counted) \in 1..Len(counted))
  BY Types
<1>2. CASE counted # <<>> /\ counted[Len(counted)].stream = stream
  <2>1. Unread = lastSeq + 1 /\ lastSeq = counted[Len(counted)].seq
    BY <1>2 DEF Unread, DInv, CountState
  <2>2. lastSeq \in Nat
    BY <2>1, <1>1, <1>2, Types
  <2> QED  BY <1>1, <1>2, <2>1, <2>2
<1>3. CASE ~(counted # <<>> /\ counted[Len(counted)].stream = stream)
  BY <1>3 DEF Unread
<1> QED  BY <1>2, <1>3

LEMMA InitDInv == Init => DInv
<1> SUFFICES ASSUME Init PROVE DInv
  OBVIOUS
<1>1. pc = "closed" /\ counted = <<>> /\ lost = {} /\ produced = 0
  BY DEF Init
<1>2. Unread = 0 /\ Len(counted) = 0
  BY <1>1 DEF Unread
<1> QED  BY <1>1, <1>2, FS_EmptySet DEF DInv, CountState, LostState, LineState

-----------------------------------------------------------------------------
(* Steps that neither give out nor read a number.                          *)

Elsewhere ==
    \/ OpenFails \/ SelectTimesOut \/ SelectReady \/ DequeueNothing \/ DequeueFails
    \/ Requeue \/ RequeueGone \/ Unplug \/ UNCHANGED vars

LEMMA ElsewhereKeeps ==
    ASSUME TypeOK, DInv, Elsewhere
    PROVE  /\ DInv'
           /\ UNCHANGED <<stats, counted, lost>>
<1>1. /\ UNCHANGED <<stats, counted, lastSeq, stream, produced, lost, memory, outgoing, got>>
      /\ held' \in {held, NoBuffer}
      /\ pc' # "closed" => pc # "closed"
      /\ pc' \in {"copy", "requeue"} \/ pc = "copy" => pc' = pc
  <2>1. CASE OpenFails
    BY <2>1 DEF OpenFails, countVars, driverVars
  <2>2. CASE SelectTimesOut \/ DequeueNothing
    BY <2>2 DEF SelectTimesOut, DequeueNothing, NothingFor, Stop, countVars, driverVars, bufferVars
  <2>3. CASE SelectReady
    BY <2>3 DEF SelectReady, countVars, driverVars, bufferVars
  <2>4. CASE DequeueFails \/ RequeueGone
    BY <2>4 DEF DequeueFails, RequeueGone, Stop, countVars, driverVars, bufferVars
  <2>5. CASE Requeue
    BY <2>5 DEF Requeue, countVars
  <2>6. CASE Unplug \/ UNCHANGED vars
    BY <2>6 DEF Unplug, vars, readerVars, countVars, driverVars, bufferVars
  <2> QED  BY <2>1, <2>2, <2>3, <2>4, <2>5, <2>6 DEF Elsewhere
<1>2. Unread' = Unread
  BY <1>1 DEF Unread
<1>3. CountState' /\ LostState'
  BY <1>1, <1>2 DEF DInv, CountState, LostState
<1>4. LineState'
  <2>1. CASE pc' = "copy"
    BY <1>1, <1>2, <2>1 DEF DInv, LineState, Waiting
  <2>2. CASE pc' # "copy"
    BY <1>1, <1>2, <2>2 DEF DInv, LineState, Waiting
  <2> QED  BY <2>1, <2>2
<1> QED  BY <1>1, <1>3, <1>4 DEF DInv

-----------------------------------------------------------------------------
(* open(), close(), DQBUF and the driver.                                  *)

LEMMA OpenKeeps ==
    ASSUME TypeOK, DInv, Open \/ Close
    PROVE  /\ DInv'
           /\ UNCHANGED <<stats, counted, lost>>
<1>1. CASE Open
  <2>1. /\ UNCHANGED <<stats, counted, lastSeq, lost>>
        /\ stream' = stream + 1 /\ produced' = 0 /\ outgoing' = <<>>
        /\ held' = NoBuffer /\ pc' = "select"
    BY <1>1 DEF Open, countVars
  <2>2. Unread' = 0
    <3>1. ASSUME counted # <<>> PROVE counted[Len(counted)].stream # stream + 1
      <4>1. Len(counted) \in 1..Len(counted)
        BY <3>1, Types
      <4> QED  BY <4>1, Types DEF DInv, CountState
    <3> QED  BY <2>1, <3>1 DEF Unread
  <2>3. CountState'
    BY <2>1, <2>2, Types DEF DInv, CountState
  <2>4. LostState'
    BY <2>1, <2>2, Types DEF DInv, LostState
  <2>5. LineState'
    BY <2>1, <2>2 DEF LineState
  <2> QED  BY <2>1, <2>3, <2>4, <2>5 DEF DInv
<1>2. CASE Close
  <2>1. UNCHANGED <<stats, counted, lastSeq, lost, stream, produced>> /\ pc' = "closed"
    BY <1>2 DEF Close, countVars
  <2>2. Unread' = Unread
    BY <2>1 DEF Unread
  <2> QED  BY <2>1, <2>2 DEF DInv, CountState, LostState, LineState
<1> QED  BY <1>1, <1>2

LEMMA DequeueKeeps ==
    ASSUME TypeOK, DInv, Dequeue
    PROVE  /\ DInv'
           /\ UNCHANGED <<stats, counted, lost>>
<1>1. /\ UNCHANGED <<stats, counted, lastSeq, lost, stream, produced, memory>>
      /\ pc = "dequeue" /\ pc' = "copy" /\ outgoing # <<>>
      /\ outgoing' = Tail(outgoing) /\ got' = memory[Head(outgoing)]
  BY DEF Dequeue, countVars
<1>2. Unread' = Unread
  BY <1>1 DEF Unread
<1>3. CountState' /\ LostState'
  BY <1>1, <1>2 DEF DInv, CountState, LostState
<1>4. /\ Len(outgoing) \in Nat \ {0} /\ Len(outgoing') = Len(outgoing) - 1
      /\ got' = Waiting(1)
      /\ \A i \in 1..(Len(outgoing) - 1) : Waiting(i)' = Waiting(i + 1)
  BY <1>1, Types DEF Waiting
<1>5. LineState'
  <2> DEFINE n == Len(outgoing)
  <2>1. /\ \A i \in 1..n :
              Waiting(i) \in Unread..(produced - 1) /\ <<stream, Waiting(i)>> \notin lost
        /\ \A i, j \in 1..n : i < j => Waiting(i) < Waiting(j)
        /\ \A q \in Unread..(produced - 1) :
              <<stream, q>> \in lost \/ (\E i \in 1..n : Waiting(i) = q)
    BY <1>1 DEF DInv, LineState
  <2>2. \A i \in 1..(n - 1) :
           /\ Waiting(i)' \in Unread..(produced - 1) /\ <<stream, Waiting(i)'>> \notin lost
           /\ got' < Waiting(i)'
    BY <1>4, <2>1
  <2>3. \A i, j \in 1..(n - 1) : i < j => Waiting(i)' < Waiting(j)'
    BY <1>4, <2>1
  <2>4. got' \in Unread..(produced - 1) /\ <<stream, got'>> \notin lost
    BY <1>4, <2>1
  <2>5. ASSUME NEW q \in Unread..(produced - 1)
        PROVE  <<stream, q>> \in lost \/ q = got' \/ (\E i \in 1..(n - 1) : Waiting(i)' = q)
    <3>1. CASE \E i \in 1..n : Waiting(i) = q
      <4>1. PICK i \in 1..n : Waiting(i) = q
        BY <3>1
      <4>2. CASE i = 1
        BY <4>1, <4>2, <1>4
      <4>3. CASE i # 1
        <5>1. i - 1 \in 1..(n - 1) /\ Waiting(i - 1)' = q
          BY <4>1, <4>3, <1>4
        <5> QED  BY <5>1
      <4> QED  BY <4>2, <4>3
    <3> QED  BY <3>1, <2>1
  <2>6. produced > 0
    BY <2>4, Types, LastRead
  <2> HIDE DEF n
  <2>7. Len(outgoing') = n - 1
    BY <1>4 DEF n
  <2> QED  BY <1>1, <1>2, <2>2, <2>3, <2>4, <2>5, <2>6, <2>7 DEF LineState
<1> QED  BY <1>1, <1>3, <1>5 DEF DInv

LEMMA FillKeeps ==
    ASSUME IInv, DInv, Fill
    PROVE  /\ DInv'
           /\ UNCHANGED <<stats, counted, lost>>
<1>t. TypeOK
  BY DEF IInv
<1>1. /\ UNCHANGED <<stats, counted, lastSeq, lost, stream, got, held, pc>>
      /\ pc # "closed" /\ incoming # <<>> /\ produced' = produced + 1
      /\ outgoing' = Append(outgoing, Head(incoming))
      /\ memory' = [memory EXCEPT ![Head(incoming)] = produced]
  BY DEF Fill, Streaming, readerVars, countVars, bufferVars
<1>2. Unread' = Unread
  BY <1>1 DEF Unread
<1>3. CountState' /\ LostState'
  BY <1>t, <1>1, <1>2, Types DEF DInv, CountState, LostState
<1>n. PICK n \in Nat : n = Len(outgoing)
  BY <1>t, Types
<1>4. Len(outgoing') = n + 1
      /\ Waiting(n + 1)' = produced
      /\ \A i \in 1..n : Waiting(i)' = Waiting(i)
  <2>1. Head(incoming) \in Buffers /\ Head(incoming) \in Members(incoming)
    BY <1>t, <1>1, Dequeued DEF TypeOK
  <2>2. /\ Len(outgoing') = n + 1 /\ outgoing'[n + 1] = Head(incoming)
        /\ \A i \in 1..n : outgoing'[i] = outgoing[i] /\ outgoing[i] \in Buffers
    BY <1>t, <1>1, <1>n, <2>1, Types
  <2>3. memory \in [Buffers -> Nat \cup {NoSeq}]
    BY <1>t DEF TypeOK
  <2>4. ASSUME NEW i \in 1..n PROVE outgoing[i] # Head(incoming)
    <3>1. outgoing[i] \in Members(outgoing)
      BY <1>n, <2>2 DEF Members
    <3> QED  BY <2>1, <3>1 DEF IInv, OnePlace
  <2>5. Waiting(n + 1)' = produced
    <3>1. memory'[Head(incoming)] = produced
      BY <1>1, <2>1, <2>3
    <3> QED  BY <2>2, <3>1 DEF Waiting
  <2>6. ASSUME NEW i \in 1..n PROVE Waiting(i)' = Waiting(i)
    BY <1>1, <2>1, <2>2, <2>3, <2>4 DEF Waiting
  <2> QED  BY <2>2, <2>5, <2>6
<1>5. /\ \A i \in 1..n :
            Waiting(i) \in Unread..(produced - 1) /\ <<stream, Waiting(i)>> \notin lost
      /\ \A i, j \in 1..n : i < j => Waiting(i) < Waiting(j)
      /\ pc = "copy" =>
            /\ got \in Unread..(produced - 1) /\ <<stream, got>> \notin lost
            /\ \A i \in 1..n : got < Waiting(i)
      /\ \A q \in Unread..(produced - 1) :
            \/ <<stream, q>> \in lost
            \/ pc = "copy" /\ q = got
            \/ \E i \in 1..n : Waiting(i) = q
  BY <1>1, <1>n DEF DInv, LineState
<1>6. produced \in Nat /\ Unread \in Nat /\ Unread <= produced /\ <<stream, produced>> \notin lost
  BY <1>t, Types, LastRead DEF DInv, CountState, LostState
<1>7. \A i \in 1..(n + 1) :
         Waiting(i)' \in Unread..produced /\ <<stream, Waiting(i)'>> \notin lost
  <2> TAKE i \in 1..(n + 1)
  <2>1. CASE i = n + 1
    BY <1>4, <1>6, <2>1
  <2>2. CASE i # n + 1
    BY <1>4, <1>5, <1>6, <2>2
  <2> QED  BY <2>1, <2>2
<1>8. \A i, j \in 1..(n + 1) : i < j => Waiting(i)' < Waiting(j)'
  <2> TAKE i, j \in 1..(n + 1)
  <2> HAVE i < j
  <2>1. i \in 1..n
    BY <1>4
  <2>2. CASE j = n + 1
    <3>1. Waiting(i)' = Waiting(i) /\ Waiting(i) < produced /\ Waiting(i) \in Int
      <4>1. Waiting(i) \in Unread..(produced - 1)
        BY <1>5, <2>1
      <4>2. Waiting(i)' = Waiting(i)
        BY <1>4, <2>1
      <4> QED  BY <1>6, <4>1, <4>2
    <3>2. Waiting(j)' = produced
      BY <1>4, <2>2 DEF Waiting
    <3> QED  BY <3>1, <3>2
  <2>3. CASE j # n + 1
    BY <1>4, <1>5, <1>6, <2>1, <2>3
  <2> QED  BY <2>2, <2>3
<1>9. pc = "copy" =>
         /\ got \in Unread..produced /\ <<stream, got>> \notin lost
         /\ \A i \in 1..(n + 1) : got < Waiting(i)'
  <2> HAVE pc = "copy"
  <2>1. got \in Unread..produced /\ <<stream, got>> \notin lost /\ got < produced
    BY <1>5, <1>6
  <2>2. ASSUME NEW i \in 1..(n + 1) PROVE got < Waiting(i)'
    <3>1. CASE i = n + 1
      BY <1>4, <2>1, <3>1 DEF Waiting
    <3>2. CASE i # n + 1
      BY <1>4, <1>5, <3>2
    <3> QED  BY <3>1, <3>2
  <2> QED  BY <2>1, <2>2
<1>10. ASSUME NEW q \in Unread..produced
       PROVE  \/ <<stream, q>> \in lost
              \/ pc = "copy" /\ q = got
              \/ \E i \in 1..(n + 1) : Waiting(i)' = q
  <2>1. CASE q = produced
    BY <1>4, <2>1 DEF Waiting
  <2>2. CASE q # produced
    <3>1. q \in Unread..(produced - 1)
      BY <1>6, <2>2
    <3> QED  BY <1>4, <1>5, <3>1
  <2> QED  BY <2>1, <2>2
<1>11. produced' - 1 = produced /\ produced' > 0
  BY <1>1, <1>6
<1>12. LineState'
  BY <1>1, <1>2, <1>4, <1>7, <1>8, <1>9, <1>10, <1>11 DEF LineState
<1> QED  BY <1>1, <1>3, <1>12 DEF DInv

\* A number is lost only while no buffer is free; the first of a stream never
\* is, as no buffer was filled yet.
LEMMA DropKeeps ==
    ASSUME IInv, DInv, Drop
    PROVE  /\ DInv'
           /\ UNCHANGED <<stats, counted>>
           /\ lost' = lost \cup {<<stream, produced>>}
<1>t. TypeOK
  BY DEF IInv
<1>1. /\ UNCHANGED <<stats, counted, lastSeq, stream, got, held, pc, memory, outgoing>>
      /\ pc # "closed" /\ incoming = <<>> /\ produced' = produced + 1
      /\ lost' = lost \cup {<<stream, produced>>}
  BY DEF Drop, Streaming, readerVars, countVars, bufferVars
<1>2. Unread' = Unread
  BY <1>1 DEF Unread
<1>3. produced \in Nat /\ stream \in Nat /\ Unread \in Nat /\ Unread <= produced
  BY <1>t, Types, LastRead DEF DInv, CountState
<1>4. produced > 0
  <2>1. CASE held # NoBuffer
    BY <1>1, <2>1 DEF DInv, LineState
  <2>2. CASE held = NoBuffer
    <3>1. Len(outgoing) = nBuffers /\ nBuffers > 0
      BY <1>t, <1>1, <2>2, Types DEF IInv, BuffersConserved, TypeOK, Buffers
    <3>2. 1 \in 1..Len(outgoing)
      BY <1>t, <3>1, Types
    <3>3. Waiting(1) \in Unread..(produced - 1)
      BY <1>1, <3>2 DEF DInv, LineState
    <3> QED  BY <1>3, <3>3
  <2> QED  BY <2>1, <2>2
<1>5. CountState'
  BY <1>t, <1>1, <1>2, <1>3, Types DEF DInv, CountState
<1>6. LostState'
  <2>1. IsFiniteSet(lost')
    BY <1>1, FS_AddElement DEF DInv, LostState
  <2>2. ASSUME NEW x \in lost'
        PROVE  x[1] <= stream' /\ (x[1] = stream' => x[2] \in 1..(produced' - 1))
    <3>1. CASE x \in lost
      BY <1>t, <1>1, <1>3, <3>1, Types DEF DInv, LostState
    <3>2. CASE x = <<stream, produced>>
      BY <1>1, <1>3, <1>4, <3>2
    <3> QED  BY <1>1, <2>2, <3>1, <3>2
  <2>3. Unread' > 0 => <<stream', lastSeq'>> \notin lost'
    BY <1>t, <1>1, <1>2, <1>3, LastRead DEF DInv, LostState
  <2> QED  BY <2>1, <2>2, <2>3 DEF LostState
<1>7. LineState'
  <2> DEFINE n == Len(outgoing)
  <2>1. /\ \A i \in 1..n :
              Waiting(i) \in Unread..(produced - 1) /\ <<stream, Waiting(i)>> \notin lost
        /\ \A i, j \in 1..n : i < j => Waiting(i) < Waiting(j)
        /\ pc = "copy" =>
              /\ got \in Unread..(produced - 1) /\ <<stream, got>> \notin lost
              /\ \A i \in 1..n : got < Waiting(i)
        /\ \A q \in Unread..(produced - 1) :
              \/ <<stream, q>> \in lost
              \/ pc = "copy" /\ q = got
              \/ \E i \in 1..n : Waiting(i) = q
    BY <1>1 DEF DInv, LineState
  <2>2. \A i : Waiting(i)' = Waiting(i)
    BY <1>1 DEF Waiting
  <2> HIDE DEF n
  <2>3. \A i \in 1..n :
           Waiting(i) \in Unread..produced /\ <<stream, Waiting(i)>> \notin lost'
    BY <1>1, <1>3, <2>1
  <2>4. pc = "copy" => got \in Unread..produced /\ <<stream, got>> \notin lost'
    BY <1>1, <1>3, <2>1
  <2>5. ASSUME NEW q \in Unread..produced
        PROVE  \/ <<stream, q>> \in lost'
               \/ pc = "copy" /\ q = got
               \/ \E i \in 1..n : Waiting(i) = q
    <3>1. CASE q = produced
      BY <1>1, <3>1
    <3>2. CASE q # produced
      <4>1. q \in Unread..(produced - 1)
        BY <1>3, <3>2
      <4> QED  BY <1>1, <2>1, <4>1
    <3> QED  BY <3>1, <3>2
  <2>6. produced' - 1 = produced /\ produced' > 0 /\ Len(outgoing') = n
    BY <1>1, <1>3 DEF n
  <2> QED  BY <1>1, <1>2, <2>1, <2>2, <2>3, <2>4, <2>5, <2>6 DEF LineState
<1> QED  BY <1>1, <1>5, <1>6, <1>7 DEF DInv

-----------------------------------------------------------------------------
(* A frame is copied and accounted for.                                    *)

\* What was lost before frame k of a history c.
LostBefore(c, k) ==
    {x \in lost :
        /\ x[1] = c[k].stream /\ x[2] < c[k].seq
        /\ \A j \in 1..(k - 1) : c[j].stream = c[k].stream => c[j].seq < x[2]}

\* What read() was to tell its caller of: lost before a frame of a history c.
ToldOf(c) ==
    {x \in lost : \E k \in 1..Len(c) : c[k].stream = x[1] /\ c[k].seq > x[2]}

\* The numbers between the last frame and this one.
Between == {stream} \X (Unread..(got - 1))

LEMMA BetweenCounted ==
    ASSUME TypeOK, DInv, pc = "copy"
    PROVE  /\ got \in Nat /\ Unread <= got /\ Between \subseteq lost
           /\ IsFiniteSet(Between) /\ Cardinality(Between) = Dropped
<1>1. /\ got \in Unread..(produced - 1) /\ <<stream, got>> \notin lost
      /\ \A i \in 1..Len(outgoing) : got < Waiting(i)
      /\ \A q \in Unread..(produced - 1) :
            \/ <<stream, q>> \in lost
            \/ q = got
            \/ \E i \in 1..Len(outgoing) : Waiting(i) = q
      /\ \A i \in 1..Len(outgoing) : Waiting(i) \in Unread..(produced - 1)
  BY DEF DInv, LineState
<1>2. got \in Nat /\ Unread \in Nat /\ produced \in Nat /\ stream \in Nat
  BY Types, LastRead
<1>3. \A q \in Unread..(got - 1) : <<stream, q>> \in lost
  <2> TAKE q \in Unread..(got - 1)
  <2>1. q \in Unread..(produced - 1) /\ q < got /\ q # got
    BY <1>1, <1>2
  <2>2. \A i \in 1..Len(outgoing) : Waiting(i) # q
    BY <1>1, <1>2, <2>1
  <2> QED  BY <1>1, <2>1, <2>2
<1>4. Between \subseteq lost
  BY <1>3 DEF Between
<1>5. IsFiniteSet(Between) /\ Cardinality(Between) = got - Unread
  <2>1. /\ IsFiniteSet(Unread..(got - 1))
        /\ Cardinality(Unread..(got - 1)) =
              IF Unread > got - 1 THEN 0 ELSE (got - 1) - Unread + 1
    BY <1>2, FS_Interval
  <2>2. IsFiniteSet({stream}) /\ Cardinality({stream}) = 1
    BY FS_Singleton
  <2>3. /\ IsFiniteSet(Between)
        /\ Cardinality(Between) = Cardinality({stream}) * Cardinality(Unread..(got - 1))
    BY <2>1, <2>2, FS_Product DEF Between
  <2>4. Cardinality(Unread..(got - 1)) = got - Unread
    BY <1>1, <1>2, <2>1
  <2> QED  BY <1>2, <2>2, <2>3, <2>4
<1>6. Dropped = got - Unread
  <2>1. CASE Unread > 0
    <3>1. lastSeq = Unread - 1 /\ lastSeq # NoSeq
      BY <1>2, <2>1, LastRead DEF NoSeq
    <3> QED  BY <1>1, <1>2, <3>1 DEF Dropped
  <2>2. CASE Unread = 0
    <3>1. <<stream, 0>> \notin lost
      BY <1>2 DEF DInv, LostState
    <3>2. got = 0
      BY <1>1, <1>2, <1>3, <2>2, <3>1
    <3>3. lastSeq \in Nat \cup {NoSeq}
      BY DEF TypeOK
    <3> QED  BY <2>2, <3>2, <3>3 DEF Dropped, NoSeq
  <2> QED  BY <1>2, <2>1, <2>2
<1> QED  BY <1>1, <1>2, <1>4, <1>5, <1>6

LEMMA CopyKeeps ==
    ASSUME TypeOK, DInv, Copy
    PROVE  /\ DInv'
           /\ UNCHANGED lost
<1>1. /\ UNCHANGED <<lost, stream, produced, memory, outgoing, got, held>>
      /\ pc = "copy" /\ pc' = "requeue" /\ lastSeq' = got
      /\ counted' = Append(counted,
                      [stream |-> stream, seq |-> got, data |-> memory[held],
                       dropped |-> Dropped, flags |-> Flags])
  BY DEF Copy, bufferVars, driverVars
<1>n. PICK n \in Nat : n = Len(counted)
  BY Types
<1>2. /\ Len(counted') = n + 1 /\ counted' # <<>>
      /\ counted'[n + 1].stream = stream /\ counted'[n + 1].seq = got
      /\ \A k \in 1..n : counted'[k] = counted[k]
  BY <1>1, <1>n, Types
<1>3. Unread' = got + 1
  BY <1>1, <1>2 DEF Unread
<1>4. /\ got \in Nat /\ Unread \in Nat /\ produced \in Nat /\ stream \in Nat
      /\ got \in Unread..(produced - 1) /\ <<stream, got>> \notin lost
      /\ \A i \in 1..Len(outgoing) :
            /\ got < Waiting(i) /\ Waiting(i) \in Unread..(produced - 1)
            /\ <<stream, Waiting(i)>> \notin lost
      /\ \A i, j \in 1..Len(outgoing) : i < j => Waiting(i) < Waiting(j)
      /\ \A q \in Unread..(produced - 1) :
            <<stream, q>> \in lost \/ q = got \/ (\E i \in 1..Len(outgoing) : Waiting(i) = q)
      /\ produced > 0
  BY <1>1, Types, LastRead DEF DInv, LineState
<1>5. CountState'
  <2>1. ASSUME NEW k \in 1..(n + 1)
        PROVE  /\ counted'[k].stream <= stream
               /\ counted'[k].stream = stream => counted'[k].seq < got + 1
    <3>1. CASE k = n + 1
      BY <1>2, <1>4, <3>1
    <3>2. CASE k # n + 1
      <4>1. /\ k \in 1..Len(counted) /\ counted'[k] = counted[k]
            /\ counted[k].seq \in Nat
        BY <1>2, <1>n, <3>2, Types
      <4>2. /\ counted[k].stream <= stream
            /\ counted[k].stream = stream => counted[k].seq < Unread
        BY <4>1 DEF DInv, CountState
      <4> QED  BY <1>4, <4>1, <4>2
    <3> QED  BY <3>1, <3>2
  <2> QED  BY <1>1, <1>2, <1>3, <1>4, <2>1 DEF CountState
<1>6. LostState'
  BY <1>1, <1>3, <1>4 DEF DInv, LostState
<1>7. LineState'
  <2>1. \A q \in (got + 1)..(produced - 1) :
           <<stream, q>> \in lost \/ (\E i \in 1..Len(outgoing) : Waiting(i) = q)
    BY <1>4
  <2>2. \A i \in 1..Len(outgoing) : Waiting(i) \in (got + 1)..(produced - 1)
    <3> TAKE i \in 1..Len(outgoing)
    <3>1. got < Waiting(i) /\ Waiting(i) \in Unread..(produced - 1)
      BY <1>4
    <3>2. got \in Nat /\ Unread \in Nat /\ produced \in Nat
      BY <1>4
    <3> QED  BY <3>1, <3>2
  <2>3. \A i \in 1..Len(outgoing) : Waiting(i)' = Waiting(i)
    BY <1>1 DEF Waiting
  <2>4. \A i \in 1..Len(outgoing) : <<stream, Waiting(i)>> \notin lost
    BY <1>4
  <2>5. \A i, j \in 1..Len(outgoing) : i < j => Waiting(i) < Waiting(j)
    BY <1>4
  <2>6. /\ pc' # "copy" /\ Len(outgoing') = Len(outgoing) /\ produced' = produced
        /\ lost' = lost /\ stream' = stream /\ produced > 0
    BY <1>1, <1>4
  <2> QED  BY <1>3, <2>1, <2>2, <2>3, <2>4, <2>5, <2>6 DEF LineState
<1> QED  BY <1>1, <1>5, <1>6, <1>7 DEF DInv

-----------------------------------------------------------------------------
(* The counter and the flags.                                              *)

Exact == DropsCountedExactly /\ GapsAreWhereFramesWereLost

\* The two properties in terms of the sets above.
LEMMA ExactMeans ==
    Exact <=> /\ stats.dropped = Cardinality(ToldOf(counted))
              /\ \A k \in 1..Len(counted) :
                    /\ counted[k].dropped = Cardinality(LostBefore(counted, k))
                    /\ "gap_before" \in counted[k].flags <=> LostBefore(counted, k) # {}
  BY DEF Exact, DropsCountedExactly, GapsAreWhereFramesWereLost, ToldOf, LostBefore

\* A number lost now is behind everything that was read.
LEMMA DropTellsNothing ==
    ASSUME IInv, DInv, Drop, Exact
    PROVE  Exact'
<1>t. TypeOK
  BY DEF IInv
<1>1. UNCHANGED <<stats, counted>> /\ lost' = lost \cup {<<stream, produced>>}
  BY DropKeeps
<1>2. \A k \in 1..Len(counted) :
         counted[k].stream = stream => ~(counted[k].seq > produced) /\ ~(produced < counted[k].seq)
  <2> TAKE k \in 1..Len(counted)
  <2> HAVE counted[k].stream = stream
  <2>1. counted[k].seq < Unread /\ Unread <= produced
    BY DEF DInv, CountState
  <2>2. counted[k].seq \in Nat /\ Unread \in Int /\ produced \in Nat
    BY <1>t, Types
  <2> QED  BY <2>1, <2>2
<1>3. {x \in lost' : \E k \in 1..Len(counted) : counted[k].stream = x[1] /\ counted[k].seq > x[2]}
         = ToldOf(counted)
  BY <1>1, <1>2 DEF ToldOf
<1>4. ASSUME NEW k \in 1..Len(counted)
      PROVE  {x \in lost' :
                 /\ x[1] = counted[k].stream /\ x[2] < counted[k].seq
                 /\ \A j \in 1..(k - 1) :
                       counted[j].stream = counted[k].stream => counted[j].seq < x[2]}
                = LostBefore(counted, k)
  BY <1>1, <1>2 DEF LostBefore
<1>5. /\ ToldOf(counted)' = ToldOf(counted)
      /\ \A k \in 1..Len(counted) : LostBefore(counted, k)' = LostBefore(counted, k)
  BY <1>1, <1>3, <1>4 DEF ToldOf, LostBefore
<1>6. stats'.dropped = Cardinality(ToldOf(counted)')
  BY <1>1, <1>5, ExactMeans
<1>7. \A k \in 1..Len(counted) :
         /\ counted[k].dropped = Cardinality(LostBefore(counted, k)')
         /\ "gap_before" \in counted[k].flags <=> LostBefore(counted, k)' # {}
  BY <1>5, ExactMeans
<1>8. DropsCountedExactly'
  BY <1>1, <1>6 DEF DropsCountedExactly, ToldOf
<1>9. GapsAreWhereFramesWereLost'
  BY <1>1, <1>7 DEF GapsAreWhereFramesWereLost, LostBefore
<1> QED  BY <1>8, <1>9 DEF Exact

\* What lies between the last frame and this one is what it is told of, and
\* what is told anew.
LEMMA CopyTells ==
    ASSUME TypeOK, DInv, Copy, Exact
    PROVE  Exact'
<1>1. /\ UNCHANGED <<lost, stream>> /\ pc = "copy"
      /\ stats'.dropped = stats.dropped + Dropped
      /\ counted' = Append(counted,
                      [stream |-> stream, seq |-> got, data |-> memory[held],
                       dropped |-> Dropped, flags |-> Flags])
  BY DEF Copy, driverVars
<1>n. PICK n \in Nat : n = Len(counted)
  BY Types
<1>c. PICK c : c = counted'
  OBVIOUS
<1>2. /\ Len(c) = n + 1
      /\ c[n + 1].stream = stream /\ c[n + 1].seq = got
      /\ c[n + 1].dropped = Dropped /\ c[n + 1].flags = Flags
      /\ \A k \in 1..n : c[k] = counted[k]
  BY <1>1, <1>n, <1>c, Types
<1>3. /\ got \in Nat /\ Unread <= got /\ Between \subseteq lost
      /\ IsFiniteSet(Between) /\ Cardinality(Between) = Dropped
  BY <1>1, BetweenCounted
<1>4. /\ Unread \in Nat /\ stream \in Nat
      /\ \A x \in lost : x = <<x[1], x[2]>> /\ x[1] \in Nat /\ x[2] \in Nat
  BY Types, LastRead
<1>5. \A k \in 1..n :
         /\ counted[k].seq \in Nat
         /\ counted[k].stream = stream => counted[k].seq < Unread
  BY <1>n, Types DEF DInv, CountState
\* An earlier number of the stream was either read or told of.
<1>6. Unread > 0 => n \in 1..n /\ counted[n].stream = stream /\ counted[n].seq = Unread - 1
                      /\ <<stream, Unread - 1>> \notin lost
  BY <1>n, LastRead DEF DInv, LostState
<1>7. \A x \in Between : x[1] = stream /\ x[2] \in Unread..(got - 1)
  BY DEF Between
<1>8. LostBefore(c, n + 1) = Between
  <2>1. ASSUME NEW x \in LostBefore(c, n + 1) PROVE x \in Between
    <3>1. /\ x \in lost /\ x[1] = stream /\ x[2] < got
          /\ \A j \in 1..n : c[j].stream = stream => c[j].seq < x[2]
      BY <1>2 DEF LostBefore
    <3>2. x[2] >= Unread
      <4>1. CASE Unread > 0
        <5>1. Unread - 1 < x[2]
          BY <1>2, <1>6, <3>1, <4>1
        <5> QED  BY <1>4, <3>1, <5>1
      <4>2. CASE Unread = 0
        BY <1>4, <3>1, <4>2
      <4> QED  BY <1>4, <4>1, <4>2
    <3>3. x[2] \in Unread..(got - 1)
      BY <1>3, <1>4, <3>1, <3>2
    <3> QED  BY <1>4, <3>1, <3>3 DEF Between
  <2>2. ASSUME NEW x \in Between PROVE x \in LostBefore(c, n + 1)
    <3>1. x \in lost /\ x[1] = stream /\ x[2] \in Unread..(got - 1)
      BY <1>3, <1>7
    <3>2. ASSUME NEW j \in 1..n, c[j].stream = stream PROVE c[j].seq < x[2]
      <4>1. counted[j].seq < Unread /\ counted[j].seq \in Nat /\ c[j].seq = counted[j].seq
        BY <1>2, <1>5, <3>2
      <4> QED  BY <1>3, <1>4, <3>1, <4>1
    <3>3. x[2] < got
      BY <1>3, <1>4, <3>1
    <3> QED  BY <1>2, <3>1, <3>2, <3>3 DEF LostBefore
  <2> QED  BY <2>1, <2>2
<1>9. ASSUME NEW k \in 1..n PROVE LostBefore(c, k) = LostBefore(counted, k)
  <2>1. c[k] = counted[k] /\ \A j \in 1..(k - 1) : c[j] = counted[j]
    BY <1>2
  <2> QED  BY <2>1 DEF LostBefore
<1>10. ToldOf(c) = ToldOf(counted) \cup Between
  <2>1. ASSUME NEW x \in ToldOf(c) PROVE x \in ToldOf(counted) \cup Between
    <3>1. PICK k \in 1..(n + 1) : c[k].stream = x[1] /\ c[k].seq > x[2]
      BY <1>2 DEF ToldOf
    <3>2. x \in lost
      BY DEF ToldOf
    <3>3. CASE k \in 1..n
      <4>1. counted[k].stream = x[1] /\ counted[k].seq > x[2]
        BY <1>2, <3>1, <3>3
      <4> QED  BY <1>n, <3>2, <3>3, <4>1 DEF ToldOf
    <3>4. CASE k = n + 1
      <4>1. x[1] = stream /\ x[2] < got /\ x[2] \in Nat /\ x = <<x[1], x[2]>>
        BY <1>2, <1>3, <1>4, <3>1, <3>2, <3>4
      <4>2. CASE x[2] >= Unread
        <5>1. x[2] \in Unread..(got - 1)
          BY <1>3, <1>4, <4>1, <4>2
        <5> QED  BY <4>1, <5>1 DEF Between
      <4>3. CASE x[2] < Unread
        <5>1. Unread > 0 /\ x[2] # Unread - 1
          BY <1>4, <1>6, <3>2, <4>1, <4>3
        <5>2. n \in 1..n /\ counted[n].stream = x[1] /\ counted[n].seq > x[2]
          BY <1>4, <1>6, <4>1, <4>3, <5>1
        <5> QED  BY <1>n, <3>2, <5>2 DEF ToldOf
      <4> QED  BY <1>4, <4>1, <4>2, <4>3
    <3> QED  BY <3>1, <3>3, <3>4
  <2>2. ToldOf(counted) \subseteq ToldOf(c)
    BY <1>n, <1>2 DEF ToldOf
  <2>3. ASSUME NEW x \in Between PROVE x \in ToldOf(c)
    <3>1. x \in lost /\ x[1] = stream /\ x[2] \in Unread..(got - 1)
      BY <1>3, <1>7
    <3>2. n + 1 \in 1..Len(c) /\ c[n + 1].stream = x[1] /\ c[n + 1].seq > x[2]
      BY <1>2, <1>3, <1>4, <3>1
    <3> QED  BY <3>1, <3>2 DEF ToldOf
  <2> QED  BY <2>1, <2>2, <2>3
<1>11. ToldOf(counted) \cap Between = {}
  <2> SUFFICES ASSUME NEW x \in ToldOf(counted), x \in Between PROVE FALSE
    OBVIOUS
  <2>1. PICK k \in 1..n : counted[k].stream = x[1] /\ counted[k].seq > x[2]
    BY <1>n DEF ToldOf
  <2>2. x[1] = stream /\ x[2] \in Unread..(got - 1)
    BY <1>7
  <2>3. counted[k].seq < Unread /\ counted[k].seq \in Nat
    BY <1>5, <2>1, <2>2
  <2> QED  BY <1>3, <1>4, <2>1, <2>2, <2>3
<1>12. Cardinality(ToldOf(c)) = stats.dropped + Dropped
  <2>1. IsFiniteSet(ToldOf(counted))
    BY FS_Subset DEF DInv, LostState, ToldOf
  <2>2. Cardinality(ToldOf(c)) = Cardinality(ToldOf(counted)) + Dropped - Cardinality({})
    BY <1>3, <1>10, <1>11, <2>1, FS_Union
  <2>3. Cardinality({}) = 0 /\ Cardinality(ToldOf(counted)) \in Nat
    BY <2>1, FS_EmptySet, FS_CardinalityType
  <2>4. Dropped \in Nat
    BY <1>3, FS_CardinalityType
  <2>5. Cardinality(ToldOf(counted)) = stats.dropped
    BY ExactMeans
  <2> QED  BY <2>2, <2>3, <2>4, <2>5
<1>13. ASSUME NEW k \in 1..(n + 1)
       PROVE  /\ c[k].dropped = Cardinality(LostBefore(c, k))
              /\ "gap_before" \in c[k].flags <=> LostBefore(c, k) # {}
  <2>1. CASE k = n + 1
    <3>1. Between # {} <=> Dropped > 0
      BY <1>3, FS_EmptySet, FS_CardinalityType
    <3>2. "gap_before" \in Flags <=> Dropped > 0
      BY DEF Flags
    <3> QED  BY <1>2, <1>3, <1>8, <2>1, <3>1, <3>2
  <2>2. CASE k \in 1..n
    BY <1>n, <1>2, <1>9, <2>2, ExactMeans
  <2> QED  BY <2>1, <2>2
<1>14. /\ ToldOf(counted)' = ToldOf(c)
       /\ \A k \in 1..(n + 1) : LostBefore(counted, k)' = LostBefore(c, k)
  BY <1>1, <1>c DEF ToldOf, LostBefore
<1>15. DropsCountedExactly'
  <2>1. stats'.dropped = Cardinality(ToldOf(counted)')
    BY <1>1, <1>12, <1>14
  <2> QED  BY <2>1 DEF DropsCountedExactly, ToldOf
<1>16. 1..Len(counted') = 1..(n + 1)
  BY <1>2, <1>c
<1>17. \A k \in 1..Len(counted') :
          /\ counted'[k].dropped = Cardinality(LostBefore(counted, k)')
          /\ "gap_before" \in counted'[k].flags <=> LostBefore(counted, k)' # {}
  BY <1>c, <1>13, <1>14, <1>16
<1>18. GapsAreWhereFramesWereLost'
  BY <1>17 DEF GapsAreWhereFramesWereLost, LostBefore
<1> QED  BY <1>15, <1>18 DEF Exact

-----------------------------------------------------------------------------
LEMMA InitExact == Init => Exact
<1> SUFFICES ASSUME Init PROVE Exact
  OBVIOUS
<1>1. stats.dropped = 0 /\ lost = {} /\ counted = <<>>
  BY DEF Init
<1>2. ToldOf(counted) = {} /\ Len(counted) = 0
  BY <1>1 DEF ToldOf
<1>3. Cardinality({}) = 0
  BY FS_EmptySet
<1>4. \A k \in 1..Len(counted) : FALSE
  BY <1>2
<1> QED  BY <1>1, <1>2, <1>3, <1>4, ExactMeans

LEMMA ExactKeeps ==
    ASSUME IInv, DInv, Exact, [Next]_vars
    PROVE  DInv' /\ Exact'
<1>t. TypeOK
  BY DEF IInv
<1>1. CASE Copy
  BY <1>t, <1>1, CopyKeeps, CopyTells
<1>2. CASE Drop
  BY <1>2, DropKeeps, DropTellsNothing
<1>3. CASE Elsewhere \/ Open \/ Close \/ Dequeue \/ Fill
  <2>1. DInv' /\ UNCHANGED <<stats, counted, lost>>
    BY <1>t, <1>3, ElsewhereKeeps, OpenKeeps, DequeueKeeps, FillKeeps
  <2>2. DropsCountedExactly'
    BY <2>1 DEF Exact, DropsCountedExactly
  <2>3. GapsAreWhereFramesWereLost'
    <3>1. \A k \in 1..Len(counted) : LostBefore(counted, k)' = LostBefore(counted, k)
      BY <2>1 DEF LostBefore
    <3>2. \A k \in 1..Len(counted) :
             /\ counted[k].dropped = Cardinality(LostBefore(counted, k)')
             /\ "gap_before" \in counted[k].flags <=> LostBefore(counted, k)' # {}
      BY <3>1, ExactMeans
    <3> QED  BY <2>1, <3>2 DEF GapsAreWhereFramesWereLost, LostBefore
  <2> QED  BY <2>1, <2>2, <2>3 DEF Exact
<1> QED  BY <1>1, <1>2, <1>3 DEF Next, Read, Elsewhere

\* The drop counter is the number of frames the driver lost before one that
\* was read, each frame says how many were lost just before it, the gap flag is
\* set exactly on those, and every counted frame was returned: whatever the
\* driver drops, across unplugs, flagged and torn frames, and reopened streams.
THEOREM AccountingIsExact == Spec => []DropAccountingIsExact
<1>1. Init => DInv /\ Exact
  BY InitDInv, InitExact
<1>2. IInv /\ DInv /\ Exact /\ [Next]_vars => (DInv /\ Exact)'
  BY ExactKeeps
<1>3. Spec => [](DInv /\ Exact)
  BY <1>1, <1>2, Invariance, PTL DEF Spec
<1>4. DInv /\ Exact /\ FramesAreReturned => DropAccountingIsExact
  BY DEF Exact, DropAccountingIsExact
<1> QED  BY <1>3, <1>4, CountedIsReturned, PTL
=============================================================================
