------------------------ MODULE SegmentWriterProofs -------------------------
(***************************************************************************)
(* What a kill, a power cut and an I/O error leave of a recording, for     *)
(* frames of any lengths and any limits, and that vcap-verify finds out.   *)
(***************************************************************************)
EXTENDS Verify, Integers, OperatorProofs

\* Where the first k records of a segment end.
EndOf(s, k) == IF k = 0 THEN 0 ELSE End(s.recs[k])

\* What is known to be on the disk is in the page cache, and what is there
\* has been written.
Layered(s) ==
    /\ s.streamSync <= s.streamOs /\ s.streamOs <= s.bytes
    /\ s.indexSync <= s.indexOs /\ s.indexOs <= Len(s.recs)

\* The records of a segment tile it, and so their ends ascend.
Tiled(s) ==
    /\ \A k \in 1..Len(s.recs) : s.recs[k].off = EndOf(s, k - 1)
    /\ \A j, k \in 0..Len(s.recs) : j <= k => EndOf(s, j) <= EndOf(s, k)

Sealed(s) == s.streamSync = s.bytes /\ s.indexSync = Len(s.recs)

Bounded(s) == SegmentBytes # 0 => s.bytes <= SegmentBytes \/ Len(s.recs) <= 1

\* A segment that was rolled over.
Finished(s) ==
    /\ Layered(s) /\ Tiled(s) /\ Sealed(s) /\ Bounded(s)
    /\ EndOf(s, Len(s.recs)) = s.bytes

Earlier == \A i \in 1..Len(segs) : i # Len(segs) => Finished(segs[i])

-----------------------------------------------------------------------------
(* The open segment, and the call under way.                               *)

Flushing == {"flushStream", "flushIndex", "syncStream", "syncIndex"}
Broken == {"failed", "abandoned"}
Rolling == {"rollStream", "rollIndex", "open"}
Writing == {"data", "record"}

\* The offset is where the records end; the bytes are ahead of them while the
\* record of a frame is not yet written, or its write failed.
OffsetState ==
    /\ Layered(Current) /\ Tiled(Current)
    /\ offset = EndOf(Current, Len(Current.recs))
    /\ pc \notin Broken => Current.bytes = IF pc = "record" THEN offset + len ELSE offset
    /\ pc \in Broken => Current.bytes \in offset..(offset + len)

\* The calls that have returned are those counted, but for the one whose
\* files are being flushed or that raised.
CallState ==
    /\ pc \in Flushing => framesWritten = returned + 1
    /\ pc \in Broken => framesWritten \in {returned, returned + 1}
    /\ pc \notin Flushing \cup Broken => framesWritten = returned
    /\ framesWritten # returned => Current.recs # <<>>

\* Until the power goes: what returned is in the page cache, and the index is
\* not ahead of the stream before the files of a broken writer are collected.
CacheState ==
    fate # "powercut" =>
        /\ ReturnedHere <= Current.indexOs
        /\ EndOf(Current, ReturnedHere) <= Current.streamOs
        /\ pc \in Flushing \ {"flushStream"} => Current.streamOs = Current.bytes
        /\ pc # "abandoned" => EndOf(Current, Current.indexOs) <= Current.streamOs

\* What returned, but for the last records, is on the disk: the last since
\* the fsync before, which are fewer than fsync_every.
OnDisk(lag) ==
    /\ ReturnedHere <= Current.indexSync + lag
    /\ \A k \in 0..Len(Current.recs) :
          k + lag <= ReturnedHere => EndOf(Current, k) <= Current.streamSync

SyncState ==
    FsyncEvery # 0 =>
        /\ OnDisk(FsyncEvery - 1)
        /\ pc \notin Broken => OnDisk(sinceSync)
        /\ pc \notin Broken \cup {"syncStream", "syncIndex"} => sinceSync < FsyncEvery

CloseState ==
    /\ pc \in {"rollIndex", "open", "syncIndex", "closeIndex", "closed"}
          => Current.streamSync = Current.bytes
    /\ pc \in {"open", "closed"} => Current.indexSync = Len(Current.recs)

\* Why the frame under way is in this segment.
RollState ==
    /\ pc \in Rolling => SegmentBytes # 0 /\ offset + len > SegmentBytes
    /\ pc \in Writing /\ SegmentBytes # 0 /\ Current.recs # <<>>
          => offset + len <= SegmentBytes
    /\ SegmentBytes # 0 => offset <= SegmentBytes \/ Len(Current.recs) <= 1
    /\ Len(segs) > 1 /\ Current.recs = <<>> /\ pc \in Writing
          => segs[Len(segs) - 1].bytes + len > SegmentBytes
    /\ Len(segs) > 1 /\ Current.recs = <<>> => pc \in Writing \cup Broken
    /\ pc \in Broken => Bounded(Current)
    /\ RolledWhenFull

IInv == TypeOK /\ Earlier /\ OffsetState /\ CallState /\ CacheState /\ SyncState
          /\ CloseState /\ RollState

-----------------------------------------------------------------------------
LEMMA CurrentType ==
    ASSUME TypeOK
    PROVE  /\ Len(segs) \in Nat \ {0}
           /\ Current \in Segment
           /\ Current.recs \in Seq(Record) /\ Current.bytes \in Nat
           /\ Current.streamOs \in Nat /\ Current.streamSync \in Nat
           /\ Current.indexOs \in Nat /\ Current.indexSync \in Nat
           /\ ReturnedHere \in Int
<1>1. Len(segs) \in Nat \ {0} /\ Current \in Segment
  BY DEF TypeOK, Current
<1>2. Current.recs \in Seq(Record)
  BY <1>1 DEF Segment
<1> QED  BY <1>1, <1>2 DEF Segment, TypeOK, ReturnedHere

LEMMA EndType ==
    ASSUME NEW s \in Segment, NEW k \in 0..Len(s.recs)
    PROVE  EndOf(s, k) \in Nat
<1>1. s.recs \in Seq(Record)
  BY DEF Segment
<1>2. CASE k # 0
  <2>1. s.recs[k] \in Record
    BY <1>1, <1>2
  <2> QED  BY <1>2, <2>1 DEF EndOf, End, Record
<1> QED  BY <1>2 DEF EndOf

\* What becomes of the segments when the open one becomes s.
LEMMA SetCurrentFacts ==
    ASSUME TypeOK, Earlier, NEW s \in Segment, SetCurrent(s)
    PROVE  /\ segs' \in Seq(Segment) /\ segs' # <<>>
           /\ Len(segs') = Len(segs)
           /\ Current' = s
           /\ \A i \in 1..Len(segs) : i # Len(segs) => segs'[i] = segs[i]
           /\ Earlier'
<1>1. Len(segs) \in Nat \ {0}
  BY CurrentType
<1>2. segs' \in Seq(Segment) /\ segs' # <<>> /\ Len(segs') = Len(segs)
  BY <1>1 DEF SetCurrent, TypeOK
<1>3. Current' = s
  BY <1>1, <1>2 DEF SetCurrent, TypeOK, Current
<1>4. \A i \in 1..Len(segs) : i # Len(segs) => segs'[i] = segs[i]
  BY <1>1 DEF SetCurrent, TypeOK
<1>5. Earlier'
  BY <1>2, <1>4 DEF Earlier
<1> QED  BY <1>2, <1>3, <1>4, <1>5

\* The first record of the open segment decides whether it was opened rightly.
LEMMA RolledStays ==
    ASSUME TypeOK, RolledWhenFull, NEW s \in Segment, SetCurrent(s), Earlier,
           Len(segs) > 1 /\ s.recs # <<>> =>
               segs[Len(segs) - 1].bytes + s.recs[1].len > SegmentBytes
    PROVE  RolledWhenFull'
<1>1. Len(segs) \in Nat \ {0} /\ Len(segs') = Len(segs) /\ segs'[Len(segs)] = s
  BY CurrentType, SetCurrentFacts DEF Current
<1>2. \A i \in 1..Len(segs) : i # Len(segs) => segs'[i] = segs[i]
  BY SetCurrentFacts
<1> SUFFICES ASSUME NEW i \in 1..(Len(segs) - 1), segs'[i + 1].recs # <<>>
             PROVE  segs'[i].bytes + segs'[i + 1].recs[1].len > SegmentBytes
  BY <1>1 DEF RolledWhenFull
<1>3. segs'[i] = segs[i]
  BY <1>1, <1>2
<1>4. CASE i + 1 = Len(segs)
  BY <1>1, <1>3, <1>4
<1>5. CASE i + 1 # Len(segs)
  <2>1. segs'[i + 1] = segs[i + 1]
    BY <1>1, <1>2, <1>5
  <2> QED  BY <1>1, <1>3, <2>1 DEF RolledWhenFull
<1> QED  BY <1>4, <1>5

\* A step that moves bytes between the layers of the open segment and writes
\* nothing.
LEMMA LayerStep ==
    ASSUME IInv, NEW s \in Segment, SetCurrent(s), UNCHANGED <<len, offset, fate>>,
           sinceSync' \in Nat, framesWritten' \in Nat, returned' \in Nat,
           pc # "record", pc' \in Steps \ {"record"}, pc \in Broken => pc' \in Broken,
           s.recs = Current.recs, s.bytes = Current.bytes, Layered(s),
           Current.streamSync <= s.streamSync, Current.indexSync <= s.indexSync
    PROVE  /\ TypeOK' /\ Earlier' /\ OffsetState' /\ RolledWhenFull'
           /\ Len(segs') = Len(segs) /\ Current' = s
           /\ Len(segs) > 1 => segs'[Len(segs) - 1] = segs[Len(segs) - 1]
           /\ \A k \in Nat : EndOf(s, k) = EndOf(Current, k)
           /\ UNCHANGED restVars =>
                 /\ ReturnedHere' = ReturnedHere
                 /\ \A lag \in Nat : OnDisk(lag) => OnDisk(lag)'
<1>0. /\ Len(segs) \in Nat \ {0}
      /\ Current.recs \in Seq(Record)
      /\ Current.streamSync \in Nat /\ Current.indexSync \in Nat
      /\ s.streamSync \in Nat /\ s.indexSync \in Nat
      /\ ReturnedHere \in Int
  BY CurrentType DEF IInv, Segment
<1>1. segs' \in Seq(Segment) /\ segs' # <<>> /\ Len(segs') = Len(segs) /\ Current' = s
        /\ Earlier'
  BY SetCurrentFacts DEF IInv
<1>2. Len(segs) > 1 => segs'[Len(segs) - 1] = segs[Len(segs) - 1]
  BY <1>0, SetCurrentFacts DEF IInv
<1>3. TypeOK'
  BY <1>1 DEF IInv, TypeOK
<1>4. \A k \in Nat : EndOf(s, k) = EndOf(Current, k)
  BY DEF EndOf
<1>5. Tiled(s)
  BY DEF IInv, OffsetState, Tiled, EndOf
<1>6. OffsetState'
  BY <1>0, <1>1, <1>4, <1>5 DEF IInv, OffsetState, TypeOK, Broken
<1>7. UNCHANGED restVars => ReturnedHere' = ReturnedHere
  BY <1>1 DEF ReturnedHere, restVars
<1>8. RolledWhenFull'
  <2>1. Len(segs) > 1 /\ s.recs # <<>> =>
            segs[Len(segs) - 1].bytes + s.recs[1].len > SegmentBytes
    BY <1>0 DEF IInv, RollState, RolledWhenFull, Current
  <2> QED  BY <2>1, RolledStays DEF IInv, RollState
<1>9. ASSUME UNCHANGED restVars, NEW lag \in Nat, OnDisk(lag) PROVE OnDisk(lag)'
  <2>1. \A k \in 0..Len(s.recs) : EndOf(s, k) \in Nat
    BY EndType
  <2> QED  BY SMTT(30), <1>0, <1>1, <1>4, <1>7, <1>9, <2>1 DEF OnDisk
<1> QED  BY <1>1, <1>2, <1>3, <1>4, <1>6, <1>7, <1>8, <1>9

\* Where the numbers of the open segment lie.
LEMMA Ranges ==
    ASSUME IInv
    PROVE  /\ ReturnedHere \in 0..Len(Current.recs)
           /\ Current.indexOs \in 0..Len(Current.recs)
           /\ Current.indexSync \in 0..Current.indexOs
           /\ Current.streamOs \in 0..Current.bytes
           /\ Current.streamSync \in 0..Current.streamOs
           /\ \A k \in 0..Len(Current.recs) :
                 EndOf(Current, k) \in 0..EndOf(Current, Len(Current.recs))
           /\ EndOf(Current, Len(Current.recs)) <= Current.bytes
           /\ \A k \in 0..Len(Current.recs) : EndOf(Current, k) \in 0..Current.bytes
<1>1. ReturnedHere \in 0..Len(Current.recs)
  BY CurrentType DEF IInv, ReturnedHere, TypeOK, CallState
<1>2. \A k \in 0..Len(Current.recs) :
          EndOf(Current, k) \in 0..EndOf(Current, Len(Current.recs))
  BY CurrentType, EndType DEF IInv, OffsetState, Tiled
<1>3. EndOf(Current, Len(Current.recs)) <= Current.bytes
  BY CurrentType DEF IInv, OffsetState, TypeOK
<1>4. \A k \in 0..Len(Current.recs) : EndOf(Current, k) \in 0..Current.bytes
  <2>1. Len(Current.recs) \in Nat /\ Current.bytes \in Nat
    BY CurrentType DEF IInv
  <2>2. EndOf(Current, Len(Current.recs)) \in Nat
    BY <1>2, <2>1
  <2> QED  BY <1>2, <1>3, <2>1, <2>2
<1> QED  BY <1>1, <1>2, <1>3, <1>4, CurrentType DEF IInv, OffsetState, Layered

-----------------------------------------------------------------------------
(* The steps of write(), rollover and close().                             *)

LEMMA InitIInv == Init => IInv
<1> SUFFICES ASSUME Init PROVE IInv
  OBVIOUS
<1>1. Current = NewSegment /\ Len(segs) = 1 /\ NewSegment \in Segment
  BY DEF Init, Current, NewSegment, Segment
<1>2. TypeOK /\ Earlier
  BY <1>1 DEF Init, TypeOK, Steps, Earlier
<1>3. OffsetState /\ CallState
  BY <1>1 DEF Init, OffsetState, CallState, Layered, Tiled, EndOf, NewSegment, Flushing, Broken
<1>4. ReturnedHere = 0
  BY <1>1 DEF Init, ReturnedHere, NewSegment
<1>5. CacheState /\ SyncState
  BY <1>1, <1>4, LimitAssumption
  DEF Init, CacheState, SyncState, OnDisk, EndOf, NewSegment, Flushing, Broken
<1>6. CloseState /\ RollState
  BY <1>1, LimitAssumption
  DEF Init, CloseState, RollState, RolledWhenFull, NewSegment, Flushing, Broken, Rolling, Writing
<1> QED  BY <1>2, <1>3, <1>5, <1>6 DEF IInv

\* The stream is flushed and synced, on the way to a rollover, to the end or
\* after some frames.
LEMMA StreamSyncKeeps ==
    IInv /\ (RollStream \/ SyncStream \/ CloseStream) => IInv'
<1> SUFFICES ASSUME IInv, RollStream \/ SyncStream \/ CloseStream PROVE IInv'
  OBVIOUS
<1> DEFINE s == StreamSynced(Current)
<1>0. /\ Current \in Segment /\ s \in Segment
      /\ s.recs = Current.recs /\ s.bytes = Current.bytes
      /\ s.streamOs = Current.bytes /\ s.streamSync = Current.bytes
      /\ s.indexOs = Current.indexOs /\ s.indexSync = Current.indexSync
  BY CurrentType DEF IInv, StreamSynced, Segment
<1>1. /\ SetCurrent(s) /\ UNCHANGED restVars /\ fate = "alive"
      /\ \/ pc = "rollStream" /\ pc' = "rollIndex"
         \/ pc = "syncStream" /\ pc' = "syncIndex"
         \/ pc = "closeStream" /\ pc' = "closeIndex"
  BY DEF RollStream, SyncStream, CloseStream, FileStep, Step
<1>2. /\ Layered(s)
      /\ Current.streamSync <= s.streamSync /\ Current.indexSync <= s.indexSync
  BY <1>0, CurrentType DEF IInv, OffsetState, Layered
<1> HIDE DEF s
<1>3. /\ TypeOK' /\ Earlier' /\ OffsetState' /\ RolledWhenFull'
      /\ Len(segs') = Len(segs) /\ Current' = s
      /\ Len(segs) > 1 => segs'[Len(segs) - 1] = segs[Len(segs) - 1]
      /\ ReturnedHere' = ReturnedHere
      /\ \A k \in Nat : EndOf(s, k) = EndOf(Current, k)
      /\ \A lag \in Nat : OnDisk(lag) => OnDisk(lag)'
  <2>1. pc # "record" /\ pc' \in Steps \ {"record"} /\ (pc \in Broken => pc' \in Broken)
    BY <1>1 DEF Steps, Broken
  <2> QED  BY <1>0, <1>1, <1>2, <2>1, LayerStep DEF IInv, TypeOK, restVars
<1>4. CallState'
  BY <1>0, <1>1, <1>3 DEF IInv, CallState, Flushing, Broken, restVars
<1>5. CacheState'
  <2>1. EndOf(s, ReturnedHere) = EndOf(Current, ReturnedHere)
          /\ EndOf(s, Current.indexOs) = EndOf(Current, Current.indexOs)
    BY <1>3, Ranges
  <2>2. EndOf(Current, ReturnedHere) \in Nat /\ EndOf(Current, Current.indexOs) \in Nat
    BY Ranges, CurrentType DEF IInv
  <2>3. EndOf(Current, ReturnedHere) <= Current.bytes
          /\ EndOf(Current, Current.indexOs) <= Current.bytes
    BY Ranges, CurrentType, <2>2 DEF IInv
  <2> QED  BY <1>0, <1>1, <1>3, <2>1, <2>2, <2>3, Ranges, CurrentType
           DEF IInv, CacheState, Flushing, restVars
<1>6. SyncState'
  BY <1>1, <1>3, LimitAssumption DEF IInv, TypeOK, SyncState, Broken, restVars
<1>7. CloseState'
  BY <1>0, <1>1, <1>3 DEF CloseState
<1>8. RollState'
  BY <1>0, <1>1, <1>3 DEF IInv, RollState, Rolling, Writing, Broken, restVars
<1> QED  BY <1>3, <1>4, <1>5, <1>6, <1>7, <1>8 DEF IInv

\* The index is synced, on the way to a rollover or to the end.
LEMMA IndexSyncKeeps == IInv /\ (RollIndex \/ CloseIndex) => IInv'
<1> SUFFICES ASSUME IInv, RollIndex \/ CloseIndex PROVE IInv'
  OBVIOUS
<1> DEFINE s == IndexSynced(Current)
<1>0. /\ s \in Segment
      /\ s.recs = Current.recs /\ s.bytes = Current.bytes
      /\ s.streamOs = Current.streamOs /\ s.streamSync = Current.streamSync
      /\ s.indexOs = Len(Current.recs) /\ s.indexSync = Len(Current.recs)
  <2>1. Current \in Segment /\ Len(Current.recs) \in Nat
    BY CurrentType DEF IInv
  <2> QED  BY <2>1 DEF IndexSynced, Segment
<1>1. /\ SetCurrent(s) /\ UNCHANGED restVars /\ fate = "alive"
      /\ \/ pc = "rollIndex" /\ pc' = "open"
         \/ pc = "closeIndex" /\ pc' = "closed"
  BY DEF RollIndex, CloseIndex, FileStep, Step
<1>2. Layered(s) /\ Current.streamSync <= s.streamSync /\ Current.indexSync <= s.indexSync
  BY <1>0, Ranges, CurrentType DEF Layered
<1> HIDE DEF s
<1>3. /\ TypeOK' /\ Earlier' /\ OffsetState' /\ RolledWhenFull'
      /\ Len(segs') = Len(segs) /\ Current' = s
      /\ Len(segs) > 1 => segs'[Len(segs) - 1] = segs[Len(segs) - 1]
      /\ ReturnedHere' = ReturnedHere
      /\ \A k \in Nat : EndOf(s, k) = EndOf(Current, k)
      /\ \A lag \in Nat : OnDisk(lag) => OnDisk(lag)'
  <2>1. pc # "record" /\ pc' \in Steps \ {"record"} /\ (pc \in Broken => pc' \in Broken)
    BY <1>1 DEF Steps, Broken
  <2> QED  BY <1>0, <1>1, <1>2, <2>1, LayerStep DEF IInv, TypeOK, restVars
<1>4. CallState'
  BY <1>0, <1>1, <1>3 DEF IInv, CallState, Flushing, Broken, restVars
<1>5. CacheState'
  <2>1. ReturnedHere = Len(Current.recs)
    BY <1>1, CurrentType DEF IInv, ReturnedHere, CallState, Flushing, Broken, TypeOK
  <2>2. EndOf(s, Len(Current.recs)) = EndOf(Current, Len(Current.recs))
    BY <1>3, Ranges
  <2> QED  BY <1>0, <1>1, <1>3, <2>1, <2>2, Ranges DEF IInv, CacheState, Flushing, restVars
<1>6. SyncState'
  BY <1>1, <1>3, LimitAssumption DEF IInv, TypeOK, SyncState, Broken, restVars
<1>7. CloseState'
  BY <1>0, <1>1, <1>3 DEF IInv, CloseState
<1>8. RollState'
  BY <1>0, <1>1, <1>3 DEF IInv, RollState, Rolling, Writing, Broken, restVars
<1> QED  BY <1>3, <1>4, <1>5, <1>6, <1>7, <1>8 DEF IInv

\* An operation on a file fails, or the files are collected afterwards.
LEMMA ErrorKeeps == IInv /\ (IoError \/ Abandon) => IInv'
<1> SUFFICES ASSUME IInv, IoError \/ Abandon PROVE IInv'
  OBVIOUS
<1>0. PICK so \in Current.streamOs..Current.bytes, io \in Current.indexOs..Len(Current.recs) :
          /\ SetCurrent([Current EXCEPT !.streamOs = so, !.indexOs = io])
          /\ UNCHANGED restVars /\ fate = "alive"
          /\ \/ pc \in FileOps /\ pc' = "failed" /\ io = Current.indexOs
             \/ pc = "failed" /\ pc' = "abandoned"
  <2>1. CASE IoError
    <3>1. PICK so \in Current.streamOs..Current.bytes :
              FileStep(pc, "failed", [Current EXCEPT !.streamOs = so])
      BY SMTT(30), <2>1, Ranges, CurrentType DEF IInv, IoError
    <3>2. [Current EXCEPT !.streamOs = so]
            = [Current EXCEPT !.streamOs = so, !.indexOs = Current.indexOs]
      BY CurrentType DEF IInv, Segment
    <3>3. Current.indexOs \in Current.indexOs..Len(Current.recs)
      BY Ranges
    <3> QED  BY <2>1, <3>1, <3>2, <3>3 DEF IoError, FileStep, Step
  <2>2. CASE Abandon
    BY <2>2 DEF Abandon, FileStep, Step
  <2> QED  BY <2>1, <2>2
<1> DEFINE s == [Current EXCEPT !.streamOs = so, !.indexOs = io]
<1>1. /\ s \in Segment
      /\ s.recs = Current.recs /\ s.bytes = Current.bytes
      /\ s.streamOs = so /\ s.streamSync = Current.streamSync
      /\ s.indexOs = io /\ s.indexSync = Current.indexSync
  <2>1. /\ Current \in Segment /\ Current.streamOs \in Nat /\ Current.indexOs \in Nat
        /\ Current.bytes \in Nat /\ Len(Current.recs) \in Nat
    BY CurrentType DEF IInv
  <2>2. so \in Nat /\ io \in Nat
    BY <2>1
  <2> QED  BY <2>1, <2>2 DEF Segment
<1>2. Layered(s) /\ Current.streamSync <= s.streamSync /\ Current.indexSync <= s.indexSync
  BY <1>1, Ranges, CurrentType DEF Layered
<1>p. SetCurrent(s)
  BY <1>0
<1> HIDE DEF s
<1>3. /\ TypeOK' /\ Earlier' /\ OffsetState' /\ RolledWhenFull'
      /\ Len(segs') = Len(segs) /\ Current' = s
      /\ Len(segs) > 1 => segs'[Len(segs) - 1] = segs[Len(segs) - 1]
      /\ ReturnedHere' = ReturnedHere
      /\ \A k \in Nat : EndOf(s, k) = EndOf(Current, k)
      /\ \A lag \in Nat : OnDisk(lag) => OnDisk(lag)'
  <2>1. pc # "record" /\ pc' \in Steps \ {"record"} /\ (pc \in Broken => pc' \in Broken)
    BY <1>0 DEF Steps, Broken, FileOps, StreamFlushes
  <2> QED  BY <1>0, <1>p, <1>1, <1>2, <2>1, LayerStep DEF IInv, TypeOK, restVars
<1>4. CallState'
  BY <1>0, <1>1, <1>3 DEF IInv, TypeOK, CallState, Flushing, Broken, restVars
<1>5. CacheState'
  <2>1. EndOf(s, ReturnedHere) = EndOf(Current, ReturnedHere)
          /\ EndOf(s, Current.indexOs) = EndOf(Current, Current.indexOs)
    BY <1>3, Ranges
  <2>2. EndOf(Current, ReturnedHere) \in Nat /\ EndOf(Current, Current.indexOs) \in Nat
    BY Ranges, CurrentType DEF IInv
  <2>3. fate # "powercut" /\ pc # "abandoned"
    BY <1>0 DEF FileOps, StreamFlushes
  <2> QED  BY SMTT(30), <1>0, <1>1, <1>3, <2>1, <2>2, <2>3, Ranges, CurrentType
           DEF IInv, CacheState, Flushing, restVars
<1>6. SyncState'
  BY <1>0, <1>3, LimitAssumption DEF IInv, TypeOK, SyncState, Broken, restVars
<1>7. CloseState'
  BY <1>0, <1>1, <1>3 DEF IInv, CloseState
<1>8. RollState'
  <2>1. Bounded(s)
    <3>1. CASE pc \in Writing
      <4>1. Current.bytes \in {offset, offset + len}
        BY <3>1 DEF IInv, OffsetState, Writing, Broken
      <4>2. Current.recs = <<>> => Len(Current.recs) = 0
        OBVIOUS
      <4> QED  BY <1>1, <3>1, <4>1, <4>2, CurrentType, LimitAssumption
               DEF IInv, TypeOK, RollState, Writing, Bounded
    <3>2. CASE pc \in Broken
      BY <1>1, <3>2 DEF IInv, RollState, Bounded
    <3>3. CASE pc \notin Writing \cup Broken
      BY <1>1, <3>3 DEF IInv, OffsetState, RollState, Writing, Broken, Bounded
    <3> QED  BY <3>1, <3>2, <3>3
  <2> QED  BY <1>0, <1>1, <1>3, <2>1 DEF IInv, RollState, Rolling, Writing, Broken, restVars
<1> QED  BY <1>3, <1>4, <1>5, <1>6, <1>7, <1>8 DEF IInv

\* The stream of a frame is flushed.
LEMMA FlushStreamKeeps == IInv /\ FlushStream => IInv'
<1> SUFFICES ASSUME IInv, FlushStream PROVE IInv'
  OBVIOUS
<1> DEFINE s == [Current EXCEPT !.streamOs = Current.bytes]
<1>0. /\ s \in Segment
      /\ s.recs = Current.recs /\ s.bytes = Current.bytes
      /\ s.streamOs = Current.bytes /\ s.streamSync = Current.streamSync
      /\ s.indexOs = Current.indexOs /\ s.indexSync = Current.indexSync
  BY CurrentType DEF IInv, Segment
<1>1. /\ SetCurrent(s) /\ UNCHANGED restVars /\ fate = "alive"
      /\ pc = "flushStream" /\ pc' = "flushIndex"
  BY DEF FlushStream, FileStep, Step
<1>2. Layered(s) /\ Current.streamSync <= s.streamSync /\ Current.indexSync <= s.indexSync
  BY <1>0, Ranges, CurrentType DEF IInv, Layered
<1> HIDE DEF s
<1>3. /\ TypeOK' /\ Earlier' /\ OffsetState' /\ RolledWhenFull'
      /\ Len(segs') = Len(segs) /\ Current' = s
      /\ Len(segs) > 1 => segs'[Len(segs) - 1] = segs[Len(segs) - 1]
      /\ ReturnedHere' = ReturnedHere
      /\ \A k \in Nat : EndOf(s, k) = EndOf(Current, k)
      /\ \A lag \in Nat : OnDisk(lag) => OnDisk(lag)'
  <2>1. pc # "record" /\ pc' \in Steps \ {"record"} /\ (pc \in Broken => pc' \in Broken)
    BY <1>1 DEF Steps, Broken
  <2> QED  BY <1>0, <1>1, <1>2, <2>1, LayerStep DEF IInv, TypeOK, restVars
<1>4. CallState'
  BY <1>0, <1>1, <1>3 DEF IInv, CallState, Flushing, Broken, restVars
<1>5. CacheState'
  <2>1. EndOf(s, ReturnedHere) = EndOf(Current, ReturnedHere)
          /\ EndOf(s, Current.indexOs) = EndOf(Current, Current.indexOs)
    BY <1>3, Ranges
  <2>2. EndOf(Current, ReturnedHere) \in 0..Current.bytes
          /\ EndOf(Current, Current.indexOs) \in 0..Current.bytes
    BY Ranges
  <2> QED  BY <1>0, <1>1, <1>3, <2>1, <2>2, Ranges, CurrentType
           DEF IInv, CacheState, Flushing, restVars
<1>6. SyncState'
  BY <1>1, <1>3, LimitAssumption DEF IInv, TypeOK, SyncState, Broken, restVars
<1>7. CloseState'
  BY <1>0, <1>1, <1>3 DEF IInv, CloseState
<1>8. RollState'
  BY <1>0, <1>1, <1>3 DEF IInv, RollState, Rolling, Writing, Broken, restVars
<1> QED  BY <1>3, <1>4, <1>5, <1>6, <1>7, <1>8 DEF IInv

\* The index of a frame is flushed, and the call returns or goes on to fsync.
LEMMA FlushIndexKeeps == IInv /\ FlushIndex => IInv'
<1> SUFFICES ASSUME IInv, FlushIndex PROVE IInv'
  OBVIOUS
<1> DEFINE s == Flushed(Current)
<1>0. /\ s \in Segment
      /\ s.recs = Current.recs /\ s.bytes = Current.bytes
      /\ s.streamOs = Current.streamOs /\ s.streamSync = Current.streamSync
      /\ s.indexOs = Len(Current.recs) /\ s.indexSync = Current.indexSync
  <2>1. Current \in Segment /\ Len(Current.recs) \in Nat
    BY CurrentType DEF IInv
  <2> QED  BY <2>1 DEF Flushed, Segment
<1>1. /\ SetCurrent(s) /\ UNCHANGED <<len, offset, framesWritten, fate>> /\ fate = "alive"
      /\ pc = "flushIndex" /\ pc' \in {"syncStream", "idle"}
      /\ sinceSync' = IF FsyncEvery = 0 THEN sinceSync ELSE sinceSync + 1
      /\ pc' = "syncStream" => FsyncEvery # 0 /\ sinceSync' >= FsyncEvery /\ returned' = returned
      /\ pc' = "idle" => /\ FsyncEvery = 0 \/ ~(sinceSync' >= FsyncEvery)
                         /\ returned' = returned + 1
  BY DEF FlushIndex, Due, Step
<1>2. Layered(s) /\ Current.streamSync <= s.streamSync /\ Current.indexSync <= s.indexSync
  BY <1>0, Ranges, CurrentType DEF IInv, Layered
<1> HIDE DEF s
<1>3. /\ TypeOK' /\ Earlier' /\ OffsetState' /\ RolledWhenFull'
      /\ Len(segs') = Len(segs) /\ Current' = s
      /\ Len(segs) > 1 => segs'[Len(segs) - 1] = segs[Len(segs) - 1]
      /\ \A k \in Nat : EndOf(s, k) = EndOf(Current, k)
  <2>1. pc # "record" /\ pc' \in Steps \ {"record"} /\ (pc \in Broken => pc' \in Broken)
    BY <1>1 DEF Steps, Broken
  <2>2. sinceSync' \in Nat /\ framesWritten' \in Nat /\ returned' \in Nat
    BY <1>1 DEF IInv, TypeOK
  <2> QED  BY <1>0, <1>1, <1>2, <2>1, <2>2, LayerStep
<1>r. /\ framesWritten = returned + 1 /\ ReturnedHere = Len(Current.recs) - 1
      /\ pc' = "idle" => ReturnedHere' = ReturnedHere + 1
      /\ pc' = "syncStream" => ReturnedHere' = ReturnedHere
  BY <1>0, <1>1, <1>3, CurrentType DEF IInv, CallState, Flushing, ReturnedHere, TypeOK
<1>4. CallState'
  BY <1>0, <1>1, <1>3 DEF IInv, TypeOK, CallState, Flushing, Broken
<1>5. CacheState'
  <2>1. \A k \in 0..Len(Current.recs) : EndOf(s, k) \in 0..Current.bytes
    <3>1. \A k \in 0..Len(Current.recs) : EndOf(s, k) = EndOf(Current, k)
      BY <1>3
    <3> QED  BY <3>1, Ranges
  <2>2. ReturnedHere' \in 0..Len(Current.recs) /\ Len(Current.recs) \in Nat
    BY SMTT(30), <1>1, <1>r, Ranges, CurrentType DEF IInv
  <2>3. Current.streamOs = Current.bytes
    BY <1>1 DEF IInv, CacheState, Flushing
  <2>4. EndOf(s, ReturnedHere') <= Current.bytes /\ EndOf(s, Len(Current.recs)) <= Current.bytes
    BY <2>1, <2>2, CurrentType DEF IInv
  <2> QED  BY <1>0, <1>1, <1>3, <2>2, <2>3, <2>4 DEF CacheState
<1>6. SyncState'
  <2> SUFFICES ASSUME FsyncEvery # 0
               PROVE  /\ OnDisk(FsyncEvery - 1)' /\ OnDisk(sinceSync)'
                      /\ pc' = "idle" => sinceSync' < FsyncEvery
    BY <1>1 DEF SyncState, Broken
  <2>1. /\ sinceSync \in Nat /\ FsyncEvery \in Nat \ {0} /\ sinceSync < FsyncEvery
        /\ OnDisk(sinceSync) /\ OnDisk(FsyncEvery - 1) /\ sinceSync' = sinceSync + 1
    BY <1>1, LimitAssumption DEF IInv, TypeOK, SyncState, Broken
  <2>2. /\ ReturnedHere \in Int /\ Current.indexSync \in Nat /\ Len(Current.recs) \in Nat
        /\ \A k \in 0..Len(Current.recs) : EndOf(s, k) = EndOf(Current, k)
    BY <1>3, CurrentType DEF IInv
  <2>3. OnDisk(sinceSync)'
    <3>1. /\ Current'.indexSync = Current.indexSync /\ Current'.recs = Current.recs
          /\ Current'.streamSync = Current.streamSync
          /\ ReturnedHere' <= ReturnedHere + 1
      BY <1>0, <1>1, <1>3, <1>r, <2>2
    <3>2. ReturnedHere' <= Current'.indexSync + sinceSync'
      BY <2>1, <2>2, <3>1, <1>r, <1>1 DEF OnDisk
    <3>3. ASSUME NEW k \in 0..Len(Current'.recs), k + sinceSync' <= ReturnedHere'
          PROVE  EndOf(Current', k) <= Current'.streamSync
      <4>1. k + sinceSync <= ReturnedHere
        BY <2>1, <2>2, <3>1, <3>3, <1>r, <1>1
      <4>2. EndOf(Current, k) <= Current.streamSync
        BY <2>1, <3>1, <4>1 DEF OnDisk
      <4> QED  BY <1>3, <2>2, <3>1, <4>2
    <3> QED  BY <3>2, <3>3 DEF OnDisk
  <2>4. OnDisk(FsyncEvery - 1)'
    BY SMTT(30), <1>0, <1>1, <1>3, <1>r, <2>1, <2>2 DEF OnDisk
  <2> QED  BY <1>1, <2>1, <2>3, <2>4
<1>7. CloseState'
  BY <1>1 DEF CloseState
<1>8. RollState'
  BY <1>0, <1>1, <1>3 DEF IInv, RollState, Rolling, Writing, Broken
<1> QED  BY <1>3, <1>4, <1>5, <1>6, <1>7, <1>8 DEF IInv

\* The fsync of both files is complete, and the call returns.
LEMMA SyncIndexKeeps == IInv /\ SyncIndex => IInv'
<1> SUFFICES ASSUME IInv, SyncIndex PROVE IInv'
  OBVIOUS
<1> DEFINE s == IndexSynced(Current)
<1>0. /\ s \in Segment
      /\ s.recs = Current.recs /\ s.bytes = Current.bytes
      /\ s.streamOs = Current.streamOs /\ s.streamSync = Current.streamSync
      /\ s.indexOs = Len(Current.recs) /\ s.indexSync = Len(Current.recs)
  <2>1. Current \in Segment /\ Len(Current.recs) \in Nat
    BY CurrentType DEF IInv
  <2> QED  BY <2>1 DEF IndexSynced, Segment
<1>1. /\ SetCurrent(s) /\ UNCHANGED <<len, offset, framesWritten, fate>> /\ fate = "alive"
      /\ pc = "syncIndex" /\ pc' = "idle"
      /\ sinceSync' = 0 /\ returned' = returned + 1
  BY DEF SyncIndex, Step
<1>2. Layered(s) /\ Current.streamSync <= s.streamSync /\ Current.indexSync <= s.indexSync
  BY <1>0, Ranges, CurrentType DEF IInv, Layered
<1> HIDE DEF s
<1>3. /\ TypeOK' /\ Earlier' /\ OffsetState' /\ RolledWhenFull'
      /\ Len(segs') = Len(segs) /\ Current' = s
      /\ Len(segs) > 1 => segs'[Len(segs) - 1] = segs[Len(segs) - 1]
      /\ \A k \in Nat : EndOf(s, k) = EndOf(Current, k)
  <2>1. pc # "record" /\ pc' \in Steps \ {"record"} /\ (pc \in Broken => pc' \in Broken)
    BY <1>1 DEF Steps, Broken
  <2>2. sinceSync' \in Nat /\ framesWritten' \in Nat /\ returned' \in Nat
    BY <1>1 DEF IInv, TypeOK
  <2> QED  BY <1>0, <1>1, <1>2, <2>1, <2>2, LayerStep
<1>r. /\ framesWritten = returned + 1 /\ ReturnedHere' = Len(Current.recs)
      /\ Len(Current.recs) \in Nat /\ Current.bytes \in Nat
  <2>1. framesWritten = returned + 1
    BY <1>1 DEF IInv, CallState, Flushing
  <2>2. returned \in Nat /\ framesWritten \in Nat
    BY DEF IInv, TypeOK
  <2>3. Len(Current.recs) \in Nat /\ Current.bytes \in Nat
    BY CurrentType DEF IInv
  <2>4. framesWritten' - returned' = 0
    BY <1>1, <2>1, <2>2
  <2>5. Current'.recs = Current.recs
    BY <1>0, <1>3
  <2> QED  BY <2>1, <2>3, <2>4, <2>5 DEF ReturnedHere
<1>e. \A k \in 0..Len(Current.recs) : EndOf(s, k) \in 0..Current.bytes
  <2>1. \A k \in 0..Len(Current.recs) : EndOf(s, k) = EndOf(Current, k)
    BY <1>3
  <2> QED  BY <2>1, Ranges
<1>o. Current.streamOs = Current.bytes /\ Current.streamSync = Current.bytes
  BY <1>1 DEF IInv, CacheState, CloseState, Flushing
<1>4. CallState'
  BY <1>0, <1>1, <1>3 DEF IInv, TypeOK, CallState, Flushing, Broken
<1>5. CacheState'
  BY <1>0, <1>1, <1>3, <1>r, <1>e, <1>o DEF CacheState
<1>6. SyncState'
  <2>1. /\ Current'.recs = Current.recs /\ Current'.indexSync = Len(Current.recs)
        /\ Current'.streamSync = Current.bytes
    BY <1>0, <1>3, <1>o
  <2>2. \A k \in 0..Len(Current.recs) : EndOf(Current', k) <= Current.bytes
    BY <1>3, <1>e, <1>r
  <2>3. ASSUME NEW lag \in Nat PROVE OnDisk(lag)'
    BY <1>r, <2>1, <2>2 DEF OnDisk
  <2>4. FsyncEvery # 0 => FsyncEvery - 1 \in Nat /\ 0 < FsyncEvery
    BY LimitAssumption
  <2> QED  BY <1>1, <2>3, <2>4 DEF SyncState
<1>7. CloseState'
  BY <1>1 DEF CloseState
<1>8. RollState'
  BY <1>0, <1>1, <1>3 DEF IInv, RollState, Rolling, Writing, Broken
<1> QED  BY <1>3, <1>4, <1>5, <1>6, <1>7, <1>8 DEF IInv

\* Nothing happens to the files: a call begins, or the process or the machine
\* dies.
LEMMA BeginKeeps ==
    IInv /\ ((\E n \in Lens : Write(n)) \/ Close \/ Kill \/ PowerCut \/ UNCHANGED vars)
        => IInv'
<1> SUFFICES ASSUME IInv,
                    (\E n \in Lens : Write(n)) \/ Close \/ Kill \/ PowerCut \/ UNCHANGED vars
             PROVE  IInv'
  OBVIOUS
<1>1. /\ UNCHANGED <<segs, offset, sinceSync, framesWritten, returned>>
      /\ \/ /\ pc = "idle" /\ fate' = fate /\ len' \in Nat
            /\ \/ pc' = "closeStream"
               \/ pc' = "rollStream" /\ SegmentBytes # 0 /\ offset + len' > SegmentBytes
               \/ pc' = "data" /\ (SegmentBytes = 0 \/ ~(offset + len' > SegmentBytes))
         \/ UNCHANGED <<pc, len>> /\ fate' \in {fate, "killed", "powercut"}
              /\ (fate' # "powercut" => fate # "powercut")
  <2>1. ASSUME NEW n \in Lens, Write(n)
        PROVE  /\ UNCHANGED <<segs, offset, sinceSync, framesWritten, returned>>
               /\ pc = "idle" /\ fate' = fate /\ len' \in Nat
               /\ \/ pc' = "rollStream" /\ SegmentBytes # 0 /\ offset + len' > SegmentBytes
                  \/ pc' = "data" /\ (SegmentBytes = 0 \/ ~(offset + len' > SegmentBytes))
    BY <2>1, LensAssumption DEF Write, Step, Full
  <2>2. CASE Close
    BY <2>2 DEF Close, Step, restVars, IInv, TypeOK
  <2>3. CASE Kill \/ PowerCut
    BY <2>3 DEF Kill, PowerCut, Dies
  <2>4. CASE UNCHANGED vars
    BY <2>4 DEF vars, restVars
  <2> QED  BY <2>1, <2>2, <2>3, <2>4
<1>2. Current' = Current /\ ReturnedHere' = ReturnedHere
  BY <1>1 DEF Current, ReturnedHere
<1>3. \A lag \in Nat : OnDisk(lag) => OnDisk(lag)'
  BY <1>2 DEF OnDisk
<1>4. TypeOK' /\ Earlier'
  BY <1>1 DEF IInv, TypeOK, Steps, Earlier
<1>5. OffsetState'
  BY <1>1, <1>2 DEF IInv, OffsetState, Broken
<1>6. CallState'
  BY <1>1, <1>2 DEF IInv, CallState, Flushing, Broken
<1>7. CacheState'
  BY <1>1, <1>2 DEF IInv, CacheState, Flushing
<1>8. SyncState'
  BY <1>1, <1>3, LimitAssumption DEF IInv, TypeOK, SyncState, Broken
<1>9. CloseState'
  BY <1>1, <1>2 DEF IInv, CloseState
<1>10. RollState'
  <2>1. RolledWhenFull'
    BY <1>1 DEF IInv, RollState, RolledWhenFull
  <2>2. offset \in Nat /\ len \in Nat /\ SegmentBytes \in Nat
    BY LimitAssumption DEF IInv, TypeOK
  <2> QED  BY <1>1, <1>2, <2>1, <2>2 DEF IInv, RollState, Rolling, Writing, Broken
<1> QED  BY <1>4, <1>5, <1>6, <1>7, <1>8, <1>9, <1>10 DEF IInv

\* The segment just sealed joins the finished ones, and the next is empty.
LEMMA OpenNextKeeps == IInv /\ OpenNext => IInv'
<1> SUFFICES ASSUME IInv, OpenNext PROVE IInv'
  OBVIOUS
<1>1. /\ segs' = Append(segs, NewSegment) /\ offset' = 0
      /\ UNCHANGED <<len, sinceSync, framesWritten, returned, fate>>
      /\ fate = "alive" /\ pc = "open" /\ pc' = "data"
  BY DEF OpenNext, OffsetReset, Step
<1>2. Len(segs) \in Nat \ {0} /\ NewSegment \in Segment /\ NewSegment.recs = <<>>
  BY CurrentType DEF IInv, NewSegment, Segment
<1>3. /\ Len(segs') = Len(segs) + 1 /\ Current' = NewSegment
      /\ \A i \in 1..Len(segs) : segs'[i] = segs[i]
  BY <1>1, <1>2 DEF IInv, TypeOK, Current
<1>4. TypeOK'
  BY <1>1, <1>2 DEF IInv, TypeOK, Steps
<1>5. Finished(Current)
  <2>1. Current.bytes = offset /\ Layered(Current) /\ Tiled(Current)
          /\ EndOf(Current, Len(Current.recs)) = offset
    BY <1>1 DEF IInv, OffsetState, Broken
  <2>2. Sealed(Current)
    BY <1>1 DEF IInv, CloseState, Sealed
  <2>3. Bounded(Current)
    BY <2>1 DEF IInv, RollState, Bounded
  <2> QED  BY <2>1, <2>2, <2>3 DEF Finished
<1>6. Earlier'
  BY <1>2, <1>3, <1>5 DEF IInv, Earlier, Current
<1>7. framesWritten = returned /\ ReturnedHere' = 0
  BY <1>1, <1>2, <1>3 DEF IInv, TypeOK, CallState, Flushing, Broken, ReturnedHere
<1>8. OffsetState' /\ CallState'
  BY <1>1, <1>3, <1>7
  DEF IInv, OffsetState, CallState, Layered, Tiled, EndOf, NewSegment, Flushing, Broken
<1>9. CacheState'
  BY <1>1, <1>3, <1>7 DEF CacheState, EndOf, NewSegment, Flushing
<1>10. SyncState'
  <2>1. \A lag \in Nat : OnDisk(lag)'
    BY <1>3, <1>7 DEF OnDisk, EndOf, NewSegment
  <2> QED  BY <1>1, <2>1, LimitAssumption DEF IInv, TypeOK, SyncState, Broken
<1>11. CloseState'
  BY <1>1 DEF CloseState
<1>12. RollState'
  <2>1. segs'[Len(segs') - 1].bytes = offset
    BY <1>1, <1>2, <1>3 DEF IInv, OffsetState, Current, Broken
  <2>2. SegmentBytes # 0 /\ offset + len > SegmentBytes
    BY <1>1 DEF IInv, RollState, Rolling
  <2>3. RolledWhenFull'
    <3> SUFFICES ASSUME NEW i \in 1..Len(segs') - 1, segs'[i + 1].recs # <<>>
                 PROVE  segs'[i].bytes + segs'[i + 1].recs[1].len > SegmentBytes
      BY DEF RolledWhenFull
    <3>1. i + 1 # Len(segs') /\ i \in 1..Len(segs)
      BY <1>2, <1>3 DEF Current
    <3>2. i \in 1..Len(segs) - 1 /\ i + 1 \in 1..Len(segs)
      BY <1>2, <1>3, <3>1
    <3> QED  BY <1>3, <3>1, <3>2 DEF IInv, RollState, RolledWhenFull
  <2>4. SegmentBytes \in Nat /\ len \in Nat /\ offset \in Nat
    BY LimitAssumption DEF IInv, TypeOK
  <2> QED  BY <1>1, <1>2, <1>3, <2>1, <2>2, <2>3, <2>4 DEF RollState, Rolling, Writing, Broken
<1> QED  BY <1>4, <1>6, <1>8, <1>9, <1>10, <1>11, <1>12 DEF IInv

\* The bytes of a frame are written, some of them through the buffer.
LEMMA WriteDataKeeps == IInv /\ WriteData => IInv'
<1> SUFFICES ASSUME IInv, WriteData PROVE IInv'
  OBVIOUS
<1>t. /\ Current \in Segment /\ len \in Nat
      /\ Current.bytes \in Nat /\ Current.streamOs \in Nat /\ Current.streamSync \in Nat
      /\ Current.indexOs \in Nat /\ Current.indexSync \in Nat
      /\ Len(Current.recs) \in Nat /\ Len(segs) \in Nat \ {0}
  BY CurrentType DEF IInv, TypeOK
<1>0. PICK os \in Current.streamOs..(Current.bytes + len) :
          FileStep("data", "record", [Current EXCEPT !.bytes = @ + len, !.streamOs = os])
  BY DEF WriteData
<1> DEFINE s == [Current EXCEPT !.bytes = @ + len, !.streamOs = os]
<1>1. /\ s \in Segment
      /\ s.recs = Current.recs /\ s.bytes = Current.bytes + len
      /\ s.streamOs = os /\ s.streamSync = Current.streamSync
      /\ s.indexOs = Current.indexOs /\ s.indexSync = Current.indexSync
  <2>1. os \in Nat /\ Current.bytes + len \in Nat
    BY <1>t
  <2> QED  BY <1>t, <2>1 DEF Segment
<1>2. /\ SetCurrent(s) /\ UNCHANGED restVars /\ fate = "alive"
      /\ pc = "data" /\ pc' = "record"
  BY <1>0 DEF FileStep, Step
<1> HIDE DEF s
<1>3. /\ segs' \in Seq(Segment) /\ segs' # <<>> /\ Len(segs') = Len(segs)
      /\ Current' = s /\ Earlier'
      /\ \A i \in 1..Len(segs) : i # Len(segs) => segs'[i] = segs[i]
  BY <1>1, <1>2, SetCurrentFacts DEF IInv
<1>4. TypeOK'
  BY <1>2, <1>3 DEF IInv, TypeOK, Steps, restVars
<1>5. /\ ReturnedHere' = ReturnedHere
      /\ \A k \in Nat : EndOf(s, k) = EndOf(Current, k)
  BY <1>1, <1>2, <1>3 DEF ReturnedHere, EndOf, restVars
<1>6. OffsetState'
  <2>1. Layered(s)
    BY <1>t, <1>1, Ranges DEF Layered
  <2>2. Tiled(s)
    BY <1>1 DEF IInv, OffsetState, Tiled, EndOf
  <2>3. offset = EndOf(s, Len(s.recs)) /\ s.bytes = offset + len
    BY <1>t, <1>1, <1>2, <1>5 DEF IInv, OffsetState, Broken
  <2> QED  BY <1>2, <1>3, <2>1, <2>2, <2>3 DEF OffsetState, Broken, restVars
<1>7. CallState'
  BY <1>1, <1>2, <1>3 DEF IInv, CallState, Flushing, Broken, restVars
<1>8. CacheState'
  <2>1. EndOf(s, ReturnedHere) = EndOf(Current, ReturnedHere)
          /\ EndOf(s, Current.indexOs) = EndOf(Current, Current.indexOs)
    BY <1>5, <1>t, Ranges
  <2>2. EndOf(Current, ReturnedHere) \in Nat /\ EndOf(Current, Current.indexOs) \in Nat
    BY <1>t, Ranges
  <2> QED  BY <1>t, <1>1, <1>2, <1>3, <1>5, <2>1, <2>2, Ranges
           DEF IInv, CacheState, Flushing, restVars
<1>9. SyncState'
  <2>1. \A lag \in Nat : OnDisk(lag) => OnDisk(lag)'
    BY SMTT(30), <1>t, <1>1, <1>3, <1>5 DEF OnDisk
  <2> QED  BY <1>2, <2>1, LimitAssumption DEF IInv, TypeOK, SyncState, Broken, restVars
<1>10. CloseState'
  BY <1>2 DEF CloseState
<1>11. RollState'
  <2>1. RolledWhenFull'
    <3>1. Len(segs) > 1 /\ s.recs # <<>> =>
              segs[Len(segs) - 1].bytes + s.recs[1].len > SegmentBytes
      BY <1>t, <1>1 DEF IInv, RollState, RolledWhenFull, Current
    <3> QED  BY <1>1, <1>2, <3>1, RolledStays DEF IInv, RollState
  <2>2. Len(segs) > 1 => segs'[Len(segs) - 1] = segs[Len(segs) - 1]
    BY SMTT(30), <1>t, <1>3
  <2> QED  BY <1>1, <1>2, <1>3, <2>1, <2>2
           DEF IInv, RollState, Rolling, Writing, Broken, restVars
<1> QED  BY <1>3, <1>4, <1>6, <1>7, <1>8, <1>9, <1>10, <1>11 DEF IInv

\* Writing the bytes fails, and some of them have reached the file.
LEMMA SpillFailsKeeps == IInv /\ SpillFails => IInv'
<1> SUFFICES ASSUME IInv, SpillFails PROVE IInv'
  OBVIOUS
<1>t. /\ Current \in Segment /\ len \in Nat
      /\ Current.bytes \in Nat /\ Current.streamOs \in Nat /\ Current.streamSync \in Nat
      /\ Current.indexOs \in Nat /\ Current.indexSync \in Nat
      /\ Len(Current.recs) \in Nat /\ Len(segs) \in Nat \ {0}
  BY CurrentType DEF IInv, TypeOK
<1>0. PICK os \in Current.bytes..(Current.bytes + len) :
          FileStep("data", "failed", [Current EXCEPT !.bytes = os, !.streamOs = os])
  BY DEF SpillFails
<1> DEFINE s == [Current EXCEPT !.bytes = os, !.streamOs = os]
<1>1. /\ s \in Segment
      /\ s.recs = Current.recs /\ s.bytes = os
      /\ s.streamOs = os /\ s.streamSync = Current.streamSync
      /\ s.indexOs = Current.indexOs /\ s.indexSync = Current.indexSync
  <2>1. os \in Nat
    BY <1>t
  <2> QED  BY <1>t, <2>1 DEF Segment
<1>2. /\ SetCurrent(s) /\ UNCHANGED restVars /\ fate = "alive"
      /\ pc = "data" /\ pc' = "failed"
  BY <1>0 DEF FileStep, Step
<1> HIDE DEF s
<1>3. /\ segs' \in Seq(Segment) /\ segs' # <<>> /\ Len(segs') = Len(segs)
      /\ Current' = s /\ Earlier'
      /\ \A i \in 1..Len(segs) : i # Len(segs) => segs'[i] = segs[i]
  BY <1>1, <1>2, SetCurrentFacts DEF IInv
<1>4. TypeOK'
  BY <1>2, <1>3 DEF IInv, TypeOK, Steps, restVars
<1>5. /\ ReturnedHere' = ReturnedHere
      /\ \A k \in Nat : EndOf(s, k) = EndOf(Current, k)
  BY <1>1, <1>2, <1>3 DEF ReturnedHere, EndOf, restVars
<1>6. OffsetState'
  <2>1. Layered(s)
    BY <1>t, <1>1, Ranges DEF Layered
  <2>2. Tiled(s)
    BY <1>1 DEF IInv, OffsetState, Tiled, EndOf
  <2>3. offset = EndOf(s, Len(s.recs)) /\ s.bytes \in offset..(offset + len)
    BY <1>t, <1>1, <1>2, <1>5 DEF IInv, OffsetState, TypeOK, Broken
  <2> QED  BY <1>2, <1>3, <2>1, <2>2, <2>3 DEF OffsetState, Broken, restVars
<1>7. CallState'
  BY <1>1, <1>2, <1>3 DEF IInv, CallState, Flushing, Broken, restVars
<1>8. CacheState'
  <2>1. EndOf(s, ReturnedHere) = EndOf(Current, ReturnedHere)
          /\ EndOf(s, Current.indexOs) = EndOf(Current, Current.indexOs)
    BY <1>5, <1>t, Ranges
  <2>2. EndOf(Current, ReturnedHere) \in Nat /\ EndOf(Current, Current.indexOs) \in Nat
    BY <1>t, Ranges
  <2> QED  BY SMTT(30), <1>t, <1>1, <1>2, <1>3, <1>5, <2>1, <2>2, Ranges
           DEF IInv, CacheState, Flushing, restVars
<1>9. SyncState'
  <2>1. \A lag \in Nat : OnDisk(lag) => OnDisk(lag)'
    BY SMTT(30), <1>t, <1>1, <1>3, <1>5 DEF OnDisk
  <2> QED  BY <1>2, <2>1, LimitAssumption DEF IInv, TypeOK, SyncState, Broken, restVars
<1>10. CloseState'
  BY <1>2 DEF CloseState
<1>11. RollState'
  <2>1. RolledWhenFull'
    <3>1. Len(segs) > 1 /\ s.recs # <<>> =>
              segs[Len(segs) - 1].bytes + s.recs[1].len > SegmentBytes
      BY <1>t, <1>1 DEF IInv, RollState, RolledWhenFull, Current
    <3> QED  BY <1>1, <1>2, <3>1, RolledStays DEF IInv, RollState
  <2>2. Len(segs) > 1 => segs'[Len(segs) - 1] = segs[Len(segs) - 1]
    BY SMTT(30), <1>t, <1>3
  <2>3. Bounded(s)
    <3>1. os <= offset + len /\ offset \in Nat
      BY <1>t, <1>2 DEF IInv, TypeOK, OffsetState, Broken
    <3>2. Current.recs = <<>> => Len(Current.recs) = 0
      OBVIOUS
    <3> QED  BY <1>t, <1>1, <1>2, <3>1, <3>2, LimitAssumption DEF IInv, RollState, Writing, Bounded
  <2> QED  BY <1>1, <1>2, <1>3, <2>1, <2>2, <2>3
           DEF IInv, RollState, Rolling, Writing, Broken, restVars
<1> QED  BY <1>3, <1>4, <1>6, <1>7, <1>8, <1>9, <1>10, <1>11 DEF IInv

\* The record of a frame is written after its bytes.
LEMMA WriteRecordKeeps == IInv /\ WriteRecord => IInv'
<1> SUFFICES ASSUME IInv, WriteRecord PROVE IInv'
  OBVIOUS
<1>t. /\ Current \in Segment /\ Current.recs \in Seq(Record)
      /\ len \in Nat /\ offset \in Nat
      /\ framesWritten \in Nat /\ returned \in Nat /\ sinceSync \in Nat
      /\ Current.bytes \in Nat /\ Current.streamOs \in Nat /\ Current.streamSync \in Nat
      /\ Current.indexOs \in Nat /\ Current.indexSync \in Nat
      /\ Len(Current.recs) \in Nat /\ Len(segs) \in Nat \ {0}
  BY CurrentType DEF IInv, TypeOK
<1> DEFINE r == [off |-> offset, len |-> len]
           n == Len(Current.recs)
           s == [Current EXCEPT !.recs = Append(@, r)]
<1>1. /\ s \in Segment
      /\ s.recs = Append(Current.recs, r) /\ s.bytes = Current.bytes
      /\ s.streamOs = Current.streamOs /\ s.streamSync = Current.streamSync
      /\ s.indexOs = Current.indexOs /\ s.indexSync = Current.indexSync
  <2>1. r \in Record
    BY <1>t DEF Record
  <2>2. Append(Current.recs, r) \in Seq(Record)
    BY <1>t, <2>1
  <2> QED  BY <1>t, <2>2 DEF Segment
<1>2. /\ SetCurrent(s) /\ UNCHANGED <<len, sinceSync, returned, fate>> /\ fate = "alive"
      /\ offset' = offset + len /\ framesWritten' = framesWritten + 1
      /\ pc = "record" /\ pc' = "flushStream"
  BY DEF WriteRecord, Step, FirstFlush
<1>3. /\ Len(s.recs) = n + 1 /\ s.recs # <<>> /\ s.recs[n + 1] = r
      /\ \A k \in 1..n : s.recs[k] = Current.recs[k]
  <2>1. r \in Record
    BY <1>t DEF Record
  <2> HIDE DEF r, s
  <2> QED  BY <1>t, <1>1, <2>1
<1>b. Current.bytes = offset + len /\ offset = EndOf(Current, n)
  BY <1>2 DEF IInv, OffsetState, Broken
<1>e. /\ \A k \in 0..n : EndOf(s, k) = EndOf(Current, k)
      /\ EndOf(s, n + 1) = offset + len
  BY SMTT(30), <1>t, <1>3 DEF EndOf, End
<1> HIDE DEF s
<1>4. /\ segs' \in Seq(Segment) /\ segs' # <<>> /\ Len(segs') = Len(segs)
      /\ Current' = s /\ Earlier'
      /\ \A i \in 1..Len(segs) : i # Len(segs) => segs'[i] = segs[i]
  BY <1>1, <1>2, SetCurrentFacts DEF IInv
<1>5. TypeOK'
  BY <1>t, <1>2, <1>4 DEF IInv, TypeOK, Steps
<1>6. framesWritten = returned /\ ReturnedHere = n /\ ReturnedHere' = n
  <2>1. framesWritten = returned
    BY <1>2 DEF IInv, CallState, Flushing, Broken
  <2>2. ReturnedHere' = Len(s.recs) - (framesWritten + 1 - returned)
    <3>1. Len(Current.recs)' = Len(s.recs)
      BY <1>4
    <3>2. framesWritten' = framesWritten + 1 /\ returned' = returned
      BY <1>2
    <3> QED  BY <1>t, <1>3, <3>1, <3>2 DEF ReturnedHere
  <2> QED  BY <1>t, <1>3, <2>1, <2>2 DEF ReturnedHere
<1>7. OffsetState'
  <2>1. Layered(s)
    BY SMTT(30), <1>t, <1>1, <1>3, Ranges DEF Layered
  <2>2. ASSUME NEW k \in 1..Len(s.recs) PROVE s.recs[k].off = EndOf(s, k - 1)
    <3>1. CASE k = n + 1
      BY SMTT(30), <1>t, <1>3, <1>b, <1>e, <3>1
    <3>2. CASE k \in 1..n
      <4>1. k - 1 \in 0..n /\ Current.recs[k].off = EndOf(Current, k - 1)
        BY <1>t, <3>2 DEF IInv, OffsetState, Tiled
      <4> QED  BY <1>3, <1>e, <3>2, <4>1
    <3> QED  BY <1>t, <1>3, <3>1, <3>2
  <2>3. ASSUME NEW j \in 0..Len(s.recs), NEW k \in 0..Len(s.recs), j <= k
        PROVE  EndOf(s, j) <= EndOf(s, k)
    <3>1. CASE k = n + 1 /\ j \in 0..n
      <4>1. EndOf(s, j) \in 0..offset
        BY <1>b, <1>e, <3>1, Ranges
      <4> QED  BY <1>t, <1>e, <3>1, <4>1
    <3>2. CASE k = n + 1 /\ j = n + 1
      BY <1>t, <1>e, <3>2
    <3>3. CASE k \in 0..n /\ j \in 0..n
      BY <1>e, <2>3, <3>3 DEF IInv, OffsetState, Tiled
    <3> QED  BY <1>t, <1>3, <2>3, <3>1, <3>2, <3>3
  <2>4. offset' = EndOf(s, Len(s.recs)) /\ s.bytes = offset'
    BY <1>1, <1>2, <1>3, <1>b, <1>e
  <2> QED  BY <1>2, <1>4, <2>1, <2>2, <2>3, <2>4 DEF OffsetState, Tiled, Broken
<1>8. CallState'
  BY <1>2, <1>3, <1>4, <1>6 DEF CallState, Flushing, Broken
<1>9. CacheState'
  <2>1. /\ EndOf(s, n) = EndOf(Current, n)
        /\ EndOf(s, Current.indexOs) = EndOf(Current, Current.indexOs)
    BY <1>t, <1>e, Ranges
  <2> QED  BY <1>1, <1>2, <1>4, <1>6, <2>1 DEF IInv, CacheState, Flushing
<1>10. SyncState'
  <2>1. ASSUME NEW lag \in Nat, OnDisk(lag) PROVE OnDisk(lag)'
    <3>1. ASSUME NEW k \in 0..n + 1, k + lag <= n
          PROVE  EndOf(s, k) <= Current.streamSync
      <4>1. k \in 0..n
        BY <1>t, <3>1
      <4> QED  BY <1>e, <1>6, <2>1, <3>1, <4>1 DEF OnDisk
    <3> QED  BY <1>1, <1>3, <1>4, <1>6, <2>1, <3>1 DEF OnDisk
  <2> QED  BY <1>2, <2>1, LimitAssumption DEF IInv, TypeOK, SyncState, Broken
<1>11. CloseState'
  BY <1>2 DEF CloseState
<1>12. RollState'
  <2>1. RolledWhenFull'
    <3>1. Len(segs) > 1 => segs[Len(segs) - 1].bytes + s.recs[1].len > SegmentBytes
      <4>1. CASE n = 0
        BY <1>t, <1>2, <1>3, <4>1 DEF IInv, RollState, Writing
      <4>2. CASE n # 0
        <5>1. Current.recs # <<>> /\ s.recs[1] = Current.recs[1]
          BY <1>t, <1>3, <4>2
        <5>2. Len(segs) > 1 =>
                  segs[Len(segs) - 1].bytes + Current.recs[1].len > SegmentBytes
          <6> SUFFICES ASSUME Len(segs) > 1
                       PROVE  segs[Len(segs) - 1].bytes + Current.recs[1].len > SegmentBytes
            OBVIOUS
          <6>1. Len(segs) - 1 \in 1..Len(segs) - 1 /\ Len(segs) - 1 + 1 = Len(segs)
            BY <1>t
          <6>2. RolledWhenFull
            BY DEF IInv, RollState
          <6> QED  BY <5>1, <6>1, <6>2 DEF RolledWhenFull, Current
        <5> QED  BY <5>1, <5>2
      <4> QED  BY <4>1, <4>2
    <3> QED  BY <1>1, <1>2, <3>1, RolledStays DEF IInv, RollState
  <2>2. SegmentBytes # 0 => offset' <= SegmentBytes \/ Len(s.recs) <= 1
    <3>1. CASE n = 0
      BY <1>3, <3>1
    <3>2. CASE n # 0
      BY <1>t, <1>2, <3>2 DEF IInv, RollState, Writing
    <3> QED  BY <3>1, <3>2
  <2> QED  BY <1>2, <1>3, <1>4, <2>1, <2>2 DEF RollState, Rolling, Writing, Broken
<1> QED  BY <1>4, <1>5, <1>7, <1>8, <1>9, <1>10, <1>11, <1>12 DEF IInv

\* After a power cut some segment loses what was not yet fsynced.
LEMMA LoseTailKeeps ==
    ASSUME IInv, NEW i \in 1..Len(segs), LoseTail(i)
    PROVE  IInv'
<1>t. Len(segs) \in Nat \ {0} /\ segs \in Seq(Segment) /\ Current = segs[Len(segs)]
  BY CurrentType DEF IInv, TypeOK, Current
<1>l. \A j \in 1..Len(segs) : Layered(segs[j]) /\ segs[j] \in Segment
  BY <1>t DEF IInv, Earlier, Finished, OffsetState
<1>0. PICK so \in segs[i].streamSync..segs[i].streamOs,
           io \in segs[i].indexSync..segs[i].indexOs :
          segs' = [segs EXCEPT ![i].streamOs = so, ![i].indexOs = io]
  BY DEF LoseTail
<1> DEFINE s == [segs[i] EXCEPT !.streamOs = so, !.indexOs = io]
<1>1. fate = "powercut" /\ UNCHANGED <<pc, len, offset, sinceSync, framesWritten, returned, fate>>
  BY DEF LoseTail, restVars
<1>2. /\ s \in Segment
      /\ s.recs = segs[i].recs /\ s.bytes = segs[i].bytes
      /\ s.streamSync = segs[i].streamSync /\ s.indexSync = segs[i].indexSync
      /\ Layered(s)
  <2>1. /\ segs[i] \in Segment /\ segs[i].streamSync \in Nat /\ segs[i].streamOs \in Nat
        /\ segs[i].indexSync \in Nat /\ segs[i].indexOs \in Nat /\ segs[i].bytes \in Nat
        /\ Len(segs[i].recs) \in Nat
    BY <1>l DEF Segment
  <2>2. so \in Nat /\ io \in Nat
    BY <2>1
  <2>3. s \in Segment
    BY <2>1, <2>2 DEF Segment
  <2>4. s.streamOs = so /\ s.indexOs = io /\ Layered(segs[i])
    BY <1>l, <2>1 DEF Segment
  <2> QED  BY SMTT(30), <2>1, <2>2, <2>3, <2>4 DEF Layered, Segment
<1>3. segs' = [segs EXCEPT ![i] = s]
  BY <1>0, <1>t
<1> HIDE DEF s
<1>4. /\ segs' \in Seq(Segment) /\ segs' # <<>> /\ Len(segs') = Len(segs)
      /\ Current' = segs'[Len(segs)]
      /\ \A j \in 1..Len(segs) :
            /\ segs'[j].recs = segs[j].recs /\ segs'[j].bytes = segs[j].bytes
            /\ segs'[j].streamSync = segs[j].streamSync
            /\ segs'[j].indexSync = segs[j].indexSync
            /\ Layered(segs'[j])
  BY <1>t, <1>l, <1>2, <1>3 DEF Current
<1>5. /\ \A j \in 1..Len(segs) : \A k \in Nat : EndOf(segs'[j], k) = EndOf(segs[j], k)
      /\ \A j \in 1..Len(segs) : Tiled(segs[j]) => Tiled(segs'[j])
  BY <1>4 DEF Tiled, EndOf
<1>6. TypeOK'
  BY <1>1, <1>4 DEF IInv, TypeOK
<1>7. Earlier'
  <2> SUFFICES ASSUME NEW j \in 1..Len(segs), j # Len(segs) PROVE Finished(segs'[j])
    BY <1>4 DEF Earlier
  <2>1. Finished(segs[j])
    BY DEF IInv, Earlier
  <2>2. Len(segs[j].recs) \in Nat
    BY SMTT(30), <1>l DEF Segment
  <2> QED  BY <1>4, <1>5, <2>1, <2>2 DEF Finished, Sealed, Bounded
<1>8. /\ Current'.recs = Current.recs /\ Current'.bytes = Current.bytes
      /\ Current'.streamSync = Current.streamSync /\ Current'.indexSync = Current.indexSync
      /\ Layered(Current') /\ Tiled(Current')
      /\ \A k \in Nat : EndOf(Current', k) = EndOf(Current, k)
      /\ Len(Current.recs) \in Nat
      /\ ReturnedHere' = ReturnedHere
  <2>1. Tiled(segs[Len(segs)])
    BY <1>t DEF IInv, OffsetState
  <2> QED  BY SMTT(30), <1>t, <1>1, <1>4, <1>5, <2>1, CurrentType DEF IInv, ReturnedHere
<1>9. OffsetState' /\ CallState' /\ CacheState' /\ CloseState'
  BY <1>1, <1>8 DEF IInv, OffsetState, CallState, CacheState, CloseState
<1>10. SyncState'
  <2>1. \A lag \in Nat : OnDisk(lag) => OnDisk(lag)'
    BY <1>8 DEF OnDisk
  <2> QED  BY <1>1, <2>1, LimitAssumption DEF IInv, TypeOK, SyncState
<1>11. RollState'
  <2>1. RolledWhenFull'
    <3>1. RolledWhenFull
      BY DEF IInv, RollState
    <3>2. \A j \in 1..Len(segs) - 1 : j \in 1..Len(segs) /\ j + 1 \in 1..Len(segs)
      BY <1>t
    <3> QED  BY <1>4, <3>1, <3>2 DEF RolledWhenFull
  <2>2. Len(segs) > 1 => segs'[Len(segs) - 1].bytes = segs[Len(segs) - 1].bytes
    BY <1>t, <1>4
  <2>3. Bounded(Current) => Bounded(Current')
    BY <1>8 DEF Bounded
  <2> QED  BY <1>1, <1>4, <1>8, <2>1, <2>2, <2>3 DEF IInv, RollState
<1> QED  BY <1>6, <1>7, <1>9, <1>10, <1>11 DEF IInv

LEMMA NextKeeps == IInv /\ [Next]_vars => IInv'
<1> SUFFICES ASSUME IInv, [Next]_vars PROVE IInv'
  OBVIOUS
<1>1. CASE (\E n \in Lens : Write(n)) \/ Close \/ Kill \/ PowerCut \/ Stopped \/ UNCHANGED vars
  BY <1>1, BeginKeeps DEF Stopped
<1>2. CASE RollStream \/ SyncStream \/ CloseStream
  BY <1>2, StreamSyncKeeps
<1>3. CASE RollIndex \/ CloseIndex
  BY <1>3, IndexSyncKeeps
<1>4. CASE OpenNext
  BY <1>4, OpenNextKeeps
<1>5. CASE WriteData
  BY <1>5, WriteDataKeeps
<1>6. CASE WriteRecord
  BY <1>6, WriteRecordKeeps
<1>7. CASE FlushStream \/ FlushIndex \/ SyncIndex
  BY <1>7, FlushStreamKeeps, FlushIndexKeeps, SyncIndexKeeps
<1>8. CASE IoError \/ SpillFails \/ Abandon
  BY <1>8, ErrorKeeps, SpillFailsKeeps
<1>9. CASE \E i \in 1..Len(segs) : LoseTail(i)
  BY <1>9, LoseTailKeeps
<1> QED  BY <1>1, <1>2, <1>3, <1>4, <1>5, <1>6, <1>7, <1>8, <1>9
         DEF Next, WriteSteps, CloseSteps, Failures

LEMMA Invariance == Spec => []IInv
<1> QED  BY InitIInv, NextKeeps, PTL DEF Spec

-----------------------------------------------------------------------------
(* Theorems.                                                               *)

\* Every variable keeps its type.
THEOREM TypeCorrect == Spec => []TypeOK
<1>1. IInv => TypeOK
  BY DEF IInv
<1> QED  BY <1>1, Invariance, PTL

\* The records of every segment tile its stream, so that a reader may seek by
\* the index: over flushes, I/O errors, rollovers, kills and power cuts.
THEOREM TilesAlways == Spec => []RecordsTile
<1>1. IInv => RecordsTile
  <2> SUFFICES ASSUME IInv, NEW i \in 1..Len(segs)
               PROVE  /\ \A k \in 1..Len(segs[i].recs) :
                            segs[i].recs[k].off = IF k = 1 THEN 0 ELSE End(segs[i].recs[k - 1])
                      /\ segs[i].recs # <<>> =>
                            End(segs[i].recs[Len(segs[i].recs)]) <= segs[i].bytes
    BY DEF RecordsTile
  <2>1. /\ segs[i].recs \in Seq(Record) /\ Tiled(segs[i])
        /\ EndOf(segs[i], Len(segs[i].recs)) <= segs[i].bytes
    <3>1. CASE i = Len(segs)
      BY <3>1, CurrentType, Ranges DEF IInv, OffsetState, Current
    <3>2. CASE i # Len(segs)
      <4>1. Finished(segs[i]) /\ segs[i] \in Segment
        BY <3>2 DEF IInv, Earlier, TypeOK
      <4> QED  BY <4>1 DEF Finished, Segment
    <3> QED  BY <3>1, <3>2
  <2>2. \A k \in 1..Len(segs[i].recs) :
            segs[i].recs[k].off = IF k = 1 THEN 0 ELSE End(segs[i].recs[k - 1])
    BY <2>1 DEF Tiled, EndOf
  <2>3. segs[i].recs # <<>> => End(segs[i].recs[Len(segs[i].recs)]) <= segs[i].bytes
    BY <2>1 DEF EndOf
  <2> QED  BY <2>2, <2>3
<1> QED  BY <1>1, Invariance, PTL

\* A record of a finished segment, or one of the open segment up to which the
\* cache is complete, can be read back.
LEMMA FinishedReadable ==
    ASSUME IInv, NEW i \in 1..Len(segs), i # Len(segs), NEW k \in 1..Len(segs[i].recs)
    PROVE  Readable(segs[i], k)
<1>1. Finished(segs[i]) /\ segs[i] \in Segment
  BY DEF IInv, Earlier, TypeOK
<1>2. EndOf(segs[i], k) <= segs[i].bytes
  BY <1>1 DEF Finished, Tiled, Segment
<1>3. segs[i].indexOs = Len(segs[i].recs) /\ segs[i].streamOs = segs[i].bytes
  BY <1>1 DEF Finished, Sealed, Layered, Segment
<1>4. EndOf(segs[i], k) = End(segs[i].recs[k])
  BY <1>1 DEF EndOf, Segment
<1> QED  BY <1>1, <1>2, <1>3, <1>4 DEF Readable, Segment

LEMMA OpenReadable ==
    ASSUME IInv, NEW k \in 1..Len(Current.recs), NEW m \in k..Len(Current.recs),
           m <= Current.indexOs, EndOf(Current, m) <= Current.streamOs
    PROVE  Readable(Current, k)
<1>1. /\ Len(Current.recs) \in Nat /\ Current.streamOs \in Nat /\ Current.indexOs \in Nat
      /\ Current \in Segment
  BY CurrentType DEF IInv
<1>2. EndOf(Current, k) <= EndOf(Current, m)
  BY <1>1 DEF IInv, OffsetState, Tiled
<1>3. EndOf(Current, k) \in Nat /\ EndOf(Current, m) \in Nat
  BY <1>1, EndType
<1>4. EndOf(Current, k) = End(Current.recs[k])
  BY <1>1 DEF EndOf
<1> QED  BY <1>1, <1>2, <1>3, <1>4 DEF Readable

\* Killing the process at any step, in any segment, costs no frame whose
\* write() returned.
THEOREM KillIsHarmless == Spec => []KillLosesNothing
<1>1. IInv => KillLosesNothing
  <2> SUFFICES ASSUME IInv, fate = "killed", NEW i \in 1..Len(segs),
                      NEW k \in 1..(IF i = Len(segs) THEN ReturnedHere ELSE Len(segs[i].recs))
               PROVE  Readable(segs[i], k)
    BY DEF KillLosesNothing
  <2>1. CASE i # Len(segs)
    BY <2>1, FinishedReadable
  <2>2. CASE i = Len(segs)
    <3>1. /\ ReturnedHere <= Current.indexOs
          /\ EndOf(Current, ReturnedHere) <= Current.streamOs
      BY DEF IInv, CacheState
    <3>2. k \in 1..Len(Current.recs) /\ ReturnedHere \in k..Len(Current.recs)
      BY <2>2, Ranges, CurrentType DEF IInv
    <3> QED  BY <2>2, <3>1, <3>2, OpenReadable DEF Current
  <2> QED  BY <2>1, <2>2
<1> QED  BY <1>1, Invariance, PTL

\* A power cut at any step costs at most the last fsync_every - 1 frames whose
\* write() returned, over segment boundaries too.
THEOREM PowerCutIsBounded == Spec => []PowerCutBound
<1>1. IInv => PowerCutBound
  <2> SUFFICES ASSUME IInv, FsyncEvery # 0,
                      NEW i \in 1..Len(segs), NEW k \in 1..Len(segs[i].recs),
                      i < Len(segs) \/ k + FsyncEvery <= ReturnedHere + 1
               PROVE  Readable(segs[i], k)
    BY DEF PowerCutBound
  <2>1. CASE i # Len(segs)
    BY <2>1, FinishedReadable
  <2>2. CASE i = Len(segs)
    <3>1. k \in 1..Len(Current.recs) /\ k + (FsyncEvery - 1) <= ReturnedHere
      BY <2>2, CurrentType, LimitAssumption DEF IInv, Current
    <3>2. OnDisk(FsyncEvery - 1) /\ FsyncEvery - 1 \in Nat
      BY LimitAssumption DEF IInv, SyncState
    <3>3. k <= Current.indexSync /\ EndOf(Current, k) <= Current.streamSync
      BY <3>1, <3>2, CurrentType DEF IInv, OnDisk
    <3>4. k <= Current.indexOs /\ EndOf(Current, k) <= Current.streamOs
      BY SMTT(30), <3>1, <3>3, CurrentType, Ranges, EndType DEF IInv
    <3> QED  BY <2>2, <3>1, <3>4, CurrentType, OpenReadable DEF IInv, Current
  <2> QED  BY <2>1, <2>2
<1> QED  BY <1>1, Invariance, PTL

\* A segment that was rolled over or closed is on the disk in full.
THEOREM ClosedSurvives == Spec => []ClosedIsDurable
<1>1. IInv => ClosedIsDurable
  BY CurrentType
  DEF IInv, ClosedIsDurable, Earlier, Finished, Sealed, CloseState, Current
<1> QED  BY <1>1, Invariance, PTL

\* No segment exceeds the limit unless one frame alone does, and none but the
\* first was opened for a frame that would have fitted into the one before.
THEOREM RolloverIsExact == Spec => []RolloverIsTight
<1>1. IInv => RolloverIsTight
  <2> SUFFICES ASSUME IInv PROVE SegmentsBounded
    BY DEF IInv, RollState, RolloverIsTight
  <2> SUFFICES ASSUME SegmentBytes # 0, NEW i \in 1..Len(segs)
               PROVE  segs[i].bytes <= SegmentBytes \/ Len(segs[i].recs) <= 1
    BY DEF SegmentsBounded
  <2>1. CASE i # Len(segs)
    BY <2>1 DEF IInv, Earlier, Finished, Bounded
  <2>2. CASE i = Len(segs)
    <3>1. CASE pc \in Broken
      BY <2>2, <3>1 DEF IInv, RollState, Current, Bounded
    <3>2. CASE pc \notin Broken
      BY <2>2, <3>2, CurrentType DEF IInv, OffsetState, RollState, Current, Writing, TypeOK
    <3> QED  BY <3>1, <3>2
  <2> QED  BY <2>1, <2>2
<1> QED  BY <1>1, Invariance, PTL

\* Without a power cut the index never references bytes that the operating
\* system has not seen, but for the frame whose write() raised, once the files
\* of the broken writer have been collected.
THEOREM ErrorsStayAtTheTail == Spec => []ErrorHurtsLastOnly
<1>1. IInv => ErrorHurtsLastOnly
  <2> SUFFICES ASSUME IInv, fate # "powercut",
                      NEW i \in 1..Len(segs), NEW k \in 1..segs[i].indexOs,
                      End(segs[i].recs[k]) > segs[i].streamOs
               PROVE  i = Len(segs) /\ k = Len(segs[i].recs) /\ pc = "abandoned"
    BY DEF ErrorHurtsLastOnly
  <2>1. ASSUME i # Len(segs) PROVE FALSE
    <3>1. Finished(segs[i]) /\ segs[i] \in Segment
      BY <2>1 DEF IInv, Earlier, TypeOK
    <3>2. k \in 1..Len(segs[i].recs)
      BY <3>1 DEF Finished, Sealed, Layered, Segment
    <3>3. Readable(segs[i], k)
      BY <2>1, <3>2, FinishedReadable
    <3>4. /\ segs[i].recs[k] \in Record /\ segs[i].streamOs \in Nat
      BY <3>1, <3>2 DEF Segment
    <3>5. End(segs[i].recs[k]) \in Nat
      BY <3>4 DEF End, Record
    <3> QED  BY <3>3, <3>4, <3>5 DEF Readable
  <2>2. i = Len(segs) /\ segs[i] = Current
    BY <2>1 DEF Current
  <2>3. /\ k \in 1..Current.indexOs /\ k \in 1..Len(Current.recs)
        /\ Current.indexOs \in 0..Len(Current.recs)
        /\ Current.streamOs \in Nat /\ Current.indexOs \in Nat /\ Len(Current.recs) \in Nat
    BY <2>2, Ranges, CurrentType DEF IInv
  <2>4. ~Readable(Current, k)
    <3>1. Current.recs[k] \in Record
      BY <2>3, CurrentType DEF IInv
    <3>2. End(Current.recs[k]) \in Nat
      BY <3>1 DEF End, Record
    <3> QED  BY <2>2, <2>3, <3>2 DEF Readable
  <2>5. pc = "abandoned"
    <3> SUFFICES ASSUME pc # "abandoned" PROVE Readable(Current, k)
      BY <2>4
    <3>1. EndOf(Current, Current.indexOs) <= Current.streamOs
      BY DEF IInv, CacheState
    <3> QED  BY <2>3, <3>1, OpenReadable
  <2>6. k = Len(Current.recs)
    <3>1. ASSUME k <= ReturnedHere PROVE Readable(Current, k)
      <4>1. ReturnedHere \in k..Len(Current.recs)
        BY <2>3, <3>1, Ranges
      <4> QED  BY <2>3, <4>1, OpenReadable DEF IInv, CacheState
    <3>2. ReturnedHere >= Len(Current.recs) - 1
      BY <2>5, CurrentType DEF IInv, CallState, Broken, ReturnedHere, TypeOK
    <3>3. ReturnedHere \in Int
      BY CurrentType DEF IInv
    <3> QED  BY <2>3, <2>4, <3>1, <3>2, <3>3
  <2> QED  BY <2>2, <2>5, <2>6
<1> QED  BY <1>1, Invariance, PTL

-----------------------------------------------------------------------------
(* vcap-verify.  What a recording lacks is missing at the end of its last   *)
(* segment: if any entry of the index has lost bytes, the last one has.     *)

\* A segment, its index being no longer than what was written to it.
LEMMA SegmentIs ==
    ASSUME IInv, NEW i \in 1..Len(segs)
    PROVE  /\ segs[i] \in Segment /\ segs[i].recs \in Seq(Record)
           /\ Len(segs[i].recs) \in Nat /\ segs[i].streamOs \in Nat
           /\ segs[i].indexOs \in 0..Len(segs[i].recs)
           /\ Tiled(segs[i])
<1>0. segs[i] \in Segment
  BY DEF IInv, TypeOK
<1>1. /\ segs[i] \in Segment /\ segs[i].recs \in Seq(Record)
      /\ segs[i].streamOs \in Nat /\ segs[i].indexOs \in Nat
  BY <1>0 DEF Segment
<1>2. Layered(segs[i]) /\ Tiled(segs[i])
  BY DEF IInv, Earlier, Finished, OffsetState, Current
<1>3. Len(segs[i].recs) \in Nat
  BY <1>1
<1>4. segs[i].indexOs \in 0..Len(segs[i].recs)
  BY <1>1, <1>2, <1>3 DEF Layered
<1> QED  BY <1>1, <1>2, <1>3, <1>4

\* Bytes are missing in the last segment only, from some entry on.
LEMMA MissingFromThereOn ==
    ASSUME IInv, NEW i \in 1..Len(segs),
           NEW k \in 1..segs[i].indexOs, End(segs[i].recs[k]) > segs[i].streamOs
    PROVE  i = Len(segs) /\ End(segs[i].recs[segs[i].indexOs]) > segs[i].streamOs
<1> DEFINE s == segs[i]
<1>1. /\ s \in Segment /\ s.recs \in Seq(Record) /\ Len(s.recs) \in Nat
      /\ s.streamOs \in Nat /\ s.indexOs \in 0..Len(s.recs) /\ Tiled(s)
  BY SegmentIs
<1>2. /\ k \in 1..Len(s.recs) /\ k \in 0..Len(s.recs)
      /\ s.indexOs \in 1..Len(s.recs) /\ s.indexOs \in Nat
      /\ k <= s.indexOs /\ k # 0 /\ s.indexOs # 0
  BY <1>1
<1>3. End(s.recs[k]) > s.streamOs
  OBVIOUS
<1>r. s.recs[k] \in Record
  BY <1>1, <1>2, ElementOfSeq
<1>4. End(s.recs[k]) \in Nat
  BY <1>r DEF End, Record
<1>5. i = Len(segs)
  <2> SUFFICES ASSUME i # Len(segs) PROVE FALSE
    OBVIOUS
  <2>1. Readable(s, k)
    BY <1>2, FinishedReadable
  <2> QED  BY <1>1, <1>3, <1>4, <2>1 DEF Readable
<1> HIDE DEF s
<1>6. EndOf(s, k) <= EndOf(s, s.indexOs)
  BY <1>1, <1>2 DEF Tiled
<1>7. EndOf(s, k) = End(s.recs[k]) /\ EndOf(s, s.indexOs) = End(s.recs[s.indexOs])
  BY <1>2 DEF EndOf
<1>8. EndOf(s, s.indexOs) \in Nat
  BY <1>1, EndType
<1>9. End(s.recs[s.indexOs]) > s.streamOs
  BY <1>1, <1>3, <1>4, <1>6, <1>7, <1>8
<1> QED  BY <1>5, <1>9 DEF s

Entry == [segment : Segment, record : Record]

\* The entries of one segment, and of the first n.
EntriesOf(i) ==
    [k \in DOMAIN RecordsIn(segs[i]) |->
        [segment |-> segs[i], record |-> RecordsIn(segs[i])[k]]]

Listing(n) == [i \in 1..n |-> EntriesOf(i)]

LEMMA EntriesAre ==
    ASSUME IInv, NEW i \in 1..Len(segs)
    PROVE  /\ EntriesOf(i) \in Seq(Entry)
           /\ Len(EntriesOf(i)) = segs[i].indexOs
           /\ \A k \in 1..segs[i].indexOs :
                 EntriesOf(i)[k] = [segment |-> segs[i], record |-> segs[i].recs[k]]
<1> DEFINE s == segs[i]
           m == s.indexOs
           rs == RecordsIn(s)
<1>1. /\ s \in Segment /\ s.recs \in Seq(Record) /\ Len(s.recs) \in Nat
      /\ m \in 0..Len(s.recs)
  BY SegmentIs
<1>2. /\ rs \in Seq(Record) /\ Len(rs) = m
      /\ \A k \in 1..m : rs[k] = s.recs[k]
  BY <1>1 DEF RecordsIn
<1>3. DOMAIN rs = 1..m
  BY <1>2
<1>4. EntriesOf(i) = [k \in 1..m |-> [segment |-> s, record |-> rs[k]]]
  BY <1>3 DEF EntriesOf
<1>5. \A k \in 1..m : rs[k] \in Record
  BY <1>2, <1>3
<1> HIDE DEF s, m, rs
<1>6. \A k \in 1..m : [segment |-> s, record |-> rs[k]] \in Entry
  BY <1>1, <1>5 DEF Entry
<1>7. m \in Nat
  BY <1>1
<1>8. EntriesOf(i) \in [1..m -> Entry]
  BY <1>4, <1>6
<1>9. EntriesOf(i) \in Seq(Entry) /\ Len(EntriesOf(i)) = m
  BY <1>7, <1>8
<1>10. \A k \in 1..m : EntriesOf(i)[k] = [segment |-> s, record |-> s.recs[k]]
  BY <1>2, <1>4
<1> QED  BY <1>9, <1>10 DEF s, m

\* Sampled or not, the last entry is read, and nothing that is not there.
LEMMA SampleHasLast ==
    ASSUME NEW c \in Nat \ {0}, NEW sample
    PROVE  c \in Sample(c, sample) /\ Sample(c, sample) \subseteq 1..c
BY DEF Sample

\* However the recording came to its end, at whatever step and with whatever
\* a crash took, a sample of any size finds it damaged if reading every frame
\* would.
THEOREM SampleIsEnoughAlways == Spec => []SampleIsEnough
<1>1. IInv => SampleIsEnough
  <2> SUFFICES ASSUME IInv, NEW n \in 1..Len(segs), NEW sample \in Samples
               PROVE  Verdict(Entries(n), Sample(Len(Entries(n)), sample))
                          = Verdict(Entries(n), DOMAIN Entries(n))
    BY DEF SampleIsEnough
  <2> DEFINE E == Entries(n)
             ss == Listing(n)
  <2>0. n \in Nat /\ Len(segs) \in Nat /\ n \in 0..n /\ n \in 1..n
    BY CurrentType DEF IInv
  <2>1. E = FlattenSeq(ss)
    BY DEF Entries, Listing, EntriesOf
  <2>2. ASSUME NEW i \in 1..n
        PROVE  /\ i \in 1..Len(segs) /\ ss[i] = EntriesOf(i)
               /\ ss[i] \in Seq(Entry) /\ Len(ss[i]) = segs[i].indexOs
               /\ \A k \in 1..segs[i].indexOs :
                     ss[i][k] = [segment |-> segs[i], record |-> segs[i].recs[k]]
    <3>1. i \in 1..Len(segs)
      BY <2>0
    <3>2. ss[i] = EntriesOf(i)
      BY DEF Listing
    <3> QED  BY <3>1, <3>2, EntriesAre
  <2>3. ss \in [1..n -> Seq(Entry)]
    BY <2>2 DEF Listing
  <2> HIDE DEF E, ss
  <2>4. Flattens(Entry, n, ss)
    BY <2>0, <2>3, FlattenFacts
  <2>5. Flat(ss, n) = E /\ E \in Seq(Entry)
    BY <2>0, <2>1, <2>4 DEF Flattens, FlattensBySteps
  <2>6. Len(E) \in Nat /\ DOMAIN E = 1..Len(E)
    BY <2>5
  <2>7. CASE E = <<>>
    BY <2>7 DEF Verdict, E
  <2>8. CASE E # <<>>
    <3> DEFINE S == Sample(Len(E), sample)
    <3>1. Len(E) \in Nat \ {0}
      BY <2>5, <2>6, <2>8
    <3>2. Len(E) \in S /\ S \subseteq 1..Len(E)
      BY <3>1, SampleHasLast
    <3> HIDE DEF S
    <3>3. ASSUME NEW p \in 1..Len(E), Truncated(E[p])
          PROVE  Truncated(E[Len(E)])
      <4>1. PICK i \in 1..n : \E j \in 1..Len(ss[i]) : p = Len(Flat(ss, i - 1)) + j
        BY <2>0, <2>4, <2>5 DEF Flattens, IsCovered
      <4>2. PICK j \in 1..Len(ss[i]) : p = Len(Flat(ss, i - 1)) + j
        BY <4>1
      <4>3. E[p] = ss[i][j]
        BY <2>0, <2>4, <2>5, <4>2 DEF Flattens, IsPlaced
      <4>4. j \in 1..segs[i].indexOs /\ i \in 1..Len(segs)
        BY <2>2, <4>2
      <4>5. ss[i][j] = [segment |-> segs[i], record |-> segs[i].recs[j]]
        BY <2>2, <4>4
      <4>6. End(segs[i].recs[j]) > segs[i].streamOs
        BY <3>3, <4>3, <4>5 DEF Truncated
      <4>7. i = Len(segs) /\ End(segs[i].recs[segs[i].indexOs]) > segs[i].streamOs
        BY <4>4, <4>6, MissingFromThereOn
      <4>8. i = n
        BY <2>0, <4>7
      <4> DEFINE m == segs[n].indexOs
      <4>9. m \in 1..m /\ Len(ss[n]) = m /\ m \in Nat
        BY <2>0, <2>2, <4>4, <4>8, SegmentIs
      <4>10. ss[n][m] = [segment |-> segs[n], record |-> segs[n].recs[m]]
        BY <2>0, <2>2, <4>9
      <4>11. E[Len(Flat(ss, n - 1)) + m] = ss[n][m]
        <5>1. m \in 1..Len(ss[n])
          BY <4>9
        <5> QED  BY <2>0, <2>4, <2>5, <5>1 DEF Flattens, IsPlaced
      <4>12. Len(E) = Len(Flat(ss, n - 1)) + m
        <5>1. n - 1 \in 0..(n - 1) /\ (n - 1) + 1 = n
          BY <2>0
        <5>2. Len(Flat(ss, (n - 1) + 1)) = Len(Flat(ss, n - 1)) + Len(ss[(n - 1) + 1])
          BY <2>4, <5>1 DEF Flattens, FlattensBySteps
        <5> QED  BY <2>5, <4>9, <5>1, <5>2
      <4>13. E[Len(E)] = [segment |-> segs[n], record |-> segs[n].recs[m]]
        BY <4>10, <4>11, <4>12
      <4> QED  BY <4>7, <4>8, <4>13 DEF Truncated
    <3>4. (\E p \in S : Truncated(E[p])) <=> (\E p \in DOMAIN E : Truncated(E[p]))
      BY <2>6, <3>1, <3>2, <3>3
    <3>5. Verdict(E, S) = Verdict(E, DOMAIN E)
      BY <2>8, <3>4 DEF Verdict
    <3> QED  BY <3>5 DEF E, S
  <2> QED  BY <2>7, <2>8
<1> QED  BY <1>1, Invariance, PTL
=============================================================================
