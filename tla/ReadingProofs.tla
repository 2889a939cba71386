--------------------------- MODULE ReadingProofs ----------------------------
(***************************************************************************)
(* What is read back.  The lookups of reader.Recording are right for every *)
(* recording, however it is cut into segments, and for every question: the *)
(* binary search of one index, the position of a frame number, the last    *)
(* frame at or before a time, and the frame nearest to it.  What           *)
(* jpeg_dimensions says of any part of a JPEG is true, and the blocks of a *)
(* scan cover its image.  A bar code with one bar misread is refused or    *)
(* says what was painted, and the latency the tool prints is the one there *)
(* was.                                                                    *)
(***************************************************************************)
EXTENDS Playback, GlassToGlass, OperatorProofs, FiniteSetTheorems

-----------------------------------------------------------------------------
(* IndexReader.search.                                                     *)

\* The midpoint lies in the range.
LEMMA MidInRange ==
    ASSUME NEW a \in Int, NEW b \in Int, a <= b
    PROVE  (a + b) \div 2 \in Int /\ a <= (a + b) \div 2 /\ (a + b) \div 2 <= b
OBVIOUS

\* With the bounds in the index, what was excluded stays excluded.
SearchInv == SearchTypeOK /\ Excluded

\* The whole range holds the answer.
LEMMA SearchStarts == SearchInit => SearchInv
BY DEF SearchInit, NoIndex, SearchInv, SearchTypeOK, Excluded, IsIndex, Ascending

\* One round keeps what was excluded excluded.
LEMMA SearchKeeps == SearchInv /\ [SearchNext]_searchVars => SearchInv'
<1> SUFFICES ASSUME SearchInv, [SearchNext]_searchVars PROVE SearchInv'
  OBVIOUS
<1>t. /\ index.count \in Nat /\ index.ts \in [0..(index.count - 1) -> Int]
      /\ Ascending(index.ts, index.count) /\ target \in Int
      /\ lo \in Int /\ hi \in Int /\ 0 <= lo /\ hi <= index.count - 1
      /\ best = lo - 1 /\ lo <= hi + 1
  BY DEF SearchInv, SearchTypeOK, IsIndex, Excluded
<1>m. lo <= hi => Mid \in 0..(index.count - 1) /\ lo <= Mid /\ Mid <= hi
  BY <1>t, MidInRange DEF Mid
<1>1. CASE GoRight
  <2>1. /\ lo <= hi /\ pc = "loop" /\ pc' = pc /\ best' = Mid
        /\ lo' = Mid + 1 /\ index' = index /\ target' = target /\ hi' = hi
        /\ index.ts[Mid] <= target
    BY <1>1 DEF GoRight
  <2>2. SearchTypeOK'
    BY <2>1, <1>m, <1>t DEF SearchInv, SearchTypeOK
  <2>3. ASSUME NEW i \in 0..Mid PROVE index.ts[i] <= target
    <3>1. i \in 0..(index.count - 1) /\ i <= Mid  BY <2>1, <1>m, <1>t
    <3>2. index.ts[i] <= index.ts[Mid]
      BY <3>1, <2>1, <1>m, <1>t DEF Ascending
    <3>3. index.ts[i] \in Int /\ index.ts[Mid] \in Int
      BY <3>1, <2>1, <1>m, <1>t
    <3> QED BY <3>2, <3>3, <2>1, <1>t
  <2>4. Excluded'
    BY <2>1, <2>3, <1>m, <1>t DEF SearchInv, Excluded
  <2> QED BY <2>2, <2>4 DEF SearchInv
<1>2. CASE GoLeft
  <2>1. /\ lo <= hi /\ pc = "loop" /\ pc' = pc /\ best' = best
        /\ hi' = Mid - 1 /\ index' = index /\ target' = target /\ lo' = lo
        /\ index.ts[Mid] > target
    BY <1>2 DEF GoLeft
  <2>2. SearchTypeOK'
    BY <2>1, <1>m, <1>t DEF SearchInv, SearchTypeOK
  <2>3. ASSUME NEW i \in Mid..(index.count - 1) PROVE index.ts[i] > target
    <3>1. i \in 0..(index.count - 1) /\ Mid <= i  BY <2>1, <1>m, <1>t
    <3>2. index.ts[Mid] <= index.ts[i]
      BY <3>1, <2>1, <1>m, <1>t DEF Ascending
    <3>3. index.ts[i] \in Int /\ index.ts[Mid] \in Int
      BY <3>1, <2>1, <1>m, <1>t
    <3> QED BY SMTT(30), <3>2, <3>3, <2>1, <1>t
  <2>4. Excluded'
    BY <2>1, <2>3, <1>m, <1>t DEF SearchInv, Excluded
  <2> QED BY <2>2, <2>4 DEF SearchInv
<1>3. CASE Return
  BY <1>3 DEF Return, SearchInv, SearchTypeOK, Excluded
<1>4. CASE UNCHANGED searchVars
  BY <1>4 DEF searchVars, SearchInv, SearchTypeOK, Excluded
<1>5. ASSUME NEW x \in Indexes, NEW t \in Targets, Begin(x, t) PROVE SearchInv'
  BY <1>5, IndexesAssumption, TargetsAssumption
     DEF Begin, SearchInv, SearchTypeOK, Excluded, IsIndex
<1> QED BY <1>1, <1>2, <1>3, <1>4, <1>5 DEF SearchNext, Round

\* The bounds and the result stay within the index.
THEOREM SearchTypeCorrect == SearchSpec => []SearchTypeOK
<1>1. SearchInv => SearchTypeOK  BY DEF SearchInv
<1> QED BY SearchStarts, SearchKeeps, <1>1, PTL DEF SearchSpec

\* With the range empty, best is the answer.
LEMMA SearchIsLast ==
    ASSUME SearchInv, pc = "done"
    PROVE  IsLastAtOrBefore(index.ts, index.count, target, best)
<1>1. lo = hi + 1 /\ best = hi
  BY DEF SearchInv, SearchTypeOK, IsIndex, Excluded
<1> QED  BY <1>1 DEF SearchInv, SearchTypeOK, IsIndex, Excluded, IsLastAtOrBefore

\* search returns the last frame captured at or before the timestamp, for
\* every ascending index and every timestamp.
THEOREM SearchCorrect == SearchSpec => []SearchIsRight
<1>1. SearchInv => SearchIsRight
  BY SearchIsLast DEF SearchIsRight
<1> QED BY SearchStarts, SearchKeeps, <1>1, PTL DEF SearchSpec

\* Each round leaves a strictly smaller range, so the loop ends after at most
\* as many rounds as there are records.
THEOREM SearchProgress == SearchSpec => RangeShrinks
<1>1. SearchInv /\ [SearchNext]_searchVars => [pc = "loop" /\ pc' = "loop" => hi' - lo' < hi - lo]_searchVars
  <2> SUFFICES ASSUME SearchInv, SearchNext, pc = "loop", pc' = "loop"
               PROVE  hi' - lo' < hi - lo \/ UNCHANGED searchVars
    BY DEF searchVars
  <2>t. lo \in Int /\ hi \in Int  BY DEF SearchInv, SearchTypeOK, IsIndex
  <2>m. lo <= hi => Mid \in Int /\ lo <= Mid /\ Mid <= hi
    BY <2>t, MidInRange DEF Mid
  <2> QED BY <2>t, <2>m DEF SearchNext, Round, GoRight, GoLeft, Return, Begin
<1> QED BY SearchStarts, SearchKeeps, <1>1, PTL DEF SearchSpec, RangeShrinks

-----------------------------------------------------------------------------
(* The segments laid out as one sequence of frames.                        *)

\* The frames of each segment, as Timeline has them.
Parts == [s \in 1..Len(rec) |-> [k \in 1..rec[s].count |-> <<s, k - 1>>]]

\* Frames of segments before s, in the timeline.
Base(s) == Len(Flat(Parts, s - 1))

IsStart(f) ==
    f = [s \in 1..(Len(rec) + 1) |-> IF s = 1 THEN 0 ELSE f[s - 1] + rec[s - 1].count]

RecOK == rec \in Recordings

LEMMA RecFacts ==
    ASSUME RecOK
    PROVE  /\ Len(rec) \in Nat
           /\ \A s \in 1..Len(rec) :
                 /\ rec[s] \in Indexes /\ IsIndex(rec[s])
                 /\ rec[s].count \in Nat
                 /\ rec[s].ts \in [0..(rec[s].count - 1) -> Int]
                 /\ Ascending(rec[s].ts, rec[s].count)
           /\ InOrder(rec)
<1>1. rec \in Seq(Indexes) /\ InOrder(rec)
  BY RecordingsAssumption DEF RecOK
<1>2. \A s \in 1..Len(rec) : rec[s] \in Indexes
  BY <1>1
<1> QED  BY <1>1, <1>2, IndexesAssumption DEF IsIndex

LEMMA PartsFacts ==
    ASSUME RecOK
    PROVE  /\ Parts \in [1..Len(rec) -> Seq(Nat \X Nat)]
           /\ \A s \in 1..Len(rec) :
                 /\ Len(Parts[s]) = rec[s].count
                 /\ \A j \in 1..rec[s].count : Parts[s][j] = <<s, j - 1>>
           /\ Flattens(Nat \X Nat, Len(rec), Parts)
           /\ Timeline = Flat(Parts, Len(rec))
<1>1. ASSUME NEW s \in 1..Len(rec)
      PROVE  /\ Parts[s] \in Seq(Nat \X Nat)
             /\ Len(Parts[s]) = rec[s].count
             /\ \A j \in 1..rec[s].count : Parts[s][j] = <<s, j - 1>>
  <2>1. rec[s].count \in Nat /\ s \in Nat
    BY RecFacts
  <2> DEFINE h == [k \in 1..rec[s].count |-> <<s, k - 1>>]
  <2>2. h \in [1..rec[s].count -> Nat \X Nat]
    BY <2>1
  <2>3. Parts[s] = h
    BY DEF Parts
  <2>4. \A j \in 1..rec[s].count : h[j] = <<s, j - 1>>
    OBVIOUS
  <2> HIDE DEF h
  <2>5. h \in Seq(Nat \X Nat) /\ Len(h) = rec[s].count
    BY <2>1, <2>2
  <2> QED  BY <2>3, <2>4, <2>5
<1>2. Parts \in [1..Len(rec) -> Seq(Nat \X Nat)]
  <2> DEFINE T == Seq(Nat \X Nat)
             e(s) == [k \in 1..rec[s].count |-> <<s, k - 1>>]
  <2>1. Parts = [s \in 1..Len(rec) |-> e(s)]
    BY DEF Parts
  <2>2. \A s \in 1..Len(rec) : Parts[s] = e(s) /\ Parts[s] \in T
    BY <1>1, <2>1
  <2> HIDE DEF T, e
  <2>3. \A s \in 1..Len(rec) : e(s) \in T
    BY <2>2
  <2>4. Parts \in [1..Len(rec) -> T]
    BY <2>1, <2>3
  <2> QED  BY <2>4 DEF T
<1>3. Flattens(Nat \X Nat, Len(rec), Parts)
  BY <1>2, RecFacts, FlattenFacts
<1>4. Timeline = FlattenSeq(Parts)
  BY DEF Timeline, Parts
<1>5. Flat(Parts, Len(rec)) = FlattenSeq(Parts)
  BY <1>3 DEF Flattens, FlattensBySteps
<1> QED  BY <1>1, <1>2, <1>3, <1>4, <1>5

\* The lengths of the first parts: Base as the sums _starts is filled with.
LEMMA BaseFacts ==
    ASSUME RecOK
    PROVE  /\ Base(1) = 0
           /\ \A s \in 1..(Len(rec) + 1) : Base(s) \in Nat
           /\ \A s \in 1..Len(rec) : Base(s + 1) = Base(s) + rec[s].count
           /\ Base(Len(rec) + 1) = Len(Timeline)
           /\ \A s, u \in 1..(Len(rec) + 1) : s <= u => Base(s) <= Base(u)
<1> DEFINE n == Len(rec)
<1>n. n \in Nat
  BY RecFacts
<1>f. FlattensBySteps(Nat \X Nat, n, Parts) /\ IsGrowing(Parts, n)
  BY PartsFacts DEF Flattens
<1> HIDE DEF n
<1>1. Base(1) = 0
  BY <1>f DEF FlattensBySteps, Base
<1>2. ASSUME NEW s \in 1..(n + 1) PROVE Base(s) \in Nat
  <2>1. s - 1 \in 0..n
    BY <1>n
  <2> QED  BY <1>f, <2>1 DEF FlattensBySteps, Base
<1>3. ASSUME NEW s \in 1..n PROVE Base(s + 1) = Base(s) + rec[s].count
  <2>1. s - 1 \in 0..(n - 1) /\ (s - 1) + 1 = s /\ (s + 1) - 1 = s
    BY <1>n
  <2>2. Len(Flat(Parts, (s - 1) + 1)) = Len(Flat(Parts, s - 1)) + Len(Parts[(s - 1) + 1])
    BY <1>f, <2>1 DEF FlattensBySteps
  <2>3. Len(Parts[s]) = rec[s].count
    BY PartsFacts DEF n
  <2> QED  BY <2>1, <2>2, <2>3 DEF Base
<1>4. Base(n + 1) = Len(Timeline)
  <2>1. (n + 1) - 1 = n
    BY <1>n
  <2> QED  BY <2>1, PartsFacts DEF Base, n
<1>5. ASSUME NEW s \in 1..(n + 1), NEW u \in 1..(n + 1), s <= u
      PROVE  Base(s) <= Base(u)
  <2>1. u - 1 \in 0..n /\ s - 1 \in 0..(u - 1)
    BY <1>n, <1>5
  <2> QED  BY <1>f, <2>1 DEF IsGrowing, Base
<1> QED  BY <1>1, <1>2, <1>3, <1>4, <1>5 DEF n

\* The recursion of Start is solved by Base, and by nothing else.
LEMMA StartIsBase ==
    ASSUME RecOK
    PROVE  \A s \in 1..(Len(rec) + 1) : Start[s] = Base(s)
<1> DEFINE n == Len(rec)
           b == [s \in 1..(n + 1) |-> Base(s)]
<1>n. n \in Nat
  BY RecFacts
<1>1. IsStart(b)
  <2>1. ASSUME NEW s \in 1..(n + 1)
        PROVE  b[s] = IF s = 1 THEN 0 ELSE b[s - 1] + rec[s - 1].count
    <3>1. CASE s = 1
      BY <3>1, BaseFacts
    <3>2. CASE s # 1
      <4>1. s - 1 \in 1..n /\ s - 1 \in 1..(n + 1) /\ (s - 1) + 1 = s
        BY <1>n, <3>2
      <4>2. Base((s - 1) + 1) = Base(s - 1) + rec[s - 1].count
        BY <4>1, BaseFacts
      <4>3. b[s - 1] = Base(s - 1) /\ b[s] = Base(s)
        BY <4>1
      <4> QED  BY <3>2, <4>1, <4>2, <4>3
    <3> QED  BY <3>1, <3>2
  <2>2. b = [s \in 1..(n + 1) |-> IF s = 1 THEN 0 ELSE b[s - 1] + rec[s - 1].count]
    <3> DEFINE e(s) == IF s = 1 THEN 0 ELSE b[s - 1] + rec[s - 1].count
    <3>1. \A s \in 1..(n + 1) : b[s] = e(s)
      BY <2>1
    <3>2. b = [s \in 1..(n + 1) |-> b[s]]
      OBVIOUS
    <3> HIDE DEF b, e
    <3>3. b = [s \in 1..(n + 1) |-> e(s)]
      BY <3>1, <3>2
    <3> QED  BY <3>3 DEF e
  <2> HIDE DEF b
  <2> QED  BY <2>2 DEF IsStart, n
<1> HIDE DEF b
<1>2. IsStart(Start)
  <2>1. Start = CHOOSE f : IsStart(f)
    BY DEF Start, IsStart
  <2> QED  BY <1>1, <2>1
<1>3. ASSUME NEW s \in 1..(n + 1)
      PROVE  Start[s] = IF s = 1 THEN 0 ELSE Start[s - 1] + rec[s - 1].count
  <2> DEFINE h == [r \in 1..(n + 1) |-> IF r = 1 THEN 0 ELSE Start[r - 1] + rec[r - 1].count]
  <2>1. h[s] = IF s = 1 THEN 0 ELSE Start[s - 1] + rec[s - 1].count
    OBVIOUS
  <2>2. Start = h
    BY <1>2, Zenon DEF IsStart, n
  <2> HIDE DEF h
  <2> QED  BY <2>1, <2>2
<1> DEFINE T == {k \in Nat : k \in 1..(n + 1) => Start[k] = Base(k)}
<1>4. 0 \in T
  OBVIOUS
<1>5. ASSUME NEW k \in T PROVE k + 1 \in T
  <2>1. SUFFICES ASSUME k + 1 \in 1..(n + 1) PROVE Start[k + 1] = Base(k + 1)
    OBVIOUS
  <2>2. CASE k = 0
    BY <2>2, <1>3, <2>1, BaseFacts
  <2>3. CASE k # 0
    <3>1. k \in 1..n /\ k \in 1..(n + 1) /\ (k + 1) - 1 = k /\ k + 1 # 1
      BY <1>n, <2>1, <2>3
    <3>2. Start[k] = Base(k)
      BY <3>1
    <3> HIDE DEF T
    <3>3. Start[k + 1] = Start[k] + rec[k].count
      BY <1>3, <2>1, <3>1
    <3>4. Base(k + 1) = Base(k) + rec[k].count
      BY <3>1, BaseFacts DEF n
    <3> QED  BY <3>2, <3>3, <3>4
  <2> QED  BY <2>2, <2>3
<1> HIDE DEF T
<1>6. T = Nat
  BY <1>4, <1>5, SetInduction DEF T
<1> QED  BY <1>6 DEF T, n

\* Frame Base(s) + k of the timeline is record k of segment s, ...
LEMMA Laid ==
    ASSUME RecOK, NEW s \in 1..Len(rec), NEW k \in 0..(rec[s].count - 1)
    PROVE  /\ Base(s) + k \in 0..(Len(Timeline) - 1)
           /\ Timeline[Base(s) + k + 1] = <<s, k>>
           /\ Base(s) \in Nat /\ Base(s) + k < Base(s + 1)
<1>1. rec[s].count \in Nat /\ Len(rec) \in Nat /\ k \in Nat
  BY RecFacts
<1>2. k + 1 \in 1..rec[s].count /\ (k + 1) - 1 = k
  BY <1>1
<1>3. IsPlaced(Parts, Len(rec))
  BY PartsFacts DEF Flattens
<1>4. Len(rec) \in 0..Len(rec) /\ k + 1 \in 1..Len(Parts[s])
  BY <1>1, <1>2, PartsFacts
<1>p. /\ Len(Flat(Parts, s - 1)) + (k + 1) \in 1..Len(Flat(Parts, Len(rec)))
      /\ Flat(Parts, Len(rec))[Len(Flat(Parts, s - 1)) + (k + 1)] = Parts[s][k + 1]
  BY <1>3, <1>4 DEF IsPlaced
<1>5. /\ Base(s) + (k + 1) \in 1..Len(Timeline)
      /\ Timeline[Base(s) + (k + 1)] = Parts[s][k + 1]
  BY <1>p, PartsFacts DEF Base
<1>6. Base(s) \in Nat /\ Base(s + 1) = Base(s) + rec[s].count
  BY <1>1, BaseFacts
<1>7. Parts[s][k + 1] = <<s, k>>
  BY <1>2, PartsFacts
<1>8. Base(s) + (k + 1) = Base(s) + k + 1
  BY <1>1, <1>6
<1>9. Len(Timeline) \in Nat
  BY <1>1, BaseFacts
<1>10. Base(s) + k \in 0..(Len(Timeline) - 1)
  <2> DEFINE b == Base(s)
             l == Len(Timeline)
  <2>1. b \in Nat /\ l \in Nat /\ b + (k + 1) \in 1..l
    BY <1>5, <1>6, <1>9
  <2> HIDE DEF b, l
  <2>2. b + k \in 0..(l - 1)
    BY <1>1, <2>1
  <2> QED  BY <2>2 DEF b, l
<1>11. Base(s) + k < Base(s + 1)
  BY <1>1, <1>6
<1>12. Timeline[Base(s) + k + 1] = <<s, k>>
  BY <1>5, <1>7, <1>8
<1> QED  BY <1>6, <1>10, <1>11, <1>12

\* ... and there is no other frame.
LEMMA NothingElse ==
    ASSUME RecOK, NEW g \in 0..(Len(Timeline) - 1)
    PROVE  \E s \in 1..Len(rec) : \E k \in 0..(rec[s].count - 1) : g = Base(s) + k
<1>1. Len(rec) \in Nat /\ Len(rec) \in 0..Len(rec) /\ Len(Timeline) \in Nat
  BY RecFacts, BaseFacts
<1>2. IsCovered(Parts, Len(rec)) /\ Timeline = Flat(Parts, Len(rec))
  BY PartsFacts DEF Flattens
<1>3. g + 1 \in 1..Len(Timeline)
  BY <1>1
<1>4. PICK s \in 1..Len(rec) : \E j \in 1..Len(Parts[s]) :
          g + 1 = Len(Flat(Parts, s - 1)) + j
  BY <1>1, <1>2, <1>3 DEF IsCovered
<1>5. PICK j \in 1..Len(Parts[s]) : g + 1 = Base(s) + j
  BY <1>4 DEF Base
<1>6. rec[s].count \in Nat /\ Len(Parts[s]) = rec[s].count /\ Base(s) \in Nat
  BY <1>1, RecFacts, PartsFacts, BaseFacts
<1>7. j - 1 \in 0..(rec[s].count - 1) /\ g = Base(s) + (j - 1)
  BY <1>5, <1>6, SMTT(30)
<1> QED  BY <1>7

LEMMA CountIsLength ==
    ASSUME RecOK
    PROVE  Count = Len(Timeline) /\ Count \in Nat
<1>1. Len(rec) \in Nat /\ Len(rec) + 1 \in 1..(Len(rec) + 1)
  BY RecFacts
<1> QED  BY <1>1, StartIsBase, BaseFacts DEF Count

\* Of some segments, one is the last.
LEMMA LatestIs ==
    ASSUME NEW n \in Nat, NEW S \in SUBSET (1..n), S # {}
    PROVE  Latest(S) \in S /\ \A t \in S : t <= Latest(S)
<1> DEFINE T == {n - s : s \in S}
<1>0. \A s \in S : s \in 1..n /\ s \in Int /\ n - s \in Nat
  OBVIOUS
<1>1. T \in SUBSET Nat /\ T # {}
  BY <1>0, Zenon
<1>2. PICK m \in T : \A k \in T : m <= k
  BY <1>1, LeastNumber
<1>3. PICK s \in S : m = n - s
  OBVIOUS
<1>4. ASSUME NEW t \in S PROVE n - t \in T /\ t \in Int
  <2>1. n - t \in T
    BY Zenon
  <2> QED  BY <1>0, <2>1
<1> HIDE DEF T
<1>5. \A t \in S : t <= s
  BY <1>2, <1>3, <1>4
<1> QED  BY <1>5 DEF Latest

\* _locate finds the segment and the record of every frame.
LEMMA Located ==
    ASSUME RecOK, NEW s \in 1..Len(rec), NEW k \in 0..(rec[s].count - 1)
    PROVE  Locate(Base(s) + k) = <<s, k>>
<1> DEFINE g == Base(s) + k
           S == {u \in 1..Len(rec) : Start[u] <= g}
<1>n. Len(rec) \in Nat /\ rec[s].count \in Nat
  BY RecFacts
<1>1. Base(s) \in Nat /\ g < Base(s + 1)
  BY Laid
<1>2. s \in S /\ Start[s] = Base(s)
  <2>1. s \in 1..(Len(rec) + 1)
    BY <1>n
  <2>2. Start[s] = Base(s)
    BY <2>1, StartIsBase
  <2> QED  BY <1>1, <2>2
<1>3. ASSUME NEW u \in S PROVE u <= s
  <2> SUFFICES ASSUME ~(u <= s) PROVE FALSE
    OBVIOUS
  <2>1. u \in 1..(Len(rec) + 1) /\ s + 1 \in 1..(Len(rec) + 1) /\ s + 1 <= u
    BY <1>n
  <2>2. Base(s + 1) <= Base(u) /\ Base(u) \in Nat /\ Base(s + 1) \in Nat
    BY <2>1, BaseFacts
  <2>3. Start[u] <= g /\ Start[u] = Base(u)
    BY <2>1, StartIsBase
  <2> HIDE DEF g, S
  <2>4. g \in Int
    BY <1>1 DEF g
  <2> QED  BY <1>1, <2>2, <2>3, <2>4
<1>4. S \in SUBSET (1..Len(rec))
  OBVIOUS
<1> HIDE DEF S
<1>5. Latest(S) \in S /\ s <= Latest(S)
  BY <1>n, <1>2, <1>4, LatestIs
<1>6. Latest(S) = s
  <2>1. Latest(S) <= s
    BY <1>3, <1>5
  <2>2. \A u \in S : u \in 1..Len(rec)
    BY <1>4
  <2>3. Latest(S) \in 1..Len(rec)
    BY <1>5, <2>2
  <2> HIDE DEF g
  <2> QED  BY <1>5, <1>n, <2>1, <2>3
<1>7. g - Base(s) = k
  BY <1>1
<1>8. Locate(g) = <<s, g - Start[s]>>
  BY <1>6 DEF Locate, S
<1> QED  BY <1>2, <1>7, <1>8

\* So the timestamp it leads to is the one of the timeline.
LEMMA TimeIsTimeOf ==
    ASSUME RecOK, NEW s \in 1..Len(rec), NEW k \in 0..(rec[s].count - 1)
    PROVE  /\ Time(Base(s) + k) = rec[s].ts[k]
           /\ Times[Base(s) + k] = rec[s].ts[k]
           /\ rec[s].ts[k] \in Int
<1> DEFINE g == Base(s) + k
<1>1. g \in Frames /\ Timeline[g + 1] = <<s, k>>
  BY Laid DEF Frames
<1>2. Locate(g) = <<s, k>>
  BY Located
<1>3. rec[s].ts[k] \in Int
  BY RecFacts
<1> HIDE DEF g
<1>4. Time(g) = rec[s].ts[k]
  BY <1>2 DEF Time
<1>5. Times[g] = rec[s].ts[k]
  BY <1>1 DEF Times, TimeOf
<1> QED  BY <1>3, <1>4, <1>5 DEF g

-----------------------------------------------------------------------------
(* What a call has found out, at each of its steps.                        *)

CallInv ==
    /\ call = NoCall => ~answered /\ pc = "idle"
    /\ call.op = "locate" =>
          /\ call.g \in Int
          /\ answer = IF FromEnd(call.g) \in 0..(Count - 1) THEN Locate(FromEnd(call.g))
                      ELSE OutOfRange
    /\ call.op \in {"index_at", "at"} =>
          /\ call.t \in Targets
          /\ IF Begun(call.t) = {} THEN pc = "idle"
             ELSE pc # "idle" /\ index = rec[Latest(Begun(call.t))] /\ target = call.t
    /\ call.op = "at" => call.tolerance \in Tolerances
    /\ call.op = "nearest" =>
          /\ call.s \in 1..Len(rec) /\ call.t \in Targets
          /\ IF rec[call.s].count = 0 THEN pc = "idle"
             ELSE pc # "idle" /\ index = rec[call.s] /\ target = call.t
    /\ answered =>
          /\ call.op \in {"index_at", "at", "nearest"} => pc # "loop"
          /\ call.op = "index_at" => answer = IndexAt(call.t)
          /\ call.op = "at" => answer = At(call.t, call.tolerance)
          /\ call.op = "nearest" => answer = Nearest(rec[call.s], call.t)

IInv == RecOK /\ SearchInv /\ CallInv

\* The recording stays, and so does what is computed from it.
LEMMA SameRecording ==
    ASSUME rec' = rec
    PROVE  /\ Start' = Start /\ Count' = Count
           /\ \A g : Locate(g)' = Locate(g) /\ FromEnd(g)' = FromEnd(g)
           /\ \A t : Begun(t)' = Begun(t)
<1>1. Start' = Start
  BY DEF Start
<1>2. Count' = Count
  BY <1>1 DEF Count
<1>3. ASSUME NEW g PROVE Locate(g)' = Locate(g)
  BY <1>1 DEF Locate
<1>4. ASSUME NEW g PROVE FromEnd(g)' = FromEnd(g)
  BY <1>2 DEF FromEnd
<1>5. ASSUME NEW t PROVE Begun(t)' = Begun(t)
  BY DEF Begun
<1> QED  BY <1>1, <1>2, <1>3, <1>4, <1>5

LEMMA SameAnswer ==
    ASSUME rec' = rec, best' = best
    PROVE  /\ \A t : IndexAt(t)' = IndexAt(t)
           /\ \A t, d : At(t, d)' = At(t, d)
           /\ \A x, t : Nearest(x, t)' = Nearest(x, t)
<1>0. Start' = Start
  BY DEF Start
<1>1. ASSUME NEW t PROVE IndexAt(t)' = IndexAt(t)
  <2>1. Begun(t)' = Begun(t)
    BY SameRecording
  <2> QED  BY <1>0, <2>1 DEF IndexAt
<1>2. ASSUME NEW g PROVE Time(g)' = Time(g)
  <2>1. Locate(g)' = Locate(g)
    BY SameRecording
  <2> QED  BY <2>1 DEF Time
<1>3. ASSUME NEW t, NEW d PROVE At(t, d)' = At(t, d)
  <2>1. Count' = Count /\ IndexAt(t)' = IndexAt(t)
    BY <1>1, SameRecording
  <2>2. ASSUME NEW C PROVE [j \in C |-> Time(j)'] = [j \in C |-> Time(j)]
    BY <1>2
  <2> QED  BY <1>2, <2>1, <2>2 DEF At
<1>4. ASSUME NEW x, NEW t PROVE Nearest(x, t)' = Nearest(x, t)
  BY DEF Nearest
<1> QED  BY <1>1, <1>3, <1>4

LEMMA BegunFacts ==
    ASSUME RecOK, NEW t, Begun(t) # {}
    PROVE  /\ Latest(Begun(t)) \in Begun(t)
           /\ Latest(Begun(t)) \in 1..Len(rec)
           /\ \A s \in Begun(t) : s <= Latest(Begun(t))
           /\ rec[Latest(Begun(t))] \in Indexes
<1>1. Len(rec) \in Nat
  BY RecFacts
<1>2. Begun(t) \in SUBSET (1..Len(rec))
  BY DEF Begun
<1>3. /\ Latest(Begun(t)) \in Begun(t)
      /\ \A s \in Begun(t) : s <= Latest(Begun(t))
  BY <1>1, <1>2, LatestIs
<1>4. Latest(Begun(t)) \in 1..Len(rec)
  BY <1>2, <1>3
<1> QED  BY <1>3, <1>4, RecFacts

LEMMA LocateKeeps ==
    ASSUME IInv, NEW g \in -(Count + 1)..Count, AskLocate(g)
    PROVE  CallInv'
<1>1. /\ call' = [op |-> "locate", g |-> g] /\ rec' = rec
      /\ answer' = IF FromEnd(g) \in 0..(Count - 1) THEN Locate(FromEnd(g)) ELSE OutOfRange
  BY DEF AskLocate, Ask
<1>2. g \in Int
  BY CountIsLength DEF IInv
<1>3. /\ Count' = Count
      /\ FromEnd(g)' = FromEnd(g) /\ Locate(FromEnd(g))' = Locate(FromEnd(g))
  <2>1. rec' = rec
    BY <1>1
  <2>2. Start' = Start /\ Count' = Count /\ FromEnd(g)' = FromEnd(g)
    BY <2>1, SameRecording
  <2> QED  BY <2>1, <2>2 DEF Locate
<1>4. call'.op = "locate" /\ call'.g = g /\ call' # NoCall
  BY <1>1 DEF NoCall
<1> QED  BY <1>1, <1>2, <1>3, <1>4 DEF CallInv

\* A question by time: either no segment has begun, or the last that has is
\* searched.
LEMMA ByTimeKeeps ==
    ASSUME IInv, NEW t \in Targets, SearchBegun(t), call = NoCall,
           rec' = rec, UNCHANGED <<answered, answer>>,
           call'.op \in {"index_at", "at"}, call'.t = t,
           call'.op = "at" => call'.tolerance \in Tolerances
    PROVE  CallInv'
<1>1. ~answered /\ pc = "idle"
  BY DEF IInv, CallInv
<1>2. Begun(t)' = Begun(t)
  BY SameRecording
<1>3. CASE Begun(t) = {}
  <2>1. pc' = "idle"
    BY <1>1, <1>3 DEF SearchBegun, searchVars
  <2> QED  BY <1>1, <1>2, <1>3, <2>1 DEF CallInv, NoCall
<1>4. CASE Begun(t) # {}
  <2>1. pc' = "loop" /\ index' = rec[Latest(Begun(t))] /\ target' = t
    BY <1>4 DEF SearchBegun, Begin
  <2>2. index' = rec'[Latest(Begun(t)')]
    BY <1>2, <2>1
  <2> QED  BY <1>1, <1>2, <1>4, <2>1, <2>2 DEF CallInv, NoCall
<1> QED  BY <1>3, <1>4

LEMMA NearestKeeps ==
    ASSUME IInv, NEW s \in 1..Len(rec), NEW t \in Targets, AskNearest(s, t)
    PROVE  CallInv'
<1>1. /\ call = NoCall /\ call' = [op |-> "nearest", s |-> s, t |-> t] /\ rec' = rec
      /\ answered' = answered
      /\ IF rec[s].count = 0 THEN UNCHANGED searchVars ELSE Begin(rec[s], t)
  BY DEF AskNearest, Ask
<1>2. ~answered /\ pc = "idle"
  BY <1>1 DEF IInv, CallInv
<1>3. IF rec[s].count = 0 THEN pc' = "idle"
      ELSE pc' = "loop" /\ index' = rec[s] /\ target' = t
  BY <1>1, <1>2 DEF searchVars, Begin
<1>4. call'.op = "nearest" /\ call'.s = s /\ call'.t = t /\ call' # NoCall
  BY <1>1 DEF NoCall
<1> QED  BY <1>1, <1>2, <1>3, <1>4 DEF CallInv

LEMMA RoundKeeps ==
    ASSUME IInv, Searching
    PROVE  CallInv'
<1>1. /\ pc = "loop" /\ pc' \in {"loop", "done"} /\ index' = index /\ target' = target
      /\ UNCHANGED <<rec, call, answered, answer>>
  BY DEF Searching, Round, GoRight, GoLeft, Return
<1>2. call # NoCall /\ (answered => call.op \notin {"index_at", "at", "nearest"})
  BY <1>1 DEF IInv, CallInv
<1>3. Count' = Count /\ \A g : Locate(g)' = Locate(g) /\ FromEnd(g)' = FromEnd(g)
  BY <1>1, SameRecording
<1>4. Begun(call.t)' = Begun(call.t)
  BY <1>1 DEF Begun
<1>5. FromEnd(call.g)' = FromEnd(call.g) /\ Locate(FromEnd(call.g))' = Locate(FromEnd(call.g))
  <2>1. FromEnd(call.g)' = FromEnd(call'.g)
    BY <1>1, <1>3 DEF FromEnd
  <2>2. FromEnd(call'.g) = FromEnd(call.g)
    BY <1>1
  <2>3. Start' = Start
    BY <1>1 DEF Start
  <2> QED  BY <1>1, <2>1, <2>2, <2>3 DEF Locate
<1> QED  BY <1>1, <1>2, <1>3, <1>4, <1>5 DEF IInv, CallInv

\* The answer is given once, with the search at its end.
LEMMA ReplyKeeps ==
    ASSUME IInv, ReplyIndexAt \/ ReplyAt \/ ReplyNearest
    PROVE  CallInv'
<1>1. /\ pc # "loop" /\ answered'
      /\ UNCHANGED <<rec, call, index, target, lo, hi, best, pc>>
      /\ \/ call.op = "index_at" /\ answer' = IndexAt(call.t)
         \/ call.op = "at" /\ answer' = At(call.t, call.tolerance)
         \/ call.op = "nearest" /\ answer' = Nearest(rec[call.s], call.t)
  BY DEF ReplyIndexAt, ReplyAt, ReplyNearest, Reply, searchVars
<1>2. /\ Begun(call.t)' = Begun(call.t)
  BY <1>1 DEF Begun
<1>3. /\ \A t : IndexAt(t)' = IndexAt(t)
      /\ \A t, d : At(t, d)' = At(t, d)
      /\ \A x, t : Nearest(x, t)' = Nearest(x, t)
  BY <1>1, SameAnswer
<1>4. call' # NoCall /\ call'.op # "locate"
  BY <1>1 DEF NoCall
<1> QED  BY <1>1, <1>2, <1>3, <1>4 DEF IInv, CallInv

LEMMA StepKeeps ==
    ASSUME IInv, [Next]_vars
    PROVE  IInv'
<1>1. RecOK'
  <2>1. rec' = rec
    BY DEF Next, vars, AskLocate, AskIndexAt, AskAt, AskNearest, Ask, Searching, ReplyIndexAt,
           ReplyAt, ReplyNearest, Reply, Answered
  <2> QED  BY <2>1 DEF IInv, RecOK
<1> DEFINE Kept == SearchInv' /\ CallInv'
<1>2. ASSUME [SearchNext]_searchVars PROVE SearchInv'
  BY <1>2, SearchKeeps DEF IInv
<1>3. ASSUME NEW g \in -(Count + 1)..Count, AskLocate(g) PROVE Kept
  <2>1. UNCHANGED searchVars
    BY <1>3 DEF AskLocate
  <2> QED  BY <1>2, <1>3, <2>1, LocateKeeps
<1>4. ASSUME NEW t \in Targets, SearchBegun(t) PROVE SearchInv'
  <2>1. CASE Begun(t) = {}
    BY <1>2, <1>4, <2>1 DEF SearchBegun
  <2>2. CASE Begun(t) # {}
    <3>1. rec[Latest(Begun(t))] \in Indexes
      BY <2>2, BegunFacts DEF IInv
    <3>2. Begin(rec[Latest(Begun(t))], t)
      BY <1>4, <2>2 DEF SearchBegun
    <3>3. SearchNext
      BY <3>1, <3>2, Zenon DEF SearchNext
    <3> QED  BY <1>2, <3>3
  <2> QED  BY <2>1, <2>2
<1>5. ASSUME NEW t \in Targets, AskIndexAt(t) PROVE Kept
  <2>1. /\ call = NoCall /\ call' = [op |-> "index_at", t |-> t] /\ rec' = rec
        /\ SearchBegun(t) /\ UNCHANGED <<answered, answer>>
    BY <1>5 DEF AskIndexAt, Ask
  <2>2. call'.op = "index_at" /\ call'.t = t
    BY <2>1
  <2>3. CallInv'
    BY <2>1, <2>2, ByTimeKeeps
  <2> QED  BY <1>4, <2>1, <2>3
<1>6. ASSUME NEW t \in Targets, NEW d \in Tolerances, AskAt(t, d) PROVE Kept
  <2>1. /\ call = NoCall /\ call' = [op |-> "at", t |-> t, tolerance |-> d] /\ rec' = rec
        /\ SearchBegun(t) /\ UNCHANGED <<answered, answer>>
    BY <1>6 DEF AskAt, Ask
  <2>2. call'.op = "at" /\ call'.t = t /\ call'.tolerance = d
    BY <2>1
  <2>3. CallInv'
    BY <2>1, <2>2, ByTimeKeeps
  <2> QED  BY <1>4, <2>1, <2>3
<1>7. ASSUME NEW s \in 1..Len(rec), NEW t \in Targets, AskNearest(s, t) PROVE Kept
  <2>1. rec[s] \in Indexes
    BY RecFacts DEF IInv
  <2>2. UNCHANGED searchVars \/ Begin(rec[s], t)
    BY <1>7 DEF AskNearest
  <2>3. Begin(rec[s], t) => SearchNext
    BY <2>1, Zenon DEF SearchNext
  <2>4. CallInv'
    BY <1>7, NearestKeeps
  <2> QED  BY <1>2, <2>2, <2>3, <2>4
<1>8. ASSUME Searching PROVE Kept
  <2>1. SearchNext
    BY <1>8 DEF Searching, SearchNext
  <2> QED  BY <1>2, <1>8, <2>1, RoundKeeps
<1>9. ASSUME ReplyIndexAt \/ ReplyAt \/ ReplyNearest PROVE Kept
  <2>1. UNCHANGED searchVars
    BY <1>9 DEF ReplyIndexAt, ReplyAt, ReplyNearest, Reply
  <2> QED  BY <1>2, <1>9, <2>1, ReplyKeeps
<1>10. ASSUME UNCHANGED vars PROVE Kept
  <2>1. UNCHANGED searchVars /\ UNCHANGED <<rec, call, answered, answer, index, target, best, pc>>
    BY <1>10 DEF vars, searchVars
  <2>2. Start' = Start /\ Count' = Count
    BY <2>1, SameRecording
  <2>3. /\ Begun(call.t)' = Begun(call.t)
        /\ FromEnd(call.g)' = FromEnd(call.g)
        /\ Locate(FromEnd(call.g))' = Locate(FromEnd(call.g))
    BY <2>1, <2>2 DEF Begun, Locate, FromEnd
  <2>4. /\ \A t : IndexAt(t)' = IndexAt(t)
        /\ \A t, d : At(t, d)' = At(t, d)
        /\ \A x, t : Nearest(x, t)' = Nearest(x, t)
    BY <2>1, SameAnswer
  <2>5. CallInv'
    BY <2>1, <2>2, <2>3, <2>4 DEF IInv, CallInv
  <2> QED  BY <1>2, <2>1, <2>5
<1>11. Kept
  BY <1>3, <1>5, <1>6, <1>7, <1>8, <1>9, <1>10 DEF Next, Answered
<1> QED  BY <1>1, <1>11 DEF IInv

LEMMA InvariantStarts == Init => IInv
<1>1. Init => SearchInv
  BY SearchStarts DEF Init
<1>2. Init => RecOK /\ CallInv
  BY DEF Init, RecOK, CallInv, SearchInit, NoCall
<1> QED  BY <1>1, <1>2 DEF IInv

\* The invariant holds in every reachable state.
THEOREM Invariant == Spec => []IInv
BY InvariantStarts, StepKeeps, PTL DEF Spec

\* What is known of a call says so of its answer.
LEMMA SearchesRight == IInv => SearchIsRight
BY SearchIsLast DEF IInv, SearchIsRight

\* The searches that the lookups begin are right too, each on the index of the
\* segment it was begun for (IndexReader.search).
THEOREM SearchesCorrect == Spec => []SearchIsRight
BY SearchesRight, Invariant, PTL

-----------------------------------------------------------------------------
(* The answers.                                                            *)

\* What is known of a call says so of its answer.
LEMMA LocatesRight == IInv => LocateIsPosition
<1> SUFFICES ASSUME IInv, call.op = "locate"
             PROVE  LET i == (IF call.g < 0 THEN call.g + Len(Timeline) ELSE call.g) + 1
                    IN  answer = IF i \in 1..Len(Timeline) THEN Timeline[i] ELSE OutOfRange
  BY DEF LocateIsPosition
<1>1. Count = Len(Timeline)
  BY CountIsLength DEF IInv
<1> DEFINE g == FromEnd(call.g)
<1>2. /\ g \in Int /\ Len(Timeline) \in Nat
      /\ answer = IF g \in 0..(Len(Timeline) - 1) THEN Locate(g) ELSE OutOfRange
  BY <1>1, CountIsLength DEF IInv, CallInv, FromEnd
<1>3. g = IF call.g < 0 THEN call.g + Len(Timeline) ELSE call.g
  BY <1>1 DEF FromEnd
<1> HIDE DEF g
<1>4. CASE g \in 0..(Len(Timeline) - 1)
  <2>1. PICK s \in 1..Len(rec) : \E k \in 0..(rec[s].count - 1) : g = Base(s) + k
    BY <1>4, NothingElse DEF IInv
  <2>2. PICK k \in 0..(rec[s].count - 1) : g = Base(s) + k
    BY <2>1
  <2>3. Locate(Base(s) + k) = <<s, k>> /\ Timeline[Base(s) + k + 1] = <<s, k>>
    BY Located, Laid DEF IInv
  <2>4. answer = Timeline[g + 1]
    BY <1>2, <1>4, <2>2, <2>3
  <2>5. g + 1 \in 1..Len(Timeline)
    BY <1>2, <1>4
  <2> QED  BY <1>3, <2>4, <2>5
<1>5. CASE g \notin 0..(Len(Timeline) - 1)
  <2>1. g + 1 \notin 1..Len(Timeline)
    BY <1>2, <1>5
  <2> QED  BY <1>2, <1>3, <1>5, <2>1
<1> QED  BY <1>4, <1>5

\* A frame number finds the frame with that number, also counted from the
\* end and across segments that have no frames, and any other number is out of
\* range (Recording._locate).
THEOREM LocateCorrect == Spec => []LocateIsPosition
BY LocatesRight, Invariant, PTL

\* What index_at returns once its search is over.
LEMMA IndexAtIsLast ==
    ASSUME RecOK, SearchInv, NEW t \in Targets,
           IF Begun(t) = {} THEN pc = "idle"
           ELSE pc # "idle" /\ index = rec[Latest(Begun(t))] /\ target = t,
           pc # "loop"
    PROVE  /\ IsLastAtOrBefore(Times, Len(Timeline), t, IndexAt(t))
           /\ IndexAt(t) \in -1..(Len(Timeline) - 1)
<1>0. t \in Int /\ Len(Timeline) \in Nat
  BY TargetsAssumption, CountIsLength
\* A frame at or before t is in a segment that has begun.
<1>1. ASSUME NEW s \in 1..Len(rec), NEW k \in 0..(rec[s].count - 1), rec[s].ts[k] <= t
      PROVE  s \in Begun(t)
  <2>1. rec[s].count \in Nat /\ rec[s].ts \in [0..(rec[s].count - 1) -> Int]
          /\ Ascending(rec[s].ts, rec[s].count)
    BY RecFacts
  <2>2. rec[s].count > 0 /\ 0 \in 0..(rec[s].count - 1) /\ 0 <= k
    BY <2>1
  <2>3. rec[s].ts[0] <= rec[s].ts[k]
    BY <2>1, <2>2 DEF Ascending
  <2>4. rec[s].ts[0] \in Int /\ rec[s].ts[k] \in Int
    BY <2>1, <2>2
  <2>5. rec[s].ts[0] <= t
    BY <1>0, <1>1, <2>3, <2>4
  <2> QED  BY <2>2, <2>5 DEF Begun
<1>2. CASE Begun(t) = {}
  <2>1. IndexAt(t) = -1
    BY <1>2 DEF IndexAt
  <2>2. ASSUME NEW g \in 0..(Len(Timeline) - 1) PROVE Times[g] > t
    <3>1. PICK s \in 1..Len(rec) : \E k \in 0..(rec[s].count - 1) : g = Base(s) + k
      BY NothingElse
    <3>2. PICK k \in 0..(rec[s].count - 1) : g = Base(s) + k
      BY <3>1
    <3>3. Times[g] = rec[s].ts[k] /\ rec[s].ts[k] \in Int
      BY <3>2, TimeIsTimeOf
    <3>4. ~(rec[s].ts[k] <= t)
      BY <1>1, <1>2
    <3> QED  BY <1>0, <3>3, <3>4
  <2> QED  BY <1>0, <2>1, <2>2 DEF IsLastAtOrBefore
<1>3. CASE Begun(t) # {}
  <2> DEFINE s == Latest(Begun(t))
             r == Base(s) + best
  <2>1. s \in 1..Len(rec) /\ s \in Begun(t) /\ \A u \in Begun(t) : u <= s
    BY <1>3, BegunFacts
  <2>2. index = rec[s] /\ target = t /\ pc = "done"
    BY <1>3 DEF SearchInv, SearchTypeOK
  <2> HIDE DEF s
  <2>3. rec[s].count \in Nat /\ rec[s].count > 0 /\ rec[s].ts[0] <= t /\ Len(rec) \in Nat
    BY <2>1, RecFacts DEF Begun
  <2>4. /\ best \in -1..(rec[s].count - 1)
        /\ best >= 0 => rec[s].ts[best] <= t
        /\ \A i \in 0..(rec[s].count - 1) : i > best => rec[s].ts[i] > t
    BY <2>2, SearchIsLast DEF IsLastAtOrBefore
  <2>5. best \in 0..(rec[s].count - 1)
    <3>1. 0 \in 0..(rec[s].count - 1) /\ rec[s].ts[0] \in Int
      BY <2>1, <2>3, RecFacts, SMTT(30)
    <3> QED  BY <1>0, <2>3, <2>4, <3>1
  <2>6. IndexAt(t) = r
    <3>1. s \in 1..(Len(rec) + 1)
      BY <2>1, <2>3
    <3> QED  BY <1>3, <3>1, StartIsBase DEF IndexAt, s
  <2>7. /\ r \in 0..(Len(Timeline) - 1)
        /\ Times[r] = rec[s].ts[best]
        /\ Base(s) \in Nat
    BY <2>1, <2>5, Laid, TimeIsTimeOf
  <2>8. Times[r] <= t
    BY <2>4, <2>5, <2>7
  <2>9. ASSUME NEW g \in 0..(Len(Timeline) - 1), g > r PROVE Times[g] > t
    <3>1. PICK u \in 1..Len(rec) : \E k \in 0..(rec[u].count - 1) : g = Base(u) + k
      BY NothingElse
    <3>2. PICK k \in 0..(rec[u].count - 1) : g = Base(u) + k
      BY <3>1
    <3>3. Times[g] = rec[u].ts[k] /\ rec[u].ts[k] \in Int
            /\ Base(u) \in Nat /\ Base(u) + k < Base(u + 1)
      BY <3>2, TimeIsTimeOf, Laid
    <3>4. CASE u = s
      <4>1. k > best /\ k \in 0..(rec[s].count - 1)
        BY <2>5, <2>7, <2>9, <3>2, <3>4
      <4> QED  BY <2>4, <3>3, <3>4, <4>1
    <3>5. CASE u > s
      <4>1. u \notin Begun(t)
        BY <2>1, <2>3, <3>5
      <4>2. ~(rec[u].ts[k] <= t)
        BY <1>1, <4>1
      <4> QED  BY <1>0, <3>3, <4>2
    <3>6. CASE u < s
      <4>1. u + 1 \in 1..(Len(rec) + 1) /\ s \in 1..(Len(rec) + 1) /\ u + 1 <= s
        BY <2>1, <2>3, <3>6
      <4>2. Base(u + 1) <= Base(s) /\ Base(u + 1) \in Nat
        BY <4>1, BaseFacts
      <4>3. rec[u].count \in Nat
        BY RecFacts
      <4>4. k \in Nat /\ best \in Nat
        BY <2>3, <2>5, <4>3
      <4>5. FALSE
        <5> DEFINE b == Base(u)
                   c == Base(s)
                   d == Base(u + 1)
        <5>1. b \in Nat /\ c \in Nat /\ d \in Nat /\ b + k < d /\ d <= c /\ b + k > c + best
          BY <2>7, <2>9, <3>2, <3>3, <4>2
        <5> HIDE DEF b, c, d
        <5> QED  BY <4>4, <5>1
      <4> QED  BY <4>5
    <3> QED  BY <2>1, <2>3, <3>4, <3>5, <3>6
  <2> HIDE DEF r
  <2>10. r >= 0 /\ r \in -1..(Len(Timeline) - 1)
    BY <1>0, <2>7
  <2> QED  BY <2>6, <2>8, <2>9, <2>10 DEF IsLastAtOrBefore
<1> QED  BY <1>2, <1>3

\* What is known of a call says so of its answer.
LEMMA IndexesRight == IInv => IndexAtIsGlobal
<1> SUFFICES ASSUME IInv, call.op = "index_at", answered
             PROVE  IsLastAtOrBefore(Times, Len(Timeline), call.t, answer)
  BY DEF IndexAtIsGlobal
<1>1. /\ call.t \in Targets /\ pc # "loop" /\ answer = IndexAt(call.t)
      /\ IF Begun(call.t) = {} THEN pc = "idle"
         ELSE pc # "idle" /\ index = rec[Latest(Begun(call.t))] /\ target = call.t
  BY DEF IInv, CallInv
<1> QED  BY <1>1, IndexAtIsLast DEF IInv

\* index_at searches one segment and is right about all of them
\* (Recording.index_at over IndexReader.search).
THEOREM IndexAtCorrect == Spec => []IndexAtIsGlobal
BY IndexesRight, Invariant, PTL

\* Time goes on along the timeline.
LEMMA TimesAscend ==
    ASSUME RecOK
    PROVE  /\ \A g \in Frames : Times[g] \in Int /\ Time(g) = Times[g]
           /\ \A g, h \in Frames : g <= h => Times[g] <= Times[h]
<1>0. Len(rec) \in Nat
  BY RecFacts
<1>1. ASSUME NEW g \in Frames PROVE Times[g] \in Int /\ Time(g) = Times[g]
  <2>1. PICK s \in 1..Len(rec) : \E k \in 0..(rec[s].count - 1) : g = Base(s) + k
    BY NothingElse DEF Frames
  <2>2. PICK k \in 0..(rec[s].count - 1) : g = Base(s) + k
    BY <2>1
  <2> QED  BY <2>2, TimeIsTimeOf
<1>2. ASSUME NEW g \in Frames, NEW h \in Frames, g <= h
      PROVE  Times[g] <= Times[h]
  <2>1. PICK s \in 1..Len(rec) : \E k \in 0..(rec[s].count - 1) : g = Base(s) + k
    BY NothingElse DEF Frames
  <2>2. PICK k \in 0..(rec[s].count - 1) : g = Base(s) + k
    BY <2>1
  <2>3. PICK u \in 1..Len(rec) : \E j \in 0..(rec[u].count - 1) : h = Base(u) + j
    BY NothingElse DEF Frames
  <2>4. PICK j \in 0..(rec[u].count - 1) : h = Base(u) + j
    BY <2>3
  <2>5. Times[g] = rec[s].ts[k] /\ Times[h] = rec[u].ts[j]
          /\ rec[s].ts[k] \in Int /\ rec[u].ts[j] \in Int
    BY <2>2, <2>4, TimeIsTimeOf
  <2>6. /\ Base(s) \in Nat /\ Base(u) \in Nat /\ Base(s) + k < Base(s + 1)
        /\ Base(u) + j < Base(u + 1)
        /\ rec[s].count \in Nat /\ rec[u].count \in Nat
    BY Laid, RecFacts
  <2>7. CASE s = u
    <3>1. k <= j /\ k \in 0..(rec[u].count - 1)
      BY <1>2, <2>2, <2>4, <2>6, <2>7
    <3>2. Ascending(rec[u].ts, rec[u].count)
      BY RecFacts
    <3> QED  BY <2>5, <2>7, <3>1, <3>2 DEF Ascending
  <2>8. CASE s < u
    <3>1. InOrder(rec)
      BY RecFacts
    <3> QED  BY <2>5, <2>8, <3>1 DEF InOrder
  <2>9. CASE s > u
    <3>1. u + 1 \in 1..(Len(rec) + 1) /\ s \in 1..(Len(rec) + 1) /\ u + 1 <= s
      BY <1>0, <2>9
    <3>2. Base(u + 1) <= Base(s) /\ Base(u + 1) \in Nat
      BY <3>1, BaseFacts
    <3> DEFINE a == Base(s)
               b == Base(u)
               c == Base(u + 1)
    <3>3. a \in Nat /\ b \in Nat /\ c \in Nat /\ c <= a /\ b + j < c /\ a + k <= b + j
            /\ k \in Nat /\ j \in Nat
      BY <1>2, <2>2, <2>4, <2>6, <3>2
    <3> HIDE DEF a, b, c
    <3>4. FALSE
      BY <3>3
    <3> QED  BY <3>4
  <2> QED  BY <1>0, <2>7, <2>8, <2>9
<1> QED  BY <1>1, <1>2

\* Of frames i and i + 1 the one nearer to t, the first if both are as near.
IsNearer(p, i, n, time, t) ==
    /\ p \in {i, i + 1}
    /\ \A k \in {i, i + 1} : k \in 0..(n - 1) /\ k # p =>
          \/ Distance(time[p], t) < Distance(time[k], t)
          \/ Distance(time[p], t) = Distance(time[k], t) /\ p < k

\* What the distance of two times is.
LEMMA DistanceIs ==
    ASSUME NEW x \in Int, NEW y \in Int
    PROVE  /\ Distance(x, y) \in Int
           /\ x <= y => Distance(x, y) = y - x
           /\ y <= x => Distance(x, y) = x - y
  BY DEF Distance

\* If i is the last frame at or before t, that is a nearest frame of all.
LEMMA NearestIsBeside ==
    ASSUME NEW n \in Nat \ {0}, NEW time \in [0..(n - 1) -> Int], Ascending(time, n),
           NEW t \in Int, NEW i \in -1..(n - 1), IsLastAtOrBefore(time, n, t, i),
           NEW p \in 0..(n - 1), IsNearer(p, i, n, time, t)
    PROVE  IsNearest(p, 0..(n - 1), time, t)
<1> USE DEF IsNearer, Ascending
<1> SUFFICES ASSUME NEW k \in 0..(n - 1)
             PROVE  \/ Distance(time[p], t) < Distance(time[k], t)
                    \/ Distance(time[p], t) = Distance(time[k], t) /\ time[p] <= time[k]
  BY DEF IsNearest
<1>1. time[p] \in Int /\ time[k] \in Int
  OBVIOUS
<1>2. CASE k <= i
  <2>1. i \in 0..(n - 1) /\ time[i] \in Int /\ time[k] <= time[i] /\ time[i] <= t
    BY <1>2 DEF IsLastAtOrBefore
  <2>2. \/ p = i
        \/ Distance(time[p], t) < Distance(time[i], t)
        \/ Distance(time[p], t) = Distance(time[i], t) /\ p < i
    BY <2>1
  <2>3. ~(p < i)
    BY <2>1
  <2>4. CASE p = i
    BY <1>1, <2>1, <2>4 DEF Distance
  <2>5. CASE Distance(time[p], t) < Distance(time[i], t)
    BY <1>1, <2>1, <2>5 DEF Distance
  <2> QED  BY <2>2, <2>3, <2>4, <2>5
<1>3. CASE k > i
  <2>1. i + 1 \in 0..(n - 1) /\ i + 1 <= k
    BY <1>3
  <2>2. time[i + 1] \in Int /\ time[i + 1] <= time[k] /\ time[i + 1] > t
    BY <2>1 DEF IsLastAtOrBefore
  <2>3. CASE p = i + 1
    BY <1>1, <2>2, <2>3 DEF Distance
  <2>4. CASE p = i
    <3>1. \/ Distance(time[p], t) < Distance(time[i + 1], t)
          \/ Distance(time[p], t) = Distance(time[i + 1], t)
      BY <2>1, <2>4
    <3>2. time[p] <= t
      BY <2>4 DEF IsLastAtOrBefore
    <3>3. /\ Distance(time[p], t) = t - time[p]
          /\ Distance(time[i + 1], t) = time[i + 1] - t
          /\ Distance(time[k], t) = time[k] - t
      <4>1. t <= time[i + 1] /\ t <= time[k] /\ time[i + 1] \in Int
        BY <1>1, <2>2
      <4>2. Distance(time[p], t) = t - time[p]
        BY <1>1, <3>2, DistanceIs
      <4>3. Distance(time[i + 1], t) = time[i + 1] - t
        BY <4>1, DistanceIs
      <4>4. Distance(time[k], t) = time[k] - t
        BY <1>1, <4>1, DistanceIs
      <4> QED  BY <4>2, <4>3, <4>4
    <3>4. t - time[p] <= time[i + 1] - t
      BY <1>1, <2>2, <3>1, <3>3
    <3>5. t - time[p] < time[k] - t \/ t - time[p] = time[k] - t
      <4> DEFINE x == time[p]
                 y == time[i + 1]
                 z == time[k]
      <4>1. x \in Int /\ y \in Int /\ z \in Int /\ y <= z /\ t - x <= y - t
        BY <1>1, <2>2, <3>4
      <4> HIDE DEF x, y, z
      <4>2. t - x < z - t \/ t - x = z - t
        BY <4>1
      <4> QED  BY <4>2 DEF x, z
    <3>6. time[p] <= time[k]
      BY <1>1, <2>2, <3>2
    <3> QED  BY <3>3, <3>5, <3>6
  <2> QED  BY <2>3, <2>4
<1> QED  BY <1>2, <1>3

\* What at returns.
LEMMA AtIsNearest ==
    ASSUME RecOK, NEW t \in Targets, NEW d \in Tolerances,
           IsLastAtOrBefore(Times, Len(Timeline), t, IndexAt(t)),
           IndexAt(t) \in -1..(Len(Timeline) - 1)
    PROVE  LET a == At(t, d)
               tooFar(k) == d # AnyDistance /\ Distance(Times[k], t) > d
           IN  IF a = None THEN \A k \in Frames : tooFar(k)
               ELSE ~tooFar(a) /\ IsNearest(a, Frames, Times, t)
<1> DEFINE n == Len(Timeline)
           i == IndexAt(t)
           C == {j \in {i, i + 1} : 0 <= j /\ j < Count}
           time == [j \in C |-> Time(j)]
           near == NearestOf(C, time, t)
           tooFar(k) == d # AnyDistance /\ Distance(Times[k], t) > d
<1>1. n \in Nat /\ Count = n /\ t \in Int /\ i \in -1..(n - 1) /\ Frames = 0..(n - 1)
  BY CountIsLength, TargetsAssumption DEF Frames
<1>2. \A g \in Frames : Times[g] \in Int /\ Time(g) = Times[g]
  BY TimesAscend
<1>3. At(t, d) = IF Count = 0 \/ (d # AnyDistance /\ Distance(Time(near), t) > d)
                 THEN None ELSE near
  BY DEF At
<1>4. CASE n = 0
  BY <1>1, <1>3, <1>4
<1>5. CASE n # 0
  <2> HIDE DEF i, n
  <2>1. C \in SUBSET Int /\ C \subseteq Frames /\ C # {}
    <3>1. i \in C \/ i + 1 \in C
      BY <1>1, <1>5
    <3>2. \A j \in C : j \in Int /\ j \in 0..(n - 1)
      BY <1>1
    <3> HIDE DEF C
    <3> QED  BY <1>1, <3>1, <3>2
  <2>c. \A k \in {i, i + 1} : k \in Frames => k \in C
    BY <1>1
  <2>e. \A k \in C : k = i \/ k = i + 1
    OBVIOUS
  <2> HIDE DEF C
  <2>2. time \in [C -> Int] /\ \A j \in C : time[j] = Times[j]
    BY <1>2, <2>1
  <2> HIDE DEF time
  <2>3. \E p \in C : \A k \in C : k # p =>
            \/ Distance(time[p], t) < Distance(time[k], t)
            \/ Distance(time[p], t) = Distance(time[k], t) /\ p < k
    <3>1. \A k \in C : Distance(time[k], t) \in Int
      BY <1>1, <2>2 DEF Distance
    <3>2. CASE i \in C /\ i + 1 \in C
      <4>1. CASE Distance(time[i + 1], t) < Distance(time[i], t)
        BY <2>e, <3>1, <3>2, <4>1
      <4>2. CASE ~(Distance(time[i + 1], t) < Distance(time[i], t))
        <5>1. \/ Distance(time[i], t) < Distance(time[i + 1], t)
              \/ Distance(time[i], t) = Distance(time[i + 1], t)
          BY <3>1, <3>2, <4>2
        <5>2. i < i + 1
          BY <1>1
        <5> QED  BY <2>e, <3>2, <5>1, <5>2
      <4> QED  BY <4>1, <4>2
    <3>3. CASE i \notin C \/ i + 1 \notin C
      <4>1. PICK p \in C : TRUE
        BY <2>1
      <4>2. \A k \in C : k = p
        BY <2>e, <3>3
      <4> QED  BY <4>2
    <3> QED  BY <3>2, <3>3
  <2>4. PICK p \in C : \A k \in C : k # p =>
            \/ Distance(time[p], t) < Distance(time[k], t)
            \/ Distance(time[p], t) = Distance(time[k], t) /\ p < k
    BY <2>3
  <2>5. near = p
    BY <1>1, <2>1, <2>2, <2>4, NearestOfIs
  <2> HIDE DEF near
  <2>6. p \in Frames /\ p \in {i, i + 1} /\ time[p] = Times[p] /\ Time(p) = Times[p]
    BY <1>2, <2>1, <2>2, <2>e
  <2>7. IsNearest(p, Frames, Times, t)
    <3>1. n \in Nat \ {0} /\ Times \in [0..(n - 1) -> Int]
      <4>1. Times = [g \in Frames |-> Times[g]]
        BY DEF Times
      <4> QED  BY <1>1, <1>2, <1>5, <4>1
    <3>2. Ascending(Times, n)
      BY <1>1, TimesAscend DEF Ascending
    <3>3. ASSUME NEW k \in {i, i + 1}, k \in 0..(n - 1), k # p
          PROVE  \/ Distance(Times[p], t) < Distance(Times[k], t)
                 \/ Distance(Times[p], t) = Distance(Times[k], t) /\ p < k
      <4>1. k \in C
        BY <1>1, <2>c, <3>3
      <4> QED  BY <2>2, <2>4, <2>6, <3>3, <4>1
    <3>4. IsLastAtOrBefore(Times, n, t, i)
      BY DEF n, i
    <3>5. p \in 0..(n - 1) /\ t \in Int /\ i \in -1..(n - 1) /\ IsNearer(p, i, n, Times, t)
      BY <1>1, <2>6, <3>3 DEF IsNearer
    <3> HIDE DEF tooFar
    <3>6. IsNearest(p, 0..(n - 1), Times, t)
      BY <3>1, <3>2, <3>4, <3>5, NearestIsBeside
    <3> QED  BY <1>1, <3>6
  <2>8. At(t, d) = IF tooFar(p) THEN None ELSE p
    BY <1>1, <1>3, <1>5, <2>5, <2>6
  <2>9. p # None
    BY <1>1, <2>6 DEF None
  <2>10. CASE tooFar(p)
    <3>1. d \in Int
      BY <2>10, TolerancesAssumption
    <3>2. ASSUME NEW k \in Frames PROVE tooFar(k)
      <4> DEFINE x == Times[p]
                 y == Times[k]
      <4>0. x \in Int /\ y \in Int /\ t \in Int
        BY <1>1, <1>2, <2>6, TargetsAssumption
      <4> HIDE DEF x, y
      <4>1. Distance(x, t) \in Int
        BY <4>0, DistanceIs
      <4>2. Distance(y, t) \in Int
        BY <4>0, DistanceIs
      <4>3. Distance(Times[p], t) \in Int /\ Distance(Times[k], t) \in Int
        BY <4>1, <4>2, Zenon DEF x, y
      <4>4. \/ Distance(Times[p], t) < Distance(Times[k], t)
            \/ Distance(Times[p], t) = Distance(Times[k], t)
        BY <2>7 DEF IsNearest
      <4> QED  BY <2>10, <3>1, <4>3, <4>4
    <3> QED  BY <2>8, <2>10, <3>2
  <2>11. CASE ~tooFar(p)
    BY <2>7, <2>8, <2>9, <2>11
  <2> QED  BY <2>10, <2>11
<1> QED  BY <1>4, <1>5

\* What nearest of one index returns.
LEMMA NearestIsRight ==
    ASSUME NEW x, IsIndex(x), NEW t \in Int,
           x.count # 0 => IsLastAtOrBefore(x.ts, x.count, t, best)
    PROVE  LET a == Nearest(x, t)
           IN  IF a = None THEN x.count = 0
               ELSE IsNearest(a, 0..(x.count - 1), x.ts, t)
<1> DEFINE n == x.count
<1>1. /\ n \in Nat /\ x.ts \in [0..(n - 1) -> Int]
      /\ Ascending(x.ts, n)
  BY DEF IsIndex
<1>2. CASE n = 0
  BY <1>2 DEF Nearest
<1>3. CASE n # 0
  <2>1. best \in -1..(n - 1) /\ IsLastAtOrBefore(x.ts, n, t, best) /\ best \in Int
    BY <1>1, <1>3 DEF IsLastAtOrBefore
  <2>2. \A k \in 0..(n - 1) : x.ts[k] \in Int
    BY <1>1
  <2> DEFINE p == IF best < 0 THEN 0
                  ELSE IF best >= n - 1 THEN n - 1
                  ELSE IF t - x.ts[best] <= x.ts[best + 1] - t THEN best ELSE best + 1
  <2>3. Nearest(x, t) = p
    BY <1>3 DEF Nearest
  <2>4. p \in 0..(n - 1) /\ p \in {best, best + 1}
    BY <1>1, <1>3, <2>1
  <2>5. ASSUME NEW k \in {best, best + 1}, k \in 0..(n - 1), k # p
        PROVE  \/ Distance(x.ts[p], t) < Distance(x.ts[k], t)
               \/ Distance(x.ts[p], t) = Distance(x.ts[k], t) /\ p < k
    <3>1. best >= 0 /\ best < n - 1
      BY <1>1, <1>3, <2>1, <2>5
    <3>2. best \in 0..(n - 1) /\ best + 1 \in 0..(n - 1)
      BY <1>1, <2>1, <3>1
    <3>3. x.ts[best] <= t /\ x.ts[best + 1] > t
            /\ x.ts[best] \in Int /\ x.ts[best + 1] \in Int
      BY <2>1, <2>2, <3>1, <3>2 DEF IsLastAtOrBefore
    <3>4. /\ Distance(x.ts[best], t) = t - x.ts[best]
          /\ Distance(x.ts[best + 1], t) = x.ts[best + 1] - t
      BY <3>3 DEF Distance
    <3>0. ~(best < 0) /\ ~(best >= n - 1)
      BY <1>1, <2>1, <3>1
    <3>5. CASE t - x.ts[best] <= x.ts[best + 1] - t
      <4>1. p = best
        BY <3>0, <3>5, Zenon
      <4>2. k = best + 1
        BY <2>5, <4>1
      <4> QED  BY <2>1, <3>3, <3>4, <3>5, <4>1, <4>2
    <3>6. CASE ~(t - x.ts[best] <= x.ts[best + 1] - t)
      <4>1. p = best + 1
        BY <3>0, <3>6, Zenon
      <4>2. k = best
        BY <2>5, <4>1
      <4> QED  BY <3>3, <3>4, <3>6, <4>1, <4>2
    <3> QED  BY <3>5, <3>6
  <2> HIDE DEF p, n
  <2>6. n \in Nat \ {0}
    BY <1>1, <1>3
  <2>n. IsNearer(p, best, n, x.ts, t)
    BY <2>4, <2>5 DEF IsNearer
  <2>7. IsNearest(p, 0..(n - 1), x.ts, t)
    BY <1>1, <2>1, <2>4, <2>6, <2>n, NearestIsBeside
  <2>8. p # None
    BY <2>4, <2>6 DEF None
  <2> QED  BY <2>3, <2>7, <2>8 DEF n
<1> QED  BY <1>2, <1>3

\* What is known of a call says so of its answer.
LEMMA NearestRight == IInv => NearestIsNearest
<1>1. ASSUME IInv, answered, call.op = "at"
      PROVE  LET tooFar(k) == call.tolerance # AnyDistance
                                /\ Distance(Times[k], call.t) > call.tolerance
             IN  IF answer = None THEN \A k \in Frames : tooFar(k)
                 ELSE ~tooFar(answer) /\ IsNearest(answer, Frames, Times, call.t)
  <2>1. /\ call.t \in Targets /\ call.tolerance \in Tolerances
        /\ pc # "loop" /\ answer = At(call.t, call.tolerance)
        /\ IF Begun(call.t) = {} THEN pc = "idle"
           ELSE pc # "idle" /\ index = rec[Latest(Begun(call.t))] /\ target = call.t
    BY <1>1 DEF IInv, CallInv
  <2>2. /\ IsLastAtOrBefore(Times, Len(Timeline), call.t, IndexAt(call.t))
        /\ IndexAt(call.t) \in -1..(Len(Timeline) - 1)
    BY <1>1, <2>1, IndexAtIsLast DEF IInv
  <2> QED  BY <1>1, <2>1, <2>2, AtIsNearest DEF IInv
<1>2. ASSUME IInv, answered, call.op = "nearest"
      PROVE  LET x == rec[call.s]
             IN  IF answer = None THEN x.count = 0
                 ELSE IsNearest(answer, 0..(x.count - 1), x.ts, call.t)
  <2> DEFINE x == rec[call.s]
  <2>1. /\ call.s \in 1..Len(rec) /\ call.t \in Targets
        /\ pc # "loop" /\ answer = Nearest(x, call.t)
        /\ IF x.count = 0 THEN pc = "idle"
           ELSE pc # "idle" /\ index = x /\ target = call.t
    BY <1>2 DEF IInv, CallInv
  <2>2. IsIndex(x)
    BY <1>2, <2>1, RecFacts DEF IInv
  <2>3. x.count # 0 => IsLastAtOrBefore(x.ts, x.count, call.t, best)
    <3>1. SearchInv /\ pc \in {"idle", "loop", "done"}
      BY <1>2 DEF IInv, SearchInv, SearchTypeOK
    <3> QED  BY <2>1, <3>1, SearchIsLast
  <2>4. call.t \in Int
    BY <2>1, TargetsAssumption
  <2> HIDE DEF x
  <2>5. IF Nearest(x, call.t) = None THEN x.count = 0
        ELSE IsNearest(Nearest(x, call.t), 0..(x.count - 1), x.ts, call.t)
    BY <2>2, <2>3, <2>4, NearestIsRight
  <2> QED  BY <2>1, <2>5 DEF x
<1> QED  BY <1>1, <1>2 DEF NearestIsNearest

\* at returns a nearest frame of the whole recording, and None exactly when
\* no frame is within the tolerance; nearest does the same for one segment
\* (Recording.at, IndexReader.nearest).
THEOREM NearestCorrect == Spec => []NearestIsNearest
BY NearestRight, Invariant, PTL

-----------------------------------------------------------------------------
(* With the decoding of frames beside the lookups.                         *)

\* It does not change a recording, nor what is known of a call.
LEMMA PlaybackStepKeeps ==
    ASSUME IInv, [PlaybackNext]_playbackVars
    PROVE  IInv'
<1>1. CASE AskDecode
  <2>1. /\ call = NoCall /\ call' = [op |-> "decode"]
        /\ UNCHANGED <<rec, answered, answer, searchVars>>
    BY <1>1 DEF AskDecode, Ask
  <2>2. RecOK' /\ SearchInv'
    <3>1. [SearchNext]_searchVars
      BY <2>1
    <3> QED  BY <2>1, <3>1, SearchKeeps DEF IInv, RecOK
  <2>3. ~answered'
    BY <2>1 DEF IInv, CallInv
  <2>4. call'.op = "decode" /\ call' # NoCall
    BY <2>1 DEF NoCall
  <2>5. CallInv'
    BY <2>3, <2>4 DEF CallInv
  <2> QED  BY <2>2, <2>5 DEF IInv
<1>2. CASE Lookup
  BY <1>2, StepKeeps DEF Lookup
<1>3. CASE UNCHANGED vars
  BY <1>3, StepKeeps
<1> QED  BY <1>1, <1>2, <1>3 DEF PlaybackNext, playbackVars, Decoding, Decoded

\* The searches and the lookups answer right, one after another or beside the
\* decoding of any frame.
THEOREM LookupsCorrect ==
    PlaybackSpec =>
        [](SearchIsRight /\ LocateIsPosition /\ IndexAtIsGlobal /\ NearestIsNearest)
<1>1. PlaybackInit => IInv
  BY InvariantStarts DEF PlaybackInit
<1>2. IInv /\ [PlaybackNext]_playbackVars => IInv'
  BY PlaybackStepKeeps
<1>3. IInv => SearchIsRight /\ LocateIsPosition /\ IndexAtIsGlobal /\ NearestIsNearest
  BY SearchesRight, LocatesRight, IndexesRight, NearestRight
<1> QED  BY <1>1, <1>2, <1>3, PTL DEF PlaybackSpec

-----------------------------------------------------------------------------
(* What jpeg_dimensions finds.                                             *)

PayloadOK == payload \in Payloads

\* A byte of what arrived is one of its image.
LEMMA PayloadFacts ==
    ASSUME PayloadOK
    PROVE  /\ payload.from \in Nat /\ payload.upTo \in Nat /\ payload.from <= payload.upTo
           /\ Len(Original.bytes) \in Nat /\ payload.upTo <= Len(Original.bytes)
           /\ Size \in Nat /\ Size = payload.upTo - payload.from
           /\ \A i \in 0..(Size - 1) : Byte(i) \in 0..255
           /\ \A i \in 0..(Size - 1) : Byte(i) = ByteAt(Original, payload.from + i)
           /\ IsImage(Original)
<1>1. /\ payload.from \in 0..payload.upTo /\ payload.upTo \in 0..Len(Original.bytes)
      /\ IsImage(Original)
  BY PayloadsAssumption, ImagesAssumption DEF PayloadOK, Original
<1>2. Original.bytes \in Seq(0..255) /\ Len(Original.bytes) \in Nat
  BY <1>1 DEF IsImage
<1>3. payload.from \in Nat /\ payload.upTo \in Nat
  BY <1>1, <1>2
<1>4. Size \in Nat /\ Size = payload.upTo - payload.from
  BY <1>1, <1>3 DEF Size
<1>5. ASSUME NEW i \in 0..(Size - 1)
      PROVE  Byte(i) \in 0..255 /\ Byte(i) = ByteAt(Original, payload.from + i)
  <2>1. payload.from + i + 1 \in 1..Len(Original.bytes)
    BY <1>1, <1>2, <1>3, <1>4
  <2>2. Byte(i) = Original.bytes[payload.from + i + 1]
    BY DEF Byte, Original
  <2>3. Original.bytes[payload.from + i + 1] \in 0..255
    <3> DEFINE k == payload.from + i + 1
               bytes == Original.bytes
               S == 0..255
    <3>1. k \in 1..Len(bytes) /\ bytes \in Seq(S)
      BY <1>2, <2>1
    <3> HIDE DEF k, bytes, S
    <3>2. bytes[k] \in S
      BY <3>1, ElementOfSeq
    <3> QED  BY <3>2 DEF k, bytes, S
  <2>4. Byte(i) \in 0..255
    BY <2>2, <2>3
  <2> QED  BY <2>2, <2>4 DEF ByteAt
<1> QED  BY <1>1, <1>2, <1>3, <1>4, <1>5, SMTT(30)

\* What jpeg_dimensions finds at i, if f is what it finds further on.
FoundBy(f, i) ==
    IF i + 3 >= Size \/ Byte(i) # 255 THEN Unknown
    ELSE LET marker == Byte(i + 1) IN
         IF marker = 255 THEN f[i + 1]
         ELSE IF marker \in {1, SOI, EOI} \cup Restarts THEN f[i + 2]
         ELSE IF IsFrameHeader(marker)
         THEN IF i + 9 >= Size THEN Unknown ELSE <<Word(i + 7), Word(i + 5)>>
         ELSE IF Word(i + 2) < 2 THEN Unknown ELSE f[i + 2 + Word(i + 2)]

IsSizeFrom(f) == f = [i \in Nat |-> FoundBy(f, i)]

\* It only looks further on.
LEMMA FoundAlike ==
    ASSUME PayloadOK, NEW i \in Nat, NEW f, NEW g, \A j \in Nat : j > i => f[j] = g[j]
    PROVE  FoundBy(f, i) = FoundBy(g, i)
<1>1. CASE i + 3 >= Size \/ Byte(i) # 255
  BY <1>1 DEF FoundBy
<1>2. CASE ~(i + 3 >= Size \/ Byte(i) # 255)
  <2>1. Size \in Nat /\ i + 2 \in 0..(Size - 1) /\ i + 3 \in 0..(Size - 1)
    BY <1>2, PayloadFacts
  <2>2. Byte(i + 2) \in Nat /\ Byte((i + 2) + 1) \in Nat
    <3>1. (i + 2) + 1 = i + 3
      OBVIOUS
    <3>2. Byte(i + 2) \in 0..255 /\ Byte(i + 3) \in 0..255
      BY <2>1, PayloadFacts
    <3>3. \A n \in 0..255 : n \in Nat
      OBVIOUS
    <3> QED  BY <3>1, <3>2, <3>3, Zenon
  <2>3. Word(i + 2) \in Nat
    <3>1. PICK a \in Nat : a = Byte(i + 2)
      BY <2>2
    <3>2. PICK b \in Nat : b = Byte((i + 2) + 1)
      BY <2>2
    <3>3. Word(i + 2) = 256 * a + b
      BY <3>1, <3>2, Zenon DEF Word
    <3> QED  BY <3>3
  <2>4. f[i + 1] = g[i + 1] /\ f[i + 2] = g[i + 2]
    OBVIOUS
  <2>5. Word(i + 2) >= 2 => f[i + 2 + Word(i + 2)] = g[i + 2 + Word(i + 2)]
    BY <2>3
  <2> DEFINE w == Word(i + 2)
  <2>6. w \in Nat /\ (~(w < 2) => f[i + 2 + w] = g[i + 2 + w])
    BY <2>3, <2>5
  <2> HIDE DEF w
  <2> QED  BY <2>4, <2>6, Zenon DEF FoundBy, w
<1> QED  BY <1>1, <1>2

\* The recursion ends at the end of what arrived.
LEMMA SizeFromDefined ==
    ASSUME PayloadOK
    PROVE  \A i \in Nat : SizeFrom[i] = FoundBy(SizeFrom, i)
<1>0. Size \in Nat
  BY PayloadFacts
<1> DEFINE T == {n \in Nat : \E f : /\ f = [i \in Nat |-> f[i]]
                                    /\ \A i \in Nat : i + n >= Size => f[i] = FoundBy(f, i)}
<1>1. 0 \in T
  <2> DEFINE f == [i \in Nat |-> Unknown]
  <2>1. ASSUME NEW i \in Nat, i + 0 >= Size PROVE f[i] = FoundBy(f, i)
    <3>1. i + 3 >= Size
      BY <1>0, <2>1
    <3> QED  BY <3>1 DEF FoundBy
  <2> QED  BY <2>1
<1>2. ASSUME NEW n \in T PROVE n + 1 \in T
  <2>1. n \in Nat
    OBVIOUS
  <2>2. PICK f : /\ f = [i \in Nat |-> f[i]]
                 /\ \A i \in Nat : i + n >= Size => f[i] = FoundBy(f, i)
    OBVIOUS
  <2> DEFINE at(i) == i + n + 1 = Size
             g == [i \in Nat |-> IF at(i) THEN FoundBy(f, i) ELSE f[i]]
  <2>3. ASSUME NEW i \in Nat, i + (n + 1) >= Size PROVE g[i] = FoundBy(g, i)
    <3>1. \A j \in Nat : j > i => f[j] = g[j]
      <4> SUFFICES ASSUME NEW j \in Nat, j > i PROVE f[j] = g[j]
        OBVIOUS
      <4>1. ~at(j)
        BY <1>0, <2>1, <2>3
      <4> HIDE DEF at
      <4> QED  BY <4>1
    <3>2. FoundBy(f, i) = FoundBy(g, i)
      <4> HIDE DEF g
      <4> QED  BY <3>1, FoundAlike
    <3>3. g[i] = FoundBy(f, i)
      <4>1. at(i) \/ i + n >= Size
        BY <1>0, <2>1, <2>3
      <4> HIDE DEF at
      <4> QED  BY <2>2, <4>1
    <3> HIDE DEF g
    <3> QED  BY <3>2, <3>3
  <2>4. g = [i \in Nat |-> g[i]]
    OBVIOUS
  <2>5. n + 1 \in Nat
    BY <2>1
  <2> HIDE DEF g
  <2> QED  BY <2>3, <2>4, <2>5
<1>3. Size \in T
  <2>1. T \in SUBSET Nat
    OBVIOUS
  <2> HIDE DEF T
  <2>2. T = Nat
    BY <1>1, <1>2, <2>1, SetInduction
  <2> QED  BY <1>0, <2>2
<1>4. PICK f : /\ f = [i \in Nat |-> f[i]]
               /\ \A i \in Nat : i + Size >= Size => f[i] = FoundBy(f, i)
  BY <1>3
<1>5. \A i \in Nat : f[i] = FoundBy(f, i)
  BY <1>0, <1>4
<1>6. IsSizeFrom(f)
  <2>1. [i \in Nat |-> f[i]] = [i \in Nat |-> FoundBy(f, i)]
    BY <1>5, Zenon
  <2> QED  BY <1>4, <2>1, Zenon DEF IsSizeFrom
<1>7. SizeFrom = CHOOSE g : IsSizeFrom(g)
  BY DEF SizeFrom, IsSizeFrom, FoundBy
<1>8. IsSizeFrom(SizeFrom)
  BY <1>6, <1>7, Zenon
<1>9. ASSUME NEW g, IsSizeFrom(g), NEW i \in Nat PROVE g[i] = FoundBy(g, i)
  <2> DEFINE h == [j \in Nat |-> FoundBy(g, j)]
  <2>1. g = h
    BY <1>9 DEF IsSizeFrom
  <2>2. h[i] = FoundBy(g, i)
    OBVIOUS
  <2> QED  BY <2>1, <2>2, Zenon
<1> QED  BY <1>8, <1>9, Zenon

\* An offset is followed in what arrived as in the image, if nothing is missing
\* before it.
LEMMA WholeHead ==
    ASSUME PayloadOK, payload.from = 0, NEW i \in Original.segments, i + 3 < Size
    PROVE  /\ i \in Nat /\ i >= 2 /\ Byte(i) = 255
           /\ Byte(i + 1) \in FrameHeaders <=> i = Original.frame
           /\ Word(i + 2) \in Nat
           /\ \/ Byte(i + 1) \in {SOS, EOI} /\ i > Original.frame
              \/ Byte(i + 1) = 255 /\ Follows(Original, i, i + 1)
              \/ /\ Byte(i + 1) \notin {255, 1, SOI, EOI, SOS} \cup Restarts
                 /\ Word(i + 2) >= 2 /\ Follows(Original, i, i + 2 + Word(i + 2))
<1>1. IsImage(Original) /\ Size \in Nat /\ Len(Original.bytes) \in Nat
  BY PayloadFacts
<1>2. i \in Nat /\ i >= 2 /\ IsSegment(Original, i)
  BY <1>1 DEF IsImage
<1>3. \A j \in 0..(Size - 1) : Byte(j) = ByteAt(Original, j) /\ Byte(j) \in Nat
  <2> SUFFICES ASSUME NEW j \in 0..(Size - 1)
               PROVE  Byte(j) = ByteAt(Original, j) /\ Byte(j) \in Nat
    OBVIOUS
  <2>1. payload.from + j = j
    BY <1>1
  <2>2. Byte(j) = ByteAt(Original, payload.from + j) /\ Byte(j) \in 0..255
    BY PayloadFacts
  <2>3. \A n \in 0..255 : n \in Nat
    OBVIOUS
  <2> QED  BY <2>1, <2>2, <2>3, Zenon
<1>4. /\ i \in 0..(Size - 1) /\ i + 1 \in 0..(Size - 1)
      /\ i + 2 \in 0..(Size - 1) /\ i + 3 \in 0..(Size - 1) /\ (i + 2) + 1 = i + 3
  BY <1>1, <1>2
<1>5. Word(i + 2) = 256 * ByteAt(Original, i + 2) + ByteAt(Original, i + 3)
  BY <1>3, <1>4, ZenonT(30) DEF Word
<1>6. Word(i + 2) \in Nat
  <2>1. PICK a \in Nat : a = ByteAt(Original, i + 2)
    BY <1>3, <1>4
  <2>2. PICK b \in Nat : b = ByteAt(Original, i + 3)
    BY <1>3, <1>4
  <2>3. Word(i + 2) = 256 * a + b
    BY <1>5, <2>1, <2>2, Zenon
  <2> QED  BY <2>3
<1>7. Byte(i) = ByteAt(Original, i) /\ Byte(i + 1) = ByteAt(Original, i + 1)
  BY <1>3, <1>4
<1> DEFINE m == ByteAt(Original, i + 1)
           length == 256 * ByteAt(Original, i + 2) + ByteAt(Original, i + 3)
<1>8. /\ ByteAt(Original, i) = 255
      /\ m \in FrameHeaders <=> i = Original.frame
      /\ \/ m \in {SOS, EOI} /\ i > Original.frame
         \/ m = 255 /\ Follows(Original, i, i + 1)
         \/ /\ m \notin {255, 1, SOI, EOI, SOS} \cup Restarts
            /\ length >= 2 /\ Follows(Original, i, i + 2 + length)
  BY <1>2, Zenon DEF IsSegment
<1>9. m = Byte(i + 1) /\ length = Word(i + 2)
  BY <1>5, <1>7
<1> HIDE DEF m, length
<1> QED  BY <1>2, <1>6, <1>7, <1>8, <1>9, ZenonT(30)

\* What is to be found of an image that has its beginning.
Told == IF Original.frame + 9 < Size THEN <<Original.width, Original.height>> ELSE Unknown

\* A segment on the way to the frame header leads on towards it.
LEMMA FoundNext ==
    ASSUME PayloadOK, payload.from = 0, NEW i \in Original.segments, i <= Original.frame,
           \A j \in Original.segments : j > i /\ j <= Original.frame => SizeFrom[j] = Told
    PROVE  SizeFrom[i] = Told
<1>1. /\ IsImage(Original) /\ Size \in Nat /\ i \in Nat /\ Original.frame \in Nat
      /\ Original.frame \in Original.segments
  BY PayloadFacts, SMTT(30) DEF IsImage
<1>2. SizeFrom[i] = FoundBy(SizeFrom, i)
  BY <1>1, SizeFromDefined
<1>3. CASE i + 3 >= Size
  <2>1. ~(Original.frame + 9 < Size)
    BY <1>1, <1>3
  <2> QED  BY <1>2, <1>3, <2>1 DEF FoundBy, Told
<1>4. CASE ~(i + 3 >= Size)
  <2>0. i + 3 < Size
    BY <1>1, <1>4
  <2> DEFINE m == Byte(i + 1)
             w == Word(i + 2)
  <2>1. /\ Byte(i) = 255 /\ (m \in FrameHeaders <=> i = Original.frame) /\ w \in Nat
        /\ \/ m \in {SOS, EOI} /\ i > Original.frame
           \/ m = 255 /\ Follows(Original, i, i + 1)
           \/ /\ m \notin {255, 1, SOI, EOI, SOS} \cup Restarts
              /\ w >= 2 /\ Follows(Original, i, i + 2 + w)
    BY <2>0, WholeHead
  <2>2. SizeFrom[i] =
          IF m = 255 THEN SizeFrom[i + 1]
          ELSE IF m \in {1, SOI, EOI} \cup Restarts THEN SizeFrom[i + 2]
          ELSE IF m \in FrameHeaders
          THEN IF i + 9 >= Size THEN Unknown ELSE <<Word(i + 7), Word(i + 5)>>
          ELSE IF w < 2 THEN Unknown ELSE SizeFrom[i + 2 + w]
    BY <1>2, <1>4, <2>1, Zenon DEF FoundBy, IsFrameHeader
  <2>3. ASSUME NEW j, Follows(Original, i, j), i # Original.frame, j > i
        PROVE  SizeFrom[j] = Told
    <3>1. j \in Original.segments /\ j <= Original.frame
      BY <1>1, <2>3 DEF Follows
    <3> QED  BY <2>3, <3>1
  <2> HIDE DEF m, w
  <2>4. CASE m = 255 /\ Follows(Original, i, i + 1)
    <3>1. m \notin FrameHeaders
      BY <2>4 DEF FrameHeaders
    <3>2. i + 1 > i /\ i # Original.frame
      BY <1>1, <2>1, <3>1
    <3>3. SizeFrom[i + 1] = Told
      BY <2>3, <2>4, <3>2
    <3> QED  BY <2>2, <2>4, <3>3
  <2>5. CASE /\ m \notin {255, 1, SOI, EOI, SOS} \cup Restarts
             /\ w >= 2 /\ Follows(Original, i, i + 2 + w)
    <3>1. CASE m \in FrameHeaders
      <4>1. i = Original.frame
        BY <2>1, <3>1
      <4>2. SizeFrom[i] = IF i + 9 >= Size THEN Unknown ELSE <<Word(i + 7), Word(i + 5)>>
        BY <2>2, <2>5, <3>1
      <4>3. i + 9 < Size <=> ~(i + 9 >= Size)
        BY <1>1
      <4>4. i + 9 < Size => Word(i + 7) = Original.width /\ Word(i + 5) = Original.height
        <5> SUFFICES ASSUME i + 9 < Size
                     PROVE  Word(i + 7) = Original.width /\ Word(i + 5) = Original.height
          OBVIOUS
        <5>1. ASSUME NEW j \in {i + 5, i + 6, i + 7, i + 8} PROVE Byte(j) = ByteAt(Original, j)
          <6>1. j \in 0..(Size - 1) /\ payload.from + j = j
            BY <1>1
          <6>2. Byte(j) = ByteAt(Original, payload.from + j)
            BY <6>1, PayloadFacts
          <6> QED  BY <6>1, <6>2, Zenon
        <5>2. (i + 5) + 1 = i + 6 /\ (i + 7) + 1 = i + 8
          BY <1>1
        <5>3. /\ Byte(i + 5) = ByteAt(Original, i + 5) /\ Byte((i + 5) + 1) = ByteAt(Original, i + 6)
              /\ Byte(i + 7) = ByteAt(Original, i + 7) /\ Byte((i + 7) + 1) = ByteAt(Original, i + 8)
          BY <5>1, <5>2
        <5>4. /\ Original.height = 256 * ByteAt(Original, i + 5) + ByteAt(Original, i + 6)
              /\ Original.width = 256 * ByteAt(Original, i + 7) + ByteAt(Original, i + 8)
          BY <1>1, <4>1, Zenon DEF IsImage
        <5> QED  BY <5>3, <5>4, ZenonT(30) DEF Word
      <4> QED  BY <4>1, <4>2, <4>3, <4>4 DEF Told
    <3>2. CASE m \notin FrameHeaders
      <4>1. i + 2 + w > i /\ i # Original.frame /\ ~(w < 2)
        BY <1>1, <2>1, <2>5, <3>2
      <4>2. SizeFrom[i + 2 + w] = Told
        BY <2>3, <2>5, <4>1
      <4> QED  BY <2>2, <2>5, <3>2, <4>1, <4>2
    <3> QED  BY <3>1, <3>2
  <2>6. ~(i > Original.frame)
    BY <1>1
  <2> QED  BY <2>1, <2>4, <2>5, <2>6
<1> QED  BY <1>3, <1>4

\* So it leads there from every segment before it.
LEMMA FoundIsTold ==
    ASSUME PayloadOK, payload.from = 0
    PROVE  SizeFrom[2] = Told
<1>1. /\ Original.frame \in Nat /\ Original.frame >= 2
      /\ 2 \in Original.segments /\ \A i \in Original.segments : i \in Nat
  <2>1. IsImage(Original) /\ Len(Original.bytes) \in Nat
    BY PayloadFacts
  <2> QED  BY <2>1 DEF IsImage
<1> DEFINE F == Original.frame
           T == {d \in Nat : \A i \in Original.segments :
                    i <= F /\ F - i <= d => SizeFrom[i] = Told}
<1>2. ASSUME NEW d \in Nat,
             \A i \in Original.segments : i <= F /\ F - i < d => SizeFrom[i] = Told
      PROVE  d \in T
  <2> SUFFICES ASSUME NEW i \in Original.segments, i <= F, F - i <= d
               PROVE  SizeFrom[i] = Told
    OBVIOUS
  <2>1. ASSUME NEW j \in Original.segments, j > i, j <= F
        PROVE  SizeFrom[j] = Told
    <3>1. F - j < d
      BY <1>1, <2>1
    <3> QED  BY <1>2, <2>1, <3>1
  <2> QED  BY <2>1, FoundNext
<1>3. 0 \in T
  <2>1. ASSUME NEW i \in Original.segments, i <= F, F - i < 0 PROVE FALSE
    BY <1>1, <2>1
  <2> QED  BY <1>2, <2>1
<1>4. ASSUME NEW d \in T PROVE d + 1 \in T
  <2>1. d \in Nat /\ d + 1 \in Nat
    OBVIOUS
  <2>2. ASSUME NEW i \in Original.segments, i <= F, F - i < d + 1
        PROVE  SizeFrom[i] = Told
    <3>1. F - i <= d
      BY <1>1, <2>1, <2>2
    <3> QED  BY <2>2, <3>1
  <2> HIDE DEF T
  <2> QED  BY <1>2, <2>1, <2>2
<1>5. T \in SUBSET Nat
  OBVIOUS
<1>6. F - 2 \in Nat /\ 2 <= F
  BY <1>1
<1>7. F - 2 \in T
  <2> HIDE DEF T
  <2> QED  BY <1>3, <1>4, <1>5, <1>6, SetInduction
<1> QED  BY <1>1, <1>6, <1>7

\* What jpeg_dimensions says of what arrived.
LEMMA DimensionsAre ==
    ASSUME PayloadOK
    PROVE  /\ JpegDimensions \in {Unknown, <<Original.width, Original.height>>}
           /\ payload.from = 0 /\ Original.frame + 9 < Size =>
                JpegDimensions = <<Original.width, Original.height>>
           /\ LooksLikeJpeg <=> Size = Len(Original.bytes)
           /\ payload.from # 0 => ~StartsAsJpeg
<1> DEFINE n == Len(Original.bytes)
           from == payload.from
<1>1. /\ from \in Nat /\ payload.upTo \in Nat /\ from <= payload.upTo
      /\ n \in Nat /\ payload.upTo <= n /\ Size \in Nat /\ Size = payload.upTo - from
      /\ \A i \in 0..(Size - 1) : Byte(i) = ByteAt(Original, from + i)
      /\ IsImage(Original)
  BY PayloadFacts
<1>2. /\ n - 2 >= 2 /\ Marked(Original, 0, SOI) /\ Marked(Original, n - 2, EOI)
      /\ \A i \in 1..(n - 2) : ~Marked(Original, i, SOI)
      /\ Original.frame \in Nat
  BY <1>1 DEF IsImage
<1> HIDE DEF n, from
<1>3. ASSUME NEW i \in Int, i >= 0, i + 1 < Size, NEW marker
      PROVE  Byte(i) = 255 /\ Byte(i + 1) = marker <=> Marked(Original, from + i, marker)
  <2>1. i \in 0..(Size - 1) /\ i + 1 \in 0..(Size - 1) /\ from + (i + 1) = (from + i) + 1
    BY <1>1, <1>3
  <2>2. Byte(i) = ByteAt(Original, from + i) /\ Byte(i + 1) = ByteAt(Original, (from + i) + 1)
    BY <1>1, <2>1
  <2> QED  BY <2>2, Zenon DEF Marked
<1>4. StartsAsJpeg <=> Size >= 4 /\ Marked(Original, from, SOI)
  <2>1. CASE Size >= 4
    <3>1. 0 \in Int /\ 0 >= 0 /\ 0 + 1 < Size /\ from + 0 = from /\ 0 + 1 = 1
      BY <1>1, <2>1
    <3>2. Byte(0) = 255 /\ Byte(0 + 1) = SOI <=> Marked(Original, from + 0, SOI)
      BY <1>3, <3>1
    <3>3. Byte(0) = 255 /\ Byte(1) = SOI <=> Marked(Original, from, SOI)
      BY <3>1, <3>2
    <3> QED  BY <2>1, <3>3, Zenon DEF StartsAsJpeg
  <2>2. CASE ~(Size >= 4)
    BY <2>2, Zenon DEF StartsAsJpeg
  <2> QED  BY <2>1, <2>2
<1>5. StartsAsJpeg => from = 0
  <2> SUFFICES ASSUME StartsAsJpeg, from # 0 PROVE FALSE
    OBVIOUS
  <2>1. Size >= 4 /\ Marked(Original, from, SOI)
    BY <1>4
  <2>2. from \in 1..(n - 2)
    BY <1>1, <2>1
  <2> QED  BY <1>2, <2>1, <2>2
<1>6. from = 0 => SizeFrom[2] = Told
  BY FoundIsTold DEF from
<1>7. JpegDimensions \in {Unknown, <<Original.width, Original.height>>}
  BY <1>5, <1>6, Zenon DEF JpegDimensions, Told
<1>8. from = 0 /\ Original.frame + 9 < Size =>
        JpegDimensions = <<Original.width, Original.height>>
  <2> SUFFICES ASSUME from = 0, Original.frame + 9 < Size
               PROVE  JpegDimensions = <<Original.width, Original.height>>
    OBVIOUS
  <2>1. Size >= 4
    BY <1>1, <1>2
  <2>2. StartsAsJpeg
    BY <1>2, <1>4, <2>1
  <2> QED  BY <1>6, <2>2, Zenon DEF JpegDimensions, Told
<1>9. StartsAsJpeg => (Byte(Size - 2) = 255 /\ Byte(Size - 1) = EOI
                        <=> Marked(Original, payload.upTo - 2, EOI))
  <2> SUFFICES ASSUME Size >= 4
               PROVE  Byte(Size - 2) = 255 /\ Byte(Size - 1) = EOI
                        <=> Marked(Original, payload.upTo - 2, EOI)
    BY <1>4
  <2>1. /\ Size - 2 \in Int /\ Size - 2 >= 0 /\ (Size - 2) + 1 < Size
        /\ (Size - 2) + 1 = Size - 1 /\ from + (Size - 2) = payload.upTo - 2
    BY <1>1
  <2>2. Byte(Size - 2) = 255 /\ Byte((Size - 2) + 1) = EOI
          <=> Marked(Original, from + (Size - 2), EOI)
    BY <1>3, <2>1
  <2> QED  BY <2>1, <2>2
<1>10. LooksLikeJpeg => Size = n
  <2> SUFFICES ASSUME LooksLikeJpeg PROVE Size = n
    OBVIOUS
  <2>1. StartsAsJpeg /\ Byte(Size - 2) = 255 /\ Byte(Size - 1) = EOI
    BY Zenon DEF LooksLikeJpeg
  <2>2. from = 0 /\ Size >= 4 /\ Marked(Original, payload.upTo - 2, EOI)
    BY <1>4, <1>5, <1>9, <2>1
  <2>3. \/ payload.upTo = n
        \/ \A i \in 0..(n - 3) : ~Marked(Original, i, EOI)
    BY ImagesAssumption DEF PayloadOK, Original, n
  <2>4. payload.upTo # n => payload.upTo - 2 \in 0..(n - 3)
    BY <1>1, <2>2
  <2> QED  BY <1>1, <2>2, <2>3, <2>4
<1>11. Size = n => LooksLikeJpeg
  <2> SUFFICES ASSUME Size = n PROVE LooksLikeJpeg
    OBVIOUS
  <2>1. from = 0 /\ payload.upTo = n /\ Size >= 4
    BY <1>1, <1>2
  <2>2. StartsAsJpeg
    BY <1>2, <1>4, <2>1
  <2> QED  BY <1>2, <1>9, <2>1, <2>2, Zenon DEF LooksLikeJpeg
<1> QED  BY <1>5, <1>7, <1>8, <1>10, <1>11 DEF n, from

-----------------------------------------------------------------------------
(* What decode_dc has read of the header.                                  *)

HasSize == {"width", "height"} \subseteq DOMAIN header

\* A size that is known is that of the image, read from a whole frame header.
SizeIsOriginal ==
    header.width # 0 =>
        /\ payload.from = 0 /\ Original.frame + 9 < Size
        /\ header.width = Original.width /\ header.height = Original.height

JpegInv ==
    /\ HasSize
    /\ step = "idle" => offset = 2 /\ header.width = 0
    /\ step # "returned" => result # "image"
    /\ step # "idle" => PayloadOK /\ SizeIsOriginal
    /\ step = "segment" /\ payload.from = 0 => offset \in Original.segments
    /\ step \in {"mcu", "dc", "ac"} \/ result = "image" => header.width # 0

\* The shorter of two.
LEMMA MinOfTwo ==
    ASSUME NEW a \in Int, NEW b \in Int
    PROVE  Min({a, b}) \in Int /\ Min({a, b}) <= a /\ Min({a, b}) <= b
             /\ (Min({a, b}) = a \/ Min({a, b}) = b)
<1> DEFINE P(x) == \A y \in {a, b} : x <= y
<1>1. \E x \in {a, b} : P(x)
  OBVIOUS
<1>2. Min({a, b}) = CHOOSE x \in {a, b} : P(x)
  BY DEF Min
<1>3. Min({a, b}) \in {a, b} /\ P(Min({a, b}))
  <2> HIDE DEF P
  <2> QED  BY <1>1, <1>2, Zenon
<1> QED  BY <1>3

\* At a marker, this is a beginning of the image, whatever is missing behind.
LEMMA AtSegment ==
    ASSUME JpegInv, NEW markers, AtMarker(markers)
    PROVE  /\ step = "segment" /\ PayloadOK /\ payload.from = 0
           /\ offset \in Original.segments /\ offset + 3 < Size
           /\ Byte(offset + 1) \in markers
<1>1. /\ step = "segment" /\ StartsAsJpeg /\ offset + 3 < Size
      /\ Byte(offset + 1) \in markers
  BY DEF AtMarker
<1>2. step # "idle" /\ PayloadOK
  BY <1>1 DEF JpegInv
<1>3. payload.from = 0
  BY <1>1, <1>2, DimensionsAre
<1> QED  BY <1>1, <1>2, <1>3 DEF JpegInv

\* An exception leaves what was read as it is.
LEMMA RaiseKeeps ==
    ASSUME JpegInv, step # "idle", NEW what, what # "image", Raise(what)
    PROVE  JpegInv'
BY Zenon DEF JpegInv, Raise, Finish, HasSize, PayloadOK, SizeIsOriginal, Original, Size

\* A step behind the header does too.
LEMMA ScanKeeps ==
    ASSUME JpegInv, step \in {"mcu", "dc", "ac"}, step' \in {"mcu", "dc", "ac", "returned"},
           result' = result \/ step' = "returned", UNCHANGED <<payload, offset, header>>
    PROVE  JpegInv'
<1>1. /\ step # "idle" /\ step # "returned" /\ step' # "idle" /\ step' # "segment"
      /\ payload' = payload /\ offset' = offset /\ header' = header
  OBVIOUS
<1>2. header.width # 0 /\ result # "image" /\ HasSize /\ PayloadOK /\ SizeIsOriginal
  BY <1>1 DEF JpegInv
<1>3. HasSize' /\ PayloadOK' /\ SizeIsOriginal' /\ header'.width # 0
  BY <1>1, <1>2 DEF HasSize, PayloadOK, SizeIsOriginal, Original, Size
<1>4. step' # "returned" => result' # "image"
  BY <1>2
<1> QED  BY <1>1, <1>3, <1>4 DEF JpegInv

\* What is read of a header is of its image.
Fits(h) ==
    /\ {"width", "height"} \subseteq DOMAIN h
    /\ h.width # 0 =>
         /\ payload.from = 0 /\ Original.frame + 9 < Size
         /\ h.width = Original.width /\ h.height = Original.height

\* The next segment is one of the image.
LEMMA OnwardKeeps ==
    ASSUME JpegInv, NEW markers, AtMarker(markers), {255, SOS, EOI} \cap markers = {},
           NEW h, Fits(h), Onward(h)
    PROVE  JpegInv'
<1>1. /\ step = "segment" /\ PayloadOK /\ payload.from = 0
      /\ offset \in Original.segments /\ offset + 3 < Size
      /\ Byte(offset + 1) \in markers
  BY AtSegment
<1>2. Follows(Original, offset, offset + 2 + Word(offset + 2))
  <2>1. PICK i \in Original.segments : i = offset
    BY <1>1
  <2>2. \/ Byte(i + 1) \in {SOS, EOI} /\ i > Original.frame
        \/ Byte(i + 1) = 255 /\ Follows(Original, i, i + 1)
        \/ /\ Byte(i + 1) \notin {255, 1, SOI, EOI, SOS} \cup Restarts
           /\ Word(i + 2) >= 2 /\ Follows(Original, i, i + 2 + Word(i + 2))
    BY <1>1, <2>1, WholeHead
  <2>3. Byte(i + 1) \notin {255, SOS, EOI}
    BY <1>1, <2>1
  <2> QED  BY <2>1, <2>2, <2>3
<1>3. offset' \in Original.segments
  BY <1>2 DEF Onward, Follows
<1>4. payload' = payload /\ step' = "segment" /\ header' = h /\ result' = result
  BY <1>1 DEF Onward
<1>5. result # "image"
  BY <1>1 DEF JpegInv
<1>6. HasSize' /\ PayloadOK' /\ SizeIsOriginal'
  BY <1>1, <1>4 DEF Fits, HasSize, PayloadOK, SizeIsOriginal, Original, Size
<1>7. offset' \in Original'.segments
  BY <1>3, <1>4 DEF Original
<1> QED  BY <1>4, <1>5, <1>6, <1>7 DEF JpegInv

\* What else a segment says leaves the size as it is.
LEMMA OtherFits ==
    ASSUME JpegInv, step = "segment", NEW h,
           DOMAIN h = DOMAIN header, h.width = header.width, h.height = header.height
    PROVE  Fits(h)
BY DEF JpegInv, HasSize, SizeIsOriginal, Fits

\* A frame header says what the size is.
LEMMA FrameHeaderKeeps ==
    ASSUME JpegInv, FrameHeader
    PROVE  JpegInv'
<1>1. AtMarker(Baseline)
  BY DEF FrameHeader
<1>2. /\ step = "segment" /\ PayloadOK /\ payload.from = 0
      /\ offset \in Original.segments /\ offset + 3 < Size
      /\ Byte(offset + 1) \in Baseline
  BY <1>1, AtSegment
<1> DEFINE s == Segment
<1>3. CASE \E what \in {"JpegError", "IndexError"} : Raise(what)
  BY <1>2, <1>3, RaiseKeeps
<1>4. CASE \E components : ~(Len(s) < 6) /\
             Onward([header EXCEPT !.height = 256 * s[2] + s[3], !.width = 256 * s[4] + s[5],
                                   !.components = components])
  <2>1. PICK components :
           /\ ~(Len(s) < 6)
           /\ Onward([header EXCEPT !.height = 256 * s[2] + s[3], !.width = 256 * s[4] + s[5],
                                    !.components = components])
    BY <1>4
  <2>2. PICK i \in Original.segments : i = offset
    BY <1>2
  <2>3. /\ i \in Nat /\ Word(i + 2) \in Nat
        /\ Byte(i + 1) \in FrameHeaders <=> i = Original.frame
        /\ \/ Byte(i + 1) \in {SOS, EOI} \/ Byte(i + 1) = 255 \/ Word(i + 2) >= 2
    BY <1>2, <2>2, WholeHead
  <2>4. i = Original.frame /\ Word(i + 2) >= 2
    <3>1. \A m \in Baseline : m \in FrameHeaders /\ m \notin {SOS, EOI, 255}
      BY DEF Baseline, FrameHeaders, SOS, EOI
    <3> QED  BY <1>2, <2>2, <2>3, <3>1
  <2> DEFINE end == Min({offset + 2 + Word(offset + 2), Size})
             n == end - offset - 4
  <2>5. Size \in Nat
    BY <1>2, PayloadFacts
  <2>6. end \in Int /\ end <= Size /\ n \in Nat
    <3>1. PICK w \in Nat : w = Word(i + 2)
      BY <2>3
    <3>2. offset + 2 + Word(offset + 2) = i + 2 + w /\ i + 2 + w \in Int /\ w >= 2 /\ i + 3 < Size
      BY <1>2, <2>2, <2>3, <2>4, <3>1
    <3>3. end = Min({i + 2 + w, Size})
      BY <3>2
    <3>4. /\ end \in Int /\ end <= Size
          /\ end = i + 2 + w \/ end = Size
      <4>1. PICK a \in Int : a = i + 2 + w
        BY <3>2
      <4>2. Size \in Int
        BY <2>5
      <4>3. Min({a, Size}) \in Int /\ Min({a, Size}) <= Size
              /\ (Min({a, Size}) = a \/ Min({a, Size}) = Size)
        BY <4>2, MinOfTwo
      <4> HIDE DEF end
      <4> QED  BY <3>3, <4>1, <4>3
    <3> HIDE DEF end
    <3> QED  BY <2>2, <2>3, <2>5, <3>2, <3>4
  <2>7. s = [k \in 1..n |-> Byte(offset + 3 + k)]
    BY Zenon DEF Segment
  <2> HIDE DEF s
  <2>8. Len(s) = n
    <3> HIDE DEF n
    <3> QED  BY <2>6, <2>7
  <2>9. i + 9 < Size
    <3>1. end - i - 4 >= 6
      BY <2>1, <2>2, <2>8
    <3> HIDE DEF end
    <3> QED  BY <2>3, <2>5, <2>6, <3>1
  <2>10. /\ s[2] = ByteAt(Original, i + 5) /\ s[3] = ByteAt(Original, i + 6)
         /\ s[4] = ByteAt(Original, i + 7) /\ s[5] = ByteAt(Original, i + 8)
    <3>1. ASSUME NEW k \in {2, 3, 4, 5} PROVE s[k] = ByteAt(Original, i + 3 + k)
      <4>1. k \in 1..n
        BY <2>1, <2>6, <2>8
      <4>2. s[k] = Byte(i + 3 + k)
        BY <2>2, <2>7, <4>1
      <4>3. i + 3 + k \in 0..(Size - 1) /\ payload.from + (i + 3 + k) = i + 3 + k
        BY <1>2, <2>3, <2>5, <2>9
      <4>4. Byte(i + 3 + k) = ByteAt(Original, payload.from + (i + 3 + k))
        BY <1>2, <4>3, PayloadFacts
      <4> QED  BY <4>2, <4>3, <4>4, Zenon
    <3>2. i + 3 + 2 = i + 5 /\ i + 3 + 3 = i + 6 /\ i + 3 + 4 = i + 7 /\ i + 3 + 5 = i + 8
      BY <2>3
    <3>3. /\ s[2] = ByteAt(Original, i + 3 + 2) /\ s[3] = ByteAt(Original, i + 3 + 3)
          /\ s[4] = ByteAt(Original, i + 3 + 4) /\ s[5] = ByteAt(Original, i + 3 + 5)
      BY <3>1
    <3> QED  BY <3>2, <3>3
  <2>11. /\ 256 * s[2] + s[3] = Original.height
         /\ 256 * s[4] + s[5] = Original.width
    <3>1. IsImage(Original)
      BY <1>2, PayloadFacts
    <3>2. /\ Original.height = 256 * ByteAt(Original, i + 5) + ByteAt(Original, i + 6)
          /\ Original.width = 256 * ByteAt(Original, i + 7) + ByteAt(Original, i + 8)
      BY <2>4, <3>1, Zenon DEF IsImage
    <3> QED  BY <2>10, <3>2, Zenon
  <2> DEFINE h == [header EXCEPT !.height = 256 * s[2] + s[3], !.width = 256 * s[4] + s[5],
                                 !.components = components]
  <2>12. HasSize
    BY DEF JpegInv
  <2>13. {"width", "height"} \subseteq DOMAIN h /\ h.width = Original.width /\ h.height = Original.height
    BY <2>11, <2>12 DEF HasSize
  <2>14. Onward(h)
    BY <2>1
  <2> HIDE DEF h
  <2>15. Fits(h)
    BY <1>2, <2>4, <2>9, <2>13 DEF Fits
  <2>16. {255, SOS, EOI} \cap Baseline = {}
    BY DEF SOS, EOI, Baseline
  <2> QED  BY <1>1, <2>14, <2>15, <2>16, OnwardKeeps
<1> HIDE DEF s
<1> QED  BY <1>3, <1>4 DEF FrameHeader, s

\* Of the others, some may raise an exception, ...
Raises == \E what \in {"JpegError", "IndexError"} : Raise(what)

\* ... and go on to the next segment if they do not.
GoesOn == \E h : DOMAIN h = DOMAIN header /\ h.width = header.width
                   /\ h.height = header.height /\ Onward(h)

\* They do one or the other.
LEMMA OtherSegmentsDo ==
    ASSUME QuantTables \/ HuffmanTables \/ RestartInterval \/ OtherSegment
    PROVE  Raises \/ GoesOn
<1>1. ASSUME NEW q, Onward([header EXCEPT !.quant = q]) PROVE GoesOn
  <2> DEFINE h == [header EXCEPT !.quant = q]
  <2>1. DOMAIN h = DOMAIN header /\ h.width = header.width /\ h.height = header.height
    OBVIOUS
  <2> QED  BY <1>1, <2>1 DEF GoesOn
<1>2. ASSUME NEW d, NEW a, Onward([header EXCEPT !.dc = d, !.ac = a]) PROVE GoesOn
  <2> DEFINE h == [header EXCEPT !.dc = d, !.ac = a]
  <2>1. DOMAIN h = DOMAIN header /\ h.width = header.width /\ h.height = header.height
    OBVIOUS
  <2> QED  BY <1>2, <2>1 DEF GoesOn
<1>3. ASSUME NEW r, Onward([header EXCEPT !.restart = r]) PROVE GoesOn
  <2> DEFINE h == [header EXCEPT !.restart = r]
  <2>1. DOMAIN h = DOMAIN header /\ h.width = header.width /\ h.height = header.height
    OBVIOUS
  <2> QED  BY <1>3, <2>1 DEF GoesOn
<1>4. CASE QuantTables
  BY <1>1, <1>4, Zenon DEF QuantTables, Raises
<1>5. CASE HuffmanTables
  BY <1>2, <1>5, Zenon DEF HuffmanTables, Raises
<1>6. CASE RestartInterval
  BY <1>3, <1>6, Zenon DEF RestartInterval, Raises
<1>7. CASE OtherSegment
  BY <1>7, Zenon DEF OtherSegment, GoesOn
<1> QED  BY <1>4, <1>5, <1>6, <1>7

\* Neither changes what is known of the size.
LEMMA OtherSegmentsKeep ==
    ASSUME JpegInv, QuantTables \/ HuffmanTables \/ RestartInterval \/ OtherSegment
    PROVE  JpegInv'
<1>1. PICK markers : AtMarker(markers) /\ {255, SOS, EOI} \cap markers = {}
  <2>1. CASE QuantTables
    <3>1. AtMarker({DQT})
      BY <2>1, Zenon DEF QuantTables
    <3>2. {255, SOS, EOI} \cap {DQT} = {}
      BY DEF SOS, EOI, DQT
    <3> QED  BY <3>1, <3>2
  <2>2. CASE HuffmanTables
    <3>1. AtMarker({DHT})
      BY <2>2, Zenon DEF HuffmanTables
    <3>2. {255, SOS, EOI} \cap {DHT} = {}
      BY DEF SOS, EOI, DHT
    <3> QED  BY <3>1, <3>2
  <2>3. CASE RestartInterval
    <3>1. AtMarker({DRI}) /\ {255, SOS, EOI} \cap {DRI} = {}
      BY <2>3 DEF RestartInterval, SOS, EOI, DRI
    <3> QED  BY <3>1
  <2>4. CASE OtherSegment
    <3> DEFINE M == (0..254) \ (FrameHeaders \cup {DQT, DHT, DRI, SOS, EOI})
    <3>1. AtMarker(M)
      BY <2>4 DEF OtherSegment
    <3>2. {255, SOS, EOI} \cap M = {}
      OBVIOUS
    <3> HIDE DEF M
    <3> QED  BY <3>1, <3>2
  <2> QED  BY <2>1, <2>2, <2>3, <2>4
<1>2. step = "segment"
  BY <1>1 DEF AtMarker
<1>3. CASE Raises
  BY <1>2, <1>3, RaiseKeeps DEF Raises
<1>4. CASE GoesOn
  <2>1. PICK h : DOMAIN h = DOMAIN header /\ h.width = header.width
                   /\ h.height = header.height /\ Onward(h)
    BY <1>4 DEF GoesOn
  <2>2. Fits(h)
    BY <1>2, <2>1, OtherFits
  <2> QED  BY <1>1, <2>1, <2>2, OnwardKeeps
<1> QED  BY <1>3, <1>4, OtherSegmentsDo

\* Nothing follows the start of the scan but the scan.
LEMMA StartOfScanKeeps ==
    ASSUME JpegInv, StartOfScan
    PROVE  JpegInv'
<1>1. step = "segment"
  BY DEF StartOfScan, AtMarker
<1>2. CASE Raises
  BY <1>1, <1>2, RaiseKeeps DEF Raises
<1>3. ASSUME ~Raises
      PROVE  /\ header.width # 0 /\ step' = "mcu"
             /\ UNCHANGED <<payload, offset, result>>
             /\ \E c : header' = [header EXCEPT !.components = c]
  BY <1>3, Zenon DEF StartOfScan, Raises
<1>4. CASE ~Raises
  <2>1. PICK c : header' = [header EXCEPT !.components = c]
    BY <1>3, <1>4
  <2>2. /\ DOMAIN header' = DOMAIN header /\ header'.width = header.width
        /\ header'.height = header.height
    BY <2>1
  <2>3. header.width # 0 /\ step' = "mcu" /\ UNCHANGED <<payload, offset, result>>
    BY <1>3, <1>4
  <2>4. HasSize /\ PayloadOK /\ SizeIsOriginal /\ result # "image"
    BY <1>1 DEF JpegInv
  <2>5. HasSize' /\ PayloadOK' /\ SizeIsOriginal'
    BY <2>2, <2>3, <2>4 DEF HasSize, PayloadOK, SizeIsOriginal, Original, Size
  <2> QED  BY <2>2, <2>3, <2>4, <2>5 DEF JpegInv
<1> QED  BY <1>2, <1>4

\* Every step of decode_dc keeps it.
LEMMA DecodeOnKeeps ==
    ASSUME JpegInv, DecodeOn
    PROVE  JpegInv'
<1>1. CASE NoMarker
  BY <1>1, RaiseKeeps DEF NoMarker
<1>2. CASE Unsupported
  BY <1>2, RaiseKeeps DEF Unsupported, AtMarker
<1>3. CASE EndOfImage
  BY <1>3, RaiseKeeps DEF EndOfImage, AtMarker
<1>4. CASE Fill
  <2>1. AtMarker({255}) /\ offset' = offset + 1 /\ UNCHANGED <<payload, step, header, result>>
    BY <1>4 DEF Fill
  <2>2. /\ step = "segment" /\ PayloadOK /\ payload.from = 0
        /\ offset \in Original.segments /\ offset + 3 < Size
        /\ Byte(offset + 1) = 255
    BY <2>1, AtSegment
  <2>3. PICK i \in Original.segments : i = offset
    BY <2>2
  <2>4. \/ Byte(i + 1) \in {SOS, EOI}
        \/ Byte(i + 1) = 255 /\ Follows(Original, i, i + 1)
        \/ Byte(i + 1) \notin {255}
    BY <2>2, <2>3, WholeHead
  <2>5. Follows(Original, i, i + 1)
    BY <2>2, <2>3, <2>4 DEF SOS, EOI
  <2>6. offset' \in Original'.segments
    BY <2>1, <2>3, <2>5 DEF Follows, Original
  <2> QED
    BY <2>1, <2>2, <2>6 DEF JpegInv, HasSize, PayloadOK, SizeIsOriginal, Original, Size
<1>5. CASE FrameHeader
  BY <1>5, FrameHeaderKeeps
<1>6. CASE QuantTables \/ HuffmanTables \/ RestartInterval \/ OtherSegment
  BY <1>6, OtherSegmentsKeep
<1>7. CASE StartOfScan
  BY <1>7, StartOfScanKeeps
<1>8. CASE Mcu
  <2>1. step = "mcu" /\ step' = "dc" /\ UNCHANGED <<payload, offset, header, result>>
    BY <1>8, Zenon DEF Mcu
  <2> QED  BY <2>1, ScanKeeps
<1>9. CASE DcTerm
  <2>1. step = "dc" /\ step' = "ac" /\ UNCHANGED <<payload, offset, header, result>>
    BY <1>9, Zenon DEF DcTerm
  <2> QED  BY <2>1, ScanKeeps
<1>10. CASE AcTerm
  <2>1. step = "ac" /\ UNCHANGED <<payload, offset, header, result>>
    BY <1>10, Zenon DEF AcTerm
  <2>2. step' = step \/ NextBlock
    BY <1>10, Zenon DEF AcTerm
  <2>3. NextBlock => step' \in {"dc", "mcu"}
    BY DEF NextBlock
  <2> QED  BY <2>1, <2>2, <2>3, ScanKeeps
<1>11. CASE ScanFails
  <2>1. step \in {"dc", "ac"} /\ Raise("JpegError")
    BY <1>11, Zenon DEF ScanFails
  <2> QED  BY <2>1, RaiseKeeps
<1>12. CASE AllDecoded
  <2>1. step = "mcu" /\ step' = "returned" /\ UNCHANGED <<payload, offset, header>>
    BY <1>12 DEF AllDecoded, Finish
  <2> QED  BY <2>1, ScanKeeps
<1> QED
  BY <1>1, <1>2, <1>3, <1>4, <1>5, <1>6, <1>7, <1>8, <1>9, <1>10, <1>11, <1>12 DEF DecodeOn

\* What was read is the image's, whatever is asked.
LEMMA JpegStarts ==
    PlaybackInit => JpegInv
BY DEF PlaybackInit, JpegInit, JpegInv, HasSize

LEMMA PlaybackKeepsJpeg ==
    ASSUME JpegInv, [PlaybackNext]_playbackVars
    PROVE  JpegInv'
<1>1. CASE UNCHANGED jpegVars
  BY <1>1 DEF jpegVars, JpegInv, HasSize, PayloadOK, SizeIsOriginal, Original, Size
<1>2. CASE AskDecode
  <2>1. PICK p \in Payloads : Decode(p)
    BY <1>2 DEF AskDecode
  <2>2. /\ step = "idle" /\ payload' = p /\ step' = "segment"
        /\ UNCHANGED <<offset, header, result>>
    BY <2>1 DEF Decode
  <2>3. offset = 2 /\ header.width = 0 /\ result # "image" /\ HasSize
    BY <2>2 DEF JpegInv
  <2>4. PayloadOK' /\ HasSize' /\ SizeIsOriginal'
    BY <2>2, <2>3 DEF PayloadOK, HasSize, SizeIsOriginal
  <2>5. offset' \in Original'.segments
    <3>1. IsImage(p.image)
      BY ImagesAssumption
    <3> QED  BY <2>2, <2>3, <3>1 DEF IsImage, Original
  <2> QED  BY <2>2, <2>3, <2>4, <2>5 DEF JpegInv
<1>3. CASE Decoding
  BY <1>3, DecodeOnKeeps DEF Decoding
<1> QED  BY <1>1, <1>2, <1>3 DEF PlaybackNext, playbackVars, Lookup, Decoded

\* It is enough.
LEMMA JpegInvTells ==
    ASSUME JpegInv
    PROVE  FragmentsAreTold
<1> SUFFICES ASSUME step = "returned"
             PROVE  /\ JpegDimensions \in {Unknown, <<Original.width, Original.height>>}
                    /\ result = "image" => JpegDimensions = <<header.width, header.height>>
                    /\ LooksLikeJpeg <=> Size = Len(Original.bytes)
  BY DEF FragmentsAreTold
<1>1. PayloadOK /\ SizeIsOriginal /\ (result = "image" => header.width # 0)
  BY DEF JpegInv
<1>2. result = "image" => /\ payload.from = 0 /\ Original.frame + 9 < Size
                          /\ header.width = Original.width /\ header.height = Original.height
  BY <1>1 DEF SizeIsOriginal
<1> QED  BY <1>1, <1>2, DimensionsAre

\* A fragment of a JPEG is told from a whole one, and jpeg_dimensions says
\* nothing or the size of the image of any of them, the size the decoder
\* itself read if it decodes it.
THEOREM FragmentsToldApart ==
    PlaybackSpec => []FragmentsAreTold
<1>1. PlaybackInit => JpegInv
  BY JpegStarts
<1>2. JpegInv /\ [PlaybackNext]_playbackVars => JpegInv'
  BY PlaybackKeepsJpeg
<1>3. JpegInv => FragmentsAreTold
  BY JpegInvTells
<1> QED  BY <1>1, <1>2, <1>3, PTL DEF PlaybackSpec

-----------------------------------------------------------------------------
(* Where the blocks of a scan go.                                          *)

\* A number of two digits, the lower one of w values, the upper one of n.
LEMMA TwoDigits ==
    ASSUME NEW w \in Nat \ {0}, NEW n \in Nat \ {0}, NEW q \in 0..(n - 1), NEW r \in 0..(w - 1)
    PROVE  /\ q * w + r \in 0..(n * w - 1)
           /\ (q * w + r) \div w = q /\ (q * w + r) % w = r
<1> DEFINE m == q * w + r
           p == m \div w
           s == m % w
<1>1. q \in Nat /\ r \in Nat /\ r < w /\ q * w \in Nat /\ n * w \in Nat /\ m \in Nat
  OBVIOUS
<1>2. (n - 1 - q) * w >= 0 /\ (n - 1 - q) * w = n * w - w - q * w
  OBVIOUS
<1>3. p \in Int /\ s \in 0..(w - 1) /\ m = p * w + s
  <2> HIDE DEF m
  <2> QED  BY <1>1, Divided
<1>4. p * w - q * w < w /\ q * w - p * w < w /\ p * w \in Int
  <2> DEFINE pw == p * w
             qw == q * w
  <2>1. pw \in Int /\ qw \in Int /\ qw + r = pw + s
    BY <1>1, <1>3
  <2> HIDE DEF pw, qw, p, s, m
  <2>2. pw - qw < w /\ qw - pw < w
    BY <1>1, <1>3, <2>1
  <2> QED  BY <2>1, <2>2 DEF pw, qw
<1> HIDE DEF p, s
<1>5. p = q
  <2>1. ASSUME p >= q + 1 PROVE FALSE
    <3>1. (p - q - 1) * w >= 0 /\ (p - q - 1) * w = p * w - q * w - w
      BY <1>1, <1>3, <2>1
    <3> QED  BY <1>1, <1>3, <1>4, <3>1
  <2>2. ASSUME q >= p + 1 PROVE FALSE
    <3>1. (q - p - 1) * w >= 0 /\ (q - p - 1) * w = q * w - p * w - w
      BY <1>1, <1>3, <2>2
    <3> QED  BY <1>1, <1>3, <1>4, <3>1
  <2> QED  BY <1>1, <1>3, <2>1, <2>2
<1>6. s = r
  <2>1. q * w + r = q * w + s
    BY <1>3, <1>5
  <2> QED  BY <1>1, <1>3, <2>1
<1>7. m \in 0..(n * w - 1)
  <2> DEFINE qw == q * w
             nw == n * w
             rest == (n - 1 - q) * w
  <2>1. qw \in Nat /\ nw \in Nat /\ rest \in Int /\ rest >= 0 /\ rest = nw - w - qw
    BY <1>1, <1>2
  <2> HIDE DEF qw, nw, rest
  <2>2. qw + r \in 0..(nw - 1)
    BY <1>1, <2>1
  <2> QED  BY <2>2 DEF qw, nw
<1> QED  BY <1>5, <1>6, <1>7 DEF p, s

\* Every number is one of two such digits.
LEMMA HasTwoDigits ==
    ASSUME NEW w \in Nat \ {0}, NEW n \in Nat \ {0}, NEW m \in 0..(n * w - 1)
    PROVE  /\ m \div w \in 0..(n - 1) /\ m % w \in 0..(w - 1)
           /\ m = (m \div w) * w + (m % w)
<1> DEFINE q == m \div w
           r == m % w
           nw == n * w
<1>1. nw \in Nat
  OBVIOUS
<1>2. m \in Nat /\ m < nw
  BY <1>1
<1>3. q \in Int /\ r \in 0..(w - 1) /\ m = q * w + r
  BY <1>2, Divided
<1> HIDE DEF q, r
<1>4. q >= 0
  <2> SUFFICES ASSUME q <= -1 PROVE FALSE
    BY <1>3
  <2>1. (-1 - q) * w >= 0 /\ (-1 - q) * w = -w - q * w /\ q * w \in Int
    BY <1>3
  <2> HIDE DEF nw
  <2> QED  BY <1>2, <1>3, <2>1
<1>5. q < n
  <2> SUFFICES ASSUME q >= n PROVE FALSE
    BY <1>3
  <2>1. (q - n) * w >= 0 /\ (q - n) * w = q * w - nw /\ q * w \in Int
    BY <1>3
  <2> HIDE DEF nw
  <2> QED  BY <1>1, <1>2, <1>3, <2>1
<1> QED  BY <1>3, <1>4, <1>5 DEF q, r

\* The MCUs of an image, A across and D down, of h times v blocks each.
Mcus(A, D) == 0..(D * A - 1)
Blocks(h, v) == 0..(v * h - 1)
Places(A, D, h, v) == 0..((D * v) * (A * h) - 1)

\* The digits of a place are those of the MCU and of the block.
LEMMA PlaceDigits ==
    ASSUME NEW A \in Nat \ {0}, NEW D \in Nat \ {0}, NEW h \in Nat \ {0}, NEW v \in Nat \ {0},
           NEW m \in Mcus(A, D), NEW b \in Blocks(h, v)
    PROVE  LET place == PlaceOf(m, b, A, h, v)
           IN  /\ place \in Places(A, D, h, v)
               /\ m % A = (place % (A * h)) \div h /\ b % h = (place % (A * h)) % h
               /\ m \div A = (place \div (A * h)) \div v /\ b \div h = (place \div (A * h)) % v
<1>1. /\ m \div A \in 0..(D - 1) /\ m % A \in 0..(A - 1)
  BY HasTwoDigits DEF Mcus
<1>2. /\ b \div h \in 0..(v - 1) /\ b % h \in 0..(h - 1)
  BY HasTwoDigits DEF Blocks
<1> DEFINE x == (m % A) * h + (b % h)
           y == (m \div A) * v + b \div h
<1>3. x \in 0..(A * h - 1) /\ x \div h = m % A /\ x % h = b % h
  <2>1. PICK q \in 0..(A - 1) : q = m % A
    BY <1>1
  <2>2. PICK r \in 0..(h - 1) : r = b % h
    BY <1>2
  <2>3. q * h + r \in 0..(A * h - 1) /\ (q * h + r) \div h = q /\ (q * h + r) % h = r
    BY TwoDigits, SMTT(30)
  <2> QED  BY <2>1, <2>2, <2>3, Zenon
<1>4. y \in 0..(D * v - 1) /\ y \div v = m \div A /\ y % v = b \div h
  <2>1. PICK q \in 0..(D - 1) : q = m \div A
    BY <1>1
  <2>2. PICK r \in 0..(v - 1) : r = b \div h
    BY <1>2
  <2>3. q * v + r \in 0..(D * v - 1) /\ (q * v + r) \div v = q /\ (q * v + r) % v = r
    BY TwoDigits
  <2> QED  BY <2>1, <2>2, <2>3, Zenon
<1> DEFINE across == A * h
           down == D * v
<1>5. across \in Nat \ {0} /\ down \in Nat \ {0}
  OBVIOUS
<1>6. PlaceOf(m, b, A, h, v) = y * across + x
  BY DEF PlaceOf
<1> HIDE DEF x, y, across, down
<1>7. /\ y * across + x \in 0..(down * across - 1)
      /\ (y * across + x) \div across = y /\ (y * across + x) % across = x
  <2>1. x \in 0..(across - 1) /\ y \in 0..(down - 1)
    BY <1>3, <1>4 DEF across, down
  <2> QED  BY <1>5, <2>1, TwoDigits
<1> QED  BY <1>3, <1>4, <1>6, <1>7 DEF across, down, Places

\* Every place of the image is that of one block of one MCU, of no other.
PlacesAreTaken(A, D, h, v) ==
    /\ \A m \in Mcus(A, D), b \in Blocks(h, v) :
          PlaceOf(m, b, A, h, v) \in Places(A, D, h, v)
    /\ \A p \in Places(A, D, h, v) : \E m \in Mcus(A, D), b \in Blocks(h, v) :
          PlaceOf(m, b, A, h, v) = p
    /\ \A m, n \in Mcus(A, D) : \A b, c \in Blocks(h, v) :
          PlaceOf(m, b, A, h, v) = PlaceOf(n, c, A, h, v) => m = n /\ b = c

\* The blocks of a scan cover the image that is returned, each a place of its
\* own, however the component is sampled (_decode_scan's row and column of a
\* block).
THEOREM BlocksCoverImage ==
    ASSUME NEW A \in Nat \ {0}, NEW D \in Nat \ {0}, NEW h \in Nat \ {0}, NEW v \in Nat \ {0}
    PROVE  PlacesAreTaken(A, D, h, v)
<1>1. ASSUME NEW m \in Mcus(A, D), NEW b \in Blocks(h, v)
      PROVE  PlaceOf(m, b, A, h, v) \in Places(A, D, h, v)
  BY PlaceDigits
<1>2. ASSUME NEW p \in Places(A, D, h, v)
      PROVE  \E m \in Mcus(A, D), b \in Blocks(h, v) : PlaceOf(m, b, A, h, v) = p
  <2> DEFINE across == A * h
             down == D * v
             x == p % across
             y == p \div across
  <2>1. across \in Nat \ {0} /\ down \in Nat \ {0}
    OBVIOUS
  <2>2. p \in 0..(down * across - 1)
    BY DEF Places
  <2>3. y \in 0..(down - 1) /\ x \in 0..(across - 1) /\ p = y * across + x
    <3> HIDE DEF across, down
    <3> QED  BY <2>1, <2>2, HasTwoDigits
  <2> HIDE DEF x, y
  <2>4. x \div h \in 0..(A - 1) /\ x % h \in 0..(h - 1) /\ x = (x \div h) * h + (x % h)
    BY <2>3, HasTwoDigits
  <2>5. y \div v \in 0..(D - 1) /\ y % v \in 0..(v - 1) /\ y = (y \div v) * v + (y % v)
    BY <2>3, HasTwoDigits
  <2> DEFINE m == (y \div v) * A + (x \div h)
             b == (y % v) * h + (x % h)
  <2>6. m \in Mcus(A, D) /\ m \div A = y \div v /\ m % A = x \div h
    <3>1. PICK q \in 0..(D - 1) : q = y \div v
      BY <2>5
    <3>2. PICK r \in 0..(A - 1) : r = x \div h
      BY <2>4
    <3>3. q * A + r \in 0..(D * A - 1) /\ (q * A + r) \div A = q /\ (q * A + r) % A = r
      BY TwoDigits
    <3> QED  BY <3>1, <3>2, <3>3, Zenon DEF Mcus
  <2>7. b \in Blocks(h, v) /\ b \div h = y % v /\ b % h = x % h
    <3>1. PICK q \in 0..(v - 1) : q = y % v
      BY <2>5
    <3>2. PICK r \in 0..(h - 1) : r = x % h
      BY <2>4
    <3>3. q * h + r \in 0..(v * h - 1) /\ (q * h + r) \div h = q /\ (q * h + r) % h = r
      BY TwoDigits
    <3> QED  BY <3>1, <3>2, <3>3, Zenon DEF Blocks
  <2> HIDE DEF m, b
  <2>8. PlaceOf(m, b, A, h, v) = p
    <3>1. (m % A) * h + (b % h) = x
      BY <2>4, <2>6, <2>7
    <3>2. (m \div A) * v + b \div h = y
      BY <2>5, <2>6, <2>7
    <3> QED  BY <2>3, <3>1, <3>2, Zenon DEF PlaceOf, across
  <2> QED  BY <2>6, <2>7, <2>8
<1>3. ASSUME NEW m \in Mcus(A, D), NEW n \in Mcus(A, D), NEW b \in Blocks(h, v),
             NEW c \in Blocks(h, v), PlaceOf(m, b, A, h, v) = PlaceOf(n, c, A, h, v)
      PROVE  m = n /\ b = c
  <2>1. m % A = n % A /\ m \div A = n \div A /\ b % h = c % h /\ b \div h = c \div h
    BY <1>3, PlaceDigits
  <2>2. m = (m \div A) * A + (m % A) /\ n = (n \div A) * A + (n % A)
    BY HasTwoDigits DEF Mcus
  <2>3. b = (b \div h) * h + (b % h) /\ c = (c \div h) * h + (c % h)
    BY HasTwoDigits DEF Blocks
  <2> QED  BY <2>1, <2>2, <2>3
<1> QED  BY <1>1, <1>2, <1>3, Zenon DEF PlacesAreTaken

-----------------------------------------------------------------------------
(* The bars of a number.                                                   *)

\* Two rows of bars side by side.
Beside(s, t, u) ==
    /\ u \in Seq(BOOLEAN) /\ Len(u) = Len(s) + Len(t)
    /\ \A i \in 1..Len(s) : u[i] = s[i]
    /\ \A i \in 1..Len(t) : u[Len(s) + i] = t[i]

LEMMA ConcatIs ==
    ASSUME NEW s \in Seq(BOOLEAN), NEW t \in Seq(BOOLEAN)
    PROVE  Beside(s, t, s \o t)
<1> DEFINE u == s \o t
<1>1. /\ u \in Seq(BOOLEAN) /\ Len(u) = Len(s) + Len(t)
      /\ \A i \in 1..(Len(s) + Len(t)) : u[i] = IF i <= Len(s) THEN s[i] ELSE t[i - Len(s)]
  BY ConcatProperties
<1>2. Len(s) \in Nat /\ Len(t) \in Nat
  OBVIOUS
<1> HIDE DEF u
<1>3. ASSUME NEW i \in 1..Len(s) PROVE u[i] = s[i]
  <2>1. i \in 1..(Len(s) + Len(t)) /\ i <= Len(s)
    BY <1>2
  <2> QED  BY <1>1, <2>1, Zenon
<1>4. ASSUME NEW i \in 1..Len(t) PROVE u[Len(s) + i] = t[i]
  <2> DEFINE j == Len(s) + i
  <2>1. j \in 1..(Len(s) + Len(t)) /\ ~(j <= Len(s)) /\ j - Len(s) = i
    BY <1>2
  <2> HIDE DEF j
  <2>2. u[j] = t[j - Len(s)]
    BY <1>1, <2>1, Zenon
  <2> QED  BY <2>1, <2>2 DEF j
<1> QED  BY <1>1, <1>3, <1>4 DEF Beside, u

\* Where the bits of the number and of its check are.
LEMMA BarsAre ==
    ASSUME NEW n
    PROVE  /\ Encode(n) = [p \in 1..TotalBars |-> Encode(n)[p]]
           /\ \A i \in 1..DataBits : Encode(n)[2 + i] = Bit(n, DataBits - i)
           /\ \A i \in 1..CheckBits : Encode(n)[2 + DataBits + i] = CheckBit(n, CheckBits - i)
           /\ Encode(n)[1] = TRUE /\ Encode(n)[2] = FALSE
           /\ Encode(n)[TotalBars - 1] = FALSE /\ Encode(n)[TotalBars] = TRUE
<1> DEFINE front == <<TRUE, FALSE>>
           data == [i \in 1..DataBits |-> Bit(n, DataBits - i)]
           check == [i \in 1..CheckBits |-> CheckBit(n, CheckBits - i)]
           back == <<FALSE, TRUE>>
           d == DataBits
<1>0. d \in Nat \ {0} /\ TotalBars = d + 8 /\ CheckBits = 4
  BY DataBitsAssumption DEF TotalBars, CheckBits
<1>1. /\ front \in Seq(BOOLEAN) /\ Len(front) = 2 /\ front[1] = TRUE /\ front[2] = FALSE
      /\ back \in Seq(BOOLEAN) /\ Len(back) = 2 /\ back[1] = FALSE /\ back[2] = TRUE
  OBVIOUS
<1>2. /\ data \in Seq(BOOLEAN) /\ Len(data) = d
      /\ \A i \in 1..d : data[i] = Bit(n, DataBits - i)
  <2>1. \A i \in 1..d : Bit(n, DataBits - i) \in BOOLEAN
    BY DEF Bit
  <2> QED  BY <1>0, <2>1
<1>3. /\ check \in Seq(BOOLEAN) /\ Len(check) = 4
      /\ \A i \in 1..4 : check[i] = CheckBit(n, CheckBits - i)
  <2>1. \A i \in 1..4 : CheckBit(n, CheckBits - i) \in BOOLEAN
    BY DEF CheckBit
  <2> QED  BY <1>0, <2>1
<1>4. Encode(n) = front \o data \o check \o back
  BY DEF Encode
<1> HIDE DEF front, data, check, back, d
<1> DEFINE a == front \o data
           b == a \o check
           e == b \o back
<1>5. /\ a \in Seq(BOOLEAN) /\ Len(a) = 2 + d /\ a[1] = TRUE /\ a[2] = FALSE
      /\ \A i \in 1..d : a[2 + i] = data[i]
  <2>1. Beside(front, data, a)
    BY <1>1, <1>2, ConcatIs
  <2> HIDE DEF a
  <2> QED  BY <1>0, <1>1, <1>2, <2>1 DEF Beside
<1> HIDE DEF a
<1>6. /\ b \in Seq(BOOLEAN) /\ Len(b) = 6 + d /\ \A i \in 1..(2 + d) : b[i] = a[i]
      /\ \A i \in 1..4 : b[2 + d + i] = check[i]
  <2>1. Beside(a, check, b)
    BY <1>3, <1>5, ConcatIs
  <2> HIDE DEF b
  <2> QED  BY <1>0, <1>3, <1>5, <2>1 DEF Beside
<1> HIDE DEF b
<1>7. /\ e \in Seq(BOOLEAN) /\ Len(e) = 8 + d /\ \A i \in 1..(6 + d) : e[i] = b[i]
      /\ e[7 + d] = FALSE /\ e[8 + d] = TRUE
  <2>1. Beside(b, back, e)
    BY <1>1, <1>6, ConcatIs
  <2> HIDE DEF e
  <2>2. e[Len(b) + 1] = back[1] /\ e[Len(b) + 2] = back[2]
    BY <1>1, <2>1 DEF Beside
  <2>3. Len(b) + 1 = 7 + d /\ Len(b) + 2 = 8 + d
    BY <1>0, <1>6
  <2> QED  BY <1>0, <1>1, <1>6, <2>1, <2>2, <2>3 DEF Beside
<1> HIDE DEF e
<1>8. Encode(n) = e
  BY <1>4 DEF a, b, e
<1>9. \A i \in 1..d : e[2 + i] = data[i]
  <2> SUFFICES ASSUME NEW i \in 1..d PROVE e[2 + i] = data[i]
    OBVIOUS
  <2>1. 2 + i \in 1..(2 + d) /\ 2 + i \in 1..(6 + d)
    BY <1>0
  <2> QED  BY <1>5, <1>6, <1>7, <2>1
<1>10. \A i \in 1..4 : e[2 + d + i] = check[i]
  <2> SUFFICES ASSUME NEW i \in 1..4 PROVE e[2 + d + i] = check[i]
    OBVIOUS
  <2>1. 2 + d + i \in 1..(6 + d)
    BY <1>0
  <2> QED  BY <1>6, <1>7, <2>1
<1>11. e = [p \in 1..TotalBars |-> e[p]]
  BY <1>0, <1>7
<1>12. e[1] = TRUE /\ e[2] = FALSE
  BY <1>0, <1>5, <1>6, <1>7, SMTT(30)
<1>13. e[TotalBars - 1] = FALSE /\ e[TotalBars] = TRUE
  BY <1>0, <1>7
<1>14. \A i \in 1..DataBits : e[2 + i] = Bit(n, DataBits - i)
  BY <1>2, <1>9 DEF d
<1>15. \A i \in 1..CheckBits : e[2 + DataBits + i] = CheckBit(n, CheckBits - i)
  BY <1>0, <1>3, <1>10 DEF d
<1> QED  BY <1>8, <1>11, <1>12, <1>13, <1>14, <1>15

\* The bits of nibble bit k that are set.
Ones(n, k) == {i \in 0..(DataBits - 1) : i % CheckBits = k /\ Bit(n, i)}

LEMMA OnesFinite ==
    ASSUME NEW n, NEW k
    PROVE  IsFiniteSet(Ones(n, k)) /\ Cardinality(Ones(n, k)) \in Nat
<1>1. IsFiniteSet(0..(DataBits - 1))
  BY DataBitsAssumption, FS_Interval
<1>2. Ones(n, k) \in SUBSET (0..(DataBits - 1))
  BY DEF Ones
<1>3. IsFiniteSet(Ones(n, k))
  BY <1>1, <1>2, FS_Subset
<1> QED  BY <1>3, FS_CardinalityType

\* One bit more makes an odd number of them even and an even one odd.
LEMMA OneMore ==
    ASSUME NEW n, NEW m, NEW i \in 0..(DataBits - 1), Bit(n, i), ~Bit(m, i),
           \A j \in 0..(DataBits - 1) : j # i => (Bit(n, j) <=> Bit(m, j))
    PROVE  ~(CheckBit(n, i % CheckBits) <=> CheckBit(m, i % CheckBits))
<1> DEFINE k == i % CheckBits
           S == Ones(m, k)
           c == Cardinality(S)
<1>1. Ones(n, k) = S \cup {i} /\ i \notin S
  BY DEF Ones
<1>2. IsFiniteSet(S) /\ c \in Nat
  BY OnesFinite
<1>3. Cardinality(Ones(n, k)) = c + 1
  <2> HIDE DEF S, k
  <2>1. Cardinality(S \cup {i}) = c + 1
    BY <1>1, <1>2, FS_AddElement
  <2> QED  BY <1>1, <2>1
<1>4. ~((c + 1) % 2 = 1 <=> c % 2 = 1)
  <2> HIDE DEF c
  <2> QED  BY <1>2
<1> QED  BY <1>3, <1>4 DEF CheckBit, Ones

\* Of different numbers at least two bars differ.
LEMMA TwoBarsDiffer ==
    ASSUME NEW n, NEW m, NEW i \in 0..(DataBits - 1), ~(Bit(n, i) <=> Bit(m, i))
    PROVE  \E p, q \in 1..TotalBars : /\ p # q
                                     /\ Encode(n)[p] # Encode(m)[p]
                                     /\ Encode(n)[q] # Encode(m)[q]
<1>0. DataBits \in Nat \ {0} /\ TotalBars = DataBits + 8 /\ CheckBits = 4
  BY DataBitsAssumption DEF TotalBars, CheckBits
<1> DEFINE at(j) == 2 + (DataBits - j)
<1>1. ASSUME NEW j \in 0..(DataBits - 1)
      PROVE  /\ at(j) \in 1..TotalBars /\ at(j) <= 2 + DataBits
             /\ Encode(n)[at(j)] = Bit(n, j) /\ Encode(m)[at(j)] = Bit(m, j)
  <2> DEFINE l == DataBits - j
  <2>1. l \in 1..DataBits /\ DataBits - l = j /\ 2 + l \in 1..TotalBars /\ 2 + l <= 2 + DataBits
    BY <1>0
  <2> HIDE DEF l
  <2>2. Encode(n)[2 + l] = Bit(n, DataBits - l) /\ Encode(m)[2 + l] = Bit(m, DataBits - l)
    BY <2>1, BarsAre
  <2> QED  BY <2>1, <2>2 DEF l
<1>2. CASE \E j \in 0..(DataBits - 1) : j # i /\ ~(Bit(n, j) <=> Bit(m, j))
  <2>1. PICK j \in 0..(DataBits - 1) : j # i /\ ~(Bit(n, j) <=> Bit(m, j))
    BY <1>2
  <2>2. Encode(n)[at(i)] # Encode(m)[at(i)] /\ Encode(n)[at(j)] # Encode(m)[at(j)]
    <3> HIDE DEF at
    <3> QED  BY <1>1, <2>1
  <2>3. at(i) # at(j)
    BY <1>0, <2>1
  <2> HIDE DEF at
  <2> QED  BY <1>1, <2>2, <2>3
<1>3. CASE \A j \in 0..(DataBits - 1) : j # i => (Bit(n, j) <=> Bit(m, j))
  <2> DEFINE k == i % CheckBits
             q == 2 + DataBits + (CheckBits - k)
  <2>1. k \in 0..3 /\ q \in 1..TotalBars /\ q > 2 + DataBits
    BY <1>0
  <2>2. ~(CheckBit(n, k) <=> CheckBit(m, k))
    <3>1. CASE Bit(n, i) /\ ~Bit(m, i)
      BY <1>3, <3>1, OneMore
    <3>2. CASE Bit(m, i) /\ ~Bit(n, i)
      BY <1>3, <3>2, OneMore
    <3> QED  BY <3>1, <3>2
  <2> HIDE DEF k
  <2>3. Encode(n)[q] = CheckBit(n, k) /\ Encode(m)[q] = CheckBit(m, k)
    <3> DEFINE l == CheckBits - k
    <3>1. l \in 1..CheckBits /\ CheckBits - l = k
      BY <1>0, <2>1
    <3> HIDE DEF l
    <3>2. /\ Encode(n)[2 + DataBits + l] = CheckBit(n, CheckBits - l)
          /\ Encode(m)[2 + DataBits + l] = CheckBit(m, CheckBits - l)
      BY <3>1, BarsAre
    <3> QED  BY <3>1, <3>2 DEF l
  <2>4. Encode(n)[q] # Encode(m)[q]
    <3> HIDE DEF q
    <3> QED  BY <2>2, <2>3
  <2>5. Encode(n)[at(i)] # Encode(m)[at(i)]
    <3> HIDE DEF at
    <3> QED  BY <1>1
  <2>6. at(i) # q
    <3>1. at(i) <= 2 + DataBits
      BY <1>1
    <3>2. at(i) \in Int /\ q \in Int
      BY <1>0, <2>1
    <3> HIDE DEF at, q
    <3> QED  BY <1>0, <2>1, <3>1, <3>2
  <2> HIDE DEF at, q
  <2> QED  BY <1>1, <2>1, <2>4, <2>5, <2>6
<1> QED  BY <1>2, <1>3

\* Numbers with the same bits have the same bars.
LEMMA SameBars ==
    ASSUME NEW n, NEW m, \A j \in 0..(DataBits - 1) : Bit(n, j) <=> Bit(m, j)
    PROVE  Encode(n) = Encode(m)
<1>0. DataBits \in Nat \ {0}
  BY DataBitsAssumption
<1>b. \A x, j : Bit(x, j) \in BOOLEAN
  BY DEF Bit
<1>1. [i \in 1..DataBits |-> Bit(n, DataBits - i)] = [i \in 1..DataBits |-> Bit(m, DataBits - i)]
  <2>1. ASSUME NEW i \in 1..DataBits PROVE Bit(n, DataBits - i) = Bit(m, DataBits - i)
    <3> DEFINE j == DataBits - i
    <3>1. j \in 0..(DataBits - 1)
      BY <1>0
    <3> HIDE DEF j
    <3>2. Bit(n, j) <=> Bit(m, j)
      BY <3>1
    <3>3. Bit(n, j) = Bit(m, j)
      BY <1>b, <3>2, Zenon
    <3> QED  BY <3>3 DEF j
  <2> QED  BY <2>1, Zenon
<1>2. \A k : Ones(n, k) = Ones(m, k)
  BY DEF Ones
<1>3. \A k : CheckBit(n, k) = CheckBit(m, k)
  BY <1>2, Zenon DEF CheckBit, Ones
<1>4. [i \in 1..CheckBits |-> CheckBit(n, CheckBits - i)]
          = [i \in 1..CheckBits |-> CheckBit(m, CheckBits - i)]
  BY <1>3, Zenon
<1> QED  BY <1>1, <1>4, Zenon DEF Encode

\* The bars of number n are read, with at most bar b misread, and the number
\* they spell is not refused: then its bars are those of n.  No single misread
\* bar, whichever it is, turns a number into another one (_decode_at, checksum).
THEOREM MisreadBarIsCaught ==
    ASSUME NEW n, NEW b, NEW level, NEW white, NEW black,
           \A i \in 1..TotalBars : i # b =>
               (2 * level[i - 1] > white + black) = Encode(n)[i],
           Deciphered(level, white, black) # Refused
    PROVE  Encode(Deciphered(level, white, black)) = Encode(n)
<1> DEFINE bits == [i \in 1..TotalBars |-> 2 * level[i - 1] > white + black]
           value == Spelled(SubSeq(bits, 3, 2 + DataBits))
<1>1. Deciphered(level, white, black) = value /\ bits = Encode(value)
  <2>1. Deciphered(level, white, black) = IF bits = Encode(value) THEN value ELSE Refused
    BY DEF Deciphered
  <2> HIDE DEF bits, value
  <2> QED  BY <2>1
<1> HIDE DEF value
<1>2. \A i \in 1..TotalBars : i # b => Encode(value)[i] = Encode(n)[i]
  <2> SUFFICES ASSUME NEW i \in 1..TotalBars, i # b PROVE Encode(value)[i] = Encode(n)[i]
    OBVIOUS
  <2>1. bits[i] = (2 * level[i - 1] > white + black)
    BY Zenon
  <2> HIDE DEF bits
  <2> QED  BY <1>1, <2>1, Zenon
<1>3. \A j \in 0..(DataBits - 1) : Bit(value, j) <=> Bit(n, j)
  <2> SUFFICES ASSUME NEW j \in 0..(DataBits - 1), ~(Bit(value, j) <=> Bit(n, j)) PROVE FALSE
    OBVIOUS
  <2>1. PICK p, q \in 1..TotalBars : /\ p # q
                                     /\ Encode(value)[p] # Encode(n)[p]
                                     /\ Encode(value)[q] # Encode(n)[q]
    BY TwoBarsDiffer
  <2> QED  BY <1>2, <2>1
<1> QED  BY <1>1, <1>3, SameBars

-----------------------------------------------------------------------------
(* What the latency tool measures.                                         *)

\* The times after some gap, and those before it.
Later(S) == S \cup {t + gap : t \in S, gap \in Gaps}

\* The times there can be of a painting, after those of the one before.
IsPaintTimes(f) ==
    f = [n \in 1..MaxPaints |-> IF n = 1 THEN {FirstPaint} ELSE Later(f[n - 1])]

\* They are times.
LEMMA LaterType ==
    ASSUME NEW S \in SUBSET Nat
    PROVE  Later(S) \in SUBSET Nat
<1>1. ASSUME NEW x \in Later(S), x \notin S PROVE x \in Nat
  <2>1. \E t \in S, gap \in Gaps : x = t + gap
    BY <1>1 DEF Later
  <2>2. PICK t \in S, gap \in Gaps : x = t + gap
    BY <2>1
  <2>3. t \in Nat /\ gap \in Nat
    BY GlassAssumption
  <2> QED  BY <2>2, <2>3
<1> QED  BY <1>1

\* There are such times.
LEMMA PaintTimesDefined == IsPaintTimes(PaintTimes) /\ PaintTimes \in [1..MaxPaints -> SUBSET Nat]
<1> DEFINE D == 1..MaxPaints
           body(f, n) == IF n = 1 THEN {FirstPaint} ELSE Later(f[n - 1])
           T == {n \in Nat : \E f \in [D -> SUBSET Nat] :
                                \A k \in D : k <= n => f[k] = body(f, k)}
<1>0. MaxPaints \in Nat \ {0} /\ FirstPaint \in Nat /\ Gaps \subseteq Nat
  BY GlassAssumption
<1>b. ASSUME NEW f \in [D -> SUBSET Nat], NEW k \in D PROVE body(f, k) \in SUBSET Nat
  <2>1. CASE k = 1
    BY <1>0, <2>1
  <2>2. CASE k # 1
    <3>1. k - 1 \in D
      BY <1>0, <2>2
    <3> QED  BY LaterType, <2>2, <3>1
  <2> QED  BY <2>1, <2>2
<1>1. 0 \in T
  <2>1. [k \in D |-> {}] \in [D -> SUBSET Nat] /\ \A k \in D : ~(k <= 0)
    BY <1>0
  <2> QED  BY <2>1
<1>2. ASSUME NEW n \in T PROVE n + 1 \in T
  <2>1. n \in Nat
    OBVIOUS
  <2>2. PICK f \in [D -> SUBSET Nat] : \A k \in D : k <= n => f[k] = body(f, k)
    OBVIOUS
  <2> DEFINE g == [k \in D |-> IF k = n + 1 THEN body(f, k) ELSE f[k]]
  <2>3. g \in [D -> SUBSET Nat]
    <3> HIDE DEF body
    <3> QED  BY <1>b
  <2>4. ASSUME NEW k \in D, k <= n + 1 PROVE g[k] = body(g, k)
    <3>1. k = 1 \/ (k - 1 \in D /\ k - 1 # n + 1)
      BY <1>0, <2>1, <2>4
    <3>2. body(g, k) = body(f, k)
      BY <3>1
    <3>3. g[k] = body(f, k)
      <4>1. CASE k = n + 1
        BY <4>1
      <4>2. CASE k # n + 1
        <5>1. k <= n
          BY <1>0, <2>1, <2>4, <4>2
        <5> QED  BY <2>2, <4>2, <5>1
      <4> QED  BY <4>1, <4>2
    <3> QED  BY <3>2, <3>3
  <2>5. n + 1 \in Nat
    BY <2>1
  <2> QED  BY <2>3, <2>4, <2>5
<1>3. MaxPaints \in T
  <2> HIDE DEF T
  <2>1. T \in SUBSET Nat
    BY DEF T
  <2>2. T = Nat
    BY <1>1, <1>2, <2>1, SetInduction
  <2> QED  BY <1>0, <2>2
<1>4. PICK f \in [D -> SUBSET Nat] : \A k \in D : k <= MaxPaints => f[k] = body(f, k)
  BY <1>3
<1>5. \A k \in D : f[k] = body(f, k)
  BY <1>0, <1>4
<1>6. IsPaintTimes(f)
  BY <1>4, <1>5 DEF IsPaintTimes
<1>7. PaintTimes = CHOOSE g : IsPaintTimes(g)
  BY DEF PaintTimes, IsPaintTimes, Later
<1>8. IsPaintTimes(PaintTimes)
  BY <1>6, <1>7
<1>9. \A g : IsPaintTimes(g) => g = [n \in D |-> g[n]]
  BY DEF IsPaintTimes
<1>10. PaintTimes \in [D -> SUBSET Nat]
  <2> DEFINE U == {n \in Nat : n \in D => PaintTimes[n] \in SUBSET Nat}
  <2>1. \A k \in D : PaintTimes[k] = body(PaintTimes, k)
    BY <1>8 DEF IsPaintTimes
  <2>2. 0 \in U
    OBVIOUS
  <2>3. ASSUME NEW n \in U PROVE n + 1 \in U
    <3>1. CASE n + 1 \in D /\ n # 0
      <4>1. n \in D /\ PaintTimes[n] \in SUBSET Nat /\ n \in Nat
        BY <1>0, <3>1
      <4>2. PaintTimes[n + 1] = Later(PaintTimes[n])
        BY <2>1, <3>1, <4>1
      <4> QED  BY LaterType, <4>1, <4>2
    <3>2. CASE n + 1 \in D /\ n = 0
      BY <1>0, <2>1, <3>2
    <3> QED  BY <3>1, <3>2
  <2>4. U = Nat
    <3> HIDE DEF U
    <3>1. U \in SUBSET Nat
      BY DEF U
    <3> QED  BY <2>2, <2>3, <3>1, SetInduction
  <2>5. \A n \in D : PaintTimes[n] \in SUBSET Nat
    BY <1>0, <2>4
  <2>6. PaintTimes = [n \in D |-> PaintTimes[n]]
    BY <1>8, <1>9
  <2> QED  BY <2>5, <2>6
<1> QED  BY <1>8, <1>10

\* Those of the next painting.
LEMMA PaintTimesStep ==
    ASSUME NEW n \in 1..(MaxPaints - 1)
    PROVE  PaintTimes[n + 1] = Later(PaintTimes[n])
<1>1. \A k \in 1..MaxPaints :
         PaintTimes[k] = IF k = 1 THEN {FirstPaint} ELSE Later(PaintTimes[k - 1])
  BY PaintTimesDefined DEF IsPaintTimes
<1>2. n + 1 \in 1..MaxPaints /\ n + 1 # 1 /\ n + 1 - 1 = n
  BY GlassAssumption
<1> DEFINE m == n + 1
<1>3. m \in 1..MaxPaints /\ m # 1 /\ m - 1 = n
  BY <1>2
<1> HIDE DEF m
<1>4. PaintTimes[m] = Later(PaintTimes[m - 1])
  BY <1>1, <1>3
<1> QED  BY <1>3, <1>4 DEF m

\* A time of one painting is one of those that follow.
LEMMA PaintTimesGrow ==
    ASSUME NEW n \in 1..MaxPaints, NEW t \in PaintTimes[n]
    PROVE  t \in PaintTimes[MaxPaints] /\ t \in Nat
<1>0. MaxPaints \in Nat \ {0} /\ PaintTimes \in [1..MaxPaints -> SUBSET Nat]
  BY GlassAssumption, PaintTimesDefined
<1> DEFINE T == {d \in Nat : n + d <= MaxPaints => t \in PaintTimes[n + d]}
<1>1. 0 \in T
  BY <1>0
<1>2. ASSUME NEW d \in T PROVE d + 1 \in T
  <2>1. d \in Nat /\ n \in Nat /\ n >= 1
    BY <1>0
  <2>2. SUFFICES ASSUME n + (d + 1) <= MaxPaints PROVE t \in PaintTimes[n + (d + 1)]
    BY <2>1
  <2>3. n + d <= MaxPaints /\ n + d \in 1..(MaxPaints - 1) /\ n + (d + 1) = (n + d) + 1
    BY <1>0, <2>1, <2>2
  <2>4. PaintTimes[n + (d + 1)] = Later(PaintTimes[n + d])
    BY <2>3, PaintTimesStep
  <2>5. PaintTimes[n + d] \subseteq PaintTimes[n + (d + 1)]
    BY <2>4 DEF Later
  <2> QED  BY <2>3, <2>5
<1>3. T = Nat
  <2> HIDE DEF T
  <2>1. T \in SUBSET Nat
    BY DEF T
  <2> QED  BY <1>1, <1>2, <2>1, SetInduction
<1>4. MaxPaints - n \in Nat /\ n + (MaxPaints - n) = MaxPaints
  BY <1>0
<1>5. t \in PaintTimes[MaxPaints]
  BY <1>3, <1>4
<1> QED  BY <1>0, <1>5

\* A painting after another.
LEMMA PaintTimesNext ==
    ASSUME NEW n \in 1..(MaxPaints - 1), NEW t \in PaintTimes[n], NEW gap \in Gaps
    PROVE  t + gap \in PaintTimes[n + 1]
BY PaintTimesStep DEF Later

\* A painting that is not half of what the numbers count to away.
IsRecent(ts, t) == 2 * Distance(t, ts) < WrapMs

\* The picture a frame of scene s is.
PictureIn(s, f) == [scene |-> s, old |-> f.old % WrapMs, new |-> f.new % WrapMs,
                    mix |-> f.mix, misread |-> f.misread]

\* A frame of what the display may have shown in scene s, a short while ago.
FrameOK(s, f) ==
    /\ IsRecent(f.ts, f.old) /\ IsRecent(f.ts, f.new)
    /\ PictureIn(s, f) \in Pictures

PaintsOK ==
    /\ \A i \in 1..Len(paints) : paints[i] \in PaintTimes[i]
    /\ \A i \in 2..Len(paints) : \E gap \in Gaps : paints[i] = paints[i - 1] + gap

\* What was captured is of what was painted, and no more than was wanted.
CaptureOK ==
    /\ frame \in Frame => FrameOK(scene, frame)
    /\ worker \in {"check", "store"} => frame \in Frame
    /\ \A i \in 1..Len(captured) : FrameOK(scene, captured[i])
    /\ worker \in {"open", "read", "check", "store"} => Len(captured) < FramesWanted

GlassInv == TypeOK /\ PaintsOK /\ CaptureOK

\* The last painting and the one before.
LEMMA LastTwo ==
    ASSUME TypeOK, PaintsOK
    PROVE  /\ LastPainted \in PaintTimes[MaxPaints] /\ Before \in PaintTimes[MaxPaints]
           /\ LastPainted \in Nat /\ Before \in Nat
           /\ \E gap \in {0} \cup Gaps : LastPainted = Before + gap
<1> DEFINE n == Len(paints)
<1>1. n \in 1..MaxPaints /\ MaxPaints \in Nat
  BY GlassAssumption DEF TypeOK
<1>2. Max({1, n - 1}) = IF n = 1 THEN 1 ELSE n - 1
  <2>1. n \in Int /\ n - 1 \in Int /\ n >= 1
    BY <1>1
  <2> HIDE DEF n
  <2> DEFINE m == IF n = 1 THEN 1 ELSE n - 1
  <2>2. m \in {1, n - 1} /\ \A k \in {1, n - 1} : m >= k
    BY <2>1
  <2>3. \A k \in {1, n - 1} : (\A l \in {1, n - 1} : k >= l) => k = m
    <3> SUFFICES ASSUME NEW k \in {1, n - 1}, \A l \in {1, n - 1} : k >= l PROVE k = m
      OBVIOUS
    <3>1. k >= m /\ m >= k
      BY <2>2
    <3>2. k \in Int /\ m \in Int
      BY <2>1
    <3> HIDE DEF m
    <3> QED  BY <3>1, <3>2
  <2> HIDE DEF m
  <2>4. Max({1, n - 1}) = m
    BY <2>2, <2>3 DEF Max
  <2> QED  BY <2>4 DEF m
<1>3. LastPainted = paints[n] /\ paints[n] \in PaintTimes[n]
  BY <1>1 DEF LastPainted, PaintsOK
<1>4. CASE n = 1
  <2>1. Before = paints[n]
    BY <1>2, <1>4 DEF Before
  <2>2. paints[n] \in Nat
    BY <1>1, <1>3, PaintTimesGrow
  <2>3. paints[n] = paints[n] + 0 /\ 0 \in {0} \cup Gaps
    BY <2>2
  <2> QED  BY <1>1, <1>3, <2>1, <2>3, PaintTimesGrow
<1>5. CASE n # 1
  <2>1. Before = paints[n - 1] /\ n - 1 \in 1..MaxPaints /\ n - 1 \in 1..n /\ n \in 2..n
    <3>1. Before = paints[n - 1]
      BY <1>2, <1>5 DEF Before
    <3> HIDE DEF n
    <3>2. n - 1 \in 1..MaxPaints /\ n - 1 \in 1..n /\ n \in 2..n
      BY <1>1, <1>5
    <3> QED  BY <3>1, <3>2
  <2>2. paints[n - 1] \in PaintTimes[n - 1]
    BY <2>1 DEF PaintsOK
  <2>3. PICK gap \in Gaps : paints[n] = paints[n - 1] + gap
    BY <2>1 DEF PaintsOK
  <2>4. gap \in {0} \cup Gaps
    OBVIOUS
  <2>5. LastPainted = Before + gap
    BY <1>3, <2>1, <2>3
  <2>6. paints[n] \in PaintTimes[MaxPaints] /\ paints[n] \in Nat
    BY <1>1, <1>3, PaintTimesGrow
  <2>7. paints[n - 1] \in PaintTimes[MaxPaints] /\ paints[n - 1] \in Nat
    BY <2>1, <2>2, PaintTimesGrow
  <2> QED  BY <1>3, <2>1, <2>4, <2>5, <2>6, <2>7
<1> QED  BY <1>4, <1>5

\* Numbers count to more than none.
LEMMA WrapType == WrapMs \in Nat \ {0}
BY DataBitsAssumption DEF WrapMs

\* The frame that arrives is of what the display may have shown.
LEMMA ArrivingOK ==
    ASSUME TypeOK, PaintsOK, NEW take \in Takes
    PROVE  LET f == [ts |-> LastPainted + take.lag, new |-> LastPainted,
                     old |-> IF take.torn THEN Before ELSE LastPainted,
                     mix |-> take.mix, misread |-> take.misread, state |-> take.state]
           IN  f \in Frame /\ FrameOK(scene, f)
<1> DEFINE f == [ts |-> LastPainted + take.lag, new |-> LastPainted,
                 old |-> IF take.torn THEN Before ELSE LastPainted,
                 mix |-> take.mix, misread |-> take.misread, state |-> take.state]
<1>1. /\ LastPainted \in PaintTimes[MaxPaints] /\ Before \in PaintTimes[MaxPaints]
      /\ LastPainted \in Nat /\ Before \in Nat
      /\ \E gap \in {0} \cup Gaps : LastPainted = Before + gap
  BY LastTwo
<1>2. take.lag \in Int /\ take.torn \in BOOLEAN
  BY GlassAssumption
<1>3. \E gap \in {0} \cup Gaps : f.new = f.old + gap
  <2>1. CASE take.torn
    BY <1>1, <2>1
  <2>2. CASE ~take.torn
    <3>1. LastPainted = LastPainted + 0 /\ 0 \in {0} \cup Gaps
      BY <1>1
    <3> QED  BY <2>2, <3>1
  <2> QED  BY <2>1, <2>2
<1>4. PICK gap \in {0} \cup Gaps : f.new = f.old + gap
  BY <1>3
<1>5. /\ f.ts = LastPainted + take.lag /\ f.new = LastPainted
      /\ f.old \in PaintTimes[MaxPaints] /\ f.old \in Nat
      /\ f.mix = take.mix /\ f.misread = take.misread
  BY <1>1
<1>6. gap \in Nat
  BY GlassAssumption
<1>f. f \in Frame
  <2>1. LastPainted + take.lag \in Int
    BY <1>1, <1>2
  <2>2. take.mix \in 0..4 /\ take.misread \in 0..TotalBars
          /\ take.state \in {"ok", "flagged", "broken"}
    BY GlassAssumption
  <2> QED  BY <1>1, <2>1, <2>2 DEF Frame
<1> HIDE DEF f
<1>7. f.ts \in Int /\ f.new \in Nat /\ f.ts = f.new + take.lag /\ f.ts = f.old + (take.lag + gap)
  BY <1>1, <1>2, <1>4, <1>5, <1>6
<1>8. IsRecent(f.ts, f.old) /\ IsRecent(f.ts, f.new)
  <2>0. 0 \in {0} \cup Gaps
    OBVIOUS
  <2>1. 2 * Distance(take.lag + gap, 0) < WrapMs /\ 2 * Distance(take.lag + 0, 0) < WrapMs
    BY <2>0, IntervalsAssumption
  <2>2. Distance(f.old, f.ts) = Distance(take.lag + gap, 0)
    BY <1>2, <1>5, <1>6, <1>7 DEF Distance
  <2>3. Distance(f.new, f.ts) = Distance(take.lag + 0, 0)
    BY <1>2, <1>6, <1>7 DEF Distance
  <2> QED  BY <2>1, <2>2, <2>3 DEF IsRecent
<1>9. PictureIn(scene, f) \in Pictures
  <2>1. f.new % WrapMs = (f.old + gap) % WrapMs
    BY <1>4
  <2>2. PictureIn(scene, f) = [scene |-> scene, old |-> f.old % WrapMs, new |-> (f.old + gap) % WrapMs,
                      mix |-> take.mix, misread |-> take.misread]
    BY <1>5, <2>1 DEF PictureIn
  <2>3. scene \in DOMAIN Scenes
    BY DEF TypeOK
  <2>4. \E s \in DOMAIN Scenes, t \in PaintTimes[MaxPaints], g \in {0} \cup Gaps, k \in Takes :
           PictureIn(scene, f) = [scene |-> s, old |-> t % WrapMs, new |-> (t + g) % WrapMs,
                         mix |-> k.mix, misread |-> k.misread]
    BY <1>5, <2>2, <2>3
  <2> QED  BY <2>4 DEF Pictures
<1> QED  BY <1>f, <1>8, <1>9 DEF FrameOK, f

\* One of three times is the nearest, the earliest of equals.
LEMMA RecoveredType ==
    ASSUME NEW encoded \in Int, NEW reference \in Int, NEW period \in Nat \ {0}
    PROVE  Recovered(encoded, reference, period) \in Int
<1> DEFINE base == (reference \div period) * period
           C == {base + encoded - period, base + encoded, base + encoded + period}
           time == [c \in C |-> c]
           D == {Distance(c, reference) : c \in C}
<1>1. base \in Int
  <2>1. reference \div period \in Int
    OBVIOUS
  <2> QED  BY <2>1
<1>2. C \in SUBSET Int /\ C # {}
  <2> HIDE DEF base
  <2> QED  BY <1>1
<1>r. Recovered(encoded, reference, period) = NearestOf(C, time, reference)
  BY DEF Recovered
<1> HIDE DEF C
<1>3. time \in [C -> Int] /\ \A c \in C : time[c] = c
  BY <1>2
<1>4. \A c \in C : Distance(c, reference) \in Nat
  BY <1>2 DEF Distance
<1>n. D \in SUBSET Nat /\ D # {}
  BY <1>2, <1>4
<1>5. PICK d \in D : \A k \in D : d <= k
  <2> HIDE DEF D
  <2> QED  BY <1>n, LeastNumber
<1>6. PICK c \in C : Distance(c, reference) = d
  BY <1>5
<1>7. \A k \in C : d <= Distance(k, reference)
  BY <1>5
<1> HIDE DEF D
<1>8. \E p \in C : Distance(p, reference) = d /\
                   \A k \in C : Distance(k, reference) = d => p <= k
  <2>1. CASE reference - d \in C
    <3>1. d \in Nat /\ \A k \in C : k \in Int
      BY <1>2, <1>4, <1>6
    <3>2. Distance(reference - d, reference) = d
      BY <3>1 DEF Distance
    <3>3. \A k \in C : Distance(k, reference) = d => reference - d <= k
      BY <3>1 DEF Distance
    <3> QED  BY <2>1, <3>2, <3>3
  <2>2. CASE reference - d \notin C
    <3>1. d \in Nat /\ \A k \in C : k \in Int
      BY <1>2, <1>4, <1>6
    <3>2. \A k \in C : Distance(k, reference) = d => k = reference + d
      <4> SUFFICES ASSUME NEW k \in C, Distance(k, reference) = d PROVE k = reference + d
        OBVIOUS
      <4>1. k # reference - d
        BY <2>2
      <4> QED  BY <3>1, <4>1 DEF Distance
    <3>3. c = reference + d
      BY <1>6, <3>2
    <3>4. \A k \in C : Distance(k, reference) = d => c <= k
      <4> SUFFICES ASSUME NEW k \in C, Distance(k, reference) = d PROVE c <= k
        OBVIOUS
      <4>1. k = c /\ k \in Int
        BY <3>1, <3>2, <3>3
      <4> QED  BY <4>1
    <3> QED  BY <1>6, <3>4
  <2> QED  BY <2>1, <2>2
<1>9. PICK p \in C : Distance(p, reference) = d /\
                   \A k \in C : Distance(k, reference) = d => p <= k
  BY <1>8
<1>10. ASSUME NEW k \in C, k # p
       PROVE  \/ Distance(time[p], reference) < Distance(time[k], reference)
              \/ Distance(time[p], reference) = Distance(time[k], reference) /\ p < k
  <2>1. time[p] = p /\ time[k] = k /\ Distance(p, reference) = d
          /\ d <= Distance(k, reference) /\ d \in Nat /\ Distance(k, reference) \in Nat
          /\ p \in Int /\ k \in Int
    BY <1>2, <1>3, <1>4, <1>7, <1>9
  <2>2. CASE Distance(k, reference) = d
    <3>1. p <= k
      BY <1>9, <2>2
    <3> QED  BY <1>10, <2>1, <2>2, <3>1
  <2>3. CASE Distance(k, reference) # d
    BY <2>1, <2>3
  <2> QED  BY <2>2, <2>3
<1>11. NearestOf(C, time, reference) = p
  <2> HIDE DEF time
  <2> QED  BY <1>2, <1>3, <1>10, NearestOfIs
<1> QED  BY <1>2, <1>9, <1>11, <1>r

-----------------------------------------------------------------------------
(* What every step keeps.                                                  *)

LEMMA GlassStarts == GlassInit => GlassInv
<1> SUFFICES ASSUME GlassInit PROVE GlassInv
  OBVIOUS
<1>0. /\ FirstPaint \in Nat /\ MaxPaints \in Nat \ {0}
      /\ FramesWanted \in Nat \ {0}
  BY GlassAssumption
<1>1. TypeOK
  <2>1. paints \in Seq(Nat) /\ Len(paints) = 1 /\ 1 \in 1..MaxPaints
    BY <1>0 DEF GlassInit
  <2>2. captured \in Seq(Frame) /\ Len(captured) = 0 /\ 0 <= FramesWanted
    BY <1>0 DEF GlassInit
  <2>3. judged \in 0..Len(captured) /\ latencies \in Seq([of : 1..judged, latency : Int])
    BY <2>2 DEF GlassInit
  <2>4. late \in BOOLEAN /\ frame \in Frame \cup {NoFrame}
    BY <1>0 DEF GlassInit
  <2> QED  BY <2>1, <2>2, <2>3, <2>4 DEF GlassInit, TypeOK
<1>2. PaintsOK
  <2>1. paints[1] \in PaintTimes[1]
    BY <1>0, PaintTimesDefined DEF IsPaintTimes, GlassInit
  <2> QED  BY <2>1 DEF PaintsOK, GlassInit
<1>3. CaptureOK
  <2>1. frame \notin Frame
    BY DEF GlassInit, NoFrame, Frame
  <2> QED  BY <1>0, <2>1 DEF CaptureOK, GlassInit
<1> QED  BY <1>1, <1>2, <1>3 DEF GlassInv

\* The steps of the thread touch nothing of the main thread but done.
LEMMA WorkerKeeps ==
    ASSUME GlassInv, Worker
    PROVE  GlassInv'
<1>t. /\ TypeOK /\ PaintsOK /\ CaptureOK
  BY DEF GlassInv
<1>0. /\ scene' = scene /\ main' = main /\ paints' = paints /\ gaveUp' = gaveUp
      /\ judged' = judged /\ latencies' = latencies /\ outcome' = outcome
      /\ worker' \in {"open", "read", "check", "store", "close", "finally", "dead"}
  BY DEF Worker, Open, Arrive, ReadThrows, Stop, Skip, Keep, Store, Close, Finally, WorkerTo,
         measureVars
<1>1. PaintsOK'
  BY <1>0, <1>t DEF PaintsOK
<1>2. CASE Arrive
  <2>1. PICK take \in Takes :
            frame' = [ts |-> LastPainted + take.lag, new |-> LastPainted,
                      old |-> IF take.torn THEN Before ELSE LastPainted,
                      mix |-> take.mix, misread |-> take.misread, state |-> take.state]
    BY <1>2 DEF Arrive
  <2>2. UNCHANGED <<cause, late, done, error, captured>> /\ worker = "read"
    BY <1>2 DEF Arrive
  <2>3. frame' \in Frame /\ FrameOK(scene, frame')
    BY <1>t, <2>1, ArrivingOK
  <2>4. TypeOK'
    BY <1>t, <1>0, <2>2, <2>3 DEF TypeOK
  <2>7. CaptureOK'
    BY <1>0, <1>t, <2>2, <2>3 DEF CaptureOK
  <2> QED  BY <1>1, <2>4, <2>7 DEF GlassInv
<1>3. CASE Store
  <2>1. /\ worker = "store" /\ captured' = Append(captured, frame) /\ frame' = NoFrame
        /\ worker' = IF Len(captured') >= FramesWanted THEN "close" ELSE "read"
        /\ UNCHANGED <<cause, late, done, error>>
    BY <1>3 DEF Store, WorkerTo
  <2>2. /\ frame \in Frame /\ FrameOK(scene, frame) /\ captured \in Seq(Frame)
        /\ Len(captured) < FramesWanted /\ FramesWanted \in Nat
    BY <1>t, <2>1, GlassAssumption DEF CaptureOK, TypeOK
  <2>3. /\ captured' \in Seq(Frame) /\ Len(captured') = Len(captured) + 1
        /\ \A i \in 1..Len(captured) : captured'[i] = captured[i]
        /\ captured'[Len(captured) + 1] = frame
        /\ Len(captured) \in Nat
    BY <2>1, <2>2
  <2>4. TypeOK'
    <3>1. judged' \in 0..Len(captured')
      BY <1>0, <1>t, <2>3 DEF TypeOK
    <3>2. Len(captured') <= FramesWanted
      BY <2>2, <2>3
    <3>3. latencies' \in Seq([of : 1..judged', latency : Int])
      BY <1>0, <1>t DEF TypeOK
    <3> QED  BY <1>0, <1>t, <2>1, <2>3, <3>1, <3>2, <3>3 DEF TypeOK
  <2>5. CaptureOK'
    <3>1. NoFrame \notin Frame
      BY DEF NoFrame, Frame
    <3>2. \A i \in 1..Len(captured') : FrameOK(scene, captured'[i])
      BY <1>t, <2>2, <2>3 DEF CaptureOK
    <3>3. worker' \in {"open", "read", "check", "store"} => Len(captured') < FramesWanted
      BY <2>1, <2>2, <2>3
    <3>4. worker' \notin {"check", "store"}
      BY <2>1
    <3> QED  BY <1>0, <2>1, <3>1, <3>2, <3>3, <3>4 DEF CaptureOK
  <2> QED  BY <1>1, <2>4, <2>5 DEF GlassInv
<1>4. CASE Open \/ ReadThrows \/ Stop \/ Skip \/ Close \/ Finally
  <2>1. /\ late' = late /\ captured' = captured
        /\ frame' \in {frame, NoFrame} /\ worker' \notin {"check", "store"}
        /\ worker' = "read" => worker \in {"open", "check"}
        /\ worker' # "open"
    BY <1>4 DEF Open, ReadThrows, Stop, Skip, Close, Finally, WorkerTo
  <2>2. cause' \in BOOLEAN /\ done' \in BOOLEAN /\ error' \in BOOLEAN
    BY <1>4, <1>t DEF TypeOK, Open, ReadThrows, Stop, Skip, Close, Finally
  <2>3. TypeOK'
    BY <1>0, <1>t, <2>1, <2>2 DEF TypeOK
  <2>4. CaptureOK'
    <3>1. NoFrame \notin Frame
      BY DEF NoFrame, Frame
    <3> QED  BY <1>0, <1>t, <2>1, <3>1 DEF CaptureOK
  <2> QED  BY <1>1, <2>3, <2>4 DEF GlassInv
<1>5. CASE Keep
  <2>1. worker = "check" /\ worker' = "store" /\ UNCHANGED <<cause, late, frame, done, error, captured>>
    BY <1>5 DEF Keep, WorkerTo
  <2>2. TypeOK' /\ CaptureOK'
    BY <1>0, <1>t, <2>1 DEF TypeOK, CaptureOK
  <2> QED  BY <1>1, <2>2 DEF GlassInv
<1> QED  BY <1>2, <1>3, <1>4, <1>5 DEF Worker

\* The window adds paintings.
LEMMA PaintKeeps ==
    ASSUME GlassInv, Paint
    PROVE  GlassInv'
<1>t. /\ TypeOK /\ PaintsOK /\ CaptureOK
  BY DEF GlassInv
<1>1. /\ Len(paints) < MaxPaints
      /\ UNCHANGED <<scene, main, done, gaveUp, worker, cause, late, frame, captured, error,
                     judged, latencies, outcome>>
  BY DEF Paint, workerVars, measureVars
<1>2. PICK gap \in Gaps : paints' = Append(paints, LastPainted + gap)
  BY DEF Paint
<1>n. gap \in Nat /\ LastPainted \in Nat /\ LastPainted + gap \in Nat
  <2>1. gap \in Nat
    BY GlassAssumption
  <2>2. LastPainted \in Nat
    BY <1>t, LastTwo
  <2> QED  BY <2>1, <2>2
<1>3. /\ paints \in Seq(Nat) /\ Len(paints) \in Nat /\ Len(paints) >= 1
      /\ MaxPaints \in Nat /\ LastPainted = paints[Len(paints)]
  BY <1>t, GlassAssumption DEF TypeOK, LastPainted
<1>4. /\ paints' \in Seq(Nat) /\ Len(paints') = Len(paints) + 1
      /\ \A i \in 1..Len(paints) : paints'[i] = paints[i]
      /\ paints'[Len(paints) + 1] = LastPainted + gap
  BY <1>2, <1>3, <1>n
<1>5. TypeOK'
  <2>1. Len(paints') \in 1..MaxPaints
    BY <1>1, <1>3, <1>4
  <2> QED  BY <1>t, <1>1, <1>4, <2>1 DEF TypeOK
<1>6. PaintsOK'
  <2>1. paints[Len(paints)] \in PaintTimes[Len(paints)]
    BY <1>t, <1>3 DEF PaintsOK
  <2>2. Len(paints) \in 1..(MaxPaints - 1)
    BY <1>1, <1>3
  <2> DEFINE m == Len(paints)
  <2>3. m \in 1..(MaxPaints - 1) /\ LastPainted \in PaintTimes[m]
    BY <1>3, <2>1, <2>2
  <2>4. LastPainted + gap \in PaintTimes[m + 1]
    <3> DEFINE t == LastPainted
    <3>1. PICK l : l = m
      OBVIOUS
    <3>2. PICK u : u = t
      OBVIOUS
    <3>3. l \in 1..(MaxPaints - 1) /\ u \in PaintTimes[l]
      BY <2>3, <3>1, <3>2
    <3>4. u + gap \in PaintTimes[l + 1]
      BY <3>3, PaintTimesNext
    <3> QED  BY <3>1, <3>2, <3>4
  <2>5. ASSUME NEW i \in 1..Len(paints') PROVE paints'[i] \in PaintTimes[i]
    <3>1. CASE i \in 1..m
      <4>1. paints'[i] = paints[i]
        BY <1>4, <3>1
      <4> QED  BY <1>t, <3>1, <4>1 DEF PaintsOK
    <3>2. CASE i \notin 1..m
      <4>1. i = m + 1
        BY <1>3, <1>4, <3>2
      <4> QED  BY <1>4, <2>4, <4>1
    <3> QED  BY <3>1, <3>2
  <2>6. ASSUME NEW i \in 2..Len(paints') PROVE \E g \in Gaps : paints'[i] = paints'[i - 1] + g
    <3>1. CASE i \in 2..m
      <4>1. paints'[i] = paints[i] /\ paints'[i - 1] = paints[i - 1]
        <5>1. i \in 1..m /\ i - 1 \in 1..m
          BY <1>3, <3>1
        <5> QED  BY <1>4, <5>1
      <4>2. \E g \in Gaps : paints[i] = paints[i - 1] + g
        BY <1>t, <3>1 DEF PaintsOK
      <4> QED  BY <4>1, <4>2
    <3>2. CASE i \notin 2..m
      <4>1. i = m + 1
        BY <1>3, <1>4, <3>2
      <4>2. i - 1 = m /\ m \in 1..m
        BY <1>3, <4>1
      <4>3. paints'[i - 1] = LastPainted /\ paints'[i] = LastPainted + gap
        BY <1>3, <1>4, <4>1, <4>2
      <4> QED  BY <4>3
    <3> QED  BY <3>1, <3>2
  <2> QED  BY <2>5, <2>6 DEF PaintsOK
<1>7. CaptureOK'
  BY <1>t, <1>1 DEF CaptureOK
<1> QED  BY <1>5, <1>6, <1>7 DEF GlassInv

\* What is read in a frame is what the decoder makes of its picture.
LEMMA EncodedIs ==
    ASSUME NEW f, FrameOK(scene, f)
    PROVE  Encoded(f) = DecodeColumns(Columns(PictureIn(scene, f)))
<1> DEFINE p == PictureIn(scene, f)
           here == [picture |-> p, number |-> DecodeColumns(Columns(p))]
<1>1. p \in Pictures /\ Picture(f) = p
  BY DEF FrameOK, Picture, PictureIn
<1>2. here \in Reading /\ here.picture = p
  BY <1>1 DEF Reading
<1>3. ASSUME NEW r \in Reading, r.picture = p PROVE r.number = here.number
  BY <1>3 DEF Reading
<1> HIDE DEF p, here
<1>4. (CHOOSE r \in Reading : r.picture = p).number = here.number
  BY <1>2, <1>3
<1> QED  BY <1>1, <1>4 DEF Encoded, here, p

\* A step of measure(): what it makes of the next frame.
LEMMA MeasureIs ==
    ASSUME GlassInv, Measure
    PROVE  LET f == captured[judged + 1]
               number == Number(f)
               latency == f.ts - ReconstructMs(number, f.ts)
           IN  /\ judged + 1 \in 1..Len(captured) /\ f \in Frame /\ FrameOK(scene, f)
               /\ UNCHANGED <<scene, paints, done, gaveUp, worker, cause, late, frame,
                              captured, error>>
               /\ \/ /\ number = Crashed \/ f.state = "broken"
                     /\ UNCHANGED <<judged, latencies>>
                     /\ main' = "exited" /\ outcome' = "crashed"
                  \/ number = Refused /\ judged' = judged + 1
                        /\ UNCHANGED <<main, outcome, latencies>>
                  \/ /\ number \in Nat /\ latency \in Int /\ judged' = judged + 1
                     /\ latencies' = IF -50 < latency /\ latency < 1000
                                     THEN Append(latencies, [of |-> judged + 1, latency |-> latency])
                                     ELSE latencies
                     /\ UNCHANGED <<main, outcome>>
<1> DEFINE f == captured[judged + 1]
           number == Number(f)
           latency == f.ts - ReconstructMs(number, f.ts)
<1>1. judged + 1 \in 1..Len(captured) /\ captured \in Seq(Frame)
  BY DEF GlassInv, TypeOK, Measure
<1>2. f \in Frame
  BY <1>1
<1>3. FrameOK(scene, f)
  BY <1>1 DEF GlassInv, CaptureOK
<1>4. f.ts \in Int
  BY <1>2 DEF Frame
<1>5. ASSUME number \in Nat PROVE latency \in Int
  <2> HIDE DEF number, f
  <2>1. PICK n \in Nat, ts \in Int : n = number /\ ts = f.ts
    BY <1>4, <1>5
  <2>2. Recovered(n, ts, WrapMs) \in Int
    BY WrapType, RecoveredType
  <2> QED  BY <2>1, <2>2 DEF ReconstructMs
<1>6. UNCHANGED <<scene, paints, done, gaveUp, worker, cause, late, frame, captured, error>>
  BY DEF Measure, workerVars
<1>7. \/ /\ number = Crashed \/ f.state = "broken"
         /\ Exit("crashed") /\ UNCHANGED <<judged, latencies>>
      \/ number = Refused /\ judged' = judged + 1 /\ UNCHANGED <<main, outcome, latencies>>
      \/ number \in Nat /\ Judged(latency)
  <2> HIDE DEF number
  <2>1. PICK k \in {number} :
          \/ /\ k = Crashed \/ captured[judged + 1].state = "broken"
             /\ Exit("crashed") /\ UNCHANGED <<judged, latencies>>
          \/ k = Refused /\ judged' = judged + 1 /\ UNCHANGED <<main, outcome, latencies>>
          \/ k \in Nat /\ LET ts == captured[judged + 1].ts
                           IN  Judged(ts - ReconstructMs(k, ts))
    BY DEF Measure, number
  <2> QED  BY <2>1
<1> HIDE DEF number, f
<1> QED  BY <1>1, <1>2, <1>3, <1>5, <1>6, <1>7 DEF Exit, Judged, f, number

\* The main thread measures what was captured.
LEMMA MainKeeps ==
    ASSUME GlassInv, Main \/ CloseWindow \/ Interrupt
    PROVE  GlassInv'
<1>t. /\ TypeOK /\ PaintsOK /\ CaptureOK
  BY DEF GlassInv
<1>1. CASE Measure
  <2> DEFINE f == captured[judged + 1]
             number == Number(f)
             latency == f.ts - ReconstructMs(number, f.ts)
  <2>1. /\ judged + 1 \in 1..Len(captured)
        /\ UNCHANGED <<scene, paints, done, gaveUp, worker, cause, late, frame,
                       captured, error>>
        /\ \/ UNCHANGED <<judged, latencies>> /\ main' = "exited" /\ outcome' = "crashed"
           \/ judged' = judged + 1 /\ UNCHANGED <<main, outcome, latencies>>
           \/ /\ latency \in Int /\ judged' = judged + 1
              /\ latencies' \in {latencies, Append(latencies, [of |-> judged + 1, latency |-> latency])}
              /\ UNCHANGED <<main, outcome>>
    <3> HIDE DEF f, number, latency
    <3> QED  BY <1>1, MeasureIs DEF f, number, latency
  <2> HIDE DEF latency
  <2>2. judged \in Nat /\ Len(captured) \in Nat /\ latencies \in Seq([of : 1..judged, latency : Int])
    BY <1>t DEF TypeOK
  <2>3. judged' \in 0..Len(captured)
    BY <2>1, <2>2
  <2>4. latencies \in Seq([of : 1..(judged + 1), latency : Int])
    <3>1. 1..judged \subseteq 1..(judged + 1)
      BY <2>2
    <3>2. [of : 1..judged, latency : Int] \subseteq [of : 1..(judged + 1), latency : Int]
      BY <3>1
    <3> DEFINE S == [of : 1..judged, latency : Int]
               U == [of : 1..(judged + 1), latency : Int]
    <3>3. latencies \in Seq(S) /\ S \subseteq U
      BY <2>2, <3>2
    <3> HIDE DEF S, U
    <3>4. latencies \in Seq(U)
      BY <3>3
    <3> QED  BY <3>4 DEF U
  <2>5. ASSUME latency \in Int
        PROVE  Append(latencies, [of |-> judged + 1, latency |-> latency])
                    \in Seq([of : 1..(judged + 1), latency : Int])
    <3>1. [of |-> judged + 1, latency |-> latency] \in [of : 1..(judged + 1), latency : Int]
      BY <2>2, <2>5
    <3> QED  BY <2>4, <3>1
  <2>6. latencies' \in Seq([of : 1..judged', latency : Int])
    BY <2>1, <2>2, <2>4, <2>5
  <2>7. TypeOK'
    BY SMTT(30), <1>t, <2>1, <2>3, <2>6 DEF TypeOK
  <2>8. PaintsOK' /\ CaptureOK'
    BY <1>t, <2>1 DEF PaintsOK, CaptureOK
  <2> QED  BY <2>7, <2>8 DEF GlassInv
<1>2. CASE Tick \/ Join \/ Judge \/ JudgeFrames \/ Report \/ CloseWindow \/ Interrupt
  <2>1. /\ UNCHANGED <<scene, paints, worker, cause, late, frame, captured, error,
                       judged, latencies>>
        /\ main' \in {"loop", "join", "judge", "count", "measure", "exited"}
        /\ outcome' \in {"none", "result", "error", "empty", "unreadable", "crashed"}
        /\ done' \in BOOLEAN /\ gaveUp' \in BOOLEAN
    BY <1>2, <1>t DEF TypeOK, Tick, Interrupt, LeaveLoop, Join, Judge, JudgeFrames,
                      Report, CloseWindow, Exit,
                      workerVars, measureVars
  <2>2. TypeOK'
    BY <1>t, <2>1 DEF TypeOK
  <2>3. PaintsOK' /\ CaptureOK'
    BY <1>t, <2>1 DEF PaintsOK, CaptureOK
  <2> QED  BY <2>2, <2>3 DEF GlassInv
<1> QED  BY <1>1, <1>2 DEF Main

LEMMA GlassKeeps == GlassInv /\ [GlassNext]_glassVars => GlassInv'
<1> SUFFICES ASSUME GlassInv, [GlassNext]_glassVars PROVE GlassInv'
  OBVIOUS
<1>1. CASE UNCHANGED glassVars
  BY <1>1 DEF glassVars, GlassInv, TypeOK, PaintsOK, CaptureOK
<1>2. CASE Exited
  BY <1>2 DEF Exited, glassVars, GlassInv, TypeOK, PaintsOK, CaptureOK
<1>3. CASE Expire
  <2>1. /\ late' = TRUE
        /\ UNCHANGED <<scene, main, paints, worker, cause, frame, done, error, captured,
                       gaveUp, measureVars>>
    BY <1>3 DEF Expire
  <2>2. judged' = judged /\ latencies' = latencies /\ outcome' = outcome
    BY <2>1 DEF measureVars
  <2>3. TypeOK'
    BY <2>1, <2>2 DEF GlassInv, TypeOK
  <2>4. PaintsOK' /\ CaptureOK'
    BY <2>1 DEF GlassInv, PaintsOK, CaptureOK
  <2> QED  BY <2>3, <2>4 DEF GlassInv
<1> QED  BY <1>1, <1>2, <1>3, WorkerKeeps, MainKeeps, PaintKeeps DEF GlassNext

\* Of the latency tool: the values of both threads stay in their types; also
\* when the thread stores frames after the join, of a list that is being
\* measured, no more are captured than were wanted and none is measured that
\* was not.
THEOREM GlassTypeCorrect == GlassSpec => []TypeOK
<1>1. GlassInv => TypeOK
  BY DEF GlassInv
<1> QED  BY GlassStarts, GlassKeeps, <1>1, PTL DEF GlassSpec

\* The time of a painting is rebuilt from its number.
LEMMA Rebuilt ==
    ASSUME NEW ts \in Int, NEW t \in Nat, IsRecent(ts, t)
    PROVE  /\ ReconstructMs(t % WrapMs, ts) = t
           /\ t % WrapMs \in Nat
<1>1. 2 * Distance(t, ts) < WrapMs
  BY DEF IsRecent
<1>2. Recovered(t % WrapMs, ts, WrapMs) = t
  BY <1>1, WrapType, ReconstructExact
<1>3. t % WrapMs \in Nat
  BY WrapType
<1> QED  BY <1>2, <1>3 DEF ReconstructMs

\* What is measured stays what it is of, whatever else is captured.
LEMMA MeasuredStays ==
    ASSUME GlassInv, [GlassNext]_glassVars, ~Measure
    PROVE  /\ latencies' = latencies /\ judged' = judged /\ scene' = scene
           /\ \A i \in 1..judged : captured'[i] = captured[i]
<1>1. judged \in 0..Len(captured) /\ captured \in Seq(Frame)
  BY DEF GlassInv, TypeOK
<1>2. CASE Store
  <2>1. captured' = Append(captured, frame) /\ frame \in Frame
    BY <1>2 DEF GlassInv, CaptureOK, Store
  <2>2. \A i \in 1..Len(captured) : captured'[i] = captured[i]
    BY <1>1, <2>1
  <2>3. latencies' = latencies /\ judged' = judged /\ scene' = scene
    BY <1>2 DEF Store, WorkerTo, measureVars
  <2> QED  BY <1>1, <2>2, <2>3
<1>3. CASE ~Store
  <2>1. /\ latencies' = latencies /\ judged' = judged /\ scene' = scene /\ captured' = captured
    BY <1>3 DEF GlassNext, Worker, Main, Open, Expire, Arrive, ReadThrows, Stop, Skip, Keep, Close,
           Finally, WorkerTo, Tick, Interrupt, LeaveLoop, Join, Judge, JudgeFrames, Report,
           CloseWindow, Exit, Paint,
           Exited, workerVars, measureVars, glassVars
  <2> QED  BY <2>1
<1> QED  BY <1>2, <1>3

\* Of a decoder that is never fooled but by the bars at an end: the latency of
\* a frame is the time since a painting it shows, unless such a bar of it was
\* misread, on whatever side of a wrap of the numbers it was taken, however
\* the threads interleave and whatever is captured while others are measured
\* (measure() of vcap-glass-to-glass, reconstruct_ms).
THEOREM LatencyIsTrueOfDecoder ==
    ASSUME NeverFooled
    PROVE  GlassSpec => []LatencyIsTrue
<1>1. GlassInit => LatencyIsTrue
  BY DEF GlassInit, LatencyIsTrue
<1>2. GlassInv /\ LatencyIsTrue /\ [GlassNext]_glassVars => LatencyIsTrue'
  <2> SUFFICES ASSUME GlassInv, LatencyIsTrue, [GlassNext]_glassVars
               PROVE  LatencyIsTrue'
    OBVIOUS
  <2>1. \A i \in DOMAIN latencies : latencies[i].of \in 1..judged
    <3>1. latencies \in Seq([of : 1..judged, latency : Int])
      BY DEF GlassInv, TypeOK
    <3>2. ASSUME NEW i \in DOMAIN latencies PROVE latencies[i].of \in 1..judged
      <4> DEFINE S == [of : 1..judged, latency : Int]
      <4>1. latencies \in Seq(S)
        BY <3>1
      <4> HIDE DEF S
      <4>2. latencies[i] \in S
        BY <4>1
      <4> QED  BY <4>2 DEF S
    <3> QED  BY <3>2
  <2>2. CASE ~Measure
    BY <2>1, <2>2, MeasuredStays DEF LatencyIsTrue
  <2>3. CASE Measure
    <3> DEFINE f == captured[judged + 1]
               number == Number(f)
               latency == f.ts - ReconstructMs(number, f.ts)
               one == [of |-> judged + 1, latency |-> latency]
    <3>1. /\ judged + 1 \in 1..Len(captured) /\ f \in Frame /\ FrameOK(scene, f)
          /\ captured' = captured
          /\ \/ latencies' = latencies
             \/ (number \in Nat /\ latency \in Int /\ latencies' = Append(latencies, one))
      <4>1. judged + 1 \in 1..Len(captured) /\ f \in Frame /\ FrameOK(scene, f)
              /\ captured' = captured
        BY <2>3, MeasureIs
      <4>2. \/ latencies' = latencies
            \/ /\ number \in Nat /\ latency \in Int
               /\ latencies' = IF -50 < latency /\ latency < 1000
                               THEN Append(latencies, one) ELSE latencies
        <5> HIDE DEF f, number, latency
        <5> QED  BY <2>3, MeasureIs DEF f, number, latency
      <4> HIDE DEF f, number, latency, one
      <4>3. \/ latencies' = latencies
            \/ (number \in Nat /\ latency \in Int /\ latencies' = Append(latencies, one))
        BY <4>2
      <4> QED  BY <4>1, <4>3
    <3>2. CASE latencies' = latencies
      BY <3>1, <3>2 DEF LatencyIsTrue
    <3>3. CASE number \in Nat /\ latency \in Int /\ latencies' = Append(latencies, one)
      <4>1. f.ts \in Int /\ f.old \in Nat /\ f.new \in Nat
              /\ IsRecent(f.ts, f.old) /\ IsRecent(f.ts, f.new)
        BY <3>1 DEF FrameOK, Frame
      <4>2. ASSUME f.misread \notin EndBars
            PROVE  number \in {f.old % WrapMs, f.new % WrapMs}
        <5>1. number = DecodeColumns(Columns(PictureIn(scene, f)))
          <6>1. number = Encoded(f)
            BY <3>3 DEF Number, Refused
          <6> QED  BY <3>1, <6>1, EncodedIs
        <5>2. number \in {f.old % WrapMs, f.new % WrapMs, Refused, Crashed}
          <6>1. PictureIn(scene, f) \in Pictures
            BY <3>1 DEF FrameOK
          <6>2. /\ PictureIn(scene, f).old = f.old % WrapMs
                /\ PictureIn(scene, f).new = f.new % WrapMs
                /\ PictureIn(scene, f).misread = f.misread
            BY DEF PictureIn
          <6> QED  BY <4>2, <5>1, <6>1, <6>2 DEF NeverFooled
        <5> QED  BY <3>3, <5>2 DEF Refused, Crashed
      <4>3. f.misread \notin EndBars => latency \in {f.ts - f.old, f.ts - f.new}
        <5> HIDE DEF f, number
        <5>1. PICK ts \in Int, old \in Nat, new \in Nat : ts = f.ts /\ old = f.old /\ new = f.new
          BY <4>1
        <5>2. ReconstructMs(old % WrapMs, ts) = old /\ ReconstructMs(new % WrapMs, ts) = new
          BY <4>1, <5>1, Rebuilt
        <5> QED  BY <4>2, <5>1, <5>2
      <4>4. /\ DOMAIN latencies' = 1..(Len(latencies) + 1)
            /\ \A i \in 1..Len(latencies) : latencies'[i] = latencies[i]
            /\ latencies'[Len(latencies) + 1] = one
            /\ DOMAIN latencies = 1..Len(latencies) /\ Len(latencies) \in Nat
        <5> HIDE DEF one
        <5>1. latencies \in Seq([of : 1..judged, latency : Int])
          BY DEF GlassInv, TypeOK
        <5> QED  BY <3>3, <5>1
      <4>5. captured[one.of] = f /\ one.latency = latency
        OBVIOUS
      <4> HIDE DEF f, latency, one
      <4>6. ASSUME NEW i \in DOMAIN latencies'
            PROVE  LET g == captured[latencies'[i].of]
                   IN  g.misread \notin EndBars => latencies'[i].latency \in {g.ts - g.old, g.ts - g.new}
        <5>1. CASE i \in DOMAIN latencies
          BY <4>4, <5>1 DEF LatencyIsTrue
        <5>2. CASE i \notin DOMAIN latencies
          <6>1. latencies'[i] = one
            BY <4>4, <4>6, <5>2
          <6> QED  BY <4>3, <4>5, <6>1
        <5> QED  BY <5>1, <5>2
      <4> QED  BY <3>1, <4>6 DEF LatencyIsTrue
    <3> QED  BY <3>1, <3>2, <3>3
  <2> QED  BY <2>2, <2>3
<1> QED  BY GlassStarts, GlassKeeps, <1>1, <1>2, PTL DEF GlassSpec

\* Of a decoder that reads every clean picture: a whole frame of one
\* painting, if it is not older than a second, is always counted, whatever
\* the frames around it are (measure(): it is read, its time is rebuilt, and
\* the bounds of what is plausible do not drop it).
THEOREM CleanFramesCountOfDecoder ==
    ASSUME CleanPicturesAreRead
    PROVE  GlassSpec => []CleanFramesCount
<1>1. GlassInit => CleanFramesCount
  <2>1. ASSUME GlassInit PROVE \A i \in 1..judged : FALSE
    BY <2>1 DEF GlassInit
  <2> QED  BY <2>1 DEF CleanFramesCount
<1>2. GlassInv /\ CleanFramesCount /\ [GlassNext]_glassVars => CleanFramesCount'
  <2> SUFFICES ASSUME GlassInv, CleanFramesCount, [GlassNext]_glassVars,
                      ~Scenes[scene'].covered,
                      NEW i \in 1..judged', Clean(captured'[i])
               PROVE  \E j \in DOMAIN latencies' : latencies'[j].of = i
    BY DEF CleanFramesCount, Clean
  <2>1. CASE ~Measure
    <3>1. /\ latencies' = latencies /\ judged' = judged /\ scene' = scene
          /\ captured'[i] = captured[i]
      BY <2>1, MeasuredStays
    <3> QED  BY <3>1 DEF CleanFramesCount
  <2>2. CASE Measure
    <3> DEFINE f == captured[judged + 1]
               number == Number(f)
               latency == f.ts - ReconstructMs(number, f.ts)
               one == [of |-> judged + 1, latency |-> latency]
    <3>1. /\ judged + 1 \in 1..Len(captured) /\ f \in Frame /\ FrameOK(scene, f)
          /\ captured' = captured /\ scene' = scene
      BY <2>2, MeasureIs
    <3>2. \/ (number = Crashed \/ f.state = "broken") /\ UNCHANGED <<judged, latencies>>
          \/ number = Refused /\ judged' = judged + 1 /\ latencies' = latencies
          \/ /\ number \in Nat /\ latency \in Int /\ judged' = judged + 1
             /\ latencies' = IF -50 < latency /\ latency < 1000
                             THEN Append(latencies, one) ELSE latencies
      <4> HIDE DEF f, number, latency
      <4> QED  BY <2>2, MeasureIs DEF f, number, latency
    <3>3. latencies \in Seq([of : 1..judged, latency : Int]) /\ judged \in Nat
      BY DEF GlassInv, TypeOK
    <3>4. DOMAIN latencies = 1..Len(latencies) /\ Len(latencies) \in Nat
      BY <3>3
    <3>5. CASE i \in 1..judged
      <4>1. PICK j \in DOMAIN latencies : latencies[j].of = i
        BY <3>1, <3>5 DEF CleanFramesCount
      <4>2. j \in DOMAIN latencies' /\ latencies'[j] = latencies[j]
        <5> HIDE DEF one, number, latency
        <5>1. CASE latencies' = latencies
          BY <5>1
        <5>2. CASE latencies' = Append(latencies, one)
          <6> DEFINE S == [of : 1..judged, latency : Int]
          <6>1. latencies \in Seq(S)
            BY <3>3
          <6> HIDE DEF S
          <6> QED  BY <3>4, <5>2, <6>1
        <5> QED  BY <3>2, <5>1, <5>2
      <4> QED  BY <4>1, <4>2
    <3>6. CASE i \notin 1..judged
      <4>1. i = judged + 1 /\ judged' = judged + 1
        BY <3>2, <3>3, <3>6
      <4>2. Clean(f)
        BY <3>1, <4>1
      <4>3. /\ f.ts \in Int /\ f.new \in Nat /\ f.old = f.new /\ f.misread = 0 /\ f.state = "ok"
            /\ f.ts - f.new > -50 /\ f.ts - f.new < 1000
            /\ IsRecent(f.ts, f.new)
        BY <3>1, <4>2 DEF Clean, Frame, FrameOK
      <4>4. number = f.new % WrapMs
        <5>1. number = DecodeColumns(Columns(PictureIn(scene, f)))
          <6>1. number = Encoded(f)
            BY <4>3 DEF Number
          <6> QED  BY <3>1, <6>1, EncodedIs
        <5> DEFINE p == PictureIn(scene, f)
        <5>2. /\ p \in Pictures /\ p.scene = scene /\ p.misread = 0
              /\ p.old = f.new % WrapMs /\ p.new = f.new % WrapMs
          BY <3>1, <4>3 DEF FrameOK, PictureIn
        <5>3. ~Scenes[p.scene].covered
          BY <3>1, <5>2
        <5> HIDE DEF p
        <5>4. DecodeColumns(Columns(p)) = p.old
          BY <5>2, <5>3 DEF CleanPicturesAreRead
        <5> QED  BY <5>1, <5>2, <5>4 DEF p
      <4>5. PICK ts \in Int, t \in Nat : ts = f.ts /\ t = f.new
        BY <4>3
      <4>6. ReconstructMs(t % WrapMs, ts) = t /\ t % WrapMs \in Nat
        BY <4>3, <4>5, Rebuilt
      <4>7. number \in Nat /\ latency = ts - t /\ -50 < ts - t /\ ts - t < 1000
        BY <4>3, <4>4, <4>5, <4>6
      <4>8. latencies' = Append(latencies, one)
        <5> HIDE DEF f, number, latency, one
        <5>1. number # Crashed /\ number # Refused /\ f.state # "broken"
          BY <4>3, <4>7 DEF Crashed, Refused
        <5> QED  BY <3>2, <4>7, <5>1
      <4>9. one.of = i
        BY <4>1
      <4>10. Len(latencies) + 1 \in DOMAIN latencies' /\ latencies'[Len(latencies) + 1] = one
        <5> DEFINE S == [of : 1..judged, latency : Int]
        <5>1. latencies \in Seq(S)
          BY <3>3
        <5> HIDE DEF S, one
        <5> QED  BY <3>4, <4>8, <5>1
      <4> QED  BY <4>9, <4>10
    <3> QED  BY <3>5, <3>6
  <2> QED  BY <2>1, <2>2
<1> QED  BY GlassStarts, GlassKeeps, <1>1, <1>2, PTL DEF GlassSpec
=============================================================================
