----------------------------- MODULE ViewProofs -----------------------------
(***************************************************************************)
(* Proofs about the live view, for any number of viewers, frames, cards,   *)
(* nodes and moves.  No viewer sleeps on a frame it has not been shown,    *)
(* and a viewer that is woken is served a frame that is new to it; the     *)
(* card that is found is the one that was meant, and what streams is what  *)
(* the device is called.                                                   *)
(***************************************************************************)
EXTENDS View, OperatorProofs, FiniteSetTheorems

\* The slot holds the frame of its generation, and no more frames were
\* overwritten than put.
SlotState == frame = generation /\ overwritten <= generation

\* A viewer has been served nothing newer than it remembers, and it only
\* waits after it has been served.
ViewerState(c) ==
    /\ since[c] <= generation
    /\ \A n \in shown[c] : n <= since[c]
    /\ state[c] # "idle" => since[c] >= 0

IInv == TypeOK /\ SlotState /\ (\A c \in Consumers : ViewerState(c)) /\ SleepersHaveSeenIt

-----------------------------------------------------------------------------
LEMMA InitIInv == Init => IInv
BY MaxPutsAssumption
DEF Init, IInv, TypeOK, SlotState, ViewerState, SleepersHaveSeenIt

LEMMA PutKeeps == IInv /\ Put => IInv'
<1> SUFFICES ASSUME IInv, Put PROVE IInv'
  OBVIOUS
<1> USE MaxPutsAssumption DEF Put, NotifyAll, Waiters
<1>1. TypeOK' /\ SlotState'
  BY DEF IInv, TypeOK, SlotState
<1>2. \A c \in Consumers : since[c] <= generation /\ since[c] # generation'
  BY DEF IInv, TypeOK, ViewerState
<1>3. \A c \in Consumers : ViewerState(c)'
  BY <1>2 DEF IInv, TypeOK, ViewerState
<1>4. SleepersHaveSeenIt'
  BY <1>2 DEF IInv, TypeOK, SleepersHaveSeenIt
<1> QED  BY <1>1, <1>3, <1>4 DEF IInv

LEMMA ReturnKeeps ==
    ASSUME NEW c \in Consumers, NEW expired \in BOOLEAN, IInv, Return(c, expired)
    PROVE  IInv'
<1> USE MaxPutsAssumption DEF Return
<1>1. TypeOK' /\ SlotState'
  <2>1. since' \in [Consumers -> -1..MaxPuts] /\ late' \in [Consumers -> BOOLEAN]
    BY DEF IInv, TypeOK
  <2>2. shown' \in [Consumers -> SUBSET (0..MaxPuts)]
    BY DEF IInv, TypeOK
  <2>3. state' \in [Consumers -> {"idle", "waiting", "notified", "expired"}]
    BY DEF IInv, TypeOK
  <2> QED  BY <2>1, <2>2, <2>3 DEF IInv, TypeOK, SlotState
<1>2. ASSUME NEW d \in Consumers
      PROVE  /\ ViewerState(d)'
             /\ frame' # 0 /\ since'[d] = generation' => frame' \in shown'[d]
             /\ state'[d] = "waiting" => since'[d] = generation'
  <2>1. CASE d = c
    <3>1. state'[c] = "idle" /\ since'[c] = generation
      BY DEF IInv, TypeOK
    <3>2. shown'[c] = IF frame = 0 THEN shown[c] ELSE shown[c] \cup {frame}
      BY DEF IInv, TypeOK
    <3> QED  BY <2>1, <3>1, <3>2 DEF IInv, TypeOK, SlotState, ViewerState
  <2>2. CASE d # c
    <3>1. state'[d] = state[d] /\ since'[d] = since[d] /\ shown'[d] = shown[d]
      BY <2>2 DEF IInv, TypeOK
    <3> QED  BY <3>1 DEF IInv, ViewerState, SleepersHaveSeenIt
  <2> QED  BY <2>1, <2>2
<1> QED  BY <1>1, <1>2 DEF IInv, SleepersHaveSeenIt

LEMMA WaitKeeps ==
    ASSUME NEW c \in Consumers, IInv, CallUpToDate(c) \/ Expire(c)
    PROVE  IInv'
<1> USE MaxPutsAssumption DEF CallUpToDate, Expire
<1>1. TypeOK' /\ SlotState'
  BY DEF IInv, TypeOK, SlotState
<1>2. ASSUME NEW d \in Consumers
      PROVE  /\ ViewerState(d)'
             /\ frame' # 0 /\ since'[d] = generation' => frame' \in shown'[d]
             /\ state'[d] = "waiting" => since'[d] = generation'
  BY DEF IInv, TypeOK, ViewerState, SleepersHaveSeenIt
<1> QED  BY <1>1, <1>2 DEF IInv, SleepersHaveSeenIt

LEMMA NextKeeps == IInv /\ [Next]_vars => IInv'
<1> SUFFICES ASSUME IInv, [Next]_vars PROVE IInv'
  OBVIOUS
<1>1. CASE Put
  BY <1>1, PutKeeps
<1>2. ASSUME NEW c \in Consumers, Get(c) \/ Consume(c) \/ Expire(c) PROVE IInv'
  BY <1>2, ReturnKeeps, WaitKeeps
  DEF Get, Consume, CallBehind, WakeToNew, WakeToNothing
<1>3. CASE UNCHANGED vars
  BY <1>3
  DEF vars, IInv, TypeOK, SlotState, ViewerState, SleepersHaveSeenIt
<1> QED  BY <1>1, <1>2, <1>3 DEF Next

LEMMA Invariance == Spec => []IInv
BY InitIInv, NextKeeps, PTL DEF Spec

-----------------------------------------------------------------------------
\* Type correctness, for every number of viewers and puts.
THEOREM TypeCorrect == Spec => []TypeOK
<1>1. IInv => TypeOK  BY DEF IInv
<1> QED  BY <1>1, Invariance, PTL

\* No wakeup is lost: only a viewer that has been shown the frame in the slot
\* is asleep on the condition of ring.py, however many there are.
THEOREM NoLostWakeup == Spec => []SleepersHaveSeenIt
<1>1. IInv => SleepersHaveSeenIt  BY DEF IInv
<1> QED  BY <1>1, Invariance, PTL

-----------------------------------------------------------------------------
\* What ServedNewest says of one viewer and one step.
Newest(c) ==
    since'[c] # since[c] \/ late'[c] # late[c] \/ shown'[c] # shown[c] =>
        /\ since'[c] = generation
        /\ state[c] # "idle" /\ ~late'[c] => frame \notin shown[c] /\ frame \in shown'[c]

LEMMA OthersUntouched ==
    ASSUME NEW c \in Consumers, NEW d \in Consumers, c # d, IInv,
           Get(d) \/ Consume(d) \/ Expire(d)
    PROVE  since'[c] = since[c] /\ late'[c] = late[c] /\ shown'[c] = shown[c]
BY DEF IInv, TypeOK, Get, Consume, CallBehind, CallUpToDate, WakeToNew,
       WakeToNothing, Expire, Return

LEMMA OwnStep ==
    ASSUME NEW c \in Consumers, IInv, Get(c) \/ Consume(c) \/ Expire(c)
    PROVE  Newest(c)
<1> USE DEF Newest, IInv, TypeOK
<1>1. CASE state[c] = "idle" /\ \E e \in BOOLEAN : Return(c, e)
  BY <1>1 DEF Return
<1>2. CASE WakeToNew(c)
  <2>1. frame # 0 /\ frame \notin shown[c]
    BY <1>2 DEF WakeToNew, SlotState, ViewerState
  <2> QED  BY <1>2, <2>1 DEF WakeToNew, Return
<1>3. CASE WakeToNothing(c)
  BY <1>3 DEF WakeToNothing, Return
<1>4. CASE CallUpToDate(c) \/ Expire(c)
  BY <1>4 DEF CallUpToDate, Expire
<1> QED  BY <1>1, <1>2, <1>3, <1>4 DEF Get, Consume, CallBehind

\* A viewer is always served the newest frame, and one that was woken in time
\* is served a frame it has not been served before.
THEOREM NewestServed == Spec => ServedNewest
<1>1. ASSUME IInv, [Next]_vars PROVE [\A c \in Consumers : Newest(c)]_vars
  <2> SUFFICES ASSUME Next, NEW c \in Consumers PROVE Newest(c)
    BY <1>1
  <2>1. CASE Put
    BY <2>1 DEF Put, Newest
  <2>2. ASSUME NEW d \in Consumers, Get(d) \/ Consume(d) \/ Expire(d) PROVE Newest(c)
    BY <1>1, <2>2, OwnStep, OthersUntouched DEF Newest
  <2> QED  BY <2>1, <2>2 DEF Next
<1> QED  BY <1>1, Invariance, PTL DEF Spec, ServedNewest, Newest

-----------------------------------------------------------------------------
(* The search for a card: its inductive invariant.                         *)

\* A node is of one card only, and a link leads where it may.
WorldOK ==
    /\ place \in [Cards -> Nodes \cup {Gone}]
    /\ \A c \in Cards : place[c] # Gone => place[c] + 1 \in Nodes
    /\ \A n \in Nodes : \A c, d \in At(n) : c = d
    /\ links \in [Links -> Nodes \cup {Gone}]
    /\ \A l \in Links : IF Targets(l, place) = {} THEN links[l] = Gone
                        ELSE links[l] \in Targets(l, place)
    /\ denied \subseteq Deniable /\ DeniedAlike
    /\ moves \in Nat
    /\ hint \in Hints \cup {NoHint}

Paths == Nodes \cup {Gone} \cup Links \cup {h.path : h \in Hints}
Device == [path : Paths, node : Nodes, seen : Nat, card : Cards]

\* What is known of a device, if nothing has moved since its path was resolved.
Resolved(d) ==
    /\ d \in Device
    /\ d.seen <= moves
    /\ d.seen = moves => d.node = Resolve(d.path) /\ d.card \in At(d.node)

SearchOK ==
    /\ byNode \in [Nodes -> Nodes \cup Links]
    /\ step \in {"start", "links"} => byNode = [n \in Nodes |-> n]
    /\ step = "resolve" => todo \subseteq Links
    /\ step # "resolve" => todo \subseteq Nodes
    /\ step \in {"query", "ask"} =>
          /\ path \in Paths /\ seen \in Nat /\ seen <= moves
          /\ node \in Nodes \cup {Gone}
          /\ seen = moves => node = Resolve(path)
    /\ candidates \in Seq(Device)
    /\ step \notin {"scan", "ask"} => candidates = <<>>
    /\ \A i \in DOMAIN candidates : Resolved(candidates[i])
    /\ step \in {"found", "open"} => Resolved(device)
    /\ step = "open" => IsVideo(device.node)

\* While nothing moves: a node is known by no link but one that leads there, and
\* by one if any that was resolved does; ...
LabelledSoFar ==
    /\ \A n \in Nodes : byNode[n] = n \/ (byNode[n] \in Links /\ links[byNode[n]] = n)
    /\ \A l \in Links : l \notin todo /\ links[l] \in Nodes => byNode[links[l]] \in Links

\* ... so that in the end the node of a card is known by the link that leads
\* there, if one does, ...
Labelled ==
    \A n \in Nodes :
        IF \E l \in Links : links[l] = n
        THEN byNode[n] \in Links /\ links[byNode[n]] = n
        ELSE byNode[n] = n

Available == {c \in Cards \ denied : place[c] # Gone}

\* ... and the candidates are the cards whose video nodes have been looked at,
\* each of them once.
Collected ==
    /\ step = "ask" => node \in Nodes \ todo /\ path = byNode[node]
    /\ \A i \in DOMAIN candidates :
          LET d == candidates[i]
          IN  /\ d.card \notin denied /\ place[d.card] = d.node /\ d.path = byNode[d.node]
              /\ d.node \notin todo /\ (step = "ask" => d.node # node)
    /\ \A i, j \in DOMAIN candidates : candidates[i].card = candidates[j].card => i = j
    /\ \A c \in Available :
          \/ place[c] \in todo
          \/ step = "ask" /\ place[c] = node
          \/ \E i \in DOMAIN candidates : candidates[i].card = c

ExactState ==
    moves = 0 =>
        /\ step = "query" => Exists(hint.path)
        /\ step \in {"links", "resolve", "scan", "ask", "lookup"} => ~Exists(hint.path)
        /\ step = "resolve" => LabelledSoFar
        /\ step \in {"scan", "ask"} => Labelled
        /\ step \in {"scan", "ask"} => Collected
        /\ SelectionIsExact

DiscoveryInv == WorldOK /\ SearchOK /\ ExactState

-----------------------------------------------------------------------------
LEMMA NodesAre == Nodes \subseteq Nat /\ Gone \notin Nodes /\ Gone = -1
  BY CardsAssumption DEF Gone

LEMMA MinIs ==
    ASSUME NEW S \in SUBSET Nat, S # {}
    PROVE  Min(S) \in S
BY LeastNumber DEF Min

\* What a card has, and where.
LEMMA AtIs ==
    ASSUME WorldOK, NEW c \in Cards, place[c] # Gone
    PROVE  /\ place[c] \in Nodes /\ place[c] + 1 \in Nodes /\ place[c] \in Nat
           /\ c \in At(place[c]) /\ c \in At(place[c] + 1)
           /\ \A n : c \in At(n) => n \in Nodes /\ n \in {place[c], place[c] + 1}
<1>1. place[c] \in Nodes /\ place[c] + 1 \in Nodes
  BY DEF WorldOK
<1> QED  BY <1>1, NodesAre DEF At

\* A link leads to a node of a card that has it.
LEMMA LinkIs ==
    ASSUME WorldOK, NEW l \in Links, links[l] # Gone
    PROVE  \E c \in Linked, k \in Kinds :
               LinkOf[c][k] = l /\ place[c] # Gone /\ links[l] = place[c] + k - 1
<1>1. links[l] \in Targets(l, place)
  BY DEF WorldOK
<1> QED  BY <1>1 DEF Targets

\* One that leads to the video node of a card is the card's own video link.
LEMMA VideoLink ==
    ASSUME WorldOK, NEW l \in Links, NEW c \in Cards, place[c] # Gone, links[l] = place[c]
    PROVE  c \in Linked /\ LinkOf[c][1] = l
<1>1. place[c] \in Nodes /\ place[c] \in Nat /\ c \in At(place[c]) /\ links[l] # Gone
  BY AtIs
<1>2. PICK e \in Linked, k \in Kinds :
          LinkOf[e][k] = l /\ place[e] # Gone /\ links[l] = place[e] + k - 1
  BY <1>1, LinkIs
<1>3. e \in Cards /\ k \in {1, 2}
  BY CardsAssumption DEF Kinds
<1>4. place[e] \in Nat
  BY <1>2, <1>3, AtIs
<1>5. place[c] = place[e] \/ place[c] = place[e] + 1
  BY <1>2, <1>3, <1>4
<1>6. e \in At(place[c])
  BY <1>2, <1>3, <1>5 DEF At
<1>7. e = c
  BY <1>1, <1>6 DEF WorldOK
<1>8. k = 1
  <2>1. place[c] = place[c] + k - 1
    BY <1>2, <1>7
  <2> QED  BY <1>1, <1>3, <2>1
<1> QED  BY <1>2, <1>7, <1>8

-----------------------------------------------------------------------------
(* The machine.                                                            *)

LEMMA InitWorld == DiscoveryInit => WorldOK
<1> SUFFICES ASSUME DiscoveryInit PROVE WorldOK
  OBVIOUS
<1>1. ASSUME NEW n \in Nodes, NEW c \in At(n), NEW d \in At(n), c # d PROVE FALSE
  <2>1. IsFiniteSet(At(n)) /\ Cardinality(At(n)) <= 1
    <3>1. At(n) \subseteq Cards
      BY DEF At
    <3> QED  BY <3>1, CardsAssumption, FS_Subset DEF DiscoveryInit
  <2>2. {c, d} \subseteq At(n)
    BY <1>1
  <2>3. Cardinality({c, d}) = 2
    <3>1. IsFiniteSet({c}) /\ Cardinality({c}) = 1
      BY FS_Singleton
    <3>2. Cardinality({c} \cup {d}) = Cardinality({c}) + 1
      BY <1>1, <3>1, FS_AddElement
    <3> QED  BY <3>1, <3>2
  <2>4. Cardinality({c, d}) <= Cardinality(At(n))
    BY <2>1, <2>2, FS_Subset
  <2>5. Cardinality(At(n)) \in Nat
    BY <2>1, FS_CardinalityType
  <2> QED  BY <2>1, <2>3, <2>4, <2>5
<1> QED  BY <1>1 DEF DiscoveryInit, WorldOK

LEMMA PlugStep ==
    ASSUME WorldOK, NEW c \in Cards, Plug(c)
    PROVE  WorldOK'
<1>1. PICK n \in Nodes :
          /\ Room(n)
          /\ place' = [place EXCEPT ![c] = n]
          /\ links' = [l \in Links |-> IF c \notin Linked THEN links[l]
                                    ELSE IF l = LinkOf[c][1] THEN n
                                    ELSE IF l = LinkOf[c][2] THEN n + 1 ELSE links[l]]
  BY DEF Plug
<1>2. /\ place[c] = Gone /\ moves' = moves + 1 /\ UNCHANGED <<denied, hint>>
  BY DEF Plug, Moved
<1>3. n + 1 \in Nodes /\ At(n) = {} /\ At(n + 1) = {} /\ n # Gone
  BY <1>1, NodesAre DEF Room
<1>4. /\ place \in [Cards -> Nodes \cup {Gone}] /\ links \in [Links -> Nodes \cup {Gone}]
      /\ denied \subseteq Deniable /\ DeniedAlike' /\ moves \in Nat /\ hint \in Hints \cup {NoHint}
  BY <1>2 DEF WorldOK, DeniedAlike
<1>5. place'[c] = n /\ \A d \in Cards : d # c => place'[d] = place[d]
  BY <1>1, <1>4
<1>6. place' \in [Cards -> Nodes \cup {Gone}]
  BY <1>1, <1>4
<1>7. \A d \in Cards : place'[d] # Gone => place'[d] + 1 \in Nodes
  BY <1>3, <1>5 DEF WorldOK
<1>8. ASSUME NEW m \in Nodes, NEW a \in At(m)', NEW b \in At(m)' PROVE a = b
  <2>0. /\ a \in Cards /\ place'[a] # Gone /\ m \in {place'[a], place'[a] + 1}
        /\ b \in Cards /\ place'[b] # Gone /\ m \in {place'[b], place'[b] + 1}
    BY <1>8 DEF At
  <2>1. ASSUME NEW d \in Cards, d # c, place'[d] # Gone, m \in {place'[d], place'[d] + 1}
        PROVE  d \in At(m) /\ m # n /\ m # n + 1
    <3>1. d \in At(m)
      BY <1>5, <2>1 DEF At
    <3> QED  BY <1>3, <3>1
  <2>2. m = n \/ m = n + 1 <=> c \in At(m)'
    BY <1>3, <1>5 DEF At
  <2>3. CASE a # c /\ b # c
    BY <2>0, <2>1, <2>3 DEF WorldOK
  <2>4. CASE a = c \/ b = c
    BY <2>0, <2>1, <2>2, <2>4
  <2> QED  BY <2>3, <2>4
<1>9. n + 1 \in Nodes \cup {Gone} /\ n \in Nodes \cup {Gone}
  BY <1>3
<1>10. links' \in [Links -> Nodes \cup {Gone}]
  BY <1>1, <1>4, <1>9
<1>11. ASSUME NEW l \in Links
       PROVE  IF Targets(l, place') = {} THEN links'[l] = Gone
              ELSE links'[l] \in Targets(l, place')
  <2>1. CASE c \in Linked /\ l = LinkOf[c][1]
    <3>1. links'[l] = n
      BY <1>1, <2>1
    <3>2. 1 \in Kinds /\ n = place'[c] + 1 - 1
      BY <1>5, NodesAre DEF Kinds
    <3>3. n \in Targets(l, place')
      BY <1>3, <1>5, <2>1, <3>2 DEF Targets
    <3> QED  BY <3>1, <3>3
  <2>2. CASE c \in Linked /\ l # LinkOf[c][1] /\ l = LinkOf[c][2]
    <3>1. links'[l] = n + 1
      BY <1>1, <2>2
    <3>2. 2 \in Kinds /\ n + 1 = place'[c] + 2 - 1
      BY <1>5, NodesAre DEF Kinds
    <3>3. n + 1 \in Targets(l, place')
      BY <1>3, <1>5, <2>2, <3>2 DEF Targets
    <3> QED  BY <3>1, <3>3
  <2>3. CASE c \notin Linked \/ (l # LinkOf[c][1] /\ l # LinkOf[c][2])
    <3>1. links'[l] = links[l]
      BY <1>1, <2>3
    <3>2. ASSUME NEW e \in Linked, NEW k \in Kinds, LinkOf[e][k] = l
          PROVE  place'[e] = place[e]
      <4>1. e # c
        BY <2>3, <3>2 DEF Kinds
      <4> QED  BY <1>5, <4>1, CardsAssumption
    <3>3. Targets(l, place') = Targets(l, place)
      BY <3>2 DEF Targets
    <3> QED  BY <3>1, <3>3 DEF WorldOK
  <2> QED  BY <2>1, <2>2, <2>3
<1>12. moves' \in Nat
  BY <1>2, <1>4
<1> QED  BY <1>2, <1>4, <1>6, <1>7, <1>8, <1>10, <1>11, <1>12 DEF WorldOK

LEMMA UnplugStep ==
    ASSUME WorldOK, NEW c \in Cards, Unplug(c)
    PROVE  WorldOK'
<1>1. /\ place[c] # Gone
      /\ place' = [place EXCEPT ![c] = Gone]
      /\ links' = [l \in Links |->
            IF links[l] \notin {place[c], place[c] + 1} THEN links[l]
            ELSE IF Targets(l, place') = {} THEN Gone ELSE Min(Targets(l, place'))]
      /\ moves' = moves + 1 /\ UNCHANGED <<denied, hint>>
  BY DEF Unplug, Moved
<1>4. /\ place \in [Cards -> Nodes \cup {Gone}] /\ links \in [Links -> Nodes \cup {Gone}]
      /\ denied \subseteq Deniable /\ DeniedAlike' /\ moves \in Nat /\ hint \in Hints \cup {NoHint}
  BY <1>1 DEF WorldOK, DeniedAlike
<1>5. place'[c] = Gone /\ \A d \in Cards : d # c => place'[d] = place[d]
  BY <1>1, <1>4
<1>6. place' \in [Cards -> Nodes \cup {Gone}]
  BY <1>1, <1>4
<1>7. \A d \in Cards : place'[d] # Gone => place'[d] + 1 \in Nodes
  BY <1>5 DEF WorldOK
<1>8. ASSUME NEW m \in Nodes, NEW a \in At(m)', NEW b \in At(m)' PROVE a = b
  <2>1. a \in At(m) /\ b \in At(m)
    BY <1>5, <1>8 DEF At
  <2> QED  BY <2>1 DEF WorldOK
<1>9. ASSUME NEW l \in Links
      PROVE  /\ links'[l] \in Nodes \cup {Gone}
             /\ IF Targets(l, place') = {} THEN links'[l] = Gone
                ELSE links'[l] \in Targets(l, place')
  <2>1. Targets(l, place') \subseteq Targets(l, place)
    BY <1>5, CardsAssumption DEF Targets
  <2>2. Targets(l, place') \subseteq Nodes /\ Targets(l, place') \subseteq Nat
    BY NodesAre DEF Targets
  <2>3. CASE links[l] \in {place[c], place[c] + 1}
    <3>1. links'[l] = IF Targets(l, place') = {} THEN Gone ELSE Min(Targets(l, place'))
      BY <1>1, <2>3
    <3> QED  BY <2>2, <3>1, MinIs
  <2>4. CASE links[l] \notin {place[c], place[c] + 1}
    <3>1. links'[l] = links[l]
      BY <1>1, <2>4
    <3>2. CASE Targets(l, place) = {}
      BY <1>4, <2>1, <3>1, <3>2 DEF WorldOK
    <3>3. CASE Targets(l, place) # {}
      <4>1. links[l] \in Targets(l, place)
        BY <3>3 DEF WorldOK
      <4>2. PICK e \in Linked, k \in Kinds :
                LinkOf[e][k] = l /\ place[e] # Gone /\ links[l] = place[e] + k - 1
        BY <4>1 DEF Targets
      <4>3. e \in Cards /\ k \in {1, 2} /\ links[l] \in Nodes
        BY <4>1, CardsAssumption DEF Kinds, Targets
      <4>4. place[e] \in Nat
        BY <4>2, <4>3, AtIs
      <4>5. links[l] = place[e] \/ links[l] = place[e] + 1
        BY <4>2, <4>3, <4>4
      <4>6. e # c
        BY <2>4, <4>5
      <4>7. links[l] \in Targets(l, place')
        BY <1>5, <4>2, <4>3, <4>6 DEF Targets
      <4> QED  BY <3>1, <4>3, <4>7
    <3> QED  BY <3>2, <3>3
  <2> QED  BY <2>3, <2>4
<1>10. links' \in [Links -> Nodes \cup {Gone}]
  BY <1>1, <1>9
<1>11. moves' \in Nat
  BY <1>1, <1>4
<1> QED  BY <1>1, <1>4, <1>6, <1>7, <1>8, <1>9, <1>10, <1>11 DEF WorldOK

LEMMA WorldStep ==
    ASSUME WorldOK, [ViewNext]_viewVars
    PROVE  WorldOK'
<1> USE DEF world, search, discoveryVars
<1>1. CASE \E c \in Cards : Plug(c) \/ Unplug(c)
  BY <1>1, PlugStep, UnplugStep
<1>2. CASE Stream
  <2>0. /\ place' = [c \in Cards |-> Gone] /\ links' = [l \in Links |-> Gone]
        /\ denied' = {} /\ moves' = 0 /\ hint' = NoHint
    BY <1>2 DEF Stream
  <2>d. DeniedAlike'
    BY <2>0 DEF DeniedAlike
  <2>1. \A n : At(n)' = {}
    BY <2>0 DEF At
  <2>2. \A l : Targets(l, place') = {}
    BY <2>0, CardsAssumption DEF Targets
  <2>3. place' \in [Cards -> Nodes \cup {Gone}] /\ links' \in [Links -> Nodes \cup {Gone}]
    BY <2>0
  <2>4. \A c \in Cards : place'[c] = Gone
    BY <2>0
  <2>5. \A l \in Links : links'[l] = Gone
    BY <2>0
  <2> QED  BY <2>0, <2>d, <2>1, <2>2, <2>3, <2>4, <2>5 DEF WorldOK
<1>3. CASE UNCHANGED <<world, hint>>
  BY <1>3 DEF WorldOK, At, DeniedAlike
<1>4. (\E c \in Cards : Plug(c) \/ Unplug(c)) \/ Stream \/ UNCHANGED <<world, hint>>
  BY DEF ViewNext, viewVars, Find, StartWithPath, StartSearch, QueryPath, ListLinks,
         ResolveLink, ListNodes, Scan, Ask, Pick, OpenNode, Move, PutFrame, Handle, Stray
<1> QED  BY <1>1, <1>2, <1>3, <1>4

-----------------------------------------------------------------------------
(* The search.                                                             *)

\* What a path leads to is a node, if anything is there.
LEMMA ResolveIs ==
    ASSUME WorldOK
    PROVE  /\ \A p \in Nodes \cup Links : Resolve(p) \in Nodes \cup {Gone}
           /\ \A p : Exists(p) => Resolve(p) \in Nodes
<1>1. ASSUME NEW p \in Nodes \cup Links PROVE Resolve(p) \in Nodes \cup {Gone}
  BY DEF Resolve, WorldOK
<1>2. ASSUME NEW p, Exists(p) PROVE Resolve(p) \in Nodes
  <2>1. PICK c \in At(Resolve(p)) : TRUE
    BY <1>2 DEF Exists
  <2>2. c \in Cards /\ place[c] # Gone
    BY <2>1 DEF At
  <2> QED  BY <2>1, <2>2, AtIs
<1> QED  BY <1>1, <1>2

\* Where there is something to be queried there is one card.
LEMMA QueriedIs ==
    ASSUME WorldOK, path \in Paths, seen \in Nat, seen <= moves,
           seen = moves => node = Resolve(path),
           node \in Nodes \cup {Gone}, CanOpen(node)
    PROVE  /\ Resolved(Queried)
           /\ Queried.path = path /\ Queried.node = node /\ Queried.card \in At(node)
           /\ Queried.card \notin denied
<1>1. node \in Nodes /\ At(node) \ denied # {}
  BY DEF CanOpen
<1>2. PICK c \in At(node) : c \notin denied
  BY <1>1
<1> DEFINE d == CHOOSE e \in At(node) : TRUE
<1>3. d \in At(node)
  BY <1>2
<1>4. d = c
  BY <1>1, <1>2, <1>3 DEF WorldOK
<1>5. d \in Cards
  BY <1>3 DEF At
<1>6. Queried = [path |-> path, node |-> node, seen |-> seen, card |-> d]
  BY DEF Queried
<1> HIDE DEF d
<1>7. /\ Queried.path = path /\ Queried.node = node
      /\ Queried.seen = seen /\ Queried.card = d
  BY <1>6
<1>8. Queried \in Device
  BY <1>1, <1>5, <1>6 DEF Device
<1>9. Resolved(Queried)
  BY <1>3, <1>7, <1>8 DEF Resolved
<1> QED  BY <1>2, <1>3, <1>4, <1>7, <1>9

\* What was resolved stays so while nothing moves, and what moves moves on.
LEMMA ResolvedStays ==
    ASSUME moves \in Nat, UNCHANGED world \/ moves' = moves + 1
    PROVE  \A d : Resolved(d) => Resolved(d)'
<1> SUFFICES ASSUME NEW d, Resolved(d) PROVE Resolved(d)'
  OBVIOUS
<1>1. d \in Device /\ d.seen \in Nat /\ d.seen <= moves
  BY DEF Resolved, Device
<1>2. CASE UNCHANGED world
  BY <1>2 DEF world, Resolved, Resolve, At
<1>3. CASE moves' = moves + 1
  <2>1. d.seen <= moves' /\ d.seen # moves'
    BY <1>1, <1>3
  <2> QED  BY <1>1, <2>1 DEF Resolved
<1> QED  BY <1>2, <1>3

\* The device found, ...
LEMMA DeviceBecomes ==
    ASSUME NEW d, Resolved(d), device' = d, moves \in Nat,
           UNCHANGED world \/ moves' = moves + 1
    PROVE  Resolved(device)'
<1>1. Resolved(d)'
  BY ResolvedStays
<1> QED  BY <1>1 DEF Resolved, Resolve, At

LEMMA DeviceStays ==
    ASSUME Resolved(device), device' = device, moves \in Nat,
           UNCHANGED world \/ moves' = moves + 1
    PROVE  Resolved(device)'
<1>1. PICK d : d = device
  OBVIOUS
<1>2. Resolved(d) /\ device' = d
  BY <1>1
<1> QED  BY <1>2, DeviceBecomes

\* ... and the candidates.
LEMMA CandidatesBecome ==
    ASSUME \A i \in DOMAIN candidates' : Resolved(candidates'[i]), moves \in Nat,
           UNCHANGED world \/ moves' = moves + 1
    PROVE  (\A i \in DOMAIN candidates : Resolved(candidates[i]))'
<1> SUFFICES ASSUME NEW i \in DOMAIN candidates' PROVE Resolved(candidates[i])'
  OBVIOUS
<1>1. PICK d : d = candidates'[i]
  OBVIOUS
<1>2. Resolved(d)'
  BY <1>1, ResolvedStays
<1> QED  BY <1>1, <1>2 DEF Resolved, Resolve, At

LEMMA InitSearch == DiscoveryInit => SearchOK
<1> SUFFICES ASSUME DiscoveryInit PROVE SearchOK
  OBVIOUS
<1>1. /\ byNode = [n \in Nodes |-> n] /\ todo = {} /\ step = "start" /\ candidates = <<>>
  BY DEF DiscoveryInit
<1>2. byNode \in [Nodes -> Nodes \cup Links] /\ candidates \in Seq(Device)
  BY <1>1
<1>3. \A i \in DOMAIN candidates : Resolved(candidates[i])
  BY <1>1
<1> QED  BY <1>1, <1>2, <1>3 DEF SearchOK

\* A path is resolved.
LEMMA OpenDeviceIs ==
    ASSUME WorldOK, NEW p \in Paths, OpenDevice(p), UNCHANGED world,
           Resolve(p) \in Nodes \cup {Gone}
    PROVE  /\ path' \in Paths /\ seen' \in Nat /\ seen' <= moves'
           /\ node' \in Nodes \cup {Gone}
           /\ node' = Resolve(path)'
<1>1. moves \in Nat
  BY DEF WorldOK
<1>2. path' = p /\ node' = Resolve(p) /\ seen' = moves /\ moves' = moves /\ links' = links
  BY DEF OpenDevice, world
<1>3. Resolve(p) = Resolve(path)'
  BY <1>2 DEF Resolve
<1> QED  BY <1>1, <1>2, <1>3

LEMMA SearchStep ==
    ASSUME WorldOK, SearchOK, [ViewNext]_viewVars
    PROVE  SearchOK'
<1> USE DEF world, search, discoveryVars
<1>w. moves \in Nat /\ hint \in Hints \cup {NoHint}
  BY DEF WorldOK
<1>s. /\ byNode \in [Nodes -> Nodes \cup Links]
      /\ step # "resolve" => todo \subseteq Nodes
      /\ candidates \in Seq(Device)
      /\ \A i \in DOMAIN candidates : Resolved(candidates[i])
  BY DEF SearchOK
\* The candidates stay as good as they are.
<1>c. ASSUME UNCHANGED candidates, UNCHANGED world \/ moves' = moves + 1
      PROVE  (\A i \in DOMAIN candidates : Resolved(candidates[i]))'
  <2>1. \A i \in DOMAIN candidates' : Resolved(candidates'[i])
    BY <1>c, <1>s
  <2> QED  BY <1>c, <1>w, <2>1, CandidatesBecome
<1>1. CASE StartWithPath
  <2>0. /\ Exists(hint.path) /\ OpenDevice(hint.path) /\ step' = "query" /\ step = "start"
        /\ UNCHANGED <<world, hint, byNode, todo, candidates, device>>
    BY <1>1 DEF StartWithPath
  <2>1. hint.path \in Paths
    BY <1>w DEF Paths, NoHint, Gone
  <2>2. Resolve(hint.path) \in Nodes
    BY <2>0, ResolveIs
  <2>3. /\ path' \in Paths /\ seen' \in Nat /\ seen' <= moves'
        /\ node' \in Nodes \cup {Gone} /\ node' = Resolve(path)'
    BY <2>0, <2>1, <2>2, OpenDeviceIs
  <2>4. candidates = <<>>
    BY <2>0 DEF SearchOK
  <2> QED  BY <1>s, <1>c, <2>0, <2>3, <2>4 DEF SearchOK
<1>2. CASE StartSearch
  <2>0. /\ step = "start" /\ step' = "links"
        /\ UNCHANGED <<world, hint, search, device>>
    BY <1>2 DEF StartSearch
  <2> QED  BY <1>s, <1>c, <2>0 DEF SearchOK
<1>3. CASE ListLinks \/ ResolveLink
  <2>0. /\ step \in {"links", "resolve"} /\ step' = "resolve"
        /\ UNCHANGED <<world, hint, path, node, seen, candidates, device>>
    BY <1>3 DEF ListLinks, ResolveLink
  <2>1. todo' \subseteq Links
    BY <1>3 DEF ListLinks, ResolveLink, SearchOK
  <2>2. byNode' \in [Nodes -> Nodes \cup Links]
    <3>1. CASE ListLinks
      BY <1>s, <3>1 DEF ListLinks
    <3>2. CASE ResolveLink
      <4>1. PICK l \in todo : byNode' = [n \in Nodes |->
                        IF links[l] = n /\ byNode[n] = n THEN l ELSE byNode[n]]
        BY <3>2 DEF ResolveLink
      <4>2. l \in Links
        BY <3>2 DEF ResolveLink, SearchOK
      <4> QED  BY <1>s, <4>1, <4>2
    <3> QED  BY <1>3, <3>1, <3>2
  <2> QED  BY <1>s, <1>c, <2>0, <2>1, <2>2 DEF SearchOK
<1>4. CASE ListNodes
  <2>0. /\ step = "resolve" /\ step' = "scan" /\ todo' \subseteq Nodes
        /\ UNCHANGED <<world, hint, byNode, path, node, seen, candidates, device>>
    BY <1>4 DEF ListNodes
  <2> QED  BY <1>s, <1>c, <2>0 DEF SearchOK
<1>5. CASE Scan
  <2>0. /\ step = "scan" /\ step' = "ask" /\ todo # {}
        /\ OpenDevice(byNode[Min(todo)]) /\ todo' = todo \ {Min(todo)}
        /\ UNCHANGED <<world, hint, byNode, candidates, device>>
    BY <1>5 DEF Scan, OpenByLink
  <2>1. Min(todo) \in Nodes
    BY <1>s, <2>0, MinIs, NodesAre
  <2>2. byNode[Min(todo)] \in Nodes \cup Links
    BY <1>s, <2>1
  <2>3. byNode[Min(todo)] \in Paths
    BY <2>2 DEF Paths
  <2>4. Resolve(byNode[Min(todo)]) \in Nodes \cup {Gone}
    BY <2>2, ResolveIs
  <2>5. /\ path' \in Paths /\ seen' \in Nat /\ seen' <= moves'
        /\ node' \in Nodes \cup {Gone} /\ node' = Resolve(path)'
    BY <2>0, <2>3, <2>4, OpenDeviceIs
  <2> QED  BY <1>s, <1>c, <2>0, <2>5 DEF SearchOK
<1>6. CASE QueryPath
  <2>0. /\ step = "query" /\ UNCHANGED <<world, hint, search>>
        /\ \/ CanOpen(node) /\ step' = "found" /\ device' = Queried
           \/ step' = "oserror"
    BY <1>6 DEF QueryPath
  <2>1. CASE CanOpen(node) /\ step' = "found" /\ device' = Queried
    <3>1. Resolved(Queried)
      BY <2>0, <2>1, QueriedIs DEF SearchOK
    <3>2. Resolved(device)'
      <4>1. PICK d : d = Queried
        OBVIOUS
      <4> QED  BY <1>w, <2>0, <2>1, <3>1, <4>1, DeviceBecomes
    <3> QED  BY <1>s, <1>c, <2>0, <2>1, <3>2 DEF SearchOK
  <2>2. CASE step' = "oserror"
    BY <1>s, <1>c, <2>0, <2>2 DEF SearchOK
  <2> QED  BY <2>0, <2>1, <2>2
<1>7. CASE Ask
  <2>0. /\ step = "ask" /\ step' = "scan"
        /\ candidates' = IF IsCapture(node) THEN Append(candidates, Queried) ELSE candidates
        /\ UNCHANGED <<world, hint, byNode, todo, path, node, seen, device>>
    BY <1>7 DEF Ask
  <2>1. CASE IsCapture(node)
    <3>1. Resolved(Queried) /\ Queried \in Device
      BY <2>0, <2>1, QueriedIs DEF SearchOK, IsCapture, Resolved
    <3>2. /\ candidates' \in Seq(Device) /\ Len(candidates') = Len(candidates) + 1
          /\ Len(candidates) \in Nat
          /\ \A i \in 1..Len(candidates) : candidates'[i] = candidates[i]
          /\ candidates'[Len(candidates) + 1] = Queried
      BY <1>s, <2>0, <2>1, <3>1
    <3>3. ASSUME NEW i \in DOMAIN candidates' PROVE Resolved(candidates'[i])
      <4>1. i \in 1..(Len(candidates) + 1)
        BY <3>2, <3>3
      <4>2. CASE i = Len(candidates) + 1
        BY <3>1, <3>2, <4>2
      <4>3. CASE i # Len(candidates) + 1
        <5>1. i \in 1..Len(candidates) /\ i \in DOMAIN candidates
          BY <1>s, <3>2, <4>1, <4>3
        <5> QED  BY <1>s, <3>2, <5>1
      <4> QED  BY <4>2, <4>3
    <3>4. (\A i \in DOMAIN candidates : Resolved(candidates[i]))'
      BY <1>w, <2>0, <3>3, CandidatesBecome
    <3> QED  BY <1>s, <2>0, <3>2, <3>4 DEF SearchOK
  <2>2. CASE ~IsCapture(node)
    BY <1>s, <1>c, <2>0, <2>2 DEF SearchOK
  <2> QED  BY <2>1, <2>2
<1>8. CASE Pick
  <2> DEFINE matched == {i \in DOMAIN candidates : Matches(candidates[i])}
  <2>0. /\ step = "scan"
        /\ byNode' = [n \in Nodes |-> n] /\ candidates' = <<>>
        /\ UNCHANGED <<world, hint, todo>>
        /\ \/ Unambiguous(matched) /\ step' = "found"
              /\ device' = candidates[CHOOSE i \in matched : TRUE]
           \/ step' = "lookup"
    BY <1>8 DEF Pick
  <2>1. byNode' \in [Nodes -> Nodes \cup Links] /\ candidates' \in Seq(Device)
        /\ (\A i \in DOMAIN candidates : Resolved(candidates[i]))'
    BY <2>0
  <2>2. CASE Unambiguous(matched) /\ step' = "found"
              /\ device' = candidates[CHOOSE i \in matched : TRUE]
    <3>1. matched # {}
      BY <2>2, FS_EmptySet DEF Unambiguous
    <3>2. PICK i \in DOMAIN candidates : device' = candidates[i]
      BY <2>2, <3>1
    <3>3. PICK d : d = candidates[i]
      OBVIOUS
    <3>4. Resolved(device)'
      BY <1>s, <1>w, <2>0, <3>2, <3>3, DeviceBecomes
    <3> QED  BY <1>s, <2>0, <2>1, <2>2, <3>4 DEF SearchOK
  <2>3. CASE step' = "lookup"
    BY <1>s, <2>0, <2>1, <2>3 DEF SearchOK
  <2> QED  BY <2>0, <2>2, <2>3
<1>9. CASE OpenNode
  <2>0. /\ step = "found"
        /\ step' = IF IsCapture(device.node) THEN "open" ELSE "oserror"
        /\ UNCHANGED <<world, hint, search, device>>
    BY <1>9 DEF OpenNode
  <2>1. Resolved(device) /\ candidates = <<>>
    BY <2>0 DEF SearchOK
  <2>2. Resolved(device)'
    BY <1>w, <2>0, <2>1, DeviceStays
  <2>3. step' = "open" => IsVideo(device.node)'
    BY <2>0 DEF IsCapture, IsVideo
  <2> QED  BY <1>s, <1>c, <2>0, <2>1, <2>2, <2>3 DEF SearchOK
<1>10. CASE Move
  <2>0. /\ step \notin {"open", "lookup", "oserror", "streaming"}
        /\ moves' = moves + 1 /\ UNCHANGED <<step, search, device>>
    BY <1>10 DEF Move, Plug, Unplug, Moved
  <2>1. step = "found" => Resolved(device)'
    BY <1>w, <2>0, DeviceStays DEF SearchOK
  <2>2. step \in {"query", "ask"} => seen \in Nat /\ seen <= moves' /\ seen # moves'
    BY <1>w, <2>0 DEF SearchOK
  <2> QED  BY <1>s, <1>c, <2>0, <2>1, <2>2 DEF SearchOK
<1>11. CASE Stream
  <2>0. /\ step = "open" /\ step' = "streaming" /\ UNCHANGED search
    BY <1>11 DEF Stream
  <2>1. candidates = <<>>
    BY <2>0 DEF SearchOK
  <2> QED  BY <1>s, <2>0, <2>1 DEF SearchOK
<1>12. CASE UNCHANGED discoveryVars
  <2>1. step \in {"found", "open"} => Resolved(device)'
    BY <1>w, <1>12, DeviceStays DEF SearchOK
  <2>2. IsVideo(device.node) => IsVideo(device.node)'
    BY <1>12 DEF IsVideo
  <2>3. Resolve(path)' = Resolve(path)
    BY <1>12 DEF Resolve
  <2> QED  BY <1>s, <1>c, <1>12, <2>1, <2>2, <2>3 DEF SearchOK
<1>13. \/ Find \/ OpenNode \/ Move \/ Stream \/ UNCHANGED discoveryVars
  BY DEF ViewNext, viewVars, PutFrame, Handle, Stray
<1> QED  BY <1>1, <1>2, <1>3, <1>4, <1>5, <1>6, <1>7, <1>8, <1>9, <1>10, <1>11,
            <1>12, <1>13 DEF Find

-----------------------------------------------------------------------------
(* What streams.                                                           *)

\* The invariant without its last part.
MachineInv == WorldOK /\ SearchOK

LEMMA MachineInvariance == ViewSpec => []MachineInv
<1>1. ViewInit => MachineInv
  BY InitWorld, InitSearch DEF ViewInit, MachineInv
<1>2. MachineInv /\ [ViewNext]_viewVars => MachineInv'
  BY WorldStep, SearchStep DEF MachineInv
<1> QED  BY <1>1, <1>2, PTL DEF ViewSpec

\* If nothing moved since the path of the device was resolved, what streams is
\* the card the device is called after, by its own video link if by a link:
\* for any cards, nodes and links, whatever moved before.
THEOREM StreamIsWhatItIsCalledHolds == ViewSpec => []StreamIsWhatItIsCalled
<1>1. MachineInv => StreamIsWhatItIsCalled
  <2> SUFFICES ASSUME MachineInv, step = "open", moves = device.seen
               PROVE  /\ place[device.card] = device.node
                      /\ device.path \in Links =>
                            device.card \in Linked /\ LinkOf[device.card][1] = device.path
    BY DEF StreamIsWhatItIsCalled
  <2>1. /\ WorldOK /\ device.node = Resolve(device.path) /\ device.card \in At(device.node)
        /\ device.node \in Nodes /\ device.card \in Cards
        /\ IsVideo(device.node)
    BY DEF MachineInv, SearchOK, Resolved, Device
  <2>2. PICK c \in Cards : place[c] = device.node
    BY <2>1 DEF IsVideo
  <2>3. place[c] # Gone
    BY <2>1, <2>2, NodesAre
  <2>4. c \in At(device.node)
    BY <2>1, <2>2, <2>3, AtIs
  <2>5. device.card = c
    BY <2>1, <2>4 DEF WorldOK
  <2>6. ASSUME device.path \in Links
        PROVE  device.card \in Linked /\ LinkOf[device.card][1] = device.path
    <3>1. links[device.path] = place[c]
      BY <2>1, <2>2, <2>6 DEF Resolve
    <3>2. PICK l \in Links : l = device.path
      BY <2>6
    <3>3. c \in Linked /\ LinkOf[c][1] = l
      BY <2>1, <2>3, <3>1, <3>2, VideoLink
    <3> QED  BY <2>5, <3>2, <3>3
  <2> QED  BY <2>2, <2>5, <2>6
<1> QED  BY <1>1, MachineInvariance, PTL

-----------------------------------------------------------------------------
(* What is selected.                                                       *)

Matched == {i \in DOMAIN candidates : Matches(candidates[i])}

\* What is there when the last node was looked at.
Scanned ==
    /\ WorldOK /\ SearchOK /\ Labelled /\ Collected
    /\ ~Exists(hint.path) /\ step = "scan" /\ todo = {}

\* A candidate, and what it is called.
LEMMA CandidateIs ==
    ASSUME WorldOK, SearchOK, Collected, NEW i \in DOMAIN candidates
    PROVE  LET d == candidates[i]
           IN  /\ d.card \in Available /\ d.card \in Cards
               /\ place[d.card] = d.node /\ d.node \in Nodes
               /\ d.path = byNode[d.node]
<1> DEFINE d == candidates[i]
<1>1. d \in Device
  BY DEF SearchOK, Resolved
<1>2. d.card \notin denied /\ place[d.card] = d.node /\ d.path = byNode[d.node]
  BY DEF Collected
<1> HIDE DEF d
<1>3. d.card \in Cards /\ d.node \in Nodes
  BY <1>1 DEF Device
<1>4. d.card \in Available
  BY <1>2, <1>3, NodesAre DEF Available
<1> QED  BY <1>2, <1>3, <1>4 DEF d

\* What matches is meant.
LEMMA MatchedIsMeant ==
    ASSUME Scanned, NEW i \in Matched
    PROVE  candidates[i].card \in Meant
<1> DEFINE d == candidates[i]
           c == candidates[i].card
<1>0. WorldOK /\ SearchOK /\ Labelled /\ Collected /\ ~Exists(hint.path)
  BY DEF Scanned
<1>1. /\ c \in Available /\ c \in Cards /\ place[c] = d.node /\ d.node \in Nodes
      /\ d.path = byNode[d.node]
  BY <1>0, CandidateIs DEF Matched
<1>2. hint = NoHint \/ d.path \in hint.text \/ NameOf[c] \in hint.text
  BY DEF Matched, Matches
<1> HIDE DEF c, d
<1>3. c \in Cards \ denied /\ place[c] # Gone
  BY <1>1 DEF Available
<1>4. ASSUME d.path \in hint.text, hint # NoHint
      PROVE  c \in Linked /\ LinkOf[c][1] = d.path
  <2>1. CASE \E l \in Links : links[l] = d.node
    <3>1. d.path \in Links /\ links[d.path] = d.node
      BY <1>0, <1>1, <2>1 DEF Labelled
    <3>2. PICK l \in Links : l = d.path
      BY <3>1
    <3>3. PICK e \in Cards : e = c
      BY <1>1
    <3>4. links[l] = place[e] /\ place[e] # Gone
      BY <1>1, <1>3, <3>1, <3>2, <3>3
    <3>5. e \in Linked /\ LinkOf[e][1] = l
      BY <1>0, <3>4, VideoLink
    <3> QED  BY <3>2, <3>3, <3>5
  <2>2. CASE ~\E l \in Links : links[l] = d.node
    <3>1. d.path = d.node /\ d.path \in Nodes
      BY <1>0, <1>1, <2>2 DEF Labelled
    <3>2. d.path = hint.path
      BY <1>0, <1>4, <3>1, HintsAssumption DEF WorldOK
    <3>3. Resolve(hint.path) = d.node
      BY <3>1, <3>2, LinksAssumption DEF Resolve
    <3>4. c \in At(d.node) /\ d.node # Gone
      BY <1>1, <1>3 DEF At
    <3>5. Exists(hint.path)
      BY <3>3, <3>4 DEF Exists
    <3> QED  BY <1>0, <3>5
  <2> QED  BY <2>1, <2>2
<1>5. CASE hint = NoHint \/ NameOf[c] \in hint.text
  BY <1>3, <1>5 DEF Meant, c
<1>6. CASE d.path \in hint.text /\ hint # NoHint
  <2>1. c \in Linked /\ LinkOf[c][1] \in hint.text
    BY <1>4, <1>6
  <2>2. LinkOf[c][1] \in {LinkOf[e][1] : e \in {c} \cap Linked}
    BY <2>1
  <2> QED  BY <1>3, <2>1, <2>2 DEF Meant, c
<1> QED  BY <1>2, <1>5, <1>6

\* What is meant matches, or it is hidden behind a twin that does.
HiddenBy(c, i) ==
    LET d == candidates[i]
    IN  /\ d.card \in Linked /\ c \in Linked /\ d.card # c
        /\ NameOf[c] \notin hint.text
        /\ d.path \in hint.text /\ LinkOf[c][1] = d.path /\ LinkOf[d.card][1] = d.path

LEMMA MeantIsMatched ==
    ASSUME Scanned, NEW c \in Meant
    PROVE  \/ \E i \in Matched : candidates[i].card = c
           \/ \E i \in Matched : HiddenBy(c, i)
<1>0. WorldOK /\ SearchOK /\ Labelled /\ Collected /\ step = "scan" /\ todo = {}
  BY DEF Scanned
<1>1. c \in Cards /\ c \notin denied /\ place[c] # Gone
  BY DEF Meant
<1>2. ASSUME NEW e \in Cards, e \notin denied, place[e] # Gone
      PROVE  \E i \in DOMAIN candidates : candidates[i].card = e
  BY <1>0, <1>2 DEF Collected, Available
<1>3. CASE hint = NoHint \/ NameOf[c] \in hint.text
  <2>1. PICK i \in DOMAIN candidates : candidates[i].card = c
    BY <1>1, <1>2
  <2>2. i \in Matched
    BY <1>3, <2>1 DEF Matched, Matches
  <2> QED  BY <2>1, <2>2
<1>4. CASE hint # NoHint /\ NameOf[c] \notin hint.text
  <2>1. c \in Linked /\ LinkOf[c][1] \in hint.text
    BY <1>4 DEF Meant
  <2>2. PICK l : l = LinkOf[c][1]
    OBVIOUS
  <2>3. l \in Links
    BY <2>1, <2>2 DEF Links, Kinds
  <2>4. place[c] \in Nodes /\ place[c] \in Nat
    BY <1>0, <1>1, AtIs
  <2>5. place[c] \in Targets(l, place)
    <3>1. 1 \in Kinds /\ place[c] = place[c] + 1 - 1
      BY <2>4 DEF Kinds
    <3> QED  BY <1>1, <2>1, <2>2, <2>4, <3>1 DEF Targets
  <2>6. links[l] \in Targets(l, place)
    BY <1>0, <2>3, <2>5 DEF WorldOK
  <2>7. PICK e \in Linked, k \in Kinds :
            LinkOf[e][k] = l /\ place[e] # Gone /\ links[l] = place[e] + k - 1
    BY <2>6 DEF Targets
  <2>8. k = 1
    BY <2>1, <2>2, <2>7, LinksAssumption DEF Kinds
  <2>9. e \in Cards
    BY CardsAssumption
  <2>10. place[e] \in Nodes /\ place[e] \in Nat
    BY <1>0, <2>7, <2>9, AtIs
  <2>11. links[l] = place[e] /\ LinkOf[e][1] = l
    BY <2>7, <2>8, <2>10
  <2>12. byNode[place[e]] = l
    <3>1. byNode[place[e]] \in Links /\ links[byNode[place[e]]] = place[e]
      BY <1>0, <2>3, <2>10, <2>11 DEF Labelled
    <3>2. PICK q \in Links : q = byNode[place[e]]
      BY <3>1
    <3>3. LinkOf[e][1] = q
      BY <1>0, <2>7, <2>9, <3>1, <3>2, VideoLink
    <3> QED  BY <2>11, <3>2, <3>3
  <2>13. e \notin denied
    BY <1>0, <1>1, <2>1, <2>2, <2>7, <2>11 DEF WorldOK, DeniedAlike
  <2>14. PICK j \in DOMAIN candidates : candidates[j].card = e
    BY <1>2, <2>7, <2>9, <2>13
  <2>15. candidates[j].path = l
    BY <1>0, <2>12, <2>14 DEF Collected
  <2>16. j \in Matched
    BY <2>1, <2>2, <2>15 DEF Matched, Matches
  <2>17. CASE e = c
    BY <2>14, <2>16, <2>17
  <2>18. CASE e # c
    BY <1>4, <2>1, <2>2, <2>11, <2>14, <2>15, <2>16, <2>18 DEF HiddenBy
  <2> QED  BY <2>17, <2>18
<1> QED  BY <1>3, <1>4

\* A set with one element.
LEMMA OneElement ==
    ASSUME NEW S, IsFiniteSet(S), Cardinality(S) = 1
    PROVE  \E x \in S : S = {x}
<1>1. S # {}
  BY FS_EmptySet
<1>2. PICK x \in S : TRUE
  BY <1>1
<1>3. IsFiniteSet(S \ {x}) /\ Cardinality(S \ {x}) = 0
  BY <1>2, FS_RemoveElement
<1>4. S \ {x} = {}
  BY <1>3, FS_EmptySet
<1> QED  BY <1>2, <1>4

LEMMA MatchedIsFinite == SearchOK => IsFiniteSet(Matched)
<1> SUFFICES ASSUME SearchOK PROVE IsFiniteSet(Matched)
  OBVIOUS
<1>1. candidates \in Seq(Device)
  BY DEF SearchOK
<1>2. Len(candidates) \in Int /\ DOMAIN candidates = 1..Len(candidates) /\ 1 \in Int
  BY <1>1
<1>3. IsFiniteSet(1..Len(candidates))
  BY <1>2, FS_Interval
<1>4. Matched \subseteq 1..Len(candidates)
  BY <1>2 DEF Matched
<1> QED  BY <1>3, <1>4, FS_Subset

\* One match is the one that is meant, ...
LEMMA OneMatch ==
    ASSUME Scanned, Unambiguous(Matched)
    PROVE  LET d == candidates[CHOOSE i \in Matched : TRUE]
           IN  \/ Meant = {d.card}
               \/ /\ d.path \in hint.text
                  /\ \A c \in Meant : NameOf[c] \notin hint.text /\ LinkOf[c][1] = d.path
<1>1. PICK i \in Matched : Matched = {i}
  BY MatchedIsFinite, OneElement DEF Scanned, Unambiguous
<1>2. (CHOOSE j \in Matched : TRUE) = i
  BY <1>1
<1> DEFINE d == candidates[i]
<1>3. d.card \in Meant
  BY <1>1, MatchedIsMeant
<1>4. ASSUME NEW c \in Meant, c # d.card PROVE HiddenBy(c, i)
  BY <1>1, <1>4, MeantIsMatched
<1>5. CASE \E c \in Meant : c # d.card
  <2>1. PICK c \in Meant : c # d.card
    BY <1>5
  <2>2. HiddenBy(c, i)
    BY <1>4, <2>1
  <2>3. NameOf[d.card] \notin hint.text
    BY <2>2, LinksAssumption DEF HiddenBy
  <2>4. ASSUME NEW b \in Meant
        PROVE  NameOf[b] \notin hint.text /\ LinkOf[b][1] = d.path
    <3>1. CASE b = d.card
      BY <2>2, <2>3, <3>1 DEF HiddenBy
    <3>2. CASE b # d.card
      BY <1>4, <3>2 DEF HiddenBy
    <3> QED  BY <3>1, <3>2
  <2>5. d.path \in hint.text
    BY <2>2 DEF HiddenBy
  <2> QED  BY <1>2, <2>4, <2>5
<1>6. CASE ~\E c \in Meant : c # d.card
  <2>1. Meant = {d.card}
    BY <1>3, <1>6
  <2> QED  BY <1>2, <2>1
<1> QED  BY <1>5, <1>6

\* ... and what is meant alone is the only match.
LEMMA OneMeant ==
    ASSUME Scanned, Cardinality(Meant) = 1
    PROVE  Unambiguous(Matched)
<1>0. WorldOK /\ SearchOK /\ Collected
  BY DEF Scanned
<1>1. IsFiniteSet(Meant)
  <2>1. Meant \subseteq Cards
    BY DEF Meant
  <2> QED  BY <2>1, CardsAssumption, FS_Subset
<1>2. PICK c \in Meant : Meant = {c}
  BY <1>1, OneElement
<1>3. PICK i \in Matched : TRUE
  BY MeantIsMatched
<1>4. ASSUME NEW j \in Matched PROVE j = i
  <2>1. candidates[j].card = c /\ candidates[i].card = c
    BY <1>2, MatchedIsMeant
  <2> QED  BY <1>0, <2>1 DEF Collected, Matched
<1>5. Matched = {i}
  BY <1>3, <1>4
<1> QED  BY <1>5, FS_Singleton DEF Unambiguous

-----------------------------------------------------------------------------
LEMMA InitExact == DiscoveryInit => ExactState
BY DEF DiscoveryInit, ExactState, SelectionIsExact

\* The selection stays what it was.
LEMMA SelectionStays ==
    ASSUME SelectionIsExact, moves = 0, UNCHANGED <<world, hint, device>>,
           step' \in {"found", "open"} => step \in {"found", "open"},
           step' = "lookup" => step = "lookup"
    PROVE  SelectionIsExact'
<1>1. Meant' = Meant
  BY DEF world, Meant
<1>2. Exists(hint.path)' = Exists(hint.path)
  BY DEF world, Exists, Resolve, At
<1> QED  BY <1>1, <1>2 DEF world, SelectionIsExact

\* Elsewhere there is nothing to say of it.
LEMMA NothingSelected ==
    ASSUME step' \notin {"found", "open", "lookup"}
    PROVE  SelectionIsExact'
BY DEF SelectionIsExact

LEMMA ExactStep ==
    ASSUME WorldOK, SearchOK, ExactState, [ViewNext]_viewVars
    PROVE  ExactState'
<1> USE DEF world, search, discoveryVars
<1> SUFFICES ASSUME moves' = 0 PROVE ExactState'
  BY DEF ExactState
<1>w. moves \in Nat
  BY DEF WorldOK
<1>e. ASSUME UNCHANGED <<world, hint>>
      PROVE  moves = 0 /\ Exists(hint.path)' = Exists(hint.path)
  BY <1>e DEF Exists, Resolve, At
<1>1. CASE StartWithPath
  <2>0. /\ Exists(hint.path) /\ step' = "query" /\ UNCHANGED <<world, hint>>
    BY <1>1 DEF StartWithPath
  <2> QED  BY <1>e, <2>0, NothingSelected DEF ExactState
<1>2. CASE StartSearch
  <2>0. /\ ~Exists(hint.path) /\ step' = "links" /\ UNCHANGED <<world, hint>>
    BY <1>2 DEF StartSearch
  <2> QED  BY <1>e, <2>0, NothingSelected DEF ExactState
<1>3. CASE ListLinks
  <2>0. /\ step = "links" /\ step' = "resolve" /\ UNCHANGED <<world, hint, byNode>>
        /\ todo' = {l \in Links : links[l] # Gone}
    BY <1>3 DEF ListLinks
  <2>1. byNode = [n \in Nodes |-> n]
    BY <2>0 DEF SearchOK
  <2>2. LabelledSoFar'
    BY <2>0, <2>1, NodesAre DEF LabelledSoFar
  <2> QED  BY <1>e, <2>0, <2>2, NothingSelected DEF ExactState
<1>r. CASE ResolveLink
  <2>0. /\ step = "resolve" /\ step' = "resolve" /\ UNCHANGED <<world, hint>>
    BY <1>r DEF ResolveLink
  <2>1. PICK l \in todo :
            /\ byNode' = [n \in Nodes |-> IF links[l] = n /\ byNode[n] = n THEN l ELSE byNode[n]]
            /\ todo' = todo \ {l}
    BY <1>r DEF ResolveLink
  <2>2. l \in Links /\ LabelledSoFar /\ ~Exists(hint.path) /\ Links \cap Nodes = {}
    BY <1>e, <2>0, <2>1, LinksAssumption DEF SearchOK, ExactState
  <2>3. \A n \in Nodes : byNode'[n] = n \/ (byNode'[n] \in Links /\ links[byNode'[n]] = n)
    BY <2>1, <2>2 DEF LabelledSoFar
  <2>4. ASSUME NEW k \in Links, k \notin todo', links[k] \in Nodes
        PROVE  byNode'[links[k]] \in Links
    BY <2>1, <2>2, <2>4 DEF LabelledSoFar
  <2>5. LabelledSoFar'
    BY <2>0, <2>3, <2>4 DEF LabelledSoFar
  <2> QED  BY <1>e, <2>0, <2>2, <2>5, NothingSelected DEF ExactState
<1>4. CASE ListNodes
  <2>0. /\ step = "resolve" /\ todo = {} /\ step' = "scan"
        /\ UNCHANGED <<world, hint, byNode, candidates>>
        /\ todo' = {n \in Nodes : At(n) # {}}
    BY <1>4 DEF ListNodes
  <2>1. candidates' = <<>>
    BY <2>0 DEF SearchOK
  <2>2. Labelled'
    <3>1. LabelledSoFar /\ Links \cap Nodes = {}
      BY <1>e, <2>0, LinksAssumption DEF ExactState
    <3> QED  BY <2>0, <3>1 DEF LabelledSoFar, Labelled
  <2>3. ASSUME NEW c \in Available' PROVE place'[c] \in todo'
    <3>1. c \in Cards /\ place[c] # Gone /\ place'[c] = place[c]
      BY <2>0, <2>3 DEF Available
    <3> QED  BY <2>0, <3>1, AtIs
  <2>4. Collected'
    BY <2>0, <2>1, <2>3 DEF Collected
  <2> QED  BY <1>e, <2>0, <2>2, <2>4, NothingSelected DEF ExactState
<1>5. CASE Scan
  <2>0. /\ step = "scan" /\ step' = "ask" /\ todo # {}
        /\ path' = byNode[Min(todo)] /\ node' = Resolve(byNode[Min(todo)])
        /\ todo' = todo \ {Min(todo)}
        /\ UNCHANGED <<world, hint, byNode, candidates>>
    BY <1>5 DEF Scan, OpenByLink, OpenDevice
  <2>1. /\ Labelled /\ Collected /\ ~Exists(hint.path)
    BY <1>e, <2>0 DEF ExactState
  <2>2. Min(todo) \in todo /\ Min(todo) \in Nodes
    <3>1. todo \subseteq Nat /\ todo \subseteq Nodes
      BY <2>0, NodesAre DEF SearchOK
    <3> QED  BY <2>0, <3>1, MinIs
  <2>3. node' = Min(todo)
    BY <2>0, <2>1, <2>2, LinksAssumption DEF Labelled, Resolve
  <2>4. Labelled'
    BY <2>0, <2>1 DEF Labelled
  <2>5. ASSUME NEW i \in DOMAIN candidates
        PROVE  LET d == candidates[i]
               IN  /\ d.card \notin denied /\ place[d.card] = d.node
                   /\ d.path = byNode[d.node] /\ d.node \notin todo /\ d.node # node'
    BY <2>1, <2>2, <2>3 DEF Collected
  <2>6. ASSUME NEW c \in Available
        PROVE  \/ place[c] \in todo' \/ place[c] = node'
               \/ \E i \in DOMAIN candidates : candidates[i].card = c
    BY <2>0, <2>1, <2>3 DEF Collected
  <2>7. Available' = Available
    BY <2>0 DEF Available
  <2>8. \A i, j \in DOMAIN candidates : candidates[i].card = candidates[j].card => i = j
    BY <2>1 DEF Collected
  <2>9. node' \in Nodes \ todo' /\ path' = byNode[node']
    BY <2>0, <2>2, <2>3
  <2>10. Collected'
    BY <2>0, <2>5, <2>6, <2>7, <2>8, <2>9 DEF Collected
  <2> QED  BY <1>e, <2>0, <2>1, <2>4, <2>10, NothingSelected DEF ExactState
<1>6. CASE QueryPath
  <2>0. /\ step = "query" /\ step' \in {"found", "oserror"} /\ UNCHANGED <<world, hint>>
    BY <1>6 DEF QueryPath
  <2>1. Exists(hint.path)'
    BY <1>e, <2>0 DEF ExactState
  <2>2. SelectionIsExact'
    BY <2>0, <2>1 DEF SelectionIsExact
  <2> QED  BY <2>0, <2>2 DEF ExactState
<1>7. CASE Ask
  <2>0. /\ step = "ask" /\ step' = "scan"
        /\ candidates' = IF IsCapture(node) THEN Append(candidates, Queried) ELSE candidates
        /\ UNCHANGED <<world, hint, byNode, todo, path, node>>
    BY <1>7 DEF Ask
  <2>1. /\ Labelled /\ Collected /\ ~Exists(hint.path)
    BY <1>e, <2>0 DEF ExactState
  <2>2. node \in Nodes /\ node \notin todo /\ path = byNode[node]
    BY <2>0, <2>1 DEF Collected
  <2>3. Labelled'
    BY <2>0, <2>1 DEF Labelled
  <2>4. Available' = Available
    BY <2>0 DEF Available
  <2>o. /\ \A i \in DOMAIN candidates :
              LET d == candidates[i]
              IN  /\ d.card \notin denied /\ place[d.card] = d.node /\ d.path = byNode[d.node]
                  /\ d.node \notin todo /\ d.node # node
        /\ \A i, j \in DOMAIN candidates : candidates[i].card = candidates[j].card => i = j
        /\ \A c \in Available : \/ place[c] \in todo \/ place[c] = node
                                \/ \E i \in DOMAIN candidates : candidates[i].card = c
    BY <2>0, <2>1 DEF Collected
  <2>5. CASE IsCapture(node)
    <3>1. /\ Queried.path = path /\ Queried.node = node /\ Queried.card \in At(node)
          /\ Queried.card \notin denied /\ Queried \in Device
      BY <2>0, <2>5, QueriedIs DEF SearchOK, IsCapture, Resolved
    <3>2. PICK q : q = Queried
      OBVIOUS
    <3>3. PICK v \in Cards : place[v] = node
      BY <2>5 DEF IsCapture, IsVideo
    <3>4. v \in At(node)
      BY <2>2, <3>3, NodesAre, AtIs
    <3>5. q.card = v /\ place[q.card] = node
      BY <2>2, <3>1, <3>2, <3>3, <3>4 DEF WorldOK
    <3>6. /\ candidates \in Seq(Device) /\ Len(candidates) \in Nat
          /\ candidates' = Append(candidates, q) /\ q \in Device
      BY <2>0, <2>5, <3>1, <3>2 DEF SearchOK
    <3> DEFINE n == Len(candidates)
    <3>7. /\ DOMAIN candidates = 1..n /\ DOMAIN candidates' = 1..(n + 1)
          /\ \A i \in 1..n : candidates'[i] = candidates[i]
          /\ candidates'[n + 1] = q
      BY <3>6
    <3>n. n \in Nat
      BY <3>6
    <3> HIDE DEF n
    <3>8. ASSUME NEW i \in DOMAIN candidates'
          PROVE  LET d == candidates'[i]
                 IN  /\ d.card \notin denied /\ place[d.card] = d.node
                     /\ d.path = byNode[d.node] /\ d.node \notin todo
      <4>1. CASE i = n + 1
        BY <2>2, <3>1, <3>2, <3>5, <3>7, <4>1
      <4>2. CASE i # n + 1
        <5>1. i \in DOMAIN candidates /\ candidates'[i] = candidates[i]
          BY <3>7, <3>8, <3>n, <4>2
        <5> QED  BY <2>o, <5>1
      <4> QED  BY <4>1, <4>2
    <3>9. ASSUME NEW i \in DOMAIN candidates', NEW j \in DOMAIN candidates',
                 candidates'[i].card = candidates'[j].card
          PROVE  i = j
      <4>1. ASSUME NEW k \in DOMAIN candidates PROVE candidates[k].card # q.card
        BY <2>o, <3>5
      <4>2. ASSUME NEW k \in DOMAIN candidates'
            PROVE  \/ k = n + 1
                   \/ k \in DOMAIN candidates /\ candidates'[k] = candidates[k]
        BY <3>7, <3>n
      <4> QED  BY <2>o, <3>7, <3>9, <4>1, <4>2
    <3>10. ASSUME NEW c \in Available
           PROVE  place[c] \in todo \/ \E i \in DOMAIN candidates' : candidates'[i].card = c
      <4>1. CASE place[c] = node
        <5>1. c \in At(node)
          BY <2>2, <4>1, AtIs DEF Available
        <5>2. c = q.card
          BY <2>2, <3>4, <3>5, <5>1 DEF WorldOK
        <5>3. n + 1 \in DOMAIN candidates' /\ candidates'[n + 1] = q
          BY <3>7, <3>n
        <5> QED  BY <5>2, <5>3
      <4>2. CASE \E i \in DOMAIN candidates : candidates[i].card = c
        <5>1. PICK i \in DOMAIN candidates : candidates[i].card = c
          BY <4>2
        <5>2. i \in DOMAIN candidates' /\ candidates'[i] = candidates[i]
          BY <3>7, <3>n
        <5> QED  BY <5>1, <5>2
      <4> QED  BY <2>o, <4>1, <4>2
    <3>11. Collected'
      BY <2>0, <2>4, <3>8, <3>9, <3>10 DEF Collected
    <3> QED  BY <1>e, <2>0, <2>1, <2>3, <3>11, NothingSelected DEF ExactState
  <2>6. CASE ~IsCapture(node)
    <3>1. ASSUME NEW c \in Available PROVE place[c] # node
      <4> SUFFICES ASSUME place[c] = node PROVE FALSE
        OBVIOUS
      <4>1. c \in Cards /\ c \notin denied /\ place[c] # Gone
        BY DEF Available
      <4>2. c \in At(node)
        BY <4>1, AtIs
      <4>3. CanOpen(node) /\ IsVideo(node)
        BY <4>1, <4>2 DEF CanOpen, IsVideo
      <4> QED  BY <2>6, <4>3 DEF IsCapture
    <3>2. candidates' = candidates
      BY <2>0, <2>6
    <3>3. Collected'
      BY <2>0, <2>4, <2>o, <3>1, <3>2 DEF Collected
    <3> QED  BY <1>e, <2>0, <2>1, <2>3, <3>3, NothingSelected DEF ExactState
  <2> QED  BY <2>5, <2>6
<1>8. CASE Pick
  <2>0. /\ step = "scan" /\ todo = {} /\ UNCHANGED <<world, hint>>
        /\ IF Unambiguous(Matched)
           THEN step' = "found" /\ device' = candidates[CHOOSE i \in Matched : TRUE]
           ELSE step' = "lookup" /\ UNCHANGED device
    BY <1>8 DEF Pick, Matched
  <2>1. Scanned
    BY <1>e, <2>0 DEF ExactState, Scanned
  <2>2. Meant' = Meant
    BY <2>0 DEF Meant
  <2>3. CASE Unambiguous(Matched)
    <3> DEFINE d == candidates[CHOOSE i \in Matched : TRUE]
    <3>1. device' = d /\ step' = "found"
      BY <2>0, <2>3
    <3>2. \/ Meant = {d.card}
          \/ /\ d.path \in hint.text
             /\ \A c \in Meant : NameOf[c] \notin hint.text /\ LinkOf[c][1] = d.path
      BY <2>1, <2>3, OneMatch
    <3> HIDE DEF d
    <3>3. SelectionIsExact'
      BY <2>0, <2>2, <3>1, <3>2 DEF SelectionIsExact
    <3> QED  BY <3>1, <3>3 DEF ExactState
  <2>4. CASE ~Unambiguous(Matched)
    <3>1. step' = "lookup"
      BY <2>0, <2>4
    <3>2. Cardinality(Meant) # 1
      BY <2>1, <2>4, OneMeant
    <3>3. SelectionIsExact'
      BY <2>2, <3>1, <3>2 DEF SelectionIsExact
    <3>4. ~Exists(hint.path)'
      BY <1>e, <2>0, <2>1 DEF Scanned
    <3> QED  BY <3>1, <3>3, <3>4 DEF ExactState
  <2> QED  BY <2>3, <2>4
<1>9. CASE OpenNode
  <2>0. /\ step = "found" /\ step' \in {"open", "oserror"}
        /\ UNCHANGED <<world, hint, device>>
    BY <1>9 DEF OpenNode
  <2>1. SelectionIsExact'
    BY <1>e, <2>0, SelectionStays DEF ExactState
  <2> QED  BY <2>0, <2>1 DEF ExactState
<1>10. CASE Move
  <2>1. moves' = moves + 1
    BY <1>10 DEF Move, Plug, Unplug, Moved
  <2> QED  BY <1>w, <2>1
<1>11. CASE Stream
  <2>0. step' = "streaming"
    BY <1>11 DEF Stream
  <2> QED  BY <2>0, NothingSelected DEF ExactState
<1>12. CASE UNCHANGED discoveryVars
  <2>1. moves = 0 /\ Exists(hint.path)' = Exists(hint.path)
    BY <1>e, <1>12
  <2>2. /\ Labelled' = Labelled /\ Collected' = Collected
        /\ LabelledSoFar' = LabelledSoFar
    BY <1>12 DEF Labelled, LabelledSoFar, Collected, Available
  <2>3. SelectionIsExact'
    BY <1>12, <2>1, SelectionStays DEF ExactState
  <2> QED  BY <1>12, <2>1, <2>2, <2>3 DEF ExactState
<1>13. \/ Find \/ OpenNode \/ Move \/ Stream \/ UNCHANGED discoveryVars
  BY DEF ViewNext, viewVars, PutFrame, Handle, Stray
<1> QED  BY <1>1, <1>2, <1>3, <1>r, <1>4, <1>5, <1>6, <1>7, <1>8, <1>9, <1>10, <1>11,
            <1>12, <1>13 DEF Find

LEMMA DiscoveryInvariance == ViewSpec => []DiscoveryInv
<1>1. ViewInit => DiscoveryInv
  BY InitWorld, InitSearch, InitExact DEF ViewInit, DiscoveryInv
<1>2. DiscoveryInv /\ [ViewNext]_viewVars => DiscoveryInv'
  BY WorldStep, SearchStep, ExactStep DEF DiscoveryInv
<1> QED  BY <1>1, <1>2, PTL DEF ViewSpec

\* While nothing moves, a card is found by a text if and only if it is the only
\* one meant, but for twins behind one link: for any cards, nodes and links.
THEOREM SelectionIsExactHolds == ViewSpec => []SelectionIsExact
<1>1. DiscoveryInv => SelectionIsExact
  BY DEF DiscoveryInv, ExactState, SelectionIsExact
<1> QED  BY <1>1, DiscoveryInvariance, PTL

-----------------------------------------------------------------------------
\* The slot and its viewers in the program: the search and the server leave
\* them alone or take a step of theirs, so that what was proved of them holds.
THEOREM ViewerServed == ViewSpec => []SleepersHaveSeenIt /\ ServedNewest
<1>1. ViewInit => Init
  BY DEF ViewInit
<1>2. [ViewNext]_viewVars => [Next]_vars
  BY DEF ViewNext, viewVars, Stream, PutFrame, Handle, Stray, Next
<1>3. ViewSpec => Spec
  BY <1>1, <1>2, PTL DEF ViewSpec, Spec
<1> QED  BY <1>3, NoLostWakeup, NewestServed, PTL
=============================================================================
