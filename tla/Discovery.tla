----------------------------- MODULE Discovery ------------------------------
(***************************************************************************)
(* device.find_capture_card of vcap_py and the open() of the device it     *)
(* returned, on a machine whose cards come and go meanwhile.               *)
(*                                                                         *)
(* The kernel and udev are external, as docs/hardware.md describes them: a *)
(* card takes two nodes, for video and for metadata, whose numbers are not *)
(* stable, with a by-id link to each; cards of one model may have the same *)
(* links, which then lead to one of them only.  Each look at the machine   *)
(* is a step of its own, but for the listing of a directory.               *)
(***************************************************************************)
EXTENDS Integers, Sequences, FiniteSetsExt, SequencesExt

CONSTANTS
    Cards,   \* capture cards and cameras
    Nodes,   \* the numbers of the nodes /dev/videoN
    LinkOf,  \* the by-id links of each card, to its video and metadata nodes
    Linked,  \* the cards that have them
    NameOf,  \* the card name of each, as its driver reports it
    Deniable, \* cards whose nodes this user may lack the rights to open
    Hints,   \* what the caller may ask for: [path, text], a text being the
             \* set of the paths and card names it occurs in
    MaxMoves \* bound: cards plugged or unplugged while it is searched

NoHint == [path |-> -1, text |-> {}]

ASSUME CardsAssumption ==
    /\ IsFiniteSet(Cards) /\ IsFiniteSet(Nodes) /\ Nodes \subseteq Nat
    /\ Linked \subseteq Cards /\ Deniable \subseteq Cards
    /\ MaxMoves \in Nat

Kinds == 1..2 \* of nodes: video, metadata

Links == {LinkOf[c][k] : c \in Linked, k \in Kinds}

Gone == -1

\* The name of a link is no node, and says what it leads to; it is made of what
\* the card says of itself, so that cards that share it are of one name.
ASSUME LinksAssumption ==
    /\ Links \cap (Nodes \cup {Gone}) = {}
    /\ \A c, d \in Linked :
          /\ LinkOf[c][1] # LinkOf[d][2]
          /\ LinkOf[c][1] = LinkOf[d][1] => NameOf[c] = NameOf[d]

\* A text that is not the path of a node occurs in no such path: what it means
\* is a name or a link, not a number.
ASSUME HintsAssumption == \A h \in Hints \cup {NoHint} : h.text \cap Nodes \subseteq {h.path}

NoDevice == [path |-> Gone]

VARIABLES
    place,  \* the video node of each card, or Gone; the next is its other one
    links,  \* the node each link leads to, or Gone
    denied, \* the cards this user may not open
    moves,  \* cards that were plugged or unplugged
    hint,
    step,  \* "start"; "query" the path given; "links" of enumerate_devices,
           \* "resolve" each, "scan" the next node, "ask" it; "found";
           \* "open" when its node was, then "streaming"; "lookup" or "oserror", when that
           \* error was raised
    byNode,     \* by_node, with the node itself where no link leads
    todo,       \* the links not yet resolved, then the nodes not yet scanned
    path, node, \* of the open_device() under way
    seen,       \* history: moves when path was resolved
    candidates, \* the capture devices found so far
    device      \* the one returned

world == <<place, links, denied, moves>>
search == <<byNode, todo, path, node, seen, candidates>>
discoveryVars == <<world, hint, step, search, device>>

At(n) == {c \in Cards : place[c] # Gone /\ n \in {place[c], place[c] + 1}}
IsVideo(n) == \E c \in Cards : place[c] = n

\* Where a link may lead, when the cards are at these places.
Targets(l, p) ==
    {n \in Nodes : \E c \in Linked, k \in Kinds :
        LinkOf[c][k] = l /\ p[c] # Gone /\ n = p[c] + k - 1}

\* Room for both nodes of a card.
Room(n) == {n, n + 1} \subseteq Nodes /\ At(n) \cup At(n + 1) = {}

\* Who may not open a card may not open its twin: udev gives the rights by what
\* a card is, as it gives the links.
DeniedAlike ==
    \A c, d \in Linked : LinkOf[c][1] = LinkOf[d][1] /\ c \in denied => d \in denied

DiscoveryInit ==
    /\ place \in [Cards -> Nodes \cup {Gone}]
    /\ \A n \in Nodes : Cardinality(At(n)) <= 1
    /\ \A c \in Cards : place[c] # Gone => place[c] + 1 \in Nodes
    /\ links \in [Links -> Nodes \cup {Gone}]
    /\ \A l \in Links : IF Targets(l, place) = {} THEN links[l] = Gone
                        ELSE links[l] \in Targets(l, place)
    /\ denied \in SUBSET Deniable /\ DeniedAlike
    /\ moves = 0
    /\ hint \in Hints
    /\ step = "start"
    /\ byNode = [n \in Nodes |-> n] /\ todo = {}
    /\ path = Gone /\ node = Gone /\ seen = 0
    /\ candidates = <<>> /\ device = NoDevice

-----------------------------------------------------------------------------
(* The machine.                                                            *)

Moved ==
    /\ moves < MaxMoves /\ moves' = moves + 1
    /\ UNCHANGED <<denied, hint, step, search, device>>

\* A card gets two free nodes, and its links lead to the newcomer.
Plug(c) ==
    /\ Moved
    /\ place[c] = Gone
    /\ \E n \in Nodes :
        /\ Room(n)
        /\ place' = [place EXCEPT ![c] = n]
        /\ links' = [l \in Links |-> IF c \notin Linked THEN links[l]
                                  ELSE IF l = LinkOf[c][1] THEN n
                                  ELSE IF l = LinkOf[c][2] THEN n + 1 ELSE links[l]]

\* Its nodes go, and its links go over to a twin, if there is one.
Unplug(c) ==
    /\ Moved
    /\ place[c] # Gone
    /\ place' = [place EXCEPT ![c] = Gone]
    /\ links' = [l \in Links |->
            IF links[l] \notin {place[c], place[c] + 1} THEN links[l]
            ELSE IF Targets(l, place') = {} THEN Gone ELSE Min(Targets(l, place'))]

-----------------------------------------------------------------------------
(* find_capture_card(hint)                                                 *)

\* os.path.realpath
Resolve(p) == IF p \in Links THEN links[p] ELSE p

\* os.path.exists
Exists(p) == Resolve(p) # Gone /\ At(Resolve(p)) # {}

\* open_device(p), as far as os.path.realpath
OpenDevice(p) == path' = p /\ node' = Resolve(p) /\ seen' = moves

\* A path that exists is taken at its word.
StartWithPath ==
    /\ step = "start" /\ Exists(hint.path)
    /\ OpenDevice(hint.path)
    /\ step' = "query"
    /\ UNCHANGED <<world, hint, byNode, todo, candidates, device>>

StartSearch ==
    /\ step = "start" /\ ~Exists(hint.path)
    /\ step' = "links"
    /\ UNCHANGED <<world, hint, search, device>>

\* glob of the by-id links
ListLinks ==
    /\ step = "links"
    /\ todo' = {l \in Links : links[l] # Gone}
    /\ step' = "resolve"
    /\ UNCHANGED <<world, hint, byNode, path, node, seen, candidates, device>>

\* Where one of them leads by now, in the order of their names, which may be
\* any; the first that leads to a node is kept.
ResolveLink ==
    /\ step = "resolve"
    /\ \E l \in todo :
        /\ byNode' = [n \in Nodes |-> IF links[l] = n /\ byNode[n] = n THEN l ELSE byNode[n]]
        /\ todo' = todo \ {l}
    /\ UNCHANGED <<world, hint, step, path, node, seen, candidates, device>>

\* glob of the nodes
ListNodes ==
    /\ step = "resolve" /\ todo = {}
    /\ todo' = {n \in Nodes : At(n) # {}}
    /\ step' = "scan"
    /\ UNCHANGED <<world, hint, byNode, path, node, seen, candidates, device>>

\* Mutant: the listed node is opened, by the link that led there then.
OpenListed(n) == path' = byNode[n] /\ node' = n /\ seen' = moves

OpenByLink(n) == OpenDevice(byNode[n])

Scan ==
    /\ step = "scan" /\ todo # {}
    /\ OpenByLink(Min(todo))
    /\ todo' = todo \ {Min(todo)}
    /\ step' = "ask"
    /\ UNCHANGED <<world, hint, byNode, candidates, device>>

CanOpen(n) == n # Gone /\ At(n) \ denied # {}

\* os.open and QUERYCAP: whatever is at the node by now
Queried == [path |-> path, node |-> node, seen |-> seen, card |-> CHOOSE c \in At(node) : TRUE]

QueryPath ==
    /\ step = "query"
    /\ IF CanOpen(node) THEN step' = "found" /\ device' = Queried
                        ELSE step' = "oserror" /\ UNCHANGED device
    /\ UNCHANGED <<world, hint, search>>

\* Mutant: metadata nodes are not left out.
AnyNode(n) == CanOpen(n)

IsCapture(n) == CanOpen(n) /\ IsVideo(n)

\* A node that cannot be opened is passed over.
Ask ==
    /\ step = "ask"
    /\ candidates' = IF IsCapture(node) THEN Append(candidates, Queried) ELSE candidates
    /\ step' = "scan"
    /\ UNCHANGED <<world, hint, byNode, todo, path, node, seen, device>>

Matches(d) == hint = NoHint \/ {d.path, NameOf[d.card]} \cap hint.text # {}

Unambiguous(matched) == Cardinality(matched) = 1

\* The locals of the search go when it returns.
Pick ==
    /\ step = "scan" /\ todo = {}
    /\ LET matched == {i \in DOMAIN candidates : Matches(candidates[i])}
       IN  IF Unambiguous(matched)
           THEN step' = "found" /\ device' = candidates[CHOOSE i \in matched : TRUE]
           ELSE step' = "lookup" /\ UNCHANGED device
    /\ byNode' = [n \in Nodes |-> n] /\ path' = Gone /\ node' = Gone
    /\ seen' = 0 /\ candidates' = <<>>
    /\ UNCHANGED <<world, hint, todo>>

\* os.open(device.node) of VideoSource.open: the node, not the path.  A
\* metadata node has no video format to set.
OpenNode ==
    /\ step = "found"
    /\ step' = IF IsCapture(device.node) THEN "open" ELSE "oserror"
    /\ UNCHANGED <<world, hint, search, device>>

-----------------------------------------------------------------------------
Find == StartWithPath \/ StartSearch \/ QueryPath \/ ListLinks \/ ResolveLink \/ ListNodes
          \/ Scan \/ Ask \/ Pick

\* Cards come and go until the device streams or the search has failed.
Move == step \notin {"open", "lookup", "oserror", "streaming"} /\ \E c \in Cards : Plug(c) \/ Unplug(c)

-----------------------------------------------------------------------------
(* Properties.                                                             *)

\* The cards that the hint means, by name or by link, among those there are.
Meant ==
    {c \in Cards \ denied :
        place[c] # Gone /\
            (hint = NoHint \/ ({NameOf[c]} \cup {LinkOf[d][1] : d \in {c} \cap Linked})
                                 \cap hint.text # {})}

\* While nothing moves: a card is found by a text if and only if it is the
\* only one meant, whatever nodes it and the others have.  The program never
\* guesses, but between twins behind one link when asked for that link.
SelectionIsExact ==
    moves = 0 =>
        /\ step \in {"found", "open"} /\ ~Exists(hint.path) =>
              \/ Meant = {device.card}
              \/ /\ device.path \in hint.text
                 /\ \A c \in Meant : NameOf[c] \notin hint.text /\ LinkOf[c][1] = device.path
        /\ step = "lookup" => Cardinality(Meant) # 1

\* What streams is what the device is called, if nothing moved since its path
\* was resolved, however much did while the others were looked at: so that
\* the manifest names the card that was recorded.
StreamIsWhatItIsCalled ==
    (step = "open" /\ moves = device.seen) =>
        /\ place[device.card] = device.node
        /\ device.path \in Links => device.card \in Linked /\ LinkOf[device.card][1] = device.path
=============================================================================
