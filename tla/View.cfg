\* The search for a card, then two viewers with timeouts.
SPECIFICATION ViewSpec
CONSTANTS
    Consumers = {c1, c2}
    MaxPuts = 3
    MayTimeOut = TRUE
    card = card
    twin = twin
    camera = camera
    link = link
    metaLink = metaLink
    model = model
    other = other
    Cards = {card, twin, camera}
    Linked = {card, twin}
    Deniable = {card, twin, camera}
    LinkOf <- MCLinkOf
    NameOf <- MCNameOf
    Nodes <- MCNodes
    Hints <- MCHints
    MaxMoves = 2
INVARIANTS
    SleepersHaveSeenIt
    SelectionIsExact
    StreamIsWhatItIsCalled
PROPERTIES
    ServedNewest
    NewFrameIsServed
\* The program ends when no card is found or the device cannot be opened.
CHECK_DEADLOCK FALSE
