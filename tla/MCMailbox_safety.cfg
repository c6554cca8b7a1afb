SPECIFICATION FairSpec
CONSTANTS
    p1 = p1
    p2 = p2
    g1 = g1
    g2 = g2
    NoOne = NoOne
    Poster = {p1, p2}
    Getter = {g1}
    Depth = 2
    MaxPosts = 3
    Mortal = {p1, p2, g1}
    Alertable = {g1}
    Timeouts = TRUE
INVARIANTS
    RingIntact
PROPERTIES
    ImplementsFifo
    Received
CHECK_DEADLOCK FALSE
