SPECIFICATION FairSpec
CONSTANTS
    p1 = p1
    p2 = p2
    search = search
    render = render
    Peers = {p1, p2}
    Tools = {search, render}
    Channels = {c1, c2}
    Tasks = {t1}
    Reviews = {r1}
    None = None
    AutoTarget = AutoTarget
    Offers <- TwoOffers
    PeerOrder <- TwoPeers
    Handled = {search}
    Second = 3
    Timeout = 2
    Grace = 3
    KeepsKey = TRUE
    PeerCounts <- AllButOne
    Quorums = {1}
    MaxEvents = 3
INVARIANTS
    TypeOK
    AcceptedOnce
    TokenOutlivesWait
PROPERTIES
    SentCallsEnd
