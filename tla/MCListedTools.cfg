SPECIFICATION Spec
CONSTANTS
    p1 = p1
    p2 = p2
    search = search
    render = render
    Peers = {p1, p2}
    Tools = {search, render}
    Channels = {c1, c2}
    Tasks = {}
    Reviews = {}
    None = None
    AutoTarget = AutoTarget
    Offers <- TwoOffers
    PeerOrder <- TwoPeers
    Handled = {search}
    Second = 3
    Timeout = 2
    Grace = 3
    KeepsKey = FALSE
    PeerCounts <- AllButOne
    Quorums = {1}
    MaxEvents = 3
INVARIANT
    ListedToolsAreActive
