CONSTANTS
    p1 = p1
    p2 = p2
    h1 = h1
    h2 = h2
    h3 = h3
    Peers = {p1, p2}
    Hashes = {h1, h2}
    Blobs = {h2}
    MaxTxAnnounces = 3
    MaxTxRetrievals = 1
    TxArriveTimeout = 1
    TxGatherSlack = 1
    TxFetchTimeout = 2
    MaxTriggers = 1
    NoPeer = NoPeer
    NoRequest = NoRequest
SPECIFICATION Spec
SYMMETRY Symmetry
CHECK_DEADLOCK FALSE

INVARIANTS
    BookkeepingOK
    TimersArmed
    NoStall

PROPERTIES
    RequestKept
