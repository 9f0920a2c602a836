CONSTANTS
    Peers = {p1, p2}
    Data = 1
    Parity = 2
    CriticalMargin = 1
    DownThreshold = 2
    Buckets = 2
    Full = {}
    MaxEvents = 2
    Overlap = FALSE
    None = None
SPECIFICATION FairSpec
INVARIANTS
    MovesLoseNothing
PROPERTIES
    Heals
