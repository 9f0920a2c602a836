CONSTANTS
    a = a
    b = b
    c = c
    me = me
    p = p
    q = q
    k1 = k1
    k2 = k2
    Self <- Zero
    Bits = 2
    K = 1
    STALE_AFTER = 1
    MaxAge = 2
    Nodes <- TwoNodes
    Gossip <- StaleGossip
    Sites = {a, b, c}
    Routable = {a, b}
    Ip <- TwoHosts
    Bootstrap = {a}
    Snapshots <- OldSnapshots
    Nowhere = Nowhere
    LEARN_PER_WINDOW = 1
    PENDING_TTL = 0
    VERIFY_BATCH = 1
    MAX_NODES_PER_MSG = 1
    MAX_PERSIST_NODES = 1
    MaxEvents = 1
    Ids = {me, p, q}
    Me = me
    Places = {a, b}
    Residents <- SomeResidents
    Tasks = {1, 2}
    Strict = FALSE
    None = None
    MaxFaults = 1
SPECIFICATION MCSpec
INVARIANTS
    VerifiedAnswered
    PinnedAddrProved
PROPERTIES
    Verifies
    PinKept
