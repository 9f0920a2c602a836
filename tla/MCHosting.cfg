CONSTANTS
    o1 = o1
    f1 = f1
    f2 = f2
    f3 = f3
    Owners = {o1}
    Fragments = {f1, f2, f3}
    OwnerOf <- MCOwnerOf
    Parity = {f2}
    Sizes = {1, 2}
    Contributed = 3
    Handlers = {h1, h2}
    Sweeper = Sweeper
    ReclaimAt = 1
    EvictAt = 2
    None = None
SPECIFICATION Spec
CONSTRAINT Untainted
SYMMETRY HostingSymmetry
INVARIANTS
    HostedExact
    RecordBacked
    CapOvershootBounded
PROPERTY DataKeptUntilEviction
