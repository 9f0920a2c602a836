CONSTANTS
    Workers = {w1, w2}
    Callers = {c1, c2}
    CoalescedKinds = {"repair"}
    PlainKinds = {}
    Fragments = {f1}
    MaxJobs = 3
    MaxEnqueued = 3
    MaxFaults = 1
    GcMaxAttempts = 2
    StaleHours = 1
    None = None
SPECIFICATION Spec
SYMMETRY JobsSymmetry
INVARIANTS
    ClaimExclusive
    CoalescedBounded

    
