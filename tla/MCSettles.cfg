CONSTANTS
    Workers = {w1}
    Callers = {c1}
    CoalescedKinds = {"repair"}
    PlainKinds = {"repack_small"}
    Fragments = {f1}
    MaxJobs = 4
    MaxEnqueued = 2
    MaxFaults = 1
    GcMaxAttempts = 2
    StaleHours = 1
    None = None
SPECIFICATION FairSpec
PROPERTIES
    EveryJobSettles
