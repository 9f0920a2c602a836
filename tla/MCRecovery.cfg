CONSTANTS
    Peers = {1, 2}
    Data = 2
    Total = 3
    Unreadable = Unreadable
    Keep = 1
    Depth = 1
    Lookback = 1
    RestoreFirst = TRUE
    Quiet = TRUE
    MaxDay = 1
    MaxBlobs = 2
    MaxEdits = 1
    MaxIds = 3
    MaxFaults = 1
    Torn = Torn
    None = None
SPECIFICATION FairSpec
INVARIANTS
    RecordedRestorable
    Protected
PROPERTIES
    RestoreExact
    
    Recovers
CHECK_DEADLOCK FALSE
