CONSTANTS
    Paths <- OnePath
    CaseVariants = {}
    PathOrder = {}
    MaxFiles = 3
    MaxTime = 1
    TrashDays = 0
    VersionDays = 1
    KeepVersions = 1
    Clients = {c1}
    None = None
SPECIFICATION FairSpec
PROPERTIES
    OnlyTheCapDooms
    HistoryNotStranded
