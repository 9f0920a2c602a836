CONSTANTS
    Paths <- OnePath
    CaseVariants = {}
    PathOrder = {}
    MaxFiles = 3
    MaxTime = 1
    TrashDays = 0
    VersionDays = 0
    KeepVersions = 1
    Clients = {c1}
    None = None
SPECIFICATION Spec
PROPERTY RestoreLosesNothing
