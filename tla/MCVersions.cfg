CONSTANTS
    Paths <- MCPaths
    CaseVariants <- MCCaseVariants
    PathOrder <- MCPathOrder
    MaxFiles = 2
    MaxTime = 1
    TrashDays = 0
    VersionDays = 0
    KeepVersions = 1
    Clients = {c1}
    None = None
SPECIFICATION Spec
INVARIANTS
    TypeOK
    RetiredParked
    PathsDistinct
PROPERTIES
    VisiblePathKept
    ImplementsTree
