CONSTANTS
    PackMagic <- MagicCells
    PackTarget = 3
    Corrupt = Corrupt
    IdSet <- FileIds
    DataSet <- Contents
    MaxEntries = 3
    Data = 2
    Total = 4
    Unreadable = Unreadable
    MaxShards = 4
    MaxPending = 3
    Margins = {0, 1, 2}
    MaxDegraded = 6
    Window = 2
    MaxChunks = 3
    N = 3
    Zones = {z1, z2}
    Unknown = Unknown
    Rtts = {1, 40}
    Reliabilities = {50, 100}
    Totals = {5, 9}
    Parity = 2
SPECIFICATION MCSpec
SYMMETRY ZoneSymmetry
INVARIANTS
    PacksExact
    BackupRebuilt
    DownloadSound
    MostEndangeredFirst
    CapsKept
    SurvivesAZone
PROPERTY EvictsOnlySilent
CHECK_DEADLOCK FALSE
