CONSTANTS
    Procs = {p1, p2}
    MaxFiles = 4
    Size <- AlternatingSize
    SmallMax = 2
    PackTarget = 5
    PackMagic <- Magic
    MinLivePct = 16
    MaxStranded = 2
    Corrupt = Corrupt
    None = None
SPECIFICATION Spec
SYMMETRY ProcSymmetry
INVARIANTS
    
    
    NothingLeaks
CHECK_DEADLOCK FALSE
