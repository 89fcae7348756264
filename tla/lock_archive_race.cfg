SPECIFICATION Spec
CONSTANTS
    Runs = {r1, r2, r3}
    Operators = {}
    Inodes = {i1, i2, i3}
    NoFile = NoFile
    NoRun = NoRun
    Stale = 1
    ClearMin = 2
    MaxLag = 1
    ForceClear = FALSE
    LocalRecovery = FALSE
    InodeReuse = FALSE
    Patience = "none"
    Faults <- Crashes
SYMMETRY RunSymmetry
INVARIANTS
    MutualExclusion
CHECK_DEADLOCK FALSE
