SPECIFICATION FairSpec
CONSTANTS
    Runs = {r1, r2}
    Operators = {}
    Inodes = {i1, i2, i3}
    NoFile = NoFile
    NoRun = NoRun
    Stale = 2
    ClearMin = 3
    MaxLag = 1
    ForceClear = FALSE
    LocalRecovery = TRUE
    InodeReuse = FALSE
    Patience = "forever"
    Faults <- Crashes
INVARIANTS
    TypeOK
    MutualExclusion
    HolderKeepsFile
    ReleaseLeavesNothing
PROPERTIES
    WaiterServed
CHECK_DEADLOCK FALSE
