SPECIFICATION Spec
CONSTANTS
    Runs = {r1, r2}
    Operators = {o1}
    Inodes = {i1, i2}
    NoFile = NoFile
    NoRun = NoRun
    Stale = 1
    ClearMin = 2
    MaxLag = 1
    ForceClear = FALSE
    LocalRecovery = TRUE
    InodeReuse = TRUE
    Patience = "some"
    Faults <- AllFaults
SYMMETRY RunSymmetry
INVARIANTS
    HeartbeatTouchesOwn
CHECK_DEADLOCK FALSE
