SPECIFICATION Spec
CONSTANTS
    Runs = {r1, r2}
    Operators = {}
    Inodes = {i1, i2}
    NoFile = NoFile
    NoRun = NoRun
    Stale = 1
    ClearMin = 2
    MaxLag = 1
    ForceClear = FALSE
    LocalRecovery = TRUE
    InodeReuse = FALSE
    Patience = "none"
    Faults <- Sigterms
INVARIANTS
    SigtermReleases
CHECK_DEADLOCK FALSE
