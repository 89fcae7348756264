SPECIFICATION FairSpec
CONSTANTS
    N = 2
    Interval = 1
    Threshold = 2
    Window = 2
    Retries = 1
    Workers = 2
    Attempts = 1
    Delay = 1
    NoTarget = NoTarget
INVARIANTS
    TypeOK
    RecoveredWasTried
PROPERTIES
    OpenStopsTraffic
    OpensOnBurst
    PacedSlots
    ResetWhenQuiet
    QuarantineJustified
    StageEnds
CHECK_DEADLOCK FALSE
