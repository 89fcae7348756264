SPECIFICATION FairSpec
CONSTANTS
    N = 2
    Destinations = 2
    Retain = 1
    MaxModified = 0
    MaxReplays = 0
    Failing <- Tasks
INVARIANTS
    TypeOK
    UnfinishedSurvives
    NewestSurvive
PROPERTIES
    WorkflowsEnd
CHECK_DEADLOCK FALSE
