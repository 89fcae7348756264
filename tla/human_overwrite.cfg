SPECIFICATION Spec
CONSTANTS
    N = 1
    Policies <- ApplyOnce
    Planned <- MCPlanned
    MaxEdits = 1
    MaxExecutions = 1
PROPERTIES
    HumanDecisionsSurvive
CHECK_DEADLOCK FALSE
