SPECIFICATION Spec
CONSTANTS
    N = 2
    Policies <- MCPolicies
    Planned <- MCPlanned
    MaxEdits = 1
    MaxExecutions = 2
INVARIANTS
    TypeOK
    AppliedOnce
    SuccessIsTrue
PROPERTIES
    DecisionBeforeReadSurvives
CHECK_DEADLOCK FALSE
