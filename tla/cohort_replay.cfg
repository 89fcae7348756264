SPECIFICATION Spec
CONSTANTS
    N = 2
    Destinations = 1
    Retain = 1
    MaxModified = 1
    MaxReplays = 1
    Failing <- AllButConsumer
INVARIANTS
    RefusedForContents
PROPERTIES
    DeliversVerified
    KeepsPromise
CHECK_DEADLOCK FALSE
