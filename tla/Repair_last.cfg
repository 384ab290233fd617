SPECIFICATION Spec
CONSTANTS
    Hi = 12
    Gap = 2
    RawValues <- SomeValues
INVARIANT LastResortIsSane
CHECK_DEADLOCK FALSE
