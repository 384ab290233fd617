SPECIFICATION Spec
CONSTANTS
    Hi = 12
    Gap = 2
    RawValues <- SomeValues
INVARIANTS
    RepairedIsOrdered
    DeadOnlyWhereTheyTouch
PROPERTIES
    ForcingChangesNoVerdict
CHECK_DEADLOCK FALSE
