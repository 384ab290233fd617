SPECIFICATION Spec
CONSTANTS
    Nodes = {n1, n2}
    Latencies <- SomeLatencies
    DecisionCap = 1
    ResponseCap = 1
    MaxDecisions = 2
    MaxResponses = 0
    MaxTicks = 3
    MaxFailures = 2
    MaxClears = 1
    Cuts <- SomeCuts
    MaxRestarts = 2
SYMMETRY NodeSymmetry
INVARIANTS
    TypeOK
    NothingForgotten
    CountedOnce
    TrainerReadsWhatWasSent
    OneBadLinePerRun
PROPERTIES
    OnDiskStays
    ImplementsLedger
CHECK_DEADLOCK FALSE
