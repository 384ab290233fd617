SPECIFICATION ReplaySpec
CONSTANTS
    NumNodes = 2
    CPUCap <- Capacities
    OutputMF <- Output
    Profiles <- SomeProfiles
    RawCPUs <- SomeCPUs
    Queues <- SomeQueues
    RespTimes <- SomeTimes
    RequestCounts <- SomeCounts
    OSIdles <- SomeIdles
INVARIANTS
    TypeOK
    NobodyStarves
    LessLoadScoresNoLess
    TrainerPredictsTheRoulette
    ReplayFollowsTheShift
CHECK_DEADLOCK FALSE
