SPECIFICATION RolloutSpec
CONSTANTS
    NumRuns = 2
    NumParticles = 2
    Iterations = 2
    MaxArchive = 2
    Averages <- SomeAverages
INVARIANTS
    TypeOK
    ArchiveIsAFront
    LeastPeakIsKept
    BestScoresLeast
    OutcomeFollowsTheBase
    ServesWhatItSays
