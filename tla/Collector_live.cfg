SPECIFICATION FairSpec
CONSTANTS
    Nodes = {n1}
    NoNode = NoNode
    TTL = 3
    Lead = 1
    Lag = 1
    StaleAfter = 1
    DecayWindow = 2
    Timeout = 1
    MaxAge = 6
    MaxResets = 1
    MaxChanges = 2
INVARIANTS
    TypeOK
    FullWeightIsRecent
PROPERTIES
    ImplementsReadings
    StartupCompletes
    ReadingsComeBack
    DeadBackendFades
