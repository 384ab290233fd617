SPECIFICATION FairSpec
CONSTANTS
    NumNodes = 2
    Requests = {r1, r2}
    Resetters = {x1}
    Routable <- FirstNode
    Algorithm = "fuzzy"
    Latencies <- OneLatency
    DecisionCap = 1
    ResponseCap = 1
    NoOne = NoOne
INVARIANTS
    InflightNeverOverstates
    NegativeOnlyWhileClamping
PROPERTIES
    ImplementsDispatcher
    ArrivalsAreDispatched
    HandlersFinish
CHECK_DEADLOCK FALSE
