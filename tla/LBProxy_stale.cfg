SPECIFICATION Spec
CONSTANTS
    NumNodes = 1
    Requests = {r1}
    Resetters = {x1}
    Routable <- FirstNode
    Algorithm = "fuzzy"
    Latencies <- OneLatency
    DecisionCap = 1
    ResponseCap = 1
    NoOne = NoOne
INVARIANT StaleLatencyDecays
CHECK_DEADLOCK FALSE
