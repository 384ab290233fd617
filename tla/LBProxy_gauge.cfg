SPECIFICATION Spec
CONSTANTS
    NumNodes = 1
    Requests = {r1, r2}
    Resetters = {}
    Routable <- FirstNode
    Algorithm = "fuzzy"
    Latencies <- OneLatency
    DecisionCap = 1
    ResponseCap = 1
    NoOne = NoOne
INVARIANT GaugeShowsInflight
CHECK_DEADLOCK FALSE
