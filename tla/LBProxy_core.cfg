SPECIFICATION Spec
CONSTANTS
    NumNodes = 2
    Requests = {r1, r2, r3}
    Resetters = {}
    Routable <- BothNodes
    Algorithm = "rr"
    Latencies <- OneLatency
    DecisionCap = 1
    ResponseCap = 1
    NoOne = NoOne
SYMMETRY HandlerSymmetry
INVARIANTS
    TypeOK
    InflightExact
    DecisionNeverUnderestimates
    LatencyCanDecay
    RotationIsFair
CHECK_DEADLOCK FALSE
