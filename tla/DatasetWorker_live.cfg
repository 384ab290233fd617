SPECIFICATION FairSpec
CONSTANTS
    Nodes = {n1}
    Latencies <- SomeLatencies
    DecisionCap = 1
    ResponseCap = 1
    MaxDecisions = 2
    MaxResponses = 2
    MaxTicks = 2
    MaxFailures = 1
    MaxClears = 0
    Cuts = {8}
    MaxRestarts = 1
INVARIANT LatencyIsAnAverage
PROPERTIES
    ChannelsAreServed
    WindowIsRecorded
CHECK_DEADLOCK FALSE
