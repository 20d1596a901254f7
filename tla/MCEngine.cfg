SPECIFICATION Spec
CONSTANTS
    a = a
    b = b
    c = c
    Node = {a, b, c}
    NoNode = NoNode
    Handle <- MCHandle
    Graphs <- MCGraphs
    Outcomes <- MCOutcomes
    RequestedConcurrency = 2
    Requests = {"stop", "cancel"}
INVARIANTS
    TypeOK RunsAtMostOnce LeasesAccounted ReturnsQuiescent NilMeansComplete
PROPERTY ImplementsDag
CHECK_DEADLOCK FALSE
