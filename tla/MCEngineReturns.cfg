SPECIFICATION FairSpec
CONSTANTS
    a = a
    b = b
    c = c
    Node = {a, b, c}
    NoNode = NoNode
    Handle <- MCHandle
    Graphs <- ShapeGraphs
    Outcomes <- MCOutcomes
    RequestedConcurrency = 0
    Requests = {"cancel"}
PROPERTY ExecuteReturns
