SPECIFICATION FairSpec
CONSTANTS
    a = a
    b = b
    c = c
    d = d
    Node = {a, b, c, d}
    Handle <- MCHandle
    Graphs <- MCGraphs
    Outcomes <- MCOutcomes
INVARIANTS TypeOK RunsToEndOnce
PROPERTIES DecidesAfterUpstreams BranchesAsEngine LoopEnds
