SPECIFICATION Spec
CONSTANTS
    Entry <- MCEntry
    Repeatable = {}
    Batches <- MCBatches
    Instances = {i1, i2}
    Clients = {c1}
    MaxLog = 3
    QueueSize = 1
    TailLimit = 2
    Window = 2
    ReadLimit = 2
    MaxCuts = 1
CHECK_DEADLOCK FALSE
INVARIANTS
    TypeOK
    ReceivesLogInOrder
    EndsAtTerminal
PROPERTIES
    EventuallyDelivered
