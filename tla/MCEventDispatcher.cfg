SPECIFICATION Spec
CONSTANTS
    Gens <- MCGens
    Threads <- MCThreads
    Script <- MCScript
    BatchCount = 2
    QueueSize = 1
    Forms = {"form"}
CHECK_DEADLOCK FALSE
INVARIANTS
    TypeOK
    SequencesDense
    LiveIsReplay
    ChildrenFollowTheirRound
    NothingLost
    EveryWaiterServed
PROPERTIES
    WritesTheLog
