SPECIFICATION Spec
CONSTANTS
    HasConversation = TRUE
    Reason <- BothReasons
    MaxGeneration = 3
    MaxPauses = 2
    MaxAttempts = 1
INVARIANTS TypeOK PauseFollowsRun OwnerIffRunning ResumesAnswered SlotFollowsRun
PROPERTIES TerminalIsFinal
