SPECIFICATION Spec
CONSTANTS
    HasConversation = FALSE
    Reason <- Questions
    MaxGeneration = 3
    MaxPauses = 2
    MaxAttempts = 2
PROPERTIES TerminalIsFinal
