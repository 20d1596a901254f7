SPECIFICATION FairSpec
CONSTANTS
    HasConversation = TRUE
    Reason <- Questions
    MaxGeneration = 3
    MaxPauses = 2
    MaxAttempts = 1
PROPERTIES OrphanFinalized AnsweredResumes
