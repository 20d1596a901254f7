SPECIFICATION Spec
CONSTANTS
    Forms = {f1, f2}
    Actions = {approve, reject}
    Expired = Expired
    None = None
    MaxErrors = 2
CHECK_DEADLOCK FALSE
INVARIANTS
    TypeOK
    ResumedByAnswers
    BranchIsJustified
PROPERTIES
    FirstSubmissionStands
    FormsAreClosed
