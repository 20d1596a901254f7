SPECIFICATION Spec
CONSTANTS
    Forms = {f1, f2}
    Actions = {approve, reject}
    Expired = Expired
    None = None
    MaxErrors = 0
CHECK_DEADLOCK FALSE
PROPERTY ExpiredContinues
