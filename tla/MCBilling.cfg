SPECIFICATION Spec
CONSTANTS
    Attempts = {a1, a2}
    Workers = {w1, w2}
    Estimate = 2
    Costs = {1, 3}
    Balance0 = 4
    Quota0 = 5
    MaxRetries = 2
    MaxCrashes = 1
    NoAttempt = NoAttempt
CHECK_DEADLOCK FALSE
INVARIANTS
    TypeOK
    MoneyMatchesLedger
    SuccessIsCharged
PROPERTIES
    HoldsReleased
