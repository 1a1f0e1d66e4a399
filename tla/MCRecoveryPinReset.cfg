\* Expected to fail: the lockout of recover_profile.
CONSTANTS
    c1 = c1
    c2 = c2
    p1 = p1
    p2 = p2
    NoPin = NoPin
    Callers <- TwoCallers
    Pins <- TwoPins
    MaxTries = 3
    LockTime = 2
    MaxCalls = 6
SPECIFICATION PinSpec
CHECK_DEADLOCK FALSE
INVARIANTS
    RecoveryLocks
