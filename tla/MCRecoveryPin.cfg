\* Enough calls to lock the address, wait, and be locked again at once.  The
\* calls are bounded, so the system stops.
CONSTANTS
    c1 = c1
    c2 = c2
    p1 = p1
    p2 = p2
    NoPin = NoPin
    Callers <- TwoCallers
    Pins <- TwoPins
    MaxTries = 3
    LockTime = 2
    MaxCalls = 7
SPECIFICATION PinSpec
SYMMETRY SessionSymmetry
CHECK_DEADLOCK FALSE
INVARIANTS
    LockoutWhileAlone
PROPERTIES
    LockHolds
