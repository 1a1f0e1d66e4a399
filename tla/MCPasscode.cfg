\* Four locks: the first passcode, the two of a change, and one more that is
\* cancelled, refused or passed; one fault.  Locks and faults run out, so the
\* system stops.
CONSTANTS
    p1 = p1
    p2 = p2
    NoPin = NoPin
    Pins <- TwoPins
    MaxAttempts = 2
    MaxLocks = 4
    MaxFaults = 1
SPECIFICATION Spec
SYMMETRY PinSymmetry
CHECK_DEADLOCK FALSE
INVARIANTS
    PadAnswers
    PadLocks
    PasscodesAgree
