\* Two people and one name nobody has: three things happen, requests, send
\* screens or changes of name, and one call is lost.  They run out, so the
\* system stops.
CONSTANTS
    u1 = u1
    u2 = u2
    Users <- TwoUsers
    Names <- ThreeNames
    FirstName <- FirstNames
    Amounts <- TwoAmounts
    Fund = 1
    MaxWork = 3
    MaxFaults = 1
SPECIFICATION Spec
CHECK_DEADLOCK FALSE
INVARIANTS
    PaidIsPaid
    PaysOnce
    NameLeadsHome
