\* Two intents of one user and one of another, three deliveries.
\* Requests are one-shot, so the system stops when all are done.
CONSTANTS
    i1 = i1
    i2 = i2
    i3 = i3
    ana = ana
    ben = ben
    d1 = d1
    d2 = d2
    d3 = d3
    NoIntent = NoIntent
    Intents <- ThreeIntents
    Addresses <- TwoUsers
    owner <- TwoForAna
    Deliveries <- ThreeDeliveries
SPECIFICATION Spec
SYMMETRY DeliverySymmetry
CHECK_DEADLOCK FALSE
INVARIANTS
    PaidOnceWhileSure
    DeliveredIsPaid
    OneOpenWhileTidy
PROPERTIES
    FundedIntentsStand
