\* Every interleaving of two sends, two recoveries, a closing and the freeze.
CONSTANTS
    s1 = s1
    s2 = s2
    r1 = r1
    r2 = r2
    c1 = c1
    Master = Master
    Sends <- TwoSends
    CashOuts <- OneCashOut
    amount <- SmallAmounts
    Recoveries <- TwoRecoveries
    Closings <- OneClosing
    Funds = 2
    MaxFunds = 2
SPECIFICATION Spec
SYMMETRY RecoverySymmetry
INVARIANTS
    OneKeyWhileApart
    RevokedStaysDead
    PayoutsAreSettled
PROPERTIES
    FreezeHolds
