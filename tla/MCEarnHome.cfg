\* Two calls, of which one may be made while the other goes on, and a load.
\* Calls and loads are one-shot, so the system stops when all are done.
CONSTANTS
    d1 = d1
    d2 = d2
    w1 = w1
    e1 = e1
    l1 = l1
    Deposits <- TwoDeposits
    Withdrawals <- OneWithdrawal
    Exits <- OneExit
    amount <- Amounts
    MaxInterest = 2
    MaxOpen = 2
    MaxAsked = 2
    MaxFaults = 1
    Loads <- OneLoad
    Unread = Unread
    Unknown = Unknown
SYMMETRY DepositSymmetry
SPECIFICATION HomeSpec
CHECK_DEADLOCK FALSE
INVARIANTS
    ShownIsInterest
    ChartIsInterest
