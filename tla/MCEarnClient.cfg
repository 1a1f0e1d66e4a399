\* Deposit, withdraw and exit, in any order and overlapping.
\* Calls are one-shot, so the system stops when all are done.
CONSTANTS
    d1 = d1
    d2 = d2
    w1 = w1
    e1 = e1
    Deposits <- TwoDeposits
    Withdrawals <- OneWithdrawal
    Exits <- OneExit
    amount <- Amounts
    Funds = 3
    MaxInterest = 1
    MaxOpen = 2
    MaxCalls = 3
SYMMETRY DepositSymmetry
SPECIFICATION Spec
CHECK_DEADLOCK FALSE
INVARIANTS
    OnceUnlessSlipped
    EarnedIsInterest
