SPECIFICATION FeedSpec
CONSTANTS
    a1 = a1
    a2 = a2
    j1 = j1
    j2 = j2
    Accounts <- TwoAccounts
    Jobs <- TwoJobs
    MaxPaid = 1
    MaxBreaks = 1
    Nobody = Nobody
SYMMETRY Alike
INVARIANTS ShownIsDue ShownIsMine StarsKept ContactsAreMine
