\* Two holders; the price doubles, half way, and falls back.
CONSTANTS
    u1 = u1
    u2 = u2
    root = root
    fund = fund
    Fund = fund
    Nobody = Nobody
    Holders <- TwoHolders
    Admins <- OneAdmin
    VirtualShares = 2
    VirtualAssets = 1
    BpsDenom = 2
    MaxFeeBps = 1
    Scalar = 2
    Rates <- Prices
    Purse <- Purses
    MaxEpochs = 2
    MaxCalls = 4
SPECIFICATION FundSpec
INVARIANTS
    TypeOK
    SharesAccounted
    Solvent
    PrincipalKept
    NeverTaxedTwice
    FeeIsWorthItsRate
PROPERTIES
    PriceNeverFalls
    PrincipalIsNotYield
