----------------------------- MODULE EarnVault -----------------------------
(***************************************************************************)
(* The Earn vault contract: one pooled Blend position, shares priced       *)
(* against its live value, and a performance fee taken by minting shares   *)
(* to a fee recipient whenever the retained profit passes its all-time     *)
(* peak.                                                                   *)
(*                                                                         *)
(* A contract call is atomic and a panic rolls it back, so every call is   *)
(* one action and every panic a guard.  Numbers are the contract's i128    *)
(* amounts, divisions round as its divisions do, and the four scales of    *)
(* the contract (VIRTUAL_SHARES, VIRTUAL_ASSETS, BPS_DENOM, SCALAR_12) are *)
(* parameters, because rounding is what can go wrong here.                 *)
(*                                                                         *)
(* Blend and the USDC token are external: bTokens is the vault's position, *)
(* rate its b_rate, wallet the USDC of each address.                       *)
(***************************************************************************)
EXTENDS Integers, FiniteSets, Functions

CONSTANTS
    Holders,        \* addresses that may hold shares
    Admins,         \* addresses that may be asked to administer
    Nobody,         \* no pending admin
    VirtualShares,  \* VIRTUAL_SHARES
    VirtualAssets,  \* VIRTUAL_ASSETS
    BpsDenom,       \* BPS_DENOM
    MaxFeeBps,      \* MAX_FEE_BPS
    Scalar,         \* SCALAR_12
    Rates,          \* the values b_rate takes
    Purse,          \* USDC each address starts with
    MaxEpochs,      \* bound: how often b_rate changes
    MaxCalls        \* bound: how many deposits and withdrawals

ASSUME PartiesAssumption ==
    /\ Holders # {} /\ IsFiniteSet(Holders)
    /\ Admins # {} /\ Nobody \notin Admins
ASSUME ScalesAssumption ==
    /\ VirtualShares \in Nat \ {0} /\ VirtualAssets \in Nat \ {0}
    /\ BpsDenom \in Nat \ {0} /\ MaxFeeBps \in 0 .. BpsDenom
    /\ Scalar \in Nat \ {0} /\ Rates \subseteq Nat \ {0} /\ Rates # {}
ASSUME MoneyAssumption == Purse \in [Holders -> Nat] 
ASSUME BoundsAssumption == MaxEpochs \in Nat /\ MaxCalls \in Nat

VARIABLES
    shares,         \* DataKey::Shares
    totalShares,    \* DataKey::TotalShares
    netDeposits,    \* DataKey::NetDeposits
    highWaterMark,  \* DataKey::HighWaterMark
    feeBps,         \* DataKey::FeeBps
    feeRecipient,   \* DataKey::FeeRecipient
    admin,          \* DataKey::Admin
    pendingAdmin,   \* DataKey::PendingAdmin
    bTokens,        \* Blend: the vault's supply position
    rate,           \* Blend: b_rate
    wallet,         \* token: USDC balances
    epoch,          \* number of rate changes so far
    calls,          \* number of deposits and withdrawals so far
    feesCharged     \* history: assets charged as fees

book == <<shares, totalShares, netDeposits, highWaterMark, feesCharged>>
settings == <<feeBps, feeRecipient, admin, pendingAdmin>>
vars == <<book, settings, bTokens, rate, wallet, epoch, calls>>

\* initialize: the vault is deployed once, empty.
Init ==
    /\ shares = [h \in Holders |-> 0]
    /\ totalShares = 0 /\ netDeposits = 0 /\ highWaterMark = 0
    /\ feeBps \in 0 .. MaxFeeBps
    /\ feeRecipient \in Holders
    /\ admin \in Admins /\ pendingAdmin = Nobody
    /\ bTokens = 0 /\ rate \in Rates
    /\ wallet = Purse
    /\ epoch = 0 /\ calls = 0 /\ feesCharged = 0

----------------------------------------------------------------------------
(* accrue_fee *)

Assets == (bTokens * rate) \div Scalar
Retained == Assets - netDeposits
NewProfit == IF Retained > highWaterMark THEN Retained - highWaterMark ELSE 0
\* A fee on the fund, not on its profit.
FeeOnFund == (Assets * feeBps) \div BpsDenom
FeeAssets == (NewProfit * feeBps) \div BpsDenom

\* Minting priced on the cost basis of the fund, not on what it is worth.
FeeSharesOnBasis ==
    IF FeeAssets > 0 /\ netDeposits > 0 /\ totalShares > 0
    THEN (FeeAssets * totalShares) \div netDeposits
    ELSE 0

\* Minted against the assets left after the fee.
FeeShares ==
    IF FeeAssets > 0 /\ Assets - FeeAssets > 0 /\ totalShares > 0
    THEN (FeeAssets * totalShares) \div (Assets - FeeAssets)
    ELSE 0

Credited(u) == shares[u] + (IF u = feeRecipient THEN FeeShares ELSE 0)
AccruedTotal == totalShares + FeeShares

\* A mark that follows the profit down as well as up.
ResetMark == Retained

AccruedMark == IF Retained > highWaterMark THEN Retained ELSE highWaterMark
Charge == IF FeeShares > 0 THEN FeeAssets ELSE 0

----------------------------------------------------------------------------
(* Share prices, and Blend *)

\* Shares bought with a, and assets paid for s, right after accrual.
MintedOneToOne(a) == a * VirtualShares
Minted(a) == (a * (AccruedTotal + VirtualShares)) \div (Assets + VirtualAssets)

Payout(s) == (s * (Assets + VirtualAssets)) \div (AccruedTotal + VirtualShares)

\* value_of
Value(u) == (shares[u] * (Assets + VirtualAssets)) \div (totalShares + VirtualShares)

\* Blend converts a supply to b-tokens rounding down; what it burns for a
\* withdrawal it may round either way (the mock of test.rs rounds down).
Supplied(a) == (a * Scalar) \div rate
Burned(a) == {n \in {(a * Scalar) \div rate, -((-(a * Scalar)) \div rate)} : n <= bTokens}

----------------------------------------------------------------------------
(* Calls of the holders.  The state before the call prices the whole call: *)
(* accrual comes first and leaves Assets as it is.                         *)

CallCounted == calls < MaxCalls /\ calls' = calls + 1

\* The depositor's shares read before the accrual.
DepositStale(u, amount) ==
    /\ amount > 0 /\ amount <= wallet[u] /\ Minted(amount) > 0
    /\ shares' = [h \in Holders |->
                    IF h = u THEN shares[u] + Minted(amount) ELSE Credited(h)]
    /\ totalShares' = AccruedTotal + Minted(amount)
    /\ netDeposits' = netDeposits + amount
    /\ highWaterMark' = AccruedMark
    /\ feesCharged' = feesCharged + Charge
    /\ bTokens' = bTokens + Supplied(amount)
    /\ wallet' = [wallet EXCEPT ![u] = @ - amount]
    /\ UNCHANGED <<settings, rate, epoch>>
    /\ CallCounted

\* The deposit that leaves the cost basis alone.
DepositOffBook(u, amount) ==
    /\ amount > 0 /\ amount <= wallet[u] /\ Minted(amount) > 0
    /\ shares' = [h \in Holders |->
                    Credited(h) + (IF h = u THEN Minted(amount) ELSE 0)]
    /\ totalShares' = AccruedTotal + Minted(amount)
    /\ highWaterMark' = AccruedMark
    /\ feesCharged' = feesCharged + Charge
    /\ bTokens' = bTokens + Supplied(amount)
    /\ wallet' = [wallet EXCEPT ![u] = @ - amount]
    /\ UNCHANGED <<netDeposits, settings, rate, epoch>>
    /\ CallCounted

Deposit(u, amount) ==
    /\ amount > 0 /\ amount <= wallet[u] /\ Minted(amount) > 0
    /\ shares' = [h \in Holders |->
                    Credited(h) + (IF h = u THEN Minted(amount) ELSE 0)]
    /\ totalShares' = AccruedTotal + Minted(amount)
    /\ netDeposits' = netDeposits + amount
    /\ highWaterMark' = AccruedMark
    /\ feesCharged' = feesCharged + Charge
    /\ bTokens' = bTokens + Supplied(amount)
    /\ wallet' = [wallet EXCEPT ![u] = @ - amount]
    /\ UNCHANGED <<settings, rate, epoch>>
    /\ CallCounted

\* TotalShares read before the accrual.
WithdrawStale(u, s) ==
    /\ s > 0 /\ s <= Credited(u) /\ Payout(s) > 0
    /\ \E burned \in Burned(Payout(s)) : bTokens' = bTokens - burned
    /\ shares' = [h \in Holders |-> Credited(h) - (IF h = u THEN s ELSE 0)]
    /\ totalShares' = totalShares - s
    /\ netDeposits' = netDeposits - Payout(s)
    /\ highWaterMark' = AccruedMark
    /\ feesCharged' = feesCharged + Charge
    /\ wallet' = [wallet EXCEPT ![u] = @ + Payout(s)]
    /\ UNCHANGED <<settings, rate, epoch>>
    /\ CallCounted

Withdraw(u, s) ==
    /\ s > 0 /\ s <= Credited(u) /\ Payout(s) > 0
    /\ \E burned \in Burned(Payout(s)) : bTokens' = bTokens - burned
    /\ shares' = [h \in Holders |-> Credited(h) - (IF h = u THEN s ELSE 0)]
    /\ totalShares' = AccruedTotal - s
    /\ netDeposits' = netDeposits - Payout(s)
    /\ highWaterMark' = AccruedMark
    /\ feesCharged' = feesCharged + Charge
    /\ wallet' = [wallet EXCEPT ![u] = @ + Payout(s)]
    /\ UNCHANGED <<settings, rate, epoch>>
    /\ CallCounted

\* withdraw_all reads the balance after an accrual of its own, which leaves the
\* one inside withdraw nothing to do.
WithdrawAll(u) == Withdraw(u, Credited(u))

----------------------------------------------------------------------------
(* Administration, and the world outside *)

ProposeAdmin(a) ==
    /\ pendingAdmin' = a
    /\ UNCHANGED <<book, feeBps, feeRecipient, admin, bTokens, rate, wallet, epoch, calls>>

AcceptAdmin ==
    /\ pendingAdmin # Nobody
    /\ admin' = pendingAdmin
    /\ pendingAdmin' = Nobody
    /\ UNCHANGED <<book, feeBps, feeRecipient, bTokens, rate, wallet, epoch, calls>>

\* Neither setter accrues first: pending profit is charged at the new rate, and
\* to the new recipient.
SetFeeBps(bps) ==
    /\ bps <= MaxFeeBps
    /\ feeBps' = bps
    /\ UNCHANGED <<book, feeRecipient, admin, pendingAdmin, bTokens, rate, wallet, epoch, calls>>

SetFeeRecipient(h) ==
    /\ feeRecipient' = h
    /\ UNCHANGED <<book, feeBps, admin, pendingAdmin, bTokens, rate, wallet, epoch, calls>>

\* Interest earned by the Blend pool, or a loss it spreads over its suppliers.
RateChange ==
    /\ epoch < MaxEpochs
    /\ rate' \in Rates \ {rate}
    /\ epoch' = epoch + 1
    /\ UNCHANGED <<book, settings, bTokens, wallet, calls>>

Next ==
    \/ \E u \in Holders :
          \/ \E amount \in 1 .. wallet[u] : Deposit(u, amount)
          \/ \E s \in 1 .. Credited(u) : Withdraw(u, s)
          \/ WithdrawAll(u)
          \/ SetFeeRecipient(u)
    \/ \E a \in Admins : ProposeAdmin(a)
    \/ AcceptAdmin
    \/ \E bps \in 0 .. MaxFeeBps + 1 : SetFeeBps(bps)
    \/ RateChange

Spec == Init /\ [][Next]_vars

----------------------------------------------------------------------------
(* Properties *)

TypeOK ==
    /\ shares \in [Holders -> Nat] /\ totalShares \in Nat
    /\ netDeposits \in Int /\ highWaterMark \in Nat /\ feesCharged \in Nat
    /\ feeBps \in 0 .. MaxFeeBps /\ feeRecipient \in Holders
    /\ admin \in Admins /\ pendingAdmin \in Admins \cup {Nobody}
    /\ bTokens \in Nat /\ rate \in Rates
    /\ wallet \in [Holders -> Nat] 
    /\ epoch \in 0 .. MaxEpochs /\ calls \in 0 .. MaxCalls

\* TotalShares is the sum of the balances, also when a holder is the fee
\* recipient and a call both mints it a fee and moves its own shares.
SharesAccounted == totalShares = SumFunction(shares)

\* What value_of promises to all holders together is there, and no holder's
\* full withdrawal would burn more b-tokens than the vault has.
Solvent ==
    /\ SumFunction([u \in Holders |-> Value(u)]) <= Assets
    /\ \A u \in Holders : -((-(Value(u) * Scalar)) \div rate) <= bTokens

\* All fees ever charged are the capped rate of the peak profit: profit is
\* charged once, however often the value dips and recovers.
NeverTaxedTwice == BpsDenom * feesCharged <= MaxFeeBps * highWaterMark

\* The fraction of the fund the pending fee mints is at most the fee rate of
\* the new profit: the fee in shares is worth no more than the fee in assets.
FeeIsWorthItsRate ==
    BpsDenom * FeeShares * Assets <= feeBps * NewProfit * AccruedTotal

\* A call never lowers the share price left by its accrual, counted on the USDC
\* that changed hands: shares are never sold under their price nor bought back
\* over it, so nobody is diluted and no round trip pays.
PriceNeverFalls ==
    [][\A u \in Holders :
          (\A v \in Holders \ {u} : wallet'[v] = wallet[v]) =>
             (Assets + wallet[u] - wallet'[u] + VirtualAssets) * (AccruedTotal + VirtualShares)
                >= (Assets + VirtualAssets) * (totalShares' + VirtualShares)]_vars

\* One b-token's worth and a unit: what the roundings of one call can move.
Dust == rate \div Scalar + 2

\* Deposits and withdrawals are invisible to the fee: they move the assets and
\* the cost basis together, up to the rounding of Blend, so principal is never
\* taken for yield.
PrincipalIsNotYield ==
    [][rate' = rate => (Retained' - Retained) \in -Dust .. Dust]_vars
=============================================================================
