------------------------------ MODULE Treasury ------------------------------
(***************************************************************************)
(* The treasury contract, the fee recipient of the Earn vault, composed    *)
(* with the vault.  It is one more holder of vault shares: fees are minted *)
(* to it by the calls of others, its admin turns them into USDC of the     *)
(* contract and moves that out to the operators.  It never deposits, and   *)
(* nobody but its admin can make it act.                                   *)
(***************************************************************************)
EXTENDS EarnVault

CONSTANT Fund   \* the address of the treasury contract

ASSUME FundAssumption == Fund \in Holders /\ Purse[Fund] = 0

VARIABLES
    swept,      \* USDC moved out to the operators
    fell,       \* history: b_rate has fallen at least once
    rounding    \* history: what roundings may have cost each depositor,
                \* counted as long as b_rate has not

fundVars == <<swept, fell, rounding>>
allVars == <<vars, fundVars>>

Depositors == Holders \ {Fund}

NoRounding == [h \in Depositors |-> 0]

FundInit == Init /\ feeRecipient = Fund /\ swept = 0 /\ fell = FALSE /\ rounding = NoRounding

\* What one share is worth after the accrual, in whole units and rounded up.
SharePrice == -((-(Assets + VirtualAssets)) \div (AccruedTotal + VirtualShares))

\* What Blend keeps of the assets a call moves.
BlendKeeps == IF Retained' < Retained THEN Retained - Retained' ELSE 0

\* A call of u rounds its trade by a share or a unit, and nobody else's; what Blend
\* keeps is lost to all.
Rounds(u) ==
    /\ rounding' =
          IF fell THEN NoRounding
          ELSE [h \in Depositors |->
                   rounding[h] + BlendKeeps + (IF h = u THEN SharePrice ELSE 0)]
    /\ UNCHANGED <<swept, fell>>

\* claim_fees: vault.withdraw(this, shares).
ClaimFees(s) == Withdraw(Fund, s) /\ Rounds(Fund)

\* claim_all_fees reads the balance before the accrual inside withdraw.  With no
\* shares it returns 0 and the fee that is due is not even accrued.
ClaimAllFees ==
    /\ shares[Fund] > 0
    /\ Withdraw(Fund, shares[Fund])
    /\ Rounds(Fund)

\* sweep: a transfer of the token, to the sponsor or another ops wallet.
Sweep(amount) ==
    /\ amount > 0 /\ amount <= wallet[Fund]
    /\ wallet' = [wallet EXCEPT ![Fund] = @ - amount]
    /\ swept' = swept + amount
    /\ UNCHANGED <<book, settings, bTokens, rate, epoch, calls, fell, rounding>>

\* The administrators of vault and treasury are set in the same two steps.
Govern ==
    \/ \E a \in Admins : ProposeAdmin(a)
    \/ AcceptAdmin
    \/ \E bps \in 0 .. MaxFeeBps + 1 : SetFeeBps(bps)
    \/ \E h \in Holders : SetFeeRecipient(h)

FundNext ==
    \/ \E u \in Depositors :
          \/ \E amount \in 1 .. wallet[u] : Deposit(u, amount) /\ Rounds(u)
          \/ \E s \in 1 .. Credited(u) : Withdraw(u, s) /\ Rounds(u)
          \/ WithdrawAll(u) /\ Rounds(u)
    \/ \E s \in 1 .. Credited(Fund) : ClaimFees(s)
    \/ ClaimAllFees
    \/ \E amount \in 1 .. wallet[Fund] : Sweep(amount)
    \/ Govern /\ UNCHANGED fundVars
    \/ /\ RateChange
       /\ fell' = (fell \/ rate' < rate)
       /\ rounding' = IF fell' THEN NoRounding ELSE rounding
       /\ UNCHANGED swept

FundSpec == FundInit /\ [][FundNext]_allVars

\* Fees come out of yield: as long as the pool has lost nothing, no fee, claim
\* or sweep and no call of another costs a depositor money paid in, beyond the
\* roundings of its own calls and what Blend keeps.
PrincipalKept ==
    ~fell => \A u \in Depositors : wallet[u] + Value(u) + rounding[u] >= Purse[u]
=============================================================================
