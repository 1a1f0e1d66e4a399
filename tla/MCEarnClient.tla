---------------------------- MODULE MCEarnClient ----------------------------
(* Two deposits, a withdrawal and an exit of one user.                       *)
EXTENDS EarnClient, TLC

CONSTANTS d1, d2, w1, e1

TwoDeposits == {d1, d2}
OneWithdrawal == {w1}
OneExit == {e1}
Amounts == (d1 :> 2) @@ (d2 :> 2) @@ (w1 :> 1)

DepositSymmetry == Permutations(TwoDeposits)
=============================================================================
