----------------------------- MODULE MCEarnHome -----------------------------
(* Two deposits, a withdrawal and an exit of one user, who opens the screen  *)
(* while they go on.                                                         *)
EXTENDS EarnHome, TLC

CONSTANTS d1, d2, w1, e1, l1

TwoDeposits == {d1, d2}
OneWithdrawal == {w1}
OneExit == {e1}
OneLoad == {l1}
Amounts == (d1 :> 2) @@ (d2 :> 2) @@ (w1 :> 2)

DepositSymmetry == Permutations(TwoDeposits)
=============================================================================
