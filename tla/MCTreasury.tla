----------------------------- MODULE MCTreasury -----------------------------
(* A small fund: scales of one digit, so that every rounding of the         *)
(* contract bites, and prices that rise and fall.  The fee recipient starts *)
(* as the treasury and may become any holder, so the aliasing of depositor  *)
(* and recipient is covered.                                                *)
EXTENDS Treasury, TLC

CONSTANTS u1, u2, fund, root

TwoHolders == {u1, u2, fund}
OneAdmin == {root}
Purses == (u1 :> 3) @@ (u2 :> 1) @@ (fund :> 0)
Prices == {2, 3, 4}
=============================================================================
