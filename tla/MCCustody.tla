----------------------------- MODULE MCCustody -----------------------------
(* A payment and a cash-out by any device, two recoveries that may overlap   *)
(* or follow each other, and a closing; two stroops.                       *)
EXTENDS Custody, TLC

CONSTANTS s1, s2, r1, r2, c1

TwoSends == {s1, s2}
OneCashOut == {s2}
SmallAmounts == (s1 :> 1) @@ (s2 :> 2)
TwoRecoveries == {r1, r2}
OneClosing == {c1}

RecoverySymmetry == Permutations(TwoRecoveries)
=============================================================================
