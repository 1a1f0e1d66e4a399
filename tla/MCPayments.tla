----------------------------- MODULE MCPayments -----------------------------
(* Two people, and one name that nobody has yet.                             *)
EXTENDS Payments, TLC

CONSTANTS u1, u2

TwoUsers == {u1, u2}
TwoAmounts == {1, 2}
ThreeNames == {"n1", "n2", "n3"}
FirstNames(u) == IF u = u1 THEN "n1" ELSE "n2"
=============================================================================
