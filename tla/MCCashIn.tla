------------------------------ MODULE MCCashIn ------------------------------
(* Two intents of one user and one of another; two or three deliveries, so   *)
(* that an intent can be delivered, retried and delivered side by side.      *)
EXTENDS CashIn, TLC

CONSTANTS i1, i2, i3, ana, ben, d1, d2, d3

ThreeIntents == {i1, i2, i3}
TwoUsers == {ana, ben}
TwoForAna == (i1 :> ana) @@ (i2 :> ana) @@ (i3 :> ben)
ThreeDeliveries == {d1, d2, d3}

DeliverySymmetry == Permutations(ThreeDeliveries)
=============================================================================
