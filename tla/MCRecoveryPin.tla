--------------------------- MODULE MCRecoveryPin ---------------------------
(* Two sessions and two passcodes; three tries and a lock of two ticks.      *)
EXTENDS RecoveryPin, TLC

CONSTANTS c1, c2, p1, p2

TwoCallers == {c1, c2}
TwoPins == {p1, p2}

SessionSymmetry == Permutations(TwoCallers) \cup Permutations(TwoPins)
=============================================================================
