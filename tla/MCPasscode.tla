----------------------------- MODULE MCPasscode -----------------------------
(* One phone at a time, and two passcodes.                                   *)
EXTENDS Passcode, TLC

CONSTANTS p1, p2

TwoPins == {p1, p2}

PinSymmetry == Permutations(TwoPins)
=============================================================================
