------------------------------ MODULE MCWallet ------------------------------
(* Two phones of one owner, three key pairs.                                 *)
EXTENDS Wallet, TLC

CONSTANTS d1, d2

TwoDevices == {d1, d2}

DeviceSymmetry == Permutations(TwoDevices)
=============================================================================
