--------------------------- MODULE MCChannelPool ---------------------------
(* An instance of the pool.  A key is an integer because claims take the   *)
(* least one; a lease and a transaction last one tick each, as both last   *)
(* sixty seconds in the code.                                              *)
EXTENDS ChannelPool

CONSTANTS s1, s2, a1

OneChannel == {1}
TwoServers == {s1, s2}
OneActivation == {a1}
=============================================================================
