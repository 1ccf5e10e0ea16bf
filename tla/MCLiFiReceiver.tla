---------------------------- MODULE MCLiFiReceiver ----------------------------
(* Instance of LiFiReceiver for TLC: one physical layer, one receiving and *)
(* one transmitting device, a script of two calls.  Received powers are    *)
(* only compared with each other, so they are symmetric.                   *)
EXTENDS LiFiReceiver, TLC

PowerSymmetry == Permutations(Power)
=============================================================================
