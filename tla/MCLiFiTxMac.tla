---------------------------- MODULE MCLiFiTxMac ----------------------------
(* Instances of LiFiTxMac for TLC.                                         *)
EXTENDS LiFiTxMac
=============================================================================
