---------------------------- MODULE MCLiFiApMac ----------------------------
(* LiFiApMac on small instances, and with fewer steps of the environment:  *)
(* the helper lists the first station only, and where three stations make  *)
(* many states the attribute BeaconGeneration, which no handler reads, is  *)
(* left alone.                                                             *)
EXTENDS LiFiApMac

FirstListed == \A d \in Dev : associations'[d] > 0 => \A k \in Dev : d <= k

MCFairSpec == Init /\ [][Next /\ FirstListed]_vars /\ WF_vars(Simulate)

Quiet == FirstListed /\ UNCHANGED m_enableBeaconGeneration

QuietSpec == Init /\ [][Next /\ Quiet]_vars
=============================================================================
