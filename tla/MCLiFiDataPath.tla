---------------------------- MODULE MCLiFiDataPath ----------------------------
(* Instances of LiFiDataPath for TLC: two access points and two stations,  *)
(* one of them associated when the simulation starts, each of which may be *)
(* associated once more.  One of the stations, either, is on a channel     *)
(* that does not list it.                                                  *)
EXTENDS LiFiDataPath

CONSTANTS a1, a2, s1, s2

(* What PathInit leads to when the script associates s2 with a1 and then   *)
(* either leaves it there and puts the other station on the same channel,  *)
(* or puts s2 itself on the channel of a2.                                 *)
MCPathInit ==
    /\ m_PhyVector = [a \in Ap |-> IF a = a1 THEN <<a, s2>> ELSE <<a>>]
    /\ \/ /\ m_channel = [s \in Sta |-> a1]
          /\ strayed = [a \in Ap |-> IF a = a1 THEN {s1} ELSE {}]
       \/ /\ m_channel = [s \in Sta |-> IF s = s2 THEN a2 ELSE None]
          /\ strayed = [a \in Ap |-> IF a = a2 THEN {s2} ELSE {}]
    /\ m_slotPtrs = [a \in Ap |-> {}]
    /\ m_candidateAps = [s \in Sta |-> <<>>]
    /\ m_queue = [n \in Node |-> <<>>]
    /\ air = [n \in Node |-> <<>>]
    /\ packets = <<>>
    /\ handedUp = [n \in Node |-> <<>>]

MCPathSpec == MCPathInit /\ [][PathNext]_dataVars
=============================================================================
