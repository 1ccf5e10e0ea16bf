------------------------------- MODULE Datagram -------------------------------
(***************************************************************************)
(* What the LiFi devices promise to the layer above them: a datagram that  *)
(* was sent may arrive at the node it is addressed to, or at any node if   *)
(* it is a broadcast, and nothing else ever arrives.  It may be lost and   *)
(* it may arrive more than once.                                           *)
(***************************************************************************)
EXTENDS Integers, Sequences

CONSTANTS Node, Broadcast, Lengths

VARIABLES
    sent,       \* the datagrams sent so far; the index is the identity
    received    \* what has been handed to the layer above, for each node

datagramVars == <<sent, received>>

DatagramType == [from : Node, to : Node \cup {Broadcast}, len : Lengths]

DatagramInit == sent = <<>> /\ received = [n \in Node |-> <<>>]

SendDatagram ==
    /\ \E d \in DatagramType : sent' = Append(sent, d)
    /\ UNCHANGED received

DeliverDatagram ==
    /\ \E n \in Node : \E k \in DOMAIN sent :
         /\ sent[k].to \in {n, Broadcast}
         /\ received' = [received EXCEPT ![n] =
               Append(@, [id |-> k, from |-> sent[k].from, len |-> sent[k].len - 4])]
    /\ UNCHANGED sent

DatagramSpec ==
    DatagramInit /\ [][SendDatagram \/ DeliverDatagram]_datagramVars
=============================================================================
