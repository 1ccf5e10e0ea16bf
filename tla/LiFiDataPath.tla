----------------------------- MODULE LiFiDataPath -----------------------------
(***************************************************************************)
(* A packet on its way from one LiFiNetDevice to another: Send, the MAC of *)
(* the access point or of the station, its queue, MAC low, the physical    *)
(* layer, the channel, and back up to LiFiNetDevice::Receive.  Each access *)
(* point has a channel of its own, LiFiHelper lists the physical layers of *)
(* its stations on it, and a station may be associated anew at any moment: *)
(* it stays listed on the old channel.  The channel that a station sends   *)
(* on is set by the script, at any moment and to any channel.  Where there *)
(* is none a null pointer would be followed: nothing happens here.         *)
(*                                                                         *)
(* The control queues are those of LiFiCell and the slots those of         *)
(* LiFiTxMac; here a beacon or its answer is simply on the air, and the    *)
(* head of a queue is sent, or expires, at any moment.                     *)
(***************************************************************************)
EXTENDS Integers, Sequences, FiniteSets

CONSTANTS
    Ap, Sta,       \* access points and stations
    Broadcast,     \* the broadcast address
    TxDevices,     \* the nodes whose device is a LiFiTxNetDevice,
    RxDevices,     \* a LiFiRxNetDevice; the others have a LiFiNetDevice
    Lengths,       \* payload lengths of packets
    MaxPackets,    \* bound on the packets sent
    MaxListings,   \* bound on the associations made
    MaxStrayed     \* bound on the stations put on a channel unlisted

Node == Ap \cup Sta
None == Broadcast   \* no channel: never an access point

(* The network layer sends at least a header, so 4 bytes can be lost.      *)
ASSUME NodeAssumption == Ap \cap Sta = {} /\ Broadcast \notin Node
ASSUME LengthAssumption == Lengths \subseteq Nat /\ \A n \in Lengths : n >= 4
ASSUME PathBounds == {MaxPackets, MaxListings, MaxStrayed} \subseteq Nat

LlcSize == 8     \* LlcSnapHeader
HdrSize == 24    \* WifiMacHeader
FcsSize == 4     \* WifiMacTrailer

VARIABLES
    m_PhyVector,     \* the physical layers listed on each access point's channel
    m_channel,       \* the channel each station sends on
    strayed,         \* history: the stations put on each channel unlisted
    m_slotPtrs,      \* the stations registered at each access point
    m_candidateAps,  \* the access points each station has heard
    m_queue,         \* data frames that wait in each node's LiFiTxMac
    air,             \* receptions scheduled at each node, in their order
    packets,         \* history: what the layer above has sent
    handedUp         \* history: what was handed to the layer above

wiring == <<m_PhyVector, m_channel, strayed>>
roster == <<m_slotPtrs, m_candidateAps>>
history == <<packets, handedUp>>
dataVars == <<wiring, roster, m_queue, air, history>>

-----------------------------------------------------------------------------
Data(k, to, from, size) ==
    [type |-> "Data", id |-> k, addr1 |-> to, addr2 |-> from, size |-> size]
Control(type, to, from) ==
    [type |-> type, id |-> 0, addr1 |-> to, addr2 |-> from, size |-> HdrSize + FcsSize]

Elements(s) == {s[i] : i \in DOMAIN s}
Listings(a, n) == Cardinality({i \in DOMAIN m_PhyVector[a] : m_PhyVector[a][i] = n})

(* How many associations have been made.                                   *)
Associations ==
    Cardinality({e \in Ap \X (2..MaxListings + 1) : e[2] \in DOMAIN m_PhyVector[e[1]]})

Strayed == Cardinality({e \in Sta \X Ap : e[1] \in strayed[e[2]]})

(* What is left when n bytes are removed from a packet: never below zero.  *)
Without(size, n) == IF size >= n THEN size - n ELSE 0

(* The channel passes nothing from user device to user device, nor back.   *)
Hears(sender, n) == n # sender /\ ~ (sender \in Sta /\ n \in Sta)

OnAirMutantTwice(pending, a, sender, frame) ==
    [n \in Node |-> pending[n] \o
        [i \in 1..(IF Hears(sender, n) THEN 2 * Listings(a, n) ELSE 0) |-> frame]]

(* The channel of access point a schedules a reception, 33 ns later, for   *)
(* each time that a physical layer is listed: twice if it is listed twice. *)
OnAir(pending, a, sender, frame) ==
    [n \in Node |-> pending[n] \o
        [i \in 1..(IF Hears(sender, n) THEN Listings(a, n) ELSE 0) |-> frame]]

-----------------------------------------------------------------------------
PathInit ==
    /\ m_PhyVector = [a \in Ap |-> <<a>>]
    /\ m_channel = [s \in Sta |-> None]
    /\ strayed = [a \in Ap |-> {}]
    /\ m_slotPtrs = [a \in Ap |-> {}]
    /\ m_candidateAps = [s \in Sta |-> <<>>]
    /\ m_queue = [n \in Node |-> <<>>]
    /\ air = [n \in Node |-> <<>>]
    /\ packets = <<>>
    /\ handedUp = [n \in Node |-> <<>>]

(* The station becomes a user device of access point a: it is listed again *)
(* even if it is already, and never taken off another channel.             *)
Associate(s, a) ==
    /\ Associations < MaxListings
    /\ m_PhyVector' = [m_PhyVector EXCEPT ![a] = Append(@, s)]
    /\ UNCHANGED <<m_channel, strayed, roster, m_queue, air, history>>

(* LiFiPhy::SetChannel: the script moves a station to another channel,     *)
(* listed there or not, whatever waits in its queue.                       *)
SetChannel(s, a) ==
    /\ m_channel' = [m_channel EXCEPT ![s] = a]
    /\ strayed' = IF Listings(a, s) > 0 THEN strayed
                                        ELSE [strayed EXCEPT ![a] = @ \cup {s}]
    /\ Strayed' <= MaxStrayed
    /\ UNCHANGED <<m_PhyVector, roster, m_queue, air, history>>

ApEnqueueMutantUnchecked(n, to) == n \in Ap

(* The access point takes packets for the stations registered at it        *)
(* (IsUserAssociated) and broadcasts.                                      *)
ApEnqueue(n, to) == n \in Ap /\ to \in m_slotPtrs[n] \cup {Broadcast}

(* The station takes packets for an access point it has heard, so none of  *)
(* its broadcasts.                                                         *)
StaEnqueue(n, to) == n \in Sta /\ to \in Elements(m_candidateAps[n])

(* LiFiNetDevice::Send and SendFrom put the LLC header on and return true, *)
(* whether the MAC takes the packet or drops it.                           *)
LiFiSend(n, to, len) ==
    \/ /\ ApEnqueue(n, to) \/ StaEnqueue(n, to)
       /\ m_queue' = [m_queue EXCEPT ![n] =
             Append(@, Data(Len(packets) + 1, to, n, len + LlcSize))]
    \/ /\ ~ (ApEnqueue(n, to) \/ StaEnqueue(n, to))
       /\ UNCHANGED m_queue

(* The devices of the derived classes return true without asking a MAC.    *)
TxDeviceSend(n) == n \in TxDevices /\ UNCHANGED m_queue
RxDeviceSend(n) == n \in RxDevices /\ UNCHANGED m_queue

(* The layer above sends a packet of len bytes.                            *)
Send(n, to, len) ==
    /\ Len(packets) < MaxPackets
    /\ packets' = Append(packets, [from |-> n, to |-> to, len |-> len])
    /\ \/ n \notin TxDevices \cup RxDevices /\ LiFiSend(n, to, len)
       \/ TxDeviceSend(n)
       \/ RxDeviceSend(n)
    /\ UNCHANGED <<wiring, roster, air, handedUp>>

(* The channel that a node sends on.                                       *)
ChannelOf(n) == IF n \in Ap THEN n ELSE m_channel[n]

(* MAC low puts the header and the trailer on.                             *)
MacLowStart(f) == [f EXCEPT !.size = @ + HdrSize + FcsSize]

(* SendPacketDown: the head of the queue goes down to the channel.         *)
Transmit(n) ==
    /\ m_queue[n] # <<>> /\ ChannelOf(n) # None
    /\ m_queue' = [m_queue EXCEPT ![n] = Tail(@)]
    /\ air' = OnAir(air, ChannelOf(n), n, MacLowStart(Head(m_queue[n])))
    /\ UNCHANGED <<wiring, roster, history>>

(* The oldest frame expires in the queue (Cleanup).                        *)
Expire(n) ==
    /\ m_queue[n] # <<>>
    /\ m_queue' = [m_queue EXCEPT ![n] = Tail(@)]
    /\ UNCHANGED <<wiring, roster, air, history>>

(* A beacon; the one before it and the answers to it are over by then.     *)
SendBeacon(a) ==
    /\ \A n \in Node : \A f \in Elements(air[n]) : f.type = "Data"
    /\ air' = OnAir(air, a, a, Control("Beacon", Broadcast, a))
    /\ UNCHANGED <<wiring, roster, m_queue, history>>

-----------------------------------------------------------------------------
(* MAC low takes the trailer off.                                          *)
MacLowReceive(f) == [f EXCEPT !.size = Without(@, FcsSize)]

(* LiFiRxMac takes the header off and then a trailer once more: the last   *)
(* bytes of the payload.                                                   *)
RxMacReceive(f) == [f EXCEPT !.size = Without(Without(@, HdrSize), FcsSize)]

DeviceReceiveMutantPromiscuous(n, f) ==
    /\ handedUp' = [handedUp EXCEPT ![n] = Append(@,
          [id |-> f.id, from |-> f.addr2, len |-> Without(f.size, LlcSize)])]
    /\ UNCHANGED <<roster, packets>>

(* LiFiNetDevice::Receive, after the MAC took the LLC header off: handed   *)
(* up unless the packet is for another host.                               *)
DeviceReceive(n, f) ==
    /\ \/ /\ f.addr1 \in {n, Broadcast}
          /\ handedUp' = [handedUp EXCEPT ![n] = Append(@,
                [id |-> f.id, from |-> f.addr2, len |-> Without(f.size, LlcSize)])]
       \/ f.addr1 \notin {n, Broadcast} /\ UNCHANGED handedUp
    /\ UNCHANGED <<roster, packets>>

(* The error model of a LiFiRxNetDevice may drop the packet once more.     *)
RxDeviceReceive(n, f) ==
    \/ DeviceReceive(n, f)
    \/ n \in RxDevices /\ UNCHANGED <<roster, history>>

(* The access point: data goes up, the sender of anything else registers.  *)
ApMacReceive(a, f) ==
    /\ \/ f.type = "Data" /\ RxDeviceReceive(a, f)
       \/ /\ f.type # "Data"
          /\ m_slotPtrs' = [m_slotPtrs EXCEPT ![a] = @ \cup {f.addr2}]
          /\ UNCHANGED <<m_candidateAps, history>>
    /\ air' = [air EXCEPT ![a] = Tail(@)]

(* The station: data goes up; a beacon is answered on the station's own    *)
(* channel, to the first access point it ever heard.                       *)
StaMacReceive(s, f) ==
    \/ /\ f.type = "Data" /\ RxDeviceReceive(s, f)
       /\ air' = [air EXCEPT ![s] = Tail(@)]
    \/ /\ f.type = "Beacon" /\ m_channel[s] # None
       /\ m_candidateAps' = [m_candidateAps EXCEPT ![s] =
             IF f.addr2 \in Elements(@) THEN @ ELSE Append(@, f.addr2)]
       /\ air' = OnAir([air EXCEPT ![s] = Tail(@)], m_channel[s], s,
                       Control("AssocReq", Head(m_candidateAps'[s]), s))
       /\ UNCHANGED <<m_slotPtrs, history>>

(* A reception: the error model drops the frame or it goes up to the MAC.  *)
PhyReceive(n) ==
    /\ air[n] # <<>>
    /\ \/ /\ air' = [air EXCEPT ![n] = Tail(@)]
          /\ UNCHANGED <<roster, history>>
       \/ n \in Ap /\ ApMacReceive(n, RxMacReceive(MacLowReceive(Head(air[n]))))
       \/ n \in Sta /\ StaMacReceive(n, RxMacReceive(MacLowReceive(Head(air[n]))))
    /\ UNCHANGED <<wiring, m_queue>>

-----------------------------------------------------------------------------
PathNext ==
    \/ \E s \in Sta, a \in Ap : Associate(s, a)
    \/ \E s \in Sta, a \in Ap : SetChannel(s, a)
    \/ \E n \in Node, to \in Node \cup {Broadcast}, len \in Lengths : Send(n, to, len)
    \/ \E n \in Node : Transmit(n)
    \/ \E n \in Node : Expire(n)
    \/ \E a \in Ap : SendBeacon(a)
    \/ \E n \in Node : PhyReceive(n)

PathSpec == PathInit /\ [][PathNext]_dataVars

-----------------------------------------------------------------------------
(* Properties.                                                             *)

(* Type invariant.                                                         *)
Frame == [type : {"Data", "Beacon", "AssocReq"}, id : Nat,
          addr1 : Node \cup {Broadcast}, addr2 : Node, size : Nat]

PathTypeOK ==
    /\ m_PhyVector \in [Ap -> Seq(Node)]
    /\ m_channel \in [Sta -> Ap \cup {None}]
    /\ strayed \in [Ap -> SUBSET Sta]
    /\ m_slotPtrs \in [Ap -> SUBSET Sta]
    /\ m_candidateAps \in [Sta -> Seq(Ap)]
    /\ m_queue \in [Node -> Seq(Frame)]
    /\ air \in [Node -> Seq(Frame)]
    /\ packets \in Seq([from : Node, to : Node \cup {Broadcast}, len : Lengths])
    /\ handedUp \in [Node -> Seq([id : Nat, from : Node, len : Nat])]

(* The devices are a datagram service: through queues, channels, filters   *)
(* and a re-association at any moment, what is handed up at a node *)
(* was sent to it, by that sender, and is exactly one trailer (4 bytes)    *)
(* shorter than it was.                                                    *)
Service == INSTANCE Datagram WITH sent <- packets, received <- handedUp
DatagramService == Service!DatagramSpec

(* A packet is handed up at most once for each time that the receiver is   *)
(* listed on the sender's channel; an access point, listed once, never     *)
(* gets a packet twice.                                                    *)
CopiesPerListing ==
    \A n \in Node : \A k \in DOMAIN packets :
        LET a == IF packets[k].from \in Ap THEN packets[k].from ELSE n IN
        Cardinality({i \in DOMAIN handedUp[n] : handedUp[n][i].id = k})
            <= (IF a \in Ap THEN Listings(a, n) ELSE 0)

(* Packets of one sender are handed up in the order they were sent.        *)
HandedUpInOrder ==
    \A n \in Node : \A i, j \in DOMAIN handedUp[n] :
        i < j /\ handedUp[n][i].from = handedUp[n][j].from
            => handedUp[n][i].id <= handedUp[n][j].id

(* In one: a receiver gets the packets of a sender in their order, and     *)
(* none more often than it is listed.                                      *)
InOrderPerListing == PathTypeOK /\ CopiesPerListing /\ HandedUpInOrder

(* No downlink packet waits for a station that cannot hear its access      *)
(* point: whoever is registered is listed on the channel, although         *)
(* registration and association come from different code and a station     *)
(* answers, on the channel that it is on by then, the beacons of access    *)
(* points it has left.  The one way to be served unheard is to be put on   *)
(* the channel by a script that has not associated the station there.      *)
DownlinkHeard ==
    \A a \in Ap :
        /\ m_slotPtrs[a] \subseteq Elements(m_PhyVector[a]) \cup strayed[a]
        /\ \A f \in Elements(m_queue[a]) :
              f.addr1 # Broadcast => f.addr1 \in Elements(m_PhyVector[a]) \cup strayed[a]
=============================================================================
