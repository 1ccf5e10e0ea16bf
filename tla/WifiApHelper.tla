----------------------------- MODULE WifiApHelper -----------------------------
(***************************************************************************)
(* WifiApHelper: Install gives nodes a WifiApNetDevice, with what the      *)
(* standard, the MAC and the station manager call for; AssignStreams gives *)
(* the random variables of every WiFi device in a container streams of     *)
(* their own.                                                              *)
(*                                                                         *)
(* A script goes on with the stream after those that a call has returned.  *)
(* How many streams an object of ns-3 takes is its own affair.             *)
(***************************************************************************)
EXTENDS Integers, Sequences, FiniteSets, SequencesExt, Totals

CONSTANTS
    WifiNode,     \* nodes
    Standard,     \* the standards in the order of WifiPhyStandard
    Ht, He,       \* the first of them with HT, and with HE
    Vht,          \* those with VHT
    Takes,        \* streams that an object of each kind takes
    MaxCalls      \* bound on the calls of AssignStreams

ASSUME StandardAssumption == Standard \subseteq Nat /\ Vht \subseteq Standard /\ {Ht, He} \subseteq Standard
ASSUME TakesAssumption ==
    Takes \in [{"phy", "minstrel", "minstrelHt", "txop", "apMac"} -> Nat \ {0}]
ASSUME CallsAssumption == MaxCalls \in Nat

VARIABLES
    wifiDevice,   \* of each node: what Install has put together, or NoWifi
    streams,      \* of each node: the streams its objects use
    nextStream,   \* what the calls have left to the script
    calls         \* calls of AssignStreams so far

wifiVars == <<wifiDevice, streams, nextStream, calls>>

NoWifi == [manager |-> "none"]

WifiInit ==
    /\ wifiDevice = [w \in WifiNode |-> NoWifi]
    /\ streams = [w \in WifiNode |-> {}]
    /\ nextStream = 0
    /\ calls = 0

(* The access categories of a MAC without QoS have no queue; the transmit  *)
(* queues of the interface are connected in this order.                    *)
Queues(qos) == IF qos THEN <<"BE", "BK", "VI", "VO">> ELSE <<"Txop">>

Installed(standard, manager, ap, qos) ==
    [manager |-> manager, ap |-> ap, queues |-> Queues(qos),
     configured |-> (IF standard >= Ht THEN {"ht"} ELSE {})
                      \cup (IF standard \in Vht THEN {"vht"} ELSE {})
                      \cup (IF standard >= He THEN {"he"} ELSE {})]

(* A device of an earlier call stays on its node, behind the new one.      *)
Install(nodes, standard, manager, ap, qos) ==
    /\ \A w \in nodes : wifiDevice[w] = NoWifi
    /\ wifiDevice' = [w \in WifiNode |->
          IF w \in nodes THEN Installed(standard, manager, ap, qos) ELSE wifiDevice[w]]
    /\ UNCHANGED <<streams, nextStream, calls>>

(* The objects of a device that take streams, in the order of the code:    *)
(* the regular MAC has a Txop and one for each access category.            *)
Objects(device) ==
    <<"phy">>
      \o (IF device.manager \in {"minstrel", "minstrelHt"} THEN <<device.manager>> ELSE <<>>)
      \o [i \in 1..5 |-> "txop"]
      \o (IF device.ap THEN <<"apMac">> ELSE <<>>)

(* The streams that the objects get from the given one on.                 *)
Total(objects) == TotalOf([i \in DOMAIN objects |-> Takes[objects[i]]])

Assigned(objects, first) == first..(first + Total(objects) - 1)

FirstStreamMutantSameForAll(container, i) == nextStream

FirstStream(container, i) ==
    nextStream + TotalOf([j \in 1..(i - 1) |-> Total(Objects(wifiDevice[container[j]]))])

(* A device that is listed twice is served twice: it keeps what it got     *)
(* last, and the first streams are used by nobody.                         *)
LastIndex(container, w) ==
    CHOOSE i \in DOMAIN container :
        container[i] = w /\ \A j \in DOMAIN container : container[j] = w => j <= i

AssignStreams(container) ==
    /\ calls < MaxCalls
    /\ calls' = calls + 1
    /\ \A i \in DOMAIN container : wifiDevice[container[i]] # NoWifi
    /\ streams' = [w \in WifiNode |->
          IF \E i \in DOMAIN container : container[i] = w
          THEN Assigned(Objects(wifiDevice[w]), FirstStream(container, LastIndex(container, w)))
          ELSE streams[w]]
    /\ nextStream' = FirstStream(container, Len(container) + 1)
    /\ UNCHANGED wifiDevice

WifiNext ==
    \/ \E nodes \in SUBSET WifiNode \ {{}}, standard \in Standard, ap, qos \in BOOLEAN,
          manager \in {"minstrel", "minstrelHt", "other"} :
             Install(nodes, standard, manager, ap, qos)
    \/ \E container \in BoundedSeq(WifiNode, 2) : AssignStreams(container)

WifiSpec == WifiInit /\ [][WifiNext]_wifiVars

-----------------------------------------------------------------------------
(* Properties.                                                             *)

(* No two devices ever share a random stream, in whatever order and how    *)
(* often containers are given streams, and what comes next is free.        *)
StreamsDisjoint ==
    /\ \A v, w \in WifiNode : v # w => streams[v] \cap streams[w] = {}
    /\ \A w \in WifiNode : \A s \in streams[w] : s < nextStream
=============================================================================
