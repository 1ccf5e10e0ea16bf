------------------------------ MODULE LiFiWiring ------------------------------
(***************************************************************************)
(* The objects a script wires together with LiFiChannelHelper,             *)
(* LiFiPhyHelper, LiFiMacHelper and LiFiHelper, in any order in which no   *)
(* null pointer is followed, and what that wiring leaves for the access    *)
(* point's lists of stations: beacon, registration, marking for a handover *)
(* and the assignment of new positions (UpdateUserRegistration without argument,   *)
(* which only a script can call; it also reads a map node that it has just *)
(* erased, for a list of the removed nodes that is no state here).         *)
(*                                                                         *)
(* Nodes are node ids.  A LiFiNetDevice and its MAC are made together and  *)
(* never parted: the k-th pair that the MAC helper makes, whose address is *)
(* the k-th that Mac48Address::Allocate gives, is the number k, and 0 is   *)
(* the null pointer.                                                       *)
(***************************************************************************)
EXTENDS Integers, Sequences, FiniteSets, SequencesExt

CONSTANTS
    Ap, User,         \* node ids of access points and user devices
    MaxDevices,       \* bound on the net devices of a node
    MaxPairs,         \* bound on the LiFi devices of all nodes
    MaxOthers,        \* bound on the devices of other kinds of all nodes
    MaxAssociations   \* bound on the associations made

Node == Ap \cup User
None == 0             \* no channel

ASSUME NodeIds == Node \subseteq Nat \ {None} /\ Ap \cap User = {}
ASSUME WiringBounds == {MaxDevices, MaxPairs, MaxOthers, MaxAssociations} \subseteq Nat

VARIABLES
    channels_map,     \* the access points that have a channel
    phy_map,          \* per node the physical layer of LiFiPhyHelper
    devices,          \* per node its net devices; 0 is one of another kind
    lifi,             \* the LiFiNetDevices and their MACs, as they were made
    m_lastepoch,      \* per pair the device ids in m_lastepoch_slotPtrs_vector
    m_netDevicesMap,  \* per node the MAC that LiFiMacHelper answers with
    m_PhyVector,      \* per channel the physical layers listed on it
    m_controller,     \* the access point MAC of the last association
    ueNodesMap        \* the user nodes ever associated

helperVars == <<m_netDevicesMap, m_controller, ueNodesMap>>
wiringVars == <<channels_map, phy_map, devices, lifi, m_lastepoch, m_PhyVector, helperVars>>

NoPhy == [made |-> FALSE, channel |-> None, macLow |-> 0, device |-> 0]

(* A device and its MAC, before SetMac: the node, the channel of the       *)
(* device, that of the MAC, m_configComplete, m_ReceiverModelList, the     *)
(* device ids in m_slotPtrs_vector, the map m_slotPtrs from key to device  *)
(* id as a set of pairs, and markedUeNodesMap.                             *)
Pair(n) == [node |-> n, channel |-> None, macChannel |-> None, complete |-> FALSE,
            receivers |-> <<>>, infos |-> <<>>, slotPtrs |-> {}, marked |-> {}]

GetChannel(a) == IF a \in channels_map THEN a ELSE None
GetPhy(n) == IF phy_map[n].made THEN n ELSE None
GetMac(n) == m_netDevicesMap[n]
HasThisNodeAttached(u) == u \in ueNodesMap

Keys(m) == {e[1] : e \in m}
Ids(m) == {e[2] : e \in m}

(* std::map::insert: a key that is there keeps its value.                  *)
Insert(m, key, id) == IF key \in Keys(m) THEN m ELSE m \cup {<<key, id>>}

(* The position of a key among the keys of a map.                          *)
Position(m, key) == Cardinality({i \in Keys(m) : i < key})

-----------------------------------------------------------------------------
WiringInit ==
    /\ channels_map = {}
    /\ phy_map = [n \in Node |-> NoPhy]
    /\ devices = [n \in Node |-> <<>>]
    /\ lifi = <<>>
    /\ m_lastepoch = [k \in 1..MaxPairs |-> <<>>]
    /\ m_netDevicesMap = [n \in Node |-> 0]
    /\ m_PhyVector = [a \in Ap |-> <<>>]
    /\ m_controller = 0
    /\ ueNodesMap = {}

(* LiFiChannelHelper::Create.                                              *)
CreateChannel(a) ==
    /\ channels_map' = channels_map \cup {a}
    /\ UNCHANGED <<phy_map, devices, lifi, m_PhyVector, m_lastepoch, helperVars>>

(* LiFiChannelHelper::AddPhy lists the access point's own physical layer,  *)
(* and does nothing, without a word, when the channel is not there yet.    *)
AddApPhy(a) ==
    /\ GetPhy(a) # None /\ a \notin Range(m_PhyVector[a])
    /\ m_PhyVector' =
          IF GetChannel(a) = None THEN m_PhyVector
                                  ELSE [m_PhyVector EXCEPT ![a] = Append(@, a)]
    /\ UNCHANGED <<channels_map, phy_map, devices, lifi, m_lastepoch, helperVars>>

(* LiFiPhyHelper::Create: the one that is there stays.                     *)
CreatePhy(n) ==
    /\ phy_map' = [phy_map EXCEPT ![n].made = TRUE]
    /\ UNCHANGED <<channels_map, devices, lifi, m_PhyVector, m_lastepoch, helperVars>>

(* Node::AddDevice of a device of another kind (point to point, WiFi).     *)
AddOtherDevice(n) ==
    /\ Len(devices[n]) < MaxDevices
    /\ Cardinality({e \in Node \X (1..MaxDevices) :
                        e[2] \in DOMAIN devices[e[1]] /\ devices[e[1]][e[2]] = 0}) < MaxOthers
    /\ devices' = [devices EXCEPT ![n] = Append(@, 0)]
    /\ UNCHANGED <<channels_map, phy_map, lifi, m_PhyVector, m_lastepoch, helperVars>>

(* LiFiNetDevice::CompleteConfig: the MAC gets the channel that the device *)
(* has at this moment, and only the first time.                            *)
CompleteConfig(p) ==
    IF p.complete THEN p ELSE [p EXCEPT !.macChannel = p.channel, !.complete = TRUE]

(* LiFiNetDevice::SetMac, at once when the pair is made.                   *)
SetMac(n) == CompleteConfig(Pair(n))

(* The physical layer is handed the new MAC low and device, whichever it   *)
(* had before.                                                             *)
CreateMac(n, phy) == [phy EXCEPT !.macLow = Len(lifi) + 1, !.device = Len(lifi) + 1]

(* What both Create functions of LiFiMacHelper do: a pair is made, the     *)
(* helper's map keeps the first of a node.                                 *)
NewPair(n, phy) ==
    /\ GetPhy(n) # None /\ Len(devices[n]) < MaxDevices /\ Len(lifi) < MaxPairs
    /\ lifi' = Append(lifi, SetMac(n))
    /\ devices' = [devices EXCEPT ![n] = Append(@, Len(lifi) + 1)]
    /\ phy_map' = [phy_map EXCEPT ![n] = CreateMac(n, phy)]
    /\ m_netDevicesMap' = [m_netDevicesMap EXCEPT ![n] = IF @ = 0 THEN Len(lifi) + 1 ELSE @]
    /\ UNCHANGED <<channels_map, m_lastepoch, m_PhyVector, m_controller, ueNodesMap>>

(* LiFiMacHelper::CreateAPMac: the physical layer gets the channel that is *)
(* there, or none.                                                         *)
CreateAPMac(a) ==
    NewPair(a, [phy_map[a] EXCEPT !.channel = GetChannel(a)])

(* LiFiMacHelper::CreateUserDeviceMac.                                     *)
CreateUserDeviceMac(u) == NewPair(u, phy_map[u])

(* LiFiNetDevice::SetChannel, by the script.                               *)
SetDeviceChannel(k, a) ==
    /\ a \in channels_map
    /\ lifi' = [lifi EXCEPT ![k] = CompleteConfig([@ EXCEPT !.channel = a])]
    /\ UNCHANGED <<channels_map, phy_map, devices, m_PhyVector, m_lastepoch, helperVars>>

(* Node::GetDevice counts from 0; another kind of device casts to null.    *)
Device(n, i) == IF Len(devices[n]) > i THEN devices[n][i + 1] ELSE 0

ListUserMutantNewDevice(a, u, k, device) ==
    /\ m_PhyVector' = [m_PhyVector EXCEPT ![a] = Append(@, u)]
    /\ lifi' = [i \in DOMAIN lifi |->
          [lifi[i] EXCEPT !.infos = IF i = k THEN Append(@, u) ELSE @,
                          !.receivers = IF i = device /\ u \notin Range(@)
                                        THEN Append(@, u) ELSE @]]

(* One round of the loop of AssociateUserDevicesWithAP: the channel of the *)
(* node, the MAC of the helper's map and the device at index 1 of the node *)
(* each list the user.                                                     *)
ListUser(a, u, k, device) ==
    /\ m_PhyVector' = [m_PhyVector EXCEPT ![a] = Append(@, u)]
    /\ lifi' = [i \in DOMAIN lifi |->
          [lifi[i] EXCEPT !.infos = IF i = k THEN Append(@, u) ELSE @,
                          !.receivers = IF i = device THEN Append(@, u) ELSE @]]

(* LiFiHelper::AssociateUserDevicesWithAP, for one user.                   *)
AssociateUserDeviceWithAP(a, u) ==
    /\ Cardinality({e \in Ap \X (1..MaxAssociations + 1) :
                        /\ e[2] \in DOMAIN m_PhyVector[e[1]]
                        /\ m_PhyVector[e[1]][e[2]] \in User}) < MaxAssociations
    /\ GetMac(a) # 0 /\ Device(a, 1) # 0 /\ Device(u, 0) # 0
    /\ GetChannel(a) # None /\ GetPhy(u) # None
    /\ ListUser(a, u, GetMac(a), Device(a, 1))
    /\ m_controller' = GetMac(a)
    /\ ueNodesMap' = ueNodesMap \cup {u}
    /\ UNCHANGED <<channels_map, phy_map, devices, m_lastepoch, m_netDevicesMap>>

-----------------------------------------------------------------------------
(* SendOneBeacon: whoever was in the vector goes to that of the last epoch,*)
(* behind those who are still there.                                       *)
SendOneBeacon(k) ==
    /\ m_lastepoch' = [m_lastepoch EXCEPT ![k] = @ \o lifi[k].infos]
    /\ lifi' = [lifi EXCEPT ![k].infos = <<>>]
    /\ UNCHANGED <<channels_map, phy_map, devices, m_PhyVector, helperVars>>

(* ReigsterUserDevice at the MAC that the access point's physical layer    *)
(* delivers to, of a user on its channel: what is in the vector is         *)
(* replaced, one entry of the last epoch is erased, the map keeps its own. *)
ReigsterUserDevice(k, u) ==
    /\ k = phy_map[lifi[k].node].macLow /\ u \in Range(m_PhyVector[lifi[k].node])
    /\ lifi' = [lifi EXCEPT
          ![k].infos = IF u \in Range(@) THEN @ ELSE Append(@, u),
          ![k].slotPtrs = Insert(@, u, u)]
    /\ m_lastepoch' = [m_lastepoch EXCEPT ![k] = RemoveFirst(@, u)]
    /\ UNCHANGED <<channels_map, phy_map, devices, m_PhyVector, helperVars>>

(* LiFiHelper::MarkNodeForHandoverNodes: at the access point of the last   *)
(* association, wherever the node is registered.                           *)
MarkNodeForHandoverNodes(u) ==
    /\ m_controller # 0
    /\ lifi' = [lifi EXCEPT ![m_controller].marked = @ \cup {u}]
    /\ UNCHANGED <<channels_map, phy_map, devices, m_PhyVector, m_lastepoch, helperVars>>

ReAssignSlotsMutantCountsFromOne(m) ==
    {<<Position(m, e[1]) + 1, e[2]>> : e \in {f \in m : Position(m, f[1]) + 1 < Cardinality(m)}}

(* ReAssignSlots: the users that remain are keyed 0, 1, ... in their order.*)
ReAssignSlots(m) == {<<Position(m, e[1]), e[2]>> : e \in m}

(* UpdateUserRegistration(): the marked users leave the map, each mark is  *)
(* used up by the first entry of its user, and the others get new keys.    *)
UpdateUserRegistration(k) ==
    LET m == lifi[k].slotPtrs
        FirstOf(e) == \A f \in m : f[2] = e[2] => e[1] <= f[1]
        removed == {e \in m : e[2] \in lifi[k].marked /\ FirstOf(e)} IN
    /\ removed # {}
    /\ lifi' = [lifi EXCEPT ![k].slotPtrs = ReAssignSlots(m \ removed),
                            ![k].marked = @ \ Ids(removed)]
    /\ UNCHANGED <<channels_map, phy_map, devices, m_PhyVector, m_lastepoch, helperVars>>

-----------------------------------------------------------------------------
(* The script makes all objects before the simulation starts, and so       *)
(* before anyone registers and before the first beacon; it may associate   *)
(* and mark at any time.                                                   *)
Configure ==
    /\ \A k \in DOMAIN lifi : lifi[k].slotPtrs = {} /\ m_lastepoch[k] = <<>>
    /\ \/ \E a \in Ap : CreateChannel(a)
       \/ \E a \in Ap : AddApPhy(a)
       \/ \E n \in Node : CreatePhy(n)
       \/ \E n \in Node : AddOtherDevice(n)
       \/ \E a \in Ap : CreateAPMac(a)
       \/ \E u \in User : CreateUserDeviceMac(u)

Operate ==
    \/ \E k \in DOMAIN lifi, a \in Ap : SetDeviceChannel(k, a)
    \/ \E a \in Ap, u \in User : AssociateUserDeviceWithAP(a, u)
    \/ \E k \in DOMAIN lifi :
          /\ lifi[k].node \in Ap
          /\ SendOneBeacon(k) \/ \E u \in User : ReigsterUserDevice(k, u)
    \/ \E u \in User : MarkNodeForHandoverNodes(u)
    \/ \E k \in DOMAIN lifi : UpdateUserRegistration(k)

WiringSpec == WiringInit /\ [][Configure \/ Operate]_wiringVars

-----------------------------------------------------------------------------
(* Properties.                                                             *)

(* Type invariant.                                                         *)
WiringTypeOK ==
    /\ channels_map \subseteq Ap
    /\ phy_map \in [Node -> [made : BOOLEAN, channel : Ap \cup {None},
                             macLow : 0..Len(lifi), device : 0..Len(lifi)]]
    /\ devices \in [Node -> Seq(0..Len(lifi))]
    /\ lifi \in Seq([node : Node, channel : Ap \cup {None}, macChannel : Ap \cup {None},
                     complete : BOOLEAN, receivers : Seq(User), infos : Seq(User),
                     slotPtrs : SUBSET (Nat \X User), marked : SUBSET User])
    /\ m_lastepoch \in [1..MaxPairs -> Seq(User)]
    /\ m_netDevicesMap \in [Node -> 0..Len(lifi)]
    /\ m_PhyVector \in [Ap -> Seq(Node)]
    /\ m_controller \in 0..Len(lifi)
    /\ ueNodesMap \subseteq User

(* Of the MACs made for a node the helper answers with the first and the   *)
(* physical layer delivers to the last, together with its own device: a    *)
(* node for which Create was called once has one MAC for both, whatever    *)
(* else was called in between.                                             *)
OneMac ==
    \A n \in Node :
        LET own == {k \in DOMAIN lifi : lifi[k].node = n} IN
        /\ \A k \in own : m_netDevicesMap[n] <= k /\ k <= phy_map[n].macLow
        /\ own # {} => m_netDevicesMap[n] \in own /\ phy_map[n].macLow \in own
        /\ phy_map[n].device = phy_map[n].macLow

(* The users that a MAC reports to the controller, present or not.         *)
Known(k) == Range(lifi[k].infos) \cup Range(m_lastepoch[k])

(* The lists of users, of the channel, the device and the MAC, agree at an *)
(* access point with one LiFi device, through associations, beacons and    *)
(* answers in any order: channel and device hold the same users in the     *)
(* same order, however often they were associated, and the MAC reports     *)
(* each of them, and no one else, whether or not the beacon has cleared    *)
(* its vector.  The channel lists the access point's own physical layer    *)
(* once, anywhere, or not at all.  A node is attached for the helper       *)
(* exactly when some channel lists it.                                     *)
ListsAgree ==
    /\ \A u \in User :
          HasThisNodeAttached(u) <=> \E a \in Ap : u \in Range(m_PhyVector[a])
    /\ \A a \in Ap : \A k \in DOMAIN lifi :
          {i \in DOMAIN lifi : lifi[i].node = a} = {k} =>
              /\ \/ m_PhyVector[a] = lifi[k].receivers
                 \/ \E i \in 1..Len(m_PhyVector[a]) :
                       m_PhyVector[a] = InsertAt(lifi[k].receivers, i, a)
              /\ Range(lifi[k].receivers) = Known(k)

(* A MAC never gets a channel: it is configured when it is made, before    *)
(* its device can have one, and not again when the device gets one.        *)
NeverAChannel == \A k \in DOMAIN lifi : lifi[k].complete /\ lifi[k].macChannel = None

(* In one: however a script calls the helpers, devices, MACs, physical     *)
(* layers and channels fit together.                                       *)
WiringSound == WiringTypeOK /\ OneMac /\ ListsAgree /\ NeverAChannel

(* A user leaves the access point's map only when it was marked there, and *)
(* uses up its mark: not by a registration that meets a foreign key, nor   *)
(* when all entries get new keys.                                          *)
StaysUntilMarked ==
    [][\A k \in DOMAIN lifi :
          LET before == Ids(lifi[k].slotPtrs)
              after == Ids(lifi'[k].slotPtrs) IN
          before \ after \subseteq lifi[k].marked \ lifi'[k].marked]_wiringVars
=============================================================================
