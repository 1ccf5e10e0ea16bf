----------------------------- MODULE LiFiRegistry -----------------------------
(***************************************************************************)
(* Where objects of the simulation are looked up: the devices of a channel *)
(* by their place or node id, the receiver models of a device, and the     *)
(* MACs by address in the RemoteStationManager of each LiFiMacHelper, from *)
(* which the access point takes the MAC that an uplink slot starts.        *)
(*                                                                         *)
(* A device of the channel and a receiver model are the node or device id  *)
(* they are searched by.  The k-th MAC is the number k, and so is the      *)
(* address that Mac48Address::Allocate gives it; 0 is the null pointer.    *)
(***************************************************************************)
EXTENDS Integers, Sequences, SequencesExt

CONSTANTS
    DeviceId,     \* ids of receiving devices and receiver models
    MaxListed,    \* bound on how often an id is listed
    MacHelper,    \* the LiFiMacHelpers of a script
    MaxMacs       \* bound on the MACs made

ASSUME DeviceIdAssumption == 0 \notin DeviceId
ASSUME RegistryBounds == {MaxListed, MaxMacs} \subseteq Nat

VARIABLES
    m_LiFiRxNetDevicesList,   \* of the channel
    m_lifiTxNetDevice,        \* of the channel: TRUE once it is set
    m_ReceiverModelList,      \* of the device
    macAddresses,             \* the address of every MAC, in the order they are made
    tdmaMacMap,               \* of each helper's station manager: address to MAC
    crashed,                  \* a list was erased from outside
    stray,                    \* history: an id was removed that was not listed
    listed                    \* history: how often each id is on the channel

listVars == <<m_LiFiRxNetDevicesList, m_lifiTxNetDevice, m_ReceiverModelList, crashed, stray, listed>>
managerVars == <<macAddresses, tdmaMacMap>>
registryVars == <<listVars, managerVars>>

RegistryInit ==
    /\ m_LiFiRxNetDevicesList = <<>> /\ m_lifiTxNetDevice = FALSE
    /\ m_ReceiverModelList = <<>>
    /\ macAddresses = <<>>
    /\ tdmaMacMap = [h \in MacHelper |-> <<>>]
    /\ crashed = FALSE /\ stray = FALSE
    /\ listed = [id \in DeviceId |-> 0]

-----------------------------------------------------------------------------
(* The index of an id in a list; -1, the largest index of all, without it. *)
IndexOf(list, id) == SelectInSeq(list, LAMBDA x : x = id) - 1

(* LiFiChannel::Add.                                                       *)
Add(id) ==
    /\ listed[id] < MaxListed
    /\ m_LiFiRxNetDevicesList' = Append(m_LiFiRxNetDevicesList, id)
    /\ listed' = [listed EXCEPT ![id] = @ + 1]
    /\ UNCHANGED <<m_lifiTxNetDevice, m_ReceiverModelList, crashed, stray>>

RemoveUserDeviceMutantNextOne(id) ==
    /\ LET i == IndexOf(m_LiFiRxNetDevicesList, id) + 2 IN
        /\ i \in DOMAIN m_LiFiRxNetDevicesList
        /\ m_LiFiRxNetDevicesList' = RemoveAt(m_LiFiRxNetDevicesList, i)
    /\ stray' = (stray \/ listed[id] = 0)
    /\ listed' = [listed EXCEPT ![id] = IF @ = 0 THEN 0 ELSE @ - 1]
    /\ UNCHANGED <<m_lifiTxNetDevice, m_ReceiverModelList, crashed>>

(* LiFiChannel::RemoveUserDevice.  For an id that is not listed the check  *)
(* itemIndex >= 0 holds nevertheless and what comes before the first       *)
(* element is erased: all elements move forward and one is lost, unless    *)
(* the program ends.                                                       *)
RemoveUserDevice(id) ==
    /\ LET i == IndexOf(m_LiFiRxNetDevicesList, id) IN
        \/ /\ i # -1
           /\ m_LiFiRxNetDevicesList' = RemoveAt(m_LiFiRxNetDevicesList, i + 1)
           /\ UNCHANGED crashed
        \/ /\ i = -1 /\ m_LiFiRxNetDevicesList # <<>>
           /\ m_LiFiRxNetDevicesList' = Tail(m_LiFiRxNetDevicesList)
           /\ UNCHANGED crashed
        \/ /\ i = -1
           /\ crashed' = TRUE
           /\ UNCHANGED m_LiFiRxNetDevicesList
    /\ stray' = (stray \/ listed[id] = 0)
    /\ listed' = [listed EXCEPT ![id] = IF @ = 0 THEN 0 ELSE @ - 1]
    /\ UNCHANGED <<m_lifiTxNetDevice, m_ReceiverModelList>>

SetTxDevice ==
    /\ m_lifiTxNetDevice' = TRUE
    /\ UNCHANGED <<m_LiFiRxNetDevicesList, m_ReceiverModelList, crashed, stray, listed>>

AddReceiverModel(id) ==
    /\ Len(m_ReceiverModelList) < MaxListed
    /\ m_ReceiverModelList' = Append(m_ReceiverModelList, id)
    /\ UNCHANGED <<m_LiFiRxNetDevicesList, m_lifiTxNetDevice, crashed, stray, listed>>

(* LiFiNetDevice::RemoveRxDevice: here the index is a 32-bit number, and   *)
(* what would be erased lies far behind the list.                          *)
RemoveRxDevice(id) ==
    /\ LET i == IndexOf(m_ReceiverModelList, id) IN
        /\ m_ReceiverModelList' = IF i = -1 THEN m_ReceiverModelList
                                  ELSE RemoveAt(m_ReceiverModelList, i + 1)
        /\ crashed' = (i = -1)
    /\ UNCHANGED <<m_LiFiRxNetDevicesList, m_lifiTxNetDevice, stray, listed>>

(* The device with an id, 0 without one.                                   *)
FindDeviceById(id) ==
    IF IndexOf(m_LiFiRxNetDevicesList, id) = -1 THEN 0 ELSE id

GetNDevices == Len(m_LiFiRxNetDevicesList) + 1

(* The device at a place, the transmitting one at 0, the null pointer if   *)
(* that is not set.                                                        *)
GetDevice(i) ==
    IF i = 0 THEN m_lifiTxNetDevice
    ELSE FindDeviceById(m_LiFiRxNetDevicesList[i]) # 0

-----------------------------------------------------------------------------
(* A helper makes a MAC, gives it an address of its own and enters it.     *)
CreateRegistered(h) ==
    /\ Len(macAddresses) < MaxMacs
    /\ LET mac == Len(macAddresses) + 1 IN
        /\ macAddresses' = Append(macAddresses, mac)
        /\ tdmaMacMap' = [tdmaMacMap EXCEPT ![h] = Append(@, <<mac, mac>>)]
    /\ UNCHANGED listVars

(* LiFiRegularMac::SetAddress, by a script: the managers do not hear of it.*)
SetAddress(mac, address) ==
    /\ macAddresses' = [macAddresses EXCEPT ![mac] = address]
    /\ UNCHANGED <<tdmaMacMap, listVars>>

(* RemoteStationManager::GetMac: the null pointer without an entry, which  *)
(* the access point follows.                                               *)
GetRegisteredMac(h, address) ==
    LET i == SelectInSeq(tdmaMacMap[h], LAMBDA e : e[1] = address) IN
    IF i = 0 THEN 0 ELSE tdmaMacMap[h][i][2]

ListsNext ==
    /\ ~ crashed
    /\ \/ \E id \in DeviceId :
            \/ Add(id) \/ RemoveUserDevice(id)
            \/ AddReceiverModel(id) \/ RemoveRxDevice(id)
       \/ SetTxDevice
    /\ UNCHANGED managerVars

ManagersNext ==
    \/ \E h \in MacHelper : CreateRegistered(h)
    \/ \E mac \in DOMAIN macAddresses, address \in 1..MaxMacs : SetAddress(mac, address)

RegistryNext == ListsNext \/ ManagersNext

RegistrySpec == RegistryInit /\ [][RegistryNext]_registryVars

-----------------------------------------------------------------------------
(* Properties.                                                             *)

(* As long as nothing was removed that was not there, a device is found    *)
(* exactly when it was added more often than it was removed, however the   *)
(* calls for several devices are mixed.  Afterwards a channel may have     *)
(* lost a device that nobody removed.                                      *)
ListedAreFound ==
    ~ stray => \A id \in DeviceId : FindDeviceById(id) # 0 <=> listed[id] > 0

(* Every place below GetNDevices has a device, the first one from when the *)
(* transmitting device is set, also after a faulty removal.                *)
PlacesFilled ==
    \A i \in 0..(GetNDevices - 1) : GetDevice(i) <=> (i > 0 \/ m_lifiTxNetDevice)

(* The MAC that is started for an address is the one that was made with    *)
(* it, whatever addresses scripts set later, and one helper's station      *)
(* manager never finds a MAC that another helper has made.                 *)
ManagersKeepApart ==
    /\ \A h \in MacHelper, address \in 1..MaxMacs :
          GetRegisteredMac(h, address) \in {0, address}
    /\ \A mac \in DOMAIN macAddresses :
          \E h \in MacHelper : \A g \in MacHelper :
              GetRegisteredMac(g, mac) = IF g = h THEN mac ELSE 0

ListsServe == ListedAreFound /\ PlacesFilled /\ ManagersKeepApart
=============================================================================
