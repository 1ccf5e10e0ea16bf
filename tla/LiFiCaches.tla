------------------------------ MODULE LiFiCaches ------------------------------
(***************************************************************************)
(* A user has a LiFi device and, beside it, a WifiApNetDevice.  LiFiHelper *)
(* writes the ARP caches of the access points and of the users by hand,    *)
(* and makes the LiFi device the peer of the WiFi one: as long as it has a *)
(* peer, the WiFi device sends everything to the gateway.  When the user   *)
(* moves to WiFi, a script calls UpdateUserDeviceCache.                    *)
(*                                                                         *)
(* An address of either kind is the name of its owner; the address of the  *)
(* wired interface behind WiFi is Csma.                                    *)
(***************************************************************************)
EXTENDS Integers, FiniteSets

CONSTANTS User, LiFiAp, WifiAp, Csma, NoAddress

ASSUME DistinctAddresses == Csma \notin LiFiAp /\ NoAddress \notin LiFiAp \cup WifiAp \cup User

VARIABLES
    apCache,            \* the users in an access point's ARP cache, permanently
    userDeviceArpCache, \* of a user's LiFi interface: whose MAC address an address has
    wifiArpCache,       \* the same of its WiFi interface
    m_peerNetDevice,    \* the user's WiFi device has its LiFi device as its peer
    m_GatewayAddress,   \* of the user's WiFi device
    forwarding,         \* the LiFi device has the callback to the WiFi device
    lastSent            \* history: the last frame of each WiFi device

cachesVars == <<apCache, userDeviceArpCache, wifiArpCache, m_peerNetDevice, m_GatewayAddress,
                forwarding, lastSent>>

Ip == LiFiAp \cup {Csma}
Empty == [ip \in Ip |-> NoAddress]
NothingSent == [asked |-> NoAddress, receiver |-> NoAddress, peer |-> FALSE]

CachesInit ==
    /\ apCache = [a \in LiFiAp |-> {}]
    /\ userDeviceArpCache = [u \in User |-> Empty]
    /\ wifiArpCache = [u \in User |-> Empty]
    /\ m_peerNetDevice = [u \in User |-> FALSE]
    /\ m_GatewayAddress = [u \in User |-> NoAddress]
    /\ forwarding = [u \in User |-> FALSE]
    /\ lastSent = [u \in User |-> NothingSent]

(* Flush, and one entry for each user of the container.                    *)
ModifyLifiAPCache(a, users) ==
    /\ apCache' = [apCache EXCEPT ![a] = users]
    /\ UNCHANGED <<userDeviceArpCache, wifiArpCache, m_peerNetDevice, m_GatewayAddress,
                   forwarding, lastSent>>

ConfigureMutantNoFlush(a, users, w) ==
    /\ userDeviceArpCache' = [u \in User |->
          IF u \in users
          THEN [userDeviceArpCache[u] EXCEPT
                   ![Csma] = IF @ = NoAddress THEN w ELSE @, ![a] = a]
          ELSE userDeviceArpCache[u]]
    /\ m_GatewayAddress' = [u \in User |-> IF u \in users THEN w ELSE m_GatewayAddress[u]]
    /\ m_peerNetDevice' = [u \in User |-> u \in users \/ m_peerNetDevice[u]]
    /\ forwarding' = [u \in User |-> u \in users \/ forwarding[u]]
    /\ UNCHANGED <<apCache, wifiArpCache, lastSent>>

(* The LiFi interface of each user knows its access point, and believes    *)
(* that the wired interface is the WiFi access point.                      *)
ConfigureUserDevicesCaches(a, users, w) ==
    /\ userDeviceArpCache' = [u \in User |->
          IF u \in users THEN [Empty EXCEPT ![Csma] = w, ![a] = a] ELSE userDeviceArpCache[u]]
    /\ m_GatewayAddress' = [u \in User |-> IF u \in users THEN w ELSE m_GatewayAddress[u]]
    /\ m_peerNetDevice' = [u \in User |-> u \in users \/ m_peerNetDevice[u]]
    /\ forwarding' = [u \in User |-> u \in users \/ forwarding[u]]
    /\ UNCHANGED <<apCache, wifiArpCache, lastSent>>

(* Both caches are flushed and the peer is taken away; SetPeerNetDevice    *)
(* returns before it could take back the forwarding callback.              *)
UpdateUserDeviceCache(u) ==
    /\ userDeviceArpCache' = [userDeviceArpCache EXCEPT ![u] = Empty]
    /\ wifiArpCache' = [wifiArpCache EXCEPT ![u] = Empty]
    /\ m_peerNetDevice' = [m_peerNetDevice EXCEPT ![u] = FALSE]
    /\ UNCHANGED <<apCache, m_GatewayAddress, forwarding, lastSent>>

(* Send of the WiFi device, with what ARP has found for an address.        *)
WifiSend(u, dest) ==
    /\ lastSent' = [lastSent EXCEPT ![u] =
          [asked |-> dest, peer |-> m_peerNetDevice[u],
           receiver |-> IF m_peerNetDevice[u] THEN m_GatewayAddress[u] ELSE dest]]
    /\ UNCHANGED <<apCache, userDeviceArpCache, wifiArpCache, m_peerNetDevice,
                   m_GatewayAddress, forwarding>>

(* Either interface of the user sends to an address that its cache         *)
(* resolves; what the LiFi device cannot send, its callback may forward.   *)
SendResolved(u) ==
    \E ip \in Ip :
        \/ wifiArpCache[u][ip] # NoAddress /\ WifiSend(u, wifiArpCache[u][ip])
        \/ forwarding[u] /\ userDeviceArpCache[u][ip] # NoAddress
              /\ WifiSend(u, userDeviceArpCache[u][ip])

(* ARP of ns-3: an entry that is not permanent dies, and the owner of an   *)
(* address answers a request, for what is behind it the WiFi access point. *)
(* There are no answers over LiFi: a station drops the request, which is a *)
(* broadcast (LiFiStaMac::Enqueue).                                        *)
ArpExpires(u, ip) ==
    /\ userDeviceArpCache' = [userDeviceArpCache EXCEPT ![u][ip] = NoAddress]
    /\ UNCHANGED <<apCache, wifiArpCache, m_peerNetDevice, m_GatewayAddress, forwarding, lastSent>>

ArpReply(u, w) ==
    /\ wifiArpCache' = [wifiArpCache EXCEPT ![u][Csma] = w]
    /\ UNCHANGED <<apCache, userDeviceArpCache, m_peerNetDevice, m_GatewayAddress, forwarding,
                   lastSent>>

CachesNext ==
    \/ \E a \in LiFiAp, users \in SUBSET User : ModifyLifiAPCache(a, users)
    \/ \E a \in LiFiAp, users \in SUBSET User, w \in WifiAp :
          ConfigureUserDevicesCaches(a, users, w)
    \/ \E u \in User : UpdateUserDeviceCache(u) \/ SendResolved(u)
    \/ \E u \in User, ip \in Ip : ArpExpires(u, ip)
    \/ \E u \in User, w \in WifiAp : ArpReply(u, w)

CachesSpec == CachesInit /\ [][CachesNext]_cachesVars

-----------------------------------------------------------------------------
(* Properties.                                                             *)

(* The caches and the WiFi device tell one story, which several calls      *)
(* write in parts: a user with a peer has a gateway, what its LiFi         *)
(* interface believes about the wired one is that gateway, and no user     *)
(* without a peer resolves anything over LiFi; no frame went to nobody.    *)
CachesAgree ==
    \A u \in User :
        /\ m_peerNetDevice[u] => m_GatewayAddress[u] # NoAddress
        /\ m_peerNetDevice[u] => userDeviceArpCache[u][Csma] \in {m_GatewayAddress[u], NoAddress}
        /\ ~ m_peerNetDevice[u] => userDeviceArpCache[u] = Empty
        /\ Cardinality({a \in LiFiAp : userDeviceArpCache[u][a] # NoAddress}) <= 1
        /\ lastSent[u] # NothingSent => lastSent[u].receiver # NoAddress
        /\ lastSent[u].peer => lastSent[u].receiver \in WifiAp
=============================================================================
