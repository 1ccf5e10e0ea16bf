---------------------------- MODULE ControllerBooks ----------------------------
(***************************************************************************)
(* What the controller keeps of each user, beside the handover that        *)
(* CentralizedController models: the maps in which networks register their *)
(* users, the series that reports and throughputs are appended to, and the *)
(* table of static routes from which a handover takes one.                 *)
(*                                                                         *)
(* A UserDeviceDataModel is the pair of the network that registered it and *)
(* its user.  Of a series of reports only the length matters.              *)
(***************************************************************************)
EXTENDS Integers, Sequences, FiniteSets, SequencesExt

CONSTANTS
    Network,      \* names under which users are registered
    BookUser,     \* their users
    RouteTable,   \* the static routes at the start: the destination of each
    Protocols,    \* the routing protocols of the controller's node, in order
    ListRouting,  \* they are those of an Ipv4ListRouting
    DeviceKinds,  \* the devices of that node, in order
    Sampled,      \* the models whose throughput scripts ask for
    ApId,         \* ids of access points, numbers from 1
    MaxReports,   \* bound on the reports of a user, and on the ids of a model
    MaxRx         \* bound on the bytes received

ASSUME RouteTableAssumption == RouteTable \in Seq(BookUser)
ASSUME NodeAssumption == ListRouting \in BOOLEAN /\ ~ ListRouting => Len(Protocols) = 1
ASSUME ApIdAssumption == ApId \subseteq Nat \ {0}
ASSUME BookBounds == {MaxReports, MaxRx} \subseteq Nat

Model == Network \X BookUser

ASSUME SampledAssumption == Sampled \subseteq Model

VARIABLES
    m_userDataModelMaps,  \* of each network: its registered users
    order,                \* in which the map of networks is iterated
    simTimes,             \* of each model: the length of simTimeVect,
    series,               \*   and of the series that are reset
    m_lifiApNetDevicesVector, \* of each model: ids of access points
    rxBytesVector,        \* of each model
    totalRx,              \* received by each user's sink
    routeTable,           \* destinations
    wifiAddresses,        \* addresses added to each user's WiFi interface
    heard,                \* history: reports of a user that were taken
    carried,              \* history: sum of the throughputs of each model
    skipped,              \* history: bytes that SetLastTotalRxBytes has passed over
    firstAp, given        \* history: the first id AddAPID was given, and how many

registryVars == <<m_userDataModelMaps, order>>
seriesVars == <<simTimes, series, heard>>
rxVars == <<rxBytesVector, totalRx, carried, skipped>>
routeVars == <<routeTable, wifiAddresses>>
apVars == <<m_lifiApNetDevicesVector, firstAp, given>>
bookVars == <<registryVars, seriesVars, rxVars, routeVars, apVars>>

NoSeries == [snrVect |-> 0, errRateVect |-> 0, lossVect |-> 0, throughputVect |-> 0]

BooksInit ==
    /\ m_userDataModelMaps = [w \in Network |-> {}]
    /\ order = <<>>
    /\ simTimes = [m \in Model |-> 0]
    /\ series = [m \in Model |-> NoSeries]
    /\ rxBytesVector = [m \in Model |-> <<0>>]
    /\ totalRx = [u \in BookUser |-> 0]
    /\ routeTable = RouteTable
    /\ wifiAddresses = [u \in BookUser |-> 0]
    /\ heard = [u \in BookUser |-> 0]
    /\ carried = [m \in Model |-> 0] /\ skipped = [m \in Model |-> 0]
    /\ m_lifiApNetDevicesVector = [m \in Model |-> <<>>]
    /\ firstAp = [m \in Model |-> 0] /\ given = [m \in Model |-> 0]

-----------------------------------------------------------------------------
(* A name that is taken keeps its users.  An insertion may rehash the map, *)
(* and then its order is any.                                              *)
RegisterUserDevice(name, users) ==
    /\ IF name \in Range(order) THEN UNCHANGED registryVars
       ELSE /\ m_userDataModelMaps' = [m_userDataModelMaps EXCEPT ![name] = users]
            /\ order' \in SetToSeqs(Range(order) \cup {name})
    /\ UNCHANGED <<seriesVars, rxVars, routeVars, apVars>>

FindUserWithIDMutantAll(u) == {<<name, u>> : name \in {w \in Network : u \in m_userDataModelMaps[w]}}

(* The model in the first network of the order that has the user, if any.  *)
FindUserWithID(u) ==
    {<<order[i], u>> : i \in {k \in DOMAIN order :
        /\ u \in m_userDataModelMaps[order[k]]
        /\ \A j \in 1..(k - 1) : u \notin m_userDataModelMaps[order[j]]}}

AddSNR(lengths) == [lengths EXCEPT !.snrVect = @ + 1]
AddErrorRate(lengths) == [lengths EXCEPT !.errRateVect = @ + 1]
AddPathLoss(lengths) == [lengths EXCEPT !.lossVect = @ + 1]
AddInstantThroughput(lengths) == [lengths EXCEPT !.throughputVect = @ + 1]

(* The report of a user that is not registered ends the program.           *)
TakeReport(u) ==
    /\ heard[u] < MaxReports
    /\ FindUserWithID(u) # {}
    /\ heard' = [heard EXCEPT ![u] = @ + 1]
    /\ simTimes' = [m \in Model |-> IF m \in FindUserWithID(u) THEN simTimes[m] + 1 ELSE simTimes[m]]
    /\ series' = [m \in Model |-> IF m \in FindUserWithID(u)
                                  THEN AddPathLoss(AddErrorRate(AddSNR(series[m])))
                                  ELSE series[m]]
    /\ UNCHANGED <<registryVars, rxVars, routeVars, apVars>>

(* The times of the reports stay, and so do the bytes.                     *)
ResetDataStructures(m) ==
    /\ series' = [series EXCEPT ![m] = NoSeries]
    /\ UNCHANGED <<simTimes, heard, rxBytesVector, totalRx, carried, skipped,
                   registryVars, routeVars, apVars>>

-----------------------------------------------------------------------------
LastRxBytes(m) == Last(rxBytesVector[m])

SinkReceives(u) ==
    /\ totalRx[u] < MaxRx
    /\ totalRx' = [totalRx EXCEPT ![u] = @ + 1]
    /\ UNCHANGED <<rxBytesVector, carried, skipped, registryVars, seriesVars,
                   routeVars, apVars>>

Longer(m) == Append(rxBytesVector[m], totalRx[m[2]])

SetLastTotalRxBytes(m) ==
    /\ Len(rxBytesVector[m]) <= MaxRx
    /\ skipped' = [skipped EXCEPT ![m] = @ + totalRx[m[2]] - LastRxBytes(m)]
    /\ rxBytesVector' = [rxBytesVector EXCEPT ![m] = Longer(m)]
    /\ UNCHANGED <<totalRx, carried, registryVars, seriesVars, routeVars, apVars>>

CalculateInstantThroughput(m) ==
    /\ Len(rxBytesVector[m]) <= MaxRx
    /\ carried' = [carried EXCEPT ![m] = @ + totalRx[m[2]] - LastRxBytes(m)]
    /\ rxBytesVector' = [rxBytesVector EXCEPT ![m] = Longer(m)]
    /\ series' = [series EXCEPT ![m] = AddInstantThroughput(@)]
    /\ UNCHANGED <<simTimes, heard, totalRx, skipped, registryVars, routeVars, apVars>>

-----------------------------------------------------------------------------
(* The first static routing of the node's protocols, 0 if there is none.   *)
GetStaticRouting ==
    IF \E i \in DOMAIN Protocols : Protocols[i] = "static"
    THEN CHOOSE i \in DOMAIN Protocols :
             Protocols[i] = "static" /\ \A j \in 1..(i - 1) : Protocols[j] # "static"
    ELSE 0

(* The pair's first member: 1 for the first WiFi device, -1 without one.   *)
GetWiFiNetDeviceInterfaceIndex ==
    IF \E i \in DOMAIN DeviceKinds : DeviceKinds[i] = "wifi" THEN 1 ELSE -1

(* The first route to the user goes away, in favour of one more address.   *)
TransferRoute(u) ==
    /\ GetStaticRouting # 0
    /\ LET i == SelectInSeq(routeTable, LAMBDA dest : dest = u) IN
        IF i = 0 THEN UNCHANGED routeVars
        ELSE /\ routeTable' = RemoveAt(routeTable, i)
             /\ wifiAddresses' = IF GetWiFiNetDeviceInterfaceIndex = -1 THEN wifiAddresses
                                 ELSE [wifiAddresses EXCEPT ![u] = @ + 1]
    /\ UNCHANGED <<registryVars, seriesVars, rxVars, apVars>>

-----------------------------------------------------------------------------
(* An id is appended if it is the one that is there already.               *)
AddAPID(m, id) ==
    /\ given[m] < MaxReports
    /\ given' = [given EXCEPT ![m] = @ + 1]
    /\ firstAp' = [firstAp EXCEPT ![m] = IF @ = 0 THEN id ELSE @]
    /\ m_lifiApNetDevicesVector' =
          IF m_lifiApNetDevicesVector[m] = <<>> \/ Last(m_lifiApNetDevicesVector[m]) = id
          THEN [m_lifiApNetDevicesVector EXCEPT ![m] = Append(@, id)]
          ELSE m_lifiApNetDevicesVector
    /\ UNCHANGED <<registryVars, seriesVars, rxVars, routeVars>>

GetCurrentAPID(m) == Last(m_lifiApNetDevicesVector[m])

ReportNext ==
    \/ \E name \in Network, users \in SUBSET BookUser : RegisterUserDevice(name, users)
    \/ \E u \in BookUser : TakeReport(u)
    \/ \E m \in Model : ResetDataStructures(m)

RxNext ==
    \/ \E u \in BookUser : SinkReceives(u)
    \/ \E m \in Sampled : \/ SetLastTotalRxBytes(m)
                        \/ CalculateInstantThroughput(m)
                        \/ ResetDataStructures(m)

RouteNext == \E u \in BookUser : TransferRoute(u)

ApNext == \E m \in Sampled, id \in ApId : AddAPID(m, id)

BooksNext == ReportNext \/ RxNext \/ RouteNext \/ ApNext

BooksSpec == BooksInit /\ [][BooksNext]_bookVars

-----------------------------------------------------------------------------
(* Properties.                                                             *)

(* The reports that the models of a user have, each model's numbered.      *)
Reports(u) == UNION {{m} \X (1..simTimes[m]) : m \in Network \X {u}}
RoutesTo(u, table) == Cardinality({i \in DOMAIN table : table[i] = u})

(* A report counts for one model of its user, also if several networks     *)
(* have registered the user and their order changes in between.            *)
ReportsAccounted ==
    \A u \in BookUser : Cardinality(Reports(u)) = heard[u]

(* The throughputs of a model and what was passed over are all that its    *)
(* last number of bytes tells, through every reset of the series.          *)
ThroughputTelescopes ==
    \A m \in Model : carried[m] + skipped[m] = LastRxBytes(m) /\ LastRxBytes(m) <= totalRx[m[2]]

(* A handover takes a route of its own user, the others keep theirs, and   *)
(* an address is added for each.                                           *)
RoutesAccounted ==
    \A u \in BookUser :
        wifiAddresses[u] = (IF GetWiFiNetDeviceInterfaceIndex = -1 THEN 0
                            ELSE RoutesTo(u, RouteTable) - RoutesTo(u, routeTable))

(* Resets keep the three series of reports together but leave the times,   *)
(* so that the last SNR of a model need not be of its last time, and the   *)
(* current access point of a model is the first it was ever given.         *)
CurrentIsFirst ==
    \A m \in Model :
        /\ series[m].snrVect = series[m].errRateVect
        /\ series[m].snrVect = series[m].lossVect
        /\ series[m].snrVect <= simTimes[m]
        /\ given[m] > 0 => GetCurrentAPID(m) = firstAp[m]

BooksBalance == CurrentIsFirst /\ ReportsAccounted /\ ThroughputTelescopes /\ RoutesAccounted
=============================================================================
