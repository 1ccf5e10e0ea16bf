---------------------------- MODULE LiFiPerformance ----------------------------
(***************************************************************************)
(* PerformanceAnalysis: the sinks that scripts hand over, the ports whose  *)
(* flows count, the move of a user from LiFi to WiFi, and what             *)
(* CheckThroughput reports of each flow.                                   *)
(*                                                                         *)
(* Of a list of sinks only counts matter, of a list of ports only          *)
(* membership.  A flow has a port and is addressed to one interface of a   *)
(* node; its delay and its packets are the flow monitor's.                 *)
(***************************************************************************)
EXTENDS Integers, FiniteSets

CONSTANTS
    Sink,         \* nodes with a sink application
    Key,          \* destination ports
    Flow,         \* [port, node, interface]
    MaxHanded,    \* bound on how often a script hands a sink over
    MaxSwitches,  \* bound on SwitchUserFromLiFiToWifi
    MaxPackets    \* bound on the packets of a flow

ASSUME FlowAssumption == Flow \subseteq [port : Key, node : Sink, interface : {1, 2}]
ASSUME PerformanceBounds == {MaxHanded, MaxSwitches, MaxPackets} \subseteq Nat

VARIABLES
    lifiAPKeys, wifiAPKeys,
    lifiStaSinkApps, wifiStaSinkApps,  \* how often a sink is in the list
    rxPackets, delaySum,               \* of each flow
    switches,                          \* calls of SwitchUserFromLiFiToWifi
    handed,                            \* history: how often a sink was handed over,
    onLiFi                             \* and the sinks handed over as LiFi's since
                                       \* their user last went to WiFi

lists == <<lifiAPKeys, wifiAPKeys, lifiStaSinkApps, wifiStaSinkApps>>
traffic == <<rxPackets, delaySum>>
hands == <<handed, onLiFi>>
performanceVars == <<lists, traffic, switches, hands>>

PerformanceInit ==
    /\ lifiAPKeys = {} /\ wifiAPKeys = {}
    /\ lifiStaSinkApps = [n \in Sink |-> 0] /\ wifiStaSinkApps = [n \in Sink |-> 0]
    /\ rxPackets = [f \in Flow |-> 0] /\ delaySum = [f \in Flow |-> 0]
    /\ switches = 0
    /\ handed = [n \in Sink |-> 0] /\ onLiFi = {}

NoLiFiSinks(apps) == \A n \in Sink : apps[n] = 0

-----------------------------------------------------------------------------
SetLiFiKeys(k) ==
    /\ lifiAPKeys' = lifiAPKeys \cup {k}
    /\ UNCHANGED <<wifiAPKeys, lifiStaSinkApps, wifiStaSinkApps, traffic, switches, hands>>

SetWiFiKeys(k) ==
    /\ wifiAPKeys' = wifiAPKeys \cup {k}
    /\ UNCHANGED <<lifiAPKeys, lifiStaSinkApps, wifiStaSinkApps, traffic, switches, hands>>

(* A script hands a sink over with a container of one list or the other.   *)
SetSinkApplicationContainer(n) ==
    /\ handed[n] < MaxHanded
    /\ handed' = [handed EXCEPT ![n] = @ + 1]
    /\ \/ /\ lifiStaSinkApps' = [lifiStaSinkApps EXCEPT ![n] = @ + 1]
          /\ onLiFi' = onLiFi \cup {n}
          /\ UNCHANGED wifiStaSinkApps
       \/ /\ wifiStaSinkApps' = [wifiStaSinkApps EXCEPT ![n] = @ + 1]
          /\ UNCHANGED <<lifiStaSinkApps, onLiFi>>
    /\ UNCHANGED <<lifiAPKeys, wifiAPKeys, traffic, switches>>

StaySinksMutantAll(n) == [m \in Sink |-> 2 * lifiStaSinkApps[m]]

(* The sinks that stay are collected, and then the list is appended to     *)
(* itself by SetLiFiSinkApplicationContainer.                              *)
StaySinks(n) == [m \in Sink |-> IF m = n THEN 0 ELSE 2 * lifiStaSinkApps[m]]

KeysLeftMutantBefore(n) == IF lifiStaSinkApps[n] > 0 THEN {} ELSE lifiAPKeys

(* With no sink left the LiFi ports are forgotten, all of them.            *)
KeysLeft(n) == IF NoLiFiSinks(StaySinks(n)) THEN {} ELSE lifiAPKeys

SwitchUserFromLiFiToWifi(k, n) ==
    /\ switches < MaxSwitches
    /\ switches' = switches + 1
    /\ wifiAPKeys' = wifiAPKeys \cup {k}
    /\ wifiStaSinkApps' = [wifiStaSinkApps EXCEPT ![n] = @ + lifiStaSinkApps[n]]
    /\ lifiStaSinkApps' = StaySinks(n)
    /\ lifiAPKeys' = KeysLeft(n)
    /\ onLiFi' = onLiFi \ {n}
    /\ UNCHANGED <<handed, traffic>>

(* A packet of a flow is received, after some delay.                       *)
FlowReceives(f) ==
    /\ rxPackets[f] < MaxPackets
    /\ rxPackets' = [rxPackets EXCEPT ![f] = @ + 1]
    /\ delaySum' = [delaySum EXCEPT ![f] = @ + 1]
    /\ UNCHANGED <<lists, switches, hands>>

-----------------------------------------------------------------------------
(* CheckThroughput.                                                        *)

ShouldCaptureTrafficforPort(f) == f.port \in lifiAPKeys \cup wifiAPKeys

(* A LiFi sink is known by the address of its interface 2.                 *)
LiFiSinkFound(f) == f.interface = 2 /\ lifiStaSinkApps[f.node] > 0

(* In which of the three maps that are returned a flow is, if in any: a    *)
(* LiFi port without a listed LiFi sink is a user in handover; of a WiFi   *)
(* port no sink is required.                                               *)
ReportedAs(f) ==
    CASE ~ ShouldCaptureTrafficforPort(f) -> "none"
      [] f.port \in lifiAPKeys -> IF LiFiSinkFound(f) THEN "lifi" ELSE "handover"
      [] OTHER -> "wifi"

(* By how many packets delaySum is divided for perPacketDelay, which is    *)
(* not set before the first packet; a division of WiFi by 0 is infinite.   *)
DelayCount(f) == IF ReportedAs(f) = "wifi" THEN rxPackets[f] - 1 ELSE rxPackets[f]

(* The WiFi flows whose delay has no end, and with it the mean of all.     *)
Infinite(f) == ReportedAs(f) = "wifi" /\ rxPackets[f] > 0 /\ DelayCount(f) = 0

PerformanceNext ==
    \/ \E k \in Key : SetLiFiKeys(k) \/ SetWiFiKeys(k)
    \/ \E n \in Sink : SetSinkApplicationContainer(n)
    \/ \E k \in Key, n \in Sink : SwitchUserFromLiFiToWifi(k, n)
    \/ \E f \in Flow : FlowReceives(f)

PerformanceSpec == PerformanceInit /\ [][PerformanceNext]_performanceVars

-----------------------------------------------------------------------------
(* Properties.                                                             *)

(* Through any switches and hand-overs no entry of a sink is lost, however *)
(* the lists are taken apart and put together again, and a sink is in the  *)
(* LiFi list just if it was handed over as LiFi's since its user went to   *)
(* WiFi: a flow to it is taken for LiFi's, or for a user in handover, by   *)
(* that.                                                                   *)
SinksKept ==
    \A n \in Sink :
        /\ lifiStaSinkApps[n] + wifiStaSinkApps[n] >= handed[n]
        /\ lifiStaSinkApps[n] > 0 <=> n \in onLiFi

(* A switch never loses a flow that was reported, unless no LiFi sink is   *)
(* left: then the flows of the ports that WiFi does not have are lost.  By *)
(* a switch alone the reported delay of a flow only rises, without a       *)
(* packet being any later; that of a flow with one packet becomes infinite *)
(* when its port is forgotten by LiFi.                                     *)
FlowsKept ==
    [][\A f \in Flow :
          /\ ReportedAs(f) # "none" /\ ReportedAs(f)' = "none" =>
                NoLiFiSinks(lifiStaSinkApps)'
          /\ switches' # switches /\ ReportedAs(f)' # "none" =>
                /\ ReportedAs(f) # "none" => DelayCount(f)' <= DelayCount(f)
                /\ Infinite(f) => Infinite(f)'
                /\ ReportedAs(f)' = "wifi" /\ ReportedAs(f) \in {"lifi", "handover"}
                      /\ rxPackets[f] = 1 => Infinite(f)']_performanceVars
=============================================================================
