----------------------- MODULE CentralizedController -----------------------
(***************************************************************************)
(* The controller of model/centralized-controller.cc: it collects the SNR  *)
(* that the access points report, checks every m_kpi_monetoringTime        *)
(* whether a user's average has fallen, checks once more when the time to  *)
(* trigger has passed, and moves the user's address from its LiFi route to *)
(* its WiFi interface.                                                     *)
(*                                                                         *)
(* A scheduled event is the time left until it runs; Tick lets a unit of   *)
(* time pass when nothing is due, as Simulator::Run does.  The access      *)
(* points are the environment: they may report at any moment.              *)
(***************************************************************************)
EXTENDS Integers, Sequences, SequencesExt, FiniteSets

CONSTANTS
    User,             \* the users registered with RegisterUserDevice
    Snr,              \* the SNR values that are reported, in dB
    MinReports,       \* 41 in IsHandoverCriteriaSatisfied
    FirstLag,         \* m_lagPair.first: reports the first check averages
    SecondLag,        \* m_lagPair.second: those the second check averages
    TimeToTrigger,    \* m_time_to_trigger as configured
    HandoverDelay,    \* m_handoverDelay
    CheckTime,        \* m_kpi_monetoringTime of the last user of the map
    Routes,           \* static routes to each user's address at the start
    HasWifi           \* the controller's node has a WiFi device

ASSUME ReportsAssumption == MinReports \in Nat /\ Snr \subseteq Nat

(* For a lag of MinReports or more the unsigned loop of the criterion      *)
(* leaves the vector; such a lag is not modelled.                          *)
ASSUME LagAssumption ==
    FirstLag \in 1..(MinReports - 1) /\ SecondLag \in 1..(MinReports - 1)

ASSUME TimeAssumption ==
    /\ TimeToTrigger \in Nat /\ HandoverDelay \in Nat
    /\ CheckTime \in Nat \ {0}

ASSUME RouteAssumption == Routes \in Nat /\ HasWifi \in BOOLEAN

VARIABLES
    snrVect,               \* the last MinReports reports of each user
    isHandoverInProgress,
    m_time_to_trigger,
    kpi,                   \* time left until KPI_Monitoring
    ttt,                   \* times left until each CheckHandoverMetrics-
                           \*   AfterTTTExpirey that is scheduled
    completion,            \* times left until each CompleteHandover
    routes,                \* routes to the user's address at the controller
    addresses,             \* addresses added to the user's WiFi interface
    waited,                \* history: time since the last InitiateHandover
    cancelled              \* history: some handover of the user was given up

user    == <<isHandoverInProgress, m_time_to_trigger, ttt, completion>>
network == <<routes, addresses>>
history == <<waited, cancelled>>
vars    == <<snrVect, user, kpi, network, history>>

-----------------------------------------------------------------------------
(* The average of the last count reports is at most 20.5 dB.               *)
LowAverage(reports, count) ==
    2 * FoldLeft(+, 0, SubSeq(reports, Len(reports) - count + 1, Len(reports)))
        <= 41 * count

(* IsHandoverCriteriaSatisfied                                             *)
Criteria(u, count) ==
    Len(snrVect[u]) >= MinReports /\ LowAverage(snrVect[u], count)

(* Operators with `Mutant' in their name are faulty variants of the one    *)
(* that follows them, used to see that the properties notice.              *)
RequiredMutantIgnoresProgress(u) == Criteria(u, FirstLag)

(* IsHandoverHandoverRequired                                              *)
Required(u) == ~ isHandoverInProgress[u] /\ Criteria(u, FirstLag)

(* The scheduler runs one of the events that are due now.                  *)
RunDue(times, u) ==
    \E i \in DOMAIN times[u] :
        /\ times[u][i] = 0
        /\ times' = [times EXCEPT ![u] = RemoveAt(@, i)]

(* The last n elements of a sequence.                                      *)
LastOf(n, s) == IF Len(s) <= n THEN s ELSE SubSeq(s, Len(s) - n + 1, Len(s))

-----------------------------------------------------------------------------
Init ==
    /\ snrVect = [u \in User |-> <<>>]
    /\ isHandoverInProgress = [u \in User |-> FALSE]
    /\ m_time_to_trigger = [u \in User |-> TimeToTrigger]
    /\ kpi = CheckTime
    /\ ttt = [u \in User |-> <<>>]
    /\ completion = [u \in User |-> <<>>]
    /\ routes = [u \in User |-> Routes]
    /\ addresses = [u \in User |-> 0]
    /\ waited = [u \in User |-> 0]
    /\ cancelled = [u \in User |-> FALSE]

(* A measurement report of user u arrives from an access point.            *)
LiFiAPMeasurementReports(u, snr) ==
    /\ snrVect' = [snrVect EXCEPT ![u] = LastOf(MinReports, Append(@, snr))]
    /\ UNCHANGED <<user, kpi, network, history>>

KpiMutantChecksAtOnce ==
    /\ kpi = 0
    /\ LET S == {u \in User : Required(u)} IN
        /\ isHandoverInProgress' =
             [u \in User |-> u \in S \/ isHandoverInProgress[u]]
        /\ ttt' = [u \in User |-> IF u \in S THEN Append(ttt[u], 0) ELSE ttt[u]]
        /\ waited' = [u \in User |-> IF u \in S THEN 0 ELSE waited[u]]
    /\ kpi' = CheckTime
    /\ UNCHANGED <<snrVect, m_time_to_trigger, completion, network, cancelled>>

(* InitiateHandover for every user that requires it.                       *)
KPI_Monitoring ==
    /\ kpi = 0
    /\ LET S == {u \in User : Required(u)} IN
        /\ isHandoverInProgress' =
             [u \in User |-> u \in S \/ isHandoverInProgress[u]]
        /\ ttt' = [u \in User |-> IF u \in S
                                  THEN Append(ttt[u], m_time_to_trigger[u])
                                  ELSE ttt[u]]
        /\ waited' = [u \in User |-> IF u \in S THEN 0 ELSE waited[u]]
    /\ kpi' = CheckTime
    /\ UNCHANGED <<snrVect, m_time_to_trigger, completion, network, cancelled>>

CheckMutantKeepsInProgress(u) ==
    /\ RunDue(ttt, u)
    /\ \/ /\ Criteria(u, SecondLag)
          /\ completion' = [completion EXCEPT ![u] = Append(@, HandoverDelay)]
          /\ UNCHANGED <<m_time_to_trigger, cancelled>>
       \/ /\ ~ Criteria(u, SecondLag)
          /\ m_time_to_trigger' = [m_time_to_trigger EXCEPT ![u] = 0]
          /\ cancelled' = [cancelled EXCEPT ![u] = TRUE]
          /\ UNCHANGED completion
    /\ UNCHANGED <<snrVect, isHandoverInProgress, kpi, network, waited>>

(* The second check.  A handover that is given up also clears the user's   *)
(* time to trigger, for all its later handovers.                           *)
CheckHandoverMetricsAfterTTTExpirey(u) ==
    /\ RunDue(ttt, u)
    /\ \/ /\ Criteria(u, SecondLag)
          /\ completion' = [completion EXCEPT ![u] = Append(@, HandoverDelay)]
          /\ UNCHANGED <<isHandoverInProgress, m_time_to_trigger, cancelled>>
       \/ /\ ~ Criteria(u, SecondLag)
          /\ m_time_to_trigger' = [m_time_to_trigger EXCEPT ![u] = 0]
          /\ isHandoverInProgress' = [isHandoverInProgress EXCEPT ![u] = FALSE]
          /\ cancelled' = [cancelled EXCEPT ![u] = TRUE]
          /\ UNCHANGED completion
    /\ UNCHANGED <<snrVect, kpi, network, waited>>

(* The first route to the user goes away; without one nothing is added.    *)
TransferApplicationLiFiToWiFi(u) ==
    \/ /\ routes[u] = 0
       /\ UNCHANGED network
    \/ /\ routes[u] > 0
       /\ routes' = [routes EXCEPT ![u] = @ - 1]
       /\ addresses' = [addresses EXCEPT ![u] = IF HasWifi THEN @ + 1 ELSE @]

CompleteHandover(u) ==
    /\ RunDue(completion, u)
    /\ isHandoverInProgress' = [isHandoverInProgress EXCEPT ![u] = FALSE]
    /\ TransferApplicationLiFiToWiFi(u)
    /\ UNCHANGED <<snrVect, m_time_to_trigger, kpi, ttt, history>>

(* The clock.  MaxWait bounds the history variable only.                   *)
MaxWait == TimeToTrigger + HandoverDelay

Earlier(times) == [i \in DOMAIN times |-> times[i] - 1]

Tick ==
    /\ kpi > 0
    /\ \A u \in User : \A t \in Range(ttt[u]) \cup Range(completion[u]) : t > 0
    /\ kpi' = kpi - 1
    /\ ttt' = [u \in User |-> Earlier(ttt[u])]
    /\ completion' = [u \in User |-> Earlier(completion[u])]
    /\ waited' = [u \in User |-> IF waited[u] < MaxWait THEN waited[u] + 1
                                                        ELSE MaxWait]
    /\ UNCHANGED <<snrVect, isHandoverInProgress, m_time_to_trigger, network,
                   cancelled>>

-----------------------------------------------------------------------------
Simulate ==
    \/ KPI_Monitoring
    \/ \E u \in User : CheckHandoverMetricsAfterTTTExpirey(u)
    \/ \E u \in User : CompleteHandover(u)
    \/ Tick

Next ==
    \/ Simulate
    \/ \E u \in User, snr \in Snr : LiFiAPMeasurementReports(u, snr)

Spec == Init /\ [][Next]_vars

(* Simulator::Run goes on for ever: KPI_Monitoring reschedules itself.     *)
FairSpec == Spec /\ WF_vars(Simulate)

-----------------------------------------------------------------------------
(* Properties.                                                             *)

(* Type invariant: a report window, flags, and times left.                 *)
TypeOK ==
    /\ snrVect \in [User -> Seq(Snr)]
    /\ \A u \in User : Len(snrVect[u]) <= MinReports
    /\ isHandoverInProgress \in [User -> BOOLEAN]
    /\ m_time_to_trigger \in [User -> {0, TimeToTrigger}]
    /\ kpi \in 0..CheckTime
    /\ ttt \in [User -> Seq(0..TimeToTrigger)]
    /\ completion \in [User -> Seq(0..HandoverDelay)]
    /\ routes \in [User -> 0..Routes]
    /\ addresses \in [User -> 0..Routes]
    /\ waited \in [User -> 0..MaxWait]
    /\ cancelled \in [User -> BOOLEAN]

(* isHandoverInProgress, which the two event handlers clear and KPI_Moni-  *)
(* toring reads, tells exactly whether one event of the user's handover is *)
(* scheduled: a handover is never started twice and never forgotten.       *)
OneHandover ==
    \A u \in User :
        /\ isHandoverInProgress[u] => Len(ttt[u]) + Len(completion[u]) = 1
        /\ ~ isHandoverInProgress[u] => Len(ttt[u]) + Len(completion[u]) = 0

(* A handover takes its time to trigger and its delay, unless an earlier   *)
(* one of the user was given up (which clears its time to trigger).        *)
HandoverWaits ==
    [][\A u \in User : CompleteHandover(u) =>
          cancelled[u] \/ waited[u] >= TimeToTrigger + HandoverDelay]_vars

(* Although a user that is still weak is handed over again and again, no   *)
(* address is added without a route having been removed.                   *)
AddressForRoute ==
    \A u \in User : addresses[u] = (IF HasWifi THEN Routes - routes[u] ELSE 0)

(* In one: the books of every user agree with its events and its routes.   *)
HandoverSound == TypeOK /\ OneHandover /\ AddressForRoute

(* The controller implements the handover protocol it promises.            *)
PhaseOf(u) == IF completion[u] # <<>> THEN "executing"
              ELSE IF ttt[u] # <<>> THEN "triggered" ELSE "idle"

OnWifi == {u \in User : addresses[u] > 0}

Protocol == INSTANCE Handover WITH
    phase  <- [u \in User |-> PhaseOf(u)],
    onWifi <- OnWifi
HandoverSpec == Protocol!Spec

(* A user all of whose reports stay weak leaves the LiFi network.          *)
Weak(u) ==
    Len(snrVect[u]) = MinReports /\ \A s \in Range(snrVect[u]) : 2 * s <= 41

WeakUserLeaves == \A u \in User : <>[]Weak(u) => <>[](routes[u] = 0)
=============================================================================
