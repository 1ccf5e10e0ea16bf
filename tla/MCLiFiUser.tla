------------------------------ MODULE MCLiFiUser ------------------------------
(* Instances for TLC of the modules around a user: its walk, motion,       *)
(* application, caches, queue and uplink, and what the controller and the  *)
(* analysis keep of it.  They share no state (LiFiStaTdma and LiFiMacQueue *)
(* have the queue of LiFiTxMac in common): focus says which of them a      *)
(* behaviour is about, the others stay as they are initially.              *)
EXTENDS LiFiWalk, LiFiApplication, LiFiMotion, LiFiPerformance, LiFiCaches,
        LiFiStaTdma, LiFiMacQueue, ControllerBooks

VARIABLE focus

mobileVars == <<walkVars, appVars, motionVars>>
noteVars == <<performanceVars, cachesVars, bookVars>>
uplinkVars == <<vars, times, callers, history>>
userVars == <<focus, mobileVars, noteVars, uplinkVars, drops, dealings>>

UserInit ==
    /\ focus \in {"walk", "application", "motion", "performance", "caches",
                  "uplink", "queue", "reports", "rx", "routes", "aps"}
    /\ WalkInit /\ ApplicationInit /\ MotionInit
    /\ PerformanceInit /\ CachesInit /\ BooksInit
    /\ StaInit /\ QueueInit

Walking ==
    /\ focus = "walk" /\ WalkNext
    /\ UNCHANGED <<focus, appVars, motionVars, noteVars, uplinkVars, drops, dealings>>
Applying ==
    /\ focus = "application" /\ ApplicationNext
    /\ UNCHANGED <<focus, walkVars, motionVars, noteVars, uplinkVars, drops, dealings>>
Moving ==
    /\ focus = "motion" /\ MotionNext
    /\ UNCHANGED <<focus, walkVars, appVars, noteVars, uplinkVars, drops, dealings>>

Analysing ==
    /\ focus = "performance" /\ PerformanceNext
    /\ UNCHANGED <<focus, mobileVars, cachesVars, bookVars, uplinkVars, drops, dealings>>
Caching ==
    /\ focus = "caches" /\ CachesNext
    /\ UNCHANGED <<focus, mobileVars, performanceVars, bookVars, uplinkVars, drops, dealings>>
Keeping ==
    /\ \/ focus = "reports" /\ ReportNext
       \/ focus = "rx" /\ RxNext
       \/ focus = "routes" /\ RouteNext
       \/ focus = "aps" /\ ApNext
    /\ UNCHANGED <<focus, mobileVars, performanceVars, cachesVars, uplinkVars, drops, dealings>>

Transmitting ==
    /\ focus = "uplink" /\ StaNext
    /\ UNCHANGED <<focus, mobileVars, noteVars, drops, dealings>>
Queueing ==
    /\ focus = "queue" /\ QueueNext
    /\ UNCHANGED <<focus, mobileVars, noteVars, times, callers, history>>

UserNext ==
    \/ Walking \/ Applying \/ Moving
    \/ Analysing \/ Caching \/ Keeping
    \/ Transmitting \/ Queueing

(* Fairness only for the events of the walk, as in WalkFair, and only      *)
(* where it is the walk that is looked at.                                 *)
OthersStay ==
    /\ focus = "walk"
    /\ UNCHANGED <<focus, appVars, motionVars, noteVars, uplinkVars, drops, dealings>>

UserSpec ==
    /\ UserInit /\ [][UserNext]_userVars
    /\ WF_userVars(DoInitialize /\ OthersStay)
    /\ WF_userVars(Run(0) /\ OthersStay)
    /\ WF_userVars(strays # <<>> /\ Run(1) /\ OthersStay)

(* The properties of walk and motion, and those of the application.        *)
PlacesTrue == WalkReaches /\ SecondReadTrue
SendingSound == PacketsAccounted /\ QuietAfterStop

(* The books of the queue are kept where all its calls are looked at.      *)
DropsAccounted == focus = "queue" => QueueAccounts

Places == {-3, 0, 2}
Whereabouts == {0, 1}
Speeds == {-1, 1}
Accelerations == {0, 1}

Flows == {[port |-> "k1", node |-> "n1", interface |-> 2],
          [port |-> "k1", node |-> "n2", interface |-> 2],
          [port |-> "k2", node |-> "n1", interface |-> 1]}

Table == <<"v1", "v2", "v1">>
SampledModels == {<<"lifi", "v1">>, <<"hybrid", "v1">>}
NodeProtocols == <<"olsr", "static", "static">>
NodeDevices == <<"p2p", "p2p", "wifi">>
=============================================================================
