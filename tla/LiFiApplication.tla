---------------------------- MODULE LiFiApplication ----------------------------
(***************************************************************************)
(* LiFiApplication: packets at a constant rate over a socket.  The         *)
(* application is started and stopped by events of their own, in either    *)
(* order, and a script may start it again; SendPacket schedules itself.    *)
(***************************************************************************)
EXTENDS Integers, Sequences, FiniteSets

CONSTANTS
    m_nPackets,   \* packets to send
    MaxStarts,    \* bound on the starts
    MaxDrops      \* bound on the drops reported

ASSUME ApplicationBounds == {m_nPackets, MaxStarts, MaxDrops} \subseteq Nat

VARIABLES
    m_running, m_packetsSent,
    m_sendEvent,       \* the SendPacket event that the application can cancel
    lostEvents,        \* scheduled SendPacket events that it cannot
    connected,         \* the socket has a peer; Close takes it away
    sentPackets,       \* length of sentPacketsVector
    transmissionTimes, \* length of transmissionTimeVector
    droppedPackets,    \* the numbers in droppedPackets
    starts             \* starts so far

appVars == <<m_running, m_packetsSent, m_sendEvent, lostEvents, connected, sentPackets,
             transmissionTimes, droppedPackets, starts>>

ApplicationInit ==
    /\ m_running = FALSE /\ m_packetsSent = 0
    /\ m_sendEvent = FALSE /\ lostEvents = 0
    /\ connected = FALSE
    /\ sentPackets = 0 /\ transmissionTimes = 0
    /\ droppedPackets = <<>>
    /\ starts = 0

SendsAgainMutantAtLimit(count) == count <= m_nPackets /\ m_running'

(* SendPacket goes on as long as fewer than m_nPackets were sent, and      *)
(* ScheduleTx as long as the application runs.                             *)
SendsAgain(count) == count < m_nPackets /\ m_running'

(* ScheduleTx: if an event is still scheduled, m_sendEvent forgets it.     *)
ScheduleTx(known, lost) ==
    /\ m_sendEvent' = TRUE
    /\ lostEvents' = lost + (IF known THEN 1 ELSE 0)

(* SendPacket, after count others; the socket may refuse the packet, which *)
(* is counted all the same.                                                *)
SendPacket(count, known, lost, times) ==
    /\ m_packetsSent' = count + 1
    /\ \/ SendsAgain(count + 1) /\ ScheduleTx(known, lost)
       \/ ~ SendsAgain(count + 1) /\ m_sendEvent' = known /\ lostEvents' = lost
    /\ \E sent \in (IF connected' THEN {0, 1} ELSE {0}) :
          /\ sentPackets' = sentPackets + sent
          /\ transmissionTimes' = times + sent

(* StartApplication sends at once, whatever m_nPackets is, and notes one   *)
(* time more than packets.                                                 *)
StartApplication ==
    /\ starts < MaxStarts
    /\ starts' = starts + 1
    /\ m_running' = TRUE /\ connected' = TRUE
    /\ SendPacket(0, m_sendEvent, lostEvents, transmissionTimes + 1)
    /\ UNCHANGED droppedPackets

(* StopApplication cancels the event it knows and closes the socket.       *)
StopApplication ==
    /\ m_running' = FALSE /\ m_sendEvent' = FALSE /\ connected' = FALSE
    /\ UNCHANGED <<m_packetsSent, lostEvents, sentPackets, transmissionTimes, droppedPackets,
                   starts>>

(* The next packet, by the event that is known or by a lost one, which     *)
(* comes even after the application was stopped.                           *)
NextPacket ==
    /\ UNCHANGED <<m_running, connected, droppedPackets, starts>>
    /\ \/ m_sendEvent /\ SendPacket(m_packetsSent, FALSE, lostEvents, transmissionTimes)
       \/ /\ lostEvents > 0
          /\ SendPacket(m_packetsSent, m_sendEvent, lostEvents - 1, transmissionTimes)

(* PhyRxDrop of the device: the count so far, plus one.                    *)
RxDrop ==
    /\ Len(droppedPackets) < MaxDrops
    /\ droppedPackets' = Append(droppedPackets, Len(droppedPackets) + 1)
    /\ UNCHANGED <<m_running, m_packetsSent, m_sendEvent, lostEvents, connected, sentPackets,
                   transmissionTimes, starts>>

ApplicationNext == StartApplication \/ StopApplication \/ NextPacket \/ RxDrop

ApplicationSpec == ApplicationInit /\ [][ApplicationNext]_appVars

-----------------------------------------------------------------------------
(* Properties.                                                             *)

(* An application started once sends no more than m_nPackets packets, but  *)
(* always one; each start while it runs leaves at most one event behind,   *)
(* which sends one packet beyond the limit at most.  The list of times,    *)
(* read together with that of the packets, is longer by one per start.     *)
PacketsAccounted ==
    LET limit == IF m_nPackets > 0 THEN m_nPackets ELSE 1
        restarts == IF starts > 0 THEN starts - 1 ELSE 0 IN
    /\ lostEvents <= restarts
    /\ m_packetsSent + lostEvents <= limit + restarts
    /\ transmissionTimes = sentPackets + starts

(* Once the application is stopped no send is scheduled that it knows of,  *)
(* after any starts and stops, and none is scheduled again; of one that    *)
(* was started once, none at all.  What a further start has left behind    *)
(* still comes, one packet per start at most (lostEvents above).           *)
QuietAfterStop == ~ m_running => ~ m_sendEvent /\ (starts <= 1 => lostEvents = 0)
=============================================================================
