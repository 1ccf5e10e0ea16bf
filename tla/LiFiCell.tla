------------------------------ MODULE LiFiCell ------------------------------
(***************************************************************************)
(* A cell: the access point of LiFiApMac, its control queue, the optical   *)
(* channel and the stations of model/lifi-sta-mac.cc.  A station answers   *)
(* every beacon it receives, also those of access points of other cells,   *)
(* and all that it sends is heard by the access point of its own channel.  *)
(*                                                                         *)
(* Between its beacon and the distribution of slots the access point waits *)
(* 130 us.  Its control queue is done after at most 30 us, a frame travels *)
(* for 33 ns, and the answer of a station takes no time at all (an empty   *)
(* packet): what the beacon sets off is over before the distribution.      *)
(* What the beacon of another cell sets off may come at any moment.        *)
(***************************************************************************)
EXTENDS LiFiApMac, SequencesExt

CONSTANTS
    ControlBudget,    \* argument of StartTransmission in SendOneBeacon, 30
    MaxAnswers        \* bound on the answers that a station has under way

ASSUME ControlAssumption == ControlBudget \in Nat /\ MaxAnswers \in Nat

VARIABLES
    m_beaconTxop,     \* frames in the access point's control queue
    budget,           \* what is left to its chain of SendPacketDown, if any
    downlink,         \* frames on their way to each station
    uplink,           \* answers on their way to the access point
    m_candidateAps,   \* the access points that each station has heard
    m_controlTxop,    \* answers in each station's control queue
    sends,            \* SendPacketDown events scheduled at each station
    inRange,          \* the stations that hear the access point, and it them
    steady            \* history: in range ever since the last beacon

control == <<m_beaconTxop, budget>>
air     == <<downlink, uplink>>
station == <<m_candidateAps, m_controlTxop, sends>>
place   == <<inRange, steady>>
cellVars == <<vars, control, air, station, place>>

-----------------------------------------------------------------------------
(* A frame of the access point is its beacon or the association response   *)
(* to one station; an answer is its sender and whose beacon it answers.    *)
Beacon       == [type |-> "Beacon", to |-> Dev]
AssocResp(d) == [type |-> "AssocResp", to |-> {d}]
ControlFrame == {Beacon} \cup {AssocResp(d) : d \in Dev}

Cells  == {"own", "other"}
Answer == [node : Dev, cell : Cells]

(* The n-th element of a set of device ids.                                *)
Nth(S, n) == CHOOSE d \in S : Cardinality({k \in S : k <= d}) = n

(* What the beacon of the cell has set off is not over yet.                *)
Answering ==
    \/ budget > 0
    \/ \E d \in Dev : downlink[d] # <<>>
    \/ \E d \in Dev : \E a \in Range(m_controlTxop[d]) : a.cell = "own"
    \/ \E a \in Range(uplink) : a.cell = "own"

(* StartTransmission with us microseconds finds queue q: each frame takes  *)
(* less than a microsecond, and what is left is cut to whole microseconds. *)
Chain(q, us) == IF q # <<>> THEN us ELSE 0

(* What SendPacketDown hands to the channel: nothing if the queue is empty.*)
HandedDown(q) == IF q = <<>> THEN <<>> ELSE <<Head(q)>>
Dequeued(q)   == IF q = <<>> THEN <<>> ELSE Tail(q)

(* The channel delivers to every station what the access point sends.      *)
Broadcast(frames) == [d \in Dev |-> downlink[d] \o frames]

(* The error model of the physical layer lets the frames through that are  *)
(* exchanged within the range of the light.                                *)
Correct(d) == d \in inRange

-----------------------------------------------------------------------------
CellInit ==
    /\ Init
    /\ m_beaconTxop = <<>> /\ budget = 0
    /\ downlink = [d \in Dev |-> <<>>] /\ uplink = <<>>
    /\ m_candidateAps = [d \in Dev |-> <<>>]
    /\ m_controlTxop = [d \in Dev |-> <<>>]
    /\ sends = [d \in Dev |-> 0]
    /\ inRange \in SUBSET Dev
    /\ steady = {}

(* The access point sends its beacon, after what is left in the queue.     *)
QueueBeacon ==
    /\ SendOneBeacon
    /\ m_beaconTxop' = Append(m_beaconTxop, Beacon)
    /\ budget' = Chain(m_beaconTxop', ControlBudget)
    /\ steady' = inRange
    /\ UNCHANGED <<air, station, inRange>>

(* One response for each entry of m_slotInfosMaps, by increasing id: they  *)
(* wait until the next beacon starts a transmission.                       *)
Tagged == {d \in Dev : m_slotInfosMaps[d] # NoTag}

QueueResponses ==
    /\ SendSlotControlPackets
    /\ m_beaconTxop' = m_beaconTxop
          \o [n \in 1..Cardinality(Tagged) |-> AssocResp(Nth(Tagged, n))]
    /\ UNCHANGED <<budget, air, station, place>>

(* The other events of the access point.                                   *)
ApEvent ==
    /\ \/ StartSuperSessions
       \/ TransmitControlFrames
       \/ ~ Answering /\ DistributeSlots
       \/ SendRecordToCentralizedControllers
       \/ TransmitDataFrame
       \/ StartFrameTransmission
    /\ UNCHANGED <<control, air, station, place>>

(* SendPacketDown of the access point's control queue.                     *)
SendControlFrame ==
    /\ budget > 0
    /\ m_beaconTxop' = Dequeued(m_beaconTxop)
    /\ budget' = Chain(m_beaconTxop', budget - 1)
    /\ downlink' = Broadcast(HandedDown(m_beaconTxop))
    /\ UNCHANGED <<vars, uplink, station, place>>

(* An answer arrives at the access point, whoever it is addressed to.      *)
ApReceive ==
    /\ uplink # <<>>
    /\ uplink' = Tail(uplink)
    /\ LET d == Head(uplink).node IN
         \/ Correct(d) /\ \E s \in Services : ReigsterUserDevice(d, s)
         \/ ~ Correct(d) /\ UNCHANGED vars
    /\ UNCHANGED <<control, downlink, station, place>>

(* The script of the simulation lists a station with the access point.     *)
AssociateUserDevicesWithAP(d) ==
    /\ AddUserDeviceInfos(d)
    /\ UNCHANGED <<control, air, station, place>>

-----------------------------------------------------------------------------
(* The station.                                                            *)

(* The list of access points heard, after a beacon of one of them.         *)
Candidates(list, cell) ==
    IF cell \in Range(list) THEN list ELSE Append(list, cell)

AnswerMutantQueuesOnly(d, cell) ==
    /\ m_candidateAps' = [m_candidateAps EXCEPT ![d] = Candidates(@, cell)]
    /\ m_controlTxop' = [m_controlTxop EXCEPT
          ![d] = Append(@, [node |-> d, cell |-> cell])]
    /\ UNCHANGED sends

AnswerMutantNewOnly(d, cell) ==
    /\ m_candidateAps' = [m_candidateAps EXCEPT ![d] = Candidates(@, cell)]
    /\ IF cell \in Range(m_candidateAps[d]) THEN UNCHANGED <<m_controlTxop, sends>>
       ELSE /\ m_controlTxop' = [m_controlTxop EXCEPT
                  ![d] = Append(@, [node |-> d, cell |-> cell])]
            /\ sends' = [sends EXCEPT ![d] = @ + 1]

(* A beacon is answered (SendAssociationRequest), each with a chain of its *)
(* own: StartTransmission does not look for one that is running.           *)
AnswerBeacon(d, cell) ==
    /\ m_candidateAps' = [m_candidateAps EXCEPT ![d] = Candidates(@, cell)]
    /\ m_controlTxop' = [m_controlTxop EXCEPT
          ![d] = Append(@, [node |-> d, cell |-> cell])]
    /\ sends' = [sends EXCEPT ![d] = @ + 1]

(* A frame of the access point arrives.  What a response says is put into  *)
(* a copy of the last element of m_candidateAps, and forgotten.            *)
StationReceive(d) ==
    /\ downlink[d] # <<>>
    /\ downlink' = [downlink EXCEPT ![d] = Tail(@)]
    /\ \/ Correct(d) /\ Head(downlink[d]) = Beacon /\ AnswerBeacon(d, "own")
       \/ ~ (Correct(d) /\ Head(downlink[d]) = Beacon) /\ UNCHANGED station
    /\ UNCHANGED <<vars, control, uplink, place>>

(* A beacon of another cell arrives; MaxAnswers bounds how many at once.   *)
OtherBeacon(d) ==
    /\ sends[d] < MaxAnswers
    /\ Len(SelectSeq(uplink, LAMBDA a : a.node = d)) < MaxAnswers
    /\ AnswerBeacon(d, "other")
    /\ UNCHANGED <<vars, control, air, place>>

(* SendPacketDown of the station's control queue.  An answer is empty and  *)
(* takes no time, so a chain goes on while there are answers; when another *)
(* chain has sent them it dequeues nothing.                                *)
SendAnswer(d) ==
    /\ sends[d] > 0
    /\ m_controlTxop' = [m_controlTxop EXCEPT ![d] = Dequeued(@)]
    /\ uplink' = uplink \o HandedDown(m_controlTxop[d])
    /\ sends' = [sends EXCEPT ![d] = IF m_controlTxop'[d] = <<>> THEN @ - 1 ELSE @]
    /\ UNCHANGED <<vars, control, downlink, m_candidateAps, place>>

(* A station walks into the light or out of it.                            *)
Walk(d) ==
    /\ inRange' = (inRange \ {d}) \cup ({d} \ inRange)
    /\ steady' = steady \ {d}
    /\ UNCHANGED <<vars, control, air, station>>

-----------------------------------------------------------------------------
CellNext ==
    \/ QueueBeacon
    \/ QueueResponses
    \/ ApEvent
    \/ SendControlFrame
    \/ ApReceive
    \/ \E d \in Dev : AssociateUserDevicesWithAP(d)
    \/ \E d \in Dev : StationReceive(d)
    \/ \E d \in Dev : SendAnswer(d)
    \/ \E d \in Dev : OtherBeacon(d)
    \/ \E d \in Dev : Walk(d)

CellSpec == CellInit /\ [][CellNext]_cellVars

(* Simulator::Run executes the events in the order of their times, so each *)
(* event that is scheduled runs.                                           *)
CellFairness ==
    /\ WF_cellVars(QueueBeacon)
    /\ WF_cellVars(QueueResponses)
    /\ WF_cellVars(ApEvent)
    /\ WF_cellVars(SendControlFrame)
    /\ WF_cellVars(ApReceive)
    /\ \A d \in Dev : WF_cellVars(StationReceive(d)) /\ WF_cellVars(SendAnswer(d))

CellFairSpec == CellSpec /\ CellFairness

-----------------------------------------------------------------------------
(* Properties.                                                             *)

(* Type invariant of what the cell adds to the access point.               *)
CellTypeOK ==
    /\ m_beaconTxop \in Seq(ControlFrame)
    /\ budget \in 0..ControlBudget
    /\ downlink \in [Dev -> Seq(ControlFrame)]
    /\ uplink \in Seq(Answer)
    /\ m_candidateAps \in [Dev -> Seq(Cells)]
    /\ m_controlTxop \in [Dev -> Seq(Answer)]
    /\ sends \in [Dev -> Nat]
    /\ inRange \in SUBSET Dev /\ steady \in SUBSET inRange

(* Every station that has been in range since the beacon is in the roster  *)
(* when the slots are distributed: its answer is neither lost nor late,    *)
(* whatever else the two control queues hold.                              *)
StationsRegistered ==
    /\ pending["DistributeSlots"] > 0 /\ pending["SendOneBeacon"] = 0
    /\ ~ Answering
    => steady \subseteq Present

(* The 30 us of the control queue are enough: the responses of the last    *)
(* superframe, which precede the beacon, do not keep it back, and nothing  *)
(* accumulates (|Dev| < ControlBudget).                                    *)
BeaconOut ==
    budget = 0 =>
        /\ Beacon \notin Range(m_beaconTxop)
        /\ Len(m_beaconTxop) <= Cardinality(Dev)

(* No answer waits without an event that will send it, although chains of  *)
(* several beacons dequeue each other's answers.                           *)
NoStrandedAnswer ==
    \A d \in Dev : sends[d] = 0 => m_controlTxop[d] = <<>>

(* A station that a response is sent to has heard some access point:       *)
(* UpdateStationSlotInfoFromAssocResp takes the last element of a list it  *)
(* does not check.                                                         *)
ResponseKnown ==
    \A d \in Dev :
        AssocResp(d) \in Range(m_beaconTxop) \cup Range(downlink[d])
            => m_candidateAps[d] # <<>>

(* In one: whatever the order in which beacons, answers and responses are  *)
(* sent, lost and heard, each finds what it needs when its turn comes.     *)
CellSound ==
    CellTypeOK /\ StationsRegistered /\ BeaconOut /\ NoStrandedAnswer /\ ResponseKnown

(* A station that stays in range is started for an uplink slot again and   *)
(* again, whatever the others do and whichever other cells it hears,       *)
(* unless the access point has fallen silent before anybody answered it    *)
(* (while three slots for each entry fit in MaxSlots, and a frame for each *)
(* station and the beacon in ControlBudget).                               *)
InRangeServed ==
    \A d \in Dev :
        <>[](d \in inRange) => []<>(grants[d] > 0) \/ <>[](Silenced /\ NobodyHeard)
=============================================================================
