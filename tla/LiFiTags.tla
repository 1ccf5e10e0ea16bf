------------------------------- MODULE LiFiTags -------------------------------
(***************************************************************************)
(* The tags that packets carry, from their setters through Serialize and   *)
(* Deserialize to their readers: MacResourcesTag (the slots of a station), *)
(* MeasurementReport, BeaconResponseTag and LiFiCapabilityInformation.     *)
(*                                                                         *)
(* A buffer is the sequence of what has been written to it.  It may be     *)
(* shorter than GetSerializedSize says: what is read behind its end was    *)
(* never written, and can be anything.                                     *)
(***************************************************************************)
EXTENDS Integers, Sequences, SequencesExt

CONSTANTS
    SlotNumbers,    \* slot numbers of a frame
    MaxSlotList,    \* bound on the slots of a station in one direction
    MaxUplinkRead,  \* uplink slots from which on Deserialize skips them, 20 in the code
    Garbage,        \* what unwritten memory holds
    Snr,            \* measured values
    ReportedId,     \* ids of the devices that are reported
    Drops           \* twice the packets dropped, SetPktDrop takes fractions

ASSUME TagAssumption == {MaxSlotList, MaxUplinkRead} \subseteq Nat /\ Garbage \subseteq Nat
ASSUME DropAssumption == Drops \subseteq Nat

VARIABLES
    sentSlots,     \* MacResourcesTag of the access point: [dl, ul]
    slotsBuffer,   \* of the packet in which it is sent
    readTag,       \* MacResourcesTag of the station: [dl, ulCount, ul]
    measurementReport,  \* of the access point: [device_id, no_measurements, snr_vector]
    reportBuffer,       \* of the packet in which it is sent
    readReport,         \* of the controller
    reported,           \* history: what had been set in the report that was read
    response, readResponse, \* BeaconResponseTag, its sender's and its reader's
    answered,      \* history: what had been set in the response that was read
    m_capability   \* the bits set in a capability information

slotsVars == <<sentSlots, slotsBuffer, readTag>>
reportVars == <<measurementReport, reportBuffer, readReport, reported>>
otherVars == <<response, readResponse, answered, m_capability>>
tagVars == <<slotsVars, reportVars, otherVars>>

SlotLists == BoundedSeq(SlotNumbers, MaxSlotList)
NotSent == <<>>
NoReport == [device_id |-> 0, no_measurements |-> 0, snr_vector |-> <<>>]
NoResponse == [ac |-> 0, drop |-> 0, set |-> 0]

TagsInit ==
    /\ slotsBuffer = NotSent /\ sentSlots = [dl |-> <<>>, ul |-> <<>>]
    /\ readTag = [dl |-> <<>>, ulCount |-> 0, ul |-> <<>>]
    /\ measurementReport = NoReport /\ reportBuffer = NotSent
    /\ readReport = NoReport /\ reported = NoReport
    /\ response = NoResponse /\ answered = NoResponse
    /\ readResponse = [ac |-> 0, drop |-> 0]
    /\ m_capability = {}

-----------------------------------------------------------------------------
(* MacResourcesTag.                                                        *)

(* A list is preceded by its length, and both are left out if it is empty. *)
Written(slots) == IF slots = <<>> THEN <<>> ELSE <<Len(slots)>> \o slots

SerializeMutantUplinkFirst(tag) == Written(tag.ul) \o Written(tag.dl)

Serialize(tag) == Written(tag.dl) \o Written(tag.ul)

(* Behind the device id, in the unit of one slot number.                   *)
GetSerializedSize(tag) == 2 + Len(tag.dl) + Len(tag.ul)

(* DistributeSlots sets the lists of the tag and SendSlotControlPackets    *)
(* adds it to a packet.                                                    *)
SendSlots(dl, ul) ==
    /\ sentSlots' = [dl |-> dl, ul |-> ul]
    /\ slotsBuffer' = <<"sent">> \o Serialize(sentSlots')
    /\ UNCHANGED <<readTag, reportVars, otherVars>>

(* The k-th number of a buffer whose end is followed by garbage g.         *)
Number(buffer, k, g) == IF k \in DOMAIN buffer THEN buffer[k] ELSE g

Numbers(buffer, first, count, g) == [k \in 1..count |-> Number(buffer, first + k - 1, g)]

(* An array that is not read stays as it was in the object.                *)
Deserialize(buffer, old, g, h) ==
    LET dlCount == Number(buffer, 1, g)
        ulCount == Number(buffer, dlCount + 2, h)
    IN  [dl |-> IF dlCount > 0 THEN Numbers(buffer, 2, dlCount, g) ELSE <<>>,
         ulCount |-> ulCount,
         ul |-> IF ulCount \in 1..(MaxUplinkRead - 1)
                THEN Numbers(buffer, dlCount + 3, ulCount, h) ELSE old.ul]

ReceiveSlots ==
    /\ slotsBuffer # NotSent
    /\ \E g, h \in Garbage : readTag' = Deserialize(Tail(slotsBuffer), readTag, g, h)
    /\ UNCHANGED <<sentSlots, slotsBuffer, reportVars, otherVars>>

-----------------------------------------------------------------------------
(* MeasurementReport.                                                      *)

(* As many values as were counted, from the beginning of the vector.       *)
SerializeReport(report) ==
    <<report.device_id, report.no_measurements>>
        \o SubSeq(report.snr_vector, 1, report.no_measurements)

(* For each device the access point makes a new report of one value and    *)
(* adds it to a packet.                                                    *)
SendReport(d, snr) ==
    /\ measurementReport' = [device_id |-> d, no_measurements |-> 1, snr_vector |-> <<snr>>]
    /\ reportBuffer' = SerializeReport(measurementReport')
    /\ UNCHANGED <<readReport, reported, slotsVars, otherVars>>

DeserializeReportMutantCountFirst(buffer, g) ==
    [device_id |-> buffer[2],
     no_measurements |-> buffer[1],
     snr_vector |-> Numbers(buffer, 3, buffer[1], g)]

(* What is read is appended to the vector, empty in a new report.          *)
DeserializeReport(buffer, g) ==
    [device_id |-> buffer[1],
     no_measurements |-> buffer[2],
     snr_vector |-> Numbers(buffer, 3, buffer[2], g)]

(* The controller makes a new report for each packet that it reads.        *)
ReceiveReport ==
    /\ reportBuffer # NotSent
    /\ \E g \in Garbage : readReport' = DeserializeReport(reportBuffer, g)
    /\ reported' = measurementReport
    /\ UNCHANGED <<measurementReport, reportBuffer, slotsVars, otherVars>>

-----------------------------------------------------------------------------
(* BeaconResponseTag and LiFiCapabilityInformation.                        *)

(* m_pkt_drop is a whole number; `set' is history.                         *)
SetResponse(ac, drop) ==
    /\ response' = [ac |-> ac, drop |-> drop \div 2, set |-> drop]
    /\ UNCHANGED <<readResponse, answered, m_capability, slotsVars, reportVars>>

SerializeResponse(tag) == <<tag.ac, tag.drop>>

DeserializeResponse(buffer) == [ac |-> buffer[1], drop |-> buffer[2]]

AnswerWith ==
    /\ readResponse' = DeserializeResponse(SerializeResponse(response))
    /\ answered' = response
    /\ UNCHANGED <<response, m_capability, slotsVars, reportVars>>

SetEss ==
    /\ m_capability' = (m_capability \cup {0}) \ {1}
    /\ UNCHANGED <<response, readResponse, answered, slotsVars, reportVars>>

SetIbss ==
    /\ m_capability' = (m_capability \ {0}) \cup {1}
    /\ UNCHANGED <<response, readResponse, answered, slotsVars, reportVars>>

SetShortSlotTime(short) ==
    /\ m_capability' = IF short THEN m_capability \cup {10} ELSE m_capability
    /\ UNCHANGED <<response, readResponse, answered, slotsVars, reportVars>>

SlotsNext ==
    \/ \E dl, ul \in SlotLists : SendSlots(dl, ul)
    \/ ReceiveSlots

ReportsNext ==
    \/ \E d \in ReportedId, snr \in Snr : SendReport(d, snr)
    \/ ReceiveReport

FieldsNext ==
    \/ \E ac \in 1..3, drop \in Drops : SetResponse(ac, drop)
    \/ AnswerWith
    \/ SetEss
    \/ SetIbss
    \/ \E short \in BOOLEAN : SetShortSlotTime(short)

TagsNext == SlotsNext \/ ReportsNext \/ FieldsNext

TagsSpec == TagsInit /\ [][TagsNext]_tagVars

-----------------------------------------------------------------------------
(* Properties.                                                             *)

(* A station that removes the tag reads the slots that were sent, if it    *)
(* has slots in both directions and not too many in the uplink.  Without   *)
(* downlink slots it takes its uplink slots for downlink slots, and        *)
(* without uplink slots their number is whatever follows the buffer.       *)
(* In the two last cases, and in no other, less is written than is said.   *)
SlotsSurvive ==
    [][readTag' # readTag =>
          /\ Len(Tail(slotsBuffer)) <= GetSerializedSize(sentSlots)
          /\ (Len(Tail(slotsBuffer)) = GetSerializedSize(sentSlots)) <=>
                (sentSlots.dl # <<>> /\ sentSlots.ul # <<>>)
          /\ sentSlots.dl # <<>> => readTag'.dl = sentSlots.dl
          /\ sentSlots.dl # <<>> /\ sentSlots.ul # <<>> =>
                /\ readTag'.ulCount = Len(sentSlots.ul)
                /\ readTag'.ul =
                      (IF Len(sentSlots.ul) < MaxUplinkRead THEN sentSlots.ul ELSE readTag.ul)
          /\ sentSlots.dl = <<>> /\ sentSlots.ul # <<>> => readTag'.dl = sentSlots.ul
          /\ sentSlots.dl = <<>> \/ sentSlots.ul = <<>> => readTag'.ulCount \in Garbage]_tagVars

(* The controller books the values under the device they were measured     *)
(* for, and finds the one that it takes without a look at their number.    *)
ReportSurvives ==
    /\ readReport = reported
    /\ reported # NoReport => Len(readReport.snr_vector) >= 1

(* What is read of a response was set together, but for half a packet that *)
(* was dropped; a capability names one mode, whatever is set in turn.      *)
FieldsSurvive ==
    /\ readResponse.ac = answered.ac
    /\ 2 * readResponse.drop \in {answered.set, answered.set - 1}
    /\ ~ {0, 1} \subseteq m_capability
=============================================================================
