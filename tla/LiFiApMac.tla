----------------------------- MODULE LiFiApMac -----------------------------
(***************************************************************************)
(* The TDMA access point of model/lifi-ap-mac.cc: a chain of simulator     *)
(* events that sends a beacon, collects the stations that answer it, lays  *)
(* out a table of downlink and uplink slots, announces it, and runs it for *)
(* a superframe of m_super_frame_number frames.  The station side and the  *)
(* script of the simulation are the environment: a registration may arrive *)
(* between any two events, and LiFiHelper may list a station between any   *)
(* two.  (UpdateUserRegistration without argument, line 516, has no caller *)
(* in the repository; LiFiWiring models it.)                               *)
(*                                                                         *)
(* `pending' counts the scheduled simulator events.  Every timed delay of  *)
(* the code is positive, so what Simulator::ScheduleNow schedules runs     *)
(* before any timed event: that is all that is kept of the clock here.     *)
(***************************************************************************)
EXTENDS TdmaTable

CONSTANTS
    SuperFrame,       \* m_super_frame_number, 20 in the constructor
    MaxAssociations   \* bound on how often the helper lists one station

ASSUME SuperFrameAssumption == SuperFrame \in Nat \ {0}
ASSUME AssociationsAssumption == MaxAssociations \in Nat

VARIABLES
    pending,              \* how many events of each kind are scheduled
    frame_number,
    m_current_slot,
    m_totalSlotsAllowed,
    m_slotPtrs,           \* service type of every device ever registered
    m_slotPtrs_vector,    \* multiplicity of each device entered since the beacon
    m_lastepoch,          \* multiplicity in m_lastepoch_slotPtrs_vector
    associations,         \* history: how often LiFiHelper has listed d
    m_slotInfosMaps,      \* the slots announced to each device
    transmissionsVector,  \* the slot table
    userDevice,           \* argument of the pending TransmitDataFrame
    m_enableBeaconGeneration,
    report,               \* the last batch of reports: how often d was sent
                          \*   with a measured SNR and how often with SNR 0
    grants                \* history: uplink grants of d in the current frame

roster == <<m_slotPtrs, m_slotPtrs_vector, m_lastepoch, associations>>
table  == <<m_totalSlotsAllowed, m_slotInfosMaps, transmissionsVector>>
frame  == <<frame_number, m_current_slot, userDevice, grants>>
vars   == <<pending, roster, table, frame, m_enableBeaconGeneration, report>>

-----------------------------------------------------------------------------
(* Data.                                                                   *)

(* Events that run after a delay, and those that ScheduleNow schedules.    *)
Timed  == {"StartSuperSessions", "TransmitControlFrames", "DistributeSlots",
           "SendSlotControlPackets", "TransmitDataFrame",
           "StartFrameTransmission"}
Urgent == {"SendOneBeacon", "SendRecord"}
Event  == Timed \cup Urgent

(* m_slotPtrs_vector.size(): all the occurrences of all the devices.       *)
VectorSize ==
    Cardinality(UNION {{d} \X (1..m_slotPtrs_vector[d]) : d \in Dev})

NoTag == [down |-> {}, up |-> {}]   \* no entry, or one with no slot
-----------------------------------------------------------------------------
(* Scheduling.                                                             *)

One(b) == IF b THEN 1 ELSE 0

(* The scheduler runs an event e, whose handler schedules those of S.      *)
Run(e, S) ==
    /\ pending[e] > 0
    /\ e \in Timed => \A u \in Urgent : pending[u] = 0
    /\ pending' = [x \in Event |-> pending[x] - One(x = e) + One(x \in S)]

(* The constructor schedules the first superframe.                         *)
Init ==
    /\ pending = [x \in Event |-> One(x = "StartSuperSessions")]
    /\ frame_number = 0
    /\ m_current_slot = 0
    /\ m_totalSlotsAllowed = 0
    /\ m_slotPtrs = [d \in Dev |-> NoInfo]
    /\ m_slotPtrs_vector = [d \in Dev |-> 0]
    /\ m_lastepoch = [d \in Dev |-> 0]
    /\ associations = [d \in Dev |-> 0]
    /\ m_slotInfosMaps = [d \in Dev |-> NoTag]
    /\ transmissionsVector = <<>>
    /\ userDevice = <<>>
    /\ m_enableBeaconGeneration = TRUE
    /\ report = [d \in Dev |-> [snr |-> 0, zero |-> 0]]
    /\ grants = [d \in Dev |-> 0]

StartSuperSessions ==
    /\ Run("StartSuperSessions", {"TransmitControlFrames"})
    /\ frame_number' = 0
    /\ UNCHANGED <<roster, table, m_current_slot, userDevice, grants,
                   m_enableBeaconGeneration, report>>

TransmitControlFrames ==
    /\ Run("TransmitControlFrames", {"SendOneBeacon", "DistributeSlots"})
    /\ UNCHANGED <<roster, table, frame, m_enableBeaconGeneration, report>>

(* Operators with `Mutant' in their name are faulty variants of the one    *)
(* that follows them, used to see that the properties notice.              *)
SendOneBeaconMutantForgets ==
    /\ Run("SendOneBeacon", {})
    /\ m_lastepoch' = m_slotPtrs_vector
    /\ m_slotPtrs_vector' = [d \in Dev |-> 0]
    /\ UNCHANGED <<m_slotPtrs, associations, table, frame,
                   m_enableBeaconGeneration, report>>

(* The beacon starts a new epoch: who was present is now of the last one.  *)
SendOneBeacon ==
    /\ Run("SendOneBeacon", {})
    /\ m_lastepoch' = [d \in Dev |-> m_lastepoch[d] + m_slotPtrs_vector[d]]
    /\ m_slotPtrs_vector' = [d \in Dev |-> 0]
    /\ UNCHANGED <<m_slotPtrs, associations, table, frame,
                   m_enableBeaconGeneration, report>>

(* Nobody has answered the beacon: report, and retry in 30 ms.             *)
DistributeNothing ==
    /\ VectorSize = 0
    /\ Run("DistributeSlots", {"StartSuperSessions", "SendRecord"})
    /\ UNCHANGED <<roster, table, frame, m_enableBeaconGeneration, report>>

TagMutantInsertsOnly(tbl, d) ==
    IF m_slotInfosMaps[d] # NoTag THEN m_slotInfosMaps[d]
    ELSE [down |-> SlotsOf(tbl, "Downlink", d), up |-> SlotsOf(tbl, "Uplink", d)]

(* A tag that is already in m_slotInfosMaps keeps its downlink slots:      *)
(* map::insert does not replace it.  The uplink slots are replaced.        *)
NewTag(tbl, d) ==
    [down |-> IF m_slotInfosMaps[d] = NoTag THEN SlotsOf(tbl, "Downlink", d)
              ELSE m_slotInfosMaps[d].down,
     up   |-> SlotsOf(tbl, "Uplink", d)]

DistributeTable ==
    /\ VectorSize > 0
    /\ Run("DistributeSlots", {"SendSlotControlPackets", "SendRecord"})
    /\ LET units == Units(m_slotPtrs, VectorSize) IN
        /\ transmissionsVector' = InOrder(units)
        /\ m_totalSlotsAllowed' = Cardinality(units)
    /\ m_slotInfosMaps' = [d \in Dev |->
         IF d \in Associated(m_slotPtrs) THEN NewTag(transmissionsVector', d)
                            ELSE m_slotInfosMaps[d]]
    /\ UNCHANGED <<roster, frame, m_enableBeaconGeneration, report>>

DistributeSlots == DistributeNothing \/ DistributeTable

(* One report per entry of the two vectors.                                *)
SendRecordToCentralizedControllers ==
    /\ Run("SendRecord", {})
    /\ report' = [d \in Dev |-> [snr  |-> m_slotPtrs_vector[d],
                                 zero |-> m_lastepoch[d]]]
    /\ UNCHANGED <<roster, table, frame, m_enableBeaconGeneration>>

(* With an empty table nothing is scheduled any more.                      *)
SendSlotControlPackets ==
    /\ \/ /\ transmissionsVector # <<>>
          /\ Run("SendSlotControlPackets", {"TransmitDataFrame"})
          /\ userDevice' = transmissionsVector[1]
       \/ /\ transmissionsVector = <<>>
          /\ Run("SendSlotControlPackets", {})
          /\ UNCHANGED userDevice
    /\ grants' = [d \in Dev |-> 0]
    /\ UNCHANGED <<roster, table, frame_number, m_current_slot,
                   m_enableBeaconGeneration, report>>

(* The three branches of TransmitDataFrame, run by event e with the frame  *)
(* counter at fn and g the grants of the frame so far.                     *)
SuperFrameEnd(e, fn, g) ==
    /\ fn = SuperFrame
    /\ Run(e, {"StartSuperSessions"})
    /\ m_current_slot' = 0
    /\ grants' = g
    /\ UNCHANGED userDevice

FrameEnd(e, fn, g) ==
    /\ fn # SuperFrame /\ m_current_slot >= m_totalSlotsAllowed
    /\ Run(e, {"StartFrameTransmission"})
    /\ m_current_slot' = 0
    /\ grants' = g
    /\ UNCHANGED userDevice

(* An uplink slot starts the MAC of the handler's argument arg, the unit   *)
(* of the slot before it, and not that of the slot's own unit.             *)
Slot(e, arg, fn, g) ==
    /\ fn # SuperFrame /\ m_current_slot < m_totalSlotsAllowed
    /\ Run(e, {"TransmitDataFrame"})
    /\ LET macunit == transmissionsVector[m_current_slot + 1] IN
        /\ userDevice' = macunit
        /\ grants' = IF macunit.type = "Uplink"
                     THEN [g EXCEPT ![arg.node] = @ + 1]
                     ELSE g
    /\ m_current_slot' = m_current_slot + 1

DataSlot(e, arg, fn, g) ==
    /\ frame_number' = fn
    /\ SuperFrameEnd(e, fn, g) \/ FrameEnd(e, fn, g) \/ Slot(e, arg, fn, g)
    /\ UNCHANGED <<roster, table, m_enableBeaconGeneration, report>>

TransmitDataFrame ==
    DataSlot("TransmitDataFrame", userDevice, frame_number, grants)

StartFrameTransmission ==
    DataSlot("StartFrameTransmission", transmissionsVector[1],
             frame_number + 1, [d \in Dev |-> 0])

RegisterMutantNoService(d, s) ==
    /\ m_slotPtrs_vector' = [m_slotPtrs_vector EXCEPT ![d] =
                                IF @ > 0 THEN @ ELSE 1]
    /\ m_lastepoch' = [m_lastepoch EXCEPT ![d] = IF @ > 0 THEN @ - 1 ELSE 0]
    /\ UNCHANGED <<m_slotPtrs, associations, pending, table, frame,
                   m_enableBeaconGeneration, report>>

(* A management frame of station d arrives (Receive, ReigsterUserDevice    *)
(* and UpdateUserRegistration): d becomes present, one occurrence of d     *)
(* leaves the last epoch, and the first service type it gave stays.        *)
ReigsterUserDevice(d, s) ==
    /\ m_slotPtrs_vector' = [m_slotPtrs_vector EXCEPT ![d] =
                                IF @ > 0 THEN @ ELSE 1]
    /\ m_lastepoch' = [m_lastepoch EXCEPT ![d] = IF @ > 0 THEN @ - 1 ELSE 0]
    /\ m_slotPtrs' = [m_slotPtrs EXCEPT ![d] = IF @ = NoInfo THEN s ELSE @]
    /\ UNCHANGED <<associations, pending, table, frame,
                   m_enableBeaconGeneration, report>>

(* LiFiHelper::AssociateUserDevicesWithAP lists a station, before the run  *)
(* or during it, as often as the script likes: it is appended without a    *)
(* look at what is there, and m_slotPtrs does not hear of it.              *)
AddUserDeviceInfos(d) ==
    /\ associations[d] < MaxAssociations
    /\ m_slotPtrs_vector' = [m_slotPtrs_vector EXCEPT ![d] = @ + 1]
    /\ associations' = [associations EXCEPT ![d] = @ + 1]
    /\ UNCHANGED <<m_slotPtrs, m_lastepoch, pending, table, frame,
                   m_enableBeaconGeneration, report>>

(* The BeaconGeneration attribute; m_beaconEvent is never scheduled.       *)
SetBeaconGeneration(enable) ==
    /\ m_enableBeaconGeneration' = enable
    /\ UNCHANGED <<pending, roster, table, frame, report>>

-----------------------------------------------------------------------------
Simulate ==
    \/ StartSuperSessions
    \/ TransmitControlFrames
    \/ SendOneBeacon
    \/ DistributeSlots
    \/ SendRecordToCentralizedControllers
    \/ SendSlotControlPackets
    \/ TransmitDataFrame
    \/ StartFrameTransmission

Next ==
    \/ Simulate
    \/ \E d \in Dev, s \in Services : ReigsterUserDevice(d, s)
    \/ \E d \in Dev : AddUserDeviceInfos(d)
    \/ \E enable \in BOOLEAN : SetBeaconGeneration(enable)

Spec == Init /\ [][Next]_vars

(* Simulator::Run executes the earliest event as long as there is one.     *)
FairSpec == Spec /\ WF_vars(Simulate)

-----------------------------------------------------------------------------
(* Properties.                                                             *)

Present == {d \in Dev : m_slotPtrs_vector[d] > 0}   \* entered since the beacon

(* All the entries of d in the books.                                      *)
Entries(d) == m_slotPtrs_vector[d] + m_lastepoch[d]

(* Type invariant of the access point's state, with the bounds of its      *)
(* counters: frame_number stays within the superframe.                     *)
TypeOK ==
    /\ pending \in [Event -> Nat]
    /\ frame_number \in 0..SuperFrame
    /\ m_totalSlotsAllowed \in Nat
    /\ m_current_slot \in 0..m_totalSlotsAllowed
    /\ m_slotPtrs \in [Dev -> Services \cup {NoInfo}]
    /\ m_slotPtrs_vector \in [Dev -> Nat]
    /\ m_lastepoch \in [Dev -> Nat]
    /\ associations \in [Dev -> 0..MaxAssociations]
    /\ m_slotInfosMaps \in [Dev -> [down : SUBSET Nat, up : SUBSET Nat]]
    /\ transmissionsVector \in Seq(Unit)
    /\ userDevice \in Unit \cup {<<>>}
    /\ m_enableBeaconGeneration \in BOOLEAN
    /\ report \in [Dev -> [snr : Nat, zero : Nat]]
    /\ grants \in [Dev -> Nat]

(* The last table was empty because no station had ever answered, only the *)
(* helper had listed some: no slot has been announced to anybody.          *)
NobodyHeard ==
    /\ transmissionsVector = <<>>
    /\ \A d \in Dev : m_slotInfosMaps[d] = NoTag
    /\ \E d \in Dev : associations[d] > 0

(* No timed event is scheduled: the access point never beacons again.      *)
Silenced == \A x \in Timed : pending[x] = 0

(* The chain of control events never forks, so two superframes never run   *)
(* at once, and it breaks off in one case only: SendSlotControlPackets     *)
(* finds an empty table, when slots were distributed after the helper had  *)
(* listed a station and before any had answered.                           *)
SingleChain ==
    \/ \E c \in Timed :
          /\ pending[c] = 1
          /\ \A x \in Timed \ {c} : pending[x] = 0
    \/ Silenced /\ NobodyHeard

(* A station that has answered is never forgotten, and a station has no    *)
(* more entries in the two vectors than the helper has made for it, and    *)
(* one if it has answered: UpdateUserRegistration, which looks at the      *)
(* first match only, and SendOneBeacon, which appends without looking,     *)
(* keep it so between them.  Slots are announced to stations that have     *)
(* answered only.                                                          *)
RosterCounted ==
    \A d \in Dev :
        /\ m_slotPtrs[d] # NoInfo => Entries(d) > 0
        /\ Entries(d) <= associations[d] + One(m_slotPtrs[d] # NoInfo)
        /\ m_slotInfosMaps[d] # NoTag => m_slotPtrs[d] # NoInfo

(* What each pending event relies on when it comes to run: a beacon is     *)
(* followed by a distribution of slots; the table is announced with a      *)
(* first slot unless nobody was ever heard; a data slot has a unit as its  *)
(* argument; a further frame still fits in the superframe.                 *)
EventsPrepared ==
    /\ pending["SendOneBeacon"] <= pending["DistributeSlots"]
    /\ pending["SendSlotControlPackets"] > 0 =>
         transmissionsVector # <<>> \/ NobodyHeard
    /\ pending["TransmitDataFrame"] > 0 => userDevice # <<>>
    /\ pending["StartFrameTransmission"] > 0 => frame_number < SuperFrame

(* A frame starts at slot 0 of a table that has a slot, and the number of  *)
(* slots the frame runs is the length of the table: the unguarded          *)
(* transmissionsVector[0] and transmissionsVector[m_current_slot] are in   *)
(* bounds.                                                                 *)
TableInBounds ==
    /\ m_totalSlotsAllowed = Len(transmissionsVector)
    /\ pending["TransmitDataFrame"] + pending["StartFrameTransmission"] > 0
         => transmissionsVector # <<>>
    /\ pending["TransmitDataFrame"] = 0 => m_current_slot = 0

(* In one: whatever the stations answer and the helper lists, and when, no *)
(* event of the chain reads outside a vector or is doubled, the chain ends *)
(* in the case named only, and the books hold nothing that nobody entered. *)
ChainSound ==
    TypeOK /\ SingleChain /\ RosterCounted /\ EventsPrepared /\ TableInBounds

(* The table gives a downlink slot to every device that it gives an uplink *)
(* slot: the quota, computed from all the entries, is not 0.               *)
RoomForAll(tbl) ==
    \A d \in Dev : SlotsOf(tbl, "Uplink", d) # {} => SlotsOf(tbl, "Downlink", d) # {}

(* Although an uplink slot starts the MAC of the previous slot's device,   *)
(* at the end of a frame with room for all, every device has been started  *)
(* once for each of its uplink slots.                                      *)
FairFrame ==
    pending["StartFrameTransmission"] > 0 /\ RoomForAll(transmissionsVector) =>
        \A d \in Dev :
            grants[d] = Cardinality(SlotsOf(transmissionsVector, "Uplink", d))

(* While frames run, the uplink slots announced to a device are those the  *)
(* table gives it, also when it was announced others in an earlier         *)
(* superframe.  (Its downlink slots stay those of its first table.)        *)
UplinkAnnounced ==
    pending["TransmitDataFrame"] + pending["StartFrameTransmission"] > 0 =>
        \A d \in Dev : m_slotInfosMaps[d].up
                         = SlotsOf(transmissionsVector, "Uplink", d)

(* In one: the uplink turns that a device is told of, and those it gets,   *)
(* are those of the table.                                                 *)
FrameSound == FairFrame /\ UplinkAnnounced

(* When every registered device has answered the beacon, and three slots   *)
(* for each entry of the vector fit in max_slots, so does the new table:   *)
(* the quota is computed from the entries, and handed to all that ever     *)
(* registered.                                                             *)
FrameFits ==
    [][/\ Associated(m_slotPtrs) \subseteq Present
       /\ 3 * VectorSize <= MaxSlots
       /\ DistributeTable
       => Len(transmissionsVector') <= MaxSlots]_vars

(* The access point implements the roster it promises the controller.      *)
Roster == INSTANCE ApRoster WITH
    known   <- {d \in Dev : Entries(d) > 0},
    present <- Present,
    listed  <- associations,
    sent    <- report
RosterSpec == Roster!Spec

(* A registered device that is present when the slots are distributed is   *)
(* eventually started for an uplink slot, unless there are more entries    *)
(* than max_slots has room for, at three slots for each.                   *)
Crowded == pending["DistributeSlots"] > 0 /\ 3 * VectorSize > MaxSlots

AnswerServed ==
    \A d \in Dev :
        (/\ pending["DistributeSlots"] > 0
         /\ pending["SendOneBeacon"] = 0
         /\ m_slotPtrs_vector[d] > 0 /\ m_slotPtrs[d] # NoInfo)
        ~> grants[d] > 0 \/ Crowded

(* "Whether or not beacons are generated." (lifi-ap-mac.cc:69): no beacon  *)
(* is sent while BeaconGeneration is off.                                  *)
BeaconsOnlyWhenEnabled == [][SendOneBeacon => m_enableBeaconGeneration]_vars
=============================================================================
