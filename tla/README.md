# Verification of the LiFi module for ns-3

TLA+ models, TLC runs and TLAPS proofs for the hybrid LiFi/WiFi module of this
repository.  The module simulates a room in which LiFi access points share
their light among stations by time division and a central controller moves
users between LiFi and WiFi.  Paths below are relative to `src/`.

The program runs inside a single-threaded discrete-event simulator.  There is
no parallelism, yet there is plenty of interleaving: each handler is an event,
events schedule further events (`Simulator::Schedule`, `ScheduleNow`), and
frames and reports of other nodes arrive between any two of them.  All the
hazards below are about what may happen between two events of one chain.

## 1. Inventory

| Part | State | Operations | Interacts with |
|---|---|---|---|
| Access point, `model/lifi-ap-mac.cc` | event chain, frame and slot counters, two vectors and a map of stations, slot table, slot information per station | `StartSuperSessions`, `TransmitControlFrames`, `SendOneBeacon`, `DistributeSlots`, `SendSlotControlPackets`, `TransmitDataFrame`, `StartFrameTransmission`, `ReigsterUserDevice`, reports | stations (beacon, answer, response), controller (report), every MAC's transmit queue (slot) |
| Controller, `model/centralized-controller.cc` | per user: window of SNR reports, flag of a handover in progress, time to trigger; routes and addresses | `LiFiAPMeasurementReports`, `KPI_Monitoring`, `CheckHandoverMetricsAfterTTTExpirey`, `CompleteHandover`, `TransferApplicationLiFiToWiFi` | access points (reports), IP stack (routes, addresses) |
| Transmit MAC and queue, `model/lifi-tx-mac.cc`, `model/lifi-mac-queue.cc` | packets with time stamps, a count kept apart, limit, scheduled `SendPacketDown` | `Queue`/`Enqueue`, `StartTransmission`, `SendPacketDown`, `Cleanup`, `SetQueueSize` | called by the access point in each slot; hands down to the MAC low |
| Station, `model/lifi-sta-mac.cc` | list of access points heard, control queue | `Receive`, `SendAssociationRequest`, `Enqueue` | access points, physical layer |
| Regular MAC, receive MAC, MAC low | callbacks | `Receive`, `StartTransmission`, `ForwardUp` | MAC above, physical layer below |
| Channel and physical layer, `model/lifi-channel.cc`, `model/lifi-phy.cc` | list of receivers, channel statistics | `Send`, `Receive`, periodic report of statistics | all nodes |
| Net devices, `model/*-net-device.cc` | receiver lists, gateway and peer | `Send`, `Receive`, add and remove receivers | IP stack, MAC |
| Tags, `model/mac-resources-tag.cc` and others | slot information, measured SNR | `Serialize`, `Deserialize` | carried by frames |
| Performance analysis, traffic application, mobility | counters, files, positions | periodic sampling, sending, walking | net devices |
| Helpers, `helper/` | maps of nodes to layers | wiring before the simulation starts | all |

What is hard, per part, and what makes the part correct:

- **Access point.**  Its events form one chain that must neither die (nothing
  restarts it) nor fork (two superframes at once).  Registrations arrive
  between the beacon, the distribution and the frames.  Slot indices are used
  unguarded.  The quota is unsigned arithmetic cut to a byte.  An uplink slot
  starts the MAC of the *previous* slot's unit.  A helper may list stations in
  the vector at any moment, also more than once.  Correct means: one chain, no
  entry in the books that nobody made, a table in bounds that fits in the frame,
  and every station that answered gets its turns.  One thing goes wrong: if only
  the helper has listed stations when slots are distributed, and none has ever
  answered, the table is empty and the chain ends.
- **Controller.**  Three timers per user (periodic check, time to trigger,
  handover delay) overlap in any order; the flag that keeps them apart is set
  in one event and cleared in two others.  Correct means: at most one handover
  of a user at a time, none early, no address without a route, and a user that
  stays weak leaves.
- **Transmit queue.**  Packets expire at any moment, also between the peek at a
  packet and its dequeue.  The count is updated in five places and the limit
  is tested with `==`.  Correct means: the count is the length, order of
  arrival, a bound, and no transmission beyond the slot.
- **Station.**  It answers the first access point it ever heard and keeps the
  slot information in a copy.  Beacons that come at the same time start two
  chains of its control queue; each access point that still has it in its table
  and its own `TransmitFrame` start one of its data queue.
- **Data path.**  Header, trailer and address filters are spread over five
  classes, and a station that is associated again stays listed where it was.
  Correct means: a datagram service, in order, and no packet waits for a
  station that cannot hear it, unless a script moved the station to a channel
  that does not list it.
- **Channel, devices, helpers.**  Lists that are searched by one key and filled
  by another, values that are copied or converted at some moment and set at
  another, objects that keep what the last reception left.  Correct means: each
  object's records are its own and agree with those it was wired to.
- **Tags.**  Two directions that are not written the way they are read, and fields
  that are read by their position.
- **Application, mobility, analysis.**  Events that overwrite the only handle to
  a pending event, and books that are updated in parts when a user moves.

`PROJECT.json` lists each of these under `hazards` with its line.

## 2. Plan

| Step | Module | Extends / composes | Status |
|---|---|---|---|
| 1 | `TdmaTable` | pure: the slot table and the quota | done, proved |
| 2 | `LiFiApMac` | `TdmaTable`; refines `ApRoster` | done, proved |
| 3 | `CentralizedController` | refines `Handover` | done, proved |
| 4 | `LiFiTxMac` | queue and slot budget | done, proved |
| 5 | `LiFiCell` | `LiFiApMac` + its control queue + channel + stations; implements `LiFiApMac` with the registrations that the channel delivers | done, proved |
| 6 | `LiFiDataPath` | both MACs, the devices and the channels of several cells; refines `Datagram` | done, proved |
| 7 | `LiFiWiring` | the helpers' calls in any order, and the registration marks of the access point | done, proved |
| 8 | `LiFiReceiver` | extends `LiFiOptics`: reception, SNR, error model, reports | done, proved |
| 9 | `LiFiStaTdma`, `LiFiMacQueue` | extend `LiFiTxMac`: the second caller of the uplink, all calls of the queue | done, proved |
| 10 | `LiFiTags`, `LiFiStaLists`, `LiFiRegistry`, `LiFiReceptions`, `LiFiSignal`, `WifiApHelper` | pure components: codecs, lists, stores | done, proved |
| 11 | `LiFiWalk`, `LiFiMotion`, `LiFiApplication`, `LiFiPerformance`, `LiFiCaches`, `ControllerBooks` | the modules around one user | done, proved |
| 12 | a network of two `LiFiApMac` and the controller | the average of a user whom two access points report, one of them with SNR 0 | open: see section 6 |

All safety properties of the passing runs are theorems; only liveness is left to
TLC, section 5 says why.

## 3. Modules

Operators whose name contains `Mutant` are faulty variants kept beside the
operator they vary; no specification uses them.  They show that each property
fails when the code is wrong in a plausible way.

### TdmaTable: the slot table

`DistributeSlots` fills a vector in two passes over the map of stations, all
downlink slots and then all uplink slots.  `Units` is the set of slots granted,
`Before` the order of the passes, `InOrder` the vector.  `DownlinkQuota` is
`uint8_t(uint32_t((max_slots - 2n) / n))` with the 64-bit wrap-around for
`2n > max_slots`, without numbers beyond TLC's range (2^56 is reduced mod `n`).
`MCTdmaTable` holds the references both are compared with: the division of the
eight bytes of the word by `n`, byte after byte, of which the last digit is kept
(`ReferenceQuota`), and two loops over the ids that append to a vector
(`ReferenceTable`).  Both are recursive functions, which TLC evaluates and the proofs
can unfold.

### LiFiApMac: the access point

One action per event handler, named as in the code.  `pending` counts the
scheduled events of each kind.  Of the clock only one fact is kept: all timed
delays are positive, so what `ScheduleNow` schedules (`SendOneBeacon`, the
report) runs before any timed event.  `ReigsterUserDevice` stands for the path
from the reception of an answer through `UpdateUserRegistration`; it may happen
between any two events, with any service type.  The vectors are kept as the
multiplicity of each device, since no property depends on their order.
`AddUserDeviceInfos(d)` is the call of `LiFiHelper::AssociateUserDevicesWithAP`,
before the run or during it, up to `MaxAssociations` times per station: it appends
`d` to the vector without a look at what is there, and the map does not hear of it.
So a device may be in the books several times; `RosterCounted` says how often:
never more than the helper listed it, and once for its answers, as each answer
takes one entry from the last epoch and adds at most one to this one.
`associations` counts those calls and `grants` the uplink turns each device got in
the current frame; both are history.

Slots are counted from the vector and laid out for the map.  When the helper has
listed stations since the beacon and none was ever heard, the table is empty,
`SendSlotControlPackets` schedules nothing and the access point falls silent:
`Silenced` and `NobodyHeard`, the one exception in `SingleChain`.

`UpdateUserRegistration()` without argument, which erases the entries marked for
handover, is called from nowhere in the repository; it is an action of `LiFiWiring`
and not of `LiFiApMac`, so what is said of the access point's chain and table is
said of runs without it.

In `LiFiApMac` a tag counts as announced when its response is queued; `LiFiCell`
adds the queue.

`ApRoster` is what the access point promises the controller: known stations
stay known, and a batch of reports names all of them and no other, with a measured
SNR just those that are present, each at least once and no more often than the helper
listed it, and once.

### CentralizedController: handover

An event is the time left until it runs; `Tick` advances the clock when nothing
is due.  Reports may arrive at any moment.  `LowAverage` is the comparison of
the average with 20.5 dB in integers.  `Handover` is the abstract protocol:
idle, triggered, executing.  `waited` and `cancelled` are history variables.
Users are registered before the simulation starts, their device 1 is a WiFi
device, and lags are below `MinReports` (41), beyond which the code's unsigned
loop leaves the vector.

### LiFiTxMac: transmit MAC and queue

A packet is its transmission time and its age; `age` stands for the time stamp
and stops at `MaxDelay`, where `Cleanup` drops it.  Time is in ticks, `Us` to a
microsecond, so that the cut of the remaining time to whole microseconds
(`GetMicroSeconds` in `SendPacketDown`) is part of the model.  A slot may begin
as soon as slot and guard time of the last one have passed, or later.  A packet
may be longer than a slot, as the data rate is an attribute.  `marked` (one
packet followed through the queue), `tx` and `intact` (what the event was
scheduled for) are history.  The queues of control frames use the same classes
but are started by beacons and not in slots; they are part of `LiFiCell`.

### LiFiCell: access point, channel and stations

The module extends `LiFiApMac` with what lies between its beacon and the
registrations: `m_beaconTxop`, the control queue, with the `budget` of its chain
of `SendPacketDown` in microseconds; the frames on their way to each station
(`downlink`) and the answers on their way back (`uplink`); and at each station
the access points heard (`m_candidateAps`), its control queue and the number of
`SendPacketDown` events scheduled there.  There may be several of these at once:
every beacon that is received schedules one, and `StartTransmission` does not
look whether another is pending.  `inRange` is the environment; `steady`, the
stations that have not left since the last beacon, is history.

`QueueBeacon` and `QueueResponses` are the handlers of `LiFiApMac` with what they
put into the queue: the responses wait there until the *next* beacon starts a
transmission, and leave before it.  `ApEvent` is any other event of the access
point.  `SendControlFrame` is `SendPacketDown` and the delivery of the channel,
`ApReceive` and `StationReceive(d)` the two `Receive` functions,
`SendAnswer(d)` the station's `SendPacketDown`, and `Walk(d)` a station that
enters or leaves the light, which also stands for frames that the error model
drops.  `AssociateUserDevicesWithAP(d)` is the helper's.  `OtherBeacon(d)` is a beacon of another cell: the station answers it
too, and its own access point hears that answer.

What is kept of the clock here is the order between the beacon and the
distribution of slots: the access point waits 130 us, its chain is over after
30 us, frames and answers travel for 33 ns each, and the answer is an empty
packet whose transmission takes no time.  Hence `DistributeSlots` runs when
nothing that the beacon set off is left (`~ Answering`); answers to *other*
beacons may be under way at any time.  A control frame takes less than a
microsecond at the 800 Mb/s of the code, and `SendPacketDown` cuts what is left
to whole microseconds, so the budget counts frames.  The address that a station
writes on its answer (the first access point it ever heard) is left out: `Receive` of
the access point does not look at it.  What a response says goes into a copy of
a list element and is lost, so a response changes nothing at the station.

The access point is alone on its channel, as in the helpers' one channel per
access point.

### LiFiDataPath: from device to device

One packet from `LiFiNetDevice::Send` through MAC, queue, MAC low, physical layer
and channel to `LiFiNetDevice::Receive`.  Each access point has its channel; a
station is listed on a channel once per `Associate` (`LiFiHelper`), never removed,
and a script may put it on any channel at any moment (`SetChannel`), listed there
or not; `Associate` does not.  `strayed` is the history of stations that an access
point got on its channel without listing them.  The head of a queue
is sent, or expires, at any moment.  Receptions at one node are in the order of
their events.  `Datagram` is the abstract service: what is handed up was sent to
this node, and is one trailer (4 bytes) shorter, because `LiFiRxMac` takes a
trailer off that MAC low has already taken.

### LiFiWiring: devices, MACs, physical layers, channels

The objects a script creates through the helpers, numbered as they are
allocated; calls in any order in which the code follows no null pointer.
`Configure` are the calls before, `Operate` those while the simulation runs:
beacons, which clear the vector into that of the last epoch, registrations at the
access point, marks, `UpdateUserRegistration()` and `ReAssignSlots`, which gives the
entries of `m_slotPtrs` new keys.

### LiFiOptics and LiFiReceiver: parameters and receptions

A parameter knows whether it was given and how often it was converted to
radians; a derived value is the record of what it was computed from.  The
arithmetic itself is floating point and left out.  `LiFiReceiver` adds the
objects that keep received power, SNR, scheme and error rate between
receptions: each reception calculates some of them and leaves the others, and
`ReportMeasurements` and the channel's report hand over and clear the samples.
Setters that scripts reach only as attributes are not actions.  Periods are
scaled to 1 and 2.

### LiFiStaTdma and LiFiMacQueue: other callers of queue and transmit MAC

`LiFiStaTdma` starts the queue of `LiFiTxMac` from the slots of every access point
that has the station in its table and from the station's loop `TransmitFrame`; none
asks whether another is at it.  Access points made by one `LiFiMacHelper` share the
station manager in which they look the station's MAC up, and none erases a station
that has moved, so `OldAps` of them may run slots for it next to its own, each in
frames of its own (`turns`).  With a slot and a
guard time that are both cut to 0 us the loop would come again without time
passing; `MaxChains` bounds what the model looks at.  `LiFiMacQueue` has every
call of the queue in any order.

### LiFiTags, LiFiStaLists, LiFiRegistry, LiFiReceptions, LiFiSignal, WifiApHelper

`LiFiTags` writes tags into a buffer and reads them, the slots of a station into an
object that may have been read into before, a report into a new one, as the
controller does; what is read behind the end of a buffer is any number of
`Garbage`.  The limit above which uplink slots are skipped (20 in the code) is
`MaxUplinkRead`.  `LiFiStaLists` is the candidates and slots of a station.
`LiFiRegistry` is the lists searched by id: erasing the element before the first,
which the code does for an id that is not listed, is undefined; of its outcomes
the model keeps the loss of the first element and the end of the program.
`LiFiReceptions` and `LiFiSignal` are what a device keeps of packets and of its
signal.  `WifiApHelper` deals out random streams; how many a part takes is a
constant.

### LiFiWalk, LiFiMotion, LiFiApplication

The walk is the chain of `InitiateWalk` and `BeginWalk` events, on a line with
speed 1; `strays` are events that `m_event` no longer knows.  `LiFiMotion` has
velocity and acceleration, positions doubled so that halves are integers.
`LiFiApplication` is started and stopped by events in any order; `lostEvents`
are sends whose handle was overwritten.

### LiFiPerformance, LiFiCaches, ControllerBooks

The records that several calls write in parts: sinks, ports and flows of the
analysis; ARP caches, gateway and peer of a user with two devices (no answers of
the ARP protocol arrive over LiFi, so the caches hold what the helper writes);
and the controller's books.  In `ControllerBooks` the order of the unordered map
of networks may change with every insertion.  A report of a user that no network
registered follows a null pointer and is not a step.

### Models that share a run

`MCLiFiFunctions` and `MCLiFiUser` instantiate several of these small modules at
once.  They share no state (but for `LiFiTxMac`'s queue), and `focus`, chosen
initially, says which one a behaviour is about, so the states add up and do not
multiply.  A property of one module holds trivially in the behaviours of the
others; `DropsAccounted` says so itself, since its books are kept under the focus
`queue` only.  In `MCLiFiCell` `setting` chooses between two stations among
themselves, one that hears other cells, and one next to which the helper lists
stations.  `PlacesTrue`, `SendingSound`,
`TagsSurvive`, `DevicesKeep` and `TableSound` are conjunctions made in these
modules.

## 4. Runs

| Run | Question | Bounds |
|---|---|---|
| `ap` | Does the chain survive registrations and associations at every point, but for the one case of the empty table (`ChainSound`)?  Does the roster refine `ApRoster`, are turns given for ever? | 2 stations, each listed once by the helper, 9 slots, 2 frames per superframe |
| `ap_three` | Does the shift of uplink turns even out for a station in the middle of a pass, and are the uplink slots announced those of the table (`FrameSound`)?  Does a full table fit? | 3 stations, each listed once by the helper, 9 slots, 1 frame |
| `functions` | Quota and table against the machine's and the loops'; slots and reports as written and read; streams; lists under removal of ids that are not there; candidates; signal; wiring and marks | 3 stations and 1 to 150 present of 50 slots; tags of up to 2 slots per direction; 2 devices, MACs, WiFi nodes; 4 candidates; 1 access point and 2 users to wire |
| `controller` | One handover at a time, never early, addresses for routes; refines `Handover`; does a weak user leave? | 2 users, window 3, time to trigger above the check period |
| `txmac` | Count, order, bound, slot; does every packet leave as long as slots begin or packets arrive? | slots of 3 us of 2 ticks; packets shorter than a microsecond, of most of a slot, and longer than a slot; limit 2, then 3 |
| `cell` | Does the beacon go out in time?  Is whoever stays in range registered before the slots are distributed, and served for ever unless the access point fell silent before it heard anyone?  Is no answer left behind (`CellSound`, `InRangeServed`)? | 2 stations that walk, or one among other cells with 2 foreign beacons at once, or one that the helper lists; 9 slots, 2 frames; room for 3 control frames |
| `datapath` | In order, at most once per listing; nothing waits for a station that cannot hear it, but for one put on a channel that does not list it; refines `Datagram` | 2 access points, 2 stations, 2 packets, 2 associations; one node of each kind with a device that sends no data |
| `receiver` | Was a loss model made of parameters that were set?  Do samples and decisions come from their own reception?  Is each reported once? | one physical layer, one receiving and one transmitting device, 2 calls, 2 receptions, periods 1 and 2; powers symmetric |
| `user` | Walks that fork, motion without jumps, sends after a stop, sinks and flows that are kept, caches that agree, chains per caller, the queue's and the controller's books | 3 places; 3 packets, 3 starts; times to 3; 2 sinks, 2 hand-overs of each, 2 ports, 3 flows; 2 access points with the same station; slots of 2 us of one tick (the cut to whole microseconds is in `txmac`), a loop that comes again after 2 us at the least, just what it gives; 2 + 2 access points; queue of 2 offered 4; 2 networks, 2 users, 3 routes |
| `beacon_generation` | Does switching beacons off stop them? (it does not) | 1 station |
| `queue_limit` | Does a lowered limit hold? (it does not) | limit 2, then 1 |
| `long_packet` | Is a packet too long for the rest of its slot kept back? (not always) | two packet lengths |

Why the bounds are enough.  Two stations show every way in which one answers
while the other is silent; a third one is needed only where the position inside a pass matters,
and that is `ap_three`.  Nine slots give two entries a quota of two, a
single one a larger quota, so that the table outgrows the frame when the other station
had registered before, and three or four entries one or none, so that the frame is
`Crowded`.  Two frames per superframe show
both a frame that follows a frame and one that ends the superframe.  A window of three reports
with lags 2 and 1 lets the two checks disagree.  In `txmac` a packet can expire
in the slot in which it was peeked at.  In `cell` the budget of 3 leaves exactly room for two
responses and the beacon, the tightest one that `|Dev| < ControlBudget` allows (the
code's 30 us allow 29 stations).  Two foreign beacons at once (`MaxAnswers`) give, with
its own, three chains on one queue, so that a chain may find it emptied by two
others.  In `datapath` two associations list a station twice on one channel or once
on each, and two packets can overtake or be copied.  In `receiver` two receptions
are one that leaves something and one that might find it.  In `user` three starts
lose two events, two switches show a sink that stayed through one; in the walk two
calls of `SetPosition` come before and after the forgotten event.  All bounds are
values of CONSTANTS; no state constraint is used.  `functions`, `receiver` and
`user` have bounded inputs (a script may end after any call), so deadlock is not
checked there; everywhere else it is.

`FrameFits` and `AnswerServed` are about tables for which three slots for each entry of
the vector fit in `MaxSlots`, `FrameSound` about frames in which each device has a
downlink slot besides its uplink one (`RoomForAll`); both say so themselves.  50 slots
allow 16 stations that are listed once.  `InRangeServed` needs besides that
`|Dev| < ControlBudget`, as `MCLiFiCell` states.

### Fairness

`WF_vars(Simulate)`: `Simulator::Run` executes the earliest event as long as
there is one.  Registrations, reports, arrivals and attribute changes are the
environment and have no fairness.  `LiFiTxMac` assumes the same of its `Simulate`, and
nothing of slots: none begins while no station answers, and `Cleanup` runs only when the
queue is called, so `EveryPacketLeaves` is about packets while slots begin or packets
arrive again and again.  `LiFiCell` assumes `WF` of each kind of event, since the simulator
runs every scheduled event at its time, and none of `Walk` and `OtherBeacon`;
`InRangeServed` is about the stations that some day stop walking away.  In `user`
the events of the walk are fair, and nothing else: `ForkHeals` needs that scheduled
steps run.  No strong fairness is assumed.

### Findings

1. `beacon_generation`: setting `BeaconGeneration` to false cancels an event
   that is never scheduled (`model/lifi-ap-mac.cc:153`); beacons go on, against
   the attribute's help text at line 69.
2. `queue_limit`: `Enqueue` drops only when size and limit are *equal*
   (`model/lifi-mac-queue.cc:96`); once the limit is lowered below the size,
   nothing is dropped any more, against the help text at line 27.
3. `long_packet`: the time of the peeked packet is waited for, but if it has
   expired by then the next one is handed down unexamined
   (`model/lifi-tx-mac.cc:196`), against the comment at line 182.

## 5. Proofs

The theorems hold for every value of the constants that the named assumptions
of the modules allow.  Each one follows from an inductive invariant `IInv` by
`Init => IInv`, `IInv /\ [Next]_vars => IInv'` (one lemma per action) and
`IInv => property`.

- `LiFiApMacProofs`, first part, about `TdmaTable`: the order `Before` ranks the
  units, so `InOrder` lists each granted unit once (`InOrderEnumerates`); the table
  fits when `3n <= MaxSlots` (`TableFits`); and the unit of copy `c` of a device is at
  the position that counts the units before it, so that the slots of one
  device and direction are consecutive.
- `LiFiApMacProofs`, second part: type correctness, `SingleChain`, `EventsPrepared`,
  `RosterCounted`, `TableInBounds`, `FrameFits`, `FrameSound`, and that
  `LiFiApMac` implements `ApRoster`.  The chain, the roster and the table lean on each
  other: the chain goes on because the table is not empty, and that is so because an
  entry of the vector is either of a station that has answered, and is in the map, or
  of one that the helper has listed; if there are only such, nobody was ever heard, and
  this is the one case in which the chain ends.  So the invariant is the
  conjunction of all of them.  None of these theorems assumes anything of stations,
  slots or associations.  For `FrameSound` the shift of the uplink by one slot is a rotation:
  each uplink slot starts the unit before it and the first the last
  (`ShiftIsFair`), so in a whole frame each unit has its turn once.
- `CentralizedControllerProofs`: `TypeOK`, `OneHandover`, `AddressForRoute`,
  `HandoverWaits`, and that the controller implements `Handover`.  The invariant
  ties the flag to the number of scheduled events, and the history of waiting to
  the time left of the event.
- `LiFiTxMacProofs`: `TypeOK`, `SizeIsLength`, `OldestFirst`, `ChainInSlot`,
  `PacketHasItsTime` and `Bounded` (when the limit is set to one value no lower
  than the first).  What is needed beyond the properties is `Peeked`: as long as nothing was dropped,
  the packet an event was scheduled for is still the first one.
- `LiFiCellProofs`: every step of the cell is a step of `LiFiApMac` or leaves its
  variables alone (`CellImplementsAp`), so the invariant of the access point
  holds in the cell and serves as a lemma.  `WhoIsHeard` follows the knowledge
  of a station from its list through answer, registration, slots and response,
  and gives `ResponseKnown`.  `BeaconAnswered` follows the beacon: as long as
  slots are not distributed, for each steady station either the beacon or the answer
  is in one of four queues, or the station is registered; the queue never holds
  more frames than its budget.  It gives `BeaconOut` and `StationsRegistered`
  when `Cardinality(Dev) < ControlBudget`.  `NoStrandedAnswer` is inductive by itself.

- `LiFiDataPathProofs`: type correctness, `DownlinkHeard`, and that the devices
  implement `Datagram`.  Every frame in a queue or on the air carries the packet
  whose number it has, with a known number of bytes around it; a station is listed
  on the channel it sends on, and of the access points only the owner hears it
  there.  The second part is what keeps registrations and channels together: a
  station that has moved answers the access point it left on the channel of the
  new one.
- `LiFiDataPathProofs`, second part: `InOrderPerListing`.  By number, what a node was handed up
  comes before what is on the air to it, and that before what waits at the sender
  (`Fifo`): a frame that leaves a queue is nowhere else yet, goes to each node once
  per listing, and each reception then turns at most one of these into one that is
  handed up (`Counted`).  A station that moves is why the bound is the listings on
  the sender's channel, which only grow.

- `LiFiReceiverProofs`: `LossModelWasSet`, `OwnReception` and `ReportedOnce`.
  `OpticsInv`: every angle that was given is converted to radians, and a derived
  value that exists is a record of parameters that were all set.  `OwnInv`:
  a physical layer that was made knows its noise, and keeps an error rate only of
  schemes other than PSK and QAM, which leave the rate alone.  `ReportInv`: what was
  reported, followed by what waits, is one line of growing numbers per receiver, all
  lines together hold each reception, and no sample that waits is older than the time
  since the last report.
- `LiFiUserProofs`: `PlacesTrue`, `NoJump`, `SendingSound`, `SinksKept`,
  `FlowsKept`, `CachesAgree`, `ChainPerCaller`, `BooksBalance` and `DropsAccounted`,
  each from the inductive invariant of its component.  `WalkInv`: an event of the
  walk, also one that `m_event` no longer knows, says by how far it has come where it
  is.  `MotionInv`: after a read the helper is up to date as long as the clock
  stands.  `SendingInv`: packets sent, events lost and the pending one exceed the limit
  by no more than one per restart.  `SinkInv`: the entries of a sink, on both lists, are
  no fewer than it was handed over, and those on the LiFi list are none just if it has
  left LiFi.  `CacheInv` and `BooksInv` (its parts are about
  reports, receivers, routes and access points): the records that one call
  writes in parts agree between calls.  `UplinkInv`: each chain has a caller
  of its own, an access point or a loop, and is over before that caller comes again.  `AccountInv`: offered
  is queued, handed out and dropped together.
- `LiFiFunctionsProofs`: `TableSound`, `TagsSurvive`, `SlotsSurvive`, `StreamsDisjoint`,
  `DevicesKeep`, `FrontIsStrongest`, `ListsServe`, `WiringSound` and
  `StaysUntilMarked`.  Sums over sequences are counted as sets of cells (`Totals`), and
  a least or greatest number is found by a minimal counterexample, again without
  induction on an operator.  Streams: those dealt out by one call follow one
  another, and every call starts behind the last.  Candidates: the vector is sorted,
  so its front is the strongest and an insertion knows its place.  Registry: an id
  counts as listed as often as it has places, and a removal takes one place of the
  id it found and none of another.  Wiring (`NodesInv`, `VectorInv`): all pairs of a node
  lie between the one the helper answers with and the one its physical layer delivers
  to, so with one pair the MAC, the device and the physical layer are that one;
  the channel's list is then the device's, with the access point itself put in
  at some place or not, and appending a user to both keeps it so.  Entries leave the map
  only in `UpdateUserRegistration`, whose new keys lose none of the ids.

`MCLiFiUser` and `MCLiFiFunctions` compose components that share no state.
`ComponentsAreIndependent` and `FunctionsAreIndependent` show that a behaviour of
the whole is one of each component, and so carry the theorems over; the queue, which
two of them share, is treated by hand (`AccountKept`, `UplinkKept`).

The runs check the conjunctions `ChainSound`, `HandoverSound`, `QueueSound` and
`CellSound`; the theorems `AccessPointIsSound`, `HandoversAreSound`, `QueueIsSound`
and `CellIsSound` put them together from the theorems on their parts.

Only model-checked: liveness (`AnswerServed`, `InRangeServed`, `WeakUserLeaves`,
`EveryPacketLeaves`, `ForkHeals`), which is out of the prover's reach.

## 6. Not modelled

- The numbers of propagation, SNR, error models and geometry: floating point.
  `lifi-propagation-loss-model.cc` is named by `wscript` but not in the
  repository; what the code does with it is taken from its callers.
- Two access points and the controller in one model: the old access point goes
  on reporting SNR 0 for a station that has left (`RosterSpec`: known stations stay
  known), and the controller averages both (`model/lifi-ap-mac.cc:297`).  Each half
  is modelled, `CentralizedController` takes reports of any value at any time; a
  property of both together would need a statement of what the average of such
  a user ought to be, and there is none.
- Frames of another access point on one's own channel (`model/lifi-ap-mac.cc:937`):
  the helpers give each access point its channel, and otherwise the code reads
  an uninitialised id.
- Reads outside a vector or through a null pointer that end the program
  (`model/centralized-controller.cc:217`, reports of unregistered users): excluded by
  assumptions on constants or by guards, which say so.
- `TransmitSlotInfos` of the access point (no caller), the averages of the
  performance analysis (their only call is inside a comment), `ForwardUp` of the
  devices (used by commented-out code of `LiFiChannel::Send`), link callbacks
  (never connected), and `SetMaximumDelay` while packets wait.
- Output files, logging, and plain getters and setters.  `GetSlotTime` of the
  access point answers 30 us whatever was set (`model/lifi-ap-mac.cc:613`).
- `* copy.*` files: stale and not in the build.  `wscript` does not build
  `measurement-report.cc`, `centralized-controller.cc`, `lifi-frame-header.cc`,
  `mobility-model.cc` and `mobility-helper.cc` either; the first two are used by
  code that is built, and are modelled; the last two are copies of the simulator's.
