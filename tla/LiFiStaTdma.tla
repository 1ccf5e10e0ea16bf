------------------------------ MODULE LiFiStaTdma ------------------------------
(***************************************************************************)
(* The uplink of a station with all of its callers: the uplink slots of    *)
(* access points, and the loop of TransmitFrame that StartTdmaSessions     *)
(* starts at the station itself.  All call StartTransmission of the same   *)
(* transmit MAC (LiFiTxMac), the loop with 2 us, and none asks whether a   *)
(* chain of packets is under way.                                          *)
(*                                                                         *)
(* The access points that one LiFiMacHelper has made share their station   *)
(* manager, and a station that has moved stays in the table of each access *)
(* point that it has left: they all find its MAC and give it slots, each   *)
(* in a frame of its own.                                                  *)
(*                                                                         *)
(* Slot and guard times may be set at any moment; a MAC keeps whole        *)
(* microseconds of them.                                                   *)
(***************************************************************************)
EXTENDS LiFiTxMac

CONSTANTS
    Times,       \* slot and guard times that scripts set, in ticks
    OldAps,      \* the access points that the station has left, at most
    MaxLoops,    \* bound on the calls of StartTdmaSessions
    MaxChains,   \* bound on the chains under way at which a loop comes again
    MaxUplink   \* bound on the packets enqueued

ASSUME TimesAssumption == Times \subseteq Nat
ASSUME StaBounds == {OldAps, MaxLoops, MaxChains, MaxUplink} \subseteq Nat

Server == 0..OldAps   \* the access points that may have the station in their table

VARIABLES
    m_slotTime, m_guardTime,   \* of the station, in microseconds
    apGuardTime,               \* m_guardTime of each access point
    turns,                     \* ticks until its next uplink slot at the earliest
    loops,                     \* ticks until each scheduled TransmitFrame
    tight,                     \* history: a loop came again within 2 us
    packets                    \* packets enqueued so far

times == <<m_slotTime, m_guardTime, apGuardTime>>
callers == <<turns, loops>>
history == <<tight, packets>>
staVars == <<vars, times, callers, history>>

(* What TransmitFrame hands to StartTransmission.                          *)
LoopBudget == 2 * Us

StaInit ==
    /\ Init
    /\ m_slotTime = 20 /\ m_guardTime = 7 /\ apGuardTime = [a \in Server |-> GuardTime]
    /\ turns = [a \in Server |-> 0] /\ loops = <<>> /\ tight = FALSE /\ packets = 0

-----------------------------------------------------------------------------
SetSlotTime(time) ==
    /\ m_slotTime' = time \div Us
    /\ UNCHANGED <<vars, m_guardTime, apGuardTime, callers, history>>

SetGuardTime(time) ==
    /\ m_guardTime' = time \div Us
    /\ UNCHANGED <<vars, m_slotTime, apGuardTime, callers, history>>

SetApGuardTime(a, time) ==
    /\ apGuardTime' = [apGuardTime EXCEPT ![a] = time \div Us]
    /\ UNCHANGED <<vars, m_slotTime, m_guardTime, callers, history>>

-----------------------------------------------------------------------------
(* Ticks until TransmitFrame comes again.                                  *)
TransmitAfter == (m_guardTime + m_slotTime) * Us

(* StartTransmission of the transmit MAC, which cleans up the queue.       *)
Transmit(budget) ==
    /\ m_queue' = Kept(m_queue)
    /\ m_size' = m_size - Dropped
    /\ sends' = AfterCleanup(sends) \o StartTransmission(m_queue', budget)
    /\ UNCHANGED m_maxSize

(* TransmitFrame is called at once; nothing ends its loop.                 *)
StartTdmaSessions ==
    /\ Len(loops) < MaxLoops
    /\ Transmit(LoopBudget)
    /\ loops' = Append(loops, TransmitAfter)
    /\ tight' = (tight \/ TransmitAfter < LoopBudget)
    /\ UNCHANGED <<gap, times, turns, packets>>

TransmitFrameMutantWholePeriod(i) ==
    /\ loops[i] = 0
    /\ Len(sends) < MaxChains
    /\ Transmit(2 * TransmitAfter)
    /\ loops' = [loops EXCEPT ![i] = TransmitAfter]
    /\ tight' = (tight \/ TransmitAfter < LoopBudget)
    /\ UNCHANGED <<gap, times, turns, packets>>

TransmitFrame(i) ==
    /\ loops[i] = 0
    /\ Len(sends) < MaxChains
    /\ Transmit(LoopBudget)
    /\ loops' = [loops EXCEPT ![i] = TransmitAfter]
    /\ tight' = (tight \/ TransmitAfter < LoopBudget)
    /\ UNCHANGED <<gap, times, turns, packets>>

(* An uplink slot of the station, in which access point a, whose next slot *)
(* comes after the guard time, calls StartTransmission of the station's MAC. *)
UplinkSlot(a) ==
    /\ turns[a] = 0
    /\ Transmit(Slot)
    /\ turns' = [turns EXCEPT ![a] = (SlotTime + apGuardTime[a]) * Us]
    /\ UNCHANGED <<gap, times, loops, history>>

-----------------------------------------------------------------------------
UplinkArrives ==
    /\ packets < MaxUplink
    /\ packets' = packets + 1
    /\ \E tx \in TxTimes : Queue([tx |-> tx, age |-> 0, marked |-> FALSE])
    /\ UNCHANGED <<times, callers, tight>>

HandDown(i) ==
    /\ SendPacketDown(i)
    /\ UNCHANGED <<times, callers, history>>

StaTick ==
    /\ \A i \in DOMAIN loops : loops[i] > 0
    /\ Tick
    /\ turns' = [a \in Server |-> IF turns[a] > 0 THEN turns[a] - 1 ELSE 0]
    /\ loops' = [i \in DOMAIN loops |-> loops[i] - 1]
    /\ UNCHANGED <<times, history>>

StaNext ==
    \/ \E time \in Times : SetSlotTime(time) \/ SetGuardTime(time)
    \/ \E a \in Server, time \in Times : SetApGuardTime(a, time)
    \/ StartTdmaSessions
    \/ \E i \in DOMAIN loops : TransmitFrame(i)
    \/ \E a \in Server : UplinkSlot(a)
    \/ UplinkArrives
    \/ \E i \in DOMAIN sends : HandDown(i)
    \/ StaTick

StaSpec == StaInit /\ [][StaNext]_staVars

-----------------------------------------------------------------------------
(* Properties.                                                             *)

(* Nothing keeps chains of packets apart but their callers' times: each    *)
(* access point and each loop of the station has one under way at most,    *)
(* ended before it comes again, even if guard times are cut to nothing in  *)
(* between.  So there are never more than callers that were here and have  *)
(* yet to come again, as long as no loop comes again within the 2 us it    *)
(* gives.  Two chains there are once two access points serve the station:  *)
(* then one hands down a packet whose time the other has waited for.       *)
ChainPerCaller ==
    ~ tight => Len(sends) <= Cardinality({a \in Server : turns[a] > 0})
                               + Cardinality({i \in DOMAIN loops : loops[i] > 0})
=============================================================================
