------------------------------ MODULE LiFiMacQueue ------------------------------
(***************************************************************************)
(* Every call of the queue of model/lifi-mac-queue.cc, in any order, and   *)
(* the two books that are kept of what it drops: its own count, which      *)
(* GetDroppedPackets answers with, and the trace MacTxDrop of the transmit *)
(* MAC, which both the queue's callback and Queue write to.                *)
(*                                                                         *)
(* LiFiTxMac has the queue itself; what starts transmissions rests here.   *)
(***************************************************************************)
EXTENDS LiFiTxMac

CONSTANT MaxOffered   \* bound on the packets offered to the queue
ASSUME OfferedAssumption == MaxOffered \in Nat

VARIABLES
    m_count,         \* and m_dropped_packets, which is always the same
    traced,          \* packets that m_macTxDropTrace was told of
    offered,         \* history: packets that Queue was given,
    refused,         \* those of them that Enqueue refused,
    fetched          \* and those that were dequeued, removed or flushed

drops == <<m_count, traced>>
dealings == <<offered, refused, fetched>>
queueVars == <<vars, drops, dealings>>

(* LiFiTxMac::LiFiTxMac makes the queue and sets its drop callback.        *)
QueueInit ==
    /\ Init
    /\ m_count = 0 /\ traced = 0
    /\ offered = 0 /\ refused = 0 /\ fetched = 0

-----------------------------------------------------------------------------
(* Cleanup tells of what it drops, which stays in the count for ever.      *)
CleanupTells ==
    /\ m_count' = m_count + Dropped
    /\ traced' = traced + Dropped

Cleaned ==
    /\ m_queue' = Kept(m_queue)
    /\ m_size' = m_size - Dropped
    /\ CleanupTells
    /\ UNCHANGED <<m_maxSize, sends, gap, dealings>>

(* LiFiTxMac::Queue tells of the packet that Enqueue refuses.              *)
Offer(p) ==
    /\ offered < MaxOffered
    /\ Queue(p)
    /\ LET full == m_size - Dropped = m_maxSize IN
        /\ refused' = refused + IF full THEN 1 ELSE 0
        /\ traced' = traced + Dropped + IF full THEN 1 ELSE 0
    /\ m_count' = m_count + Dropped
    /\ offered' = offered + 1
    /\ UNCHANGED fetched

Dequeue ==
    LET kept == Kept(m_queue) IN
    /\ m_queue' = IF kept = <<>> THEN <<>> ELSE Tail(kept)
    /\ m_size' = m_size - Dropped - IF kept = <<>> THEN 0 ELSE 1
    /\ fetched' = fetched + IF kept = <<>> THEN 0 ELSE 1
    /\ CleanupTells
    /\ UNCHANGED <<m_maxSize, sends, gap, offered, refused>>

(* Also the calls that only ask clean up.                                  *)
Peek == Cleaned
IsEmpty == Cleaned

RemovePacketMutantKeepsSize(i) ==
    /\ m_queue' = RemoveAt(m_queue, i)
    /\ fetched' = fetched + 1
    /\ UNCHANGED <<m_size, m_maxSize, sends, gap, drops, offered, refused>>

(* The packet may have expired: Remove does not clean up, and a packet     *)
(* that is not there changes nothing.                                      *)
RemovePacket(i) ==
    /\ m_queue' = RemoveAt(m_queue, i)
    /\ m_size' = m_size - 1
    /\ fetched' = fetched + 1
    /\ UNCHANGED <<m_maxSize, sends, gap, drops, offered, refused>>

(* What is flushed is neither counted nor traced.                          *)
Flush ==
    /\ m_queue' = <<>>
    /\ m_size' = 0
    /\ fetched' = fetched + Len(m_queue)
    /\ UNCHANGED <<m_maxSize, sends, gap, drops, offered, refused>>

Elapse == Tick /\ UNCHANGED <<drops, dealings>>

QueueNext ==
    \/ \E tx \in TxTimes : Offer([tx |-> tx, age |-> 0, marked |-> FALSE])
    \/ Dequeue \/ Peek \/ IsEmpty \/ Flush
    \/ \E i \in DOMAIN m_queue : RemovePacket(i)
    \/ \E size \in NewSizes : SetQueueSize(size) /\ UNCHANGED <<drops, dealings>>
    \/ Elapse

QueueSpec == QueueInit /\ [][QueueNext]_queueVars

GetSize == m_size
GetDroppedPackets == m_count

-----------------------------------------------------------------------------
(* Properties.                                                             *)

(* In any order of calls, with packets that expire between them, every     *)
(* packet offered is in the queue, was handed out, refused or counted as   *)
(* expired, once; the trace is told of the last two kinds, while the count *)
(* lacks what was refused.                                                 *)
QueueAccounts ==
    /\ GetSize = Len(m_queue)
    /\ offered = GetSize + fetched + refused + GetDroppedPackets
    /\ traced = GetDroppedPackets + refused
=============================================================================
