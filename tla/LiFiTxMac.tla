----------------------------- MODULE LiFiTxMac -----------------------------
(***************************************************************************)
(* The data path of one device: the transmit MAC of model/lifi-tx-mac.cc   *)
(* and the queue of model/lifi-mac-queue.cc behind it.  In each of the     *)
(* device's slots the access point calls StartTransmission, which peeks at *)
(* the first packet and, if the slot is long enough for it, schedules      *)
(* SendPacketDown after the time the packet takes; that dequeues a packet, *)
(* hands it down, and starts again with what is left of the slot.          *)
(*                                                                         *)
(* A packet is the time it takes to transmit and the time it has been in   *)
(* the queue.  Time is counted in ticks, Us of them to a microsecond.      *)
(***************************************************************************)
EXTENDS Integers, Sequences, FiniteSets, SequencesExt

CONSTANTS
    TxTimes,         \* ticks that the packets of the device take
    Us,              \* ticks of a microsecond, the unit of StartTransmission
    SlotTime,        \* GetSlotTime(), in microseconds
    GuardTime,       \* GetGuardTime(), in microseconds
    MaxDelay,        \* MaxDelay of the queue, in ticks
    MaxPacketNumber, \* MaxPacketNumber of the queue at the start
    NewSizes         \* what SetQueueSize may set it to

ASSUME TxAssumption == TxTimes \subseteq Nat \ {0}
ASSUME SlotAssumption ==
    Us \in Nat \ {0} /\ SlotTime \in Nat \ {0} /\ GuardTime \in Nat \ {0}
ASSUME DelayAssumption == MaxDelay \in Nat \ {0}
ASSUME SizeAssumption == MaxPacketNumber \in Nat /\ NewSizes \subseteq Nat

VARIABLES
    m_queue,         \* packets, the oldest first
    m_size,          \* the queue's own count of them
    m_maxSize,
    sends,           \* the scheduled SendPacketDown events
    gap              \* time left until the access point's next slot

vars == <<m_queue, m_size, m_maxSize, sends, gap>>

(* `age' stands for tstamp: MaxDelay is the age at which a packet expires. *)
(* `marked' is a history field, TRUE for at most one packet of the queue.  *)
Packet == [tx : TxTimes, age : 0..MaxDelay, marked : BOOLEAN]

Slot   == SlotTime * Us
Period == (SlotTime + GuardTime) * Us

(* `left' is the time until the event and `remaining' its argument.  The   *)
(* others are history: the time the peeked packet takes, and whether no    *)
(* packet has been dropped since it was peeked at.                         *)
Send == [left : 0..Slot, remaining : 0..Slot, tx : TxTimes, intact : BOOLEAN]

-----------------------------------------------------------------------------
(* The queue.                                                              *)

Nth(S, n) == CHOOSE i \in S : Cardinality({k \in S : k <= i}) = n

(* The packets that Cleanup keeps.                                         *)
Kept(q) ==
    LET live == {i \in DOMAIN q : q[i].age < MaxDelay}
    IN  [n \in 1..Cardinality(live) |-> q[Nth(live, n)]]

Dropped == Len(m_queue) - Len(Kept(m_queue))

(* The scheduled events, after a Cleanup.                                  *)
AfterCleanup(events) ==
    [i \in DOMAIN events |->
        [events[i] EXCEPT !.intact = @ /\ Dropped = 0]]

(* Operators with `Mutant' in their name are faulty variants of the one    *)
(* that follows them, used to see that the properties notice.              *)
StartMutantWholeSlot(q, budget) ==
    IF q # <<>> /\ q[1].tx < budget
    THEN <<[left |-> q[1].tx, remaining |-> budget,
            tx |-> q[1].tx, intact |-> TRUE]>>
    ELSE <<>>

(* StartTransmission with budget ticks finds queue q.                      *)
StartTransmission(q, budget) ==
    IF q # <<>> /\ q[1].tx < budget
    THEN <<[left |-> q[1].tx, remaining |-> budget - q[1].tx,
            tx |-> q[1].tx, intact |-> TRUE]>>
    ELSE <<>>

-----------------------------------------------------------------------------
Init ==
    /\ m_queue = <<>>
    /\ m_size = 0
    /\ m_maxSize = MaxPacketNumber
    /\ sends = <<>>
    /\ gap = 0

QueueMutantPushesFront(p) ==
    /\ \/ /\ m_size - Dropped = m_maxSize
          /\ m_queue' = Kept(m_queue)
          /\ m_size' = m_size - Dropped
       \/ /\ m_size - Dropped # m_maxSize
          /\ m_queue' = <<p>> \o Kept(m_queue)
          /\ m_size' = m_size - Dropped + 1
    /\ sends' = AfterCleanup(sends)
    /\ UNCHANGED <<m_maxSize, gap>>

(* A packet arrives from above (Queue, LiFiMacQueue::Enqueue).             *)
Queue(p) ==
    /\ \/ /\ m_size - Dropped = m_maxSize
          /\ m_queue' = Kept(m_queue)
          /\ m_size' = m_size - Dropped
       \/ /\ m_size - Dropped # m_maxSize
          /\ m_queue' = Append(Kept(m_queue), p)
          /\ m_size' = m_size - Dropped + 1
    /\ sends' = AfterCleanup(sends)
    /\ UNCHANGED <<m_maxSize, gap>>

Arrive ==
    \E tx \in TxTimes, marked \in BOOLEAN :
        /\ marked => \A i \in DOMAIN m_queue : ~ m_queue[i].marked
        /\ Queue([tx |-> tx, age |-> 0, marked |-> marked])

BeginSlotMutantNoCleanup ==
    /\ gap = 0
    /\ sends' = sends \o StartTransmission(m_queue, Slot)
    /\ gap' = Period
    /\ UNCHANGED <<m_queue, m_size, m_maxSize>>

BeginSlotMutantKeepsCount ==
    /\ gap = 0
    /\ m_queue' = Kept(m_queue)
    /\ sends' = AfterCleanup(sends) \o StartTransmission(m_queue', Slot)
    /\ gap' = Period
    /\ UNCHANGED <<m_size, m_maxSize>>

(* A slot of the device: StartTransmission with the slot's length.         *)
BeginSlot ==
    /\ gap = 0
    /\ m_queue' = Kept(m_queue)
    /\ m_size' = m_size - Dropped
    /\ sends' = AfterCleanup(sends) \o StartTransmission(m_queue', Slot)
    /\ gap' = Period
    /\ UNCHANGED m_maxSize

(* What is dequeued then is handed down, if there is anything: the packet  *)
(* that was peeked at may have expired since.                              *)
SendPacketDown(i) ==
    /\ sends[i].left = 0
    /\ LET kept == Kept(m_queue) IN
        /\ m_queue' = IF kept = <<>> THEN <<>> ELSE Tail(kept)
        /\ m_size' = m_size - Dropped - IF kept = <<>> THEN 0 ELSE 1
    /\ sends' = AfterCleanup(RemoveAt(sends, i))
           \o StartTransmission(m_queue', (sends[i].remaining \div Us) * Us)
    /\ UNCHANGED <<m_maxSize, gap>>

SetQueueSize(size) ==
    /\ m_maxSize' = size
    /\ UNCHANGED <<m_queue, m_size, sends, gap>>

(* The clock: nothing that is due is left behind.                          *)
Tick ==
    /\ \A i \in DOMAIN sends : sends[i].left > 0
    /\ m_queue' = [i \in DOMAIN m_queue |->
         [m_queue[i] EXCEPT !.age = IF @ < MaxDelay THEN @ + 1 ELSE MaxDelay]]
    /\ sends' = [i \in DOMAIN sends |-> [sends[i] EXCEPT !.left = @ - 1]]
    /\ gap' = IF gap > 0 THEN gap - 1 ELSE 0
    /\ UNCHANGED <<m_size, m_maxSize>>

Simulate == Tick \/ \E i \in DOMAIN sends : SendPacketDown(i)

Next ==
    \/ Arrive
    \/ BeginSlot
    \/ Simulate
    \/ \E size \in NewSizes : SetQueueSize(size)

Spec == Init /\ [][Next]_vars

(* The simulator runs its events; nothing is assumed of the access point,  *)
(* which gives no slot while no station answers, nor of what arrives.      *)
FairSpec == Spec /\ WF_vars(Simulate)

-----------------------------------------------------------------------------
(* Properties.                                                             *)

(* Type invariant of the queue and of the scheduled events.                *)
TypeOK ==
    /\ m_queue \in Seq(Packet)
    /\ m_size \in Nat
    /\ m_maxSize \in Nat
    /\ sends \in Seq(Send)
    /\ gap \in 0..Period

(* The queue's own count, which decides what Enqueue drops, is its length, *)
(* although Cleanup, Enqueue and Dequeue each update it on their own.      *)
SizeIsLength == m_size = Len(m_queue)

(* Packets leave in the order of their arrival: nothing that Enqueue,      *)
(* Cleanup and Dequeue do puts a younger packet before an older one, so    *)
(* what has expired is always a prefix of the queue.                       *)
OldestFirst ==
    \A i, j \in DOMAIN m_queue : i < j => m_queue[i].age >= m_queue[j].age

(* The queue never holds more packets than it was ever allowed (for sizes  *)
(* that only grow: see QueueLimit).                                        *)
Bounded == \E n \in NewSizes \cup {MaxPacketNumber} :
              Len(m_queue) <= n

(* In one: the queue is in order and within its limit, and knows it.       *)
QueueSound == TypeOK /\ SizeIsLength /\ OldestFirst /\ Bounded

(* One chain of packets at a time, and it ends within its slot: the next   *)
(* packet is down, and the time left after it over, before the slot is.    *)
ChainInSlot ==
    /\ Len(sends) <= 1
    /\ \A i \in DOMAIN sends :
         (Period - gap) + sends[i].left + sends[i].remaining <= Slot

(* Unless some packet has expired meanwhile, the packet that is handed     *)
(* down is the one whose transmission time has been waited for, whatever   *)
(* has been enqueued since.                                                *)
PacketHasItsTime ==
    [][\A i \in DOMAIN sends :
         SendPacketDown(i) /\ sends[i].intact /\ Dropped = 0 =>
            /\ m_queue # <<>> /\ Head(m_queue).tx = sends[i].tx
            /\ m_queue' = Tail(m_queue)]_vars

(* Every packet leaves the queue, sent or dropped, also one that is too    *)
(* long for any slot and those behind it, as long as slots begin or        *)
(* packets arrive again and again: only a call drops what has expired.     *)
Waiting == \E i \in DOMAIN m_queue : m_queue[i].marked
EveryPacketLeaves == []<><<BeginSlot \/ Arrive>>_vars => (Waiting ~> ~ Waiting)

(* "If a packet arrives when there are already this number of packets, it  *)
(* is dropped." (lifi-mac-queue.cc:27)                                     *)
QueueLimit ==
    [][\A p \in Packet : Queue(p) /\ m_queue' = Append(Kept(m_queue), p) =>
          Len(Kept(m_queue)) < m_maxSize]_vars

(* "Packet takes more time to transmit than the slot allotted. Will send   *)
(* in next slot" (lifi-tx-mac.cc:182): a packet that takes more time than  *)
(* what StartTransmission was given is not handed down in it.              *)
LongPacketWaits ==
    [][\A i \in DOMAIN sends : SendPacketDown(i) /\ Kept(m_queue) # <<>> =>
          Kept(m_queue)[1].tx < sends[i].tx + sends[i].remaining]_vars
=============================================================================
