-------------------------- MODULE LiFiTxMacProofs --------------------------
(***************************************************************************)
(* Theorems of the transmit MAC and its queue, for every set of packets,   *)
(* every slot, guard and delay.  The argument: Cleanup keeps a packet's    *)
(* place among those it keeps (the lemmas on Kept), at most one event is   *)
(* scheduled and its time fits in the slot (ChainInSlot), and as long as   *)
(* nothing is dropped the packet it was scheduled for stays first          *)
(* (Peeked).                                                               *)
(***************************************************************************)
EXTENDS LiFiTxMac, FiniteSetTheorems, TLAPS

(* The packet that an intact event was scheduled for is still the first.   *)
Peeked ==
    \A i \in DOMAIN sends :
        sends[i].intact => m_queue # <<>> /\ m_queue[1].tx = sends[i].tx

IInv ==
    /\ TypeOK
    /\ SizeIsLength
    /\ OldestFirst
    /\ ChainInSlot
    /\ Peeked

-----------------------------------------------------------------------------
(* The elements of a finite set of numbers, in increasing order.           *)

UpTo(S, i) == {k \in S : k <= i}

LEMMA IntervalCounts ==
    ASSUME NEW m \in Nat
    PROVE  IsFiniteSet(1..m) /\ Cardinality(1..m) = m
  BY FS_Interval

LEMMA UpToCounts ==
    ASSUME NEW m \in Nat, NEW S \in SUBSET (1..m), NEW i \in S, NEW j \in S
    PROVE  /\ IsFiniteSet(S) /\ Cardinality(S) \in Nat /\ Cardinality(S) <= m
           /\ IsFiniteSet(UpTo(S, i))
           /\ Cardinality(UpTo(S, i)) \in 1..Cardinality(S)
           /\ i < j => Cardinality(UpTo(S, i)) < Cardinality(UpTo(S, j))
<1>1. IsFiniteSet(1..m) /\ Cardinality(1..m) = m
  BY FS_Interval
<1>2. IsFiniteSet(S) /\ Cardinality(S) \in Nat /\ Cardinality(S) <= m
  BY <1>1, FS_Subset, FS_CardinalityType
<1>3. ASSUME NEW x \in S
      PROVE  /\ UpTo(S, x) \in SUBSET S /\ IsFiniteSet(UpTo(S, x))
             /\ Cardinality(UpTo(S, x)) \in Nat
             /\ Cardinality(UpTo(S, x)) <= Cardinality(S)
             /\ Cardinality(UpTo(S, x)) # 0
  <2>1. UpTo(S, x) \in SUBSET S /\ x \in UpTo(S, x)
    BY DEF UpTo
  <2>2. /\ IsFiniteSet(UpTo(S, x))
        /\ Cardinality(UpTo(S, x)) <= Cardinality(S)
    BY <1>2, <2>1, FS_Subset
  <2>3. Cardinality(UpTo(S, x)) \in Nat
    BY <2>2, FS_CardinalityType
  <2>4. Cardinality(UpTo(S, x)) # 0
    BY <2>1, <2>2, FS_EmptySet
  <2>5. QED
    BY <2>1, <2>2, <2>3, <2>4
<1>4. ASSUME i < j
      PROVE  Cardinality(UpTo(S, i)) < Cardinality(UpTo(S, j))
  <2>0. i \in Int /\ j \in Int /\ \A k \in S : k \in Int
    OBVIOUS
  <2>1. UpTo(S, i) \in SUBSET UpTo(S, j)
    <3> SUFFICES ASSUME NEW k \in S, k <= i
                 PROVE  k <= j
      BY DEF UpTo
    <3>1. QED
      BY <1>4, <2>0
  <2>2. j \in UpTo(S, j) /\ j \notin UpTo(S, i)
    BY <1>4, <2>0 DEF UpTo
  <2>3. /\ Cardinality(UpTo(S, i)) <= Cardinality(UpTo(S, j))
        /\ Cardinality(UpTo(S, i)) # Cardinality(UpTo(S, j))
    BY <1>3, <2>1, <2>2, FS_Subset
  <2>4. QED
    BY <1>3, <2>3
<1>5. QED
  BY <1>2, <1>3, <1>4

(* Nth(S, n) is the n-th element of S.                                     *)
LEMMA NthCounts ==
    ASSUME NEW m \in Nat, NEW S \in SUBSET (1..m), NEW n \in 1..Cardinality(S)
    PROVE  /\ Nth(S, n) \in S
           /\ Cardinality(UpTo(S, Nth(S, n))) = n
<1> DEFINE c == Cardinality(S)
           rank == [i \in S |-> Cardinality(UpTo(S, i))]
<1>0. S # {}
  BY FS_EmptySet
<1>1. IsFiniteSet(S) /\ c \in Nat
  BY <1>0, UpToCounts
<1>2. rank \in [S -> 1..c]
  BY UpToCounts
<1>3. ASSUME NEW i \in S, NEW j \in S, rank[i] = rank[j]
      PROVE  i = j
  <2>1. rank[i] \in Int /\ rank[j] \in Int /\ i \in Int /\ j \in Int
    BY <1>1, <1>2
  <2>2. ~(i < j)
    <3>1. i < j => rank[i] < rank[j]
      BY UpToCounts
    <3>2. QED
      BY <1>3, <2>1, <3>1
  <2>3. ~(j < i)
    <3>1. j < i => rank[j] < rank[i]
      BY UpToCounts
    <3>2. QED
      BY <1>3, <2>1, <3>1
  <2>4. QED
    BY <2>1, <2>2, <2>3
<1>4. rank \in Injection(S, 1..c)
  BY <1>2, <1>3 DEF Injection, IsInjective
<1>5. rank \in Surjection(S, 1..c)
  <2>1. IsFiniteSet(1..c) /\ Cardinality(1..c) = c
    BY <1>1, FS_Interval
  <2>2. QED
    BY <1>4, <2>1, FS_Injection
<1>6. PICK i \in S : rank[i] = n
  BY <1>5 DEF Surjection
<1>7. i \in S /\ Cardinality(UpTo(S, i)) = n
  BY <1>6
<1>8. Nth(S, n) = CHOOSE x \in S : Cardinality(UpTo(S, x)) = n
  BY DEF Nth, UpTo
<1>9. QED
  BY <1>7, <1>8

LEMMA NthIncreases ==
    ASSUME NEW m \in Nat, NEW S \in SUBSET (1..m),
           NEW n \in 1..Cardinality(S), NEW p \in 1..Cardinality(S), n < p
    PROVE  Nth(S, n) < Nth(S, p)
<1>1. /\ Nth(S, n) \in S /\ Cardinality(UpTo(S, Nth(S, n))) = n
      /\ Nth(S, p) \in S /\ Cardinality(UpTo(S, Nth(S, p))) = p
  BY NthCounts
<1>2. Nth(S, n) # Nth(S, p)
  <2>1. n # p
    BY <1>1, UpToCounts
  <2>2. QED
    BY <1>1, <2>1
<1>3. ~(Nth(S, p) < Nth(S, n))
  <2>1. ASSUME Nth(S, p) < Nth(S, n) PROVE p < n
    BY <1>1, <2>1, UpToCounts
  <2>2. n \in Int /\ p \in Int
    BY <1>1, UpToCounts
  <2>3. QED
    BY <2>1, <2>2
<1>4. Nth(S, n) \in Int /\ Nth(S, p) \in Int
  <2>1. \A x \in S : x \in Int
    OBVIOUS
  <2>2. QED
    BY <1>1, <2>1, Zenon
<1>5. QED
  BY <1>2, <1>3, <1>4

LEMMA NthOfInterval ==
    ASSUME NEW m \in Nat, NEW n \in 1..m
    PROVE  Nth(1..m, n) = n
<1>1. Cardinality(1..m) = m
  BY FS_Interval
<1>2. /\ Nth(1..m, n) \in 1..m
      /\ Cardinality(UpTo(1..m, Nth(1..m, n))) = n
  BY <1>1, NthCounts
<1>3. ASSUME NEW i \in 1..m
      PROVE  Cardinality(UpTo(1..m, i)) = i
  <2>1. UpTo(1..m, i) = 1..i
    BY DEF UpTo
  <2>2. i \in Int /\ 1 \in Int /\ ~(1 > i) /\ i - 1 + 1 = i
    OBVIOUS
  <2>3. QED
    BY <2>1, <2>2, FS_Interval
<1>4. QED
  BY <1>2, <1>3

-----------------------------------------------------------------------------
(* What Cleanup keeps.                                                     *)

Live(q) == {i \in DOMAIN q : q[i].age < MaxDelay}

(* The packets that Cleanup keeps are packets of the queue, at most as     *)
(* many, each at least as late in the queue as those kept before it.       *)
LEMMA KeptType ==
    ASSUME NEW q \in Seq(Packet)
    PROVE  /\ Kept(q) \in Seq(Packet)
           /\ Len(Kept(q)) = Cardinality(Live(q))
           /\ Len(Kept(q)) \in Nat /\ Len(Kept(q)) <= Len(q)
           /\ \A n \in DOMAIN Kept(q) :
                 Nth(Live(q), n) \in DOMAIN q /\ Kept(q)[n] = q[Nth(Live(q), n)]
<1> DEFINE c == Cardinality(Live(q))
<1>1. Len(q) \in Nat /\ Live(q) \in SUBSET (1..Len(q)) /\ DOMAIN q = 1..Len(q)
  BY DEF Live
<1>2. c \in Nat /\ c <= Len(q)
  <2>1. IsFiniteSet(1..Len(q)) /\ Cardinality(1..Len(q)) = Len(q)
    BY <1>1, IntervalCounts, Zenon
  <2>2. QED
    BY <1>1, <2>1, FS_Subset, FS_CardinalityType
<1>3. Kept(q) = [n \in 1..c |-> q[Nth(Live(q), n)]]
  BY DEF Kept, Live
<1>4. ASSUME NEW n \in 1..c
      PROVE  Nth(Live(q), n) \in DOMAIN q /\ q[Nth(Live(q), n)] \in Packet
  <2>1. Nth(Live(q), n) \in Live(q)
    BY <1>1, NthCounts
  <2>2. QED
    BY <1>1, <2>1
<1> HIDE DEF c
<1>5. Kept(q) \in [1..c -> Packet]
  BY <1>3, <1>4
<1>6. Kept(q) \in Seq(Packet) /\ Len(Kept(q)) = c
  BY <1>2, <1>5
<1>7. DOMAIN Kept(q) = 1..c
  BY <1>3
<1>8. QED
  BY <1>2, <1>3, <1>4, <1>6, <1>7 DEF c

Sorted(q) == \A i, j \in DOMAIN q : i < j => q[i].age >= q[j].age

LEMMA KeptSorted ==
    ASSUME NEW q \in Seq(Packet), Sorted(q)
    PROVE  Sorted(Kept(q))
<1> SUFFICES ASSUME NEW n \in DOMAIN Kept(q), NEW p \in DOMAIN Kept(q), n < p
             PROVE  Kept(q)[n].age >= Kept(q)[p].age
  BY DEF Sorted
<1>1. Live(q) \in SUBSET (1..Len(q)) /\ Len(q) \in Nat
  BY DEF Live
<1>2. n \in 1..Cardinality(Live(q)) /\ p \in 1..Cardinality(Live(q))
  BY KeptType
<1>3. Nth(Live(q), n) < Nth(Live(q), p)
  BY <1>1, <1>2, NthIncreases
<1>4. /\ Nth(Live(q), n) \in DOMAIN q /\ Kept(q)[n] = q[Nth(Live(q), n)]
      /\ Nth(Live(q), p) \in DOMAIN q /\ Kept(q)[p] = q[Nth(Live(q), p)]
  BY KeptType
<1>5. QED
  BY <1>3, <1>4 DEF Sorted

LEMMA KeptAll ==
    ASSUME NEW q \in Seq(Packet), Len(Kept(q)) = Len(q)
    PROVE  Kept(q) = q
<1>1. Live(q) \in SUBSET (1..Len(q)) /\ Len(q) \in Nat /\ DOMAIN q = 1..Len(q)
  BY DEF Live
<1>2. IsFiniteSet(1..Len(q)) /\ Cardinality(1..Len(q)) = Len(q)
  BY <1>1, IntervalCounts, Zenon
<1>3. Cardinality(Live(q)) = Len(q)
  BY KeptType
<1>4. Live(q) = 1..Len(q)
  BY <1>1, <1>2, <1>3, FS_Subset
<1>5. Kept(q) \in Seq(Packet) /\ DOMAIN Kept(q) = 1..Len(q)
  BY KeptType
<1>6. ASSUME NEW n \in 1..Len(q)
      PROVE  Kept(q)[n] = q[n]
  <2>1. Nth(Live(q), n) = n
    BY <1>1, <1>4, NthOfInterval
  <2>2. QED
    BY <1>5, <2>1, KeptType
<1>7. QED
  BY <1>1, <1>5, <1>6

-----------------------------------------------------------------------------
(* Times.                                                                  *)

LEMMA SlotLengths == Slot \in Nat /\ Period \in Nat /\ Slot < Period
<1>1. Us \in Nat /\ Us >= 1 /\ SlotTime \in Nat /\ GuardTime \in Nat /\ GuardTime >= 1
  BY SlotAssumption
<1>2. SlotTime * Us \in Nat /\ GuardTime * Us \in Nat /\ GuardTime * Us >= 1
  BY <1>1
<1>3. (SlotTime + GuardTime) * Us = SlotTime * Us + GuardTime * Us
  BY <1>1
<1>4. QED
  BY <1>2, <1>3 DEF Slot, Period

LEMMA WholeMicroseconds ==
    ASSUME NEW r \in Nat
    PROVE  (r \div Us) * Us \in Nat /\ (r \div Us) * Us <= r
<1>1. Us \in Nat \ {0}
  BY SlotAssumption
<1>2. r \div Us \in Nat /\ Us * (r \div Us) <= r
  BY <1>1
<1>3. QED
  BY <1>1, <1>2

-----------------------------------------------------------------------------
(* Scheduled events.                                                       *)

LEMMA StartSchedules ==
    ASSUME NEW q \in Seq(Packet), NEW b \in 0..Slot
    PROVE  LET t == StartTransmission(q, b) IN
           /\ t \in Seq(Send) /\ Len(t) <= 1
           /\ \A i \in DOMAIN t :
                /\ q # <<>> /\ t[i].tx = q[1].tx
                /\ t[i].left + t[i].remaining <= b
<1>1. CASE q # <<>> /\ q[1].tx < b
  <2> DEFINE e == [left |-> q[1].tx, remaining |-> b - q[1].tx,
                   tx |-> q[1].tx, intact |-> TRUE]
  <2>1. q[1] \in Packet
    BY <1>1
  <2>2. q[1].tx \in TxTimes /\ q[1].tx \in Nat /\ b \in Nat /\ Slot \in Nat
    <3>1. q[1].tx \in TxTimes
      BY <2>1 DEF Packet
    <3>2. q[1].tx \in Nat
      BY <3>1, TxAssumption
    <3>3. Slot \in Nat
      BY SlotLengths
    <3>4. b \in Nat
      BY <3>3
    <3>5. QED
      BY <3>1, <3>2, <3>3, <3>4
  <2>3. q[1].tx \in 0..Slot /\ b - q[1].tx \in 0..Slot
    BY <1>1, <2>2
  <2>4. e \in Send
    BY <2>2, <2>3 DEF Send
  <2>5. StartTransmission(q, b) = <<e>>
    BY <1>1 DEF StartTransmission
  <2>6. e.tx = q[1].tx /\ e.left + e.remaining <= b
    BY <2>2
  <2> HIDE DEF e
  <2>7. QED
    BY <1>1, <2>4, <2>5, <2>6
<1>2. CASE ~(q # <<>> /\ q[1].tx < b)
  <2>1. StartTransmission(q, b) = <<>>
    BY <1>2 DEF StartTransmission
  <2>2. QED
    BY <2>1
<1>3. QED
  BY <1>1, <1>2

LEMMA AfterCleanupType ==
    ASSUME NEW events \in Seq(Send)
    PROVE  LET t == AfterCleanup(events) IN
           /\ t \in Seq(Send) /\ Len(t) = Len(events)
           /\ DOMAIN t = DOMAIN events
           /\ \A i \in DOMAIN t :
                /\ t[i].left = events[i].left
                /\ t[i].remaining = events[i].remaining
                /\ t[i].tx = events[i].tx
                /\ t[i].intact => events[i].intact /\ Dropped = 0
<1> DEFINE e(i) == [events[i] EXCEPT !.intact = @ /\ Dropped = 0]
<1>1. AfterCleanup(events) = [i \in DOMAIN events |-> e(i)]
  BY DEF AfterCleanup
<1>2. ASSUME NEW i \in DOMAIN events
      PROVE  /\ e(i) \in Send
             /\ e(i).left = events[i].left
             /\ e(i).remaining = events[i].remaining
             /\ e(i).tx = events[i].tx
             /\ e(i).intact => events[i].intact /\ Dropped = 0
  <2>1. events[i] \in Send
    OBVIOUS
  <2>2. (events[i].intact /\ Dropped = 0) \in BOOLEAN
    OBVIOUS
  <2>3. e(i) \in Send
    BY <2>1, <2>2 DEF Send
  <2>4. /\ e(i).left = events[i].left
        /\ e(i).remaining = events[i].remaining
        /\ e(i).tx = events[i].tx
        /\ e(i).intact = (events[i].intact /\ Dropped = 0)
    BY <2>1 DEF Send
  <2>5. QED
    BY <2>3, <2>4
<1> HIDE DEF e
<1>3. QED
  BY <1>1, <1>2

LEMMA AtMostOne ==
    ASSUME NEW t \in Seq(Send), Len(t) <= 1, NEW i \in DOMAIN t
    PROVE  i = 1
  OBVIOUS

LEMMA OthersEmpty ==
    ASSUME NEW s \in Seq(Send), Len(s) <= 1, NEW i \in DOMAIN s
    PROVE  RemoveAt(s, i) \in Seq(Send) /\ Len(RemoveAt(s, i)) < 1
<1>1. i = 1 /\ Len(s) >= 1 /\ Len(s) \in Nat
  OBVIOUS
<1>2. SubSeq(s, 1, 0) \in Seq(Send) /\ Len(SubSeq(s, 1, 0)) <= 0
  OBVIOUS
<1>3. SubSeq(s, 2, Len(s)) \in Seq(Send) /\ Len(SubSeq(s, 2, Len(s))) <= 0
  BY <1>1
<1>4. RemoveAt(s, i) = SubSeq(s, 1, 0) \o SubSeq(s, 2, Len(s))
  BY <1>1 DEF RemoveAt
<1>5. QED
  BY <1>2, <1>3, <1>4

LEMMA ConcatEmpty ==
    ASSUME NEW s \in Seq(Send), Len(s) < 1, NEW t \in Seq(Send)
    PROVE  s \o t = t
  OBVIOUS

-----------------------------------------------------------------------------
(* The invariant is inductive.                                             *)

(* What the actions that begin with a Cleanup share.                       *)
LEMMA CleanupKeeps ==
    ASSUME IInv
    PROVE  /\ Kept(m_queue) \in Seq(Packet)
           /\ Sorted(Kept(m_queue))
           /\ m_size - Dropped = Len(Kept(m_queue))
           /\ Len(Kept(m_queue)) \in Nat /\ Len(Kept(m_queue)) <= Len(m_queue)
           /\ Dropped = 0 => Kept(m_queue) = m_queue
<1>1. m_queue \in Seq(Packet) /\ m_size = Len(m_queue) /\ Sorted(m_queue)
  BY DEF IInv, TypeOK, SizeIsLength, OldestFirst, Sorted
<1>2. /\ Kept(m_queue) \in Seq(Packet) /\ Sorted(Kept(m_queue))
      /\ Len(Kept(m_queue)) \in Nat /\ Len(Kept(m_queue)) <= Len(m_queue)
  BY <1>1, KeptType, KeptSorted
<1>3. Len(m_queue) \in Nat
  BY <1>1
<1>4. Dropped = Len(m_queue) - Len(Kept(m_queue))
  BY DEF Dropped
<1>5. m_size - Dropped = Len(Kept(m_queue))
  BY <1>1, <1>2, <1>3, <1>4
<1>6. ASSUME Dropped = 0 PROVE Kept(m_queue) = m_queue
  <2>1. Len(Kept(m_queue)) = Len(m_queue)
    BY <1>2, <1>3, <1>4, <1>6
  <2>2. QED
    BY <1>1, <2>1, KeptAll
<1>7. QED
  BY <1>2, <1>5, <1>6

LEMMA InitInv == Init => IInv
<1> SUFFICES ASSUME Init PROVE IInv
  OBVIOUS
<1> USE DEF Init
<1>1. TypeOK
  BY SizeAssumption, SlotLengths DEF TypeOK
<1>2. SizeIsLength /\ OldestFirst /\ ChainInSlot /\ Peeked
  BY DEF SizeIsLength, OldestFirst, ChainInSlot, Peeked
<1>3. QED
  BY <1>1, <1>2 DEF IInv

LEMMA QueueInv ==
    ASSUME IInv, NEW p \in Packet, p.age = 0, Queue(p)
    PROVE  IInv'
<1> DEFINE kept == Kept(m_queue)
           t == AfterCleanup(sends)
<1>1. /\ kept \in Seq(Packet) /\ Sorted(kept) /\ m_size - Dropped = Len(kept)
      /\ Len(kept) \in Nat
      /\ Dropped = 0 => kept = m_queue
  BY CleanupKeeps
<1>2. sends \in Seq(Send) /\ gap \in 0..Period /\ m_maxSize \in Nat
      /\ m_queue \in Seq(Packet)
  BY DEF IInv, TypeOK
<1>3. /\ t \in Seq(Send) /\ Len(t) = Len(sends) /\ DOMAIN t = DOMAIN sends
      /\ \A i \in DOMAIN t :
           /\ t[i].left = sends[i].left
           /\ t[i].remaining = sends[i].remaining
           /\ t[i].tx = sends[i].tx
           /\ t[i].intact => sends[i].intact /\ Dropped = 0
  BY <1>2, AfterCleanupType
<1>4. sends' = t /\ m_maxSize' = m_maxSize /\ gap' = gap
  BY DEF Queue
<1>5. \/ m_queue' = kept /\ m_size' = m_size - Dropped
      \/ m_queue' = Append(kept, p) /\ m_size' = m_size - Dropped + 1
  BY DEF Queue
<1> HIDE DEF kept, t
<1>6. m_queue' \in Seq(Packet) /\ m_size' = Len(m_queue') /\ m_size' \in Nat
  BY <1>1, <1>5
<1>7. TypeOK'
  BY <1>2, <1>3, <1>4, <1>6 DEF TypeOK
<1>8. SizeIsLength'
  BY <1>6 DEF SizeIsLength
<1>9. OldestFirst'
  <2>1. CASE m_queue' = kept
    BY <1>1, <2>1 DEF Sorted, OldestFirst
  <2>2. CASE m_queue' = Append(kept, p)
    <3> SUFFICES ASSUME NEW i \in DOMAIN Append(kept, p),
                        NEW j \in DOMAIN Append(kept, p), i < j
                 PROVE  Append(kept, p)[i].age >= Append(kept, p)[j].age
      BY <2>2 DEF OldestFirst
    <3>1. i \in DOMAIN kept /\ Append(kept, p)[i] = kept[i]
      BY <1>1
    <3>2. kept[i] \in Packet
      BY <1>1, <3>1
    <3>3. kept[i].age \in Nat
      BY <3>2, DelayAssumption DEF Packet
    <3>4. CASE j \in DOMAIN kept
      <4>1. Append(kept, p)[j] = kept[j]
        BY <1>1, <3>4
      <4>2. QED
        BY <1>1, <3>1, <3>4, <4>1 DEF Sorted
    <3>5. CASE j \notin DOMAIN kept
      <4>1. Append(kept, p)[j] = p
        BY <1>1, <3>5
      <4>2. QED
        BY <3>1, <3>3, <4>1
    <3>6. QED
      BY <3>4, <3>5
  <2>3. QED
    BY <1>5, <2>1, <2>2
<1>10. ChainInSlot'
  <2>1. Len(sends) <= 1
        /\ \A i \in DOMAIN sends :
              (Period - gap) + sends[i].left + sends[i].remaining <= Slot
    BY DEF IInv, ChainInSlot
  <2>2. QED
    BY <1>3, <1>4, <2>1 DEF ChainInSlot
<1>11. Peeked'
  <2> SUFFICES ASSUME NEW i \in DOMAIN t, t[i].intact
               PROVE  m_queue' # <<>> /\ m_queue'[1].tx = t[i].tx
    BY <1>4 DEF Peeked
  <2>1. /\ sends[i].intact /\ kept = m_queue /\ i \in DOMAIN sends
        /\ t[i].tx = sends[i].tx
    BY <1>1, <1>3
  <2>2. kept # <<>> /\ kept[1].tx = sends[i].tx
    BY <2>1 DEF IInv, Peeked
  <2>3. m_queue' # <<>> /\ m_queue'[1] = kept[1]
    BY <1>1, <1>5, <2>2
  <2>4. QED
    BY <2>1, <2>2, <2>3
<1>12. QED
  BY <1>7, <1>8, <1>9, <1>10, <1>11 DEF IInv

LEMMA BeginSlotInv ==
    ASSUME IInv, BeginSlot
    PROVE  IInv'
<1> DEFINE kept == Kept(m_queue)
           t == StartTransmission(kept, Slot)
<1>1. /\ kept \in Seq(Packet) /\ Sorted(kept) /\ m_size - Dropped = Len(kept)
      /\ Len(kept) \in Nat
  BY CleanupKeeps
<1>2. sends \in Seq(Send) /\ m_maxSize \in Nat
  BY DEF IInv, TypeOK
<1>3. Slot \in Nat /\ Period \in Nat /\ Slot < Period /\ Slot \in 0..Slot
  BY SlotLengths
<1>4. Len(sends) < 1
  <2> SUFFICES ASSUME Len(sends) >= 1 PROVE FALSE
    BY <1>2
  <2>1. 1 \in DOMAIN sends /\ sends[1] \in Send
    BY <1>2
  <2>2. sends[1].left \in 0..Slot /\ sends[1].remaining \in 0..Slot
    BY <2>1 DEF Send
  <2>3. (Period - 0) + sends[1].left + sends[1].remaining <= Slot
    BY <2>1 DEF IInv, ChainInSlot, BeginSlot
  <2>4. QED
    BY <1>3, <2>2, <2>3
<1>5. /\ t \in Seq(Send) /\ Len(t) <= 1
      /\ \A i \in DOMAIN t :
            /\ kept # <<>> /\ t[i].tx = kept[1].tx
            /\ t[i].left + t[i].remaining <= Slot
  BY <1>1, <1>3, StartSchedules
<1>6. sends' = t
  <2>1. AfterCleanup(sends) \in Seq(Send) /\ Len(AfterCleanup(sends)) < 1
    BY <1>2, <1>4, AfterCleanupType
  <2>2. sends' = AfterCleanup(sends) \o t
    BY DEF BeginSlot
  <2> HIDE DEF t
  <2>3. QED
    BY <1>5, <2>1, <2>2, ConcatEmpty
<1>7. /\ m_queue' = kept /\ m_size' = m_size - Dropped /\ m_maxSize' = m_maxSize
      /\ gap' = Period
  BY DEF BeginSlot
<1> HIDE DEF kept, t
<1>8. TypeOK'
  BY <1>1, <1>2, <1>3, <1>5, <1>6, <1>7 DEF TypeOK
<1>9. SizeIsLength' /\ OldestFirst'
  BY <1>1, <1>7 DEF SizeIsLength, OldestFirst, Sorted
<1>10. ChainInSlot'
  <2> SUFFICES ASSUME NEW i \in DOMAIN t
               PROVE  (Period - Period) + t[i].left + t[i].remaining <= Slot
    BY <1>5, <1>6, <1>7 DEF ChainInSlot
  <2>1. t[i] \in Send
    BY <1>5
  <2>2. t[i].left \in 0..Slot /\ t[i].remaining \in 0..Slot
    BY <2>1 DEF Send
  <2>3. QED
    BY <1>3, <1>5, <2>2
<1>11. Peeked'
  BY <1>5, <1>6, <1>7 DEF Peeked
<1>12. QED
  BY <1>8, <1>9, <1>10, <1>11 DEF IInv

LEMMA SendInv ==
    ASSUME IInv, NEW i \in DOMAIN sends, SendPacketDown(i)
    PROVE  IInv'
<1> DEFINE kept == Kept(m_queue)
           rest == IF kept = <<>> THEN <<>> ELSE Tail(kept)
           whole == (sends[i].remaining \div Us) * Us
           t == StartTransmission(rest, whole)
<1>1. /\ kept \in Seq(Packet) /\ Sorted(kept) /\ m_size - Dropped = Len(kept)
      /\ Len(kept) \in Nat
  BY CleanupKeeps
<1>2. sends \in Seq(Send) /\ m_maxSize \in Nat /\ gap \in 0..Period
      /\ Len(sends) <= 1
  BY DEF IInv, TypeOK, ChainInSlot
<1>3. Slot \in Nat /\ Period \in Nat
  BY SlotLengths
<1>4. sends[i].remaining \in 0..Slot /\ sends[i].left = 0
  <2>1. sends[i] \in Send
    BY <1>2
  <2>2. QED
    BY <2>1 DEF Send, SendPacketDown
<1>5. whole \in Nat /\ whole <= sends[i].remaining /\ whole \in 0..Slot
  <2>1. sends[i].remaining \in Nat /\ sends[i].remaining <= Slot
    BY <1>3, <1>4
  <2>2. whole \in Nat /\ whole <= sends[i].remaining
    BY <2>1, WholeMicroseconds
  <2> HIDE DEF whole
  <2>3. QED
    BY <1>3, <2>1, <2>2
<1>6. rest \in Seq(Packet) /\ Sorted(rest)
      /\ Len(rest) = m_size - Dropped - IF kept = <<>> THEN 0 ELSE 1
  <2> HIDE DEF kept
  <2>1. CASE kept = <<>>
    BY <1>1, <2>1 DEF Sorted
  <2>2. CASE kept # <<>>
    <3>1. Tail(kept) \in Seq(Packet) /\ Len(Tail(kept)) = Len(kept) - 1
      BY <1>1, <2>2
    <3>2. \A j \in DOMAIN Tail(kept) :
             j + 1 \in DOMAIN kept /\ Tail(kept)[j] = kept[j + 1]
      BY <1>1, <2>2
    <3>3. Sorted(Tail(kept))
      <4> SUFFICES ASSUME NEW j \in DOMAIN Tail(kept),
                          NEW k \in DOMAIN Tail(kept), j < k
                   PROVE  Tail(kept)[j].age >= Tail(kept)[k].age
        BY DEF Sorted
      <4>1. j \in Int /\ k \in Int /\ j + 1 < k + 1
        BY <1>1, <2>2, <3>1
      <4>2. kept[j + 1].age >= kept[k + 1].age
        BY <1>1, <3>2, <4>1 DEF Sorted
      <4>3. QED
        BY <3>2, <4>2
    <3>4. QED
      BY <1>1, <2>2, <3>1, <3>3
  <2>3. QED
    BY <2>1, <2>2
<1> HIDE DEF whole
<1>7. /\ t \in Seq(Send) /\ Len(t) <= 1
      /\ \A j \in DOMAIN t :
            /\ rest # <<>> /\ t[j].tx = rest[1].tx
            /\ t[j].left + t[j].remaining <= whole
  <2> HIDE DEF rest
  <2>1. QED
    BY <1>5, <1>6, StartSchedules
<1>8. m_queue' = rest /\ m_size' = Len(rest) /\ m_maxSize' = m_maxSize /\ gap' = gap
  BY <1>6 DEF SendPacketDown
<1>9. sends' = t
  <2> DEFINE others == RemoveAt(sends, i)
  <2>1. others \in Seq(Send) /\ Len(others) < 1
    BY <1>2, OthersEmpty
  <2> HIDE DEF others
  <2>2. AfterCleanup(others) \in Seq(Send) /\ Len(AfterCleanup(others)) < 1
    BY <2>1, AfterCleanupType
  <2>3. sends' = AfterCleanup(others) \o StartTransmission(m_queue', whole)
    BY DEF SendPacketDown, others, whole
  <2>4. sends' = AfterCleanup(others) \o t
    BY <1>8, <2>3
  <2> HIDE DEF t
  <2>5. QED
    BY <1>7, <2>2, <2>4, ConcatEmpty
<1> HIDE DEF rest, t
<1>10. TypeOK'
  <2>1. Len(rest) \in Nat
    BY <1>6
  <2>2. QED
    BY <1>2, <1>6, <1>7, <1>8, <1>9, <2>1 DEF TypeOK
<1>11. SizeIsLength' /\ OldestFirst'
  BY <1>6, <1>8 DEF SizeIsLength, OldestFirst, Sorted
<1>12. ChainInSlot'
  <2> SUFFICES ASSUME NEW j \in DOMAIN t
               PROVE  (Period - gap) + t[j].left + t[j].remaining <= Slot
    BY <1>7, <1>8, <1>9 DEF ChainInSlot
  <2>1. t[j] \in Send
    BY <1>7
  <2>2. t[j].left \in 0..Slot /\ t[j].remaining \in 0..Slot
    BY <2>1 DEF Send
  <2>3. (Period - gap) + 0 + sends[i].remaining <= Slot
    BY <1>4 DEF IInv, ChainInSlot
  <2>4. t[j].left + t[j].remaining <= sends[i].remaining
    BY <1>3, <1>4, <1>5, <1>7, <2>2
  <2>5. gap \in Int /\ sends[i].remaining \in Int
    BY <1>2, <1>3, <1>4
  <2>6. QED
    BY <1>3, <2>2, <2>3, <2>4, <2>5
<1>13. Peeked'
  BY <1>7, <1>8, <1>9 DEF Peeked
<1>14. QED
  BY <1>10, <1>11, <1>12, <1>13 DEF IInv

LEMMA TickInv ==
    ASSUME IInv, Tick
    PROVE  IInv'
<1> DEFINE older(p) == [p EXCEPT !.age = IF @ < MaxDelay THEN @ + 1 ELSE MaxDelay]
           nearer(e) == [e EXCEPT !.left = @ - 1]
<1>1. /\ m_queue \in Seq(Packet) /\ m_size = Len(m_queue) /\ m_size \in Nat
      /\ m_maxSize \in Nat /\ sends \in Seq(Send) /\ gap \in 0..Period
      /\ Len(sends) <= 1
  BY DEF IInv, TypeOK, SizeIsLength, ChainInSlot
<1>2. Slot \in Nat /\ Period \in Nat /\ Slot < Period /\ MaxDelay \in Nat
  BY SlotLengths, DelayAssumption
<1>3. /\ m_queue' = [i \in DOMAIN m_queue |-> older(m_queue[i])]
      /\ sends' = [i \in DOMAIN sends |-> nearer(sends[i])]
      /\ m_size' = m_size /\ m_maxSize' = m_maxSize
      /\ gap' = IF gap > 0 THEN gap - 1 ELSE 0
  BY DEF Tick
<1>4. ASSUME NEW p \in Packet
      PROVE  /\ older(p) \in Packet /\ older(p).tx = p.tx
             /\ older(p).age = IF p.age < MaxDelay THEN p.age + 1 ELSE MaxDelay
  <2>1. p.age \in 0..MaxDelay
    BY DEF Packet
  <2>2. (IF p.age < MaxDelay THEN p.age + 1 ELSE MaxDelay) \in 0..MaxDelay
    BY <1>2, <2>1
  <2>3. QED
    BY <2>2 DEF Packet
<1>5. ASSUME NEW i \in DOMAIN sends
      PROVE  /\ nearer(sends[i]) \in Send
             /\ nearer(sends[i]).left = sends[i].left - 1
             /\ nearer(sends[i]).remaining = sends[i].remaining
             /\ nearer(sends[i]).tx = sends[i].tx
             /\ nearer(sends[i]).intact = sends[i].intact
  <2>1. sends[i] \in Send /\ sends[i].left > 0
    BY <1>1 DEF Tick
  <2>2. sends[i].left - 1 \in 0..Slot
    <3>1. sends[i].left \in 0..Slot
      BY <2>1 DEF Send
    <3>2. QED
      BY <1>2, <2>1, <3>1
  <2>3. QED
    BY <2>1, <2>2 DEF Send
<1> HIDE DEF older, nearer
<1>6. /\ m_queue' \in Seq(Packet) /\ Len(m_queue') = Len(m_queue)
      /\ DOMAIN m_queue' = DOMAIN m_queue
      /\ \A i \in DOMAIN m_queue : m_queue[i] \in Packet
                                  /\ m_queue'[i] = older(m_queue[i])
  BY <1>1, <1>3, <1>4
<1>7. /\ sends' \in Seq(Send) /\ Len(sends') = Len(sends)
      /\ DOMAIN sends' = DOMAIN sends
      /\ \A i \in DOMAIN sends : sends'[i] = nearer(sends[i])
  BY <1>1, <1>3, <1>5
<1>8. gap' \in 0..Period
  BY <1>1, <1>2, <1>3
<1>9. TypeOK'
  BY <1>1, <1>3, <1>6, <1>7, <1>8 DEF TypeOK
<1>10. SizeIsLength'
  BY <1>1, <1>3, <1>6 DEF SizeIsLength
<1>11. OldestFirst'
  <2> SUFFICES ASSUME NEW i \in DOMAIN m_queue, NEW j \in DOMAIN m_queue, i < j
               PROVE  older(m_queue[i]).age >= older(m_queue[j]).age
    BY <1>6 DEF OldestFirst
  <2>1. m_queue[i].age >= m_queue[j].age
    BY DEF IInv, OldestFirst
  <2>2. m_queue[i].age \in 0..MaxDelay /\ m_queue[j].age \in 0..MaxDelay
    BY <1>6 DEF Packet
  <2>3. QED
    BY <1>2, <1>4, <1>6, <2>1, <2>2
<1>12. ChainInSlot'
  <2> SUFFICES ASSUME NEW i \in DOMAIN sends
               PROVE  (Period - gap') + sends'[i].left + sends'[i].remaining <= Slot
    BY <1>1, <1>7 DEF ChainInSlot
  <2>1. (Period - gap) + sends[i].left + sends[i].remaining <= Slot
    BY DEF IInv, ChainInSlot
  <2>2. sends[i].left \in 0..Slot /\ sends[i].remaining \in 0..Slot
    <3>1. sends[i] \in Send
      BY <1>1
    <3>2. QED
      BY <3>1 DEF Send
  <2>3. gap > 0 /\ gap \in Int
    BY <1>1, <1>2, <2>1, <2>2
  <2>4. gap' = gap - 1
    BY <1>3, <2>3
  <2>5. sends'[i].left = sends[i].left - 1
        /\ sends'[i].remaining = sends[i].remaining
    BY <1>5, <1>7
  <2>6. QED
    BY <1>2, <2>1, <2>2, <2>3, <2>4, <2>5
<1>13. Peeked'
  <2> SUFFICES ASSUME NEW i \in DOMAIN sends, sends'[i].intact
               PROVE  m_queue' # <<>> /\ m_queue'[1].tx = sends'[i].tx
    BY <1>7 DEF Peeked
  <2>1. sends[i].intact /\ sends'[i].tx = sends[i].tx
    BY <1>5, <1>7
  <2>2. m_queue # <<>> /\ m_queue[1].tx = sends[i].tx
    BY <2>1 DEF IInv, Peeked
  <2>3. 1 \in DOMAIN m_queue /\ m_queue[1] \in Packet
    BY <1>1, <2>2
  <2>4. m_queue'[1].tx = m_queue[1].tx /\ m_queue' # <<>>
    BY <1>4, <1>6, <2>3
  <2>5. QED
    BY <2>1, <2>2, <2>4
<1>14. QED
  BY <1>9, <1>10, <1>11, <1>12, <1>13 DEF IInv

LEMMA StutterInv ==
    ASSUME IInv, UNCHANGED vars
    PROVE  IInv'
  BY DEF IInv, TypeOK, SizeIsLength, OldestFirst, ChainInSlot, Peeked, vars

LEMMA NextInv ==
    ASSUME IInv, [Next]_vars
    PROVE  IInv'
<1>1. CASE Arrive
  <2>1. PICK p : p \in Packet /\ p.age = 0 /\ Queue(p)
    <3>1. PICK tx \in TxTimes, marked \in BOOLEAN :
              Queue([tx |-> tx, age |-> 0, marked |-> marked])
      BY <1>1 DEF Arrive
    <3>2. 0 \in 0..MaxDelay
      BY DelayAssumption
    <3>3. [tx |-> tx, age |-> 0, marked |-> marked] \in Packet
      BY <3>2 DEF Packet
    <3>4. QED
      BY <3>1, <3>3
  <2>2. QED
    BY <2>1, QueueInv
<1>2. CASE BeginSlot
  BY <1>2, BeginSlotInv
<1>3. CASE Tick
  BY <1>3, TickInv
<1>4. ASSUME NEW i \in DOMAIN sends, SendPacketDown(i)
      PROVE  IInv'
  BY <1>4, SendInv
<1>5. ASSUME NEW size \in NewSizes, SetQueueSize(size)
      PROVE  IInv'
  <2>1. size \in Nat
    BY SizeAssumption
  <2>2. /\ m_queue' = m_queue /\ m_size' = m_size /\ sends' = sends /\ gap' = gap
        /\ m_maxSize' = size
    BY <1>5 DEF SetQueueSize
  <2>3. QED
    BY <2>1, <2>2 DEF IInv, TypeOK, SizeIsLength, OldestFirst, ChainInSlot, Peeked
<1>6. CASE UNCHANGED vars
  BY <1>6, StutterInv
<1>7. QED
  BY <1>1, <1>2, <1>3, <1>4, <1>5, <1>6 DEF Next, Simulate

LEMMA Invariance == Spec => []IInv
<1>1. Init => IInv
  BY InitInv
<1>2. IInv /\ [Next]_vars => IInv'
  BY NextInv
<1>3. QED
  BY <1>1, <1>2, PTL DEF Spec

-----------------------------------------------------------------------------
(* Theorems.                                                               *)

(* Type correctness: in particular the queue's count never falls below 0,  *)
(* and what is scheduled lies within one slot.                             *)
THEOREM TypeCorrect == Spec => []TypeOK
<1>1. IInv => TypeOK
  BY DEF IInv
<1>2. QED
  BY <1>1, Invariance, PTL

(* The count that Enqueue compares with the limit is the queue's length.   *)
THEOREM CountIsLength == Spec => []SizeIsLength
<1>1. IInv => SizeIsLength
  BY DEF IInv
<1>2. QED
  BY <1>1, Invariance, PTL

(* No packet overtakes an older one.                                       *)
THEOREM QueueInOrder == Spec => []OldestFirst
<1>1. IInv => OldestFirst
  BY DEF IInv
<1>2. QED
  BY <1>1, Invariance, PTL

(* The transmissions of a device, one at a time, end within its slot.      *)
THEOREM TransmissionsInSlot == Spec => []ChainInSlot
<1>1. IInv => ChainInSlot
  BY DEF IInv
<1>2. QED
  BY <1>1, Invariance, PTL

(* As long as nothing has expired, the packet handed down is the one that  *)
(* StartTransmission peeked at.                                            *)
THEOREM PeekedPacketIsSent == Spec => PacketHasItsTime
<1>1. IInv /\ [Next]_vars
        => [\A i \in DOMAIN sends :
              SendPacketDown(i) /\ sends[i].intact /\ Dropped = 0 =>
                /\ m_queue # <<>> /\ Head(m_queue).tx = sends[i].tx
                /\ m_queue' = Tail(m_queue)]_vars
  <2> SUFFICES ASSUME IInv, NEW i \in DOMAIN sends, SendPacketDown(i),
                      sends[i].intact, Dropped = 0
               PROVE  /\ m_queue # <<>> /\ Head(m_queue).tx = sends[i].tx
                      /\ m_queue' = Tail(m_queue)
    OBVIOUS
  <2>1. m_queue # <<>> /\ m_queue[1].tx = sends[i].tx
    BY DEF IInv, Peeked
  <2>2. Kept(m_queue) = m_queue
    BY CleanupKeeps
  <2>3. m_queue' = Tail(m_queue)
    BY <2>1, <2>2 DEF SendPacketDown
  <2>4. m_queue \in Seq(Packet)
    BY DEF IInv, TypeOK
  <2>5. Head(m_queue) = m_queue[1]
    BY <2>1, <2>4
  <2>6. QED
    BY <2>1, <2>3, <2>5
<1>2. QED
  BY <1>1, Invariance, PTL DEF Spec, PacketHasItsTime

(* The queue is bounded when its limit is never lowered: Largest is what   *)
(* SetQueueSize sets it to, and no less than what it was at the start.     *)
THEOREM QueueIsBounded ==
    ASSUME NEW Largest \in Nat, MaxPacketNumber <= Largest,
           Largest \in NewSizes \cup {MaxPacketNumber},
           \A size \in NewSizes : size = Largest
    PROVE  Spec => []Bounded
<1> DEFINE Limited == m_maxSize \in Nat /\ m_maxSize <= Largest
                     /\ Len(m_queue) <= m_maxSize
<1>1. Init => Limited
  BY SizeAssumption DEF Init
<1>2. ASSUME IInv, Limited, [Next]_vars
      PROVE  Limited'
  <2>1. /\ m_queue \in Seq(Packet) /\ m_size = Len(m_queue) /\ Len(m_queue) \in Nat
        /\ Kept(m_queue) \in Seq(Packet) /\ m_size - Dropped = Len(Kept(m_queue))
        /\ Len(Kept(m_queue)) \in Nat /\ Len(Kept(m_queue)) <= Len(m_queue)
    BY <1>2, CleanupKeeps DEF IInv, TypeOK, SizeIsLength
  <2>2. ASSUME NEW p, Queue(p)
        PROVE  Limited'
    <3>1. m_maxSize' = m_maxSize
      BY <2>2 DEF Queue
    <3>2. CASE m_queue' = Kept(m_queue)
      BY <1>2, <2>1, <3>1, <3>2
    <3>3. CASE m_queue' = Append(Kept(m_queue), p) /\ m_size - Dropped # m_maxSize
      <4>1. Len(m_queue') = Len(Kept(m_queue)) + 1
        BY <2>1, <3>3
      <4>2. Len(Kept(m_queue)) < m_maxSize
        BY <1>2, <2>1, <3>3
      <4>3. QED
        BY <1>2, <2>1, <3>1, <4>1, <4>2
    <3>4. QED
      BY <2>2, <3>2, <3>3 DEF Queue
  <2>3. CASE BeginSlot
    BY <1>2, <2>1, <2>3 DEF BeginSlot
  <2>4. ASSUME NEW i \in DOMAIN sends, SendPacketDown(i)
        PROVE  Limited'
    <3>1. m_maxSize' = m_maxSize
      BY <2>4 DEF SendPacketDown
    <3>2. CASE Kept(m_queue) = <<>>
      <4>1. m_queue' = Kept(m_queue)
        BY <2>4, <3>2 DEF SendPacketDown
      <4>2. QED
        BY <1>2, <2>1, <3>1, <4>1
    <3>3. CASE Kept(m_queue) # <<>>
      <4>1. m_queue' = Tail(Kept(m_queue))
        BY <2>4, <3>3 DEF SendPacketDown
      <4>2. Len(m_queue') = Len(Kept(m_queue)) - 1
        BY <2>1, <3>3, <4>1
      <4>3. QED
        BY <1>2, <2>1, <3>1, <4>2
    <3>4. QED
      BY <3>2, <3>3
  <2>5. ASSUME NEW size \in NewSizes, SetQueueSize(size)
        PROVE  Limited'
    BY <1>2, <2>1, <2>5 DEF SetQueueSize
  <2>6. CASE Tick
    <3>1. DOMAIN m_queue' = DOMAIN m_queue /\ m_maxSize' = m_maxSize
      BY <2>6 DEF Tick
    <3>2. m_queue' \in Seq(Packet)
      BY <1>2, NextInv DEF IInv, TypeOK
    <3>3. Len(m_queue') = Len(m_queue)
      BY <2>1, <3>1, <3>2
    <3>4. QED
      BY <1>2, <3>1, <3>3
  <2>7. CASE UNCHANGED vars
    BY <1>2, <2>7 DEF vars
  <2>8. QED
    BY <1>2, <2>2, <2>3, <2>4, <2>5, <2>6, <2>7 DEF Next, Simulate, Arrive
<1>3. ASSUME IInv, Limited
      PROVE  Bounded
  <2>1. Len(m_queue) \in Nat
    BY <1>3 DEF IInv, TypeOK
  <2>2. Len(m_queue) <= Largest
    BY <1>3, <2>1
  <2>3. QED
    BY <2>2 DEF Bounded
<1> HIDE DEF Limited
<1>4. QED
  BY <1>1, <1>2, <1>3, Invariance, PTL DEF Spec

(* The queue is in order and within its limit, and knows it.               *)
THEOREM QueueIsSound ==
    ASSUME NEW Largest \in Nat, MaxPacketNumber <= Largest,
           Largest \in NewSizes \cup {MaxPacketNumber},
           \A size \in NewSizes : size = Largest
    PROVE  Spec => []QueueSound
<1>1. Spec => []Bounded
  BY QueueIsBounded
<1>2. QED
  BY <1>1, TypeCorrect, CountIsLength, QueueInOrder, PTL DEF QueueSound
=============================================================================
