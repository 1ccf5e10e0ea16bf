---------------------------- MODULE LiFiUserProofs ----------------------------
(***************************************************************************)
(* Theorems of the modules around a user (MCLiFiUser), for all places,     *)
(* users, packets, networks and routes: each component keeps an inductive  *)
(* invariant of its own, and since they share no state, the behaviours in  *)
(* which they are looked at one by one keep them all.                      *)
(***************************************************************************)
EXTENDS MCLiFiUser, LiFiTxMacProofs

-----------------------------------------------------------------------------
(* The walk.                                                               *)

(* A step of a walk, under way: where it is follows from how far it has    *)
(* come; as long as no other walk has begun, elapsedTime is its duration.  *)
UnderWay(e) ==
    /\ e \in [kind : {"BeginWalk"}, from : Place, point : Int, to : Place,
              currMove : Nat, own : Int, alone : BOOLEAN]
    /\ e.point = e.from + Direction(e.from, e.to) * e.currMove
    /\ e.own = Distance(e.from, e.to)
    /\ e.alone => e.own = elapsedTime /\ e.currMove <= e.own + m_coherenceTime

Scheduled(e) == e = Initializing \/ e = Initiating \/ UnderWay(e)

(* At most one event is unknown to m_event, and none before DoInitialize.  *)
WalkInv ==
    /\ \/ strays = <<>>
       \/ initialized /\ \E e : strays = <<e>> /\ Scheduled(e)
    /\ Scheduled(m_event)
    /\ m_event.kind = "BeginWalk" /\ m_event.currMove > 0 =>
          m_RWPDataVector = <<m_event.from, m_event.to>>

LEMMA Distances ==
    ASSUME NEW x \in Int, NEW y \in Int
    PROVE  /\ Distance(x, y) \in Nat
           /\ Direction(x, y) \in {-1, 1}
           /\ y = x + Direction(x, y) * Distance(x, y)
<1>1. CASE x <= y
  BY <1>1 DEF Distance, Direction
<1>2. CASE y < x
  <2>1. ~ (x <= y)
    BY <1>2
  <2>2. QED
    BY <1>2, <2>1 DEF Distance, Direction
<1>3. QED
  BY <1>1, <1>2

(* How far a step is from the destination.                                 *)
LEMMA WayLeft ==
    ASSUME NEW e, UnderWay(e)
    PROVE  /\ e.kind = "BeginWalk" /\ e.own \in Nat /\ e.currMove \in Nat
           /\ e.currMove <= e.own =>
                 Distance(e.point, e.to) = e.own - e.currMove
           /\ e.own < e.currMove =>
                 Distance(e.point, e.to) = e.currMove - e.own
<1>1. /\ e.kind = "BeginWalk" /\ e.currMove \in Nat /\ e.from \in Int
      /\ e.to \in Int /\ e.point \in Int
  BY PlaceAssumption DEF UnderWay
<1>2. PICK s \in {-1, 1} : s = Direction(e.from, e.to)
  BY DEF Direction
<1>3. e.own \in Nat /\ e.to = e.from + s * e.own
  BY <1>1, <1>2, Distances DEF UnderWay
<1>4. e.point = e.from + s * e.currMove
  BY <1>2 DEF UnderWay
<1>5. CASE s = 1
  BY <1>1, <1>3, <1>4, <1>5 DEF Distance
<1>6. CASE s = -1
  BY <1>1, <1>3, <1>4, <1>6 DEF Distance
<1>7. QED
  BY <1>1, <1>2, <1>3, <1>5, <1>6

(* NextEvent makes a further step of the same walk, or ends it.            *)
LEMMA NextIsUnderWay ==
    ASSUME NEW e, UnderWay(e)
    PROVE  \/ NextEvent(e) = Initiating
           \/ /\ UnderWay(NextEvent(e))
              /\ NextEvent(e).from = e.from /\ NextEvent(e).to = e.to
<1>1. CASE e.currMove <= elapsedTime
  <2> DEFINE s == Direction(e.from, e.to)
             n == [e EXCEPT !.point = @ + s * m_coherenceTime,
                            !.currMove = @ + m_coherenceTime]
  <2>1. /\ e \in [kind : {"BeginWalk"}, from : Place, point : Int, to : Place,
                  currMove : Nat, own : Int, alone : BOOLEAN]
        /\ e.point = e.from + s * e.currMove
        /\ e.own = Distance(e.from, e.to)
        /\ e.alone => e.own = elapsedTime
    BY DEF UnderWay
  <2>2. s \in {-1, 1}
    BY DEF Direction
  <2>3. m_coherenceTime \in Nat /\ e.from \in Int
    BY <2>1, WalkBounds, PlaceAssumption
  <2>4. NextEvent(e) = n
    BY <1>1 DEF NextEvent
  <2>5. /\ n.kind = "BeginWalk" /\ n.from = e.from /\ n.to = e.to
        /\ n.own = e.own /\ n.alone = e.alone
        /\ n.point = e.point + s * m_coherenceTime
        /\ n.currMove = e.currMove + m_coherenceTime
    BY <2>1
  <2> HIDE DEF s
  <2>6. n.point = n.from + s * n.currMove /\ n.point \in Int
    <3>1. CASE s = 1
      BY <2>1, <2>3, <2>5, <3>1
    <3>2. CASE s = -1
      BY <2>1, <2>3, <2>5, <3>2
    <3>3. QED
      BY <2>2, <3>1, <3>2
  <2>7. n \in [kind : {"BeginWalk"}, from : Place, point : Int, to : Place,
               currMove : Nat, own : Int, alone : BOOLEAN]
    <3>1. e.point + s * m_coherenceTime \in Int
      BY <2>5, <2>6
    <3>2. e.currMove + m_coherenceTime \in Nat
      BY <2>1, <2>3
    <3>3. QED
      BY <2>1, <3>1, <3>2
  <2>8. n.alone => n.own = elapsedTime /\ n.currMove <= n.own + m_coherenceTime
    BY <1>1, <2>1, <2>3, <2>5
  <2> HIDE DEF n
  <2>9. UnderWay(n)
    BY <2>1, <2>5, <2>6, <2>7, <2>8 DEF UnderWay, s
  <2>10. QED
    BY <2>4, <2>5, <2>9
<1>2. CASE ~ (e.currMove <= elapsedTime)
  BY <1>2 DEF NextEvent
<1>3. QED
  BY <1>1, <1>2

(* What is not alone does not depend on elapsedTime.                       *)
LEMMA NotAloneStays ==
    ASSUME NEW e, Scheduled(e)
    PROVE  Scheduled(NotAlone(e))'
<1>1. CASE e = Initializing \/ e = Initiating
  BY <1>1 DEF NotAlone, Scheduled, Initializing, Initiating
<1>2. CASE UnderWay(e)
  <2> DEFINE n == [e EXCEPT !.alone = FALSE]
  <2>1. e \in [kind : {"BeginWalk"}, from : Place, point : Int, to : Place,
               currMove : Nat, own : Int, alone : BOOLEAN]
    BY <1>2 DEF UnderWay
  <2>2. NotAlone(e) = n
    BY <2>1 DEF NotAlone
  <2>3. /\ n \in [kind : {"BeginWalk"}, from : Place, point : Int, to : Place,
                  currMove : Nat, own : Int, alone : BOOLEAN]
        /\ n.from = e.from /\ n.to = e.to /\ n.point = e.point
        /\ n.currMove = e.currMove /\ n.own = e.own /\ ~ n.alone
    BY <2>1
  <2> HIDE DEF n
  <2>4. UnderWay(n)'
    BY <1>2, <2>3 DEF UnderWay
  <2>5. QED
    BY <2>2, <2>4 DEF Scheduled
<1>3. QED
  BY <1>1, <1>2 DEF Scheduled

LEMMA ScheduledStays ==
    ASSUME NEW e, Scheduled(e), elapsedTime' = elapsedTime
    PROVE  Scheduled(e)'
  BY DEF Scheduled, UnderWay

(* The unknown events while there is at most one.                          *)
LEMMA OneStray ==
    ASSUME strays = <<>> \/ \E e : strays = <<e>>,
           NEW i \in 0..Len(strays)
    PROVE  \/ i = 0 /\ Event(i) = m_event /\ Forgotten(i) = strays
                    /\ Cancelled(i) = strays
           \/ i = 1 /\ strays = <<Event(1)>> /\ Forgotten(i) = <<m_event>>
                    /\ Cancelled(i) = <<>>
<1>1. CASE i = 0
  BY <1>1 DEF Event, Forgotten, Cancelled
<1>2. CASE i # 0
  <2>1. PICK e : strays = <<e>>
    BY <1>2
  <2>2. Len(strays) = 1 /\ i = 1 /\ strays[1] = e
    BY <1>2, <2>1
  <2>3. SubSeq(strays, 1, i - 1) \o SubSeq(strays, i + 1, Len(strays)) = <<>>
    BY <2>1, <2>2
  <2>4. Cancelled(i) = <<>>
    BY <1>2, <2>3, Zenon DEF Cancelled
  <2>5. Forgotten(i) = Append(<<>>, m_event)
    BY <1>2, <2>3, Zenon DEF Forgotten
  <2>6. Forgotten(i) = <<m_event>>
    BY <2>5
  <2>7. Event(1) = strays[1]
    BY DEF Event
  <2>8. QED
    BY <2>1, <2>2, <2>4, <2>6, <2>7, Zenon
<1>3. QED
  BY <1>1, <1>2

LEMMA WalkInitInv == WalkInit => WalkInv
  BY DEF WalkInit, WalkInv, Scheduled, Initializing

LEMMA RunInv ==
    ASSUME WalkInv, NEW i \in 0..Len(strays), Run(i)
    PROVE  WalkInv'
<1>1. strays = <<>> \/ \E e : strays = <<e>> /\ Scheduled(e)
  BY DEF WalkInv
<1>2. Scheduled(m_event) /\ initialized
  BY DEF WalkInv, Run
<1>3. PICK e : e = Event(i)
  OBVIOUS
<1>4. /\ Scheduled(e)
      /\ \/ i = 0 /\ e = m_event /\ Forgotten(i) = strays
                  /\ Cancelled(i) = strays
         \/ i = 1 /\ strays = <<e>> /\ Forgotten(i) = <<m_event>>
                  /\ Cancelled(i) = <<>>
  BY <1>1, <1>2, <1>3, OneStray
<1>5. Forgotten(i) = <<>> \/ \E x : Forgotten(i) = <<x>> /\ Scheduled(x)
  BY <1>1, <1>2, <1>4
<1>6. Cancelled(i) = <<>> \/ \E x : Cancelled(i) = <<x>> /\ Scheduled(x)
  BY <1>1, <1>4
<1>7. CASE DoInitializePrivate(i)
  <2>1. /\ strays' = Forgotten(i) /\ m_event' = Initiating
        /\ initialized' = initialized /\ elapsedTime' = elapsedTime
    BY <1>7 DEF DoInitializePrivate
  <2>2. strays' = <<>> \/ \E x : strays' = <<x>> /\ Scheduled(x)'
    BY <1>5, <2>1, ScheduledStays
  <2>3. QED
    BY <1>2, <2>1, <2>2 DEF WalkInv, Scheduled, Initiating
<1>8. CASE \E from \in Place, to \in Place : InitiateWalk(i, from, to)
  <2>1. PICK from \in Place, to \in Place : InitiateWalk(i, from, to)
    BY <1>8
  <2>2. PICK left : left = Forgotten(i)
    OBVIOUS
  <2>3. /\ strays' = [k \in DOMAIN left |-> NotAlone(left[k])]
        /\ elapsedTime' = Distance(from, to)
        /\ m_event' = Beginning(from, from, to, 0, Distance(from, to), TRUE)
        /\ initialized' = initialized
    BY <2>1, <2>2 DEF InitiateWalk
  <2>4. strays' = <<>> \/ \E x : strays' = <<x>> /\ Scheduled(x)'
    <3>1. CASE left = <<>>
      BY <2>3, <3>1
    <3>2. CASE \E x : left = <<x>> /\ Scheduled(x)
      <4>1. PICK x : left = <<x>> /\ Scheduled(x)
        BY <3>2
      <4>2. PICK y : y = NotAlone(x)
        OBVIOUS
      <4>3. Scheduled(y)'
        BY <4>1, <4>2, NotAloneStays
      <4>4. strays' = <<y>>
        BY <2>3, <4>1, <4>2
      <4>5. QED
        BY <4>3, <4>4
    <3>3. QED
      BY <1>5, <2>2, <3>1, <3>2
  <2>5. PICK b : b = Beginning(from, from, to, 0, Distance(from, to), TRUE)
    OBVIOUS
  <2>6. from \in Int /\ to \in Int /\ m_coherenceTime \in Nat
    BY PlaceAssumption, WalkBounds
  <2>7. Distance(from, to) \in Nat /\ Direction(from, to) \in {-1, 1}
    BY <2>6, Distances
  <2>8. UnderWay(b)'
    BY <2>3, <2>5, <2>6, <2>7 DEF UnderWay, Beginning
  <2>9. ~ (b.currMove > 0)
    BY <2>5 DEF Beginning
  <2>10. QED
    BY <1>2, <2>3, <2>4, <2>5, <2>8, <2>9 DEF WalkInv, Scheduled
<1>9. CASE BeginWalk(i)
  <2>1. /\ e.kind = "BeginWalk" /\ strays' = Cancelled(i)
        /\ m_event' = NextEvent(e) /\ m_RWPDataVector' = <<e.from, e.to>>
        /\ initialized' = initialized /\ elapsedTime' = elapsedTime
    BY <1>3, <1>9 DEF BeginWalk
  <2>2. strays' = <<>> \/ \E x : strays' = <<x>> /\ Scheduled(x)'
    BY <1>6, <2>1, ScheduledStays
  <2>3. UnderWay(e)
    BY <1>4, <2>1 DEF Scheduled, Initializing, Initiating
  <2>4. PICK n : n = NextEvent(e)
    OBVIOUS
  <2>5. n = Initiating \/ (UnderWay(n) /\ n.from = e.from /\ n.to = e.to)
    BY <2>3, <2>4, NextIsUnderWay
  <2>6. Scheduled(n)'
    BY <2>1, <2>5, ScheduledStays DEF Scheduled
  <2>7. n.kind = "BeginWalk" => n.from = e.from /\ n.to = e.to
    BY <2>5 DEF Initiating
  <2>8. QED
    BY <1>2, <2>1, <2>2, <2>4, <2>6, <2>7 DEF WalkInv
<1>10. QED
  BY <1>7, <1>8, <1>9 DEF Run

LEMMA WalkNextInv ==
    ASSUME WalkInv, [WalkNext]_walkVars
    PROVE  WalkInv'
<1>1. CASE DoInitialize
  <2>1. /\ strays = <<>> /\ strays' = Append(strays, m_event) /\ initialized'
        /\ m_event' = Initiating /\ elapsedTime' = elapsedTime
    BY <1>1 DEF WalkInv, DoInitialize
  <2>2. PICK e : e = m_event /\ Scheduled(e)
    BY DEF WalkInv
  <2>3. strays' = <<e>> /\ Scheduled(e)'
    BY <2>1, <2>2, ScheduledStays
  <2>4. QED
    BY <2>1, <2>3 DEF WalkInv, Scheduled, Initiating
<1>2. CASE DoSetPosition
  <2>1. /\ strays' = strays /\ initialized' = initialized
        /\ m_event' = Initializing /\ elapsedTime' = elapsedTime
    BY <1>2 DEF DoSetPosition
  <2>2. QED
    BY <2>1, ScheduledStays DEF WalkInv, Scheduled, Initializing
<1>3. CASE \E i \in 0..Len(strays) : Run(i)
  BY <1>3, RunInv
<1>4. CASE UNCHANGED walkVars
  <2>1. UNCHANGED <<strays, initialized, m_event, elapsedTime, m_RWPDataVector>>
    BY <1>4 DEF walkVars
  <2>2. QED
    BY <2>1 DEF WalkInv, Scheduled, UnderWay
<1>5. QED
  BY <1>1, <1>2, <1>3, <1>4 DEF WalkNext

LEMMA WalkInvReaches == WalkInv => WalkReaches
<1> SUFFICES ASSUME WalkInv PROVE WalkReaches
  OBVIOUS
<1>1. Len(strays) <= 1
  <2>1. CASE strays = <<>>
    BY <2>1
  <2>2. CASE \E e : strays = <<e>>
    <3>1. PICK e : strays = <<e>>
      BY <2>2
    <3>2. Len(strays) = 1
      BY <3>1
    <3>3. QED
      BY <3>2
  <2>3. QED
    BY <2>1, <2>2 DEF WalkInv
<1>2. ASSUME m_event.kind = "BeginWalk", m_event.alone
      PROVE  /\ m_event.own = elapsedTime
             /\ m_event.currMove <= m_event.own + m_coherenceTime
             /\ Distance(m_event.point, m_event.to) <=
                  (IF m_event.currMove > m_event.own THEN m_coherenceTime
                   ELSE m_event.own)
  <2>1. UnderWay(m_event)
    BY <1>2 DEF WalkInv, Scheduled, Initializing, Initiating
  <2>2. /\ m_event.own = elapsedTime
        /\ m_event.currMove <= m_event.own + m_coherenceTime
    BY <1>2, <2>1 DEF UnderWay
  <2>3. m_coherenceTime \in Nat
    BY WalkBounds
  <2>4. QED
    BY <2>1, <2>2, <2>3, WayLeft
<1>3. QED
  BY <1>1, <1>2 DEF WalkInv, WalkReaches

(* A walk during which no other begins ends within a step of its           *)
(* destination, and what GetMobilityData tells is the walk under way.      *)
THEOREM WalksReachTheirEnd == WalkSpec => []WalkReaches
<1>1. WalkInv /\ [WalkNext]_walkVars => WalkInv'
  BY WalkNextInv
<1>2. QED
  BY WalkInitInv, <1>1, WalkInvReaches, PTL DEF WalkSpec

-----------------------------------------------------------------------------
(* The application.                                                        *)

Limit    == IF m_nPackets > 0 THEN m_nPackets ELSE 1
Restarts == IF starts > 0 THEN starts - 1 ELSE 0

(* A scheduled packet that the application knows is counted as one more;   *)
(* it knows none before the first start, and none while it is stopped.     *)
SendingInv ==
    /\ m_packetsSent \in Nat /\ lostEvents \in Nat /\ starts \in Nat
    /\ sentPackets \in Nat /\ transmissionTimes \in Nat
    /\ m_running \in BOOLEAN /\ m_sendEvent \in BOOLEAN
    /\ starts = 0 => ~ m_sendEvent /\ lostEvents = 0 /\ m_packetsSent = 0
    /\ ~ m_running => ~ m_sendEvent
    /\ lostEvents <= Restarts
    /\ m_packetsSent + lostEvents <= Limit + Restarts
    /\ m_sendEvent => m_packetsSent + lostEvents + 1 <= Limit + Restarts
    /\ transmissionTimes = sentPackets + starts

LEMMA LimitType ==
    ASSUME SendingInv
    PROVE  /\ m_nPackets \in Nat /\ Limit \in Nat /\ Limit >= 1
           /\ Limit >= m_nPackets /\ Limit' = Limit /\ Restarts \in Nat
  BY ApplicationBounds DEF Limit, Restarts, SendingInv

LEMMA SendingInitInv == ApplicationInit => SendingInv
<1> SUFFICES ASSUME ApplicationInit PROVE SendingInv
  OBVIOUS
<1>1. Restarts = 0 /\ Limit \in Nat
  BY ApplicationBounds DEF ApplicationInit, Restarts, Limit
<1>2. /\ m_packetsSent = 0 /\ lostEvents = 0 /\ starts = 0 /\ sentPackets = 0
      /\ transmissionTimes = 0 /\ m_running = FALSE /\ m_sendEvent = FALSE
  BY DEF ApplicationInit
<1>3. 0 <= Restarts /\ 0 + 0 <= Limit + Restarts /\ 0 = 0 + 0
  BY <1>1
<1>4. QED
  BY <1>2, <1>3 DEF SendingInv

LEMMA StartInv ==
    ASSUME SendingInv, StartApplication
    PROVE  SendingInv'
<1>1. /\ m_nPackets \in Nat /\ Limit \in Nat /\ Limit >= 1
      /\ Limit >= m_nPackets /\ Limit' = Limit
  BY LimitType
<1>2. starts' = starts + 1 /\ starts \in Nat /\ Restarts' = starts
  BY DEF SendingInv, StartApplication, Restarts
<1>3. m_running' = TRUE /\ m_packetsSent' = 1
  BY DEF StartApplication, SendPacket
<1>4. PICK sent \in {0, 1} : /\ sentPackets' = sentPackets + sent
                             /\ transmissionTimes' = (transmissionTimes + 1) + sent
  BY DEF StartApplication, SendPacket
<1>5. /\ sentPackets' \in Nat /\ transmissionTimes' \in Nat
      /\ transmissionTimes' = sentPackets' + starts'
  BY <1>2, <1>4 DEF SendingInv
<1>6. /\ m_sendEvent \in BOOLEAN /\ lostEvents \in Nat
      /\ m_sendEvent = TRUE => lostEvents + 1 <= starts
      /\ lostEvents <= starts
  BY <1>2 DEF SendingInv, Restarts
<1>7. CASE 1 < m_nPackets /\ m_sendEvent = TRUE
           /\ ScheduleTx(m_sendEvent, lostEvents)
  <2>1. m_sendEvent' = TRUE /\ lostEvents' = lostEvents + 1
    BY <1>7 DEF ScheduleTx
  <2>2. /\ lostEvents' \in Nat /\ lostEvents' <= starts
        /\ 1 + lostEvents' + 1 <= Limit + starts
    BY <1>1, <1>2, <1>6, <1>7, <2>1
  <2>3. 1 + lostEvents' <= Limit + starts
    <3>1. 1 + (lostEvents + 1) + 1 <= Limit + starts
      BY <2>1, <2>2
    <3>2. 1 + (lostEvents + 1) <= Limit + starts
      BY <1>1, <1>2, <1>6, <3>1
    <3>3. QED
      BY <2>1, <3>2
  <2>4. starts' # 0 /\ starts' \in Nat
    BY <1>2
  <2>5. QED
    BY <1>1, <1>2, <1>3, <1>5, <2>1, <2>2, <2>3, <2>4 DEF SendingInv
<1>8. CASE 1 < m_nPackets /\ m_sendEvent = FALSE
           /\ ScheduleTx(m_sendEvent, lostEvents)
  <2>1. m_sendEvent' = TRUE /\ lostEvents' = lostEvents
    BY <1>6, <1>8 DEF ScheduleTx
  <2>2. 1 + lostEvents' <= Limit + starts /\ 1 + lostEvents' + 1 <= Limit + starts
    BY <1>1, <1>2, <1>6, <1>8, <2>1
  <2>3. starts' # 0 /\ starts' \in Nat
    BY <1>2
  <2>4. QED
    BY <1>1, <1>2, <1>3, <1>5, <1>6, <2>1, <2>2, <2>3 DEF SendingInv
<1>9. CASE m_sendEvent' = m_sendEvent /\ lostEvents' = lostEvents
  <2>1. /\ 1 + lostEvents <= Limit + starts
        /\ m_sendEvent = TRUE => 1 + lostEvents + 1 <= Limit + starts
    BY <1>1, <1>2, <1>6
  <2>2. starts' # 0 /\ starts' \in Nat
    BY <1>2
  <2>3. QED
    BY <1>1, <1>2, <1>3, <1>5, <1>6, <1>9, <2>1, <2>2 DEF SendingInv
<1>10. \/ 1 < m_nPackets /\ ScheduleTx(m_sendEvent, lostEvents)
       \/ m_sendEvent' = m_sendEvent /\ lostEvents' = lostEvents
  BY DEF StartApplication, SendPacket, SendsAgain
<1>11. QED
  BY <1>6, <1>7, <1>8, <1>9, <1>10

(* The next packet, with what SendPacket is told is scheduled besides.     *)
LEMMA NextPacketInv ==
    ASSUME SendingInv, NextPacket
    PROVE  SendingInv'
<1>1. /\ m_nPackets \in Nat /\ Limit \in Nat /\ Limit >= 1
      /\ Limit >= m_nPackets /\ Limit' = Limit /\ Restarts \in Nat
  BY LimitType
<1>2. /\ starts' = starts /\ Restarts' = Restarts /\ m_running' = m_running
  BY DEF NextPacket, Restarts
<1>3. ASSUME NEW known \in BOOLEAN, NEW lost \in Nat,
             SendPacket(m_packetsSent, known, lost, transmissionTimes),
             known => m_sendEvent,
             starts # 0, lost <= Restarts,
             known => lost + 1 <= Restarts,
             m_packetsSent + 1 + lost <= Limit + Restarts,
             known => m_packetsSent + 1 + lost + 1 <= Limit + Restarts
      PROVE  SendingInv'
  <2>1. PICK count \in Nat : count = m_packetsSent
    BY DEF SendingInv
  <2>2. m_packetsSent' = count + 1 /\ count + 1 \in Nat
    BY <1>3, <2>1 DEF SendPacket
  <2>3. PICK sent \in {0, 1} : /\ sentPackets' = sentPackets + sent
                               /\ transmissionTimes' = transmissionTimes + sent
    BY <1>3 DEF SendPacket
  <2>4. transmissionTimes' = sentPackets' + starts'
        /\ sentPackets' \in Nat /\ transmissionTimes' \in Nat
    BY <1>2, <2>3 DEF SendingInv
  <2>5. ASSUME NEW l \in Nat, lostEvents' = l, m_sendEvent' \in BOOLEAN,
               l <= Restarts, count + 1 + l <= Limit + Restarts,
               m_sendEvent' => count + 1 + l + 1 <= Limit + Restarts,
               ~ m_running => ~ m_sendEvent'
        PROVE  SendingInv'
    <3>1. m_running' \in BOOLEAN /\ starts' \in Nat /\ starts' # 0
      BY <1>2, <1>3 DEF SendingInv
    <3>2. m_packetsSent' + lostEvents' <= Limit + Restarts
      BY <2>2, <2>5
    <3>3. m_sendEvent' => m_packetsSent' + lostEvents' + 1 <= Limit + Restarts
      BY <2>2, <2>5
    <3>4. QED
      BY <1>1, <1>2, <2>2, <2>4, <2>5, <3>1, <3>2, <3>3 DEF SendingInv
  <2>6. CASE count + 1 < m_nPackets /\ m_running /\ ScheduleTx(known, lost)
    <3>1. PICK l \in Nat : l = lost + (IF known THEN 1 ELSE 0)
      OBVIOUS
    <3>2. l <= Restarts
      BY <1>1, <1>3, <3>1
    <3>3. count + 1 + l + 1 <= Limit + Restarts /\ count + 1 + l <= Limit + Restarts
      BY <1>1, <2>6, <3>2
    <3>4. m_sendEvent' = TRUE /\ lostEvents' = l
      BY <2>6, <3>1 DEF ScheduleTx
    <3>5. QED
      BY <2>5, <2>6, <3>2, <3>3, <3>4
  <2>7. CASE m_sendEvent' = known /\ lostEvents' = lost
    <3>1. ~ m_running => ~ known
      BY <1>3 DEF SendingInv
    <3>2. QED
      BY <1>3, <2>1, <2>5, <2>7, <3>1
  <2>8. \/ count + 1 < m_nPackets /\ m_running /\ ScheduleTx(known, lost)
        \/ m_sendEvent' = known /\ lostEvents' = lost
    BY <1>2, <1>3, <2>1 DEF SendPacket, SendsAgain
  <2>9. QED
    BY <2>6, <2>7, <2>8
<1>4. CASE m_sendEvent
           /\ SendPacket(m_packetsSent, FALSE, lostEvents, transmissionTimes)
  <2>1. /\ lostEvents \in Nat /\ lostEvents <= Restarts /\ starts # 0
        /\ m_packetsSent \in Nat
        /\ m_packetsSent + lostEvents + 1 <= Limit + Restarts
    BY <1>4 DEF SendingInv
  <2>2. m_packetsSent + 1 + lostEvents <= Limit + Restarts
    BY <1>1, <2>1
  <2>3. QED
    BY <1>3, <1>4, <2>1, <2>2
<1>5. CASE lostEvents > 0
           /\ SendPacket(m_packetsSent, m_sendEvent, lostEvents - 1, transmissionTimes)
  <2>1. lostEvents - 1 \in Nat /\ lostEvents <= Restarts /\ starts # 0
    BY <1>5 DEF SendingInv
  <2>2. /\ m_packetsSent + 1 + (lostEvents - 1) <= Limit + Restarts
        /\ m_sendEvent => m_packetsSent + 1 + (lostEvents - 1) + 1 <= Limit + Restarts
        /\ (lostEvents - 1) + 1 <= Restarts /\ lostEvents - 1 <= Restarts
    BY <1>1, <2>1 DEF SendingInv
  <2>3. m_sendEvent \in BOOLEAN
    BY DEF SendingInv
  <2>4. QED
    BY <1>3, <1>5, <2>1, <2>2, <2>3
<1>6. QED
  BY <1>4, <1>5 DEF NextPacket

LEMMA SendingNextInv ==
    ASSUME SendingInv, [ApplicationNext]_appVars
    PROVE  SendingInv'
<1>1. CASE StartApplication
  BY <1>1, StartInv
<1>2. CASE StopApplication
  BY <1>2, ApplicationBounds DEF StopApplication, SendingInv, Restarts, Limit
<1>3. CASE NextPacket
  BY <1>3, NextPacketInv
<1>4. CASE RxDrop \/ UNCHANGED appVars
  BY <1>4 DEF RxDrop, appVars, SendingInv, Restarts, Limit
<1>5. QED
  BY <1>1, <1>2, <1>3, <1>4 DEF ApplicationNext

LEMMA SendingInvAccounts == SendingInv => PacketsAccounted /\ QuietAfterStop
<1> SUFFICES ASSUME SendingInv PROVE PacketsAccounted /\ QuietAfterStop
  OBVIOUS
<1>1. Limit \in Nat
  BY ApplicationBounds DEF Limit
<1>2. PacketsAccounted
  BY <1>1 DEF SendingInv, PacketsAccounted, Limit, Restarts
<1>3. QuietAfterStop
  BY DEF SendingInv, QuietAfterStop, Restarts
<1>4. QED
  BY <1>2, <1>3

(* However starts, stops and packets follow each other, the application    *)
(* sends its packets and at most one more for each start while it runs.    *)
THEOREM PacketsAreAccounted ==
    ApplicationSpec => [](PacketsAccounted /\ QuietAfterStop)
<1>1. SendingInv /\ [ApplicationNext]_appVars => SendingInv'
  BY SendingNextInv
<1>2. QED
  BY SendingInitInv, <1>1, SendingInvAccounts, PTL DEF ApplicationSpec

-----------------------------------------------------------------------------
(* The motion.                                                             *)

(* After a read the helper is up to date as long as the clock stands.      *)
MotionInv ==
    /\ clock \in Int /\ m_baseTime \in Int /\ m_basePosition \in Int
    /\ m_baseVelocity \in Int /\ m_acceleration \in Int
    /\ helper \in [position : Int, velocity : Int, lastUpdate : Int]
    /\ paused \in BOOLEAN
    /\ read \in [times : 0..2, position : Int]
    /\ read.times > 0 => helper.lastUpdate = clock
    /\ read.times = 2 => read.position = helper.position

LEMMA MotionInitInv == MotionInit => MotionInv
  BY DEF MotionInit, MotionInv, NotRead

LEMMA ReachedType ==
    ASSUME MotionInv
    PROVE  /\ Reached \in Int
           /\ helper.lastUpdate = clock => Reached = helper.position
<1>1. /\ helper.position \in Int /\ helper.velocity \in Int
      /\ helper.lastUpdate \in Int /\ clock \in Int
  BY DEF MotionInv
<1>2. PICK v \in Int : v = 2 * helper.velocity
  BY <1>1
<1>3. PICK t \in Int : t = clock - helper.lastUpdate
  BY <1>1
<1>4. v * t \in Int /\ (t = 0 => v * t = 0)
  OBVIOUS
<1>5. Reached = helper.position + (IF paused THEN 0 ELSE v * t)
  BY <1>2, <1>3 DEF Reached
<1>6. helper.lastUpdate = clock => t = 0
  BY <1>1, <1>3
<1>7. QED
  BY <1>1, <1>4, <1>5, <1>6

LEMMA UpdatedType ==
    ASSUME MotionInv
    PROVE  /\ Updated \in [position : Int, velocity : Int, lastUpdate : Int]
           /\ Updated.position = Reached /\ Updated.lastUpdate = clock
<1>1. Reached \in Int /\ clock \in Int
  BY ReachedType DEF MotionInv
<1>2. QED
  BY <1>1 DEF Updated, MotionInv

LEMMA MotionNextInv ==
    ASSUME MotionInv, [MotionNext]_motionVars
    PROVE  MotionInv'
<1>1. ASSUME NEW t \in Int
      PROVE  /\ m_acceleration * t \in Int /\ m_acceleration * t * t \in Int
             /\ 2 * m_baseVelocity * t \in Int
  BY DEF MotionInv
<1>2. clock - m_baseTime \in Int
  BY DEF MotionInv
<1>3. DoGetVelocity \in Int /\ DoGetPosition \in Int
  <2>1. PICK t \in Int : t = clock - m_baseTime
    BY <1>2
  <2>2. DoGetVelocity = m_baseVelocity + m_acceleration * t
    BY <2>1 DEF DoGetVelocity
  <2>3. DoGetPosition
          = m_basePosition + 2 * m_baseVelocity * t + m_acceleration * t * t
    BY <2>1 DEF DoGetPosition
  <2>4. m_basePosition \in Int /\ m_baseVelocity \in Int
    BY DEF MotionInv
  <2>5. QED
    BY <1>1, <2>2, <2>3, <2>4
<1>4. CASE \E x \in Where : SetBasePosition(x)
  BY <1>3, <1>4, MotionAssumption DEF SetBasePosition, constant, MotionInv
<1>5. CASE \E v \in Speed, a \in Acceleration : SetVelocityAndAcceleration(v, a)
  BY <1>3, <1>5, MotionAssumption
  DEF SetVelocityAndAcceleration, constant, MotionInv
<1>6. CASE \E v \in Speed : SetVelocity(v)
  <2>1. PICK v \in Speed : SetVelocity(v)
    BY <1>6
  <2>2. v \in Int
    BY MotionAssumption
  <2>3. PICK u : u = Updated
    OBVIOUS
  <2>4. /\ u \in [position : Int, velocity : Int, lastUpdate : Int]
        /\ u.position = Reached /\ u.lastUpdate = clock
    BY <2>3, UpdatedType
  <2>5. helper' = [u EXCEPT !.velocity = v]
    BY <2>1, <2>3 DEF SetVelocity
  <2>6. /\ helper' \in [position : Int, velocity : Int, lastUpdate : Int]
        /\ helper'.position = Reached /\ helper'.lastUpdate = clock
    BY <2>2, <2>4, <2>5
  <2>7. read.times = 2 => read.position = Reached
    BY ReachedType DEF MotionInv
  <2>8. paused' = FALSE /\ UNCHANGED <<clock, accelerated, read>>
    BY <2>1 DEF SetVelocity
  <2>9. QED
    BY <2>6, <2>7, <2>8 DEF MotionInv, accelerated
<1>7. CASE \E x \in Where : SetHelperPosition(x)
  BY <1>7, MotionAssumption
  DEF SetHelperPosition, accelerated, NotRead, MotionInv
<1>8. CASE GetPosition
  <2>1. /\ helper' = Updated /\ UNCHANGED <<clock, accelerated, paused>>
        /\ read' = [times |-> IF read.times = 2 THEN 2 ELSE read.times + 1,
                    position |-> helper.position]
    BY <1>8 DEF GetPosition
  <2>2. read' \in [times : 0..2, position : Int]
    BY <2>1 DEF MotionInv
  <2>3. read'.times = 2 => read'.position = helper'.position
    BY <2>1, UpdatedType, ReachedType DEF MotionInv
  <2>4. helper'.lastUpdate = clock
    BY <2>1, UpdatedType
  <2>5. QED
    BY <2>1, <2>2, <2>3, <2>4, UpdatedType DEF MotionInv, accelerated
<1>9. CASE Advance
  BY <1>9 DEF Advance, accelerated, NotRead, MotionInv
<1>10. CASE UNCHANGED motionVars
  BY <1>10 DEF motionVars, accelerated, constant, MotionInv
<1>11. QED
  BY <1>4, <1>5, <1>6, <1>7, <1>8, <1>9, <1>10 DEF MotionNext

LEMMA MotionInvReads == MotionInv => SecondReadTrue
  BY ReachedType DEF MotionInv, SecondReadTrue

(* The second read of a position at one moment is true.                    *)
THEOREM SecondReadIsTrue == MotionSpec => []SecondReadTrue
<1>1. MotionInv /\ [MotionNext]_motionVars => MotionInv'
  BY MotionNextInv
<1>2. QED
  BY MotionInitInv, <1>1, MotionInvReads, PTL DEF MotionSpec

Smooth ==
    clock' = clock =>
       \/ DoGetPosition' = DoGetPosition
       \/ DoGetVelocity' = DoGetVelocity /\ m_acceleration' = m_acceleration

LEMMA MotionIsSmooth ==
    ASSUME MotionInv, [MotionNext]_motionVars
    PROVE  Smooth
<1>1. MotionInv'
  BY MotionNextInv
<1>2. /\ clock' \in Int /\ m_baseTime' \in Int /\ m_basePosition' \in Int
      /\ m_baseVelocity' \in Int /\ m_acceleration' \in Int
  BY <1>1 DEF MotionInv
<1>3. PICK t : t = clock' - m_baseTime'
  OBVIOUS
<1>4. /\ DoGetVelocity' = m_baseVelocity' + m_acceleration' * t
      /\ DoGetPosition' = m_basePosition' + 2 * m_baseVelocity' * t
                            + m_acceleration' * t * t
  BY <1>3 DEF DoGetVelocity, DoGetPosition
<1>5. ASSUME m_baseTime' = clock, clock' = clock
      PROVE  DoGetVelocity' = m_baseVelocity' /\ DoGetPosition' = m_basePosition'
  <2>1. t = 0
    BY <1>2, <1>3, <1>5
  <2>2. PICK a \in Int, v \in Int, x \in Int :
            a = m_acceleration' /\ v = m_baseVelocity' /\ x = m_basePosition'
    BY <1>2
  <2>3. v + a * 0 = v /\ x + 2 * v * 0 + a * 0 * 0 = x
    OBVIOUS
  <2>4. QED
    BY <1>4, <2>1, <2>2, <2>3
<1>6. CASE \E x \in Where : SetBasePosition(x)
  BY <1>5, <1>6 DEF SetBasePosition, Smooth
<1>7. CASE \E v \in Speed, a \in Acceleration : SetVelocityAndAcceleration(v, a)
  BY <1>5, <1>7 DEF SetVelocityAndAcceleration, Smooth
<1>8. CASE Advance
  <2>1. clock' # clock
    BY <1>8 DEF Advance, MotionInv
  <2>2. QED
    BY <2>1 DEF Smooth
<1>9. CASE \/ \E v \in Speed : SetVelocity(v)
           \/ \E x \in Where : SetHelperPosition(x)
           \/ GetPosition
           \/ UNCHANGED motionVars
  <2>1. UNCHANGED accelerated
    BY <1>9 DEF SetVelocity, SetHelperPosition, GetPosition, motionVars
  <2>2. QED
    BY <2>1 DEF accelerated, Smooth, DoGetPosition
<1>10. QED
  BY <1>6, <1>7, <1>8, <1>9 DEF MotionNext

(* Nothing that is set makes a device jump and change its speed at once.   *)
THEOREM MotionHasInertia == MotionSpec => NoJump
<1>1. MotionInv /\ [MotionNext]_motionVars => MotionInv'
  BY MotionNextInv
<1>2. MotionInv /\ [MotionNext]_motionVars => [Smooth]_motionVars
  BY MotionIsSmooth
<1>3. QED
  BY MotionInitInv, <1>1, <1>2, PTL DEF MotionSpec, NoJump, Smooth

-----------------------------------------------------------------------------
(* The analysis of the performance.                                        *)

SinkInv ==
    /\ lifiStaSinkApps \in [Sink -> Nat] /\ wifiStaSinkApps \in [Sink -> Nat]
    /\ handed \in [Sink -> Nat]
    /\ SinksKept

LEMMA SinkInitInv == PerformanceInit => SinkInv
<1> SUFFICES ASSUME PerformanceInit PROVE SinkInv
  OBVIOUS
<1>1. /\ lifiStaSinkApps = [n \in Sink |-> 0] /\ wifiStaSinkApps = [n \in Sink |-> 0]
      /\ handed = [n \in Sink |-> 0] /\ onLiFi = {}
  BY DEF PerformanceInit
<1>2. QED
  BY <1>1 DEF SinkInv, SinksKept

LEMMA SinkNextInv == SinkInv /\ [PerformanceNext]_performanceVars => SinkInv'
<1> SUFFICES ASSUME SinkInv, [PerformanceNext]_performanceVars
             PROVE  SinkInv'
  OBVIOUS
<1> DEFINE Left == UNCHANGED <<lifiStaSinkApps, wifiStaSinkApps, handed, onLiFi>>
           Kept1(m) == /\ lifiStaSinkApps'[m] \in Nat /\ wifiStaSinkApps'[m] \in Nat
                       /\ handed'[m] \in Nat
                       /\ lifiStaSinkApps'[m] + wifiStaSinkApps'[m] >= handed'[m]
                       /\ lifiStaSinkApps'[m] > 0 <=> m \in onLiFi'
<1>1. ASSUME Left PROVE SinkInv'
  BY <1>1 DEF SinkInv, SinksKept
<1>2. ASSUME NEW m \in Sink
      PROVE  \E l, w, h \in Nat :
                /\ l = lifiStaSinkApps[m] /\ w = wifiStaSinkApps[m] /\ h = handed[m]
                /\ l + w >= h
                /\ l > 0 <=> m \in onLiFi
  BY DEF SinkInv, SinksKept
<1>3. ASSUME NEW n \in Sink, SetSinkApplicationContainer(n)
      PROVE  SinkInv'
  <2>1. /\ handed' = [handed EXCEPT ![n] = @ + 1]
        /\ \/ /\ lifiStaSinkApps' = [lifiStaSinkApps EXCEPT ![n] = @ + 1]
              /\ onLiFi' = onLiFi \cup {n}
              /\ wifiStaSinkApps' = wifiStaSinkApps
           \/ /\ wifiStaSinkApps' = [wifiStaSinkApps EXCEPT ![n] = @ + 1]
              /\ lifiStaSinkApps' = lifiStaSinkApps /\ onLiFi' = onLiFi
    BY <1>3 DEF SetSinkApplicationContainer
  <2>2. ASSUME NEW m \in Sink
        PROVE  Kept1(m)
    <3>1. PICK l, w, h \in Nat :
             /\ l = lifiStaSinkApps[m] /\ w = wifiStaSinkApps[m] /\ h = handed[m]
             /\ l + w >= h
             /\ l > 0 <=> m \in onLiFi
      BY <1>2
    <3>2. CASE m = n
      <4>1. handed'[m] = h + 1
        BY <2>1, <3>1, <3>2 DEF SinkInv
      <4>2. CASE /\ lifiStaSinkApps' = [lifiStaSinkApps EXCEPT ![n] = @ + 1]
                 /\ onLiFi' = onLiFi \cup {n} /\ wifiStaSinkApps' = wifiStaSinkApps
        <5>1. lifiStaSinkApps'[m] = l + 1 /\ wifiStaSinkApps'[m] = w /\ m \in onLiFi'
          BY <3>1, <3>2, <4>2 DEF SinkInv
        <5>2. QED
          BY <3>1, <4>1, <5>1
      <4>3. CASE /\ wifiStaSinkApps' = [wifiStaSinkApps EXCEPT ![n] = @ + 1]
                 /\ lifiStaSinkApps' = lifiStaSinkApps /\ onLiFi' = onLiFi
        <5>1. lifiStaSinkApps'[m] = l /\ wifiStaSinkApps'[m] = w + 1
          BY <3>1, <3>2, <4>3 DEF SinkInv
        <5>2. QED
          BY <3>1, <4>1, <4>3, <5>1
      <4>4. QED
        BY <2>1, <4>2, <4>3
    <3>3. CASE m # n
      BY <2>1, <3>1, <3>3 DEF SinkInv
    <3>4. QED
      BY <3>2, <3>3
  <2>3. /\ lifiStaSinkApps' \in [Sink -> Nat] /\ wifiStaSinkApps' \in [Sink -> Nat]
        /\ handed' \in [Sink -> Nat]
    BY <2>1, <2>2 DEF SinkInv
  <2>4. QED
    BY <2>2, <2>3 DEF SinkInv, SinksKept
<1>4. ASSUME NEW k \in Key, NEW n \in Sink, SwitchUserFromLiFiToWifi(k, n)
      PROVE  SinkInv'
  <2>1. /\ wifiStaSinkApps' = [wifiStaSinkApps EXCEPT ![n] = @ + lifiStaSinkApps[n]]
        /\ lifiStaSinkApps' =
              [m \in Sink |-> IF m = n THEN 0 ELSE 2 * lifiStaSinkApps[m]]
        /\ onLiFi' = onLiFi \ {n} /\ handed' = handed
    BY <1>4 DEF SwitchUserFromLiFiToWifi, StaySinks
  <2>2. ASSUME NEW m \in Sink
        PROVE  Kept1(m)
    <3>1. PICK l, w, h \in Nat :
             /\ l = lifiStaSinkApps[m] /\ w = wifiStaSinkApps[m] /\ h = handed[m]
             /\ l + w >= h
             /\ l > 0 <=> m \in onLiFi
      BY <1>2
    <3>2. CASE m = n
      <4>1. /\ wifiStaSinkApps'[m] = w + l /\ lifiStaSinkApps'[m] = 0
            /\ handed'[m] = h /\ m \notin onLiFi'
        BY <2>1, <3>1, <3>2 DEF SinkInv
      <4>2. QED
        BY <3>1, <4>1
    <3>3. CASE m # n
      <4>1. /\ wifiStaSinkApps'[m] = w /\ lifiStaSinkApps'[m] = 2 * l
            /\ handed'[m] = h
            /\ m \in onLiFi' <=> m \in onLiFi
        BY <2>1, <3>1, <3>3 DEF SinkInv
      <4>2. QED
        BY <3>1, <4>1
    <3>4. QED
      BY <3>2, <3>3
  <2>3. /\ lifiStaSinkApps' \in [Sink -> Nat] /\ wifiStaSinkApps' \in [Sink -> Nat]
        /\ handed' \in [Sink -> Nat]
    BY <2>1, <2>2 DEF SinkInv
  <2>4. QED
    BY <2>2, <2>3 DEF SinkInv, SinksKept
<1>5. QED
  <2>1. ASSUME NEW k \in Key, SetLiFiKeys(k) \/ SetWiFiKeys(k)
        PROVE  Left
    BY <2>1 DEF SetLiFiKeys, SetWiFiKeys, hands
  <2>2. ASSUME NEW f \in Flow, FlowReceives(f)
        PROVE  Left
    BY <2>2 DEF FlowReceives, lists, hands
  <2>3. ASSUME UNCHANGED performanceVars
        PROVE  Left
    BY <2>3 DEF performanceVars, lists, hands
  <2>4. QED
    BY <1>1, <1>3, <1>4, <2>1, <2>2, <2>3 DEF PerformanceNext

LEMMA SinkInvKeeps == SinkInv => SinksKept
  BY DEF SinkInv

(* However often sinks are handed over and users go from LiFi to WiFi, no  *)
(* entry of a sink is lost, and the LiFi list has the sinks that are still *)
(* LiFi's and no other.                                                    *)
THEOREM SinksAreKept == PerformanceSpec => []SinksKept
<1>1. PerformanceSpec => []SinkInv
  BY SinkInitInv, SinkNextInv, PTL DEF PerformanceSpec
<1>2. QED
  BY <1>1, SinkInvKeeps, PTL

(* The step property needs of the past only that packets are counted.      *)
FlowsCounted == rxPackets \in [Flow -> Nat]

Remains(f) ==
    /\ ReportedAs(f) # "none" /\ ReportedAs(f)' = "none" => NoLiFiSinks(lifiStaSinkApps)'
    /\ switches' # switches /\ ReportedAs(f)' # "none" =>
          /\ ReportedAs(f) # "none" => DelayCount(f)' <= DelayCount(f)
          /\ Infinite(f) => Infinite(f)'
          /\ ReportedAs(f)' = "wifi" /\ ReportedAs(f) \in {"lifi", "handover"}
                /\ rxPackets[f] = 1 => Infinite(f)'

LEMMA FlowsCountedNext ==
    FlowsCounted /\ [PerformanceNext]_performanceVars => FlowsCounted'
<1> SUFFICES ASSUME FlowsCounted, [PerformanceNext]_performanceVars
             PROVE  FlowsCounted'
  OBVIOUS
<1>1. ASSUME NEW f \in Flow, FlowReceives(f)
      PROVE  FlowsCounted'
  BY <1>1 DEF FlowReceives, FlowsCounted
<1>2. ASSUME rxPackets' = rxPackets
      PROVE  FlowsCounted'
  BY <1>2 DEF FlowsCounted
<1>3. QED
  BY <1>1, <1>2
     DEF PerformanceNext, performanceVars, traffic, SetLiFiKeys, SetWiFiKeys,
         SetSinkApplicationContainer, SwitchUserFromLiFiToWifi

(* What a flow is reported as follows from the two sets of ports.          *)
LEMMA ReportsOf ==
    ASSUME NEW f \in Flow
    PROVE  /\ ReportedAs(f) = "none" <=> f.port \notin lifiAPKeys \cup wifiAPKeys
           /\ ReportedAs(f) = "wifi" <=> f.port \in wifiAPKeys \ lifiAPKeys
           /\ ReportedAs(f)' = "none" <=> f.port \notin (lifiAPKeys \cup wifiAPKeys)'
           /\ ReportedAs(f)' = "wifi" <=> f.port \in (wifiAPKeys \ lifiAPKeys)'
  BY DEF ReportedAs, ShouldCaptureTrafficforPort

LEMMA FlowRemains ==
    ASSUME FlowsCounted, [PerformanceNext]_performanceVars, NEW f \in Flow
    PROVE  Remains(f)
<1>1. ASSUME NEW k \in Key, NEW n \in Sink, SwitchUserFromLiFiToWifi(k, n)
      PROVE  Remains(f)
  <2>1. /\ lifiAPKeys' = (IF NoLiFiSinks(StaySinks(n)) THEN {} ELSE lifiAPKeys)
        /\ wifiAPKeys' = wifiAPKeys \cup {k}
        /\ lifiStaSinkApps' = StaySinks(n)
        /\ rxPackets' = rxPackets
    BY <1>1 DEF SwitchUserFromLiFiToWifi, KeysLeft, traffic
  <2>2. ASSUME ReportedAs(f) # "none", ReportedAs(f)' = "none"
        PROVE  NoLiFiSinks(lifiStaSinkApps)'
    <3>1. f.port \in lifiAPKeys /\ f.port \notin lifiAPKeys'
      BY <2>1, <2>2, ReportsOf
    <3>2. NoLiFiSinks(StaySinks(n))
      BY <2>1, <3>1
    <3>3. QED
      BY <2>1, <3>2 DEF NoLiFiSinks
  <2>3. ReportedAs(f) = "wifi" => ReportedAs(f)' = "wifi"
    BY <2>1, ReportsOf
  <2>4. PICK r \in Nat : r = rxPackets[f] /\ r = rxPackets'[f]
    BY <2>1 DEF FlowsCounted
  <2>5. /\ DelayCount(f) = (IF ReportedAs(f) = "wifi" THEN r - 1 ELSE r)
        /\ DelayCount(f)' = (IF ReportedAs(f)' = "wifi" THEN r - 1 ELSE r)
    BY <2>4 DEF DelayCount
  <2>6. DelayCount(f)' <= DelayCount(f)
    <3>1. r - 1 <= r /\ r <= r /\ r - 1 <= r - 1
      OBVIOUS
    <3>2. QED
      BY <2>3, <2>5, <3>1
  <2>7. Infinite(f) => Infinite(f)'
    <3>1. ASSUME Infinite(f) PROVE Infinite(f)'
      <4>1. ReportedAs(f) = "wifi" /\ r > 0 /\ r - 1 = 0
        BY <2>4, <2>5, <3>1 DEF Infinite
      <4>2. QED
        BY <2>3, <2>4, <2>5, <4>1 DEF Infinite
    <3>2. QED
      BY <3>1
  <2>8. ASSUME ReportedAs(f)' = "wifi", rxPackets[f] = 1
        PROVE  Infinite(f)'
    <3>1. r = 1
      BY <2>4, <2>8, Zenon
    <3>2. r > 0 /\ r - 1 = 0
      BY <3>1
    <3>3. QED
      BY <2>4, <2>5, <2>8, <3>2 DEF Infinite
  <2>9. QED
    BY <2>2, <2>6, <2>7, <2>8 DEF Remains
<1>2. ASSUME lifiAPKeys \subseteq lifiAPKeys', wifiAPKeys \subseteq wifiAPKeys',
             switches' = switches
      PROVE  Remains(f)
  BY <1>2, ReportsOf DEF Remains
<1>3. QED
  BY <1>1, <1>2
     DEF PerformanceNext, performanceVars, lists, traffic, SetLiFiKeys, SetWiFiKeys,
         SetSinkApplicationContainer, FlowReceives

(* A switch never loses a flow that was reported, unless no LiFi sink is   *)
(* left; by a switch alone a flow's packets are divided by fewer, and a    *)
(* flow with one packet, once it is WiFi's, has no finite delay any more.  *)
THEOREM FlowsAreKept == PerformanceSpec => FlowsKept
<1>1. PerformanceInit => FlowsCounted
  BY DEF PerformanceInit, FlowsCounted
<1>2. PerformanceSpec => []FlowsCounted
  BY <1>1, FlowsCountedNext, PTL DEF PerformanceSpec
<1>3. FlowsCounted /\ [PerformanceNext]_performanceVars
         => [\A f \in Flow : Remains(f)]_performanceVars
  BY FlowRemains
<1>4. [][\A f \in Flow : Remains(f)]_performanceVars <=> FlowsKept
  BY DEF FlowsKept, Remains
<1>5. QED
  BY <1>2, <1>3, <1>4, PTL DEF PerformanceSpec

-----------------------------------------------------------------------------
(* The caches of a user.                                                   *)

Addresses == LiFiAp \cup WifiAp \cup {NoAddress}

(* One access point at most is known over LiFi.                            *)
OneResolved(cache) ==
    \A a, b \in LiFiAp : cache[a] # NoAddress /\ cache[b] # NoAddress => a = b

UserAgrees(peer, gateway, cache) ==
    /\ cache \in [Ip -> Addresses]
    /\ peer \in BOOLEAN
    /\ peer => gateway \in WifiAp
    /\ peer => cache[Csma] \in {gateway, NoAddress}
    /\ ~ peer => cache = Empty
    /\ OneResolved(cache)

SentAgrees(sent) ==
    /\ sent # NothingSent => sent.receiver # NoAddress
    /\ sent.peer => sent.receiver \in WifiAp

(* The inductive invariant: a user that has a peer has had a gateway       *)
(* written beside it, which nothing takes away.                            *)
CacheInv ==
    /\ userDeviceArpCache = [u \in User |-> userDeviceArpCache[u]]
    /\ m_peerNetDevice = [u \in User |-> m_peerNetDevice[u]]
    /\ lastSent = [u \in User |-> lastSent[u]]
    /\ \A u \in User :
          /\ UserAgrees(m_peerNetDevice[u], m_GatewayAddress[u], userDeviceArpCache[u])
          /\ SentAgrees(lastSent[u])

LEMMA EmptyAgrees == \A gateway : UserAgrees(FALSE, gateway, Empty)
<1>1. Empty \in [Ip -> Addresses] /\ \A ip \in Ip : Empty[ip] = NoAddress
  BY DEF Empty, Addresses
<1>2. LiFiAp \subseteq Ip
  BY DEF Ip
<1>3. OneResolved(Empty)
  BY <1>1, <1>2 DEF OneResolved
<1>4. QED
  BY <1>1, <1>3 DEF UserAgrees

LEMMA ConfiguredAgrees ==
    ASSUME NEW a \in LiFiAp, NEW w \in WifiAp
    PROVE  UserAgrees(TRUE, w, [Empty EXCEPT ![Csma] = w, ![a] = a])
<1> DEFINE c == [Empty EXCEPT ![Csma] = w, ![a] = a]
<1>1. Csma \in Ip /\ LiFiAp \subseteq Ip /\ Csma \notin LiFiAp
  BY DistinctAddresses DEF Ip
<1>2. Empty \in [Ip -> Addresses] /\ \A ip \in Ip : Empty[ip] = NoAddress
  BY DEF Empty, Addresses
<1>3. c \in [Ip -> Addresses]
  BY <1>1, <1>2 DEF Addresses
<1>4. c[Csma] = w /\ \A b \in LiFiAp : b # a => c[b] = NoAddress
  BY <1>1, <1>2
<1>5. OneResolved(c)
  BY <1>4 DEF OneResolved
<1> HIDE DEF c
<1>6. UserAgrees(TRUE, w, c)
  BY <1>3, <1>4, <1>5 DEF UserAgrees
<1>7. QED
  BY <1>6 DEF c

LEMMA ExpiredAgrees ==
    ASSUME NEW peer, NEW gateway, NEW cache, UserAgrees(peer, gateway, cache),
           NEW ip \in Ip
    PROVE  UserAgrees(peer, gateway, [cache EXCEPT ![ip] = NoAddress])
<1> DEFINE c == [cache EXCEPT ![ip] = NoAddress]
<1>1. cache \in [Ip -> Addresses] /\ NoAddress \in Addresses
  BY DEF UserAgrees, Addresses
<1>2. c \in [Ip -> Addresses] /\ \A i \in Ip : c[i] \in {cache[i], NoAddress}
  BY <1>1
<1>3. Csma \in Ip /\ LiFiAp \subseteq Ip
  BY DEF Ip
<1>4. OneResolved(c)
  BY <1>2, <1>3 DEF UserAgrees, OneResolved
<1>5. cache = Empty => c = Empty
  BY DEF Empty
<1> HIDE DEF c
<1>6. UserAgrees(peer, gateway, c)
  BY <1>2, <1>3, <1>4, <1>5 DEF UserAgrees
<1>7. QED
  BY <1>6 DEF c

LEMMA CacheInitInv == CachesInit => CacheInv
<1> SUFFICES ASSUME CachesInit PROVE CacheInv
  OBVIOUS
<1>1. /\ userDeviceArpCache = [u \in User |-> Empty]
      /\ m_peerNetDevice = [u \in User |-> FALSE]
      /\ lastSent = [u \in User |-> NothingSent]
  BY DEF CachesInit
<1>2. SentAgrees(NothingSent)
  BY DEF SentAgrees, NothingSent
<1>3. QED
  BY <1>1, <1>2, EmptyAgrees DEF CacheInv

LEMMA CacheNextInv == CacheInv /\ [CachesNext]_cachesVars => CacheInv'
<1> SUFFICES ASSUME CacheInv, [CachesNext]_cachesVars
             PROVE  CacheInv'
  OBVIOUS
<1> DEFINE Untouched ==
      UNCHANGED <<userDeviceArpCache, m_peerNetDevice, m_GatewayAddress, lastSent>>
<1>1. ASSUME Untouched PROVE CacheInv'
  BY <1>1 DEF CacheInv
<1>2. ASSUME NEW a \in LiFiAp, NEW users \in SUBSET User, NEW w \in WifiAp,
             ConfigureUserDevicesCaches(a, users, w)
      PROVE  CacheInv'
  <2> DEFINE c == [Empty EXCEPT ![Csma] = w, ![a] = a]
  <2>1. /\ userDeviceArpCache' = [u \in User |->
              IF u \in users THEN c ELSE userDeviceArpCache[u]]
        /\ m_GatewayAddress' = [u \in User |-> IF u \in users THEN w ELSE m_GatewayAddress[u]]
        /\ m_peerNetDevice' = [u \in User |-> u \in users \/ m_peerNetDevice[u]]
        /\ lastSent' = lastSent
    BY <1>2 DEF ConfigureUserDevicesCaches
  <2>2. UserAgrees(TRUE, w, c)
    BY ConfiguredAgrees
  <2> HIDE DEF c
  <2>3. ASSUME NEW u \in User
        PROVE  UserAgrees(m_peerNetDevice'[u], m_GatewayAddress'[u], userDeviceArpCache'[u])
    <3>1. CASE u \in users
      <4>1. m_peerNetDevice'[u] = TRUE /\ m_GatewayAddress'[u] = w /\ userDeviceArpCache'[u] = c
        BY <2>1, <3>1
      <4>2. QED
        BY <2>2, <4>1
    <3>2. CASE u \notin users
      <4>1. m_peerNetDevice[u] \in BOOLEAN
        BY DEF CacheInv, UserAgrees
      <4>2. /\ m_peerNetDevice'[u] = m_peerNetDevice[u]
            /\ m_GatewayAddress'[u] = m_GatewayAddress[u]
            /\ userDeviceArpCache'[u] = userDeviceArpCache[u]
        BY <2>1, <3>2, <4>1
      <4>3. QED
        BY <4>2 DEF CacheInv
    <3>3. QED
      BY <3>1, <3>2
  <2>4. /\ userDeviceArpCache' = [u \in User |-> userDeviceArpCache'[u]]
        /\ m_peerNetDevice' = [u \in User |-> m_peerNetDevice'[u]]
    BY <2>1
  <2>5. QED
    BY <2>1, <2>3, <2>4 DEF CacheInv
<1>3. ASSUME NEW v \in User, UpdateUserDeviceCache(v)
      PROVE  CacheInv'
  <2>1. /\ userDeviceArpCache' = [userDeviceArpCache EXCEPT ![v] = Empty]
        /\ m_peerNetDevice' = [m_peerNetDevice EXCEPT ![v] = FALSE]
        /\ m_GatewayAddress' = m_GatewayAddress /\ lastSent' = lastSent
    BY <1>3 DEF UpdateUserDeviceCache
  <2>2. QED
    BY <2>1, EmptyAgrees DEF CacheInv
<1>4. ASSUME NEW v \in User, NEW dest, dest # NoAddress, WifiSend(v, dest)
      PROVE  CacheInv'
  <2> DEFINE s == [asked |-> dest, peer |-> m_peerNetDevice[v],
                   receiver |-> IF m_peerNetDevice[v] THEN m_GatewayAddress[v] ELSE dest]
  <2>1. /\ lastSent' = [lastSent EXCEPT ![v] = s]
        /\ UNCHANGED <<userDeviceArpCache, m_peerNetDevice, m_GatewayAddress>>
    BY <1>4 DEF WifiSend
  <2>2. m_peerNetDevice[v] \in BOOLEAN /\ (m_peerNetDevice[v] => m_GatewayAddress[v] \in WifiAp)
    BY DEF CacheInv, UserAgrees
  <2>3. s.receiver # NoAddress /\ (s.peer => s.receiver \in WifiAp)
    BY <1>4, <2>2, DistinctAddresses
  <2>4. SentAgrees(s)
    BY <2>3 DEF SentAgrees
  <2> HIDE DEF s
  <2>5. QED
    BY <2>1, <2>4 DEF CacheInv
<1>5. ASSUME NEW v \in User, NEW ip \in Ip, ArpExpires(v, ip)
      PROVE  CacheInv'
  <2>1. /\ userDeviceArpCache' =
              [userDeviceArpCache EXCEPT ![v] = [userDeviceArpCache[v] EXCEPT ![ip] = NoAddress]]
        /\ UNCHANGED <<m_peerNetDevice, m_GatewayAddress, lastSent>>
    BY <1>5 DEF ArpExpires
  <2>2. UserAgrees(m_peerNetDevice[v], m_GatewayAddress[v],
                   [userDeviceArpCache[v] EXCEPT ![ip] = NoAddress])
    BY ExpiredAgrees DEF CacheInv
  <2>3. QED
    BY <2>1, <2>2 DEF CacheInv
<1>6. QED
  <2>1. ASSUME NEW v \in User, SendResolved(v)
        PROVE  CacheInv'
    BY <1>4, <2>1 DEF SendResolved
  <2>2. ASSUME NEW v \in User, NEW w \in WifiAp, ArpReply(v, w)
        PROVE  Untouched
    BY <2>2 DEF ArpReply
  <2>3. ASSUME NEW a \in LiFiAp, NEW users \in SUBSET User, ModifyLifiAPCache(a, users)
        PROVE  Untouched
    BY <2>3 DEF ModifyLifiAPCache
  <2>4. ASSUME UNCHANGED cachesVars
        PROVE  Untouched
    BY <2>4 DEF cachesVars
  <2>5. QED
    BY <1>1, <1>2, <1>3, <1>5, <2>1, <2>2, <2>3, <2>4 DEF CachesNext

LEMMA OneOrNone ==
    ASSUME NEW S, \A a, b \in S : a = b
    PROVE  Cardinality(S) <= 1
<1>1. CASE S = {}
  BY <1>1, FS_EmptySet
<1>2. CASE S # {}
  <2>1. PICK a \in S : TRUE
    BY <1>2
  <2>2. S = {a}
    BY <2>1
  <2>3. QED
    BY <2>2, FS_Singleton
<1>3. QED
  BY <1>1, <1>2

LEMMA CacheInvAgrees == CacheInv => CachesAgree
<1> SUFFICES ASSUME CacheInv, NEW u \in User
             PROVE  /\ m_peerNetDevice[u] => m_GatewayAddress[u] # NoAddress
                    /\ m_peerNetDevice[u] =>
                          userDeviceArpCache[u][Csma] \in {m_GatewayAddress[u], NoAddress}
                    /\ ~ m_peerNetDevice[u] => userDeviceArpCache[u] = Empty
                    /\ Cardinality({a \in LiFiAp : userDeviceArpCache[u][a] # NoAddress}) <= 1
                    /\ lastSent[u] # NothingSent => lastSent[u].receiver # NoAddress
                    /\ lastSent[u].peer => lastSent[u].receiver \in WifiAp
  BY DEF CachesAgree
<1>1. UserAgrees(m_peerNetDevice[u], m_GatewayAddress[u], userDeviceArpCache[u])
  BY DEF CacheInv
<1>2. SentAgrees(lastSent[u])
  BY DEF CacheInv
<1>3. m_peerNetDevice[u] => m_GatewayAddress[u] # NoAddress
  BY <1>1, DistinctAddresses DEF UserAgrees
<1>4. Cardinality({a \in LiFiAp : userDeviceArpCache[u][a] # NoAddress}) <= 1
  BY <1>1, OneOrNone DEF UserAgrees, OneResolved
<1>5. QED
  BY <1>1, <1>2, <1>3, <1>4 DEF UserAgrees, SentAgrees

(* The caches and the WiFi device of a user, which several calls write in  *)
(* parts, tell one story: whoever has a peer has a gateway, and that is    *)
(* what it believes about the wired interface; without a peer it resolves  *)
(* nothing over LiFi; and no frame went to nobody.                         *)
THEOREM CachesTellOneStory == CachesSpec => []CachesAgree
<1>1. CachesSpec => []CacheInv
  BY CacheInitInv, CacheNextInv, PTL DEF CachesSpec
<1>2. QED
  BY <1>1, CacheInvAgrees, PTL

-----------------------------------------------------------------------------
(* The queue, under every order of its calls.                              *)

AccountInv ==
    /\ m_queue \in Seq(Packet)
    /\ {m_size, m_count, traced, offered, refused, fetched} \subseteq Nat
    /\ QueueAccounts

LEMMA QueueInitInv == QueueInit => AccountInv
  BY DEF QueueInit, Init, AccountInv, QueueAccounts, GetSize, GetDroppedPackets

(* A Cleanup drops some of the packets, and keeps the count of the others. *)
LEMMA CleanupCounts ==
    ASSUME AccountInv
    PROVE  /\ Kept(m_queue) \in Seq(Packet)
           /\ Dropped \in Nat
           /\ Len(Kept(m_queue)) \in Nat
           /\ m_size = Dropped + Len(Kept(m_queue))
<1>1. /\ Kept(m_queue) \in Seq(Packet)
      /\ Len(Kept(m_queue)) \in Nat /\ Len(Kept(m_queue)) <= Len(m_queue)
  BY KeptType DEF AccountInv
<1>2. m_size = Len(m_queue) /\ Len(m_queue) \in Nat
  BY DEF AccountInv, QueueAccounts, GetSize
<1>3. QED
  BY <1>1, <1>2 DEF Dropped

LEMMA ConcatLength ==
    ASSUME NEW S, NEW a \in Seq(S), NEW b \in Seq(S)
    PROVE  a \o b \in Seq(S) /\ Len(a \o b) = Len(a) + Len(b)
  OBVIOUS

LEMMA RemoveAtShortens ==
    ASSUME NEW S, NEW s \in Seq(S), NEW i \in DOMAIN s
    PROVE  RemoveAt(s, i) \in Seq(S) /\ Len(RemoveAt(s, i)) = Len(s) - 1
<1>1. i \in 1..Len(s) /\ Len(s) \in Nat
  OBVIOUS
<1>2. SubSeq(s, 1, i - 1) \in Seq(S) /\ Len(SubSeq(s, 1, i - 1)) = i - 1
  BY <1>1
<1>3. SubSeq(s, i + 1, Len(s)) \in Seq(S) /\ Len(SubSeq(s, i + 1, Len(s))) = Len(s) - i
  BY <1>1
<1> DEFINE a == SubSeq(s, 1, i - 1)
           b == SubSeq(s, i + 1, Len(s))
<1>4. RemoveAt(s, i) = a \o b
  BY DEF RemoveAt
<1>5. a \in Seq(S) /\ Len(a) = i - 1 /\ b \in Seq(S) /\ Len(b) = Len(s) - i
  BY <1>2, <1>3
<1> HIDE DEF a, b
<1>6. a \o b \in Seq(S) /\ Len(a \o b) = Len(a) + Len(b)
  BY <1>5, ConcatLength
<1>7. i \in Nat /\ (i - 1) + (Len(s) - i) = Len(s) - 1
  BY <1>1
<1>8. QED
  BY <1>4, <1>5, <1>6, <1>7

LEMMA QueueNextInv == AccountInv /\ [QueueNext]_queueVars => AccountInv'
<1> SUFFICES ASSUME AccountInv, [QueueNext]_queueVars
             PROVE  AccountInv'
  OBVIOUS
<1> DEFINE kept == Kept(m_queue)
<1>1. kept \in Seq(Packet) /\ Dropped \in Nat /\ Len(kept) \in Nat
      /\ m_size = Dropped + Len(kept)
  BY CleanupCounts
<1> DEFINE d == Dropped
           l == Len(kept)
<1>2. /\ m_size \in Nat /\ m_count \in Nat /\ traced \in Nat
      /\ offered \in Nat /\ refused \in Nat /\ fetched \in Nat
      /\ m_size = Len(m_queue)
      /\ offered = m_size + fetched + refused + m_count
      /\ traced = m_count + refused
      /\ m_queue \in Seq(Packet)
  BY DEF AccountInv, QueueAccounts, GetSize, GetDroppedPackets
<1> HIDE DEF kept, d, l
<1>3. d \in Nat /\ l \in Nat /\ m_size = d + l /\ l = Len(kept) /\ d = Dropped
      /\ kept \in Seq(Packet) /\ kept = Kept(m_queue)
  BY <1>1 DEF kept, d, l
\* What a step has to show: the new values, in terms of the old ones.
<1>4. ASSUME NEW q \in Seq(Packet), NEW s \in Nat, NEW c \in Nat, NEW t \in Nat,
             NEW o \in Nat, NEW r \in Nat, NEW f \in Nat,
             m_queue' = q, m_size' = s, m_count' = c, traced' = t, offered' = o,
             refused' = r, fetched' = f,
             s = Len(q), o = s + f + r + c, t = c + r
      PROVE  AccountInv'
  BY <1>4 DEF AccountInv, QueueAccounts, GetSize, GetDroppedPackets
<1>5. ASSUME NEW tx \in TxTimes, Offer([tx |-> tx, age |-> 0, marked |-> FALSE])
      PROVE  AccountInv'
  <2> DEFINE p == [tx |-> tx, age |-> 0, marked |-> FALSE]
  <2>1. p \in Packet
    BY DelayAssumption DEF Packet
  <2>2. /\ \/ m_size - d = m_maxSize /\ m_queue' = kept /\ m_size' = m_size - d
           \/ /\ m_size - d # m_maxSize
              /\ m_queue' = Append(kept, p) /\ m_size' = m_size - d + 1
        /\ refused' = refused + IF m_size - d = m_maxSize THEN 1 ELSE 0
        /\ traced' = traced + d + IF m_size - d = m_maxSize THEN 1 ELSE 0
        /\ m_count' = m_count + d
        /\ offered' = offered + 1
        /\ fetched' = fetched
    BY <1>3, <1>5 DEF Offer, Queue
  <2> HIDE DEF p
  <2>3. m_size - d = l
    BY <1>3
  <2>4. CASE l = m_maxSize
    <3>1. m_queue' = kept /\ m_size' = l /\ refused' = refused + 1 /\ traced' = traced + d + 1
      BY <2>2, <2>3, <2>4
    <3>2. /\ m_count + d \in Nat /\ traced + d + 1 \in Nat /\ offered + 1 \in Nat
          /\ refused + 1 \in Nat
          /\ offered + 1 = l + fetched + (refused + 1) + (m_count + d)
          /\ traced + d + 1 = (m_count + d) + (refused + 1)
      BY <1>2, <1>3
    <3>3. QED
      BY <1>2, <1>3, <2>2, <3>1, <3>2 DEF AccountInv, QueueAccounts, GetSize, GetDroppedPackets
  <2>5. CASE l # m_maxSize
    <3>1. /\ m_queue' = Append(kept, p) /\ m_size' = l + 1
          /\ refused' = refused + 0 /\ traced' = traced + d + 0
      BY <2>2, <2>3, <2>5
    <3>2. Append(kept, p) \in Seq(Packet) /\ Len(Append(kept, p)) = l + 1
      BY <1>3, <2>1
    <3>3. /\ m_count + d \in Nat /\ traced + d + 0 \in Nat /\ offered + 1 \in Nat
          /\ refused + 0 \in Nat /\ l + 1 \in Nat
          /\ offered + 1 = (l + 1) + fetched + (refused + 0) + (m_count + d)
          /\ traced + d + 0 = (m_count + d) + (refused + 0)
      BY <1>2, <1>3
    <3>4. QED
      BY <1>2, <1>3, <2>2, <3>1, <3>2, <3>3 DEF AccountInv, QueueAccounts, GetSize, GetDroppedPackets
  <2>6. QED
    BY <2>4, <2>5
<1>6. ASSUME Dequeue
      PROVE  AccountInv'
  <2>1. /\ m_queue' = (IF kept = <<>> THEN <<>> ELSE Tail(kept))
        /\ m_size' = m_size - d - IF kept = <<>> THEN 0 ELSE 1
        /\ fetched' = fetched + IF kept = <<>> THEN 0 ELSE 1
        /\ m_count' = m_count + d /\ traced' = traced + d
        /\ offered' = offered /\ refused' = refused
    BY <1>3, <1>6 DEF Dequeue, CleanupTells
  <2>2. m_size - d = l
    BY <1>3
  <2>3. m_count + d \in Nat /\ traced + d \in Nat /\ traced + d = (m_count + d) + refused
    BY <1>2, <1>3
  <2>4. CASE kept = <<>>
    <3>1. l = 0 /\ <<>> \in Seq(Packet) /\ Len(<<>>) = 0
      BY <1>3, <2>4
    <3>2. m_queue' = <<>> /\ m_size' = l - 0 /\ fetched' = fetched + 0
      BY <2>1, <2>2, <2>4
    <3>3. /\ l - 0 \in Nat /\ l - 0 = 0 /\ fetched + 0 \in Nat
          /\ offered = (l - 0) + (fetched + 0) + refused + (m_count + d)
      BY <1>2, <1>3, <3>1
    <3>4. QED
      BY <1>2, <2>1, <2>3, <3>1, <3>2, <3>3 DEF AccountInv, QueueAccounts, GetSize, GetDroppedPackets
  <2>5. CASE kept # <<>>
    <3>1. Tail(kept) \in Seq(Packet) /\ Len(Tail(kept)) = l - 1 /\ l - 1 \in Nat
      BY <1>3, <2>5
    <3>2. m_queue' = Tail(kept) /\ m_size' = l - 1 /\ fetched' = fetched + 1
      BY <2>1, <2>2, <2>5
    <3>3. /\ fetched + 1 \in Nat
          /\ offered = (l - 1) + (fetched + 1) + refused + (m_count + d)
      BY <1>2, <1>3
    <3>4. QED
      BY <1>2, <2>1, <2>3, <3>1, <3>2, <3>3 DEF AccountInv, QueueAccounts, GetSize, GetDroppedPackets
  <2>6. QED
    BY <2>4, <2>5
<1>7. ASSUME Cleaned
      PROVE  AccountInv'
  <2>1. /\ m_queue' = kept /\ m_size' = m_size - d
        /\ m_count' = m_count + d /\ traced' = traced + d
        /\ offered' = offered /\ refused' = refused /\ fetched' = fetched
    BY <1>3, <1>7 DEF Cleaned, CleanupTells, dealings
  <2>2. /\ m_size - d = l /\ m_count + d \in Nat /\ traced + d \in Nat
        /\ traced + d = (m_count + d) + refused
        /\ offered = l + fetched + refused + (m_count + d)
    BY <1>2, <1>3
  <2>3. m_queue' = kept /\ m_size' = l
    BY <2>1, <2>2
  <2>4. QED
    BY <1>2, <1>3, <2>1, <2>2, <2>3
    DEF AccountInv, QueueAccounts, GetSize, GetDroppedPackets
<1>8. ASSUME NEW i \in DOMAIN m_queue, RemovePacket(i)
      PROVE  AccountInv'
  <2>1. /\ m_queue' = RemoveAt(m_queue, i) /\ m_size' = m_size - 1
        /\ fetched' = fetched + 1
        /\ UNCHANGED <<m_count, traced, offered, refused>>
    BY <1>8 DEF RemovePacket, drops
  <2>2. RemoveAt(m_queue, i) \in Seq(Packet) /\ Len(RemoveAt(m_queue, i)) = Len(m_queue) - 1
    BY <1>2, RemoveAtShortens
  <2>3. Len(m_queue) >= 1
    BY <1>2
  <2>4. /\ m_size - 1 \in Nat /\ fetched + 1 \in Nat
        /\ offered = (m_size - 1) + (fetched + 1) + refused + m_count
    BY <1>2, <2>3
  <2>5. QED
    BY <1>2, <1>4, <2>1, <2>2, <2>4
<1>9. ASSUME Flush
      PROVE  AccountInv'
  <2>1. /\ m_queue' = <<>> /\ m_size' = 0 /\ fetched' = fetched + Len(m_queue)
        /\ UNCHANGED <<m_count, traced, offered, refused>>
    BY <1>9 DEF Flush, drops
  <2>2. <<>> \in Seq(Packet) /\ Len(<<>>) = 0
    OBVIOUS
  <2>3. /\ fetched + Len(m_queue) \in Nat
        /\ offered = 0 + (fetched + Len(m_queue)) + refused + m_count
    BY <1>2
  <2>4. QED
    BY <1>2, <1>4, <2>1, <2>2, <2>3
<1>10. ASSUME Elapse
       PROVE  AccountInv'
  <2> DEFINE older == [i \in DOMAIN m_queue |->
         [m_queue[i] EXCEPT !.age = IF @ < MaxDelay THEN @ + 1 ELSE MaxDelay]]
  <2>1. /\ m_queue' = older
        /\ UNCHANGED <<m_size, m_count, traced, offered, refused, fetched>>
    BY <1>10 DEF Elapse, Tick, drops, dealings
  <2>2. ASSUME NEW i \in DOMAIN m_queue
        PROVE  [m_queue[i] EXCEPT !.age = IF @ < MaxDelay THEN @ + 1 ELSE MaxDelay] \in Packet
    <3>1. m_queue[i] \in Packet /\ MaxDelay \in Nat
      BY <1>2, DelayAssumption
    <3>2. m_queue[i].age \in 0..MaxDelay
      BY <3>1 DEF Packet
    <3>3. (IF m_queue[i].age < MaxDelay THEN m_queue[i].age + 1 ELSE MaxDelay) \in 0..MaxDelay
      BY <3>1, <3>2
    <3>4. QED
      BY <3>1, <3>3 DEF Packet
  <2>3. older \in Seq(Packet) /\ Len(older) = Len(m_queue)
    <3> DEFINE e(i) ==
          [m_queue[i] EXCEPT !.age = IF @ < MaxDelay THEN @ + 1 ELSE MaxDelay]
    <3>1. \A i \in DOMAIN m_queue : e(i) \in Packet
      BY <2>2
    <3>2. older = [i \in DOMAIN m_queue |-> e(i)]
      OBVIOUS
    <3> HIDE DEF e, older
    <3>3. QED
      BY <1>2, <3>1, <3>2
  <2> HIDE DEF older
  <2>4. QED
    BY <1>2, <1>4, <2>1, <2>3
<1>11. ASSUME UNCHANGED <<m_queue, m_size, drops, dealings>>
       PROVE  AccountInv'
  BY <1>2, <1>4, <1>11 DEF drops, dealings
<1>12. QED
  <2>1. ASSUME NEW size \in NewSizes, SetQueueSize(size), UNCHANGED <<drops, dealings>>
        PROVE  AccountInv'
    BY <1>11, <2>1 DEF SetQueueSize
  <2>2. ASSUME UNCHANGED queueVars
        PROVE  AccountInv'
    BY <1>11, <2>2 DEF queueVars, vars
  <2>3. QED
    BY <1>5, <1>6, <1>7, <1>8, <1>9, <1>10, <2>1, <2>2 DEF QueueNext, Peek, IsEmpty

(* Every packet that was offered is in the queue, was handed out, refused  *)
(* or has expired, once, in any order of the queue's calls: Cleanup,       *)
(* Enqueue, Dequeue and Remove keep count, each on its own.                *)
THEOREM QueueKeepsAccount == QueueSpec => []QueueAccounts
<1>1. AccountInv => QueueAccounts
  BY DEF AccountInv
<1>2. QED
  BY <1>1, QueueInitInv, QueueNextInv, PTL DEF QueueSpec

-----------------------------------------------------------------------------
(* The uplink of a station.                                                *)

(* A scheduled event always leaves some of what its chain was given.       *)
ChainEvent == [left : Nat, remaining : Nat \ {0}, tx : TxTimes, intact : BOOLEAN]

(* The callers are numbered: from 0 down the access points, from 1 up the  *)
(* loops.  Wait is how long it takes until a caller comes again.           *)
Turns == [Server -> Nat]
Callers(lp) == (-OldAps)..Len(lp)
Wait(k, g, lp) == IF k <= 0 THEN g[-k] ELSE lp[k]

(* Each chain has a caller of its own, and is over before it comes again.  *)
OwnedBy(own, events, g, lp) ==
    /\ own \in Seq(Callers(lp)) /\ Len(own) = Len(events)
    /\ \A i, j \in 1..Len(events) : own[i] = own[j] => i = j
    /\ \A i \in 1..Len(events) :
          events[i].left + events[i].remaining <= Wait(own[i], g, lp)

Owned(events, g, lp) == \E own \in Seq(Callers(lp)) : OwnedBy(own, events, g, lp)

UplinkInv ==
    /\ m_queue \in Seq(Packet) /\ sends \in Seq(ChainEvent)
    /\ turns \in Turns /\ loops \in Seq(Nat)
    /\ {m_slotTime, m_guardTime} \subseteq Nat /\ apGuardTime \in [Server -> Nat]
    /\ ~ tight => Owned(sends, turns, loops)

LEMMA ConcatElements ==
    ASSUME NEW S, NEW a \in Seq(S), NEW b \in Seq(S)
    PROVE  /\ \A k \in 1..Len(a) : (a \o b)[k] = a[k]
           /\ \A k \in (Len(a) + 1)..(Len(a) + Len(b)) : (a \o b)[k] = b[k - Len(a)]
  OBVIOUS

LEMMA RemoveAtElements ==
    ASSUME NEW S, NEW s \in Seq(S), NEW i \in DOMAIN s
    PROVE  \A k \in 1..(Len(s) - 1) :
              RemoveAt(s, i)[k] = s[IF k < i THEN k ELSE k + 1]
<1> DEFINE a == SubSeq(s, 1, i - 1)
           b == SubSeq(s, i + 1, Len(s))
<1>1. i \in 1..Len(s) /\ Len(s) \in Nat
  OBVIOUS
<1>2. a \in Seq(S) /\ Len(a) = i - 1 /\ \A k \in 1..(i - 1) : a[k] = s[k]
  BY <1>1
<1>3. b \in Seq(S) /\ Len(b) = Len(s) - i /\ \A k \in 1..(Len(s) - i) : b[k] = s[k + i]
  BY <1>1
<1>4. RemoveAt(s, i) = a \o b
  BY DEF RemoveAt
<1> HIDE DEF a, b
<1> SUFFICES ASSUME NEW k \in 1..(Len(s) - 1)
             PROVE  (a \o b)[k] = s[IF k < i THEN k ELSE k + 1]
  BY <1>4
<1>5. CASE k < i
  <2>1. k \in 1..Len(a) /\ k \in 1..(i - 1)
    BY <1>1, <1>2, <1>5
  <2>2. (a \o b)[k] = a[k]
    BY <1>2, <1>3, <2>1, ConcatElements
  <2>3. QED
    BY <1>2, <1>5, <2>1, <2>2
<1>6. CASE ~ (k < i)
  <2>1. k \in (Len(a) + 1)..(Len(a) + Len(b)) /\ k - Len(a) \in 1..(Len(s) - i)
        /\ (k - Len(a)) + i = k + 1
    <3>1. /\ k \in (i - 1 + 1)..(i - 1 + (Len(s) - i))
          /\ k - (i - 1) \in 1..(Len(s) - i) /\ (k - (i - 1)) + i = k + 1
      BY <1>1, <1>6
    <3>2. Len(a) = i - 1 /\ Len(b) = Len(s) - i
      BY <1>2, <1>3
    <3>3. QED
      BY <3>1, <3>2, Zenon
  <2>2. (a \o b)[k] = b[k - Len(a)]
    BY <1>2, <1>3, <2>1, ConcatElements
  <2>3. b[k - Len(a)] = s[(k - Len(a)) + i]
    BY <1>3, <2>1
  <2>4. QED
    BY <1>6, <2>1, <2>2, <2>3
<1>7. QED
  BY <1>5, <1>6

LEMMA OwnersAreDistinct ==
    ASSUME NEW g \in Turns, NEW lp \in Seq(Nat), NEW events \in Seq(ChainEvent),
           Owned(events, g, lp)
    PROVE  Len(events) <= Cardinality({a \in Server : g[a] > 0})
                            + Cardinality({i \in DOMAIN lp : lp[i] > 0})
<1> DEFINE n == Len(events)
           A == {a \in Server : g[a] > 0}
           M == {k \in Callers(lp) : k <= 0 /\ g[-k] > 0}
           B == {i \in DOMAIN lp : lp[i] > 0}
           f == [a \in A |-> -a]
<1>1. PICK own : OwnedBy(own, events, g, lp)
  BY DEF Owned
<1>2. n \in Nat /\ Len(lp) \in Nat /\ DOMAIN lp = 1..Len(lp) /\ OldAps \in Nat
  BY StaBounds
<1>3. own \in Seq(Callers(lp)) /\ Len(own) = n /\ \A i, j \in 1..n : own[i] = own[j] => i = j
  BY <1>1 DEF OwnedBy
<1>4. ASSUME NEW i \in 1..n
      PROVE  own[i] \in M \cup B
  <2>1. events[i].left \in Nat /\ events[i].remaining \in Nat \ {0}
    <3>1. events[i] \in ChainEvent
      OBVIOUS
    <3>2. QED
      BY <3>1 DEF ChainEvent
  <2>2. events[i].left + events[i].remaining <= Wait(own[i], g, lp)
    BY <1>1 DEF OwnedBy
  <2>3. PICK k \in Callers(lp) : k = own[i]
    BY <1>3
  <2>4. k \in (-OldAps)..Len(lp)
    BY <2>3 DEF Callers
  <2>5. CASE k <= 0
    <3>1. -k \in Server
      BY <1>2, <2>4, <2>5 DEF Server
    <3>2. g[-k] \in Nat /\ Wait(k, g, lp) = g[-k]
      BY <2>5, <3>1 DEF Turns, Wait
    <3>3. g[-k] > 0
      BY <2>1, <2>2, <2>3, <3>2
    <3>4. QED
      BY <2>3, <2>5, <3>3
  <2>6. CASE ~ (k <= 0)
    <3>1. k \in DOMAIN lp /\ lp[k] \in Nat
      BY <1>2, <2>4, <2>6
    <3>2. lp[k] > 0
      BY <2>1, <2>2, <2>3, <2>6, <3>1 DEF Wait
    <3>3. QED
      BY <2>3, <3>1, <3>2
  <2>7. QED
    BY <2>5, <2>6
<1>5. IsFiniteSet(A) /\ IsFiniteSet(B)
  <2>1. IsFiniteSet(0..OldAps) /\ IsFiniteSet(1..Len(lp))
    <3>1. 0 \in Int /\ 1 \in Int /\ OldAps \in Int /\ Len(lp) \in Int
      BY <1>2
    <3>2. QED
      BY <3>1, FS_Interval
  <2>2. QED
    BY <1>2, <2>1, FS_Subset DEF Server
<1>6. f \in Surjection(A, M)
  <2>1. ASSUME NEW a \in A
        PROVE  -a \in M
    <3>1. a \in 0..OldAps
      BY DEF Server
    <3>2. -a \in (-OldAps)..Len(lp) /\ -a <= 0 /\ -(-a) = a
      BY <1>2, <3>1
    <3>3. g[-(-a)] > 0
      BY <3>2
    <3>4. QED
      BY <3>2, <3>3 DEF Callers
  <2>2. ASSUME NEW k \in M
        PROVE  -k \in A /\ -(-k) = k
    <3>1. k \in (-OldAps)..Len(lp) /\ k <= 0
      BY DEF Callers
    <3>2. QED
      BY <1>2, <3>1 DEF Server
  <2> HIDE DEF A, M
  <2>3. QED
    BY <2>1, <2>2 DEF Surjection
<1>7. M \cap B = {}
  BY <1>2
<1> HIDE DEF n, A, M, B, f
<1>8. IsFiniteSet(M) /\ Cardinality(M) <= Cardinality(A)
  BY <1>5, <1>6, FS_Surjection
<1>9. IsFiniteSet(M \cup B)
      /\ Cardinality(M \cup B) = Cardinality(M) + Cardinality(B) - Cardinality(M \cap B)
  BY <1>5, <1>8, FS_Union
<1>10. Cardinality(M \cap B) = 0
  BY <1>7, FS_EmptySet
<1>11. IsFiniteSet(1..n) /\ Cardinality(1..n) = n
  BY <1>2, IntervalCounts
<1>12. own \in Injection(1..n, M \cup B)
  <2>1. own \in [1..n -> M \cup B]
    BY <1>2, <1>3, <1>4
  <2>2. QED
    BY <1>3, <2>1 DEF Injection, IsInjective
<1>13. Cardinality(1..n) <= Cardinality(M \cup B)
  BY <1>9, <1>12, FS_Injection
<1>14. Cardinality(A) \in Nat /\ Cardinality(M) \in Nat /\ Cardinality(B) \in Nat
  BY <1>5, <1>8, FS_CardinalityType
<1>15. n <= Cardinality(A) + Cardinality(B)
  BY <1>2, <1>8, <1>9, <1>10, <1>11, <1>13, <1>14
<1>16. QED
  BY <1>15 DEF n, A, B

(* A chain that is added has a caller that no other has.                   *)
LEMMA ChainAdded ==
    ASSUME NEW g, NEW lp \in Seq(Nat), NEW events \in Seq(ChainEvent), NEW e \in ChainEvent,
           NEW own, OwnedBy(own, events, g, lp), NEW k \in Callers(lp),
           \A i \in 1..Len(events) : own[i] # k,
           e.left + e.remaining <= Wait(k, g, lp)
    PROVE  Owned(Append(events, e), g, lp)
<1> DEFINE n == Len(events)
           o == Append(own, k)
           v == Append(events, e)
<1>1. own \in Seq(Callers(lp)) /\ Len(own) = n /\ n \in Nat
  BY DEF OwnedBy
<1>2. /\ o \in Seq(Callers(lp)) /\ Len(o) = n + 1 /\ Len(v) = n + 1
      /\ \A i \in 1..n : o[i] = own[i] /\ v[i] = events[i]
      /\ o[n + 1] = k /\ v[n + 1] = e
  BY <1>1
<1> HIDE DEF n, o, v
<1>3. \A i \in 1..(n + 1) : i \in 1..n \/ i = n + 1
  BY <1>1
<1>4. \A i, j \in 1..n : own[i] = own[j] => i = j
  BY DEF OwnedBy, n
<1>5. \A i \in 1..n : own[i] # k
  BY DEF n
<1>6. \A i, j \in 1..(n + 1) : o[i] = o[j] => i = j
  BY <1>2, <1>3, <1>4, <1>5
<1>7. \A i \in 1..n : events[i].left + events[i].remaining <= Wait(own[i], g, lp)
  BY DEF OwnedBy, n
<1>8. ASSUME NEW i \in 1..(n + 1)
      PROVE  v[i].left + v[i].remaining <= Wait(o[i], g, lp)
  BY <1>2, <1>3, <1>7
<1>9. OwnedBy(o, v, g, lp)
  BY <1>2, <1>6, <1>8 DEF OwnedBy
<1>10. QED
  BY <1>2, <1>9 DEF Owned, v

(* Without one of the chains its caller is free.                           *)
LEMMA ChainRemoved ==
    ASSUME NEW g, NEW lp \in Seq(Nat), NEW events \in Seq(ChainEvent),
           NEW own, OwnedBy(own, events, g, lp), NEW i \in DOMAIN events
    PROVE  /\ OwnedBy(RemoveAt(own, i), RemoveAt(events, i), g, lp)
           /\ \A j \in 1..(Len(events) - 1) : RemoveAt(own, i)[j] # own[i]
<1> DEFINE n == Len(events)
           o == RemoveAt(own, i)
           v == RemoveAt(events, i)
           at(j) == IF j < i THEN j ELSE j + 1
<1>1. own \in Seq(Callers(lp)) /\ Len(own) = n /\ n \in Nat /\ i \in 1..n
      /\ i \in DOMAIN own
  BY DEF OwnedBy
<1>2. o \in Seq(Callers(lp)) /\ Len(o) = n - 1 /\ Len(v) = n - 1
  BY <1>1, RemoveAtShortens
<1>3. \A j \in 1..(n - 1) : o[j] = own[at(j)] /\ v[j] = events[at(j)]
  BY <1>1, RemoveAtElements
<1> HIDE DEF o, v
<1>4. \A j \in 1..(n - 1) : at(j) \in 1..n /\ at(j) # i
  BY <1>1
<1>5. \A j, k \in 1..(n - 1) : at(j) = at(k) => j = k
  BY <1>1
<1> HIDE DEF at
<1>6. \A j, k \in 1..n : own[j] = own[k] => j = k
  BY DEF OwnedBy
<1>7. \A j \in 1..n : events[j].left + events[j].remaining <= Wait(own[j], g, lp)
  BY DEF OwnedBy
<1> HIDE DEF n
<1>8. \A j, k \in 1..(n - 1) : o[j] = o[k] => j = k
  BY <1>3, <1>4, <1>5, <1>6
<1>9. \A j \in 1..(n - 1) : v[j].left + v[j].remaining <= Wait(o[j], g, lp)
  BY <1>3, <1>4, <1>7
<1>10. OwnedBy(o, v, g, lp)
  BY <1>2, <1>8, <1>9 DEF OwnedBy
<1>11. ASSUME NEW j \in 1..(n - 1) PROVE o[j] # own[i]
  <2>1. at(j) \in 1..n /\ at(j) # i /\ i \in 1..n
    BY <1>1, <1>4
  <2>2. own[at(j)] # own[i]
    BY <1>6, <2>1
  <2>3. QED
    BY <1>3, <2>2
<1>12. QED
  BY <1>10, <1>11 DEF o, v, n

(* Other callers' times do not matter.                                     *)
LEMMA CallersWait ==
    ASSUME NEW g, NEW lp \in Seq(Nat), NEW g2, NEW lp2 \in Seq(Nat),
           NEW events \in Seq(ChainEvent), NEW own, OwnedBy(own, events, g, lp),
           Len(lp) <= Len(lp2),
           \A i \in 1..Len(events) : Wait(own[i], g, lp) = Wait(own[i], g2, lp2)
    PROVE  OwnedBy(own, events, g2, lp2)
<1>1. \A k \in Callers(lp) : k \in Callers(lp2)
  BY StaBounds DEF Callers
<1>2. own \in Seq(Callers(lp2))
  BY <1>1 DEF OwnedBy
<1>3. QED
  BY <1>2 DEF OwnedBy

LEMMA WaitType ==
    ASSUME NEW g \in Turns, NEW lp \in Seq(Nat), NEW k \in Callers(lp)
    PROVE  /\ Wait(k, g, lp) \in Nat
           /\ \/ k <= 0 /\ -k \in Server /\ Wait(k, g, lp) = g[-k]
              \/ ~ (k <= 0) /\ k \in 1..Len(lp) /\ Wait(k, g, lp) = lp[k]
<1>1. k \in (-OldAps)..Len(lp) /\ OldAps \in Nat /\ Len(lp) \in Nat
  BY StaBounds DEF Callers
<1>2. CASE k <= 0
  <2>1. -k \in Server
    BY <1>1, <1>2 DEF Server
  <2>2. QED
    BY <1>2, <2>1 DEF Turns, Wait
<1>3. CASE ~ (k <= 0)
  <2>1. k \in 1..Len(lp)
    BY <1>1, <1>3
  <2>2. QED
    BY <1>3, <2>1 DEF Wait
<1>4. QED
  BY <1>2, <1>3

LEMMA EventsCleaned ==
    ASSUME NEW events \in Seq(ChainEvent)
    PROVE  LET t == AfterCleanup(events) IN
           /\ t \in Seq(ChainEvent) /\ Len(t) = Len(events) /\ DOMAIN t = DOMAIN events
           /\ \A i \in DOMAIN events :
                 t[i].left = events[i].left /\ t[i].remaining = events[i].remaining
<1> DEFINE e(i) == [events[i] EXCEPT !.intact = @ /\ Dropped = 0]
<1>1. AfterCleanup(events) = [i \in DOMAIN events |-> e(i)]
  BY DEF AfterCleanup
<1>2. ASSUME NEW i \in DOMAIN events
      PROVE  /\ e(i) \in ChainEvent
             /\ e(i).left = events[i].left /\ e(i).remaining = events[i].remaining
  <2>1. events[i] \in ChainEvent
    OBVIOUS
  <2>2. (events[i].intact /\ Dropped = 0) \in BOOLEAN
    OBVIOUS
  <2>3. e(i) \in ChainEvent
    BY <2>1, <2>2 DEF ChainEvent
  <2>4. e(i).left = events[i].left /\ e(i).remaining = events[i].remaining
    BY <2>1 DEF ChainEvent
  <2>5. QED
    BY <2>3, <2>4
<1> HIDE DEF e
<1>3. QED
  BY <1>1, <1>2

LEMMA CleanedOwned ==
    ASSUME NEW g, NEW lp \in Seq(Nat), NEW events \in Seq(ChainEvent), NEW own,
           OwnedBy(own, events, g, lp)
    PROVE  OwnedBy(own, AfterCleanup(events), g, lp)
<1>1. \A i \in 1..Len(events) : i \in DOMAIN events
  OBVIOUS
<1>2. QED
  BY <1>1, EventsCleaned DEF OwnedBy

(* StartTransmission uses what it is given up, if it starts a chain.       *)
LEMMA ChainStarts ==
    ASSUME NEW q \in Seq(Packet), NEW b \in Nat
    PROVE  \/ StartTransmission(q, b) = <<>>
           \/ \E e \in ChainEvent : StartTransmission(q, b) = <<e>> /\ e.left + e.remaining = b
<1>1. CASE q # <<>> /\ q[1].tx < b
  <2> DEFINE e == [left |-> q[1].tx, remaining |-> b - q[1].tx,
                   tx |-> q[1].tx, intact |-> TRUE]
  <2>1. q[1] \in Packet
    BY <1>1
  <2>2. q[1].tx \in TxTimes
    BY <2>1 DEF Packet
  <2>3. q[1].tx \in Nat
    BY <2>2, TxAssumption
  <2>4. b - q[1].tx \in Nat \ {0} /\ q[1].tx + (b - q[1].tx) = b
    BY <1>1, <2>3
  <2>5. e \in ChainEvent /\ e.left + e.remaining = b
    BY <2>2, <2>3, <2>4 DEF ChainEvent
  <2>6. StartTransmission(q, b) = <<e>>
    BY <1>1 DEF StartTransmission
  <2> HIDE DEF e
  <2>7. QED
    BY <2>5, <2>6
<1>2. CASE ~ (q # <<>> /\ q[1].tx < b)
  BY <1>2 DEF StartTransmission
<1>3. QED
  BY <1>1, <1>2

LEMMA ConcatWithOne ==
    ASSUME NEW S, NEW s \in Seq(S), NEW e \in S
    PROVE  /\ s \o <<>> = s
           /\ s \o <<e>> = Append(s, e) /\ s \o <<e>> \in Seq(S)
  OBVIOUS

(* A chain may start for a caller that has none under way, and is given    *)
(* no more than until it comes again.                                      *)
LEMMA CallerStarts ==
    ASSUME NEW g, NEW lp \in Seq(Nat), NEW events \in Seq(ChainEvent), NEW own,
           OwnedBy(own, events, g, lp), NEW k \in Callers(lp),
           \A i \in 1..Len(events) : own[i] # k,
           NEW q \in Seq(Packet), NEW b \in Nat, b <= Wait(k, g, lp)
    PROVE  Owned(AfterCleanup(events) \o StartTransmission(q, b), g, lp)
<1> DEFINE v == AfterCleanup(events)
           t == StartTransmission(q, b)
<1>1. v \in Seq(ChainEvent) /\ Len(v) = Len(events) /\ OwnedBy(own, v, g, lp)
  BY CleanedOwned, EventsCleaned
<1>2. t = <<>> \/ \E e \in ChainEvent : t = <<e>> /\ e.left + e.remaining = b
  BY ChainStarts
<1> HIDE DEF v, t
<1>3. Owned(v \o t, g, lp)
  <2>1. CASE t = <<>>
    <3>1. v \o t = v
      BY <1>1, <2>1
    <3>2. QED
      BY <1>1, <3>1 DEF Owned, OwnedBy
  <2>2. ASSUME NEW e \in ChainEvent, t = <<e>>, e.left + e.remaining = b
        PROVE  Owned(v \o t, g, lp)
    <3>1. v \o t = Append(v, e)
      BY <1>1, <2>2, ConcatWithOne
    <3>2. e.left + e.remaining <= Wait(k, g, lp)
      BY <2>2
    <3>3. \A i \in 1..Len(v) : own[i] # k
      BY <1>1
    <3>4. QED
      BY <1>1, <3>1, <3>2, <3>3, ChainAdded
  <2>3. QED
    BY <1>2, <2>1, <2>2
<1>4. QED
  BY <1>3 DEF v, t

LEMMA EventsStart ==
    ASSUME NEW events \in Seq(ChainEvent), NEW q \in Seq(Packet), NEW b \in Nat
    PROVE  AfterCleanup(events) \o StartTransmission(q, b) \in Seq(ChainEvent)
<1> DEFINE v == AfterCleanup(events)
           t == StartTransmission(q, b)
<1>1. v \in Seq(ChainEvent)
  BY EventsCleaned
<1>2. t = <<>> \/ \E e \in ChainEvent : t = <<e>>
  BY ChainStarts
<1> HIDE DEF v, t
<1>3. v \o t \in Seq(ChainEvent)
  <2>1. CASE t = <<>>
    BY <1>1, <2>1
  <2>2. ASSUME NEW e \in ChainEvent, t = <<e>>
        PROVE  v \o t \in Seq(ChainEvent)
    BY <1>1, <2>2, ConcatWithOne
  <2>3. QED
    BY <1>2, <2>1, <2>2
<1>4. QED
  BY <1>3 DEF v, t

(* A caller that comes now has no chain under way.                         *)
LEMMA CallerIsFree ==
    ASSUME NEW g, NEW lp, NEW events \in Seq(ChainEvent), NEW own,
           OwnedBy(own, events, g, lp), NEW k, Wait(k, g, lp) = 0
    PROVE  \A i \in 1..Len(events) : own[i] # k
<1> SUFFICES ASSUME NEW i \in 1..Len(events), own[i] = k
             PROVE  FALSE
  OBVIOUS
<1>1. events[i] \in ChainEvent
  OBVIOUS
<1>2. events[i].left \in Nat /\ events[i].remaining \in Nat \ {0}
  BY <1>1 DEF ChainEvent
<1>3. events[i].left + events[i].remaining <= 0
  BY DEF OwnedBy
<1>4. QED
  BY <1>2, <1>3

(* What Transmit does for a caller that comes now.                         *)
LEMMA TransmitForCaller ==
    ASSUME UplinkInv, NEW b \in Nat, Transmit(b)
    PROVE  /\ m_queue' \in Seq(Packet) /\ sends' \in Seq(ChainEvent)
           /\ \A g, k : \A lp \in Seq(Nat) : \A own :
                 /\ OwnedBy(own, sends, g, lp) /\ k \in Callers(lp)
                 /\ \A i \in 1..Len(sends) : own[i] # k
                 /\ b <= Wait(k, g, lp)
                 => Owned(sends', g, lp)
<1> DEFINE q == Kept(m_queue)
<1>1. q \in Seq(Packet)
  BY KeptType DEF UplinkInv
<1>2. m_queue' = q /\ sends' = AfterCleanup(sends) \o StartTransmission(q, b)
  BY DEF Transmit
<1> HIDE DEF q
<1>3. sends \in Seq(ChainEvent)
  BY DEF UplinkInv
<1>4. sends' \in Seq(ChainEvent)
  BY <1>1, <1>2, <1>3, EventsStart
<1>5. ASSUME NEW g, NEW k, NEW lp \in Seq(Nat), NEW own,
             OwnedBy(own, sends, g, lp), k \in Callers(lp),
             \A i \in 1..Len(sends) : own[i] # k, b <= Wait(k, g, lp)
      PROVE  Owned(sends', g, lp)
  BY <1>1, <1>2, <1>3, <1>5, CallerStarts
<1>6. QED
  BY <1>1, <1>2, <1>4, <1>5

LEMMA BudgetsAreNat ==
    ASSUME UplinkInv
    PROVE  /\ Us \in Nat /\ Slot \in Nat /\ LoopBudget \in Nat
           /\ TransmitAfter \in Nat
           /\ \A a \in Server : /\ (SlotTime + apGuardTime[a]) * Us \in Nat
                               /\ Slot <= (SlotTime + apGuardTime[a]) * Us
<1>1. Us \in Nat /\ SlotTime \in Nat
  BY SlotAssumption
<1>2. m_slotTime \in Nat /\ m_guardTime \in Nat
  BY DEF UplinkInv
<1>3. ASSUME NEW a \in Server
      PROVE  /\ (SlotTime + apGuardTime[a]) * Us \in Nat
             /\ Slot <= (SlotTime + apGuardTime[a]) * Us
  <2>1. PICK t \in Nat : t = apGuardTime[a]
    BY DEF UplinkInv
  <2>2. (SlotTime + t) * Us = SlotTime * Us + t * Us
    BY <1>1
  <2>3. SlotTime * Us \in Nat /\ t * Us \in Nat
    BY <1>1
  <2>4. QED
    BY <2>1, <2>2, <2>3 DEF Slot
<1>4. SlotTime * Us \in Nat
  BY <1>1
<1>5. LoopBudget \in Nat /\ TransmitAfter \in Nat
  <2>1. m_guardTime + m_slotTime \in Nat
    BY <1>2
  <2>2. (m_guardTime + m_slotTime) * Us \in Nat /\ 2 * Us \in Nat
    BY <1>1, <2>1
  <2>3. QED
    BY <2>2 DEF LoopBudget, TransmitAfter
<1>6. QED
  BY <1>1, <1>3, <1>4, <1>5 DEF Slot

LEMMA UplinkInitInv == StaInit => UplinkInv
<1> SUFFICES ASSUME StaInit PROVE UplinkInv
  OBVIOUS
<1>1. /\ m_queue = <<>> /\ sends = <<>> /\ loops = <<>> /\ tight = FALSE
      /\ turns = [a \in Server |-> 0]
      /\ m_slotTime = 20 /\ m_guardTime = 7 /\ apGuardTime = [a \in Server |-> GuardTime]
  BY DEF StaInit, Init
<1>2. OwnedBy(<<>>, <<>>, turns, <<>>)
  BY DEF OwnedBy
<1>3. <<>> \in Seq(Callers(<<>>)) /\ Len(<<>>) = 0
  OBVIOUS
<1>4. Owned(sends, turns, loops)
  BY <1>1, <1>2, <1>3 DEF Owned
<1>5. turns \in Turns
  BY <1>1 DEF Turns
<1>6. QED
  BY <1>1, <1>4, <1>5, SlotAssumption DEF UplinkInv

LEMMA StartTdmaSessionsInv ==
    ASSUME UplinkInv, StartTdmaSessions
    PROVE  UplinkInv'
<1>1. /\ Transmit(LoopBudget)
      /\ loops' = Append(loops, TransmitAfter)
      /\ tight' = (tight \/ TransmitAfter < LoopBudget)
      /\ UNCHANGED <<turns, m_slotTime, m_guardTime, apGuardTime>>
  BY DEF StartTdmaSessions, times
<1>2. TransmitAfter \in Nat /\ LoopBudget \in Nat
  BY BudgetsAreNat
<1> DEFINE n == Len(loops)
           lp == Append(loops, TransmitAfter)
<1>3. /\ loops \in Seq(Nat) /\ n \in Nat /\ turns \in Turns
      /\ lp \in Seq(Nat) /\ Len(lp) = n + 1 /\ lp[n + 1] = TransmitAfter
      /\ \A k \in 1..n : lp[k] = loops[k]
  BY <1>2 DEF UplinkInv
<1> HIDE DEF lp, n
<1>4. ASSUME ~ tight'
      PROVE  Owned(sends', turns, lp)
  <2>1. ~ tight /\ ~ (TransmitAfter < LoopBudget)
    BY <1>1, <1>4
  <2>2. LoopBudget <= Wait(n + 1, turns, lp)
    BY <1>2, <1>3, <2>1 DEF Wait
  <2>3. PICK own : OwnedBy(own, sends, turns, loops)
    BY <2>1 DEF UplinkInv, Owned
  <2>4. \A i \in 1..Len(sends) : own[i] \in Callers(loops)
    BY <2>3 DEF OwnedBy, n
  <2>5. \A k \in Callers(loops) : k <= n /\ (k <= 0 \/ k \in 1..n)
                                /\ Wait(k, turns, loops) = Wait(k, turns, lp)
    <3> SUFFICES ASSUME NEW k \in Callers(loops)
                 PROVE  /\ k <= n /\ (k <= 0 \/ k \in 1..n)
                        /\ Wait(k, turns, loops) = Wait(k, turns, lp)
      OBVIOUS
    <3>1. k \in (-OldAps)..n /\ OldAps \in Nat
      BY StaBounds DEF Callers, n
    <3>2. k <= n /\ (k <= 0 \/ k \in 1..n)
      BY <1>3, <3>1
    <3>3. QED
      BY <1>3, <3>2 DEF Wait
  <2>6. sends \in Seq(ChainEvent)
    BY DEF UplinkInv
  <2>7. OwnedBy(own, sends, turns, lp)
    <3>1. Len(loops) <= Len(lp)
      BY <1>3 DEF n
    <3>2. QED
      BY <1>3, <2>3, <2>4, <2>5, <2>6, <3>1, CallersWait
  <2>8. \A i \in 1..Len(sends) : own[i] # n + 1
    <3>1. ~ (n + 1 <= n)
      BY <1>3
    <3>2. QED
      BY <2>4, <2>5, <3>1
  <2>9. n + 1 \in Callers(lp)
    BY <1>3, StaBounds DEF Callers
  <2>10. QED
    BY <1>1, <1>2, <1>3, <2>2, <2>7, <2>8, <2>9, TransmitForCaller
<1>5. m_queue' \in Seq(Packet) /\ sends' \in Seq(ChainEvent)
  BY <1>1, <1>2, TransmitForCaller
<1>6. loops' = lp /\ turns' = turns
  BY <1>1 DEF lp
<1>7. {m_slotTime, m_guardTime}' \subseteq Nat /\ apGuardTime' \in [Server -> Nat]
  BY <1>1 DEF UplinkInv
<1>8. QED
  BY <1>3, <1>4, <1>5, <1>6, <1>7 DEF UplinkInv

LEMMA TransmitFrameInv ==
    ASSUME UplinkInv, NEW k \in DOMAIN loops, TransmitFrame(k)
    PROVE  UplinkInv'
<1>1. /\ Transmit(LoopBudget)
      /\ loops[k] = 0 /\ loops' = [loops EXCEPT ![k] = TransmitAfter]
      /\ tight' = (tight \/ TransmitAfter < LoopBudget)
      /\ UNCHANGED <<turns, m_slotTime, m_guardTime, apGuardTime>>
  BY DEF TransmitFrame, times
<1>2. TransmitAfter \in Nat /\ LoopBudget \in Nat
  BY BudgetsAreNat
<1> DEFINE n == Len(loops)
           lp == [loops EXCEPT ![k] = TransmitAfter]
<1>3. /\ loops \in Seq(Nat) /\ n \in Nat /\ turns \in Turns /\ k \in 1..n /\ k # 0
      /\ lp \in Seq(Nat) /\ Len(lp) = n /\ lp[k] = TransmitAfter
      /\ \A j \in 1..n : j # k => lp[j] = loops[j]
  BY <1>2 DEF UplinkInv
<1> HIDE DEF lp, n
<1>4. ASSUME ~ tight'
      PROVE  Owned(sends', turns, lp)
  <2>1. ~ tight /\ ~ (TransmitAfter < LoopBudget)
    BY <1>1, <1>4
  <2>2. LoopBudget <= Wait(k, turns, lp)
    BY <1>2, <1>3, <2>1 DEF Wait
  <2>3. PICK own : OwnedBy(own, sends, turns, loops)
    BY <2>1 DEF UplinkInv, Owned
  <2>4. \A i \in 1..Len(sends) : own[i] \in Callers(loops)
    BY <2>3 DEF OwnedBy, n
  <2>5. sends \in Seq(ChainEvent)
    BY DEF UplinkInv
  <2>6. \A i \in 1..Len(sends) : own[i] # k
    <3>1. Wait(k, turns, loops) = 0
      BY <1>1, <1>3 DEF Wait
    <3>2. QED
      BY <2>3, <2>5, <3>1, CallerIsFree
  <2>7. ASSUME NEW j \in Callers(loops), j # k
        PROVE  Wait(j, turns, loops) = Wait(j, turns, lp)
    <3>1. j \in (-OldAps)..n /\ OldAps \in Nat
      BY StaBounds DEF Callers, n
    <3>2. j <= 0 \/ j \in 1..n
      BY <1>3, <3>1
    <3>3. QED
      BY <1>3, <2>7, <3>2 DEF Wait
  <2>8. OwnedBy(own, sends, turns, lp)
    <3>1. Len(loops) <= Len(lp)
      BY <1>3 DEF n
    <3>2. QED
      BY <1>3, <2>3, <2>4, <2>5, <2>6, <2>7, <3>1, CallersWait
  <2>9. k \in Callers(lp)
    BY <1>3, StaBounds DEF Callers
  <2>10. QED
    BY <1>1, <1>2, <1>3, <2>2, <2>6, <2>8, <2>9, TransmitForCaller
<1>5. m_queue' \in Seq(Packet) /\ sends' \in Seq(ChainEvent)
  BY <1>1, <1>2, TransmitForCaller
<1>6. loops' = lp /\ turns' = turns
  BY <1>1 DEF lp
<1>7. {m_slotTime, m_guardTime}' \subseteq Nat /\ apGuardTime' \in [Server -> Nat]
  BY <1>1 DEF UplinkInv
<1>8. QED
  BY <1>3, <1>4, <1>5, <1>6, <1>7 DEF UplinkInv

LEMMA UplinkSlotInv ==
    ASSUME UplinkInv, NEW a \in Server, UplinkSlot(a)
    PROVE  UplinkInv'
<1> DEFINE t == (SlotTime + apGuardTime[a]) * Us
           g == [turns EXCEPT ![a] = t]
           k == -a
<1>1. /\ turns[a] = 0 /\ Transmit(Slot) /\ turns' = g
      /\ UNCHANGED <<loops, tight, m_slotTime, m_guardTime, apGuardTime>>
  BY DEF UplinkSlot, times, history
<1>2. Slot \in Nat /\ t \in Nat /\ Slot <= t
  BY BudgetsAreNat
<1> HIDE DEF t
<1>3. /\ turns \in Turns /\ g \in Turns /\ g[a] = t
      /\ \A b \in Server : b # a => g[b] = turns[b]
  BY <1>2 DEF UplinkInv, Turns
<1>4. /\ sends \in Seq(ChainEvent) /\ loops \in Seq(Nat) /\ Len(loops) \in Nat
      /\ k \in Callers(loops) /\ k <= 0 /\ -k = a
      /\ \A j \in Callers(loops) : -j = a => j = k
  BY StaBounds DEF UplinkInv, Server, Callers
<1> HIDE DEF g, k
<1>5. ASSUME ~ tight
      PROVE  Owned(sends', g, loops)
  <2>1. PICK own : OwnedBy(own, sends, turns, loops)
    BY <1>5 DEF UplinkInv, Owned
  <2>2. \A i \in 1..Len(sends) : own[i] \in Callers(loops)
    BY <2>1 DEF OwnedBy
  <2>3. \A i \in 1..Len(sends) : own[i] # k
    <3>1. Wait(k, turns, loops) = 0
      BY <1>1, <1>4 DEF Wait
    <3>2. QED
      BY <1>4, <2>1, <3>1, CallerIsFree
  <2>4. ASSUME NEW j \in Callers(loops), j # k
        PROVE  Wait(j, turns, loops) = Wait(j, g, loops)
    <3>1. CASE j <= 0
      <4>1. -j \in Server /\ -j # a
        BY <1>3, <1>4, <2>4, <3>1, WaitType
      <4>2. QED
        BY <1>3, <3>1, <4>1 DEF Wait
    <3>2. CASE ~ (j <= 0)
      BY <3>2 DEF Wait
    <3>3. QED
      BY <3>1, <3>2
  <2>5. OwnedBy(own, sends, g, loops)
    <3>1. Len(loops) <= Len(loops)
      BY <1>4
    <3>2. QED
      BY <1>4, <2>1, <2>2, <2>3, <2>4, <3>1, CallersWait
  <2>6. Slot <= Wait(k, g, loops)
    BY <1>2, <1>3, <1>4 DEF Wait
  <2>7. QED
    BY <1>1, <1>2, <1>4, <2>3, <2>5, <2>6, TransmitForCaller
<1>6. m_queue' \in Seq(Packet) /\ sends' \in Seq(ChainEvent)
  BY <1>1, <1>2, TransmitForCaller
<1>7. QED
  BY <1>1, <1>3, <1>5, <1>6 DEF UplinkInv

LEMMA UplinkArrivesInv ==
    ASSUME UplinkInv, NEW p \in Packet, Queue(p),
           UNCHANGED <<turns, loops, tight, m_slotTime, m_guardTime, apGuardTime>>
    PROVE  UplinkInv'
<1> DEFINE q == Kept(m_queue)
<1>1. q \in Seq(Packet)
  BY KeptType DEF UplinkInv
<1>2. /\ m_queue' = q \/ m_queue' = Append(q, p)
      /\ sends' = AfterCleanup(sends)
  BY DEF Queue
<1> HIDE DEF q
<1>3. m_queue' \in Seq(Packet)
  BY <1>1, <1>2
<1>4. sends' \in Seq(ChainEvent)
  BY <1>2, EventsCleaned DEF UplinkInv
<1>5. ASSUME ~ tight
      PROVE  Owned(sends', turns, loops)
  <2>1. PICK own : OwnedBy(own, sends, turns, loops)
    BY <1>5 DEF UplinkInv, Owned
  <2>2. sends \in Seq(ChainEvent) /\ loops \in Seq(Nat)
    BY DEF UplinkInv
  <2>3. OwnedBy(own, sends', turns, loops)
    BY <1>2, <2>1, <2>2, CleanedOwned
  <2>4. QED
    BY <2>3 DEF Owned, OwnedBy
<1>6. QED
  BY <1>2, <1>3, <1>4, <1>5 DEF UplinkInv

LEMMA HandDownInv ==
    ASSUME UplinkInv, NEW i \in DOMAIN sends, SendPacketDown(i),
           UNCHANGED <<turns, loops, tight, m_slotTime, m_guardTime, apGuardTime>>
    PROVE  UplinkInv'
<1> DEFINE kept == Kept(m_queue)
           q == IF kept = <<>> THEN <<>> ELSE Tail(kept)
           b == (sends[i].remaining \div Us) * Us
           ev == RemoveAt(sends, i)
<1>1. sends \in Seq(ChainEvent) /\ loops \in Seq(Nat) /\ turns \in Turns
  BY DEF UplinkInv
<1>2. /\ m_queue' = q /\ sends[i].left = 0
      /\ sends' = AfterCleanup(ev) \o StartTransmission(q, b)
  BY DEF SendPacketDown
<1>3. q \in Seq(Packet)
  <2>1. kept \in Seq(Packet)
    BY KeptType DEF UplinkInv
  <2> HIDE DEF kept
  <2>2. QED
    BY <2>1
<1>4. sends[i].remaining \in Nat /\ b \in Nat /\ b <= sends[i].remaining
  <2>1. sends[i] \in ChainEvent
    BY <1>1
  <2>2. sends[i].remaining \in Nat
    BY <2>1 DEF ChainEvent
  <2>3. QED
    BY <2>2, WholeMicroseconds
<1>5. ev \in Seq(ChainEvent) /\ Len(ev) = Len(sends) - 1
  BY <1>1, RemoveAtShortens
<1> HIDE DEF kept, q, b, ev
<1>6. sends' \in Seq(ChainEvent)
  BY <1>2, <1>3, <1>4, <1>5, EventsStart
<1>7. ASSUME ~ tight
      PROVE  Owned(sends', turns, loops)
  <2>1. PICK own : OwnedBy(own, sends, turns, loops)
    BY <1>7 DEF UplinkInv, Owned
  <2>2. i \in 1..Len(sends) /\ own[i] \in Callers(loops)
    BY <1>1, <2>1 DEF OwnedBy
  <2>3. /\ OwnedBy(RemoveAt(own, i), ev, turns, loops)
        /\ \A j \in 1..Len(ev) : RemoveAt(own, i)[j] # own[i]
    BY <1>1, <1>5, <2>1, ChainRemoved DEF ev
  <2>4. b <= Wait(own[i], turns, loops)
    <3>1. sends[i].left + sends[i].remaining <= Wait(own[i], turns, loops)
      BY <2>1, <2>2 DEF OwnedBy
    <3>2. Wait(own[i], turns, loops) \in Nat
      BY <1>1, <2>2, WaitType
    <3>3. QED
      BY <1>2, <1>4, <3>1, <3>2
  <2>5. Owned(AfterCleanup(ev) \o StartTransmission(q, b), turns, loops)
    BY <1>1, <1>3, <1>4, <1>5, <2>2, <2>3, <2>4, CallerStarts
  <2>6. QED
    BY <1>2, <2>5
<1>8. QED
  BY <1>2, <1>3, <1>6, <1>7 DEF UplinkInv

(* The queue grows older, and remains a queue of packets.                  *)
LEMMA QueueAges ==
    ASSUME m_queue \in Seq(Packet), Tick
    PROVE  m_queue' \in Seq(Packet)
<1> DEFINE older(p) == [p EXCEPT !.age = IF @ < MaxDelay THEN @ + 1 ELSE MaxDelay]
<1>1. m_queue' = [i \in DOMAIN m_queue |-> older(m_queue[i])]
  BY DEF Tick
<1>2. ASSUME NEW p \in Packet
      PROVE  older(p) \in Packet
  <2>1. p.age \in 0..MaxDelay /\ MaxDelay \in Nat
    BY DelayAssumption DEF Packet
  <2>2. (IF p.age < MaxDelay THEN p.age + 1 ELSE MaxDelay) \in 0..MaxDelay
    BY <2>1
  <2>3. QED
    BY <2>2 DEF Packet
<1> HIDE DEF older
<1>3. QED
  BY <1>1, <1>2

LEMMA StaTickInv ==
    ASSUME UplinkInv, StaTick
    PROVE  UplinkInv'
<1> DEFINE nearer(e) == [e EXCEPT !.left = @ - 1]
           g == [a \in Server |-> IF turns[a] > 0 THEN turns[a] - 1 ELSE 0]
           ev == [i \in DOMAIN sends |-> nearer(sends[i])]
           lp == [i \in DOMAIN loops |-> loops[i] - 1]
<1>1. /\ \A i \in DOMAIN loops : loops[i] > 0
      /\ \A i \in DOMAIN sends : sends[i].left > 0
      /\ sends' = ev /\ turns' = g /\ loops' = lp
      /\ UNCHANGED <<tight, m_slotTime, m_guardTime, apGuardTime>>
  BY DEF StaTick, Tick, times, history
<1>2. sends \in Seq(ChainEvent) /\ loops \in Seq(Nat) /\ turns \in Turns
  BY DEF UplinkInv
<1>3. ASSUME NEW i \in DOMAIN sends
      PROVE  /\ nearer(sends[i]) \in ChainEvent
             /\ sends[i].left \in Nat /\ sends[i].remaining \in Nat \ {0}
             /\ nearer(sends[i]).left = sends[i].left - 1
             /\ nearer(sends[i]).remaining = sends[i].remaining
  <2>1. sends[i] \in ChainEvent /\ sends[i].left > 0
    BY <1>1, <1>2
  <2>2. sends[i].left \in Nat /\ sends[i].remaining \in Nat \ {0}
    BY <2>1 DEF ChainEvent
  <2>3. sends[i].left - 1 \in Nat
    BY <2>1, <2>2
  <2>4. QED
    BY <2>1, <2>2, <2>3 DEF ChainEvent
<1> HIDE DEF nearer
<1>4. /\ ev \in Seq(ChainEvent) /\ Len(ev) = Len(sends)
      /\ \A i \in 1..Len(sends) : i \in DOMAIN sends /\ ev[i] = nearer(sends[i])
  BY <1>2, <1>3
<1>5. /\ lp \in Seq(Nat) /\ Len(lp) = Len(loops)
      /\ \A i \in 1..Len(loops) : lp[i] = loops[i] - 1
  <2>1. \A i \in DOMAIN loops : loops[i] - 1 \in Nat
    BY <1>1, <1>2
  <2>2. /\ lp \in Seq(Nat) /\ Len(lp) = Len(loops)
        /\ \A i \in 1..Len(loops) : lp[i] = loops[i] - 1
    BY <1>2, <2>1
  <2>3. QED
    BY <2>2
<1>6. /\ g \in Turns
      /\ \A a \in Server : turns[a] \in Nat /\ (turns[a] > 0 => g[a] = turns[a] - 1)
  BY <1>2 DEF Turns
<1>7. m_queue' \in Seq(Packet)
  BY QueueAges DEF UplinkInv, StaTick
<1>8. ASSUME ~ tight
      PROVE  Owned(ev, g, lp)
  <2>1. PICK own : OwnedBy(own, sends, turns, loops)
    BY <1>8 DEF UplinkInv, Owned
  <2>2. /\ own \in Seq(Callers(loops)) /\ Len(own) = Len(sends)
        /\ \A i, j \in 1..Len(sends) : own[i] = own[j] => i = j
    BY <2>1 DEF OwnedBy
  <2>3. ASSUME NEW i \in 1..Len(sends)
        PROVE  ev[i].left + ev[i].remaining <= Wait(own[i], g, lp)
    <3>1. own[i] \in Callers(loops)
      BY <2>2
    <3>2. PICK l \in Nat : l = sends[i].left
      BY <1>3, <1>4
    <3>3. PICK r \in Nat \ {0} : r = sends[i].remaining
      BY <1>3, <1>4
    <3>4. l > 0 /\ ev[i].left = l - 1 /\ ev[i].remaining = r
      BY <1>1, <1>3, <1>4, <3>2, <3>3
    <3>5. l + r <= Wait(own[i], turns, loops)
      BY <2>1, <3>2, <3>3 DEF OwnedBy
    <3>6. CASE own[i] <= 0
      <4>1. -own[i] \in Server /\ Wait(own[i], turns, loops) = turns[-own[i]]
        BY <1>2, <3>1, <3>6, WaitType
      <4>2. PICK a \in Server : a = -own[i]
        BY <4>1
      <4>3. PICK t \in Nat : t = turns[a]
        BY <1>6
      <4>4. l + r <= t
        BY <3>5, <4>1, <4>2, <4>3
      <4>5. t > 0 /\ (l - 1) + r <= t - 1
        BY <3>4, <4>4
      <4>6. Wait(own[i], g, lp) = t - 1
        BY <1>6, <3>6, <4>2, <4>3, <4>5 DEF Wait
      <4>7. QED
        BY <3>4, <4>5, <4>6
    <3>7. CASE ~ (own[i] <= 0)
      <4>1. own[i] \in 1..Len(loops) /\ Wait(own[i], turns, loops) = loops[own[i]]
        BY <1>2, <3>1, <3>7, WaitType
      <4>2. PICK k \in 1..Len(loops) : k = own[i]
        BY <4>1
      <4>3. PICK t \in Nat : t = loops[k]
        BY <1>2
      <4>4. l + r <= t
        BY <3>5, <4>1, <4>2, <4>3
      <4>5. Wait(own[i], g, lp) = t - 1
        BY <1>5, <3>7, <4>2, <4>3 DEF Wait
      <4>6. (l - 1) + r <= t - 1
        BY <3>4, <4>4
      <4>7. QED
        BY <3>4, <4>5, <4>6
    <3>8. QED
      BY <3>6, <3>7
  <2> HIDE DEF ev, g, lp
  <2>4. own \in Seq(Callers(lp)) /\ Len(own) = Len(ev)
    BY <1>4, <1>5, <2>2 DEF Callers
  <2>5. OwnedBy(own, ev, g, lp)
    BY <1>4, <2>2, <2>3, <2>4 DEF OwnedBy
  <2>6. QED
    BY <2>4, <2>5 DEF Owned
<1> HIDE DEF ev, g, lp
<1>9. {m_slotTime, m_guardTime}' \subseteq Nat /\ apGuardTime' \in [Server -> Nat]
  BY <1>1 DEF UplinkInv
<1>10. QED
  BY <1>1, <1>4, <1>5, <1>6, <1>7, <1>8, <1>9 DEF UplinkInv

LEMMA UplinkNextInv == UplinkInv /\ [StaNext]_staVars => UplinkInv'
<1> SUFFICES ASSUME UplinkInv, [StaNext]_staVars
             PROVE  UplinkInv'
  OBVIOUS
<1>1. ASSUME NEW time \in Times,
             \/ SetSlotTime(time) \/ SetGuardTime(time)
             \/ \E a \in Server : SetApGuardTime(a, time)
      PROVE  UplinkInv'
  <2>1. time \div Us \in Nat
    BY SlotAssumption, TimesAssumption
  <2>2. m_slotTime \in Nat /\ m_guardTime \in Nat /\ apGuardTime \in [Server -> Nat]
    BY DEF UplinkInv
  <2>3. /\ UNCHANGED <<vars, turns, loops, tight>>
        /\ m_slotTime' \in {m_slotTime, time \div Us}
        /\ m_guardTime' \in {m_guardTime, time \div Us}
        /\ \/ apGuardTime' = apGuardTime
           \/ \E a \in Server : apGuardTime' = [apGuardTime EXCEPT ![a] = time \div Us]
    BY <1>1 DEF SetSlotTime, SetGuardTime, SetApGuardTime, history, callers
  <2>4. UNCHANGED <<m_queue, sends, turns, loops, tight>>
    BY <2>3 DEF vars
  <2>5. {m_slotTime, m_guardTime}' \subseteq Nat /\ apGuardTime' \in [Server -> Nat]
    BY <2>1, <2>2, <2>3
  <2>6. QED
    BY <2>4, <2>5 DEF UplinkInv
<1>2. ASSUME UplinkArrives
      PROVE  UplinkInv'
  <2>1. PICK tx \in TxTimes : Queue([tx |-> tx, age |-> 0, marked |-> FALSE])
    BY <1>2 DEF UplinkArrives
  <2>2. [tx |-> tx, age |-> 0, marked |-> FALSE] \in Packet
    BY DelayAssumption DEF Packet
  <2>3. UNCHANGED <<turns, loops, tight, m_slotTime, m_guardTime, apGuardTime>>
    BY <1>2 DEF UplinkArrives, times, callers
  <2>4. QED
    BY <2>1, <2>2, <2>3, UplinkArrivesInv
<1>3. ASSUME NEW i \in DOMAIN sends, HandDown(i)
      PROVE  UplinkInv'
  BY <1>3, HandDownInv DEF HandDown, times, callers, history
<1>4. ASSUME UNCHANGED staVars
      PROVE  UplinkInv'
  BY <1>4 DEF staVars, vars, times, callers, history, UplinkInv
<1>5. QED
  BY <1>1, <1>2, <1>3, <1>4, StartTdmaSessionsInv, TransmitFrameInv, UplinkSlotInv,
     StaTickInv DEF StaNext

LEMMA UplinkInvChains == UplinkInv => ChainPerCaller
<1> SUFFICES ASSUME UplinkInv, ~ tight
             PROVE  Len(sends) <= Cardinality({a \in Server : turns[a] > 0})
                                    + Cardinality({i \in DOMAIN loops : loops[i] > 0})
  BY DEF ChainPerCaller
<1>1. turns \in Turns /\ sends \in Seq(ChainEvent) /\ loops \in Seq(Nat)
      /\ Owned(sends, turns, loops)
  BY DEF UplinkInv
<1>2. QED
  BY <1>1, OwnersAreDistinct

(* Each caller of StartTransmission, the access points that serve the      *)
(* station and its own loops, has one chain of packets under way at most,  *)
(* and ends it before it comes again, as long as no loop comes again       *)
(* within its 2 us: for any number of access points.                       *)
THEOREM CallersHaveOneChain == StaSpec => []ChainPerCaller
<1>1. StaSpec => []UplinkInv
  BY UplinkInitInv, UplinkNextInv, PTL DEF StaSpec
<1>2. QED
  BY <1>1, UplinkInvChains, PTL

-----------------------------------------------------------------------------
(* The books of the controller.                                            *)

(* Who registered a user first, in the order of now, and that alone.       *)
ReportsInv ==
    /\ order \in Seq(Network)
    /\ simTimes \in [Model -> Nat] /\ heard \in [BookUser -> Nat]
    /\ series \in [Model -> [snrVect : Nat, errRateVect : Nat, lossVect : Nat,
                             throughputVect : Nat]]
    /\ \A u \in BookUser : IsFiniteSet(Reports(u)) /\ Cardinality(Reports(u)) = heard[u]
    /\ \A m \in Model :
          /\ series[m].snrVect = series[m].errRateVect
          /\ series[m].snrVect = series[m].lossVect
          /\ series[m].snrVect <= simTimes[m]

RxInv ==
    /\ rxBytesVector \in [Model -> Seq(Nat)] /\ totalRx \in [BookUser -> Nat]
    /\ carried \in [Model -> Int] /\ skipped \in [Model -> Int]
    /\ \A m \in Model : rxBytesVector[m] # <<>>
    /\ ThroughputTelescopes

RoutesInv ==
    /\ routeTable \in Seq(BookUser) /\ wifiAddresses \in [BookUser -> Int]
    /\ RoutesAccounted

ApsInv ==
    /\ m_lifiApNetDevicesVector \in [Model -> Seq(ApId)]
    /\ given \in [Model -> Nat] /\ firstAp \in [Model -> ApId \cup {0}]
    /\ \A m \in Model :
          LET ids == m_lifiApNetDevicesVector[m] IN
          IF given[m] = 0 THEN ids = <<>> /\ firstAp[m] = 0
          ELSE ids # <<>> /\ Last(ids) = firstAp[m] /\ firstAp[m] # 0

BooksInv == ReportsInv /\ RxInv /\ RoutesInv /\ ApsInv

LEMMA BooksInvBalances == BooksInv => BooksBalance
<1> SUFFICES ASSUME BooksInv PROVE BooksBalance
  OBVIOUS
<1>1. ASSUME NEW m \in Model, given[m] > 0
      PROVE  GetCurrentAPID(m) = firstAp[m]
  <2>1. given[m] # 0
    BY <1>1 DEF BooksInv, ApsInv
  <2>2. QED
    BY <2>1 DEF BooksInv, ApsInv, GetCurrentAPID
<1>2. CurrentIsFirst
  BY <1>1 DEF CurrentIsFirst, BooksInv, ReportsInv
<1>3. ReportsAccounted /\ ThroughputTelescopes /\ RoutesAccounted
  BY DEF BooksInv, ReportsInv, RxInv, RoutesInv, ReportsAccounted
<1>4. QED
  BY <1>2, <1>3 DEF BooksBalance

LEMMA RoutesAreFinite ==
    ASSUME NEW table \in Seq(BookUser), NEW u
    PROVE  /\ IsFiniteSet({i \in DOMAIN table : table[i] = u})
           /\ RoutesTo(u, table) \in Nat
<1>1. Len(table) \in Nat /\ DOMAIN table = 1..Len(table)
  OBVIOUS
<1>2. IsFiniteSet(1..Len(table))
  BY <1>1, IntervalCounts
<1>3. IsFiniteSet({i \in DOMAIN table : table[i] = u})
  BY <1>1, <1>2, FS_Subset
<1>4. QED
  BY <1>3, FS_CardinalityType DEF RoutesTo

LEMMA BooksInitInv == BooksInit => BooksInv
<1> SUFFICES ASSUME BooksInit PROVE BooksInv
  OBVIOUS
<1>1. ReportsInv
  <2>1. /\ order = <<>> /\ simTimes = [m \in Model |-> 0] /\ heard = [u \in BookUser |-> 0]
        /\ series = [m \in Model |-> NoSeries]
    BY DEF BooksInit
  <2>2. ASSUME NEW u \in BookUser
        PROVE  Reports(u) = {}
    <3>1. \A m \in Network \X {u} : m \in Model /\ simTimes[m] = 0
      BY <2>1 DEF Model
    <3>2. 1..0 = {}
      OBVIOUS
    <3>3. \A m \in Network \X {u} : {m} \X (1..simTimes[m]) = {}
      BY <3>1, <3>2
    <3>4. QED
      BY <3>3 DEF Reports
  <2>3. order \in Seq(Network)
    BY <2>1
  <2>4. NoSeries \in [snrVect : Nat, errRateVect : Nat, lossVect : Nat, throughputVect : Nat]
    BY DEF NoSeries
  <2>5. \A u \in BookUser : IsFiniteSet(Reports(u)) /\ Cardinality(Reports(u)) = heard[u]
    BY <2>1, <2>2, FS_EmptySet
  <2>6. NoSeries.snrVect = 0 /\ NoSeries.errRateVect = 0 /\ NoSeries.lossVect = 0
    BY DEF NoSeries
  <2>7. QED
    BY <2>1, <2>3, <2>4, <2>5, <2>6 DEF ReportsInv
<1>2. RxInv
  <2>1. /\ rxBytesVector = [m \in Model |-> <<0>>] /\ totalRx = [u \in BookUser |-> 0]
        /\ carried = [m \in Model |-> 0] /\ skipped = [m \in Model |-> 0]
    BY DEF BooksInit
  <2>2. <<0>> \in Seq(Nat) /\ <<0>> # <<>> /\ Last(<<0>>) = 0
    BY DEF Last
  <2>3. \A m \in Model : m[2] \in BookUser
    BY DEF Model
  <2>4. ThroughputTelescopes
    BY <2>1, <2>2, <2>3 DEF ThroughputTelescopes, LastRxBytes
  <2>5. QED
    BY <2>1, <2>2, <2>4 DEF RxInv
<1>3. RoutesInv
  <2>1. routeTable = RouteTable /\ wifiAddresses = [u \in BookUser |-> 0]
    BY DEF BooksInit
  <2>2. ASSUME NEW u \in BookUser
        PROVE  RoutesTo(u, RouteTable) - RoutesTo(u, RouteTable) = 0
    <3>1. RoutesTo(u, RouteTable) \in Nat
      BY RouteTableAssumption, RoutesAreFinite
    <3>2. QED
      BY <3>1
  <2>3. RoutesAccounted
    BY <2>1, <2>2 DEF RoutesAccounted
  <2>4. QED
    BY <2>1, <2>3, RouteTableAssumption DEF RoutesInv
<1>4. ApsInv
  BY DEF BooksInit, ApsInv
<1>5. QED
  BY <1>1, <1>2, <1>3, <1>4 DEF BooksInv

-----------------------------------------------------------------------------
(* Reports.                                                                *)

(* If anyone has registered a user, it is one model that is found.         *)
LEMMA OneModelFound ==
    ASSUME order \in Seq(Network), NEW u \in BookUser, FindUserWithID(u) # {}
    PROVE  \E m \in Network \X {u} : FindUserWithID(u) = {m}
<1> DEFINE first == {k \in DOMAIN order :
                       /\ u \in m_userDataModelMaps[order[k]]
                       /\ \A j \in 1..(k - 1) : u \notin m_userDataModelMaps[order[j]]}
<1>1. FindUserWithID(u) = {<<order[i], u>> : i \in first}
  BY DEF FindUserWithID
<1>2. PICK i \in first : TRUE
  BY <1>1
<1>3. Len(order) \in Nat /\ DOMAIN order = 1..Len(order)
  OBVIOUS
<1>4. ASSUME NEW a \in first, NEW b \in first, a < b
      PROVE  FALSE
  <2>1. a \in 1..Len(order) /\ b \in 1..Len(order)
    BY <1>3
  <2>2. a \in 1..(b - 1)
    BY <1>4, <2>1
  <2>3. QED
    BY <2>2
<1>5. ASSUME NEW j \in first PROVE j = i
  <2>1. i \in Int /\ j \in Int
    BY <1>3
  <2>2. ~ (i < j) /\ ~ (j < i)
    BY <1>4
  <2>3. QED
    BY <2>1, <2>2
<1>6. order[i] \in Network
  BY <1>3
<1> HIDE DEF first
<1>7. FindUserWithID(u) = {<<order[i], u>>}
  BY <1>1, <1>2, <1>5
<1>8. QED
  BY <1>6, <1>7

LEMMA ReportsAfter ==
    ASSUME ReportsInv, NEW u \in BookUser, NEW m \in Network \X {u},
           simTimes' = [simTimes EXCEPT ![m] = @ + 1]
    PROVE  \A v \in BookUser :
              /\ IsFiniteSet(Reports(v)')
              /\ Cardinality(Reports(v)') = (IF v = u THEN heard[v] + 1 ELSE heard[v])
<1> SUFFICES ASSUME NEW v \in BookUser
             PROVE  /\ IsFiniteSet(Reports(v)')
                    /\ Cardinality(Reports(v)') = (IF v = u THEN heard[v] + 1 ELSE heard[v])
  OBVIOUS
<1>1. /\ IsFiniteSet(Reports(v)) /\ Cardinality(Reports(v)) = heard[v]
      /\ simTimes \in [Model -> Nat] /\ heard[v] \in Nat
  BY DEF ReportsInv
<1>2. m \in Model /\ \A w \in Network \X {v} : w \in Model
  BY DEF Model
<1>3. Reports(v)' = UNION {{w} \X (1..simTimes'[w]) : w \in Network \X {v}}
  BY DEF Reports
<1>4. CASE v # u
  <2>1. \A w \in Network \X {v} : simTimes'[w] = simTimes[w]
    BY <1>1, <1>2, <1>4
  <2>2. Reports(v)' = Reports(v)
    BY <1>3, <2>1 DEF Reports
  <2>3. QED
    BY <1>1, <1>4, <2>2
<1>5. CASE v = u
  <2>1. PICK n \in Nat : n = simTimes[m]
    BY <1>1, <1>2
  <2>2. simTimes'[m] = n + 1 /\ \A w \in Network \X {v} : w # m => simTimes'[w] = simTimes[w]
    BY <1>1, <1>2, <2>1
  <2>3. m \in Network \X {v}
    BY <1>5
  <2>4. \A k : k \in 1..(n + 1) <=> k \in 1..n \/ k = n + 1
    OBVIOUS
  <2>5. n + 1 \notin 1..n
    OBVIOUS
  <2>6. \A r : r \in Reports(v)' <=> \E w \in Network \X {v} : r \in {w} \X (1..simTimes'[w])
    BY <1>3
  <2>7. \A r : r \in Reports(v) <=> \E w \in Network \X {v} : r \in {w} \X (1..simTimes[w])
    BY DEF Reports
  <2>8. {m} \X (1..(n + 1)) = ({m} \X (1..n)) \cup {<<m, n + 1>>}
    BY <2>4
  <2>9. ASSUME NEW r \in Reports(v)'
        PROVE  r \in Reports(v) \cup {<<m, n + 1>>}
    <3>1. PICK w \in Network \X {v} : r \in {w} \X (1..simTimes'[w])
      BY <2>6
    <3>2. CASE w = m
      <4>1. r \in {m} \X (1..(n + 1))
        BY <2>2, <3>1, <3>2
      <4>2. r \in {m} \X (1..simTimes[m]) \/ r = <<m, n + 1>>
        BY <2>1, <2>8, <4>1
      <4>3. QED
        BY <2>3, <2>7, <4>2
    <3>3. CASE w # m
      <4>1. r \in {w} \X (1..simTimes[w])
        BY <2>2, <3>1, <3>3
      <4>2. QED
        BY <2>7, <4>1
    <3>4. QED
      BY <3>2, <3>3
  <2>10. ASSUME NEW r \in Reports(v) \cup {<<m, n + 1>>}
         PROVE  r \in Reports(v)'
    <3>1. CASE r = <<m, n + 1>>
      <4>1. r \in {m} \X (1..simTimes'[m])
        BY <2>2, <2>8, <3>1
      <4>2. QED
        BY <2>3, <2>6, <4>1
    <3>2. ASSUME NEW w \in Network \X {v}, r \in {w} \X (1..simTimes[w])
          PROVE  r \in Reports(v)'
      <4>1. r \in {w} \X (1..simTimes'[w])
        <5>1. CASE w = m
          BY <2>1, <2>2, <2>8, <3>2, <5>1
        <5>2. CASE w # m
          BY <2>2, <3>2, <5>2
        <5>3. QED
          BY <5>1, <5>2
      <4>2. QED
        BY <2>6, <4>1
    <3>3. QED
      BY <2>7, <3>1, <3>2
  <2>11. Reports(v)' = Reports(v) \cup {<<m, n + 1>>}
    BY <2>9, <2>10
  <2>12. <<m, n + 1>> \notin Reports(v)
    <3>1. ASSUME NEW w \in Network \X {v}, <<m, n + 1>> \in {w} \X (1..simTimes[w])
          PROVE  FALSE
      <4>1. w = m /\ n + 1 \in 1..simTimes[w]
        BY <3>1
      <4>2. QED
        BY <2>1, <2>5, <4>1
    <3>2. QED
      BY <2>7, <3>1
  <2>13. /\ IsFiniteSet(Reports(v) \cup {<<m, n + 1>>})
         /\ Cardinality(Reports(v) \cup {<<m, n + 1>>}) = Cardinality(Reports(v)) + 1
    BY <1>1, <2>12, FS_AddElement
  <2>14. QED
    BY <1>1, <1>5, <2>11, <2>13
<1>6. QED
  BY <1>4, <1>5

(* A report makes each of the three series longer by one.                  *)
LEMMA SeriesTold ==
    ASSUME NEW s \in [snrVect : Nat, errRateVect : Nat, lossVect : Nat, throughputVect : Nat]
    PROVE  LET t == AddPathLoss(AddErrorRate(AddSNR(s))) IN
           /\ t \in [snrVect : Nat, errRateVect : Nat, lossVect : Nat, throughputVect : Nat]
           /\ t.snrVect = s.snrVect + 1
           /\ t.errRateVect = s.errRateVect + 1
           /\ t.lossVect = s.lossVect + 1
<1> DEFINE a == AddSNR(s)
           b == AddErrorRate(a)
           c == AddPathLoss(b)
           Lengths == [snrVect : Nat, errRateVect : Nat, lossVect : Nat, throughputVect : Nat]
<1>1. /\ a \in Lengths /\ a.snrVect = s.snrVect + 1
      /\ a.errRateVect = s.errRateVect /\ a.lossVect = s.lossVect
  BY DEF AddSNR
<1> HIDE DEF a
<1>2. /\ b \in Lengths /\ b.snrVect = a.snrVect
      /\ b.errRateVect = a.errRateVect + 1 /\ b.lossVect = a.lossVect
  BY <1>1 DEF AddErrorRate
<1> HIDE DEF b
<1>3. /\ c \in Lengths /\ c.snrVect = b.snrVect
      /\ c.errRateVect = b.errRateVect /\ c.lossVect = b.lossVect + 1
  BY <1>2 DEF AddPathLoss
<1> HIDE DEF c
<1>4. c \in Lengths /\ c.snrVect = s.snrVect + 1 /\ c.errRateVect = s.errRateVect + 1
      /\ c.lossVect = s.lossVect + 1
  BY <1>1, <1>2, <1>3
<1>5. QED
  BY <1>4 DEF a, b, c

LEMMA TakeReportInv ==
    ASSUME ReportsInv, NEW u \in BookUser, TakeReport(u)
    PROVE  ReportsInv'
<1>1. PICK m \in Network \X {u} : FindUserWithID(u) = {m}
  BY OneModelFound DEF TakeReport, ReportsInv
<1>2. m \in Model
  BY DEF Model
<1> DEFINE told(s) == AddPathLoss(AddErrorRate(AddSNR(s)))
<1>3. /\ heard' = [heard EXCEPT ![u] = @ + 1]
      /\ simTimes' = [simTimes EXCEPT ![m] = @ + 1]
      /\ series' = [series EXCEPT ![m] = told(series[m])]
      /\ order' = order
  <2>1. /\ simTimes' = [w \in Model |-> IF w \in FindUserWithID(u) THEN simTimes[w] + 1
                                        ELSE simTimes[w]]
        /\ series' = [w \in Model |-> IF w \in FindUserWithID(u) THEN told(series[w])
                                      ELSE series[w]]
        /\ heard' = [heard EXCEPT ![u] = @ + 1] /\ order' = order
    BY DEF TakeReport, registryVars
  <2> HIDE DEF told
  <2>2. simTimes \in [Model -> Nat] /\ DOMAIN series = Model /\ series = [w \in Model |-> series[w]]
    BY DEF ReportsInv
  <2>3. QED
    BY <1>1, <1>2, <2>1, <2>2
<1>4. \A v \in BookUser :
         /\ IsFiniteSet(Reports(v)')
         /\ Cardinality(Reports(v)') = (IF v = u THEN heard[v] + 1 ELSE heard[v])
  BY <1>3, ReportsAfter
<1>5. /\ heard \in [BookUser -> Nat] /\ simTimes \in [Model -> Nat]
      /\ series \in [Model -> [snrVect : Nat, errRateVect : Nat, lossVect : Nat,
                               throughputVect : Nat]]
      /\ \A w \in Model : /\ series[w].snrVect = series[w].errRateVect
                          /\ series[w].snrVect = series[w].lossVect
                          /\ series[w].snrVect <= simTimes[w]
  BY DEF ReportsInv
<1>6. \A v \in BookUser : heard'[v] = IF v = u THEN heard[v] + 1 ELSE heard[v]
  BY <1>3, <1>5
<1>7. /\ told(series[m]) \in [snrVect : Nat, errRateVect : Nat, lossVect : Nat,
                              throughputVect : Nat]
      /\ told(series[m]).snrVect = series[m].snrVect + 1
      /\ told(series[m]).errRateVect = series[m].errRateVect + 1
      /\ told(series[m]).lossVect = series[m].lossVect + 1
  BY <1>2, <1>5, SeriesTold
<1> HIDE DEF told
<1>8. ASSUME NEW w \in Model
      PROVE  /\ series'[w].snrVect = series'[w].errRateVect
             /\ series'[w].snrVect = series'[w].lossVect
             /\ series'[w].snrVect <= simTimes'[w]
  <2>1. CASE w # m
    BY <1>2, <1>3, <1>5, <2>1
  <2>2. CASE w = m
    <3>1. PICK a \in Nat : a = series[m].snrVect
      BY <1>2, <1>5
    <3>2. PICK n \in Nat : n = simTimes[m]
      BY <1>2, <1>5
    <3>3. a = series[m].errRateVect /\ a = series[m].lossVect /\ a <= n
      BY <1>2, <1>5, <3>1, <3>2
    <3>4. series'[w] = told(series[m]) /\ simTimes'[w] = n + 1
      BY <1>2, <1>3, <1>5, <2>2, <3>2
    <3>5. a + 1 <= n + 1
      BY <3>3
    <3>6. QED
      BY <1>7, <3>1, <3>3, <3>4, <3>5
  <2>3. QED
    BY <2>1, <2>2
<1>9. /\ heard' \in [BookUser -> Nat] /\ simTimes' \in [Model -> Nat]
      /\ series' \in [Model -> [snrVect : Nat, errRateVect : Nat, lossVect : Nat,
                                throughputVect : Nat]]
  BY <1>2, <1>3, <1>5, <1>7
<1>10. order' \in Seq(Network)
  BY <1>3 DEF ReportsInv
<1>11. QED
  BY <1>4, <1>6, <1>8, <1>9, <1>10 DEF ReportsInv

LEMMA RegisterUserDeviceInv ==
    ASSUME ReportsInv, NEW name \in Network, NEW users, RegisterUserDevice(name, users)
    PROVE  ReportsInv'
<1>1. UNCHANGED <<simTimes, heard, series>>
  BY DEF RegisterUserDevice, seriesVars
<1>2. order' \in Seq(Network)
  <2>1. order \in Seq(Network) /\ Len(order) \in Nat /\ DOMAIN order = 1..Len(order)
    BY DEF ReportsInv
  <2>2. CASE name \in Range(order)
    BY <2>1, <2>2 DEF RegisterUserDevice, registryVars
  <2>3. CASE name \notin Range(order)
    <3> DEFINE R == Range(order)
               S == R \cup {name}
    <3>1. order' \in SetToSeqs(S)
      BY <2>3 DEF RegisterUserDevice
    <3>2. IsFiniteSet(R)
      <4>1. order \in Surjection(1..Len(order), R)
        BY <2>1 DEF Surjection, Range
      <4>2. IsFiniteSet(1..Len(order))
        BY <2>1, IntervalCounts
      <4>3. QED
        BY <4>1, <4>2, FS_Surjection
    <3>3. R \subseteq Network
      BY <2>1 DEF Range
    <3> HIDE DEF R
    <3>4. Cardinality(S) \in Nat /\ S \subseteq Network
      <4>1. IsFiniteSet(S)
        BY <3>2, FS_AddElement
      <4>2. QED
        BY <3>3, <4>1, FS_CardinalityType
    <3> HIDE DEF S
    <3>5. order' \in [1..Cardinality(S) -> S]
      BY <3>1 DEF SetToSeqs
    <3>6. QED
      BY <3>4, <3>5
  <2>4. QED
    BY <2>2, <2>3
<1>3. \A v : Reports(v)' = Reports(v)
  BY <1>1 DEF Reports
<1>4. QED
  BY <1>1, <1>2, <1>3 DEF ReportsInv

(* Nothing else changes the number of reports.                             *)
LEMMA SeriesOnly ==
    ASSUME ReportsInv, UNCHANGED <<order, simTimes, heard>>,
           series' \in [Model -> [snrVect : Nat, errRateVect : Nat, lossVect : Nat,
                                  throughputVect : Nat]],
           \A m \in Model : /\ series'[m].snrVect = series'[m].errRateVect
                            /\ series'[m].snrVect = series'[m].lossVect
                            /\ series'[m].snrVect \in {0, series[m].snrVect}
    PROVE  ReportsInv'
<1>1. \A v : Reports(v)' = Reports(v)
  BY DEF Reports
<1>2. ASSUME NEW m \in Model
      PROVE  series'[m].snrVect <= simTimes[m]
  <2>1. simTimes[m] \in Nat /\ series[m].snrVect <= simTimes[m]
    BY DEF ReportsInv
  <2>2. QED
    BY <2>1
<1>3. QED
  BY <1>1, <1>2 DEF ReportsInv

LEMMA ResetInv ==
    ASSUME ReportsInv, NEW m \in Model, UNCHANGED <<order, simTimes, heard>>,
           \/ series' = series
           \/ series' = [series EXCEPT ![m] = NoSeries]
           \/ series' = [series EXCEPT ![m] = AddInstantThroughput(@)]
    PROVE  ReportsInv'
<1>1. /\ series \in [Model -> [snrVect : Nat, errRateVect : Nat, lossVect : Nat,
                               throughputVect : Nat]]
      /\ \A w \in Model : /\ series[w].snrVect = series[w].errRateVect
                          /\ series[w].snrVect = series[w].lossVect
  BY DEF ReportsInv
<1>2. /\ NoSeries \in [snrVect : Nat, errRateVect : Nat, lossVect : Nat,
                       throughputVect : Nat]
      /\ NoSeries.snrVect = 0 /\ NoSeries.errRateVect = 0 /\ NoSeries.lossVect = 0
  BY DEF NoSeries
<1>3. CASE series' = series
  BY <1>1, <1>3, SeriesOnly
<1>4. CASE series' = [series EXCEPT ![m] = NoSeries]
  BY <1>1, <1>2, <1>4, SeriesOnly
<1>5. CASE series' = [series EXCEPT ![m] = AddInstantThroughput(@)]
  <2> DEFINE s == AddInstantThroughput(series[m])
  <2>1. /\ s \in [snrVect : Nat, errRateVect : Nat, lossVect : Nat, throughputVect : Nat]
        /\ s.snrVect = series[m].snrVect /\ s.errRateVect = series[m].errRateVect
        /\ s.lossVect = series[m].lossVect
    BY <1>1 DEF AddInstantThroughput
  <2>2. series' = [series EXCEPT ![m] = s]
    BY <1>5
  <2> HIDE DEF s
  <2>3. QED
    BY <1>1, <2>1, <2>2, SeriesOnly
<1>6. QED
  BY <1>3, <1>4, <1>5

-----------------------------------------------------------------------------
(* Throughput.                                                             *)

LEMMA LastAppended ==
    ASSUME NEW S, NEW s \in Seq(S), NEW e \in S
    PROVE  /\ Append(s, e) \in Seq(S) /\ Append(s, e) # <<>>
           /\ Last(Append(s, e)) = e
<1> DEFINE t == Append(s, e)
<1>1. t \in Seq(S) /\ Len(t) = Len(s) + 1 /\ t[Len(s) + 1] = e /\ Len(s) \in Nat
  OBVIOUS
<1> HIDE DEF t
<1>2. t # <<>>
  BY <1>1
<1>3. Last(t) = e
  BY <1>1 DEF Last
<1>4. QED
  BY <1>1, <1>2, <1>3 DEF t

(* Either call appends what the sink has received, and books the           *)
(* difference.                                                             *)
LEMMA BytesAppended ==
    ASSUME RxInv, NEW m \in Model, rxBytesVector' = [rxBytesVector EXCEPT ![m] = Longer(m)],
           totalRx' = totalRx,
           \/ /\ carried' = [carried EXCEPT ![m] = @ + totalRx[m[2]] - LastRxBytes(m)]
              /\ skipped' = skipped
           \/ /\ skipped' = [skipped EXCEPT ![m] = @ + totalRx[m[2]] - LastRxBytes(m)]
              /\ carried' = carried
    PROVE  RxInv'
<1>1. /\ rxBytesVector \in [Model -> Seq(Nat)] /\ totalRx \in [BookUser -> Nat]
      /\ carried \in [Model -> Int] /\ skipped \in [Model -> Int]
      /\ \A w \in Model : rxBytesVector[w] # <<>>
      /\ \A w \in Model : /\ carried[w] + skipped[w] = LastRxBytes(w)
                          /\ LastRxBytes(w) <= totalRx[w[2]]
  BY DEF RxInv, ThroughputTelescopes
<1>2. \A w \in Model : w[2] \in BookUser
  BY DEF Model
<1>3. PICK x \in Nat : x = totalRx[m[2]]
  BY <1>1, <1>2
<1>4. PICK l \in Nat : l = LastRxBytes(m)
  BY <1>1 DEF LastRxBytes, Last
<1>5. PICK c \in Int : c = carried[m]
  BY <1>1
<1>6. PICK s \in Int : s = skipped[m]
  BY <1>1
<1>7. c + s = l /\ l <= x
  BY <1>1, <1>3, <1>4, <1>5, <1>6
<1>8. /\ Longer(m) \in Seq(Nat) /\ Longer(m) # <<>> /\ Last(Longer(m)) = x
  <2>1. rxBytesVector[m] \in Seq(Nat) /\ totalRx[m[2]] = x /\ x \in Nat
    BY <1>1, <1>3
  <2>2. QED
    BY <2>1, LastAppended DEF Longer
<1>9. \A w \in Model : LastRxBytes(w)' = IF w = m THEN x ELSE LastRxBytes(w)
  BY <1>1, <1>8 DEF LastRxBytes
<1>10. c + x - l \in Int /\ (c + x - l) + s = x /\ s + x - l \in Int /\ c + (s + x - l) = x
       /\ x <= x
  BY <1>7
<1>11. \/ /\ carried' = [carried EXCEPT ![m] = c + x - l] /\ skipped' = skipped
       \/ /\ skipped' = [skipped EXCEPT ![m] = s + x - l] /\ carried' = carried
  BY <1>3, <1>4, <1>5, <1>6
<1>12. /\ carried' \in [Model -> Int] /\ skipped' \in [Model -> Int]
  BY <1>1, <1>10, <1>11
<1>13. ASSUME NEW w \in Model
       PROVE  /\ carried'[w] + skipped'[w] = LastRxBytes(w)'
              /\ LastRxBytes(w)' <= totalRx[w[2]]
  <2>1. CASE w # m
    BY <1>1, <1>9, <1>11, <2>1
  <2>2. CASE w = m
    <3>1. LastRxBytes(w)' = x
      BY <1>9, <2>2
    <3>2. \/ carried'[w] = c + x - l /\ skipped'[w] = s
          \/ skipped'[w] = s + x - l /\ carried'[w] = c
      BY <1>1, <1>5, <1>6, <1>11, <2>2
    <3>3. carried'[w] + skipped'[w] = x
      BY <1>10, <3>2
    <3>4. QED
      BY <1>3, <1>10, <2>2, <3>1, <3>3
  <2>3. QED
    BY <2>1, <2>2
<1>14. rxBytesVector' \in [Model -> Seq(Nat)] /\ \A w \in Model : rxBytesVector'[w] # <<>>
  BY <1>1, <1>8
<1>15. QED
  BY <1>1, <1>12, <1>13, <1>14 DEF RxInv, ThroughputTelescopes

LEMMA SinkReceivesInv ==
    ASSUME RxInv, NEW u \in BookUser, SinkReceives(u)
    PROVE  RxInv'
<1>1. /\ totalRx' = [totalRx EXCEPT ![u] = @ + 1]
      /\ UNCHANGED <<rxBytesVector, carried, skipped>>
  BY DEF SinkReceives
<1>2. /\ rxBytesVector \in [Model -> Seq(Nat)] /\ totalRx \in [BookUser -> Nat]
      /\ \A w \in Model : rxBytesVector[w] # <<>>
  BY DEF RxInv
<1>3. \A w \in Model : LastRxBytes(w)' = LastRxBytes(w)
  BY <1>1 DEF LastRxBytes
<1>4. ASSUME NEW w \in Model
      PROVE  LastRxBytes(w) <= totalRx'[w[2]]
  <2>1. w[2] \in BookUser
    BY DEF Model
  <2>2. PICK x \in Nat : x = totalRx[w[2]]
    BY <1>2, <2>1
  <2>3. PICK l \in Nat : l = LastRxBytes(w)
    BY <1>2 DEF LastRxBytes, Last
  <2>4. l <= x
    BY <2>2, <2>3 DEF RxInv, ThroughputTelescopes
  <2>5. totalRx'[w[2]] = x \/ totalRx'[w[2]] = x + 1
    BY <1>1, <1>2, <2>1, <2>2
  <2>6. l <= x /\ l <= x + 1
    BY <2>4
  <2>7. QED
    BY <2>3, <2>5, <2>6
<1>5. totalRx' \in [BookUser -> Nat]
  BY <1>1, <1>2
<1>6. QED
  BY <1>1, <1>3, <1>4, <1>5 DEF RxInv, ThroughputTelescopes

-----------------------------------------------------------------------------
(* Routes.                                                                 *)

(* Without one of its entries a table has one route less to whoever that   *)
(* was to, and as many to the others.                                      *)
LEMMA RoutesWithout ==
    ASSUME NEW table \in Seq(BookUser), NEW i \in DOMAIN table, NEW u
    PROVE  RoutesTo(u, RemoveAt(table, i)) =
              RoutesTo(u, table) - IF table[i] = u THEN 1 ELSE 0
<1> DEFINE n == Len(table)
           less == RemoveAt(table, i)
           A == {j \in DOMAIN table : table[j] = u}
           B == {j \in DOMAIN less : less[j] = u}
           at(j) == IF j < i THEN j ELSE j + 1
           f == [j \in B |-> at(j)]
<1>1. n \in Nat /\ i \in 1..n /\ DOMAIN table = 1..n
  OBVIOUS
<1>2. less \in Seq(BookUser) /\ Len(less) = n - 1 /\ DOMAIN less = 1..(n - 1)
  <2>1. less \in Seq(BookUser) /\ Len(less) = n - 1
    BY RemoveAtShortens
  <2> HIDE DEF less, n
  <2>2. QED
    BY <2>1
<1>3. \A j \in 1..(n - 1) : less[j] = table[at(j)]
  BY RemoveAtElements
<1>4. IsFiniteSet(A) /\ IsFiniteSet(B)
  BY <1>2, RoutesAreFinite
<1>5. \A j \in 1..(n - 1) : at(j) \in 1..n /\ at(j) # i
  BY <1>1
<1>6. \A j, k \in 1..(n - 1) : at(j) = at(k) => j = k
  BY <1>1
<1>7. \A k \in 1..n : k # i => \E j \in 1..(n - 1) : at(j) = k
  <2> SUFFICES ASSUME NEW k \in 1..n, k # i
               PROVE  \E j \in 1..(n - 1) : at(j) = k
    OBVIOUS
  <2>1. CASE k < i
    <3>1. k \in 1..(n - 1) /\ at(k) = k
      BY <1>1, <2>1
    <3>2. QED
      BY <3>1
  <2>2. CASE k > i
    <3>1. k - 1 \in 1..(n - 1) /\ at(k - 1) = k
      BY <1>1, <2>2
    <3>2. QED
      BY <3>1
  <2>3. QED
    BY <1>1, <2>1, <2>2
<1>8. B \subseteq 1..(n - 1) /\ A \subseteq 1..n
  BY <1>1, <1>2
<1> HIDE DEF at, n, less
<1>9. ASSUME NEW j \in B PROVE at(j) \in A \ {i}
  BY <1>1, <1>2, <1>3, <1>5
<1>10. ASSUME NEW k \in A \ {i} PROVE \E j \in B : at(j) = k
  <2>1. PICK j \in 1..(n - 1) : at(j) = k
    BY <1>1, <1>7
  <2>2. j \in B
    BY <1>2, <1>3, <2>1
  <2>3. QED
    BY <2>1, <2>2
<1>11. RoutesTo(u, table) = Cardinality(A) /\ RoutesTo(u, less) = Cardinality(B)
  BY DEF RoutesTo
<1>12. i \in A <=> table[i] = u
  BY <1>1
<1> HIDE DEF A, B
<1>13. f \in Surjection(B, A \ {i})
  BY <1>9, <1>10 DEF Surjection
<1>14. f \in Injection(B, A \ {i})
  BY <1>6, <1>8, <1>9 DEF Injection, IsInjective
<1>15. Cardinality(A \ {i}) = Cardinality(B)
  BY <1>4, <1>13, <1>14, FS_Surjection
<1>16. Cardinality(A \ {i}) = IF i \in A THEN Cardinality(A) - 1 ELSE Cardinality(A)
  BY <1>4, FS_RemoveElement
<1>17. Cardinality(A) \in Nat
  BY <1>4, FS_CardinalityType
<1>18. RoutesTo(u, less) = RoutesTo(u, table) - IF table[i] = u THEN 1 ELSE 0
  BY <1>11, <1>12, <1>15, <1>16, <1>17
<1>19. QED
  BY <1>18 DEF less

(* SelectInSeq of the community modules, for a route to a user.            *)
LEMMA RouteSelected ==
    ASSUME NEW table \in Seq(BookUser), NEW u
    PROVE  LET i == SelectInSeq(table, LAMBDA dest : dest = u) IN
           i # 0 => i \in DOMAIN table /\ table[i] = u
<1> DEFINE I == {k \in 1..Len(table) : table[k] = u}
<1>1. SelectInSeq(table, LAMBDA dest : dest = u) =
         IF I # {} THEN CHOOSE x \in I : \A y \in I : x <= y ELSE 0
  BY DEF SelectInSeq, Min
<1>2. ASSUME I # {}
      PROVE  \E x \in I : \A y \in I : x <= y
  <2>1. Len(table) \in Nat /\ I \in SUBSET (1..Len(table))
    OBVIOUS
  <2> HIDE DEF I
  <2>2. PICK z \in I : TRUE
    BY <1>2
  <2>3. Cardinality(I) \in Nat /\ Cardinality(UpTo(I, z)) \in 1..Cardinality(I)
    BY <2>1, UpToCounts
  <2>4. 1 \in 1..Cardinality(I)
    BY <2>3
  <2>5. PICK x \in I : Cardinality(UpTo(I, x)) = 1
    BY <2>1, <2>4, NthCounts
  <2>6. ASSUME NEW y \in I, y < x
        PROVE  FALSE
    <3>1. /\ Cardinality(UpTo(I, y)) \in 1..Cardinality(I)
          /\ Cardinality(UpTo(I, y)) < Cardinality(UpTo(I, x))
      BY <2>1, <2>6, UpToCounts
    <3>2. QED
      BY <2>3, <2>5, <3>1
  <2>7. \A y \in I : y \in Int
    BY <2>1
  <2>8. \A y \in I : x <= y
    BY <2>6, <2>7
  <2>9. QED
    BY <2>8
<1>3. DOMAIN table = 1..Len(table)
  OBVIOUS
<1>4. QED
  BY <1>1, <1>2, <1>3

LEMMA TransferRouteInv ==
    ASSUME RoutesInv, NEW u \in BookUser, TransferRoute(u)
    PROVE  RoutesInv'
<1> DEFINE i == SelectInSeq(routeTable, LAMBDA dest : dest = u)
           less == RemoveAt(routeTable, i)
<1>1. routeTable \in Seq(BookUser) /\ wifiAddresses \in [BookUser -> Int]
  BY DEF RoutesInv
<1>2. CASE i = 0
  <2>1. routeTable' = routeTable /\ wifiAddresses' = wifiAddresses
    BY <1>2 DEF TransferRoute, routeVars
  <2>2. QED
    BY <2>1 DEF RoutesInv, RoutesAccounted
<1>3. CASE i # 0
  <2>1. i \in DOMAIN routeTable /\ routeTable[i] = u
    BY <1>1, <1>3, RouteSelected
  <2>2. /\ routeTable' = less
        /\ wifiAddresses' = IF GetWiFiNetDeviceInterfaceIndex = -1 THEN wifiAddresses
                            ELSE [wifiAddresses EXCEPT ![u] = @ + 1]
    BY <1>3 DEF TransferRoute
  <2>3. less \in Seq(BookUser)
    BY <1>1, <2>1, RemoveAtShortens
  <2>4. \A v : RoutesTo(v, less) = RoutesTo(v, routeTable) - IF u = v THEN 1 ELSE 0
    BY <1>1, <2>1, RoutesWithout
  <2> HIDE DEF less, i
  <2>5. wifiAddresses' \in [BookUser -> Int]
    BY <1>1, <2>2
  <2>6. ASSUME NEW v \in BookUser
        PROVE  wifiAddresses'[v] = (IF GetWiFiNetDeviceInterfaceIndex = -1 THEN 0
                                    ELSE RoutesTo(v, RouteTable) - RoutesTo(v, less))
    <3>1. wifiAddresses[v] = (IF GetWiFiNetDeviceInterfaceIndex = -1 THEN 0
                              ELSE RoutesTo(v, RouteTable) - RoutesTo(v, routeTable))
      BY DEF RoutesInv, RoutesAccounted
    <3>2. CASE GetWiFiNetDeviceInterfaceIndex = -1
      BY <2>2, <3>1, <3>2
    <3>3. CASE GetWiFiNetDeviceInterfaceIndex # -1
      <4>1. PICK r \in Nat : r = RoutesTo(v, RouteTable)
        BY RouteTableAssumption, RoutesAreFinite
      <4>2. PICK t \in Nat : t = RoutesTo(v, routeTable)
        BY <1>1, RoutesAreFinite
      <4>3. wifiAddresses[v] = r - t
        BY <3>1, <3>3, <4>1, <4>2
      <4>4. CASE v = u
        <5>1. wifiAddresses'[v] = (r - t) + 1 /\ RoutesTo(v, less) = t - 1
          BY <1>1, <2>2, <2>4, <3>3, <4>2, <4>3, <4>4
        <5>2. (r - t) + 1 = r - (t - 1)
          OBVIOUS
        <5>3. QED
          BY <3>3, <4>1, <5>1, <5>2
      <4>5. CASE v # u
        <5>1. wifiAddresses'[v] = r - t /\ RoutesTo(v, less) = t - 0
          BY <1>1, <2>2, <2>4, <3>3, <4>2, <4>3, <4>5
        <5>2. t - 0 = t
          OBVIOUS
        <5>3. QED
          BY <3>3, <4>1, <5>1, <5>2
      <4>6. QED
        BY <4>4, <4>5
    <3>4. QED
      BY <3>2, <3>3
  <2>7. QED
    BY <2>2, <2>3, <2>5, <2>6 DEF RoutesInv, RoutesAccounted
<1>4. QED
  BY <1>2, <1>3

-----------------------------------------------------------------------------
(* The current access point.                                               *)

LEMMA AddAPIDInv ==
    ASSUME ApsInv, NEW m \in Model, NEW id \in ApId, AddAPID(m, id)
    PROVE  ApsInv'
<1> DEFINE ids == m_lifiApNetDevicesVector[m]
<1>1. /\ given' = [given EXCEPT ![m] = @ + 1]
      /\ firstAp' = [firstAp EXCEPT ![m] = IF @ = 0 THEN id ELSE @]
      /\ m_lifiApNetDevicesVector' =
            IF ids = <<>> \/ Last(ids) = id
            THEN [m_lifiApNetDevicesVector EXCEPT ![m] = Append(@, id)]
            ELSE m_lifiApNetDevicesVector
  BY DEF AddAPID
<1>2. /\ m_lifiApNetDevicesVector \in [Model -> Seq(ApId)]
      /\ given \in [Model -> Nat] /\ firstAp \in [Model -> ApId \cup {0}]
  BY DEF ApsInv
<1>3. IF given[m] = 0 THEN ids = <<>> /\ firstAp[m] = 0
      ELSE ids # <<>> /\ Last(ids) = firstAp[m] /\ firstAp[m] # 0
  BY DEF ApsInv
<1>4. id # 0
  BY ApIdAssumption
<1>5. /\ Append(ids, id) \in Seq(ApId) /\ Append(ids, id) # <<>>
      /\ Last(Append(ids, id)) = id
  BY <1>2, LastAppended
<1>6. given'[m] \in Nat /\ given'[m] # 0
  BY <1>1, <1>2
<1> HIDE DEF ids
<1>7. /\ m_lifiApNetDevicesVector'[m] # <<>>
      /\ Last(m_lifiApNetDevicesVector'[m]) = firstAp'[m] /\ firstAp'[m] # 0
  <2>1. CASE given[m] = 0
    <3>1. firstAp'[m] = id /\ m_lifiApNetDevicesVector'[m] = Append(ids, id)
      BY <1>1, <1>2, <1>3, <2>1 DEF ids
    <3>2. QED
      BY <1>4, <1>5, <3>1
  <2>2. CASE given[m] # 0
    <3>1. firstAp'[m] = firstAp[m]
      BY <1>1, <1>2, <1>3, <2>2
    <3>2. \/ m_lifiApNetDevicesVector'[m] = Append(ids, id) /\ Last(ids) = id
          \/ m_lifiApNetDevicesVector'[m] = ids
      BY <1>1, <1>2, <1>3, <2>2 DEF ids
    <3>3. QED
      BY <1>3, <1>5, <2>2, <3>1, <3>2
  <2>3. QED
    BY <2>1, <2>2
<1>8. ASSUME NEW w \in Model, w # m
      PROVE  /\ given'[w] = given[w] /\ firstAp'[w] = firstAp[w]
             /\ m_lifiApNetDevicesVector'[w] = m_lifiApNetDevicesVector[w]
  BY <1>1, <1>2, <1>8
<1>9. /\ m_lifiApNetDevicesVector' \in [Model -> Seq(ApId)]
      /\ given' \in [Model -> Nat] /\ firstAp' \in [Model -> ApId \cup {0}]
  BY <1>1, <1>2, <1>5 DEF ids
<1>10. ASSUME NEW w \in Model
       PROVE  IF given'[w] = 0 THEN m_lifiApNetDevicesVector'[w] = <<>> /\ firstAp'[w] = 0
              ELSE /\ m_lifiApNetDevicesVector'[w] # <<>>
                   /\ Last(m_lifiApNetDevicesVector'[w]) = firstAp'[w] /\ firstAp'[w] # 0
  <2>1. CASE w = m
    BY <1>6, <1>7, <2>1
  <2>2. CASE w # m
    BY <1>8, <2>2 DEF ApsInv
  <2>3. QED
    BY <2>1, <2>2
<1>11. QED
  BY <1>9, <1>10 DEF ApsInv

-----------------------------------------------------------------------------
LEMMA BooksNextInv == BooksInv /\ [BooksNext]_bookVars => BooksInv'
<1> SUFFICES ASSUME BooksInv, [BooksNext]_bookVars
             PROVE  BooksInv'
  OBVIOUS
<1> USE DEF BooksInv
<1>1. ASSUME UNCHANGED <<order, seriesVars>> PROVE ReportsInv'
  <2>1. UNCHANGED <<order, simTimes, series, heard>>
    BY <1>1 DEF seriesVars
  <2>2. \A v : Reports(v)' = Reports(v)
    BY <2>1 DEF Reports
  <2>3. QED
    BY <2>1, <2>2 DEF ReportsInv
<1>2. ASSUME UNCHANGED rxVars PROVE RxInv'
  BY <1>2 DEF rxVars, RxInv, ThroughputTelescopes, LastRxBytes
<1>3. ASSUME UNCHANGED routeVars PROVE RoutesInv'
  BY <1>3 DEF routeVars, RoutesInv, RoutesAccounted
<1>4. ASSUME UNCHANGED apVars PROVE ApsInv'
  BY <1>4 DEF apVars, ApsInv
<1>5. ASSUME NEW name \in Network, NEW users, RegisterUserDevice(name, users)
      PROVE  BooksInv'
  <2>1. UNCHANGED <<rxVars, routeVars, apVars>>
    BY <1>5 DEF RegisterUserDevice
  <2>2. QED
    BY <1>2, <1>3, <1>4, <1>5, <2>1, RegisterUserDeviceInv
<1>6. ASSUME NEW u \in BookUser, TakeReport(u)
      PROVE  BooksInv'
  <2>1. UNCHANGED <<rxVars, routeVars, apVars>>
    BY <1>6 DEF TakeReport
  <2>2. QED
    BY <1>2, <1>3, <1>4, <1>6, <2>1, TakeReportInv
<1>7. ASSUME NEW m \in Model, ResetDataStructures(m)
      PROVE  BooksInv'
  <2>1. /\ UNCHANGED <<rxVars, routeVars, apVars>>
        /\ UNCHANGED <<order, simTimes, heard>>
        /\ series' = [series EXCEPT ![m] = NoSeries]
    BY <1>7 DEF ResetDataStructures, rxVars, registryVars
  <2>2. ReportsInv'
    BY <2>1, ResetInv
  <2>3. QED
    BY <1>2, <1>3, <1>4, <2>1, <2>2
<1>8. ASSUME NEW u \in BookUser, SinkReceives(u)
      PROVE  BooksInv'
  <2>1. UNCHANGED <<order, seriesVars, routeVars, apVars>>
    BY <1>8 DEF SinkReceives, registryVars
  <2>2. QED
    BY <1>1, <1>3, <1>4, <1>8, <2>1, SinkReceivesInv
<1>9. ASSUME NEW m \in Model, SetLastTotalRxBytes(m)
      PROVE  BooksInv'
  <2>1. UNCHANGED <<order, seriesVars, routeVars, apVars>>
    BY <1>9 DEF SetLastTotalRxBytes, registryVars
  <2>2. RxInv'
    BY <1>9, BytesAppended DEF SetLastTotalRxBytes
  <2>3. QED
    BY <1>1, <1>3, <1>4, <2>1, <2>2
<1>10. ASSUME NEW m \in Model, CalculateInstantThroughput(m)
       PROVE  BooksInv'
  <2>1. /\ UNCHANGED <<order, simTimes, heard, routeVars, apVars>>
        /\ series' = [series EXCEPT ![m] = AddInstantThroughput(@)]
    BY <1>10 DEF CalculateInstantThroughput, registryVars
  <2>2. RxInv'
    BY <1>10, BytesAppended DEF CalculateInstantThroughput
  <2>3. ReportsInv'
    BY <2>1, ResetInv
  <2>4. QED
    BY <1>3, <1>4, <2>1, <2>2, <2>3
<1>11. ASSUME NEW u \in BookUser, TransferRoute(u)
       PROVE  BooksInv'
  <2>1. UNCHANGED <<order, seriesVars, rxVars, apVars>>
    BY <1>11 DEF TransferRoute, registryVars
  <2>2. QED
    BY <1>1, <1>2, <1>4, <1>11, <2>1, TransferRouteInv
<1>12. ASSUME NEW m \in Model, NEW id \in ApId, AddAPID(m, id)
       PROVE  BooksInv'
  <2>1. UNCHANGED <<order, seriesVars, rxVars, routeVars>>
    BY <1>12 DEF AddAPID, registryVars
  <2>2. QED
    BY <1>1, <1>2, <1>3, <1>12, <2>1, AddAPIDInv
<1>13. ASSUME UNCHANGED bookVars
       PROVE  BooksInv'
  BY <1>1, <1>2, <1>3, <1>4, <1>13 DEF bookVars, registryVars
<1>14. Sampled \subseteq Model
  BY SampledAssumption
<1>15. QED
  BY <1>5, <1>6, <1>7, <1>8, <1>9, <1>10, <1>11, <1>12, <1>13, <1>14
     DEF BooksNext, ReportNext, RxNext, RouteNext, ApNext

(* What the controller keeps of a user balances, for any networks, users   *)
(* and routes: a report counts for one of the models of its user, through  *)
(* every change of the order of networks; the throughputs of a model add   *)
(* up to what its sink received, through every reset; a handover takes a   *)
(* route of its user only; the current access point is the first.          *)
THEOREM BooksAreBalanced == BooksSpec => []BooksBalance
<1>1. BooksSpec => []BooksInv
  BY BooksInitInv, BooksNextInv, PTL DEF BooksSpec
<1>2. QED
  BY <1>1, BooksInvBalances, PTL

-----------------------------------------------------------------------------
(* The components in one: whatever a behaviour is about, every step is one *)
(* of a component and leaves the others alone.                             *)

LEMMA StepsOfComponents ==
    [UserNext]_userVars =>
       /\ [WalkNext]_walkVars /\ [ApplicationNext]_appVars /\ [MotionNext]_motionVars
       /\ [PerformanceNext]_performanceVars /\ [CachesNext]_cachesVars
       /\ [BooksNext]_bookVars
<1> SUFFICES ASSUME [UserNext]_userVars
             PROVE  /\ [WalkNext]_walkVars /\ [ApplicationNext]_appVars
                    /\ [MotionNext]_motionVars /\ [PerformanceNext]_performanceVars
                    /\ [CachesNext]_cachesVars /\ [BooksNext]_bookVars
  OBVIOUS
<1>1. CASE Walking
  BY <1>1 DEF Walking, noteVars
<1>2. CASE Applying
  BY <1>2 DEF Applying, noteVars
<1>3. CASE Moving
  BY <1>3 DEF Moving, noteVars
<1>4. CASE Analysing
  BY <1>4 DEF Analysing, mobileVars
<1>5. CASE Caching
  BY <1>5 DEF Caching, mobileVars
<1>6. CASE Keeping
  BY <1>6 DEF Keeping, mobileVars, BooksNext
<1>7. CASE Transmitting
  BY <1>7 DEF Transmitting, mobileVars, noteVars
<1>8. CASE Queueing
  BY <1>8 DEF Queueing, mobileVars, noteVars
<1>9. CASE UNCHANGED userVars
  BY <1>9 DEF userVars, mobileVars, noteVars
<1>10. QED
  BY <1>1, <1>2, <1>3, <1>4, <1>5, <1>6, <1>7, <1>8, <1>9 DEF UserNext

(* Every behaviour of the components around a user is a behaviour of each  *)
(* that shares no state with another: the walk (but for its fairness), the *)
(* application, the motion, the analysis, the caches and the controller's  *)
(* books.                                                                  *)
THEOREM ComponentsAreIndependent ==
    UserSpec => /\ WalkInit /\ [][WalkNext]_walkVars
                /\ ApplicationSpec /\ MotionSpec /\ PerformanceSpec /\ CachesSpec /\ BooksSpec
<1>1. UserInit => /\ WalkInit /\ ApplicationInit /\ MotionInit
                  /\ PerformanceInit /\ CachesInit /\ BooksInit
  BY DEF UserInit
<1>2. QED
  BY <1>1, StepsOfComponents, PTL
     DEF UserSpec, ApplicationSpec, MotionSpec, PerformanceSpec, CachesSpec,
         BooksSpec

(* However its calls are mixed, a walk reaches the place it was scheduled  *)
(* for, and whoever reads the position twice at one time is told the       *)
(* same (MCLiFiUser's PlacesTrue).                                         *)
THEOREM PlacesAreTrue == UserSpec => []PlacesTrue
<1>1. UserSpec => []WalkReaches
  BY ComponentsAreIndependent, WalkInitInv, WalkNextInv, WalkInvReaches, PTL
<1>2. QED
  BY <1>1, ComponentsAreIndependent, SecondReadIsTrue, PTL DEF PlacesTrue

(* The application sends what it was told to, and for every further start  *)
(* one packet more at most.  Stopped, it has no send of its own scheduled  *)
(* any more; only what a further start has left behind still comes.        *)
THEOREM SendingIsSound == UserSpec => []SendingSound
  BY ComponentsAreIndependent, PacketsAreAccounted, PTL DEF SendingSound

-----------------------------------------------------------------------------
(* The queue and the uplink have the queue of the transmit MAC in common.  *)

AccountKept == focus = "queue" => AccountInv

(* Where it is the queue that is looked at, its books balance in any order *)
(* of its calls.                                                           *)
THEOREM DropsAreAccounted == UserSpec => []DropsAccounted
<1>1. UserInit => AccountKept
  BY QueueInitInv DEF UserInit, AccountKept
<1>2. AccountKept /\ [UserNext]_userVars => AccountKept'
  <2> SUFFICES ASSUME AccountKept, [UserNext]_userVars, focus' = "queue"
               PROVE  AccountInv'
    BY DEF AccountKept
  <2>1. CASE Queueing
    <3>1. focus = "queue" /\ [QueueNext]_queueVars
      BY <2>1 DEF Queueing
    <3>2. QED
      BY <3>1, QueueNextInv DEF AccountKept
  <2>2. CASE ~ Queueing
    <3>1. focus = "queue" /\ UNCHANGED <<vars, drops, dealings>>
      BY <2>2 DEF UserNext, userVars, uplinkVars, Walking, Applying, Moving, Analysing,
                  Caching, Keeping, Transmitting
    <3>2. AccountInv /\ [QueueNext]_queueVars
      BY <3>1 DEF AccountKept, queueVars
    <3>3. QED
      BY <3>2, QueueNextInv
  <2>3. QED
    BY <2>1, <2>2
<1>3. AccountKept => DropsAccounted
  BY DEF AccountKept, AccountInv, DropsAccounted
<1>4. QED
  BY <1>1, <1>2, <1>3, PTL DEF UserSpec

(* Where it is not looked at, nothing is sent and no loop was started.     *)
NobodyCame == sends = <<>> /\ loops = <<>> /\ turns = [a \in Server |-> 0]

UplinkKept == IF focus = "uplink" THEN UplinkInv ELSE NobodyCame

LEMMA UplinkKeptInit == UserInit => UplinkKept
<1>1. UserInit => UplinkInv /\ NobodyCame
  BY UplinkInitInv DEF UserInit, StaInit, Init, NobodyCame
<1>2. QED
  BY <1>1 DEF UplinkKept

LEMMA UplinkKeptNext == UplinkKept /\ [UserNext]_userVars => UplinkKept'
<1> SUFFICES ASSUME UplinkKept, [UserNext]_userVars
             PROVE  UplinkKept'
  OBVIOUS
<1>1. focus' = focus
  BY DEF UserNext, userVars, Walking, Applying, Moving, Analysing, Caching, Keeping,
         Transmitting, Queueing
<1>2. CASE Transmitting
  <2>1. focus = "uplink" /\ [StaNext]_staVars
    BY <1>2 DEF Transmitting
  <2>2. QED
    BY <1>1, <2>1, UplinkNextInv DEF UplinkKept
<1>3. CASE Queueing
  <2>1. focus = "queue" /\ UNCHANGED <<turns, loops>> /\ QueueNext
    BY <1>3 DEF Queueing, callers
  <2>2. sends = <<>> /\ NobodyCame
    BY <2>1 DEF UplinkKept, NobodyCame
  <2>3. AfterCleanup(<<>>) = <<>> /\ [i \in DOMAIN <<>> |-> [<<>>[i] EXCEPT !.left = @ - 1]] = <<>>
    BY DEF AfterCleanup
  <2>4. sends' = <<>>
    BY <2>1, <2>2, <2>3
       DEF QueueNext, Offer, Queue, Dequeue, Peek, IsEmpty, Cleaned, Flush, RemovePacket,
           SetQueueSize, Elapse, Tick
  <2>5. QED
    BY <1>1, <2>1, <2>2, <2>4 DEF UplinkKept, NobodyCame
<1>4. CASE UNCHANGED uplinkVars
  <2>1. UNCHANGED staVars
    BY <1>4 DEF uplinkVars, staVars
  <2>2. UNCHANGED <<sends, loops, turns>>
    BY <2>1 DEF staVars, vars, callers
  <2>3. UplinkInv => UplinkInv'
    BY <2>1, UplinkNextInv
  <2>4. QED
    BY <1>1, <2>2, <2>3 DEF UplinkKept, NobodyCame
<1>5. QED
  BY <1>2, <1>3, <1>4
     DEF UserNext, userVars, Walking, Applying, Moving, Analysing, Caching, Keeping

(* The components in one, with everything that the run on a small instance *)
(* checks of them.                                                         *)
THEOREM UserIsSound ==
    UserSpec => /\ [](PlacesTrue /\ SendingSound /\ SinksKept /\ CachesAgree)
                /\ [](ChainPerCaller /\ BooksBalance /\ DropsAccounted)
                /\ NoJump /\ FlowsKept
<1>1. UplinkKept => ChainPerCaller
  <2>1. ASSUME NobodyCame
        PROVE  ChainPerCaller
    <3> DEFINE A == {a \in Server : turns[a] > 0}
               B == {i \in DOMAIN loops : loops[i] > 0}
    <3>1. A = {} /\ B = {} /\ Len(sends) = 0
      BY <2>1 DEF NobodyCame
    <3> HIDE DEF A, B
    <3>2. Cardinality(A) = 0 /\ Cardinality(B) = 0
      BY <3>1, FS_EmptySet
    <3>3. Len(sends) <= Cardinality(A) + Cardinality(B)
      BY <3>1, <3>2
    <3>4. QED
      BY <3>3 DEF ChainPerCaller, A, B
  <2>2. QED
    BY <2>1, UplinkInvChains DEF UplinkKept
<1>2. UserSpec => []ChainPerCaller
  BY <1>1, UplinkKeptInit, UplinkKeptNext, PTL DEF UserSpec
<1>3. QED
  BY <1>2, ComponentsAreIndependent, PlacesAreTrue, SendingIsSound, SinksAreKept,
     CachesTellOneStory, BooksAreBalanced, DropsAreAccounted, MotionHasInertia,
     FlowsAreKept, PTL
===============================================================================
