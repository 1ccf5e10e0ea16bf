--------------------------- MODULE LiFiCellProofs ---------------------------
(***************************************************************************)
(* Theorems of the cell, for every set of stations, every budget of the    *)
(* control queue and every bound on the answers.                           *)
(*                                                                         *)
(* The cell implements the access point (its steps are steps of LiFiApMac  *)
(* or leave its state alone), so the invariant IInv of LiFiApMacProofs     *)
(* holds in it.  On top of it there are two invariants: WhoIsHeard, about  *)
(* which stations have heard a beacon, needs no assumption; BeaconAnswered *)
(* follows a beacon through the queues, and needs room for it in the       *)
(* control queue.                                                          *)
(***************************************************************************)
EXTENDS LiFiCell, LiFiApMacProofs, SequenceTheorems

-----------------------------------------------------------------------------
(* Sequences.                                                              *)

LEMMA AppendRange ==
    ASSUME NEW S, NEW s \in Seq(S), NEW x \in S
    PROVE  /\ Append(s, x) \in Seq(S)
           /\ Append(s, x) # <<>>
           /\ Len(Append(s, x)) = Len(s) + 1
           /\ Range(Append(s, x)) = Range(s) \cup {x}
<1>1. <<x>> \in Seq(S) /\ Range(<<x>>) = {x}
  BY DEF Range
<1>2. Append(s, x) = s \o <<x>>
  BY AppendIsConcat
<1>3. Range(s \o <<x>>) = Range(s) \cup Range(<<x>>)
  <2> DEFINE one == <<x>>
  <2>1. one \in Seq(S)
    BY <1>1
  <2> HIDE DEF one
  <2>2. Range(s \o one) = Range(s) \cup Range(one)
    BY <2>1, RangeConcatenation
  <2>3. QED
    BY <2>2 DEF one
<1>4. QED
  BY <1>1, <1>2, <1>3, AppendProperties

LEMMA DequeueRange ==
    ASSUME NEW S, NEW s \in Seq(S), s # <<>>
    PROVE  /\ Head(s) \in S /\ Tail(s) \in Seq(S)
           /\ Len(s) \in Nat /\ Len(s) >= 1
           /\ Len(Tail(s)) = Len(s) - 1
           /\ Range(s) = {Head(s)} \cup Range(Tail(s))
<1>1. /\ Head(s) \in S /\ Tail(s) \in Seq(S)
      /\ Len(Tail(s)) = Len(s) - 1
      /\ \A i \in 1..Len(Tail(s)) : Tail(s)[i] = s[i + 1]
  BY HeadTailProperties
<1>2. Len(s) \in Nat /\ Len(s) >= 1
  BY EmptySeq
<1>3. Head(s) = s[1]
  OBVIOUS
<1>4. /\ Range(s) = {s[i] : i \in 1..Len(s)}
      /\ Range(Tail(s)) = {Tail(s)[i] : i \in 1..Len(Tail(s))}
  BY <1>1, RangeEquality
<1>5. ASSUME NEW i \in 1..Len(s)
      PROVE  s[i] \in {Head(s)} \cup Range(Tail(s))
  <2>1. CASE i = 1
    BY <1>3, <2>1
  <2>2. CASE i # 1
    <3>1. i - 1 \in 1..Len(Tail(s)) /\ (i - 1) + 1 = i
      BY <1>1, <1>2, <2>2
    <3>2. Tail(s)[i - 1] = s[i]
      BY <1>1, <3>1
    <3>3. QED
      BY <1>4, <3>1, <3>2
  <2>3. QED
    BY <2>1, <2>2
<1>6. ASSUME NEW i \in 1..Len(Tail(s))
      PROVE  Tail(s)[i] \in Range(s)
  <2>1. i + 1 \in 1..Len(s)
    BY <1>1, <1>2
  <2>2. QED
    BY <1>1, <1>4, <2>1
<1>7. Head(s) \in Range(s)
  <2>1. 1 \in 1..Len(s)
    BY <1>2
  <2>2. QED
    BY <1>3, <1>4, <2>1
<1>8. QED
  BY <1>1, <1>2, <1>4, <1>5, <1>6, <1>7

LEMMA EmptyRange ==
    ASSUME NEW S, NEW s \in Seq(S)
    PROVE  /\ Len(s) \in Nat
           /\ Len(s) <= 0 => s = <<>>
           /\ Range(<<>>) = {} /\ <<>> \in Seq(S) /\ Len(<<>>) = 0
<1>1. Range(<<>>) = {}
  BY DEF Range
<1>2. Len(<<>>) = 0
  BY EmptySeq
<1>3. s # <<>> => Len(s) \in Nat /\ Len(s) >= 1
  BY EmptySeq
<1>4. QED
  BY <1>1, <1>2, <1>3, EmptySeq

-----------------------------------------------------------------------------
(* The n-th element of a set of devices is one of them.                    *)

UpTo(S, d) == {k \in S : k <= d}

LEMMA UpToIncreases ==
    ASSUME NEW S \in SUBSET Dev, NEW d \in S
    PROVE  /\ Cardinality(UpTo(S, d)) \in 1..Cardinality(S)
           /\ \A e \in S : d < e => Cardinality(UpTo(S, d)) < Cardinality(UpTo(S, e))
<1>1. IsFiniteSet(S) /\ Cardinality(S) \in Nat
  BY DevAssumption, FS_Subset, FS_CardinalityType
<1>2. ASSUME NEW x \in S
      PROVE  /\ UpTo(S, x) \in SUBSET S /\ x \in UpTo(S, x)
             /\ IsFiniteSet(UpTo(S, x)) /\ Cardinality(UpTo(S, x)) \in Nat
             /\ Cardinality(UpTo(S, x)) <= Cardinality(S)
             /\ Cardinality(UpTo(S, x)) # 0
  <2>1. UpTo(S, x) \in SUBSET S /\ x \in UpTo(S, x)
    BY DevAssumption DEF UpTo
  <2>2. IsFiniteSet(UpTo(S, x)) /\ Cardinality(UpTo(S, x)) <= Cardinality(S)
    BY <1>1, <2>1, FS_Subset
  <2>3. Cardinality(UpTo(S, x)) \in Nat /\ Cardinality(UpTo(S, x)) # 0
    BY <2>1, <2>2, FS_CardinalityType, FS_EmptySet
  <2>4. QED
    BY <2>1, <2>2, <2>3
<1>3. ASSUME NEW e \in S, d < e
      PROVE  Cardinality(UpTo(S, d)) < Cardinality(UpTo(S, e))
  <2>1. \A k \in S : k \in Int
    BY DevAssumption
  <2>2. UpTo(S, d) \subseteq UpTo(S, e)
    <3> SUFFICES ASSUME NEW k \in S, k <= d PROVE k <= e
      BY DEF UpTo
    <3>1. QED
      BY <1>3, <2>1
  <2>3. e \in UpTo(S, e) /\ e \notin UpTo(S, d)
    BY <1>3, <2>1 DEF UpTo
  <2>4. /\ Cardinality(UpTo(S, d)) <= Cardinality(UpTo(S, e))
        /\ Cardinality(UpTo(S, d)) # Cardinality(UpTo(S, e))
    BY <1>2, <2>2, <2>3, FS_Subset
  <2>5. QED
    BY <1>2, <2>4
<1>4. QED
  BY <1>1, <1>2, <1>3

LEMMA NthInSet ==
    ASSUME NEW S \in SUBSET Dev, NEW n \in 1..Cardinality(S)
    PROVE  Nth(S, n) \in S
<1> DEFINE c == Cardinality(S)
           rank == [d \in S |-> Cardinality(UpTo(S, d))]
<1>1. IsFiniteSet(S) /\ c \in Nat
  BY DevAssumption, FS_Subset, FS_CardinalityType
<1>2. rank \in [S -> 1..c]
  BY UpToIncreases
<1>3. ASSUME NEW d \in S, NEW e \in S, rank[d] = rank[e]
      PROVE  d = e
  <2>1. rank[d] \in Int /\ rank[e] \in Int /\ d \in Int /\ e \in Int
    BY <1>1, <1>2, DevAssumption
  <2>2. d < e => rank[d] < rank[e]
    BY UpToIncreases
  <2>3. e < d => rank[e] < rank[d]
    BY UpToIncreases
  <2>4. QED
    BY <1>3, <2>1, <2>2, <2>3
<1>4. rank \in Injection(S, 1..c)
  BY <1>2, <1>3 DEF Injection, IsInjective
<1>5. rank \in Surjection(S, 1..c)
  <2>1. IsFiniteSet(1..c) /\ Cardinality(1..c) = c
    BY <1>1, FS_Interval
  <2>2. QED
    BY <1>1, <1>4, <2>1, FS_Injection
<1>6. PICK d \in S : rank[d] = n
  BY <1>5 DEF Surjection
<1>7. Nth(S, n) = CHOOSE x \in S : Cardinality(UpTo(S, x)) = n
  BY DEF Nth, UpTo
<1>8. QED
  BY <1>6, <1>7

(* The responses: one for each tag, to a station that has one.             *)
LEMMA ResponsesType ==
    ASSUME NEW S \in SUBSET Dev
    PROVE  LET r == [n \in 1..Cardinality(S) |-> AssocResp(Nth(S, n))] IN
             /\ r \in Seq(ControlFrame)
             /\ Len(r) = Cardinality(S) /\ Len(r) <= Cardinality(Dev)
             /\ \A f \in Range(r) : \E d \in S : f = AssocResp(d)
<1> DEFINE r == [n \in 1..Cardinality(S) |-> AssocResp(Nth(S, n))]
<1>1. Cardinality(S) \in Nat /\ Cardinality(S) <= Cardinality(Dev)
  BY DevAssumption, FS_Subset, FS_CardinalityType
<1>2. \A n \in 1..Cardinality(S) : Nth(S, n) \in S
  BY NthInSet
<1>3. \A n \in 1..Cardinality(S) : AssocResp(Nth(S, n)) \in ControlFrame
  BY <1>2 DEF ControlFrame
<1>4. r \in Seq(ControlFrame) /\ Len(r) = Cardinality(S)
  BY <1>1, <1>3
<1>5. \A f \in Range(r) : \E d \in S : f = AssocResp(d)
  BY <1>2 DEF Range
<1>6. QED
  BY <1>1, <1>4, <1>5

LEMMA FramesDiffer ==
    /\ Beacon \in ControlFrame
    /\ \A d \in Dev : AssocResp(d) \in ControlFrame /\ AssocResp(d) # Beacon
    /\ \A d, e \in Dev : AssocResp(d) = AssocResp(e) => d = e
<1>1. "Beacon" # "AssocResp"
  OBVIOUS
<1>2. QED
  BY <1>1 DEF Beacon, AssocResp, ControlFrame

-----------------------------------------------------------------------------
(* What each step does to the queues, and that it keeps their types.       *)

LEMMA QueueBeaconEffect ==
    ASSUME CellTypeOK, QueueBeacon
    PROVE  /\ CellTypeOK'
           /\ m_beaconTxop' # <<>>
           /\ Len(m_beaconTxop') = Len(m_beaconTxop) + 1
           /\ Range(m_beaconTxop') = Range(m_beaconTxop) \cup {Beacon}
           /\ budget' = ControlBudget
<1>1. m_beaconTxop' = Append(m_beaconTxop, Beacon) /\ m_beaconTxop \in Seq(ControlFrame)
  BY DEF QueueBeacon, CellTypeOK
<1>2. /\ m_beaconTxop' \in Seq(ControlFrame)
      /\ m_beaconTxop' # <<>>
      /\ Len(m_beaconTxop') = Len(m_beaconTxop) + 1
      /\ Range(m_beaconTxop') = Range(m_beaconTxop) \cup {Beacon}
  BY <1>1, AppendRange, FramesDiffer
<1>3. budget' = ControlBudget
  BY <1>2 DEF QueueBeacon, Chain
<1>4. CellTypeOK'
  BY <1>2, <1>3, ControlAssumption DEF CellTypeOK, QueueBeacon, air, station
<1>5. QED
  BY <1>2, <1>3, <1>4

LEMMA QueueResponsesEffect ==
    ASSUME CellTypeOK, QueueResponses
    PROVE  /\ CellTypeOK'
           /\ Len(m_beaconTxop') <= Len(m_beaconTxop) + Cardinality(Dev)
           /\ Range(m_beaconTxop) \subseteq Range(m_beaconTxop')
           /\ \A f \in Range(m_beaconTxop') :
                f \in Range(m_beaconTxop) \/ \E d \in Tagged : f = AssocResp(d)
<1> DEFINE r == [n \in 1..Cardinality(Tagged) |-> AssocResp(Nth(Tagged, n))]
<1>1. /\ r \in Seq(ControlFrame) /\ Len(r) <= Cardinality(Dev)
      /\ \A f \in Range(r) : \E d \in Tagged : f = AssocResp(d)
  <2>1. Tagged \in SUBSET Dev
    BY DEF Tagged
  <2>2. QED
    BY <2>1, ResponsesType
<1>2. m_beaconTxop' = m_beaconTxop \o r /\ m_beaconTxop \in Seq(ControlFrame)
  BY DEF QueueResponses, CellTypeOK
<1> HIDE DEF r
<1>3. /\ m_beaconTxop' \in Seq(ControlFrame)
      /\ Len(m_beaconTxop') = Len(m_beaconTxop) + Len(r)
      /\ Range(m_beaconTxop') = Range(m_beaconTxop) \cup Range(r)
  BY <1>1, <1>2, ConcatProperties, RangeConcatenation
<1>4. CellTypeOK'
  BY <1>3 DEF CellTypeOK, QueueResponses, air, station, place
<1>5. Len(m_beaconTxop) \in Nat /\ Len(r) \in Nat /\ Cardinality(Dev) \in Nat
  BY <1>1, <1>2, EmptyRange, DevAssumption, FS_CardinalityType
<1>6. QED
  BY <1>1, <1>3, <1>4, <1>5

(* The first frame moves from the control queue to every station.          *)
LEMMA SendControlFrameEffect ==
    ASSUME CellTypeOK, SendControlFrame
    PROVE  /\ CellTypeOK'
           /\ Range(m_beaconTxop') \subseteq Range(m_beaconTxop)
           /\ \A d \in Dev : Range(m_beaconTxop') \cup Range(downlink'[d])
                             = Range(m_beaconTxop) \cup Range(downlink[d])
           /\ m_beaconTxop # <<>> => Len(m_beaconTxop') = Len(m_beaconTxop) - 1
           /\ m_beaconTxop = <<>> => m_beaconTxop' = <<>>
           /\ budget' = IF m_beaconTxop' # <<>> THEN budget - 1 ELSE 0
<1>1. /\ m_beaconTxop \in Seq(ControlFrame)
      /\ downlink \in [Dev -> Seq(ControlFrame)]
      /\ budget \in 0..ControlBudget /\ budget > 0
  BY DEF CellTypeOK, SendControlFrame
<1>2. budget' = IF m_beaconTxop' # <<>> THEN budget - 1 ELSE 0
  BY DEF SendControlFrame, Chain
<1>3. budget' \in 0..ControlBudget
  BY <1>1, <1>2, ControlAssumption
<1>4. CASE m_beaconTxop = <<>>
  <2>1. m_beaconTxop' = <<>> /\ downlink' = [d \in Dev |-> downlink[d] \o <<>>]
    BY <1>4 DEF SendControlFrame, Dequeued, HandedDown, Broadcast
  <2>2. \A d \in Dev : downlink[d] \o <<>> = downlink[d]
    BY <1>1, ConcatEmptySeq
  <2>3. downlink' = downlink
    BY <1>1, <2>1, <2>2
  <2>4. CellTypeOK'
    BY <1>3, <1>4, <2>1, <2>3 DEF CellTypeOK, SendControlFrame, station, place
  <2>5. QED
    BY <1>2, <1>4, <2>1, <2>3, <2>4
<1>5. CASE m_beaconTxop # <<>>
  <2> DEFINE h == Head(m_beaconTxop)
  <2>1. /\ m_beaconTxop' = Tail(m_beaconTxop)
        /\ downlink' = [d \in Dev |-> downlink[d] \o <<h>>]
    BY <1>5 DEF SendControlFrame, Dequeued, HandedDown, Broadcast
  <2>2. /\ h \in ControlFrame /\ m_beaconTxop' \in Seq(ControlFrame)
        /\ Len(m_beaconTxop') = Len(m_beaconTxop) - 1
        /\ Range(m_beaconTxop) = {h} \cup Range(m_beaconTxop')
    BY <1>1, <1>5, <2>1, DequeueRange
  <2> HIDE DEF h
  <2>3. ASSUME NEW d \in Dev
        PROVE  /\ downlink'[d] \in Seq(ControlFrame)
               /\ Range(downlink'[d]) = Range(downlink[d]) \cup {h}
    <3>1. downlink'[d] = Append(downlink[d], h)
      BY <1>1, <2>1, <2>2, AppendIsConcat
    <3>2. QED
      BY <1>1, <2>2, <3>1, AppendRange
  <2>4. downlink' \in [Dev -> Seq(ControlFrame)]
    BY <2>1, <2>3
  <2>5. CellTypeOK'
    BY <1>3, <2>2, <2>4 DEF CellTypeOK, SendControlFrame, station, place
  <2>6. QED
    BY <1>2, <1>5, <2>2, <2>3, <2>5
<1>6. QED
  BY <1>4, <1>5

LEMMA ApReceiveEffect ==
    ASSUME CellTypeOK, ApReceive
    PROVE  /\ CellTypeOK'
           /\ Head(uplink) \in Answer
           /\ Range(uplink) = {Head(uplink)} \cup Range(uplink')
<1>1. uplink # <<>> /\ uplink \in Seq(Answer) /\ uplink' = Tail(uplink)
  BY DEF ApReceive, CellTypeOK
<1>2. /\ Head(uplink) \in Answer /\ uplink' \in Seq(Answer)
      /\ Range(uplink) = {Head(uplink)} \cup Range(uplink')
  BY <1>1, DequeueRange
<1>3. UNCHANGED <<control, downlink, station, place>>
  BY DEF ApReceive
<1>4. CellTypeOK'
  BY <1>2, <1>3 DEF CellTypeOK, control, station, place
<1>5. QED
  BY <1>2, <1>4

(* A station that answers has heard an access point, and has one event and *)
(* one answer more.                                                        *)
LEMMA AnswerEffect ==
    ASSUME CellTypeOK, NEW d \in Dev, NEW cell \in Cells, AnswerBeacon(d, cell)
    PROVE  /\ m_candidateAps' \in [Dev -> Seq(Cells)]
           /\ m_controlTxop' \in [Dev -> Seq(Answer)]
           /\ sends' \in [Dev -> Nat]
           /\ m_candidateAps'[d] # <<>>
           /\ \A e \in Dev : m_candidateAps[e] # <<>> => m_candidateAps'[e] # <<>>
           /\ Range(m_controlTxop'[d])
                = Range(m_controlTxop[d]) \cup {[node |-> d, cell |-> cell]}
           /\ sends'[d] = sends[d] + 1
           /\ \A e \in Dev \ {d} : m_controlTxop'[e] = m_controlTxop[e] /\ sends'[e] = sends[e]
<1> DEFINE a == [node |-> d, cell |-> cell]
           c == Candidates(m_candidateAps[d], cell)
<1>1. /\ m_candidateAps \in [Dev -> Seq(Cells)]
      /\ m_controlTxop \in [Dev -> Seq(Answer)]
      /\ sends \in [Dev -> Nat]
  BY DEF CellTypeOK
<1>2. a \in Answer
  BY DEF Answer
<1>3. c \in Seq(Cells) /\ c # <<>>
  <2>1. CASE cell \in Range(m_candidateAps[d])
    <3>1. c = m_candidateAps[d]
      BY <2>1 DEF Candidates
    <3>2. m_candidateAps[d] # <<>>
      BY <2>1 DEF Range
    <3>3. QED
      BY <1>1, <3>1, <3>2
  <2>2. CASE cell \notin Range(m_candidateAps[d])
    <3>1. c = Append(m_candidateAps[d], cell)
      BY <2>2 DEF Candidates
    <3>2. QED
      BY <1>1, <3>1, AppendRange
  <2>3. QED
    BY <2>1, <2>2
<1>4. m_candidateAps' = [m_candidateAps EXCEPT ![d] = c]
  BY <1>1 DEF AnswerBeacon
<1>5. m_controlTxop' = [m_controlTxop EXCEPT ![d] = Append(m_controlTxop[d], a)]
  BY <1>1 DEF AnswerBeacon
<1>6. sends' = [sends EXCEPT ![d] = sends[d] + 1]
  BY <1>1 DEF AnswerBeacon
<1> HIDE DEF a, c
<1>7. /\ Append(m_controlTxop[d], a) \in Seq(Answer)
      /\ Range(Append(m_controlTxop[d], a)) = Range(m_controlTxop[d]) \cup {a}
  BY <1>1, <1>2, AppendRange
<1>8. /\ m_candidateAps' \in [Dev -> Seq(Cells)] /\ m_candidateAps'[d] # <<>>
      /\ \A e \in Dev : m_candidateAps[e] # <<>> => m_candidateAps'[e] # <<>>
  BY <1>1, <1>3, <1>4
<1>9. /\ m_controlTxop' \in [Dev -> Seq(Answer)]
      /\ Range(m_controlTxop'[d]) = Range(m_controlTxop[d]) \cup {a}
      /\ \A e \in Dev \ {d} : m_controlTxop'[e] = m_controlTxop[e]
  BY <1>1, <1>5, <1>7
<1>10. /\ sends' \in [Dev -> Nat] /\ sends'[d] = sends[d] + 1
       /\ \A e \in Dev \ {d} : sends'[e] = sends[e]
  BY <1>1, <1>6
<1>11. QED
  BY <1>8, <1>9, <1>10 DEF a

LEMMA StationReceiveEffect ==
    ASSUME CellTypeOK, NEW d \in Dev, StationReceive(d)
    PROVE  /\ CellTypeOK'
           /\ Head(downlink[d]) \in ControlFrame
           /\ Range(downlink[d]) = {Head(downlink[d])} \cup Range(downlink'[d])
           /\ \A e \in Dev \ {d} : downlink'[e] = downlink[e]
           /\ \/ /\ Head(downlink[d]) = Beacon /\ Correct(d)
                 /\ AnswerBeacon(d, "own")
              \/ ~ (Correct(d) /\ Head(downlink[d]) = Beacon) /\ UNCHANGED station
<1>1. downlink \in [Dev -> Seq(ControlFrame)] /\ downlink[d] # <<>>
  BY DEF CellTypeOK, StationReceive
<1>2. downlink' = [downlink EXCEPT ![d] = Tail(downlink[d])]
  BY <1>1 DEF StationReceive
<1>3. /\ Head(downlink[d]) \in ControlFrame /\ Tail(downlink[d]) \in Seq(ControlFrame)
      /\ Range(downlink[d]) = {Head(downlink[d])} \cup Range(Tail(downlink[d]))
  BY <1>1, DequeueRange
<1>4. /\ downlink' \in [Dev -> Seq(ControlFrame)]
      /\ downlink'[d] = Tail(downlink[d])
      /\ \A e \in Dev \ {d} : downlink'[e] = downlink[e]
  BY <1>1, <1>2, <1>3
<1>5. \/ /\ Head(downlink[d]) = Beacon /\ Correct(d)
         /\ AnswerBeacon(d, "own")
      \/ ~ (Correct(d) /\ Head(downlink[d]) = Beacon) /\ UNCHANGED station
  BY DEF StationReceive
<1>6. /\ m_candidateAps' \in [Dev -> Seq(Cells)]
      /\ m_controlTxop' \in [Dev -> Seq(Answer)]
      /\ sends' \in [Dev -> Nat]
  <2>1. CASE AnswerBeacon(d, "own")
    BY <2>1, AnswerEffect DEF Cells
  <2>2. CASE UNCHANGED station
    BY <2>2 DEF station, CellTypeOK
  <2>3. QED
    BY <1>5, <2>1, <2>2
<1>7. UNCHANGED <<control, uplink, place>>
  BY DEF StationReceive
<1>8. CellTypeOK'
  BY <1>4, <1>6, <1>7 DEF CellTypeOK, control, place
<1>9. QED
  BY <1>3, <1>4, <1>5, <1>8

LEMMA OtherBeaconEffect ==
    ASSUME CellTypeOK, NEW d \in Dev, OtherBeacon(d)
    PROVE  CellTypeOK' /\ AnswerBeacon(d, "other") /\ UNCHANGED <<vars, control, air, place>>
<1>1. AnswerBeacon(d, "other") /\ UNCHANGED <<vars, control, air, place>>
  BY DEF OtherBeacon
<1>2. /\ m_candidateAps' \in [Dev -> Seq(Cells)]
      /\ m_controlTxop' \in [Dev -> Seq(Answer)]
      /\ sends' \in [Dev -> Nat]
  BY <1>1, AnswerEffect DEF Cells
<1>3. CellTypeOK'
  BY <1>1, <1>2 DEF CellTypeOK, control, air, place
<1>4. QED
  BY <1>1, <1>3

(* The first answer moves from the station's queue to the channel.  The    *)
(* event is gone only when the queue is empty.                             *)
LEMMA SendAnswerEffect ==
    ASSUME CellTypeOK, NEW d \in Dev, SendAnswer(d)
    PROVE  /\ CellTypeOK'
           /\ Range(m_controlTxop'[d]) \cup Range(uplink')
                = Range(m_controlTxop[d]) \cup Range(uplink)
           /\ Range(uplink) \subseteq Range(uplink')
           /\ \A e \in Dev \ {d} : m_controlTxop'[e] = m_controlTxop[e] /\ sends'[e] = sends[e]
           /\ m_controlTxop'[d] # <<>> => sends'[d] > 0
<1> DEFINE q == m_controlTxop[d]
<1>1. /\ m_controlTxop \in [Dev -> Seq(Answer)] /\ uplink \in Seq(Answer)
      /\ q \in Seq(Answer) /\ sends \in [Dev -> Nat] /\ sends[d] > 0
  BY DEF CellTypeOK, SendAnswer
<1>2. /\ m_controlTxop' = [m_controlTxop EXCEPT ![d] = Dequeued(q)]
      /\ uplink' = uplink \o HandedDown(q)
      /\ sends' = [sends EXCEPT ![d] = IF m_controlTxop'[d] = <<>>
                                         THEN sends[d] - 1 ELSE sends[d]]
      /\ UNCHANGED <<vars, control, downlink, m_candidateAps, place>>
  BY <1>1 DEF SendAnswer
<1> HIDE DEF q
<1>3. /\ Dequeued(q) \in Seq(Answer) /\ uplink' \in Seq(Answer)
      /\ Range(Dequeued(q)) \cup Range(uplink') = Range(q) \cup Range(uplink)
      /\ Range(uplink) \subseteq Range(uplink')
  <2>1. CASE q = <<>>
    <3>1. Dequeued(q) = <<>> /\ uplink' = uplink \o <<>>
      BY <1>2, <2>1 DEF Dequeued, HandedDown
    <3>2. uplink' = uplink
      BY <1>1, <3>1, ConcatEmptySeq
    <3>3. QED
      BY <1>1, <2>1, <3>1, <3>2
  <2>2. CASE q # <<>>
    <3> DEFINE h == Head(q)
    <3>1. Dequeued(q) = Tail(q) /\ uplink' = uplink \o <<h>>
      BY <1>2, <2>2 DEF Dequeued, HandedDown
    <3>2. /\ h \in Answer /\ Tail(q) \in Seq(Answer)
          /\ Range(q) = {h} \cup Range(Tail(q))
      BY <1>1, <2>2, DequeueRange
    <3> HIDE DEF h
    <3>3. uplink' = Append(uplink, h)
      BY <1>1, <3>1, <3>2, AppendIsConcat
    <3>4. uplink' \in Seq(Answer) /\ Range(uplink') = Range(uplink) \cup {h}
      BY <1>1, <3>2, <3>3, AppendRange
    <3>5. QED
      BY <3>1, <3>2, <3>4
  <2>3. QED
    BY <2>1, <2>2
<1>4. /\ m_controlTxop' \in [Dev -> Seq(Answer)]
      /\ m_controlTxop'[d] = Dequeued(q)
      /\ \A e \in Dev \ {d} : m_controlTxop'[e] = m_controlTxop[e]
  BY <1>1, <1>2, <1>3
<1>5. /\ sends' \in [Dev -> Nat]
      /\ m_controlTxop'[d] # <<>> => sends'[d] > 0
      /\ \A e \in Dev \ {d} : sends'[e] = sends[e]
  BY <1>1, <1>2
<1>6. CellTypeOK'
  BY <1>2, <1>3, <1>4, <1>5 DEF CellTypeOK, control, place
<1>7. QED
  BY <1>3, <1>4, <1>5, <1>6 DEF q

LEMMA WalkEffect ==
    ASSUME CellTypeOK, NEW d \in Dev, Walk(d)
    PROVE  CellTypeOK' /\ steady' \subseteq steady /\ UNCHANGED <<vars, control, air, station>>
<1>1. UNCHANGED <<vars, control, air, station>>
  BY DEF Walk
<1>2. inRange' \in SUBSET Dev /\ steady' \in SUBSET inRange' /\ steady' \subseteq steady
  BY DEF Walk, CellTypeOK
<1>3. CellTypeOK'
  BY <1>1, <1>2 DEF CellTypeOK, control, air, station
<1>4. QED
  BY <1>1, <1>2, <1>3

LEMMA CellTypeInit == CellInit => CellTypeOK
<1> SUFFICES ASSUME CellInit PROVE CellTypeOK
  OBVIOUS
<1>1. <<>> \in Seq(ControlFrame) /\ <<>> \in Seq(Cells) /\ <<>> \in Seq(Answer)
  BY EmptySeq
<1>2. QED
  BY <1>1, ControlAssumption DEF CellInit, CellTypeOK

LEMMA CellTypeNext == CellTypeOK /\ [CellNext]_cellVars => CellTypeOK'
<1> SUFFICES ASSUME CellTypeOK, [CellNext]_cellVars PROVE CellTypeOK'
  OBVIOUS
<1>1. CASE QueueBeacon
  BY <1>1, QueueBeaconEffect
<1>2. CASE QueueResponses
  BY <1>2, QueueResponsesEffect
<1>3. CASE ApEvent
  BY <1>3 DEF ApEvent, CellTypeOK, control, air, station, place
<1>4. CASE SendControlFrame
  BY <1>4, SendControlFrameEffect
<1>5. CASE ApReceive
  BY <1>5, ApReceiveEffect
<1>6. CASE \E d \in Dev : StationReceive(d)
  BY <1>6, StationReceiveEffect
<1>7. CASE \E d \in Dev : SendAnswer(d)
  BY <1>7, SendAnswerEffect
<1>8. CASE \E d \in Dev : OtherBeacon(d)
  BY <1>8, OtherBeaconEffect
<1>9. CASE \E d \in Dev : Walk(d)
  BY <1>9, WalkEffect
<1>10. CASE \E d \in Dev : AssociateUserDevicesWithAP(d)
  BY <1>10
  DEF AssociateUserDevicesWithAP, CellTypeOK, control, air, station, place
<1>11. CASE UNCHANGED cellVars
  BY <1>11 DEF cellVars, CellTypeOK, control, air, station, place
<1>12. QED
  BY <1>1, <1>2, <1>3, <1>4, <1>5, <1>6, <1>7, <1>8, <1>9, <1>10, <1>11
  DEF CellNext

(* The queues, the frames on their way and the stations keep their types.  *)
THEOREM CellTypeCorrect == CellSpec => []CellTypeOK
<1>1. QED
  BY CellTypeInit, CellTypeNext, PTL DEF CellSpec

-----------------------------------------------------------------------------
(* The cell implements the access point.                                   *)

LEMMA CellStepIsApStep == CellTypeOK /\ [CellNext]_cellVars => [Next]_vars
<1> SUFFICES ASSUME CellTypeOK, [CellNext]_cellVars PROVE [Next]_vars
  OBVIOUS
<1>1. CASE QueueBeacon
  BY <1>1 DEF QueueBeacon, Next, Simulate
<1>2. CASE QueueResponses
  BY <1>2 DEF QueueResponses, Next, Simulate
<1>3. CASE ApEvent
  BY <1>3 DEF ApEvent, Next, Simulate
<1>4. CASE SendControlFrame
  BY <1>4 DEF SendControlFrame
<1>5. CASE ApReceive
  <2> DEFINE d == Head(uplink).node
  <2>1. d \in Dev
    BY <1>5, ApReceiveEffect DEF Answer
  <2>2. (\E s \in Services : ReigsterUserDevice(d, s)) \/ UNCHANGED vars
    BY <1>5 DEF ApReceive
  <2>3. QED
    BY <2>1, <2>2 DEF Next
<1>6. CASE \E d \in Dev : StationReceive(d) \/ SendAnswer(d) \/ OtherBeacon(d) \/ Walk(d)
  BY <1>6 DEF StationReceive, SendAnswer, OtherBeacon, Walk
<1>7. CASE \E d \in Dev : AssociateUserDevicesWithAP(d)
  BY <1>7 DEF AssociateUserDevicesWithAP, Next
<1>8. CASE UNCHANGED cellVars
  BY <1>8 DEF cellVars
<1>9. QED
  BY <1>1, <1>2, <1>3, <1>4, <1>5, <1>6, <1>7, <1>8 DEF CellNext

(* In the cell the access point behaves as LiFiApMac says, whose           *)
(* registrations at any moment stand for what the channel delivers: what   *)
(* is proved of LiFiApMac holds in the cell.                               *)
THEOREM CellImplementsAp == CellSpec => Spec
<1>1. CellInit => Init
  BY DEF CellInit
<1>2. QED
  BY <1>1, CellStepIsApStep, CellTypeCorrect, PTL DEF CellSpec, Spec

LEMMA ApInvariance == CellSpec => []IInv
  BY CellImplementsAp, Invariance, PTL

-----------------------------------------------------------------------------
(* What the steps of the access point change that the cell relies on.      *)

(* The beacon has been sent and the slots are not distributed yet.         *)
Collecting == pending["DistributeSlots"] > 0 /\ pending["SendOneBeacon"] = 0

LEMMA ApEventEffect ==
    ASSUME IInv, ApEvent
    PROVE  /\ UNCHANGED <<m_slotPtrs, m_slotPtrs_vector>>
           /\ Collecting' => Collecting
           /\ Collecting => Collecting' \/ ~ Answering
           /\ pending'["SendSlotControlPackets"] > 0 =>
                \/ pending["SendSlotControlPackets"] > 0
                \/ Collecting /\ ~ Answering
           /\ \A d \in Dev : m_slotInfosMaps'[d] # NoTag =>
                m_slotInfosMaps[d] # NoTag \/ m_slotPtrs[d] # NoInfo
<1> DEFINE Goal ==
        /\ UNCHANGED <<m_slotPtrs, m_slotPtrs_vector>>
        /\ Collecting' => Collecting
        /\ Collecting => Collecting' \/ ~ Answering
        /\ pending'["SendSlotControlPackets"] > 0 =>
             \/ pending["SendSlotControlPackets"] > 0
             \/ Collecting /\ ~ Answering
        /\ \A d \in Dev : m_slotInfosMaps'[d] # NoTag =>
             m_slotInfosMaps[d] # NoTag \/ m_slotPtrs[d] # NoInfo
<1>1. ASSUME NEW e \in Timed \ {"DistributeSlots"}, NEW S, Run(e, S),
             "DistributeSlots" \in S => "SendOneBeacon" \in S,
             "SendSlotControlPackets" \notin S
      PROVE  /\ ~ Collecting /\ ~ Collecting'
             /\ ~ (pending'["SendSlotControlPackets"] > 0)
  <2>1. /\ \A x \in Event \ {e} : pending[x] = 0
        /\ pending' = [x \in Event |-> One(x \in S)]
    BY <1>1, TimedRun DEF IInv
  <2>2. QED
    BY <1>1, <2>1 DEF Collecting, One, Event, Timed, Urgent
<1>2. CASE StartSuperSessions
  <2>1. ~ Collecting /\ ~ Collecting' /\ ~ (pending'["SendSlotControlPackets"] > 0)
    BY <1>1, <1>2 DEF StartSuperSessions, Timed
  <2>2. QED
    BY <1>2, <2>1 DEF StartSuperSessions, roster, table
<1>3. CASE TransmitControlFrames
  <2>1. ~ Collecting /\ ~ Collecting' /\ ~ (pending'["SendSlotControlPackets"] > 0)
    BY <1>1, <1>3 DEF TransmitControlFrames, Timed
  <2>2. QED
    BY <1>3, <2>1 DEF TransmitControlFrames, roster, table
<1>4. CASE ~ Answering /\ DistributeSlots
  <2>1. PICK S : /\ Run("DistributeSlots", S) /\ "DistributeSlots" \notin S
                 /\ UNCHANGED roster
    <3>1. CASE DistributeNothing
      BY <3>1 DEF DistributeNothing
    <3>2. CASE DistributeTable
      BY <3>2 DEF DistributeTable
    <3>3. QED
      BY <1>4, <3>1, <3>2 DEF DistributeSlots
  <2>2. pending' = [x \in Event |-> One(x \in S)]
    BY <2>1, TimedRun DEF IInv, Timed
  <2>3. Collecting /\ ~ Collecting'
    BY <2>1, <2>2 DEF Run, Collecting, One, Event, Timed, Urgent
  <2>4. \A d \in Dev : m_slotInfosMaps'[d] # NoTag =>
             m_slotInfosMaps[d] # NoTag \/ m_slotPtrs[d] # NoInfo
    <3>1. CASE DistributeNothing
      BY <3>1 DEF DistributeNothing, table
    <3>2. CASE DistributeTable
      BY <3>2 DEF DistributeTable, Associated
    <3>3. QED
      BY <1>4, <3>1, <3>2 DEF DistributeSlots
  <2>5. QED
    BY <1>4, <2>1, <2>3, <2>4 DEF roster
<1>5. CASE SendRecordToCentralizedControllers
  <2>1. \A x \in Event \ {"SendRecord"} : pending'[x] = pending[x]
    BY <1>5, UrgentRun DEF IInv, SendRecordToCentralizedControllers, Urgent
  <2>2. QED
    BY <1>5, <2>1
    DEF SendRecordToCentralizedControllers, roster, table, Collecting, Event, Timed, Urgent
<1>6. CASE TransmitDataFrame \/ StartFrameTransmission
  <2>1. PICK e \in {"TransmitDataFrame", "StartFrameTransmission"} :
            \E S \in {{"StartSuperSessions"}, {"StartFrameTransmission"},
                     {"TransmitDataFrame"}} : Run(e, S)
    BY <1>6
    DEF TransmitDataFrame, StartFrameTransmission, DataSlot, SuperFrameEnd, FrameEnd, Slot
  <2>2. ~ Collecting /\ ~ Collecting' /\ ~ (pending'["SendSlotControlPackets"] > 0)
    BY <1>1, <2>1 DEF Timed
  <2>3. UNCHANGED <<roster, table>>
    BY <1>6 DEF TransmitDataFrame, StartFrameTransmission, DataSlot
  <2>4. QED
    BY <2>2, <2>3 DEF roster, table
<1>7. QED
  BY <1>2, <1>3, <1>4, <1>5, <1>6 DEF ApEvent

LEMMA ApReceiveState ==
    ASSUME IInv, CellTypeOK, ApReceive
    PROVE  /\ UNCHANGED <<pending, m_slotInfosMaps>>
           /\ Present \subseteq Present'
           /\ Correct(Head(uplink).node) => Head(uplink).node \in Present'
           /\ \A d \in Dev : m_slotPtrs'[d] # NoInfo =>
                m_slotPtrs[d] # NoInfo \/ d = Head(uplink).node
<1> DEFINE d == Head(uplink).node
<1>1. d \in Dev
  BY ApReceiveEffect DEF Answer
<1>2. /\ m_slotPtrs_vector \in [Dev -> Nat]
      /\ m_slotPtrs \in [Dev -> Services \cup {NoInfo}]
  BY DEF IInv, TypeOK
<1>3. CASE ~ Correct(d) /\ UNCHANGED vars
  BY <1>3 DEF vars, roster, table, Present
<1>4. CASE \E s \in Services : ReigsterUserDevice(d, s)
  <2>1. PICK s \in Services : ReigsterUserDevice(d, s)
    BY <1>4
  <2> HIDE DEF d
  <2>2. UNCHANGED <<pending, m_slotInfosMaps>>
    BY <2>1 DEF ReigsterUserDevice, table
  <2>3. \A x \in Dev : m_slotPtrs_vector[x] > 0 \/ x = d => m_slotPtrs_vector'[x] > 0
    BY <1>1, <1>2, <2>1 DEF ReigsterUserDevice
  <2>4. \A x \in Dev : x # d => m_slotPtrs'[x] = m_slotPtrs[x]
    BY <1>1, <1>2, <2>1 DEF ReigsterUserDevice
  <2>5. QED
    BY <1>1, <2>2, <2>3, <2>4 DEF Present, d
<1>5. QED
  BY <1>3, <1>4 DEF ApReceive

LEMMA AssociateState ==
    ASSUME IInv, NEW d \in Dev, AssociateUserDevicesWithAP(d)
    PROVE  /\ UNCHANGED <<pending, m_slotPtrs, m_slotInfosMaps>>
           /\ Present \subseteq Present'
<1>1. m_slotPtrs_vector' = [m_slotPtrs_vector EXCEPT ![d] = @ + 1]
  BY DEF AssociateUserDevicesWithAP, AddUserDeviceInfos
<1>2. Present \subseteq Present'
  BY <1>1 DEF Present, IInv, TypeOK
<1>3. QED
  BY <1>2 DEF AssociateUserDevicesWithAP, AddUserDeviceInfos, table

LEMMA QueueBeaconState ==
    ASSUME IInv, QueueBeacon
    PROVE  /\ pending["SendOneBeacon"] > 0 /\ ~ Collecting /\ Collecting'
           /\ pending["SendSlotControlPackets"] = 0
           /\ pending'["SendSlotControlPackets"] = 0
           /\ UNCHANGED <<m_slotPtrs, m_slotInfosMaps>>
<1>1. /\ pending["SendOneBeacon"] > 0
      /\ pending'["SendOneBeacon"] = pending["SendOneBeacon"] - 1
      /\ \A x \in Event \ {"SendOneBeacon"} : pending'[x] = pending[x]
  BY UrgentRun DEF IInv, QueueBeacon, SendOneBeacon, Urgent
<1>2. /\ pending \in [Event -> Nat]
      /\ pending["SendOneBeacon"] <= pending["DistributeSlots"]
  BY DEF IInv, TypeOK, EventsPrepared
<1>3. PICK c \in Timed : pending[c] = 1 /\ \A x \in Timed \ {c} : pending[x] = 0
  <2>1. pending["DistributeSlots"] > 0
    BY <1>1, <1>2 DEF Event, Timed, Urgent
  <2>2. ~ Silenced
    BY <2>1 DEF Silenced, Timed
  <2>3. QED
    BY <2>2 DEF IInv, SingleChain
<1>4. c = "DistributeSlots"
  BY <1>1, <1>2, <1>3 DEF Event, Timed, Urgent
<1>5. UNCHANGED <<m_slotPtrs, m_slotInfosMaps>>
  BY DEF QueueBeacon, SendOneBeacon, table
<1>6. QED
  BY <1>1, <1>2, <1>3, <1>4, <1>5 DEF Collecting, Event, Timed, Urgent

LEMMA QueueResponsesState ==
    ASSUME IInv, QueueResponses
    PROVE  /\ pending["SendSlotControlPackets"] > 0 /\ ~ Collecting /\ ~ Collecting'
           /\ pending'["SendSlotControlPackets"] = 0
           /\ UNCHANGED <<m_slotPtrs, m_slotInfosMaps>>
<1>1. PICK S \in {{"TransmitDataFrame"}, {}} : Run("SendSlotControlPackets", S)
  BY DEF QueueResponses, SendSlotControlPackets
<1>2. /\ pending["SendSlotControlPackets"] = 1
      /\ \A x \in Event \ {"SendSlotControlPackets"} : pending[x] = 0
      /\ pending' = [x \in Event |-> One(x \in S)]
  BY <1>1, TimedRun DEF IInv, Timed
<1>3. UNCHANGED <<m_slotPtrs, m_slotInfosMaps>>
  BY DEF QueueResponses, SendSlotControlPackets, roster, table
<1>4. QED
  BY <1>1, <1>2, <1>3 DEF Collecting, One, Event, Timed, Urgent

-----------------------------------------------------------------------------
(* Every answer in a station's queue has an event that sends it.           *)
THEOREM NoAnswerIsStranded == CellSpec => []NoStrandedAnswer
<1>1. CellInit => NoStrandedAnswer
  BY DEF CellInit, NoStrandedAnswer
<1>2. ASSUME CellTypeOK, NoStrandedAnswer, [CellNext]_cellVars
      PROVE  NoStrandedAnswer'
  <2>1. ASSUME NEW d \in Dev, NEW cell \in Cells, AnswerBeacon(d, cell)
        PROVE  NoStrandedAnswer'
    <3>1. sends[d] \in Nat
      BY <1>2 DEF CellTypeOK
    <3>2. /\ sends'[d] # 0
          /\ \A e \in Dev \ {d} : m_controlTxop'[e] = m_controlTxop[e] /\ sends'[e] = sends[e]
      BY <1>2, <2>1, <3>1, AnswerEffect
    <3>3. QED
      BY <1>2, <3>2 DEF NoStrandedAnswer
  <2>2. CASE \E d \in Dev : StationReceive(d)
    <3>1. PICK d \in Dev : AnswerBeacon(d, "own") \/ UNCHANGED station
      BY <2>2 DEF StationReceive
    <3>2. CASE UNCHANGED station
      BY <1>2, <3>2 DEF station, NoStrandedAnswer
    <3>3. QED
      BY <2>1, <3>1, <3>2 DEF Cells
  <2>3. CASE \E d \in Dev : OtherBeacon(d)
    BY <2>1, <2>3 DEF OtherBeacon, Cells
  <2>4. CASE \E d \in Dev : SendAnswer(d)
    <3>1. PICK d \in Dev : SendAnswer(d)
      BY <2>4
    <3>2. /\ m_controlTxop'[d] # <<>> => sends'[d] > 0
          /\ \A e \in Dev \ {d} : m_controlTxop'[e] = m_controlTxop[e] /\ sends'[e] = sends[e]
      BY <1>2, <3>1, SendAnswerEffect
    <3>3. QED
      BY <1>2, <3>2 DEF NoStrandedAnswer
  <2>5. CASE \/ QueueBeacon \/ QueueResponses \/ ApEvent \/ SendControlFrame
             \/ ApReceive
             \/ (\E d \in Dev : Walk(d) \/ AssociateUserDevicesWithAP(d))
             \/ UNCHANGED cellVars
    <3>1. UNCHANGED station
      BY <2>5 DEF QueueBeacon, QueueResponses, ApEvent, SendControlFrame,
                  ApReceive, AssociateUserDevicesWithAP, Walk, cellVars
    <3>2. QED
      BY <1>2, <3>1 DEF station, NoStrandedAnswer
  <2>6. QED
    BY <1>2, <2>2, <2>3, <2>4, <2>5 DEF CellNext
<1>3. QED
  BY <1>1, <1>2, CellTypeCorrect, PTL DEF CellSpec

-----------------------------------------------------------------------------
(* A station that answers has heard a beacon, one that is registered has   *)
(* answered, one that has slots was registered, and a response is sent for *)
(* slots.                                                                  *)
Heard(d) == m_candidateAps[d] # <<>>

WhoIsHeard ==
    /\ \A e \in Dev : \A a \in Range(m_controlTxop[e]) \cup Range(uplink) : Heard(a.node)
    /\ \A d \in Dev : m_slotPtrs[d] # NoInfo \/ m_slotInfosMaps[d] # NoTag => Heard(d)
    /\ \A d, e \in Dev :
          AssocResp(d) \in Range(m_beaconTxop) \cup Range(downlink[e]) => Heard(d)

LEMMA AnswerWhoIsHeard ==
    ASSUME CellTypeOK, WhoIsHeard, NEW d \in Dev, NEW cell \in Cells,
           AnswerBeacon(d, cell), UNCHANGED <<vars, m_beaconTxop, uplink>>,
           \A e \in Dev : Range(downlink'[e]) \subseteq Range(downlink[e])
    PROVE  WhoIsHeard'
<1>1. /\ m_candidateAps'[d] # <<>>
      /\ \A e \in Dev : m_candidateAps[e] # <<>> => m_candidateAps'[e] # <<>>
      /\ Range(m_controlTxop'[d])
           = Range(m_controlTxop[d]) \cup {[node |-> d, cell |-> cell]}
      /\ \A e \in Dev \ {d} : m_controlTxop'[e] = m_controlTxop[e]
  BY AnswerEffect
<1>2. \A e \in Dev : \A a \in Range(m_controlTxop[e]) \cup Range(uplink) : a.node \in Dev
  <2>1. \A e \in Dev : Range(m_controlTxop[e]) \subseteq Answer
    BY RangeOfSeq DEF CellTypeOK
  <2>2. Range(uplink) \subseteq Answer
    BY RangeOfSeq DEF CellTypeOK
  <2>3. QED
    BY <2>1, <2>2 DEF Answer
<1>3. \A e \in Dev : \A a \in Range(m_controlTxop'[e]) \cup Range(uplink') : Heard(a.node)'
  BY <1>1, <1>2 DEF WhoIsHeard, Heard
<1>4. \A e \in Dev : m_slotPtrs'[e] # NoInfo \/ m_slotInfosMaps'[e] # NoTag => Heard(e)'
  BY <1>1 DEF WhoIsHeard, Heard, vars, roster, table
<1>5. \A e, x \in Dev :
        AssocResp(e)' \in Range(m_beaconTxop') \cup Range(downlink'[x]) => Heard(e)'
  BY <1>1 DEF WhoIsHeard, Heard, AssocResp
<1>6. QED
  BY <1>3, <1>4, <1>5 DEF WhoIsHeard

LEMMA WhoIsHeardNext ==
    IInv /\ CellTypeOK /\ WhoIsHeard /\ [CellNext]_cellVars => WhoIsHeard'
<1> SUFFICES ASSUME IInv, CellTypeOK, WhoIsHeard, [CellNext]_cellVars
             PROVE  WhoIsHeard'
  OBVIOUS
<1>1. CASE QueueBeacon
  <2>1. Range(m_beaconTxop') = Range(m_beaconTxop) \cup {Beacon}
    BY <1>1, QueueBeaconEffect
  <2>2. UNCHANGED <<m_slotPtrs, m_slotInfosMaps, air, station>>
    BY <1>1, QueueBeaconState DEF QueueBeacon
  <2>3. QED
    BY <2>1, <2>2, FramesDiffer DEF WhoIsHeard, Heard, AssocResp, air, station
<1>2. CASE QueueResponses
  <2>1. \A f \in Range(m_beaconTxop') :
           f \in Range(m_beaconTxop) \/ \E d \in Tagged : f = AssocResp(d)
    BY <1>2, QueueResponsesEffect
  <2>2. UNCHANGED <<m_slotPtrs, m_slotInfosMaps, air, station>>
    BY <1>2, QueueResponsesState DEF QueueResponses
  <2>3. ASSUME NEW d \in Dev, AssocResp(d) \in Range(m_beaconTxop')
        PROVE  AssocResp(d) \in Range(m_beaconTxop) \/ d \in Tagged
    BY <2>1, <2>3, FramesDiffer DEF Tagged
  <2>4. \A d \in Dev : AssocResp(d) \in Range(m_beaconTxop') => Heard(d)
    BY <2>3 DEF WhoIsHeard, Tagged
  <2>5. QED
    BY <2>2, <2>4 DEF WhoIsHeard, Heard, AssocResp, air, station
<1>3. CASE ApEvent
  <2>1. /\ m_slotPtrs' = m_slotPtrs
        /\ \A d \in Dev : m_slotInfosMaps'[d] # NoTag =>
             m_slotInfosMaps[d] # NoTag \/ m_slotPtrs[d] # NoInfo
    BY <1>3, ApEventEffect
  <2>2. UNCHANGED <<control, air, station>>
    BY <1>3 DEF ApEvent
  <2>3. QED
    BY <2>1, <2>2 DEF WhoIsHeard, Heard, AssocResp, control, air, station
<1>4. CASE SendControlFrame
  <2>1. \A d \in Dev : Range(m_beaconTxop') \cup Range(downlink'[d])
                       = Range(m_beaconTxop) \cup Range(downlink[d])
    BY <1>4, SendControlFrameEffect
  <2>2. UNCHANGED <<vars, uplink, station>>
    BY <1>4 DEF SendControlFrame
  <2>3. QED
    BY <2>1, <2>2 DEF WhoIsHeard, Heard, AssocResp, vars, roster, table, station
<1>5. CASE ApReceive
  <2>1. /\ Range(uplink) = {Head(uplink)} \cup Range(uplink')
        /\ Head(uplink) \in Answer
    BY <1>5, ApReceiveEffect
  <2>2. /\ m_slotInfosMaps' = m_slotInfosMaps
        /\ \A d \in Dev : m_slotPtrs'[d] # NoInfo =>
             m_slotPtrs[d] # NoInfo \/ d = Head(uplink).node
    BY <1>5, ApReceiveState
  <2>3. Head(uplink).node \in Dev /\ Heard(Head(uplink).node)
    BY <2>1 DEF WhoIsHeard, Answer
  <2>4. UNCHANGED <<control, downlink, station>>
    BY <1>5 DEF ApReceive
  <2>5. QED
    BY <2>1, <2>2, <2>3, <2>4 DEF WhoIsHeard, Heard, AssocResp, control, station
<1>6. CASE \E d \in Dev : StationReceive(d)
  <2>1. PICK d \in Dev : StationReceive(d)
    BY <1>6
  <2>2. \A e \in Dev : Range(downlink'[e]) \subseteq Range(downlink[e])
    BY <2>1, StationReceiveEffect
  <2>3. UNCHANGED <<vars, control, uplink>>
    BY <2>1 DEF StationReceive
  <2>4. CASE AnswerBeacon(d, "own")
    BY <2>2, <2>3, <2>4, AnswerWhoIsHeard DEF Cells, control
  <2>5. CASE UNCHANGED station
    BY <2>2, <2>3, <2>5
    DEF WhoIsHeard, Heard, AssocResp, vars, roster, table, control, station
  <2>6. QED
    BY <2>1, <2>4, <2>5, StationReceiveEffect
<1>7. CASE \E d \in Dev : SendAnswer(d)
  <2>1. PICK d \in Dev : SendAnswer(d)
    BY <1>7
  <2>2. /\ Range(m_controlTxop'[d]) \cup Range(uplink')
             = Range(m_controlTxop[d]) \cup Range(uplink)
        /\ \A e \in Dev \ {d} : m_controlTxop'[e] = m_controlTxop[e]
    BY <2>1, SendAnswerEffect
  <2>3. UNCHANGED <<vars, control, downlink, m_candidateAps>>
    BY <2>1 DEF SendAnswer
  <2>4. \A e \in Dev : \A a \in Range(m_controlTxop'[e]) \cup Range(uplink') :
           Heard(a.node)'
    BY <2>2, <2>3 DEF WhoIsHeard, Heard
  <2>5. QED
    BY <2>3, <2>4 DEF WhoIsHeard, Heard, AssocResp, vars, roster, table, control
<1>8. CASE \E d \in Dev : OtherBeacon(d)
  <2>1. PICK d \in Dev : OtherBeacon(d)
    BY <1>8
  <2>2. QED
    BY <2>1, OtherBeaconEffect, AnswerWhoIsHeard DEF Cells, control, air
<1>9. CASE (\E d \in Dev : Walk(d)) \/ UNCHANGED cellVars
  <2>1. UNCHANGED <<vars, control, air, station>>
    BY <1>9 DEF Walk, cellVars
  <2>2. QED
    BY <2>1
    DEF WhoIsHeard, Heard, AssocResp, vars, roster, table, control, air, station
<1>10. CASE \E d \in Dev : AssociateUserDevicesWithAP(d)
  <2>1. UNCHANGED <<m_slotPtrs, m_slotInfosMaps>>
    BY <1>10, AssociateState
  <2>2. UNCHANGED <<control, air, station>>
    BY <1>10 DEF AssociateUserDevicesWithAP
  <2>3. QED
    BY <2>1, <2>2
    DEF WhoIsHeard, Heard, AssocResp, control, air, station
<1>11. QED
  BY <1>1, <1>2, <1>3, <1>4, <1>5, <1>6, <1>7, <1>8, <1>9, <1>10 DEF CellNext

LEMMA WhoIsHeardInvariance == CellSpec => []WhoIsHeard
<1>1. CellInit => WhoIsHeard
  <2> SUFFICES ASSUME CellInit PROVE WhoIsHeard
    OBVIOUS
  <2>1. Range(<<>>) = {}
    BY DEF Range
  <2>2. QED
    BY <2>1 DEF CellInit, Init, WhoIsHeard, NoTag
<1>2. QED
  BY <1>1, WhoIsHeardNext, ApInvariance, CellTypeCorrect, PTL DEF CellSpec

(* A response is never sent to a station whose list of access points is    *)
(* empty.                                                                  *)
THEOREM ResponsesToKnown == CellSpec => []ResponseKnown
<1>1. WhoIsHeard => ResponseKnown
  BY DEF WhoIsHeard, Heard, ResponseKnown
<1>2. QED
  BY <1>1, WhoIsHeardInvariance, PTL

-----------------------------------------------------------------------------
LEMMA EmptyFits == Range(<<>>) = {} /\ Len(<<>>) <= Cardinality(Dev)
<1>1. Cardinality(Dev) \in Nat
  BY DevAssumption, FS_CardinalityType
<1>2. Range(<<>>) = {}
  BY DEF Range
<1>3. Len(<<>>) = 0
  BY EmptySeq
<1>4. 0 <= Cardinality(Dev)
  BY <1>1
<1>5. QED
  BY <1>2, <1>3, <1>4

(* The control queue while the beacon is in it, and otherwise: what is     *)
(* queued in front of the beacon leaves with it, so nothing is left over   *)
(* when the responses of the next superframe come.                         *)
QueueOnTime ==
    /\ budget > 0 =>
         m_beaconTxop # <<>> /\ Len(m_beaconTxop) <= budget /\ Collecting
    /\ BeaconOut
    /\ budget = 0 /\ Collecting => m_beaconTxop = <<>>
    /\ pending["SendSlotControlPackets"] > 0 => m_beaconTxop = <<>>

(* A station that stays in range is registered, or its answer or the       *)
(* beacon that it will answer is on its way.                               *)
Followed(d) ==
    \/ Beacon \in Range(m_beaconTxop) \cup Range(downlink[d])
    \/ [node |-> d, cell |-> "own"] \in Range(m_controlTxop[d]) \cup Range(uplink)
    \/ d \in Present

BeaconAnswered ==
    /\ QueueOnTime
    /\ Collecting => \A d \in steady : Followed(d)

LEMMA QueueOnTimeNext ==
    ASSUME Cardinality(Dev) < ControlBudget,
           IInv, CellTypeOK, QueueOnTime, [CellNext]_cellVars
    PROVE  QueueOnTime'
<1>0. /\ Cardinality(Dev) \in Nat /\ ControlBudget \in Nat /\ ControlBudget > 0
      /\ budget \in 0..ControlBudget /\ m_beaconTxop \in Seq(ControlFrame)
      /\ Len(m_beaconTxop) \in Nat
      /\ m_beaconTxop = <<>> => Len(m_beaconTxop) = 0 /\ Range(m_beaconTxop) = {}
  BY EmptyRange, DevAssumption, ControlAssumption, FS_CardinalityType DEF CellTypeOK
<1>1. CASE QueueBeacon
  <2>1. /\ ~ Collecting /\ Collecting' /\ pending'["SendSlotControlPackets"] = 0
    BY <1>1, QueueBeaconState
  <2>2. /\ m_beaconTxop' # <<>> /\ budget' = ControlBudget
        /\ Len(m_beaconTxop') = Len(m_beaconTxop) + 1
    BY <1>1, QueueBeaconEffect
  <2>3. budget = 0 /\ Len(m_beaconTxop) <= Cardinality(Dev)
    BY <1>0, <2>1 DEF QueueOnTime, BeaconOut
  <2>4. budget' > 0 /\ Len(m_beaconTxop') <= budget'
    BY <1>0, <2>2, <2>3
  <2>5. QED
    BY <2>1, <2>2, <2>4 DEF QueueOnTime, BeaconOut
<1>2. CASE QueueResponses
  <2>1. /\ pending["SendSlotControlPackets"] > 0 /\ ~ Collecting /\ ~ Collecting'
        /\ pending'["SendSlotControlPackets"] = 0
    BY <1>2, QueueResponsesState
  <2>2. budget' = budget /\ budget = 0 /\ m_beaconTxop = <<>>
    BY <1>0, <1>2, <2>1 DEF QueueResponses, QueueOnTime
  <2>3. /\ Len(m_beaconTxop') <= Len(m_beaconTxop) + Cardinality(Dev)
        /\ \A f \in Range(m_beaconTxop') :
             f \in Range(m_beaconTxop) \/ \E d \in Tagged : f = AssocResp(d)
    BY <1>2, QueueResponsesEffect
  <2>4. m_beaconTxop' \in Seq(ControlFrame)
    BY <1>2, QueueResponsesEffect DEF CellTypeOK
  <2>5. Len(m_beaconTxop') \in Nat
    BY <2>4, EmptyRange
  <2>6. Len(m_beaconTxop') <= Cardinality(Dev)
    BY <1>0, <2>2, <2>3, <2>5
  <2>7. Beacon \notin Range(m_beaconTxop')
    BY <1>0, <2>2, <2>3, FramesDiffer DEF Tagged
  <2>8. QED
    BY <2>1, <2>2, <2>6, <2>7 DEF QueueOnTime, BeaconOut, Beacon
<1>3. CASE ApEvent
  <2>1. UNCHANGED <<budget, m_beaconTxop>>
    BY <1>3 DEF ApEvent, control
  <2>2. /\ Collecting' => Collecting
        /\ Collecting => Collecting' \/ ~ Answering
        /\ pending'["SendSlotControlPackets"] > 0 =>
             \/ pending["SendSlotControlPackets"] > 0
             \/ Collecting /\ ~ Answering
    BY <1>3, ApEventEffect
  <2>3. ~ Answering => budget = 0
    BY <1>0 DEF Answering
  <2>4. budget = 0 => ~ (budget > 0)
    OBVIOUS
  <2>5. QED
    BY <2>1, <2>2, <2>3, <2>4 DEF QueueOnTime, BeaconOut, Beacon
<1>4. CASE SendControlFrame
  <2>1. budget > 0 /\ UNCHANGED vars
    BY <1>4 DEF SendControlFrame
  <2>2. m_beaconTxop # <<>> /\ Len(m_beaconTxop) <= budget /\ Collecting
    BY <2>1 DEF QueueOnTime
  <2>3. /\ Len(m_beaconTxop') = Len(m_beaconTxop) - 1
        /\ budget' = IF m_beaconTxop' # <<>> THEN budget - 1 ELSE 0
        /\ m_beaconTxop' \in Seq(ControlFrame)
    BY <1>4, <2>2, SendControlFrameEffect DEF CellTypeOK
  <2>4. /\ Len(m_beaconTxop') \in Nat
        /\ Len(m_beaconTxop') <= 0 => m_beaconTxop' = <<>>
    BY <2>3, EmptyRange
  <2>5. m_beaconTxop' # <<>> => budget' > 0 /\ Len(m_beaconTxop') <= budget'
    BY <1>0, <2>1, <2>2, <2>3, <2>4
  <2>6. m_beaconTxop' = <<>> =>
          Range(m_beaconTxop') = {} /\ Len(m_beaconTxop') <= Cardinality(Dev)
    BY EmptyFits
  <2>7. Collecting' = Collecting /\ pending' = pending
    BY <2>1 DEF vars, Collecting
  <2>8. budget' > 0 => m_beaconTxop' # <<>>
    BY <2>3
  <2>9. budget' = 0 => m_beaconTxop' = <<>>
    BY <2>5
  <2>10. pending["SendSlotControlPackets"] > 0 => m_beaconTxop' = <<>>
    <3>1. pending["SendSlotControlPackets"] > 0 => m_beaconTxop = <<>>
      BY DEF QueueOnTime
    <3>2. QED
      BY <2>2, <3>1
  <2>11. QED
    BY <2>2, <2>5, <2>6, <2>7, <2>8, <2>9, <2>10 DEF QueueOnTime, BeaconOut, Beacon
<1>5. CASE \/ ApReceive
           \/ \E d \in Dev : \/ StationReceive(d) \/ SendAnswer(d)
                            \/ OtherBeacon(d) \/ Walk(d)
                            \/ AssociateUserDevicesWithAP(d)
           \/ UNCHANGED cellVars
  <2>1. UNCHANGED <<pending, control>>
    BY <1>5, ApReceiveState, AssociateState
    DEF ApReceive, StationReceive, SendAnswer, OtherBeacon, Walk,
        AssociateUserDevicesWithAP, cellVars, vars
  <2>2. QED
    BY <2>1 DEF control, QueueOnTime, BeaconOut, Beacon, Collecting
<1>6. QED
  BY <1>1, <1>2, <1>3, <1>4, <1>5 DEF CellNext

LEMMA FollowedNext ==
    ASSUME IInv, CellTypeOK, [CellNext]_cellVars, QueueOnTime,
           Collecting => \A d \in steady : Followed(d),
           Collecting', NEW d \in steady'
    PROVE  Followed(d)'
<1>0. steady \subseteq inRange /\ inRange \subseteq Dev
  BY DEF CellTypeOK
<1>1. CASE QueueBeacon
  <2>1. Beacon \in Range(m_beaconTxop')
    BY <1>1, QueueBeaconEffect
  <2>2. QED
    BY <2>1 DEF Followed, Beacon
<1>2. CASE QueueResponses
  BY <1>2, QueueResponsesState
<1>3. CASE ApEvent
  <2>1. Collecting /\ m_slotPtrs_vector' = m_slotPtrs_vector
    BY <1>3, ApEventEffect
  <2>2. UNCHANGED <<control, air, station, place>>
    BY <1>3 DEF ApEvent
  <2>3. QED
    BY <2>1, <2>2 DEF Followed, Present, Beacon, control, air, station, place
<1>4. CASE SendControlFrame
  <2>1. UNCHANGED <<vars, uplink, station, place>>
    BY <1>4 DEF SendControlFrame
  <2>2. Collecting /\ d \in Dev /\ Followed(d)
    BY <1>0, <2>1 DEF vars, Collecting, place
  <2>3. Range(m_beaconTxop') \cup Range(downlink'[d])
          = Range(m_beaconTxop) \cup Range(downlink[d])
    BY <1>4, <2>2, SendControlFrameEffect
  <2>4. QED
    BY <2>1, <2>2, <2>3 DEF Followed, Present, Beacon, vars, roster, station
<1>5. CASE ApReceive
  <2>1. /\ pending' = pending /\ Present \subseteq Present'
        /\ Correct(Head(uplink).node) => Head(uplink).node \in Present'
    BY <1>5, ApReceiveState
  <2>2. UNCHANGED <<control, downlink, station, place>>
    BY <1>5 DEF ApReceive
  <2>3. Followed(d) /\ d \in inRange
    BY <1>0, <2>1, <2>2 DEF Collecting, place
  <2>4. Range(uplink) = {Head(uplink)} \cup Range(uplink')
    BY <1>5, ApReceiveEffect
  <2>5. CASE Head(uplink) = [node |-> d, cell |-> "own"]
    <3>1. Head(uplink).node = d
      BY <2>5
    <3>2. d \in Present'
      BY <2>1, <2>3, <3>1 DEF Correct
    <3>3. QED
      BY <3>2 DEF Followed
  <2>6. CASE Head(uplink) # [node |-> d, cell |-> "own"]
    BY <2>1, <2>2, <2>3, <2>4, <2>6 DEF Followed, Beacon, control, station
  <2>7. QED
    BY <2>5, <2>6
<1>6. CASE \E e \in Dev : StationReceive(e)
  <2>1. PICK e \in Dev : StationReceive(e)
    BY <1>6
  <2>2. UNCHANGED <<vars, control, uplink, place>>
    BY <2>1 DEF StationReceive
  <2>3. Followed(d) /\ d \in inRange /\ d \in Dev
    BY <1>0, <2>2 DEF Collecting, place, vars
  <2>4. /\ Range(downlink[e]) = {Head(downlink[e])} \cup Range(downlink'[e])
        /\ \A x \in Dev \ {e} : downlink'[x] = downlink[x]
        /\ \/ Head(downlink[e]) = Beacon /\ Correct(e) /\ AnswerBeacon(e, "own")
           \/ ~ (Correct(e) /\ Head(downlink[e]) = Beacon) /\ UNCHANGED station
    BY <2>1, StationReceiveEffect
  <2>5. CASE AnswerBeacon(e, "own")
    <3>1. /\ Range(m_controlTxop'[e])
               = Range(m_controlTxop[e]) \cup {[node |-> e, cell |-> "own"]}
          /\ \A x \in Dev \ {e} : m_controlTxop'[x] = m_controlTxop[x]
      BY <2>5, AnswerEffect DEF Cells
    <3>2. CASE d = e
      BY <3>1, <3>2 DEF Followed
    <3>3. CASE d # e
      BY <2>2, <2>3, <2>4, <3>1, <3>3 DEF Followed, Present, Beacon, vars, roster, control
    <3>4. QED
      BY <3>2, <3>3
  <2>6. CASE ~ (Correct(e) /\ Head(downlink[e]) = Beacon) /\ UNCHANGED station
    BY <2>2, <2>3, <2>4, <2>6
    DEF Followed, Present, Beacon, Correct, vars, roster, control, station
  <2>7. QED
    BY <2>4, <2>5, <2>6
<1>7. CASE \E e \in Dev : SendAnswer(e)
  <2>1. PICK e \in Dev : SendAnswer(e)
    BY <1>7
  <2>2. UNCHANGED <<vars, control, downlink, place>>
    BY <2>1 DEF SendAnswer
  <2>3. Followed(d) /\ d \in Dev
    BY <1>0, <2>2 DEF Collecting, place, vars
  <2>4. /\ Range(m_controlTxop'[e]) \cup Range(uplink')
             = Range(m_controlTxop[e]) \cup Range(uplink)
        /\ Range(uplink) \subseteq Range(uplink')
        /\ \A x \in Dev \ {e} : m_controlTxop'[x] = m_controlTxop[x]
    BY <2>1, SendAnswerEffect
  <2>5. QED
    BY <2>2, <2>3, <2>4 DEF Followed, Present, Beacon, vars, roster, control
<1>8. CASE \E e \in Dev : OtherBeacon(e)
  <2>1. PICK e \in Dev : OtherBeacon(e)
    BY <1>8
  <2>2. AnswerBeacon(e, "other") /\ UNCHANGED <<vars, control, air, place>>
    BY <2>1, OtherBeaconEffect
  <2>3. Followed(d) /\ d \in Dev
    BY <1>0, <2>2 DEF Collecting, place, vars
  <2>4. /\ Range(m_controlTxop[e]) \subseteq Range(m_controlTxop'[e])
        /\ \A x \in Dev \ {e} : m_controlTxop'[x] = m_controlTxop[x]
    BY <2>2, AnswerEffect DEF Cells
  <2>5. QED
    BY <2>2, <2>3, <2>4 DEF Followed, Present, Beacon, vars, roster, control, air
<1>9. CASE (\E e \in Dev : Walk(e)) \/ UNCHANGED cellVars
  <2>1. UNCHANGED <<vars, control, air, station>> /\ d \in steady
    BY <1>9 DEF Walk, cellVars, place
  <2>2. Followed(d)
    BY <2>1 DEF Collecting, vars
  <2>3. QED
    BY <2>1, <2>2 DEF Followed, Present, Beacon, vars, roster, control, air, station
<1>10. CASE \E e \in Dev : AssociateUserDevicesWithAP(e)
  <2>1. pending' = pending /\ Present \subseteq Present'
    BY <1>10, AssociateState
  <2>2. UNCHANGED <<control, air, station, place>>
    BY <1>10 DEF AssociateUserDevicesWithAP
  <2>3. Followed(d)
    BY <2>1, <2>2 DEF Collecting, place
  <2>4. QED
    BY <2>1, <2>2, <2>3 DEF Followed, Beacon, control, air, station
<1>11. QED
  BY <1>1, <1>2, <1>3, <1>4, <1>5, <1>6, <1>7, <1>8, <1>9, <1>10 DEF CellNext

LEMMA BeaconAnsweredInvariance ==
    ASSUME Cardinality(Dev) < ControlBudget
    PROVE  CellSpec => []BeaconAnswered
<1>1. CellInit => BeaconAnswered
  <2> SUFFICES ASSUME CellInit PROVE BeaconAnswered
    OBVIOUS
  <2>1. Range(<<>>) = {} /\ Len(<<>>) <= Cardinality(Dev)
    BY EmptyFits
  <2>2. m_beaconTxop = <<>> /\ budget = 0 /\ steady = {}
    BY DEF CellInit
  <2>3. QED
    BY <2>1, <2>2 DEF BeaconAnswered, QueueOnTime, BeaconOut
<1>2. IInv /\ CellTypeOK /\ BeaconAnswered /\ [CellNext]_cellVars => BeaconAnswered'
  BY QueueOnTimeNext, FollowedNext DEF BeaconAnswered
<1>3. QED
  BY <1>1, <1>2, ApInvariance, CellTypeCorrect, PTL DEF CellSpec

(* The control queue sends the beacon, and all that is queued before it,   *)
(* before its time is over, if there are fewer stations than microseconds. *)
THEOREM BeaconsGoOut ==
    ASSUME Cardinality(Dev) < ControlBudget
    PROVE  CellSpec => []BeaconOut
<1>1. BeaconAnswered => BeaconOut
  BY DEF BeaconAnswered, QueueOnTime
<1>2. QED
  BY <1>1, BeaconAnsweredInvariance, PTL

(* Whoever is in range from the beacon on is registered when the slots are *)
(* distributed.                                                            *)
THEOREM StationsAreRegistered ==
    ASSUME Cardinality(Dev) < ControlBudget
    PROVE  CellSpec => []StationsRegistered
<1>1. ASSUME CellTypeOK, BeaconAnswered
      PROVE  StationsRegistered
  <2> SUFFICES ASSUME Collecting, ~ Answering, NEW d \in steady
               PROVE  d \in Present
    BY DEF StationsRegistered, Collecting
  <2>1. d \in Dev /\ Followed(d) /\ budget \in Nat
    BY <1>1, ControlAssumption DEF BeaconAnswered, CellTypeOK
  <2>2. budget = 0
    BY <2>1 DEF Answering
  <2>3. Beacon \notin Range(m_beaconTxop)
    BY <1>1, <2>2 DEF BeaconAnswered, QueueOnTime, BeaconOut
  <2>4. Beacon \notin Range(downlink[d])
    <3>1. downlink[d] = <<>> /\ Range(<<>>) = {}
      BY <2>1 DEF Answering, Range
    <3>2. QED
      BY <3>1
  <2>5. [node |-> d, cell |-> "own"] \notin Range(m_controlTxop[d]) \cup Range(uplink)
    BY <2>1 DEF Answering
  <2>6. QED
    BY <2>1, <2>3, <2>4, <2>5 DEF Followed
<1>2. QED
  BY <1>1, BeaconAnsweredInvariance, CellTypeCorrect, PTL

(* Whatever the order in which beacons, answers and responses are sent,    *)
(* lost and heard, each finds what it needs when its turn comes, as long   *)
(* as a beacon and the responses before it fit in 30 us.                   *)
THEOREM CellIsSound ==
    ASSUME Cardinality(Dev) < ControlBudget
    PROVE  CellSpec => []CellSound
<1>1. CellSpec => []StationsRegistered
  BY StationsAreRegistered
<1>2. CellSpec => []BeaconOut
  BY BeaconsGoOut
<1>3. QED
  BY <1>1, <1>2, CellTypeCorrect, NoAnswerIsStranded, ResponsesToKnown, PTL
  DEF CellSound
=============================================================================
