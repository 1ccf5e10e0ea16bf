-------------------------- MODULE LiFiDataPathProofs --------------------------
(***************************************************************************)
(* Theorems of the data path, for every set of nodes, lengths, packets and *)
(* associations.  What arrives: every frame carries the packet whose       *)
(* number it has, and grows and shrinks by known amounts (Waiting,         *)
(* OnItsWay); a station sends only on channels that list it or that it was *)
(* put on (Placed), where only their access point hears it.  Its order and *)
(* number: what a node has been handed, what is on the air to it and what  *)
(* waits in a queue are one line by number (Fifo), so that the number of a *)
(* frame that leaves a queue is on its way nowhere else yet; it then goes  *)
(* to each node once per listing (Counted).                                *)
(***************************************************************************)
EXTENDS LiFiDataPath, SequenceTheorems, FiniteSetTheorems, FunctionTheorems,
        TLAPS

(* Station or access point n is listed on the channel of a.                *)
Listed(n, a) == n \in Elements(m_PhyVector[a])

(* It is, or the script has put it on the channel all the same.            *)
Placed(n, a) == Listed(n, a) \/ n \in strayed[a]

OneOwner ==
    \A a \in Ap : Listed(a, a) /\ \A b \in Ap : Listed(b, a) => b = a

OnPlacedChannel ==
    \A s \in Sta : m_channel[s] # None => m_channel[s] \in Ap /\ Placed(s, m_channel[s])

(* Frame f is the packet of its number, with so many bytes around it.      *)
Carries(f, more) ==
    /\ f.id \in DOMAIN packets
    /\ f.addr1 = packets[f.id].to /\ f.addr2 = packets[f.id].from
    /\ f.size = packets[f.id].len + more

Waiting(n, f) ==
    /\ f.type = "Data" /\ Carries(f, LlcSize) /\ f.addr2 = n
    /\ n \in Ap /\ f.addr1 # Broadcast => Placed(f.addr1, n)

OnItsWay(n, f) ==
    /\ f.type = "Data" => Carries(f, LlcSize + HdrSize + FcsSize)
    /\ f.type = "Beacon" => n \in Sta /\ f.addr2 \in Ap /\ Listed(n, f.addr2)
    /\ f.type = "AssocReq" => n \in Ap /\ f.addr2 \in Sta /\ Placed(f.addr2, n)

FramesTrue ==
    \A n \in Node :
        /\ \A f \in Elements(m_queue[n]) : Waiting(n, f)
        /\ \A f \in Elements(air[n]) : OnItsWay(n, f)

RegisteredPlaced == \A a \in Ap : \A s \in m_slotPtrs[a] : Placed(s, a)

PathInv ==
    /\ PathTypeOK /\ OneOwner /\ OnPlacedChannel /\ FramesTrue /\ RegisteredPlaced

-----------------------------------------------------------------------------
(* The elements of a sequence.                                             *)

LEMMA ElementsAppend ==
    ASSUME NEW S, NEW s \in Seq(S), NEW e \in S
    PROVE  /\ Append(s, e) \in Seq(S)
           /\ Elements(Append(s, e)) = Elements(s) \cup {e}
<1>1. /\ Append(s, e) \in Seq(S) /\ Len(Append(s, e)) = Len(s) + 1
      /\ \A i \in 1..Len(s) : Append(s, e)[i] = s[i]
      /\ Append(s, e)[Len(s) + 1] = e
  BY AppendProperties
<1>2. DOMAIN s = 1..Len(s) /\ DOMAIN Append(s, e) = 1..Len(s) + 1 /\ Len(s) \in Nat
  BY <1>1, LenProperties
<1>3. Elements(s) \cup {e} \subseteq Elements(Append(s, e))
  BY <1>1, <1>2 DEF Elements
<1>4. Elements(Append(s, e)) \subseteq Elements(s) \cup {e}
  <2>1. ASSUME NEW i \in 1..Len(s) + 1 PROVE Append(s, e)[i] \in Elements(s) \cup {e}
    <3>1. i \in 1..Len(s) \/ i = Len(s) + 1
      BY <1>2
    <3>2. QED
      BY <1>1, <1>2, <3>1 DEF Elements
  <2>2. QED
    BY <1>2, <2>1 DEF Elements
<1>5. QED
  BY <1>1, <1>3, <1>4

LEMMA ElementsTail ==
    ASSUME NEW S, NEW s \in Seq(S), s # <<>>
    PROVE  /\ Tail(s) \in Seq(S) /\ Head(s) \in S /\ Head(s) \in Elements(s)
           /\ Elements(Tail(s)) \subseteq Elements(s)
<1>1. /\ Head(s) \in S /\ Tail(s) \in Seq(S) /\ Len(Tail(s)) = Len(s) - 1
      /\ \A i \in 1..Len(Tail(s)) : Tail(s)[i] = s[i + 1]
  BY HeadTailProperties
<1>2. Len(s) \in Nat \ {0}
  BY EmptySeq
<1>3. DOMAIN s = 1..Len(s) /\ DOMAIN Tail(s) = 1..Len(Tail(s))
  BY <1>1, LenProperties
<1>4. Head(s) = s[1] /\ 1 \in DOMAIN s
  BY <1>2, <1>3
<1>5. ASSUME NEW i \in DOMAIN Tail(s) PROVE Tail(s)[i] \in Elements(s)
  <2>1. i + 1 \in DOMAIN s /\ Tail(s)[i] = s[i + 1]
    BY <1>1, <1>2, <1>3
  <2>2. QED
    BY <2>1 DEF Elements
<1>6. QED
  BY <1>1, <1>4, <1>5 DEF Elements

Copies(k, e) == [i \in 1..k |-> e]

(* all is s with e added at the end k times.                               *)
IsExtension(all, s, k, e) ==
    /\ Len(s) \in Nat /\ DOMAIN s = 1..Len(s)
    /\ DOMAIN all = 1..Len(s) + k
    /\ \A i \in 1..Len(s) : all[i] = s[i]
    /\ \A i \in Len(s) + 1..Len(s) + k : all[i] = e

LEMMA CopiesConcat ==
    ASSUME NEW S, NEW s \in Seq(S), NEW k \in Nat, NEW e \in S
    PROVE  /\ s \o Copies(k, e) \in Seq(S)
           /\ IsExtension(s \o Copies(k, e), s, k, e)
<1> DEFINE t == Copies(k, e)
           all == s \o t
<1>1. t \in Seq(S) /\ DOMAIN t = 1..k /\ Len(t) = k
  <2>1. t \in [1..k -> S]
    BY DEF Copies
  <2>2. t \in Seq(S)
    BY <2>1, SeqDef
  <2>3. DOMAIN t = 1..k /\ Len(t) \in Nat /\ DOMAIN t = 1..Len(t)
    BY <2>2, LenProperties DEF Copies
  <2>4. QED
    BY <2>2, <2>3
<1>2. \A i \in 1..k : t[i] = e
  BY DEF Copies
<1> HIDE DEF t
<1>3. /\ all \in Seq(S) /\ Len(all) = Len(s) + k
      /\ \A i \in 1..Len(s) + k : all[i] = IF i <= Len(s) THEN s[i] ELSE t[i - Len(s)]
  BY <1>1, ConcatProperties
<1> HIDE DEF all
<1>4. DOMAIN s = 1..Len(s) /\ DOMAIN all = 1..Len(s) + k /\ Len(s) \in Nat
  BY <1>3, LenProperties
<1>5. ASSUME NEW i \in Len(s) + 1..Len(s) + k
      PROVE  all[i] = e
  <2>1. i - Len(s) \in 1..k /\ i \in 1..Len(s) + k /\ ~ (i <= Len(s))
    BY <1>4
  <2>2. QED
    BY <1>2, <1>3, <2>1
<1>6. \A i \in 1..Len(s) : all[i] = s[i]
  BY <1>3, <1>4
<1>7. IsExtension(all, s, k, e)
  BY <1>4, <1>5, <1>6 DEF IsExtension
<1>8. all = s \o Copies(k, e)
  BY DEF all, t
<1>9. QED
  BY <1>3, <1>7, <1>8

LEMMA ElementsConcat ==
    ASSUME NEW S, NEW s \in Seq(S), NEW k \in Nat, NEW e \in S
    PROVE  /\ s \o Copies(k, e) \in Seq(S)
           /\ Elements(s \o Copies(k, e))
                 = Elements(s) \cup (IF k = 0 THEN {} ELSE {e})
<1> DEFINE t == s \o Copies(k, e)
<1>t. t \in Seq(S) /\ IsExtension(t, s, k, e)
  BY CopiesConcat
<1> HIDE DEF t
<1>1. /\ t \in Seq(S) /\ Len(s) \in Nat /\ DOMAIN s = 1..Len(s)
      /\ DOMAIN t = 1..Len(s) + k
      /\ \A i \in 1..Len(s) : t[i] = s[i]
      /\ \A i \in Len(s) + 1..Len(s) + k : t[i] = e
  BY <1>t DEF IsExtension
<1> HIDE DEF t
<1>2. ASSUME NEW i \in DOMAIN s PROVE s[i] \in Elements(t)
  <2>1. i \in 1..Len(s) + k /\ t[i] = s[i]
    BY <1>1
  <2>2. QED
    BY <1>1, <2>1 DEF Elements
<1>3. ASSUME k # 0 PROVE e \in Elements(t)
  <2>1. Len(s) + 1 \in 1..Len(s) + k /\ ~ (Len(s) + 1 <= Len(s))
    BY <1>1, <1>3
  <2>2. t[Len(s) + 1] = e
    BY <1>1, <2>1
  <2>3. QED
    BY <1>1, <2>1, <2>2 DEF Elements
<1>4. ASSUME NEW i \in 1..Len(s) + k
      PROVE  t[i] \in Elements(s) \cup (IF k = 0 THEN {} ELSE {e})
  <2>1. CASE i <= Len(s)
    <3>1. i \in DOMAIN s /\ t[i] = s[i]
      BY <1>1, <1>4, <2>1
    <3>2. QED
      BY <3>1 DEF Elements
  <2>2. CASE ~ (i <= Len(s))
    <3>1. t[i] = e /\ k # 0
      BY <1>1, <1>4, <2>2
    <3>2. QED
      BY <3>1
  <2>3. QED
    BY <2>1, <2>2
<1>5. Elements(t) \subseteq Elements(s) \cup (IF k = 0 THEN {} ELSE {e})
  BY <1>1, <1>4 DEF Elements
<1>6. Elements(s) \cup (IF k = 0 THEN {} ELSE {e}) \subseteq Elements(t)
  BY <1>2, <1>3 DEF Elements
<1>7. QED
  BY <1>1, <1>5, <1>6 DEF t

(* A sequence of frames is one of its elements.                            *)
LEMMA ElementsInSet ==
    ASSUME NEW S, NEW s \in Seq(S)
    PROVE  Elements(s) \subseteq S
  BY LenProperties, ElementOfSeq DEF Elements

-----------------------------------------------------------------------------
(* How often a node is listed, and what the channel adds to the air.       *)

LEMMA ListingsCount ==
    ASSUME PathTypeOK, NEW a \in Ap, NEW n
    PROVE  /\ Listings(a, n) \in Nat
           /\ Listings(a, n) = 0 <=> ~ Listed(n, a)
<1> DEFINE L == {i \in DOMAIN m_PhyVector[a] : m_PhyVector[a][i] = n}
<1>1. m_PhyVector[a] \in Seq(Node)
  BY DEF PathTypeOK
<1>2. DOMAIN m_PhyVector[a] = 1..Len(m_PhyVector[a]) /\ Len(m_PhyVector[a]) \in Nat
  BY <1>1, LenProperties
<1>3. IsFiniteSet(1..Len(m_PhyVector[a]))
  BY <1>2, FS_Interval
<1>4. L \in SUBSET (1..Len(m_PhyVector[a]))
  BY <1>2
<1>5. IsFiniteSet(L)
  BY <1>3, <1>4, FS_Subset
<1>6. Cardinality(L) \in Nat /\ (Cardinality(L) = 0 <=> L = {})
  BY <1>5, FS_CardinalityType, FS_EmptySet
<1>7. L = {} <=> ~ Listed(n, a)
  BY DEF Listed, Elements
<1>8. QED
  BY <1>6, <1>7 DEF Listings

AirTyped(pending) == pending \in [Node -> Seq(Frame)]

LEMMA OnAirFrames ==
    ASSUME PathTypeOK, NEW pending, AirTyped(pending), NEW a \in Ap, NEW sender,
           NEW f \in Frame
    PROVE  /\ AirTyped(OnAir(pending, a, sender, f))
           /\ \A n \in Node :
                 Elements(OnAir(pending, a, sender, f)[n])
                    = Elements(pending[n])
                        \cup (IF Hears(sender, n) /\ Listed(n, a) THEN {f} ELSE {})
<1>1. ASSUME NEW n \in Node
      PROVE  /\ OnAir(pending, a, sender, f)[n] \in Seq(Frame)
             /\ Elements(OnAir(pending, a, sender, f)[n])
                  = Elements(pending[n])
                      \cup (IF Hears(sender, n) /\ Listed(n, a) THEN {f} ELSE {})
  <2> DEFINE k == IF Hears(sender, n) THEN Listings(a, n) ELSE 0
  <2>1. k \in Nat /\ (k = 0 <=> ~ (Hears(sender, n) /\ Listed(n, a)))
    BY ListingsCount
  <2>2. OnAir(pending, a, sender, f)[n] = pending[n] \o Copies(k, f)
    BY DEF OnAir, Copies
  <2>3. pending[n] \in Seq(Frame)
    BY DEF AirTyped
  <2> HIDE DEF k
  <2>4. /\ pending[n] \o Copies(k, f) \in Seq(Frame)
        /\ Elements(pending[n] \o Copies(k, f))
              = Elements(pending[n]) \cup (IF k = 0 THEN {} ELSE {f})
    BY <2>1, <2>3, ElementsConcat
  <2>5. QED
    BY <2>1, <2>2, <2>4
<1>2. OnAir(pending, a, sender, f)
        = [n \in Node |-> OnAir(pending, a, sender, f)[n]]
  BY DEF OnAir
<1>3. AirTyped(OnAir(pending, a, sender, f))
  BY <1>1, <1>2 DEF AirTyped
<1>4. QED
  BY <1>1, <1>3

LEMMA OnAirTyped ==
    ASSUME PathTypeOK, NEW pending, AirTyped(pending), NEW a \in Ap, NEW sender,
           NEW f \in Frame
    PROVE  AirTyped(OnAir(pending, a, sender, f))
  BY OnAirFrames

LEMMA OnAirAdds ==
    ASSUME PathTypeOK, NEW pending, AirTyped(pending), NEW a \in Ap, NEW sender,
           NEW f \in Frame, NEW n \in Node
    PROVE  Elements(OnAir(pending, a, sender, f)[n])
              = Elements(pending[n])
                  \cup (IF Hears(sender, n) /\ Listed(n, a) THEN {f} ELSE {})
<1>1. \A x \in Node :
         Elements(OnAir(pending, a, sender, f)[x])
            = Elements(pending[x])
                \cup (IF Hears(sender, x) /\ Listed(x, a) THEN {f} ELSE {})
  BY OnAirFrames
<1>2. QED
  BY <1>1

-----------------------------------------------------------------------------
(* What is true of a frame stays true while associations and packets are   *)
(* only added.                                                             *)

OnlyAdded ==
    /\ \A n \in Node, a \in Ap : Listed(n, a) => Listed(n, a)'
    /\ \A n \in Node, a \in Ap : Placed(n, a) => Placed(n, a)'
    /\ \A k \in DOMAIN packets : k \in DOMAIN packets' /\ packets'[k] = packets[k]

LEMMA FramesStayTrue ==
    ASSUME PathTypeOK, OnlyAdded, NEW n \in Node, NEW f \in Frame
    PROVE  /\ Waiting(n, f) => Waiting(n, f)'
           /\ OnItsWay(n, f) => OnItsWay(n, f)'
<1>1. \A more : Carries(f, more) => Carries(f, more)'
  BY DEF OnlyAdded, Carries
<1>2. f.addr1 \in Node \cup {Broadcast} /\ f.addr2 \in Node
  BY DEF Frame
<1>3. /\ \A x \in Node, a \in Ap : Listed(x, a) => Listed(x, a)'
      /\ \A x \in Node, a \in Ap : Placed(x, a) => Placed(x, a)'
  BY DEF OnlyAdded
<1>4. ASSUME Waiting(n, f)
      PROVE  Waiting(n, f)'
  <2>1. f.type = "Data" /\ Carries(f, LlcSize)' /\ f.addr2 = n
    BY <1>1, <1>4 DEF Waiting
  <2>2. ASSUME n \in Ap, f.addr1 # Broadcast
        PROVE  Placed(f.addr1, n)'
    <3>1. f.addr1 \in Node /\ Placed(f.addr1, n)
      BY <1>2, <1>4, <2>2 DEF Waiting
    <3>2. QED
      BY <1>3, <2>2, <3>1
  <2>3. QED
    BY <2>1, <2>2 DEF Waiting
<1>5. ASSUME OnItsWay(n, f)
      PROVE  OnItsWay(n, f)'
  <2>1. f.type = "Data" => Carries(f, LlcSize + HdrSize + FcsSize)'
    BY <1>1, <1>5 DEF OnItsWay
  <2>2. ASSUME f.type = "Beacon"
        PROVE  n \in Sta /\ f.addr2 \in Ap /\ Listed(n, f.addr2)'
    BY <1>3, <1>5, <2>2 DEF OnItsWay
  <2>3. ASSUME f.type = "AssocReq"
        PROVE  n \in Ap /\ f.addr2 \in Sta /\ Placed(f.addr2, n)'
    <3>1. n \in Ap /\ f.addr2 \in Sta /\ Placed(f.addr2, n)
      BY <1>5, <2>3 DEF OnItsWay
    <3>2. f.addr2 \in Node
      BY <3>1 DEF Node
    <3>3. QED
      BY <1>3, <3>1, <3>2
  <2>4. QED
    BY <2>1, <2>2, <2>3 DEF OnItsWay
<1>6. QED
  BY <1>4, <1>5

LEMMA UnchangedAdds ==
    ASSUME UNCHANGED <<m_PhyVector, strayed, packets>>
    PROVE  OnlyAdded
  BY DEF OnlyAdded, Listed, Placed

-----------------------------------------------------------------------------
(* The invariant holds initially.                                          *)

LEMMA ElementsSmall ==
    /\ \A S : <<>> \in Seq(S)
    /\ Elements(<<>>) = {}
    /\ \A S : \A e \in S : <<e>> \in Seq(S)
    /\ \A e : Elements(<<e>>) = {e}
  BY DEF Elements

LEMMA PathInvInit == PathInit => PathInv
<1> SUFFICES ASSUME PathInit
             PROVE  PathInv
  OBVIOUS
<1> USE DEF PathInit
<1>1. PathTypeOK
  BY ElementsSmall DEF PathTypeOK, Node
<1>2. \A n, a : a \in Ap => (Listed(n, a) <=> n = a)
  <2>1. ASSUME NEW a \in Ap PROVE Elements(m_PhyVector[a]) = {a}
    BY ElementsSmall
  <2>2. QED
    BY <2>1 DEF Listed
<1>3. OneOwner
  BY <1>2 DEF OneOwner
<1>4. OnPlacedChannel
  BY <1>2, NodeAssumption DEF OnPlacedChannel
<1>5. FramesTrue
  BY ElementsSmall DEF FramesTrue
<1>6. RegisteredPlaced
  BY DEF RegisteredPlaced
<1>7. QED
  BY <1>1, <1>3, <1>4, <1>5, <1>6 DEF PathInv

-----------------------------------------------------------------------------
(* The steps of the wiring.                                                *)

LEMMA AssociateInv ==
    ASSUME PathInv, NEW s \in Sta, NEW a \in Ap, Associate(s, a)
    PROVE  PathInv'
<1>1. PathTypeOK /\ s \in Node
  BY DEF PathInv, Node
<1>2. /\ m_PhyVector' = [m_PhyVector EXCEPT ![a] = Append(m_PhyVector[a], s)]
      /\ UNCHANGED <<m_channel, strayed, m_slotPtrs, m_candidateAps, m_queue, air, packets,
                     handedUp>>
  BY DEF Associate, roster, history
<1>3. /\ Append(m_PhyVector[a], s) \in Seq(Node)
      /\ Elements(Append(m_PhyVector[a], s)) = Elements(m_PhyVector[a]) \cup {s}
  BY <1>1, ElementsAppend DEF PathTypeOK
<1>4. PathTypeOK'
  BY <1>1, <1>2, <1>3 DEF PathTypeOK
<1>5. \A n, b : b \in Ap => (Listed(n, b)' <=> Listed(n, b) \/ (b = a /\ n = s))
  BY <1>1, <1>2, <1>3 DEF Listed, PathTypeOK
<1>6. OneOwner'
  BY <1>5, NodeAssumption DEF PathInv, OneOwner
<1>7. OnPlacedChannel'
  BY <1>2, <1>5 DEF PathInv, OnPlacedChannel, Placed
<1>8. OnlyAdded
  BY <1>2, <1>5 DEF OnlyAdded, Placed
<1>9. \A n \in Node : Elements(m_queue[n]) \subseteq Frame /\ Elements(air[n]) \subseteq Frame
  BY <1>1, ElementsInSet DEF PathTypeOK
<1>10. FramesTrue'
  BY <1>1, <1>2, <1>8, <1>9, FramesStayTrue DEF PathInv, FramesTrue
<1>11. RegisteredPlaced'
  BY <1>1, <1>2, <1>5 DEF PathInv, RegisteredPlaced, Placed
<1>12. QED
  BY <1>4, <1>6, <1>7, <1>10, <1>11 DEF PathInv

(* All but the channels of the stations, queues and air stays as it is.    *)
LEMMA FramesKept ==
    ASSUME PathInv, UNCHANGED <<m_PhyVector, strayed, packets>>, NEW n \in Node, NEW f \in Frame
    PROVE  /\ Waiting(n, f) => Waiting(n, f)'
           /\ OnItsWay(n, f) => OnItsWay(n, f)'
           /\ \A a \in Ap : Listed(n, a)' <=> Listed(n, a)
  BY UnchangedAdds, FramesStayTrue DEF PathInv, Listed

LEMMA SetChannelInv ==
    ASSUME PathInv, NEW s \in Sta, NEW a \in Ap, SetChannel(s, a)
    PROVE  PathInv'
<1>1. PathTypeOK /\ s \in Node
  BY DEF PathInv, Node
<1>2. /\ m_channel' = [m_channel EXCEPT ![s] = a]
      /\ strayed' = IF Listings(a, s) > 0 THEN strayed
                                          ELSE [strayed EXCEPT ![a] = strayed[a] \cup {s}]
      /\ UNCHANGED <<m_PhyVector, m_slotPtrs, m_candidateAps, m_queue, air, packets, handedUp>>
  BY DEF SetChannel, roster, history
<1>3. /\ strayed' \in [Ap -> SUBSET Sta]
      /\ \A b \in Ap : strayed[b] \subseteq strayed'[b]
      /\ Listed(s, a) \/ s \in strayed'[a]
  <2>1. CASE Listings(a, s) > 0
    <3>1. Listed(s, a)
      BY <1>1, <2>1, ListingsCount
    <3>2. QED
      BY <1>1, <1>2, <2>1, <3>1 DEF PathTypeOK
  <2>2. CASE ~ (Listings(a, s) > 0)
    BY <1>1, <1>2, <2>2 DEF PathTypeOK
  <2>3. QED
    BY <2>1, <2>2
<1>4. PathTypeOK'
  BY <1>1, <1>2, <1>3 DEF PathTypeOK
<1>5. \A n, b : Listed(n, b)' <=> Listed(n, b)
  BY <1>2 DEF Listed
<1>6. /\ \A n : \A b \in Ap : Placed(n, b) => Placed(n, b)'
      /\ Placed(s, a)'
  BY <1>3, <1>5 DEF Placed
<1>7. OneOwner' /\ RegisteredPlaced'
  BY <1>2, <1>5, <1>6 DEF PathInv, OneOwner, RegisteredPlaced
<1>8. OnPlacedChannel'
  BY <1>1, <1>2, <1>6 DEF PathInv, OnPlacedChannel, PathTypeOK
<1>9. OnlyAdded
  BY <1>2, <1>5, <1>6 DEF OnlyAdded
<1>10. \A n \in Node : Elements(m_queue[n]) \subseteq Frame /\ Elements(air[n]) \subseteq Frame
  BY <1>1, ElementsInSet DEF PathTypeOK
<1>11. FramesTrue'
  BY <1>1, <1>2, <1>9, <1>10, FramesStayTrue DEF PathInv, FramesTrue
<1>12. QED
  BY <1>4, <1>7, <1>8, <1>11 DEF PathInv

-----------------------------------------------------------------------------
(* The steps of frames: wiring and, but for Send, packets stay.            *)

LEMMA WiringKept ==
    ASSUME PathInv, UNCHANGED <<m_PhyVector, m_channel, strayed>>
    PROVE  OneOwner' /\ OnPlacedChannel'
  BY DEF PathInv, OneOwner, OnPlacedChannel, Listed, Placed

LEMMA FramesTyped ==
    ASSUME PathTypeOK, NEW n \in Node
    PROVE  /\ Elements(m_queue[n]) \subseteq Frame /\ Elements(air[n]) \subseteq Frame
           /\ m_queue[n] \in Seq(Frame) /\ air[n] \in Seq(Frame)
  BY ElementsInSet DEF PathTypeOK

(* Frames stay true when those that are added are.                         *)
LEMMA FramesTrueNext ==
    ASSUME PathTypeOK, FramesTrue, OnlyAdded,
           \A n \in Node : \A f \in Elements(m_queue'[n]) :
              f \in Elements(m_queue[n]) \/ Waiting(n, f)',
           \A n \in Node : \A f \in Elements(air'[n]) :
              f \in Elements(air[n]) \/ OnItsWay(n, f)'
    PROVE  FramesTrue'
<1>1. ASSUME NEW n \in Node, NEW f \in Elements(m_queue'[n]) PROVE Waiting(n, f)'
  <2>1. CASE f \in Elements(m_queue[n])
    <3>1. f \in Frame /\ Waiting(n, f)
      BY <2>1, FramesTyped DEF FramesTrue
    <3>2. QED
      BY <3>1, FramesStayTrue
  <2>2. QED
    BY <1>1, <2>1
<1>2. ASSUME NEW n \in Node, NEW f \in Elements(air'[n]) PROVE OnItsWay(n, f)'
  <2>1. CASE f \in Elements(air[n])
    <3>1. f \in Frame /\ OnItsWay(n, f)
      BY <2>1, FramesTyped DEF FramesTrue
    <3>2. QED
      BY <3>1, FramesStayTrue
  <2>2. QED
    BY <1>2, <2>1
<1>3. QED
  BY <1>1, <1>2 DEF FramesTrue

LEMMA SendInv ==
    ASSUME PathInv, NEW n \in Node, NEW to \in Node \cup {Broadcast},
           NEW len \in Lengths, Send(n, to, len)
    PROVE  PathInv'
<1> DEFINE Packet == [from : Node, to : Node \cup {Broadcast}, len : Lengths]
<1>1. PathTypeOK /\ len \in Nat
  BY LengthAssumption DEF PathInv
<1>2. PICK p : p = [from |-> n, to |-> to, len |-> len]
  OBVIOUS
<1>3. PICK f : f = Data(Len(packets) + 1, to, n, len + LlcSize)
  OBVIOUS
<1>4. /\ packets' = Append(packets, p)
      /\ UNCHANGED <<m_PhyVector, m_channel, strayed, m_slotPtrs, m_candidateAps, air, handedUp>>
  BY <1>2 DEF Send, wiring, roster
<1>5. packets \in Seq(Packet) /\ p \in Packet
  BY <1>1, <1>2 DEF PathTypeOK
<1>6. /\ packets' \in Seq(Packet) /\ Len(packets') = Len(packets) + 1
      /\ \A k \in 1..Len(packets) : packets'[k] = packets[k]
      /\ packets'[Len(packets) + 1] = p
  BY <1>4, <1>5, AppendProperties
<1>7. /\ DOMAIN packets = 1..Len(packets) /\ DOMAIN packets' = 1..Len(packets) + 1
      /\ Len(packets) \in Nat
  BY <1>5, <1>6, LenProperties
<1>8. OnlyAdded
  <2>1. \A k \in DOMAIN packets : k \in DOMAIN packets' /\ packets'[k] = packets[k]
    BY <1>6, <1>7
  <2>2. QED
    BY <1>4, <2>1 DEF OnlyAdded, Listed, Placed
<1>9. /\ f.type = "Data" /\ f.id = Len(packets) + 1 /\ f.addr1 = to /\ f.addr2 = n
      /\ f.size = len + LlcSize
  BY <1>3 DEF Data
<1>10. f \in Frame
  BY <1>1, <1>3, <1>7 DEF Frame, Data, LlcSize
<1>11. ASSUME ApEnqueue(n, to) \/ StaEnqueue(n, to)
       PROVE  Waiting(n, f)'
  <2>1. Carries(f, LlcSize)'
    <3>1. f.id \in DOMAIN packets' /\ packets'[f.id] = p
      BY <1>6, <1>7, <1>9
    <3>2. f.addr1 = p.to /\ f.addr2 = p.from /\ f.size = p.len + LlcSize
      BY <1>2, <1>9
    <3>3. QED
      BY <3>1, <3>2 DEF Carries
  <2>2. ASSUME n \in Ap, to # Broadcast
        PROVE  Placed(to, n)'
    <3>1. to \in m_slotPtrs[n]
      BY <1>11, <2>2, NodeAssumption DEF ApEnqueue, StaEnqueue
    <3>2. QED
      BY <1>4, <2>2, <3>1 DEF PathInv, RegisteredPlaced, Listed, Placed
  <2>3. QED
    BY <1>9, <2>1, <2>2 DEF Waiting
<1>12. \/ m_queue' = [m_queue EXCEPT ![n] = Append(m_queue[n], f)] /\ Waiting(n, f)'
       \/ UNCHANGED m_queue
  BY <1>3, <1>11 DEF Send, LiFiSend, TxDeviceSend, RxDeviceSend
<1>13. /\ Append(m_queue[n], f) \in Seq(Frame)
       /\ Elements(Append(m_queue[n], f)) = Elements(m_queue[n]) \cup {f}
  BY <1>1, <1>10, FramesTyped, ElementsAppend
<1>14. m_queue' \in [Node -> Seq(Frame)]
  BY <1>1, <1>12, <1>13 DEF PathTypeOK
<1>15. PathTypeOK'
  BY <1>1, <1>4, <1>6, <1>14 DEF PathTypeOK
<1>16. \A x \in Node : \A g \in Elements(m_queue'[x]) :
          g \in Elements(m_queue[x]) \/ Waiting(x, g)'
  BY <1>1, <1>12, <1>13 DEF PathTypeOK
<1>17. FramesTrue'
  BY <1>1, <1>4, <1>8, <1>16, FramesTrueNext DEF PathInv
<1>18. RegisteredPlaced'
  BY <1>4 DEF PathInv, RegisteredPlaced, Listed, Placed
<1>19. QED
  BY <1>4, <1>15, <1>17, <1>18, WiringKept DEF PathInv

(* A frame that waited is on its way with the bytes of the MAC around it.  *)
LEMMA StartedCarries ==
    ASSUME PathInv, NEW n \in Node, NEW f \in Frame, Waiting(n, f)
    PROVE  MacLowStart(f) \in Frame /\ \A x \in Node : OnItsWay(x, MacLowStart(f))
<1> DEFINE g == MacLowStart(f)
<1>1. /\ f.type \in {"Data", "Beacon", "AssocReq"} /\ f.id \in Nat /\ f.size \in Nat
      /\ f.addr1 \in Node \cup {Broadcast} /\ f.addr2 \in Node
  BY DEF Frame
<1>2. f.size + HdrSize + FcsSize \in Nat
  BY <1>1 DEF HdrSize, FcsSize
<1>3. g = [type |-> f.type, id |-> f.id, addr1 |-> f.addr1, addr2 |-> f.addr2,
           size |-> f.size + HdrSize + FcsSize]
  BY DEF MacLowStart, Frame
<1>4. g \in Frame
  BY <1>1, <1>2, <1>3 DEF Frame
<1>5. packets[f.id].len \in Nat
  <2>1. packets \in Seq([from : Node, to : Node \cup {Broadcast}, len : Lengths])
    BY DEF PathInv, PathTypeOK
  <2>2. f.id \in 1..Len(packets)
    BY <2>1, LenProperties DEF Waiting, Carries
  <2>3. packets[f.id] \in [from : Node, to : Node \cup {Broadcast}, len : Lengths]
    BY <2>1, <2>2, ElementOfSeq
  <2>4. QED
    BY <2>3, LengthAssumption
<1>6. g.size = packets[f.id].len + (LlcSize + HdrSize + FcsSize)
  BY <1>3, <1>5 DEF Waiting, Carries, LlcSize, HdrSize, FcsSize
<1>7. g.type = "Data" /\ g.id = f.id /\ g.addr1 = f.addr1 /\ g.addr2 = f.addr2
  BY <1>3 DEF Waiting
<1> HIDE DEF g
<1>8. Carries(g, LlcSize + HdrSize + FcsSize)
  BY <1>6, <1>7 DEF Waiting, Carries
<1>9. \A x \in Node : OnItsWay(x, g)
  BY <1>7, <1>8 DEF OnItsWay
<1>10. QED
  BY <1>4, <1>9 DEF g

LEMMA TransmitInv ==
    ASSUME PathInv, NEW n \in Node, Transmit(n)
    PROVE  PathInv'
<1>1. PathTypeOK
  BY DEF PathInv
<1>2. PICK c : c = ChannelOf(n)
  OBVIOUS
<1>3. PICK f : f = Head(m_queue[n])
  OBVIOUS
<1>4. PICK g : g = MacLowStart(f)
  OBVIOUS
<1>5. /\ m_queue' = [m_queue EXCEPT ![n] = Tail(m_queue[n])]
      /\ air' = OnAir(air, c, n, g)
      /\ UNCHANGED <<m_PhyVector, m_channel, strayed, m_slotPtrs, m_candidateAps, packets, handedUp>>
      /\ m_queue[n] # <<>> /\ c # None
  BY <1>2, <1>3, <1>4 DEF Transmit, wiring, roster, history
<1>6. /\ f \in Frame /\ f \in Elements(m_queue[n]) /\ Tail(m_queue[n]) \in Seq(Frame)
      /\ Elements(Tail(m_queue[n])) \subseteq Elements(m_queue[n])
  BY <1>1, <1>3, <1>5, FramesTyped, ElementsTail
<1>7. c \in Ap
  BY <1>2, <1>5 DEF PathInv, ChannelOf, OnPlacedChannel, Node
<1>8. g \in Frame /\ \A x \in Node : OnItsWay(x, g)
  BY <1>4, <1>6, StartedCarries DEF PathInv, FramesTrue
<1>9. OnlyAdded
  BY <1>5, UnchangedAdds
<1>10. \A x \in Node : OnItsWay(x, g)'
  BY <1>1, <1>8, <1>9, FramesStayTrue
<1>11. /\ air' \in [Node -> Seq(Frame)]
       /\ \A x \in Node : Elements(air'[x]) \subseteq Elements(air[x]) \cup {g}
  <2>1. AirTyped(air)
    BY <1>1 DEF AirTyped, PathTypeOK
  <2>2. AirTyped(OnAir(air, c, n, g))
    BY <1>1, <1>7, <1>8, <2>1, OnAirTyped
  <2>3. \A x \in Node : Elements(OnAir(air, c, n, g)[x]) \subseteq Elements(air[x]) \cup {g}
    BY <1>1, <1>7, <1>8, <2>1, OnAirAdds
  <2>4. QED
    BY <1>5, <2>2, <2>3 DEF AirTyped
<1>12. PathTypeOK'
  BY <1>1, <1>5, <1>6, <1>11 DEF PathTypeOK
<1>13. \A x \in Node : Elements(m_queue'[x]) \subseteq Elements(m_queue[x])
  BY <1>1, <1>5, <1>6 DEF PathTypeOK
<1>14. FramesTrue'
  BY <1>1, <1>9, <1>10, <1>11, <1>13, FramesTrueNext DEF PathInv
<1>15. RegisteredPlaced'
  BY <1>5 DEF PathInv, RegisteredPlaced, Listed, Placed
<1>16. QED
  BY <1>5, <1>12, <1>14, <1>15, WiringKept DEF PathInv

LEMMA ExpireInv ==
    ASSUME PathInv, NEW n \in Node, Expire(n)
    PROVE  PathInv'
<1>1. PathTypeOK
  BY DEF PathInv
<1>2. /\ m_queue' = [m_queue EXCEPT ![n] = Tail(m_queue[n])] /\ m_queue[n] # <<>>
      /\ UNCHANGED <<m_PhyVector, m_channel, strayed, m_slotPtrs, m_candidateAps, air, packets, handedUp>>
  BY DEF Expire, wiring, roster, history
<1>3. /\ Tail(m_queue[n]) \in Seq(Frame)
      /\ Elements(Tail(m_queue[n])) \subseteq Elements(m_queue[n])
  BY <1>1, <1>2, FramesTyped, ElementsTail
<1>4. PathTypeOK'
  BY <1>1, <1>2, <1>3 DEF PathTypeOK
<1>5. \A x \in Node : Elements(m_queue'[x]) \subseteq Elements(m_queue[x])
  BY <1>1, <1>2, <1>3 DEF PathTypeOK
<1>6. FramesTrue'
  BY <1>1, <1>2, <1>5, UnchangedAdds, FramesTrueNext DEF PathInv
<1>7. RegisteredPlaced'
  BY <1>2 DEF PathInv, RegisteredPlaced, Listed, Placed
<1>8. QED
  BY <1>2, <1>4, <1>6, <1>7, WiringKept DEF PathInv

LEMMA SendBeaconInv ==
    ASSUME PathInv, NEW a \in Ap, SendBeacon(a)
    PROVE  PathInv'
<1>1. PathTypeOK /\ a \in Node
  BY DEF PathInv, Node
<1>2. PICK f : f = Control("Beacon", Broadcast, a)
  OBVIOUS
<1>3. /\ air' = OnAir(air, a, a, f)
      /\ UNCHANGED <<m_PhyVector, m_channel, strayed, m_slotPtrs, m_candidateAps, m_queue, packets, handedUp>>
  BY <1>2 DEF SendBeacon, wiring, roster, history
<1>4. f \in Frame /\ f.type = "Beacon" /\ f.addr2 = a
  BY <1>1, <1>2 DEF Frame, Control, HdrSize, FcsSize
<1>5. ASSUME NEW x \in Node, Hears(a, x), Listed(x, a)
      PROVE  OnItsWay(x, f)
  <2>1. x \in Sta
    BY <1>5 DEF PathInv, OneOwner, Hears, Node
  <2>2. QED
    BY <1>4, <1>5, <2>1 DEF OnItsWay
<1>6. OnlyAdded
  BY <1>3, UnchangedAdds
<1>7. /\ air' \in [Node -> Seq(Frame)]
      /\ \A x \in Node : Elements(air'[x])
            = Elements(air[x]) \cup (IF Hears(a, x) /\ Listed(x, a) THEN {f} ELSE {})
  <2>1. AirTyped(air)
    BY <1>1 DEF AirTyped, PathTypeOK
  <2>2. AirTyped(OnAir(air, a, a, f))
    BY <1>1, <1>4, <2>1, OnAirTyped
  <2>3. \A x \in Node : Elements(OnAir(air, a, a, f)[x])
            = Elements(air[x]) \cup (IF Hears(a, x) /\ Listed(x, a) THEN {f} ELSE {})
    BY <1>1, <1>4, <2>1, OnAirAdds
  <2>4. QED
    BY <1>3, <2>2, <2>3 DEF AirTyped
<1>8. PathTypeOK'
  BY <1>1, <1>3, <1>7 DEF PathTypeOK
<1>9. ASSUME NEW x \in Node, NEW h \in Elements(air'[x])
      PROVE  h \in Elements(air[x]) \/ OnItsWay(x, h)'
  <2>1. CASE Hears(a, x) /\ Listed(x, a) /\ h = f
    <3>1. OnItsWay(x, h)
      BY <1>5, <2>1
    <3>2. QED
      BY <1>1, <1>4, <1>6, <2>1, <3>1, FramesStayTrue
  <2>2. QED
    BY <1>7, <1>9, <2>1
<1>10. FramesTrue'
  BY <1>1, <1>3, <1>6, <1>9, FramesTrueNext DEF PathInv
<1>11. RegisteredPlaced'
  BY <1>3 DEF PathInv, RegisteredPlaced, Listed, Placed
<1>12. QED
  BY <1>3, <1>8, <1>10, <1>11, WiringKept DEF PathInv

-----------------------------------------------------------------------------
(* A reception.                                                            *)

(* What the layers take off a frame on its way up.                         *)
LEMMA ReceivedFrame ==
    ASSUME NEW f \in Frame, NEW g, g = RxMacReceive(MacLowReceive(f))
    PROVE  /\ g.type = f.type /\ g.id = f.id /\ g.addr1 = f.addr1 /\ g.addr2 = f.addr2
           /\ g.size = Without(Without(Without(f.size, FcsSize), HdrSize), FcsSize)
           /\ g.size \in Nat
<1>1. f.size \in Nat
  BY DEF Frame
<1>2. MacLowReceive(f) = [type |-> f.type, id |-> f.id, addr1 |-> f.addr1,
                          addr2 |-> f.addr2, size |-> Without(f.size, FcsSize)]
  BY DEF MacLowReceive, Frame
<1>3. g = [type |-> f.type, id |-> f.id, addr1 |-> f.addr1, addr2 |-> f.addr2,
           size |-> Without(Without(Without(f.size, FcsSize), HdrSize), FcsSize)]
  BY <1>2 DEF RxMacReceive
<1>4. Without(Without(Without(f.size, FcsSize), HdrSize), FcsSize) \in Nat
  BY <1>1 DEF Without, FcsSize, HdrSize
<1>5. QED
  BY <1>3, <1>4

(* The record of a datagram that is handed up.                             *)
Handed(f) == [id |-> f.id, from |-> f.addr2, len |-> Without(f.size, LlcSize)]

LEMMA HandedUp ==
    ASSUME PathTypeOK, NEW n \in Node, NEW f \in Frame,
           NEW g, g = RxMacReceive(MacLowReceive(f)), RxDeviceReceive(n, g)
    PROVE  /\ UNCHANGED <<m_slotPtrs, m_candidateAps, packets>>
           /\ handedUp' \in [Node -> Seq([id : Nat, from : Node, len : Nat])]
           /\ \/ UNCHANGED handedUp
              \/ /\ f.addr1 \in {n, Broadcast}
                 /\ handedUp' = [handedUp EXCEPT ![n] = Append(handedUp[n], Handed(g))]
<1>1. /\ UNCHANGED <<m_slotPtrs, m_candidateAps, packets>>
      /\ \/ UNCHANGED handedUp
         \/ /\ g.addr1 \in {n, Broadcast}
            /\ handedUp' = [handedUp EXCEPT ![n] = Append(handedUp[n], Handed(g))]
  BY DEF RxDeviceReceive, DeviceReceive, roster, history, Handed
<1>2. g.id \in Nat /\ g.addr2 \in Node /\ g.size \in Nat /\ g.addr1 = f.addr1
  BY ReceivedFrame DEF Frame
<1>3. Without(g.size, LlcSize) \in Nat
  BY <1>2 DEF Without, LlcSize
<1>4. Handed(g) \in [id : Nat, from : Node, len : Nat]
  BY <1>2, <1>3 DEF Handed
<1>5. handedUp' \in [Node -> Seq([id : Nat, from : Node, len : Nat])]
  <2>1. PICK R : R = [id : Nat, from : Node, len : Nat]
    OBVIOUS
  <2>2. handedUp \in [Node -> Seq(R)] /\ Handed(g) \in R
    BY <1>4, <2>1 DEF PathTypeOK
  <2>3. Append(handedUp[n], Handed(g)) \in Seq(R)
    BY <2>2, AppendProperties
  <2>4. handedUp' \in [Node -> Seq(R)]
    BY <1>1, <2>2, <2>3
  <2>5. QED
    BY <2>1, <2>4
<1>6. QED
  BY <1>1, <1>2, <1>5

(* The cases of a reception: the frame is lost or handed up, a station     *)
(* registers, or a beacon is answered.                                     *)
Delivered(n, f) ==
    /\ f.type = "Data" /\ f.addr1 \in {n, Broadcast}
    /\ handedUp' = [handedUp EXCEPT ![n] =
          Append(handedUp[n], Handed(RxMacReceive(MacLowReceive(f))))]

Taken(n, f) ==
    /\ air' = [air EXCEPT ![n] = Tail(air[n])]
    /\ UNCHANGED <<m_slotPtrs, m_candidateAps, packets>>
    /\ handedUp' \in [Node -> Seq([id : Nat, from : Node, len : Nat])]
    /\ UNCHANGED handedUp \/ Delivered(n, f)

Registered(n, f) ==
    /\ n \in Ap /\ f.addr2 \in Sta /\ Placed(f.addr2, n)
    /\ m_slotPtrs' = [m_slotPtrs EXCEPT ![n] = m_slotPtrs[n] \cup {f.addr2}]
    /\ air' = [air EXCEPT ![n] = Tail(air[n])]
    /\ UNCHANGED <<m_candidateAps, packets, handedUp>>

Answered(n, h) ==
    /\ n \in Sta /\ m_channel[n] \in Ap /\ h \in Frame
    /\ h.type = "AssocReq" /\ h.addr2 = n
    /\ m_candidateAps' \in [Sta -> Seq(Ap)]
    /\ air' = OnAir([air EXCEPT ![n] = Tail(air[n])], m_channel[n], n, h)
    /\ UNCHANGED <<m_slotPtrs, packets, handedUp>>

LEMMA Heard ==
    ASSUME PathInv, NEW n \in Sta
    PROVE  /\ n \in Node
           /\ m_candidateAps[n] \in Seq(Ap)
           /\ m_channel[n] # None => m_channel[n] \in Ap
  BY DEF PathInv, PathTypeOK, OnPlacedChannel, Node

LEMMA BeaconAnswered ==
    ASSUME PathInv, NEW n \in Sta, NEW f \in Frame, OnItsWay(n, f), f.type = "Beacon",
           NEW g, g = RxMacReceive(MacLowReceive(f)), StaMacReceive(n, g)
    PROVE  \E h : Answered(n, h)
<1>1. f.addr2 \in Ap /\ Listed(n, f.addr2)
  BY DEF OnItsWay
<1>2. g.type = "Beacon" /\ g.addr2 \in Ap
  BY <1>1, ReceivedFrame
<1>3. PICK c : c = IF g.addr2 \in Elements(m_candidateAps[n]) THEN m_candidateAps[n]
                   ELSE Append(m_candidateAps[n], g.addr2)
  OBVIOUS
<1>4. PICK h : h = Control("AssocReq", Head(m_candidateAps'[n]), n)
  OBVIOUS
<1>5. /\ m_candidateAps' = [m_candidateAps EXCEPT ![n] = c]
      /\ air' = OnAir([air EXCEPT ![n] = Tail(air[n])], m_channel[n], n, h)
      /\ UNCHANGED <<m_slotPtrs, packets, handedUp>> /\ m_channel[n] # None
  BY <1>2, <1>3, <1>4 DEF StaMacReceive, history
<1>6. c \in Seq(Ap) /\ Head(c) \in Ap
  <2>1. m_candidateAps[n] \in Seq(Ap)
    BY Heard
  <2>2. CASE g.addr2 \in Elements(m_candidateAps[n])
    <3>1. m_candidateAps[n] # <<>>
      BY <2>2, ElementsSmall
    <3>2. QED
      BY <1>3, <2>1, <2>2, <3>1, ElementsTail
  <2>3. CASE g.addr2 \notin Elements(m_candidateAps[n])
    <3>1. /\ Append(m_candidateAps[n], g.addr2) \in Seq(Ap)
          /\ g.addr2 \in Elements(Append(m_candidateAps[n], g.addr2))
      BY <1>2, <2>1, ElementsAppend
    <3>2. c \in Seq(Ap) /\ c # <<>>
      BY <1>3, <2>3, <3>1, ElementsSmall
    <3>3. QED
      BY <3>2, ElementsTail
  <2>4. QED
    BY <2>2, <2>3
<1>7. m_candidateAps' \in [Sta -> Seq(Ap)] /\ m_candidateAps'[n] = c
  BY <1>5, <1>6 DEF PathInv, PathTypeOK
<1>8. h \in Frame /\ h.type = "AssocReq" /\ h.addr2 = n
  BY <1>4, <1>6, <1>7 DEF Frame, Control, Node, HdrSize, FcsSize
<1>9. m_channel[n] \in Ap
  BY <1>5, Heard
<1>10. QED
  BY <1>5, <1>7, <1>8, <1>9 DEF Answered

LEMMA ReceiveCases ==
    ASSUME PathInv, NEW n \in Node, PhyReceive(n),
           NEW f, f = Head(air[n])
    PROVE  /\ f \in Frame /\ OnItsWay(n, f) /\ air[n] # <<>>
           /\ UNCHANGED <<m_PhyVector, m_channel, strayed, m_queue>>
           /\ Taken(n, f) \/ Registered(n, f) \/ \E h : Answered(n, h)
<1>1. PathTypeOK
  BY DEF PathInv
<1>2. air[n] # <<>> /\ UNCHANGED <<m_PhyVector, m_channel, strayed, m_queue>>
  BY DEF PhyReceive, wiring
<1>3. f \in Frame /\ f \in Elements(air[n])
  BY <1>1, <1>2, FramesTyped, ElementsTail
<1>4. OnItsWay(n, f)
  BY <1>3 DEF PathInv, FramesTrue
<1>5. PICK g : g = RxMacReceive(MacLowReceive(f))
  OBVIOUS
<1>6. g.type = f.type /\ g.addr2 = f.addr2
  BY <1>3, <1>5, ReceivedFrame
<1>7. ASSUME air' = [air EXCEPT ![n] = Tail(air[n])], UNCHANGED <<roster, history>>
      PROVE  Taken(n, f)
  BY <1>1, <1>7 DEF Taken, PathTypeOK, roster, history
<1>8. ASSUME n \in Ap, ApMacReceive(n, g)
      PROVE  Taken(n, f) \/ Registered(n, f)
  <2>1. air' = [air EXCEPT ![n] = Tail(air[n])]
    BY <1>8 DEF ApMacReceive
  <2>2. CASE g.type = "Data" /\ RxDeviceReceive(n, g)
    BY <1>1, <1>3, <1>5, <1>6, <2>1, <2>2, HandedUp DEF Taken, Delivered
  <2>3. CASE /\ g.type # "Data"
             /\ m_slotPtrs' = [m_slotPtrs EXCEPT ![n] = m_slotPtrs[n] \cup {g.addr2}]
             /\ UNCHANGED <<m_candidateAps, history>>
    <3>1. f.type = "AssocReq"
      BY <1>3, <1>4, <1>6, <1>8, <2>3, NodeAssumption DEF OnItsWay, Frame
    <3>2. f.addr2 \in Sta /\ Placed(f.addr2, n)
      BY <1>4, <3>1 DEF OnItsWay
    <3>3. QED
      BY <1>6, <1>8, <2>1, <2>3, <3>2 DEF Registered, history
  <2>4. QED
    BY <1>8, <2>2, <2>3 DEF ApMacReceive
<1>9. ASSUME n \in Sta, StaMacReceive(n, g)
      PROVE  Taken(n, f) \/ \E h : Answered(n, h)
  <2>1. CASE f.type = "Beacon"
    BY <1>3, <1>4, <1>5, <1>9, <2>1, BeaconAnswered
  <2>2. CASE f.type # "Beacon"
    <3>1. RxDeviceReceive(n, g) /\ air' = [air EXCEPT ![n] = Tail(air[n])]
      BY <1>6, <1>9, <2>2 DEF StaMacReceive
    <3>2. f.type = "Data"
      BY <1>6, <1>9, <2>2 DEF StaMacReceive
    <3>3. QED
      BY <1>1, <1>3, <1>5, <3>1, <3>2, HandedUp DEF Taken, Delivered
  <2>3. QED
    BY <2>1, <2>2
<1>10. Taken(n, f) \/ Registered(n, f) \/ \E h : Answered(n, h)
  BY <1>5, <1>7, <1>8, <1>9 DEF PhyReceive
<1>11. QED
  BY <1>2, <1>3, <1>4, <1>10

(* What is left on the air once the first reception is over.               *)
LEMMA AirTail ==
    ASSUME PathTypeOK, NEW n \in Node, air[n] # <<>>,
           NEW p, p = [air EXCEPT ![n] = Tail(air[n])]
    PROVE  AirTyped(p) /\ \A x \in Node : Elements(p[x]) \subseteq Elements(air[x])
<1>1. /\ Tail(air[n]) \in Seq(Frame)
      /\ Elements(Tail(air[n])) \subseteq Elements(air[n])
  BY FramesTyped, ElementsTail
<1>2. AirTyped(p)
  BY <1>1 DEF AirTyped, PathTypeOK
<1>3. \A x \in Node : Elements(p[x]) \subseteq Elements(air[x])
  BY <1>1 DEF PathTypeOK
<1>4. QED
  BY <1>2, <1>3

LEMMA PhyReceiveInv ==
    ASSUME PathInv, NEW n \in Node, PhyReceive(n)
    PROVE  PathInv'
<1>1. PathTypeOK
  BY DEF PathInv
<1>2. PICK f : f = Head(air[n])
  OBVIOUS
<1>3. PICK p : p = [air EXCEPT ![n] = Tail(air[n])]
  OBVIOUS
<1>4. /\ f \in Frame /\ air[n] # <<>>
      /\ UNCHANGED <<m_PhyVector, m_channel, strayed, m_queue>>
      /\ Taken(n, f) \/ Registered(n, f) \/ \E h : Answered(n, h)
  BY <1>2, ReceiveCases
<1>5. AirTyped(p) /\ \A x \in Node : Elements(p[x]) \subseteq Elements(air[x])
  BY <1>1, <1>3, <1>4, AirTail
<1>6. UNCHANGED packets
  BY <1>4 DEF Taken, Registered, Answered
<1>7. OnlyAdded
  BY <1>4, <1>6, UnchangedAdds
<1>8. OneOwner' /\ OnPlacedChannel'
  BY <1>4, WiringKept
<1>9. ASSUME Taken(n, f) \/ Registered(n, f)
      PROVE  PathTypeOK' /\ FramesTrue' /\ RegisteredPlaced'
  <2>1. air' = p
    BY <1>3, <1>9 DEF Taken, Registered
  <2>2. air' \in [Node -> Seq(Frame)]
    BY <1>5, <2>1 DEF AirTyped
  <2>3. PathTypeOK' /\ RegisteredPlaced'
    <3>1. CASE Taken(n, f)
      BY <1>1, <1>4, <2>2, <3>1
      DEF Taken, PathTypeOK, PathInv, RegisteredPlaced, Listed, Placed
    <3>2. CASE Registered(n, f)
      BY <1>1, <1>4, <2>2, <3>2
      DEF Registered, PathTypeOK, PathInv, RegisteredPlaced, Listed, Placed
    <3>3. QED
      BY <1>9, <3>1, <3>2
  <2>4. FramesTrue'
    BY <1>1, <1>4, <1>5, <1>7, <2>1, FramesTrueNext DEF PathInv
  <2>5. QED
    BY <2>3, <2>4
<1>10. ASSUME NEW h, Answered(n, h)
       PROVE  PathTypeOK' /\ FramesTrue' /\ RegisteredPlaced'
  <2>1. PICK c : c = m_channel[n]
    OBVIOUS
  <2>2. /\ n \in Sta /\ c \in Ap /\ h \in Frame /\ h.type = "AssocReq" /\ h.addr2 = n
        /\ air' = OnAir(p, c, n, h)
    BY <1>3, <1>10, <2>1 DEF Answered
  <2>3. Placed(n, c)
    BY <2>1, <2>2, NodeAssumption DEF PathInv, OnPlacedChannel, None, Node
  <2>4. AirTyped(OnAir(p, c, n, h))
    BY <1>1, <1>5, <2>2, OnAirTyped
  <2>5. \A x \in Node : Elements(OnAir(p, c, n, h)[x])
            = Elements(p[x]) \cup (IF Hears(n, x) /\ Listed(x, c) THEN {h} ELSE {})
    BY <1>1, <1>5, <2>2, OnAirAdds
  <2>6. PathTypeOK'
    BY <1>1, <1>4, <1>6, <1>10, <2>2, <2>4 DEF AirTyped, Answered, PathTypeOK
  <2>7. ASSUME NEW x \in Node, Hears(n, x), Listed(x, c)
        PROVE  OnItsWay(x, h)
    <3>1. x \in Ap
      BY <2>2, <2>7 DEF Hears, Node
    <3>2. x = c
      BY <2>2, <2>7, <3>1 DEF PathInv, OneOwner
    <3>3. QED
      BY <2>2, <2>3, <3>1, <3>2 DEF OnItsWay
  <2>8. ASSUME NEW x \in Node, NEW g \in Elements(air'[x])
        PROVE  g \in Elements(air[x]) \/ OnItsWay(x, g)'
    <3>1. CASE Hears(n, x) /\ Listed(x, c) /\ g = h
      BY <1>1, <1>7, <2>2, <2>7, <3>1, FramesStayTrue
    <3>2. CASE g \in Elements(p[x])
      BY <1>5, <3>2
    <3>3. QED
      BY <2>2, <2>5, <2>8, <3>1, <3>2
  <2>9. FramesTrue'
    BY <1>1, <1>4, <1>7, <2>8, FramesTrueNext DEF PathInv
  <2>10. RegisteredPlaced'
    BY <1>4, <1>10 DEF Answered, PathInv, RegisteredPlaced, Listed, Placed
  <2>11. QED
    BY <2>6, <2>9, <2>10
<1>11. QED
  BY <1>4, <1>8, <1>9, <1>10 DEF PathInv

LEMMA PathInvNext == PathInv /\ [PathNext]_dataVars => PathInv'
<1> SUFFICES ASSUME PathInv, [PathNext]_dataVars
             PROVE  PathInv'
  OBVIOUS
<1>1. CASE \E s \in Sta, a \in Ap : Associate(s, a)
  BY <1>1, AssociateInv
<1>2. CASE \E s \in Sta, a \in Ap : SetChannel(s, a)
  BY <1>2, SetChannelInv
<1>3. CASE \E n \in Node, to \in Node \cup {Broadcast}, len \in Lengths : Send(n, to, len)
  BY <1>3, SendInv
<1>4. CASE \E n \in Node : Transmit(n)
  BY <1>4, TransmitInv
<1>5. CASE \E n \in Node : Expire(n)
  BY <1>5, ExpireInv
<1>6. CASE \E a \in Ap : SendBeacon(a)
  BY <1>6, SendBeaconInv
<1>7. CASE \E n \in Node : PhyReceive(n)
  BY <1>7, PhyReceiveInv
<1>8. CASE UNCHANGED dataVars
  <2>1. UNCHANGED <<m_PhyVector, m_channel, strayed, m_slotPtrs, m_candidateAps, m_queue, air,
                    packets, handedUp>>
    BY <1>8 DEF dataVars, wiring, roster, history
  <2>2. PathTypeOK /\ PathTypeOK'
    BY <2>1 DEF PathInv, PathTypeOK
  <2>3. FramesTrue'
    BY <2>1, <2>2, UnchangedAdds, FramesTrueNext DEF PathInv
  <2>4. RegisteredPlaced'
    BY <2>1 DEF PathInv, RegisteredPlaced, Listed, Placed
  <2>5. QED
    BY <2>1, <2>2, <2>3, <2>4, WiringKept DEF PathInv
<1>9. QED
  BY <1>1, <1>2, <1>3, <1>4, <1>5, <1>6, <1>7, <1>8 DEF PathNext

(* Every state satisfies the invariant.                                    *)
THEOREM PathInvariant == PathSpec => []PathInv
<1>1. QED
  BY PathInvInit, PathInvNext, PTL DEF PathSpec

(* Frames, lists and what is handed up keep their types: no number of      *)
(* headers or trailers taken off makes a packet's length negative.         *)
THEOREM PathTypeCorrect == PathSpec => []PathTypeOK
<1>1. PathInv => PathTypeOK
  BY DEF PathInv
<1>2. QED
  BY <1>1, PathInvariant, PTL

(* No downlink packet waits for a station that cannot hear its access      *)
(* point, whatever is associated, moved, sent, lost or expired, unless the *)
(* script has put the station on a channel that does not list it.          *)
THEOREM EveryDownlinkIsHeard == PathSpec => []DownlinkHeard
<1>1. PathInv => DownlinkHeard
  <2> SUFFICES ASSUME PathInv, NEW a \in Ap
               PROVE  /\ m_slotPtrs[a] \subseteq Elements(m_PhyVector[a]) \cup strayed[a]
                      /\ \A f \in Elements(m_queue[a]) :
                            f.addr1 # Broadcast
                               => f.addr1 \in Elements(m_PhyVector[a]) \cup strayed[a]
    BY DEF DownlinkHeard
  <2>1. m_slotPtrs[a] \subseteq Elements(m_PhyVector[a]) \cup strayed[a]
    BY DEF PathInv, RegisteredPlaced, Listed, Placed
  <2>2. \A f \in Elements(m_queue[a]) : Waiting(a, f)
    BY DEF PathInv, FramesTrue, Node
  <2>3. QED
    BY <2>1, <2>2 DEF Waiting, Listed, Placed
<1>2. QED
  BY <1>1, PathInvariant, PTL

-----------------------------------------------------------------------------
(* The devices are a datagram service.                                     *)

LEMMA SentLength ==
    ASSUME PathTypeOK, NEW k \in DOMAIN packets
    PROVE  packets[k].len \in Nat /\ packets[k].len >= 4
<1>1. packets \in Seq([from : Node, to : Node \cup {Broadcast}, len : Lengths])
  BY DEF PathTypeOK
<1>2. k \in 1..Len(packets)
  BY <1>1, LenProperties
<1>3. packets[k] \in [from : Node, to : Node \cup {Broadcast}, len : Lengths]
  BY <1>1, <1>2, ElementOfSeq
<1>4. packets[k].len \in Lengths
  BY <1>3
<1>5. QED
  BY <1>4, LengthAssumption

(* All the headers and trailers: 36 bytes on, 40 bytes off.                *)
LEMMA BytesLost ==
    ASSUME NEW len \in Nat, len >= 4
    PROVE  Without(Without(Without(Without(len + (LlcSize + HdrSize + FcsSize),
                                           FcsSize), HdrSize), FcsSize), LlcSize)
              = len - 4
  BY DEF Without, LlcSize, HdrSize, FcsSize

LEMMA DeliveredIsSent ==
    ASSUME PathInv, NEW n \in Node, NEW f \in Frame, OnItsWay(n, f),
           UNCHANGED packets, Delivered(n, f)
    PROVE  Service!DeliverDatagram
<1>1. PICK g : g = RxMacReceive(MacLowReceive(f))
  OBVIOUS
<1>2. PICK k : k = f.id
  OBVIOUS
<1>3. PathTypeOK
  BY DEF PathInv
<1>4. /\ k \in DOMAIN packets
      /\ f.addr1 = packets[k].to /\ f.addr2 = packets[k].from
      /\ f.size = packets[k].len + (LlcSize + HdrSize + FcsSize)
  BY <1>2 DEF Delivered, OnItsWay, Carries
<1>5. /\ g.id = k /\ g.addr2 = f.addr2
      /\ g.size = Without(Without(Without(f.size, FcsSize), HdrSize), FcsSize)
  BY <1>1, <1>2, ReceivedFrame
<1>6. Without(g.size, LlcSize) = packets[k].len - 4
  BY <1>3, <1>4, <1>5, SentLength, BytesLost
<1>7. Handed(g) = [id |-> k, from |-> packets[k].from, len |-> packets[k].len - 4]
  BY <1>4, <1>5, <1>6 DEF Handed
<1>8. packets[k].to \in {n, Broadcast}
  BY <1>4 DEF Delivered
<1>9. handedUp' = [handedUp EXCEPT ![n] = Append(handedUp[n],
         [id |-> k, from |-> packets[k].from, len |-> packets[k].len - 4])]
  BY <1>1, <1>7 DEF Delivered
<1>10. QED
  BY <1>4, <1>8, <1>9 DEF Service!DeliverDatagram

LEMMA DatagramStep ==
    ASSUME PathInv, [PathNext]_dataVars
    PROVE  [Service!SendDatagram \/ Service!DeliverDatagram]_Service!datagramVars
<1>1. ASSUME NEW n \in Node, NEW to \in Node \cup {Broadcast}, NEW len \in Lengths,
             Send(n, to, len)
      PROVE  Service!SendDatagram
  <2>1. [from |-> n, to |-> to, len |-> len] \in Service!DatagramType
    BY DEF Service!DatagramType
  <2>2. QED
    BY <1>1, <2>1 DEF Send, Service!SendDatagram
<1>2. ASSUME NEW n \in Node, PhyReceive(n)
      PROVE  Service!DeliverDatagram \/ UNCHANGED history
  <2>1. PICK f : f = Head(air[n])
    OBVIOUS
  <2>2. /\ f \in Frame /\ OnItsWay(n, f)
        /\ Taken(n, f) \/ Registered(n, f) \/ \E h : Answered(n, h)
    BY <1>2, <2>1, ReceiveCases
  <2>3. UNCHANGED packets /\ (UNCHANGED handedUp \/ Delivered(n, f))
    BY <2>2 DEF Taken, Registered, Answered
  <2>4. QED
    BY <2>2, <2>3, DeliveredIsSent DEF history
<1>3. CASE \/ \E s \in Sta, a \in Ap : Associate(s, a) \/ SetChannel(s, a)
           \/ \E n \in Node : Transmit(n) \/ Expire(n)
           \/ \E a \in Ap : SendBeacon(a)
           \/ UNCHANGED dataVars
  BY <1>3 DEF Associate, SetChannel, Transmit, Expire, SendBeacon, dataVars, history,
     Service!datagramVars
<1>4. QED
  BY <1>1, <1>2, <1>3 DEF PathNext, history, Service!datagramVars

(* The devices, with everything between them, are a datagram service:      *)
(* what is handed up was sent to that node by that sender and is one       *)
(* trailer, 4 bytes, shorter; nothing is made up and no stray frame is     *)
(* delivered, at any moment of an association or a move.                   *)
THEOREM DevicesAreDatagramService == PathSpec => DatagramService
<1>1. PathInit => Service!DatagramInit
  BY DEF PathInit, Service!DatagramInit
<1>2. QED
  BY <1>1, DatagramStep, PathInvariant, PTL
  DEF PathSpec, DatagramService, Service!DatagramSpec

-----------------------------------------------------------------------------
(* Sequences whose elements are in an order.                               *)

OrderedBy(s, R) == \A i, j \in DOMAIN s : i < j => <<s[i], s[j]>> \in R

LEMMA OrderedAppend ==
    ASSUME NEW S, NEW R, NEW s \in Seq(S), NEW e \in S, OrderedBy(s, R),
           \A x \in Elements(s) : <<x, e>> \in R
    PROVE  OrderedBy(Append(s, e), R)
<1>1. /\ Len(Append(s, e)) = Len(s) + 1 /\ Append(s, e) \in Seq(S)
      /\ \A i \in 1..Len(s) : Append(s, e)[i] = s[i]
      /\ Append(s, e)[Len(s) + 1] = e
  BY AppendProperties
<1>2. DOMAIN s = 1..Len(s) /\ DOMAIN Append(s, e) = 1..Len(s) + 1 /\ Len(s) \in Nat
  BY <1>1, LenProperties
<1>3. ASSUME NEW i \in 1..Len(s) + 1, NEW j \in 1..Len(s) + 1, i < j
      PROVE  <<Append(s, e)[i], Append(s, e)[j]>> \in R
  <2>1. i \in 1..Len(s) /\ (j \in 1..Len(s) \/ j = Len(s) + 1)
    BY <1>2, <1>3
  <2>2. Append(s, e)[i] = s[i] /\ s[i] \in Elements(s)
    BY <1>1, <1>2, <2>1 DEF Elements
  <2>3. CASE j \in 1..Len(s)
    BY <1>1, <1>2, <1>3, <2>1, <2>2, <2>3 DEF OrderedBy
  <2>4. CASE j = Len(s) + 1
    BY <1>1, <2>2, <2>4
  <2>5. QED
    BY <2>1, <2>3, <2>4
<1>4. QED
  BY <1>2, <1>3 DEF OrderedBy

LEMMA OrderedTail ==
    ASSUME NEW S, NEW R, NEW s \in Seq(S), s # <<>>, OrderedBy(s, R)
    PROVE  /\ OrderedBy(Tail(s), R)
           /\ \A x \in Elements(Tail(s)) : <<Head(s), x>> \in R
<1>1. /\ Tail(s) \in Seq(S) /\ Len(Tail(s)) = Len(s) - 1
      /\ \A i \in 1..Len(Tail(s)) : Tail(s)[i] = s[i + 1]
  BY HeadTailProperties
<1>2. Len(s) \in Nat \ {0}
  BY EmptySeq
<1>3. DOMAIN s = 1..Len(s) /\ DOMAIN Tail(s) = 1..Len(s) - 1
  BY <1>1, LenProperties
<1>4. Head(s) = s[1] /\ 1 \in DOMAIN s
  BY <1>2, <1>3
<1>5. ASSUME NEW i \in DOMAIN Tail(s)
      PROVE  i + 1 \in DOMAIN s /\ 1 < i + 1 /\ Tail(s)[i] = s[i + 1]
  BY <1>1, <1>2, <1>3
<1>6. OrderedBy(Tail(s), R)
  <2>1. ASSUME NEW i \in DOMAIN Tail(s), NEW j \in DOMAIN Tail(s), i < j
        PROVE  <<Tail(s)[i], Tail(s)[j]>> \in R
    <3>1. i + 1 < j + 1
      BY <1>3, <2>1
    <3>2. QED
      BY <1>5, <3>1 DEF OrderedBy
  <2>2. QED
    BY <2>1 DEF OrderedBy
<1>7. \A x \in Elements(Tail(s)) : <<Head(s), x>> \in R
  BY <1>4, <1>5 DEF OrderedBy, Elements
<1>8. QED
  BY <1>6, <1>7

LEMMA OrderedCopies ==
    ASSUME NEW S, NEW R, NEW s \in Seq(S), NEW e \in S, NEW k \in Nat
    PROVE  /\ OrderedBy(s, R) /\ <<e, e>> \in R
           /\ \A x \in Elements(s) : <<x, e>> \in R
           => OrderedBy(s \o Copies(k, e), R)
<1> DEFINE t == s \o Copies(k, e)
<1>t. t \in Seq(S) /\ IsExtension(t, s, k, e)
  BY CopiesConcat
<1> HIDE DEF t
<1>1. /\ t \in Seq(S) /\ Len(s) \in Nat /\ DOMAIN s = 1..Len(s)
      /\ DOMAIN t = 1..Len(s) + k
      /\ \A i \in 1..Len(s) : t[i] = s[i]
      /\ \A i \in Len(s) + 1..Len(s) + k : t[i] = e
  BY <1>t DEF IsExtension
<1> USE DEF t
<1> SUFFICES ASSUME OrderedBy(s, R), <<e, e>> \in R, \A x \in Elements(s) : <<x, e>> \in R
             PROVE  OrderedBy(t, R)
  OBVIOUS
<1> HIDE DEF t
<1>2. ASSUME NEW i \in 1..Len(s) + k, NEW j \in 1..Len(s) + k, i < j
      PROVE  <<t[i], t[j]>> \in R
  <2>1. CASE i <= Len(s) /\ j <= Len(s)
    <3>1. i \in DOMAIN s /\ j \in DOMAIN s
      BY <1>1, <2>1
    <3>2. QED
      BY <1>1, <1>2, <2>1, <3>1 DEF OrderedBy
  <2>2. CASE i <= Len(s) /\ ~ (j <= Len(s))
    <3>1. i \in DOMAIN s
      BY <1>1, <2>2
    <3>2. s[i] \in Elements(s)
      BY <3>1 DEF Elements
    <3>3. QED
      BY <1>1, <2>2, <3>2
  <2>3. CASE ~ (i <= Len(s))
    <3>1. i \in Len(s) + 1..Len(s) + k /\ j \in Len(s) + 1..Len(s) + k
      BY <1>1, <1>2, <2>3
    <3>2. QED
      BY <1>1, <3>1
  <2>4. QED
    BY <2>1, <2>2, <2>3
<1>3. QED
  BY <1>1, <1>2 DEF OrderedBy

-----------------------------------------------------------------------------
(* How many elements of a sequence are in a set.                           *)

Index(s, P) == {i \in DOMAIN s : s[i] \in P}
Count(s, P) == Cardinality(Index(s, P))

LEMMA IndexFinite ==
    ASSUME NEW S, NEW P, NEW s \in Seq(S)
    PROVE  /\ IsFiniteSet(Index(s, P)) /\ Count(s, P) \in Nat
           /\ Index(s, P) \subseteq 1..Len(s) /\ Len(s) \in Nat
<1>1. DOMAIN s = 1..Len(s) /\ Len(s) \in Nat
  BY LenProperties
<1>2. Index(s, P) \in SUBSET (1..Len(s))
  BY <1>1 DEF Index
<1>3. IsFiniteSet(1..Len(s))
  BY <1>1, FS_Interval
<1>4. IsFiniteSet(Index(s, P))
  BY <1>2, <1>3, FS_Subset
<1>5. QED
  BY <1>1, <1>2, <1>4, FS_CardinalityType DEF Count

LEMMA CountNone ==
    ASSUME NEW P, NEW s, \A e \in Elements(s) : e \notin P
    PROVE  Count(s, P) = 0
<1>1. Index(s, P) = {}
  BY DEF Index, Elements
<1>2. QED
  BY <1>1, FS_EmptySet DEF Count

LEMMA CountAppend ==
    ASSUME NEW S, NEW P, NEW s \in Seq(S), NEW e \in S
    PROVE  Count(Append(s, e), P) = Count(s, P) + (IF e \in P THEN 1 ELSE 0)
<1>1. /\ Len(Append(s, e)) = Len(s) + 1 /\ Append(s, e) \in Seq(S)
      /\ \A i \in 1..Len(s) : Append(s, e)[i] = s[i]
      /\ Append(s, e)[Len(s) + 1] = e
  BY AppendProperties
<1>2. DOMAIN s = 1..Len(s) /\ DOMAIN Append(s, e) = 1..Len(s) + 1 /\ Len(s) \in Nat
  BY <1>1, LenProperties
<1>3. Index(Append(s, e), P) = Index(s, P) \cup (IF e \in P THEN {Len(s) + 1} ELSE {})
  <2>1. ASSUME NEW i \in 1..Len(s) + 1
        PROVE  i \in Index(Append(s, e), P)
                 <=> i \in Index(s, P) \/ (e \in P /\ i = Len(s) + 1)
    <3>1. i \in 1..Len(s) \/ (i = Len(s) + 1 /\ i \notin 1..Len(s))
      BY <1>2
    <3>2. QED
      BY <1>1, <1>2, <3>1 DEF Index
  <2>2. /\ Index(Append(s, e), P) \subseteq 1..Len(s) + 1
        /\ Index(s, P) \subseteq 1..Len(s) + 1 /\ Len(s) + 1 \in 1..Len(s) + 1
    BY <1>2 DEF Index
  <2>3. QED
    BY <2>1, <2>2
<1>4. Len(s) + 1 \notin Index(s, P)
  BY <1>2 DEF Index
<1>5. IsFiniteSet(Index(s, P)) /\ Count(s, P) \in Nat
  BY IndexFinite
<1>6. CASE e \in P
  BY <1>3, <1>4, <1>5, <1>6, FS_AddElement DEF Count
<1>7. CASE e \notin P
  BY <1>3, <1>5, <1>7 DEF Count
<1>8. QED
  BY <1>6, <1>7

LEMMA CountCopies ==
    ASSUME NEW S, NEW P, NEW s \in Seq(S), NEW e \in S, NEW k \in Nat
    PROVE  Count(s \o Copies(k, e), P) = Count(s, P) + (IF e \in P THEN k ELSE 0)
<1> DEFINE t == s \o Copies(k, e)
           I == Len(s) + 1 .. Len(s) + k
<1>t. t \in Seq(S) /\ IsExtension(t, s, k, e)
  BY CopiesConcat
<1> HIDE DEF t
<1>1. /\ t \in Seq(S) /\ Len(s) \in Nat /\ DOMAIN s = 1..Len(s)
      /\ DOMAIN t = 1..Len(s) + k
      /\ \A i \in 1..Len(s) : t[i] = s[i]
      /\ \A i \in Len(s) + 1..Len(s) + k : t[i] = e
  BY <1>t DEF IsExtension
<1> HIDE DEF t
<1>2. Index(t, P) = Index(s, P) \cup (IF e \in P THEN I ELSE {})
  <2>1. ASSUME NEW i \in 1..Len(s) + k
        PROVE  i \in Index(t, P) <=> i \in Index(s, P) \/ (e \in P /\ i \in I)
    <3>1. CASE i <= Len(s)
      <4>1. i \in DOMAIN s /\ i \notin I
        BY <1>1, <3>1
      <4>2. QED
        BY <1>1, <3>1, <4>1 DEF Index
    <3>2. CASE ~ (i <= Len(s))
      <4>1. i \notin DOMAIN s /\ i \in I
        BY <1>1, <3>2
      <4>2. QED
        BY <1>1, <3>2, <4>1 DEF Index
    <3>3. QED
      BY <3>1, <3>2
  <2>2. /\ Index(t, P) \subseteq 1..Len(s) + k /\ Index(s, P) \subseteq 1..Len(s) + k
        /\ I \subseteq 1..Len(s) + k
    BY <1>1 DEF Index
  <2> HIDE DEF I
  <2>3. QED
    BY <2>1, <2>2
<1>3. IsFiniteSet(Index(s, P)) /\ Count(s, P) \in Nat
  BY IndexFinite
<1>4. CASE e \in P
  <2>1. IsFiniteSet(I) /\ Cardinality(I) = k
    BY <1>1, FS_Interval
  <2>2. Index(s, P) \cap I = {}
    BY <1>1 DEF Index
  <2> HIDE DEF I
  <2>3. Cardinality(Index(s, P) \cup I)
           = Cardinality(Index(s, P)) + Cardinality(I) - Cardinality(Index(s, P) \cap I)
    BY <1>3, <2>1, FS_Union
  <2>4. Cardinality(Index(s, P) \cap I) = 0
    BY <2>2, FS_EmptySet
  <2>5. Index(t, P) = Index(s, P) \cup I
    BY <1>2, <1>4
  <2>6. QED
    BY <1>3, <1>4, <2>1, <2>3, <2>4, <2>5 DEF Count, t
<1>5. CASE e \notin P
  BY <1>2, <1>3, <1>5 DEF Count, t
<1>6. QED
  BY <1>4, <1>5

LEMMA CountTail ==
    ASSUME NEW S, NEW P, NEW s \in Seq(S), s # <<>>
    PROVE  Count(Tail(s), P) + (IF Head(s) \in P THEN 1 ELSE 0) <= Count(s, P)
<1> DEFINE T == Index(Tail(s), P)
           U == Index(s, P) \ {1}
           f == [i \in T |-> i + 1]
<1>1. /\ Tail(s) \in Seq(S) /\ Len(Tail(s)) = Len(s) - 1
      /\ \A i \in 1..Len(Tail(s)) : Tail(s)[i] = s[i + 1]
  BY HeadTailProperties
<1>2. Len(s) \in Nat \ {0}
  BY EmptySeq
<1>3. DOMAIN s = 1..Len(s) /\ DOMAIN Tail(s) = 1..Len(s) - 1
  BY <1>1, LenProperties
<1>4. Head(s) = s[1] /\ 1 \in DOMAIN s
  BY <1>2, <1>3
<1>5. IsFiniteSet(Index(s, P)) /\ Count(s, P) \in Nat /\ Count(Tail(s), P) \in Nat
  BY <1>1, IndexFinite
<1>6. IsFiniteSet(U)
      /\ Cardinality(U) = IF 1 \in Index(s, P) THEN Count(s, P) - 1 ELSE Count(s, P)
  BY <1>5, FS_RemoveElement DEF Count
<1>7. f \in Injection(T, U)
  <2>1. \A i \in T : i \in Nat /\ i + 1 \in U
    BY <1>1, <1>2, <1>3 DEF Index
  <2>2. f \in [T -> U]
    BY <2>1
  <2>3. \A i, j \in T : f[i] = f[j] => i = j
    BY <2>1
  <2>4. QED
    BY <2>2, <2>3, Fun_IsInj
<1>8. Cardinality(T) <= Cardinality(U)
  BY <1>6, <1>7, FS_Injection
<1>9. 1 \in Index(s, P) <=> Head(s) \in P
  BY <1>4 DEF Index
<1>10. Count(Tail(s), P) = Cardinality(T)
  BY DEF Count
<1> HIDE DEF T, U
<1>11. QED
  BY <1>5, <1>6, <1>8, <1>9, <1>10

-----------------------------------------------------------------------------
(* One line by number: what a node x has sent was handed up at n before    *)
(* what is on the air to n, and that was sent before what waits at x.      *)

Up == [id : Nat, from : Node, len : Nat]
QueueOrder == {p \in Frame \X Frame : p[1].id < p[2].id}
AirOrder ==
    {p \in Frame \X Frame :
        p[1].type = "Data" /\ p[2].type = "Data" /\ p[1].addr2 = p[2].addr2
            => p[1].id <= p[2].id}
UpOrder == {p \in Up \X Up : p[1].from = p[2].from => p[1].id <= p[2].id}

(* Before a frame with number k and sender x: nothing of x at n has a      *)
(* number as high as that.                                                 *)
AirBelow(s, x, k) == \A f \in Elements(s) : f.type = "Data" /\ f.addr2 = x => f.id < k
UpBelow(s, x, k) == \A r \in Elements(s) : r.from = x => r.id < k

FifoTyped(q, a, h) ==
    /\ q \in [Node -> Seq(Frame)] /\ a \in [Node -> Seq(Frame)]
    /\ h \in [Node -> Seq(Up)]
EachOrdered(q, a, h) ==
    \A n \in Node : /\ OrderedBy(q[n], QueueOrder)
                    /\ OrderedBy(a[n], AirOrder)
                    /\ OrderedBy(h[n], UpOrder)
QueueLast(q, a, h) ==
    \A n, x \in Node : \A g \in Elements(q[x]) :
        AirBelow(a[n], x, g.id) /\ UpBelow(h[n], x, g.id)
AirNext(a, h) ==
    \A n \in Node : \A r \in Elements(h[n]), f \in Elements(a[n]) :
        f.type = "Data" /\ f.addr2 = r.from => r.id <= f.id

Fifo(q, a, h) ==
    /\ FifoTyped(q, a, h) /\ EachOrdered(q, a, h)
    /\ QueueLast(q, a, h) /\ AirNext(a, h)

(* The head of a queue leaves it: it was before all others.                *)
LEMMA QueueTail ==
    ASSUME NEW q, NEW a, NEW h, Fifo(q, a, h), NEW n \in Node, q[n] # <<>>
    PROVE  /\ Fifo([q EXCEPT ![n] = Tail(q[n])], a, h)
           /\ \A g \in Elements(Tail(q[n])) : Head(q[n]).id < g.id
<1> DEFINE p == [q EXCEPT ![n] = Tail(q[n])]
<1>1. q \in [Node -> Seq(Frame)]
  BY DEF Fifo, FifoTyped
<1>2. /\ Tail(q[n]) \in Seq(Frame) /\ Head(q[n]) \in Frame
      /\ Elements(Tail(q[n])) \subseteq Elements(q[n])
  BY <1>1, ElementsTail
<1>3. /\ OrderedBy(Tail(q[n]), QueueOrder)
      /\ \A g \in Elements(Tail(q[n])) : <<Head(q[n]), g>> \in QueueOrder
  <2>1. OrderedBy(q[n], QueueOrder)
    BY DEF Fifo, EachOrdered
  <2>2. q[n] \in Seq(Frame)
    BY <1>1
  <2>3. QED
    BY <2>1, <2>2, OrderedTail
<1>4. /\ p \in [Node -> Seq(Frame)]
      /\ \A x \in Node : p[x] = IF x = n THEN Tail(q[n]) ELSE q[x]
  BY <1>1, <1>2
<1> HIDE DEF p
<1>5. \A x \in Node : Elements(p[x]) \subseteq Elements(q[x])
  BY <1>2, <1>4
<1>6. FifoTyped(p, a, h)
  BY <1>4 DEF Fifo, FifoTyped
<1>7. EachOrdered(p, a, h)
  BY <1>3, <1>4 DEF Fifo, EachOrdered
<1>8. QueueLast(p, a, h)
  BY <1>5 DEF Fifo, QueueLast
<1>9. \A g \in Elements(Tail(q[n])) : Head(q[n]).id < g.id
  BY <1>3 DEF QueueOrder
<1>10. QED
  BY <1>6, <1>7, <1>8, <1>9 DEF Fifo, p

(* A frame with a number above all others enters the queue of its sender.  *)
LEMMA QueueAppend ==
    ASSUME NEW q, NEW a, NEW h, Fifo(q, a, h), NEW n \in Node, NEW f \in Frame,
           \A g \in Elements(q[n]) : g.id < f.id,
           \A x \in Node : AirBelow(a[x], n, f.id) /\ UpBelow(h[x], n, f.id)
    PROVE  Fifo([q EXCEPT ![n] = Append(q[n], f)], a, h)
<1> DEFINE p == [q EXCEPT ![n] = Append(q[n], f)]
<1>1. q \in [Node -> Seq(Frame)]
  BY DEF Fifo, FifoTyped
<1>2. q[n] \in Seq(Frame) /\ Elements(q[n]) \subseteq Frame
  BY <1>1, ElementsInSet
<1>3. /\ Append(q[n], f) \in Seq(Frame)
      /\ Elements(Append(q[n], f)) = Elements(q[n]) \cup {f}
  BY <1>2, ElementsAppend
<1>4. OrderedBy(Append(q[n], f), QueueOrder)
  <2>1. OrderedBy(q[n], QueueOrder)
    BY DEF Fifo, EachOrdered
  <2>2. \A g \in Elements(q[n]) : <<g, f>> \in QueueOrder
    BY <1>2 DEF QueueOrder
  <2>3. QED
    BY <1>2, <2>1, <2>2, OrderedAppend
<1>5. /\ p \in [Node -> Seq(Frame)]
      /\ \A x \in Node : p[x] = IF x = n THEN Append(q[n], f) ELSE q[x]
  BY <1>1, <1>3
<1> HIDE DEF p
<1>6. FifoTyped(p, a, h)
  BY <1>5 DEF Fifo, FifoTyped
<1>7. EachOrdered(p, a, h)
  BY <1>4, <1>5 DEF Fifo, EachOrdered
<1>8. QueueLast(p, a, h)
  <2>1. ASSUME NEW m \in Node, NEW x \in Node, NEW g \in Elements(p[x])
        PROVE  AirBelow(a[m], x, g.id) /\ UpBelow(h[m], x, g.id)
    <3>1. CASE g \in Elements(q[x])
      BY <3>1 DEF Fifo, QueueLast
    <3>2. CASE x = n /\ g = f
      BY <3>2
    <3>3. QED
      BY <1>3, <1>5, <2>1, <3>1, <3>2
  <2>2. QED
    BY <2>1 DEF QueueLast
<1>9. QED
  BY <1>6, <1>7, <1>8 DEF Fifo, p

(* The first reception at a node is over.                                  *)
LEMMA AirRest ==
    ASSUME NEW q, NEW a, NEW h, Fifo(q, a, h), NEW n \in Node, a[n] # <<>>
    PROVE  /\ Fifo(q, [a EXCEPT ![n] = Tail(a[n])], h)
           /\ Head(a[n]) \in Frame /\ Head(a[n]) \in Elements(a[n])
           /\ \A f \in Elements(Tail(a[n])) : <<Head(a[n]), f>> \in AirOrder
<1> DEFINE p == [a EXCEPT ![n] = Tail(a[n])]
<1>1. a \in [Node -> Seq(Frame)]
  BY DEF Fifo, FifoTyped
<1>2. /\ Tail(a[n]) \in Seq(Frame)
      /\ Head(a[n]) \in Frame /\ Head(a[n]) \in Elements(a[n])
      /\ Elements(Tail(a[n])) \subseteq Elements(a[n])
  BY <1>1, ElementsTail
<1>3. /\ OrderedBy(Tail(a[n]), AirOrder)
      /\ \A f \in Elements(Tail(a[n])) : <<Head(a[n]), f>> \in AirOrder
  <2>1. OrderedBy(a[n], AirOrder)
    BY DEF Fifo, EachOrdered
  <2>2. a[n] \in Seq(Frame)
    BY <1>1
  <2>3. QED
    BY <2>1, <2>2, OrderedTail
<1>4. /\ p \in [Node -> Seq(Frame)]
      /\ \A x \in Node : p[x] = IF x = n THEN Tail(a[n]) ELSE a[x]
  BY <1>1, <1>2
<1> HIDE DEF p
<1>5. \A x \in Node : Elements(p[x]) \subseteq Elements(a[x])
  BY <1>2, <1>4
<1>6. FifoTyped(q, p, h)
  BY <1>4 DEF Fifo, FifoTyped
<1>7. EachOrdered(q, p, h)
  BY <1>3, <1>4 DEF Fifo, EachOrdered
<1>8. QueueLast(q, p, h)
  BY <1>5 DEF Fifo, QueueLast, AirBelow
<1>9. AirNext(p, h)
  BY <1>5 DEF Fifo, AirNext
<1>10. QED
  BY <1>2, <1>3, <1>6, <1>7, <1>8, <1>9 DEF Fifo, p

(* A node is handed a packet that was sent before those that wait and are  *)
(* on the air, and after those it was handed.                              *)
LEMMA UpAppend ==
    ASSUME NEW q, NEW a, NEW h, Fifo(q, a, h), NEW n \in Node, NEW r \in Up,
           \A e \in Elements(h[n]) : e.from = r.from => e.id <= r.id,
           \A x \in Node : \A g \in Elements(q[x]) : r.from = x => r.id < g.id,
           \A f \in Elements(a[n]) : f.type = "Data" /\ f.addr2 = r.from => r.id <= f.id
    PROVE  Fifo(q, a, [h EXCEPT ![n] = Append(h[n], r)])
<1> DEFINE p == [h EXCEPT ![n] = Append(h[n], r)]
<1>1. h \in [Node -> Seq(Up)]
  BY DEF Fifo, FifoTyped
<1>2. h[n] \in Seq(Up) /\ Elements(h[n]) \subseteq Up
  BY <1>1, ElementsInSet
<1>3. /\ Append(h[n], r) \in Seq(Up)
      /\ Elements(Append(h[n], r)) = Elements(h[n]) \cup {r}
  BY <1>2, ElementsAppend
<1>4. OrderedBy(Append(h[n], r), UpOrder)
  <2>1. OrderedBy(h[n], UpOrder)
    BY DEF Fifo, EachOrdered
  <2>2. \A e \in Elements(h[n]) : <<e, r>> \in UpOrder
    BY <1>2 DEF UpOrder
  <2>3. QED
    BY <1>2, <2>1, <2>2, OrderedAppend
<1>5. /\ p \in [Node -> Seq(Up)]
      /\ \A x \in Node : p[x] = IF x = n THEN Append(h[n], r) ELSE h[x]
  BY <1>1, <1>3
<1> HIDE DEF p
<1>6. FifoTyped(q, a, p)
  BY <1>5 DEF Fifo, FifoTyped
<1>7. EachOrdered(q, a, p)
  BY <1>4, <1>5 DEF Fifo, EachOrdered
<1>8. \A x \in Node : \A e \in Elements(p[x]) : e \in Elements(h[x]) \/ (x = n /\ e = r)
  BY <1>3, <1>5
<1>9. QueueLast(q, a, p)
  <2>1. ASSUME NEW m \in Node, NEW x \in Node, NEW g \in Elements(q[x])
        PROVE  AirBelow(a[m], x, g.id) /\ UpBelow(p[m], x, g.id)
    <3>1. AirBelow(a[m], x, g.id) /\ UpBelow(h[m], x, g.id)
      BY <2>1 DEF Fifo, QueueLast
    <3>2. QED
      BY <1>8, <2>1, <3>1 DEF UpBelow
  <2>2. QED
    BY <2>1 DEF QueueLast
<1>10. AirNext(a, p)
  BY <1>8 DEF Fifo, AirNext
<1>11. QED
  BY <1>6, <1>7, <1>9, <1>10 DEF Fifo, p

-----------------------------------------------------------------------------
(* The channel appends copies, one per listing.                            *)

Times(c, y, n) == IF Hears(y, n) THEN Listings(c, n) ELSE 0

LEMMA OnAirAt ==
    ASSUME PathTypeOK, NEW a, NEW c \in Ap, NEW y, NEW g, NEW n \in Node
    PROVE  /\ Times(c, y, n) \in Nat
           /\ OnAir(a, c, y, g)[n] = a[n] \o Copies(Times(c, y, n), g)
<1>1. Listings(c, n) \in Nat
  BY ListingsCount
<1>2. Times(c, y, n) \in Nat
  BY <1>1 DEF Times
<1>3. OnAir(a, c, y, g)[n] = a[n] \o Copies(Times(c, y, n), g)
  BY DEF OnAir, Copies, Times
<1>4. QED
  BY <1>2, <1>3

(* The frame is data sent after all of its sender that was handed up or is *)
(* on the air, and before what waits; or it is not data.                   *)
LEMMA AirAdd ==
    ASSUME PathTypeOK, NEW q, NEW a, NEW h, Fifo(q, a, h), NEW c \in Ap, NEW y,
           NEW g \in Frame,
           g.type = "Data" =>
              /\ \A n \in Node : AirBelow(a[n], g.addr2, g.id) /\ UpBelow(h[n], g.addr2, g.id)
              /\ \A e \in Elements(q[g.addr2]) : g.id < e.id
    PROVE  Fifo(q, OnAir(a, c, y, g), h)
<1>1. PICK b : b = OnAir(a, c, y, g)
  OBVIOUS
<1>2. AirTyped(a)
  BY DEF Fifo, FifoTyped, AirTyped
<1>3. AirTyped(b)
  BY <1>1, <1>2, OnAirTyped
<1>4. \A n \in Node : Elements(b[n]) \subseteq Elements(a[n]) \cup {g}
  <2>1. ASSUME NEW n \in Node PROVE Elements(b[n]) \subseteq Elements(a[n]) \cup {g}
    <3>1. Elements(OnAir(a, c, y, g)[n])
             = Elements(a[n]) \cup (IF Hears(y, n) /\ Listed(n, c) THEN {g} ELSE {})
      BY <1>2, OnAirAdds
    <3>2. QED
      BY <1>1, <3>1
  <2>2. QED
    BY <2>1
<1>5. FifoTyped(q, b, h)
  BY <1>3 DEF Fifo, FifoTyped, AirTyped
<1>6. g.id \in Nat /\ g.addr2 \in Node
  BY DEF Frame
<1>7. ASSUME NEW n \in Node PROVE OrderedBy(b[n], AirOrder)
  <2>1. b[n] = a[n] \o Copies(Times(c, y, n), g) /\ Times(c, y, n) \in Nat
    BY <1>1, OnAirAt
  <2>2. a[n] \in Seq(Frame)
    BY <1>2 DEF AirTyped
  <2>3. OrderedBy(a[n], AirOrder)
    BY DEF Fifo, EachOrdered
  <2>4. \A f \in Elements(a[n]) : f \in Frame /\ f.id \in Nat
    <3>1. Elements(a[n]) \subseteq Frame
      BY <2>2, ElementsInSet
    <3>2. \A f \in Frame : f.id \in Nat
      BY DEF Frame
    <3>3. QED
      BY <3>1, <3>2
  <2>5. \A f \in Elements(a[n]) : <<f, g>> \in AirOrder
    BY <1>6, <2>4 DEF AirOrder, AirBelow
  <2>6. <<g, g>> \in AirOrder
    BY <1>6 DEF AirOrder
  <2>7. OrderedBy(a[n] \o Copies(Times(c, y, n), g), AirOrder)
    BY <2>1, <2>2, <2>3, <2>5, <2>6, OrderedCopies
  <2>8. QED
    BY <2>1, <2>7
<1>8. EachOrdered(q, b, h)
  BY <1>7 DEF Fifo, EachOrdered
<1>9. QueueLast(q, b, h)
  <2>1. ASSUME NEW n \in Node, NEW x \in Node, NEW e \in Elements(q[x])
        PROVE  AirBelow(b[n], x, e.id) /\ UpBelow(h[n], x, e.id)
    <3>1. AirBelow(a[n], x, e.id) /\ UpBelow(h[n], x, e.id)
      BY <2>1 DEF Fifo, QueueLast
    <3>2. g.type = "Data" /\ g.addr2 = x => g.id < e.id
      BY <2>1
    <3>3. QED
      BY <1>4, <2>1, <3>1, <3>2 DEF AirBelow
  <2>2. QED
    BY <2>1 DEF QueueLast
<1>10. AirNext(b, h)
  <2>1. ASSUME NEW n \in Node, NEW r \in Elements(h[n]), NEW f \in Elements(b[n]),
               f.type = "Data", f.addr2 = r.from
        PROVE  r.id <= f.id
    <3>1. CASE f \in Elements(a[n])
      BY <2>1, <3>1 DEF Fifo, AirNext
    <3>2. CASE f = g
      <4>1. r.id < g.id
        BY <2>1, <3>2 DEF UpBelow
      <4>2. r.id \in Nat
        <5>1. h[n] \in Seq(Up)
          BY DEF Fifo, FifoTyped
        <5>2. QED
          BY <5>1, <2>1, ElementsInSet DEF Up
      <4>3. QED
        BY <1>6, <3>2, <4>1, <4>2
    <3>3. QED
      BY <1>4, <2>1, <3>1, <3>2
  <2>2. QED
    BY <2>1 DEF AirNext
<1>11. QED
  BY <1>1, <1>5, <1>8, <1>9, <1>10 DEF Fifo

-----------------------------------------------------------------------------
(* How often packet k was handed up at n, and is on the air to it.         *)

HandedOf(k) == {r \in Up : r.id = k}
OnAirOf(k) == {f \in Frame : f.type = "Data" /\ f.id = k}
Deliveries(a, h, n, k) == Count(h[n], HandedOf(k)) + Count(a[n], OnAirOf(k))

LEMMA RestCount ==
    ASSUME NEW q, NEW a, NEW h, Fifo(q, a, h), NEW n \in Node, a[n] # <<>>,
           NEW x \in Node, NEW k
    PROVE  /\ Deliveries(a, h, x, k) \in Nat
           /\ Deliveries([a EXCEPT ![n] = Tail(a[n])], h, x, k) \in Nat
           /\ Deliveries([a EXCEPT ![n] = Tail(a[n])], h, x, k) <= Deliveries(a, h, x, k)
<1> DEFINE p == [a EXCEPT ![n] = Tail(a[n])]
<1>1. h[x] \in Seq(Up) /\ a[x] \in Seq(Frame) /\ a[n] \in Seq(Frame)
  BY DEF Fifo, FifoTyped
<1>2. Tail(a[n]) \in Seq(Frame)
  BY <1>1, ElementsTail
<1>3. p[x] = IF x = n THEN Tail(a[n]) ELSE a[x]
  BY DEF Fifo, FifoTyped
<1> HIDE DEF p
<1>4. p[x] \in Seq(Frame)
  BY <1>1, <1>2, <1>3
<1>5. /\ Count(h[x], HandedOf(k)) \in Nat /\ Count(a[x], OnAirOf(k)) \in Nat
      /\ Count(p[x], OnAirOf(k)) \in Nat
  BY <1>1, <1>4, IndexFinite
<1>6. Count(p[x], OnAirOf(k)) <= Count(a[x], OnAirOf(k))
  <2>1. CASE x = n
    <3>1. Count(Tail(a[n]), OnAirOf(k)) + (IF Head(a[n]) \in OnAirOf(k) THEN 1 ELSE 0)
             <= Count(a[n], OnAirOf(k))
      BY <1>1, CountTail
    <3>2. QED
      BY <1>3, <1>5, <2>1, <3>1
  <2>2. CASE x # n
    BY <1>3, <1>5, <2>2
  <2>3. QED
    BY <2>1, <2>2
<1>7. QED
  BY <1>5, <1>6 DEF Deliveries, p

LEMMA HandedCount ==
    ASSUME NEW q, NEW a, NEW h, Fifo(q, a, h), NEW n \in Node, a[n] # <<>>,
           NEW x \in Node, NEW k, NEW r \in Up,
           Head(a[n]).type = "Data", r.id = Head(a[n]).id
    PROVE  Deliveries([a EXCEPT ![n] = Tail(a[n])], [h EXCEPT ![n] = Append(h[n], r)], x, k)
              <= Deliveries(a, h, x, k)
<1> DEFINE p == [a EXCEPT ![n] = Tail(a[n])]
           u == [h EXCEPT ![n] = Append(h[n], r)]
<1>1. h[x] \in Seq(Up) /\ h[n] \in Seq(Up) /\ a[x] \in Seq(Frame) /\ a[n] \in Seq(Frame)
  BY DEF Fifo, FifoTyped
<1>2. Tail(a[n]) \in Seq(Frame) /\ Head(a[n]) \in Frame
  BY <1>1, ElementsTail
<1>3. /\ p[x] = IF x = n THEN Tail(a[n]) ELSE a[x]
      /\ u[x] = IF x = n THEN Append(h[n], r) ELSE h[x]
  BY DEF Fifo, FifoTyped
<1> HIDE DEF p, u
<1>4. CASE x # n
  <2>1. p[x] = a[x] /\ u[x] = h[x]
    BY <1>3, <1>4
  <2>2. Count(h[x], HandedOf(k)) \in Nat /\ Count(a[x], OnAirOf(k)) \in Nat
    BY <1>1, IndexFinite
  <2>3. QED
    BY <2>1, <2>2 DEF Deliveries, p, u
<1>5. CASE x = n
  <2>1. p[x] = Tail(a[n]) /\ u[x] = Append(h[n], r)
    BY <1>3, <1>5
  <2>2. /\ Count(h[n], HandedOf(k)) \in Nat /\ Count(a[n], OnAirOf(k)) \in Nat
        /\ Count(Tail(a[n]), OnAirOf(k)) \in Nat
    BY <1>1, <1>2, IndexFinite
  <2>3. Count(Tail(a[n]), OnAirOf(k)) + (IF Head(a[n]) \in OnAirOf(k) THEN 1 ELSE 0)
           <= Count(a[n], OnAirOf(k))
    BY <1>1, CountTail
  <2>4. Count(Append(h[n], r), HandedOf(k))
           = Count(h[n], HandedOf(k)) + (IF r \in HandedOf(k) THEN 1 ELSE 0)
    BY <1>1, CountAppend
  <2>5. r \in HandedOf(k) <=> Head(a[n]) \in OnAirOf(k)
    BY <1>2 DEF HandedOf, OnAirOf
  <2>6. Count(Append(h[n], r), HandedOf(k)) + Count(Tail(a[n]), OnAirOf(k))
           <= Count(h[n], HandedOf(k)) + Count(a[n], OnAirOf(k))
    BY <2>2, <2>3, <2>4, <2>5
  <2>7. QED
    BY <1>5, <2>1, <2>6 DEF Deliveries, p, u
<1>6. QED
  BY <1>4, <1>5

LEMMA AddCount ==
    ASSUME PathTypeOK, NEW q, NEW a, NEW h, Fifo(q, a, h), NEW c \in Ap, NEW y,
           NEW g \in Frame, NEW x \in Node, NEW k
    PROVE  /\ Deliveries(a, h, x, k) \in Nat
           /\ Deliveries(OnAir(a, c, y, g), h, x, k)
                = Deliveries(a, h, x, k)
                    + (IF g \in OnAirOf(k) THEN Times(c, y, x) ELSE 0)
<1>1. h[x] \in Seq(Up) /\ a[x] \in Seq(Frame)
  BY DEF Fifo, FifoTyped
<1>2. /\ Times(c, y, x) \in Nat
      /\ OnAir(a, c, y, g)[x] = a[x] \o Copies(Times(c, y, x), g)
  BY OnAirAt
<1>3. Count(h[x], HandedOf(k)) \in Nat /\ Count(a[x], OnAirOf(k)) \in Nat
  BY <1>1, IndexFinite
<1>4. Count(a[x] \o Copies(Times(c, y, x), g), OnAirOf(k))
         = Count(a[x], OnAirOf(k)) + (IF g \in OnAirOf(k) THEN Times(c, y, x) ELSE 0)
  BY <1>1, <1>2, CountCopies
<1>5. Count(OnAir(a, c, y, g)[x], OnAirOf(k))
         = Count(a[x], OnAirOf(k)) + (IF g \in OnAirOf(k) THEN Times(c, y, x) ELSE 0)
  BY <1>2, <1>4
<1>6. QED
  BY <1>2, <1>3, <1>5 DEF Deliveries

-----------------------------------------------------------------------------
(* The invariant.                                                          *)

(* How often packet k may reach n: as often as n is listed on the channel  *)
(* that the packet is sent on.                                             *)
ChannelTo(n, k) == IF packets[k].from \in Ap THEN packets[k].from ELSE n
Bound(n, k) == IF ChannelTo(n, k) \in Ap THEN Listings(ChannelTo(n, k), n) ELSE 0

HandedSent ==
    \A n \in Node : \A r \in Elements(handedUp[n]) :
        r.id \in DOMAIN packets /\ r.from = packets[r.id].from

Counted ==
    \A n \in Node : \A k \in DOMAIN packets :
        Deliveries(air, handedUp, n, k) <= Bound(n, k)

DeliveryInv ==
    /\ PathInv /\ Fifo(m_queue, air, handedUp) /\ HandedSent /\ Counted

LEMMA BoundType ==
    ASSUME PathTypeOK, NEW n, NEW k
    PROVE  Bound(n, k) \in Nat
  BY ListingsCount DEF Bound

LEMMA DeliveryInit == PathInit => DeliveryInv
<1> SUFFICES ASSUME PathInit
             PROVE  DeliveryInv
  OBVIOUS
<1>1. PathInv
  BY PathInvInit
<1>2. /\ m_queue = [n \in Node |-> <<>>] /\ air = [n \in Node |-> <<>>]
      /\ handedUp = [n \in Node |-> <<>>] /\ packets = <<>>
  BY DEF PathInit
<1>3. FifoTyped(m_queue, air, handedUp)
  BY <1>2, ElementsSmall DEF FifoTyped
<1>4. EachOrdered(m_queue, air, handedUp)
  BY <1>2 DEF EachOrdered, OrderedBy
<1>5. \A n \in Node : /\ Elements(m_queue[n]) = {} /\ Elements(air[n]) = {}
                      /\ Elements(handedUp[n]) = {}
  BY <1>2, ElementsSmall
<1>6. QueueLast(m_queue, air, handedUp) /\ AirNext(air, handedUp) /\ HandedSent
  BY <1>5 DEF QueueLast, AirNext, HandedSent
<1>7. DOMAIN packets = {}
  BY <1>2
<1>8. Counted
  BY <1>7 DEF Counted
<1>9. QED
  BY <1>1, <1>3, <1>4, <1>6, <1>8 DEF DeliveryInv, Fifo

(* Steps that add no packet.                                               *)
LEMMA BoundKept ==
    ASSUME UNCHANGED <<m_PhyVector, packets>>, NEW n, NEW k
    PROVE  Bound(n, k)' = Bound(n, k)
  BY DEF Bound, ChannelTo, Listings

LEMMA CountedKept ==
    ASSUME PathTypeOK, UNCHANGED <<m_PhyVector, packets>>, Counted,
           \A n \in Node : \A k \in DOMAIN packets :
              /\ Deliveries(air, handedUp, n, k) \in Nat
              /\ Deliveries(air', handedUp', n, k) \in Nat
              /\ Deliveries(air', handedUp', n, k) <= Deliveries(air, handedUp, n, k)
    PROVE  Counted'
<1>1. ASSUME NEW n \in Node, NEW k \in DOMAIN packets
      PROVE  Deliveries(air', handedUp', n, k) <= Bound(n, k)'
  <2>1. Deliveries(air, handedUp, n, k) <= Bound(n, k)
    BY <1>1 DEF Counted
  <2>2. Bound(n, k) \in Nat /\ Bound(n, k)' = Bound(n, k)
    BY BoundType, BoundKept
  <2>3. QED
    BY <1>1, <2>1, <2>2
<1>2. QED
  BY <1>1 DEF Counted, Deliveries

LEMMA DeliveriesType ==
    ASSUME NEW q, NEW a, NEW h, Fifo(q, a, h), NEW n \in Node, NEW k
    PROVE  Deliveries(a, h, n, k) \in Nat
<1>1. h[n] \in Seq(Up) /\ a[n] \in Seq(Frame)
  BY DEF Fifo, FifoTyped
<1>2. Count(h[n], HandedOf(k)) \in Nat /\ Count(a[n], OnAirOf(k)) \in Nat
  BY <1>1, IndexFinite
<1>3. QED
  BY <1>2 DEF Deliveries

LEMMA DeliveryExpire ==
    ASSUME DeliveryInv, NEW n \in Node, Expire(n)
    PROVE  DeliveryInv'
<1>1. /\ m_queue' = [m_queue EXCEPT ![n] = Tail(m_queue[n])] /\ m_queue[n] # <<>>
      /\ UNCHANGED <<m_PhyVector, air, packets, handedUp>>
  BY DEF Expire, wiring, roster, history
<1>2. PathInv'
  BY ExpireInv DEF DeliveryInv
<1>3. Fifo(m_queue', air', handedUp')
  BY <1>1, QueueTail DEF DeliveryInv
<1>4. HandedSent'
  BY <1>1 DEF DeliveryInv, HandedSent
<1>5. Counted'
  BY <1>1, BoundKept DEF DeliveryInv, Counted
<1>6. QED
  BY <1>2, <1>3, <1>4, <1>5 DEF DeliveryInv

(* An association lists a station once more.                               *)
LEMMA DeliveryAssociate ==
    ASSUME DeliveryInv, NEW s \in Sta, NEW a \in Ap, Associate(s, a)
    PROVE  DeliveryInv'
<1>1. /\ m_PhyVector' = [m_PhyVector EXCEPT ![a] = Append(m_PhyVector[a], s)]
      /\ UNCHANGED <<m_queue, air, packets, handedUp>>
  BY DEF Associate, roster, history
<1>2. PathInv' /\ PathTypeOK
  BY AssociateInv DEF DeliveryInv, PathInv
<1>3. Fifo(m_queue', air', handedUp') /\ HandedSent'
  BY <1>1 DEF DeliveryInv, HandedSent
<1>4. ASSUME NEW b \in Ap, NEW n
      PROVE  Listings(b, n)' \in Nat /\ Listings(b, n)' >= Listings(b, n)
  <2>1. /\ Listings(b, n) = Count(m_PhyVector[b], {n})
        /\ Listings(b, n)' = Count(m_PhyVector'[b], {n})
    BY DEF Listings, Count, Index
  <2>2. m_PhyVector[b] \in Seq(Node) /\ s \in Node
    BY <1>2 DEF PathTypeOK, Node
  <2>3. m_PhyVector'[b] = IF b = a THEN Append(m_PhyVector[b], s) ELSE m_PhyVector[b]
    BY <1>1, <1>2 DEF PathTypeOK
  <2>4. Count(m_PhyVector[b], {n}) \in Nat
    BY <2>2, IndexFinite
  <2>5. Count(Append(m_PhyVector[b], s), {n})
           = Count(m_PhyVector[b], {n}) + (IF s \in {n} THEN 1 ELSE 0)
    BY <2>2, CountAppend
  <2>6. /\ Count(m_PhyVector'[b], {n}) \in Nat
        /\ Count(m_PhyVector'[b], {n}) >= Count(m_PhyVector[b], {n})
    BY <2>3, <2>4, <2>5
  <2>7. QED
    BY <2>1, <2>6
<1>5. Counted'
  <2>1. ASSUME NEW n \in Node, NEW k \in DOMAIN packets
        PROVE  Deliveries(air, handedUp, n, k) <= Bound(n, k)'
    <3>1. Deliveries(air, handedUp, n, k) <= Bound(n, k)
      BY <2>1 DEF DeliveryInv, Counted
    <3>2. Bound(n, k) \in Nat
      BY <1>2, BoundType
    <3>3. Bound(n, k)' \in Nat /\ Bound(n, k)' >= Bound(n, k)
      <4>1. ChannelTo(n, k)' = ChannelTo(n, k)
        BY <1>1 DEF ChannelTo
      <4>2. CASE ChannelTo(n, k) \in Ap
        <5>1. PICK c \in Ap : c = ChannelTo(n, k)
          BY <4>2
        <5>2. Bound(n, k) = Listings(c, n) /\ Bound(n, k)' = Listings(c, n)'
          BY <4>1, <5>1 DEF Bound
        <5>3. QED
          BY <1>4, <5>2
      <4>3. CASE ChannelTo(n, k) \notin Ap
        BY <3>2, <4>1, <4>3 DEF Bound
      <4>4. QED
        BY <4>2, <4>3
    <3>4. Deliveries(air, handedUp, n, k) \in Nat
      BY DeliveriesType DEF DeliveryInv
    <3>5. QED
      BY <3>1, <3>2, <3>3, <3>4
  <2>2. QED
    BY <1>1, <2>1 DEF Counted
<1>6. QED
  BY <1>2, <1>3, <1>5 DEF DeliveryInv

(* A move leaves everything that is sent as it is.                         *)
LEMMA DeliveryKept ==
    ASSUME DeliveryInv, PathInv',
           UNCHANGED <<m_PhyVector, m_queue, air, packets, handedUp>>
    PROVE  DeliveryInv'
<1>1. Fifo(m_queue', air', handedUp') /\ HandedSent'
  BY DEF DeliveryInv, HandedSent
<1>2. Counted'
  BY BoundKept DEF DeliveryInv, Counted
<1>3. QED
  BY <1>1, <1>2 DEF DeliveryInv

(* A beacon is no packet.                                                  *)
LEMMA DeliveryBeacon ==
    ASSUME DeliveryInv, NEW a \in Ap, SendBeacon(a)
    PROVE  DeliveryInv'
<1>1. PathInv' /\ PathTypeOK /\ a \in Node
  BY SendBeaconInv DEF DeliveryInv, PathInv, Node
<1>2. PICK f : f = Control("Beacon", Broadcast, a)
  OBVIOUS
<1>3. f \in Frame /\ f.type # "Data"
  BY <1>1, <1>2 DEF Frame, Control, HdrSize, FcsSize
<1>4. /\ air' = OnAir(air, a, a, f)
      /\ UNCHANGED <<m_PhyVector, m_queue, packets, handedUp>>
  BY <1>2 DEF SendBeacon, wiring, roster, history
<1>5. Fifo(m_queue, OnAir(air, a, a, f), handedUp)
  BY <1>1, <1>3, AirAdd DEF DeliveryInv
<1>6. Fifo(m_queue', air', handedUp')
  BY <1>4, <1>5
<1>7. HandedSent'
  BY <1>4 DEF DeliveryInv, HandedSent
<1>8. \A k : f \notin OnAirOf(k)
  BY <1>3 DEF OnAirOf
<1>9. ASSUME NEW n \in Node, NEW k \in DOMAIN packets
      PROVE  /\ Deliveries(air, handedUp, n, k) \in Nat
             /\ Deliveries(air', handedUp', n, k) = Deliveries(air, handedUp, n, k)
  <2>1. /\ Deliveries(air, handedUp, n, k) \in Nat
        /\ Deliveries(OnAir(air, a, a, f), handedUp, n, k)
             = Deliveries(air, handedUp, n, k)
                 + (IF f \in OnAirOf(k) THEN Times(a, a, n) ELSE 0)
    BY <1>1, <1>3, AddCount DEF DeliveryInv
  <2>2. QED
    BY <1>4, <1>8, <2>1
<1>10. Counted'
  BY <1>1, <1>4, <1>9, CountedKept DEF DeliveryInv
<1>11. QED
  BY <1>1, <1>6, <1>7, <1>10 DEF DeliveryInv

(* Every number on its way is that of a packet of the frame's sender.      *)
LEMMA NumbersSent ==
    ASSUME DeliveryInv, NEW x \in Node
    PROVE  /\ \A g \in Elements(m_queue[x]) :
                 /\ g \in Frame /\ g.type = "Data" /\ g.addr2 = x
                 /\ g.id \in DOMAIN packets /\ packets[g.id].from = x
           /\ \A f \in Elements(air[x]) : f.type = "Data" =>
                 f.id \in DOMAIN packets /\ packets[f.id].from = f.addr2
           /\ \A r \in Elements(handedUp[x]) :
                 r.id \in DOMAIN packets /\ packets[r.id].from = r.from
<1>1. PathTypeOK /\ FramesTrue
  BY DEF DeliveryInv, PathInv
<1>2. \A g \in Elements(m_queue[x]) : g \in Frame /\ Waiting(x, g)
  BY <1>1, FramesTyped DEF FramesTrue
<1>3. \A f \in Elements(air[x]) : OnItsWay(x, f)
  BY <1>1 DEF FramesTrue
<1>4. QED
  BY <1>2, <1>3 DEF Waiting, OnItsWay, Carries, DeliveryInv, HandedSent

LEMMA DeliverySend ==
    ASSUME DeliveryInv, NEW n \in Node, NEW to \in Node \cup {Broadcast},
           NEW len \in Lengths, Send(n, to, len)
    PROVE  DeliveryInv'
<1> DEFINE Packet == [from : Node, to : Node \cup {Broadcast}, len : Lengths]
<1>1. PathInv' /\ PathTypeOK /\ len \in Nat
  BY SendInv, LengthAssumption DEF DeliveryInv, PathInv
<1>2. PICK p : p = [from |-> n, to |-> to, len |-> len]
  OBVIOUS
<1>3. PICK f : f = Data(Len(packets) + 1, to, n, len + LlcSize)
  OBVIOUS
<1>4. /\ packets' = Append(packets, p)
      /\ UNCHANGED <<m_PhyVector, air, handedUp>>
  BY <1>2 DEF Send, wiring, roster
<1>5. packets \in Seq(Packet) /\ p \in Packet
  BY <1>1, <1>2 DEF PathTypeOK
<1>6. /\ packets' \in Seq(Packet) /\ Len(packets') = Len(packets) + 1
      /\ \A k \in 1..Len(packets) : packets'[k] = packets[k]
  BY <1>4, <1>5, AppendProperties
<1>7. /\ DOMAIN packets = 1..Len(packets) /\ DOMAIN packets' = 1..Len(packets) + 1
      /\ Len(packets) \in Nat
  BY <1>5, <1>6, LenProperties
<1>8. f.id = Len(packets) + 1 /\ f \in Frame
  BY <1>1, <1>3, <1>7 DEF Frame, Data, LlcSize
<1>9. \A k \in DOMAIN packets : k < f.id
  BY <1>7, <1>8
<1>10. \A g \in Elements(m_queue[n]) : g.id < f.id
  BY <1>9, NumbersSent
<1>11. ASSUME NEW x \in Node
       PROVE  AirBelow(air[x], n, f.id) /\ UpBelow(handedUp[x], n, f.id)
  BY <1>9, NumbersSent DEF AirBelow, UpBelow
<1>12. Fifo([m_queue EXCEPT ![n] = Append(m_queue[n], f)], air, handedUp)
  BY <1>8, <1>10, <1>11, QueueAppend DEF DeliveryInv
<1>13. \/ m_queue' = [m_queue EXCEPT ![n] = Append(m_queue[n], f)]
       \/ UNCHANGED m_queue
  BY <1>3 DEF Send, LiFiSend, TxDeviceSend, RxDeviceSend
<1>14. Fifo(m_queue', air', handedUp')
  BY <1>4, <1>12, <1>13 DEF DeliveryInv
<1>15. HandedSent'
  <2>1. ASSUME NEW x \in Node, NEW r \in Elements(handedUp[x])
        PROVE  r.id \in DOMAIN packets' /\ r.from = packets'[r.id].from
    <3>1. r.id \in DOMAIN packets /\ packets[r.id].from = r.from
      BY <2>1, NumbersSent
    <3>2. QED
      BY <1>6, <1>7, <3>1
  <2>2. QED
    BY <1>4, <2>1 DEF HandedSent
<1>16. ASSUME NEW x \in Node, NEW k \in DOMAIN packets'
       PROVE  Deliveries(air, handedUp, x, k) <= Bound(x, k)'
  <2>1. CASE k \in DOMAIN packets
    <3>1. packets'[k] = packets[k]
      BY <1>6, <1>7, <2>1
    <3>2. Bound(x, k)' = Bound(x, k)
      BY <1>4, <3>1 DEF Bound, ChannelTo, Listings
    <3>3. QED
      BY <1>16, <2>1, <3>2 DEF DeliveryInv, Counted
  <2>2. CASE k \notin DOMAIN packets
    <3>1. Count(handedUp[x], HandedOf(k)) = 0
      BY <2>2, NumbersSent, CountNone DEF HandedOf
    <3>2. Count(air[x], OnAirOf(k)) = 0
      BY <2>2, NumbersSent, CountNone DEF OnAirOf
    <3>3. \A b \in Ap : Listings(b, x)' = Listings(b, x) /\ Listings(b, x) \in Nat
      BY <1>1, <1>4, ListingsCount DEF Listings
    <3>4. Bound(x, k)' \in Nat
      BY <3>3 DEF Bound
    <3>5. QED
      BY <3>1, <3>2, <3>4 DEF Deliveries
  <2>3. QED
    BY <2>1, <2>2
<1>17. Counted'
  BY <1>4, <1>16 DEF Counted
<1>18. QED
  BY <1>1, <1>14, <1>15, <1>17 DEF DeliveryInv

(* A packet goes to each node as often as the node is listed.              *)
LEMMA TimesBound ==
    ASSUME PathInv, NEW n \in Node, NEW x \in Node, NEW k, packets[k].from = n,
           NEW c \in Ap, c = ChannelOf(n)
    PROVE  Times(c, n, x) <= Bound(x, k)
<1>1. Listings(c, x) \in Nat /\ (Listings(c, x) = 0 <=> ~ Listed(x, c))
  BY ListingsCount DEF PathInv
<1>2. Bound(x, k) \in Nat
  BY BoundType DEF PathInv
<1>3. CASE n \in Ap
  <2>1. c = n /\ Bound(x, k) = Listings(c, x)
    BY <1>3 DEF ChannelOf, Bound, ChannelTo
  <2>2. QED
    BY <1>1, <2>1 DEF Times
<1>4. CASE n \notin Ap
  <2>1. ChannelTo(x, k) = x /\ n \in Sta
    BY <1>4 DEF ChannelTo, Node
  <2>2. CASE Hears(n, x) /\ Listed(x, c)
    <3>1. x \in Ap
      BY <2>1, <2>2 DEF Hears, Node
    <3>2. x = c
      BY <2>2, <3>1 DEF PathInv, OneOwner
    <3>3. Bound(x, k) = Listings(c, x)
      BY <2>1, <3>1, <3>2 DEF Bound
    <3>4. QED
      BY <1>1, <3>3 DEF Times
  <2>3. CASE ~ (Hears(n, x) /\ Listed(x, c))
    <3>1. Times(c, n, x) = 0
      BY <1>1, <2>3 DEF Times
    <3>2. QED
      BY <1>2, <3>1
  <2>4. QED
    BY <2>2, <2>3
<1>5. QED
  BY <1>3, <1>4

LEMMA DeliveryTransmit ==
    ASSUME DeliveryInv, NEW n \in Node, Transmit(n)
    PROVE  DeliveryInv'
<1>1. PathInv /\ PathTypeOK /\ PathInv'
  BY TransmitInv DEF DeliveryInv, PathInv
<1>2. PICK c : c = ChannelOf(n)
  OBVIOUS
<1>3. PICK f : f = Head(m_queue[n])
  OBVIOUS
<1>4. PICK g : g = MacLowStart(f)
  OBVIOUS
<1>5. PICK q : q = [m_queue EXCEPT ![n] = Tail(m_queue[n])]
  OBVIOUS
<1>6. /\ m_queue' = q /\ air' = OnAir(air, c, n, g)
      /\ UNCHANGED <<m_PhyVector, packets, handedUp>>
      /\ m_queue[n] # <<>> /\ c # None
  BY <1>2, <1>3, <1>4, <1>5 DEF Transmit, wiring, roster, history
<1>7. c \in Ap
  BY <1>1, <1>2, <1>6 DEF PathInv, ChannelOf, OnPlacedChannel, Node
<1>8. f \in Frame /\ f \in Elements(m_queue[n])
  BY <1>1, <1>3, <1>6, FramesTyped, ElementsTail
<1>9. f.id \in DOMAIN packets /\ packets[f.id].from = n /\ f.addr2 = n
  BY <1>8, NumbersSent
<1>10. g \in Frame /\ g.id = f.id /\ g.addr2 = n
  <2>1. g \in Frame
    BY <1>1, <1>4, <1>8, StartedCarries DEF PathInv, FramesTrue
  <2>2. g = [type |-> f.type, id |-> f.id, addr1 |-> f.addr1, addr2 |-> f.addr2,
             size |-> f.size + HdrSize + FcsSize]
    BY <1>4, <1>8 DEF MacLowStart, Frame
  <2>3. QED
    BY <1>9, <2>1, <2>2
<1>11. Fifo(q, air, handedUp) /\ \A e \in Elements(Tail(m_queue[n])) : f.id < e.id
  BY <1>3, <1>5, <1>6, QueueTail DEF DeliveryInv
<1>12. q[n] = Tail(m_queue[n])
  BY <1>1, <1>5 DEF PathTypeOK
<1>13. ASSUME NEW x \in Node
       PROVE  AirBelow(air[x], n, f.id) /\ UpBelow(handedUp[x], n, f.id)
  BY <1>8 DEF DeliveryInv, Fifo, QueueLast
<1>14. Fifo(q, OnAir(air, c, n, g), handedUp)
  BY <1>1, <1>7, <1>10, <1>11, <1>12, <1>13, AirAdd
<1>15. Fifo(m_queue', air', handedUp')
  BY <1>6, <1>14
<1>16. HandedSent'
  BY <1>6 DEF DeliveryInv, HandedSent
<1>17. ASSUME NEW x \in Node, NEW k \in DOMAIN packets
       PROVE  Deliveries(air', handedUp', x, k) <= Bound(x, k)'
  <2>1. /\ Deliveries(air, handedUp, x, k) \in Nat
        /\ Deliveries(OnAir(air, c, n, g), handedUp, x, k)
             = Deliveries(air, handedUp, x, k)
                 + (IF g \in OnAirOf(k) THEN Times(c, n, x) ELSE 0)
    BY <1>1, <1>7, <1>10, AddCount DEF DeliveryInv
  <2>2. Bound(x, k)' = Bound(x, k) /\ Bound(x, k) \in Nat
    BY <1>1, <1>6, BoundKept, BoundType
  <2>3. Deliveries(air', handedUp', x, k)
           = Deliveries(air, handedUp, x, k)
               + (IF g \in OnAirOf(k) THEN Times(c, n, x) ELSE 0)
    BY <1>6, <2>1
  <2>4. CASE g \notin OnAirOf(k)
    BY <1>17, <2>1, <2>2, <2>3, <2>4 DEF DeliveryInv, Counted
  <2>5. CASE g \in OnAirOf(k)
    <3>1. k = f.id
      BY <1>10, <2>5 DEF OnAirOf
    <3>2. Count(air[x], OnAirOf(k)) = 0
      <4>1. ASSUME NEW e \in Elements(air[x]), e \in OnAirOf(k)
            PROVE  FALSE
        <5>1. e.type = "Data" /\ e.id = k /\ e.id \in Nat
          BY <4>1 DEF OnAirOf, Frame
        <5>2. e.addr2 = n
          BY <1>9, <3>1, <4>1, <5>1, NumbersSent
        <5>3. e.id < k
          BY <1>13, <3>1, <4>1, <5>1, <5>2 DEF AirBelow
        <5>4. QED
          BY <5>1, <5>3
      <4>2. QED
        BY <4>1, CountNone
    <3>3. Count(handedUp[x], HandedOf(k)) = 0
      <4>1. ASSUME NEW e \in Elements(handedUp[x]), e \in HandedOf(k)
            PROVE  FALSE
        <5>1. e.id = k /\ e.id \in Nat
          BY <4>1 DEF HandedOf, Up
        <5>2. e.from = n
          BY <1>9, <3>1, <4>1, <5>1, NumbersSent
        <5>3. e.id < k
          BY <1>13, <3>1, <4>1, <5>1, <5>2 DEF UpBelow
        <5>4. QED
          BY <5>1, <5>3
      <4>2. QED
        BY <4>1, CountNone
    <3>4. Deliveries(air, handedUp, x, k) = 0
      BY <3>2, <3>3 DEF Deliveries
    <3>5. Times(c, n, x) \in Nat /\ Times(c, n, x) <= Bound(x, k)
      BY <1>1, <1>2, <1>7, <1>9, <3>1, OnAirAt, TimesBound
    <3>6. QED
      BY <2>2, <2>3, <2>5, <3>4, <3>5
  <2>6. QED
    BY <2>4, <2>5
<1>18. Counted'
  BY <1>6, <1>17 DEF Counted
<1>19. QED
  BY <1>1, <1>15, <1>16, <1>18 DEF DeliveryInv

(* The packet that a received frame carries is handed up.                  *)
LEMMA DeliveryHanded ==
    ASSUME DeliveryInv, NEW n \in Node, air[n] # <<>>, NEW f, f = Head(air[n]),
           OnItsWay(n, f), UNCHANGED <<m_PhyVector, m_queue, packets>>,
           air' = [air EXCEPT ![n] = Tail(air[n])], Delivered(n, f)
    PROVE  Fifo(m_queue', air', handedUp') /\ HandedSent' /\ Counted'
<1>1. PathTypeOK /\ Fifo(m_queue, air, handedUp)
  BY DEF DeliveryInv, PathInv
<1>2. PICK p : p = [air EXCEPT ![n] = Tail(air[n])]
  OBVIOUS
<1>3. PICK r : r = Handed(RxMacReceive(MacLowReceive(f)))
  OBVIOUS
<1>4. /\ air' = p /\ UNCHANGED <<m_PhyVector, m_queue, packets>>
      /\ handedUp' = [handedUp EXCEPT ![n] = Append(handedUp[n], r)] /\ f.type = "Data"
  BY <1>2, <1>3 DEF Delivered
<1>5. /\ Fifo(m_queue, p, handedUp) /\ f \in Frame /\ f \in Elements(air[n])
      /\ \A e \in Elements(Tail(air[n])) : <<f, e>> \in AirOrder
  BY <1>1, <1>2, AirRest
<1>6. r \in Up /\ r.id = f.id /\ r.from = f.addr2
  <2>1. PICK g : g = RxMacReceive(MacLowReceive(f))
    OBVIOUS
  <2>2. g.id = f.id /\ g.addr2 = f.addr2 /\ g.size \in Nat /\ f.id \in Nat /\ f.addr2 \in Node
    <3>1. f.id \in Nat /\ f.addr2 \in Node
      BY <1>5 DEF Frame
    <3>2. QED
      BY <1>5, <2>1, <3>1, ReceivedFrame
  <2>3. Without(g.size, LlcSize) \in Nat
    BY <2>2 DEF Without, LlcSize
  <2>4. r = [id |-> g.id, from |-> g.addr2, len |-> Without(g.size, LlcSize)]
    BY <1>3, <2>1 DEF Handed
  <2>5. QED
    BY <2>2, <2>3, <2>4 DEF Up
<1>7. \A e \in Elements(handedUp[n]) : e.from = r.from => e.id <= r.id
  BY <1>1, <1>4, <1>5, <1>6 DEF Fifo, AirNext
<1>8. \A x \in Node : \A g \in Elements(m_queue[x]) : r.from = x => r.id < g.id
  BY <1>1, <1>4, <1>5, <1>6 DEF Fifo, QueueLast, AirBelow
<1>9. p[n] = Tail(air[n])
  BY <1>1, <1>2 DEF PathTypeOK
<1>10. \A e \in Elements(p[n]) : e.type = "Data" /\ e.addr2 = r.from => r.id <= e.id
  BY <1>4, <1>5, <1>6, <1>9 DEF AirOrder
<1>11. PICK u : u = [handedUp EXCEPT ![n] = Append(handedUp[n], r)]
  OBVIOUS
<1>12. Fifo(m_queue, p, u)
  BY <1>5, <1>6, <1>7, <1>8, <1>10, <1>11, UpAppend
<1>13. Fifo(m_queue', air', handedUp')
  BY <1>4, <1>11, <1>12
<1>14. f.id \in DOMAIN packets /\ packets[f.id].from = f.addr2
  BY <1>4, <1>5, NumbersSent
<1>15. \A x \in Node : \A e \in Elements(u[x]) : e \in Elements(handedUp[x]) \/ e = r
  <2>1. handedUp \in [Node -> Seq(Up)]
    BY <1>1 DEF Fifo, FifoTyped
  <2>2. handedUp[n] \in Seq(Up)
    BY <2>1
  <2>3. Elements(Append(handedUp[n], r)) = Elements(handedUp[n]) \cup {r}
    BY <1>6, <2>2, ElementsAppend
  <2>4. \A x \in Node : u[x] = IF x = n THEN Append(handedUp[n], r) ELSE handedUp[x]
    BY <1>11, <2>1
  <2>5. QED
    BY <2>3, <2>4
<1>16. HandedSent'
  <2>1. \A x \in Node : \A e \in Elements(u[x]) :
           e.id \in DOMAIN packets /\ e.from = packets[e.id].from
    BY <1>6, <1>14, <1>15 DEF DeliveryInv, HandedSent
  <2>2. QED
    BY <1>4, <1>11, <2>1 DEF HandedSent
<1>17. ASSUME NEW x \in Node, NEW k \in DOMAIN packets
       PROVE  /\ Deliveries(air, handedUp, x, k) \in Nat
              /\ Deliveries(air', handedUp', x, k) \in Nat
              /\ Deliveries(air', handedUp', x, k) <= Deliveries(air, handedUp, x, k)
  <2>1. Deliveries(air, handedUp, x, k) \in Nat
    BY <1>1, DeliveriesType
  <2>2. Deliveries(p, u, x, k) \in Nat
    BY <1>12, DeliveriesType
  <2>3. Deliveries(p, u, x, k) <= Deliveries(air, handedUp, x, k)
    BY <1>1, <1>2, <1>4, <1>6, <1>11, HandedCount
  <2>4. QED
    BY <1>4, <1>11, <2>1, <2>2, <2>3
<1>18. Counted'
  BY <1>1, <1>4, <1>17, CountedKept DEF DeliveryInv
<1>19. QED
  BY <1>13, <1>16, <1>18


(* A beacon is answered, and the answer is no packet.                      *)
LEMMA DeliveryAnswered ==
    ASSUME DeliveryInv, NEW n \in Node, air[n] # <<>>, NEW h, Answered(n, h),
           UNCHANGED <<m_PhyVector, m_queue>>
    PROVE  Fifo(m_queue', air', handedUp') /\ HandedSent' /\ Counted'
<1>1. PathTypeOK /\ Fifo(m_queue, air, handedUp)
  BY DEF DeliveryInv, PathInv
<1>2. PICK p : p = [air EXCEPT ![n] = Tail(air[n])]
  OBVIOUS
<1>3. PICK c : c = m_channel[n]
  OBVIOUS
<1>4. /\ air' = OnAir(p, c, n, h) /\ c \in Ap /\ h \in Frame /\ h.type # "Data"
      /\ UNCHANGED <<m_PhyVector, m_queue, packets, handedUp>>
  BY <1>2, <1>3 DEF Answered
<1>5. Fifo(m_queue, p, handedUp)
  BY <1>1, <1>2, AirRest
<1>6. Fifo(m_queue, OnAir(p, c, n, h), handedUp)
  BY <1>1, <1>4, <1>5, AirAdd
<1>7. Fifo(m_queue', air', handedUp')
  BY <1>4, <1>6
<1>8. HandedSent'
  BY <1>4 DEF DeliveryInv, HandedSent
<1>9. \A k : h \notin OnAirOf(k)
  BY <1>4 DEF OnAirOf
<1>10. ASSUME NEW x \in Node, NEW k \in DOMAIN packets
       PROVE  /\ Deliveries(air, handedUp, x, k) \in Nat
              /\ Deliveries(air', handedUp', x, k) \in Nat
              /\ Deliveries(air', handedUp', x, k) <= Deliveries(air, handedUp, x, k)
  <2>1. /\ Deliveries(air, handedUp, x, k) \in Nat
        /\ Deliveries(p, handedUp, x, k) \in Nat
        /\ Deliveries(p, handedUp, x, k) <= Deliveries(air, handedUp, x, k)
    BY <1>1, <1>2, RestCount
  <2>2. Deliveries(OnAir(p, c, n, h), handedUp, x, k)
           = Deliveries(p, handedUp, x, k)
               + (IF h \in OnAirOf(k) THEN Times(c, n, x) ELSE 0)
    BY <1>1, <1>4, <1>5, AddCount
  <2>3. Deliveries(air', handedUp', x, k) = Deliveries(p, handedUp, x, k)
    BY <1>4, <1>9, <2>1, <2>2
  <2>4. QED
    BY <2>1, <2>3
<1>11. Counted'
  BY <1>1, <1>4, <1>10, CountedKept DEF DeliveryInv
<1>12. QED
  BY <1>7, <1>8, <1>11

LEMMA DeliveryReceive ==
    ASSUME DeliveryInv, NEW n \in Node, PhyReceive(n)
    PROVE  DeliveryInv'
<1>1. PathInv /\ PathTypeOK /\ PathInv' /\ Fifo(m_queue, air, handedUp)
  BY PhyReceiveInv DEF DeliveryInv, PathInv
<1>2. PICK f : f = Head(air[n])
  OBVIOUS
<1>3. /\ OnItsWay(n, f) /\ air[n] # <<>> /\ UNCHANGED <<m_PhyVector, m_queue>>
      /\ Taken(n, f) \/ Registered(n, f) \/ \E h : Answered(n, h)
  BY <1>1, <1>2, ReceiveCases
<1>4. ASSUME air' = [air EXCEPT ![n] = Tail(air[n])], UNCHANGED <<packets, handedUp>>
      PROVE  Fifo(m_queue', air', handedUp') /\ HandedSent' /\ Counted'
  <2>1. PICK p : p = [air EXCEPT ![n] = Tail(air[n])]
    OBVIOUS
  <2>2. Fifo(m_queue', air', handedUp')
    BY <1>1, <1>3, <1>4, AirRest
  <2>3. HandedSent'
    BY <1>4 DEF DeliveryInv, HandedSent
  <2>4. ASSUME NEW x \in Node, NEW k \in DOMAIN packets
        PROVE  /\ Deliveries(air, handedUp, x, k) \in Nat
               /\ Deliveries(air', handedUp', x, k) \in Nat
               /\ Deliveries(air', handedUp', x, k) <= Deliveries(air, handedUp, x, k)
    <3>1. /\ Deliveries(air, handedUp, x, k) \in Nat
          /\ Deliveries(p, handedUp, x, k) \in Nat
          /\ Deliveries(p, handedUp, x, k) <= Deliveries(air, handedUp, x, k)
      BY <1>1, <1>3, <2>1, RestCount
    <3>2. QED
      BY <1>4, <2>1, <3>1
  <2>5. Counted'
    BY <1>1, <1>3, <1>4, <2>4, CountedKept DEF DeliveryInv
  <2>6. QED
    BY <2>2, <2>3, <2>5
<1>5. CASE Taken(n, f)
  <2>1. CASE UNCHANGED handedUp
    BY <1>1, <1>4, <1>5, <2>1 DEF Taken, DeliveryInv
  <2>2. CASE Delivered(n, f)
    <3>1. Fifo(m_queue', air', handedUp') /\ HandedSent' /\ Counted'
      BY <1>2, <1>3, <1>5, <2>2, DeliveryHanded DEF Taken
    <3>2. QED
      BY <1>1, <3>1 DEF DeliveryInv
  <2>3. QED
    BY <1>5, <2>1, <2>2 DEF Taken
<1>6. CASE Registered(n, f)
  BY <1>1, <1>4, <1>6 DEF Registered, DeliveryInv
<1>7. CASE \E h : Answered(n, h)
  <2>1. Fifo(m_queue', air', handedUp') /\ HandedSent' /\ Counted'
    BY <1>3, <1>7, DeliveryAnswered
  <2>2. QED
    BY <1>1, <2>1 DEF DeliveryInv
<1>8. QED
  BY <1>3, <1>5, <1>6, <1>7

-----------------------------------------------------------------------------
LEMMA DeliveryNext == DeliveryInv /\ [PathNext]_dataVars => DeliveryInv'
<1> SUFFICES ASSUME DeliveryInv, [PathNext]_dataVars
             PROVE  DeliveryInv'
  OBVIOUS
<1>1. CASE \E s \in Sta, a \in Ap : Associate(s, a)
  BY <1>1, DeliveryAssociate
<1>2. PathInv'
  BY PathInvNext DEF DeliveryInv
<1>3. CASE \/ \E s \in Sta, a \in Ap : SetChannel(s, a)
           \/ UNCHANGED dataVars
  <2>1. UNCHANGED <<m_PhyVector, m_queue, air, packets, handedUp>>
    BY <1>3 DEF SetChannel, dataVars, wiring, roster, history
  <2>2. QED
    BY <1>2, <2>1, DeliveryKept
<1>4. CASE \E n \in Node, to \in Node \cup {Broadcast}, len \in Lengths : Send(n, to, len)
  BY <1>4, DeliverySend
<1>5. CASE \E n \in Node : Transmit(n)
  BY <1>5, DeliveryTransmit
<1>6. CASE \E n \in Node : Expire(n)
  BY <1>6, DeliveryExpire
<1>7. CASE \E a \in Ap : SendBeacon(a)
  BY <1>7, DeliveryBeacon
<1>8. CASE \E n \in Node : PhyReceive(n)
  BY <1>8, DeliveryReceive
<1>9. QED
  BY <1>1, <1>3, <1>4, <1>5, <1>6, <1>7, <1>8 DEF PathNext

(* What was handed up, what is on the air and what waits stay one line by  *)
(* number, and no packet is on its way more often than it may arrive.      *)
THEOREM DeliveryInvariant == PathSpec => []DeliveryInv
<1>1. QED
  BY DeliveryInit, DeliveryNext, PTL DEF PathSpec

LEMMA DeliveryShown == DeliveryInv => InOrderPerListing
<1> SUFFICES ASSUME DeliveryInv
             PROVE  InOrderPerListing
  OBVIOUS
<1>1. PathTypeOK /\ Fifo(m_queue, air, handedUp) /\ Counted
  BY DEF DeliveryInv, PathInv
<1>2. ASSUME NEW n \in Node, NEW i \in DOMAIN handedUp[n]
      PROVE  handedUp[n] \in Seq(Up) /\ handedUp[n][i] \in Up
  <2>1. handedUp[n] \in Seq(Up)
    BY <1>1 DEF Fifo, FifoTyped
  <2>2. handedUp[n][i] \in Elements(handedUp[n])
    BY <1>2 DEF Elements
  <2>3. QED
    BY <2>1, <2>2, ElementsInSet
<1>3. HandedUpInOrder
  <2> SUFFICES ASSUME NEW n \in Node, NEW i \in DOMAIN handedUp[n],
                      NEW j \in DOMAIN handedUp[n], i < j,
                      handedUp[n][i].from = handedUp[n][j].from
               PROVE  handedUp[n][i].id <= handedUp[n][j].id
    BY DEF HandedUpInOrder
  <2>1. <<handedUp[n][i], handedUp[n][j]>> \in UpOrder
    BY <1>1 DEF Fifo, EachOrdered, OrderedBy
  <2>2. QED
    BY <2>1 DEF UpOrder
<1>4. CopiesPerListing
  <2>1. ASSUME NEW n \in Node, NEW k \in DOMAIN packets
        PROVE  Cardinality({i \in DOMAIN handedUp[n] : handedUp[n][i].id = k}) <= Bound(n, k)
    <3>1. {i \in DOMAIN handedUp[n] : handedUp[n][i].id = k} = Index(handedUp[n], HandedOf(k))
      BY <1>2, <2>1 DEF Index, HandedOf
    <3>2. handedUp[n] \in Seq(Up) /\ air[n] \in Seq(Frame)
      BY <1>1 DEF Fifo, FifoTyped
    <3>3. Count(handedUp[n], HandedOf(k)) \in Nat /\ Count(air[n], OnAirOf(k)) \in Nat
      BY <3>2, IndexFinite
    <3>4. Count(handedUp[n], HandedOf(k)) + Count(air[n], OnAirOf(k)) <= Bound(n, k)
      BY <1>1, <2>1 DEF Counted, Deliveries
    <3>5. Bound(n, k) \in Nat
      BY <1>1, BoundType
    <3>6. Count(handedUp[n], HandedOf(k)) <= Bound(n, k)
      BY <3>3, <3>4, <3>5
    <3>7. QED
      BY <3>1, <3>6 DEF Count
  <2>2. QED
    BY <2>1 DEF CopiesPerListing, Bound, ChannelTo
<1>5. QED
  BY <1>1, <1>3, <1>4 DEF InOrderPerListing

(* A receiver gets the packets of a sender in the order they were sent,    *)
(* and none more often than it is listed on the sender's channel, whatever *)
(* is associated anew, moved, lost or expired in the meantime.             *)
THEOREM DeliveryInOrder == PathSpec => []InOrderPerListing
<1>1. QED
  BY DeliveryInvariant, DeliveryShown, PTL


=============================================================================
