-------------------------- MODULE LiFiApMacProofs --------------------------
(***************************************************************************)
(* Theorems of the access point and of its slot table, for every set of    *)
(* devices, every max_slots and every length of the superframe.            *)
(*                                                                         *)
(* The table first: the quota is a byte, the table enumerates the granted  *)
(* units, and it fits in max_slots when all the devices that share it are  *)
(* present.  Then the access point: the argument is one inductive          *)
(* invariant.  A single timed event is pending (SingleChain), so while it  *)
(* runs nothing else touches the table and the counters, and what it       *)
(* relies on (EventsPrepared) was set up by the event before it.           *)
(***************************************************************************)
EXTENDS LiFiApMac, FiniteSetTheorems, TLAPS

-----------------------------------------------------------------------------
(* The slot table.                                                         *)

LEMMA DivisionBounds ==
    ASSUME NEW a \in Int, NEW n \in Nat \ {0}
    PROVE  /\ a \div n \in Int
           /\ n * (a \div n) <= a
           /\ a < n * (a \div n) + n
           /\ a >= 0 => a \div n \in Nat
           /\ \A k \in Int : n * k <= a => k <= a \div n
           /\ \A k \in Int : a < n * k => a \div n < k
  OBVIOUS

(* The quota that GetNumberOfSlotsForAccessCategory returns is a uint8_t,  *)
(* wrapped subtraction included.                                           *)
LEMMA QuotaIsByte ==
    ASSUME NEW n \in Nat \ {0}
    PROVE  DownlinkQuota(n) \in 0..255
<1>1. CASE 2 * n <= MaxSlots
  <2>1. (MaxSlots - 2 * n) \div n \in Int
    BY DivisionBounds, SlotsAssumption
  <2>2. QED
    BY <1>1, <2>1 DEF DownlinkQuota
<1>2. CASE ~(2 * n <= MaxSlots)
  <2> DEFINE m == 256 * n
             x == 256 * Pow56Mod(n) - (2 * n - MaxSlots)
  <2>1. Pow56Mod(n) \in Int
    <3> DEFINE p14 == (2^14) % n
               p28 == (p14 * p14) % n
    <3>1. 2^14 \in Int
      OBVIOUS
    <3>2. p14 \in Int
      BY <3>1
    <3>3. p14 * p14 \in Int
      BY <3>2
    <3>4. p28 \in Int
      BY <3>3
    <3>5. p28 * p28 \in Int
      BY <3>4
    <3>6. (p28 * p28) % n \in Int
      BY <3>5
    <3>7. QED
      BY <3>6 DEF Pow56Mod
  <2>2. x \in Int /\ m \in Nat \ {0}
    BY <2>1, SlotsAssumption
  <2>3. x % m \in 0..(m - 1)
    BY <2>2
  <2>4. x % m \in Int /\ 0 <= x % m /\ x % m < n * 256
    BY <2>3
  <2>5. (x % m) \div n \in Nat /\ (x % m) \div n < 256
    BY <2>4, DivisionBounds
  <2>6. DownlinkQuota(n) = (x % m) \div n
    BY <1>2 DEF DownlinkQuota
  <2>7. QED
    BY <2>5, <2>6
<1>3. QED
  BY <1>1, <1>2

LEMMA SlotCountType ==
    ASSUME NEW n \in Nat \ {0}, NEW s, NEW dir \in Direction
    PROVE  /\ SlotCount(dir, s, n) \in 0..255
           /\ dir = "Uplink" => SlotCount(dir, s, n) \in 1..2
  BY QuotaIsByte DEF SlotCount, Direction

LEMMA UnitFinite == IsFiniteSet(Unit)
<1> DEFINE P == Direction \X (Dev \X (1..MaxCopies))
           f == [u \in Unit |-> <<u.type, <<u.node, u.copy>>>>]
<1>1. IsFiniteSet(Direction)
  <2>1. Direction = {"Downlink"} \cup {"Uplink"}
    BY DEF Direction
  <2>2. QED
    BY <2>1, FS_Singleton, FS_AddElement
<1>2. IsFiniteSet(1..MaxCopies)
  <2>1. 1 \in Int /\ MaxCopies \in Int
    BY DEF MaxCopies
  <2>2. QED
    BY <2>1, FS_Interval
<1>3. IsFiniteSet(Dev \X (1..MaxCopies))
  BY <1>2, FS_Product, DevAssumption
<1>4. IsFiniteSet(P)
  BY <1>1, <1>3, FS_Product
<1>5. f \in [Unit -> P]
  BY DEF Unit
<1>6. ASSUME NEW u \in Unit, NEW v \in Unit, f[u] = f[v]
      PROVE  u = v
  BY <1>6 DEF Unit
<1>7. f \in Injection(Unit, P)
  BY <1>5, <1>6 DEF Injection, IsInjective
<1>8. QED
  BY <1>4, <1>7, FS_Injection

LEMMA UnitsGranted ==
    ASSUME NEW infos, NEW n, NEW u
    PROVE  u \in Units(infos, n) <=>
             \E dir \in Direction, d \in Associated(infos) :
                u \in Granted(infos, n, dir, d)
  BY DEF Units

(* The granted units of any map are units, finitely many, and every        *)
(* associated device is granted an uplink slot.                            *)
LEMMA UnitsType ==
    ASSUME NEW infos, NEW n \in Nat \ {0}
    PROVE  /\ Units(infos, n) \subseteq Unit
           /\ IsFiniteSet(Units(infos, n))
           /\ \A d \in Associated(infos) :
                 \E u \in Units(infos, n) : u.type = "Uplink" /\ u.node = d
<1>1. Units(infos, n) \subseteq Unit
  <2> SUFFICES ASSUME NEW u \in Units(infos, n)
               PROVE  u \in Unit
    OBVIOUS
  <2>1. PICK dir \in Direction, d \in Associated(infos) :
            u \in Granted(infos, n, dir, d)
    BY UnitsGranted
  <2>2. SlotCount(dir, infos[d], n) \in 0..255
    BY SlotCountType
  <2>3. u \in [type : {dir}, node : {d},
              copy : 1..SlotCount(dir, infos[d], n)]
    BY <2>1 DEF Granted
  <2>4. QED
    BY <2>2, <2>3 DEF Unit, Associated, MaxCopies
<1>2. IsFiniteSet(Units(infos, n))
  BY <1>1, UnitFinite, FS_Subset
<1>3. ASSUME NEW d \in Associated(infos)
      PROVE  \E u \in Units(infos, n) : u.type = "Uplink" /\ u.node = d
  <2> DEFINE u == [type |-> "Uplink", node |-> d, copy |-> 1]
  <2>1. "Uplink" \in Direction
    BY DEF Direction
  <2>2. 1 \in 1..SlotCount("Uplink", infos[d], n)
    BY <2>1, SlotCountType
  <2>3. u \in Granted(infos, n, "Uplink", d)
    BY <2>2 DEF Granted
  <2>4. u \in Units(infos, n)
    BY <2>1, <2>3, UnitsGranted
  <2>5. QED
    BY <2>4
<1>4. QED
  BY <1>1, <1>2, <1>3

(* Before is a strict total order on units.                                *)
LEMMA BeforeOrders ==
    ASSUME NEW u \in Unit, NEW v \in Unit, NEW w \in Unit
    PROVE  /\ ~ Before(u, u)
           /\ Before(u, v) /\ Before(v, w) => Before(u, w)
           /\ u # v => Before(u, v) \/ Before(v, u)
<1>1. /\ u.node \in Int /\ v.node \in Int /\ w.node \in Int
      /\ u.copy \in Int /\ v.copy \in Int /\ w.copy \in Int
      /\ u.type \in Direction /\ v.type \in Direction /\ w.type \in Direction
  <2>1. ASSUME NEW x \in Unit
        PROVE  x.node \in Int /\ x.copy \in Int /\ x.type \in Direction
    <3>1. x.node \in Dev /\ x.copy \in 1..MaxCopies /\ x.type \in Direction
      BY DEF Unit
    <3>2. x.node \in Nat
      BY <3>1, DevAssumption
    <3>3. x.copy \in Int
      BY <3>1 DEF MaxCopies
    <3>4. QED
      BY <3>1, <3>2, <3>3
  <2>2. QED
    BY <2>1
<1>2. ~ Before(u, u)
  BY <1>1 DEF Before, Direction
<1>3. Before(u, v) /\ Before(v, w) => Before(u, w)
  BY <1>1 DEF Before, Direction
<1>4. u # v => u.type # v.type \/ u.node # v.node \/ u.copy # v.copy
  BY DEF Unit
<1>5. u # v => Before(u, v) \/ Before(v, u)
  BY <1>1, <1>4 DEF Before, Direction
<1>6. QED
  BY <1>2, <1>3, <1>5

(* A set of units laid out in order: the table has one slot per unit, each *)
(* slot holds one of them, every unit has a slot, and a slot comes before  *)
(* those after it.                                                         *)
THEOREM InOrderEnumerates ==
    ASSUME NEW S \in SUBSET Unit
    PROVE  /\ IsFiniteSet(S)
           /\ InOrder(S) \in Seq(S)
           /\ Len(InOrder(S)) = Cardinality(S)
           /\ \A u \in S : \E i \in 1..Cardinality(S) : InOrder(S)[i] = u
           /\ \A i, j \in 1..Cardinality(S) :
                 i < j => Before(InOrder(S)[i], InOrder(S)[j])
<1> DEFINE n == Cardinality(S)
           pred(u) == {v \in S : Before(v, u)}
           rank == [u \in S |-> Cardinality(pred(u))]
<1>1. IsFiniteSet(S) /\ n \in Nat
  BY UnitFinite, FS_Subset, FS_CardinalityType
<1>2. ASSUME NEW u \in S
      PROVE  IsFiniteSet(pred(u)) /\ Cardinality(pred(u)) \in 0..(n - 1)
  <2>1. pred(u) \in SUBSET S /\ u \notin pred(u)
    BY BeforeOrders
  <2>2. IsFiniteSet(pred(u)) /\ Cardinality(pred(u)) <= n
    BY <1>1, <2>1, FS_Subset
  <2>3. Cardinality(pred(u)) # n
    BY <1>1, <2>1, FS_Subset
  <2>4. Cardinality(pred(u)) \in Nat
    BY <2>2, FS_CardinalityType
  <2>5. QED
    BY <1>1, <2>2, <2>3, <2>4
<1>3. ASSUME NEW u \in S, NEW v \in S, Before(u, v)
      PROVE  Cardinality(pred(u)) # Cardinality(pred(v))
  <2>1. pred(u) \in SUBSET pred(v)
    BY <1>3, BeforeOrders
  <2>2. u \in pred(v) /\ u \notin pred(u)
    BY <1>3, BeforeOrders
  <2>3. QED
    BY <1>2, <2>1, <2>2, FS_Subset
<1>4. rank \in Injection(S, 0..(n - 1))
  <2>1. rank \in [S -> 0..(n - 1)]
    BY <1>2
  <2>2. ASSUME NEW u \in S, NEW v \in S, rank[u] = rank[v]
        PROVE  u = v
    BY <1>3, <2>2, BeforeOrders
  <2>3. QED
    BY <2>1, <2>2 DEF Injection, IsInjective
<1>5. rank \in Surjection(S, 0..(n - 1))
  <2>1. IsFiniteSet(0..(n - 1)) /\ Cardinality(0..(n - 1)) = n
    <3>1. 0 \in Int /\ n - 1 \in Int
          /\ (IF 0 > n - 1 THEN 0 ELSE (n - 1) - 0 + 1) = n
      BY <1>1
    <3>2. QED
      BY <3>1, FS_Interval, Zenon
  <2>2. QED
    BY <1>4, <2>1, FS_Injection
<1>6. ASSUME NEW i \in 1..n
      PROVE  /\ InOrder(S)[i] \in S
             /\ Cardinality(pred(InOrder(S)[i])) = i - 1
  <2>1. i - 1 \in 0..(n - 1)
    BY <1>1
  <2>2. PICK u \in S : rank[u] = i - 1
    BY <1>5, <2>1 DEF Surjection
  <2>3. Cardinality(pred(u)) = i - 1
    BY <2>2
  <2>4. InOrder(S)[i] = CHOOSE x \in S : Cardinality(pred(x)) = i - 1
    BY DEF InOrder
  <2>5. QED
    BY <2>3, <2>4
<1>7. InOrder(S) \in [1..n -> S]
  <2> DEFINE slot(i) == CHOOSE x \in S : Cardinality(pred(x)) = i - 1
  <2>1. InOrder(S) = [i \in 1..n |-> slot(i)]
    BY DEF InOrder
  <2>2. ASSUME NEW i \in 1..n
        PROVE  slot(i) \in S
    <3>1. InOrder(S)[i] = slot(i)
      BY <2>1
    <3>2. QED
      BY <1>6, <3>1
  <2> HIDE DEF slot
  <2>3. QED
    BY <2>1, <2>2
<1>8. ASSUME NEW u \in S
      PROVE  \E i \in 1..n : InOrder(S)[i] = u
  <2>1. PICK k : k = Cardinality(pred(u))
    OBVIOUS
  <2>2. k \in 0..(n - 1)
    BY <1>2, <2>1
  <2>3. k + 1 \in 1..n /\ (k + 1) - 1 = k
    BY <1>1, <2>2
  <2>4. InOrder(S)[k + 1] \in S
        /\ Cardinality(pred(InOrder(S)[k + 1])) = (k + 1) - 1
    BY <1>6, <2>3
  <2>5. InOrder(S)[k + 1] \in S /\ rank[InOrder(S)[k + 1]] = rank[u]
    BY <2>1, <2>3, <2>4
  <2>6. InOrder(S)[k + 1] = u
    BY <1>4, <2>5 DEF Injection, IsInjective
  <2>7. QED
    BY <2>3, <2>6
<1>9. ASSUME NEW i \in 1..n, NEW j \in 1..n, i < j
      PROVE  Before(InOrder(S)[i], InOrder(S)[j])
  <2>1. PICK u \in S : u = InOrder(S)[i]
    BY <1>6
  <2>2. PICK v \in S : v = InOrder(S)[j]
    BY <1>6
  <2>3. Cardinality(pred(u)) = i - 1 /\ Cardinality(pred(v)) = j - 1
    BY <1>6, <2>1, <2>2
  <2>4. Cardinality(pred(u)) < Cardinality(pred(v))
    BY <1>1, <1>9, <2>3
  <2>5. ~ Before(v, u)
    <3>1. SUFFICES ASSUME Before(v, u) PROVE FALSE
      OBVIOUS
    <3>2. pred(v) \in SUBSET pred(u)
      BY <3>1, BeforeOrders
    <3>3. Cardinality(pred(v)) <= Cardinality(pred(u))
      BY <1>2, <3>2, FS_Subset
    <3>4. QED
      BY <1>2, <2>4, <3>3
  <2>6. u # v
    BY <1>2, <2>4
  <2>7. Before(u, v)
    BY <2>5, <2>6, BeforeOrders
  <2>8. QED
    BY <2>1, <2>2, <2>7
<1>10. QED
  BY <1>1, <1>7, <1>8, <1>9

(* The capacity of a frame: when all the associated devices have answered  *)
(* the beacon, so that the quota is computed from their number n, and each *)
(* can have three slots of max_slots, the table fits in max_slots.         *)
THEOREM TableFits ==
    ASSUME NEW infos, NEW n \in Nat \ {0},
           Cardinality(Associated(infos)) <= n, 3 * n <= MaxSlots
    PROVE  Cardinality(Units(infos, n)) <= MaxSlots
<1> DEFINE A == Associated(infos)
           q == (MaxSlots - 2 * n) \div n
           place(u) == IF u.type = "Downlink" THEN u.copy ELSE q + u.copy
           f == [u \in Units(infos, n) |-> <<u.node, place(u)>>]
<1>1. q \in Int /\ q >= 1 /\ n * q <= MaxSlots - 2 * n
  <2>1. MaxSlots - 2 * n \in Int /\ n * 1 <= MaxSlots - 2 * n
    BY SlotsAssumption
  <2>2. QED
    BY <2>1, DivisionBounds
<1>2. DownlinkQuota(n) <= q /\ DownlinkQuota(n) \in Nat
  <2>1. 2 * n <= MaxSlots
    BY SlotsAssumption
  <2>2. DownlinkQuota(n) = q % 256
    BY <2>1 DEF DownlinkQuota
  <2>3. QED
    BY <1>1, <2>2
<1> HIDE DEF q
<1>3. ASSUME NEW u \in Units(infos, n)
      PROVE  /\ u.node \in A /\ u.type \in Direction /\ u.copy \in Int
             /\ u.copy >= 1
             /\ u.type = "Downlink" => u.copy <= q
             /\ u.type # "Downlink" => u.copy <= 2
  <2>1. PICK dir \in Direction, d \in A : u \in Granted(infos, n, dir, d)
    BY UnitsGranted
  <2>2. /\ u.node = d /\ u.type = dir
        /\ u.copy \in 1..SlotCount(dir, infos[d], n)
    BY <2>1 DEF Granted
  <2>3. SlotCount(dir, infos[d], n) \in Int
    BY SlotCountType
  <2>4. dir = "Downlink" => SlotCount(dir, infos[d], n) <= q
    BY <1>1, <1>2 DEF SlotCount
  <2>5. dir # "Downlink" => SlotCount(dir, infos[d], n) <= 2
    BY DEF SlotCount
  <2>6. QED
    BY <1>1, <2>2, <2>3, <2>4, <2>5
<1>4. f \in [Units(infos, n) -> A \X (1..(q + 2))]
  <2>1. ASSUME NEW u \in Units(infos, n)
        PROVE  u.node \in A /\ place(u) \in 1..(q + 2)
    BY <1>1, <1>3
  <2>2. QED
    BY <2>1
<1>5. ASSUME NEW u \in Units(infos, n), NEW v \in Units(infos, n), f[u] = f[v]
      PROVE  u = v
  <2>1. u.node = v.node /\ place(u) = place(v)
    BY <1>5
  <2>2. u.type = v.type /\ u.copy = v.copy
    BY <1>1, <1>3, <2>1 DEF Direction
  <2>3. u \in Unit /\ v \in Unit
    BY UnitsType
  <2>4. QED
    BY <2>1, <2>2, <2>3 DEF Unit
<1>6. f \in Injection(Units(infos, n), A \X (1..(q + 2)))
  BY <1>4, <1>5 DEF Injection, IsInjective
<1>7. IsFiniteSet(A) /\ Cardinality(A) \in Nat
  BY DevAssumption, FS_Subset, FS_CardinalityType DEF Associated
<1>8. IsFiniteSet(1..(q + 2)) /\ Cardinality(1..(q + 2)) = q + 2
  <2>1. 1 \in Int /\ q + 2 \in Int /\ ~(1 > q + 2) /\ (q + 2) - 1 + 1 = q + 2
    BY <1>1
  <2>2. QED
    BY <2>1, FS_Interval
<1>9. /\ IsFiniteSet(A \X (1..(q + 2)))
      /\ Cardinality(A \X (1..(q + 2))) = Cardinality(A) * (q + 2)
  BY <1>7, <1>8, FS_Product
<1>10. Cardinality(Units(infos, n)) <= Cardinality(A) * (q + 2)
  BY <1>6, <1>9, FS_Injection
<1>11. Cardinality(A) * (q + 2) <= n * (q + 2)
  BY <1>1, <1>7
<1>12. n * (q + 2) <= MaxSlots
  BY <1>1, SlotsAssumption
<1>13. Cardinality(Units(infos, n)) \in Nat
  BY UnitsType, FS_CardinalityType
<1>14. QED
  BY <1>1, <1>7, <1>10, <1>11, <1>12, <1>13, SlotsAssumption
-----------------------------------------------------------------------------
(* The frame that a table describes.                                       *)

(* The downlink slots come first, and the last of them is of the same      *)
(* device as the last uplink slot.                                         *)
Laid(tbl) ==
    \E last \in 1..(Len(tbl) - 1) :
        /\ \A i \in 1..Len(tbl) :
              tbl[i].type = IF i <= last THEN "Downlink" ELSE "Uplink"
        /\ tbl[last].node = tbl[Len(tbl)].node

(* The unit that the handler of slot i has as its argument: that of the    *)
(* slot before it, and the first one in the first slot.                    *)
ArgumentOf(tbl, i) == tbl[IF i = 1 THEN 1 ELSE i - 1]

(* The slots among the first k that start the MAC of device d.             *)
StartsOf(tbl, k, d) ==
    {i \in 1..k : tbl[i].type = "Uplink" /\ ArgumentOf(tbl, i).node = d}

(* What a unit of the table is.                                            *)
LEMMA GrantedUnit ==
    ASSUME NEW infos, NEW n \in Nat \ {0}, NEW u \in Units(infos, n)
    PROVE  /\ u.type \in Direction /\ u.node \in Associated(infos)
           /\ u.copy \in Nat
           /\ u.copy <= SlotCount(u.type, infos[u.node], n)
<1>1. PICK dir \in Direction, d \in Associated(infos) :
          u \in Granted(infos, n, dir, d)
  BY UnitsGranted
<1>2. SlotCount(dir, infos[d], n) \in 0..255
  BY SlotCountType
<1>3. /\ u.type = dir /\ u.node = d
      /\ u.copy \in 1..SlotCount(dir, infos[d], n)
  BY <1>1 DEF Granted
<1>4. QED
  BY <1>2, <1>3

(* The table of some associated devices, if each has a downlink slot.      *)
LEMMA TableIsLaid ==
    ASSUME NEW infos, NEW n \in Nat \ {0}, Associated(infos) # {},
           RoomForAll(InOrder(Units(infos, n)))
    PROVE  Laid(InOrder(Units(infos, n)))
<1> DEFINE units == Units(infos, n)
           tbl == InOrder(units)
           L == Cardinality(units)
<1>1. units \subseteq Unit
  BY UnitsType
<1>2. /\ IsFiniteSet(units)
      /\ tbl \in Seq(units)
      /\ Len(tbl) = L
      /\ \A u \in units : \E i \in 1..L : tbl[i] = u
      /\ \A i, j \in 1..L : i < j => Before(tbl[i], tbl[j])
  BY <1>1, InOrderEnumerates
<1>3. PICK d0 \in Associated(infos) : TRUE
  OBVIOUS
<1>4. PICK up \in units : up.type = "Uplink" /\ up.node = d0
  BY UnitsType
<1>5. L \in Nat /\ L # 0
  BY <1>2, <1>4, FS_CardinalityType, FS_EmptySet
<1>6. \A u \in units : /\ u.type \in Direction /\ u.node \in Associated(infos)
                       /\ u.node \in Nat /\ u.copy \in Nat
                       /\ u.copy <= SlotCount(u.type, infos[u.node], n)
  BY GrantedUnit, DevAssumption DEF Associated
<1>7. ASSUME NEW i \in 1..L
      PROVE  tbl[i] \in units
  BY <1>2
<1> HIDE DEF tbl, units, L
<1>8. L \in 1..L
  BY <1>5
<1>9. ASSUME NEW u \in units
      PROVE  u = tbl[L] \/ Before(u, tbl[L])
  <2>1. PICK i \in 1..L : tbl[i] = u
    BY <1>2
  <2>2. i = L \/ i < L
    BY <1>5
  <2>3. QED
    BY <1>2, <1>8, <2>1, <2>2
<1>10. tbl[L].type = "Uplink"
  BY <1>4, <1>9 DEF Before
<1> DEFINE m == tbl[L].node
<1>11. m \in Associated(infos) /\ m \in Nat
  BY <1>6, <1>7, <1>8
<1>12. ASSUME NEW d \in Associated(infos)
       PROVE  d <= m
  <2>1. PICK u \in units : u.type = "Uplink" /\ u.node = d
    BY UnitsType DEF units
  <2>2. u.node \in Nat
    BY <1>6, <2>1
  <2>3. QED
    BY <1>9, <1>10, <1>11, <2>1, <2>2 DEF Before
<1> DEFINE c == SlotCount("Downlink", infos[m], n)
           x == [type |-> "Downlink", node |-> m, copy |-> c]
<1>13. c \in Nat /\ c >= 1
  <2>1. c \in 0..255
    BY SlotCountType DEF Direction
  <2>2. DOMAIN tbl = 1..L
    BY <1>2
  <2>3. L - 1 \in SlotsOf(tbl, "Uplink", m)
    BY <1>8, <1>10, <2>2 DEF SlotsOf
  <2>4. SlotsOf(tbl, "Downlink", m) # {}
    <3>1. m \in Dev
      BY <1>11 DEF Associated
    <3>2. QED
      BY <2>3, <3>1 DEF RoomForAll, tbl, units
  <2>5. PICK i \in 1..L : tbl[i].type = "Downlink" /\ tbl[i].node = m
    BY <2>2, <2>4 DEF SlotsOf
  <2>6. PICK u \in units : u = tbl[i]
    BY <1>7
  <2>7. u.copy \in 1..c
    <3>1. PICK dir \in Direction, d \in Associated(infos) :
              u \in Granted(infos, n, dir, d)
      BY UnitsGranted DEF units
    <3>2. dir = "Downlink" /\ d = m
      BY <2>5, <2>6, <3>1 DEF Granted
    <3>3. QED
      BY <3>1, <3>2 DEF Granted
  <2>8. QED
    BY <2>1, <2>7
<1>14. x \in units
  <2>1. c \in 1..c
    BY <1>13
  <2>2. x \in Granted(infos, n, "Downlink", m)
    BY <2>1 DEF Granted
  <2>3. QED
    BY <1>11, <2>2, UnitsGranted DEF units, Direction
<1>15. PICK k \in 1..L : tbl[k] = x
  BY <1>2, <1>14
<1>16. k # L
  BY <1>10, <1>15
<1>17. k \in 1..(L - 1)
  BY <1>5, <1>15, <1>16
<1>18. ASSUME NEW i \in 1..L
       PROVE  tbl[i].type = IF i <= k THEN "Downlink" ELSE "Uplink"
  <2>1. CASE i <= k
    <3>1. tbl[i] = x \/ Before(tbl[i], x)
      BY <1>2, <1>5, <1>15, <2>1
    <3>2. QED
      BY <2>1, <3>1 DEF Before
  <2>2. CASE ~ (i <= k)
    <3>1. Before(x, tbl[i])
      BY <1>2, <1>5, <1>15, <2>2
    <3>2. PICK u \in units : u = tbl[i]
      BY <1>7
    <3>3. /\ u.type \in Direction /\ u.node \in Associated(infos)
          /\ u.node \in Nat /\ u.copy \in Nat
          /\ u.copy <= SlotCount(u.type, infos[u.node], n)
      BY <1>6
    <3>4. u.node <= m
      BY <1>12, <3>3
    <3>5. u.type # "Downlink"
      <4>1. SUFFICES ASSUME u.type = "Downlink" PROVE FALSE
        OBVIOUS
      <4>2. m < u.node \/ (m = u.node /\ c < u.copy)
        BY <3>1, <3>2, <4>1 DEF Before
      <4>3. m = u.node /\ c < u.copy
        BY <1>11, <3>3, <3>4, <4>2
      <4>4. u.copy <= c
        BY <3>3, <4>1, <4>3
      <4>5. QED
        BY <1>13, <3>3, <4>3, <4>4
    <3>6. QED
      BY <2>2, <3>2, <3>3, <3>5 DEF Direction
  <2>3. QED
    BY <2>1, <2>2
<1>19. tbl[k].node = tbl[L].node
  BY <1>15
<1>20. Laid(tbl)
  BY <1>2, <1>17, <1>18, <1>19 DEF Laid
<1>21. QED
  BY <1>20 DEF tbl, units

(* The shift of the arguments by one slot is a rotation of the uplink      *)
(* slots: the first of them starts the device of the last one.  So a whole *)
(* frame starts every device once for each of its uplink slots.            *)
THEOREM ShiftIsFair ==
    ASSUME NEW tbl \in Seq(Unit), Laid(tbl), NEW d
    PROVE  Cardinality(StartsOf(tbl, Len(tbl), d))
             = Cardinality(SlotsOf(tbl, "Uplink", d))
<1> DEFINE L == Len(tbl)
           Own == SlotsOf(tbl, "Uplink", d)
           Starts == StartsOf(tbl, L, d)
<1>1. L \in Nat /\ DOMAIN tbl = 1..L
  OBVIOUS
<1>2. PICK last \in 1..(L - 1) :
          /\ \A i \in 1..L :
                tbl[i].type = IF i <= last THEN "Downlink" ELSE "Uplink"
          /\ tbl[last].node = tbl[L].node
  BY DEF Laid
<1> DEFINE next(s) == IF s = L - 1 THEN last + 1 ELSE s + 2
           f == [s \in Own |-> next(s)]
<1> HIDE DEF L
<1>3. last \in Nat /\ 1 <= last /\ last < L
  BY <1>1, <1>2
<1>4. \A s : s \in Own <=> s \in last..(L - 1) /\ tbl[s + 1].node = d
  <2>1. ASSUME NEW s \in Own
        PROVE  s \in last..(L - 1) /\ tbl[s + 1].node = d
    <3>1. PICK i \in 1..L :
              s = i - 1 /\ tbl[i].type = "Uplink" /\ tbl[i].node = d
      BY <1>1 DEF SlotsOf
    <3>2. ~ (i <= last)
      BY <1>2, <3>1
    <3>3. s + 1 = i
      BY <3>1
    <3>4. QED
      BY <1>1, <1>3, <3>1, <3>2, <3>3
  <2>2. ASSUME NEW s \in last..(L - 1), tbl[s + 1].node = d
        PROVE  s \in Own
    <3>1. s + 1 \in 1..L /\ ~ (s + 1 <= last) /\ s = (s + 1) - 1
      BY <1>1, <1>3
    <3>2. tbl[s + 1].type = "Uplink"
      BY <1>2, <3>1
    <3>3. QED
      BY <1>1, <2>2, <3>1, <3>2 DEF SlotsOf
  <2>3. QED
    BY <2>1, <2>2
<1>5. \A i : i \in Starts <=> i \in (last + 1)..L /\ tbl[i - 1].node = d
  <2>1. \A i \in 1..L : tbl[i].type = "Uplink" <=> last < i
    BY <1>1, <1>2, <1>3
  <2>2. \A i \in (last + 1)..L : i \in 1..L /\ ArgumentOf(tbl, i) = tbl[i - 1]
    BY <1>1, <1>3 DEF ArgumentOf
  <2>3. QED
    BY <1>1, <1>3, <2>1, <2>2 DEF StartsOf
<1>6. ASSUME NEW s \in Own
      PROVE  next(s) \in Starts
  <2>1. s \in last..(L - 1) /\ tbl[s + 1].node = d
    BY <1>4
  <2>2. CASE s = L - 1
    <3>1. /\ next(s) = last + 1 /\ last + 1 \in (last + 1)..L
          /\ (last + 1) - 1 = last /\ s + 1 = L
      BY <1>1, <1>3, <2>2
    <3>2. tbl[(last + 1) - 1].node = d
      BY <1>2, <2>1, <3>1
    <3>3. QED
      BY <1>5, <3>1, <3>2
  <2>3. CASE s # L - 1
    <3>1. next(s) = s + 2 /\ s + 2 \in (last + 1)..L /\ (s + 2) - 1 = s + 1
      BY <1>1, <1>3, <2>1, <2>3
    <3>2. QED
      BY <1>5, <2>1, <3>1
  <2>4. QED
    BY <2>2, <2>3
<1>7. ASSUME NEW s \in Own, NEW t \in Own, next(s) = next(t)
      PROVE  s = t
  <2>1. s \in last..(L - 1) /\ t \in last..(L - 1)
    BY <1>4
  <2>2. QED
    BY <1>1, <1>3, <1>7, <2>1
<1>8. ASSUME NEW i \in Starts
      PROVE  \E s \in Own : next(s) = i
  <2>1. i \in (last + 1)..L /\ tbl[i - 1].node = d
    BY <1>5
  <2>2. CASE i = last + 1
    <3>1. L - 1 \in last..(L - 1) /\ (L - 1) + 1 = L /\ i - 1 = last
      BY <1>1, <1>3, <2>2
    <3>2. L - 1 \in Own
      BY <1>2, <1>4, <2>1, <3>1
    <3>3. next(L - 1) = i
      BY <2>2
    <3>4. QED
      BY <3>2, <3>3
  <2>3. CASE i # last + 1
    <3>1. /\ i - 2 \in last..(L - 1) /\ (i - 2) + 1 = i - 1
          /\ i - 2 # L - 1 /\ (i - 2) + 2 = i
      BY <1>1, <1>3, <2>1, <2>3
    <3>2. i - 2 \in Own
      BY <1>4, <2>1, <3>1
    <3>3. QED
      BY <3>1, <3>2
  <2>4. QED
    BY <2>2, <2>3
<1>9. IsFiniteSet(Starts)
  <2>1. Starts \subseteq 1..L
    BY DEF StartsOf
  <2>2. IsFiniteSet(1..L)
    BY <1>1, FS_Interval
  <2>3. QED
    BY <2>1, <2>2, FS_Subset
<1> HIDE DEF Own, Starts, next
<1>10. f \in Injection(Own, Starts)
  BY <1>6, <1>7 DEF Injection, IsInjective
<1>11. f \in Surjection(Own, Starts)
  BY <1>6, <1>8 DEF Surjection
<1>12. Cardinality(Own) = Cardinality(Starts)
  BY <1>9, <1>10, <1>11, FS_Injection
<1>13. QED
  BY <1>12 DEF Own, Starts, L

-----------------------------------------------------------------------------
(* The access point.                                                       *)

IInv ==
    /\ TypeOK
    /\ SingleChain
    /\ RosterCounted
    /\ EventsPrepared
    /\ TableInBounds

(* The size of the vector is a number, and not 0 if some device occurs.    *)
LEMMA VectorSizeType ==
    ASSUME m_slotPtrs_vector \in [Dev -> Nat]
    PROVE  /\ VectorSize \in Nat
           /\ VectorSize > 0 => \E d \in Dev : m_slotPtrs_vector[d] > 0
<1> DEFINE Occ(d) == {d} \X (1..m_slotPtrs_vector[d])
           All == {Occ(d) : d \in Dev}
<1>1. ASSUME NEW d \in Dev
      PROVE  IsFiniteSet(Occ(d))
  <2>1. IsFiniteSet({d})
    BY FS_Singleton
  <2>2. m_slotPtrs_vector[d] \in Int /\ 1 \in Int
    OBVIOUS
  <2>3. IsFiniteSet(1..m_slotPtrs_vector[d])
    BY <2>2, FS_Interval
  <2>4. QED
    BY <2>1, <2>3, FS_Product
<1>2. IsFiniteSet(All)
  <2> DEFINE f == [d \in Dev |-> Occ(d)]
  <2>1. f \in Surjection(Dev, All)
    BY DEF Surjection
  <2>2. QED
    BY <2>1, FS_Surjection, DevAssumption
<1>3. IsFiniteSet(UNION All)
  BY <1>1, <1>2, FS_UNION
<1>4. VectorSize = Cardinality(UNION All)
  BY DEF VectorSize
<1>5. VectorSize \in Nat
  BY <1>3, <1>4, FS_CardinalityType
<1>6. ASSUME VectorSize > 0
      PROVE  \E d \in Dev : m_slotPtrs_vector[d] > 0
  <2>1. UNION All # {}
    BY <1>4, <1>6, FS_EmptySet
  <2>2. PICK d \in Dev : Occ(d) # {}
    BY <2>1
  <2>3. m_slotPtrs_vector[d] > 0
    BY <2>2
  <2>4. QED
    BY <2>3
<1>7. QED
  BY <1>5, <1>6

(* A timed event runs alone: afterwards exactly what it scheduled is       *)
(* pending.                                                                *)
LEMMA TimedRun ==
    ASSUME TypeOK, SingleChain, NEW e \in Timed, NEW S, Run(e, S)
    PROVE  /\ pending[e] = 1
           /\ \A x \in Event \ {e} : pending[x] = 0
           /\ pending' = [x \in Event |-> One(x \in S)]
<1>1. pending[e] = 1 /\ \A x \in Timed \ {e} : pending[x] = 0
  <2>1. pending[e] > 0
    BY DEF Run
  <2>2. PICK c \in Timed :
            pending[c] = 1 /\ \A x \in Timed \ {c} : pending[x] = 0
    BY <2>1 DEF SingleChain, Silenced
  <2>3. c = e
    BY <2>1, <2>2
  <2>4. QED
    BY <2>2, <2>3
<1>2. \A x \in Event \ {e} : pending[x] = 0
  BY <1>1 DEF Run, Event
<1>3. \A x \in Event : pending[x] - One(x = e) + One(x \in S) = One(x \in S)
  BY <1>1, <1>2 DEF One
<1>4. QED
  BY <1>1, <1>2, <1>3 DEF Run

(* An urgent event that schedules nothing only removes itself.             *)
LEMMA UrgentRun ==
    ASSUME TypeOK, NEW e \in Urgent, Run(e, {})
    PROVE  /\ pending' \in [Event -> Nat]
           /\ pending[e] > 0 /\ pending'[e] = pending[e] - 1
           /\ \A x \in Event \ {e} : pending'[x] = pending[x]
  BY DEF Run, One, TypeOK, Event

(* What the books hold and what nobody has heard, primed, from unchanged   *)
(* variables.                                                              *)
LEMMA RosterKept ==
    ASSUME RosterCounted, UNCHANGED <<roster, m_slotInfosMaps>>
    PROVE  RosterCounted'
  BY DEF RosterCounted, Entries, roster

LEMMA NobodyKept ==
    ASSUME NobodyHeard, UNCHANGED <<associations, table>>
    PROVE  NobodyHeard'
  BY DEF NobodyHeard, table

(* A step that leaves the pending timed events and the table alone.        *)
LEMMA ChainKept ==
    ASSUME SingleChain, UNCHANGED table,
           \A x \in Timed : pending'[x] = pending[x],
           \A d \in Dev : associations[d] > 0 => associations'[d] > 0
    PROVE  SingleChain'
<1>1. CASE Silenced /\ NobodyHeard
  <2>1. Silenced'
    BY <1>1 DEF Silenced
  <2>2. NobodyHeard'
    BY <1>1 DEF NobodyHeard, table
  <2>3. QED
    BY <2>1, <2>2 DEF SingleChain
<1>2. CASE \E c \in Timed :
             pending[c] = 1 /\ \A x \in Timed \ {c} : pending[x] = 0
  <2>1. PICK c \in Timed :
            pending[c] = 1 /\ \A x \in Timed \ {c} : pending[x] = 0
    BY <1>2
  <2>2. pending'[c] = 1 /\ \A x \in Timed \ {c} : pending'[x] = 0
    BY <2>1
  <2>3. QED
    BY <2>2 DEF SingleChain
<1>3. QED
  BY <1>1, <1>2 DEF SingleChain

(* Scheduling one timed event keeps the chain single.                      *)
LEMMA ChainStep ==
    ASSUME NEW c \in Timed, NEW S, S \cap Timed = {c},
           pending' = [x \in Event |-> One(x \in S)]
    PROVE  /\ pending' \in [Event -> Nat]
           /\ \A x \in Event : pending'[x] = One(x \in S)
           /\ SingleChain'
  BY DEF One, SingleChain, Event

-----------------------------------------------------------------------------
(* Each step keeps the invariant.                                          *)

LEMMA InitInv == Init => IInv
<1> SUFFICES ASSUME Init PROVE IInv
  OBVIOUS
<1>1. pending \in [Event -> Nat]
  BY DEF Init, One
<1>2. TypeOK
  <2>1. associations \in [Dev -> 0..MaxAssociations]
    BY AssociationsAssumption DEF Init
  <2>2. QED
    BY <1>1, <2>1, SuperFrameAssumption DEF Init, TypeOK, NoTag
<1>3. SingleChain
  BY DEF Init, SingleChain, One, Event, Timed
<1>4. RosterCounted
  BY DEF Init, RosterCounted, Entries, One
<1>5. EventsPrepared /\ TableInBounds
  <2>1. Len(transmissionsVector) = 0
    BY DEF Init
  <2>2. pending = [x \in Event |-> One(x = "StartSuperSessions")]
    BY DEF Init
  <2>3. /\ pending["SendOneBeacon"] = 0
        /\ pending["DistributeSlots"] = 0
        /\ pending["SendSlotControlPackets"] = 0
        /\ pending["TransmitDataFrame"] = 0
        /\ pending["StartFrameTransmission"] = 0
    BY <2>2 DEF One, Event, Timed, Urgent
  <2>4. QED
    BY <2>1, <2>3 DEF Init, EventsPrepared, TableInBounds
<1>6. QED
  BY <1>2, <1>3, <1>4, <1>5 DEF IInv

LEMMA StartSuperSessionsInv ==
    ASSUME IInv, StartSuperSessions
    PROVE  IInv'
<1> DEFINE S == {"TransmitControlFrames"}
<1>1. pending' = [x \in Event |-> One(x \in S)]
  BY TimedRun DEF IInv, StartSuperSessions, Timed
<1>2. /\ pending' \in [Event -> Nat]
      /\ \A x \in Event : pending'[x] = One(x \in S)
      /\ SingleChain'
  BY <1>1, ChainStep DEF Timed
<1>3. pending["TransmitDataFrame"] = 0
  BY TimedRun DEF IInv, StartSuperSessions, Event, Timed
<1>4. TypeOK'
  BY <1>2, SuperFrameAssumption
  DEF IInv, TypeOK, StartSuperSessions, roster, table
<1>5. RosterCounted'
  BY RosterKept DEF IInv, StartSuperSessions, table
<1>6. EventsPrepared' /\ TableInBounds'
  BY <1>2, <1>3
  DEF IInv, EventsPrepared, TableInBounds, StartSuperSessions, roster,
      table, One, Event, Timed, Urgent
<1>7. QED
  BY <1>2, <1>4, <1>5, <1>6 DEF IInv

LEMMA TransmitControlFramesInv ==
    ASSUME IInv, TransmitControlFrames
    PROVE  IInv'
<1> DEFINE S == {"SendOneBeacon", "DistributeSlots"}
<1>1. pending' = [x \in Event |-> One(x \in S)]
  BY TimedRun DEF IInv, TransmitControlFrames, Timed
<1>2. S \cap Timed = {"DistributeSlots"}
  BY DEF Timed
<1>3. /\ pending' \in [Event -> Nat]
      /\ \A x \in Event : pending'[x] = One(x \in S)
      /\ SingleChain'
  BY <1>1, <1>2, ChainStep DEF Timed
<1>4. pending["TransmitDataFrame"] = 0
  BY TimedRun DEF IInv, TransmitControlFrames, Event, Timed
<1>5. TypeOK'
  BY <1>3 DEF IInv, TypeOK, TransmitControlFrames, roster, table, frame
<1>6. RosterCounted'
  BY RosterKept DEF IInv, TransmitControlFrames, table
<1>7. EventsPrepared' /\ TableInBounds'
  BY <1>3, <1>4
  DEF IInv, EventsPrepared, TableInBounds, TransmitControlFrames, roster,
      table, frame, One, Event, Timed, Urgent
<1>8. QED
  BY <1>3, <1>5, <1>6, <1>7 DEF IInv

LEMMA SendOneBeaconInv ==
    ASSUME IInv, SendOneBeacon
    PROVE  IInv'
<1>1. /\ pending' \in [Event -> Nat]
      /\ pending["SendOneBeacon"] > 0
      /\ pending'["SendOneBeacon"] = pending["SendOneBeacon"] - 1
      /\ \A x \in Event \ {"SendOneBeacon"} : pending'[x] = pending[x]
  BY UrgentRun DEF IInv, SendOneBeacon, Urgent
<1>2. SingleChain'
  <2>1. \A x \in Timed : pending'[x] = pending[x]
    BY <1>1 DEF Timed, Event
  <2>2. QED
    BY <2>1, ChainKept DEF IInv, SendOneBeacon
<1>3. TypeOK'
  <2>1. m_slotPtrs_vector' \in [Dev -> Nat] /\ m_lastepoch' \in [Dev -> Nat]
    BY DEF IInv, TypeOK, SendOneBeacon
  <2>2. /\ m_slotPtrs' \in [Dev -> Services \cup {NoInfo}]
        /\ associations' \in [Dev -> 0..MaxAssociations]
        /\ m_enableBeaconGeneration' \in BOOLEAN
        /\ report' \in [Dev -> [snr : Nat, zero : Nat]]
    BY DEF IInv, TypeOK, SendOneBeacon
  <2>3. UNCHANGED <<table, frame>>
    BY DEF SendOneBeacon
  <2>4. QED
    BY <1>1, <2>1, <2>2, <2>3 DEF IInv, TypeOK, table, frame
<1>4. RosterCounted'
  BY DEF IInv, TypeOK, RosterCounted, Entries, SendOneBeacon, table
<1>5. EventsPrepared'
  <2>1. pending'["SendOneBeacon"] <= pending'["DistributeSlots"]
    BY <1>1 DEF IInv, TypeOK, EventsPrepared, Event, Timed, Urgent
  <2>2. NobodyHeard => NobodyHeard'
    BY NobodyKept DEF SendOneBeacon
  <2>3. QED
    BY <1>1, <2>1, <2>2
    DEF IInv, EventsPrepared, SendOneBeacon, table, frame, Event, Timed
<1>6. TableInBounds'
  BY <1>1 DEF IInv, TableInBounds, SendOneBeacon, table, frame, Event, Timed
<1>7. QED
  BY <1>2, <1>3, <1>4, <1>5, <1>6 DEF IInv

LEMMA DistributeNothingInv ==
    ASSUME IInv, DistributeNothing
    PROVE  IInv'
<1> DEFINE S == {"StartSuperSessions", "SendRecord"}
<1>1. pending' = [x \in Event |-> One(x \in S)]
  BY TimedRun DEF IInv, DistributeNothing, Timed
<1>2. S \cap Timed = {"StartSuperSessions"}
  BY DEF Timed
<1>3. /\ pending' \in [Event -> Nat]
      /\ \A x \in Event : pending'[x] = One(x \in S)
      /\ SingleChain'
  BY <1>1, <1>2, ChainStep DEF Timed
<1>4. pending["TransmitDataFrame"] = 0
  BY TimedRun DEF IInv, DistributeNothing, Event, Timed
<1>5. TypeOK'
  BY <1>3 DEF IInv, TypeOK, DistributeNothing, roster, table, frame
<1>6. RosterCounted'
  BY RosterKept DEF IInv, DistributeNothing, table
<1>7. EventsPrepared' /\ TableInBounds'
  BY <1>3, <1>4
  DEF IInv, EventsPrepared, TableInBounds, DistributeNothing, roster,
      table, frame, One, Event, Timed, Urgent
<1>8. QED
  BY <1>3, <1>5, <1>6, <1>7 DEF IInv

LEMMA SlotsOfType ==
    ASSUME NEW tbl \in Seq(Unit), NEW dir, NEW d
    PROVE  SlotsOf(tbl, dir, d) \subseteq Nat
  BY DEF SlotsOf

(* The table has a slot as soon as a station has answered; one that has    *)
(* none is built for stations that only the helper has listed.             *)
LEMMA NewTable ==
    ASSUME IInv, DistributeTable
    PROVE  /\ transmissionsVector' \in Seq(Unit)
           /\ m_totalSlotsAllowed' = Len(transmissionsVector')
           /\ m_totalSlotsAllowed' \in Nat
           /\ transmissionsVector' = <<>> =>
                 /\ Associated(m_slotPtrs) = {}
                 /\ \E d \in Dev : associations[d] > 0
<1> DEFINE units == Units(m_slotPtrs, VectorSize)
<1>1. VectorSize \in Nat \ {0}
  BY VectorSizeType DEF IInv, TypeOK, DistributeTable
<1>2. units \subseteq Unit /\ IsFiniteSet(units)
  BY <1>1, UnitsType
<1>3. /\ InOrder(units) \in Seq(units)
      /\ Len(InOrder(units)) = Cardinality(units)
  BY <1>2, InOrderEnumerates
<1>4. /\ transmissionsVector' = InOrder(units)
      /\ m_totalSlotsAllowed' = Cardinality(units)
  BY DEF DistributeTable
<1>5. ASSUME NEW d \in Associated(m_slotPtrs)
      PROVE  transmissionsVector' # <<>>
  <2>1. PICK u \in units : u.type = "Uplink"
    BY <1>1, UnitsType
  <2>2. Cardinality(units) # 0
    BY <1>2, <2>1, FS_EmptySet
  <2>3. QED
    BY <1>3, <1>4, <2>2
<1>6. ASSUME Associated(m_slotPtrs) = {}
      PROVE  \E d \in Dev : associations[d] > 0
  <2>1. PICK d \in Dev : m_slotPtrs_vector[d] > 0
    BY <1>1, VectorSizeType DEF IInv, TypeOK
  <2>2. m_slotPtrs[d] = NoInfo
    BY <1>6 DEF Associated
  <2>3. associations[d] > 0
    BY <2>1, <2>2 DEF IInv, TypeOK, RosterCounted, Entries, One
  <2>4. QED
    BY <2>3
<1>7. InOrder(units) \in Seq(Unit)
  <2> HIDE DEF units
  <2>1. \A i \in 1..Len(InOrder(units)) : InOrder(units)[i] \in Unit
    BY <1>2, <1>3
  <2>2. QED
    BY <1>3, <2>1
<1>8. Cardinality(units) \in Nat
  BY <1>2, FS_CardinalityType
<1>9. QED
  BY <1>3, <1>4, <1>5, <1>6, <1>7, <1>8

LEMMA DistributeTableInv ==
    ASSUME IInv, DistributeTable
    PROVE  IInv'
<1> DEFINE S == {"SendSlotControlPackets", "SendRecord"}
<1>1. pending' = [x \in Event |-> One(x \in S)]
  BY TimedRun DEF IInv, DistributeTable, Timed
<1>2. S \cap Timed = {"SendSlotControlPackets"}
  BY DEF Timed
<1>3. /\ pending' \in [Event -> Nat]
      /\ \A x \in Event : pending'[x] = One(x \in S)
      /\ SingleChain'
  BY <1>1, <1>2, ChainStep DEF Timed
<1>4. pending["TransmitDataFrame"] = 0
  BY TimedRun DEF IInv, DistributeTable, Event, Timed
<1>5. m_current_slot = 0
  BY <1>4 DEF IInv, TableInBounds
<1>6. m_slotInfosMaps' \in [Dev -> [down : SUBSET Nat, up : SUBSET Nat]]
  <2>1. \A d \in Dev, dir \in Direction :
           SlotsOf(transmissionsVector', dir, d) \subseteq Nat
    BY NewTable, SlotsOfType
  <2>2. \A d \in Dev :
           NewTag(transmissionsVector', d)
             \in [down : SUBSET Nat, up : SUBSET Nat]
    BY <2>1 DEF NewTag, IInv, TypeOK, Direction
  <2>3. QED
    BY <2>2 DEF DistributeTable, IInv, TypeOK
<1>7. TypeOK'
  BY <1>3, <1>5, <1>6, NewTable
  DEF IInv, TypeOK, DistributeTable, roster, frame
<1>8. RosterCounted'
  BY DEF IInv, RosterCounted, Entries, DistributeTable, roster, Associated
<1>9. transmissionsVector' # <<>> \/ NobodyHeard'
  <2>1. SUFFICES ASSUME transmissionsVector' = <<>>
                 PROVE  NobodyHeard'
    OBVIOUS
  <2>2. /\ Associated(m_slotPtrs) = {}
        /\ \E d \in Dev : associations[d] > 0
    BY <2>1, NewTable
  <2>3. ASSUME NEW d \in Dev
        PROVE  m_slotInfosMaps'[d] = NoTag
    <3>1. m_slotPtrs[d] = NoInfo
      BY <2>2 DEF Associated
    <3>2. m_slotInfosMaps'[d] = m_slotInfosMaps[d]
      BY <2>2 DEF DistributeTable
    <3>3. QED
      BY <3>1, <3>2 DEF IInv, RosterCounted
  <2>4. \E d \in Dev : associations'[d] > 0
    BY <2>2 DEF DistributeTable, roster
  <2>5. QED
    BY <2>1, <2>3, <2>4 DEF NobodyHeard
<1>10. EventsPrepared' /\ TableInBounds'
  BY <1>3, <1>5, <1>9, NewTable
  DEF IInv, EventsPrepared, TableInBounds, DistributeTable, frame, One, Event,
      Timed, Urgent
<1>11. QED
  BY <1>3, <1>7, <1>8, <1>10 DEF IInv

LEMMA SendRecordInv ==
    ASSUME IInv, SendRecordToCentralizedControllers
    PROVE  IInv'
<1>1. /\ pending' \in [Event -> Nat]
      /\ \A x \in Event \ {"SendRecord"} : pending'[x] = pending[x]
  BY UrgentRun DEF IInv, SendRecordToCentralizedControllers, Urgent
<1>2. SingleChain'
  <2>1. \A x \in Timed : pending'[x] = pending[x]
    BY <1>1 DEF Timed, Event
  <2>2. QED
    BY <2>1, ChainKept DEF IInv, SendRecordToCentralizedControllers, roster
<1>3. TypeOK'
  BY <1>1
  DEF IInv, TypeOK, SendRecordToCentralizedControllers, roster, table, frame
<1>4. RosterCounted'
  BY RosterKept DEF IInv, SendRecordToCentralizedControllers, table
<1>5. EventsPrepared' /\ TableInBounds'
  BY <1>1
  DEF IInv, EventsPrepared, NobodyHeard, TableInBounds, Event, Timed, Urgent,
      SendRecordToCentralizedControllers, roster, table, frame
<1>6. QED
  BY <1>2, <1>3, <1>4, <1>5 DEF IInv

(* The branch of the empty table: the access point falls silent.           *)
LEMMA SendSlotControlPacketsEmpty ==
    ASSUME IInv, SendSlotControlPackets, transmissionsVector = <<>>
    PROVE  IInv'
<1>1. /\ Run("SendSlotControlPackets", {})
      /\ userDevice' = userDevice
  BY DEF SendSlotControlPackets
<1>2. /\ pending["SendSlotControlPackets"] = 1
      /\ \A x \in Event \ {"SendSlotControlPackets"} : pending[x] = 0
      /\ pending' = [x \in Event |-> One(x \in {})]
  BY <1>1, TimedRun DEF IInv, Timed
<1>3. pending' \in [Event -> Nat] /\ \A x \in Event : pending'[x] = 0
  BY <1>2 DEF One
<1>4. NobodyHeard
  BY <1>2 DEF IInv, EventsPrepared
<1>5. NobodyHeard'
  BY <1>4, NobodyKept DEF SendSlotControlPackets, roster
<1>6. SingleChain'
  BY <1>3, <1>5 DEF SingleChain, Silenced, Event
<1>7. TypeOK'
  BY <1>1, <1>3 DEF IInv, TypeOK, SendSlotControlPackets, roster, table
<1>8. RosterCounted'
  BY RosterKept DEF IInv, SendSlotControlPackets, table
<1>9. EventsPrepared' /\ TableInBounds'
  BY <1>2, <1>3
  DEF IInv, EventsPrepared, TableInBounds, SendSlotControlPackets, table,
      Event, Timed, Urgent
<1>10. QED
  BY <1>6, <1>7, <1>8, <1>9 DEF IInv

LEMMA SendSlotControlPacketsInv ==
    ASSUME IInv, SendSlotControlPackets, transmissionsVector # <<>>
    PROVE  IInv'
<1> DEFINE S == {"TransmitDataFrame"}
<1>1. /\ Run("SendSlotControlPackets", S)
      /\ userDevice' = transmissionsVector[1]
  BY DEF SendSlotControlPackets
<1>2. pending' = [x \in Event |-> One(x \in S)]
  BY <1>1, TimedRun DEF IInv, Timed
<1>3. /\ pending' \in [Event -> Nat]
      /\ \A x \in Event : pending'[x] = One(x \in S)
      /\ SingleChain'
  BY <1>2, ChainStep DEF Timed
<1>4. pending["TransmitDataFrame"] = 0
  BY <1>1, TimedRun DEF IInv, Event, Timed
<1>5. userDevice' \in Unit
  BY <1>1 DEF IInv, TypeOK
<1>6. userDevice' # <<>>
  BY <1>5 DEF Unit
<1>7. TypeOK'
  BY <1>3, <1>5 DEF IInv, TypeOK, SendSlotControlPackets, roster, table
<1>8. RosterCounted'
  BY RosterKept DEF IInv, SendSlotControlPackets, table
<1>9. EventsPrepared' /\ TableInBounds'
  BY <1>3, <1>4, <1>6
  DEF IInv, EventsPrepared, TableInBounds, SendSlotControlPackets, roster,
      table, One, Event, Timed, Urgent
<1>10. QED
  BY <1>3, <1>7, <1>8, <1>9 DEF IInv

(* TransmitDataFrame and StartFrameTransmission share their body.          *)
LEMMA DataSlotInv ==
    ASSUME IInv, NEW e \in {"TransmitDataFrame", "StartFrameTransmission"},
           NEW arg \in Unit, NEW fn \in 0..SuperFrame,
           NEW g \in [Dev -> Nat], DataSlot(e, arg, fn, g)
    PROVE  IInv'
<1>1. e \in Timed
  BY DEF Timed
<1>2. RosterCounted'
  BY RosterKept DEF IInv, DataSlot, table
<1>3. transmissionsVector # <<>>
  <2>1. pending[e] > 0
    BY DEF DataSlot, SuperFrameEnd, FrameEnd, Slot, Run
  <2>2. QED
    BY <2>1 DEF IInv, TypeOK, TableInBounds, Event, Timed
<1>4. CASE SuperFrameEnd(e, fn, g)
  <2>1. pending' = [x \in Event |-> One(x \in {"StartSuperSessions"})]
    BY <1>1, <1>4, TimedRun DEF IInv, SuperFrameEnd
  <2>2. /\ pending' \in [Event -> Nat]
        /\ \A x \in Event : pending'[x] = One(x \in {"StartSuperSessions"})
        /\ SingleChain'
    BY <2>1, ChainStep DEF Timed
  <2>3. TypeOK'
    BY <1>4, <2>2 DEF IInv, TypeOK, DataSlot, SuperFrameEnd, roster, table
  <2>4. EventsPrepared' /\ TableInBounds'
    BY <1>4, <2>2
    DEF IInv, EventsPrepared, TableInBounds, DataSlot, SuperFrameEnd,
        roster, table, One, Event, Timed, Urgent
  <2>5. QED
    BY <1>2, <2>2, <2>3, <2>4 DEF IInv
<1>5. CASE FrameEnd(e, fn, g)
  <2>1. pending' = [x \in Event |-> One(x \in {"StartFrameTransmission"})]
    BY <1>1, <1>5, TimedRun DEF IInv, FrameEnd
  <2>2. /\ pending' \in [Event -> Nat]
        /\ \A x \in Event :
              pending'[x] = One(x \in {"StartFrameTransmission"})
        /\ SingleChain'
    BY <2>1, ChainStep DEF Timed
  <2>3. TypeOK'
    BY <1>5, <2>2 DEF IInv, TypeOK, DataSlot, FrameEnd, roster, table
  <2>4. fn < SuperFrame
    BY <1>5, SuperFrameAssumption DEF FrameEnd
  <2>5. EventsPrepared' /\ TableInBounds'
    BY <1>3, <1>5, <2>2, <2>4
    DEF IInv, EventsPrepared, TableInBounds, DataSlot, FrameEnd,
        roster, table, One, Event, Timed, Urgent
  <2>6. QED
    BY <1>2, <2>2, <2>3, <2>5 DEF IInv
<1>6. CASE Slot(e, arg, fn, g)
  <2>1. pending' = [x \in Event |-> One(x \in {"TransmitDataFrame"})]
    BY <1>1, <1>6, TimedRun DEF IInv, Slot
  <2>2. /\ pending' \in [Event -> Nat]
        /\ \A x \in Event : pending'[x] = One(x \in {"TransmitDataFrame"})
        /\ SingleChain'
    BY <2>1, ChainStep DEF Timed
  <2>3. m_current_slot + 1 \in 1..Len(transmissionsVector)
    <3>1. m_current_slot < m_totalSlotsAllowed
      BY <1>6 DEF Slot
    <3>2. m_current_slot \in Nat /\ m_totalSlotsAllowed = Len(transmissionsVector)
      BY DEF IInv, TypeOK, TableInBounds
    <3>3. Len(transmissionsVector) \in Nat
      BY DEF IInv, TypeOK
    <3>4. QED
      BY <3>1, <3>2, <3>3
  <2>4. userDevice' \in Unit
    BY <1>6, <2>3 DEF Slot, IInv, TypeOK
  <2>5. userDevice' # <<>>
    BY <2>4 DEF Unit
  <2>6. grants' \in [Dev -> Nat]
    BY <1>6 DEF Slot, Unit
  <2>7. m_current_slot' \in 0..m_totalSlotsAllowed
    BY <1>6, <2>3 DEF Slot, IInv, TypeOK, TableInBounds
  <2>8. TypeOK'
    BY <1>6, <2>2, <2>4, <2>6, <2>7
    DEF IInv, TypeOK, DataSlot, roster, table
  <2>9. EventsPrepared' /\ TableInBounds'
    BY <1>3, <2>2, <2>5
    DEF IInv, EventsPrepared, TableInBounds, DataSlot,
        roster, table, One, Event, Timed, Urgent
  <2>10. QED
    BY <1>2, <2>2, <2>8, <2>9 DEF IInv
<1>7. QED
  BY <1>4, <1>5, <1>6 DEF DataSlot

LEMMA TransmitDataFrameInv ==
    ASSUME IInv, TransmitDataFrame
    PROVE  IInv'
<1>1. pending["TransmitDataFrame"] > 0
  BY DEF TransmitDataFrame, DataSlot, SuperFrameEnd, FrameEnd, Slot, Run
<1>2. userDevice \in Unit
  BY <1>1 DEF IInv, TypeOK, EventsPrepared
<1>3. frame_number \in 0..SuperFrame /\ grants \in [Dev -> Nat]
  BY DEF IInv, TypeOK
<1>4. QED
  BY <1>2, <1>3, DataSlotInv DEF TransmitDataFrame

LEMMA StartFrameTransmissionInv ==
    ASSUME IInv, StartFrameTransmission
    PROVE  IInv'
<1>1. pending["StartFrameTransmission"] > 0
  BY DEF StartFrameTransmission, DataSlot, SuperFrameEnd, FrameEnd, Slot, Run
<1>2. transmissionsVector # <<>>
  BY <1>1 DEF IInv, TypeOK, TableInBounds, Event, Timed
<1>3. transmissionsVector[1] \in Unit
  BY <1>2 DEF IInv, TypeOK
<1>4. frame_number + 1 \in 0..SuperFrame
  BY <1>1, SuperFrameAssumption DEF IInv, TypeOK, EventsPrepared
<1>5. QED
  BY <1>3, <1>4, DataSlotInv DEF StartFrameTransmission

(* A registration moves one occurrence of a device from the last epoch to  *)
(* this one, or adds a first one.                                          *)
LEMMA ReigsterUserDeviceInv ==
    ASSUME IInv, NEW d \in Dev, NEW s \in Services, ReigsterUserDevice(d, s)
    PROVE  IInv'
<1>1. UNCHANGED <<pending, associations, table>>
  BY DEF ReigsterUserDevice
<1>2. SingleChain'
  BY <1>1, ChainKept DEF IInv
<1>3. TypeOK'
  BY DEF IInv, TypeOK, ReigsterUserDevice, table, frame
<1>4. RosterCounted'
  <2> SUFFICES ASSUME NEW x \in Dev
               PROVE  /\ m_slotPtrs'[x] # NoInfo => Entries(x)' > 0
                      /\ Entries(x)' <= associations'[x]
                                         + One(m_slotPtrs'[x] # NoInfo)
                      /\ m_slotInfosMaps'[x] # NoTag =>
                           m_slotPtrs'[x] # NoInfo
    BY DEF RosterCounted
  <2>1. /\ m_slotPtrs_vector[x] \in Nat /\ m_lastepoch[x] \in Nat
        /\ associations[x] \in Nat
        /\ m_slotPtrs[x] # NoInfo => m_slotPtrs_vector[x] + m_lastepoch[x] > 0
        /\ m_slotPtrs_vector[x] + m_lastepoch[x]
              <= associations[x] + One(m_slotPtrs[x] # NoInfo)
        /\ m_slotInfosMaps[x] # NoTag => m_slotPtrs[x] # NoInfo
    BY DEF IInv, TypeOK, RosterCounted, Entries
  <2>2. associations'[x] = associations[x]
        /\ m_slotInfosMaps'[x] = m_slotInfosMaps[x]
    BY <1>1 DEF table
  <2>3. CASE x = d
    <3>1. m_slotPtrs'[x] # NoInfo
      BY <2>3, ServicesAssumption
      DEF ReigsterUserDevice, IInv, TypeOK, NoInfo
    <3>2. /\ m_slotPtrs_vector'[x]
                = IF m_slotPtrs_vector[x] > 0 THEN m_slotPtrs_vector[x] ELSE 1
          /\ m_lastepoch'[x]
                = IF m_lastepoch[x] > 0 THEN m_lastepoch[x] - 1 ELSE 0
      BY <2>3 DEF ReigsterUserDevice, IInv, TypeOK
    <3>3. QED
      BY <2>1, <2>2, <3>1, <3>2 DEF Entries, One
  <2>4. CASE x # d
    <3>1. /\ m_slotPtrs'[x] = m_slotPtrs[x]
          /\ m_slotPtrs_vector'[x] = m_slotPtrs_vector[x]
          /\ m_lastepoch'[x] = m_lastepoch[x]
      BY <2>4 DEF ReigsterUserDevice, IInv, TypeOK
    <3>2. QED
      BY <2>1, <2>2, <3>1 DEF Entries
  <2>5. QED
    BY <2>3, <2>4
<1>5. EventsPrepared'
  <2>1. NobodyHeard => NobodyHeard'
    BY <1>1, NobodyKept
  <2>2. QED
    BY <1>1, <2>1
    DEF IInv, EventsPrepared, ReigsterUserDevice, table, frame
<1>6. TableInBounds'
  BY DEF IInv, TableInBounds, ReigsterUserDevice, table, frame
<1>7. QED
  BY <1>2, <1>3, <1>4, <1>5, <1>6 DEF IInv

(* The helper adds an occurrence, and its own count with it.               *)
LEMMA AddUserDeviceInfosInv ==
    ASSUME IInv, NEW d \in Dev, AddUserDeviceInfos(d)
    PROVE  IInv'
<1>1. UNCHANGED <<pending, table, frame, m_slotPtrs, m_lastepoch>>
  BY DEF AddUserDeviceInfos
<1>2. ASSUME NEW x \in Dev
      PROVE  /\ m_slotPtrs_vector[x] \in Nat /\ m_lastepoch[x] \in Nat
             /\ associations[x] \in Nat
             /\ m_slotPtrs_vector'[x] = m_slotPtrs_vector[x] + One(x = d)
             /\ associations'[x] = associations[x] + One(x = d)
  BY DEF AddUserDeviceInfos, IInv, TypeOK, One
<1>3. \A x \in Dev : associations[x] > 0 => associations'[x] > 0
  BY <1>2 DEF One
<1>4. SingleChain'
  BY <1>1, <1>3, ChainKept DEF IInv
<1>5. TypeOK'
  <2>1. m_slotPtrs_vector' \in [Dev -> Nat]
    BY DEF AddUserDeviceInfos, IInv, TypeOK
  <2>2. associations' \in [Dev -> 0..MaxAssociations]
    BY AssociationsAssumption DEF AddUserDeviceInfos, IInv, TypeOK
  <2>3. QED
    BY <1>1, <2>1, <2>2
    DEF AddUserDeviceInfos, IInv, TypeOK, table, frame
<1>6. RosterCounted'
  BY <1>1, <1>2 DEF IInv, RosterCounted, Entries, One, table
<1>7. EventsPrepared'
  <2>1. NobodyHeard => NobodyHeard'
    BY <1>1, <1>3 DEF NobodyHeard, table
  <2>2. QED
    BY <1>1, <2>1 DEF IInv, EventsPrepared, table, frame
<1>8. TableInBounds'
  BY <1>1 DEF IInv, TableInBounds, table, frame
<1>9. QED
  BY <1>4, <1>5, <1>6, <1>7, <1>8 DEF IInv

LEMMA UnchangedInv ==
    ASSUME IInv,
           m_enableBeaconGeneration' \in BOOLEAN,
           UNCHANGED <<pending, roster, table, frame, report>>
    PROVE  IInv'
<1>1. TypeOK'
  BY DEF IInv, TypeOK, roster, table, frame
<1>2. SingleChain' /\ RosterCounted'
  BY ChainKept, RosterKept DEF IInv, roster, table
<1>3. EventsPrepared' /\ TableInBounds'
  BY NobodyKept DEF IInv, EventsPrepared, TableInBounds, roster, table, frame
<1>4. QED
  BY <1>1, <1>2, <1>3 DEF IInv

LEMMA NextInv == IInv /\ [Next]_vars => IInv'
<1> SUFFICES ASSUME IInv, [Next]_vars PROVE IInv'
  OBVIOUS
<1>1. CASE StartSuperSessions
  BY <1>1, StartSuperSessionsInv
<1>2. CASE TransmitControlFrames
  BY <1>2, TransmitControlFramesInv
<1>3. CASE SendOneBeacon
  BY <1>3, SendOneBeaconInv
<1>4. CASE DistributeSlots
  BY <1>4, DistributeNothingInv, DistributeTableInv DEF DistributeSlots
<1>5. CASE SendRecordToCentralizedControllers
  BY <1>5, SendRecordInv
<1>6. CASE SendSlotControlPackets
  BY <1>6, SendSlotControlPacketsEmpty, SendSlotControlPacketsInv
<1>7. CASE TransmitDataFrame
  BY <1>7, TransmitDataFrameInv
<1>8. CASE StartFrameTransmission
  BY <1>8, StartFrameTransmissionInv
<1>9. CASE \E d \in Dev, s \in Services : ReigsterUserDevice(d, s)
  BY <1>9, ReigsterUserDeviceInv
<1>10. CASE \E enable \in BOOLEAN : SetBeaconGeneration(enable)
  <2>1. PICK enable \in BOOLEAN : SetBeaconGeneration(enable)
    BY <1>10
  <2>2. QED
    BY <2>1, UnchangedInv DEF SetBeaconGeneration
<1>11. CASE \E d \in Dev : AddUserDeviceInfos(d)
  BY <1>11, AddUserDeviceInfosInv
<1>12. CASE UNCHANGED vars
  BY <1>12, UnchangedInv DEF vars, IInv, TypeOK
<1>13. QED
  BY <1>1, <1>2, <1>3, <1>4, <1>5, <1>6, <1>7, <1>8, <1>9, <1>10, <1>11,
     <1>12
  DEF Next, Simulate

LEMMA Invariance == Spec => []IInv
<1>1. QED
  BY InitInv, NextInv, PTL DEF Spec

-----------------------------------------------------------------------------
(* Theorems.                                                               *)

(* The state of the access point keeps its types, and frame_number and     *)
(* m_current_slot their bounds.                                            *)
THEOREM TypeCorrect == Spec => []TypeOK
<1>1. IInv => TypeOK
  BY DEF IInv
<1>2. QED
  BY <1>1, Invariance, PTL

(* The access point never runs two superframes at once: at any time one    *)
(* timed event is pending.  It stops in one case, after slots have been    *)
(* distributed while stations were listed that no beacon had been answered *)
(* by.                                                                     *)
THEOREM ChainIsSingle == Spec => []SingleChain
<1>1. IInv => SingleChain
  BY DEF IInv
<1>2. QED
  BY <1>1, Invariance, PTL

(* What each pending event relies on has been prepared.                    *)
THEOREM EventsArePrepared == Spec => []EventsPrepared
<1>1. IInv => EventsPrepared
  BY DEF IInv
<1>2. QED
  BY <1>1, Invariance, PTL

(* However often and whenever the helper lists stations and stations       *)
(* answer, none that has answered is forgotten, none is in the two vectors *)
(* more often than it was listed, and once for its answers, and slots are  *)
(* announced to none that has not answered.                                *)
THEOREM RosterIsCounted == Spec => []RosterCounted
<1>1. IInv => RosterCounted
  BY DEF IInv
<1>2. QED
  BY <1>1, Invariance, PTL

(* The accesses to transmissionsVector are in bounds.                      *)
THEOREM TableIsInBounds == Spec => []TableInBounds
<1>1. IInv => TableInBounds
  BY DEF IInv
<1>2. QED
  BY <1>1, Invariance, PTL

-----------------------------------------------------------------------------
(* The table fits in the frame.                                            *)

(* The vector has an entry for every device in it.                         *)
LEMMA VectorSizeCounts ==
    ASSUME IInv
    PROVE  IsFiniteSet(Present) /\ Cardinality(Present) <= VectorSize
<1> DEFINE Occ(d) == {d} \X (1..m_slotPtrs_vector[d])
           All == {Occ(d) : d \in Dev}
<1>1. ASSUME NEW d \in Dev
      PROVE  IsFiniteSet(Occ(d))
  <2>1. IsFiniteSet({d})
    BY FS_Singleton
  <2>2. m_slotPtrs_vector[d] \in Int /\ 1 \in Int
    BY DEF IInv, TypeOK
  <2>3. IsFiniteSet(1..m_slotPtrs_vector[d])
    BY <2>2, FS_Interval
  <2>4. QED
    BY <2>1, <2>3, FS_Product
<1>2. IsFiniteSet(All)
  <2> DEFINE f == [d \in Dev |-> Occ(d)]
  <2>1. f \in Surjection(Dev, All)
    BY DEF Surjection
  <2>2. QED
    BY <2>1, FS_Surjection, DevAssumption
<1>3. IsFiniteSet(UNION All)
  BY <1>1, <1>2, FS_UNION
<1>4. Present \X {1} \subseteq UNION All
  <2>1. ASSUME NEW d \in Present
        PROVE  d \in Dev /\ <<d, 1>> \in Occ(d)
    BY DEF Present, IInv, TypeOK
  <2>2. QED
    BY <2>1
<1>5. IsFiniteSet(Present)
  BY DevAssumption, FS_Subset DEF Present
<1>6. IsFiniteSet({1}) /\ Cardinality({1}) = 1
  BY FS_Singleton
<1>7. Cardinality(Present \X {1}) = Cardinality(Present) * 1
  BY <1>5, <1>6, FS_Product
<1>8. Cardinality(Present) \in Nat
  BY <1>5, FS_CardinalityType
<1>9. Cardinality(Present \X {1}) <= Cardinality(UNION All)
  BY <1>3, <1>4, FS_Subset
<1>10. VectorSize = Cardinality(UNION All)
  BY DEF VectorSize
<1>11. QED
  BY <1>5, <1>7, <1>8, <1>9, <1>10

(* A table made while every registered device is present fits in           *)
(* max_slots, if three slots for every entry of the vector do.             *)
THEOREM FrameAlwaysFits == Spec => FrameFits
<1> DEFINE Fits == /\ Associated(m_slotPtrs) \subseteq Present
                   /\ 3 * VectorSize <= MaxSlots
                   /\ DistributeTable
                   => Len(transmissionsVector') <= MaxSlots
<1>1. ASSUME IInv, DistributeTable, 3 * VectorSize <= MaxSlots,
             Associated(m_slotPtrs) \subseteq Present
      PROVE  Len(transmissionsVector') <= MaxSlots
  <2>1. VectorSize \in Nat \ {0}
    BY <1>1, VectorSizeType DEF IInv, TypeOK, DistributeTable
  <2>2. /\ IsFiniteSet(Present) /\ Cardinality(Present) \in Nat
        /\ Cardinality(Present) <= VectorSize
    BY <1>1, VectorSizeCounts, FS_CardinalityType
  <2>3. /\ Cardinality(Associated(m_slotPtrs)) \in Nat
        /\ Cardinality(Associated(m_slotPtrs)) <= Cardinality(Present)
    BY <1>1, <2>2, FS_Subset, FS_CardinalityType
  <2>4. Cardinality(Associated(m_slotPtrs)) <= VectorSize
    BY <2>1, <2>2, <2>3
  <2>5. Cardinality(Units(m_slotPtrs, VectorSize)) <= MaxSlots
    BY <1>1, <2>1, <2>4, TableFits
  <2>6. Len(transmissionsVector') = Cardinality(Units(m_slotPtrs, VectorSize))
    BY <1>1, NewTable DEF DistributeTable
  <2>7. QED
    BY <2>5, <2>6
<1>2. IInv /\ [Next]_vars => [Fits]_vars
  BY <1>1
<1>3. QED
  BY <1>2, Invariance, PTL DEF Spec, FrameFits

-----------------------------------------------------------------------------
(* The access point implements the abstract roster.                        *)

LEMMA RosterInit == Init => Roster!Init
<1> SUFFICES ASSUME Init PROVE Roster!Init
  OBVIOUS
<1>1. Present = {} /\ {d \in Dev : Entries(d) > 0} = {}
  BY DEF Init, Present, Entries
<1>2. QED
  BY <1>1 DEF Init, Roster!Init

(* Everything but a beacon, a report, a registration and the helper leaves *)
(* the roster alone.                                                       *)
LEMMA RosterStutter ==
    ASSUME UNCHANGED <<roster, report>>
    PROVE  UNCHANGED Roster!rosterVars
  BY DEF roster, Present, Entries, Roster!rosterVars

LEMMA RosterBeacon ==
    ASSUME IInv, SendOneBeacon
    PROVE  Roster!Beacon
<1>1. Present' = {}
  BY DEF SendOneBeacon, Present
<1>2. ASSUME NEW d \in Dev
      PROVE  Entries(d)' = Entries(d)
  BY DEF SendOneBeacon, Entries, IInv, TypeOK
<1>3. {d \in Dev : Entries(d) > 0}' = {d \in Dev : Entries(d) > 0}
  BY <1>2
<1>4. UNCHANGED <<associations, report>>
  BY DEF SendOneBeacon
<1>5. QED
  BY <1>1, <1>3, <1>4 DEF Roster!Beacon

LEMMA RosterReport ==
    ASSUME IInv, SendRecordToCentralizedControllers
    PROVE  Roster!Report
<1>1. UNCHANGED roster
  BY DEF SendRecordToCentralizedControllers
<1>2. report' \in [Dev -> [snr : Nat, zero : Nat]]
  BY DEF SendRecordToCentralizedControllers, IInv, TypeOK
<1>3. ASSUME NEW d \in Dev
      PROVE  Roster!Truthful(d, report'[d])
  <2>1. /\ report'[d].snr = m_slotPtrs_vector[d]
        /\ report'[d].zero = m_lastepoch[d]
    BY DEF SendRecordToCentralizedControllers
  <2>2. m_slotPtrs_vector[d] + m_lastepoch[d] <= 1 + associations[d]
    <3>1. One(m_slotPtrs[d] # NoInfo) \in 0..1
      BY DEF One
    <3>2. Entries(d) <= associations[d] + One(m_slotPtrs[d] # NoInfo)
      BY DEF IInv, RosterCounted
    <3>3. /\ associations[d] \in Nat
          /\ m_slotPtrs_vector[d] \in Nat /\ m_lastepoch[d] \in Nat
      BY DEF IInv, TypeOK
    <3>4. QED
      BY <3>1, <3>2, <3>3 DEF Entries
  <2>3. QED
    BY <2>1, <2>2 DEF Roster!Truthful, Present, Entries
<1>4. UNCHANGED <<Present, {d \in Dev : Entries(d) > 0}, associations>>
  BY <1>1 DEF Present, Entries, roster
<1>5. QED
  BY <1>2, <1>3, <1>4 DEF Roster!Report

(* What is common to an answer and a listing: d has an entry.              *)
LEMMA RosterEntry ==
    ASSUME NEW d \in Dev,
           \A x \in Dev : m_slotPtrs_vector[x] \in Nat /\ m_lastepoch[x] \in Nat,
           \A x \in Dev \ {d} : /\ m_slotPtrs_vector'[x] = m_slotPtrs_vector[x]
                               /\ m_lastepoch'[x] = m_lastepoch[x],
           m_slotPtrs_vector'[d] \in Nat \ {0}, m_lastepoch'[d] \in Nat
    PROVE  /\ Present' = Present \cup {d}
           /\ {x \in Dev : Entries(x) > 0}'
                = {x \in Dev : Entries(x) > 0} \cup {d}
  BY DEF Present, Entries

LEMMA RosterHear ==
    ASSUME IInv, NEW d \in Dev, NEW s \in Services, ReigsterUserDevice(d, s)
    PROVE  Roster!Hear(d)
<1>1. \A x \in Dev : m_slotPtrs_vector[x] \in Nat /\ m_lastepoch[x] \in Nat
  BY DEF IInv, TypeOK
<1>2. \A x \in Dev \ {d} : /\ m_slotPtrs_vector'[x] = m_slotPtrs_vector[x]
                          /\ m_lastepoch'[x] = m_lastepoch[x]
  BY DEF ReigsterUserDevice, IInv, TypeOK
<1>3. m_slotPtrs_vector'[d] \in Nat \ {0} /\ m_lastepoch'[d] \in Nat
  BY DEF ReigsterUserDevice, IInv, TypeOK
<1>4. UNCHANGED <<associations, report>>
  BY DEF ReigsterUserDevice
<1>5. QED
  BY <1>1, <1>2, <1>3, <1>4, RosterEntry DEF Roster!Hear

LEMMA RosterList ==
    ASSUME IInv, NEW d \in Dev, AddUserDeviceInfos(d)
    PROVE  Roster!List(d)
<1>1. \A x \in Dev : m_slotPtrs_vector[x] \in Nat /\ m_lastepoch[x] \in Nat
  BY DEF IInv, TypeOK
<1>2. \A x \in Dev \ {d} : /\ m_slotPtrs_vector'[x] = m_slotPtrs_vector[x]
                          /\ m_lastepoch'[x] = m_lastepoch[x]
  BY DEF AddUserDeviceInfos, IInv, TypeOK
<1>3. m_slotPtrs_vector'[d] \in Nat \ {0} /\ m_lastepoch'[d] \in Nat
  BY DEF AddUserDeviceInfos, IInv, TypeOK
<1>4. /\ associations' = [associations EXCEPT ![d] = @ + 1]
      /\ report' = report
  BY DEF AddUserDeviceInfos
<1>5. QED
  BY <1>1, <1>2, <1>3, <1>4, RosterEntry DEF Roster!List

(* What the access point reports to the controller is what ApRoster        *)
(* promises: every known station and no other, with a measured SNR just if *)
(* it is present, and once or as often more as the helper has listed it.   *)
THEOREM ImplementsRoster == Spec => RosterSpec
<1>1. ASSUME IInv, [Next]_vars
      PROVE  [Roster!Next]_(Roster!rosterVars)
  <2>1. CASE SendOneBeacon
    BY <1>1, <2>1, RosterBeacon DEF Roster!Next
  <2>2. CASE SendRecordToCentralizedControllers
    BY <1>1, <2>2, RosterReport DEF Roster!Next
  <2>3. CASE \E d \in Dev, s \in Services : ReigsterUserDevice(d, s)
    BY <1>1, <2>3, RosterHear DEF Roster!Next
  <2>4. CASE \E d \in Dev : AddUserDeviceInfos(d)
    BY <1>1, <2>4, RosterList DEF Roster!Next
  <2>5. CASE \/ StartSuperSessions
             \/ TransmitControlFrames
             \/ DistributeSlots
             \/ SendSlotControlPackets
             \/ TransmitDataFrame
             \/ StartFrameTransmission
             \/ \E enable \in BOOLEAN : SetBeaconGeneration(enable)
             \/ UNCHANGED vars
    <3>1. UNCHANGED <<roster, report>>
      BY <2>5
      DEF StartSuperSessions, TransmitControlFrames, DistributeSlots,
          DistributeNothing, DistributeTable, SendSlotControlPackets,
          TransmitDataFrame, StartFrameTransmission, DataSlot,
          SetBeaconGeneration, vars
    <3>2. QED
      BY <3>1, RosterStutter
  <2>6. QED
    BY <1>1, <2>1, <2>2, <2>3, <2>4, <2>5 DEF Next, Simulate
<1>2. QED
  BY RosterInit, <1>1, Invariance, PTL DEF Spec, RosterSpec, Roster!Spec

(* Whatever the stations answer and the helper lists, and when, no event   *)
(* of the chain reads outside a vector or is doubled, the chain ends in    *)
(* the one case that SingleChain names, and the books hold no more than    *)
(* was entered.                                                            *)
THEOREM AccessPointIsSound == Spec => []ChainSound
<1>1. QED
  BY TypeCorrect, ChainIsSingle, RosterIsCounted, EventsArePrepared,
     TableIsInBounds, PTL DEF ChainSound
-----------------------------------------------------------------------------
(* What a frame gives to each device.                                      *)

(* A table with room for all is laid out as Laid says.                     *)
TableLaid ==
    transmissionsVector # <<>> /\ RoomForAll(transmissionsVector) =>
        Laid(transmissionsVector)

NodesKnown ==
    \A i \in DOMAIN transmissionsVector :
        transmissionsVector[i].node \in Associated(m_slotPtrs)

TagsCurrent ==
    \A d \in Dev :
        m_slotInfosMaps[d].up = SlotsOf(transmissionsVector, "Uplink", d)

SlotsCounted ==
    pending["TransmitDataFrame"] > 0 =>
        /\ userDevice = ArgumentOf(transmissionsVector, m_current_slot + 1)
        /\ \A d \in Dev :
              grants[d] = Cardinality(
                             StartsOf(transmissionsVector, m_current_slot, d))

FrameCounted ==
    pending["StartFrameTransmission"] > 0 =>
        \A d \in Dev :
            grants[d] = Cardinality(StartsOf(transmissionsVector,
                                             Len(transmissionsVector), d))

(* The grants of a frame are those of the slots it has run, each with the  *)
(* unit of the slot before it as argument; the table that it runs is laid  *)
(* out in two passes over devices that are still associated, and is what   *)
(* m_slotInfosMaps announces.                                              *)
FrameInv ==
    /\ IInv
    /\ TableLaid
    /\ NodesKnown
    /\ TagsCurrent
    /\ SlotsCounted
    /\ FrameCounted

LEMMA FrameInit == Init => FrameInv
<1> SUFFICES ASSUME Init PROVE FrameInv
  OBVIOUS
<1>1. transmissionsVector = <<>> /\ DOMAIN transmissionsVector = {}
  BY DEF Init
<1>2. /\ pending["TransmitDataFrame"] = 0
      /\ pending["StartFrameTransmission"] = 0
  BY DEF Init, One, Event, Timed
<1>3. ASSUME NEW d \in Dev
      PROVE  m_slotInfosMaps[d].up = SlotsOf(transmissionsVector, "Uplink", d)
  BY <1>1 DEF Init, NoTag, SlotsOf
<1>4. QED
  BY <1>1, <1>2, <1>3, InitInv
  DEF FrameInv, TableLaid, NodesKnown, TagsCurrent, SlotsCounted, FrameCounted

(* While neither a slot nor the start of a frame is pending afterwards,    *)
(* and the table and the associations stay, nothing is to be shown.        *)
LEMMA FrameIdle ==
    ASSUME FrameInv, IInv', UNCHANGED <<m_slotPtrs, table>>,
           pending'["TransmitDataFrame"] = 0,
           pending'["StartFrameTransmission"] = 0
    PROVE  FrameInv'
<1>1. TableLaid' /\ NodesKnown' /\ TagsCurrent'
  BY DEF FrameInv, TableLaid, NodesKnown, TagsCurrent, Associated, table
<1>2. SlotsCounted' /\ FrameCounted'
  BY DEF SlotsCounted, FrameCounted
<1>3. QED
  BY <1>1, <1>2 DEF FrameInv

(* A step of the beacon, the reports or the attribute, beside a frame.     *)
LEMMA FrameBeside ==
    ASSUME FrameInv, IInv', UNCHANGED <<m_slotPtrs, table, frame>>,
           pending'["TransmitDataFrame"] = pending["TransmitDataFrame"],
           pending'["StartFrameTransmission"]
             = pending["StartFrameTransmission"]
    PROVE  FrameInv'
<1>1. TableLaid' /\ NodesKnown' /\ TagsCurrent'
  BY DEF FrameInv, TableLaid, NodesKnown, TagsCurrent, Associated, table
<1>2. SlotsCounted' /\ FrameCounted'
  BY DEF FrameInv, SlotsCounted, FrameCounted, table, frame
<1>3. QED
  BY <1>1, <1>2 DEF FrameInv

(* A table laid out for the devices that have answered.                    *)
LEMMA FrameDistribute ==
    ASSUME FrameInv, IInv', DistributeTable
    PROVE  FrameInv'
<1> DEFINE n == VectorSize
           units == Units(m_slotPtrs, n)
           A == Associated(m_slotPtrs)
<1>1. IInv
  BY DEF FrameInv
<1>2. n \in Nat \ {0}
  BY <1>1, VectorSizeType DEF IInv, TypeOK, DistributeTable
<1>3. A = {} => transmissionsVector' = <<>>
  <2>1. ASSUME A = {}
        PROVE  Cardinality(units) = 0
    <3>1. units = {}
      BY <2>1, UnitsGranted
    <3>2. QED
      BY <3>1, FS_EmptySet
  <2>2. m_totalSlotsAllowed' = Cardinality(units)
    BY DEF DistributeTable
  <2>3. /\ transmissionsVector' \in Seq(Unit)
        /\ m_totalSlotsAllowed' = Len(transmissionsVector')
    BY <1>1, NewTable
  <2>4. QED
    BY <2>1, <2>2, <2>3
<1>4. transmissionsVector' = InOrder(units)
  BY DEF DistributeTable
<1>5. TableLaid'
  <2>1. SUFFICES ASSUME transmissionsVector' # <<>>,
                        RoomForAll(transmissionsVector')
                 PROVE  Laid(transmissionsVector')
    BY DEF TableLaid
  <2>2. A # {}
    BY <1>3, <2>1
  <2>3. QED
    BY <1>2, <1>4, <2>1, <2>2, TableIsLaid
<1>6. m_slotPtrs' = m_slotPtrs
  BY DEF DistributeTable, roster
<1>7. ASSUME NEW i \in DOMAIN transmissionsVector'
      PROVE  transmissionsVector'[i].node \in A
  <2>1. units \subseteq Unit
    BY <1>2, UnitsType
  <2>2. InOrder(units) \in Seq(units)
    BY <2>1, InOrderEnumerates
  <2>3. InOrder(units)[i] \in units
    BY <1>4, <1>7, <2>2
  <2>4. QED
    BY <1>2, <1>4, <2>3, GrantedUnit
<1>8. NodesKnown'
  BY <1>6, <1>7 DEF NodesKnown, Associated
<1>9. ASSUME NEW d \in Dev
       PROVE  m_slotInfosMaps'[d].up
                = SlotsOf(transmissionsVector', "Uplink", d)
  <2>1. CASE d \in A
    BY <2>1 DEF DistributeTable, NewTag
  <2>2. CASE d \notin A
    <3>1. m_slotInfosMaps'[d] = m_slotInfosMaps[d]
      BY <2>2 DEF DistributeTable
    <3>2. m_slotInfosMaps[d].up = SlotsOf(transmissionsVector, "Uplink", d)
      BY DEF FrameInv, TagsCurrent
    <3>3. SlotsOf(transmissionsVector, "Uplink", d) = {}
      BY <2>2 DEF FrameInv, NodesKnown, SlotsOf
    <3>4. SlotsOf(transmissionsVector', "Uplink", d) = {}
      BY <1>7, <2>2 DEF SlotsOf
    <3>5. QED
      BY <3>1, <3>2, <3>3, <3>4
  <2>3. QED
    BY <2>1, <2>2
<1>10. /\ pending'["TransmitDataFrame"] = 0
       /\ pending'["StartFrameTransmission"] = 0
  <2>1. pending' = [x \in Event |->
                       One(x \in {"SendSlotControlPackets", "SendRecord"})]
    BY <1>1, TimedRun DEF IInv, DistributeTable, Timed
  <2>2. QED
    BY <2>1 DEF One, Event, Timed
<1>11. SlotsCounted' /\ FrameCounted'
  BY <1>10 DEF SlotsCounted, FrameCounted
<1>12. TagsCurrent'
  BY <1>9 DEF TagsCurrent
<1>13. QED
  BY <1>5, <1>8, <1>11, <1>12 DEF FrameInv

LEMMA StartsOfNone ==
    ASSUME NEW tbl, NEW d
    PROVE  Cardinality(StartsOf(tbl, 0, d)) = 0
<1>1. StartsOf(tbl, 0, d) = {}
  BY DEF StartsOf
<1>2. QED
  BY <1>1, FS_EmptySet

(* Slot k + 1 starts the device of its argument, if it is an uplink slot.  *)
LEMMA StartsOfNext ==
    ASSUME NEW tbl, NEW k \in Nat, NEW d
    PROVE  Cardinality(StartsOf(tbl, k + 1, d))
             = IF /\ tbl[k + 1].type = "Uplink"
                  /\ ArgumentOf(tbl, k + 1).node = d
               THEN Cardinality(StartsOf(tbl, k, d)) + 1
               ELSE Cardinality(StartsOf(tbl, k, d))
<1> DEFINE P(i) == tbl[i].type = "Uplink" /\ ArgumentOf(tbl, i).node = d
           S == StartsOf(tbl, k, d)
<1>1. S = {i \in 1..k : P(i)}
      /\ StartsOf(tbl, k + 1, d) = {i \in 1..(k + 1) : P(i)}
  BY DEF StartsOf
<1>2. IsFiniteSet(S) /\ k + 1 \notin S
  <2>1. IsFiniteSet(1..k)
    BY FS_Interval
  <2>2. QED
    BY <1>1, <2>1, FS_Subset
<1> HIDE DEF P, S
<1>3. CASE P(k + 1)
  <2>1. StartsOf(tbl, k + 1, d) = S \cup {k + 1}
    BY <1>1, <1>3
  <2>2. QED
    BY <1>2, <1>3, <2>1, FS_AddElement DEF P, S
<1>4. CASE ~ P(k + 1)
  <2>1. StartsOf(tbl, k + 1, d) = S
    BY <1>1, <1>4
  <2>2. QED
    BY <1>4, <2>1 DEF P, S
<1>5. QED
  BY <1>3, <1>4

LEMMA FrameSendSlots ==
    ASSUME FrameInv, IInv', SendSlotControlPackets
    PROVE  FrameInv'
<1>1. IInv
  BY DEF FrameInv
<1>2. CASE transmissionsVector = <<>>
  <2>1. Run("SendSlotControlPackets", {})
    BY <1>2 DEF SendSlotControlPackets
  <2>2. pending' = [x \in Event |-> One(x \in {})]
    BY <1>1, <2>1, TimedRun DEF IInv, Timed
  <2>3. /\ pending'["TransmitDataFrame"] = 0
        /\ pending'["StartFrameTransmission"] = 0
    BY <2>2 DEF One, Event, Timed
  <2>4. QED
    BY <1>1, <2>3, FrameIdle DEF SendSlotControlPackets, roster
<1>3. CASE transmissionsVector # <<>>
  <2>1. /\ Run("SendSlotControlPackets", {"TransmitDataFrame"})
        /\ userDevice' = transmissionsVector[1]
    BY <1>3 DEF SendSlotControlPackets
  <2>2. /\ pending["TransmitDataFrame"] = 0
        /\ pending'["StartFrameTransmission"] = 0
    <3>1. /\ \A x \in Event \ {"SendSlotControlPackets"} : pending[x] = 0
          /\ pending' = [x \in Event |-> One(x \in {"TransmitDataFrame"})]
      BY <1>1, <2>1, TimedRun DEF IInv, Timed
    <3>2. QED
      BY <3>1 DEF One, Event, Timed
  <2>3. m_current_slot = 0 /\ m_current_slot' = 0
    BY <1>1, <2>2 DEF IInv, TableInBounds, SendSlotControlPackets
  <2>4. UNCHANGED <<m_slotPtrs, table, transmissionsVector>>
    BY DEF SendSlotControlPackets, roster, table
  <2>5. TableLaid' /\ NodesKnown' /\ TagsCurrent'
    BY <2>4 DEF FrameInv, TableLaid, NodesKnown, TagsCurrent, Associated, table
  <2>6. userDevice' = ArgumentOf(transmissionsVector', m_current_slot' + 1)
    BY <2>1, <2>3, <2>4 DEF ArgumentOf
  <2>7. ASSUME NEW d \in Dev
        PROVE  grants'[d] = Cardinality(
                  StartsOf(transmissionsVector', m_current_slot', d))
    BY <2>3, StartsOfNone DEF SendSlotControlPackets
  <2>8. SlotsCounted' /\ FrameCounted'
    BY <2>2, <2>6, <2>7 DEF SlotsCounted, FrameCounted
  <2>9. QED
    BY <2>5, <2>8 DEF FrameInv
<1>4. QED
  BY <1>2, <1>3

(* TransmitDataFrame and StartFrameTransmission, given what the slots of   *)
(* the frame before this one have granted.                                 *)
LEMMA FrameDataSlot ==
    ASSUME FrameInv, IInv',
           NEW e \in {"TransmitDataFrame", "StartFrameTransmission"},
           NEW arg, NEW fn, NEW g \in [Dev -> Nat], DataSlot(e, arg, fn, g),
           arg = ArgumentOf(transmissionsVector, m_current_slot + 1),
           \A d \in Dev : g[d] = Cardinality(
                StartsOf(transmissionsVector, m_current_slot, d))
    PROVE  FrameInv'
<1>1. IInv /\ e \in Timed
  BY DEF FrameInv, Timed
<1>2. UNCHANGED <<m_slotPtrs, table, transmissionsVector, m_totalSlotsAllowed>>
  BY DEF DataSlot, roster, table
<1>3. TableLaid' /\ NodesKnown' /\ TagsCurrent'
  BY <1>2 DEF FrameInv, TableLaid, NodesKnown, TagsCurrent, Associated, table
<1>4. CASE SuperFrameEnd(e, fn, g)
  <2>1. pending' = [x \in Event |-> One(x \in {"StartSuperSessions"})]
    BY <1>1, <1>4, TimedRun DEF IInv, SuperFrameEnd
  <2>2. /\ pending'["TransmitDataFrame"] = 0
        /\ pending'["StartFrameTransmission"] = 0
    BY <2>1 DEF One, Event, Timed
  <2>3. QED
    BY <1>2, <2>2, FrameIdle
<1>5. CASE FrameEnd(e, fn, g)
  <2>1. pending' = [x \in Event |-> One(x \in {"StartFrameTransmission"})]
    BY <1>1, <1>5, TimedRun DEF IInv, FrameEnd
  <2>2. pending'["TransmitDataFrame"] = 0
    BY <2>1 DEF One, Event, Timed
  <2>3. m_current_slot = Len(transmissionsVector)
    BY <1>1, <1>5 DEF FrameEnd, IInv, TypeOK, TableInBounds
  <2>4. grants' = g
    BY <1>5 DEF FrameEnd
  <2>5. SlotsCounted' /\ FrameCounted'
    BY <1>2, <2>2, <2>3, <2>4 DEF SlotsCounted, FrameCounted
  <2>6. QED
    BY <1>3, <2>5 DEF FrameInv
<1>6. CASE Slot(e, arg, fn, g)
  <2> DEFINE k == m_current_slot
             tbl == transmissionsVector
  <2>1. pending' = [x \in Event |-> One(x \in {"TransmitDataFrame"})]
    BY <1>1, <1>6, TimedRun DEF IInv, Slot
  <2>2. pending'["StartFrameTransmission"] = 0
    BY <2>1 DEF One, Event, Timed
  <2>3. k \in Nat /\ m_current_slot' = k + 1
    BY <1>1, <1>6 DEF Slot, IInv, TypeOK
  <2>4. userDevice' = tbl[k + 1]
    BY <1>6 DEF Slot
  <2>5. userDevice' = ArgumentOf(transmissionsVector', m_current_slot' + 1)
    <3>1. (k + 1) + 1 # 1 /\ ((k + 1) + 1) - 1 = k + 1
      BY <2>3
    <3>2. ArgumentOf(tbl, (k + 1) + 1) = tbl[k + 1]
      BY <3>1 DEF ArgumentOf
    <3>3. QED
      BY <1>2, <2>3, <2>4, <3>2
  <2>6. ASSUME NEW d \in Dev
        PROVE  grants'[d] = Cardinality(
                  StartsOf(transmissionsVector', m_current_slot', d))
    <3>1. grants'[d] = IF tbl[k + 1].type = "Uplink" /\ arg.node = d
                       THEN g[d] + 1 ELSE g[d]
      BY <1>6 DEF Slot
    <3>2. QED
      BY <1>2, <2>3, <3>1, StartsOfNext
  <2>7. SlotsCounted' /\ FrameCounted'
    BY <2>2, <2>5, <2>6 DEF SlotsCounted, FrameCounted
  <2>8. QED
    BY <1>3, <2>7 DEF FrameInv
<1>7. QED
  BY <1>4, <1>5, <1>6 DEF DataSlot

LEMMA FrameNext ==
    ASSUME FrameInv, [Next]_vars
    PROVE  FrameInv'
<1>1. IInv /\ IInv'
  BY NextInv DEF FrameInv
<1>2. CASE StartSuperSessions
  <2>1. pending' = [x \in Event |-> One(x \in {"TransmitControlFrames"})]
    BY <1>1, <1>2, TimedRun DEF IInv, StartSuperSessions, Timed
  <2>2. QED
    BY <1>1, <1>2, <2>1, FrameIdle
    DEF StartSuperSessions, roster, One, Event, Timed
<1>3. CASE TransmitControlFrames
  <2>1. pending' = [x \in Event |->
                       One(x \in {"SendOneBeacon", "DistributeSlots"})]
    BY <1>1, <1>3, TimedRun DEF IInv, TransmitControlFrames, Timed
  <2>2. QED
    BY <1>1, <1>3, <2>1, FrameIdle
    DEF TransmitControlFrames, roster, One, Event, Timed
<1>4. CASE SendOneBeacon
  <2>1. \A x \in Event \ {"SendOneBeacon"} : pending'[x] = pending[x]
    BY <1>1, <1>4, UrgentRun DEF IInv, SendOneBeacon, Urgent
  <2>2. QED
    BY <1>1, <1>4, <2>1, FrameBeside DEF SendOneBeacon, Event, Timed
<1>5. CASE DistributeNothing
  <2>1. pending' = [x \in Event |->
                       One(x \in {"StartSuperSessions", "SendRecord"})]
    BY <1>1, <1>5, TimedRun DEF IInv, DistributeNothing, Timed
  <2>2. QED
    BY <1>1, <1>5, <2>1, FrameIdle
    DEF DistributeNothing, roster, One, Event, Timed
<1>6. CASE DistributeTable
  BY <1>1, <1>6, FrameDistribute
<1>7. CASE SendRecordToCentralizedControllers
  <2>1. \A x \in Event \ {"SendRecord"} : pending'[x] = pending[x]
    BY <1>1, <1>7, UrgentRun
    DEF IInv, SendRecordToCentralizedControllers, Urgent
  <2>2. QED
    BY <1>1, <1>7, <2>1, FrameBeside
    DEF SendRecordToCentralizedControllers, roster, Event, Timed
<1>8. CASE SendSlotControlPackets
  BY <1>1, <1>8, FrameSendSlots
<1>9. CASE TransmitDataFrame
  <2>1. pending["TransmitDataFrame"] > 0
    BY <1>9 DEF TransmitDataFrame, DataSlot, SuperFrameEnd, FrameEnd, Slot, Run
  <2>2. /\ userDevice = ArgumentOf(transmissionsVector, m_current_slot + 1)
        /\ \A d \in Dev :
              grants[d] = Cardinality(
                             StartsOf(transmissionsVector, m_current_slot, d))
    BY <2>1 DEF FrameInv, SlotsCounted
  <2>3. grants \in [Dev -> Nat]
    BY <1>1 DEF IInv, TypeOK
  <2>4. QED
    BY <1>1, <1>9, <2>2, <2>3, FrameDataSlot DEF TransmitDataFrame
<1>10. CASE StartFrameTransmission
  <2> DEFINE g == [d \in Dev |-> 0]
  <2>1. pending["StartFrameTransmission"] > 0
    BY <1>10
    DEF StartFrameTransmission, DataSlot, SuperFrameEnd, FrameEnd, Slot, Run
  <2>2. pending["TransmitDataFrame"] = 0
    <3>1. "StartFrameTransmission" \in Timed /\ "TransmitDataFrame" \in Timed
      BY DEF Timed
    <3>2. SingleChain /\ ~ Silenced
      BY <1>1, <2>1, <3>1 DEF IInv, Silenced
    <3>3. PICK c \in Timed : \A x \in Timed \ {c} : pending[x] = 0
      BY <3>2 DEF SingleChain
    <3>4. c = "StartFrameTransmission"
      BY <2>1, <3>1, <3>3
    <3>5. QED
      BY <3>1, <3>3, <3>4
  <2>3. m_current_slot = 0
    BY <1>1, <2>2 DEF IInv, TableInBounds
  <2>4. transmissionsVector[1]
          = ArgumentOf(transmissionsVector, m_current_slot + 1)
    BY <2>3 DEF ArgumentOf
  <2>5. g \in [Dev -> Nat]
    OBVIOUS
  <2>6. \A d \in Dev : g[d] = Cardinality(
              StartsOf(transmissionsVector, m_current_slot, d))
    BY <2>3, StartsOfNone
  <2>7. QED
    BY <1>1, <1>10, <2>4, <2>5, <2>6, FrameDataSlot DEF StartFrameTransmission
<1>11. CASE \E d \in Dev, s \in Services : ReigsterUserDevice(d, s)
  <2>1. PICK d \in Dev, s \in Services : ReigsterUserDevice(d, s)
    BY <1>11
  <2>2. Associated(m_slotPtrs) \subseteq Associated(m_slotPtrs')
    BY <1>1, <2>1 DEF ReigsterUserDevice, Associated, IInv, TypeOK
  <2>3. UNCHANGED <<pending, table, frame>>
    BY <2>1 DEF ReigsterUserDevice
  <2>4. NodesKnown'
    BY <2>2, <2>3 DEF FrameInv, NodesKnown, table
  <2>5. QED
    BY <1>1, <2>3, <2>4
    DEF FrameInv, TableLaid, TagsCurrent, SlotsCounted, FrameCounted,
        table, frame
<1>12. CASE \/ \E d \in Dev : AddUserDeviceInfos(d)
            \/ \E enable \in BOOLEAN : SetBeaconGeneration(enable)
            \/ UNCHANGED vars
  <2>1. UNCHANGED <<pending, m_slotPtrs, table, frame>>
    BY <1>12 DEF AddUserDeviceInfos, SetBeaconGeneration, vars, roster
  <2>2. QED
    BY <1>1, <2>1, FrameBeside
<1>13. QED
  BY <1>2, <1>3, <1>4, <1>5, <1>6, <1>7, <1>8, <1>9, <1>10, <1>11, <1>12
  DEF Next, Simulate, DistributeSlots

(* At the end of a frame whose table gives a downlink slot to every device *)
(* with an uplink slot, every device has been started once for each of its *)
(* uplink slots, although TransmitDataFrame starts the MAC of the slot     *)
(* before; and while frames run, the uplink slots announced to a device    *)
(* are those that the table gives it.                                      *)
THEOREM FrameIsSound == Spec => []FrameSound
<1>1. ASSUME FrameInv
      PROVE  FrameSound
  <2>1. UplinkAnnounced
    BY <1>1 DEF FrameInv, TagsCurrent, UplinkAnnounced
  <2>2. ASSUME pending["StartFrameTransmission"] > 0,
               RoomForAll(transmissionsVector), NEW d \in Dev
        PROVE  grants[d]
                 = Cardinality(SlotsOf(transmissionsVector, "Uplink", d))
    <3>1. transmissionsVector # <<>> /\ transmissionsVector \in Seq(Unit)
      BY <1>1, <2>2
      DEF FrameInv, IInv, TypeOK, TableInBounds, Event, Timed
    <3>2. Laid(transmissionsVector)
      BY <1>1, <2>2, <3>1 DEF FrameInv, TableLaid
    <3>3. grants[d] = Cardinality(StartsOf(transmissionsVector,
                                           Len(transmissionsVector), d))
      BY <1>1, <2>2 DEF FrameInv, FrameCounted
    <3>4. QED
      BY <3>1, <3>2, <3>3, ShiftIsFair
  <2>3. QED
    BY <2>1, <2>2 DEF FrameSound, FairFrame
<1>2. Init => FrameInv
  BY FrameInit
<1>3. FrameInv /\ [Next]_vars => FrameInv'
  BY FrameNext
<1>4. QED
  BY <1>1, <1>2, <1>3, PTL DEF Spec
=============================================================================
