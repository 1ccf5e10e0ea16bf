----------------------------- MODULE TdmaTable -----------------------------
(***************************************************************************)
(* The slot table that an access point lays out (DistributeSlots and       *)
(* GetNumberOfSlotsForAccessCategory of model/lifi-ap-mac.cc).             *)
(***************************************************************************)
EXTENDS Integers, FiniteSets, Sequences

CONSTANTS
    Dev,             \* device ids of the stations (std::map orders by them)
    MaxSlots,        \* max_slots, 50 in the constructor
    Services         \* the service types that the stations ask for

ASSUME DevAssumption == Dev \subseteq Nat /\ IsFiniteSet(Dev)
ASSUME SlotsAssumption == MaxSlots \in Nat \ {0}
ASSUME ServicesAssumption == Services \subseteq 0..2

NoInfo    == 3                \* device absent from m_slotPtrs
Direction == {"Downlink", "Uplink"}
MaxCopies == 255              \* a slot count is a uint8_t

(* A unit of the table.  `copy' tells apart the slots of one device; the   *)
(* slot_id of a unit is its position in the table.                         *)
Unit == [type : Direction, node : Dev, copy : 1..MaxCopies]

(* The devices in the map m_slotPtrs, infos giving their service types.    *)
Associated(infos) == {d \in Dev : infos[d] # NoInfo}

(* uint8_t(uint32_t((max_slots - 2 * n) / n)) in 64-bit unsigned           *)
(* arithmetic: for 2 * n > max_slots the subtraction wraps around, and the *)
(* last byte of the quotient is computed from 2^56 modulo n.               *)
Pow56Mod(n) ==
    LET p28 == (((2^14) % n) * ((2^14) % n)) % n
    IN  (p28 * p28) % n

(* (Operators with `Mutant' in their name are faulty variants, used to see *)
(* that the properties notice; no specification uses them.)                *)
QuotaMutantRoundsUp(n) == (MaxSlots - 2 * n + n - 1) \div n

QuotaMutantReservesThree(n) == (MaxSlots - 3 * n) \div n

DownlinkQuota(n) ==
    IF 2 * n <= MaxSlots
    THEN ((MaxSlots - 2 * n) \div n) % 256
    ELSE ((256 * Pow56Mod(n) - (2 * n - MaxSlots)) % (256 * n)) \div n

(* Slots of a device of service type s (0 downlink, 1 uplink, 2 both) when *)
(* n devices have answered.                                                *)
SlotCount(dir, s, n) ==
    IF dir = "Downlink"
    THEN IF s \in {0, 2} THEN DownlinkQuota(n) ELSE 1
    ELSE IF s \in {1, 2} THEN 2 ELSE 1

(* The two passes over m_slotPtrs: every downlink slot precedes every      *)
(* uplink slot, and each pass goes through the devices by increasing id.   *)
Before(u, v) ==
    \/ u.type = "Downlink" /\ v.type = "Uplink"
    \/ u.type = v.type /\ u.node < v.node
    \/ u.type = v.type /\ u.node = v.node /\ u.copy < v.copy

Granted(infos, n, dir, d) ==
    [type : {dir}, node : {d}, copy : 1..SlotCount(dir, infos[d], n)]

Units(infos, n) ==
    UNION {Granted(infos, n, dir, d) :
              dir \in Direction, d \in Associated(infos)}

InOrder(S) ==
    [i \in 1..Cardinality(S) |->
        CHOOSE u \in S : Cardinality({v \in S : Before(v, u)}) = i - 1]

(* The slot ids of device d in a table.                                    *)
SlotsOf(tbl, dir, d) ==
    {i - 1 : i \in {j \in DOMAIN tbl : tbl[j].type = dir /\ tbl[j].node = d}}
=============================================================================
