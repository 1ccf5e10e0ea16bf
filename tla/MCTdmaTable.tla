---------------------------- MODULE MCTdmaTable ----------------------------
(***************************************************************************)
(* TdmaTable against reference definitions that follow the machine: the    *)
(* quota by long division of a 64-bit word, the table by two loops that    *)
(* append to a vector.  A state is one input; Next goes through them.      *)
(***************************************************************************)
EXTENDS TdmaTable, FiniteSetsExt

CONSTANT MaxPresent           \* bound on the number of devices present

(* max_slots is a uint32_t, and so are the device ids: m_slotPtrs_vector   *)
(* never has more than 2^32 elements.                                      *)
ASSUME PresentAssumption ==
    MaxPresent \in Nat \ {0} /\ MaxPresent \div 65536 < 65536
ASSUME WidthAssumption == MaxSlots \div 65536 < 65536

VARIABLES infos, n

Init == infos \in [Dev -> Services \cup {NoInfo}] /\ n = 1
Next == n < MaxPresent /\ n' = n + 1 /\ UNCHANGED infos
Spec == Init /\ [][Next]_<<infos, n>>

-----------------------------------------------------------------------------
(* The eight bytes of a std::size_t with the value x modulo 2^64, highest  *)
(* first: every shift by eight bits pushes one of them out.                *)
Word(x) ==
    LET shifted[i \in 0..8] == IF i = 0 THEN x ELSE shifted[i - 1] \div 256
    IN  [i \in 1..8 |-> shifted[8 - i] % 256]

(* One step of the long division by n: the remainder and the last digit.   *)
DivideByte(acc, byte) ==
    LET x == 256 * acc.rem + byte
    IN  [rem |-> x % n, digit |-> x \div n]

LongDivision(word) ==
    LET upTo[i \in 0..8] == IF i = 0 THEN [rem |-> 0, digit |-> 0]
                                     ELSE DivideByte(upTo[i - 1], word[i])
    IN  upTo[8]

(* What the conversions to uint32_t and uint8_t keep of the quotient is    *)
(* its last digit.                                                         *)
ReferenceQuota == LongDivision(Word(MaxSlots - 2 * n)).digit

(* The slots that one device is given in one pass.                         *)
Slots(dir, d) ==
    [c \in 1..SlotCount(dir, infos[d], n) |->
        [type |-> dir, node |-> d, copy |-> c]]

(* One loop over the map m_slotPtrs, which goes through the ids below the  *)
(* greatest one upwards.                                                   *)
Pass(dir, tbl) ==
    LET end == 1 + Max(Dev \cup {0})
        below[k \in 0..end] ==
            IF k = 0 THEN tbl
            ELSE IF k - 1 \in Associated(infos) THEN below[k - 1] \o Slots(dir, k - 1)
            ELSE below[k - 1]
    IN  below[end]

ReferenceTable == Pass("Uplink", Pass("Downlink", <<>>))

-----------------------------------------------------------------------------
(* The slots that GetNumberOfSlotsForAccessCategory gives to a downlink    *)
(* are those of the machine's arithmetic, also for more than max_slots / 2 *)
(* devices, when the subtraction wraps around.                             *)
QuotaIsMachineQuota == DownlinkQuota(n) = ReferenceQuota

(* The table in the order of its units is the vector that the two loops of *)
(* DistributeSlots append to, as long as the quota does not wrap around.   *)
TableIsTwoPasses ==
    n > 1 /\ 2 * n <= MaxSlots => InOrder(Units(infos, n)) = ReferenceTable
=============================================================================
