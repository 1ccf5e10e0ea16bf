----------------------------- MODULE LiFiReceptions -----------------------------
(***************************************************************************)
(* The two records that a receiving device keeps of what it received:      *)
(* ReceivedDataModel objects, of which it keeps the pointers, so that what *)
(* is set later is recorded too, and a pool of packets with the decision   *)
(* on each, from which the goodput is computed.                            *)
(*                                                                         *)
(* A packet is its size; of a measured number, and of the packet a data    *)
(* model refers to, it matters whether it is there, that is, not zero.     *)
(***************************************************************************)
EXTENDS Integers, Sequences, SequencesExt, Totals

CONSTANTS
    DataModel,    \* ReceivedDataModel objects
    PacketSize,   \* sizes of packets
    MaxReceived   \* bound on the packets, and on the entries of the meta data

ASSUME ReceptionAssumption == PacketSize \subseteq Nat \ {0} /\ MaxReceived \in Nat

VARIABLES
    m_ReceivedDataModelVector,  \* of the device: pointers to data models
    dataModel,                  \* of each object: the fields, and isCorrupted
    dataPool, packetCorruptionState,
    measured,                   \* history: what was last set in each field,
    arrived                     \* and the bytes of correct packets so far

metaVars == <<m_ReceivedDataModelVector, dataModel, measured>>
poolVars == <<dataPool, packetCorruptionState, arrived>>
receptionVars == <<metaVars, poolVars>>

Field == {"receivedPacket", "snr", "ber", "receivedPower", "timeReceived"}
Value == {0, 2}

ReceptionsInit ==
    /\ m_ReceivedDataModelVector = <<>>
    /\ dataModel = [o \in DataModel |->
          [receivedPacket |-> 0, snr |-> 0, ber |-> 0, receivedPower |-> 0,
           timeReceived |-> 0, isCorrupted |-> FALSE]]
    /\ dataPool = <<>> /\ packetCorruptionState = <<>>
    /\ measured = [o \in DataModel |-> [f \in Field |-> 0]]
    /\ arrived = 0

-----------------------------------------------------------------------------
SetRecievedDataModel(o) ==
    /\ Len(m_ReceivedDataModelVector) < MaxReceived
    /\ m_ReceivedDataModelVector' = Append(m_ReceivedDataModelVector, o)
    /\ UNCHANGED <<dataModel, measured, poolVars>>

(* SetReceivedPacket, SetSNR, SetBER, SetReceivedPower, SetTimeReceived    *)
SetField(o, f, value) ==
    /\ dataModel' = [dataModel EXCEPT ![o][f] = value]
    /\ measured' = [measured EXCEPT ![o][f] = value]
    /\ UNCHANGED <<m_ReceivedDataModelVector, poolVars>>

(* Their readers; GetSNR returns a truth value.                            *)
GetField(o, f) == IF f = "snr" /\ dataModel[o][f] # 0 THEN 1 ELSE dataModel[o][f]

(* Whatever is decided, the object stores FALSE.                           *)
SetIsCorrupted(o, corrupt) ==
    /\ dataModel' = [dataModel EXCEPT ![o].isCorrupted = FALSE]
    /\ UNCHANGED <<m_ReceivedDataModelVector, measured, poolVars>>

EnqueueDataPacketAfterCorruption(size, corruptFlag) ==
    /\ Len(dataPool) < MaxReceived
    /\ dataPool' = Append(dataPool, size)
    /\ packetCorruptionState' = Append(packetCorruptionState, corruptFlag)
    /\ arrived' = arrived + IF corruptFlag THEN 0 ELSE size
    /\ UNCHANGED metaVars

ComputeGoodPut ==
    TotalOf([i \in DOMAIN dataPool |-> IF packetCorruptionState[i] THEN 0 ELSE dataPool[i]])

ModelsNext ==
    \E o \in DataModel :
        \/ SetRecievedDataModel(o)
        \/ \E f \in Field, value \in Value : SetField(o, f, value)
        \/ \E corrupt \in BOOLEAN : SetIsCorrupted(o, corrupt)

PoolNext ==
    \E size \in PacketSize, corruptFlag \in BOOLEAN :
        EnqueueDataPacketAfterCorruption(size, corruptFlag)

ReceptionsNext == ModelsNext \/ PoolNext

ReceptionsSpec == ReceptionsInit /\ [][ReceptionsNext]_receptionVars

-----------------------------------------------------------------------------
(* Properties.                                                             *)

(* The goodput is that of the packets that arrived correctly, but the meta *)
(* data of the device cannot tell it: every entry, also one whose object   *)
(* is set again after it was entered, gives back each field as it was last *)
(* set, except that it says that its packet was correct, and of its SNR    *)
(* only whether there is one.                                              *)
ReceptionsKept ==
    /\ ComputeGoodPut = arrived
    /\ \A o \in Range(m_ReceivedDataModelVector) :
          /\ ~ dataModel[o].isCorrupted
          /\ \A f \in Field \ {"snr"} : GetField(o, f) = measured[o][f]
          /\ GetField(o, "snr") = (IF measured[o]["snr"] = 0 THEN 0 ELSE 1)
=============================================================================
