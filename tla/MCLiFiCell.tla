----------------------------- MODULE MCLiFiCell -----------------------------
(* Instances of LiFiCell for TLC.  setting says which one a behaviour is   *)
(* about: the stations among themselves, one station that hears the        *)
(* beacons of other cells while the rest are out of the light, or one      *)
(* station in the light while the helper lists it and the rest.  It only   *)
(* holds back steps of the environment, Walk, OtherBeacon and              *)
(* AssociateUserDevicesWithAP.                                             *)
EXTENDS LiFiCell

VARIABLE setting

mcVars == <<cellVars, setting>>

(* Every entry can have a downlink slot: one for each station that has     *)
(* answered, or those that the helper makes and the one of the station in  *)
(* the light; and the control queue holds a response for each station and  *)
(* the beacon.                                                             *)
ASSUME RoomAssumption ==
    /\ 3 * Cardinality(Dev) <= MaxSlots
    /\ 3 * (Cardinality(Dev) * MaxAssociations + 1) <= MaxSlots
    /\ Cardinality(Dev) < ControlBudget

Alone == CHOOSE d \in Dev : \A k \in Dev : d <= k

Allowed(candidates, there, listed) ==
    \A d \in Dev :
        /\ "other" \in Range(candidates[d]) => setting = "neighbours" /\ d = Alone
        /\ d \in there => setting = "together" \/ d = Alone
        /\ listed[d] > 0 => setting = "listed"

MCCellInit ==
    /\ setting \in {"together", "neighbours", "listed"}
    /\ CellInit /\ Allowed(m_candidateAps, inRange, associations)

MCCellNext ==
    /\ CellNext
    /\ Allowed(m_candidateAps', inRange', associations')
    /\ UNCHANGED setting

MCCellSpec == MCCellInit /\ [][MCCellNext]_mcVars /\ CellFairness
=============================================================================
