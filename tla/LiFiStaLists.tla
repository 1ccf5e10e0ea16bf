----------------------------- MODULE LiFiStaLists -----------------------------
(***************************************************************************)
(* The lists of a station's MAC: the candidate access points, in the order *)
(* in which SendAssociationRequest takes them, and the slots: a map from   *)
(* positions and a vector of user infos, which the number of allowed slots *)
(* is computed from although the other one is cleared with it.             *)
(***************************************************************************)
EXTENDS Integers, Sequences, SequencesExt, FiniteSetsExt, Totals

CONSTANTS
    Candidate,      \* addresses of access points, also their BSSIDs
    Level,          \* the SNRs an access point may be entered with
    MaxCandidates,  \* bound on the candidates
    SlotPosition,   \* positions in the map of slots
    Category,       \* access categories of users
    MaxSlotUsers    \* bound on the vector of user infos

ASSUME LevelAssumption == Level \subseteq Nat
ASSUME CategoryAssumption == Category \subseteq Nat
ASSUME StaListBounds == {MaxCandidates, MaxSlotUsers} \subseteq Nat

VARIABLES
    m_candidateAps,        \* pairs of address and m_snr
    m_slotPtrs,            \* position to access category, a set of pairs
    m_slotPtrs_vector,     \* access categories
    m_totalSlotsAllowed,
    entered,               \* history: what UpdateCandidateApList was given
    counted                \* history: users counted by CalculateTotalSlots, -1 if the
                           \* total is the constructor's or SetTotalSlotsAllowed's

candidateVars == <<m_candidateAps, entered>>
slotVars == <<m_slotPtrs, m_slotPtrs_vector, m_totalSlotsAllowed, counted>>
staListVars == <<candidateVars, slotVars>>

StaListsInit ==
    /\ m_candidateAps = <<>> /\ entered = {}
    /\ m_slotPtrs = {} /\ m_slotPtrs_vector = <<>>
    /\ m_totalSlotsAllowed = 10000 /\ counted = -1

-----------------------------------------------------------------------------
(* A beacon appends its access point without an SNR, if it is new.         *)
HearBeacon(ap) ==
    /\ Len(m_candidateAps) < MaxCandidates
    /\ m_candidateAps' = IF \E i \in DOMAIN m_candidateAps : m_candidateAps[i][1] = ap
                         THEN m_candidateAps ELSE Append(m_candidateAps, <<ap, 0>>)
    /\ UNCHANGED <<entered, slotVars>>

UpdateMutantAfterEqual(ap, snr) ==
    /\ Len(m_candidateAps) < MaxCandidates
    /\ LET i == SelectInSeq(m_candidateAps, LAMBDA c : snr < c[2]) IN
        m_candidateAps' = InsertAt(m_candidateAps,
                                   IF i = 0 THEN Len(m_candidateAps) + 1 ELSE i, <<ap, snr>>)
    /\ entered' = entered \cup {<<ap, snr>>}
    /\ UNCHANGED slotVars

(* Before the first weaker candidate, at the end without one.  The loop    *)
(* that looks for an entry of the same access point erases nothing.        *)
UpdateCandidateApList(ap, snr) ==
    /\ Len(m_candidateAps) < MaxCandidates
    /\ LET i == SelectInSeq(m_candidateAps, LAMBDA c : snr > c[2]) IN
        m_candidateAps' = InsertAt(m_candidateAps,
                                   IF i = 0 THEN Len(m_candidateAps) + 1 ELSE i, <<ap, snr>>)
    /\ entered' = entered \cup {<<ap, snr>>}
    /\ UNCHANGED slotVars

-----------------------------------------------------------------------------
(* A position that is taken keeps its user.                                *)
AddTdmaSlot(slotPos, ac) ==
    /\ m_slotPtrs' = IF \E e \in m_slotPtrs : e[1] = slotPos THEN m_slotPtrs
                     ELSE m_slotPtrs \cup {<<slotPos, ac>>}
    /\ UNCHANGED <<candidateVars, m_slotPtrs_vector, m_totalSlotsAllowed, counted>>

AddUserDeviceInfos(ac) ==
    /\ Len(m_slotPtrs_vector) < MaxSlotUsers
    /\ m_slotPtrs_vector' = Append(m_slotPtrs_vector, ac)
    /\ UNCHANGED <<candidateVars, m_slotPtrs, m_totalSlotsAllowed, counted>>

SetTotalSlotsAllowed(slots) ==
    /\ m_totalSlotsAllowed' = slots
    /\ m_slotPtrs' = {}
    /\ counted' = -1
    /\ UNCHANGED <<candidateVars, m_slotPtrs_vector>>

GetNumberOfSlotsForAccessCategory(ac) ==
    CASE ac \in {0, 1} -> 1 [] ac = 2 -> 2 [] OTHER -> 3

SlotsForAll(acs) == TotalOf([i \in DOMAIN acs |-> GetNumberOfSlotsForAccessCategory(acs[i])])

CalculateTotalSlots ==
    /\ m_totalSlotsAllowed' = SlotsForAll(m_slotPtrs_vector)
    /\ counted' = Len(m_slotPtrs_vector)
    /\ UNCHANGED <<candidateVars, m_slotPtrs, m_slotPtrs_vector>>

CandidatesNext ==
    \E ap \in Candidate :
        \/ HearBeacon(ap)
        \/ \E snr \in Level : UpdateCandidateApList(ap, snr)

StaSlotsNext ==
    \/ \E ac \in Category :
          \/ \E slotPos \in SlotPosition : AddTdmaSlot(slotPos, ac)
          \/ AddUserDeviceInfos(ac)
          \/ SetTotalSlotsAllowed(ac)
    \/ CalculateTotalSlots

StaListsSpec == StaListsInit /\ [][CandidatesNext \/ StaSlotsNext]_staListVars

-----------------------------------------------------------------------------
(* Properties.                                                             *)

(* The candidate that the next association request goes to has the highest *)
(* SNR that was ever entered, however entries of UpdateCandidateApList and *)
(* of beacons are mixed.  It need not be an access point's latest: what    *)
(* was entered is never taken out.                                         *)
FrontIsBest ==
    entered # {} =>
        /\ Head(m_candidateAps)[2] = Max({e[2] : e \in entered})
        /\ Head(m_candidateAps)[2] > 0 => Head(m_candidateAps) \in entered

(* An access point that only beacons is listed once, and every access      *)
(* point that was entered stays listed with every SNR it was entered with. *)
NothingForgotten ==
    /\ entered \subseteq Range(m_candidateAps)
    /\ \A i, j \in DOMAIN m_candidateAps :
          m_candidateAps[i] = m_candidateAps[j] /\ i # j => m_candidateAps[i] \in entered

(* Once counted, and until SetTotalSlotsAllowed replaces the total, the    *)
(* slots are those of the first users of the vector, which no call ever    *)
(* takes out, whatever the total was before: they may lack users that were *)
(* added since, and are at least one for each user they count.             *)
TotalIsOfThoseCounted ==
    counted # -1 => /\ counted <= m_totalSlotsAllowed
                    /\ m_totalSlotsAllowed = SlotsForAll(SubSeq(m_slotPtrs_vector, 1, counted))

FrontIsStrongest == FrontIsBest /\ NothingForgotten /\ TotalIsOfThoseCounted
=============================================================================
