------------------------------ MODULE LiFiOptics ------------------------------
(***************************************************************************)
(* The optical parameters of the physical layers (LiFiPhy) and of the      *)
(* receiving and transmitting devices (LiFiRxNetDevice, LiFiTxNetDevice):  *)
(* values that are set, values derived from them, and the copies in a      *)
(* propagation loss model.  The arithmetic is left out: a derived value is *)
(* the record of the values it was computed from.  An angle knows how many *)
(* times it was multiplied with pi / 180.  Signals are in LiFiSignal.      *)
(***************************************************************************)
EXTENDS Integers, Sequences, FiniteSets

CONSTANTS
    Phy, Rx, Tx,   \* the objects
    Value,         \* values a script gives
    MaxCalls       \* bound on the calls a script makes

Object == Phy \cup Rx \cup Tx

ASSUME ObjectAssumption == Phy \cap Rx = {} /\ Tx \cap (Phy \cup Rx) = {}
ASSUME OpticsBounds == MaxCalls \in Nat

VARIABLES
    param,       \* per object, its parameters
    derived,     \* per object, what is computed from them
    lossModel,   \* per physical layer, the copies in its loss model
    calls        \* calls made by the script

opticsVars == <<param, derived, lossModel, calls>>

-----------------------------------------------------------------------------
(* What each kind of object keeps, and what it computes.                   *)
PhyNames == {"semiangle", "filterGain", "area", "FOV", "refIndex"}
RxNames == {"filterGain", "area", "FOV", "refIndex", "incidence"}
TxNames == {"semiangle", "radiance"}
NamesOf(o) == IF o \in Phy THEN PhyNames ELSE IF o \in Rx THEN RxNames ELSE TxNames

DerivedOf(o) ==
    IF o \in Phy THEN {"order", "concentrationGain"}
    ELSE IF o \in Rx THEN {"concentrationGain", "RXGain"} ELSE {"order", "TXGain"}

SourcesOf(name) ==
    CASE name = "order" -> {"semiangle"}
      [] name = "concentrationGain" -> {"refIndex", "FOV"}
      [] name = "RXGain" -> {"incidence"}
      [] name = "TXGain" -> {"order", "radiance"}

(* A value that was given, with its conversions; Unset is one that was not,*)
(* and NotComputed the state of a derived value before it is computed.     *)
Given(v, turns) == [given |-> {v}, turns |-> turns]
Unset == [given |-> {}, turns |-> 0]
NotComputed == {}

(* The parameters that a setter converts to radians.                       *)
Converting(o) ==
    IF o \in Phy THEN {"semiangle"}
    ELSE IF o \in Rx THEN {"FOV", "incidence"} ELSE {"semiangle", "radiance"}

Stored(o, name, x) == IF name \in Converting(o) THEN [x EXCEPT !.turns = @ + 1] ELSE x

(* What a derived value is computed from, at this moment.                  *)
Computed(name, par, der) ==
    {<<s, IF s = "order" THEN der["order"] ELSE par[s]>> : s \in SourcesOf(name)}

(* Setting the semiangle sets the Lambertian order anew; all other derived *)
(* values wait for a call of their own.                                    *)
AfterSet(o, name, par, der) ==
    IF name = "semiangle" THEN [der EXCEPT !["order"] = Computed("order", par, der)] ELSE der

Put(par, o, name, x) == [par EXCEPT ![name] = Stored(o, name, x)]

-----------------------------------------------------------------------------
OpticsInit ==
    /\ param = [o \in Object |-> [n \in NamesOf(o) |-> Unset]]
    /\ derived = [o \in Object |-> [n \in DerivedOf(o) |-> NotComputed]]
    /\ lossModel = [p \in Phy |-> NotComputed]
    /\ calls = 0

Call == calls < MaxCalls /\ calls' = calls + 1

Set(o, name, x) ==
    /\ Call
    /\ LET par == Put(param[o], o, name, x) IN
       /\ param' = [param EXCEPT ![o] = par]
       /\ derived' = [derived EXCEPT ![o] = AfterSet(o, name, par, @)]
    /\ UNCHANGED lossModel

Compute(o, name) ==
    /\ Call
    /\ derived' = [derived EXCEPT ![o][name] = Computed(name, param[o], derived[o])]
    /\ UNCHANGED <<param, lossModel>>

(* The setters, with an angle in the unit that the setter takes.           *)
AngleIn(o, name) == IF name = "FOV" /\ o \in Phy THEN 1 ELSE 0
SetPhy(p, name, v) == Set(p, name, Given(v, AngleIn(p, name)))
SetRx(r, name, v) == Set(r, name, Given(v, AngleIn(r, name)))
SetTx(t, name, v) == Set(t, name, Given(v, AngleIn(t, name)))

(* SetLambertainOrder and SetConcentrationGain of a physical layer.        *)
ComputePhy(p, name) == Compute(p, name)
(* SetConcentrationGain and SetRXGain of a receiver.                       *)
ComputeRx(r, name) == Compute(r, name)
(* SetLambertainOrder and SetTXGain of a transmitter.                      *)
ComputeTx(t, name) == Compute(t, name)

-----------------------------------------------------------------------------
SetParametersMutantLate(p, v, par) ==
    [n \in PhyNames |-> IF n = "FOV" THEN par[n] ELSE Stored(p, n, Given(v, 0))]

(* LiFiPhyHelper::SetParameters: the semiangle, converted by the helper, is*)
(* converted once more by its setter.                                      *)
SetParameters(p, v, par) ==
    [n \in PhyNames |-> Stored(p, n, Given(v, IF n \in {"semiangle", "FOV"} THEN 1 ELSE 0))]

(* AttachPropagationLossModel: the loss model gets copies.                 *)
AttachPropagationLossModel(par, der) ==
    {<<"filterGain", par["filterGain"]>>, <<"area", par["area"]>>,
     <<"concentrationGain", der["concentrationGain"]>>}

(* The optical part of LiFiPhyHelper::Create.                              *)
CreateOptics(p, v) ==
    LET par == SetParameters(p, v, param[p])
        der == [n \in DerivedOf(p) |-> Computed(n, par, derived[p])] IN
    /\ param' = [param EXCEPT ![p] = par]
    /\ derived' = [derived EXCEPT ![p] = der]
    /\ lossModel' = [lossModel EXCEPT ![p] = AttachPropagationLossModel(par, der)]
    /\ UNCHANGED calls

-----------------------------------------------------------------------------
Optics ==
    \/ \E p \in Phy, name \in PhyNames, v \in Value : SetPhy(p, name, v)
    \/ \E r \in Rx, name \in RxNames, v \in Value : SetRx(r, name, v)
    \/ \E t \in Tx, name \in TxNames, v \in Value : SetTx(t, name, v)
    \/ \E p \in Phy : \E name \in DerivedOf(p) : ComputePhy(p, name)
    \/ \E r \in Rx : \E name \in DerivedOf(r) : ComputeRx(r, name)
    \/ \E t \in Tx : \E name \in DerivedOf(t) : ComputeTx(t, name)

-----------------------------------------------------------------------------
(* Properties.                                                             *)

(* Type invariant: the names of what each object keeps and computes.       *)
OpticsTypeOK ==
    /\ \A o \in Object : DOMAIN param[o] = NamesOf(o) /\ DOMAIN derived[o] = DerivedOf(o)
    /\ \A p \in Phy : Cardinality(lossModel[p]) \in {0, 3}
    /\ calls \in 0..MaxCalls

(* No sine or cosine is taken of an angle in degrees, whichever of the     *)
(* setters of the three classes and of the helper it went through: an      *)
(* angle that a derived value was computed from is converted at least once.*)
AnglesInRadians ==
    \A o \in Object : \A name \in DerivedOf(o) : \A s \in derived[o][name] :
        s[1] \in {"semiangle", "FOV", "incidence", "radiance"} =>
            (s[2].given # {} => s[2].turns >= 1)

(* Whatever a physical layer's setters do later, what its loss model was   *)
(* given was computed from parameters that had been set, in the order the  *)
(* comments on SetConcentrationGain ask for; a setter does not reach it.   *)
LossModelWasSet ==
    /\ OpticsTypeOK /\ AnglesInRadians
    /\ \A p \in Phy : \A c \in lossModel[p] :
          IF c[1] = "concentrationGain"
          THEN c[2] # NotComputed /\ \A s \in c[2] : s[2] # Unset
          ELSE c[2] # Unset
=============================================================================
