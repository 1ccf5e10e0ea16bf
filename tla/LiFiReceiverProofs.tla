-------------------------- MODULE LiFiReceiverProofs --------------------------
(***************************************************************************)
(* Theorems of the receiver's chain, for every set of receivers, parameter *)
(* values, samples and signal-to-noise ratios, and every period.  The      *)
(* parameters: an angle that was given has been converted, so no copy of   *)
(* the loss model is made from degrees (OpticsInv).  The decisions: a      *)
(* physical layer that is made knows its noise, and has a rate only of a   *)
(* scheme that sets one (OwnInv).  The reports: what was reported of a     *)
(* receiver and what waits are one line of growing numbers, and nothing    *)
(* waits longer than the part of the period that has passed (ReportInv).   *)
(***************************************************************************)
EXTENDS LiFiReceiver, FiniteSetTheorems, SequenceTheorems, TLAPS

-----------------------------------------------------------------------------
(* Parameters, what is derived from them, and the loss model's copies.     *)

Angles == {"semiangle", "FOV", "incidence", "radiance"}

(* A value of a parameter called name: an angle that was given has been    *)
(* converted.                                                              *)
GoodValue(name, x) ==
    /\ DOMAIN x = {"given", "turns"} /\ x.turns \in Nat
    /\ name \in Angles /\ x.given # {} => x.turns >= 1

GoodSources(set) ==
    \A s \in set : s[1] \in Angles => GoodValue(s[1], s[2])

GoodParameters(o, par) ==
    DOMAIN par = NamesOf(o) /\ \A name \in NamesOf(o) : GoodValue(name, par[name])

GoodDerived(o, der) ==
    DOMAIN der = DerivedOf(o) /\ \A name \in DerivedOf(o) : GoodSources(der[name])

(* The copies of a loss model, none or one of each kind.                   *)
GoodCopies(copies) ==
    \/ copies = NotComputed
    \/ \E x, y, z :
          /\ copies = {<<"filterGain", x>>, <<"area", y>>, <<"concentrationGain", z>>}
          /\ x # Unset /\ y # Unset
          /\ z # NotComputed /\ \A s \in z : s[2] # Unset

OpticsInv ==
    /\ DOMAIN param = Object /\ \A o \in Object : GoodParameters(o, param[o])
    /\ DOMAIN derived = Object /\ \A o \in Object : GoodDerived(o, derived[o])
    /\ DOMAIN lossModel = Phy /\ \A p \in Phy : GoodCopies(lossModel[p])
    /\ calls \in 0..MaxCalls

LEMMA OpticsInitInv == OpticsInit => OpticsInv
<1> SUFFICES ASSUME OpticsInit PROVE OpticsInv
  OBVIOUS
<1>1. \A name : GoodValue(name, Unset)
  BY DEF GoodValue, Unset
<1>2. GoodSources(NotComputed)
  BY DEF GoodSources, NotComputed
<1>3. \A o \in Object : GoodParameters(o, param[o])
  BY <1>1 DEF OpticsInit, GoodParameters
<1>4. \A o \in Object : GoodDerived(o, derived[o])
  BY <1>2 DEF OpticsInit, GoodDerived
<1>5. \A p \in Phy : GoodCopies(lossModel[p])
  BY DEF OpticsInit, GoodCopies
<1>6. calls \in 0..MaxCalls
  BY OpticsBounds DEF OpticsInit
<1>7. QED
  BY <1>3, <1>4, <1>5, <1>6 DEF OpticsInit, OpticsInv

(* A setter stores a good value, if it takes the angle in the unit that it *)
(* does not convert.                                                       *)
LEMMA StoredIsGood ==
    ASSUME NEW o, NEW name, NEW v, NEW turns \in Nat,
           name \in Angles => turns >= 1 \/ name \in Converting(o)
    PROVE  GoodValue(name, Stored(o, name, Given(v, turns)))
<1> DEFINE x == Given(v, turns)
<1>1. x = [given |-> {v}, turns |-> turns]
  BY DEF Given
<1>2. [x EXCEPT !.turns = @ + 1] = [given |-> {v}, turns |-> turns + 1]
  BY <1>1
<1>3. CASE name \in Converting(o)
  BY <1>2, <1>3 DEF GoodValue, Stored
<1>4. CASE name \notin Converting(o)
  BY <1>1, <1>4 DEF GoodValue, Stored
<1>5. QED
  BY <1>3, <1>4

(* What is computed from good values.                                      *)
LEMMA ComputedIsGood ==
    ASSUME NEW o \in Object, NEW par, NEW der, NEW name \in DerivedOf(o),
           GoodParameters(o, par)
    PROVE  GoodSources(Computed(name, par, der))
<1> SUFFICES ASSUME NEW s \in SourcesOf(name), s \in Angles
             PROVE  GoodValue(s, par[s])
  BY DEF GoodSources, Computed, Angles
<1>1. s \in NamesOf(o)
  BY DEF DerivedOf, SourcesOf, NamesOf, PhyNames, RxNames, TxNames, Angles
<1>2. QED
  BY <1>1 DEF GoodParameters

(* A setter, called with a value in its unit.                              *)
LEMMA SetInv ==
    ASSUME OpticsInv, NEW o \in Object, NEW name \in NamesOf(o), NEW v,
           NEW turns \in Nat,
           name \in Angles => turns >= 1 \/ name \in Converting(o),
           Set(o, name, Given(v, turns))
    PROVE  OpticsInv'
<1> DEFINE y == Stored(o, name, Given(v, turns))
           par == [param[o] EXCEPT ![name] = y]
           der == AfterSet(o, name, par, derived[o])
<1>1. GoodParameters(o, param[o]) /\ GoodDerived(o, derived[o])
  BY DEF OpticsInv
<1>2. GoodValue(name, y)
  BY StoredIsGood
<1> HIDE DEF y
<1>3. GoodParameters(o, par)
  BY <1>1, <1>2 DEF GoodParameters
<1>4. GoodDerived(o, der)
  <2>1. CASE name = "semiangle" /\ "order" \in DerivedOf(o)
    <3>1. GoodSources(Computed("order", par, derived[o]))
      BY <1>3, <2>1, ComputedIsGood
    <3>2. der = [derived[o] EXCEPT !["order"] = Computed("order", par, derived[o])]
      BY <2>1 DEF AfterSet
    <3>3. QED
      BY <1>1, <3>1, <3>2 DEF GoodDerived
  <2>2. CASE name = "semiangle" /\ "order" \notin DerivedOf(o)
    <3>1. der = derived[o]
      BY <1>1, <2>2 DEF AfterSet, GoodDerived, NamesOf, DerivedOf, RxNames
    <3>2. QED
      BY <1>1, <3>1
  <2>3. CASE name # "semiangle"
    BY <1>1, <2>3 DEF AfterSet
  <2>4. QED
    BY <2>1, <2>2, <2>3
<1>5. /\ param' = [param EXCEPT ![o] = par]
      /\ derived' = [derived EXCEPT ![o] = der]
      /\ lossModel' = lossModel /\ calls < MaxCalls /\ calls' = calls + 1
  BY DEF Set, Put, Call, y
<1> HIDE DEF par, der
<1>6. DOMAIN param' = Object /\ \A q \in Object : GoodParameters(q, param'[q])
  BY <1>3, <1>5 DEF OpticsInv
<1>7. DOMAIN derived' = Object /\ \A q \in Object : GoodDerived(q, derived'[q])
  BY <1>4, <1>5 DEF OpticsInv
<1>8. calls' \in 0..MaxCalls
  BY <1>5, OpticsBounds DEF OpticsInv
<1>9. QED
  BY <1>5, <1>6, <1>7, <1>8 DEF OpticsInv

LEMMA ComputeInv ==
    ASSUME OpticsInv, NEW o \in Object, NEW name \in DerivedOf(o), Compute(o, name)
    PROVE  OpticsInv'
<1> DEFINE c == Computed(name, param[o], derived[o])
<1>1. GoodParameters(o, param[o]) /\ GoodDerived(o, derived[o])
  BY DEF OpticsInv
<1>2. GoodSources(c)
  BY <1>1, ComputedIsGood
<1>3. /\ derived' = [derived EXCEPT ![o][name] = c]
      /\ param' = param /\ lossModel' = lossModel
      /\ calls < MaxCalls /\ calls' = calls + 1
  BY DEF Compute, Call
<1> HIDE DEF c
<1>4. GoodDerived(o, [derived[o] EXCEPT ![name] = c])
  BY <1>1, <1>2 DEF GoodDerived
<1>5. DOMAIN derived' = Object /\ \A q \in Object : GoodDerived(q, derived'[q])
  BY <1>3, <1>4 DEF OpticsInv
<1>6. calls' \in 0..MaxCalls
  BY <1>3, OpticsBounds DEF OpticsInv
<1>7. QED
  BY <1>3, <1>5, <1>6 DEF OpticsInv

(* The helper sets all parameters before it computes and copies.           *)
LEMMA CreateOpticsInv ==
    ASSUME OpticsInv, NEW p \in Phy, NEW v, CreateOptics(p, v)
    PROVE  OpticsInv'
<1> DEFINE par == SetParameters(p, v, param[p])
           der == [n \in DerivedOf(p) |-> Computed(n, par, derived[p])]
           copies == AttachPropagationLossModel(par, der)
<1>1. p \in Object /\ NamesOf(p) = PhyNames
  BY DEF Object, NamesOf
<1>2. ASSUME NEW name \in PhyNames
      PROVE  GoodValue(name, par[name]) /\ par[name] # Unset
  <2> DEFINE turns == IF name \in {"semiangle", "FOV"} THEN 1 ELSE 0
  <2>1. par[name] = Stored(p, name, Given(v, turns))
    BY DEF SetParameters
  <2>2. turns \in Nat /\ (name \in Angles => turns >= 1)
    BY DEF PhyNames, Angles
  <2> HIDE DEF par, turns
  <2>3. GoodValue(name, par[name])
    BY <2>1, <2>2, StoredIsGood
  <2>4. par[name].given = {v}
    BY <2>1, <2>2 DEF Stored, Given
  <2>5. QED
    BY <2>3, <2>4 DEF Unset
<1>3. DOMAIN par = PhyNames
  BY DEF SetParameters
<1> HIDE DEF par
<1>4. GoodParameters(p, par)
  BY <1>1, <1>2, <1>3 DEF GoodParameters
<1>5. GoodDerived(p, der)
  <2>1. \A n \in DerivedOf(p) : GoodSources(Computed(n, par, derived[p]))
    BY <1>1, <1>4, ComputedIsGood
  <2>2. QED
    BY <2>1 DEF GoodDerived
<1>6. GoodCopies(copies)
  <2> DEFINE z == Computed("concentrationGain", par, derived[p])
  <2>1. "concentrationGain" \in DerivedOf(p)
    BY DEF DerivedOf
  <2>2. copies = {<<"filterGain", par["filterGain"]>>, <<"area", par["area"]>>,
                  <<"concentrationGain", z>>}
    BY <2>1 DEF AttachPropagationLossModel
  <2>3. z = {<<"refIndex", par["refIndex"]>>, <<"FOV", par["FOV"]>>}
    BY DEF Computed, SourcesOf
  <2>4. /\ par["filterGain"] # Unset /\ par["area"] # Unset
        /\ par["refIndex"] # Unset /\ par["FOV"] # Unset
    BY <1>2 DEF PhyNames
  <2>5. z # NotComputed /\ \A s \in z : s[2] # Unset
    <3> DEFINE x == <<"refIndex", par["refIndex"]>>
               y == <<"FOV", par["FOV"]>>
    <3>1. x[2] # Unset /\ y[2] # Unset
      BY <2>4
    <3>2. z = {x, y}
      BY <2>3
    <3> HIDE DEF x, y, z
    <3>3. QED
      BY <3>1, <3>2 DEF NotComputed
  <2> HIDE DEF z
  <2>6. QED
    BY <2>2, <2>4, <2>5 DEF GoodCopies
<1>7. /\ param' = [param EXCEPT ![p] = par]
      /\ derived' = [derived EXCEPT ![p] = der]
      /\ lossModel' = [lossModel EXCEPT ![p] = copies]
      /\ calls' = calls
  BY DEF CreateOptics, par
<1> HIDE DEF der, copies
<1>8. DOMAIN param' = Object /\ \A q \in Object : GoodParameters(q, param'[q])
  BY <1>1, <1>4, <1>7 DEF OpticsInv
<1>9. DOMAIN derived' = Object /\ \A q \in Object : GoodDerived(q, derived'[q])
  BY <1>1, <1>5, <1>7 DEF OpticsInv
<1>10. DOMAIN lossModel' = Phy /\ \A q \in Phy : GoodCopies(lossModel'[q])
  BY <1>6, <1>7 DEF OpticsInv
<1>11. QED
  BY <1>7, <1>8, <1>9, <1>10 DEF OpticsInv

LEMMA OpticsStepInv ==
    ASSUME OpticsInv, Optics
    PROVE  OpticsInv'
<1>1. ASSUME NEW p \in Phy, NEW name \in PhyNames, NEW v \in Value, SetPhy(p, name, v)
      PROVE  OpticsInv'
  <2>1. p \in Object /\ name \in NamesOf(p)
    BY DEF Object, NamesOf
  <2>2. AngleIn(p, name) \in Nat
    BY DEF AngleIn
  <2>3. name \in Angles => AngleIn(p, name) >= 1 \/ name \in Converting(p)
    BY DEF Angles, PhyNames, AngleIn, Converting
  <2>4. QED
    BY <1>1, <2>1, <2>2, <2>3, SetInv DEF SetPhy
<1>2. ASSUME NEW r \in Rx, NEW name \in RxNames, NEW v \in Value, SetRx(r, name, v)
      PROVE  OpticsInv'
  <2>1. r \in Object /\ name \in NamesOf(r) /\ r \notin Phy
    BY ObjectAssumption DEF Object, NamesOf
  <2>2. AngleIn(r, name) \in Nat
    BY DEF AngleIn
  <2>3. name \in Angles => name \in Converting(r)
    BY <2>1 DEF Angles, RxNames, Converting
  <2>4. QED
    BY <1>2, <2>1, <2>2, <2>3, SetInv DEF SetRx
<1>3. ASSUME NEW t \in Tx, NEW name \in TxNames, NEW v \in Value, SetTx(t, name, v)
      PROVE  OpticsInv'
  <2>1. t \in Object /\ name \in NamesOf(t) /\ t \notin Phy /\ t \notin Rx
    BY ObjectAssumption DEF Object, NamesOf
  <2>2. AngleIn(t, name) \in Nat
    BY DEF AngleIn
  <2>3. name \in Angles => name \in Converting(t)
    BY <2>1 DEF Angles, TxNames, Converting
  <2>4. QED
    BY <1>3, <2>1, <2>2, <2>3, SetInv DEF SetTx
<1>4. Object = Phy \cup Rx \cup Tx
  BY ObjectAssumption DEF Object
<1>5. ASSUME NEW o \in Phy \cup Rx \cup Tx, NEW name \in DerivedOf(o), Compute(o, name)
      PROVE  OpticsInv'
  BY <1>4, <1>5, ComputeInv
<1>6. QED
  BY <1>1, <1>2, <1>3, <1>5 DEF Optics, ComputePhy, ComputeRx, ComputeTx

(* Outside the devices' own calls, only the helper touches the optics; a   *)
(* script's other calls are counted.                                       *)
LEMMA OpticsNextInv ==
    ASSUME OpticsInv, [ReceiverNext]_receiverVars
    PROVE  OpticsInv'
<1> DEFINE Kept == UNCHANGED <<param, derived, lossModel>>
<1>1. ASSUME Kept, Call PROVE OpticsInv'
  BY <1>1, OpticsBounds DEF OpticsInv, Call
<1>2. ASSUME UNCHANGED opticsVars PROVE OpticsInv'
  BY <1>2 DEF OpticsInv, opticsVars
<1>3. ASSUME NEW r \in Receiver, NEW e, SetErrorModel(r, e) PROVE OpticsInv'
  BY <1>1, <1>3 DEF SetErrorModel
<1>4. ASSUME NEW r \in Receiver, SetAlpha(r) PROVE OpticsInv'
  <2>1. CASE SetErrorModel(r, [m_error[r] EXCEPT !.alpha = 1])
    BY <1>3, <2>1
  <2>2. CASE Call /\ UNCHANGED <<param, derived, lossModel, modelVars, statsVars,
                                 receptions, decided>>
    BY <1>1, <2>2
  <2>3. QED
    BY <1>4, <2>1, <2>2 DEF SetAlpha
<1>5. ASSUME NEW r \in Rx, NEW v \in Value, AddLiFiSNRModel(r, v) PROVE OpticsInv'
  BY <1>1, <1>5 DEF AddLiFiSNRModel
<1>6. ASSUME NEW p \in Phy, NEW v \in Value, NEW s \in Scheme, CreatePhy(p, v, s)
      PROVE  OpticsInv'
  BY <1>6, CreateOpticsInv DEF CreatePhy
<1>7. ASSUME OpticsStep PROVE OpticsInv'
  BY <1>7, OpticsStepInv DEF OpticsStep
<1>8. ASSUME NEW p \in Phy, NEW w \in Power, PhyReceive(p, w) PROVE UNCHANGED opticsVars
  BY <1>8 DEF PhyReceive
<1>9. ASSUME NEW r \in Rx, NEW w \in Power, ErrorForRxNetDevice(r, w)
      PROVE  UNCHANGED opticsVars
  BY <1>9 DEF ErrorForRxNetDevice
<1>10. ASSUME \/ \E p \in Phy, type \in DeviceType : SetDeviceType(p, type)
              \/ \E r \in Rx : RxDeviceReceive(r)
              \/ ChannelSend
              \/ \E p \in Phy : ReportMeasurements(p)
              \/ SaveSNRBERLoss
              \/ Tick
       PROVE  UNCHANGED opticsVars
  BY <1>10 DEF SetDeviceType, RxDeviceReceive, ChannelSend, ReportMeasurements,
               SaveSNRBERLoss, Tick
<1>11. ASSUME ReceiverNext PROVE OpticsInv'
  BY <1>2, <1>3, <1>4, <1>5, <1>6, <1>7, <1>8, <1>9, <1>10, <1>11
     DEF ReceiverNext, SetScheme, SetModulationOrder
<1>12. CASE UNCHANGED receiverVars
  BY <1>2, <1>12 DEF receiverVars
<1>13. QED
  BY <1>11, <1>12

LEMMA OpticsInvHolds == OpticsInv => LossModelWasSet
<1> SUFFICES ASSUME OpticsInv PROVE LossModelWasSet
  OBVIOUS
<1>1. ASSUME NEW p \in Phy
      PROVE  /\ Cardinality(lossModel[p]) \in {0, 3}
             /\ \A c \in lossModel[p] :
                   IF c[1] = "concentrationGain"
                   THEN c[2] # NotComputed /\ \A s \in c[2] : s[2] # Unset
                   ELSE c[2] # Unset
  <2>1. GoodCopies(lossModel[p])
    BY DEF OpticsInv
  <2>2. CASE lossModel[p] = NotComputed
    BY <2>2, FS_EmptySet DEF NotComputed
  <2>3. CASE lossModel[p] # NotComputed
    <3>1. PICK x, y, z :
             /\ lossModel[p] = {<<"filterGain", x>>, <<"area", y>>, <<"concentrationGain", z>>}
             /\ x # Unset /\ y # Unset
             /\ z # NotComputed /\ \A s \in z : s[2] # Unset
      BY <2>1, <2>3 DEF GoodCopies
    <3> DEFINE a == <<"filterGain", x>>
               b == <<"area", y>>
               c == <<"concentrationGain", z>>
    <3>2. a # b /\ a # c /\ b # c
      OBVIOUS
    <3>3. a[1] # "concentrationGain" /\ b[1] # "concentrationGain"
          /\ c[1] = "concentrationGain" /\ a[2] = x /\ b[2] = y /\ c[2] = z
      OBVIOUS
    <3> HIDE DEF a, b, c
    <3>4. IsFiniteSet({a}) /\ Cardinality({a}) = 1
      BY FS_Singleton
    <3>5. IsFiniteSet({a} \cup {b}) /\ Cardinality({a} \cup {b}) = 2
      BY <3>2, <3>4, FS_AddElement
    <3>6. Cardinality(({a} \cup {b}) \cup {c}) = 3
      BY <3>2, <3>5, FS_AddElement
    <3>7. lossModel[p] = {a, b, c} /\ {a, b, c} = ({a} \cup {b}) \cup {c}
      BY <3>1 DEF a, b, c
    <3>8. Cardinality(lossModel[p]) = 3
      BY <3>6, <3>7
    <3>9. QED
      BY <3>1, <3>3, <3>7, <3>8
  <2>4. QED
    BY <2>2, <2>3
<1>2. \A o \in Object : DOMAIN param[o] = NamesOf(o) /\ DOMAIN derived[o] = DerivedOf(o)
  BY DEF OpticsInv, GoodParameters, GoodDerived
<1>3. OpticsTypeOK
  BY <1>1, <1>2 DEF OpticsInv, OpticsTypeOK
<1>4. AnglesInRadians
  BY DEF OpticsInv, GoodDerived, GoodSources, GoodValue, Angles, AnglesInRadians
<1>5. QED
  BY <1>1, <1>3, <1>4 DEF LossModelWasSet

(* For any devices and values: what a loss model was given was computed    *)
(* from parameters that had been set, and no sine or cosine is taken of an *)
(* angle in degrees, whatever LiFiPhy's setters do, and when.              *)
THEOREM LossModelsAreSet == ReceiverSpec => []LossModelWasSet
<1>1. ReceiverInit => OpticsInv
  BY OpticsInitInv DEF ReceiverInit
<1>2. OpticsInv /\ [ReceiverNext]_receiverVars => OpticsInv'
  BY OpticsNextInv
<1>3. QED
  BY <1>1, <1>2, OpticsInvHolds, PTL DEF ReceiverSpec

-----------------------------------------------------------------------------
(* Samples and decisions.                                                  *)

IsSnr(s) == s = [pr |-> s.pr, noise |-> s.noise, snr |-> s.snr]

IsErrorModel(e) ==
    /\ e = [scheme |-> e.scheme, order |-> e.order, alpha |-> e.alpha,
            snr |-> e.snr, rate |-> e.rate]
    /\ e.scheme \in Pam \cup PskQam \cup {"VPPM"}

LEMMA SeqOfMap ==
    ASSUME NEW S, NEW n \in Nat, NEW s \in [1..n -> S]
    PROVE  s \in Seq(S)
  BY SeqDef

OwnSample(sample) ==
    /\ sample.snr # None /\ sample.snr[1] = sample.loss
    /\ sample.errRate.snr = sample.snr

(* A physical layer made by the helper knows its noise, and has a rate     *)
(* only of schemes other than PSK and QAM.                                 *)
OwnInv ==
    /\ DOMAIN lossModel = Phy
    /\ DOMAIN m_LifiSNR = Receiver /\ \A r \in Receiver : IsSnr(m_LifiSNR[r])
    /\ DOMAIN m_error = Receiver /\ \A r \in Receiver : IsErrorModel(m_error[r])
    /\ \A p \in Phy :
          /\ lossModel[p] # NotComputed => m_LifiSNR[p].noise # None
          /\ m_error[p].rate = None \/ m_error[p].rate.scheme \notin PskQam
    /\ DOMAIN stats = Receiver
    /\ \A r \in Receiver : \E S : stats[r] \in Seq(S)
    /\ SampleIsOwn
    /\ DecidedByOwnRate

LEMMA SchemesApart ==
    /\ "VPPM" \notin PskQam /\ "VPPM" \notin Pam /\ "OOK" \in Pam
    /\ Pam \cap PskQam = {}
  BY DEF Pam, PskQam

LEMMA OwnInitInv == ReceiverInit => OwnInv
<1> SUFFICES ASSUME ReceiverInit PROVE OwnInv
  OBVIOUS
<1>1. IsSnr(NewSnr)
  BY DEF IsSnr, NewSnr
<1>2. IsErrorModel(NewErrorModel) /\ NewErrorModel.rate = None
  BY DEF IsErrorModel, NewErrorModel, Pam
<1>3. Phy \subseteq Receiver
  BY DEF Receiver
<1>4. \A r \in Receiver : stats[r] = <<>> /\ stats[r] \in Seq({})
  <2>1. \A r \in Receiver : stats[r] = <<>>
    BY DEF ReceiverInit
  <2>2. <<>> \in Seq({})
    OBVIOUS
  <2>3. QED
    BY <2>1, <2>2
<1>5. SampleIsOwn
  BY <1>4 DEF SampleIsOwn
<1>6. DecidedByOwnRate
  BY DEF ReceiverInit, DecidedByOwnRate
<1>7. \A r \in Receiver : \E S : stats[r] \in Seq(S)
  BY <1>4
<1>8. /\ DOMAIN m_LifiSNR = Receiver /\ \A r \in Receiver : IsSnr(m_LifiSNR[r])
      /\ DOMAIN m_error = Receiver /\ \A r \in Receiver : IsErrorModel(m_error[r])
      /\ \A p \in Phy : m_error[p].rate = None
  BY <1>1, <1>2, <1>3 DEF ReceiverInit
<1>9. DOMAIN lossModel = Phy /\ \A p \in Phy : lossModel[p] = NotComputed
  BY DEF ReceiverInit, OpticsInit
<1>10. DOMAIN stats = Receiver
  BY DEF ReceiverInit
<1>11. QED
  BY <1>5, <1>6, <1>7, <1>8, <1>9, <1>10 DEF OwnInv

(* The three ways to calculate an error rate.                              *)
LEMMA ErrorRates ==
    ASSUME NEW e
    PROVE  /\ e.scheme = "VPPM" => CalculateErrorRate(e) = CalculateBER(e)
           /\ e.scheme \in Pam => CalculateErrorRate(e) = CalculateSER(e)
           /\ e.scheme \in PskQam => CalculateErrorRate(e) = e
<1>1. CASE e.scheme = "VPPM"
  BY <1>1, SchemesApart DEF CalculateErrorRate
<1>2. CASE e.scheme \in Pam
  BY <1>2, SchemesApart DEF CalculateErrorRate
<1>3. CASE e.scheme \notin Pam \cup {"VPPM"}
  BY <1>3 DEF CalculateErrorRate, ComputeBER
<1>4. QED
  BY <1>1, <1>2, <1>3, SchemesApart

(* The order of the calls: received power, ratio, rate.                    *)
LEMMA MeasuredIsOwn ==
    ASSUME NEW r \in Receiver, NEW loss, IsSnr(m_LifiSNR[r]),
           m_LifiSNR[r].noise # None, IsErrorModel(m_error[r])
    PROVE  /\ IsSnr(Measured(r, loss).snr)
           /\ Measured(r, loss).snr.noise = m_LifiSNR[r].noise
           /\ Measured(r, loss).snr.snr = <<loss, m_LifiSNR[r].noise>>
           /\ IsErrorModel(Measured(r, loss).error)
           /\ Measured(r, loss).error.snr = Measured(r, loss).snr.snr
           /\ LET e == Measured(r, loss).error IN
                 IF e.scheme \in PskQam THEN e.rate = m_error[r].rate
                 ELSE /\ e.rate # None /\ e.rate.snr = e.snr
                      /\ e.rate.scheme = e.scheme
<1> DEFINE s == m_LifiSNR[r]
           ratio == <<loss, s.noise>>
           after == [pr |-> loss, noise |-> s.noise, snr |-> ratio]
           e == m_error[r]
           f == [scheme |-> e.scheme, order |-> e.order, alpha |-> e.alpha,
                 snr |-> ratio, rate |-> e.rate]
           ook == [scheme |-> "OOK", order |-> 2, alpha |-> e.alpha,
                   snr |-> ratio, rate |-> e.rate]
<1>1. SetReceivedPower(s, loss) = [pr |-> loss, noise |-> s.noise, snr |-> s.snr]
  BY DEF SetReceivedPower, IsSnr
<1>2. CalculateSNR(SetReceivedPower(s, loss)) = after
  BY <1>1 DEF CalculateSNR
<1>3. [e EXCEPT !.snr = ratio] = f
  BY DEF IsErrorModel
<1>4. Measured(r, loss) = [snr |-> after, error |-> CalculateErrorRate(f)]
  BY <1>2, <1>3 DEF Measured
<1>5. f.scheme \in Pam \cup PskQam \cup {"VPPM"}
  BY DEF IsErrorModel
<1>6. CASE f.scheme = "VPPM"
  <2>1. CalculateErrorRate(f) = [f EXCEPT !.rate = Rate(f)]
    BY <1>6, ErrorRates DEF CalculateBER
  <2>2. Rate(f) = [scheme |-> "VPPM", order |-> e.order, alpha |-> e.alpha, snr |-> ratio]
    BY <1>6 DEF Rate
  <2> DEFINE rate == Rate(f)
  <2>3. CalculateErrorRate(f)
          = [scheme |-> "VPPM", order |-> e.order, alpha |-> e.alpha,
             snr |-> ratio, rate |-> rate]
    BY <1>6, <2>1
  <2>4. rate # None /\ rate.snr = ratio /\ rate.scheme = "VPPM"
    BY <2>2 DEF None
  <2> HIDE DEF rate
  <2>5. QED
    BY <1>4, <2>3, <2>4, SchemesApart DEF IsSnr, IsErrorModel
<1>7. CASE f.scheme \in Pam
  <2>1. CalculateErrorRate(f) = CalculateSER(f)
    BY <1>7, ErrorRates
  <2>2. [f EXCEPT !.scheme = "OOK", !.order = 2] = ook
    <3>1. f = [scheme |-> e.scheme, order |-> e.order, alpha |-> e.alpha,
               snr |-> ratio, rate |-> e.rate]
      OBVIOUS
    <3> DEFINE w == [f EXCEPT !.scheme = "OOK"]
    <3> HIDE DEF f, e, ratio
    <3>2. [f EXCEPT !.scheme = "OOK", !.order = 2] = [w EXCEPT !.order = 2]
      OBVIOUS
    <3>3. w = [scheme |-> "OOK", order |-> e.order, alpha |-> e.alpha,
               snr |-> ratio, rate |-> e.rate]
      BY <3>1
    <3> HIDE DEF w
    <3>4. [w EXCEPT !.order = 2] = ook
      BY <3>3
    <3>5. QED
      BY <3>2, <3>4
  <2>3. CalculateSER(f) = [ook EXCEPT !.rate = Rate(ook)]
    BY <2>2 DEF CalculateSER
  <2> DEFINE rate == Rate(ook)
  <2>4. rate = [scheme |-> "OOK", order |-> 2, alpha |-> e.alpha, snr |-> ratio]
    BY DEF Rate
  <2>5. CalculateErrorRate(f)
          = [scheme |-> "OOK", order |-> 2, alpha |-> e.alpha,
             snr |-> ratio, rate |-> rate]
    BY <2>1, <2>3
  <2>6. rate # None /\ rate.snr = ratio /\ rate.scheme = "OOK"
    BY <2>4 DEF None
  <2> HIDE DEF rate
  <2>7. QED
    BY <1>4, <2>5, <2>6, SchemesApart DEF IsSnr, IsErrorModel
<1>8. CASE f.scheme \in PskQam
  <2>1. CalculateErrorRate(f) = f
    BY <1>8, ErrorRates
  <2>2. QED
    BY <1>4, <1>8, <2>1 DEF IsSnr, IsErrorModel
<1>9. QED
  BY <1>5, <1>6, <1>7, <1>8

(* A sample that is appended.                                              *)
LEMMA AppendedSample ==
    ASSUME NEW S, NEW s \in Seq(S), NEW x,
           \A i \in DOMAIN s : OwnSample(s[i]), OwnSample(x)
    PROVE  /\ \E T : Append(s, x) \in Seq(T)
           /\ \A i \in DOMAIN Append(s, x) : OwnSample(Append(s, x)[i])
<1>1. s \in Seq(S \cup {x}) /\ x \in S \cup {x}
  OBVIOUS
<1>2. Append(s, x) \in Seq(S \cup {x})
  BY <1>1
<1>3. /\ DOMAIN Append(s, x) = 1..(Len(s) + 1) /\ Len(s) \in Nat /\ DOMAIN s = 1..Len(s)
      /\ \A i \in 1..Len(s) : Append(s, x)[i] = s[i]
      /\ Append(s, x)[Len(s) + 1] = x
  BY <1>1
<1>4. \A i \in 1..(Len(s) + 1) : i \in 1..Len(s) \/ i = Len(s) + 1
  BY <1>3
<1>5. QED
  BY <1>2, <1>3, <1>4

LEMMA SamplesOwn == SampleIsOwn <=>
    \A r \in Receiver : \A i \in DOMAIN stats[r] : OwnSample(stats[r][i])
  BY DEF SampleIsOwn, OwnSample

(* What a receiver records with what it has measured.                      *)
LEMMA RecordedInv ==
    ASSUME OwnInv, NEW r \in Receiver, NEW loss, m_LifiSNR[r].noise # None,
           NEW model,
           Recorded(r, Sample(loss, Measured(r, loss).snr, model)),
           model.snr = Measured(r, loss).snr.snr
    PROVE  /\ DOMAIN stats' = Receiver
           /\ \A q \in Receiver : \E S : stats'[q] \in Seq(S)
           /\ SampleIsOwn'
<1> DEFINE x == Sample(loss, Measured(r, loss).snr, model)
<1>1. Measured(r, loss).snr.snr = <<loss, m_LifiSNR[r].noise>>
  BY MeasuredIsOwn DEF OwnInv
<1>2. OwnSample(x)
  <2>1. x = [id |-> receptions + 1, age |-> 0, loss |-> loss,
             snr |-> Measured(r, loss).snr.snr, errRate |-> Rate(model)]
    BY DEF Sample, ErrorRate
  <2>2. Rate(model).snr = model.snr
    BY DEF Rate
  <2>3. <<loss, m_LifiSNR[r].noise>> # None
    BY DEF None
  <2>4. QED
    BY <1>1, <2>1, <2>2, <2>3 DEF OwnSample
<1>3. stats' = [stats EXCEPT ![r] = Append(@, x)]
  BY DEF Recorded
<1> HIDE DEF x
<1>4. PICK S : stats[r] \in Seq(S)
  BY DEF OwnInv
<1>5. \A i \in DOMAIN stats[r] : OwnSample(stats[r][i])
  BY SamplesOwn DEF OwnInv
<1>6. /\ \E T : Append(stats[r], x) \in Seq(T)
      /\ \A i \in DOMAIN Append(stats[r], x) : OwnSample(Append(stats[r], x)[i])
  BY <1>2, <1>4, <1>5, AppendedSample
<1> DEFINE t == Append(stats[r], x)
<1>7. /\ DOMAIN stats' = Receiver /\ stats'[r] = t
      /\ \A q \in Receiver \ {r} : stats'[q] = stats[q]
  BY <1>3 DEF OwnInv
<1> HIDE DEF t
<1>8. \A q \in Receiver \ {r} :
          /\ \E S2 : stats[q] \in Seq(S2)
          /\ \A i \in DOMAIN stats[q] : OwnSample(stats[q][i])
  BY SamplesOwn DEF OwnInv
<1>9. ASSUME NEW q \in Receiver
      PROVE  /\ \E S2 : stats'[q] \in Seq(S2)
             /\ \A i \in DOMAIN stats'[q] : OwnSample(stats'[q][i])
  BY <1>6, <1>7, <1>8 DEF t
<1>10. SampleIsOwn'
  BY <1>9 DEF SampleIsOwn, OwnSample
<1>11. QED
  BY <1>7, <1>9, <1>10

LEMMA PhyReceiveOwn ==
    ASSUME OwnInv, NEW p \in Phy, NEW w, PhyReceive(p, w)
    PROVE  OwnInv'
<1> DEFINE loss == Loss(p, w)
           after == Measured(p, loss)
<1>1. p \in Receiver /\ lossModel[p] # NotComputed /\ lossModel' = lossModel
  BY DEF PhyReceive, Receiver, opticsVars
<1>2. m_LifiSNR[p].noise # None /\ IsSnr(m_LifiSNR[p]) /\ IsErrorModel(m_error[p])
  BY <1>1 DEF OwnInv
<1>3. CASE Throws(m_error[p])
  <2>1. UNCHANGED <<lossModel, m_LifiSNR, m_error, stats, decided>>
    BY <1>1, <1>3 DEF PhyReceive, modelVars, statsVars
  <2>2. QED
    BY <2>1 DEF OwnInv, SampleIsOwn, DecidedByOwnRate
<1>4. CASE ~ Throws(m_error[p])
  <2>1. /\ m_LifiSNR' = [m_LifiSNR EXCEPT ![p] = after.snr]
        /\ m_error' = [m_error EXCEPT ![p] = after.error]
        /\ Recorded(p, Sample(loss, after.snr, after.error))
        /\ \E corrupt \in IsCorrupt(after.error) : Decision(p, after.error, corrupt)
    BY <1>4 DEF PhyReceive
  <2>2. /\ IsSnr(after.snr) /\ after.snr.noise = m_LifiSNR[p].noise
        /\ IsErrorModel(after.error) /\ after.error.snr = after.snr.snr
        /\ IF after.error.scheme \in PskQam THEN after.error.rate = m_error[p].rate
           ELSE /\ after.error.rate # None /\ after.error.rate.snr = after.error.snr
                /\ after.error.rate.scheme = after.error.scheme
    BY <1>1, <1>2, MeasuredIsOwn
  <2>3. /\ DOMAIN stats' = Receiver
        /\ \A q \in Receiver : \E S : stats'[q] \in Seq(S)
        /\ SampleIsOwn'
    BY <1>1, <1>2, <2>1, <2>2, RecordedInv
  <2> HIDE DEF after
  <2>4. after.error.rate = None \/ after.error.rate.scheme \notin PskQam
    BY <2>2 DEF OwnInv
  <2>5. DecidedByOwnRate'
    <3>1. PICK corrupt : Decision(p, after.error, corrupt)
      BY <2>1
    <3>2. decided'[1] = [at |-> p, snr |-> after.error.snr, scheme |-> after.error.scheme,
                         rate |-> after.error.rate, corrupt |-> corrupt]
      BY <3>1 DEF Decision
    <3>3. /\ decided'[1].scheme = after.error.scheme /\ decided'[1].rate = after.error.rate
          /\ decided'[1].snr = after.error.snr
      BY <3>2
    <3>4. QED
      BY <2>2, <2>4, <3>3 DEF DecidedByOwnRate
  <2>6. /\ DOMAIN m_LifiSNR' = Receiver /\ m_LifiSNR'[p] = after.snr
        /\ \A r \in Receiver \ {p} : m_LifiSNR'[r] = m_LifiSNR[r]
    BY <1>1, <2>1 DEF OwnInv
  <2>7. /\ DOMAIN m_error' = Receiver /\ m_error'[p] = after.error
        /\ \A r \in Receiver \ {p} : m_error'[r] = m_error[r]
    BY <1>1, <2>1 DEF OwnInv
  <2>8. \A r \in Receiver : IsSnr(m_LifiSNR'[r]) /\ IsErrorModel(m_error'[r])
    BY <2>2, <2>6, <2>7 DEF OwnInv
  <2>9. \A q \in Phy :
           /\ lossModel[q] # NotComputed => m_LifiSNR'[q].noise # None
           /\ m_error'[q].rate = None \/ m_error'[q].rate.scheme \notin PskQam
    BY <1>2, <2>2, <2>4, <2>6, <2>7 DEF OwnInv, Receiver
  <2>10. QED
    BY <1>1, <2>3, <2>5, <2>6, <2>7, <2>8, <2>9 DEF OwnInv
<1>5. QED
  BY <1>3, <1>4

LEMMA ErrorForRxOwn ==
    ASSUME OwnInv, NEW r \in Rx, NEW w, ErrorForRxNetDevice(r, w)
    PROVE  OwnInv'
<1> DEFINE loss == <<w>>
           after == Measured(r, loss)
           model == [after.error EXCEPT !.rate = ErrorRate(after.error)]
<1>1. r \in Receiver /\ r \notin Phy /\ lossModel' = lossModel /\ decided' = decided
  BY ObjectAssumption DEF ErrorForRxNetDevice, Receiver, opticsVars
<1>2. m_LifiSNR[r].noise # None /\ IsSnr(m_LifiSNR[r]) /\ IsErrorModel(m_error[r])
  BY <1>1 DEF OwnInv, ErrorForRxNetDevice
<1>3. CASE Throws(m_error[r])
  <2>1. UNCHANGED <<lossModel, m_LifiSNR, m_error, stats, decided>>
    BY <1>1, <1>3 DEF ErrorForRxNetDevice
  <2>2. QED
    BY <2>1 DEF OwnInv, SampleIsOwn, DecidedByOwnRate
<1>4. CASE ~ Throws(m_error[r])
  <2>1. /\ m_LifiSNR' = [m_LifiSNR EXCEPT ![r] = after.snr]
        /\ m_error' = [m_error EXCEPT ![r] = model]
        /\ Recorded(r, Sample(loss, after.snr, after.error))
    BY <1>4 DEF ErrorForRxNetDevice
  <2>2. /\ IsSnr(after.snr)
        /\ IsErrorModel(after.error) /\ after.error.snr = after.snr.snr
    BY <1>1, <1>2, MeasuredIsOwn
  <2>3. /\ DOMAIN stats' = Receiver
        /\ \A q \in Receiver : \E S : stats'[q] \in Seq(S)
        /\ SampleIsOwn'
    BY <1>1, <1>2, <2>1, <2>2, RecordedInv
  <2> DEFINE error == after.error
             rate == ErrorRate(error)
  <2>4. IsErrorModel(model)
    <3>1. IsErrorModel(error) /\ model = [error EXCEPT !.rate = rate]
      BY <2>2
    <3> HIDE DEF error, model, rate
    <3>2. model = [scheme |-> error.scheme, order |-> error.order, alpha |-> error.alpha,
                   snr |-> error.snr, rate |-> rate]
      BY <3>1 DEF IsErrorModel
    <3>3. QED
      BY <3>1, <3>2 DEF IsErrorModel
  <2> HIDE DEF model, after
  <2>5. DecidedByOwnRate'
    BY <1>1 DEF OwnInv, DecidedByOwnRate
  <2>6. /\ DOMAIN m_LifiSNR' = Receiver /\ m_LifiSNR'[r] = after.snr
        /\ \A q \in Receiver \ {r} : m_LifiSNR'[q] = m_LifiSNR[q]
    BY <1>1, <2>1 DEF OwnInv
  <2>7. /\ DOMAIN m_error' = Receiver /\ m_error'[r] = model
        /\ \A q \in Receiver \ {r} : m_error'[q] = m_error[q]
    BY <1>1, <2>1 DEF OwnInv
  <2>8. \A q \in Receiver : IsSnr(m_LifiSNR'[q]) /\ IsErrorModel(m_error'[q])
    BY <2>2, <2>4, <2>6, <2>7 DEF OwnInv
  <2>9. \A q \in Phy : q \in Receiver \ {r}
    BY <1>1 DEF Receiver
  <2>10. \A q \in Phy :
           /\ lossModel[q] # NotComputed => m_LifiSNR'[q].noise # None
           /\ m_error'[q].rate = None \/ m_error'[q].rate.scheme \notin PskQam
    BY <2>6, <2>7, <2>9 DEF OwnInv
  <2>11. QED
    BY <1>1, <2>3, <2>5, <2>6, <2>7, <2>8, <2>10 DEF OwnInv
<1>5. QED
  BY <1>3, <1>4

(* A script that gives a receiver another error model with the rate of the *)
(* old one.                                                                *)
LEMMA SetErrorModelOwn ==
    ASSUME OwnInv, NEW r \in Receiver, NEW e, IsErrorModel(e),
           e.rate = m_error[r].rate, SetErrorModel(r, e)
    PROVE  OwnInv'
<1>1. /\ m_error' = [m_error EXCEPT ![r] = e]
      /\ UNCHANGED <<lossModel, m_LifiSNR, stats, decided>>
  BY DEF SetErrorModel, statsVars
<1>2. /\ DOMAIN m_error' = Receiver /\ m_error'[r] = e
      /\ \A q \in Receiver \ {r} : m_error'[q] = m_error[q]
  BY <1>1 DEF OwnInv
<1>3. \A q \in Receiver : IsErrorModel(m_error'[q])
  BY <1>2 DEF OwnInv
<1>4. \A q \in Phy : m_error'[q].rate = None \/ m_error'[q].rate.scheme \notin PskQam
  BY <1>2 DEF OwnInv, Receiver
<1>5. QED
  BY <1>1, <1>2, <1>3, <1>4 DEF OwnInv, SampleIsOwn, DecidedByOwnRate

(* With the noise calculated, an SNR model may replace any other.          *)
LEMMA NoiseOwn ==
    ASSUME NEW area
    PROVE  /\ IsSnr(CalculateNoiseVar(NewSnr, area))
           /\ CalculateNoiseVar(NewSnr, area).noise # None
<1>1. CalculateNoiseVar(NewSnr, area) = [pr |-> None, noise |-> <<area, None>>, snr |-> None]
  BY DEF CalculateNoiseVar, NewSnr
<1>2. <<area, None>> # None
  BY DEF None
<1>3. QED
  BY <1>1, <1>2 DEF IsSnr

LEMMA CreatePhyOwn ==
    ASSUME OwnInv, NEW p \in Phy, NEW v, NEW scheme, CreatePhy(p, v, scheme)
    PROVE  OwnInv'
<1> DEFINE s == AttachSNRModel(param'[p]["area"])
           e == AddError(scheme, Enum[scheme])
<1>1. IsSnr(s) /\ s.noise # None
  BY NoiseOwn DEF AttachSNRModel
<1>2. IsErrorModel(e) /\ e.rate = None
  <2> DEFINE alpha == IF scheme = "VPPM" THEN 1 ELSE 0
             order == Enum[scheme]
  <2>1. e = [NewErrorModel EXCEPT !.alpha = alpha, !.order = order]
    BY DEF AddError
  <2> HIDE DEF alpha, order, e
  <2>2. e = [scheme |-> "PAM4", order |-> order, alpha |-> alpha, snr |-> None, rate |-> None]
    BY <2>1 DEF NewErrorModel
  <2>3. QED
    BY <2>2 DEF IsErrorModel, Pam
<1>3. /\ m_error' = [m_error EXCEPT ![p] = e]
      /\ m_LifiSNR' = [m_LifiSNR EXCEPT ![p] = s]
      /\ UNCHANGED <<stats, decided>>
  BY DEF CreatePhy, statsVars
<1>4. \E c : lossModel' = [lossModel EXCEPT ![p] = c]
  BY DEF CreatePhy, CreateOptics
<1> HIDE DEF s, e
<1>5. p \in Receiver
  BY DEF Receiver
<1>6. /\ DOMAIN m_error' = Receiver /\ m_error'[p] = e
      /\ \A q \in Receiver \ {p} : m_error'[q] = m_error[q]
  BY <1>3, <1>5 DEF OwnInv
<1>7. /\ DOMAIN m_LifiSNR' = Receiver /\ m_LifiSNR'[p] = s
      /\ \A q \in Receiver \ {p} : m_LifiSNR'[q] = m_LifiSNR[q]
  BY <1>3, <1>5 DEF OwnInv
<1>8. DOMAIN lossModel' = Phy /\ \A q \in Phy \ {p} : lossModel'[q] = lossModel[q]
  BY <1>4 DEF OwnInv
<1>9. \A q \in Receiver : IsSnr(m_LifiSNR'[q]) /\ IsErrorModel(m_error'[q])
  BY <1>1, <1>2, <1>6, <1>7 DEF OwnInv
<1>10. \A q \in Phy :
          /\ lossModel'[q] # NotComputed => m_LifiSNR'[q].noise # None
          /\ m_error'[q].rate = None \/ m_error'[q].rate.scheme \notin PskQam
  BY <1>1, <1>2, <1>6, <1>7, <1>8 DEF OwnInv, Receiver
<1>11. QED
  BY <1>3, <1>6, <1>7, <1>8, <1>9, <1>10 DEF OwnInv, SampleIsOwn, DecidedByOwnRate

(* A report clears samples, the clock makes them older.                    *)
LEMMA ClearedOwn ==
    ASSUME OwnInv, NEW from, UNCHANGED <<lossModel, m_LifiSNR, m_error, decided>>,
           stats' = [r \in Receiver |-> IF r \in from THEN <<>> ELSE stats[r]]
    PROVE  OwnInv'
<1>1. <<>> \in Seq({}) /\ DOMAIN <<>> = {}
  OBVIOUS
<1>2. \A r \in Receiver : \E S : stats'[r] \in Seq(S)
  BY <1>1 DEF OwnInv
<1>3. SampleIsOwn'
  BY <1>1 DEF OwnInv, SampleIsOwn
<1>4. QED
  BY <1>2, <1>3 DEF OwnInv, DecidedByOwnRate

LEMMA TickOwn ==
    ASSUME OwnInv,
           UNCHANGED <<lossModel, m_LifiSNR, m_error, decided>>,
           stats' = [r \in Receiver |-> [i \in DOMAIN stats[r] |->
                        [stats[r][i] EXCEPT !.age = IF @ > ChannelPeriod THEN @ ELSE @ + 1]]]
    PROVE  OwnInv'
<1>1. ASSUME NEW r \in Receiver
      PROVE  /\ DOMAIN stats'[r] = DOMAIN stats[r]
             /\ \E S : stats'[r] \in Seq(S)
             /\ \A i \in DOMAIN stats[r] : OwnSample(stats'[r][i])
  <2> DEFINE Older(x) == [x EXCEPT !.age = IF @ > ChannelPeriod THEN @ ELSE @ + 1]
             T == {Older(stats[r][i]) : i \in DOMAIN stats[r]}
  <2>1. stats'[r] = [i \in DOMAIN stats[r] |-> Older(stats[r][i])]
    OBVIOUS
  <2>2. PICK S : stats[r] \in Seq(S)
    BY DEF OwnInv
  <2>3. DOMAIN stats[r] = 1..Len(stats[r]) /\ Len(stats[r]) \in Nat
    BY <2>2
  <2>4. stats'[r] \in Seq(T)
    <3> DEFINE n == Len(stats[r])
    <3>1. stats'[r] \in [1..n -> T]
      BY <2>1, <2>3
    <3>2. n \in Nat
      BY <2>3
    <3> HIDE DEF n, T
    <3>3. QED
      BY <3>1, <3>2, SeqOfMap
  <2>5. ASSUME NEW i \in DOMAIN stats[r]
        PROVE  OwnSample(Older(stats[r][i]))
    <3>1. OwnSample(stats[r][i])
      BY SamplesOwn DEF OwnInv
    <3> DEFINE x == stats[r][i]
               y == IF x.age > ChannelPeriod THEN x.age ELSE x.age + 1
    <3>2. Older(x) = [x EXCEPT !.age = y]
      OBVIOUS
    <3> HIDE DEF x, y, Older
    <3>3. Older(x).snr = x.snr /\ Older(x).loss = x.loss /\ Older(x).errRate = x.errRate
      BY <3>2
    <3>4. QED
      BY <3>1, <3>3 DEF OwnSample, x
  <2>6. QED
    BY <2>1, <2>4, <2>5
<1>2. DOMAIN stats' = Receiver
  OBVIOUS
<1>3. SampleIsOwn'
  BY <1>1 DEF SampleIsOwn, OwnSample
<1>4. QED
  BY <1>1, <1>2, <1>3 DEF OwnInv, DecidedByOwnRate

LEMMA OwnNextInv ==
    ASSUME OwnInv, [ReceiverNext]_receiverVars
    PROVE  OwnInv'
<1> DEFINE Same == UNCHANGED <<lossModel, m_LifiSNR, m_error, stats, decided>>
<1>1. ASSUME Same PROVE OwnInv'
  BY <1>1 DEF OwnInv, SampleIsOwn, DecidedByOwnRate
<1>2. ASSUME OpticsStep PROVE OwnInv'
  <2>1. lossModel' = lossModel
    BY <1>2 DEF OpticsStep, Optics, SetPhy, SetRx, SetTx, ComputePhy, ComputeRx,
                ComputeTx, Set, Compute
  <2>2. QED
    BY <1>1, <1>2, <2>1 DEF OpticsStep, modelVars, statsVars
<1>3. ASSUME NEW p \in Phy, NEW v \in Value, NEW s \in Scheme, CreatePhy(p, v, s)
      PROVE  OwnInv'
  BY <1>3, CreatePhyOwn
<1>4. ASSUME NEW p \in Phy, NEW type \in DeviceType, SetDeviceType(p, type)
      PROVE  OwnInv'
  BY <1>1, <1>4 DEF SetDeviceType, opticsVars, statsVars
<1>5. ASSUME NEW r \in Receiver, NEW s \in Scheme, SetScheme(r, s) PROVE OwnInv'
  <2> DEFINE e == m_error[r]
             order == OrderOf(s, e.order)
  <2>1. IsErrorModel(e)
    BY DEF OwnInv
  <2>2. ModelScheme(e, s) = [e EXCEPT !.scheme = s, !.order = order]
    BY DEF ModelScheme
  <2> HIDE DEF order
  <2>3. ModelScheme(e, s) = [scheme |-> s, order |-> order, alpha |-> e.alpha,
                             snr |-> e.snr, rate |-> e.rate]
    BY <2>1, <2>2 DEF IsErrorModel
  <2>4. IsErrorModel(ModelScheme(e, s)) /\ ModelScheme(e, s).rate = e.rate
    BY <2>3, SchemeAssumption DEF IsErrorModel
  <2>5. QED
    BY <1>5, <2>4, SetErrorModelOwn DEF SetScheme
<1>6. ASSUME NEW r \in Receiver, NEW k, SetModulationOrder(r, k) PROVE OwnInv'
  <2> DEFINE e == m_error[r]
             f == [e EXCEPT !.order = k]
  <2>1. f = [scheme |-> e.scheme, order |-> k, alpha |-> e.alpha,
             snr |-> e.snr, rate |-> e.rate] /\ IsErrorModel(e)
    BY DEF OwnInv, IsErrorModel
  <2>2. IsErrorModel(f) /\ f.rate = e.rate
    BY <2>1 DEF IsErrorModel
  <2>3. QED
    BY <1>6, <2>2, SetErrorModelOwn DEF SetModulationOrder
<1>7. ASSUME NEW r \in Receiver, SetAlpha(r) PROVE OwnInv'
  <2> DEFINE e == m_error[r]
             f == [e EXCEPT !.alpha = 1]
  <2>1. f = [scheme |-> e.scheme, order |-> e.order, alpha |-> 1,
             snr |-> e.snr, rate |-> e.rate] /\ IsErrorModel(e)
    BY DEF OwnInv, IsErrorModel
  <2>2. IsErrorModel(f) /\ f.rate = e.rate
    BY <2>1 DEF IsErrorModel
  <2>3. CASE SetErrorModel(r, f)
    BY <2>2, <2>3, SetErrorModelOwn
  <2>4. CASE UNCHANGED <<param, derived, lossModel, modelVars, statsVars, receptions, decided>>
    BY <1>1, <2>4 DEF modelVars, statsVars
  <2>5. QED
    BY <1>7, <2>3, <2>4 DEF SetAlpha
<1>8. ASSUME NEW p \in Phy, NEW w \in Power, PhyReceive(p, w) PROVE OwnInv'
  BY <1>8, PhyReceiveOwn
<1>9. ASSUME NEW r \in Rx, NEW v \in Value, AddLiFiSNRModel(r, v) PROVE OwnInv'
  <2> DEFINE s == CalculateNoiseVar(NewSnr, v)
  <2>1. r \in Receiver /\ r \notin Phy
    BY ObjectAssumption DEF Receiver
  <2>2. /\ m_LifiSNR' = [m_LifiSNR EXCEPT ![r] = s]
        /\ UNCHANGED <<lossModel, m_error, stats, decided>>
    BY <1>9 DEF AddLiFiSNRModel, statsVars
  <2>3. IsSnr(s)
    BY NoiseOwn
  <2> HIDE DEF s
  <2>4. /\ DOMAIN m_LifiSNR' = Receiver /\ m_LifiSNR'[r] = s
        /\ \A q \in Receiver \ {r} : m_LifiSNR'[q] = m_LifiSNR[q]
    BY <2>1, <2>2 DEF OwnInv
  <2>5. \A q \in Phy : m_LifiSNR'[q] = m_LifiSNR[q]
    BY <2>1, <2>4 DEF Receiver
  <2>6. \A q \in Receiver : IsSnr(m_LifiSNR'[q])
    BY <2>3, <2>4 DEF OwnInv
  <2>7. QED
    BY <2>2, <2>4, <2>5, <2>6 DEF OwnInv, SampleIsOwn, DecidedByOwnRate
<1>10. ASSUME NEW r \in Rx, NEW w \in Power, ErrorForRxNetDevice(r, w) PROVE OwnInv'
  BY <1>10, ErrorForRxOwn
<1>11. ASSUME NEW r \in Rx, RxDeviceReceive(r) PROVE OwnInv'
  <2>1. r \notin Phy
    BY ObjectAssumption
  <2>2. UNCHANGED <<lossModel, m_LifiSNR, m_error, stats>>
    BY <1>11 DEF RxDeviceReceive, opticsVars, modelVars, statsVars
  <2>3. PICK corrupt : Decision(r, m_error[r], corrupt)
    BY <1>11 DEF RxDeviceReceive
  <2>4. decided'[1].at = r
    BY <2>3 DEF Decision
  <2>5. DecidedByOwnRate'
    BY <2>1, <2>4 DEF DecidedByOwnRate
  <2>6. QED
    BY <2>2, <2>5 DEF OwnInv, SampleIsOwn
<1>12. ASSUME ChannelSend PROVE OwnInv'
  BY <1>1, <1>12 DEF ChannelSend, opticsVars, modelVars
<1>13. ASSUME NEW p \in Phy, ReportMeasurements(p) PROVE OwnInv'
  BY <1>13, ClearedOwn DEF ReportMeasurements, Report, opticsVars, modelVars
<1>14. ASSUME SaveSNRBERLoss PROVE OwnInv'
  BY <1>14, ClearedOwn DEF SaveSNRBERLoss, Report, opticsVars, modelVars
<1>15. ASSUME Tick PROVE OwnInv'
  BY <1>15, TickOwn DEF Tick, opticsVars, modelVars
<1>16. CASE UNCHANGED receiverVars
  BY <1>1, <1>16 DEF receiverVars, opticsVars, modelVars, statsVars
<1>17. QED
  BY <1>2, <1>3, <1>4, <1>5, <1>6, <1>7, <1>8, <1>9, <1>10, <1>11, <1>12, <1>13,
     <1>14, <1>15, <1>16 DEF ReceiverNext

(* For any receivers and schemes: a sample's ratio is that of its own      *)
(* power, its rate that of its own ratio, and LiFiPhy::Receive decides by  *)
(* the rate of the packet's own reception, but for PSK and QAM.            *)
THEOREM ReceptionsAreOwn == ReceiverSpec => []OwnReception
<1>1. OwnInv => OwnReception
  BY DEF OwnInv, OwnReception
<1>2. ReceiverInit => OwnInv
  BY OwnInitInv
<1>3. OwnInv /\ [ReceiverNext]_receiverVars => OwnInv'
  BY OwnNextInv
<1>4. QED
  BY <1>1, <1>2, <1>3, PTL DEF ReceiverSpec

-----------------------------------------------------------------------------
(* Reports.                                                                *)

(* What was reported of a receiver, and what waits.                        *)
Line(r) == reported[r] \o Ids(stats[r])

Numbers(line) == {line[i] : i \in DOMAIN line}

Growing(line) == \A i, j \in DOMAIN line : i < j => line[i] < line[j]

GoodSamples(samples) ==
    /\ \E S : samples \in Seq(S)
    /\ \A i \in DOMAIN samples :
          /\ {"id", "age"} \subseteq DOMAIN samples[i]
          /\ samples[i].id \in Nat /\ samples[i].age \in Nat

(* A sample waits since the last report at most, of which it is known how  *)
(* long ago it was.                                                        *)
Waiting(samples, time) ==
    \/ time = None /\ samples = <<>>
    \/ \E left \in 0..PhyPeriod :
          /\ time = <<left>>
          /\ \A i \in DOMAIN samples : samples[i].age <= PhyPeriod - left

ReportInv ==
    /\ receptions \in Nat
    /\ DOMAIN stats = Receiver /\ DOMAIN reported = Receiver
    /\ DOMAIN toReport = Phy \cup {"channel"}
    /\ \A r \in Receiver :
          /\ reported[r] \in Seq(Nat) /\ GoodSamples(stats[r]) /\ Growing(Line(r))
    /\ UNION {Numbers(Line(r)) : r \in Receiver} = 1..receptions
    /\ \A p \in Phy : Waiting(stats[p], toReport[p])

LEMMA IdsAreNumbers ==
    ASSUME NEW samples, GoodSamples(samples)
    PROVE  /\ Ids(samples) \in Seq(Nat) /\ Len(Ids(samples)) = Len(samples)
           /\ Len(samples) \in Nat /\ DOMAIN samples = 1..Len(samples)
           /\ \A i \in 1..Len(samples) : Ids(samples)[i] = samples[i].id
<1>1. PICK S : samples \in Seq(S)
  BY DEF GoodSamples
<1>2. Len(samples) \in Nat /\ DOMAIN samples = 1..Len(samples)
  BY <1>1, LenProperties
<1>3. Ids(samples) = [i \in 1..Len(samples) |-> samples[i].id]
  BY <1>2 DEF Ids
<1>4. \A i \in 1..Len(samples) : samples[i].id \in Nat
  BY <1>2 DEF GoodSamples
<1>5. QED
  BY <1>2, <1>3, <1>4

LEMMA NoIds == Ids(<<>>) = <<>> /\ GoodSamples(<<>>)
<1>1. <<>> \in Seq({}) /\ DOMAIN <<>> = {}
  OBVIOUS
<1>2. QED
  BY <1>1 DEF Ids, GoodSamples

LEMMA LineType ==
    ASSUME ReportInv, NEW r \in Receiver
    PROVE  /\ Line(r) \in Seq(Nat) /\ DOMAIN Line(r) = 1..Len(Line(r))
           /\ Len(Line(r)) \in Nat
           /\ \A i \in DOMAIN Line(r) : Line(r)[i] \in 1..receptions
<1>1. reported[r] \in Seq(Nat) /\ Ids(stats[r]) \in Seq(Nat)
  BY IdsAreNumbers DEF ReportInv
<1>2. Line(r) \in Seq(Nat)
  BY <1>1, ConcatProperties DEF Line
<1>3. DOMAIN Line(r) = 1..Len(Line(r)) /\ Len(Line(r)) \in Nat
  BY <1>2, LenProperties
<1>4. \A i \in DOMAIN Line(r) : Line(r)[i] \in Numbers(Line(r))
  BY DEF Numbers
<1>5. Numbers(Line(r)) \subseteq 1..receptions
  BY DEF ReportInv
<1>6. QED
  BY <1>2, <1>3, <1>4, <1>5

(* As long as the lines stay, it does not matter where in them the reports *)
(* have come to.                                                           *)
LEMMA LinesStay ==
    ASSUME ReportInv, receptions' = receptions,
           \A r \in Receiver : Line(r)' = Line(r)
    PROVE  /\ receptions' \in Nat
           /\ \A r \in Receiver : Growing(Line(r))'
           /\ (UNION {Numbers(Line(r)) : r \in Receiver} = 1..receptions)'
<1>1. \A r \in Receiver : Growing(Line(r))' /\ Numbers(Line(r))' = Numbers(Line(r))
  BY DEF ReportInv, Growing, Numbers
<1>2. UNION {Numbers(Line(r))' : r \in Receiver} = UNION {Numbers(Line(r)) : r \in Receiver}
  BY <1>1
<1>3. QED
  BY <1>1, <1>2 DEF ReportInv

LEMMA ReportInitInv == ReceiverInit => ReportInv
<1> SUFFICES ASSUME ReceiverInit PROVE ReportInv
  OBVIOUS
<1>1. \A r \in Receiver : stats[r] = <<>> /\ reported[r] = <<>>
  BY DEF ReceiverInit
<1>2. <<>> \in Seq(Nat) /\ DOMAIN <<>> = {} /\ <<>> \o <<>> = <<>>
  BY ConcatEmptySeq, EmptySeq
<1>3. \A r \in Receiver : Line(r) = <<>>
  BY <1>1, <1>2, NoIds DEF Line
<1>4. \A r \in Receiver : Growing(Line(r)) /\ Numbers(Line(r)) = {}
  BY <1>2, <1>3 DEF Growing, Numbers
<1>5. receptions = 0 /\ 1..0 = {}
  <2>1. receptions = 0
    BY DEF ReceiverInit
  <2>2. QED
    BY <2>1
<1>6. UNION {Numbers(Line(r)) : r \in Receiver} = 1..receptions
  BY <1>4, <1>5
<1>7. \A p \in Phy : Waiting(stats[p], toReport[p])
  BY <1>1 DEF ReceiverInit, Waiting, Receiver
<1>8. /\ DOMAIN stats = Receiver /\ DOMAIN reported = Receiver
      /\ DOMAIN toReport = Phy \cup {"channel"}
  BY DEF ReceiverInit
<1>9. QED
  BY <1>1, <1>2, <1>4, <1>5, <1>6, <1>7, <1>8, NoIds DEF ReportInv

(* A sample joins the end of a line, with the next number.                 *)
LEMMA RecordedReport ==
    ASSUME ReportInv, NEW r \in Receiver, NEW loss, NEW s, NEW e,
           Recorded(r, Sample(loss, s, e)),
           reported' = reported, receptions' = receptions + 1
    PROVE  /\ receptions' \in Nat
           /\ DOMAIN stats' = Receiver /\ DOMAIN reported' = Receiver
           /\ \A q \in Receiver :
                 /\ reported'[q] \in Seq(Nat) /\ GoodSamples(stats'[q])
                 /\ Growing(Line(q))'
           /\ (UNION {Numbers(Line(q)) : q \in Receiver} = 1..receptions)'
           /\ \A q \in Receiver \ {r} : stats'[q] = stats[q]
           /\ \A i \in DOMAIN stats'[r] :
                 stats'[r][i].age = 0 \/ (i \in DOMAIN stats[r] /\ stats'[r][i] = stats[r][i])
<1> DEFINE x == Sample(loss, s, e)
           t == Append(stats[r], x)
           n == receptions + 1
<1>1. {"id", "age"} \subseteq DOMAIN x /\ x.id = n /\ x.age = 0
  BY DEF Sample
<1>2. /\ DOMAIN stats' = Receiver /\ stats'[r] = t
      /\ \A q \in Receiver \ {r} : stats'[q] = stats[q]
  BY DEF Recorded, ReportInv
<1>3. PICK S : stats[r] \in Seq(S)
  BY DEF ReportInv, GoodSamples
<1> HIDE DEF x
<1>4. /\ t \in Seq(S \cup {x}) /\ Len(stats[r]) \in Nat /\ DOMAIN stats[r] = 1..Len(stats[r])
      /\ DOMAIN t = 1..(Len(stats[r]) + 1)
      /\ \A i \in 1..Len(stats[r]) : t[i] = stats[r][i]
      /\ t[Len(stats[r]) + 1] = x
  <2>1. stats[r] \in Seq(S \cup {x}) /\ x \in S \cup {x}
    BY <1>3
  <2>2. QED
    BY <2>1
<1>5. n \in Nat /\ receptions \in Nat
  BY DEF ReportInv
<1>6. \A i \in 1..(Len(stats[r]) + 1) : i \in 1..Len(stats[r]) \/ i = Len(stats[r]) + 1
  BY <1>4
<1> HIDE DEF t
<1>7. \A i \in DOMAIN t : t[i] = x \/ (i \in DOMAIN stats[r] /\ t[i] = stats[r][i])
  BY <1>4, <1>6
<1>8. GoodSamples(t)
  <2>1. GoodSamples(stats[r]) /\ 0 \in Nat
    BY DEF ReportInv
  <2>2. \E T : t \in Seq(T)
    BY <1>4
  <2>3. QED
    BY <1>1, <1>5, <1>7, <2>1, <2>2 DEF GoodSamples
<1> DEFINE a == reported[r]
           b == Ids(stats[r])
           c == Ids(t)
<1>9. a \in Seq(Nat) /\ b \in Seq(Nat) /\ Len(b) = Len(stats[r]) /\ GoodSamples(stats[r])
  BY IdsAreNumbers DEF ReportInv
<1>10. /\ c \in Seq(Nat) /\ Len(t) = Len(stats[r]) + 1 /\ Len(c) = Len(b) + 1
       /\ c[Len(b) + 1] = n
       /\ \A i \in 1..Len(b) : c[i] = b[i]
  <2>1. /\ c \in Seq(Nat) /\ Len(c) = Len(t) /\ DOMAIN t = 1..Len(t) /\ Len(t) \in Nat
        /\ \A i \in 1..Len(t) : c[i] = t[i].id
    BY <1>8, IdsAreNumbers
  <2>2. Len(t) = Len(stats[r]) + 1
    BY <1>4, <2>1
  <2>3. \A i \in 1..Len(stats[r]) : b[i] = stats[r][i].id
    BY <1>9, IdsAreNumbers
  <2>4. Len(b) + 1 \in 1..Len(t) /\ \A i \in 1..Len(b) : i \in 1..Len(t)
    BY <1>4, <1>9, <2>2
  <2>5. c[Len(b) + 1] = n
    BY <1>1, <1>4, <1>9, <2>1, <2>4
  <2>6. \A i \in 1..Len(b) : c[i] = b[i]
    BY <1>4, <1>9, <2>1, <2>3, <2>4
  <2>7. QED
    BY <1>9, <2>1, <2>2, <2>5, <2>6
<1> DEFINE old == a \o b
           new == a \o c
<1>11. old = Line(r) /\ new = Line(r)'
  BY <1>2 DEF Line
<1> HIDE DEF a, b, c
<1>12. /\ old \in Seq(Nat) /\ Len(old) = Len(a) + Len(b) /\ Len(a) \in Nat /\ Len(b) \in Nat
       /\ \A i \in 1..Len(a) + Len(b) : old[i] = IF i <= Len(a) THEN a[i] ELSE b[i - Len(a)]
       /\ DOMAIN old = 1..Len(old)
  BY <1>9, ConcatProperties, LenProperties
<1>13. /\ new \in Seq(Nat) /\ Len(new) = Len(a) + Len(c)
       /\ \A i \in 1..Len(a) + Len(c) : new[i] = IF i <= Len(a) THEN a[i] ELSE c[i - Len(a)]
       /\ DOMAIN new = 1..Len(new)
  <2>1. a \in Seq(Nat) /\ c \in Seq(Nat)
    BY <1>9, <1>10
  <2>2. QED
    BY <2>1, ConcatProperties, LenProperties
<1> HIDE DEF old, new
<1>14. /\ DOMAIN new = 1..(Len(old) + 1) /\ Len(old) \in Nat /\ DOMAIN old = 1..Len(old)
       /\ new[Len(old) + 1] = n
       /\ \A i \in 1..Len(old) : new[i] = old[i]
  <2>1. Len(new) = Len(old) + 1 /\ Len(old) \in Nat
    BY <1>10, <1>12, <1>13
  <2>2. new[Len(old) + 1] = n
    <3>1. Len(old) + 1 \in 1..Len(a) + Len(c) /\ ~ (Len(old) + 1 <= Len(a))
          /\ (Len(old) + 1) - Len(a) = Len(b) + 1
      BY <1>10, <1>12
    <3>2. QED
      BY <1>10, <1>13, <3>1
  <2>3. ASSUME NEW i \in 1..Len(old) PROVE new[i] = old[i]
    <3>1. i \in 1..Len(a) + Len(c) /\ i \in 1..Len(a) + Len(b)
      BY <1>10, <1>12
    <3>2. CASE i <= Len(a)
      BY <1>12, <1>13, <3>1, <3>2
    <3>3. CASE ~ (i <= Len(a))
      <4>1. i - Len(a) \in 1..Len(b)
        BY <1>12, <3>1, <3>3
      <4>2. c[i - Len(a)] = b[i - Len(a)]
        BY <1>10, <4>1
      <4>3. QED
        BY <1>12, <1>13, <3>1, <3>3, <4>2
    <3>4. QED
      BY <3>2, <3>3
  <2>4. QED
    BY <1>12, <1>13, <2>1, <2>2, <2>3
<1>15. \A i \in DOMAIN old : old[i] \in 1..receptions
  BY <1>11, LineType
<1>16. Growing(new)
  <2> SUFFICES ASSUME NEW i \in DOMAIN new, NEW j \in DOMAIN new, i < j
               PROVE  new[i] < new[j]
    BY DEF Growing
  <2>1. i \in 1..Len(old) /\ (j \in 1..Len(old) \/ j = Len(old) + 1)
    BY <1>14
  <2>2. CASE j \in 1..Len(old)
    <3>1. Growing(old)
      BY <1>11 DEF ReportInv
    <3>2. QED
      BY <1>14, <2>1, <2>2, <3>1 DEF Growing
  <2>3. CASE j = Len(old) + 1
    <3>1. new[i] = old[i] /\ old[i] \in 1..receptions /\ new[j] = n
      BY <1>14, <1>15, <2>1, <2>3
    <3>2. QED
      BY <1>5, <3>1
  <2>4. QED
    BY <2>1, <2>2, <2>3
<1>17. Numbers(new) = Numbers(old) \cup {n}
  <2>1. \A i \in 1..(Len(old) + 1) : i \in 1..Len(old) \/ i = Len(old) + 1
    BY <1>14
  <2>2. Numbers(new) \subseteq Numbers(old) \cup {n}
    BY <1>14, <2>1 DEF Numbers
  <2>3. \A i \in 1..Len(old) : i \in 1..(Len(old) + 1)
    BY <1>14
  <2>4. Len(old) + 1 \in 1..(Len(old) + 1)
    BY <1>14
  <2>5. Numbers(old) \cup {n} \subseteq Numbers(new)
    BY <1>14, <2>3, <2>4 DEF Numbers
  <2>6. QED
    BY <2>2, <2>5
<1>18. \A q \in Receiver \ {r} : Line(q)' = Line(q)
  BY <1>2 DEF Line
<1>19. \A q \in Receiver : Growing(Line(q))'
  <2>1. Growing(Line(r))'
    BY <1>11, <1>16 DEF Growing
  <2>2. \A q \in Receiver \ {r} : Growing(Line(q))'
    BY <1>18 DEF Growing, ReportInv
  <2>3. QED
    BY <2>1, <2>2
<1>20. (UNION {Numbers(Line(q)) : q \in Receiver})' = 1..n
  <2>1. Numbers(Line(r))' = Numbers(Line(r)) \cup {n}
    BY <1>11, <1>17 DEF Numbers
  <2>2. \A q \in Receiver \ {r} : Numbers(Line(q))' = Numbers(Line(q))
    BY <1>18 DEF Numbers
  <2>3. (UNION {Numbers(Line(q)) : q \in Receiver})'
          = (UNION {Numbers(Line(q)) : q \in Receiver}) \cup {n}
    BY <2>1, <2>2
  <2>4. 1..n = (1..receptions) \cup {n}
    BY <1>5
  <2>5. QED
    BY <2>3, <2>4 DEF ReportInv
<1>21. \A q \in Receiver : reported'[q] \in Seq(Nat) /\ GoodSamples(stats'[q])
  BY <1>2, <1>8 DEF ReportInv
<1>22. \A i \in DOMAIN stats'[r] :
          stats'[r][i].age = 0 \/ (i \in DOMAIN stats[r] /\ stats'[r][i] = stats[r][i])
  BY <1>1, <1>2, <1>7
<1>23. DOMAIN reported' = Receiver
  BY DEF ReportInv
<1>24. QED
  BY <1>2, <1>5, <1>19, <1>20, <1>21, <1>22, <1>23

(* Only LiFiPhy's own reception touches what waits at a physical layer.    *)
LEMMA ErrorForRxReport ==
    ASSUME ReportInv, NEW r \in Rx, NEW w, ErrorForRxNetDevice(r, w)
    PROVE  ReportInv'
<1>1. r \in Receiver /\ r \notin Phy
  BY ObjectAssumption DEF Receiver
<1>2. UNCHANGED <<toReport, reported>>
  BY DEF ErrorForRxNetDevice
<1>3. CASE Throws(m_error[r])
  <2>1. UNCHANGED <<stats, receptions>>
    BY <1>3 DEF ErrorForRxNetDevice
  <2>2. \A q \in Receiver : Line(q)' = Line(q)
    BY <1>2, <2>1 DEF Line
  <2>3. QED
    BY <1>2, <2>1, <2>2, LinesStay DEF ReportInv
<1>4. CASE ~ Throws(m_error[r])
  <2>1. PICK loss, s, e : Recorded(r, Sample(loss, s, e))
    BY <1>4 DEF ErrorForRxNetDevice
  <2>2. receptions' = receptions + 1
    BY <1>4 DEF ErrorForRxNetDevice
  <2>3. /\ receptions' \in Nat
        /\ DOMAIN stats' = Receiver /\ DOMAIN reported' = Receiver
        /\ \A q \in Receiver :
              /\ reported'[q] \in Seq(Nat) /\ GoodSamples(stats'[q])
              /\ Growing(Line(q))'
        /\ (UNION {Numbers(Line(q)) : q \in Receiver} = 1..receptions)'
        /\ \A q \in Receiver \ {r} : stats'[q] = stats[q]
    BY <1>1, <1>2, <2>1, <2>2, RecordedReport
  <2>4. \A p \in Phy : stats'[p] = stats[p]
    BY <1>1, <2>3 DEF Receiver
  <2>5. QED
    BY <1>2, <2>3, <2>4 DEF ReportInv
<1>5. QED
  BY <1>3, <1>4

LEMMA PhyReceiveReport ==
    ASSUME ReportInv, NEW p \in Phy, NEW w, PhyReceive(p, w)
    PROVE  ReportInv'
<1>1. p \in Receiver
  BY DEF Receiver
<1>2. CASE Throws(m_error[p])
  <2>1. UNCHANGED <<stats, receptions, toReport, reported>>
    BY <1>2 DEF PhyReceive, statsVars
  <2>2. \A q \in Receiver : Line(q)' = Line(q)
    BY <2>1 DEF Line
  <2>3. QED
    BY <2>1, <2>2, LinesStay DEF ReportInv
<1>3. CASE ~ Throws(m_error[p])
  <2>1. PICK loss, s, e : Recorded(p, Sample(loss, s, e))
    BY <1>3 DEF PhyReceive
  <2>2. receptions' = receptions + 1 /\ reported' = reported /\ Started(p, PhyPeriod)
    BY <1>3 DEF PhyReceive
  <2>3. /\ receptions' \in Nat
        /\ DOMAIN stats' = Receiver /\ DOMAIN reported' = Receiver
        /\ \A q \in Receiver :
              /\ reported'[q] \in Seq(Nat) /\ GoodSamples(stats'[q])
              /\ Growing(Line(q))'
        /\ (UNION {Numbers(Line(q)) : q \in Receiver} = 1..receptions)'
        /\ \A q \in Receiver \ {p} : stats'[q] = stats[q]
        /\ \A i \in DOMAIN stats'[p] :
              stats'[p][i].age = 0 \/ (i \in DOMAIN stats[p] /\ stats'[p][i] = stats[p][i])
    BY <1>1, <2>1, <2>2, RecordedReport
  <2>4. /\ DOMAIN toReport' = Phy \cup {"channel"}
        /\ toReport'[p] = IF toReport[p] = None THEN <<PhyPeriod>> ELSE toReport[p]
        /\ \A q \in Phy \ {p} : toReport'[q] = toReport[q]
    BY <2>2 DEF Started, ReportInv
  <2>5. Waiting(stats'[p], toReport'[p])
    <3>1. Waiting(stats[p], toReport[p])
      BY DEF ReportInv
    <3>2. CASE toReport[p] = None /\ stats[p] = <<>>
      <4>1. \A i \in DOMAIN stats'[p] : stats'[p][i].age = 0
        BY <2>3, <3>2
      <4>2. PhyPeriod \in 0..PhyPeriod /\ 0 <= PhyPeriod - PhyPeriod
        BY ReceiverBounds
      <4>3. QED
        BY <2>4, <3>2, <4>1, <4>2 DEF Waiting
    <3>3. ASSUME NEW left \in 0..PhyPeriod, toReport[p] = <<left>>,
                 \A i \in DOMAIN stats[p] : stats[p][i].age <= PhyPeriod - left
          PROVE  Waiting(stats'[p], toReport'[p])
      <4>1. toReport'[p] = <<left>>
        BY <2>4, <3>3 DEF None
      <4>2. 0 <= PhyPeriod - left
        BY ReceiverBounds
      <4>3. \A i \in DOMAIN stats'[p] : stats'[p][i].age <= PhyPeriod - left
        BY <2>3, <3>3, <4>2
      <4>4. QED
        BY <4>1, <4>3 DEF Waiting
    <3>4. QED
      BY <3>1, <3>2, <3>3 DEF Waiting
  <2>6. \A q \in Phy \ {p} : q \in Receiver \ {p}
    BY DEF Receiver
  <2>7. \A q \in Phy : Waiting(stats'[q], toReport'[q])
    BY <2>3, <2>4, <2>5, <2>6 DEF ReportInv
  <2>8. QED
    BY <2>3, <2>4, <2>7 DEF ReportInv
<1>4. QED
  BY <1>2, <1>3

(* What is reported moves on within its line.                              *)
LEMMA ReportStepInv ==
    ASSUME ReportInv, NEW x \in Phy \cup {"channel"}, NEW from, NEW period,
           Report(x, from, period), receptions' = receptions,
           x \in Phy => period = PhyPeriod /\ x \in from
    PROVE  ReportInv'
<1>1. /\ reported' = [r \in Receiver |->
            IF r \in from THEN reported[r] \o Ids(stats[r]) ELSE reported[r]]
      /\ stats' = [r \in Receiver |-> IF r \in from THEN <<>> ELSE stats[r]]
      /\ toReport' = [toReport EXCEPT ![x] = <<period>>]
  BY DEF Report
<1>2. ASSUME NEW r \in Receiver
      PROVE  /\ reported'[r] \in Seq(Nat) /\ GoodSamples(stats'[r])
             /\ Line(r)' = Line(r)
  <2>1. reported[r] \in Seq(Nat) /\ Ids(stats[r]) \in Seq(Nat) /\ GoodSamples(stats[r])
    BY IdsAreNumbers DEF ReportInv
  <2>2. CASE r \in from
    <3>1. reported'[r] = Line(r) /\ stats'[r] = <<>>
      BY <1>1, <2>2 DEF Line
    <3>2. Line(r) \in Seq(Nat)
      BY LineType
    <3>3. Line(r)' = Line(r) \o <<>>
      BY <3>1, NoIds DEF Line
    <3>4. Line(r) \o <<>> = Line(r)
      BY <3>2, ConcatEmptySeq
    <3>5. QED
      BY <3>1, <3>2, <3>3, <3>4, NoIds
  <2>3. CASE r \notin from
    BY <1>1, <2>1, <2>3 DEF Line
  <2>4. QED
    BY <2>2, <2>3
<1>3. DOMAIN toReport' = Phy \cup {"channel"} /\ toReport'[x] = <<period>>
      /\ \A q \in Phy \ {x} : toReport'[q] = toReport[q]
  BY <1>1 DEF ReportInv
<1>4. ASSUME NEW p \in Phy PROVE Waiting(stats'[p], toReport'[p])
  <2>1. p \in Receiver /\ Waiting(stats[p], toReport[p])
    BY DEF Receiver, ReportInv
  <2>2. CASE p = x
    <3>1. stats'[p] = <<>> /\ toReport'[p] = <<PhyPeriod>>
      BY <1>1, <1>3, <2>1, <2>2
    <3>2. PhyPeriod \in 0..PhyPeriod /\ DOMAIN <<>> = {}
      BY ReceiverBounds
    <3>3. QED
      BY <3>1, <3>2 DEF Waiting
  <2>3. CASE p # x
    <3>1. toReport'[p] = toReport[p]
      BY <1>3, <2>3
    <3>2. stats'[p] = stats[p] \/ stats'[p] = <<>>
      BY <1>1, <2>1
    <3>3. DOMAIN <<>> = {}
      OBVIOUS
    <3>4. QED
      BY <2>1, <3>1, <3>2, <3>3 DEF Waiting
  <2>4. QED
    BY <2>2, <2>3
<1>5. DOMAIN stats' = Receiver /\ DOMAIN reported' = Receiver
  BY <1>1
<1>6. /\ receptions' \in Nat
      /\ \A r \in Receiver : Growing(Line(r))'
      /\ (UNION {Numbers(Line(r)) : r \in Receiver} = 1..receptions)'
  BY <1>2, LinesStay
<1>7. QED
  BY <1>2, <1>3, <1>4, <1>5, <1>6 DEF ReportInv

(* Nobody ages beyond the period, since the report runs first.             *)
LEMMA TickReport ==
    ASSUME ReportInv, Tick
    PROVE  ReportInv'
<1> DEFINE Older(x) == [x EXCEPT !.age = IF @ > ChannelPeriod THEN @ ELSE @ + 1]
<1>1. /\ \A x \in DOMAIN toReport : toReport[x] # <<0>>
      /\ toReport' = [x \in DOMAIN toReport |->
            IF toReport[x] = None THEN None ELSE <<toReport[x][1] - 1>>]
      /\ stats' = [r \in Receiver |-> [i \in DOMAIN stats[r] |-> Older(stats[r][i])]]
      /\ reported' = reported /\ receptions' = receptions
  BY DEF Tick
<1>2. ASSUME NEW x, {"id", "age"} \subseteq DOMAIN x, x.id \in Nat, x.age \in Nat
      PROVE  /\ DOMAIN Older(x) = DOMAIN x /\ Older(x).id = x.id
             /\ Older(x).age \in Nat /\ Older(x).age <= x.age + 1
  <2> DEFINE y == IF x.age > ChannelPeriod THEN x.age ELSE x.age + 1
  <2>1. Older(x) = [x EXCEPT !.age = y]
    OBVIOUS
  <2>2. PICK m \in Nat : m = x.age
    BY <1>2
  <2>3. PICK l \in Nat : l = ChannelPeriod
    BY ReceiverBounds
  <2>4. y = IF m > l THEN m ELSE m + 1
    BY <2>2, <2>3
  <2>5. y \in Nat /\ y <= x.age + 1
    BY <2>2, <2>4
  <2> HIDE DEF y, Older
  <2>6. DOMAIN Older(x) = DOMAIN x /\ Older(x).id = x.id /\ Older(x).age = y
    BY <1>2, <2>1
  <2>7. QED
    BY <2>5, <2>6
<1> HIDE DEF Older
<1>3. ASSUME NEW r \in Receiver
      PROVE  /\ GoodSamples(stats'[r]) /\ Line(r)' = Line(r)
             /\ DOMAIN stats'[r] = DOMAIN stats[r]
             /\ \A i \in DOMAIN stats[r] : stats'[r][i].age <= stats[r][i].age + 1
  <2>1. GoodSamples(stats[r])
    BY DEF ReportInv
  <2>2. stats'[r] = [i \in DOMAIN stats[r] |-> Older(stats[r][i])]
    BY <1>1
  <2>3. DOMAIN stats[r] = 1..Len(stats[r]) /\ Len(stats[r]) \in Nat
    BY <2>1, IdsAreNumbers
  <2>4. \A i \in DOMAIN stats[r] :
           /\ {"id", "age"} \subseteq DOMAIN stats'[r][i]
           /\ stats'[r][i].id = stats[r][i].id /\ stats[r][i].id \in Nat
           /\ stats'[r][i].age \in Nat /\ stats'[r][i].age <= stats[r][i].age + 1
    BY <1>2, <2>1, <2>2 DEF GoodSamples
  <2>5. stats'[r] \in Seq({Older(stats[r][i]) : i \in DOMAIN stats[r]})
    BY <2>2, <2>3
  <2>6. GoodSamples(stats'[r])
    BY <2>2, <2>4, <2>5 DEF GoodSamples
  <2>7. Ids(stats'[r]) = Ids(stats[r])
    BY <2>2, <2>4 DEF Ids
  <2>8. Line(r)' = Line(r)
    BY <1>1, <2>7 DEF Line
  <2>9. QED
    BY <2>2, <2>4, <2>6, <2>8
<1>4. DOMAIN toReport' = Phy \cup {"channel"}
  BY <1>1 DEF ReportInv
<1>5. ASSUME NEW p \in Phy PROVE Waiting(stats'[p], toReport'[p])
  <2>1. p \in Receiver /\ p \in DOMAIN toReport /\ Waiting(stats[p], toReport[p])
    BY DEF Receiver, ReportInv
  <2>2. CASE toReport[p] = None /\ stats[p] = <<>>
    <3>1. toReport'[p] = None
      BY <1>1, <2>1, <2>2
    <3>2. stats'[p] = [i \in {} |-> Older(stats[p][i])]
      BY <1>1, <2>1, <2>2
    <3>3. stats'[p] = <<>>
      BY <3>2
    <3>4. QED
      BY <3>1, <3>3 DEF Waiting
  <2>3. ASSUME NEW left \in 0..PhyPeriod, toReport[p] = <<left>>,
               \A i \in DOMAIN stats[p] : stats[p][i].age <= PhyPeriod - left
        PROVE  Waiting(stats'[p], toReport'[p])
    <3>1. left # 0
      BY <1>1, <2>1, <2>3
    <3>2. toReport'[p] = <<left - 1>>
      BY <1>1, <2>1, <2>3 DEF None
    <3>3. left - 1 \in 0..PhyPeriod
      BY <3>1, ReceiverBounds
    <3>4. ASSUME NEW i \in DOMAIN stats'[p]
          PROVE  stats'[p][i].age <= PhyPeriod - (left - 1)
      <4>1. i \in DOMAIN stats[p] /\ stats'[p][i].age <= stats[p][i].age + 1
            /\ stats[p][i].age <= PhyPeriod - left
        BY <1>3, <2>1, <2>3
      <4>2. GoodSamples(stats'[p]) /\ GoodSamples(stats[p])
        BY <1>3, <2>1 DEF ReportInv
      <4>3. PICK m \in Nat : m = stats[p][i].age
        BY <4>1, <4>2 DEF GoodSamples
      <4>4. PICK k \in Nat : k = stats'[p][i].age
        BY <4>2 DEF GoodSamples
      <4>5. k <= m + 1 /\ m <= PhyPeriod - left /\ PhyPeriod \in Nat
        BY <4>1, <4>3, <4>4, ReceiverBounds
      <4>6. QED
        BY <4>4, <4>5
    <3>5. QED
      BY <3>2, <3>3, <3>4 DEF Waiting
  <2>4. QED
    BY <2>1, <2>2, <2>3 DEF Waiting
<1>6. DOMAIN stats' = Receiver
  BY <1>1
<1>7. /\ receptions' \in Nat
      /\ \A r \in Receiver : Growing(Line(r))'
      /\ (UNION {Numbers(Line(r)) : r \in Receiver} = 1..receptions)'
  BY <1>1, <1>3, LinesStay
<1>8. QED
  BY <1>1, <1>3, <1>4, <1>5, <1>6, <1>7 DEF ReportInv

LEMMA ReportNextInv ==
    ASSUME ReportInv, [ReceiverNext]_receiverVars
    PROVE  ReportInv'
<1> DEFINE Same == UNCHANGED <<stats, reported, toReport, receptions>>
<1>1. ASSUME Same PROVE ReportInv'
  <2>1. \A r \in Receiver : Line(r)' = Line(r)
    BY <1>1 DEF Line
  <2>2. QED
    BY <1>1, <2>1, LinesStay DEF ReportInv
<1>2. ASSUME NEW r \in Receiver, NEW e, SetErrorModel(r, e) PROVE Same
  BY <1>2 DEF SetErrorModel, statsVars
<1>3. ASSUME NEW r \in Receiver, SetAlpha(r) PROVE Same
  BY <1>2, <1>3 DEF SetAlpha, statsVars
<1>4. ASSUME \/ OpticsStep
             \/ \E p \in Phy, v \in Value, scheme \in Scheme : CreatePhy(p, v, scheme)
             \/ \E p \in Phy, type \in DeviceType : SetDeviceType(p, type)
             \/ \E r \in Rx, v \in Value : AddLiFiSNRModel(r, v)
             \/ \E r \in Rx : RxDeviceReceive(r)
      PROVE  Same
  BY <1>4 DEF OpticsStep, CreatePhy, SetDeviceType, AddLiFiSNRModel, RxDeviceReceive,
              statsVars
<1>5. ASSUME ChannelSend PROVE ReportInv'
  <2>1. /\ toReport' = [toReport EXCEPT !["channel"] = IF @ = None THEN <<ChannelPeriod>> ELSE @]
        /\ UNCHANGED <<stats, reported, receptions>>
    BY <1>5 DEF ChannelSend, Started
  <2>2. DOMAIN toReport' = Phy \cup {"channel"} /\ \A p \in Phy : toReport'[p] = toReport[p]
    BY <2>1, ChannelAssumption DEF ReportInv
  <2>3. \A r \in Receiver : Line(r)' = Line(r)
    BY <2>1 DEF Line
  <2>4. QED
    BY <2>1, <2>2, <2>3, LinesStay DEF ReportInv
<1>6. ASSUME NEW p \in Phy, ReportMeasurements(p) PROVE ReportInv'
  BY <1>6, ReportStepInv DEF ReportMeasurements
<1>7. ASSUME SaveSNRBERLoss PROVE ReportInv'
  BY <1>7, ReportStepInv, ChannelAssumption DEF SaveSNRBERLoss
<1>8. ASSUME ReceiverNext PROVE ReportInv'
  BY <1>1, <1>2, <1>3, <1>4, <1>5, <1>6, <1>7, <1>8, ErrorForRxReport, PhyReceiveReport,
     TickReport DEF ReceiverNext, SetScheme, SetModulationOrder
<1>9. CASE UNCHANGED receiverVars
  BY <1>1, <1>9 DEF receiverVars, statsVars
<1>10. QED
  BY <1>8, <1>9

LEMMA ReportInvHolds == ReportInv => ReportedOnce
<1> SUFFICES ASSUME ReportInv PROVE ReportedOnce
  OBVIOUS
<1>1. \A r \in Receiver : \A i, j \in DOMAIN Line(r) : i < j => Line(r)[i] < Line(r)[j]
  BY DEF ReportInv, Growing
<1>2. UNION {{Line(r)[i] : i \in DOMAIN Line(r)} : r \in Receiver} = 1..receptions
  BY DEF ReportInv, Numbers
<1>3. ASSUME NEW p \in Phy, NEW i \in DOMAIN stats[p]
      PROVE  stats[p][i].age <= PhyPeriod
  <2>1. p \in Receiver /\ Waiting(stats[p], toReport[p]) /\ DOMAIN <<>> = {}
    BY DEF ReportInv, Receiver
  <2>2. PICK left \in 0..PhyPeriod : stats[p][i].age <= PhyPeriod - left
    BY <1>3, <2>1 DEF Waiting
  <2>3. PICK m \in Nat : m = stats[p][i].age
    BY <1>3, <2>1 DEF ReportInv, GoodSamples
  <2>4. QED
    BY <2>2, <2>3, ReceiverBounds
<1>4. QED
  BY <1>1, <1>2, <1>3 DEF ReportedOnce, Line

(* For any receivers and periods: every sample is reported exactly once    *)
(* and in order, by ReportMeasurements or SaveSNRBERLoss, and one of a     *)
(* physical layer waits no longer than a period.                           *)
THEOREM SamplesAreReportedOnce == ReceiverSpec => []ReportedOnce
<1>1. ReceiverInit => ReportInv
  BY ReportInitInv
<1>2. ReportInv /\ [ReceiverNext]_receiverVars => ReportInv'
  BY ReportNextInv
<1>3. QED
  BY <1>1, <1>2, ReportInvHolds, PTL DEF ReceiverSpec

=============================================================================
