----------------------------- MODULE LiFiReceiver -----------------------------
(***************************************************************************)
(* Reception at the physical layer: received power, signal-to-noise ratio, *)
(* error model, the samples that ReportMeasurements hands to the           *)
(* controller, and the decision whether a packet is corrupted.  Besides    *)
(* the physical layers (Phy), which LiFiPhyHelper makes, there are the     *)
(* LiFiRxNetDevices (Rx), whose error model is calculated by               *)
(* LiFiChannel::ErrorForRxNetDevice and whose samples the channel reports. *)
(*                                                                         *)
(* A ratio or a rate is the record of what it was calculated from, so that *)
(* one left over from an earlier reception can be told from the right one. *)
(***************************************************************************)
EXTENDS LiFiOptics

CONSTANTS
    Power,           \* received powers
    Scheme,          \* modulations a script sets
    DeviceType,      \* kinds of device: "UD", "AP"
    PhyPeriod,       \* 5 ms between two reports of a physical layer
    ChannelPeriod,   \* 100 ms between two reports of the channel
    MaxReceptions    \* bound on the receptions

Pam == {"OOK", "PAM4", "PAM8", "PAM16"}
PskQam == {"PSK4", "PSK16", "QAM4", "QAM16"}
None == <<>>

Receiver == Phy \cup Rx

ASSUME ChannelAssumption == "channel" \notin Phy
ASSUME SchemeAssumption == Scheme \subseteq Pam \cup PskQam \cup {"VPPM"}
ASSUME TypeAssumption == DeviceType \subseteq {"UD", "AP"}
ASSUME ReceiverBounds == {PhyPeriod, ChannelPeriod} \subseteq Nat \ {0} /\ MaxReceptions \in Nat

VARIABLES
    m_deviceType,   \* per physical layer: "UD", "AP" or not set
    m_LifiSNR,      \* per receiver, its LiFiSnr
    m_error,        \* per receiver, its LiFiErrorModel
    stats,          \* samples that wait for the next report, oldest first
    toReport,       \* time to the next report; None before it is started
    receptions,     \* receptions so far
    reported,       \* history: the samples reported, per receiver
    decided,        \* history: the last decision about a packet
    thrown          \* the exception of CalculateBER or SetAlpha ended the program

modelVars == <<m_deviceType, m_LifiSNR, m_error>>
statsVars == <<stats, toReport, reported>>
receiverVars == <<opticsVars, modelVars, statsVars, receptions, decided, thrown>>

-----------------------------------------------------------------------------
(* LiFiSnr.  The noise is calculated once, from the area and from the      *)
(* power received by then.                                                 *)
NewSnr == [pr |-> None, noise |-> None, snr |-> None]

CalculateNoiseVar(s, area) == [s EXCEPT !.noise = <<area, s.pr>>]

SetReceivedPower(s, loss) == [s EXCEPT !.pr = loss]

(* CalculateSNR leaves the old ratio when there is no noise.               *)
CalculateSNR(s) == IF s.noise = None THEN s ELSE [s EXCEPT !.snr = <<s.pr, s.noise>>]

-----------------------------------------------------------------------------
(* LiFiErrorModel: the attributes' defaults come after the constructor, so *)
(* a new model is PAM4 with order 0.                                       *)
NewErrorModel ==
    [scheme |-> "PAM4", order |-> 0, alpha |-> 0, snr |-> None, rate |-> None]

OrderOf(scheme, order) ==
    CASE scheme = "OOK" -> 2
      [] scheme = "PAM4" -> 4
      [] scheme = "PAM8" -> 8
      [] scheme = "PAM16" -> 16
      [] OTHER -> order

ModelScheme(e, scheme) == [e EXCEPT !.scheme = scheme, !.order = OrderOf(scheme, @)]

(* What an error rate is calculated from.                                  *)
Rate(e) == [scheme |-> e.scheme, order |-> e.order, alpha |-> e.alpha, snr |-> e.snr]

(* The PAM schemes are calculated, and from then on treated, as OOK.       *)
CalculateSER(e) ==
    LET ook == [e EXCEPT !.scheme = "OOK", !.order = 2] IN [ook EXCEPT !.rate = Rate(ook)]

(* VPPM; alpha must not be 0.                                              *)
CalculateBER(e) == [e EXCEPT !.rate = Rate(e)]

(* PSK and QAM return a rate and do not set it.                            *)
ComputeBER(e) == e

CalculateErrorRate(e) ==
    CASE e.scheme = "VPPM" -> CalculateBER(e)
      [] e.scheme \in Pam -> CalculateSER(e)
      [] OTHER -> ComputeBER(e)

(* The value that CalculateErrorRate returns, once it is done.             *)
ErrorRate(e) == Rate(e)
Throws(e) == e.scheme = "VPPM" /\ e.alpha = 0

(* What IsCorrupt may answer: never yes without a rate, nor for packets of *)
(* no symbols (log2 of order 0); the parent class decides for the others.  *)
IsCorrupt(e) ==
    IF e.rate = None \/ (e.scheme \in Pam /\ e.order = 0) THEN {FALSE} ELSE BOOLEAN

-----------------------------------------------------------------------------
(* A sample; its number and age stand for simTime.                         *)
Sample(loss, s, e) ==
    [id |-> receptions + 1, age |-> 0, loss |-> loss, snr |-> s.snr, errRate |-> ErrorRate(e)]

Ids(samples) == [i \in DOMAIN samples |-> samples[i].id]

ReceiverInit ==
    /\ OpticsInit
    /\ m_deviceType = [p \in Phy |-> ""]
    /\ m_LifiSNR = [r \in Receiver |-> NewSnr]
    /\ m_error = [r \in Receiver |-> NewErrorModel]
    /\ stats = [r \in Receiver |-> <<>>]
    /\ toReport = [x \in Phy \cup {"channel"} |-> None]
    /\ receptions = 0
    /\ reported = [r \in Receiver |-> <<>>]
    /\ decided = None
    /\ thrown = FALSE

(* LiFiPhyHelper::AddError gives alpha only to VPPM, and the scheme to no  *)
(* model: its number is set as the order.                                  *)
AddError(scheme, enum) ==
    [NewErrorModel EXCEPT !.alpha = IF scheme = "VPPM" THEN 1 ELSE 0, !.order = enum]

AttachSNRModel(area) == CalculateNoiseVar(NewSnr, area)

(* The numbers of the schemes in the enumeration.                          *)
Enum == [PAM4 |-> 0, OOK |-> 1, VPPM |-> 2, PSK4 |-> 3, PSK16 |-> 4, QAM4 |-> 5,
         QAM16 |-> 6, PAM8 |-> 7, PAM16 |-> 8]

(* LiFiPhyHelper::Create, for a node that has no physical layer yet.       *)
CreatePhy(p, v, scheme) ==
    /\ lossModel[p] = NotComputed
    /\ CreateOptics(p, v)
    /\ m_error' = [m_error EXCEPT ![p] = AddError(scheme, Enum[scheme])]
    /\ m_LifiSNR' = [m_LifiSNR EXCEPT ![p] = AttachSNRModel(param'[p]["area"])]
    /\ UNCHANGED <<m_deviceType, statsVars, receptions, decided, thrown>>

SetDeviceType(p, type) ==
    /\ m_deviceType[p] = ""
    /\ m_deviceType' = [m_deviceType EXCEPT ![p] = type]
    /\ UNCHANGED <<opticsVars, m_LifiSNR, m_error, statsVars, receptions, decided, thrown>>

(* The setters of the error model, through GetErrorModel.                  *)
SetErrorModel(r, e) ==
    /\ Call
    /\ m_error' = [m_error EXCEPT ![r] = e]
    /\ UNCHANGED <<param, derived, lossModel, m_deviceType, m_LifiSNR, statsVars,
                   receptions, decided, thrown>>

SetScheme(r, scheme) == SetErrorModel(r, ModelScheme(m_error[r], scheme))
SetModulationOrder(r, k) == SetErrorModel(r, [m_error[r] EXCEPT !.order = k])

(* LiFiErrorModel::SetAlpha, and that of LiFiRxNetDevice, which throws     *)
(* unless the scheme is VPPM.                                              *)
SetAlpha(r) ==
    \/ /\ r \in Phy \/ m_error[r].scheme = "VPPM"
       /\ SetErrorModel(r, [m_error[r] EXCEPT !.alpha = 1])
    \/ /\ r \in Rx /\ m_error[r].scheme # "VPPM" /\ Call
       /\ thrown' = TRUE
       /\ UNCHANGED <<param, derived, lossModel, modelVars, statsVars, receptions,
                      decided>>

-----------------------------------------------------------------------------
(* The received power, of user devices and access points only.             *)
Loss(p, w) == IF m_deviceType[p] = "" THEN None ELSE <<w, lossModel[p]>>

MeasuredMutantStaleSnr(r, loss) ==
    LET s == CalculateSNR(SetReceivedPower(m_LifiSNR[r], loss)) IN
    [snr |-> s, error |-> [CalculateErrorRate(m_error[r]) EXCEPT !.snr = s.snr]]

(* Power, ratio and rate of a reception, in the order of the code.         *)
Measured(r, loss) ==
    LET s == CalculateSNR(SetReceivedPower(m_LifiSNR[r], loss)) IN
    [snr |-> s, error |-> CalculateErrorRate([m_error[r] EXCEPT !.snr = s.snr])]

Recorded(r, sample) == stats' = [stats EXCEPT ![r] = Append(@, sample)]

(* The first reception starts the reports.                                 *)
Started(x, period) ==
    toReport' = [toReport EXCEPT ![x] = IF @ = None THEN <<period>> ELSE @]

Decision(r, e, corrupt) == decided' = <<[at |-> r, snr |-> e.snr, scheme |-> e.scheme,
                                         rate |-> e.rate, corrupt |-> corrupt]>>

(* LiFiPhy::Receive: every reception is sampled, corrupted or not.         *)
PhyReceive(p, w) ==
    LET after == Measured(p, Loss(p, w)) IN
    /\ lossModel[p] # NotComputed /\ receptions < MaxReceptions
    /\ IF Throws(m_error[p])
       THEN /\ thrown' = TRUE
            /\ UNCHANGED <<modelVars, statsVars, receptions, decided>>
       ELSE /\ m_LifiSNR' = [m_LifiSNR EXCEPT ![p] = after.snr]
            /\ m_error' = [m_error EXCEPT ![p] = after.error]
            /\ Recorded(p, Sample(Loss(p, w), after.snr, after.error))
            /\ Started(p, PhyPeriod)
            /\ receptions' = receptions + 1
            /\ \E corrupt \in IsCorrupt(after.error) : Decision(p, after.error, corrupt)
            /\ UNCHANGED <<m_deviceType, reported, thrown>>
    /\ UNCHANGED opticsVars

(* LiFiChannel::AddLiFiSNRModel: the script's model for a receiver, whose  *)
(* noise it has calculated.                                                *)
AddLiFiSNRModel(r, v) ==
    /\ Call
    /\ m_LifiSNR' = [m_LifiSNR EXCEPT ![r] = CalculateNoiseVar(NewSnr, v)]
    /\ UNCHANGED <<param, derived, lossModel, m_deviceType, m_error, statsVars,
                   receptions, decided, thrown>>

(* LiFiChannel::ErrorForRxNetDevice sets the rate whatever the scheme is.  *)
ErrorForRxNetDevice(r, w) ==
    LET after == Measured(r, <<w>>) IN
    /\ m_LifiSNR[r].noise # None /\ receptions < MaxReceptions
    /\ IF Throws(m_error[r])
       THEN thrown' = TRUE /\ UNCHANGED <<m_LifiSNR, m_error, stats, receptions>>
       ELSE /\ m_LifiSNR' = [m_LifiSNR EXCEPT ![r] = after.snr]
            /\ m_error' = [m_error EXCEPT ![r] = [after.error EXCEPT !.rate = ErrorRate(after.error)]]
            /\ Recorded(r, Sample(<<w>>, after.snr, after.error))
            /\ receptions' = receptions + 1
            /\ UNCHANGED thrown
    /\ UNCHANGED <<opticsVars, m_deviceType, toReport, reported, decided>>

(* LiFiRxNetDevice::Receive decides with the rate that is there.           *)
RxDeviceReceive(r) ==
    /\ \E corrupt \in IsCorrupt(m_error[r]) : Decision(r, m_error[r], corrupt)
    /\ UNCHANGED <<opticsVars, modelVars, statsVars, receptions, thrown>>

(* LiFiChannel::Send starts the reports of the channel.                    *)
ChannelSend ==
    /\ Started("channel", ChannelPeriod)
    /\ UNCHANGED <<opticsVars, modelVars, stats, reported, receptions, decided, thrown>>

-----------------------------------------------------------------------------
ReportMutantKeeps(x, from, period) ==
    /\ toReport[x] = <<0>>
    /\ reported' = [r \in Receiver |->
          IF r \in from THEN reported[r] \o Ids(stats[r]) ELSE reported[r]]
    /\ stats' = stats
    /\ toReport' = [toReport EXCEPT ![x] = <<period>>]

(* A report hands over the samples that wait and clears them, and is       *)
(* scheduled again, with samples or without.                               *)
Report(x, from, period) ==
    /\ toReport[x] = <<0>>
    /\ reported' = [r \in Receiver |->
          IF r \in from THEN reported[r] \o Ids(stats[r]) ELSE reported[r]]
    /\ stats' = [r \in Receiver |-> IF r \in from THEN <<>> ELSE stats[r]]
    /\ toReport' = [toReport EXCEPT ![x] = <<period>>]

ReportMeasurements(p) ==
    /\ Report(p, {p}, PhyPeriod)
    /\ UNCHANGED <<opticsVars, modelVars, receptions, decided, thrown>>

SaveSNRBERLoss ==
    /\ Report("channel", Rx, ChannelPeriod)
    /\ UNCHANGED <<opticsVars, modelVars, receptions, decided, thrown>>

(* A millisecond passes; a report that is due runs first.                  *)
Tick ==
    /\ \A x \in DOMAIN toReport : toReport[x] # <<0>>
    /\ \E x \in DOMAIN toReport : toReport[x] # None
    /\ toReport' = [x \in DOMAIN toReport |->
          IF toReport[x] = None THEN None ELSE <<toReport[x][1] - 1>>]
    /\ stats' = [r \in Receiver |-> [i \in DOMAIN stats[r] |->
          [stats[r][i] EXCEPT !.age = IF @ > ChannelPeriod THEN @ ELSE @ + 1]]]
    /\ UNCHANGED <<opticsVars, modelVars, reported, receptions, decided, thrown>>

OpticsStep ==
    /\ Optics
    /\ UNCHANGED <<modelVars, statsVars, receptions, decided, thrown>>

ReceiverNext ==
    /\ ~ thrown
    /\ \/ OpticsStep
       \/ \E p \in Phy, v \in Value, scheme \in Scheme : CreatePhy(p, v, scheme)
       \/ \E p \in Phy, type \in DeviceType : SetDeviceType(p, type)
       \/ \E r \in Receiver, scheme \in Scheme : SetScheme(r, scheme)
       \/ \E r \in Receiver, k \in {0, 4} : SetModulationOrder(r, k)
       \/ \E r \in Receiver : SetAlpha(r)
       \/ \E p \in Phy, w \in Power : PhyReceive(p, w)
       \/ \E r \in Rx, v \in Value : AddLiFiSNRModel(r, v)
       \/ \E r \in Rx, w \in Power : ErrorForRxNetDevice(r, w)
       \/ \E r \in Rx : RxDeviceReceive(r)
       \/ ChannelSend
       \/ \E p \in Phy : ReportMeasurements(p)
       \/ SaveSNRBERLoss
       \/ Tick

ReceiverSpec == ReceiverInit /\ [][ReceiverNext]_receiverVars

-----------------------------------------------------------------------------
(* Properties.                                                             *)

(* Every sample holds together: its ratio is that of its own power and its *)
(* error rate that of its own ratio, none left from the reception before,  *)
(* although each is kept in an object that CalculateSNR or                 *)
(* CalculateErrorRate may leave as it was.                                 *)
SampleIsOwn ==
    \A r \in Receiver : \A i \in DOMAIN stats[r] :
        LET sample == stats[r][i] IN
        /\ sample.snr # None /\ sample.snr[1] = sample.loss
        /\ sample.errRate.snr = sample.snr

(* A physical layer decides about a packet with the rate of that packet's  *)
(* own reception, calculated for the scheme the decision is made for;      *)
(* but PSK and QAM with a rate that was set for another scheme, or none.   *)
DecidedByOwnRate ==
    decided # None /\ decided[1].at \in Phy =>
        LET by == decided[1] IN
        IF by.scheme \in PskQam THEN by.rate = None \/ by.rate.scheme \notin PskQam
        ELSE by.rate # None /\ by.rate.snr = by.snr /\ by.rate.scheme = by.scheme

(* In one: reports and decisions come from the reception they are of.      *)
OwnReception == SampleIsOwn /\ DecidedByOwnRate

(* Every sample is reported exactly once and in order: what was reported   *)
(* and what waits are all samples of the receiver, with growing numbers,   *)
(* and together they are the receptions so far.  A physical layer's sample *)
(* waits no longer than a period.                                          *)
ReportedOnce ==
    LET all(r) == reported[r] \o Ids(stats[r]) IN
    /\ \A r \in Receiver : \A i, j \in DOMAIN all(r) : i < j => all(r)[i] < all(r)[j]
    /\ UNION {{all(r)[i] : i \in DOMAIN all(r)} : r \in Receiver} = 1..receptions
    /\ \A p \in Phy : \A i \in DOMAIN stats[p] : stats[p][i].age <= PhyPeriod
=============================================================================
