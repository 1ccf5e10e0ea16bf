-------------------- MODULE CentralizedControllerProofs --------------------
(***************************************************************************)
(* Theorems of the controller, for every set of users, every lag and every *)
(* time to trigger.  The argument: isHandoverInProgress says whether one   *)
(* event of the user's handover is pending (OneHandover), and that event   *)
(* is not due before its time (EventInTime).                               *)
(***************************************************************************)
EXTENDS CentralizedController, TLAPS

(* What is left to wait adds to what has been waited: the remaining time   *)
(* of a pending event makes up for the rest of the time to trigger and of  *)
(* the delay, until some handover of the user has been given up.           *)
EventInTime ==
    \A u \in User : ~ cancelled[u] =>
        /\ m_time_to_trigger[u] = TimeToTrigger
        /\ \A i \in DOMAIN ttt[u] : waited[u] + ttt[u][i] >= TimeToTrigger
        /\ \A i \in DOMAIN completion[u] :
              waited[u] + completion[u][i] >= TimeToTrigger + HandoverDelay

IInv ==
    /\ TypeOK
    /\ OneHandover
    /\ AddressForRoute
    /\ EventInTime

-----------------------------------------------------------------------------
(* Sequences.                                                              *)

LEMMA LastOfType ==
    ASSUME NEW S, NEW s \in Seq(S), NEW n \in Nat
    PROVE  LastOf(n, s) \in Seq(S) /\ Len(LastOf(n, s)) <= n
  BY DEF LastOf

LEMMA ElementType ==
    ASSUME NEW S, NEW s \in Seq(S), NEW i \in DOMAIN s
    PROVE  s[i] \in S
  OBVIOUS

(* Counts of the events of one handover, over numbers: the SMT backend     *)
(* does not equate the length of a sequence with a literal.                *)
LEMMA Counts ==
    ASSUME NEW m \in Nat, NEW n \in Nat
    PROVE  /\ m <= 1 /\ m >= 1 => m = 1
           /\ m + n = 0 => m = 0 /\ n = 0
           /\ m + n = 1 => m <= 1 /\ n <= 1
           /\ m + n = 1 /\ m = 1 => n = 0
           /\ m + n = 1 /\ n = 1 => m = 0
           /\ m = 1 /\ n = 0 => m + n = 1
           /\ m = 0 /\ n = 1 => m + n = 1
           /\ m = 0 /\ n = 0 => m + n = 0
           /\ m = 1 => m + n # 0
           /\ n = 1 => m + n # 0
           /\ m <= 1 /\ m # 1 => m = 0
  OBVIOUS

LEMMA RemoveOnly ==
    ASSUME NEW S, NEW s \in Seq(S), Len(s) <= 1, NEW i \in DOMAIN s
    PROVE  Len(s) = 1 /\ i = 1 /\ RemoveAt(s, i) = <<>>
<1>1. Len(s) = 1 /\ i = 1
  <2>1. Len(s) \in Nat /\ Len(s) >= 1 /\ i = 1
    OBVIOUS
  <2>2. Len(s) = 1
    BY <2>1, Counts, Zenon
  <2>3. QED
    BY <2>1, <2>2
<1>2. SubSeq(s, 1, 0) = <<>> /\ SubSeq(s, 2, 1) = <<>>
  OBVIOUS
<1>3. RemoveAt(s, i) = <<>> \o <<>>
  BY <1>1, <1>2 DEF RemoveAt
<1>4. QED
  BY <1>1, <1>3

LEMMA AppendToEmpty ==
    ASSUME NEW S, NEW s \in Seq(S), Len(s) = 0, NEW x \in S
    PROVE  /\ Append(s, x) \in Seq(S)
           /\ Len(Append(s, x)) = 1
           /\ \A i \in DOMAIN Append(s, x) : Append(s, x)[i] = x
  OBVIOUS

(* The events of a user's handover that are scheduled.                     *)
Pending(u) == Len(ttt[u]) + Len(completion[u])

LEMMA PendingCount ==
    ASSUME OneHandover, NEW u \in User
    PROVE  /\ isHandoverInProgress[u] => Pending(u) = 1
           /\ ~ isHandoverInProgress[u] => Pending(u) = 0
           /\ Pending(u) = 1 \/ Pending(u) = 0
  BY DEF OneHandover, Pending

(* The events of a user and its time to trigger.                           *)
LEMMA EventsTyped ==
    ASSUME TypeOK, NEW u \in User
    PROVE  /\ ttt[u] \in Seq(0..TimeToTrigger)
           /\ completion[u] \in Seq(0..HandoverDelay)
           /\ m_time_to_trigger[u] \in 0..TimeToTrigger
           /\ Len(ttt[u]) \in Nat /\ Len(completion[u]) \in Nat
<1>1. /\ ttt[u] \in Seq(0..TimeToTrigger)
      /\ completion[u] \in Seq(0..HandoverDelay)
  BY DEF TypeOK
<1>2. m_time_to_trigger[u] \in 0..TimeToTrigger
  <2>1. m_time_to_trigger[u] \in {0, TimeToTrigger}
    BY DEF TypeOK
  <2>2. QED
    BY <2>1, TimeAssumption
<1>3. Len(ttt[u]) \in Nat /\ Len(completion[u]) \in Nat
  BY <1>1
<1>4. QED
  BY <1>1, <1>2, <1>3

(* The event that runs is the only one of the user's handover.             *)
LEMMA RunTtt ==
    ASSUME IInv, NEW u \in User, RunDue(ttt, u)
    PROVE  /\ isHandoverInProgress[u]
           /\ Len(ttt[u]) = 1 /\ ttt[u][1] = 0
           /\ Len(completion[u]) = 0
           /\ ttt' = [ttt EXCEPT ![u] = <<>>]
<1>1. ttt[u] \in Seq(0..TimeToTrigger) /\ completion[u] \in Seq(0..HandoverDelay)
  BY DEF IInv, TypeOK
<1>2. PICK i \in DOMAIN ttt[u] :
          ttt[u][i] = 0 /\ ttt' = [ttt EXCEPT ![u] = RemoveAt(ttt[u], i)]
  BY DEF RunDue
<1>3. /\ Pending(u) = 1 \/ Pending(u) = 0
      /\ ~ isHandoverInProgress[u] => Pending(u) = 0
      /\ Len(ttt[u]) \in Nat /\ Len(completion[u]) \in Nat
  BY <1>1, PendingCount DEF IInv
<1>4. Len(ttt[u]) <= 1
  <2>1. CASE Pending(u) = 0
    <3>1. Len(ttt[u]) = 0
      BY <1>3, <2>1, Counts, Zenon DEF Pending
    <3>2. QED
      BY <3>1
  <2>2. CASE Pending(u) = 1
    BY <1>3, <2>2, Counts, Zenon DEF Pending
  <2>3. QED
    BY <1>3, <2>1, <2>2
<1>5. Len(ttt[u]) = 1 /\ i = 1 /\ RemoveAt(ttt[u], i) = <<>>
  BY <1>1, <1>4, RemoveOnly
<1>6. isHandoverInProgress[u] /\ Len(completion[u]) = 0
  <2>1. Pending(u) # 0
    BY <1>3, <1>5, Counts, Zenon DEF Pending
  <2>2. isHandoverInProgress[u]
    BY <1>3, <2>1
  <2>3. Len(completion[u]) = 0
    BY <1>3, <1>5, <2>1, Counts, Zenon DEF Pending
  <2>4. QED
    BY <2>2, <2>3
<1>7. QED
  BY <1>2, <1>5, <1>6

LEMMA RunCompletion ==
    ASSUME IInv, NEW u \in User, RunDue(completion, u)
    PROVE  /\ isHandoverInProgress[u]
           /\ Len(completion[u]) = 1 /\ completion[u][1] = 0
           /\ Len(ttt[u]) = 0
           /\ completion' = [completion EXCEPT ![u] = <<>>]
<1>1. ttt[u] \in Seq(0..TimeToTrigger) /\ completion[u] \in Seq(0..HandoverDelay)
  BY DEF IInv, TypeOK
<1>2. PICK i \in DOMAIN completion[u] :
          /\ completion[u][i] = 0
          /\ completion' = [completion EXCEPT ![u] = RemoveAt(completion[u], i)]
  BY DEF RunDue
<1>3. /\ Pending(u) = 1 \/ Pending(u) = 0
      /\ ~ isHandoverInProgress[u] => Pending(u) = 0
      /\ Len(ttt[u]) \in Nat /\ Len(completion[u]) \in Nat
  BY <1>1, PendingCount DEF IInv
<1>4. Len(completion[u]) <= 1
  <2>1. CASE Pending(u) = 0
    <3>1. Len(completion[u]) = 0
      BY <1>3, <2>1, Counts, Zenon DEF Pending
    <3>2. QED
      BY <3>1
  <2>2. CASE Pending(u) = 1
    BY <1>3, <2>2, Counts, Zenon DEF Pending
  <2>3. QED
    BY <1>3, <2>1, <2>2
<1>5. Len(completion[u]) = 1 /\ i = 1 /\ RemoveAt(completion[u], i) = <<>>
  BY <1>1, <1>4, RemoveOnly
<1>6. isHandoverInProgress[u] /\ Len(ttt[u]) = 0
  <2>1. Pending(u) # 0
    BY <1>3, <1>5, Counts, Zenon DEF Pending
  <2>2. isHandoverInProgress[u]
    BY <1>3, <2>1
  <2>3. Len(ttt[u]) = 0
    BY <1>3, <1>5, <2>1, Counts, Zenon DEF Pending
  <2>4. QED
    BY <2>2, <2>3
<1>7. QED
  BY <1>2, <1>5, <1>6

-----------------------------------------------------------------------------
(* Each step keeps the invariant.                                          *)

LEMMA InitInv == Init => IInv
<1> SUFFICES ASSUME Init PROVE IInv
  OBVIOUS
<1>1. TypeOK
  BY TimeAssumption, RouteAssumption, ReportsAssumption
  DEF Init, TypeOK, MaxWait
<1>2. OneHandover /\ EventInTime
  BY DEF Init, OneHandover, EventInTime
<1>3. AddressForRoute
  BY RouteAssumption DEF Init, AddressForRoute
<1>4. QED
  BY <1>1, <1>2, <1>3 DEF IInv

LEMMA ReportInv ==
    ASSUME IInv, NEW u \in User, NEW snr \in Snr,
           LiFiAPMeasurementReports(u, snr)
    PROVE  IInv'
<1>1. /\ LastOf(MinReports, Append(snrVect[u], snr)) \in Seq(Snr)
      /\ Len(LastOf(MinReports, Append(snrVect[u], snr))) <= MinReports
  <2>1. Append(snrVect[u], snr) \in Seq(Snr)
    BY DEF IInv, TypeOK
  <2>2. QED
    BY <2>1, LastOfType, ReportsAssumption
<1>2. TypeOK'
  BY <1>1
  DEF IInv, TypeOK, LiFiAPMeasurementReports, user, network, history
<1>3. OneHandover' /\ AddressForRoute' /\ EventInTime'
  BY DEF IInv, OneHandover, AddressForRoute, EventInTime,
         LiFiAPMeasurementReports, user, network, history
<1>4. QED
  BY <1>2, <1>3 DEF IInv

LEMMA KpiInv ==
    ASSUME IInv, KPI_Monitoring
    PROVE  IInv'
<1> DEFINE S == {u \in User : Required(u)}
<1>1. ASSUME NEW u \in S
      PROVE  /\ Len(ttt[u]) = 0 /\ Len(completion[u]) = 0
             /\ ttt'[u] = Append(ttt[u], m_time_to_trigger[u])
             /\ ttt'[u] \in Seq(0..TimeToTrigger)
             /\ Len(ttt'[u]) = 1
             /\ \A i \in DOMAIN ttt'[u] : ttt'[u][i] = m_time_to_trigger[u]
  <2>1. ~ isHandoverInProgress[u]
    BY DEF Required
  <2>2. /\ ttt[u] \in Seq(0..TimeToTrigger)
        /\ completion[u] \in Seq(0..HandoverDelay)
        /\ m_time_to_trigger[u] \in 0..TimeToTrigger
    BY EventsTyped DEF IInv
  <2>3. Len(ttt[u]) = 0 /\ Len(completion[u]) = 0
    <3>1. Pending(u) = 0
      BY <2>1, PendingCount DEF IInv
    <3>2. Len(ttt[u]) \in Nat /\ Len(completion[u]) \in Nat
      BY EventsTyped DEF IInv
    <3>3. QED
      BY <3>1, <3>2, Counts, Zenon DEF Pending
  <2>4. ttt'[u] = Append(ttt[u], m_time_to_trigger[u])
    BY DEF KPI_Monitoring
  <2>5. QED
    BY <2>2, <2>3, <2>4, AppendToEmpty
<1>2. ASSUME NEW u \in User \ S
      PROVE  /\ ttt'[u] = ttt[u] /\ waited'[u] = waited[u]
             /\ isHandoverInProgress'[u] = isHandoverInProgress[u]
  BY DEF KPI_Monitoring, IInv, TypeOK
<1>3. ttt' \in [User -> Seq(0..TimeToTrigger)]
  <2>1. \A u \in User : ttt'[u] \in Seq(0..TimeToTrigger)
    BY <1>1, <1>2 DEF IInv, TypeOK
  <2>2. ttt' = [u \in User |-> ttt'[u]]
    BY DEF KPI_Monitoring
  <2>3. QED
    BY <2>1, <2>2
<1>4. TypeOK'
  <2>1. waited' \in [User -> 0..MaxWait]
    BY TimeAssumption DEF KPI_Monitoring, IInv, TypeOK, MaxWait
  <2>2. kpi' \in 0..CheckTime
    BY TimeAssumption DEF KPI_Monitoring
  <2>3. isHandoverInProgress' \in [User -> BOOLEAN]
    BY DEF KPI_Monitoring, IInv, TypeOK
  <2>4. QED
    BY <1>3, <2>1, <2>2, <2>3 DEF KPI_Monitoring, IInv, TypeOK, network
<1>5. OneHandover'
  <2> SUFFICES ASSUME NEW u \in User
               PROVE  /\ isHandoverInProgress'[u] =>
                            Len(ttt'[u]) + Len(completion'[u]) = 1
                      /\ ~ isHandoverInProgress'[u] =>
                            Len(ttt'[u]) + Len(completion'[u]) = 0
    BY DEF OneHandover
  <2>1. completion' = completion
    BY DEF KPI_Monitoring
  <2>2. CASE u \in S
    <3>1. isHandoverInProgress'[u]
      BY <2>2 DEF KPI_Monitoring
    <3>2. Len(ttt'[u]) = 1 /\ Len(completion'[u]) = 0
      BY <1>1, <2>1, <2>2, Zenon
    <3>3. Len(ttt'[u]) + Len(completion'[u]) = 1
      BY <3>2
    <3>4. QED
      BY <3>1, <3>3
  <2>3. CASE u \notin S
    BY <1>2, <2>1, <2>3 DEF IInv, OneHandover
  <2>4. QED
    BY <2>2, <2>3
<1>6. AddressForRoute'
  BY DEF KPI_Monitoring, network, IInv, AddressForRoute
<1>7. EventInTime'
  <2> SUFFICES ASSUME NEW u \in User, ~ cancelled'[u]
               PROVE  /\ m_time_to_trigger'[u] = TimeToTrigger
                      /\ \A i \in DOMAIN ttt'[u] :
                            waited'[u] + ttt'[u][i] >= TimeToTrigger
                      /\ \A i \in DOMAIN completion'[u] :
                            waited'[u] + completion'[u][i]
                              >= TimeToTrigger + HandoverDelay
    BY DEF EventInTime
  <2>1. UNCHANGED <<completion, cancelled, m_time_to_trigger>>
    BY DEF KPI_Monitoring
  <2>2. m_time_to_trigger[u] = TimeToTrigger
    BY <2>1 DEF IInv, EventInTime
  <2>3. CASE u \in S
    <3>1. waited'[u] = 0
      BY <2>3 DEF KPI_Monitoring
    <3>2. DOMAIN completion[u] = {}
      <4>1. completion[u] \in Seq(0..HandoverDelay) /\ Len(completion[u]) = 0
        BY <1>1, <2>3 DEF IInv, TypeOK
      <4>2. QED
        BY <4>1
    <3>3. QED
      BY <1>1, <2>1, <2>2, <2>3, <3>1, <3>2, TimeAssumption
  <2>4. CASE u \notin S
    BY <1>2, <2>1, <2>4 DEF IInv, EventInTime
  <2>5. QED
    BY <2>3, <2>4
<1>8. QED
  BY <1>4, <1>5, <1>6, <1>7 DEF IInv

(* The second check of a handover: its only event is used up.  It is       *)
(* either replaced by the completion or the handover is given up.          *)
LEMMA CheckInv ==
    ASSUME IInv, NEW u \in User, CheckHandoverMetricsAfterTTTExpirey(u)
    PROVE  IInv'
<1>1. /\ isHandoverInProgress[u]
      /\ Len(ttt[u]) = 1 /\ ttt[u][1] = 0
      /\ Len(completion[u]) = 0
      /\ ttt' = [ttt EXCEPT ![u] = <<>>]
  BY RunTtt DEF CheckHandoverMetricsAfterTTTExpirey
<1>2. /\ ttt \in [User -> Seq(0..TimeToTrigger)]
      /\ completion \in [User -> Seq(0..HandoverDelay)]
  BY DEF IInv, TypeOK
<1>3. /\ ttt' \in [User -> Seq(0..TimeToTrigger)]
      /\ Len(ttt'[u]) = 0 /\ DOMAIN ttt'[u] = {}
      /\ \A x \in User \ {u} : ttt'[x] = ttt[x]
  BY <1>1, <1>2
<1>4. UNCHANGED <<snrVect, kpi, network, waited>>
  BY DEF CheckHandoverMetricsAfterTTTExpirey
<1>5. AddressForRoute'
  BY <1>4 DEF IInv, AddressForRoute, network
<1>6. CASE /\ completion' = [completion EXCEPT ![u] =
                               Append(@, HandoverDelay)]
           /\ UNCHANGED <<isHandoverInProgress, m_time_to_trigger, cancelled>>
  <2>1. /\ completion'[u] = Append(completion[u], HandoverDelay)
        /\ \A x \in User \ {u} : completion'[x] = completion[x]
    BY <1>2, <1>6
  <2>2. HandoverDelay \in 0..HandoverDelay
    BY TimeAssumption
  <2>3. /\ completion'[u] \in Seq(0..HandoverDelay)
        /\ Len(completion'[u]) = 1
        /\ \A i \in DOMAIN completion'[u] :
              completion'[u][i] = HandoverDelay
    BY <1>1, <1>2, <2>1, <2>2, AppendToEmpty
  <2>4. completion' \in [User -> Seq(0..HandoverDelay)]
    BY <1>2, <1>6, <2>1, <2>3
  <2>5. TypeOK'
    BY <1>3, <1>4, <1>6, <2>4 DEF IInv, TypeOK, network, MaxWait
  <2>6. OneHandover'
    <3>1. Len(ttt'[u]) + Len(completion'[u]) = 1
      BY <1>3, <2>3
    <3>2. isHandoverInProgress' = isHandoverInProgress
      BY <1>6
    <3>3. \A x \in User \ {u} : ttt'[x] = ttt[x] /\ completion'[x] = completion[x]
      BY <1>3, <2>1
    <3>4. OneHandover /\ isHandoverInProgress[u]
      BY <1>1 DEF IInv
    <3>5. QED
      BY <3>1, <3>2, <3>3, <3>4 DEF OneHandover
  <2>7. EventInTime'
    <3> SUFFICES ASSUME NEW x \in User, ~ cancelled'[x]
                 PROVE  /\ m_time_to_trigger'[x] = TimeToTrigger
                        /\ \A i \in DOMAIN ttt'[x] :
                              waited'[x] + ttt'[x][i] >= TimeToTrigger
                        /\ \A i \in DOMAIN completion'[x] :
                              waited'[x] + completion'[x][i]
                                >= TimeToTrigger + HandoverDelay
      BY DEF EventInTime
    <3>1. ~ cancelled[x]
      BY <1>6
    <3>2. /\ m_time_to_trigger[x] = TimeToTrigger
          /\ \A i \in DOMAIN ttt[x] : waited[x] + ttt[x][i] >= TimeToTrigger
          /\ \A i \in DOMAIN completion[x] :
                waited[x] + completion[x][i] >= TimeToTrigger + HandoverDelay
      BY <3>1 DEF IInv, EventInTime
    <3>3. CASE x = u
      <4>1. waited[u] >= TimeToTrigger
        <5>1. 1 \in DOMAIN ttt[u]
          BY <1>1, <1>2
        <5>2. waited[u] + ttt[u][1] >= TimeToTrigger /\ waited[u] \in Int
          BY <3>2, <3>3, <5>1 DEF IInv, TypeOK
        <5>3. QED
          BY <1>1, <5>2
      <4>2. waited[u] \in Int /\ HandoverDelay \in Int /\ TimeToTrigger \in Int
        BY TimeAssumption DEF IInv, TypeOK
      <4>3. waited[u] + HandoverDelay >= TimeToTrigger + HandoverDelay
        BY <4>1, <4>2
      <4>4. QED
        BY <1>3, <1>4, <1>6, <2>3, <3>2, <3>3, <4>3
    <3>4. CASE x # u
      BY <1>3, <1>4, <1>6, <2>1, <3>2, <3>4
    <3>5. QED
      BY <3>3, <3>4
  <2>8. QED
    BY <1>5, <2>5, <2>6, <2>7 DEF IInv
<1>7. CASE /\ m_time_to_trigger' = [m_time_to_trigger EXCEPT ![u] = 0]
           /\ isHandoverInProgress' =
                [isHandoverInProgress EXCEPT ![u] = FALSE]
           /\ cancelled' = [cancelled EXCEPT ![u] = TRUE]
           /\ UNCHANGED completion
  <2>1. TypeOK'
    BY <1>3, <1>4, <1>7 DEF IInv, TypeOK, network, MaxWait
  <2>2. OneHandover'
    <3>1. Len(ttt'[u]) + Len(completion'[u]) = 0
      BY <1>1, <1>3, <1>7
    <3>2. ~ isHandoverInProgress'[u]
      BY <1>7 DEF IInv, TypeOK
    <3>3. \A x \in User \ {u} :
             isHandoverInProgress'[x] = isHandoverInProgress[x]
      BY <1>7 DEF IInv, TypeOK
    <3>4. QED
      BY <1>3, <1>7, <3>1, <3>2, <3>3 DEF IInv, OneHandover
  <2>3. EventInTime'
    <3>1. cancelled'[u] /\ \A x \in User \ {u} : cancelled'[x] = cancelled[x]
      BY <1>7 DEF IInv, TypeOK
    <3>2. \A x \in User \ {u} : m_time_to_trigger'[x] = m_time_to_trigger[x]
      BY <1>7 DEF IInv, TypeOK
    <3>3. QED
      BY <1>3, <1>4, <1>7, <3>1, <3>2 DEF IInv, EventInTime
  <2>4. QED
    BY <1>5, <2>1, <2>2, <2>3 DEF IInv
<1>8. QED
  BY <1>6, <1>7 DEF CheckHandoverMetricsAfterTTTExpirey

LEMMA CompleteInv ==
    ASSUME IInv, NEW u \in User, CompleteHandover(u)
    PROVE  IInv'
<1>1. /\ isHandoverInProgress[u]
      /\ Len(completion[u]) = 1
      /\ Len(ttt[u]) = 0
      /\ completion' = [completion EXCEPT ![u] = <<>>]
  BY RunCompletion DEF CompleteHandover
<1>2. completion \in [User -> Seq(0..HandoverDelay)]
  BY DEF IInv, TypeOK
<1>3. /\ completion' \in [User -> Seq(0..HandoverDelay)]
      /\ Len(completion'[u]) = 0 /\ DOMAIN completion'[u] = {}
      /\ \A x \in User \ {u} : completion'[x] = completion[x]
  BY <1>1, <1>2
<1>4. /\ UNCHANGED <<snrVect, m_time_to_trigger, kpi, ttt, history>>
      /\ isHandoverInProgress' = [isHandoverInProgress EXCEPT ![u] = FALSE]
  BY DEF CompleteHandover
<1>5. /\ routes' \in [User -> 0..Routes] /\ addresses' \in [User -> 0..Routes]
      /\ AddressForRoute'
  <2>1. /\ routes \in [User -> 0..Routes] /\ addresses \in [User -> 0..Routes]
        /\ AddressForRoute
    BY DEF IInv, TypeOK
  <2>2. CASE UNCHANGED network
    BY <2>1, <2>2 DEF network, AddressForRoute
  <2>3. CASE /\ routes[u] > 0
             /\ routes' = [routes EXCEPT ![u] = @ - 1]
             /\ addresses' = [addresses EXCEPT ![u] =
                                IF HasWifi THEN @ + 1 ELSE @]
    <3>1. CASE HasWifi
      BY <2>1, <2>3, <3>1, RouteAssumption DEF AddressForRoute
    <3>2. CASE ~ HasWifi
      BY <2>1, <2>3, <3>2, RouteAssumption DEF AddressForRoute
    <3>3. QED
      BY <3>1, <3>2
  <2>4. QED
    BY <2>2, <2>3 DEF CompleteHandover, TransferApplicationLiFiToWiFi
<1>6. TypeOK'
  BY <1>3, <1>4, <1>5 DEF IInv, TypeOK, history, MaxWait
<1>7. OneHandover'
  <2>1. Len(ttt'[u]) + Len(completion'[u]) = 0
    BY <1>1, <1>3, <1>4
  <2>2. ~ isHandoverInProgress'[u]
    BY <1>4 DEF IInv, TypeOK
  <2>3. \A x \in User \ {u} :
           isHandoverInProgress'[x] = isHandoverInProgress[x]
    BY <1>4 DEF IInv, TypeOK
  <2>4. QED
    BY <1>3, <1>4, <2>1, <2>2, <2>3 DEF IInv, OneHandover
<1>8. EventInTime'
  BY <1>3, <1>4 DEF IInv, EventInTime, history
<1>9. QED
  BY <1>5, <1>6, <1>7, <1>8 DEF IInv

(* A unit of time: what is left shrinks by what the wait grows.            *)
LEMMA TickInv ==
    ASSUME IInv, Tick
    PROVE  IInv'
<1>1. ASSUME NEW u \in User
      PROVE  /\ ttt'[u] \in Seq(0..TimeToTrigger)
             /\ completion'[u] \in Seq(0..HandoverDelay)
             /\ Len(ttt'[u]) = Len(ttt[u])
             /\ Len(completion'[u]) = Len(completion[u])
             /\ \A i \in DOMAIN ttt'[u] :
                   i \in DOMAIN ttt[u] /\ ttt'[u][i] = ttt[u][i] - 1
             /\ \A i \in DOMAIN completion'[u] :
                   /\ i \in DOMAIN completion[u]
                   /\ completion'[u][i] = completion[u][i] - 1
  <2>1. /\ ttt[u] \in Seq(0..TimeToTrigger)
        /\ completion[u] \in Seq(0..HandoverDelay)
    BY EventsTyped DEF IInv
  <2>2. /\ ttt'[u] = [i \in DOMAIN ttt[u] |-> ttt[u][i] - 1]
        /\ completion'[u] = [i \in DOMAIN completion[u] |-> completion[u][i] - 1]
    BY DEF Tick, Earlier
  <2>3. /\ \A i \in DOMAIN ttt[u] : ttt[u][i] > 0
        /\ \A i \in DOMAIN completion[u] : completion[u][i] > 0
    BY DEF Tick, Range
  <2>4. /\ \A i \in DOMAIN ttt[u] : ttt[u][i] - 1 \in 0..TimeToTrigger
        /\ \A i \in DOMAIN completion[u] :
              completion[u][i] - 1 \in 0..HandoverDelay
    <3>1. ASSUME NEW i \in DOMAIN ttt[u]
          PROVE  ttt[u][i] - 1 \in 0..TimeToTrigger
      <4>1. ttt[u][i] > 0
        BY <2>3
      <4>2. ttt[u][i] \in 0..TimeToTrigger
        BY <2>1, ElementType
      <4>3. QED
        BY <4>1, <4>2, TimeAssumption
    <3>2. ASSUME NEW i \in DOMAIN completion[u]
          PROVE  completion[u][i] - 1 \in 0..HandoverDelay
      <4>1. completion[u][i] > 0
        BY <2>3
      <4>2. completion[u][i] \in 0..HandoverDelay
        BY <2>1, ElementType
      <4>3. QED
        BY <4>1, <4>2, TimeAssumption
    <3>3. QED
      BY <3>1, <3>2
  <2>5. /\ DOMAIN ttt[u] = 1..Len(ttt[u]) /\ Len(ttt[u]) \in Nat
        /\ DOMAIN completion[u] = 1..Len(completion[u])
        /\ Len(completion[u]) \in Nat
    BY <2>1
  <2>6. ttt'[u] \in Seq(0..TimeToTrigger) /\ Len(ttt'[u]) = Len(ttt[u])
    BY <2>2, <2>4, <2>5
  <2>7. /\ completion'[u] \in Seq(0..HandoverDelay)
        /\ Len(completion'[u]) = Len(completion[u])
    BY <2>2, <2>4, <2>5
  <2>8. QED
    BY <2>2, <2>6, <2>7
<1>2. UNCHANGED <<snrVect, isHandoverInProgress, m_time_to_trigger, network,
                  cancelled>>
  BY DEF Tick
<1>3. TypeOK'
  <2>1. /\ ttt' = [u \in User |-> ttt'[u]]
        /\ completion' = [u \in User |-> completion'[u]]
    BY DEF Tick
  <2>2. /\ ttt' \in [User -> Seq(0..TimeToTrigger)]
        /\ completion' \in [User -> Seq(0..HandoverDelay)]
    BY <1>1, <2>1
  <2>3. waited' \in [User -> 0..MaxWait]
    BY TimeAssumption DEF Tick, IInv, TypeOK, MaxWait
  <2>4. kpi' \in 0..CheckTime
    BY TimeAssumption DEF Tick, IInv, TypeOK
  <2>5. QED
    BY <1>2, <2>2, <2>3, <2>4 DEF IInv, TypeOK, network
<1>4. OneHandover'
  BY <1>1, <1>2 DEF IInv, OneHandover
<1>5. AddressForRoute'
  BY <1>2 DEF IInv, AddressForRoute, network
<1>6. EventInTime'
  <2> SUFFICES ASSUME NEW u \in User, ~ cancelled[u]
               PROVE  /\ \A i \in DOMAIN ttt'[u] :
                            waited'[u] + ttt'[u][i] >= TimeToTrigger
                      /\ \A i \in DOMAIN completion'[u] :
                            waited'[u] + completion'[u][i]
                              >= TimeToTrigger + HandoverDelay
    BY <1>2 DEF EventInTime, IInv
  <2>1. /\ \A i \in DOMAIN ttt[u] : waited[u] + ttt[u][i] >= TimeToTrigger
        /\ \A i \in DOMAIN completion[u] :
              waited[u] + completion[u][i] >= TimeToTrigger + HandoverDelay
    BY DEF IInv, EventInTime
  <2>2. waited[u] \in Int /\ waited'[u] = (IF waited[u] < MaxWait
                                           THEN waited[u] + 1 ELSE MaxWait)
    BY DEF IInv, TypeOK, Tick
  <2>3. /\ ttt[u] \in Seq(0..TimeToTrigger)
        /\ completion[u] \in Seq(0..HandoverDelay)
    BY DEF IInv, TypeOK
  <2>4. ASSUME NEW i \in DOMAIN ttt'[u]
        PROVE  waited'[u] + ttt'[u][i] >= TimeToTrigger
    <3>1. i \in DOMAIN ttt[u] /\ ttt'[u][i] = ttt[u][i] - 1
      BY <1>1
    <3>2. waited[u] + ttt[u][i] >= TimeToTrigger
      BY <2>1, <3>1
    <3>3. ttt[u][i] \in 0..TimeToTrigger /\ ttt'[u][i] \in 0..TimeToTrigger
      BY <1>1, <2>3, <3>1, ElementType
    <3>4. QED
      BY <2>2, <3>1, <3>2, <3>3, TimeAssumption DEF MaxWait
  <2>5. ASSUME NEW i \in DOMAIN completion'[u]
        PROVE  waited'[u] + completion'[u][i] >= TimeToTrigger + HandoverDelay
    <3>1. i \in DOMAIN completion[u] /\ completion'[u][i] = completion[u][i] - 1
      BY <1>1
    <3>2. waited[u] + completion[u][i] >= TimeToTrigger + HandoverDelay
      BY <2>1, <3>1
    <3>3. /\ completion[u][i] \in 0..HandoverDelay
          /\ completion'[u][i] \in 0..HandoverDelay
      BY <1>1, <2>3, <3>1, ElementType
    <3>4. QED
      BY <2>2, <3>1, <3>2, <3>3, TimeAssumption DEF MaxWait
  <2>6. QED
    BY <2>4, <2>5
<1>7. QED
  BY <1>3, <1>4, <1>5, <1>6 DEF IInv

LEMMA NextInv == IInv /\ [Next]_vars => IInv'
<1> SUFFICES ASSUME IInv, [Next]_vars PROVE IInv'
  OBVIOUS
<1>1. CASE KPI_Monitoring
  BY <1>1, KpiInv
<1>2. CASE \E u \in User : CheckHandoverMetricsAfterTTTExpirey(u)
  BY <1>2, CheckInv
<1>3. CASE \E u \in User : CompleteHandover(u)
  BY <1>3, CompleteInv
<1>4. CASE Tick
  BY <1>4, TickInv
<1>5. CASE \E u \in User, snr \in Snr : LiFiAPMeasurementReports(u, snr)
  BY <1>5, ReportInv
<1>6. CASE UNCHANGED vars
  <2>1. TypeOK' /\ OneHandover' /\ AddressForRoute' /\ EventInTime'
    BY <1>6 DEF IInv, TypeOK, OneHandover, AddressForRoute, EventInTime,
                vars, user, network, history
  <2>2. QED
    BY <2>1 DEF IInv
<1>7. QED
  BY <1>1, <1>2, <1>3, <1>4, <1>5, <1>6 DEF Next, Simulate

LEMMA Invariance == Spec => []IInv
<1>1. QED
  BY InitInv, NextInv, PTL DEF Spec

-----------------------------------------------------------------------------
(* Theorems.                                                               *)

(* The controller's state keeps its types.                                 *)
THEOREM TypeCorrect == Spec => []TypeOK
<1>1. IInv => TypeOK
  BY DEF IInv
<1>2. QED
  BY <1>1, Invariance, PTL

(* A handover in progress has exactly one pending event, and no other has. *)
THEOREM HandoverIsSingle == Spec => []OneHandover
<1>1. IInv => OneHandover
  BY DEF IInv
<1>2. QED
  BY <1>1, Invariance, PTL

(* No address is added without a route having been removed.                *)
THEOREM AddressesReplaceRoutes == Spec => []AddressForRoute
<1>1. IInv => AddressForRoute
  BY DEF IInv
<1>2. QED
  BY <1>1, Invariance, PTL

(* A handover takes its time to trigger and its delay, unless one of the   *)
(* user was given up before.                                               *)
THEOREM HandoversWait == Spec => HandoverWaits
<1> DEFINE Waits == \A u \in User : CompleteHandover(u) =>
                     cancelled[u] \/ waited[u] >= TimeToTrigger + HandoverDelay
<1>1. ASSUME IInv, NEW u \in User, CompleteHandover(u), ~ cancelled[u]
      PROVE  waited[u] >= TimeToTrigger + HandoverDelay
  <2>1. Len(completion[u]) = 1 /\ completion[u][1] = 0
    BY <1>1, RunCompletion DEF CompleteHandover
  <2>2. 1 \in DOMAIN completion[u]
    BY <1>1, <2>1 DEF IInv, TypeOK
  <2>3. /\ waited[u] + completion[u][1] >= TimeToTrigger + HandoverDelay
        /\ waited[u] \in Int
    BY <1>1, <2>2 DEF IInv, EventInTime, TypeOK
  <2>4. QED
    BY <2>1, <2>3
<1>2. IInv /\ [Next]_vars => [Waits]_vars
  BY <1>1
<1>3. QED
  BY <1>2, Invariance, PTL DEF Spec, HandoverWaits

-----------------------------------------------------------------------------
(* The controller implements the abstract handover.                        *)

LEMMA LengthZero ==
    ASSUME NEW S, NEW s \in Seq(S)
    PROVE  /\ Len(s) = 0 => s = <<>>
           /\ Len(s) = 1 => s # <<>>
  OBVIOUS

LEMMA ProtocolInit == Init => Protocol!Init
<1> SUFFICES ASSUME Init PROVE Protocol!Init
  OBVIOUS
<1>1. \A u \in User : PhaseOf(u) = "idle"
  BY DEF Init, PhaseOf
<1>2. OnWifi = {}
  BY DEF Init, OnWifi
<1>3. QED
  BY <1>1, <1>2 DEF Protocol!Init

LEMMA ProtocolInitiate ==
    ASSUME IInv, KPI_Monitoring
    PROVE  Protocol!Initiate({u \in User : Required(u)})
<1> DEFINE S == {u \in User : Required(u)}
<1>1. UNCHANGED <<completion, OnWifi>>
  BY DEF KPI_Monitoring, network, OnWifi
<1>2. ASSUME NEW u \in S
      PROVE  PhaseOf(u) = "idle" /\ PhaseOf(u)' = "triggered"
  <2>1. ~ isHandoverInProgress[u]
    BY DEF Required
  <2>2. /\ ttt[u] \in Seq(0..TimeToTrigger)
        /\ completion[u] \in Seq(0..HandoverDelay)
        /\ m_time_to_trigger[u] \in 0..TimeToTrigger
    BY EventsTyped DEF IInv
  <2>3. Pending(u) = 0
    BY <2>1, PendingCount DEF IInv
  <2>4. Len(ttt[u]) \in Nat /\ Len(completion[u]) \in Nat
    BY EventsTyped DEF IInv
  <2>5. Len(ttt[u]) = 0 /\ Len(completion[u]) = 0
    BY <2>3, <2>4, Counts, Zenon DEF Pending
  <2>6. ttt[u] = <<>> /\ completion[u] = <<>>
    BY <2>2, <2>5, LengthZero
  <2>7. ttt'[u] # <<>>
    <3>1. ttt'[u] = Append(ttt[u], m_time_to_trigger[u])
      BY DEF KPI_Monitoring
    <3>2. Len(ttt[u]) = 0
      BY <2>5
    <3>3. QED
      BY <2>2, <3>1, <3>2, AppendToEmpty, LengthZero
  <2>8. QED
    BY <1>1, <2>6, <2>7 DEF PhaseOf
<1>3. ASSUME NEW u \in User \ S
      PROVE  PhaseOf(u)' = PhaseOf(u)
  <2>1. ttt'[u] = ttt[u]
    BY DEF KPI_Monitoring
  <2>2. QED
    BY <1>1, <2>1 DEF PhaseOf
<1>4. \A u \in User :
         PhaseOf(u)' = IF u \in S THEN "triggered" ELSE PhaseOf(u)
  BY <1>2, <1>3
<1>5. S \subseteq User
  OBVIOUS
<1>6. Protocol!Initiate(S)
  <2> HIDE DEF S
  <2>1. QED
    BY <1>1, <1>2, <1>4, <1>5 DEF Protocol!Initiate
<1>7. QED
  BY <1>6

LEMMA ProtocolCheck ==
    ASSUME IInv, NEW u \in User, CheckHandoverMetricsAfterTTTExpirey(u)
    PROVE  Protocol!Check(u)
<1>1. /\ Len(ttt[u]) = 1 /\ Len(completion[u]) = 0
      /\ ttt' = [ttt EXCEPT ![u] = <<>>]
  BY RunTtt DEF CheckHandoverMetricsAfterTTTExpirey
<1>2. /\ ttt \in [User -> Seq(0..TimeToTrigger)]
      /\ completion \in [User -> Seq(0..HandoverDelay)]
  BY DEF IInv, TypeOK
<1>3. ttt[u] # <<>> /\ completion[u] = <<>>
  <2>1. ttt[u] \in Seq(0..TimeToTrigger) /\ completion[u] \in Seq(0..HandoverDelay)
    BY <1>2
  <2>2. QED
    BY <1>1, <2>1, LengthZero
<1>4. PhaseOf(u) = "triggered"
  BY <1>3 DEF PhaseOf
<1>5. /\ completion'[u] = <<>> \/ completion'[u] # <<>>
      /\ \A x \in User \ {u} : completion'[x] = completion[x]
  BY <1>2 DEF CheckHandoverMetricsAfterTTTExpirey
<1>6. ttt'[u] = <<>> /\ \A x \in User \ {u} : ttt'[x] = ttt[x]
  BY <1>1, <1>2
<1>7. PhaseOf(u)' \in {"executing", "idle"}
  BY <1>6 DEF PhaseOf
<1>8. \A x \in User \ {u} : PhaseOf(x)' = PhaseOf(x)
  BY <1>5, <1>6 DEF PhaseOf
<1>9. OnWifi' = OnWifi
  BY DEF CheckHandoverMetricsAfterTTTExpirey, network, OnWifi
<1>10. QED
  BY <1>4, <1>7, <1>8, <1>9 DEF Protocol!Check

LEMMA ProtocolComplete ==
    ASSUME IInv, NEW u \in User, CompleteHandover(u)
    PROVE  Protocol!Complete(u)
<1>1. /\ Len(completion[u]) = 1 /\ Len(ttt[u]) = 0
      /\ completion' = [completion EXCEPT ![u] = <<>>]
  BY RunCompletion DEF CompleteHandover
<1>2. /\ ttt \in [User -> Seq(0..TimeToTrigger)]
      /\ completion \in [User -> Seq(0..HandoverDelay)]
  BY DEF IInv, TypeOK
<1>3. completion[u] # <<>> /\ ttt[u] = <<>>
  <2>1. ttt[u] \in Seq(0..TimeToTrigger) /\ completion[u] \in Seq(0..HandoverDelay)
    BY <1>2
  <2>2. QED
    BY <1>1, <2>1, LengthZero
<1>4. ttt' = ttt
  BY DEF CompleteHandover
<1>5. completion'[u] = <<>> /\ \A x \in User \ {u} : completion'[x] = completion[x]
  BY <1>1, <1>2
<1>6. PhaseOf(u) = "executing" /\ PhaseOf(u)' = "idle"
  BY <1>3, <1>4, <1>5 DEF PhaseOf
<1>7. \A x \in User \ {u} : PhaseOf(x)' = PhaseOf(x)
  BY <1>4, <1>5 DEF PhaseOf
<1>8. OnWifi' \in {OnWifi, OnWifi \cup {u}}
  <2>1. addresses \in [User -> 0..Routes]
    BY DEF IInv, TypeOK
  <2>2. CASE addresses' = addresses
    BY <2>2 DEF OnWifi
  <2>3. CASE addresses' = [addresses EXCEPT ![u] = @ + 1]
    <3>1. addresses'[u] > 0 /\ \A x \in User \ {u} : addresses'[x] = addresses[x]
      BY <2>1, <2>3, RouteAssumption
    <3>2. OnWifi' = OnWifi \cup {u}
      BY <3>1 DEF OnWifi
    <3>3. QED
      BY <3>2
  <2>4. addresses' = addresses \/ addresses' = [addresses EXCEPT ![u] = @ + 1]
    <3>1. CASE UNCHANGED network
      BY <3>1 DEF network
    <3>2. CASE addresses' = [addresses EXCEPT ![u] =
                               IF HasWifi THEN @ + 1 ELSE @]
      <4>1. CASE HasWifi
        BY <3>2, <4>1
      <4>2. CASE ~ HasWifi
        BY <2>1, <3>2, <4>2
      <4>3. QED
        BY <4>1, <4>2
    <3>3. QED
      BY <3>1, <3>2 DEF CompleteHandover, TransferApplicationLiFiToWiFi
  <2>5. QED
    BY <2>2, <2>3, <2>4
<1>9. QED
  BY <1>6, <1>7, <1>8 DEF Protocol!Complete

(* Time and reports do not show in the abstract state.                     *)
LEMMA ProtocolStutter ==
    ASSUME IInv,
           \/ Tick
           \/ \E u \in User, snr \in Snr : LiFiAPMeasurementReports(u, snr)
           \/ UNCHANGED vars
    PROVE  UNCHANGED Protocol!handoverVars
<1>1. OnWifi' = OnWifi
  BY DEF Tick, LiFiAPMeasurementReports, vars, network, OnWifi
<1>2. ASSUME NEW u \in User
      PROVE  PhaseOf(u)' = PhaseOf(u)
  <2>1. CASE Tick
    <3>1. /\ ttt'[u] = [i \in DOMAIN ttt[u] |-> ttt[u][i] - 1]
          /\ completion'[u] =
               [i \in DOMAIN completion[u] |-> completion[u][i] - 1]
      BY <2>1 DEF Tick, Earlier
    <3>2. /\ ttt[u] \in Seq(0..TimeToTrigger)
          /\ completion[u] \in Seq(0..HandoverDelay)
      BY DEF IInv, TypeOK
    <3>3. ttt'[u] = <<>> <=> ttt[u] = <<>>
      BY <3>1, <3>2
    <3>4. completion'[u] = <<>> <=> completion[u] = <<>>
      BY <3>1, <3>2
    <3>5. QED
      BY <3>3, <3>4 DEF PhaseOf
  <2>2. CASE UNCHANGED <<ttt, completion>>
    BY <2>2 DEF PhaseOf
  <2>3. QED
    BY <2>1, <2>2 DEF LiFiAPMeasurementReports, vars, user
<1>3. QED
  BY <1>1, <1>2 DEF Protocol!handoverVars

(* A handover goes through its two checks, is never run twice at once, and *)
(* only its execution moves the user to WiFi.                              *)
THEOREM ImplementsHandover == Spec => HandoverSpec
<1>1. ASSUME IInv, [Next]_vars
      PROVE  [Protocol!Next]_(Protocol!handoverVars)
  <2>1. CASE KPI_Monitoring
    BY <1>1, <2>1, ProtocolInitiate DEF Protocol!Next
  <2>2. CASE \E u \in User : CheckHandoverMetricsAfterTTTExpirey(u)
    BY <1>1, <2>2, ProtocolCheck DEF Protocol!Next
  <2>3. CASE \E u \in User : CompleteHandover(u)
    BY <1>1, <2>3, ProtocolComplete DEF Protocol!Next
  <2>4. CASE \/ Tick
             \/ \E u \in User, snr \in Snr : LiFiAPMeasurementReports(u, snr)
             \/ UNCHANGED vars
    BY <1>1, <2>4, ProtocolStutter
  <2>5. QED
    BY <1>1, <2>1, <2>2, <2>3, <2>4 DEF Next, Simulate
<1>2. QED
  BY ProtocolInit, <1>1, Invariance, PTL DEF Spec, HandoverSpec, Protocol!Spec

(* The books of every user agree with its events and its routes.           *)
THEOREM HandoversAreSound == Spec => []HandoverSound
<1>1. QED
  BY TypeCorrect, HandoverIsSingle, AddressesReplaceRoutes, PTL DEF HandoverSound
=============================================================================
