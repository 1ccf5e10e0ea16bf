------------------------------- MODULE LiFiWalk -------------------------------
(***************************************************************************)
(* LiFiRandomWaypointMobilityModel: a user device pauses, picks a          *)
(* destination and walks there in steps of the coherence time.  One event  *)
(* at a time is meant to be scheduled, the one that m_event knows; but     *)
(* DoInitialize forgets the event that SetPosition has scheduled before.   *)
(*                                                                         *)
(* The walk is on a line, at a speed of 1; the helper's position, at which *)
(* a walk begins, is any place.  A pause may be of any length, so events   *)
(* run in any order but the one InTime excludes.                           *)
(***************************************************************************)
EXTENDS Integers, Sequences

CONSTANTS
    Place,            \* places on the line
    m_coherenceTime,  \* time, and so distance, of a step
    MaxSetPosition    \* bound on the calls of SetPosition

ASSUME PlaceAssumption == Place \subseteq Int
ASSUME WalkBounds == m_coherenceTime \in Nat \ {0} /\ MaxSetPosition \in Nat

VARIABLES
    initialized,      \* DoInitialize has run
    m_event,          \* the scheduled event that m_event knows
    strays,           \* scheduled events that it does not
    elapsedTime,      \* duration of the walk begun last
    m_RWPDataVector,  \* begin and destination of the last entry
    positions         \* calls of SetPosition

walkVars == <<initialized, m_event, strays, elapsedTime, m_RWPDataVector, positions>>

NoData == <<>>
Initializing == [kind |-> "Initialize"]
Initiating == [kind |-> "InitiateWalk"]

(* A step of a walk: its arguments, and, as history, the walk's own        *)
(* duration and whether no other walk has begun since.                     *)
Beginning(from, point, to, move, own, alone) ==
    [kind |-> "BeginWalk", from |-> from, point |-> point, to |-> to, currMove |-> move,
     own |-> own, alone |-> alone]

Distance(x, y) == IF x <= y THEN y - x ELSE x - y

(* The walking angle: atan2 of nothing is 0.                               *)
Direction(from, to) == IF to < from THEN -1 ELSE 1

NotAlone(e) == IF e.kind = "BeginWalk" THEN [e EXCEPT !.alone = FALSE] ELSE e

-----------------------------------------------------------------------------
(* SetPosition when the model is installed, before the program runs.       *)
WalkInit ==
    /\ initialized = FALSE
    /\ m_event = Initializing
    /\ strays = <<>>
    /\ elapsedTime = 0
    /\ m_RWPDataVector = NoData
    /\ positions = 0

(* The events that remain when event i runs, 0 the one that m_event knows, *)
(* and m_event is assigned anew: the event it knew goes on unknown.        *)
Forgotten(i) == IF i = 0 THEN strays ELSE
    Append(SubSeq(strays, 1, i - 1) \o SubSeq(strays, i + 1, Len(strays)), m_event)

(* The same when m_event is cancelled before it is assigned.               *)
Cancelled(i) == IF i = 0 THEN strays ELSE
    SubSeq(strays, 1, i - 1) \o SubSeq(strays, i + 1, Len(strays))

Event(i) == IF i = 0 THEN m_event ELSE strays[i]

(* DoInitialize, once, before any event that SetPosition has scheduled.    *)
DoInitialize ==
    /\ ~ initialized
    /\ initialized' = TRUE
    /\ strays' = Append(strays, m_event)
    /\ m_event' = Initiating
    /\ UNCHANGED <<elapsedTime, m_RWPDataVector, positions>>

(* DoSetPosition removes the event that m_event knows.                     *)
DoSetPosition ==
    /\ positions < MaxSetPosition
    /\ positions' = positions + 1
    /\ m_event' = Initializing
    /\ UNCHANGED <<initialized, strays, elapsedTime, m_RWPDataVector>>

DoInitializePrivate(i) ==
    /\ Event(i).kind = "Initialize"
    /\ strays' = Forgotten(i)
    /\ m_event' = Initiating
    /\ UNCHANGED <<initialized, elapsedTime, m_RWPDataVector, positions>>

(* The device pauses and a walk from one place to another is scheduled.    *)
InitiateWalk(i, from, to) ==
    /\ Event(i).kind = "InitiateWalk"
    /\ LET left == Forgotten(i) IN
       strays' = [k \in DOMAIN left |-> NotAlone(left[k])]
    /\ elapsedTime' = Distance(from, to)
    /\ m_event' = Beginning(from, from, to, 0, Distance(from, to), TRUE)
    /\ UNCHANGED <<initialized, m_RWPDataVector, positions>>

NextEventMutantOneMore(e) ==
    IF e.currMove <= elapsedTime + m_coherenceTime
    THEN [e EXCEPT !.point = @ + Direction(e.from, e.to) * m_coherenceTime,
                   !.currMove = @ + m_coherenceTime]
    ELSE Initiating

(* One more step, or the end of the walk at its destination.               *)
NextEvent(e) ==
    IF e.currMove <= elapsedTime
    THEN [e EXCEPT !.point = @ + Direction(e.from, e.to) * m_coherenceTime,
                   !.currMove = @ + m_coherenceTime]
    ELSE Initiating

BeginWalkMutantNoCancel(i) ==
    /\ Event(i).kind = "BeginWalk"
    /\ strays' = Forgotten(i)
    /\ m_event' = NextEvent(Event(i))
    /\ m_RWPDataVector' = <<Event(i).from, Event(i).to>>
    /\ UNCHANGED <<initialized, elapsedTime, positions>>

(* BeginWalk cancels whatever m_event knows.                               *)
BeginWalk(i) ==
    /\ Event(i).kind = "BeginWalk"
    /\ strays' = Cancelled(i)
    /\ m_event' = NextEvent(Event(i))
    /\ m_RWPDataVector' = <<Event(i).from, Event(i).to>>
    /\ UNCHANGED <<initialized, elapsedTime, positions>>

(* The event that m_event knows was scheduled last.  A step comes a        *)
(* m_coherenceTime after the one before it; the way that is left at the    *)
(* end of a walk takes no longer, so a forgotten InitiateWalk comes first. *)
InTime(i) ==
    i = 0 /\ m_event.kind = "BeginWalk" /\ m_event.currMove > 0 =>
        \A k \in DOMAIN strays : strays[k].kind = "BeginWalk"

(* An event runs, once the model is initialized.                           *)
Run(i) ==
    /\ initialized
    /\ InTime(i)
    /\ \/ DoInitializePrivate(i)
       \/ \E from \in Place, to \in Place : InitiateWalk(i, from, to)
       \/ BeginWalk(i)

WalkNext ==
    \/ DoInitialize
    \/ DoSetPosition
    \/ \E i \in 0..Len(strays) : Run(i)

(* Every scheduled event runs in the end.                                  *)
WalkFair ==
    /\ WF_walkVars(DoInitialize)
    /\ WF_walkVars(Run(0))
    /\ WF_walkVars(strays # <<>> /\ Run(1))

WalkSpec == WalkInit /\ [][WalkNext]_walkVars /\ WalkFair

-----------------------------------------------------------------------------
(* Properties.                                                             *)

(* The second chain of events that DoInitialize leaves behind does not     *)
(* last: the first step of a forgotten walk cancels the other one.         *)
ForkHeals == <>[](strays = <<>>)

(* At most one event is ever forgotten.  A walk during which no other one  *)
(* begins passes its destination by at most one step, although elapsedTime *)
(* is one for all walks; and once a step is done, GetMobilityData tells of *)
(* the walk that is under way.                                             *)
WalkReaches ==
    /\ Len(strays) <= 1
    /\ m_event.kind = "BeginWalk" /\ m_event.alone =>
           /\ m_event.own = elapsedTime
           /\ m_event.currMove <= m_event.own + m_coherenceTime
           /\ Distance(m_event.point, m_event.to) <=
                 (IF m_event.currMove > m_event.own THEN m_coherenceTime ELSE m_event.own)
    /\ m_event.kind = "BeginWalk" /\ m_event.currMove > 0 =>
           m_RWPDataVector = <<m_event.from, m_event.to>>
=============================================================================
