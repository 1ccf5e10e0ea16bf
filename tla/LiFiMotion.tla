------------------------------ MODULE LiFiMotion ------------------------------
(***************************************************************************)
(* The two other mobility models, on a line: LiFiMobilityModel, which      *)
(* accelerates, and LiFiConstantVelocityMobilityModel, whose position is   *)
(* kept up to date by a ConstantVelocityHelper of ns-3.  Positions are     *)
(* doubled, so that half of a square is an integer.                        *)
(***************************************************************************)
EXTENDS Integers

CONSTANTS Where, Speed, Acceleration, MaxTime

ASSUME MotionAssumption ==
    Where \subseteq Int /\ Speed \subseteq Int /\ Acceleration \subseteq Int /\ MaxTime \in Nat

VARIABLES
    clock,
    m_baseTime, m_basePosition, m_baseVelocity, m_acceleration,   \* LiFiMobilityModel
    helper,        \* the position and velocity of the helper, and its last update
    paused,        \* the helper is paused until the first SetVelocity
    read           \* what GetPosition answered last at this moment, and how often

accelerated == <<m_baseTime, m_basePosition, m_baseVelocity, m_acceleration>>
constant == <<helper, paused, read>>
motionVars == <<clock, accelerated, constant>>

NotRead == [times |-> 0, position |-> 0]

MotionInit ==
    /\ clock = 0
    /\ m_baseTime = 0 /\ m_basePosition = 0 /\ m_baseVelocity = 0 /\ m_acceleration = 0
    /\ helper = [position |-> 0, velocity |-> 0, lastUpdate |-> 0]
    /\ paused = TRUE
    /\ read = NotRead

-----------------------------------------------------------------------------
DoGetVelocity == m_baseVelocity + m_acceleration * (clock - m_baseTime)
DoGetPosition ==
    LET t == clock - m_baseTime IN
    m_basePosition + 2 * m_baseVelocity * t + m_acceleration * t * t

(* DoSetPosition takes the velocity over before it moves the base time.    *)
SetBasePosition(x) ==
    /\ m_baseVelocity' = DoGetVelocity
    /\ m_baseTime' = clock
    /\ m_basePosition' = 2 * x
    /\ UNCHANGED <<clock, m_acceleration, constant>>

SetVelocityMutantBaseTimeFirst(v, a) ==
    /\ m_baseTime' = clock
    /\ m_basePosition' = m_basePosition
    /\ m_baseVelocity' = v
    /\ m_acceleration' = a
    /\ UNCHANGED <<clock, constant>>

SetVelocityAndAcceleration(v, a) ==
    /\ m_basePosition' = DoGetPosition
    /\ m_baseTime' = clock
    /\ m_baseVelocity' = v
    /\ m_acceleration' = a
    /\ UNCHANGED <<clock, constant>>

-----------------------------------------------------------------------------
(* The ConstantVelocityHelper: where it is now, and its Update.            *)
Reached == helper.position + (IF paused THEN 0 ELSE 2 * helper.velocity * (clock - helper.lastUpdate))
Updated == [helper EXCEPT !.position = Reached, !.lastUpdate = clock]

SetVelocity(v) ==
    /\ helper' = [Updated EXCEPT !.velocity = v]
    /\ paused' = FALSE
    /\ UNCHANGED <<clock, accelerated, read>>

(* The helper's SetPosition stops it.                                      *)
SetHelperPosition(x) ==
    /\ helper' = [position |-> 2 * x, velocity |-> 0, lastUpdate |-> clock]
    /\ read' = NotRead
    /\ UNCHANGED <<clock, accelerated, paused>>

(* DoGetPosition reads the position, then updates it.                      *)
GetPosition ==
    /\ read' = [times |-> IF read.times = 2 THEN 2 ELSE read.times + 1, position |-> helper.position]
    /\ helper' = Updated
    /\ UNCHANGED <<clock, accelerated, paused>>

Advance ==
    /\ clock < MaxTime
    /\ clock' = clock + 1
    /\ read' = NotRead
    /\ UNCHANGED <<accelerated, helper, paused>>

MotionNext ==
    \/ \E x \in Where : SetBasePosition(x)
    \/ \E v \in Speed, a \in Acceleration : SetVelocityAndAcceleration(v, a)
    \/ \E v \in Speed : SetVelocity(v)
    \/ \E x \in Where : SetHelperPosition(x)
    \/ GetPosition
    \/ Advance

MotionSpec == MotionInit /\ [][MotionNext]_motionVars

-----------------------------------------------------------------------------
(* Properties.                                                             *)

(* A body has inertia: nothing that is set makes an accelerated device     *)
(* jump and change its speed at once; setting a position keeps the speed,  *)
(* setting speed and acceleration keeps the position.                      *)
NoJump ==
    [][clock' = clock =>
          \/ DoGetPosition' = DoGetPosition
          \/ DoGetVelocity' = DoGetVelocity /\ m_acceleration' = m_acceleration]_motionVars

(* The first read of a position may be as old as the last update; a second *)
(* one at the same moment is true.                                         *)
SecondReadTrue == read.times = 2 => read.position = Reached
=============================================================================
