------------------------------ MODULE Handover ------------------------------
(***************************************************************************)
(* What the controller promises about the handover of a user: it goes      *)
(* through two checks, is never run twice at once, and only its execution  *)
(* moves the user, once and for all, from LiFi to WiFi.                    *)
(***************************************************************************)
CONSTANT User

VARIABLES phase, onWifi

handoverVars == <<phase, onWifi>>

Init ==
    /\ phase = [u \in User |-> "idle"]
    /\ onWifi = {}

(* The first check: the idle users of S start a handover together.         *)
Initiate(S) ==
    /\ \A u \in S : phase[u] = "idle"
    /\ phase' = [u \in User |-> IF u \in S THEN "triggered" ELSE phase[u]]
    /\ UNCHANGED onWifi

(* The second check confirms the handover, or cancels it.                  *)
Check(u) ==
    /\ phase[u] = "triggered"
    /\ \E p \in {"executing", "idle"} : phase' = [phase EXCEPT ![u] = p]
    /\ UNCHANGED onWifi

(* The execution moves the user if there is a way to.                      *)
Complete(u) ==
    /\ phase[u] = "executing"
    /\ phase' = [phase EXCEPT ![u] = "idle"]
    /\ onWifi' \in {onWifi, onWifi \cup {u}}

Next ==
    \/ \E S \in SUBSET User : Initiate(S)
    \/ \E u \in User : Check(u) \/ Complete(u)

Spec == Init /\ [][Next]_handoverVars
=============================================================================
