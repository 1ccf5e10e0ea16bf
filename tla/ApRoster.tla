------------------------------ MODULE ApRoster ------------------------------
(***************************************************************************)
(* What an access point promises the centralized controller about its      *)
(* stations.  A station once known stays known; it is present when it has  *)
(* answered, or has been listed by the helper, since the last beacon.  A   *)
(* batch of reports names every known station and no other: with a         *)
(* measured SNR at least once if it is present, never otherwise, and       *)
(* altogether once, or once more for each time that the helper has listed  *)
(* it.  LiFiApMac implements it with two vectors and a map.                *)
(***************************************************************************)
EXTENDS Integers

CONSTANT Dev

VARIABLES known, present, listed, sent

rosterVars == <<known, present, listed, sent>>

Init ==
    /\ known = {} /\ present = {}
    /\ listed = [d \in Dev |-> 0]
    /\ sent = [d \in Dev |-> [snr |-> 0, zero |-> 0]]

(* A station answers: it is known and present from now on.                 *)
Hear(d) ==
    /\ known' = known \cup {d}
    /\ present' = present \cup {d}
    /\ UNCHANGED <<listed, sent>>

(* The helper lists a station, which need not have answered.               *)
List(d) ==
    /\ known' = known \cup {d}
    /\ present' = present \cup {d}
    /\ listed' = [listed EXCEPT ![d] = @ + 1]
    /\ UNCHANGED sent

(* A beacon starts a new epoch: nobody has answered it yet.                *)
Beacon ==
    /\ present' = {}
    /\ UNCHANGED <<known, listed, sent>>

(* The reports of d in a batch: how many measured, how many with SNR 0.    *)
Truthful(d, r) ==
    /\ r.snr > 0 <=> d \in present
    /\ r.snr + r.zero > 0 <=> d \in known
    /\ r.snr + r.zero <= 1 + listed[d]

Report ==
    /\ sent' \in [Dev -> [snr : Nat, zero : Nat]]
    /\ \A d \in Dev : Truthful(d, sent'[d])
    /\ UNCHANGED <<known, present, listed>>

Next == Beacon \/ Report \/ \E d \in Dev : Hear(d) \/ List(d)

Spec == Init /\ [][Next]_rosterVars
=============================================================================
