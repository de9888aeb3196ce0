------------------------------ MODULE Custody ------------------------------
(***************************************************************************)
(* What Coordination promises of the runs, without lease, heartbeats,      *)
(* snapshots and clocks: a run is in the custody of a process from the     *)
(* moment its row exists; two runs that may not overlap are never in       *)
(* custody together; an outcome is written once, by whoever has custody,   *)
(* unless custody was lost: then, and only then, the run is abandoned.     *)
(***************************************************************************)
CONSTANTS
    Runs,
    Exclusive   \* runs of which one at a time may be in custody

VARIABLES
    attended,   \* runs in custody
    outcome     \* of each run: none yet, open, or final

vars == <<attended, outcome>>

Init ==
    /\ attended = {}
    /\ outcome = [r \in Runs |-> "none"]

Open(r) ==
    /\ outcome[r] = "none"
    /\ r \in Exclusive => attended \cap Exclusive = {}
    /\ attended' = attended \cup {r}
    /\ outcome' = [outcome EXCEPT ![r] = "open"]

Settle(r) ==
    /\ r \in attended
    /\ outcome[r] = "open"
    /\ attended' = attended \ {r}
    /\ \E s \in {"succeeded", "failed"} : outcome' = [outcome EXCEPT ![r] = s]

(* The process, or all of them, is gone. *)
Forsake ==
    /\ attended' \subseteq attended
    /\ UNCHANGED outcome

Abandon(r) ==
    /\ r \notin attended
    /\ outcome[r] = "open"
    /\ outcome' = [outcome EXCEPT ![r] = "abandoned"]
    /\ UNCHANGED attended

Next == Forsake \/ \E r \in Runs : Open(r) \/ Settle(r) \/ Abandon(r)

Spec == Init /\ [][Next]_vars
=============================================================================
