----------------------------- MODULE RemoteOnce -----------------------------
(***************************************************************************)
(* What the remote-operation API promises for each operation key, without  *)
(* a word on how: the remote effect is applied at most once, unless two    *)
(* attempts overlapped, and it is acknowledged, for good, only after it    *)
(* exists.                                                                 *)
(***************************************************************************)
EXTENDS Naturals

CONSTANT Key

VARIABLES
    effects,        \* how many times the effect of a key was applied
    acknowledged,   \* keys whose effect was acknowledged
    overlapped      \* keys that two attempts were made for at the same time

vars == <<effects, acknowledged, overlapped>>

Init ==
    /\ effects = [k \in Key |-> 0]
    /\ acknowledged = {}
    /\ overlapped = {}

Overlap(k) ==
    /\ overlapped' = overlapped \cup {k}
    /\ UNCHANGED <<effects, acknowledged>>

Apply(k) ==
    /\ effects[k] = 0 \/ k \in overlapped
    /\ effects' = [effects EXCEPT ![k] = @ + 1]
    /\ UNCHANGED <<acknowledged, overlapped>>

Acknowledge(k) ==
    /\ effects[k] > 0
    /\ acknowledged' = acknowledged \cup {k}
    /\ UNCHANGED <<effects, overlapped>>

Next == \E k \in Key : Overlap(k) \/ Apply(k) \/ Acknowledge(k)

Spec == Init /\ [][Next]_vars
=============================================================================
