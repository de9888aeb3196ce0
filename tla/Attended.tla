------------------------------ MODULE Attended ------------------------------
(***************************************************************************)
(* What the supervisor relies on from run_process, without a word on how:  *)
(* the child is watched, told to stop or not, and collected only when it   *)
(* is dead and nobody holds its output any more.  These are the phases     *)
(* "watch", "renew" and "stop" that Coordination gives a process, for one  *)
(* child.                                                                  *)
(***************************************************************************)
EXTENDS Naturals

VARIABLES
    phase,      \* what the watching process does
    child,      \* alive, exited by itself, or killed
    heir        \* a descendant of the child holds its output

vars == <<phase, child, heir>>

Init == phase = "watch" /\ child = "alive" /\ heir = FALSE

Goto(p) == phase' = p /\ UNCHANGED <<child, heir>>

ChildEnds == child = "alive" /\ child' \in {"exited", "killed"} /\ UNCHANGED <<phase, heir>>

Fork == child = "alive" /\ heir' = TRUE /\ UNCHANGED <<phase, child>>

HeirEnds == heir' = FALSE /\ UNCHANGED <<phase, child>>

Beat == phase = "watch" /\ Goto("renew")

Renewed == phase = "renew" /\ \/ Goto("watch")
                              \/ child = "alive" /\ Goto("stop")

Overrun == phase = "watch" /\ child = "alive" /\ Goto("stop")

(* The descendants that are still in the child's group die with it.        *)
Terminated == /\ phase = "stop"
              /\ phase' = "watch"
              /\ child' = IF child = "alive" THEN "killed" ELSE child
              /\ heir' \in {heir, FALSE}

Collect == phase = "watch" /\ child # "alive" /\ heir = FALSE /\ Goto("over")

Fails == phase \in {"watch", "renew", "stop"} /\ Goto("raised")

Next == \/ ChildEnds \/ Fork \/ HeirEnds \/ Beat \/ Renewed \/ Overrun \/ Terminated
        \/ Collect \/ Fails

Spec == Init /\ [][Next]_vars
=============================================================================
