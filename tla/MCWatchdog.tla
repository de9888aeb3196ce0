----------------------------- MODULE MCWatchdog -----------------------------
(* Finite instances of Watchdog. *)
EXTENDS Watchdog, TLC

Symmetry == Permutations(Output)
=============================================================================
