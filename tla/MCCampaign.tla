----------------------------- MODULE MCCampaign -----------------------------
(* Finite instances of Campaign. *)
EXTENDS Campaign, TLC

Symmetry == Permutations(Procs)
=============================================================================
