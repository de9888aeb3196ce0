------------------------------- MODULE MCJobs -------------------------------
(* Finite instances of Jobs. *)
EXTENDS Jobs, TLC

Symmetry == Permutations(Job) \cup Permutations(Name)
                \cup Permutations(Starter) \cup Permutations(Poller)
=============================================================================
