---------------------------- MODULE MCOperations ----------------------------
(* Finite instances of Operations. *)
EXTENDS Operations, TLC

Symmetry == Permutations(Key) \cup Permutations(Runner)
=============================================================================
