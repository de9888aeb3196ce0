--------------------------- MODULE MCCoordination ---------------------------
(* Finite instances of Coordination. *)
EXTENDS Coordination, TLC

(* Tick ids are interchangeable, and so are the loops and the tools. *)
Symmetry == Permutations(Ticks) \cup Permutations(Loops) \cup Permutations(Tools)

ASSUME TimingOfInstance == Faults \subseteq {"crash"} /\ Lease > Silence => WellTimed
=============================================================================
