----------------------------- MODULE MCPipeline -----------------------------
(* Finite instances of Pipeline. *)
EXTENDS Pipeline

D(protected, clipped, text) == [protected |-> protected, clipped |-> clipped, text |-> text]

\* an ordinary file, with two contents; a protected one, listed first or not
SomeDirt == {D(FALSE, FALSE, 1), D(FALSE, FALSE, 2), D(TRUE, TRUE, 1), D(TRUE, FALSE, 1)}
TwoAndOne == [s \in Scope |-> IF s = "period" THEN 2 ELSE 1]
=============================================================================
