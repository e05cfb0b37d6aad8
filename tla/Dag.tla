-------------------------------- MODULE Dag --------------------------------
(* What it means for a set of edges <<from, to>> over finitely many nodes   *)
(* to have no cycle.                                                        *)

\* Every node of S has a predecessor in S.
Knot(E, S) == \A n \in S : \E m \in S : <<m, n>> \in E

\* Walking backwards in a non-empty finite knot never ends, so it closes a
\* cycle; and the nodes of a cycle are a knot.  A node of a knot is the target
\* of an edge.
Acyclic(E) == \A S \in SUBSET {e[2] : e \in E} : Knot(E, S) => S = {}

=============================================================================
