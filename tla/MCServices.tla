----------------------------- MODULE MCServices -----------------------------
(***************************************************************************)
(* Services with TLC's values.  The parts share their ids, so that one     *)
(* small group of symmetries serves all.                                   *)
(***************************************************************************)
EXTENDS Services, TLC

CONSTANTS a1, a2, b1, b2, c1, c2

\* Lines of a test's output: the counts in their order, and whether it says "in ".
Line(counts, ends) == [counts |-> counts, ends |-> ends]
Outcomes == {<<>>, <<<<"skipped", 1>>>>, <<<<"passed", 1>>>>, <<<<"failed", 1>>, <<"passed", 2>>>>,
             <<<<"passed", 2>>, <<"failed", 1>>>>, <<<<"errors", 2>>>>,
             <<<<"passed", 1>>, <<"error", 1>>>>}
MCLines == {Line(counts, ends) : counts \in Outcomes, ends \in BOOLEAN}

\* Ids are interchangeable (safety properties only).
Symmetry == Permutations({a1, a2}) \cup Permutations({b1, b2}) \cup Permutations({c1, c2})

=============================================================================
