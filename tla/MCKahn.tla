------------------------------- MODULE MCKahn -------------------------------
(* Every list of at most MaxEdges edges over three nodes.                  *)
EXTENDS Kahn, TLC

CONSTANTS a, b, c, MaxEdges

Three == {a, b, c}

AllEdgeLists == UNION {[1..n -> Three \X Three] : n \in 0..MaxEdges}

=============================================================================
