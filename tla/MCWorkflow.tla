----------------------------- MODULE MCWorkflow -----------------------------
(* Instances of Workflow for TLC: the graphs and the attempts of the runs.  *)
EXTENDS Workflow, TLC

CONSTANTS A, B, C, h1, h2, r1, r2

\* A single step, a chain, and a fan-in of which one upstream runs after the other.
One == {A}
NoEdges == {}
ChainSteps == {A, B}
ChainEdges == {<<A, B>>}
FanInSteps == {A, B, C}
FanInEdges == {<<A, B>>, <<A, C>>, <<B, C>>}

TwoAttempts == [s \in ChainSteps |-> 2]
OneThenTwo == [s \in ChainSteps |-> IF s = A THEN 1 ELSE 2]
OneAttemptA == [s \in One |-> 1]
FanInAttempts == [s \in FanInSteps |-> IF s = C THEN 1 ELSE 2]

=============================================================================
