---------------------------- MODULE MCTaskBoard ----------------------------
(* Instances of TaskBoard for TLC. *)
EXTENDS TaskBoard, TLC

CONSTANTS t1, t2, t3, e1, e2, d1, d2

\* Tasks and requests are interchangeable (safety properties only).
Symmetry == Permutations(Tasks) \cup Permutations(Editors) \cup Permutations(Linkers)

=============================================================================
