----------------------------- MODULE WorkQueue -----------------------------
(***************************************************************************)
(* What the step queue of backend/app/workflow promises, whatever its      *)
(* rows, sessions, handlers and executors do: a step is held by one worker *)
(* at a time, each hold counts as a try, there are no more tries than      *)
(* allowed, a last try may leave a dead letter, and only giving up a dead  *)
(* letter makes a step start counting again.                               *)
(***************************************************************************)
EXTENDS Naturals

CONSTANTS
    Steps,          \* the steps of the process
    MaxAttempts     \* the tries each step has

VARIABLES
    held,           \* the steps a worker holds
    tries,          \* tries of each step since it was last replayed
    owed            \* open dead letters of each step

vars == <<held, tries, owed>>

Init ==
    /\ held = {}
    /\ tries = [s \in Steps |-> 0]
    /\ owed = [s \in Steps |-> 0]

\* A worker takes a batch of steps nobody holds.
Take(S) ==
    /\ S \subseteq Steps \ held
    /\ \A s \in S : tries[s] < MaxAttempts[s]
    /\ held' = held \cup S
    /\ tries' = [s \in Steps |-> IF s \in S THEN tries[s] + 1 ELSE tries[s]]
    /\ UNCHANGED owed

\* A hold ends.
Release(s) ==
    /\ s \in held
    /\ held' = held \ {s}
    /\ UNCHANGED <<tries, owed>>

\* The last try ends with a dead letter.
Bury(s) ==
    /\ s \in held
    /\ tries[s] = MaxAttempts[s]
    /\ held' = held \ {s}
    /\ owed' = [owed EXCEPT ![s] = @ + 1]
    /\ UNCHANGED tries

\* A dead letter is given up, perhaps for new tries of a step nobody holds.
Replay(s) ==
    /\ owed[s] > 0
    /\ owed' = [owed EXCEPT ![s] = @ - 1]
    /\ \/ UNCHANGED tries
       \/ s \notin held /\ tries' = [tries EXCEPT ![s] = 0]
    /\ UNCHANGED held

\* The workers are gone.
Abandon ==
    /\ held' = {}
    /\ UNCHANGED <<tries, owed>>

Next ==
    \/ \E S \in SUBSET Steps : Take(S)
    \/ \E s \in Steps : Release(s) \/ Bury(s) \/ Replay(s)
    \/ Abandon

Spec == Init /\ [][Next]_vars

=============================================================================
