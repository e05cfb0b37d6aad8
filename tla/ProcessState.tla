---------------------------- MODULE ProcessState ----------------------------
(***************************************************************************)
(* The two transition tables of workflow/state.py and the helpers that     *)
(* read them.  Statuses are strings, as in the database.                   *)
(***************************************************************************)

\* PROCESS_TRANSITIONS: from each status, the statuses it may move to.
ProcessTransitions ==
    [draft     |-> {"queued", "cancelled"},
     queued    |-> {"running", "cancelled", "stuck"},
     running   |-> {"completed", "failed", "paused", "cancelled", "stuck"},
     paused    |-> {"running", "cancelled"},
     completed |-> {},
     failed    |-> {},
     cancelled |-> {},
     stuck     |-> {"running", "cancelled"}]

\* STEP_TRANSITIONS.  "paused", which the executor writes, has no entry.
StepTransitions ==
    [pending   |-> {"queued", "running", "cancelled", "skipped"},
     queued    |-> {"running", "cancelled"},
     running   |-> {"completed", "failed", "retrying", "cancelled"},
     retrying  |-> {"pending", "cancelled", "failed"},
     completed |-> {},
     failed    |-> {},
     skipped   |-> {},
     cancelled |-> {}]

ProcessStatus == DOMAIN ProcessTransitions

StepStatus == (DOMAIN StepTransitions) \cup {"paused"}

\* can_transition_process: a status without an entry has no successors.
CanTransitionProcess(current, target) ==
    /\ current \in ProcessStatus
    /\ target \in ProcessTransitions[current]

\* can_transition_step.
CanTransitionStep(current, target) ==
    /\ current \in DOMAIN StepTransitions
    /\ target \in StepTransitions[current]

=============================================================================
