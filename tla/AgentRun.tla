------------------------------ MODULE AgentRun ------------------------------
(***************************************************************************)
(* One row of `agent_runs` and everything that writes its status: the      *)
(* agent loops that run it (POST /converse, the same with a resume id,     *)
(* POST /runs/{id}/resume), POST /runs/{id}/cancel, the cleanup of         *)
(* POST /admin/cleanup and the marking a starting server does.  Each       *)
(* writer works on the copy its session loaded: an assignment reaches the  *)
(* row only if it changes the copy.                                        *)
(***************************************************************************)
EXTENDS Naturals

CONSTANTS
    Loops,          \* agent loops that may run at the same time
    Clerks,         \* cancel, cleanup and startup requests in progress
    MaxSteps        \* max_steps of a run

ASSUME StepsAssumption == MaxSteps \in Nat \ {0}

VARIABLES
    row,            \* agent_runs.status, "absent" before the insert
    old,            \* started_at is more than an hour ago
    loop,           \* the agent loops
    clerk,          \* the requests that mark the row
    lost            \* history: the running row's loop went without its last commit

vars == <<row, old, loop, clerk, lost>>

\* Why a loop ends; the row's last status.
Reasons == {"finished", "max_steps", "safety_tripped", "budget_exceeded",
            "error", "awaiting_approval"}

Marks == {"cancelled", "stuck", "interrupted"}

RunStatus == {"absent", "running"} \cup Reasons \cup Marks

LoopPlaces == {"idle", "resuming", "entering", "top", "llm", "guards", "ending"}

LoopState ==
    [pc : LoopPlaces,
     copy : RunStatus,          \* agent_run.status in the loop's session
     steps : 0..MaxSteps,
     reason : Reasons \cup {"none"}]

\* A loop at pc whose session holds the status copy, before its first step.
Fresh(pc, copy) == [pc |-> pc, copy |-> copy, steps |-> 0, reason |-> "none"]

NoLoop == Fresh("idle", "absent")

ClerkState == Marks \cup {"idle"}

TypeOK ==
    /\ row \in RunStatus
    /\ old \in BOOLEAN
    /\ loop \in [Loops -> LoopState]
    /\ clerk \in [Clerks -> ClerkState]
    /\ lost \in BOOLEAN

Init ==
    /\ row = "absent"
    /\ old = FALSE
    /\ loop = [l \in Loops |-> NoLoop]
    /\ clerk = [c \in Clerks |-> "idle"]
    /\ lost = FALSE

-----------------------------------------------------------------------------
\* agent_run.status = status, committed: the row changes only if the copy does.
Written(copy, status) == IF copy = status THEN row ELSE status

(* Starting and resuming *)

\* POST /converse: conversation and run are inserted in one commit.
Start(l) ==
    /\ row = "absent"
    /\ loop[l].pc = "idle"
    /\ row' = "running"
    /\ loop' = [loop EXCEPT ![l] = Fresh("top", "running")]
    /\ UNCHANGED <<old, clerk, lost>>

\* The statuses POST /runs/{id}/resume accepts.
Resumable(status) == status \in {"awaiting_approval", "paused", "stuck"}

\* POST /runs/{id}/resume loads the run ...
ResumeLoad(l) ==
    /\ loop[l].pc = "idle"
    /\ Resumable(row)
    /\ loop' = [loop EXCEPT ![l] = Fresh("resuming", row)]
    /\ UNCHANGED <<row, old, clerk, lost>>

\* ... and commits the status with its [RESUMED] message.
ResumeCommit(l) ==
    /\ loop[l].pc = "resuming"
    /\ row' = Written(loop[l].copy, "running")
    /\ loop' = [loop EXCEPT ![l].pc = "entering", ![l].copy = "running"]
    /\ lost' = FALSE
    /\ UNCHANGED <<old, clerk>>

\* POST /converse with resume ids loads the run, whatever its status.
ConverseLoad(l) ==
    /\ row # "absent"
    /\ loop[l].pc = "idle"
    /\ loop' = [loop EXCEPT ![l] = Fresh("entering", row)]
    /\ UNCHANGED <<row, old, clerk, lost>>

\* _ensure_conversation's resume branch.  The checkpoint's state has no "step",
\* so the count starts again; the files it lists only go into the result.
Enter(l) ==
    /\ loop[l].pc = "entering"
    /\ row' = Written(loop[l].copy, "running")
    /\ loop' = [loop EXCEPT ![l] = Fresh("top", "running")]
    /\ lost' = FALSE
    /\ UNCHANGED <<old, clerk>>

-----------------------------------------------------------------------------
(* AgentLoop.run *)

\* Faults: one step too many; the step is not counted; the end is not stored.
More_Late(steps) == steps <= MaxSteps
Counted_Not(steps) == steps
Ended_Lost(l) == row

More(steps) == steps < MaxSteps
Counted(steps) == steps + 1

\* The head of the while loop.  The checkpoint saved now and then changes
\* neither the row nor, when it is loaded again, the count of the steps.
NextStep(l) ==
    /\ loop[l].pc = "top"
    /\ More(loop[l].steps)
    /\ loop' = [loop EXCEPT ![l].pc = "llm", ![l].steps = Counted(@)]
    /\ UNCHANGED <<row, old, clerk, lost>>

\* The answer ends the run: an LLM error, no tool call or a call of finish, or
\* an exception anywhere in the step, also after the gate.
Break(l) ==
    /\ \E reason \in {"error", "finished"} :
           /\ \/ loop[l].pc = "llm"
              \/ loop[l].pc = "guards" /\ reason = "error"
           /\ loop' = [loop EXCEPT ![l].pc = "ending", ![l].reason = reason]
    /\ UNCHANGED <<row, old, clerk, lost>>

\* A migration command trips the gate: the status is committed and the rest of
\* the tool calls dropped, but the step goes on to the guards.
Gate(l) ==
    /\ loop[l].pc = "llm"
    /\ row' = Written(loop[l].copy, "awaiting_approval")
    /\ loop' = [loop EXCEPT ![l].pc = "guards", ![l].copy = "awaiting_approval",
                            ![l].reason = "awaiting_approval"]
    /\ lost' = (lost /\ row' = "running")
    /\ UNCHANGED <<old, clerk>>

\* Tools have run: a guard or the budget ends the run, or the loop goes on to
\* its next step, gated or not.
Guards(l) ==
    /\ loop[l].pc \in {"llm", "guards"}
    /\ \E trip \in {"none", "safety_tripped", "budget_exceeded"} :
           loop' = [loop EXCEPT
               ![l].pc = IF trip = "none" THEN "top" ELSE "ending",
               ![l].reason = IF trip # "none" THEN trip
                             ELSE IF @ = "none" THEN "max_steps"
                             ELSE @]
    /\ UNCHANGED <<row, old, clerk, lost>>

\* The while condition fails.
LoopEnds(l) ==
    /\ loop[l].pc = "top"
    /\ ~More(loop[l].steps)
    /\ loop' = [loop EXCEPT ![l].pc = "ending"]
    /\ UNCHANGED <<row, old, clerk, lost>>

\* The row after the final commit.
Ended(l) == Written(loop[l].copy, loop[l].reason)

Finish(l) ==
    /\ loop[l].pc = "ending"
    /\ row' = Ended(l)
    /\ loop' = [loop EXCEPT ![l] = NoLoop]
    /\ lost' = (lost /\ row' = "running")
    /\ UNCHANGED <<old, clerk>>

\* The loop will write the row if its last commit succeeds.
Committed(l) ==
    /\ loop[l].pc \in {"entering", "top", "llm", "guards", "ending"}
    /\ loop[l].copy = "running"

\* The loop is gone, and the row stays as it was.
Gone(l) ==
    /\ loop' = [loop EXCEPT ![l] = NoLoop]
    /\ lost' = (lost \/ (row = "running" /\ Committed(l)))
    /\ UNCHANGED <<row, old, clerk>>

\* A commit outside the try of the steps raises: one before the first step, or
\* the last one, in particular after a database error that the handler of the
\* steps caught, for it does not roll back.
CommitRaises(l) ==
    /\ \/ loop[l].pc \in {"resuming", "entering", "ending"}
       \/ loop[l].pc = "top" /\ loop[l].steps = 0
    /\ Gone(l)

-----------------------------------------------------------------------------
(* cancel_run, mark_stuck_runs, mark_stuck_runs_interrupted: load, commit *)

Ages ==
    /\ row # "absent"
    /\ ~old
    /\ old' = TRUE
    /\ UNCHANGED <<row, loop, clerk, lost>>

\* Only a running run is marked, and by the two cleanups only an old one.
Markable(mark) == row = "running" /\ (mark # "cancelled" => old)

MarkLoad(c, mark) ==
    /\ clerk[c] = "idle"
    /\ Markable(mark)
    /\ clerk' = [clerk EXCEPT ![c] = mark]
    /\ UNCHANGED <<row, old, loop, lost>>

MarkCommit(c) ==
    /\ clerk[c] # "idle"
    /\ row' = clerk[c]
    /\ clerk' = [clerk EXCEPT ![c] = "idle"]
    /\ lost' = FALSE
    /\ UNCHANGED <<old, loop>>

-----------------------------------------------------------------------------
\* The server that runs a loop or a request dies.
LoopDies(l) ==
    /\ loop[l].pc # "idle"
    /\ Gone(l)

ClerkDies(c) ==
    /\ clerk[c] # "idle"
    /\ clerk' = [clerk EXCEPT ![c] = "idle"]
    /\ UNCHANGED <<row, old, loop, lost>>

\* The steps a loop takes by itself once it has been asked for.
Proceed(l) ==
    \/ ResumeCommit(l)
    \/ Enter(l)
    \/ NextStep(l)
    \/ Break(l)
    \/ Gate(l)
    \/ Guards(l)
    \/ LoopEnds(l)
    \/ Finish(l)

Next ==
    \/ \E l \in Loops : Start(l) \/ ResumeLoad(l) \/ ConverseLoad(l) \/ Proceed(l)
    \/ \E l \in Loops : CommitRaises(l) \/ LoopDies(l)
    \/ \E c \in Clerks : (\E mark \in Marks : MarkLoad(c, mark)) \/ MarkCommit(c) \/ ClerkDies(c)
    \/ Ages

Spec == Init /\ [][Next]_vars

\* The event loop runs every task that can go on, and LLM calls and tools end
\* (they have time limits).
Fairness ==
    /\ \A l \in Loops : WF_vars(Proceed(l))
    /\ \A c \in Clerks : WF_vars(MarkCommit(c))

FairSpec == Spec /\ Fairness

-----------------------------------------------------------------------------
(* Properties *)

\* No zombie: a row says "running" only if a loop is running it that will write
\* its end, or if such a loop was lost and the row not written since: its server
\* died, or a commit of it raised.  Resumes, gates, cancels and cleanups overlap,
\* and every one of them writes from a stale copy.
NoZombie ==
    row = "running" /\ ~lost => \E l \in Loops : Committed(l)

\* A run does not stay "running", however many loops are started on it, unless
\* the loop that would write its end is lost.
RunEnds == row = "running" ~> (row # "running" \/ lost)

=============================================================================
