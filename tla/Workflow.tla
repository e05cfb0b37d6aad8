------------------------------ MODULE Workflow ------------------------------
(***************************************************************************)
(* One workflow process of backend/app/workflow: its row in `processes`,   *)
(* its rows in `process_steps`, the dead-letter table, the HTTP handlers   *)
(* that start, cancel and resume it, the handler that replays a dead       *)
(* letter, the worker that claims steps, and the asyncio tasks in which    *)
(* StepExecutor runs them.  One action is one database transaction, or one *)
(* read whose result a handler keeps across an await.                      *)
(*                                                                         *)
(* A task is named <<step, lane>>: the lanes of a step are the tasks that  *)
(* may be alive for it at the same time.                                   *)
(***************************************************************************)
EXTENDS Naturals, Sequences, FiniteSets, ProcessState

CONSTANTS
    Steps,          \* step names of the definition
    Edges,          \* <<from, to>> pairs of the definition's DAG
    MaxAttempts,    \* max_attempts of each step
    Lanes,          \* bound: tasks alive for one step at a time
    BatchSize,      \* claim_ready_steps' limit
    MaxParallel,    \* MAX_PARALLEL, the slots of the global semaphore
    Handlers,       \* concurrent start / cancel / resume requests
    Replayers,      \* concurrent replay requests
    MaxReplays,     \* bound: only the first MaxReplays dead letters are replayed
    Detached,       \* TRUE: the step object belongs to a closed session, as in
                    \* worker.py; FALSE: to the executor's, as in its tests
    Promotion,      \* TRUE: a caller outside workflow/ moves queued to running
    Crashes,        \* TRUE: the server process may die and restart
    Errors          \* TRUE: an error the worker swallows may cut a task short

ASSUME EdgesAssumption == Edges \subseteq Steps \X Steps
ASSUME AttemptsAssumption == MaxAttempts \in [Steps -> Nat \ {0}]
ASSUME BoundsAssumption ==
    /\ BatchSize \in Nat \ {0}
    /\ MaxParallel \in Nat \ {0}
    /\ MaxReplays \in Nat
ASSUME SwitchAssumption ==
    /\ Detached \in BOOLEAN
    /\ Promotion \in BOOLEAN
    /\ Crashes \in BOOLEAN
    /\ Errors \in BOOLEAN

VARIABLES
    creator,        \* what create_process commits next
    proc,           \* processes.status, "absent" before the insert
    step,           \* process_steps rows: status, attempt, retry time reached
    dlq,            \* process_dlq rows in insertion order
    task,           \* the asyncio tasks of the worker
    api,            \* start / cancel / resume requests in progress
    replay,         \* replay requests in progress
    lost,           \* history: steps whose last task was cut short
    blind           \* history: steps whose last task judged its downstream
                    \* steps by a row that had changed since it was read

vars == <<creator, proc, step, dlq, task, api, replay, lost, blind>>

-----------------------------------------------------------------------------
(* The definition's graph *)

Upstream(s) == {u \in Steps : <<u, s>> \in Edges}
Downstream(s) == {d \in Steps : <<s, d>> \in Edges}
RootSteps == {s \in Steps : Upstream(s) = {}}

(* Types *)

TaskIds == Steps \X Lanes

Row == [status : StepStatus \cup {"absent"}, attempt : Nat, due : BOOLEAN]

DeadLetter == [step : Steps, count : Nat, open : BOOLEAN]

\* Upstream rows a task's session still holds, with the status they had when
\* they were read.
Memory == UNION {[D -> StepStatus \cup {"absent"}] : D \in SUBSET Steps}

TaskState ==
    [pc : {"idle", "claimed", "agent", "enqueue", "enqueueing",
           "finalize", "finalizing"},
     attempt : Nat,
     seen : ProcessStatus \cup {"absent"},
     kept : Memory,
     todo : SUBSET Steps,
     verdict : {"completed", "failed"}]

ApiState ==
    [pc : {"idle", "loaded", "selected"},
     op : {"start", "cancel", "resume"},
     touched : SUBSET Steps]

ReplayState == [pc : {"idle", "loaded"}, row : Nat, failed : BOOLEAN]

NoTask == [pc |-> "idle", attempt |-> 0, seen |-> "draft", kept |-> <<>>,
           todo |-> {}, verdict |-> "failed"]
NoRequest == [pc |-> "idle", op |-> "start", touched |-> {}]
NoReplay == [pc |-> "idle", row |-> 0, failed |-> FALSE]

TypeOK ==
    /\ creator \in {"row", "steps", "done"}
    /\ proc \in ProcessStatus \cup {"absent"}
    /\ step \in [Steps -> Row]
    /\ dlq \in Seq(DeadLetter)
    /\ task \in [TaskIds -> TaskState]
    /\ api \in [Handlers -> ApiState]
    /\ replay \in [Replayers -> ReplayState]
    /\ lost \subseteq Steps
    /\ blind \subseteq Steps

Init ==
    /\ creator = "row"
    /\ proc = "absent"
    /\ step = [s \in Steps |-> [status |-> "absent", attempt |-> 0, due |-> TRUE]]
    /\ dlq = <<>>
    /\ task = [t \in TaskIds |-> NoTask]
    /\ api = [h \in Handlers |-> NoRequest]
    /\ replay = [r \in Replayers |-> NoReplay]
    /\ lost = {}
    /\ blind = {}

-----------------------------------------------------------------------------
(* A handler's first query after transition_process flushes its UPDATE of  *)
(* the process row and so holds the row's lock until it commits; another   *)
(* transaction that wants to write the row waits, then overwrites it.      *)
Unlocked == \A h \in Handlers : api[h].pc # "selected"

\* transition_process, committed.
MoveProcess(target) == proc' = target

\* transition_process with the status this session loaded earlier.
MoveLoadedProcess(seen, target) ==
    IF CanTransitionProcess(seen, target)
    THEN MoveProcess(target)
    ELSE UNCHANGED proc

-----------------------------------------------------------------------------
(* create_process: the row, then its steps; a third commit writes an event *)

CreateRow ==
    /\ creator = "row"
    /\ creator' = "steps"
    /\ proc' = "draft"
    /\ UNCHANGED <<step, dlq, task, api, replay, lost, blind>>

CreateSteps ==
    /\ creator = "steps"
    /\ creator' = "done"
    /\ step' = [s \in Steps |-> [status |-> "pending", attempt |-> 0, due |-> TRUE]]
    /\ UNCHANGED <<proc, dlq, task, api, replay, lost, blind>>

-----------------------------------------------------------------------------
(* start_process, cancel_process, resume_process: load the process, select *)
(* the steps to rewrite, commit.                                           *)

Target(op) ==
    CASE op = "start"  -> "queued"
      [] op = "cancel" -> "cancelled"
      [] op = "resume" -> "running"

\* The status test each handler makes before it calls transition_process.
Admits(op, status) ==
    /\ op = "start" => status = "draft"
    /\ op = "resume" => status \in {"paused", "stuck"}
    /\ CanTransitionProcess(status, Target(op))

\* The rows a handler's query returns and whose status it will change.
Selected(op) ==
    CASE op = "start"  -> {s \in RootSteps : step[s].status \notin {"absent", "queued"}}
      [] op = "cancel" -> {s \in Steps : /\ step[s].status \in {"pending", "queued", "running", "retrying"}
                                         /\ CanTransitionStep(step[s].status, "cancelled")}
      [] op = "resume" -> {s \in Steps : step[s].status = "paused"}

\* Faults: a misspelt status; resume marks the step running instead of queueing
\* it; start makes the root steps pending, as enqueue_step would.
Rewritten_Misspelt(op, row) ==
    [row EXCEPT !.status = IF op = "cancel" THEN "canceled" ELSE "queued"]
Rewritten_ResumeRunning(op, row) ==
    [row EXCEPT !.status = CASE op = "start" -> "queued"
                             [] op = "cancel" -> "cancelled"
                             [] op = "resume" -> "running"]
Rewritten_StartPending(op, row) ==
    [row EXCEPT !.status = CASE op = "start" -> "pending"
                             [] op = "cancel" -> "cancelled"
                             [] op = "resume" -> "queued"]

\* The row as the handler writes it.
Rewritten(op, row) ==
    CASE op = "start"  -> [row EXCEPT !.status = "queued"]
      [] op = "cancel" -> [row EXCEPT !.status = "cancelled"]
      [] op = "resume" -> [row EXCEPT !.status = "queued", !.due = TRUE]

ApiLoad(h, op) ==
    /\ api[h].pc = "idle"
    /\ Admits(op, proc)
    /\ api' = [api EXCEPT ![h] = [pc |-> "loaded", op |-> op, touched |-> {}]]
    /\ UNCHANGED <<creator, proc, step, dlq, task, replay, lost, blind>>

ApiSelect(h) ==
    /\ api[h].pc = "loaded"
    /\ Unlocked
    /\ api' = [api EXCEPT ![h].pc = "selected", ![h].touched = Selected(api[h].op)]
    /\ UNCHANGED <<creator, proc, step, dlq, task, replay, lost, blind>>

ApiCommit(h) ==
    /\ api[h].pc = "selected"
    /\ MoveProcess(Target(api[h].op))
    /\ step' = [s \in Steps |-> IF s \in api[h].touched
                                THEN Rewritten(api[h].op, step[s])
                                ELSE step[s]]
    /\ api' = [api EXCEPT ![h] = NoRequest]
    /\ UNCHANGED <<creator, dlq, task, replay, lost, blind>>

\* What moves a queued process to running: no code of workflow/ does, its
\* tests do it by calling transition_process.
Promote ==
    /\ Promotion
    /\ proc = "queued"
    /\ Unlocked
    /\ MoveProcess("running")
    /\ UNCHANGED <<creator, step, dlq, task, api, replay, lost, blind>>

-----------------------------------------------------------------------------
(* replay_dlq: load the dead letter and its step, then commit *)

\* Fault: the dead letter stays open and can be replayed again.
Resolved_Not(i) == dlq

\* Fault: tests for the wrong status.
Replayable_Retrying(s) == step[s].status = "retrying"

\* The test on the step row: only a failed step is re-queued.
Replayable(s) == step[s].status = "failed"

ReplayLoad(r, i) ==
    /\ replay[r].pc = "idle"
    /\ i <= MaxReplays
    /\ dlq[i].open
    /\ replay' = [replay EXCEPT ![r] = [pc |-> "loaded", row |-> i,
                                        failed |-> Replayable(dlq[i].step)]]
    /\ UNCHANGED <<creator, proc, step, dlq, task, api, lost, blind>>

\* The dead letter is resolved whatever became of the step.
Resolved(i) == [dlq EXCEPT ![i].open = FALSE]

ReplayCommit(r) ==
    /\ replay[r].pc = "loaded"
    /\ LET i == replay[r].row
           s == dlq[i].step
       IN  /\ dlq' = Resolved(i)
           /\ step' = IF replay[r].failed
                      THEN [step EXCEPT ![s] = [status |-> "pending", attempt |-> 0,
                                                due |-> TRUE]]
                      ELSE step
    /\ replay' = [replay EXCEPT ![r] = NoReplay]
    /\ UNCHANGED <<creator, proc, task, api, lost, blind>>

-----------------------------------------------------------------------------
(* claim_ready_steps, called by worker_loop, and the tasks it creates *)

\* next_retry_at of a retrying step passes.
RetryElapses(s) ==
    /\ step[s].status = "retrying"
    /\ ~step[s].due
    /\ step' = [step EXCEPT ![s].due = TRUE]
    /\ UNCHANGED <<creator, proc, dlq, task, api, replay, lost, blind>>

\* Fault: retrying steps are not candidates.
Ready_PendingOnly(s) == step[s].status = "pending" /\ step[s].due

\* claim_ready_steps' test on a candidate, repeated under the row lock.
Ready(s) == step[s].status \in {"pending", "retrying"} /\ step[s].due

FreeLanes(s) == {k \in Lanes : task[<<s, k>>].pc = "idle"}

\* Fault: counts the attempt and leaves the status.
ClaimedRow_StatusKept(row) == [row EXCEPT !.attempt = row.attempt + 1]

\* The row as the claim leaves it, under FOR UPDATE.
ClaimedRow(row) == [status |-> "running", attempt |-> row.attempt + 1, due |-> TRUE]

Claim(S) ==
    /\ S # {}
    /\ Cardinality(S) <= BatchSize
    /\ \A s \in S : Ready(s) /\ FreeLanes(s) # {}
    /\ step' = [s \in Steps |-> IF s \in S THEN ClaimedRow(step[s]) ELSE step[s]]
    /\ LET lane == [s \in S |-> CHOOSE k \in FreeLanes(s) : TRUE]
       IN  task' = [t \in TaskIds |->
                       IF t[1] \in S /\ t[2] = lane[t[1]]
                       THEN [NoTask EXCEPT !.pc = "claimed",
                                           !.attempt = ClaimedRow(step[t[1]]).attempt]
                       ELSE task[t]]
    /\ lost' = lost \ S
    /\ blind' = blind \ S
    /\ UNCHANGED <<creator, proc, dlq, api, replay>>

-----------------------------------------------------------------------------
(* StepExecutor.execute, in the task t *)

\* concurrency_slot: a task waits here until a slot is free.
SlotFree ==
    Cardinality({t \in TaskIds : task[t].pc \notin {"idle", "claimed"}}) < MaxParallel

\* Where an assignment to the step object ends up: in the row, or nowhere.
Stored(s, row) == IF Detached THEN step ELSE [step EXCEPT ![s] = row]

\* Fault: the outcome is not stored.
MarkCompleted_Lost(s) == UNCHANGED step

\* mark_step_completed.
MarkCompleted(s) == step' = Stored(s, [step[s] EXCEPT !.status = "completed"])

\* Fault: one attempt too many.
Exhausted_Late(t) == task[t].attempt > MaxAttempts[t[1]]

Exhausted(t) == task[t].attempt >= MaxAttempts[t[1]]

\* mark_step_failed: the last attempt goes to the dead letters, an earlier one
\* is retried after a delay.
MarkFailed(t) ==
    LET s == t[1]
    IN  \/ /\ Exhausted(t)
           /\ step' = Stored(s, [step[s] EXCEPT !.status = "failed"])
           /\ dlq' = Append(dlq, [step |-> s, count |-> task[t].attempt, open |-> TRUE])
        \/ /\ ~Exhausted(t)
           /\ step' = Stored(s, [step[s] EXCEPT !.status = "retrying", !.due = FALSE])
           /\ UNCHANGED dlq

\* The loop over the upstream rows keeps its last row, in an order the query
\* does not fix, and the session answers with it, as it was, whenever the row is
\* asked for again: only the upstreams of the downstream steps are.
LastRows(s) == IF Upstream(s) = {} THEN {{}} ELSE {{u} : u \in Upstream(s)}
AskedAgain(s) == UNION {Upstream(d) : d \in Downstream(s)}

\* Load the process, read the upstream outputs, commit step.started.
Begin(t) ==
    /\ task[t].pc = "claimed"
    /\ SlotFree
    /\ \E last \in LastRows(t[1]) :
           task' = [task EXCEPT ![t].pc = "agent", ![t].seen = proc,
                                ![t].kept = [u \in last \cap AskedAgain(t[1]) |-> step[u].status]]
    /\ UNCHANGED <<creator, proc, step, dlq, api, replay, lost, blind>>

\* Invalid definition, unknown step, template error, unknown role, or the
\* agent loop raised: mark the step failed and return at once.
FailAndReturn(t) ==
    /\ \/ task[t].pc = "claimed" /\ SlotFree
       \/ task[t].pc = "agent"
    /\ MarkFailed(t)
    /\ task' = [task EXCEPT ![t] = NoTask]
    /\ UNCHANGED <<creator, proc, api, replay, lost, blind>>

\* The agent run finished without success.
AgentFails(t) ==
    /\ task[t].pc = "agent"
    /\ MarkFailed(t)
    /\ task' = [task EXCEPT ![t].pc = "finalize"]
    /\ UNCHANGED <<creator, proc, api, replay, lost, blind>>

\* The agent run waits for approval: pause the step and the process.
AwaitApproval(t) ==
    /\ task[t].pc = "agent"
    /\ Unlocked
    /\ step' = Stored(t[1], [step[t[1]] EXCEPT !.status = "paused"])
    /\ IF task[t].seen = "running"
       THEN MoveLoadedProcess(task[t].seen, "paused")
       ELSE UNCHANGED proc
    /\ task' = [task EXCEPT ![t] = NoTask]
    /\ UNCHANGED <<creator, dlq, api, replay, lost, blind>>

AgentSucceeds(t) ==
    /\ task[t].pc = "agent"
    /\ MarkCompleted(t[1])
    /\ task' = [task EXCEPT ![t].pc = "enqueue"]
    /\ UNCHANGED <<creator, proc, dlq, api, replay, lost, blind>>

\* Fault: the step's own status is the one it was claimed with.
SeenStatus_Stale(t, u) ==
    CASE u = t[1] -> "running"
      [] u \in DOMAIN task[t].kept -> task[t].kept[u]
      [] OTHER -> step[u].status

\* The session's identity map answers for the step it holds itself and for a row
\* kept since Begin; any other row, and its own when detached, is read from the
\* table.
SeenStatus(t, u) ==
    CASE u = t[1] /\ ~Detached -> "completed"
      [] u \in DOMAIN task[t].kept -> task[t].kept[u]
      [] OTHER -> step[u].status

\* _enqueue_downstream's queries ...
Startable(t) ==
    {d \in Downstream(t[1]) : /\ \A u \in Upstream(d) : SeenStatus(t, u) \in {"completed", "skipped"}
                              /\ step[d].status = "pending"}

EnqueueRead(t) ==
    /\ task[t].pc = "enqueue"
    /\ task' = [task EXCEPT ![t].pc = "enqueueing", ![t].todo = Startable(t)]
    /\ blind' = IF \E u \in DOMAIN task[t].kept : task[t].kept[u] # step[u].status
                THEN blind \cup {t[1]}
                ELSE blind
    /\ UNCHANGED <<creator, proc, step, dlq, api, replay, lost>>

\* ... and its commit.
EnqueueCommit(t) ==
    /\ task[t].pc = "enqueueing"
    /\ step' = [s \in Steps |-> IF s \in task[t].todo
                                THEN [step[s] EXCEPT !.status = "queued", !.due = TRUE]
                                ELSE step[s]]
    /\ task' = [task EXCEPT ![t].pc = "finalize", ![t].todo = {}]
    /\ UNCHANGED <<creator, proc, dlq, api, replay, lost, blind>>

AllDone == \A s \in Steps : step[s].status \in {"completed", "skipped", "failed", "cancelled"}
AnyFailed == \E s \in Steps : step[s].status \in {"failed", "cancelled"}

\* _maybe_complete_or_fail_process reads the statuses ...
FinalizeRead(t) ==
    /\ task[t].pc = "finalize"
    /\ \/ /\ ~AllDone
          /\ task' = [task EXCEPT ![t] = NoTask]
       \/ /\ AllDone
          /\ task' = [task EXCEPT ![t].pc = "finalizing",
                                  ![t].verdict = IF AnyFailed THEN "failed" ELSE "completed"]
    /\ UNCHANGED <<creator, proc, step, dlq, api, replay, lost, blind>>

\* ... and moves the process object it loaded in Begin; InvalidTransition is
\* swallowed.
FinalizeCommit(t) ==
    /\ task[t].pc = "finalizing"
    /\ Unlocked
    /\ MoveLoadedProcess(task[t].seen, task[t].verdict)
    /\ task' = [task EXCEPT ![t] = NoTask]
    /\ UNCHANGED <<creator, step, dlq, api, replay, lost, blind>>

-----------------------------------------------------------------------------
\* An exception escapes execute (the commit of an outcome fails, or a query
\* after it), or the claim's refresh fails and no task is created: the worker
\* logs it and goes on, and the row stays as the last commit left it.
Swallow(t) ==
    /\ Errors
    /\ task[t].pc # "idle"
    /\ task' = [task EXCEPT ![t] = NoTask]
    /\ lost' = lost \cup {t[1]}
    /\ UNCHANGED <<creator, proc, step, dlq, api, replay, blind>>

\* The server dies: tasks and requests are gone, the tables stay.
Crash ==
    /\ Crashes
    /\ lost' = lost \cup {t[1] : t \in {u \in TaskIds : task[u].pc # "idle"}}
    /\ creator' = IF creator = "row" THEN "row" ELSE "done"
    /\ task' = [t \in TaskIds |-> NoTask]
    /\ api' = [h \in Handlers |-> NoRequest]
    /\ replay' = [r \in Replayers |-> NoReplay]
    /\ UNCHANGED <<proc, step, dlq, blind>>

Create == CreateRow \/ CreateSteps

Request(h) ==
    \/ \E op \in {"start", "cancel", "resume"} : ApiLoad(h, op)
    \/ ApiSelect(h)
    \/ ApiCommit(h)

Replay(r) ==
    \/ \E i \in DOMAIN dlq : ReplayLoad(r, i)
    \/ ReplayCommit(r)

\* What a task does once it holds a slot.
Proceed(t) ==
    \/ task[t].pc = "agent" /\ FailAndReturn(t)
    \/ AgentFails(t)
    \/ AwaitApproval(t)
    \/ AgentSucceeds(t)
    \/ EnqueueRead(t)
    \/ EnqueueCommit(t)
    \/ FinalizeRead(t)
    \/ FinalizeCommit(t)

\* A task gets its slot.
Enter(t) ==
    \/ Begin(t)
    \/ task[t].pc = "claimed" /\ FailAndReturn(t)

Execute(t) == Enter(t) \/ Proceed(t)

Next ==
    \/ Create
    \/ \E h \in Handlers : Request(h)
    \/ Promote
    \/ \E r \in Replayers : Replay(r)
    \/ \E s \in Steps : RetryElapses(s)
    \/ \E S \in SUBSET Steps : Claim(S)
    \/ \E t \in TaskIds : Execute(t) \/ Swallow(t)
    \/ Crash

Spec == Init /\ [][Next]_vars

(* What the scheduling gives: the event loop runs every ready task, the    *)
(* semaphore wakes its waiters first in, first out, requests run to their  *)
(* end, the worker polls for ever and time passes.                         *)
Fairness ==
    /\ WF_vars(Create)
    /\ \A h \in Handlers : WF_vars(ApiSelect(h)) /\ WF_vars(ApiCommit(h))
    /\ \A r \in Replayers : WF_vars(ReplayCommit(r))
    /\ \A s \in Steps : WF_vars(RetryElapses(s))
    /\ \A s \in Steps : WF_vars(\E S \in SUBSET Steps : s \in S /\ Claim(S))
    /\ \A t \in TaskIds : SF_vars(Enter(t)) /\ WF_vars(Proceed(t))

FairSpec == Spec /\ Fairness

-----------------------------------------------------------------------------
(* Properties *)

\* The task has claimed its step and not yet recorded an outcome.
Working(t) == task[t].pc \in {"claimed", "agent"}

\* At most one task at a time works on a step: worker.py has claim_ready_steps
\* "ensuring steps aren't double-executed".  Claims, retries, swallowed errors and
\* restarts keep it, as long as no two replays of one step overlap (wf_core has
\* one replayer, the theorem says Apart); two that do break it (doc_exclusive).
ExclusiveExecution ==
    \A s \in Steps : \A k, m \in Lanes :
        Working(<<s, k>>) /\ Working(<<s, m>>) => k = m

\* No step is attempted more than max_attempts times between two replays, and
\* a step waiting for a retry still has an attempt left.
RetryBudget ==
    \A s \in Steps :
        /\ step[s].attempt <= MaxAttempts[s]
        /\ step[s].status = "retrying" => step[s].attempt < MaxAttempts[s]

\* A failed step is never forgotten: it has an unresolved dead letter, written
\* when its last attempt failed, from which an operator can replay it.
DeadLettered ==
    \A s \in Steps :
        step[s].status = "failed" =>
            \E i \in DOMAIN dlq : dlq[i] = [step |-> s, count |-> MaxAttempts[s], open |-> TRUE]

\* With the step attached, a row says "running" only while a task works on the
\* step, unless its last task was cut short: by a crash, or by an error that
\* run_one or worker_loop swallowed.  There is no other way to lose a step.
NoOrphan ==
    ~Detached =>
        \A s \in Steps :
            step[s].status = "running" => s \in lost \/ \E k \in Lanes : Working(<<s, k>>)

\* A completed step is never made claimable or run again, although start, cancel
\* and a late enqueue may overwrite its status.
CompletedNeverRerun ==
    [][\A s \in Steps : step[s].status = "completed" =>
           step'[s].status \notin {"pending", "retrying", "running"}]_vars

(* Refinement: the tasks are the workers, the rows count the tries. *)

Held == {s \in Steps : \E k \in Lanes : Working(<<s, k>>)}

OpenLetters(s) == {i \in DOMAIN dlq : dlq[i].step = s /\ dlq[i].open}

Queue == INSTANCE WorkQueue
             WITH held <- Held,
                  tries <- [s \in Steps |-> step[s].attempt],
                  owed <- [s \in Steps |-> Cardinality(OpenLetters(s))]

\* The handlers, the worker and the executor together are such a queue: a hold,
\* a dead letter and a replay each happen in one step, whatever overlaps, except
\* that two replays of one step may not (one replayer here, Apart in the theorem).
ImplementsQueue == Queue!Spec

\* Fan-in: when the last upstream of a step has completed, the step has left
\* "pending" or an executor that completed an upstream is about to see it,
\* however the upstreams' executors interleave.  Three cases are apart: a task
\* saw an upstream as it was before its own agent ran, a task was cut short
\* before it looked, and a replayed step waits for the worker and nothing else.
NoLostWakeup ==
    \A d \in Steps :
        (/\ Upstream(d) # {}
         /\ \A u \in Upstream(d) : step[u].status = "completed" /\ u \notin lost \cup blind
         /\ step[d].status = "pending"
         /\ \A i \in DOMAIN dlq : dlq[i].step # d)
        => \E t \in TaskIds :
               /\ t[1] \in Upstream(d)
               /\ \/ task[t].pc = "enqueue"
                  \/ task[t].pc = "enqueueing" /\ d \in task[t].todo

\* Retrying ends: a step the worker can claim reaches a status in which it
\* waits for a person or for nothing, or a task of it is cut short.
RetriesEnd ==
    \A s \in Steps :
        step[s].status \in {"pending", "retrying", "running"} ~>
            \/ step[s].status \notin {"pending", "retrying", "running"}
            \/ step[s].status = "running" /\ s \in lost

\* As deployed, no step is attempted twice, so the side effects of an agent run
\* are not repeated: the row never leaves "running" by the executor's doing, and
\* start, cancel, resume and replay do not make a claimed step claimable.
AtMostOnce == Detached => \A s \in Steps : step[s].attempt <= 1

-----------------------------------------------------------------------------
(* What documents, comments and tests say, and the code does not do.  Each *)
(* one is violated in a run of its own.                                     *)

\* queue.py: a step is ready only when all upstream steps are completed.
UpstreamsFirst ==
    \A t \in TaskIds :
        Working(t) => \A u \in Upstream(t[1]) : step[u].status = "completed"

\* executor.py: outputs are stored back on the step, so a row does not stay
\* "running" once its task has ended.
OutcomeStored ==
    \A s \in Steps : step[s].status = "running" => \E k \in Lanes : Working(<<s, k>>)

\* executor.py: finishing a step signals its downstream steps to enqueue, and a
\* queued step of a running process is run.
QueuedIsRun ==
    \A s \in Steps :
        step[s].status = "queued" ~> (step[s].status # "queued" \/ proc # "running")

=============================================================================
