--------------------------- MODULE WorkflowProofs ---------------------------
(***************************************************************************)
(* What holds of Workflow for every definition, every number of attempts,  *)
(* lanes and requests and every switch.  The tables' types, the running    *)
(* rows and the wake-ups of a fan-in are right whatever is replayed; that  *)
(* steps are not executed twice needs that no two replays of one step      *)
(* overlap.                                                                *)
(***************************************************************************)
EXTENDS Workflow, TLAPS, SequenceTheorems

\* No two replays in progress concern the same step.
Apart ==
    \A r, q \in Replayers :
        /\ replay[r].pc = "loaded"
        /\ replay[q].pc = "loaded"
        /\ dlq[replay[r].row].step = dlq[replay[q].row].step
        => r = q

\* Before the step rows are inserted nothing has happened to them.
Fresh ==
    /\ proc = "absent" <=> creator = "row"
    /\ creator = "row" => \A h \in Handlers : api[h].pc = "idle"
    /\ creator \in {"row", "steps"} =>
           /\ \A s \in Steps : step[s].status = "absent" /\ step[s].attempt = 0
           /\ \A t \in TaskIds : task[t].pc = "idle"
           /\ \A h \in Handlers : api[h].touched = {}
           /\ dlq = <<>>
           /\ \A r \in Replayers : replay[r].pc = "idle"

\* A replay in progress has read a row of the dead-letter table.
Loaded == \A r \in Replayers : replay[r].pc = "loaded" => replay[r].row \in DOMAIN dlq

\* What holds whatever is replayed.
Base ==
    /\ TypeOK
    /\ Fresh
    /\ Loaded
    /\ NoOrphan

\* While a task works on a step, the row carries the task's attempt, and the
\* only writers that reached it queued or cancelled it.
WorkingRow ==
    \A s \in Steps : \A k \in Lanes :
        Working(<<s, k>>) =>
            /\ step[s].status \in {"running", "queued", "cancelled"}
            /\ task[<<s, k>>].attempt = step[s].attempt

\* RetryBudget, with what a claim starts from.
Attempts ==
    \A s \in Steps :
        /\ step[s].attempt <= MaxAttempts[s]
        /\ step[s].status = "pending" => step[s].attempt = 0
        /\ step[s].status = "retrying" => step[s].attempt < MaxAttempts[s]

\* DeadLettered, by a row no replay in progress will resolve without re-queueing.
Evidence(s, i) ==
    /\ dlq[i] = [step |-> s, count |-> MaxAttempts[s], open |-> TRUE]
    /\ \A r \in Replayers :
           replay[r].pc = "loaded" /\ replay[r].row = i => replay[r].failed

Accounted ==
    \A s \in Steps :
        step[s].status = "failed" => \E i \in DOMAIN dlq : Evidence(s, i)

\* Nothing works on the step and the worker cannot claim it.
Unclaimed(s) ==
    /\ step[s].status \in {"failed", "queued", "cancelled"}
    /\ \A k \in Lanes : ~Working(<<s, k>>)

\* A replay in progress finds its dead letter open at commit, and its step
\* unclaimed if it found it failed.
ReplayRow ==
    \A r \in Replayers :
        replay[r].pc = "loaded" =>
            /\ dlq[replay[r].row].open
            /\ replay[r].failed => Unclaimed(dlq[replay[r].row].step)

\* What keeps two tasks from working on one step.
Exclusion ==
    /\ ExclusiveExecution
    /\ WorkingRow
    /\ Attempts
    /\ Accounted
    /\ ReplayRow

IInv == Base /\ Exclusion

-----------------------------------------------------------------------------
(* The dead-letter table *)

\* A row of the table is a dead letter of one of the steps.
LEMMA DlqRow == ASSUME TypeOK, NEW i \in DOMAIN dlq PROVE i \in 1 .. Len(dlq) /\ dlq[i] \in DeadLetter
BY ElementOfSeq, LenProperties DEF TypeOK

\* Resolving a row keeps the table's rows, but for that one's "open".
LEMMA ResolvedRows ==
  ASSUME TypeOK, NEW i \in DOMAIN dlq
  PROVE  /\ Resolved(i) \in Seq(DeadLetter)
         /\ DOMAIN Resolved(i) = DOMAIN dlq
         /\ \A j \in DOMAIN dlq : /\ Resolved(i)[j].step = dlq[j].step
                                  /\ j # i => Resolved(i)[j] = dlq[j]
<1>1. [dlq[i] EXCEPT !.open = FALSE] \in DeadLetter
  BY DlqRow DEF DeadLetter
<1>2. Resolved(i) \in Seq(DeadLetter)
  BY <1>1, DlqRow, ExceptSeq DEF Resolved, TypeOK
<1>3. DOMAIN Resolved(i) = DOMAIN dlq
  BY DEF Resolved
<1>4. ASSUME NEW j \in DOMAIN dlq
      PROVE  Resolved(i)[j].step = dlq[j].step /\ (j # i => Resolved(i)[j] = dlq[j])
  BY DlqRow DEF Resolved, DeadLetter
<1> QED
  BY <1>2, <1>3, <1>4

\* A new dead letter leaves the others where they are.
LEMMA AppendedRows ==
  ASSUME TypeOK, NEW d \in DeadLetter
  PROVE  /\ Append(dlq, d) \in Seq(DeadLetter)
         /\ DOMAIN Append(dlq, d) = DOMAIN dlq \cup {Len(dlq) + 1}
         /\ Len(dlq) + 1 \notin DOMAIN dlq
         /\ Append(dlq, d)[Len(dlq) + 1] = d
         /\ \A j \in DOMAIN dlq : Append(dlq, d)[j] = dlq[j]
BY AppendProperties, LenProperties DEF TypeOK

-----------------------------------------------------------------------------
(* The rows and the tasks *)

\* A target of transition_process is a status, and so is never "absent".
LEMMA TargetType == \A op \in {"start", "cancel", "resume"} : Target(op) \in ProcessStatus
BY DEF Target, ProcessStatus, ProcessTransitions

\* What a request rewrites keeps the attempt and leaves the step queued or
\* cancelled.
LEMMA RewrittenRow ==
  ASSUME NEW op \in {"start", "cancel", "resume"}, NEW row \in Row
  PROVE  /\ Rewritten(op, row) \in Row
         /\ Rewritten(op, row).attempt = row.attempt
         /\ Rewritten(op, row).status \in {"queued", "cancelled"}
BY DEF Rewritten, Row, StepStatus, StepTransitions

\* Freeing or moving on one task leaves the others.
LEMMA TaskMoves ==
  ASSUME TypeOK, NEW t \in TaskIds, NEW x, task' = [task EXCEPT ![t] = x],
         x.pc \notin {"claimed", "agent"}
  PROVE  /\ ~Working(t)'
         /\ \A u \in TaskIds : u # t => /\ Working(u)' <=> Working(u)
                                        /\ task'[u] = task[u]
BY DEF TypeOK, Working

\* Rows keep their type and their budget when only a status changes.
LEMMA StoredRow ==
  ASSUME TypeOK, NEW s \in Steps, NEW row \in Row, step' = Stored(s, row)
  PROVE  /\ step' \in [Steps -> Row]
         /\ \A x \in Steps : x # s => step'[x] = step[x]
         /\ \/ Detached /\ step' = step
            \/ step'[s] = row
BY DEF Stored, TypeOK

\* A loaded status that transition_process accepts moves the process to a
\* status; otherwise nothing happens.
LEMMA MoveLoaded ==
  ASSUME NEW seen, NEW target \in ProcessStatus, MoveLoadedProcess(seen, target)
  PROVE  proc' = target \/ UNCHANGED proc
BY DEF MoveLoadedProcess, MoveProcess

\* The task stops working on its step.
Ends(t) ==
    \E x \in TaskState : x.pc \notin {"claimed", "agent"} /\ task' = [task EXCEPT ![t] = x]

\* The process takes a status, or keeps its own.
ProcessMoves == proc' \in ProcessStatus \/ UNCHANGED proc

\* The task records a failure,
Fails(t) ==
    /\ Working(t)
    /\ MarkFailed(t)
    /\ Ends(t)
    /\ UNCHANGED <<creator, proc, api, replay, lost, blind>>

\* or a success or a pause,
Stores(t) ==
    /\ Working(t)
    /\ \E st \in {"completed", "paused"} : step' = Stored(t[1], [step[t[1]] EXCEPT !.status = st])
    /\ Ends(t)
    /\ ProcessMoves
    /\ UNCHANGED <<creator, dlq, api, replay, lost, blind>>

\* or changes no row but perhaps the process', and works on its step if it did.
Quiet(t) ==
    /\ task[t].pc # "idle"
    /\ \E x \in TaskState : /\ task' = [task EXCEPT ![t] = x]
                            /\ x.pc \in {"claimed", "agent"} <=> Working(t)
                            /\ Working(t) => x.attempt = task[t].attempt
    /\ ProcessMoves
    /\ UNCHANGED <<creator, step, dlq, api, replay, lost>>
    /\ blind' \subseteq Steps

\* A task without memory, and what Begin keeps of the rows it read.
LEMMA NoMemory == NoTask \in TaskState
<1>1. NoTask.kept \in [{} -> StepStatus \cup {"absent"}]
  BY DEF NoTask
<1>2. NoTask.kept \in Memory
  BY <1>1 DEF Memory
<1> QED
  BY <1>2 DEF NoTask, TaskState, ProcessStatus, ProcessTransitions

LEMMA BeginMemory ==
  ASSUME TypeOK, NEW s \in Steps, NEW last \in LastRows(s)
  PROVE  [u \in last \cap AskedAgain(s) |-> step[u].status] \in Memory
<1>1. last \subseteq Steps
  BY DEF LastRows, Upstream
<1>2. [u \in last \cap AskedAgain(s) |-> step[u].status]
          \in [last \cap AskedAgain(s) -> StepStatus \cup {"absent"}]
  BY <1>1 DEF TypeOK, Row
<1>3. last \cap AskedAgain(s) \in SUBSET Steps
  BY <1>1
<1> QED
  BY <1>2, <1>3 DEF Memory

\* An action of a task is of one of these kinds, or enqueues its downstream.
LEMMA ExecuteKinds ==
  ASSUME TypeOK, NEW t \in TaskIds, Execute(t)
  PROVE  Fails(t) \/ Stores(t) \/ Quiet(t) \/ EnqueueCommit(t)
<1>1. NoTask \in TaskState /\ task[t] \in TaskState /\ t[1] \in Steps
  BY NoMemory DEF TypeOK, TaskIds
<1>2. CASE Begin(t)
  <2>0. PICK last \in LastRows(t[1]) :
            task' = [task EXCEPT ![t].pc = "agent", ![t].seen = proc,
                                 ![t].kept = [u \in last \cap AskedAgain(t[1]) |-> step[u].status]]
    BY <1>2 DEF Begin
  <2> DEFINE known == [u \in last \cap AskedAgain(t[1]) |-> step[u].status]
             x == [task[t] EXCEPT !.pc = "agent", !.seen = proc, !.kept = known]
  <2>3. known \in Memory
    BY <1>1, BeginMemory
  <2> HIDE DEF known
  <2>1. x \in TaskState /\ x.pc = "agent" /\ x.attempt = task[t].attempt
    BY <1>1, <2>3 DEF TypeOK, TaskState
  <2>2. task' = [task EXCEPT ![t] = x]
    BY <1>2, <2>0 DEF TypeOK, known
  <2> HIDE DEF x
  <2> QED
    BY <1>2, <2>1, <2>2 DEF Begin, Working, Quiet, ProcessMoves, TypeOK
<1>3. CASE FailAndReturn(t)
  BY <1>1, <1>3 DEF FailAndReturn, NoTask, Fails, Ends, Working
<1>4. CASE AgentFails(t)
  <2> DEFINE x == [task[t] EXCEPT !.pc = "finalize"]
  <2>1. x \in TaskState /\ x.pc = "finalize"
    BY <1>1 DEF TaskState
  <2>2. task' = [task EXCEPT ![t] = x]
    BY <1>4 DEF AgentFails, TypeOK
  <2> HIDE DEF x
  <2> QED
    BY <1>4, <2>1, <2>2 DEF AgentFails, Fails, Ends, Working
<1>5. CASE AwaitApproval(t)
  <2>1. ProcessMoves
    BY <1>5, MoveLoaded DEF AwaitApproval, ProcessMoves, ProcessStatus, ProcessTransitions
  <2>2. Ends(t)
    BY <1>1, <1>5 DEF AwaitApproval, Ends, NoTask
  <2> QED
    BY <1>5, <2>1, <2>2 DEF AwaitApproval, Stores, Working
<1>6. CASE AgentSucceeds(t)
  <2> DEFINE x == [task[t] EXCEPT !.pc = "enqueue"]
  <2>1. x \in TaskState /\ x.pc = "enqueue"
    BY <1>1 DEF TaskState
  <2>2. task' = [task EXCEPT ![t] = x]
    BY <1>6 DEF AgentSucceeds, TypeOK
  <2> HIDE DEF x
  <2> QED
    BY <1>6, <2>1, <2>2 DEF AgentSucceeds, MarkCompleted, Stores, Ends, ProcessMoves, Working
<1>7. CASE EnqueueRead(t)
  <2> DEFINE x == [task[t] EXCEPT !.pc = "enqueueing", !.todo = Startable(t)]
  <2>1. x \in TaskState /\ x.pc = "enqueueing"
    BY <1>1 DEF TaskState, Startable, Downstream
  <2>2. task' = [task EXCEPT ![t] = x]
    BY <1>7 DEF EnqueueRead, TypeOK
  <2> HIDE DEF x
  <2> QED
    BY <1>1, <1>7, <2>1, <2>2 DEF EnqueueRead, Quiet, ProcessMoves, Working, TypeOK
<1>8. CASE FinalizeRead(t)
  <2>1. PICK x \in TaskState : x.pc \in {"idle", "finalizing"} /\ task' = [task EXCEPT ![t] = x]
    <3>1. CASE AllDone
      <4> DEFINE x == [task[t] EXCEPT !.pc = "finalizing",
                                      !.verdict = IF AnyFailed THEN "failed" ELSE "completed"]
      <4>1. x \in TaskState /\ x.pc = "finalizing"
        BY <1>1 DEF TaskState
      <4>2. task' = [task EXCEPT ![t] = x]
        BY <1>8, <3>1 DEF FinalizeRead, TypeOK
      <4> QED
        BY <4>1, <4>2
    <3>2. CASE ~AllDone
      BY <1>1, <1>8, <3>2 DEF FinalizeRead, NoTask
    <3> QED
      BY <3>1, <3>2
  <2> QED
    BY <1>8, <2>1 DEF FinalizeRead, Quiet, ProcessMoves, Working, TypeOK
<1>9. CASE FinalizeCommit(t)
  <2>1. task[t].verdict \in ProcessStatus
    BY <1>1 DEF TaskState, ProcessStatus, ProcessTransitions
  <2>2. ProcessMoves
    BY <1>9, <2>1, MoveLoaded DEF FinalizeCommit, ProcessMoves
  <2> QED
    BY <1>1, <1>9, <2>2 DEF FinalizeCommit, NoTask, Quiet, Working, TypeOK
<1> QED
  BY <1>2, <1>3, <1>4, <1>5, <1>6, <1>7, <1>8, <1>9 DEF Execute, Enter, Proceed

-----------------------------------------------------------------------------
(* What holds whatever is replayed *)

\* The initial state satisfies the base.
LEMMA InitBase == Init => Base
<1> SUFFICES ASSUME Init PROVE Base
  OBVIOUS
<1>1. TypeOK
  BY NoMemory DEF Init, TypeOK, Row, ApiState, NoRequest, ReplayState, NoReplay,
         ProcessStatus, ProcessTransitions
<1>2. Fresh /\ Loaded /\ NoOrphan
  BY DEF Init, Fresh, Loaded, NoOrphan, NoTask, NoRequest, NoReplay
<1> QED
  BY <1>1, <1>2 DEF Base

\* create_process.
LEMMA CreateBase == ASSUME Base, Create PROVE Base'
<1> USE DEF Base
<1>1. CASE CreateRow
  BY <1>1 DEF CreateRow, TypeOK, Fresh, Loaded, NoOrphan, Working, ProcessStatus,
         ProcessTransitions
<1>2. CASE CreateSteps
  BY <1>2 DEF CreateSteps, TypeOK, Row, StepStatus, StepTransitions, Fresh, Loaded, NoOrphan
<1> QED
  BY <1>1, <1>2 DEF Create

\* start, cancel and resume.
LEMMA RequestBase == ASSUME Base, NEW h \in Handlers, Request(h) PROVE Base'
<1> USE DEF Base
<1>1. ASSUME NEW op \in {"start", "cancel", "resume"}, ApiLoad(h, op) PROVE Base'
  <2>1. TypeOK'
    BY <1>1 DEF ApiLoad, TypeOK, ApiState
  <2>2. proc # "absent"
    BY <1>1 DEF ApiLoad, Admits, CanTransitionProcess, ProcessStatus, ProcessTransitions
  <2>3. Fresh'
    BY <1>1, <2>2 DEF ApiLoad, Fresh, TypeOK
  <2>4. (Loaded /\ NoOrphan)'
    BY <1>1 DEF ApiLoad, Loaded, NoOrphan, Working
  <2> QED
    BY <2>1, <2>3, <2>4
<1>2. CASE ApiSelect(h)
  <2>1. Selected(api[h].op) \subseteq {s \in Steps : step[s].status # "absent"}
    BY DEF Selected, RootSteps, TypeOK, ApiState
  <2>2. TypeOK'
    <3>1. api \in [Handlers -> ApiState]
      BY DEF TypeOK
    <3>2. [api[h] EXCEPT !.pc = "selected", !.touched = Selected(api[h].op)] \in ApiState
      BY <2>1, <3>1 DEF ApiState
    <3>3. api' \in [Handlers -> ApiState]
      BY <1>2, <3>1, <3>2 DEF ApiSelect
    <3> QED
      BY <1>2, <3>3 DEF ApiSelect, TypeOK
  <2>3. Fresh'
    BY <1>2, <2>1 DEF ApiSelect, Fresh, TypeOK
  <2>4. (Loaded /\ NoOrphan)'
    BY <1>2 DEF ApiSelect, Loaded, NoOrphan, Working
  <2> QED
    BY <2>2, <2>3, <2>4
<1>3. CASE ApiCommit(h)
  <2>1. api[h].op \in {"start", "cancel", "resume"}
    BY DEF TypeOK, ApiState
  <2>2. \A s \in Steps : \/ s \notin api[h].touched /\ step'[s] = step[s]
                         \/ /\ s \in api[h].touched
                            /\ step'[s] \in Row
                            /\ step'[s].status \in {"queued", "cancelled"}
    BY <1>3, <2>1, RewrittenRow DEF ApiCommit, TypeOK
  <2>3. TypeOK'
    BY <1>3, <2>1, <2>2, TargetType DEF ApiCommit, MoveProcess, TypeOK, ApiState, NoRequest
  <2>4. Fresh'
    <3>1. Target(api[h].op) \in ProcessStatus /\ "absent" \notin ProcessStatus
      BY <2>1, TargetType DEF ProcessStatus, ProcessTransitions
    <3>2. api[h].touched \subseteq Steps /\ api[h].pc # "idle"
      BY <1>3 DEF ApiCommit, TypeOK, ApiState
    <3> QED
      BY <1>3, <2>2, <3>1, <3>2 DEF ApiCommit, MoveProcess, Fresh, TypeOK, NoRequest
  <2>5. (Loaded /\ NoOrphan)'
    BY <1>3, <2>2 DEF ApiCommit, Loaded, NoOrphan, Working
  <2> QED
    BY <2>3, <2>4, <2>5
<1> QED
  BY <1>1, <1>2, <1>3 DEF Request

\* Promotion to running.
LEMMA PromoteBase == ASSUME Base, Promote PROVE Base'
BY DEF Base, Promote, MoveProcess, TypeOK, ProcessStatus, ProcessTransitions, Fresh,
   Loaded, NoOrphan, Working

\* replay_dlq, however many overlap.
LEMMA ReplayBase == ASSUME Base, NEW r \in Replayers, Replay(r) PROVE Base'
<1> USE DEF Base
<1>1. ASSUME NEW i \in DOMAIN dlq, ReplayLoad(r, i) PROVE Base'
  <2>1. i \in Nat
    BY DlqRow
  <2>2. TypeOK'
    BY <1>1, <2>1 DEF ReplayLoad, Replayable, TypeOK, ReplayState
  <2>3. (Fresh /\ NoOrphan)'
    BY <1>1, LenProperties DEF ReplayLoad, Fresh, NoOrphan, Working, TypeOK
  <2>4. Loaded'
    BY <1>1 DEF ReplayLoad, Loaded, TypeOK
  <2> QED
    BY <2>2, <2>3, <2>4
<1>2. CASE ReplayCommit(r)
  <2> DEFINE i == replay[r].row
             s == dlq[i].step
  <2>1. i \in DOMAIN dlq
    BY <1>2 DEF ReplayCommit, Loaded
  <2>2. s \in Steps
    BY <2>1, DlqRow DEF DeadLetter
  <2>3. step' = IF replay[r].failed
                THEN [step EXCEPT ![s] = [status |-> "pending", attempt |-> 0, due |-> TRUE]]
                ELSE step
    BY <1>2 DEF ReplayCommit
  <2>4. dlq' = Resolved(i) /\ UNCHANGED <<creator, proc, task, api, lost>>
    BY <1>2 DEF ReplayCommit
  <2>5. TypeOK'
    BY <1>2, <2>1, <2>2, <2>3, <2>4, ResolvedRows
       DEF ReplayCommit, TypeOK, Row, StepStatus, StepTransitions, ReplayState, NoReplay
  <2>6. creator \notin {"row", "steps"}
    BY <1>2 DEF ReplayCommit, Fresh
  <2>7. Fresh'
    BY <2>4, <2>6 DEF Fresh
  <2>8. Loaded'
    BY <1>2, <2>1, <2>4, ResolvedRows DEF ReplayCommit, Loaded, NoReplay, TypeOK
  <2>9. NoOrphan'
    BY <2>2, <2>3, <2>4 DEF NoOrphan, Working, TypeOK
  <2> QED
    BY <2>5, <2>7, <2>8, <2>9
<1> QED
  BY <1>1, <1>2 DEF Replay

\* The passing of a retry time changes no status and no attempt.
LEMMA DueRow ==
  ASSUME TypeOK, NEW s \in Steps, RetryElapses(s)
  PROVE  /\ step' \in [Steps -> Row]
         /\ \A x \in Steps : step'[x].status = step[x].status /\ step'[x].attempt = step[x].attempt
<1>1. step \in [Steps -> Row] /\ step' = [step EXCEPT ![s].due = TRUE]
  BY DEF RetryElapses, TypeOK
<1>2. [step[s] EXCEPT !.due = TRUE] \in Row
  BY <1>1 DEF Row
<1>3. step' \in [Steps -> Row]
  BY <1>1, <1>2
<1>4. \A x \in Steps : step'[x].status = step[x].status /\ step'[x].attempt = step[x].attempt
  BY <1>1 DEF Row
<1> QED
  BY <1>3, <1>4

LEMMA RetryElapsesBase == ASSUME Base, NEW s \in Steps, RetryElapses(s) PROVE Base'
<1> USE DEF Base
<1>1. TypeOK'
  BY DueRow DEF RetryElapses, TypeOK
<1>2. Fresh'
  BY DueRow DEF RetryElapses, Fresh, TypeOK
<1>3. (Loaded /\ NoOrphan)'
  BY DueRow DEF RetryElapses, Loaded, NoOrphan, Working
<1> QED
  BY <1>1, <1>2, <1>3

\* What a claim of S does to the rows and the tasks: a claimed step has a task,
\* in its lane, that works on it.
ClaimedIn(S, lane) ==
    /\ \A s \in S : /\ lane[s] \in Lanes
                    /\ step[s].status \in {"pending", "retrying"}
                    /\ step'[s].status = "running"
                    /\ step'[s].attempt = step[s].attempt + 1
    /\ \A s \in Steps : s \notin S => step'[s] = step[s]
    /\ \A s \in Steps, k \in Lanes :
           IF s \in S /\ k = lane[s]
           THEN Working(<<s, k>>)' /\ task'[<<s, k>>].attempt = step[s].attempt + 1
           ELSE task'[<<s, k>>] = task[<<s, k>>] /\ (Working(<<s, k>>)' <=> Working(<<s, k>>))

LEMMA ClaimRows ==
  ASSUME TypeOK, NEW S \in SUBSET Steps, Claim(S)
  PROVE  /\ step' \in [Steps -> Row]
         /\ task' \in [TaskIds -> TaskState]
         /\ \E lane : ClaimedIn(S, lane)
<1> DEFINE lane == [s \in S |-> CHOOSE k \in FreeLanes(s) : TRUE]
<1>1. \A s \in S : /\ step[s].status \in {"pending", "retrying"}
                   /\ lane[s] \in Lanes
  BY DEF Claim, Ready, FreeLanes
<1>2. step' = [s \in Steps |-> IF s \in S THEN ClaimedRow(step[s]) ELSE step[s]]
  BY DEF Claim
<1>3. task' = [t \in TaskIds |->
                   IF t[1] \in S /\ t[2] = lane[t[1]]
                   THEN [NoTask EXCEPT !.pc = "claimed",
                                       !.attempt = ClaimedRow(step[t[1]]).attempt]
                   ELSE task[t]]
  BY DEF Claim
<1> HIDE DEF lane
<1>4. \A s \in S : /\ ClaimedRow(step[s]) \in Row
                   /\ ClaimedRow(step[s]).status = "running"
                   /\ ClaimedRow(step[s]).attempt = step[s].attempt + 1
  BY DEF ClaimedRow, Row, StepStatus, StepTransitions, TypeOK
<1>5. step' \in [Steps -> Row]
  BY <1>2, <1>4 DEF TypeOK
<1>6. \A t \in TaskIds : t[1] \in S =>
          [NoTask EXCEPT !.pc = "claimed", !.attempt = ClaimedRow(step[t[1]]).attempt] \in TaskState
  BY <1>4, NoMemory DEF TaskState, Row
<1>7. task' \in [TaskIds -> TaskState]
  BY <1>3, <1>6 DEF TypeOK
<1>8. \A s \in Steps, k \in Lanes :
          IF s \in S /\ k = lane[s]
          THEN task'[<<s, k>>] = [NoTask EXCEPT !.pc = "claimed", !.attempt = step[s].attempt + 1]
          ELSE task'[<<s, k>>] = task[<<s, k>>]
  BY <1>3, <1>4 DEF TaskIds
<1>9. \A s \in Steps, k \in Lanes :
          IF s \in S /\ k = lane[s]
          THEN Working(<<s, k>>)' /\ task'[<<s, k>>].attempt = step[s].attempt + 1
          ELSE task'[<<s, k>>] = task[<<s, k>>] /\ (Working(<<s, k>>)' <=> Working(<<s, k>>))
  BY <1>8 DEF Working, NoTask
<1>10. \A s \in S : step'[s].status = "running" /\ step'[s].attempt = step[s].attempt + 1
  BY <1>2, <1>4
<1>11. \A s \in Steps : s \notin S => step'[s] = step[s]
  BY <1>2
<1> QED
  BY <1>1, <1>5, <1>7, <1>9, <1>10, <1>11 DEF ClaimedIn

LEMMA ClaimBase == ASSUME Base, NEW S \in SUBSET Steps, Claim(S) PROVE Base'
<1> USE DEF Base
<1>1. UNCHANGED <<creator, proc, dlq, api, replay>> /\ lost' = lost \ S /\ blind' = blind \ S
  BY DEF Claim
<1>2. TypeOK'
  BY <1>1, ClaimRows DEF TypeOK
<1>3. creator \notin {"row", "steps"}
  BY DEF Claim, Ready, Fresh
<1>4. (Fresh /\ Loaded)'
  BY <1>1, <1>3 DEF Fresh, Loaded
<1>5. NoOrphan'
  <2>1. PICK lane : ClaimedIn(S, lane)
    BY ClaimRows
  <2> QED
    BY <1>1, <2>1 DEF ClaimedIn, NoOrphan
<1> QED
  BY <1>2, <1>4, <1>5

\* The task t has worked on its step and records an outcome that does not make
\* the step's row pending, running or absent.
Outcome(t) ==
    /\ task[t].pc \in {"claimed", "agent"}
    /\ ~Working(t)'
    /\ \A u \in TaskIds : u # t => (Working(u)' <=> Working(u)) /\ task'[u] = task[u]
    /\ \A s \in Steps : s # t[1] => step'[s] = step[s]
    /\ \/ Detached /\ step' = step
       \/ /\ step'[t[1]].status \in {"completed", "failed", "retrying", "paused"}
          /\ step'[t[1]].attempt = step[t[1]].attempt
    /\ UNCHANGED <<creator, api, replay, lost, blind>>

\* The tables after an outcome: the type of the row and of the dead letters is
\* kept, and no running row has lost its task.
LEMMA OutcomeBase ==
  ASSUME Base, NEW t \in TaskIds, Outcome(t), Ends(t), ProcessMoves,
         step' \in [Steps -> Row], dlq' \in Seq(DeadLetter), DOMAIN dlq \subseteq DOMAIN dlq'
  PROVE  Base' /\ creator \notin {"row", "steps"}
<1> USE DEF Base
<1>1. t[1] \in Steps /\ t[2] \in Lanes /\ t = <<t[1], t[2]>>
  BY DEF TaskIds
<1>2. creator \notin {"row", "steps"}
  BY DEF Outcome, Fresh
<1>3. TypeOK'
  BY DEF TypeOK, Ends, Outcome, ProcessMoves
<1>4. "absent" \notin ProcessStatus
  BY DEF ProcessStatus, ProcessTransitions
<1>5. Fresh'
  BY <1>2, <1>4 DEF Fresh, Outcome, ProcessMoves
<1>6. Loaded'
  BY DEF Loaded, Outcome
<1>7. \A s \in Steps, k \in Lanes : s # t[1] => (Working(<<s, k>>)' <=> Working(<<s, k>>)) /\ step'[s] = step[s]
  BY <1>1 DEF Outcome, TaskIds
<1>8. NoOrphan'
  BY <1>7 DEF NoOrphan, Outcome
<1> QED
  BY <1>2, <1>3, <1>5, <1>6, <1>8

\* A failure is an outcome: the last attempt leaves a dead letter, an earlier
\* one a step to retry.
LEMMA FailRows ==
  ASSUME TypeOK, NEW t \in TaskIds, Fails(t)
  PROVE  /\ Outcome(t)
         /\ step' \in [Steps -> Row]
         /\ \/ /\ Exhausted(t)
               /\ (Detached /\ step' = step) \/ step'[t[1]].status = "failed"
               /\ dlq' \in Seq(DeadLetter)
               /\ DOMAIN dlq' = DOMAIN dlq \cup {Len(dlq) + 1}
               /\ Len(dlq) + 1 \notin DOMAIN dlq
               /\ dlq'[Len(dlq) + 1] = [step |-> t[1], count |-> task[t].attempt, open |-> TRUE]
               /\ \A j \in DOMAIN dlq : dlq'[j] = dlq[j]
            \/ /\ ~Exhausted(t)
               /\ (Detached /\ step' = step) \/ step'[t[1]].status = "retrying"
               /\ dlq' = dlq
<1> DEFINE s == t[1]
<1>1. s \in Steps /\ step[s] \in Row /\ task[t].attempt \in Nat /\ task[t].pc \in {"claimed", "agent"}
  BY DEF TaskIds, TypeOK, TaskState, Fails, Working
<1>2. /\ ~Working(t)'
      /\ \A u \in TaskIds : u # t => (Working(u)' <=> Working(u)) /\ task'[u] = task[u]
  BY TaskMoves DEF Fails, Ends
<1>3. CASE Exhausted(t)
  <2> DEFINE d == [step |-> s, count |-> task[t].attempt, open |-> TRUE]
             row == [step[s] EXCEPT !.status = "failed"]
  <2>1. step' = Stored(s, row) /\ dlq' = Append(dlq, d)
    BY <1>3 DEF Fails, MarkFailed
  <2>2. d \in DeadLetter /\ row \in Row /\ row.status = "failed" /\ row.attempt = step[s].attempt
    BY <1>1 DEF DeadLetter, Row, StepStatus, StepTransitions
  <2> HIDE DEF row
  <2>3. /\ step' \in [Steps -> Row]
        /\ \A y \in Steps : y # s => step'[y] = step[y]
        /\ (Detached /\ step' = step) \/ step'[s] = row
    BY <1>1, <2>1, <2>2, StoredRow
  <2>4. Outcome(t)
    BY <1>1, <1>2, <2>2, <2>3 DEF Outcome, Fails
  <2> HIDE DEF d
  <2>5. /\ dlq' \in Seq(DeadLetter)
        /\ DOMAIN dlq' = DOMAIN dlq \cup {Len(dlq) + 1}
        /\ Len(dlq) + 1 \notin DOMAIN dlq
        /\ dlq'[Len(dlq) + 1] = d
        /\ \A j \in DOMAIN dlq : dlq'[j] = dlq[j]
    BY <2>1, <2>2, AppendedRows
  <2> QED
    BY <1>3, <2>2, <2>3, <2>4, <2>5 DEF d
<1>4. CASE ~Exhausted(t)
  <2> DEFINE row == [step[s] EXCEPT !.status = "retrying", !.due = FALSE]
  <2>1. step' = Stored(s, row) /\ dlq' = dlq
    BY <1>4 DEF Fails, MarkFailed
  <2>2. row \in Row /\ row.status = "retrying" /\ row.attempt = step[s].attempt
    BY <1>1 DEF Row, StepStatus, StepTransitions
  <2> HIDE DEF row
  <2>3. /\ step' \in [Steps -> Row]
        /\ \A y \in Steps : y # s => step'[y] = step[y]
        /\ (Detached /\ step' = step) \/ step'[s] = row
    BY <1>1, <2>1, <2>2, StoredRow
  <2>4. Outcome(t)
    BY <1>1, <1>2, <2>2, <2>3 DEF Outcome, Fails
  <2> QED
    BY <1>4, <2>1, <2>2, <2>3, <2>4
<1> QED
  BY <1>3, <1>4

\* A success or a pause is an outcome, too.
LEMMA StoreRows ==
  ASSUME TypeOK, NEW t \in TaskIds, Stores(t)
  PROVE  /\ Outcome(t)
         /\ step' \in [Steps -> Row]
         /\ (Detached /\ step' = step) \/ step'[t[1]].status \in {"completed", "paused"}
<1> DEFINE s == t[1]
<1>1. s \in Steps /\ step[s] \in Row /\ task[t].pc \in {"claimed", "agent"}
  BY DEF TaskIds, TypeOK, Stores, Working
<1>2. /\ ~Working(t)'
      /\ \A u \in TaskIds : u # t => (Working(u)' <=> Working(u)) /\ task'[u] = task[u]
  BY TaskMoves DEF Stores, Ends
<1>3. PICK st \in {"completed", "paused"} : step' = Stored(s, [step[s] EXCEPT !.status = st])
  BY DEF Stores
<1> DEFINE row == [step[s] EXCEPT !.status = st]
<1>4. row \in Row /\ row.status = st /\ row.attempt = step[s].attempt
  BY <1>1 DEF Row, StepStatus, StepTransitions
<1> HIDE DEF row
<1>5. /\ step' \in [Steps -> Row]
      /\ \A y \in Steps : y # s => step'[y] = step[y]
      /\ (Detached /\ step' = step) \/ step'[s] = row
  BY <1>1, <1>3, <1>4, StoredRow DEF row
<1>6. Outcome(t)
  BY <1>1, <1>2, <1>4, <1>5 DEF Outcome, Stores
<1> QED
  BY <1>4, <1>5, <1>6

\* A quiet step leaves the working tasks and their attempts.
LEMMA QuietTasks ==
  ASSUME TypeOK, NEW t \in TaskIds, Quiet(t)
  PROVE  /\ task' \in [TaskIds -> TaskState]
         /\ \A s \in Steps, k \in Lanes :
                /\ Working(<<s, k>>)' <=> Working(<<s, k>>)
                /\ Working(<<s, k>>) => task'[<<s, k>>].attempt = task[<<s, k>>].attempt
BY DEF Quiet, Working, TypeOK, TaskIds

\* What a task enqueues downstream becomes queued, and no task's work changes.
LEMMA EnqueuedRows ==
  ASSUME TypeOK, NEW t \in TaskIds, EnqueueCommit(t)
  PROVE  /\ step' \in [Steps -> Row]
         /\ task' \in [TaskIds -> TaskState]
         /\ \A s \in Steps : \/ step'[s] = step[s]
                             \/ /\ step'[s].attempt = step[s].attempt
                                /\ step'[s].status = "queued"
         /\ \A s \in Steps, k \in Lanes : /\ Working(<<s, k>>)' <=> Working(<<s, k>>)
                                          /\ task'[<<s, k>>].attempt = task[<<s, k>>].attempt
<1>1. \A s \in Steps : \/ step'[s] = step[s]
                       \/ /\ step'[s] \in Row
                          /\ step'[s].attempt = step[s].attempt
                          /\ step'[s].status = "queued"
  BY DEF EnqueueCommit, TypeOK, Row, StepStatus, StepTransitions
<1>2. step' \in [Steps -> Row]
  BY <1>1 DEF EnqueueCommit, TypeOK
<1>3. [task[t] EXCEPT !.pc = "finalize", !.todo = {}] \in TaskState
  BY DEF TypeOK, TaskState
<1>4. task' = [task EXCEPT ![t] = [task[t] EXCEPT !.pc = "finalize", !.todo = {}]]
  BY DEF EnqueueCommit, TypeOK
<1>5. task' \in [TaskIds -> TaskState]
  BY <1>3, <1>4 DEF TypeOK
<1>6. \A s \in Steps, k \in Lanes : /\ Working(<<s, k>>)' <=> Working(<<s, k>>)
                                    /\ task'[<<s, k>>].attempt = task[<<s, k>>].attempt
  BY DEF EnqueueCommit, Working, TypeOK, TaskIds, TaskState
<1> QED
  BY <1>1, <1>2, <1>5, <1>6

\* Every action of a task.
LEMMA ExecuteBase == ASSUME Base, NEW t \in TaskIds, Execute(t) PROVE Base'
<1> USE DEF Base
<1>1. CASE Fails(t)
  <2>1. dlq' \in Seq(DeadLetter) /\ DOMAIN dlq \subseteq DOMAIN dlq'
    BY <1>1, FailRows DEF TypeOK
  <2>2. Ends(t) /\ ProcessMoves
    BY <1>1 DEF Fails, ProcessMoves
  <2> QED
    BY <1>1, <2>1, <2>2, FailRows, OutcomeBase
<1>2. CASE Stores(t)
  <2>1. dlq' \in Seq(DeadLetter) /\ DOMAIN dlq \subseteq DOMAIN dlq'
    BY <1>2 DEF Stores, TypeOK
  <2>2. Ends(t) /\ ProcessMoves
    BY <1>2 DEF Stores
  <2> QED
    BY <1>2, <2>1, <2>2, StoreRows, OutcomeBase
<1>3. CASE Quiet(t)
  <2>1. creator \notin {"row", "steps"}
    BY <1>3 DEF Quiet, Fresh
  <2>2. TypeOK'
    BY <1>3, QuietTasks DEF Quiet, ProcessMoves, TypeOK
  <2>3. "absent" \notin ProcessStatus
    BY DEF ProcessStatus, ProcessTransitions
  <2>4. Fresh'
    BY <1>3, <2>1, <2>3 DEF Quiet, ProcessMoves, Fresh
  <2>5. (Loaded /\ NoOrphan)'
    BY <1>3, QuietTasks DEF Quiet, Loaded, NoOrphan
  <2> QED
    BY <2>2, <2>4, <2>5
<1>4. CASE EnqueueCommit(t)
  <2>1. creator \notin {"row", "steps"}
    BY <1>4 DEF EnqueueCommit, Fresh
  <2>2. TypeOK'
    BY <1>4, EnqueuedRows DEF EnqueueCommit, TypeOK
  <2>3. Fresh'
    BY <1>4, <2>1 DEF EnqueueCommit, Fresh
  <2>4. (Loaded /\ NoOrphan)'
    BY <1>4, EnqueuedRows DEF EnqueueCommit, Loaded, NoOrphan
  <2> QED
    BY <2>2, <2>3, <2>4
<1> QED
  BY <1>1, <1>2, <1>3, <1>4, ExecuteKinds

\* A swallowed error takes one task away and changes no table.
LEMMA SwallowedTask ==
  ASSUME TypeOK, NEW t \in TaskIds, Swallow(t)
  PROVE  /\ ~Working(t)'
         /\ \A s \in Steps, k \in Lanes : <<s, k>> # t =>
                /\ Working(<<s, k>>)' <=> Working(<<s, k>>)
                /\ task'[<<s, k>>] = task[<<s, k>>]
<1>1. task' = [task EXCEPT ![t] = NoTask] /\ NoTask.pc \notin {"claimed", "agent"}
  BY DEF Swallow, NoTask
<1>2. \A s \in Steps, k \in Lanes : <<s, k>> \in TaskIds
  BY DEF TaskIds
<1> QED
  BY <1>1, <1>2, TaskMoves

LEMMA SwallowBase == ASSUME Base, NEW t \in TaskIds, Swallow(t) PROVE Base'
<1> USE DEF Base
<1>1. t[1] \in Steps /\ t[2] \in Lanes /\ t = <<t[1], t[2]>>
  BY DEF TaskIds
<1>2. TypeOK'
  BY <1>1, NoMemory DEF Swallow, TypeOK
<1>3. creator \notin {"row", "steps"}
  BY DEF Swallow, Fresh
<1>4. (Fresh /\ Loaded)'
  BY <1>3 DEF Swallow, Fresh, Loaded
<1>5. NoOrphan'
  <2>1. ASSUME NEW s \in Steps, NEW k \in Lanes, Working(<<s, k>>)
        PROVE  Working(<<s, k>>)' \/ s \in lost'
    <3>1. CASE <<s, k>> = t
      BY <3>1 DEF Swallow
    <3>2. CASE <<s, k>> # t
      BY <2>1, <3>2, SwallowedTask
    <3> QED
      BY <3>1, <3>2
  <2>2. UNCHANGED step /\ lost \subseteq lost'
    BY DEF Swallow
  <2> QED
    BY <2>1, <2>2 DEF NoOrphan
<1> QED
  BY <1>2, <1>4, <1>5

\* A crash takes tasks and requests away.
LEMMA CrashBase == ASSUME Base, Crash PROVE Base'
<1> USE DEF Base
<1>1. TypeOK'
  <2>1. lost' \subseteq Steps
    BY DEF Crash, TypeOK, TaskIds
  <2> QED
    BY <2>1, NoMemory DEF Crash, TypeOK, NoRequest, ApiState, NoReplay, ReplayState
<1>2. (Fresh /\ Loaded)'
  BY DEF Crash, Fresh, Loaded, NoTask, NoRequest, NoReplay
<1>3. NoOrphan'
  <2>1. \A s \in Steps, k \in Lanes : Working(<<s, k>>) => s \in lost'
    <3> SUFFICES ASSUME NEW s \in Steps, NEW k \in Lanes, Working(<<s, k>>)
                 PROVE  s \in lost'
      OBVIOUS
    <3>1. <<s, k>> \in {u \in TaskIds : task[u].pc # "idle"} /\ <<s, k>>[1] = s
      BY DEF Working, TaskIds
    <3> QED
      BY <3>1 DEF Crash
  <2> QED
    BY <2>1 DEF Crash, NoOrphan
<1> QED
  BY <1>1, <1>2, <1>3

\* Every step of the specification preserves the base.
LEMMA NextBase == ASSUME Base, [Next]_vars PROVE Base'
<1>1. CASE UNCHANGED vars
  BY <1>1 DEF vars, Base, TypeOK, Fresh, Loaded, NoOrphan, Working
<1>2. CASE Next
  BY <1>2, CreateBase, RequestBase, PromoteBase, ReplayBase, RetryElapsesBase, ClaimBase, ExecuteBase,
     SwallowBase, CrashBase DEF Next
<1> QED
  BY <1>1, <1>2

\* The base holds in every reachable state.
LEMMA BaseInvariance == Spec => []Base
BY InitBase, NextBase, PTL DEF Spec

\* Type correctness.
THEOREM TypeCorrect == Spec => []TypeOK
<1>1. Base => TypeOK
  BY DEF Base
<1> QED
  BY <1>1, BaseInvariance, PTL

\* With the step attached, every running row has its task, or its last task was
\* cut short: a crash and a swallowed error are all that can lose a step.
THEOREM Attended == Spec => []NoOrphan
<1>1. Base => NoOrphan
  BY DEF Base
<1> QED
  BY <1>1, BaseInvariance, PTL

-----------------------------------------------------------------------------
(* What keeps two tasks from working on one step *)

\* The initial state.
LEMMA InitInv == Init => IInv
<1> SUFFICES ASSUME Init PROVE IInv
  OBVIOUS
<1>1. ExclusiveExecution /\ WorkingRow /\ Accounted /\ ReplayRow
  BY DEF Init, ExclusiveExecution, WorkingRow, Accounted, ReplayRow, Working, TaskIds, NoTask, NoReplay
<1>2. Attempts
  BY AttemptsAssumption DEF Init, Attempts
<1> QED
  BY <1>1, <1>2, InitBase DEF IInv, Exclusion

\* The steps of the dead letters that are being replayed.
LEMMA LoadedStep ==
  ASSUME TypeOK, Loaded, NEW r \in Replayers, replay[r].pc = "loaded"
  PROVE  replay[r].row \in DOMAIN dlq /\ dlq[replay[r].row].step \in Steps
BY DlqRow DEF Loaded, DeadLetter

\* A step that fails no row and claims none, and leaves the dead letters, the
\* replays and the unclaimed steps as they are.
LEMMA TablesKept ==
  ASSUME IInv, UNCHANGED <<dlq, replay>>,
         \A s \in Steps : step'[s].status = "failed" => step[s].status = "failed",
         \A s \in Steps : Unclaimed(s) => Unclaimed(s)'
  PROVE  (Accounted /\ ReplayRow)'
<1>1. Accounted'
  BY DEF IInv, Exclusion, Accounted, Evidence
<1>2. ReplayRow'
  BY LoadedStep DEF IInv, Base, Exclusion, ReplayRow
<1> QED
  BY <1>1, <1>2

\* What depends on the steps, the tasks, the dead letters and the replays only.
LEMMA RowsUntouched ==
  ASSUME IInv, UNCHANGED <<step, task, dlq, replay>>
  PROVE  Exclusion'
<1>1. (ExclusiveExecution /\ WorkingRow /\ Attempts)'
  BY DEF IInv, Exclusion, ExclusiveExecution, WorkingRow, Attempts, Working
<1>2. (Accounted /\ ReplayRow)'
  BY TablesKept DEF Unclaimed, Working
<1> QED
  BY <1>1, <1>2 DEF Exclusion

\* create_process.
LEMMA CreateInv == ASSUME IInv, Create PROVE Exclusion'
<1> USE DEF IInv, Base, Exclusion
<1>1. CASE CreateRow
  BY <1>1, RowsUntouched DEF CreateRow
<1>2. CASE CreateSteps
  <2>1. Attempts'
    BY <1>2, AttemptsAssumption DEF CreateSteps, Attempts
  <2>2. \A s \in Steps, k \in Lanes : ~Working(<<s, k>>)
    BY <1>2 DEF CreateSteps, Fresh, TaskIds, Working
  <2>3. (ExclusiveExecution /\ WorkingRow /\ Accounted /\ ReplayRow)'
    BY <1>2, <2>2 DEF CreateSteps, Fresh, ExclusiveExecution, WorkingRow, Accounted, ReplayRow, Working
  <2> QED
    BY <2>1, <2>3
<1> QED
  BY <1>1, <1>2 DEF Create

\* start, cancel and resume.
LEMMA RequestInv == ASSUME IInv, NEW h \in Handlers, Request(h) PROVE Exclusion'
<1> USE DEF IInv, Base, Exclusion
<1>1. CASE step' = step
  BY <1>1, RowsUntouched DEF Request, ApiLoad, ApiSelect, ApiCommit
<1>2. CASE ApiCommit(h)
  <2>1. api[h].op \in {"start", "cancel", "resume"}
    BY DEF TypeOK, ApiState
  <2>2. \A s \in Steps : \/ step'[s] = step[s]
                         \/ /\ step'[s].attempt = step[s].attempt
                            /\ step'[s].status \in {"queued", "cancelled"}
    BY <1>2, <2>1, RewrittenRow DEF ApiCommit, TypeOK
  <2>3. (ExclusiveExecution /\ WorkingRow /\ Attempts)'
    BY <1>2, <2>2 DEF ApiCommit, ExclusiveExecution, WorkingRow, Attempts, Working
  <2>4. \A s \in Steps : Unclaimed(s) => Unclaimed(s)'
    BY <1>2, <2>2 DEF ApiCommit, Unclaimed, Working
  <2>5. (Accounted /\ ReplayRow)'
    BY <1>2, <2>2, <2>4, TablesKept DEF ApiCommit
  <2> QED
    BY <2>3, <2>5
<1> QED
  BY <1>1, <1>2 DEF Request, ApiLoad, ApiSelect

\* replay_dlq, no two requests of one step at a time: the commit re-queues a
\* step nobody works on, and no other replay has judged that step failed.
LEMMA ReplayInv ==
  ASSUME IInv, Apart, NEW r \in Replayers, Replay(r)
  PROVE  Exclusion'
<1> USE DEF IInv, Base, Exclusion
<1>1. ASSUME NEW i \in DOMAIN dlq, ReplayLoad(r, i) PROVE Exclusion'
  <2>1. dlq[i].step \in Steps
    BY DlqRow DEF DeadLetter
  <2>2. (ExclusiveExecution /\ WorkingRow /\ Attempts)'
    BY <1>1 DEF ReplayLoad, ExclusiveExecution, WorkingRow, Attempts, Working
  <2>3. Accounted'
    <3> SUFFICES ASSUME NEW x \in Steps, step[x].status = "failed"
                 PROVE  \E j \in DOMAIN dlq : Evidence(x, j)'
      BY <1>1 DEF ReplayLoad, Accounted
    <3>1. PICK j \in DOMAIN dlq : Evidence(x, j)
      BY DEF Accounted
    <3>2. j = i => dlq[i].step = x
      BY <3>1 DEF Evidence
    <3>3. /\ replay'[r].row = i
          /\ replay'[r].failed = (step[dlq[i].step].status = "failed")
          /\ \A q \in Replayers : q # r => replay'[q] = replay[q]
      BY <1>1 DEF ReplayLoad, Replayable, TypeOK
    <3>4. j = i => replay'[r].failed
      BY <3>2, <3>3
    <3>5. Evidence(x, j)'
      BY <1>1, <3>1, <3>3, <3>4 DEF ReplayLoad, Evidence
    <3> QED
      BY <3>5
  <2>4. ReplayRow'
    <3>1. step[dlq[i].step].status = "failed" => Unclaimed(dlq[i].step)
      BY <2>1 DEF WorkingRow, Unclaimed
    <3> QED
      BY <1>1, <3>1 DEF ReplayLoad, Replayable, ReplayRow, Unclaimed, Working, TypeOK, ReplayState
  <2> QED
    BY <2>2, <2>3, <2>4
<1>2. CASE ReplayCommit(r)
  <2> DEFINE i == replay[r].row
             s == dlq[i].step
  <2>1. i \in DOMAIN dlq /\ s \in Steps /\ (replay[r].failed => Unclaimed(s))
    BY <1>2, LoadedStep DEF ReplayCommit, ReplayRow
  <2>2. /\ \A q \in Replayers : q # r => replay'[q] = replay[q]
        /\ replay'[r].pc = "idle"
    BY <1>2 DEF ReplayCommit, NoReplay, TypeOK
  <2>3. step' = IF replay[r].failed
                THEN [step EXCEPT ![s] = [status |-> "pending", attempt |-> 0, due |-> TRUE]]
                ELSE step
    BY <1>2 DEF ReplayCommit
  <2>4. dlq' = Resolved(i) /\ UNCHANGED task
    BY <1>2 DEF ReplayCommit
  <2>5. (ExclusiveExecution /\ WorkingRow)'
    BY <2>1, <2>3, <2>4 DEF ExclusiveExecution, WorkingRow, Unclaimed, Working, TypeOK
  <2>6. Attempts'
    BY <2>1, <2>3, AttemptsAssumption DEF Attempts, TypeOK
  <2>7. \A x \in Steps : x # s /\ Unclaimed(x) => Unclaimed(x)'
    BY <2>1, <2>3, <2>4 DEF Unclaimed, Working, TypeOK
  <2>8. ReplayRow'
    <3> SUFFICES ASSUME NEW q \in Replayers, replay'[q].pc = "loaded"
                 PROVE  /\ dlq'[replay'[q].row].open
                        /\ replay'[q].failed => Unclaimed(dlq[replay[q].row].step)'
      BY DEF ReplayRow
    <3>1. q # r /\ replay'[q] = replay[q]
      BY <2>2
    <3>2. replay[q].row \in DOMAIN dlq /\ dlq[replay[q].row].step \in Steps
      BY <3>1, LoadedStep
    <3>3. dlq[replay[q].row].step # s
      BY <1>2, <3>1 DEF ReplayCommit, Apart
    <3>4. dlq'[replay[q].row] = dlq[replay[q].row]
      BY <2>1, <2>4, <3>2, <3>3, ResolvedRows
    <3> QED
      BY <2>7, <3>1, <3>2, <3>3, <3>4 DEF ReplayRow
  <2>9. Accounted'
    <3> SUFFICES ASSUME NEW x \in Steps, step'[x].status = "failed"
                 PROVE  \E j \in DOMAIN dlq' : Evidence(x, j)'
      BY DEF Accounted
    <3>1. step[x].status = "failed" /\ (x = s => ~replay[r].failed)
      BY <2>1, <2>3 DEF TypeOK
    <3>2. PICK j \in DOMAIN dlq : Evidence(x, j)
      BY <3>1 DEF Accounted
    <3>3. j # i
      BY <1>2, <3>1, <3>2 DEF Evidence, ReplayCommit
    <3>4. j \in DOMAIN dlq' /\ dlq'[j] = dlq[j]
      BY <2>1, <2>4, <3>3, ResolvedRows
    <3>5. Evidence(x, j)'
      BY <2>2, <3>2, <3>4 DEF Evidence
    <3> QED
      BY <3>4, <3>5
  <2> QED
    BY <2>5, <2>6, <2>8, <2>9
<1> QED
  BY <1>1, <1>2 DEF Replay

\* The passing of a retry time.
LEMMA RetryElapsesInv == ASSUME IInv, NEW s \in Steps, RetryElapses(s) PROVE Exclusion'
<1> USE DEF IInv, Base, Exclusion
<1>1. \A x \in Steps : step'[x].status = step[x].status /\ step'[x].attempt = step[x].attempt
  BY DueRow
<1>2. \A x \in Steps, k \in Lanes :
          (Working(<<x, k>>)' <=> Working(<<x, k>>)) /\ task'[<<x, k>>] = task[<<x, k>>]
  BY DEF RetryElapses, Working
<1>3. (ExclusiveExecution /\ WorkingRow)'
  BY <1>1, <1>2 DEF ExclusiveExecution, WorkingRow
<1>4. Attempts'
  BY <1>1 DEF Attempts
<1>5. \A x \in Steps : Unclaimed(x) => Unclaimed(x)'
  BY <1>1, <1>2 DEF Unclaimed
<1>6. (Accounted /\ ReplayRow)'
  BY <1>1, <1>5, TablesKept DEF RetryElapses
<1> QED
  BY <1>3, <1>4, <1>6

\* A claim: a step it may take is worked on by no task.
LEMMA ClaimInv == ASSUME IInv, NEW S \in SUBSET Steps, Claim(S) PROVE Exclusion'
<1> USE DEF IInv, Base, Exclusion
<1>0. PICK lane : ClaimedIn(S, lane)
  BY ClaimRows
<1> USE <1>0 DEF ClaimedIn
<1>2. \A s \in S, k \in Lanes : ~Working(<<s, k>>)
  BY DEF WorkingRow
<1>3. \A s \in Steps, k \in Lanes :
          Working(<<s, k>>)' <=> IF s \in S THEN k = lane[s] ELSE Working(<<s, k>>)
  BY <1>2
<1>4. \A s \in S : step[s].attempt < MaxAttempts[s]
  BY AttemptsAssumption DEF Attempts, TypeOK
<1>5. ExclusiveExecution'
  BY <1>3 DEF ExclusiveExecution
<1>6. WorkingRow'
  BY <1>3 DEF WorkingRow
<1>7. Attempts'
  BY <1>4, AttemptsAssumption DEF Attempts, TypeOK, Row
<1>8. \A s \in Steps : Unclaimed(s) => Unclaimed(s)'
  BY <1>3 DEF Unclaimed
<1>9. (Accounted /\ ReplayRow)'
  BY <1>8, TablesKept DEF Claim
<1> QED
  BY <1>5, <1>6, <1>7, <1>9

\* Recording an outcome: the step was worked on by that task alone.
LEMMA OutcomeInv ==
  ASSUME IInv, NEW t \in TaskIds, Outcome(t)
  PROVE  /\ (ExclusiveExecution /\ WorkingRow)'
         /\ \A s \in Steps : Unclaimed(s) => s # t[1] /\ Unclaimed(s)'
<1> USE DEF IInv, Base, Exclusion
<1>1. t[1] \in Steps /\ t[2] \in Lanes /\ t = <<t[1], t[2]>>
  BY DEF TaskIds
<1>2. Working(t)
  BY DEF Outcome, Working
<1>3. ~Unclaimed(t[1])
  BY <1>1, <1>2 DEF Unclaimed
<1>4. \A s \in Steps, k \in Lanes : Working(<<s, k>>)' => s # t[1] /\ Working(<<s, k>>)
  <2> SUFFICES ASSUME NEW s \in Steps, NEW k \in Lanes, Working(<<s, k>>)'
               PROVE  s # t[1] /\ Working(<<s, k>>)
    OBVIOUS
  <2>1. <<s, k>> \in TaskIds /\ <<s, k>> # t
    BY DEF Outcome, TaskIds
  <2>2. Working(<<s, k>>)
    BY <2>1 DEF Outcome
  <2>3. s = t[1] => k = t[2]
    BY <1>1, <1>2, <2>2 DEF ExclusiveExecution
  <2> QED
    BY <1>1, <2>1, <2>2, <2>3
<1>5. \A s \in Steps, k \in Lanes : s # t[1] =>
          /\ Working(<<s, k>>)' <=> Working(<<s, k>>)
          /\ task'[<<s, k>>] = task[<<s, k>>]
          /\ step'[s] = step[s]
  BY <1>1 DEF Outcome, TaskIds
<1>6. ExclusiveExecution'
  BY <1>4 DEF ExclusiveExecution
<1>7. WorkingRow'
  BY <1>4, <1>5 DEF WorkingRow
<1>8. \A s \in Steps : Unclaimed(s) => s # t[1] /\ Unclaimed(s)'
  <2> SUFFICES ASSUME NEW s \in Steps, Unclaimed(s) PROVE s # t[1] /\ Unclaimed(s)'
    OBVIOUS
  <2>1. s # t[1] /\ step'[s] = step[s]
    BY <1>1, <1>3, <1>5
  <2>2. \A k \in Lanes : ~Working(<<s, k>>)'
    BY <1>4 DEF Unclaimed
  <2> QED
    BY <2>1, <2>2 DEF Unclaimed
<1> QED
  BY <1>6, <1>7, <1>8

\* Failing a step: the last attempt leaves a dead letter with that number, an
\* earlier one a step with attempts left.
LEMMA FailInv == ASSUME IInv, NEW t \in TaskIds, Fails(t) PROVE Exclusion'
<1> USE DEF IInv, Base, Exclusion
<1> DEFINE s == t[1]
<1>1. s \in Steps /\ t[2] \in Lanes /\ t = <<s, t[2]>>
  BY DEF TaskIds
<1>2. /\ task[t].attempt = step[s].attempt
      /\ step[s].attempt <= MaxAttempts[s]
      /\ MaxAttempts[s] \in Nat
      /\ step[s].attempt \in Nat
  BY <1>1, AttemptsAssumption DEF Fails, WorkingRow, Attempts, TypeOK, Row
<1>3. Outcome(t)
  BY FailRows
<1>4. (ExclusiveExecution /\ WorkingRow)'
  BY <1>3, OutcomeInv
<1>5. \A y \in Steps : y # s => step'[y] = step[y]
  BY <1>3 DEF Outcome
<1>6. step' = step \/ step'[s].attempt = step[s].attempt
  BY <1>3 DEF Outcome
<1>7. CASE Exhausted(t)
  <2> PICK n : n = Len(dlq) + 1
    OBVIOUS
  <2>1. /\ step' = step \/ step'[s].status = "failed"
        /\ DOMAIN dlq' = DOMAIN dlq \cup {n}
        /\ n \notin DOMAIN dlq
        /\ dlq'[n] = [step |-> s, count |-> task[t].attempt, open |-> TRUE]
        /\ \A j \in DOMAIN dlq : dlq'[j] = dlq[j]
        /\ UNCHANGED replay
    BY <1>7, FailRows DEF Fails
  <2>2. task[t].attempt = MaxAttempts[s]
    BY <1>2, <1>7 DEF Exhausted
  <2>3. Attempts'
    BY <1>1, <1>5, <1>6, <2>1 DEF Attempts
  <2>4. Accounted'
    <3> SUFFICES ASSUME NEW y \in Steps, step'[y].status = "failed"
                 PROVE  \E j \in DOMAIN dlq' : Evidence(y, j)'
      BY DEF Accounted
    <3>1. CASE step[y].status = "failed"
      <4>1. PICK j \in DOMAIN dlq : Evidence(y, j)
        BY <3>1 DEF Accounted
      <4>2. j \in DOMAIN dlq' /\ Evidence(y, j)'
        BY <2>1, <4>1 DEF Evidence
      <4> QED
        BY <4>2
    <3>2. CASE step[y].status # "failed"
      <4>1. y = s
        BY <1>5, <3>2
      <4>2. Evidence(y, n)'
        BY <2>1, <2>2, <4>1 DEF Evidence, Loaded
      <4> QED
        BY <2>1, <4>2
    <3> QED
      BY <3>1, <3>2
  <2>5. ReplayRow'
    <3> SUFFICES ASSUME NEW q \in Replayers, replay[q].pc = "loaded"
                 PROVE  /\ dlq'[replay[q].row].open
                        /\ replay[q].failed => Unclaimed(dlq[replay[q].row].step)'
      BY <2>1 DEF ReplayRow
    <3>1. replay[q].row \in DOMAIN dlq /\ dlq[replay[q].row].step \in Steps
      BY LoadedStep
    <3>2. dlq'[replay[q].row] = dlq[replay[q].row]
      BY <2>1, <3>1
    <3> QED
      BY <1>3, <2>1, <3>1, <3>2, OutcomeInv DEF ReplayRow
  <2> QED
    BY <1>4, <2>3, <2>4, <2>5
<1>8. CASE ~Exhausted(t)
  <2>1. (step' = step \/ step'[s].status = "retrying") /\ UNCHANGED <<dlq, replay>>
    BY <1>8, FailRows DEF Fails
  <2>2. step[s].attempt < MaxAttempts[s]
    BY <1>2, <1>8 DEF Exhausted
  <2>3. Attempts'
    BY <1>1, <1>5, <1>6, <2>1, <2>2 DEF Attempts
  <2>4. \A y \in Steps : step'[y].status = "failed" => step[y].status = "failed"
    BY <1>5, <2>1
  <2>5. (Accounted /\ ReplayRow)'
    BY <1>3, <2>1, <2>4, OutcomeInv, TablesKept
  <2> QED
    BY <1>4, <2>3, <2>5
<1> QED
  BY <1>7, <1>8

\* Every action of a task.
LEMMA ExecuteInv == ASSUME IInv, NEW t \in TaskIds, Execute(t) PROVE Exclusion'
<1> USE DEF IInv, Base, Exclusion
<1>1. CASE Stores(t)
  <2>1. t[1] \in Steps
    BY DEF TaskIds
  <2>2. Outcome(t)
    BY <1>1, StoreRows
  <2>3. /\ \A y \in Steps : y # t[1] => step'[y] = step[y]
        /\ step' = step \/ step'[t[1]].attempt = step[t[1]].attempt
        /\ step' = step \/ step'[t[1]].status \in {"completed", "paused"}
    BY <1>1, <2>2, StoreRows DEF Outcome
  <2>4. Attempts'
    BY <2>1, <2>3 DEF Attempts
  <2>5. (Accounted /\ ReplayRow)'
    BY <1>1, <2>2, <2>3, OutcomeInv, TablesKept DEF Stores
  <2> QED
    BY <2>2, <2>4, <2>5, OutcomeInv
<1>2. CASE Quiet(t)
  <2>1. (ExclusiveExecution /\ WorkingRow /\ Attempts)'
    <3>1. UNCHANGED step
      BY <1>2 DEF Quiet
    <3>2. ExclusiveExecution'
      BY <1>2, QuietTasks DEF ExclusiveExecution
    <3>3. WorkingRow'
      BY <1>2, <3>1, QuietTasks DEF WorkingRow
    <3>4. Attempts'
      BY <3>1 DEF Attempts
    <3> QED
      BY <3>2, <3>3, <3>4
  <2>2. \A s \in Steps : Unclaimed(s) => Unclaimed(s)'
    BY <1>2, QuietTasks DEF Quiet, Unclaimed
  <2>3. (Accounted /\ ReplayRow)'
    BY <1>2, <2>2, TablesKept DEF Quiet
  <2> QED
    BY <2>1, <2>3
<1>3. CASE EnqueueCommit(t)
  <2>1. (ExclusiveExecution /\ WorkingRow /\ Attempts)'
    BY <1>3, EnqueuedRows DEF ExclusiveExecution, WorkingRow, Attempts
  <2>2. \A s \in Steps : Unclaimed(s) => Unclaimed(s)'
    BY <1>3, EnqueuedRows DEF Unclaimed
  <2>3. \A s \in Steps : step'[s].status = "failed" => step[s].status = "failed"
    BY <1>3, EnqueuedRows
  <2>4. (Accounted /\ ReplayRow)'
    BY <1>3, <2>2, <2>3, TablesKept DEF EnqueueCommit
  <2> QED
    BY <2>1, <2>4
<1> QED
  BY <1>1, <1>2, <1>3, ExecuteKinds, FailInv

\* A swallowed error frees the step's task and leaves its row.
LEMMA SwallowInv == ASSUME IInv, NEW t \in TaskIds, Swallow(t) PROVE Exclusion'
<1> USE DEF IInv, Base, Exclusion
<1>1. \A s \in Steps, k \in Lanes : Working(<<s, k>>)' =>
          Working(<<s, k>>) /\ task'[<<s, k>>] = task[<<s, k>>]
  BY SwallowedTask
<1>2. UNCHANGED <<step, dlq, replay>>
  BY DEF Swallow
<1>3. (ExclusiveExecution /\ WorkingRow /\ Attempts)'
  BY <1>1, <1>2 DEF ExclusiveExecution, WorkingRow, Attempts
<1>4. \A s \in Steps : Unclaimed(s) => Unclaimed(s)'
  BY <1>1, <1>2 DEF Unclaimed
<1>5. (Accounted /\ ReplayRow)'
  BY <1>2, <1>4, TablesKept
<1> QED
  BY <1>3, <1>5

\* A crash.
LEMMA CrashInv == ASSUME IInv, Crash PROVE Exclusion'
<1> USE DEF IInv, Base, Exclusion
<1>1. \A s \in Steps, k \in Lanes : ~Working(<<s, k>>)'
  BY DEF Crash, Working, NoTask, TaskIds
<1>2. (ExclusiveExecution /\ WorkingRow /\ Attempts)'
  BY <1>1 DEF Crash, ExclusiveExecution, WorkingRow, Attempts
<1>3. (Accounted /\ ReplayRow)'
  BY DEF Crash, Accounted, Evidence, ReplayRow, NoReplay
<1> QED
  BY <1>2, <1>3

\* Every step of the specification preserves the invariant.
LEMMA NextInv == ASSUME IInv, Apart, [Next]_vars PROVE IInv'
<1>1. Base'
  BY NextBase DEF IInv
<1>2. Exclusion'
  <2>1. CASE UNCHANGED vars \/ Promote
    BY <2>1, RowsUntouched DEF vars, Promote
  <2> QED
    BY <2>1, CreateInv, RequestInv, ReplayInv, RetryElapsesInv, ClaimInv, ExecuteInv, SwallowInv,
       CrashInv DEF Next
<1> QED
  BY <1>1, <1>2 DEF IInv

-----------------------------------------------------------------------------
(* The theorems that need replays of a step one at a time *)

\* The inductive invariant holds in every reachable state.
THEOREM Invariance == Spec /\ []Apart => []IInv
BY InitInv, NextInv, PTL DEF Spec

\* One request at a time is enough.
LEMMA ApartAlone == (\A r, q \in Replayers : r = q) => (Spec => []Apart)
<1> SUFFICES ASSUME \A r, q \in Replayers : r = q PROVE Spec => []Apart
  OBVIOUS
<1>1. Apart
  BY DEF Apart
<1> QED
  BY <1>1, PTL

\* worker.py's promise that steps are not executed twice at once holds for every
\* graph, limit, number of workers' tasks, of requests and of replays, and across
\* crashes, as long as no two replays of one step overlap.
THEOREM Exclusive == Spec /\ []Apart => []ExclusiveExecution
<1>1. IInv => ExclusiveExecution
  BY DEF IInv, Exclusion
<1> QED
  BY <1>1, Invariance, PTL

\* max_attempts bounds the attempts of every step between two replays of it.
THEOREM Budget == Spec /\ []Apart => []RetryBudget
<1>1. IInv => RetryBudget
  BY DEF IInv, Exclusion, Attempts, RetryBudget
<1> QED
  BY <1>1, Invariance, PTL

\* Every failed step has an unresolved dead letter with its last attempt.
THEOREM NothingForgotten == Spec /\ []Apart => []DeadLettered
<1>1. IInv => DeadLettered
  BY DEF IInv, Exclusion, Accounted, Evidence, DeadLettered
<1> QED
  BY <1>1, Invariance, PTL

\* A completed step is never made claimable or run again: no task works on it,
\* and no replay in progress holds it as failed.
LEMMA CompletedStep ==
  ASSUME IInv, [Next]_vars, NEW s \in Steps, step[s].status = "completed"
  PROVE  step'[s].status \notin {"pending", "retrying", "running"}
<1> USE DEF IInv, Base, Exclusion
<1>1. \A k \in Lanes : ~Working(<<s, k>>)
  BY DEF WorkingRow
<1>2. CASE UNCHANGED vars
  BY <1>2 DEF vars
<1>3. CASE Create
  BY <1>3 DEF Create, CreateRow, CreateSteps, Fresh
<1>4. ASSUME NEW h \in Handlers, Request(h)
      PROVE  step'[s].status \notin {"pending", "retrying", "running"}
  <2>1. CASE ApiCommit(h)
    <3>1. api[h].op \in {"start", "cancel", "resume"} /\ step[s] \in Row
      BY DEF TypeOK, ApiState
    <3> QED
      BY <2>1, <3>1, RewrittenRow DEF ApiCommit
  <2> QED
    BY <1>4, <2>1 DEF Request, ApiLoad, ApiSelect
<1>5. ASSUME NEW r \in Replayers, Replay(r)
      PROVE  step'[s].status \notin {"pending", "retrying", "running"}
  <2>1. CASE ReplayCommit(r)
    <3>1. replay[r].failed => dlq[replay[r].row].step # s
      BY <2>1 DEF ReplayCommit, ReplayRow, Unclaimed
    <3> QED
      BY <2>1, <3>1 DEF ReplayCommit, TypeOK
  <2> QED
    BY <1>5, <2>1 DEF Replay, ReplayLoad
<1>6. ASSUME NEW x \in Steps, RetryElapses(x)
      PROVE  step'[s].status \notin {"pending", "retrying", "running"}
  BY <1>6 DEF RetryElapses, TypeOK
<1>7. ASSUME NEW S \in SUBSET Steps, Claim(S)
      PROVE  step'[s].status \notin {"pending", "retrying", "running"}
  BY <1>7 DEF Claim, Ready
<1>8. ASSUME NEW t \in TaskIds, Execute(t)
      PROVE  step'[s].status \notin {"pending", "retrying", "running"}
  <2>1. Working(t) => t[1] # s
    BY <1>1 DEF TaskIds
  <2>2. CASE Working(t) /\ step' # step
    <3>1. PICK row : step' = Stored(t[1], row)
      BY <1>8, <2>2 DEF Execute, Enter, Proceed, Begin, FailAndReturn, AgentFails, MarkFailed,
         AwaitApproval, AgentSucceeds, MarkCompleted, EnqueueRead, EnqueueCommit, FinalizeRead,
         FinalizeCommit, Working
    <3> QED
      BY <2>1, <2>2, <3>1 DEF Stored, TypeOK
  <2>3. CASE ~Working(t) /\ step' # step
    <3>1. EnqueueCommit(t)
      BY <1>8, <2>3 DEF Execute, Enter, Proceed, Begin, FailAndReturn, AgentFails, AwaitApproval,
         AgentSucceeds, EnqueueRead, FinalizeRead, FinalizeCommit, Working
    <3> QED
      BY <3>1 DEF EnqueueCommit, TypeOK, Row
  <2> QED
    BY <2>2, <2>3
<1>9. CASE Promote \/ Crash \/ \E t \in TaskIds : Swallow(t)
  BY <1>9 DEF Promote, Crash, Swallow
<1> QED
  BY <1>2, <1>3, <1>4, <1>5, <1>6, <1>7, <1>8, <1>9 DEF Next

\* Completed work is never repeated, whatever start, cancel and late enqueues
\* write over its status, as long as no two replays of one step overlap.
THEOREM NeverRerun == Spec /\ []Apart => CompletedNeverRerun
<1>1. IInv /\ [Next]_vars =>
          [\A s \in Steps : step[s].status = "completed" =>
               step'[s].status \notin {"pending", "retrying", "running"}]_vars
  BY CompletedStep
<1> QED
  BY <1>1, Invariance, PTL DEF Spec, CompletedNeverRerun

-----------------------------------------------------------------------------
(* As deployed: a step detached from the executor's session *)

\* As deployed no outcome reaches a row, so no step is ever seen failed,
\* retrying or completed, and no replay puts one back.
Once ==
    /\ \A s \in Steps :
           /\ step[s].status \in {"absent", "pending", "queued", "running", "cancelled"}
           /\ step[s].status = "pending" => step[s].attempt = 0
           /\ step[s].attempt <= 1
    /\ \A r \in Replayers : ~replay[r].failed

\* As deployed every step of the specification keeps the rows so.
LEMMA OnceStep == ASSUME Detached, Base, Once, [Next]_vars PROVE Once'
<1> USE DEF Base
<1>1. CASE UNCHANGED vars
  BY <1>1 DEF vars, Once
<1>2. CASE Create
  BY <1>2 DEF Create, CreateRow, CreateSteps, Once
<1>3. ASSUME NEW h \in Handlers, Request(h) PROVE Once'
  <2>1. CASE ApiCommit(h)
    <3>1. api[h].op \in {"start", "cancel", "resume"}
      BY DEF TypeOK, ApiState
    <3>2. \A s \in Steps : \/ step'[s] = step[s]
                           \/ /\ step'[s].attempt = step[s].attempt
                              /\ step'[s].status \in {"queued", "cancelled"}
      BY <2>1, <3>1, RewrittenRow DEF ApiCommit, TypeOK
    <3> QED
      BY <2>1, <3>2 DEF ApiCommit, Once
  <2> QED
    BY <1>3, <2>1 DEF Request, ApiLoad, ApiSelect, Once
<1>4. CASE Promote
  BY <1>4 DEF Promote, Once
\* No dead letter is of a failed step.
<1>5. ASSUME NEW r \in Replayers, Replay(r) PROVE Once'
  <2>1. ASSUME NEW i \in DOMAIN dlq, ReplayLoad(r, i) PROVE Once'
    <3>1. ~Replayable(dlq[i].step)
      BY DlqRow DEF DeadLetter, Replayable, Once
    <3>2. step' = step /\ \A q \in Replayers : ~replay'[q].failed
      BY <2>1, <3>1 DEF ReplayLoad, TypeOK, Once
    <3> QED
      BY <3>2 DEF Once
  <2>2. CASE ReplayCommit(r)
    <3>1. step' = step /\ \A q \in Replayers : ~replay'[q].failed
      BY <2>2 DEF ReplayCommit, NoReplay, TypeOK, Once
    <3> QED
      BY <3>1 DEF Once
  <2> QED
    BY <1>5, <2>1, <2>2 DEF Replay
<1>6. ASSUME NEW s \in Steps, RetryElapses(s) PROVE Once'
  BY <1>6 DEF RetryElapses, Once
\* A step that may be claimed has not been attempted.
<1>7. ASSUME NEW S \in SUBSET Steps, Claim(S) PROVE Once'
  <2>0. UNCHANGED replay
    BY <1>7 DEF Claim
  <2>1. \A s \in Steps : step'[s] = step[s] \/ (step'[s].status = "running" /\ step'[s].attempt = 1)
    <3>1. PICK lane : ClaimedIn(S, lane)
      BY <1>7, ClaimRows
    <3>2. \A s \in S : step[s].attempt = 0
      BY <3>1 DEF ClaimedIn, Once
    <3> QED
      BY <3>1, <3>2 DEF ClaimedIn
  <2> QED
    BY <2>0, <2>1 DEF Once
\* No outcome reaches a row.
<1>8. ASSUME NEW t \in TaskIds, Execute(t) PROVE Once'
  <2>1. CASE EnqueueCommit(t)
    BY <2>1, EnqueuedRows DEF EnqueueCommit, Once
  <2>2. CASE UNCHANGED <<step, replay>>
    BY <2>2 DEF Once
  <2> QED
    BY <1>8, <2>1, <2>2, ExecuteKinds DEF Fails, MarkFailed, Stores, Stored, Quiet
<1>9. CASE Crash \/ \E t \in TaskIds : Swallow(t)
  BY <1>9 DEF Crash, Swallow, Once, NoReplay
<1> QED
  BY <1>1, <1>2, <1>3, <1>4, <1>5, <1>6, <1>7, <1>8, <1>9 DEF Next

\* As deployed no step is attempted twice, whoever starts, cancels, resumes and
\* replays, and however often the server dies.
THEOREM OnceDeployed == Spec => []AtMostOnce
<1>1. CASE Detached
  <2>1. Init => Once
    BY DEF Init, Once, NoReplay
  <2>2. Base /\ Once /\ [Next]_vars => Once'
    BY <1>1, OnceStep
  <2>3. Once => AtMostOnce
    BY DEF Once, AtMostOnce
  <2> QED
    BY <2>1, <2>2, <2>3, BaseInvariance, PTL DEF Spec
<1>2. CASE ~Detached
  <2>1. AtMostOnce
    BY <1>2 DEF AtMostOnce
  <2> QED
    BY <2>1, PTL
<1> QED
  BY <1>1, <1>2

-----------------------------------------------------------------------------
(* Fan-in *)

\* The wake-up of d is on its way.
Waking(d) ==
    \E t \in TaskIds :
        /\ t[1] \in Upstream(d)
        /\ \/ task[t].pc = "enqueue"
           \/ task[t].pc = "enqueueing" /\ d \in task[t].todo

\* All upstream steps of d have completed in full view, and it waits for the
\* first time.
Ripe(d) ==
    /\ Upstream(d) # {}
    /\ \A u \in Upstream(d) : step[u].status = "completed" /\ u \notin lost \cup blind
    /\ step[d].status = "pending"
    /\ \A i \in DOMAIN dlq : dlq[i].step # d

\* Every ripe step is being woken.
LEMMA WakeupDef == NoLostWakeup <=> \A d \in Steps : Ripe(d) => Waking(d)
BY DEF NoLostWakeup, Ripe, Waking

\* A step that completes no row, makes none pending but a replayed one, forgets
\* neither a dead letter nor a cut of a completed step, and ends no wake-up but by
\* a cut.
LEMMA WakeupKept ==
  ASSUME NoLostWakeup,
         \A i \in DOMAIN dlq : i \in DOMAIN dlq' /\ dlq'[i].step = dlq[i].step,
         \A s \in Steps : s \in lost \cup blind => s \in lost' \cup blind' \/ step'[s].status # "completed",
         \A s \in Steps : step'[s].status \in {"completed", "pending"} =>
             \/ step'[s].status = step[s].status
             \/ step'[s].status = "pending" /\ \E i \in DOMAIN dlq' : dlq'[i].step = s,
         \A t \in TaskIds : task[t].pc \in {"enqueue", "enqueueing"} =>
             t[1] \in lost' \/ (task'[t].pc = task[t].pc /\ task'[t].todo = task[t].todo)
  PROVE  NoLostWakeup'
<1>1. ASSUME NEW d \in Steps, Ripe(d)' PROVE Waking(d)'
  <2>1. Upstream(d) \subseteq Steps
    BY DEF Upstream
  <2>2. Ripe(d)
    <3>1. step[d].status = "pending" /\ \A i \in DOMAIN dlq : dlq[i].step # d
      BY <1>1 DEF Ripe
    <3>2. \A u \in Upstream(d) : step[u].status = "completed" /\ u \notin lost \cup blind
      BY <1>1, <2>1 DEF Ripe
    <3> QED
      BY <1>1, <3>1, <3>2 DEF Ripe
  <2>3. PICK t \in TaskIds : /\ t[1] \in Upstream(d)
                             /\ \/ task[t].pc = "enqueue"
                                \/ task[t].pc = "enqueueing" /\ d \in task[t].todo
    BY <2>2, WakeupDef DEF Waking
  <2>4. t[1] \notin lost'
    BY <1>1, <2>3 DEF Ripe
  <2> QED
    BY <2>3, <2>4 DEF Waking
<1>2. (\A d \in Steps : Ripe(d) => Waking(d))'
  BY <1>1
<1> QED
  BY <1>2, WakeupDef, PTL

\* The same for a step that leaves the dead letters and the histories alone.
LEMMA WakeupQuiet ==
  ASSUME NoLostWakeup, UNCHANGED <<dlq, lost, blind>>,
         \A s \in Steps : step'[s].status \in {"completed", "pending"} => step'[s].status = step[s].status,
         \A t \in TaskIds : task[t].pc \in {"enqueue", "enqueueing"} =>
             task'[t].pc = task[t].pc /\ task'[t].todo = task[t].todo
  PROVE  NoLostWakeup'
BY WakeupKept

\* A task's actions.
LEMMA WakeupExecute ==
  ASSUME Base, NoLostWakeup, NEW t \in TaskIds, Execute(t) PROVE NoLostWakeup'
<1> USE DEF Base
<1>0. t[1] \in Steps /\ task \in [TaskIds -> TaskState] /\ step \in [Steps -> Row]
  BY DEF TypeOK, TaskIds
<1>1. CASE Begin(t) \/ FinalizeRead(t) \/ FinalizeCommit(t)
  <2>1. UNCHANGED <<step, dlq, lost, blind>>
    BY <1>1 DEF Begin, FinalizeRead, FinalizeCommit
  <2>2. task[t].pc \in {"claimed", "finalize", "finalizing"} /\ \A u \in TaskIds : u # t => task'[u] = task[u]
    BY <1>0, <1>1 DEF Begin, FinalizeRead, FinalizeCommit
  <2> QED
    BY <2>1, <2>2, WakeupQuiet
<1>2. CASE AwaitApproval(t)
  <2>1. \A s \in Steps : step'[s] = step[s] \/ step'[s].status = "paused"
    BY <1>0, <1>2 DEF AwaitApproval, Stored, Row
  <2>2. task[t].pc = "agent" /\ \A u \in TaskIds : u # t => task'[u] = task[u]
    BY <1>0, <1>2 DEF AwaitApproval
  <2> QED
    BY <1>2, <2>1, <2>2, WakeupQuiet DEF AwaitApproval
\* A failure adds a dead letter at most.
<1>3. CASE FailAndReturn(t) \/ AgentFails(t)
  <2>1. Fails(t)
    <3>2. Working(t) /\ MarkFailed(t) /\ UNCHANGED <<creator, proc, api, replay, lost, blind>>
      BY <1>3 DEF FailAndReturn, AgentFails, Working
    <3>3. CASE FailAndReturn(t)
      BY <3>2, <3>3, NoMemory DEF FailAndReturn, NoTask, Fails, Ends
    <3>4. CASE AgentFails(t)
      <4> DEFINE x == [task[t] EXCEPT !.pc = "finalize"]
      <4>1. x \in TaskState /\ x.pc = "finalize"
        BY <1>0 DEF TaskState
      <4>2. task' = [task EXCEPT ![t] = x]
        BY <3>4 DEF AgentFails, TypeOK
      <4> HIDE DEF x
      <4> QED
        BY <3>2, <4>1, <4>2 DEF Fails, Ends
    <3> QED
      BY <1>3, <3>3, <3>4
  <2>2. /\ Outcome(t)
        /\ \A i \in DOMAIN dlq : i \in DOMAIN dlq' /\ dlq'[i].step = dlq[i].step
        /\ step'[t[1]] = step[t[1]] \/ step'[t[1]].status \in {"failed", "retrying"}
    BY <2>1, FailRows DEF TypeOK
  <2>3. \A s \in Steps : step'[s].status \in {"completed", "pending"} => step'[s].status = step[s].status
    BY <2>2 DEF Outcome
  <2>4. \A u \in TaskIds : task[u].pc \in {"enqueue", "enqueueing"} => task'[u] = task[u]
    BY <2>2 DEF Outcome
  <2>5. lost' = lost /\ blind' = blind
    BY <2>1 DEF Fails
  <2> QED
    BY <2>2, <2>3, <2>4, <2>5, WakeupKept
\* The step that completes wakes whatever it makes ripe.
<1>4. CASE AgentSucceeds(t)
  <2>1. \A s \in Steps : s # t[1] => step'[s] = step[s]
    BY <1>0, <1>4 DEF AgentSucceeds, MarkCompleted, Stored
  <2>2. step' = step \/ step'[t[1]].status = "completed"
    BY <1>0, <1>4 DEF AgentSucceeds, MarkCompleted, Stored, Row
  <2>3. task'[t].pc = "enqueue" /\ \A u \in TaskIds : u # t => task'[u] = task[u]
    BY <1>0, <1>4 DEF AgentSucceeds
  <2>4. task[t].pc = "agent" /\ UNCHANGED <<dlq, lost, blind>>
    BY <1>4 DEF AgentSucceeds
  <2>5. ASSUME NEW d \in Steps, Ripe(d)' PROVE Waking(d)'
    <3>1. CASE t[1] \in Upstream(d)
      BY <2>3, <3>1 DEF Waking
    <3>2. CASE t[1] \notin Upstream(d)
      <4>1. Upstream(d) \subseteq Steps
        BY DEF Upstream
      <4>2. Ripe(d)
        BY <2>1, <2>2, <2>4, <2>5, <3>2, <4>1 DEF Ripe
      <4>3. Waking(d)
        BY <4>2, WakeupDef
      <4> QED
        BY <2>3, <2>4, <4>3 DEF Waking
    <3> QED
      BY <3>1, <3>2
  <2>6. (\A d \in Steps : Ripe(d) => Waking(d))'
    BY <2>5
  <2> QED
    BY <2>6, WakeupDef, PTL
\* What it reads as ripe it will enqueue, unless it has kept an outdated row ...
<1>5. CASE EnqueueRead(t)
  <2>1. task'[t].pc = "enqueueing" /\ task'[t].todo = Startable(t)
    BY <1>0, <1>5 DEF EnqueueRead, TaskState
  <2>2. \A u \in TaskIds : u # t => task'[u] = task[u]
    BY <1>0, <1>5 DEF EnqueueRead
  <2>3. UNCHANGED <<step, dlq, lost>> /\ task[t].pc = "enqueue" /\ blind \subseteq blind'
    BY <1>5 DEF EnqueueRead
  <2>4. t[1] \notin blind' => \A u \in DOMAIN task[t].kept : task[t].kept[u] = step[u].status
    BY <1>5 DEF EnqueueRead
  <2>5. ASSUME NEW d \in Steps, Ripe(d)' PROVE Waking(d)'
    <3>1. Ripe(d) /\ Waking(d)
      BY <2>3, <2>5, WakeupDef DEF Ripe
    <3>2. CASE t[1] \in Upstream(d)
      <4>1. \A u \in Upstream(d) : SeenStatus(t, u) = "completed"
        BY <2>4, <2>5, <3>1, <3>2 DEF Ripe, SeenStatus
      <4>2. d \in Startable(t)
        BY <3>1, <3>2, <4>1 DEF Ripe, Startable, Downstream, Upstream
      <4> QED
        BY <2>1, <3>2, <4>2 DEF Waking
    <3>3. CASE t[1] \notin Upstream(d)
      BY <2>2, <3>1, <3>3 DEF Waking
    <3> QED
      BY <3>2, <3>3
  <2>6. (\A d \in Steps : Ripe(d) => Waking(d))'
    BY <2>5
  <2> QED
    BY <2>6, WakeupDef, PTL
\* ... and what it enqueues is ripe no longer.
<1>6. CASE EnqueueCommit(t)
  <2>1. \A s \in Steps : IF s \in task[t].todo THEN step'[s].status = "queued" ELSE step'[s] = step[s]
    BY <1>0, <1>6 DEF EnqueueCommit, Row
  <2>2. task[t].pc = "enqueueing" /\ \A u \in TaskIds : u # t => task'[u] = task[u]
    BY <1>0, <1>6 DEF EnqueueCommit
  <2>3. UNCHANGED <<dlq, lost, blind>>
    BY <1>6 DEF EnqueueCommit
  <2>4. ASSUME NEW d \in Steps, Ripe(d)' PROVE Waking(d)'
    <3>1. Upstream(d) \subseteq Steps
      BY DEF Upstream
    <3>2. Ripe(d) /\ d \notin task[t].todo
      BY <2>1, <2>3, <2>4, <3>1 DEF Ripe
    <3>3. Waking(d)
      BY <3>2, WakeupDef
    <3> QED
      BY <2>2, <3>2, <3>3 DEF Waking
  <2>5. (\A d \in Steps : Ripe(d) => Waking(d))'
    BY <2>4
  <2> QED
    BY <2>5, WakeupDef, PTL
<1> QED
  BY <1>1, <1>2, <1>3, <1>4, <1>5, <1>6 DEF Execute, Enter, Proceed

\* Every step of the specification keeps the wake-ups.
LEMMA WakeupStep == ASSUME Base, NoLostWakeup, [Next]_vars PROVE NoLostWakeup'
<1> USE DEF Base
<1>1. CASE UNCHANGED vars
  BY <1>1, WakeupQuiet DEF vars
<1>2. CASE CreateSteps
  <2>1. \A d \in Steps : step'[d].status = "pending"
    BY <1>2 DEF CreateSteps
  <2>2. ASSUME NEW d \in Steps PROVE ~Ripe(d)'
    BY <2>1 DEF Ripe, Upstream
  <2>3. (\A d \in Steps : Ripe(d) => Waking(d))'
    BY <2>2
  <2> QED
    BY <2>3, WakeupDef, PTL
<1>3. CASE CreateRow \/ Promote
  BY <1>3, WakeupQuiet DEF CreateRow, Promote
<1>4. ASSUME NEW h \in Handlers, Request(h) PROVE NoLostWakeup'
  <2>1. CASE ApiCommit(h)
    <3>1. api[h].op \in {"start", "cancel", "resume"}
      BY DEF TypeOK, ApiState
    <3>2. \A s \in Steps : step'[s] = step[s] \/ step'[s].status \in {"queued", "cancelled"}
      BY <2>1, <3>1, RewrittenRow DEF ApiCommit, TypeOK
    <3> QED
      BY <2>1, <3>2, WakeupQuiet DEF ApiCommit
  <2> QED
    BY <1>4, <2>1, WakeupQuiet DEF Request, ApiLoad, ApiSelect
\* A replayed step has its dead letter, open or not.
<1>5. ASSUME NEW r \in Replayers, Replay(r) PROVE NoLostWakeup'
  <2>1. CASE ReplayCommit(r)
    <3> DEFINE i == replay[r].row
               s == dlq[i].step
    <3>1. i \in DOMAIN dlq /\ s \in Steps
      BY <2>1, LoadedStep DEF ReplayCommit
    <3>2. /\ \A j \in DOMAIN dlq : j \in DOMAIN dlq' /\ dlq'[j].step = dlq[j].step
          /\ UNCHANGED <<task, lost, blind>>
      BY <2>1, <3>1, ResolvedRows DEF ReplayCommit
    <3>3. \A x \in Steps : step'[x] = step[x] \/ (x = s /\ step'[x].status = "pending")
      BY <2>1, <3>1 DEF ReplayCommit, TypeOK
    <3>4. \A x \in Steps : step'[x].status \in {"completed", "pending"} =>
              \/ step'[x].status = step[x].status
              \/ step'[x].status = "pending" /\ \E j \in DOMAIN dlq' : dlq'[j].step = x
      BY <3>1, <3>2, <3>3
    <3> QED
      BY <3>2, <3>4, WakeupKept
  <2> QED
    BY <1>5, <2>1, WakeupQuiet DEF Replay, ReplayLoad
<1>6. ASSUME NEW s \in Steps, RetryElapses(s) PROVE NoLostWakeup'
  BY <1>6, DueRow, WakeupQuiet DEF RetryElapses
\* A claimed step is not completed.
<1>7. ASSUME NEW S \in SUBSET Steps, Claim(S) PROVE NoLostWakeup'
  <2> DEFINE lane == [s \in S |-> CHOOSE k \in FreeLanes(s) : TRUE]
  <2>1. task' = [t \in TaskIds |->
                     IF t[1] \in S /\ t[2] = lane[t[1]]
                     THEN [NoTask EXCEPT !.pc = "claimed",
                                         !.attempt = ClaimedRow(step[t[1]]).attempt]
                     ELSE task[t]]
    BY <1>7 DEF Claim
  <2>2. \A s \in S : lane[s] \in FreeLanes(s)
    BY <1>7 DEF Claim
  <2> HIDE DEF lane
  <2>3. ASSUME NEW t \in TaskIds, t[1] \in S, t[2] = lane[t[1]] PROVE task[t].pc = "idle"
    <3>1. t = <<t[1], t[2]>>
      BY DEF TaskIds
    <3> QED
      BY <2>2, <2>3, <3>1 DEF FreeLanes
  <2>4. \A t \in TaskIds : task[t].pc \in {"enqueue", "enqueueing"} => task'[t] = task[t]
    BY <2>1, <2>3
  <2>5. \A s \in Steps : IF s \in S THEN step'[s].status = "running" ELSE step'[s] = step[s]
    BY <1>7 DEF Claim, ClaimedRow
  <2>6. dlq' = dlq /\ lost' = lost \ S /\ blind' = blind \ S
    BY <1>7 DEF Claim
  <2> QED
    BY <2>4, <2>5, <2>6, WakeupKept
\* What is cut short is on record.
<1>8. ASSUME NEW t \in TaskIds, Swallow(t) PROVE NoLostWakeup'
  <2>1. t[1] \in lost' /\ lost \subseteq lost' /\ UNCHANGED <<step, dlq, blind>>
    BY <1>8 DEF Swallow
  <2>2. \A u \in TaskIds : u # t => task'[u] = task[u]
    BY <1>8 DEF Swallow, TypeOK
  <2> QED
    BY <2>1, <2>2, WakeupKept
<1>9. CASE Crash
  <2>1. UNCHANGED <<step, dlq, blind>> /\ lost \subseteq lost'
    BY <1>9 DEF Crash
  <2>2. \A u \in TaskIds : task[u].pc \in {"enqueue", "enqueueing"} => u[1] \in lost'
    BY <1>9 DEF Crash
  <2> QED
    BY <2>1, <2>2, WakeupKept
<1> QED
  BY <1>1, <1>2, <1>3, <1>4, <1>5, <1>6, <1>7, <1>8, <1>9, WakeupExecute DEF Next, Create

\* executor.py: no wake-up is lost at a fan-in, whatever the graph, the number of
\* tasks, the requests and the replays around it, and whatever is cut short: a
\* ripe step is left waiting only when an upstream's task was cut short before it
\* looked, or looked at a row its session had kept from before.
THEOREM NothingLost == Spec => []NoLostWakeup
<1>1. Init => NoLostWakeup
  BY DEF Init, NoLostWakeup
<1>2. Base /\ NoLostWakeup /\ [Next]_vars => NoLostWakeup'
  BY WakeupStep
<1> QED
  BY <1>1, <1>2, BaseInvariance, PTL DEF Spec

=============================================================================
