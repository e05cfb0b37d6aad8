---------------------------- MODULE QueueProofs ----------------------------
(***************************************************************************)
(* Workflow implements WorkQueue: the initial states are initial states of *)
(* the queue, and each action is one of the queue's or changes nothing the *)
(* queue has.                                                              *)
(***************************************************************************)
EXTENDS WorkflowProofs, FiniteSetTheorems

Tries == [s \in Steps |-> step[s].attempt]

Owed == [s \in Steps |-> Cardinality(OpenLetters(s))]

\* A step of the queue, or none.
Simulated == Queue!Next \/ UNCHANGED <<Held, Tries, Owed>>

-----------------------------------------------------------------------------
(* The mapped state *)

\* A step is held by the task that works on it.
LEMMA HeldStep ==
  ASSUME TypeOK, NEW t \in TaskIds
  PROVE  /\ t[1] \in Steps
         /\ Working(t) => t[1] \in Held
BY DEF Held, TaskIds

\* Who is held depends on the tasks that work.
LEMMA SameHeld ==
  ASSUME \A s \in Steps, k \in Lanes : Working(<<s, k>>)' <=> Working(<<s, k>>)
  PROVE  Held' = Held
BY DEF Held

\* The tries depend on the attempts.
LEMMA SameTries ==
  ASSUME \A s \in Steps : step'[s].attempt = step[s].attempt
  PROVE  Tries' = Tries
BY DEF Tries

\* The debts depend on the table of dead letters.
LEMMA SameOwed == ASSUME dlq' = dlq PROVE Owed' = Owed
BY DEF Owed, OpenLetters

\* Debts are finite.
LEMMA LettersFinite ==
  ASSUME TypeOK, NEW s \in Steps
  PROVE  /\ IsFiniteSet(OpenLetters(s))
         /\ Cardinality(OpenLetters(s)) \in Nat
<1>1. OpenLetters(s) \subseteq 1 .. Len(dlq) /\ Len(dlq) \in Nat
  BY DlqRow, LenProperties DEF OpenLetters, TypeOK
<1>2. IsFiniteSet(1 .. Len(dlq))
  BY <1>1, FS_Interval
<1> QED
  BY <1>1, <1>2, FS_Subset, FS_CardinalityType

\* A new dead letter of s is one more debt of s.
LEMMA OwedMore ==
  ASSUME TypeOK, NEW s \in Steps, NEW d \in DeadLetter, d.step = s, d.open, dlq' = Append(dlq, d)
  PROVE  Owed' = [Owed EXCEPT ![s] = @ + 1]
<1> PICK n : n = Len(dlq) + 1
  OBVIOUS
<1>1. /\ DOMAIN dlq' = DOMAIN dlq \cup {n}
      /\ n \notin DOMAIN dlq
      /\ dlq'[n] = d
      /\ \A j \in DOMAIN dlq : dlq'[j] = dlq[j]
  BY AppendedRows
<1>2. OpenLetters(s)' = OpenLetters(s) \cup {n} /\ n \notin OpenLetters(s)
  BY <1>1 DEF OpenLetters
<1>3. \A x \in Steps : x # s => OpenLetters(x)' = OpenLetters(x)
  BY <1>1 DEF OpenLetters
<1>4. Cardinality(OpenLetters(s)') = Cardinality(OpenLetters(s)) + 1
  BY <1>2, LettersFinite, FS_AddElement
<1> QED
  BY <1>3, <1>4 DEF Owed

\* Resolving an open dead letter of s is one debt less.
LEMMA OwedLess ==
  ASSUME TypeOK, NEW i \in DOMAIN dlq, dlq[i].open, dlq' = Resolved(i)
  PROVE  /\ dlq[i].step \in Steps
         /\ Owed[dlq[i].step] > 0
         /\ Owed' = [Owed EXCEPT ![dlq[i].step] = @ - 1]
<1> PICK s : s = dlq[i].step
  OBVIOUS
<1>1. s \in Steps
  BY DlqRow DEF DeadLetter
<1>2. /\ DOMAIN dlq' = DOMAIN dlq
      /\ \A j \in DOMAIN dlq : dlq'[j].step = dlq[j].step /\ (j # i => dlq'[j] = dlq[j])
  BY ResolvedRows
<1>3. ~dlq'[i].open
  BY DlqRow DEF Resolved, DeadLetter
<1>4. OpenLetters(s)' = OpenLetters(s) \ {i} /\ i \in OpenLetters(s)
  <2>1. i \in OpenLetters(s) /\ i \notin OpenLetters(s)'
    BY <1>3 DEF OpenLetters
  <2>2. ASSUME NEW j, j # i PROVE j \in OpenLetters(s)' <=> j \in OpenLetters(s)
    BY <1>2, <2>2 DEF OpenLetters
  <2> QED
    BY <2>1, <2>2
<1>5. \A x \in Steps : x # s => OpenLetters(x)' = OpenLetters(x)
  <2> SUFFICES ASSUME NEW x \in Steps, x # s PROVE OpenLetters(x)' = OpenLetters(x)
    OBVIOUS
  <2>1. \A j \in DOMAIN dlq : dlq'[j].step = x /\ dlq'[j].open <=> dlq[j].step = x /\ dlq[j].open
    BY <1>2
  <2> QED
    BY <1>2, <2>1 DEF OpenLetters
<1>6. Cardinality(OpenLetters(s)') = Cardinality(OpenLetters(s)) - 1
  <2>1. IsFiniteSet(OpenLetters(s))
    BY <1>1, LettersFinite
  <2>2. Cardinality(OpenLetters(s) \ {i}) = Cardinality(OpenLetters(s)) - 1
    BY <1>4, <2>1, FS_RemoveElement, Zenon
  <2> QED
    BY <1>4, <2>2
<1>7. Cardinality(OpenLetters(s)) # 0
  BY <1>1, <1>4, LettersFinite, FS_EmptySet
<1>8. Owed[s] = Cardinality(OpenLetters(s)) /\ Cardinality(OpenLetters(s)) \in Nat
  BY <1>1, LettersFinite DEF Owed
<1>9. Owed[s] > 0
  BY <1>7, <1>8
<1>10. Owed' = [Owed EXCEPT ![s] = @ - 1]
  BY <1>1, <1>5, <1>6 DEF Owed
<1> QED
  BY <1>1, <1>9, <1>10

-----------------------------------------------------------------------------
(* The simulation *)

\* The initial states are the queue's.
LEMMA QueueInit == Init => Queue!Init
<1> SUFFICES ASSUME Init PROVE Queue!Init
  OBVIOUS
<1>1. Held = {}
  BY DEF Init, Held, Working, TaskIds, NoTask
<1>2. \A s \in Steps : OpenLetters(s) = {}
  BY DEF Init, OpenLetters
<1>3. Cardinality({}) = 0
  BY FS_EmptySet
<1> QED
  BY <1>1, <1>2, <1>3 DEF Init, Queue!Init

\* A claim takes steps nobody holds and that have tries left.
LEMMA ClaimTakes == ASSUME IInv, NEW S \in SUBSET Steps, Claim(S) PROVE Queue!Take(S)
<1> USE DEF IInv, Base, Exclusion
<1> DEFINE lane == [s \in S |-> CHOOSE k \in FreeLanes(s) : TRUE]
<1>1. \A s \in S : /\ step[s].status \in {"pending", "retrying"}
                   /\ lane[s] \in Lanes
                   /\ \A k \in Lanes : ~Working(<<s, k>>)
  BY DEF Claim, Ready, FreeLanes, WorkingRow
<1>2. step' = [s \in Steps |-> IF s \in S THEN ClaimedRow(step[s]) ELSE step[s]]
  BY DEF Claim
<1>3. task' = [t \in TaskIds |->
                   IF t[1] \in S /\ t[2] = lane[t[1]]
                   THEN [NoTask EXCEPT !.pc = "claimed",
                                       !.attempt = ClaimedRow(step[t[1]]).attempt]
                   ELSE task[t]]
  BY DEF Claim
<1> HIDE DEF lane
<1>4. \A s \in Steps, k \in Lanes :
          Working(<<s, k>>)' <=> IF s \in S THEN k = lane[s] ELSE Working(<<s, k>>)
  BY <1>1, <1>3 DEF TaskIds, Working, NoTask
<1>5. Held' = Held \cup S
  BY <1>1, <1>4 DEF Held
<1>6. S \subseteq Steps \ Held
  BY <1>1 DEF Held
<1>7. \A s \in S : step[s].attempt < MaxAttempts[s]
  BY <1>1, AttemptsAssumption DEF Attempts
<1>8. Tries' = [s \in Steps |-> IF s \in S THEN Tries[s] + 1 ELSE Tries[s]]
  BY <1>2 DEF Tries, ClaimedRow
<1>9. Owed' = Owed
  BY SameOwed DEF Claim
<1> QED
  BY <1>5, <1>6, <1>7, <1>8, <1>9 DEF Queue!Take, Tries, Owed

\* replay_dlq's commit gives up one debt, and starts a step anew only if nobody
\* holds it.
LEMMA ReplayReplays ==
  ASSUME IInv, NEW r \in Replayers, Replay(r)
  PROVE  Simulated
<1> USE DEF IInv, Base, Exclusion
<1>1. ASSUME NEW i \in DOMAIN dlq, ReplayLoad(r, i) PROVE Simulated
  <2>1. Held' = Held
    BY <1>1, SameHeld DEF ReplayLoad, Working
  <2>2. UNCHANGED <<Tries, Owed>>
    BY <1>1, SameOwed DEF ReplayLoad, Tries
  <2> QED
    BY <2>1, <2>2 DEF Simulated
<1>2. CASE ReplayCommit(r)
  <2> PICK i : i = replay[r].row
    OBVIOUS
  <2> PICK s : s = dlq[i].step
    OBVIOUS
  <2>1. i \in DOMAIN dlq /\ dlq[i].open /\ (replay[r].failed => Unclaimed(s))
    BY <1>2, LoadedStep DEF ReplayCommit, ReplayRow
  <2>2. /\ s \in Steps
        /\ Owed[s] > 0
        /\ Owed' = [Owed EXCEPT ![s] = @ - 1]
    BY <1>2, <2>1, OwedLess DEF ReplayCommit
  <2>3. Held' = Held
    BY <1>2, SameHeld DEF ReplayCommit, Working
  <2>4. CASE replay[r].failed
    <3>1. s \notin Held
      BY <2>1, <2>4 DEF Unclaimed, Held
    <3>2. step' = [step EXCEPT ![s] = [status |-> "pending", attempt |-> 0, due |-> TRUE]]
      BY <1>2, <2>4 DEF ReplayCommit
    <3>3. Tries' = [Tries EXCEPT ![s] = 0]
      BY <2>2, <3>2 DEF Tries, TypeOK
    <3>4. Queue!Replay(s)
      BY <2>2, <2>3, <3>1, <3>3 DEF Queue!Replay, Tries, Owed
    <3> QED
      BY <2>2, <3>4 DEF Simulated, Queue!Next
  <2>5. CASE ~replay[r].failed
    <3>1. Tries' = Tries
      BY <1>2, <2>5 DEF ReplayCommit, Tries
    <3>2. Queue!Replay(s)
      BY <2>2, <2>3, <3>1 DEF Queue!Replay, Tries, Owed
    <3> QED
      BY <2>2, <3>2 DEF Simulated, Queue!Next
  <2> QED
    BY <2>4, <2>5
<1> QED
  BY <1>1, <1>2 DEF Replay

\* Handlers, the passing of time, creation and promotion leave the queue alone.
LEMMA Outside ==
  ASSUME IInv,
         Create \/ Promote \/ (\E h \in Handlers : Request(h)) \/ (\E s \in Steps : RetryElapses(s))
  PROVE  UNCHANGED <<Held, Tries, Owed>>
<1> USE DEF IInv, Base, Exclusion
<1>1. UNCHANGED <<task, dlq>>
  BY DEF Create, CreateRow, CreateSteps, Promote, Request, ApiLoad, ApiSelect, ApiCommit,
     RetryElapses
<1>2. Held' = Held /\ Owed' = Owed
  BY <1>1, SameHeld, SameOwed DEF Working
<1>3. \A s \in Steps : step'[s].attempt = step[s].attempt
  <2>1. CASE Create
    BY <2>1 DEF Create, CreateRow, CreateSteps, Fresh
  <2>2. CASE Promote
    BY <2>2 DEF Promote
  <2>3. ASSUME NEW h \in Handlers, Request(h)
        PROVE  \A s \in Steps : step'[s].attempt = step[s].attempt
    <3>1. CASE ApiCommit(h)
      <4>1. api[h].op \in {"start", "cancel", "resume"} /\ \A s \in Steps : step[s] \in Row
        BY DEF TypeOK, ApiState
      <4> QED
        BY <3>1, <4>1, RewrittenRow DEF ApiCommit
    <3> QED
      BY <2>3, <3>1 DEF Request, ApiLoad, ApiSelect
  <2>4. ASSUME NEW x \in Steps, RetryElapses(x)
        PROVE  \A s \in Steps : step'[s].attempt = step[s].attempt
    BY <2>4 DEF RetryElapses, TypeOK, Row
  <2> QED
    BY <2>1, <2>2, <2>3, <2>4
<1> QED
  BY <1>2, <1>3, SameTries

\* A task that ends its work lets its step go: no other task holds it.
LEMMA LetGo ==
  ASSUME IInv, NEW t \in TaskIds, Working(t), ~Working(t)',
         \A u \in TaskIds : u # t => (Working(u)' <=> Working(u))
  PROVE  t[1] \in Held /\ Held' = Held \ {t[1]}
<1>1. t[1] \in Steps /\ t[2] \in Lanes /\ t = <<t[1], t[2]>>
  BY DEF TaskIds
<1>2. \A k \in Lanes : Working(<<t[1], k>>) => k = t[2]
  BY <1>1 DEF IInv, Base, Exclusion, ExclusiveExecution
<1>3. \A s \in Steps, k \in Lanes : Working(<<s, k>>)' <=> Working(<<s, k>>) /\ s # t[1]
  BY <1>1, <1>2 DEF TaskIds
<1> QED
  BY <1>1, <1>3 DEF Held

\* An outcome without a dead letter is a release.
LEMMA OutcomeReleases ==
  ASSUME IInv, NEW t \in TaskIds, Working(t),
         NEW x, x.pc \notin {"claimed", "agent"}, task' = [task EXCEPT ![t] = x],
         \A s \in Steps : step'[s].attempt = step[s].attempt,
         dlq' = dlq
  PROVE  Queue!Release(t[1])
<1>1. ~Working(t)' /\ \A u \in TaskIds : u # t => (Working(u)' <=> Working(u))
  BY TaskMoves DEF IInv, Base
<1> QED
  BY <1>1, LetGo, SameTries, SameOwed DEF Queue!Release, Tries, Owed

\* Storing a row with the same attempt keeps the tries.
LEMMA StoredTries ==
  ASSUME TypeOK, NEW s \in Steps, NEW row, row.attempt = step[s].attempt, step' = Stored(s, row)
  PROVE  \A x \in Steps : step'[x].attempt = step[x].attempt
BY DEF Stored, TypeOK

\* A failed try is a release, or the last one with its dead letter.
LEMMA FailureEnds ==
  ASSUME IInv, NEW t \in TaskIds, Working(t), MarkFailed(t),
         NEW x, x.pc \notin {"claimed", "agent"}, task' = [task EXCEPT ![t] = x]
  PROVE  Queue!Release(t[1]) \/ Queue!Bury(t[1])
<1> USE DEF IInv, Base, Exclusion
<1> PICK s : s = t[1]
  OBVIOUS
<1>1. s \in Steps /\ t[2] \in Lanes /\ t = <<s, t[2]>>
  BY DEF TaskIds
<1>2. /\ task[t].attempt = step[s].attempt
      /\ step[s].attempt <= MaxAttempts[s]
      /\ step[s] \in Row
      /\ MaxAttempts[s] \in Nat
  BY <1>1, AttemptsAssumption DEF WorkingRow, Attempts, TypeOK
<1>3. CASE Exhausted(t)
  <2> DEFINE d == [step |-> s, count |-> task[t].attempt, open |-> TRUE]
  <2>1. step' = Stored(s, [step[s] EXCEPT !.status = "failed"]) /\ dlq' = Append(dlq, d)
    BY <1>3 DEF MarkFailed
  <2>2. step[s].attempt = MaxAttempts[s]
    BY <1>1, <1>2, <1>3 DEF Exhausted, Row
  <2>3. d \in DeadLetter /\ d.step = s /\ d.open
    BY <1>1, <1>2 DEF DeadLetter, Row
  <2> HIDE DEF d
  <2>4. Owed' = [Owed EXCEPT ![s] = @ + 1]
    BY <1>1, <2>1, <2>3, OwedMore
  <2>5. Tries' = Tries
    <3>1. [step[s] EXCEPT !.status = "failed"].attempt = step[s].attempt
      BY <1>2 DEF Row
    <3> QED
      BY <1>1, <2>1, <3>1, StoredTries, SameTries
  <2>6. ~Working(t)' /\ \A u \in TaskIds : u # t => (Working(u)' <=> Working(u))
    BY TaskMoves
  <2>7. s \in Held /\ Held' = Held \ {s}
    BY <2>6, LetGo
  <2>8. Queue!Bury(s)
    BY <1>1, <2>2, <2>4, <2>5, <2>7 DEF Queue!Bury, Tries, Owed
  <2> QED
    BY <2>8
<1>4. CASE ~Exhausted(t)
  <2>1. step' = Stored(s, [step[s] EXCEPT !.status = "retrying", !.due = FALSE]) /\ dlq' = dlq
    BY <1>4 DEF MarkFailed
  <2>2. [step[s] EXCEPT !.status = "retrying", !.due = FALSE].attempt = step[s].attempt
    BY <1>2 DEF Row
  <2>3. \A y \in Steps : step'[y].attempt = step[y].attempt
    BY <1>1, <2>1, <2>2, StoredTries
  <2> QED
    BY <2>1, <2>3, OutcomeReleases
<1> QED
  BY <1>3, <1>4

\* A step of a task that neither starts nor ends its work.
LEMMA TaskStutters ==
  ASSUME IInv, NEW t \in TaskIds, NEW x, task' = [task EXCEPT ![t] = x],
         x.pc \in {"claimed", "agent"} <=> Working(t),
         \A s \in Steps : step'[s].attempt = step[s].attempt,
         dlq' = dlq
  PROVE  UNCHANGED <<Held, Tries, Owed>>
<1>1. \A s \in Steps, k \in Lanes : Working(<<s, k>>)' <=> Working(<<s, k>>)
  BY DEF IInv, Base, Exclusion, TypeOK, Working, TaskIds
<1> QED
  BY <1>1, SameHeld, SameTries, SameOwed

\* Each action of a task is a release, a dead letter, or nothing to the queue.
LEMMA ExecuteSimulates == ASSUME IInv, NEW t \in TaskIds, Execute(t) PROVE Simulated
<1> USE DEF IInv, Base, Exclusion
<1>1. /\ t[1] \in Steps
      /\ task[t] \in TaskState
      /\ \A s \in Steps : step[s] \in Row
  BY DEF TaskIds, TypeOK
<1>2. CASE FailAndReturn(t) \/ AgentFails(t)
  <2>1. PICK x : x.pc \notin {"claimed", "agent"} /\ task' = [task EXCEPT ![t] = x]
    <3>1. CASE FailAndReturn(t)
      BY <3>1 DEF FailAndReturn, NoTask
    <3>2. CASE AgentFails(t)
      <4>1. [task[t] EXCEPT !.pc = "finalize"].pc = "finalize"
        BY <1>1 DEF TaskState
      <4>2. task' = [task EXCEPT ![t] = [task[t] EXCEPT !.pc = "finalize"]]
        BY <3>2 DEF AgentFails, TypeOK
      <4> QED
        BY <4>1, <4>2
    <3> QED
      BY <1>2, <3>1, <3>2
  <2>2. Working(t) /\ MarkFailed(t)
    BY <1>2 DEF FailAndReturn, AgentFails, Working
  <2>3. Queue!Release(t[1]) \/ Queue!Bury(t[1])
    BY <2>1, <2>2, FailureEnds
  <2> QED
    BY <1>1, <2>3 DEF Simulated, Queue!Next
<1>3. CASE AwaitApproval(t) \/ AgentSucceeds(t)
  <2>1. PICK x : x.pc \notin {"claimed", "agent"} /\ task' = [task EXCEPT ![t] = x]
    <3>1. CASE AwaitApproval(t)
      BY <3>1 DEF AwaitApproval, NoTask
    <3>2. CASE AgentSucceeds(t)
      <4>1. [task[t] EXCEPT !.pc = "enqueue"].pc = "enqueue"
        BY <1>1 DEF TaskState
      <4>2. task' = [task EXCEPT ![t] = [task[t] EXCEPT !.pc = "enqueue"]]
        BY <3>2 DEF AgentSucceeds, TypeOK
      <4> QED
        BY <4>1, <4>2
    <3> QED
      BY <1>3, <3>1, <3>2
  <2>2. PICK st : step' = Stored(t[1], [step[t[1]] EXCEPT !.status = st])
    BY <1>3 DEF AwaitApproval, AgentSucceeds, MarkCompleted
  <2>3. [step[t[1]] EXCEPT !.status = st].attempt = step[t[1]].attempt
    BY <1>1 DEF Row
  <2>4. \A s \in Steps : step'[s].attempt = step[s].attempt
    BY <1>1, <2>2, <2>3, StoredTries
  <2>5. Working(t) /\ dlq' = dlq
    BY <1>3 DEF AwaitApproval, AgentSucceeds, Working
  <2>6. Queue!Release(t[1])
    BY <2>1, <2>4, <2>5, OutcomeReleases
  <2> QED
    BY <1>1, <2>6 DEF Simulated, Queue!Next
<1>4. CASE Begin(t) \/ EnqueueRead(t) \/ EnqueueCommit(t) \/ FinalizeRead(t) \/ FinalizeCommit(t)
  <2>1. dlq' = dlq /\ \A s \in Steps : step'[s].attempt = step[s].attempt
    <3>1. CASE EnqueueCommit(t)
      BY <1>1, <3>1 DEF EnqueueCommit, Row
    <3>2. CASE ~EnqueueCommit(t)
      BY <1>4, <3>2 DEF Begin, EnqueueRead, FinalizeRead, FinalizeCommit
    <3> QED
      BY <3>1, <3>2
  <2>2. PICK x : /\ task' = [task EXCEPT ![t] = x]
                 /\ x.pc \in {"claimed", "agent"} <=> Working(t)
    <3>1. CASE Begin(t)
      <4>0. PICK last \in LastRows(t[1]) :
                task' = [task EXCEPT ![t].pc = "agent", ![t].seen = proc,
                                     ![t].kept = [u \in last \cap AskedAgain(t[1]) |-> step[u].status]]
        BY <3>1 DEF Begin
      <4> DEFINE x == [task[t] EXCEPT !.pc = "agent", !.seen = proc,
                           !.kept = [u \in last \cap AskedAgain(t[1]) |-> step[u].status]]
      <4>1. x.pc = "agent" /\ task' = [task EXCEPT ![t] = x]
        BY <1>1, <4>0 DEF TypeOK, TaskState
      <4> QED
        BY <3>1, <4>1 DEF Begin, Working
    <3>2. CASE EnqueueRead(t)
      <4> DEFINE x == [task[t] EXCEPT !.pc = "enqueueing", !.todo = Startable(t)]
      <4>1. x.pc = "enqueueing" /\ task' = [task EXCEPT ![t] = x]
        BY <1>1, <3>2 DEF EnqueueRead, TypeOK, TaskState
      <4> QED
        BY <3>2, <4>1 DEF EnqueueRead, Working
    <3>3. CASE EnqueueCommit(t)
      <4> DEFINE x == [task[t] EXCEPT !.pc = "finalize", !.todo = {}]
      <4>1. x.pc = "finalize" /\ task' = [task EXCEPT ![t] = x]
        BY <1>1, <3>3 DEF EnqueueCommit, TypeOK, TaskState
      <4> QED
        BY <3>3, <4>1 DEF EnqueueCommit, Working
    <3>4. CASE FinalizeRead(t)
      <4> DEFINE x == [task[t] EXCEPT !.pc = "finalizing",
                                      !.verdict = IF AnyFailed THEN "failed" ELSE "completed"]
      <4>1. x.pc = "finalizing" /\ NoTask.pc = "idle"
        BY <1>1 DEF TaskState, NoTask
      <4>2. task' = [task EXCEPT ![t] = NoTask] \/ task' = [task EXCEPT ![t] = x]
        BY <1>1, <3>4 DEF FinalizeRead, TypeOK
      <4> QED
        BY <3>4, <4>1, <4>2 DEF FinalizeRead, Working
    <3>5. CASE FinalizeCommit(t)
      <4>1. NoTask.pc = "idle" /\ task' = [task EXCEPT ![t] = NoTask]
        BY <3>5 DEF FinalizeCommit, NoTask
      <4> QED
        BY <3>5, <4>1 DEF FinalizeCommit, Working
    <3> QED
      BY <1>4, <3>1, <3>2, <3>3, <3>4, <3>5
  <2> QED
    BY <2>1, <2>2, TaskStutters DEF Simulated
<1> QED
  BY <1>2, <1>3, <1>4 DEF Execute, Enter, Proceed

\* A swallowed error lets the task's step go, if it was still held.
LEMMA SwallowReleases == ASSUME IInv, NEW t \in TaskIds, Swallow(t) PROVE Simulated
<1>1. /\ t[1] \in Steps
      /\ NoTask.pc \notin {"claimed", "agent"}
      /\ task' = [task EXCEPT ![t] = NoTask]
      /\ dlq' = dlq
      /\ \A s \in Steps : step'[s].attempt = step[s].attempt
  BY DEF Swallow, NoTask, TaskIds
<1>2. CASE Working(t)
  BY <1>1, <1>2, OutcomeReleases DEF Simulated, Queue!Next
<1>3. CASE ~Working(t)
  BY <1>1, <1>3, TaskStutters DEF Simulated
<1> QED
  BY <1>2, <1>3

\* A crash abandons what is held.
LEMMA CrashAbandons == ASSUME IInv, Crash PROVE Queue!Abandon
<1>1. Held' = {}
  BY DEF Crash, Held, Working, NoTask, TaskIds
<1>2. UNCHANGED <<Tries, Owed>>
  BY SameOwed DEF Crash, Tries
<1> QED
  BY <1>1, <1>2 DEF Queue!Abandon, Tries, Owed

\* Every step of the specification is one of the queue's, or a stutter.
LEMMA NextSimulates == ASSUME IInv, [Next]_vars PROVE [Queue!Next]_<<Held, Tries, Owed>>
<1>1. CASE UNCHANGED vars
  <2>1. UNCHANGED <<step, dlq, task>>
    BY <1>1 DEF vars
  <2>2. UNCHANGED <<Held, Tries, Owed>>
    BY <2>1, SameHeld, SameTries, SameOwed DEF Working
  <2> QED
    BY <2>2
<1>2. CASE Next
  <2>1. ASSUME NEW S \in SUBSET Steps, Claim(S) PROVE Queue!Next
    BY <2>1, ClaimTakes DEF Queue!Next
  <2>2. CASE Crash
    BY <2>2, CrashAbandons DEF Queue!Next
  <2> QED
    BY <1>2, <2>1, <2>2, Outside, ReplayReplays, ExecuteSimulates, SwallowReleases DEF Next, Simulated
<1> QED
  BY <1>1, <1>2

\* The engine implements the queue: for every graph, batch, number of tasks and
\* handlers, attached or detached, with or without crashes and swallowed errors, a step is held by
\* one task at a time, its tries are counted at the hold and bounded, and only a
\* resolved dead letter gives it new ones, as long as no two replays of one step
\* overlap.
THEOREM QueueImplemented == Spec /\ []Apart => ImplementsQueue
<1>1. Init => Queue!Init
  BY QueueInit
<1>2. IInv /\ [Next]_vars => [Queue!Next]_(Queue!vars)
  BY NextSimulates DEF Queue!vars, Tries, Owed
<1> QED
  BY <1>1, <1>2, Invariance, PTL DEF Spec, ImplementsQueue, Queue!Spec

=============================================================================
