# ApexAI: a verification project for the backend

ApexAI is a FastAPI server (`backend/app`) with a Next.js client (`frontend/`).
A user describes a *process*, a DAG of steps with an agent role each; a worker
claims steps and runs an *agent loop* (LLM call, tool calls, guards) for each of
them. Around it: a task board, a scheduler, cost accounting, a test-run service,
organisations with members, invitations, keys and settings, and notifications.
All state is in one PostgreSQL database; the concurrency is asyncio tasks in each
server process, and several server processes on one database
(`deploy/helm/values.yaml` runs replicas).

The modules here are TLA+ translations of the code under `backend/app`; paths
below are relative to it unless they begin with `docs/` or `tests/`.

- [1. Inventory](#1-inventory)
- [2. Modules](#2-modules-and-the-code-they-model)
- [3. Runs](#3-runs)
- [4. Fairness](#4-fairness)
- [5. Proofs](#5-proofs)
- [6. Where code and documents disagree](#6-where-code-and-documents-disagree)
- [7. What is not modelled](#7-what-is-not-modelled)
- [8. Plan](#8-plan)

## 1. Inventory

### Components, their state and their operations

| component | state | operations | what is hard | what makes it correct |
|---|---|---|---|---|
| Process lifecycle and step queue: `workflow/{state,queue,executor,worker,parallel}.py`, `workflow/api/routes.py` | rows of `processes`, `process_steps`, `process_events`, `process_dlq`; the worker's asyncio tasks; the semaphore of `parallel.py` | create, start, cancel, resume, replay a dead letter; claim, execute, complete, fail, retry, enqueue downstream, finalise | many transactions of many actors on the same rows, each writing a copy it loaded before an `await`; retries with a delay; a server that dies between two commits | a step is worked on by one task at a time; attempts are bounded; a step that failed for good has a dead letter; a running row is worked on; a ripe join is woken; retrying ends |
| Agent run and loop: `agent/runtime.py`, `agent/api/routes.py`, `agent/checkpoint.py`, `agent/cleanup.py`, `main.py` | row of `agent_runs`, `agent_run_checkpoints`, the loop's counters | converse, resume (two ways), cancel, cleanup, marking at startup; next step, tools, gate, guards, end | several writers of one status, each with a stale copy; a resume while the first loop still runs; death of the server | a row that says running has a loop; a run ends, for the reason it gives; a resumed loop knows what resumed it |
| Safety guards and gates: `agent/safety.py`, `agent/gates.py` | failure counts, repetition counts, edit failures, token totals of one run | record a result, check, trip | counters shared by several keys, resets | the LLM is not asked again beyond a threshold |
| Conversation memory: `agent/memory.py` | `messages` with a sequence number | append, trim, summarise | what is dropped cuts an answer from its results; numbers computed from two different counters | the context is bounded and holds the last answer whole; the results of an answer are read in the order they were written |
| Agent tools: `agent/tools/*`, `agent/sandbox.py` | files of the sandbox, todo list | patch, edit, todo update; thin wrappers over files, git, HTTP | a patch of several files of which one write fails; a number read, then used | all or nothing; the list is numbered without gaps |
| LLM client and cache: `agent/llm/*`, `agent/cache.py` | cache entries with time to live, usage callback | get, put, expire, evict | a Redis that comes and goes, expiry | a hit is a fresh answer of the provider |
| Task board: `workflow/task_service.py`, `workflow/task_subdeps.py`, `workflow/api/task_routes.py` | `tasks`, `task_dependencies`, `task_comments`, `notifications` | create, transition, comment, assign, subtasks, dependencies | transitions of one task overlap; a graph judged, then changed; notifications committed later | status and completion time agree; the dependencies are acyclic; the tasks do not all wait for each other; an assignee is told |
| DAG validation: `workflow/definition.py`, `workflow/dag.py`, `task_subdeps._would_create_cycle` | none | Kahn's algorithm, three times | repeated edges, self-loops | exactly the acyclic graphs are accepted; the order is topological |
| Scheduler: `workflow/scheduler.py`, `workflow/api/scheduled_routes.py` | job table in memory, `scheduled_processes` | create, delete, enable, fire | the table and the rows change separately | they agree |
| Cost: `cost/*` | `token_usage`, `budget_alerts` | route a prompt to a tier, record usage, alert | check then insert | an alert once a day for each threshold |
| Test runs: `testing/*` | `test_runs`, results | run, parse, flakiness | output of any shape; a run that fails half-way | the verdict is what the process said |
| Identity: `api/v1/{auth,orgs,invitations}.py`, `core/{security,rbac}.py` | users, tokens, organisations, memberships, invitations | register, log in, refresh, log out, reset; invite, accept, revoke; change roles | status checked, then written by one of two requests; rotating tokens in several tabs | an accepted invitation is honoured in full; a browser keeps a live token; a reset token is used once |
| Keys, settings, audit: `api/v1/{keys,settings,audit}.py`, `core/{vault,audit}.py` | `api_keys`, the vault, `settings`, `audit_logs` | create, rotate, delete, resolve; upsert | vault and table change separately; duplicate rows of NULL scopes | they agree; where both readers look at the same place, a run uses the model that is shown |
| Notifications: `notifications/*` | queues of each socket and channel | connect, disconnect, push | disconnects and full queues during a push | a listening socket is sent what was put in its queue, once and in order |
| Intelligence: `intelligence/*` | indexes in memory | embed, evaluate, export | numeric kernels | not protocol |
| Others: `models/`, `alembic/`, `schemas/`, `config.py`, `agent/observability/`, `agent/prompts/`, `frontend/`, `deploy/` | declarations | | | |

### How they interact

- `routes.py` writes `processes` and `process_steps`; the worker polls
  `process_steps` (`queue.claim_ready_steps`), so the tables are the only channel
  between the two. There is no code that wakes the worker.
- `worker.worker_loop` starts one asyncio task for each claimed step; the task
  waits for the global semaphore in `parallel.concurrency_slot`, then
  `StepExecutor.execute` runs an `AgentLoop` and writes the outcome.
- The executor enqueues the steps behind the one it completed and finalises the
  process when it believes it is the last.
- `agent/api/routes.py` runs the loop inside the request (`POST /converse`) or after
  a resume; `cancel`, `cleanup` and `main.py`'s startup write the same row.
- The task board calls the DAG algorithm before it inserts a dependency.
- The scheduler creates processes through the same rows as the HTTP handler.
- Budgets and guards are asked by the loop in each step.

The properties aim at the hazards listed in `PROJECT.json`, each at the line where it bites.

## 2. Modules and the code they model

| module | models | instance | proofs |
|---|---|---|---|
| `ProcessState` | the transition tables of `state.py` | | |
| `WorkQueue` | abstract: what the step queue promises | through `Workflow` | `QueueProofs` |
| `Workflow` | a process: handlers, worker, executor, crashes, swallowed errors | `MCWorkflow` | `WorkflowProofs`, `QueueProofs` |
| `AgentRun` | an agent run: the row's status, loops and marking requests | `MCAgentRun` | `AgentRunProofs` |
| `AgentLoop` | one loop of it in detail: answers, calls, guards, context | `MCAgentLoop` | `AgentLoopProofs` |
| `Dag` | what a cycle is | | |
| `Kahn` | Kahn's algorithm, loop iteration by loop iteration | `MCKahn` | `KahnProofs` |
| `TaskBoard` | tasks, transitions, dependencies | `MCTaskBoard` | `TaskBoardProofs` |
| `Conversation` | the stored messages of a run, their numbers, checkpoints, resumes: `runtime.py`, `memory.py`, `checkpoint.py` | `MCServices` | `ServicesProofs` |
| `Services` | the modules below, side by side | `MCServices` | `IdentityProofs`, `ServicesProofs` |
| `Accounts` | organisations, teams, memberships, invitations: `orgs.py`, `invitations.py`, `auth.py` | `MCServices` | `IdentityProofs` |
| `Sessions` | refresh tokens, their rotation, the browser's cookie and tabs: `auth.py` | `MCServices` | `IdentityProofs` |
| `Resets` | password-reset tokens: `auth.py` | `MCServices` | `IdentityProofs` |
| `Vault` | AI keys and integrations, in the vault and in their tables: `keys.py`, `vault.py` | `MCServices` | `IdentityProofs` |
| `Settings` | the rows of a setting and its two readers: `settings.py`, `model_resolver.py` | `MCServices` | `IdentityProofs` |
| `Schedules` | `scheduled_processes` and each server's jobs: `scheduler.py` | `MCServices` | `ServicesProofs` |
| `Templates` | seeding, listing and cloning: `templates.py` | `MCServices` | `ServicesProofs` |
| `Cache` | Redis, the servers' memories, the calls: `cache.py`, `litellm_client.py` | `MCServices` | `ServicesProofs` |
| `Notices` | assignments, comments, transitions and the notifications they cause: `task_service.py` | `MCServices` | `ServicesProofs` |
| `Broadcast` | the sockets and their queues: `websocket.py`, `notifications/api.py` | `MCServices` | `ServicesProofs` |
| `TestRuns` | a test run's process, output and row: `testing/`, `run_tests.py` | `MCServices` | `ServicesProofs` |
| `Patches` | `apply_patch.py`, `edit_file.py` and `write_file.py` on a few files | `MCServices` | `ServicesProofs` |
| `Budget` | the daily budget alerts of an org: `cost/budget.py` | `MCServices` | `ServicesProofs` |
| `Todos` | an agent run's checklist: `update_todo.py` | `MCServices` | `ServicesProofs` |

Operators whose comment says *Fault* are not part of the model: each is the form a
plausible bug would give to the definition it is named after (`Exhausted_Late` for
`Exhausted`), put in its place to see that a property notices.

### Workflow

One action is one database transaction, or one read whose result the code keeps
across an `await`. State: `proc`, `step` (status, attempt, whether `next_retry_at` has
passed) and `dlq` are tables; `task`, `api`, `replay` and `creator` are what the
coroutines hold in local variables and session copies. `lost` and `blind` are history:
the steps whose last task was cut short, and those whose task looked at a row its
session had kept from before.

| action | code |
|---|---|
| `CreateRow`, `CreateSteps` | the commits of `create_process`; its third one adds an event only |
| `ApiLoad`, `ApiSelect`, `ApiCommit` | `start_process`, `cancel_process`, `resume_process`: load and test, query the steps (which flushes the UPDATE of the process row, so the row stays locked), commit |
| `Promote` | the move from queued to running, which only tests make |
| `ReplayLoad`, `ReplayCommit` | `replay_dlq` |
| `RetryElapses`, `Claim` | `next_retry_at` passes; `claim_ready_steps` and the tasks `worker_loop` creates |
| `Begin` | semaphore, load the process, `step.started` |
| `FailAndReturn`, `AgentFails`, `AwaitApproval`, `AgentSucceeds` | the four ways `execute` goes on |
| `EnqueueRead`, `EnqueueCommit` | `_enqueue_downstream` |
| `FinalizeRead`, `FinalizeCommit` | `_maybe_complete_or_fail_process` |
| `Swallow` | an error that escapes `execute`, such as the commit of `mark_step_failed` on a session a database error left unusable, is logged by `run_one` (`worker.py:62`); one in the claim's own session by `worker_loop`: the task is gone, the row stays |
| `Crash` | the server dies: coroutines are gone, tables stay |

The worker claims steps in one session, closes it, and gives the step objects to an
executor with another session. Assignments to such a *detached* step are never
flushed. The executor's tests pass an attached step. `Detached` chooses between the
two: `TRUE` is the program as wired, `FALSE` is the executor as it is written and
tested, which is where retries, dead letters and joins are to be judged.

The session of `execute` answers some questions from its identity map
(`expire_on_commit=False`): rows are kept alive by what still refers to them. That is
the step's own row, and, of the upstream rows gathered at `Begin`, the one the `for`
read last, which `up` holds until `execute` returns (`executor.py:73`; `kept`, chosen by
`LastRows`). `SeenStatus` is what `_enqueue_downstream` then reads.

The rows of `process_events` are not modelled: nothing decides on them. They have random
UUIDs, their only reader sorts by those (`routes.py:266`), and `created_at` is taken
before the row lock, so that nothing can be said of their order.

A task is named `<<step, lane>>`: lanes are the tasks that may be alive for one step
at once, so two tasks on one step *can* happen in the model.

### WorkQueue

What the engine promises about a step to somebody who sees no rows: it is held by one
worker at a time, each hold is a try, there are never more tries than allowed, a last
try may leave a dead letter, and only giving up a dead letter lets a step start
counting again. `Workflow` implements it, with attached steps and with detached ones,
under this mapping (`Queue` and `ImplementsQueue` in `Workflow`):

| `WorkQueue` | `Workflow` |
|---|---|
| `held` | the steps on which some task works (claimed, begun, or asking the agent) |
| `tries` | `process_steps.attempt` |
| `owed` | the number of open rows of `process_dlq` of the step |

A `Claim` is a `Take` of the whole batch; the ways an attempt ends are `Release` or
`Bury`; `ReplayCommit` is a `Replay`; a `Crash` or a `Swallow` is an `Abandon`; everything else, the
handlers' commits included, is a stutter. So an attempt is never counted twice, nor a
dead letter written twice or later than the attempt ends, whatever the sessions do.

### AgentRun

One row and its writers. Every writer works on the copy its session loaded
(`expire_on_commit=False`, `db.py`), and SQLAlchemy writes a column only if the copy
changes: `Written(copy, status)`. A loop goes `top` (head of the `while`), `llm`
(the answer and its tools), `guards` (a tripped gate, still inside the step), `ending`
(final commit). Which guard trips is a choice here; that one may trip, after any
tools, is what the row can see of them, and `AgentLoop` has them in detail.
Marking is load, then commit, for `cancel_run`, `mark_stuck_runs` and
`mark_stuck_runs_interrupted`. A loop is gone with its server (`LoopDies`) or with a
commit that raises outside the `try` (`CommitRaises`): those of a start or a resume, and
the last one, which a database error inside a step makes raise, because the `except` of
`runtime.py:332` does not roll the session back. `lost` remembers that it left the row
running.

### AgentLoop

One call of `AgentLoop.run` that starts a run, as the answers of the LLM and the
outcomes of its calls drive it.

| action | code (`agent/runtime.py` unless named) |
|---|---|
| `Start` | the rows and the first two messages |
| `NextStep`, `LoopEnds` | the `while`; `trim` and `maybe_summarize` of `memory.py` |
| `Answer` | `completion`, the budget's record, the assistant's message; no calls ends the run |
| `CallFinish`, `CallUnknown`, `Call`, `Gate` | one turn of the `for` over the calls |
| `Trips`, `OverBudget`, `StepEnds` | what follows the tools: guards, budget, `max_steps` |
| `Fails` | an error answer, or the `except` around the step |
| `Finish`, `CommitRaises` | the final commit; it raises |

The calls of an answer are chosen one at a time when they are run: nothing looks at a
call before that. A message is its role, which is all that `trim` and
`maybe_summarize` look at. `trim` keeps the system messages whatever their number and
treats the others as a list of their own, so the context is kept in two variables: how
many system messages it holds (`system`), and the rest in order (`talk`). The guards' counters are those of `safety.py`, with their
keys: failures by tool with the *one* name the breaker keeps, reading calls by tool
and arguments, other calls by tool. The daily cap asks what other runs have used
(`Capped`: they may have used it up).

`AgentLoop` implements `AgentRun` with a single loop and no marking request
(`ImplementsRun`): a batch of calls and the guards after it are one step there, so
`tools` and `guards` map to `llm`, `gated` maps to `guards`, `idle` and `over` to
`idle`; messages, guards and tokens are forgotten. The death of the server is
`AgentRun`'s `LoopDies`; what a resume reloads is `Conversation`'s.

### Dag, Kahn and TaskBoard

`Dag` says what a cycle is without an algorithm: a set of nodes each of which has an
edge from a node of the set (a *knot*). `Kahn` is the algorithm, one action for each
iteration; its edges are a list, because `definition.py` and `dag.py` do not remove
repeated ones. `Cycle` is the set of steps `dag.py` names when it refuses. `TaskBoard` uses the verdict, not the algorithm: `Admissible(edge)` is
`Acyclic(deps \cup {edge})`, and `VerdictCorrect` in `KahnProofs` is what entitles it
to. A status transition loads, judges the copy, and commits later; adding a dependency
judges, then inserts.

### Conversation

The messages of one run as the database orders them. `rows` is the order of the
inserts; each row has the `sequence` that `runtime.py` computes, by the step for an
answer and by the length of the loop's list for everything else. Of the list a loop
keeps, what decides anything is which stored system messages it holds, how many
summaries and how many other messages (`List`): `trim` and `maybe_summarize`
(`Trimmed`, `Summarized`) look at a message's role and place only, and never drop a
system message. `ResumeRead` and `ResumeCommit` are the two halves of
`POST /runs/{id}/resume`; `Enter`, `Open` and `Reload` are `_ensure_conversation` and
the branch of `run` on it. Of a checkpoint only the presence matters: `runtime.py:135`
uses no field of it. `AgentRun` has the run's status in more detail, and `AgentLoop`
the loop's guards; here any of them may end a step.

### The parts around the engine

Each of the other modules is one small state machine: the tables it owns, what its
requests hold between a read and a commit (`request`, `call`, `visit`, `tab`, ...), and
an action for each commit. A request may stop between any two commits (`Dies`,
`Fail`, `RollBack`). Some have history variables, which no guard reads: they say
which requests overlapped (`mixed`, `crossed`, `together`, `abreast`, `overlapped`, `spoiled`), so
that a property can promise what sequential requests get and be silent about what an
overlap is known to break (section 6).

- `Accounts`: `accept_invitation` and `revoke_invitation` judge in one action and write in
  a later one. A membership remembers what inserted it, because no unique index tells
  two rows of one member apart.
- `Sessions`: a tab's request takes the cookie along, is answered with a new one, and
  the answers of two tabs arrive in either order or not at all. Tokens are fresh, so
  their number bounds the logins and refreshes.
- `Vault`, `Schedules`: two stores written one after the other, by calls that stop in between.
  An integration goes through the same steps as an AI key, with a table of its own, and is
  never what `resolve_ai_key` finds.
- `Settings`: `Replaced` is what `ON CONFLICT` can see: nothing when `scope_id` is NULL.
  The page (`Shown`) walks the orgs of the token, in an order nothing fixes; a run
  (`Used`) looks at the org its request names, if it names one.
- `Cache`: time passes in ticks, Redis comes and goes, and each server has a memory it
  falls back to. An answer is cached whether or not the usage callback is there or
  succeeds.
- `Notices`: a request loads its task, commits the change, and commits the notices later.
- `Broadcast`: no method of `Broadcaster` awaits while it holds the lock, so each is
  one step; the two forwarding tasks of a socket are separate actors. The handler cancels
  them and returns, so a queue may leave its channel after the socket is closed.
- `TestRuns`: an output is a list of lines, and a line the counts in it and whether it
  says how long the tests took: what the adapters' regular expressions look for. pytest's
  and vitest's parsers, and the agent tool's, are functions of that. A loop over the
  lines that overwrites or keeps a count is written as the last or the first place that
  mentions the word (`Latest`, `First`, `Looked`), which is what can be proved about.
  `Spelled`: pytest says "1 error" and "2 errors"; its adapter reads both, the tool the
  second.
- `Patches`: a file's content is the set of edits in it; validation and writes are
  separate, and a write or a restore may fail. `write_file` puts any of the edits of the
  old text into the new one, and may leave the file cut short (`rewritten`).
- `Budget`: a check sums, looks and inserts at three moments, while usage grows and days
  change; an alert is known by the check that wrote it. Rows of `token_usage` come from
  outside: the callback that should write them cannot (section 6), and only the tests
  call the check.

`Services` puts them side by side, and `MCServices` is its instance. They share no state, so it is a sum: a behaviour
chooses at the start which part moves (`moves`) and the others keep their initial
state. Each part reaches exactly its own states, without the product of all of them.

## 3. Runs

Bounds are in the cfg files. `CHECK_DEADLOCK FALSE` stands where the modelled thing
ends (a process, a run, an algorithm); the task board never does.

| run | instance | shows |
|---|---|---|
| `wf_core` | chain of two steps, one and two attempts, two lanes, one handler, one replayer, crashes and errors | exclusive execution, attempts, dead letters, no orphan but what was cut short, a completed step is not run again, and the whole implements `WorkQueue`, under every interleaving of all handlers and one replay at a time |
| `wf_deployed` | detached, crashes and errors, two handlers, one slot | as wired no step is attempted twice |
| `wf_fanin` | A -> B, A -> C, B -> C, retries, two slots, one replayer, crashes and errors, fairness | a wake-up is lost only where a task was cut short or saw a kept row; retries end |
| `doc_exclusive`, `doc_upstreams`, `doc_outcome`, `doc_queued` | the smallest instance that shows it | see section 6 |
| `ar_core` | two loops, two marking requests, two steps, fairness | only a death or a commit that raises leaves a row running; runs end otherwise |
| `al_core` | a reading tool, an editing one and commands; three steps of at most three calls | the limits hold, the context is bounded and keeps the last answer if it fits, the reason is true, and the whole implements `AgentRun` |
| `kahn` | all lists of at most four edges over three nodes | the verdict is right, the order topological, and the steps named in a refusal are the largest set that waits for itself |
| `board` | three tasks, two overlapping transitions, one `add_dependency` | the columns agree; acyclic; some task can start |
| `services` | the fifteen parts of `Services`, one at a time | what each keeps in two places, looks up before it writes, or promises to tell stays right, see below |

What `services` shows:

| property | of | says |
|---|---|---|
| `AcceptedIsMember` | `Accounts` | however accepts, revocations and deletions of teams overlap, an accepted invitation has its user, its membership and its teams |
| `CookieLives` | `Sessions` | with nothing in progress and no answer lost, the browser's token is not a revoked one, whichever tab's answer came last |
| `StoresAgree` | `Vault`, `Schedules` | vault and tables disagree only where a call is, or stopped, between its two writes; jobs follow the rows after sequential requests, across restarts |
| `ShownIsUsed` | `Settings` | for every set of orgs in the token and every org a request names, or none: where `get_setting` and `resolve_default_model` look at the same place, the model shown is the one used; an org's enforced model always is |
| `HitsAreSound` | `Cache` | a hit is younger than its time to live and an answer of the provider, no error, through outages of Redis and restarts |
| `EveryoneTold` | `Notices`, `Broadcast` | an assignee has been told, except where section 6 says; a listening socket gets all that was put in its queue, in order; a full queue is passed over |
| `VerdictTrue` | `TestRuns` | "passed" and "failed" have evidence in the exit code and the output, and of pytest's plain summary service and agent tool say the same, exactly unless it says "1 error" |
| `PatchesWhole` | `Patches` | a patch is whole or absent, and later patches and edits keep it |
| `OnceEach` | `Templates`, `Resets`, `Todos`, `Budget` | a default, a reset, a number, a day's alert of each kind exactly once unless two requests overlapped; alerts of a day only rise |
| `ResultsFollow` | `Conversation` | the results of an answer are read back in the order of the calls, and after the answer up to step `Kept + 2`, where `Kept` is what `trim` and `maybe_summarize` leave of a long list |
| `ApprovalKept` | `Conversation` | the message that resumed a loop is in every prompt of it, however `trim` cuts and other loops write |

Why the bounds are enough:

- Two steps and two lanes give every pair of actors that can meet: two tasks on one
  step, a task and its upstream's task, a task and a handler, a replay and a claim.
  One step has a single attempt, so that it dead-letters at once and can be replayed; the
  other has two, so that it retries. A handler that finished may start again, so one
  handler still gives any sequence of requests; the second one, of overlapping
  requests, is in `wf_deployed`.
- Three steps are the smallest join, and the edge A -> B between its two upstream steps
  makes it the smallest graph on which a kept row matters (section 6). One lane is
  enough there: the wake-up is between tasks of different steps, and `wf_core` has two
  tasks of one. There and in `wf_core` the server may die, and any task
  be cut short, at every moment. A join of two roots is the same without the edge, and
  `NothingLost` is about every graph.
- Two loops are the first and the resumed one, two steps make a first and a last one.
- In `al_core` each guard can trip alone: two failures of one tool, one reading call
  repeated (limit 1), the fourth command (limit 3), the second failed edit, the second
  token; two arguments tell a repeated reading call from another. `trim` keeps three
  messages, so that an answer with two results just fits, and one with three, the
  largest, does not: both cases of `AnswerKept` are reached. The limits keep the code's
  order: what is kept, the commands' messages and the prompt stay below the summary's
  threshold (3 + 3 + 1 <= 7; in the code 30 + 12 + 1 <= 50), which is
  `ContextAssumption`. Nothing is assumed of the length of a batch.
- Four edges over three nodes hold a repeated edge, a self-loop, a cycle of each
  length, a cycle with a tail on either side, and a diamond short of one node. The
  proofs cover the rest.
- Three tasks hold a cycle that is not a pair of opposite edges; two transitions in
  flight are the smallest lost update. The instance uses symmetry: tasks and requests
  are interchangeable, and all its properties are invariants.
- In `services` each part has two or three requests, the smallest number that lets one
  pass between the two halves of another, with a third to see the outcome (a listing,
  a resolve, a resume), and two of what they fight for, where two can be told apart:
  two invitations with one team, two tabs with three tokens, two servers with a memory
  each, two sockets with two channels and room for one event. `Settings` needs two
  platform rows and two orgs, of which a token has any and a request names any or none. `Vault` has a user's key, an org's and an integration. `Budget` has days of
  ten tokens with amounts that reach no threshold, one, or several at once, and two days. `Cache` has three calls and a time to live of two ticks of three, so that an
  entry can outlive an outage and be too old after it. `Conversation` has two loops, a
  checkpoint at every second of three steps, and six rows with one kept by `trim` and a
  threshold of two: a run that is resumed reloads more messages than either leaves. A part's symmetric
  ids are shared with the others, which is sound as the parts never meet.

## 4. Fairness

`Workflow!FairSpec`: the event loop runs every ready coroutine (`WF` of handler
commits and of what a task does once it holds a slot); asyncio's semaphore serves
its waiters first in, first out, so a task that is again and again offered a slot
gets one (`SF` of `Enter`); `worker_loop` polls for ever, and its batch is not smaller
than the number of steps of the process in the runs that use fairness (`WF` of a
claim of each ready step); time passes (`RetryElapses`). An agent run ends, which is
`AgentRun`'s `RunEnds`. Crashes and swallowed errors are on, and neither is fair nor
unfair: after one nothing reclaims a running row (section 6), so `RetriesEnd` and
`RunEnds` promise an end only of what was not cut short. Nothing is assumed of users:
no request is ever obliged to arrive.

`AgentRun!FairSpec`: a loop that can go on does (LLM calls and tools have time
limits), and a marking request commits. No fairness for starts, resumes, deaths or commits
that raise.

## 5. Proofs

`tlapm` checks every obligation with SMT, Zenon and LS4. The theorems hold for every
value of the constants that satisfies the modules' `ASSUME`s.

### The engine

- **`WorkflowProofs`**. What holds whatever is replayed is proved first and without a
  hypothesis: `Base` is `TypeOK`, `NoOrphan`, `Fresh` (nothing is held before the steps
  exist) and `Loaded` (a replay has read a row of the table), and gives `TypeCorrect` and
  `Attended`: a running row has its task, or the history `lost` says that a crash or a
  swallowed error cut it short. `Exclusive`, `Budget`, `NothingForgotten` and
  `NeverRerun` need that no two replays in progress concern the same step, `[]Apart`:
  without it TLC finds `ExclusiveExecution` violated (`doc_exclusive`).
  Replays of different steps may overlap as they like, and one replay at a time satisfies
  `Apart` (`ApartAlone`), as in `wf_core`.
  `Invariance` proves `IInv`, which is `Base` and `Exclusion`. `ExclusiveExecution`
  alone is not inductive: a second claim is impossible because a step that is worked on
  has a row that no claim accepts (`WorkingRow`), which in turn needs that a replay
  that judged the step failed still finds it unclaimed (`ReplayRow`, `Unclaimed`), and
  that a row is failed only as long as its dead letter is open (`Accounted`,
  `Evidence`). `RetryBudget` needs that a claimable row has attempts left
  (`Attempts`). `ExecuteKinds` reduces the actions of a task to four kinds, once for both.
  `NeverRerun` is an action property and follows from the same invariant.
- `OnceDeployed` (`AtMostOnce`) adds its own invariant to `Base` and has no hypothesis: where
  steps are detached no row is ever seen failed, retrying or completed, a pending one was
  never attempted, and so no replay finds a step to put back (`Once`).
- `NothingLost` (`NoLostWakeup`) holds for every graph and has no hypothesis: crashes,
  swallowed errors and replays included. With `Base` it is inductive (`WakeupStep`): a row
  becomes completed only by an executor that is then about to read the others, and the
  last of them to read sees all completed, unless its session kept one of them, which
  `blind` records, or it was cut short, which `lost` does. That the two are all there is
  is what the theorem says; a step that has been dead-lettered is left out, since a
  replay makes it wait for the worker alone.
- **`QueueProofs`**. `QueueImplemented`: each action, from a state of `IInv`, is an
  action of `WorkQueue` on the mapped state or leaves it as it is. `ExclusiveExecution`
  makes a claimed batch disjoint from what is held, `Attempts` gives the tries that
  `Take` asks for, `ReplayRow` shows that a replayed step is not held, and `Fresh` that
  the steps are not created, with attempts at 0, over some that were. It has the
  hypothesis `[]Apart` too.

### The agent

- **`AgentRunProofs`**. `IInv` is `TypeOK`, `Reasoned` (a loop that left its `while`
  knows why) and `NoZombie`. `Alive` needs `Reasoned`: `Finish` would otherwise leave the row running.
  Where a loop is gone with the row running, by a death or a commit that raised, `lost`
  says so until something else writes the row.
- **`AgentLoopProofs`**. `WithinLimits` and `ReasonIsTrue` need what the checks at the
  end of a step leave: at the head of the `while` and at the LLM no guard stands
  tripped (`Clear`); whatever went over a limit is noticed by its guard, whatever
  succeeded later (`Noticed`); a guard that stands tripped has the counts to show for
  it (`Evidence`); `max_steps`, which is set after the first step, is not the last word
  before the last step (`Open`). `RunImplemented` is the refinement of `AgentRun`, for
  every number of tools, calls, messages and limits.
- `ContextStaysBounded` and `LastAnswerKept` follow from a second invariant, `Context`.
  It bounds the system messages by what writes them (the prompt, and the gates of
  commands, which the repetition guard bounds: it needs `Noticed`), and says where the last answer
  stands at every place of the loop: followed by exactly the results that have come in.
  `trim` keeps the end of that, for a batch of any length: the answer and all results if
  they fit (fewer results than `MaxMessages`), else nothing but results (`OnlyResults`).
  `maybe_summarize` never acts, because what is kept and the system messages stay under
  its threshold (`ContextAssumption`, with the code's numbers in section 3).

### Graphs and the board

- **`KahnProofs`**. `VerdictCorrect` is the correctness of Kahn's algorithm for every
  finite node set and every list of edges. The invariant counts: the in-degree of a
  node is the number of edge *occurrences* not yet relaxed (`Counted`), what is queued
  or visited has none (`Settled`), nothing is queued twice (`QueuedOnce`,
  `VisitedOnce`, proved as `OnceCorrect`), and no node of a knot is ever visited
  (`KnotsUnvisited`); when the queue is empty the unvisited nodes are themselves a knot,
  the largest there is, and the ones whose in-degree is left (`CycleNamed`).
  `KahnTypeCorrect` says, for repeated edges and self-loops too, that no in-degree falls
  below zero.
- **`TaskBoardProofs`**. `BoardTypeCorrect` and `Stamped` need no hypothesis.
  `AcyclicForever` and `NoStandstill` assume `OneLinker` (`add_dependency` requests do not
  overlap); the invariant adds that what was judged is still admissible (`Judged`), which
  removals preserve because a subset of an acyclic graph is acyclic (`FewerEdges`).

### The parts around the engine

`IdentityProofs` and `ServicesProofs` treat a part in three steps: an invariant of its own
(`CacheInv`, ...), proved of its own `Init` and `Next`; `CacheMoves`, by which every step
of `Services` is a step of the part or leaves it alone; and `CacheInvariance`, which puts the
two together. So each property is proved of `Services!Spec`, the specification that the
run checks. What makes the invariants inductive:

| theorem | property | the invariant adds |
|---|---|---|
| `InvitationsHonoured` | `AcceptedIsMember` | nothing but types: no step takes a user or a membership away, a team goes only without members, and `Accept` brings all three at once |
| `CookiesLive` | `CookieLives` | what is on its way: a browser with a revoked token has an answer coming, or lost one (`Replaced`), and the token an answer carries is live and nobody else's (`Fresh`) |
| `StoresStayAgreed` | `StoresAgree` | for each key, until a deletion begins: no row without its secret, a secret without a row only while a creation writes, a row for whoever resolves it (`KeyInv`); for each schedule that requests took in turn, that one of them knows the row and its job is on that one's server (`JobsOf`) |
| `ModelsShown` | `ShownIsUsed` | no user and no org ever has two rows; what is shown is then the user's row, an org's of the token, or the platform's only one (`ShownAt`) |
| `HitsSound` | `HitsAreSound` | every entry of every store is of a call that was answered and is over, and lasts from when it was stored (`Proper`); Redis holds none that is over; a call that is about to store was answered |
| `AllAreTold` | `EveryoneTold` | an assignee who was not told has a request that will (`AssigneeKnows`); what is shown, held and queued for a socket, in this order, is what was due (`Whole`) |
| `PatchesAllOrNothing` | `PatchesWhole` | one call at a time is busy and judges before it writes (`InOrder`); what it has written is in the files and nothing else of it is (`Written`); the contents it recorded, to write or to put back, suit every other call (`Good`, `Sound`) |
| `DoneOnce` | `OnceEach` | for templates, resets and todos, that whoever has looked and not yet written is known to overlap whoever wrote since; for alerts, that a check in flight has no alert of its day above it unless they overlap (`Below`), which needs that a threshold reached today stays reached (`StillReached`) |
| `VerdictsTrue` | `VerdictTrue` | a stored verdict is the one read off the output (`JudgedBy`); beside it, what the readers return: a count that is not 0 stands before its word (`Counts`), and of a plain summary the adapter's count, the last, and the tool's, the first, are the same (`PlainCounts`), but of "1 error" (`PlainErrors`, `VerdictsAgree`) |
| `ResultsInOrder` | `ResultsFollow` | a result comes after the answer it belongs to (`Linked`); while an answer's calls are run, its number is the loop's step and its results have numbers up to the length of the list (`Answered`); the list is as long as the steps are many, as long as they are fewer than `Kept + 3` (`Ahead`); no two loops run the calls of one answer (`Apart`) |
| `ApprovalsStay` | `ApprovalKept` | a loop that runs steps holds a stored system message and, if it found a checkpoint, all of them up to its approval (`Holds`) |
| `ServicesTyped` | `TypeOK` | the types of all fifteen parts |

`Ahead` is where the two counters meet. `Cut` is the lemma it needs: of a list with a
system message, `trim` and `maybe_summarize` together leave all or more than `Kept`
messages, whatever `MaxMessages` and `Threshold` are. With the code's 30 and 50, `Kept` is
26 and the bound 29. The bound is exact: `Kept + 4` in `ResultsFollow` is violated in
`services`. `FirstIn` and `LastIn` say that the places `TestRuns` chooses exist; that
is an induction, over a set of numbers and not over the output, which `WFMin` of
`WellFoundedInduction` gives without an operator as parameter.

### What is only model-checked, and why

`RetriesEnd` and `RunEnds`: liveness under fairness, which these provers do not reach.
Every invariant and action property of the passing runs has a theorem.

None of the modules declares a recursive operator.


## 6. Where code and documents disagree

Each has a run that shows the disagreement, except where noted.

| run | what happens | where the other is said |
|---|---|---|
| `doc_upstreams` | a pending step is claimed while its upstream step has not completed: the query looks at status and retry time only, and `has_unfinished_upstreams` is never called | `queue.py:7` |
| `doc_outcome` | the detached step's outcome is never flushed: the row says running for ever | `executor.py:7` |
| `doc_exclusive` | two replays of one dead letter that overlap put a step back to pending after a worker claimed it: two tasks run it. `replay_dlq` locks nothing, and `claim_ready_steps` cannot see the first task | `worker.py:39-40` |
| `doc_queued` | a queued step is claimed by nobody: the worker takes pending and retrying ones | `executor.py:10-11` |

Consequences and limits met while modelling, without a run of their own. Of the engine,
the runs and the board:

- The `break` after a tripped migration gate leaves only the loop over the tools
  (`runtime.py:295`): the run goes on with its next step, though the row says
  awaiting_approval. `docs/agent-runtime.md:121` has "if gate.trip: pause run, return".
- `doc_exclusive` is why some of the proofs assume `[]Apart`.
- A cancelled process or step is overwritten by an executor, or by a handler, that loaded
  it earlier: `mark_step_completed`, `mark_step_failed`, `start_process` and
  `_enqueue_downstream` assign `step.status` without `can_transition_step`, and
  `transition_process` (`state.py:89`) judges the status its session loaded.
  `state.py:45-47` and `:56-59` mark these statuses `# terminal`.
- `_enqueue_downstream` is to "Mark downstream steps as ready if all their upstreams are
  done" (`executor.py:195`), but may look at a row its session has kept since before the
  agent ran. With A -> B, A -> C, B -> C, B may begin while A runs (above) and keeps
  A's row as "running"; A completes and sees B unfinished; B completes, asks for A's
  row, and is answered with the one it kept: neither queues C. `NoLostWakeup` without
  `blind` is violated in `wf_fanin`.
- An error that escapes `execute` is swallowed (`worker.py:62`) and leaves the row running
  with no task behind it, as a crash does.
- A database error inside a step of an agent run is caught (`runtime.py:332`), but the
  session is not rolled back, so the last commit (`:348`) raises and the row says running
  for ever. So does a commit of `_ensure_conversation` that raises after the row is there.
- Two `add_dependency` requests that overlap can close a cycle, `board` with a second
  linker. No route calls `add_dependency`.
- A late commit of a task transition overwrites a done task although
  `task_service.py` calls done terminal: a lost update of the same kind as that of a
  cancelled process.
- `transition_status` never asks `is_task_blocked`, so the order `models/task.py:103`
  describes ("blocker_id must be done before blocked_id can start") is not enforced;
  `SomeTaskCanStart` is about the graph.
- After a crash nothing reclaims a step row that says running; a run that startup marks
  interrupted is refused by `/resume`, which takes awaiting_approval, paused and stuck
  (`main.py:51`, `agent/api/routes.py`); `cleanup_task` is never started.
- An early return of `execute` skips the finalisation, so a process whose last step
  fails that way stays running; the `step.failed` event may be lost.
- `worker.py:3` says that each process starts a worker on startup; nothing does.
- `cancel_process` leaves paused steps as they are, and steps of a process cancelled
  before its second commit are created pending.
- A draft's steps are pending and so are claimed before the process is started.
- The latest checkpoint is not the newest: a resumed loop counts from 0 again and
  `load_latest_checkpoint` ("Return the most recent checkpoint") takes the one
  with the highest step (`checkpoint.py:77`, `:81`).
- The circuit breaker keeps one tripped name. In one answer, tool A fails to the limit,
  then B does, then B succeeds: the breaker is clear, though A has failed as often in a
  row as `safety.py:48` asks ("Trip after N consecutive failures of the same tool
  name"). This is why `AskedWithinLimits` does not speak of `failures`; added to it, TLC
  finds that trace in `al_core`.
- `safety.py:3-4` has the loop check the guards after every tool execution and after
  every LLM call; it checks them once, after all calls of an answer (`runtime.py:301`).
- A migration has run when its gate is asked (`runtime.py:285`);
  `docs/agent-runtime.md:120-122` shows the gate before the tool.
- A command that succeeds ends its batch (`runtime.py:295`): the calls behind it are
  neither run nor answered.
- A call of a tool that is not registered ends the run with an error: `_execute_tool`
  answers it with a failed result, but `self.tools[tc.name]` then raises `KeyError`
  (`runtime.py:280`).
- `trim` keeps the system messages and the end of the conversation: the user's request
  is the first thing it drops. An answer with 30 or more calls, which nothing forbids, is
  parted from its results: the LLM is shown results alone (`AnswerKept`).
  `maybe_summarize`, called after it, never has enough messages to act on in a fresh run.
- The cycle nodes `dag.py` reports include nodes that only lie behind a cycle: they are the
  largest set of steps that wait for each other (`VerdictRight`).

Of the conversation:

- A run resumed before its first checkpoint (step 5) shows the LLM a fresh prompt:
  `runtime.py:135` reloads the conversation only if a checkpoint exists, while
  `checkpoint.py:17-18` and `memory.py:312-315` promise the conversation. `ApprovalKept`
  is therefore about loops that found one.
- The order stored is not the order written: an answer is numbered by its step, the
  rest by the length of a list that `trim` cuts, and a resumed loop counts from 1 again.
  From the third step after what is left of a long list (33 with the code's 30, and 29
  where many reloaded system messages bring `maybe_summarize` in), an answer ties
  with its results or comes after them. `branch` copies everything with sequence 0.
- `save_checkpoint`'s failure is called non-fatal (`runtime.py:213-214`) but leaves the
  session without a rollback, so the next commit fails.
- `token_aware_trim` drops nothing when nothing fits; no code calls it.

Of the LLM client and the budget:

- `litellm_client.py` uses `logger` without importing `logging`. The runtime passes no
  `org_id` to `completion`, so entries are shared by all organisations, though `cache.py:15` says they are not.
  A hit counts in the run's budget and not in `token_usage`. An answer is cached though
  the callback is missing or has failed (`:206-210`), so nothing says that what is served
  was ever accounted for.
- `record` (`agent/api/routes.py:55`) inserts a `TokenUsage` without `user_id`,
  `api_key_id` and `provider`, which the table declares NOT NULL; the error is
  swallowed (`litellm_client.py:209`) and the session needs a rollback that nobody
  does. `budget.py:98` passes `metadata=` where the column is `meta`.

Of the services:

- The migration `6c1333a26530:73` declares "org memberships: one membership per
  (org, user)" and `b77518bfd34b:104-107` drops the index: a second accepted invitation
  adds a second row, after which `scalar_one_or_none` (`orgs.py:53-60`) raises for that member.
- A lost answer to a refresh logs the browser out: the rotation is committed first.
- Two requests that overlap, or two servers, leave the job of a disabled schedule.
  `reload_all_schedules` is never called, so a restart forgets all jobs, and the trigger
  is a stub.
- Every write of a platform setting adds a row, since the unique index does not compare
  NULLs; `get_setting` then raises.
- The page shows the setting of an org of the token (`settings.py:31-36`), a run uses that
  of the org in its request (`agent/api/routes.py:85`), which may be another or none; and
  a user's own row is shown where an org enforces its model. `ShownIsUsed` says where the
  two agree.
- `model_resolver.py:11-12` gives an enforced setting the last word; only an org's is asked
  for its flag, a platform's is not.
- Comments' and transitions' notices are lost if the server dies between the two
  commits; `create_subtask` tells nobody.
- Two patches of one file in one call are cut from the same original: the last wins
  (`apply_patch.py:97-124`). The fuzzy match counts non-space characters against an
  index into collapsed text (`_find_substring`) and replaces as many characters as
  the old text has, so from the third word on it replaces the wrong stretch, though
  `edit_file` says "Whitespace differences are tolerated".
- A Go or Rust test run has a name (`runner.py:44`) and no adapter: the row stays running
  for ever, as it does when the server dies. Output of skipped tests only is "errored", and so is exit code 0 without a
  summary, though `adapters/python.py:35` says 'Falls back to "passed"'. The node adapters
  match only if passes come first, so a failing run is "errored" with zero counts. The
  agent's tool takes the first numbers anywhere and calls exit code 5 a success; it does
  not read the singular (`run_tests.py:22`), so that "1 passed, 1 error" is a success
  to it and "errored" to the adapter.
- Two overlapping first listings store each default template twice, after which every
  listing raises. Overlapping creations repeat a todo's number; an overlapped update
  that wishes what it saw writes nothing. Two requests with one reset token may both
  set the password.
- A client that left is noticed at the next event; a slow one loses events. No code under
  `backend/app` calls `broadcast`.

## 7. What is not modelled

- *Data*: step outputs, prompts, template text, messages, file contents, tokens.
- *Read-only endpoints, logging, metrics*: nothing else reads what they produce.
- *Exceptions outside `AgentLoop.run`'s `try`* are those of its commits (`CommitRaises`);
  the others, such as a database that is gone, are covered as `LoopDies`.
- *`process_events`*: see section 2.
- *Which row an identity map answers for* is modelled only where it decides something:
  `SeenStatus` in `Workflow`, `Written` in `AgentRun`.
- *`create_subtask`'s tree*: a parent is set at the insert and never changed.
- *Code that only tests call*: the composite router
  and the tiers, `add_test_records` and flakiness, `gather_with_limit`,
  `has_unfinished_upstreams`, `reload_all_schedules`.
- *Envelopes*: `run_subagent` and `ask_user` only answer a record.
- Static tables (roles, prompts, templates), declarations (models, schemas,
  migrations), numeric kernels (`intelligence/`) and the client (`frontend/`).

## 8. Plan

Done, in the order of importance to the system:

1. `Workflow`: the engine; `AgentRun`: the run's status; `Dag`, `Kahn`, `TaskBoard`.
2. Their inductive invariants and proofs, all of their safety properties included.
3. `WorkQueue`, refined by `Workflow`, with the simulation proved.
4. `AgentLoop`: guards, budget, gate and context of one loop, refining `AgentRun`; all of
   its properties proved.
5. `Conversation`, and the parts around the engine, in `Services`; the invariants of
   all fifteen parts proved.

What is left:

- Which endings of a run the process around it reports: the link between `AgentRun`'s
  statuses and the two outcomes `Workflow` knows is by hand.
