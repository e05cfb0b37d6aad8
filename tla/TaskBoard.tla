----------------------------- MODULE TaskBoard -----------------------------
(***************************************************************************)
(* The tasks of backend/app/workflow/task_service.py and task_subdeps.py:  *)
(* the status of each row, moved by requests that work on the copy their   *)
(* session loaded, and the dependencies, added by requests that judge the  *)
(* graph before they insert an edge.                                       *)
(***************************************************************************)
EXTENDS Dag

CONSTANTS
    Tasks,          \* task ids
    Editors,        \* transition requests in progress
    Linkers         \* add_dependency requests in progress

VARIABLES
    status,         \* tasks.status, "absent" before the insert
    stamped,        \* tasks.completed_at is not NULL
    deps,           \* task_dependencies: <<blocker, blocked>>
    editor,         \* what each transition request will commit: {edit}, or {}
    linker          \* what each add_dependency will insert: {edge}, or {}

vars == <<status, stamped, deps, editor, linker>>

TaskStatus == {"todo", "in_progress", "review", "done", "cancelled"}

Allowed ==
    [from \in TaskStatus |->
        CASE from = "todo" -> {"in_progress", "cancelled"}
          [] from = "in_progress" -> {"review", "todo", "cancelled"}
          [] from = "review" -> {"in_progress", "done", "cancelled"}
          [] from = "done" -> {}
          [] from = "cancelled" -> {"todo"}]

\* A request: its task, the completed_at it loaded, the status it will set.
Edit == [task : Tasks, stamped : BOOLEAN, to : TaskStatus]

Edges == Tasks \X Tasks

TypeOK ==
    /\ status \in [Tasks -> TaskStatus \cup {"absent"}]
    /\ stamped \in [Tasks -> BOOLEAN]
    /\ deps \subseteq Edges
    /\ editor \in [Editors -> {{}} \cup {{edit} : edit \in Edit}]
    /\ linker \in [Linkers -> {{}} \cup {{edge} : edge \in Edges}]

Init ==
    /\ status = [t \in Tasks |-> "absent"]
    /\ stamped = [t \in Tasks |-> FALSE]
    /\ deps = {}
    /\ editor = [e \in Editors |-> {}]
    /\ linker = [l \in Linkers |-> {}]

Exists(t) == status[t] # "absent"

-----------------------------------------------------------------------------
(* TaskService *)

\* Fault: a status the service does not know.
Default_Open == "open"

Default == "todo"

\* create and create_subtask: one insert.
Create(t) ==
    /\ ~Exists(t)
    /\ status' = [status EXCEPT ![t] = Default]
    /\ UNCHANGED <<stamped, deps, editor, linker>>

\* transition_status loads the task and judges the copy ...
Load(e, t, to) ==
    /\ editor[e] = {}
    /\ Exists(t)
    /\ to \in Allowed[status[t]]
    /\ editor' = [editor EXCEPT ![e] = {[task |-> t, stamped |-> stamped[t], to |-> to]}]
    /\ UNCHANGED <<status, stamped, deps, linker>>

\* Fault: the time is not set.
Stamp_Lost(edit) == stamped[edit.task]

\* completed_at after the commit: set on done; cleared on todo, but only if the
\* copy had it.
Stamp(edit) ==
    CASE edit.to = "done" -> TRUE
      [] edit.to = "todo" /\ edit.stamped -> FALSE
      [] OTHER -> stamped[edit.task]

\* ... and commits, whatever the row says by then.
Commit(e) ==
    /\ \E edit \in editor[e] :
           /\ status' = [status EXCEPT ![edit.task] = edit.to]
           /\ stamped' = [stamped EXCEPT ![edit.task] = Stamp(edit)]
    /\ editor' = [editor EXCEPT ![e] = {}]
    /\ UNCHANGED <<deps, linker>>

-----------------------------------------------------------------------------
(* task_subdeps *)

\* Faults: only the opposite edge is looked for; the new edge is left out.
Admissible_Direct(edge) == <<edge[2], edge[1]>> \notin deps
Admissible_Old(edge) == Acyclic(deps)

\* _would_create_cycle finds no cycle with the new edge: Kahn's verdict.
Admissible(edge) == Acyclic(deps \cup {edge})

\* add_dependency: both tasks exist, the edge is new and closes no cycle ...
Judge(l, edge) ==
    /\ linker[l] = {}
    /\ edge[1] # edge[2]
    /\ Exists(edge[1]) /\ Exists(edge[2])
    /\ edge \notin deps
    /\ Admissible(edge)
    /\ linker' = [linker EXCEPT ![l] = {edge}]
    /\ UNCHANGED <<status, stamped, deps, editor>>

\* ... then the insert; the unique index refuses an edge inserted meanwhile.
Insert(l) ==
    /\ linker[l] # {}
    /\ deps' = deps \cup linker[l]
    /\ linker' = [linker EXCEPT ![l] = {}]
    /\ UNCHANGED <<status, stamped, editor>>

\* remove_dependency: one DELETE.
Remove(edge) ==
    /\ edge \in deps
    /\ deps' = deps \ {edge}
    /\ UNCHANGED <<status, stamped, editor, linker>>

Next ==
    \/ \E t \in Tasks : Create(t)
    \/ \E e \in Editors : (\E t \in Tasks, to \in TaskStatus : Load(e, t, to)) \/ Commit(e)
    \/ \E l \in Linkers : (\E edge \in Edges : Judge(l, edge)) \/ Insert(l)
    \/ \E edge \in Edges : Remove(edge)

Spec == Init /\ [][Next]_vars

-----------------------------------------------------------------------------
(* is_task_blocked: a blocker is still open. *)

Open(t) == status[t] \in {"todo", "in_progress", "review"}

Blocked(t) == \E b \in Tasks : <<b, t>> \in deps /\ Open(b)

(* Properties *)

\* A done task has a completion time, although transitions of one task overlap
\* and each writes the two columns from its own stale copy.
DoneIsStamped == \A t \in Tasks : status[t] = "done" => stamped[t]

\* While dependencies are added one at a time, with removals and transitions in
\* between the judgement and the insert, the graph has no cycle
\* (task_subdeps.py: add_dependency raises "on cycle / self-loop").
DependenciesAcyclic == Acyclic(deps)

\* So the tasks never wait for each other: if a task is open, some open task is
\* not blocked.
SomeTaskCanStart ==
    (\E t \in Tasks : Open(t)) => \E t \in Tasks : Open(t) /\ ~Blocked(t)

=============================================================================
