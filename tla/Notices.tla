------------------------------ MODULE Notices ------------------------------
(***************************************************************************)
(* Who is told what about a task: the assignee, the comments and the rows  *)
(* of notifications that backend/app/workflow/task_service.py writes, for  *)
(* the requests of workflow/api/task_routes.py and the subtasks of         *)
(* task_subdeps.py.  A handler commits its change and then, in a commit of *)
(* its own, the notifications -- but update does both in one.              *)
(***************************************************************************)
CONSTANTS
    Tasks, Users,
    Nobody,         \* no assignee
    Requests        \* one-shot; a request also names its comment

\* What is assumed of the constants.
NobodyAssumption == Nobody \notin Users

VARIABLES
    task,           \* rows: {[creator, assignee, by]}, or {}; by made the assignment
    subtask,        \* tasks with a parent_id
    comment,        \* rows of task_comments: <<task, request>>
    notice,         \* rows of notifications, with read_at as "read"
    request         \* [op, by, of, tell, at] of each request

vars == <<task, subtask, comment, notice, request>>

Kind == {"assigned", "done", "commented"}
Op == {"none", "create", "update", "done", "comment"}

Row == [creator : Users, assignee : Users \cup {Nobody}, by : Users]
Notice == [user : Users, of : Tasks, kind : Kind, from : Requests, read : BOOLEAN]
Request == [op : Op, by : {{}} \cup {{u} : u \in Users}, of : {{}} \cup {{t} : t \in Tasks},
            tell : SUBSET Users, at : {"start", "loaded", "committed", "over", "died"}]

TypeOK ==
    /\ \A t \in Tasks : task[t] \subseteq Row
    /\ subtask \subseteq Tasks
    /\ comment \subseteq Tasks \X Requests
    /\ notice \subseteq Notice
    /\ request \in [Requests -> Request]

Init ==
    /\ task = [t \in Tasks |-> {}]
    /\ subtask = {}
    /\ comment = {}
    /\ notice = {}
    /\ request = [r \in Requests |-> [op |-> "none", by |-> {}, of |-> {}, tell |-> {},
                                      at |-> "start"]]

\* Request r, of user a.
Begin(r, a, op, t, tell, at) ==
    /\ request[r].at = "start"
    /\ request' = [request EXCEPT ![r] =
           [op |-> op, by |-> {a}, of |-> {t}, tell |-> tell, at |-> at]]

Go(r, at) == request' = [request EXCEPT ![r].at = at]

Is(r, op, t, at) == request[r].op = op /\ request[r].of = {t} /\ request[r].at = at

\* create_notification, for each of the users but the one who asks.
Told(r, t, kind, users) ==
    notice \cup [user : (users \cap Users) \ request[r].by, of : {t}, kind : {kind},
                 from : {r}, read : {FALSE}]

Watchers(t) == Users \cap UNION {{row.creator, row.assignee} : row \in task[t]}

-----------------------------------------------------------------------------
(* Tasks *)

\* create: the task, then the audit entry and the notification.
Create(r, a, t, u) ==
    /\ task[t] = {}
    /\ task' = [task EXCEPT ![t] = {[creator |-> a, assignee |-> u, by |-> a]}]
    /\ Begin(r, a, "create", t, {u} \cap Users, "committed")
    /\ UNCHANGED <<subtask, comment, notice>>

\* create_subtask tells nobody.
CreateSubtask(r, a, t, parent, u) ==
    /\ task[t] = {} /\ task[parent] # {}
    /\ task' = [task EXCEPT ![t] = {[creator |-> a, assignee |-> u, by |-> a]}]
    /\ subtask' = subtask \cup {t}
    /\ Begin(r, a, "create", t, {}, "over")
    /\ UNCHANGED <<comment, notice>>

\* update loads the row; the assignee is set only if the copy has another.
Load(r, a, t, u) ==
    /\ \E row \in task[t] : row.assignee # u
    /\ Begin(r, a, "update", t, {u}, "loaded")
    /\ UNCHANGED <<task, subtask, comment, notice>>

\* Fault: the one who loses the task is told.
Assigned_Loser(r, t) == Told(r, t, "assigned", {row.assignee : row \in task[t]})

Assigned(r, t) == Told(r, t, "assigned", request[r].tell)

\* The assignment and its notification are one commit.
Assign(r, t) ==
    /\ Is(r, "update", t, "loaded")
    /\ \E row \in task[t], a \in request[r].by, u \in request[r].tell :
           task' = [task EXCEPT ![t] = {[row EXCEPT !.assignee = u, !.by = a]}]
    /\ notice' = Assigned(r, t)
    /\ Go(r, "over")
    /\ UNCHANGED <<subtask, comment>>

\* transition_status: whom it tells is read by the refresh after its commit.
\* (Which transitions there are is TaskBoard's.)
Transition(r, a, t) ==
    /\ task[t] # {}
    /\ Begin(r, a, "done", t, Watchers(t), "committed")
    /\ UNCHANGED <<task, subtask, comment, notice>>

\* add_comment loads the task, and tells the watchers of that moment.
LoadComment(r, a, t) ==
    /\ task[t] # {}
    /\ Begin(r, a, "comment", t, Watchers(t), "loaded")
    /\ UNCHANGED <<task, subtask, comment, notice>>

AddComment(r, t) ==
    /\ Is(r, "comment", t, "loaded")
    /\ comment' = comment \cup {<<t, r>>}
    /\ Go(r, "committed")
    /\ UNCHANGED <<task, subtask, notice>>

\* The second commit of create, transition_status and add_comment.
Notify(r, t) ==
    /\ \/ Is(r, "create", t, "committed") /\ notice' = Told(r, t, "assigned", request[r].tell)
       \/ Is(r, "done", t, "committed") /\ notice' = Told(r, t, "done", request[r].tell)
       \/ Is(r, "comment", t, "committed") /\ notice' = Told(r, t, "commented", request[r].tell)
    /\ Go(r, "over")
    /\ UNCHANGED <<task, subtask, comment>>

\* The server stops, or the audit's own session raises, between the two.
Dies(r) ==
    /\ request[r].at \in {"loaded", "committed"}
    /\ Go(r, "died")
    /\ UNCHANGED <<task, subtask, comment, notice>>

-----------------------------------------------------------------------------
(* Notifications *)

\* mark_notification_read, of one's own.
Read(n) ==
    /\ n \in notice
    /\ notice' = (notice \ {n}) \cup {[n EXCEPT !.read = TRUE]}
    /\ UNCHANGED <<task, subtask, comment, request>>

\* mark_all_read: those the query finds.
ReadAll(u) ==
    /\ notice' = {IF n.user = u THEN [n EXCEPT !.read = TRUE] ELSE n : n \in notice}
    /\ UNCHANGED <<task, subtask, comment, request>>

Next ==
    \/ \E r \in Requests, t \in Tasks :
           \/ \E a \in Users :
                  \/ \E u \in Users \cup {Nobody} :
                         \/ Create(r, a, t, u)
                         \/ \E parent \in Tasks : CreateSubtask(r, a, t, parent, u)
                  \/ \E u \in Users : Load(r, a, t, u)
                  \/ Transition(r, a, t)
                  \/ LoadComment(r, a, t)
           \/ Assign(r, t) \/ AddComment(r, t) \/ Notify(r, t)
    \/ \E r \in Requests : Dies(r)
    \/ \E n \in notice : Read(n)
    \/ \E u \in Users : ReadAll(u)

Spec == Init /\ [][Next]_vars

-----------------------------------------------------------------------------
(* Properties *)

\* However assignments, comments and transitions overlap, whoever holds a task
\* that another gave him has been told so, unless it is a subtask, or the request
\* that created it is not over or died between its two commits
\* (task_service.py: create, update).
AssigneeTold ==
    \A t \in Tasks \ subtask : \A row \in task[t] :
        row.assignee \notin {Nobody, row.by} =>
            \/ \E n \in notice : n.user = row.assignee /\ n.of = t /\ n.kind = "assigned"
            \/ \E r \in Requests : Is(r, "create", t, "committed") \/ Is(r, "create", t, "died")

=============================================================================
