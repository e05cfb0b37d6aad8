----------------------------- MODULE Schedules -----------------------------
(***************************************************************************)
(* The cron schedules of backend/app/workflow/scheduler.py: a row of       *)
(* scheduled_processes and a job in the memory of each server that handled *)
(* a request about it.  A handler commits the row first and then touches   *)
(* the jobs of its own server.  reload_all_schedules, which would rebuild  *)
(* the jobs, is called by nobody, and a job that fires only logs.          *)
(***************************************************************************)
CONSTANTS
    Schedules,
    Valid,          \* those whose cron_expr CronTrigger accepts
    Servers,
    Requests        \* one-shot

\* What is assumed of the constants.
ValidAssumption == Valid \subseteq Schedules

VARIABLES
    row,            \* "none", "on" or "off" (the column enabled), "deleted"
    job,            \* <<server, schedule>> of the jobs
    request,        \* [op, of, server, at] of each request
    mixed,          \* schedules on which requests overlapped or servers mixed
    forgotten       \* schedules whose server restarted

vars == <<row, job, request, mixed, forgotten>>

Op == {"none", "enabled", "disabled", "delete"}
At == {"start", "same", "loaded", "committed", "over"}

Fresh(r) == request[r].at = "start"
Running(r) == request[r].at \in {"same", "loaded", "committed"}

TypeOK ==
    /\ row \in [Schedules -> {"none", "on", "off", "deleted"}]
    /\ job \subseteq Servers \X Schedules
    /\ request \in [Requests -> [op : Op, of : {{}} \cup {{k} : k \in Schedules},
                                 server : {{}} \cup {{s} : s \in Servers}, at : At]]
    /\ mixed \subseteq Schedules
    /\ forgotten \subseteq Schedules

Init ==
    /\ row = [k \in Schedules |-> "none"]
    /\ job = {}
    /\ request = [r \in Requests |-> [op |-> "none", of |-> {}, server |-> {}, at |-> "start"]]
    /\ mixed = {}
    /\ forgotten = {}

Begin(r, op, k, s, at) ==
    /\ Fresh(r)
    /\ request' = [request EXCEPT ![r] = [op |-> op, of |-> {k}, server |-> {s}, at |-> at]]
    /\ mixed' = IF \E q \in Requests : request[q].of = {k}
                                           /\ (Running(q) \/ request[q].server # {s})
                  THEN mixed \cup {k}
                  ELSE mixed

Go(r, at) == request' = [request EXCEPT ![r].at = at]

Status(op) == IF op = "enabled" THEN "on" ELSE "off"

\* create_schedule commits the row.
Create(r, op, k, s) ==
    /\ row[k] = "none"
    /\ row' = [row EXCEPT ![k] = Status(op)]
    /\ Begin(r, op, k, s, "committed")
    /\ UNCHANGED <<job, forgotten>>

\* set_schedule_enabled loads the row; without one it is over.
Load(r, op, k, s) ==
    /\ row[k] \in {"on", "off"}
    /\ Begin(r, op, k, s, IF row[k] = Status(op) THEN "same" ELSE "loaded")
    /\ UNCHANGED <<row, job, forgotten>>

\* Its commit: no UPDATE if the copy already said so, and an UPDATE of a row
\* deleted meanwhile raises.
Commit(r, k) ==
    /\ request[r].of = {k} /\ request[r].at \in {"same", "loaded"}
    /\ row' = IF request[r].at = "loaded" /\ row[k] # "deleted"
                 THEN [row EXCEPT ![k] = Status(request[r].op)]
                 ELSE row
    /\ Go(r, IF request[r].at = "loaded" /\ row[k] = "deleted" THEN "over" ELSE "committed")
    /\ UNCHANGED <<job, mixed, forgotten>>

\* delete_schedule commits the DELETE, of a row or of none.
Delete(r, k, s) ==
    /\ row[k] # "none"
    /\ row' = [row EXCEPT ![k] = "deleted"]
    /\ Begin(r, "delete", k, s, "committed")
    /\ UNCHANGED <<job, forgotten>>

\* The jobs after a request: an invalid cron_expr is only logged.
Jobs(r, k, s) ==
    CASE request[r].op = "enabled" /\ k \in Valid -> job \cup {<<s, k>>}
      [] request[r].op \in {"disabled", "delete"} -> job \ {<<s, k>>}
      [] OTHER -> job

\* After the commit, the handler adds or removes the job on its server.
Apply(r, k, s) ==
    /\ request[r].of = {k} /\ request[r].server = {s} /\ request[r].at = "committed"
    /\ job' = Jobs(r, k, s)
    /\ Go(r, "over")
    /\ UNCHANGED <<row, mixed, forgotten>>

\* A server restarts: its jobs and its requests are gone.
Restart(s) ==
    /\ \E r \in Requests : request[r].server = {s}
    /\ job' = {j \in job : j[1] # s}
    /\ request' = [r \in Requests |-> IF request[r].server = {s}
                                        THEN [request[r] EXCEPT !.at = "over"]
                                        ELSE request[r]]
    /\ forgotten' = forgotten \cup {k \in Schedules :
                         \E r \in Requests : request[r].server = {s} /\ request[r].of = {k}}
    /\ UNCHANGED <<row, mixed>>

Next ==
    \/ \E r \in Requests, k \in Schedules, s \in Servers :
           \/ \E op \in {"enabled", "disabled"} : Create(r, op, k, s) \/ Load(r, op, k, s)
           \/ Delete(r, k, s)
           \/ Commit(r, k)
           \/ Apply(r, k, s)
    \/ \E s \in Servers : Restart(s)

Spec == Init /\ [][Next]_vars

-----------------------------------------------------------------------------
(* Properties *)

\* Requests that come one after the other to one server leave its jobs as the
\* rows say: a job only for an enabled schedule, whatever a restart cut short,
\* and one for every enabled schedule with a valid cron_expr that no restart has
\* forgotten (scheduler.py: the commit, then add_job or remove_job).  With
\* overlapping requests, or two servers, a disabled schedule keeps its job.
JobsFollowRows ==
    \A k \in Schedules \ mixed :
        (\A r \in Requests : request[r].of = {k} => ~Running(r)) =>
            /\ \A s \in Servers : <<s, k>> \in job => row[k] = "on"
            /\ row[k] = "on" /\ k \in Valid \ forgotten => \E s \in Servers : <<s, k>> \in job

=============================================================================
