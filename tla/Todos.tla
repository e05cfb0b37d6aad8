------------------------------- MODULE Todos -------------------------------
(***************************************************************************)
(* The checklist of an agent run: the tools update_todo and list_todos of  *)
(* backend/app/agent/tools/.  A run may have several loops (see AgentRun); *)
(* each call of the tool reads with its loop's session and commits later.  *)
(***************************************************************************)
EXTENDS Naturals, Sequences

CONSTANTS
    Calls,          \* one-shot calls of the tool
    Wished          \* statuses that calls ask for

VARIABLES
    todo,           \* agent_todos, in the order of the inserts: [sequence, status]
    todoCall,       \* [at, of, number, saw, wish]: of is a row's place, 0 to create;
                    \* number or saw is what the call has read
    crossed,        \* two creations have been under way at once
    told            \* of each row the status last answered, or "unsure" once two
                    \* updates of it have overlapped

vars == <<todo, todoCall, crossed, told>>

\* _VALID_STATUSES
Statuses == {"pending", "in_progress", "done", "skipped", "failed"}

\* What is assumed of the constants.
WishedAssumption == Wished \subseteq Statuses

TypeOK ==
    /\ todo \in Seq([sequence : Nat, status : Statuses])
    /\ todoCall \in [Calls -> [at : {"start", "read", "ok", "refused", "died"}, of : Nat,
                               number : Nat, saw : Statuses, wish : Statuses]]
    /\ crossed \in BOOLEAN
    /\ told \in Seq(Statuses \cup {"unsure"}) /\ Len(told) = Len(todo)

Init ==
    /\ todo = <<>>
    /\ todoCall = [c \in Calls |-> [at |-> "start", of |-> 0, number |-> 0,
                                    saw |-> "pending", wish |-> "pending"]]
    /\ crossed = FALSE
    /\ told = <<>>

\* Calls that have read the row, or the numbers, and not yet written.
Under(of) == {c \in Calls : todoCall[c].at = "read" /\ todoCall[c].of = of}

\* Fault: the rows are counted.
NextSequence_Count == Len(todo)

\* The number after the highest.
NextSequence ==
    IF todo = <<>> THEN 0
    ELSE (CHOOSE n \in {todo[i].sequence : i \in DOMAIN todo} :
              \A i \in DOMAIN todo : todo[i].sequence <= n) + 1

ReadNumber(c, wish) ==
    /\ todoCall[c].at = "start"
    /\ todoCall' = [todoCall EXCEPT ![c] = [@ EXCEPT !.at = "read", !.number = NextSequence, !.wish = wish]]
    /\ crossed' = (crossed \/ Under(0) # {})
    /\ UNCHANGED <<todo, told>>

Create(c) ==
    /\ c \in Under(0)
    /\ todo' = Append(todo, [sequence |-> todoCall[c].number, status |-> todoCall[c].wish])
    /\ todoCall' = [todoCall EXCEPT ![c].at = "ok", ![c].of = Len(todo')]
    /\ told' = Append(told, todoCall[c].wish)
    /\ UNCHANGED crossed

\* The row is of another run, or there is none, or the status is unknown.
Refuse(c) ==
    /\ todoCall[c].at = "start"
    /\ todoCall' = [todoCall EXCEPT ![c].at = "refused"]
    /\ UNCHANGED <<todo, crossed, told>>

ReadRow(c, i, wish) ==
    /\ todoCall[c].at = "start"
    /\ todoCall' = [todoCall EXCEPT ![c] = [@ EXCEPT !.at = "read", !.of = i,
                                                     !.saw = todo[i].status, !.wish = wish]]
    /\ told' = IF Under(i) = {} THEN told ELSE [told EXCEPT ![i] = "unsure"]
    /\ UNCHANGED <<todo, crossed>>

\* An UPDATE is sent only for what differs from the copy.
Update(c, i) ==
    /\ c \in Under(i)
    /\ todo' = IF todoCall[c].wish = todoCall[c].saw THEN todo
               ELSE [todo EXCEPT ![i].status = todoCall[c].wish]
    /\ todoCall' = [todoCall EXCEPT ![c].at = "ok"]
    /\ told' = IF told[i] = "unsure" THEN told ELSE [told EXCEPT ![i] = todoCall[c].wish]
    /\ UNCHANGED crossed

Dies(c) ==
    /\ todoCall[c].at = "read"
    /\ todoCall' = [todoCall EXCEPT ![c].at = "died"]
    /\ UNCHANGED <<todo, crossed, told>>

Next ==
    \E c \in Calls :
        \/ \E wish \in Wished :
               \/ ReadNumber(c, wish)
               \/ \E i \in DOMAIN todo : ReadRow(c, i, wish)
        \/ Create(c) \/ Refuse(c) \/ Dies(c)
        \/ \E i \in DOMAIN todo : Update(c, i)

Spec == Init /\ [][Next]_vars

-----------------------------------------------------------------------------
(* Properties *)

\* list_todos shows a list numbered from 0 without a gap, whatever died, and
\* without a repetition unless two creations overlapped; and a row has the status
\* that the last answer told, unless two updates of it overlapped, of which the
\* one that wishes what it saw writes nothing (update_todo.py: _run).
TodosNumbered ==
    /\ {todo[i].sequence : i \in DOMAIN todo} = 0..(NextSequence - 1)
    /\ ~crossed => \A i, j \in DOMAIN todo : todo[i].sequence = todo[j].sequence => i = j
    /\ \A i \in DOMAIN todo : told[i] # "unsure" => todo[i].status = told[i]

=============================================================================
