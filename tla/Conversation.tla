---------------------------- MODULE Conversation ----------------------------
(***************************************************************************)
(* The stored messages of one agent run and the lists its loops keep of    *)
(* them: the sequence numbers runtime.py computes, the checkpoint, what    *)
(* POST /runs/{id}/resume adds and what a resumed loop reloads.  A message *)
(* is known by its place in rows, the order in which they were inserted.   *)
(* Of a list matters which stored system messages it holds and how long    *)
(* it is: the numbers are computed from its length.                        *)
(***************************************************************************)
EXTENDS Naturals, Sequences, FiniteSets

CONSTANTS
    Loops,          \* loops that may run at the same time
    MaxSteps,       \* max_steps of a loop
    MaxMessages,    \* trim's max_messages
    Threshold,      \* maybe_summarize's threshold
    Every,          \* CHECKPOINT_EVERY_N_STEPS
    MaxBatch,       \* bound: tool calls of an answer
    MaxRows         \* bound: stored messages

\* What is assumed of the constants.
BoundsAssumption ==
    /\ {MaxSteps, MaxMessages, Threshold, Every} \subseteq Nat \ {0}
    /\ {MaxBatch, MaxRows} \subseteq Nat

VARIABLES
    rows,           \* conversation_messages
    status,         \* agent_runs.status
    saved,          \* agent_run_checkpoints has a row of the run
    loop

vars == <<rows, status, saved, loop>>

Row == [role : {"system", "user", "assistant", "tool"},
        seq : Nat,              \* sequence
        of : Nat]               \* tool_call_id: the answer that asked, or 0

\* Every status POST /runs/{id}/resume accepts is "resumable", the last ones "over".
Status == {"absent", "running", "resumable", "over"}

\* messages: the stored system messages, the summaries, and how many others.
List == [system : SUBSET (1..MaxRows), summaries : Nat, talk : Nat]

LoopState ==
    [pc : {"idle", "resuming", "entering", "opening", "top", "llm", "tools", "gated"},
     steps : 0..MaxSteps,
     list : List,
     known : BOOLEAN,           \* resume_state is not empty
     next : Nat,                \* resume_run's next_seq
     approval : 0..MaxRows,     \* the [RESUMED] message of its request, if any
     answer : 0..MaxRows,       \* the answer whose calls are run
     asked : 0..MaxBatch,       \* its calls still to be run
     waits : BOOLEAN]           \* finish_reason is awaiting_approval

Idle == [pc |-> "idle", steps |-> 0, list |-> [system |-> {}, summaries |-> 0, talk |-> 0],
         known |-> FALSE, next |-> 0, approval |-> 0, answer |-> 0, asked |-> 0,
         waits |-> FALSE]

TypeOK ==
    /\ rows \in Seq(Row)
    /\ Len(rows) <= MaxRows
    /\ status \in Status
    /\ saved \in BOOLEAN
    /\ loop \in [Loops -> LoopState]

Init ==
    /\ rows = <<>>
    /\ status = "absent"
    /\ saved = FALSE
    /\ loop = [l \in Loops |-> Idle]

-----------------------------------------------------------------------------
(* The stored messages *)

Stored(role, seq, of) == [role |-> role, seq |-> seq, of |-> of]

System == {i \in DOMAIN rows : rows[i].role = "system"}

\* All of them.  In which order the database gives equal numbers is open, and no
\* matter here.
Reading ==
    [system |-> System, summaries |-> 0, talk |-> Cardinality(DOMAIN rows \ System)]

\* coalesce(max(sequence), 0)
Highest == {n \in {0} \cup {rows[i].seq : i \in DOMAIN rows} :
                \A i \in DOMAIN rows : rows[i].seq <= n}

-----------------------------------------------------------------------------
(* Starting and resuming *)

\* Conversation and run are committed before the first messages.
Start(l) ==
    /\ status = "absent"
    /\ status' = "running"
    /\ loop' = [loop EXCEPT ![l] = [Idle EXCEPT !.pc = "opening"]]
    /\ UNCHANGED <<rows, saved>>

\* resume_run judges the status and looks for the highest number ...
ResumeRead(l) ==
    /\ loop[l].pc = "idle"
    /\ status = "resumable"
    /\ \E n \in Highest :
           loop' = [loop EXCEPT ![l] = [Idle EXCEPT !.pc = "resuming", !.next = n + 1]]
    /\ UNCHANGED <<rows, status, saved>>

\* ... and commits the [RESUMED] message with the status.
ResumeCommit(l) ==
    /\ loop[l].pc = "resuming"
    /\ Len(rows) < MaxRows
    /\ rows' = Append(rows, Stored("system", loop[l].next, 0))
    /\ loop' = [loop EXCEPT ![l].pc = "entering", ![l].next = 0,
                            ![l].approval = Len(rows) + 1]
    /\ status' = "running"
    /\ UNCHANGED saved

\* POST /converse with the ids of the run: any status, no message.
Converse(l) ==
    /\ loop[l].pc = "idle"
    /\ status # "absent"
    /\ loop' = [loop EXCEPT ![l] = [Idle EXCEPT !.pc = "entering"]]
    /\ UNCHANGED <<rows, status, saved>>

\* _ensure_conversation: the state of the checkpoint with the highest step, of
\* which only the presence decides anything.  A session that holds "running"
\* already does not write it.
Enter(l) ==
    /\ loop[l].pc = "entering"
    /\ loop' = [loop EXCEPT ![l].pc = "opening", ![l].known = saved]
    /\ status' \in {status, "running"}
    /\ UNCHANGED <<rows, saved>>

\* Without a checkpoint a resumed loop stores a first prompt again.
Open(l) ==
    /\ loop[l].pc = "opening"
    /\ ~loop[l].known
    /\ Len(rows) + 2 <= MaxRows
    /\ rows' = rows \o <<Stored("system", 0, 0), Stored("user", 1, 0)>>
    /\ loop' = [loop EXCEPT ![l].pc = "top",
                            ![l].list = [system |-> {Len(rows) + 1}, summaries |-> 0, talk |-> 1]]
    /\ UNCHANGED <<status, saved>>

\* load_conversation
Reload(l) ==
    /\ loop[l].pc = "opening"
    /\ loop[l].known
    /\ loop' = [loop EXCEPT ![l].pc = "top", ![l].list = Reading]
    /\ UNCHANGED <<rows, status, saved>>

-----------------------------------------------------------------------------
(* A step *)

Length(list) == Cardinality(list.system) + list.summaries + list.talk

Least(m, n) == IF m <= n THEN m ELSE n

\* Fault: system messages are dropped with the others.
Trimmed_All(list) ==
    IF Length(list) <= MaxMessages THEN list
    ELSE [system |-> {}, summaries |-> 0, talk |-> Least(list.talk, MaxMessages)]

\* trim
Trimmed(list) ==
    IF Length(list) <= MaxMessages THEN list
    ELSE [list EXCEPT !.talk = Least(@, MaxMessages)]

\* maybe_summarize: half a threshold of the oldest gives way to one system message.
Summarized(list) ==
    IF Length(list) <= Threshold THEN list
    ELSE [list EXCEPT !.summaries = @ + 1,
                      !.talk = @ - Least(@, Threshold \div 2)]

More(l) == loop[l].steps < MaxSteps

\* save_checkpoint's error is caught, but leaves the session unusable: the loop
\* then fails in its last commit too, as if the server had died (Dies).
NextStep(l) ==
    /\ loop[l].pc = "top"
    /\ More(l)
    /\ loop' = [loop EXCEPT ![l].pc = "llm", ![l].steps = @ + 1,
                            ![l].list = Summarized(Trimmed(@))]
    /\ saved' = (saved \/ (loop[l].steps + 1) % Every = 0)
    /\ UNCHANGED <<rows, status>>

\* _persist_assistant numbers an answer by its step.
Answer(l) ==
    /\ loop[l].pc = "llm"
    /\ Len(rows) < MaxRows
    /\ rows' = Append(rows, Stored("assistant", loop[l].steps, 0))
    /\ \E n \in 1..MaxBatch :
           loop' = [loop EXCEPT ![l].pc = "tools", ![l].asked = n,
                                ![l].answer = Len(rows) + 1, ![l].list.talk = @ + 1]
    /\ UNCHANGED <<status, saved>>

\* Fault: numbered like the answer.
Number_Step(l) == loop[l].steps

\* Everything else is numbered by the length of the list it has joined.
Number(l) == Length(loop[l].list) + 1

\* A tool's result; a migration's trips the gate.
Result(l) ==
    /\ loop[l].pc = "tools"
    /\ loop[l].asked > 0
    /\ Len(rows) < MaxRows
    /\ rows' = Append(rows, Stored("tool", Number(l), loop[l].answer))
    /\ \E pc \in {"tools", "gated"} :
           loop' = [loop EXCEPT ![l].pc = pc, ![l].asked = @ - 1, ![l].list.talk = @ + 1]
    /\ UNCHANGED <<status, saved>>

\* The gate's message and status; the calls left are dropped.
Gate(l) ==
    /\ loop[l].pc = "gated"
    /\ Len(rows) < MaxRows
    /\ rows' = Append(rows, Stored("system", Number(l), 0))
    /\ loop' = [loop EXCEPT ![l].pc = "tools", ![l].asked = 0, ![l].waits = TRUE,
                            ![l].list.system = @ \cup {Len(rows) + 1}]
    /\ status' = "resumable"
    /\ UNCHANGED saved

\* All calls have run, or a command has and dropped the rest of them.
Ran(l) == \E i \in DOMAIN rows : rows[i].of = loop[l].answer

StepEnds(l) ==
    /\ loop[l].pc = "tools"
    /\ Ran(l)
    /\ loop' = [loop EXCEPT ![l].pc = "top", ![l].asked = 0, ![l].answer = 0]
    /\ UNCHANGED <<rows, status, saved>>

\* A guard trips and leaves its guidance.
Trip(l) ==
    /\ loop[l].pc = "tools"
    /\ Ran(l)
    /\ Len(rows) < MaxRows
    /\ rows' = Append(rows, Stored("system", Number(l), 0))
    /\ loop' = [loop EXCEPT ![l] = Idle]
    /\ status' = "over"
    /\ UNCHANGED saved

\* The loop ends: no steps left, an answer without calls, a finish or an error.
\* The gate's status stands only in the first case; it is not written again.
Finish(l) ==
    /\ loop[l].pc \in {"top", "llm", "tools", "gated"}
    /\ loop[l].pc = "top" => ~More(l)
    /\ status' = IF loop[l].pc = "top" /\ loop[l].waits THEN status ELSE "over"
    /\ loop' = [loop EXCEPT ![l] = Idle]
    /\ UNCHANGED <<rows, saved>>

Dies(l) ==
    /\ loop[l].pc # "idle"
    /\ loop' = [loop EXCEPT ![l] = Idle]
    /\ UNCHANGED <<rows, status, saved>>

\* mark_stuck_runs
MarkStuck ==
    /\ status = "running"
    /\ status' = "resumable"
    /\ UNCHANGED <<rows, saved, loop>>

Next ==
    \/ MarkStuck
    \/ \E l \in Loops :
           \/ Start(l) \/ ResumeRead(l) \/ ResumeCommit(l) \/ Converse(l)
           \/ Enter(l) \/ Open(l) \/ Reload(l)
           \/ NextStep(l) \/ Answer(l) \/ Result(l) \/ Gate(l)
           \/ StepEnds(l) \/ Trip(l) \/ Finish(l) \/ Dies(l)

Spec == Init /\ [][Next]_vars

-----------------------------------------------------------------------------
(* Properties *)

\* What trim and maybe_summarize leave of a long list, system prompt apart.
Kept == Least(MaxMessages, Threshold + 1 - Threshold \div 2)

\* An export or a reload, whatever it does with equal numbers, has the results
\* of one answer in the order the calls ran, and after the answer as long as the
\* step is not far above what is kept of a list: the two counters the numbers come
\* from, steps and the length of a list that is cut, meet at Kept + 3.
ResultsFollow ==
    \A i \in DOMAIN rows :
        rows[i].role = "tool" =>
            LET a == rows[i].of
            IN  /\ rows[a].seq < Kept + 3 => rows[a].seq < rows[i].seq
                /\ \A j \in 1..(i - 1) : rows[j].of = a => rows[j].seq < rows[i].seq

\* The LLM is given the message that resumed the loop, and every prompt, guidance
\* and approval stored before it.
Seen(l) ==
    \A i \in 1..loop[l].approval : rows[i].role = "system" => i \in loop[l].list.system

\* A resumed loop that found a checkpoint shows the LLM its approval in every
\* step, however long the conversation and however other loops write to it.
ApprovalKept ==
    \A l \in Loops : loop[l].pc = "llm" /\ loop[l].known => Seen(l)

=============================================================================
