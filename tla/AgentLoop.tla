----------------------------- MODULE AgentLoop -----------------------------
(***************************************************************************)
(* One call of AgentLoop.run that starts a run: the answers and tool calls *)
(* of each step, the three guards and the token budget of safety.py, the   *)
(* migration gate, and the messages the LLM is given: trim and             *)
(* maybe_summarize put the system messages first, so that their number and *)
(* the sequence of the others say what the LLM reads.                      *)
(***************************************************************************)
EXTENDS Naturals, Sequences

CONSTANTS
    Tools,          \* the registered tools
    Edits,          \* _EDIT_TOOLS
    Mutating,       \* tools with is_mutating
    RunCommand,     \* the run_command tool
    Args,           \* arguments a call may have
    MaxSteps,       \* max_steps of the run
    MaxConsecutive, \* CircuitBreaker's max_consecutive
    ReadLimit,      \* RepetitionDetector's limits
    MutatingLimit,
    EditLimit,      \* EditFailureTracker's LIMIT
    RunLimit,       \* TokenBudgetEnforcer's per_run_limit
    Capped,         \* the organisation has a daily cap
    MaxMessages,    \* trim's max_messages
    Threshold,      \* maybe_summarize's threshold
    MaxBatch,       \* bound: tool calls of an answer
    MaxTokens       \* bound: tokens of an answer

ASSUME ToolsAssumption ==
    /\ Edits \subseteq Mutating
    /\ Mutating \subseteq Tools
    /\ RunCommand \in Mutating \ Edits
    /\ "none" \notin Tools

ASSUME LimitsAssumption ==
    /\ MaxSteps \in Nat \ {0}
    /\ {MaxConsecutive, EditLimit} \subseteq Nat \ {0}
    /\ {ReadLimit, MutatingLimit, RunLimit, MaxBatch, MaxTokens} \subseteq Nat
    /\ Capped \in BOOLEAN

\* What trim keeps (30) and a system message for each command that may run (12)
\* stay below the threshold (50).
ASSUME ContextAssumption ==
    /\ {MaxMessages, Threshold} \subseteq Nat
    /\ MaxMessages + MutatingLimit + 1 <= Threshold

VARIABLES
    pc,             \* where the loop is
    status,         \* agent_runs.status, "absent" before the insert
    steps,
    reason,         \* finish_reason
    system,         \* the number of system messages
    talk,           \* the roles of the others
    asked,          \* tool calls of the last answer
    ran,            \* of these, how many have run
    failures,       \* CircuitBreaker._consecutive
    broken,         \* CircuitBreaker._tripped_for
    reads,          \* RepetitionDetector._read_calls
    writes,         \* RepetitionDetector._mutating_calls
    repeated,       \* RepetitionDetector.tripped
    failedEdits,    \* EditFailureTracker._total_failures
    tokens          \* TokenBudgetEnforcer.usage.total

batch == <<asked, ran>>
guards == <<failures, broken, reads, writes, repeated, failedEdits>>
context == <<system, talk>>
vars == <<pc, status, steps, reason, context, batch, guards, tokens>>

Roles == {"user", "assistant", "tool"}

Reasons == {"finished", "max_steps", "safety_tripped", "budget_exceeded",
            "error", "awaiting_approval"}

\* "gated" is "guards" after a tripped gate.
Places == {"idle", "top", "llm", "tools", "guards", "gated", "ending", "over"}

\* RepetitionDetector's keys for the tools that only read.
ReadCalls == (Tools \ Mutating) \X Args

TypeOK ==
    /\ pc \in Places
    /\ status \in Reasons \cup {"absent", "running"}
    /\ steps \in 0..MaxSteps
    /\ reason \in Reasons \cup {"none"}
    /\ system \in Nat
    /\ talk \in Seq(Roles)
    /\ asked \in 0..MaxBatch
    /\ ran \in 0..MaxBatch
    /\ failures \in [Tools -> Nat]
    /\ broken \in Tools \cup {"none"}
    /\ reads \in [ReadCalls -> Nat]
    /\ writes \in [Mutating -> Nat]
    /\ repeated \in BOOLEAN
    /\ failedEdits \in Nat
    /\ tokens \in Nat

Init ==
    /\ pc = "idle"
    /\ status = "absent"
    /\ steps = 0
    /\ reason = "none"
    /\ system = 0
    /\ talk = <<>>
    /\ asked = 0
    /\ ran = 0
    /\ failures = [t \in Tools |-> 0]
    /\ broken = "none"
    /\ reads = [c \in ReadCalls |-> 0]
    /\ writes = [t \in Mutating |-> 0]
    /\ repeated = FALSE
    /\ failedEdits = 0
    /\ tokens = 0

-----------------------------------------------------------------------------
(* The context *)

Messages == system + Len(talk)

\* Fault: the oldest are kept.
Kept_Oldest == IF Len(talk) <= MaxMessages THEN talk ELSE SubSeq(talk, 1, MaxMessages)

\* The most recent messages.
Kept ==
    IF Len(talk) <= MaxMessages THEN talk
    ELSE SubSeq(talk, Len(talk) - MaxMessages + 1, Len(talk))

\* Fault: nothing is dropped.
Trimmed_Never == talk

\* trim
Trimmed == IF Messages <= MaxMessages THEN talk ELSE Kept

\* maybe_summarize: the older half gives way to a system message.
Summarized ==
    IF system + Len(Trimmed) <= Threshold
    THEN UNCHANGED system /\ talk' = Trimmed
    ELSE /\ system' = system + 1
         /\ talk' = SubSeq(Trimmed, Threshold \div 2 + 1, Len(Trimmed))

-----------------------------------------------------------------------------
(* AgentLoop.run *)

\* The rows are inserted and the first two messages stored.
Start ==
    /\ pc = "idle"
    /\ pc' = "top"
    /\ status' = "running"
    /\ system' = 1
    /\ talk' = <<"user">>
    /\ UNCHANGED <<steps, reason, batch, guards, tokens>>

\* Fault: one step too many.
More_Late == steps <= MaxSteps

\* The condition of the while loop.
More == steps < MaxSteps

\* The head of the while loop.
NextStep ==
    /\ pc = "top"
    /\ More
    /\ pc' = "llm"
    /\ steps' = steps + 1
    /\ Summarized
    /\ UNCHANGED <<status, reason, batch, guards, tokens>>

\* The LLM cannot be reached, or anything in the step raises an exception.
Fails ==
    /\ pc \in {"llm", "tools", "guards", "gated"}
    /\ pc' = "ending"
    /\ reason' = "error"
    /\ UNCHANGED <<status, steps, context, batch, guards, tokens>>

\* An answer of n tool calls; one without any ends the run.
Answer(n, used) ==
    /\ pc = "llm"
    /\ tokens' = tokens + used
    /\ talk' = Append(talk, "assistant")
    /\ asked' = n
    /\ ran' = 0
    /\ IF n = 0
       THEN pc' = "ending" /\ reason' = "finished"
       ELSE pc' = "tools" /\ UNCHANGED reason
    /\ UNCHANGED <<status, steps, system, guards>>

\* A call of finish ends the run and the batch.
CallFinish ==
    /\ pc = "tools"
    /\ pc' = "ending"
    /\ reason' = "finished"
    /\ talk' = Append(talk, "tool")
    /\ UNCHANGED <<status, steps, system, batch, guards, tokens>>

\* A tool that is not registered: its failed result is stored, then its
\* is_mutating is asked for and raises KeyError.
CallUnknown ==
    /\ pc = "tools"
    /\ pc' = "ending"
    /\ reason' = "error"
    /\ talk' = Append(talk, "tool")
    /\ UNCHANGED <<status, steps, system, batch, guards, tokens>>

(* What a call leaves in the guards *)

\* Fault: a success does not clear the breaker.
NowBroken_Kept(t, ok) == IF ~ok /\ failures[t] + 1 >= MaxConsecutive THEN t ELSE broken

\* CircuitBreaker: the one name it keeps is that of the last tool to trip, and
\* a success of that tool clears it.
NowBroken(t, ok) ==
    IF ok THEN IF broken = t THEN "none" ELSE broken
    ELSE IF failures[t] + 1 >= MaxConsecutive THEN t ELSE broken

\* EditFailureTracker
NowFailed(t, ok) == IF t \in Edits /\ ~ok THEN failedEdits + 1 ELSE failedEdits

\* RepetitionDetector
OverRead(n) == n > ReadLimit
OverWrite(n) == n > MutatingLimit

\* A call of t with arguments a, whether it succeeded or not, is recorded.
Recorded(t, a, ok) ==
    /\ failures' = [failures EXCEPT ![t] = IF ok THEN 0 ELSE @ + 1]
    /\ broken' = NowBroken(t, ok)
    /\ failedEdits' = NowFailed(t, ok)
    /\ IF t \in Mutating
       THEN /\ writes' = [writes EXCEPT ![t] = @ + 1]
            /\ repeated' = (repeated \/ OverWrite(writes'[t]))
            /\ UNCHANGED reads
       ELSE /\ reads' = [reads EXCEPT ![<<t, a>>] = @ + 1]
            /\ repeated' = (repeated \/ OverRead(reads'[<<t, a>>]))
            /\ UNCHANGED writes
    /\ ran' = ran + 1
    /\ UNCHANGED asked

\* A command that ran drops the rest of the batch.
Call(t, a, ok) ==
    /\ pc = "tools"
    /\ Recorded(t, a, ok)
    /\ talk' = Append(talk, "tool")
    /\ pc' = IF ran' = asked \/ (t = RunCommand /\ ok) THEN "guards" ELSE "tools"
    /\ UNCHANGED <<status, steps, reason, system, tokens>>

\* The same for a migration, which has run when the gate sees it.
Gate(a) ==
    /\ pc = "tools"
    /\ Recorded(RunCommand, a, TRUE)
    /\ talk' = Append(talk, "tool")
    /\ system' = system + 1
    /\ status' = "awaiting_approval"
    /\ reason' = "awaiting_approval"
    /\ pc' = "gated"
    /\ UNCHANGED <<steps, tokens>>

(* After the tools *)

\* Faults: one guard is not asked; the reason is left unset.
Tripped_NoEdits == broken # "none" \/ repeated
Standing_Unset(r) == r

Tripped == broken # "none" \/ repeated \/ failedEdits >= EditLimit

Within == tokens <= RunLimit

Trips ==
    /\ pc \in {"guards", "gated"}
    /\ Tripped
    /\ pc' = "ending"
    /\ reason' = "safety_tripped"
    /\ system' = system + 1
    /\ UNCHANGED <<status, steps, talk, batch, guards, tokens>>

\* Over the run's limit, or, with what other runs used today, over the cap.
OverBudget ==
    /\ pc \in {"guards", "gated"}
    /\ ~Tripped
    /\ ~Within \/ Capped
    /\ pc' = "ending"
    /\ reason' = "budget_exceeded"
    /\ UNCHANGED <<status, steps, context, batch, guards, tokens>>

\* "max_steps" stands until something else ends the run.
Standing(r) == IF r = "none" THEN "max_steps" ELSE r

\* The step is over.
StepEnds ==
    /\ pc \in {"guards", "gated"}
    /\ ~Tripped
    /\ Within
    /\ pc' = "top"
    /\ reason' = Standing(reason)
    /\ UNCHANGED <<status, steps, context, batch, guards, tokens>>

LoopEnds ==
    /\ pc = "top"
    /\ ~More
    /\ pc' = "ending"
    /\ UNCHANGED <<status, steps, reason, context, batch, guards, tokens>>

Finish ==
    /\ pc = "ending"
    /\ pc' = "over"
    /\ status' = reason
    /\ UNCHANGED <<steps, reason, context, batch, guards, tokens>>

\* A commit outside the try of the steps raises: that of the first two messages,
\* or the last one, as it does when a database error ended the steps.
CommitRaises ==
    /\ pc = "ending" \/ (pc = "top" /\ steps = 0)
    /\ pc' = "over"
    /\ UNCHANGED <<status, steps, reason, context, batch, guards, tokens>>

Next ==
    \/ Start
    \/ NextStep
    \/ Fails
    \/ \E n \in 0..MaxBatch, used \in 0..MaxTokens : Answer(n, used)
    \/ CallFinish
    \/ CallUnknown
    \/ \E t \in Tools, a \in Args, ok \in BOOLEAN : Call(t, a, ok)
    \/ \E a \in Args : Gate(a)
    \/ Trips
    \/ OverBudget
    \/ StepEnds
    \/ LoopEnds
    \/ Finish
    \/ CommitRaises

Spec == Init /\ [][Next]_vars

-----------------------------------------------------------------------------
(* Properties *)

\* safety.py: the LLM is not asked again once a call was repeated beyond its
\* limit, edits failed too often or the run's tokens are spent, wherever in a
\* batch that happened and whatever succeeded after it.
AskedWithinLimits ==
    pc = "llm" =>
        /\ \A c \in ReadCalls : reads[c] <= ReadLimit
        /\ \A t \in Mutating : writes[t] <= MutatingLimit
        /\ failedEdits < EditLimit
        /\ tokens <= RunLimit

\* memory.py: the LLM is given the system prompt and at most MaxMessages of
\* the conversation, however long it has become.  The guard on commands ends
\* the run before the gate's messages, which trim never drops, fill the context:
\* maybe_summarize has nothing to do.
ContextBounded ==
    pc = "llm" =>
        /\ system \in 1..(1 + writes[RunCommand])
        /\ Len(talk) <= MaxMessages

\* trim parts the last answer from its results only if there are too many of
\* them: from the second step on the LLM is given the answer with a result for
\* each call that ran if both fit in what trim keeps.  Otherwise, and no code
\* bounds the calls of an answer, it reads results alone, as many as trim keeps.
AnswerKept ==
    pc = "llm" /\ steps > 1 =>
        IF ran < MaxMessages
        THEN /\ ran < Len(talk)
             /\ talk[Len(talk) - ran] = "assistant"
             /\ \A i \in 1..Len(talk) : i > Len(talk) - ran => talk[i] = "tool"
        ELSE /\ Len(talk) = MaxMessages
             /\ \A i \in 1..Len(talk) : talk[i] = "tool"

\* The reason of a run that ends is the true one: "max_steps" is set after the
\* first step, but only a run that took all of them ends with it; a run that
\* ends for its guards has a call over a limit or too many failures.
ReasonTrue ==
    pc \in {"ending", "over"} =>
        /\ reason \in {"max_steps", "awaiting_approval"} => steps = MaxSteps
        /\ reason = "safety_tripped" =>
               \/ \E t \in Tools : failures[t] >= MaxConsecutive
               \/ \E c \in ReadCalls : reads[c] > ReadLimit
               \/ \E t \in Mutating : writes[t] > MutatingLimit
               \/ failedEdits >= EditLimit

(* Refinement: one loop of AgentRun, which nobody else marks. *)

RunPlace ==
    CASE pc \in {"idle", "over"} -> "idle"
      [] pc = "tools" -> "llm"
      [] pc = "guards" -> "llm"
      [] pc = "gated" -> "guards"
      [] OTHER -> pc

RunLoop ==
    IF RunPlace = "idle"
    THEN [pc |-> "idle", copy |-> "absent", steps |-> 0, reason |-> "none"]
    ELSE [pc |-> RunPlace, copy |-> status, steps |-> steps, reason |-> reason]

\* The loop is over and its end was not stored.
RunLost == pc = "over" /\ status = "running"

Run == INSTANCE AgentRun
           WITH Loops <- {"run"},
                Clerks <- {},
                row <- status,
                old <- FALSE,
                loop <- [l \in {"run"} |-> RunLoop],
                clerk <- [c \in {} |-> "idle"],
                lost <- RunLost

\* The loop in detail is a loop of AgentRun: whatever its tools, guards and
\* budget do, its status changes as one loop's may.
ImplementsRun == Run!Spec

=============================================================================
