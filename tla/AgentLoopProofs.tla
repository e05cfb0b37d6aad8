-------------------------- MODULE AgentLoopProofs --------------------------
(***************************************************************************)
(* What holds of one agent loop for every set of tools and every value of  *)
(* the limits: the LLM is asked within them and reads a bounded context    *)
(* that keeps its last answer, the run's reason is the true one, and the   *)
(* loop is a loop of AgentRun.                                             *)
(***************************************************************************)
EXTENDS AgentLoop, SequenceTheorems, TLAPS

\* The types, but for the messages.
Types ==
    /\ pc \in Places
    /\ status \in Reasons \cup {"absent", "running"}
    /\ steps \in 0..MaxSteps
    /\ reason \in Reasons \cup {"none"}
    /\ failures \in [Tools -> Nat]
    /\ broken \in Tools \cup {"none"}
    /\ reads \in [ReadCalls -> Nat]
    /\ writes \in [Mutating -> Nat]
    /\ repeated \in BOOLEAN
    /\ failedEdits \in Nat
    /\ tokens \in Nat

\* Between steps, and while the LLM is asked, no guard has tripped.
Clear == pc \in {"idle", "top", "llm"} => ~Tripped /\ Within

\* A call over its limit is noticed ...
Noticed ==
    /\ \A c \in ReadCalls : reads[c] > ReadLimit => repeated
    /\ \A t \in Mutating : writes[t] > MutatingLimit => repeated

\* ... and nothing else is.
Evidence ==
    /\ broken # "none" => failures[broken] >= MaxConsecutive
    /\ repeated => \/ \E c \in ReadCalls : reads[c] > ReadLimit
                   \/ \E t \in Mutating : writes[t] > MutatingLimit

\* A run that has not started has no trace, and one without a step no reason.
Unstarted ==
    /\ pc = "idle" => status = "absent" /\ steps = 0
    /\ steps = 0 => pc \in {"idle", "top", "over"} /\ reason = "none"

\* While the loop runs only two reasons may stand; after its first step, and
\* at its end, one does.
Open ==
    /\ pc \notin {"ending", "over"} => reason \in {"none", "max_steps", "awaiting_approval"}
    /\ pc = "top" /\ steps > 0 => reason # "none"
    /\ pc = "ending" => reason # "none"

IInv == Types /\ Clear /\ Noticed /\ Evidence /\ Unstarted /\ Open /\ ReasonTrue

\* Before the run nothing is counted and no reason stands.
LEMMA InitInv == Init => IInv
<1> SUFFICES ASSUME Init PROVE IInv
  OBVIOUS
<1> USE LimitsAssumption, ToolsAssumption
<1>1. Types
  <2>1. 0 \in 0..MaxSteps
    OBVIOUS
  <2>2. reads \in [ReadCalls -> Nat] /\ writes \in [Mutating -> Nat] /\ failures \in [Tools -> Nat]
    BY DEF Init
  <2> QED
    BY <2>1, <2>2 DEF Init, Types, Places
<1>2. Clear
  BY DEF Init, Clear, Tripped, Within
<1>3. Noticed /\ Evidence
  BY DEF Init, Noticed, Evidence
<1>4. Unstarted /\ Open /\ ReasonTrue
  BY DEF Init, Unstarted, Open, ReasonTrue
<1> QED
  BY <1>1, <1>2, <1>3, <1>4 DEF IInv

\* What a call records keeps the guards' types and what they notice.
LEMMA RecordedGuards ==
    ASSUME IInv, NEW t \in Tools, NEW a \in Args, NEW ok \in BOOLEAN, Recorded(t, a, ok)
    PROVE  /\ failures' \in [Tools -> Nat]
           /\ broken' \in Tools \cup {"none"}
           /\ reads' \in [ReadCalls -> Nat]
           /\ writes' \in [Mutating -> Nat]
           /\ repeated' \in BOOLEAN
           /\ failedEdits' \in Nat
           /\ Noticed'
           /\ Evidence'
<1> USE LimitsAssumption, ToolsAssumption
<1>0. Types /\ Noticed /\ Evidence
  BY DEF IInv
<1>1. failures' \in [Tools -> Nat]
  BY <1>0 DEF Types, Recorded
<1>2. broken' \in Tools \cup {"none"}
  BY <1>0 DEF Types, Recorded, NowBroken
<1>3. failedEdits' \in Nat
  BY <1>0 DEF Types, Recorded, NowFailed
<1>4. broken' # "none" => failures'[broken'] >= MaxConsecutive
  BY <1>0, <1>2 DEF Types, Recorded, NowBroken, Evidence
<1>5. CASE t \in Mutating
  <2>1. /\ writes' = [writes EXCEPT ![t] = @ + 1]
        /\ repeated' = (repeated \/ writes'[t] > MutatingLimit)
        /\ reads' = reads
    BY <1>5 DEF Recorded, OverWrite
  <2>2. writes' \in [Mutating -> Nat] /\ repeated' \in BOOLEAN /\ reads' \in [ReadCalls -> Nat]
    <3>1. writes[t] + 1 \in Nat
      BY <1>0, <1>5 DEF Types
    <3>2. writes' \in [Mutating -> Nat]
      BY <1>0, <2>1, <3>1 DEF Types
    <3> QED
      BY <1>0, <2>1, <3>2 DEF Types
  <2>3. \A u \in Mutating : writes[u] <= writes'[u]
    BY <1>0, <2>1 DEF Types
  <2>4. Noticed'
    <3>1. ASSUME NEW u \in Mutating, writes'[u] > MutatingLimit PROVE repeated'
      <4>1. CASE u = t
        BY <2>1, <3>1, <4>1
      <4>2. CASE u # t
        BY <1>0, <2>1, <3>1, <4>2 DEF Types, Noticed
      <4> QED
        BY <4>1, <4>2
    <3>2. ASSUME NEW c \in ReadCalls, reads'[c] > ReadLimit PROVE repeated'
      BY <1>0, <2>1, <3>2 DEF Noticed
    <3> QED
      BY <3>1, <3>2 DEF Noticed
  <2>5. repeated' => \/ \E c \in ReadCalls : reads'[c] > ReadLimit
                     \/ \E u \in Mutating : writes'[u] > MutatingLimit
    <3>1. CASE writes'[t] > MutatingLimit
      BY <1>5, <3>1
    <3>2. CASE repeated
      <4>1. CASE \E c \in ReadCalls : reads[c] > ReadLimit
        BY <2>1, <4>1
      <4>2. CASE \E u \in Mutating : writes[u] > MutatingLimit
        <5>1. PICK u \in Mutating : writes[u] > MutatingLimit
          BY <4>2
        <5>2. writes[u] \in Nat /\ writes'[u] \in Nat /\ writes[u] <= writes'[u]
          BY <1>0, <2>2, <2>3 DEF Types
        <5>3. writes'[u] > MutatingLimit
          BY <5>1, <5>2
        <5> QED
          BY <5>3
      <4> QED
        BY <1>0, <3>2, <4>1, <4>2 DEF Evidence
    <3> QED
      BY <2>1, <3>1, <3>2
  <2> QED
    BY <1>1, <1>2, <1>3, <1>4, <2>2, <2>4, <2>5 DEF Evidence
<1>6. CASE t \notin Mutating
  <2>0. <<t, a>> \in ReadCalls
    BY <1>6 DEF ReadCalls
  <2>1. /\ reads' = [reads EXCEPT ![<<t, a>>] = @ + 1]
        /\ repeated' = (repeated \/ reads'[<<t, a>>] > ReadLimit)
        /\ writes' = writes
    BY <1>6 DEF Recorded, OverRead
  <2>2. writes' \in [Mutating -> Nat] /\ repeated' \in BOOLEAN /\ reads' \in [ReadCalls -> Nat]
    BY <1>0, <2>0, <2>1 DEF Types
  <2>3. \A c \in ReadCalls : reads[c] <= reads'[c]
    BY <1>0, <2>0, <2>1 DEF Types
  <2>4. Noticed'
    <3>1. ASSUME NEW c \in ReadCalls, reads'[c] > ReadLimit PROVE repeated'
      <4>1. CASE c = <<t, a>>
        BY <2>1, <3>1, <4>1
      <4>2. CASE c # <<t, a>>
        BY <1>0, <2>1, <3>1, <4>2 DEF Types, Noticed
      <4> QED
        BY <4>1, <4>2
    <3>2. ASSUME NEW u \in Mutating, writes'[u] > MutatingLimit PROVE repeated'
      BY <1>0, <2>1, <3>2 DEF Noticed
    <3> QED
      BY <3>1, <3>2 DEF Noticed
  <2>5. repeated' => \/ \E c \in ReadCalls : reads'[c] > ReadLimit
                     \/ \E u \in Mutating : writes'[u] > MutatingLimit
    <3>1. CASE reads'[<<t, a>>] > ReadLimit
      BY <2>0, <3>1
    <3>2. CASE repeated
      <4>1. CASE \E u \in Mutating : writes[u] > MutatingLimit
        BY <2>1, <4>1
      <4>2. CASE \E c \in ReadCalls : reads[c] > ReadLimit
        <5>1. PICK c \in ReadCalls : reads[c] > ReadLimit
          BY <4>2
        <5>2. reads[c] \in Nat /\ reads'[c] \in Nat /\ reads[c] <= reads'[c]
          BY <1>0, <2>2, <2>3 DEF Types
        <5>3. reads'[c] > ReadLimit
          BY <5>1, <5>2
        <5> QED
          BY <5>3
      <4> QED
        BY <1>0, <3>2, <4>1, <4>2 DEF Evidence
    <3> QED
      BY <2>1, <3>1, <3>2
  <2> QED
    BY <1>1, <1>2, <1>3, <1>4, <2>2, <2>4, <2>5 DEF Evidence
<1> QED
  BY <1>5, <1>6

\* Every step keeps IInv; what the guards count by RecordedGuards.
LEMMA Inductive == IInv /\ [Next]_vars => IInv'
<1> SUFFICES ASSUME IInv, [Next]_vars PROVE IInv'
  OBVIOUS
<1> USE LimitsAssumption, ToolsAssumption
<1>0. Types /\ Clear /\ Noticed /\ Evidence /\ Unstarted /\ Open /\ ReasonTrue
  BY DEF IInv
<1>1. ASSUME UNCHANGED guards, Types' PROVE Noticed' /\ Evidence'
  BY <1>0, <1>1 DEF Noticed, Evidence, guards
<1>2. CASE Start
  <2>1. Types'
    BY <1>0, <1>2 DEF Start, Types, guards, Places
  <2>2. Clear' /\ Unstarted' /\ Open' /\ ReasonTrue'
    BY <1>0, <1>2 DEF Start, Clear, Unstarted, Open, ReasonTrue, Tripped, Within, guards
  <2> QED
    BY <1>1, <1>2, <2>1, <2>2 DEF Start, IInv
<1>3. CASE NextStep
  <2>1. Types'
    BY <1>0, <1>3 DEF NextStep, More, Types, guards, Places
  <2>2. Clear' /\ Unstarted' /\ Open' /\ ReasonTrue'
    BY <1>0, <1>3 DEF NextStep, Types, Clear, Unstarted, Open, ReasonTrue, Tripped, Within, guards
  <2> QED
    BY <1>1, <1>3, <2>1, <2>2 DEF NextStep, IInv
<1>4. CASE Fails \/ CallFinish \/ CallUnknown
  <2>1. Types'
    BY <1>0, <1>4 DEF Fails, CallFinish, CallUnknown, Types, guards, Places, Reasons
  <2>2. Clear' /\ Unstarted' /\ Open' /\ ReasonTrue'
    BY <1>0, <1>4 DEF Fails, CallFinish, CallUnknown, Clear, Unstarted, Open, ReasonTrue
  <2> QED
    BY <1>1, <1>4, <2>1, <2>2 DEF Fails, CallFinish, CallUnknown, IInv
<1>5. ASSUME NEW n \in 0..MaxBatch, NEW used \in 0..MaxTokens, Answer(n, used) PROVE IInv'
  <2>1. tokens' \in Nat
    BY <1>0, <1>5 DEF Answer, Types
  <2>2. Types'
    BY <1>0, <1>5, <2>1 DEF Answer, Types, guards, Places, Reasons
  <2>3. Clear' /\ Unstarted' /\ Open' /\ ReasonTrue'
    BY <1>0, <1>5 DEF Answer, Clear, Unstarted, Open, ReasonTrue
  <2> QED
    BY <1>1, <1>5, <2>2, <2>3 DEF Answer, IInv
<1>6. ASSUME NEW t \in Tools, NEW a \in Args, NEW ok \in BOOLEAN, Call(t, a, ok) PROVE IInv'
  <2>1. Recorded(t, a, ok)
    BY <1>6 DEF Call
  <2>2. /\ pc = "tools" /\ pc' \in {"guards", "tools"}
        /\ UNCHANGED <<status, steps, reason, tokens>>
    BY <1>6 DEF Call
  <2>3. /\ failures' \in [Tools -> Nat]
        /\ broken' \in Tools \cup {"none"}
        /\ reads' \in [ReadCalls -> Nat]
        /\ writes' \in [Mutating -> Nat]
        /\ repeated' \in BOOLEAN
        /\ failedEdits' \in Nat
        /\ Noticed' /\ Evidence'
    BY <2>1, RecordedGuards
  <2>4. Types'
    BY <1>0, <2>2, <2>3 DEF Types, Places
  <2>5. Clear' /\ Unstarted' /\ Open' /\ ReasonTrue'
    BY <1>0, <2>2 DEF Clear, Unstarted, Open, ReasonTrue
  <2> QED
    BY <2>3, <2>4, <2>5 DEF IInv
<1>7. ASSUME NEW a \in Args, Gate(a) PROVE IInv'
  <2>1. Recorded(RunCommand, a, TRUE) /\ RunCommand \in Tools
    BY <1>7 DEF Gate
  <2>2. Types' /\ Noticed' /\ Evidence'
    BY <1>0, <1>7, <2>1, RecordedGuards DEF Gate, Types, Places, Reasons
  <2>3. Clear' /\ Unstarted' /\ Open' /\ ReasonTrue'
    BY <1>0, <1>7 DEF Gate, Clear, Unstarted, Open, ReasonTrue
  <2> QED
    BY <2>2, <2>3 DEF IInv
<1>8. CASE Trips
  <2>1. Types'
    BY <1>0, <1>8 DEF Trips, Types, guards, Places, Reasons
  <2>2. Clear' /\ Unstarted' /\ Open'
    BY <1>0, <1>8 DEF Trips, Clear, Unstarted, Open
  <2>3. ReasonTrue'
    <3>1. reason' = "safety_tripped" /\ UNCHANGED guards
      BY <1>8 DEF Trips
    <3>2. CASE broken # "none"
      BY <1>0, <3>1, <3>2 DEF Evidence, Types, ReasonTrue, guards
    <3>3. CASE repeated
      BY <1>0, <3>1, <3>3 DEF Evidence, ReasonTrue, guards
    <3>4. CASE failedEdits >= EditLimit
      BY <3>1, <3>4 DEF ReasonTrue, guards
    <3> QED
      BY <1>8, <3>2, <3>3, <3>4 DEF Trips, Tripped
  <2> QED
    BY <1>1, <1>8, <2>1, <2>2, <2>3 DEF Trips, IInv
<1>9. CASE OverBudget
  <2>1. Types'
    BY <1>0, <1>9 DEF OverBudget, Types, guards, Places, Reasons
  <2>2. Clear' /\ Unstarted' /\ Open' /\ ReasonTrue'
    BY <1>0, <1>9 DEF OverBudget, Clear, Unstarted, Open, ReasonTrue
  <2> QED
    BY <1>1, <1>9, <2>1, <2>2 DEF OverBudget, IInv
<1>10. CASE StepEnds
  <2>1. Types'
    BY <1>0, <1>10 DEF StepEnds, Standing, Types, guards, Places, Reasons
  <2>2. Clear' /\ Unstarted' /\ Open' /\ ReasonTrue'
    BY <1>0, <1>10 DEF StepEnds, Standing, Clear, Unstarted, Open, ReasonTrue, Tripped, Within, guards
  <2> QED
    BY <1>1, <1>10, <2>1, <2>2 DEF StepEnds, IInv
<1>11. CASE LoopEnds
  <2>1. Types'
    BY <1>0, <1>11 DEF LoopEnds, Types, guards, Places
  <2>2. Clear' /\ Unstarted' /\ Open'
    BY <1>0, <1>11 DEF LoopEnds, More, Types, Clear, Unstarted, Open
  <2>3. steps' = MaxSteps
    BY <1>0, <1>11 DEF LoopEnds, More, Types
  <2>4. reason' # "safety_tripped"
    BY <1>0, <1>11 DEF LoopEnds, Open
  <2> QED
    BY <1>1, <1>11, <2>1, <2>2, <2>3, <2>4 DEF LoopEnds, IInv, ReasonTrue
<1>12. CASE Finish
  <2>1. Types'
    BY <1>0, <1>12 DEF Finish, Open, Types, guards, Places
  <2>2. Clear' /\ Unstarted' /\ Open' /\ ReasonTrue'
    BY <1>0, <1>12 DEF Finish, Clear, Unstarted, Open, ReasonTrue, guards
  <2> QED
    BY <1>1, <1>12, <2>1, <2>2 DEF Finish, IInv
<1>14. CASE CommitRaises
  <2>1. Types'
    BY <1>0, <1>14 DEF CommitRaises, Types, guards, Places
  <2>2. Clear' /\ Unstarted' /\ Open' /\ ReasonTrue'
    BY <1>0, <1>14 DEF CommitRaises, Clear, Unstarted, Open, ReasonTrue, guards
  <2> QED
    BY <1>1, <1>14, <2>1, <2>2 DEF CommitRaises, IInv
<1>13. CASE UNCHANGED vars
  BY <1>0, <1>13 DEF vars, guards, IInv, Types, Clear, Noticed, Evidence, Unstarted, Open, ReasonTrue,
                     Tripped, Within
<1> QED
  BY <1>2, <1>3, <1>4, <1>5, <1>6, <1>7, <1>8, <1>9, <1>10, <1>11, <1>12, <1>13, <1>14 DEF Next

\* The inductive invariant of one loop (runtime.py: AgentLoop.run), for every set of
\* tools and every limit.
THEOREM LoopInvariance == Spec => []IInv
<1> QED
  BY InitInv, Inductive, PTL DEF Spec

\* safety.py: whatever the tools are and however large the limits, the LLM is
\* not asked again once a limit of repetition, failed edits or tokens is passed.
THEOREM WithinLimits == Spec => []AskedWithinLimits
<1>1. IInv => AskedWithinLimits
  <2> SUFFICES ASSUME IInv, pc = "llm" PROVE AskedWithinLimits
    BY DEF AskedWithinLimits
  <2>1. ~Tripped /\ Within /\ Noticed /\ Types
    BY DEF IInv, Clear
  <2> QED
    BY <2>1, LimitsAssumption DEF Tripped, Within, Noticed, Types, AskedWithinLimits
<1> QED
  BY <1>1, LoopInvariance, PTL

\* A run that ends says why: "max_steps" only after all its steps,
\* "safety_tripped" only with the failures or repetitions to show for it.
THEOREM ReasonIsTrue == Spec => []ReasonTrue
<1>1. IInv => ReasonTrue
  BY DEF IInv
<1> QED
  BY <1>1, LoopInvariance, PTL

-----------------------------------------------------------------------------
(* The context *)

\* The conversation ends with an answer and the results of the calls that ran.
LastAnswer ==
    /\ ran < Len(talk)
    /\ talk[Len(talk) - ran] = "assistant"
    /\ \A i \in 1..Len(talk) : i > Len(talk) - ran => talk[i] = "tool"

\* What trim leaves of it: all of it, or, if it is too long, results alone.
AnswerGiven ==
    IF ran < MaxMessages THEN LastAnswer
    ELSE Len(talk) = MaxMessages /\ \A i \in 1..Len(talk) : talk[i] = "tool"

\* The invariant of the context: what its length and its tail are at each place.
Context ==
    /\ system \in Nat /\ talk \in Seq(Roles)
    /\ asked \in 0..MaxBatch /\ ran \in 0..MaxBatch
    /\ pc = "tools" => ran < asked
    /\ pc \notin {"idle", "ending", "over"} => system \in 1..(1 + writes[RunCommand])
    /\ pc = "llm" => Len(talk) <= MaxMessages
    /\ pc \in {"tools", "guards", "gated"} => LastAnswer
    /\ pc = "top" /\ steps > 0 => LastAnswer
    /\ pc = "llm" /\ steps > 1 => AnswerGiven

\* The limits as numbers.
LEMMA Limits ==
    /\ MaxMessages \in Nat /\ Threshold \in Nat /\ MutatingLimit \in Nat /\ MaxBatch \in Nat
    /\ MaxMessages + MutatingLimit + 1 <= Threshold
<1> QED
  BY LimitsAssumption, ContextAssumption

\* No conversation yet.
LEMMA InitContext == Init => Context
BY LimitsAssumption DEF Init, Context

\* What trim leaves of the conversation.
LEMMA TrimmedTail ==
    ASSUME talk \in Seq(Roles), system \in Nat
    PROVE  /\ Trimmed \in Seq(Roles)
           /\ Len(Trimmed) <= MaxMessages
           /\ Len(Trimmed) = Len(talk) \/ (Len(Trimmed) = MaxMessages /\ MaxMessages < Len(talk))
           /\ \A i \in 1..Len(Trimmed) : Trimmed[i] = talk[i + Len(talk) - Len(Trimmed)]
<1> USE Limits
<1>1. Len(talk) \in Nat
  BY LenProperties
<1>2. CASE Messages <= MaxMessages \/ Len(talk) <= MaxMessages
  <2>1. Trimmed = talk /\ Len(talk) <= MaxMessages
    BY <1>1, <1>2 DEF Trimmed, Messages, Kept
  <2>2. ASSUME NEW i \in 1..Len(talk) PROVE i + Len(talk) - Len(talk) = i
    BY <1>1
  <2> QED
    BY <1>1, <2>1, <2>2
<1>3. CASE Messages > MaxMessages /\ Len(talk) > MaxMessages
  <2> DEFINE n == Len(talk) - MaxMessages + 1
  <2>1. Trimmed = SubSeq(talk, n, Len(talk))
    BY <1>1, <1>3 DEF Trimmed, Messages, Kept
  <2>2. /\ n \in Int /\ Len(talk) \in Int /\ 1 <= n /\ n <= Len(talk) + 1
        /\ Len(talk) - n + 1 = MaxMessages /\ MaxMessages \in Nat
        /\ \A i \in 1..MaxMessages : n + i - 1 = i + Len(talk) - MaxMessages
    <3>1. \A len, max \in Int : max >= 0 /\ len > max =>
            LET m == len - max + 1
            IN  /\ m \in Int /\ 1 <= m /\ m <= len + 1 /\ len - m + 1 = max
                /\ \A i \in 1..max : m + i - 1 = i + len - max
      OBVIOUS
    <3>2. Len(talk) \in Int /\ MaxMessages \in Int /\ MaxMessages >= 0 /\ Len(talk) > MaxMessages
      BY <1>1, <1>3
    <3> QED
      BY <3>1, <3>2
  <2> HIDE DEF n
  <2>3. \A i \in n..Len(talk) : talk[i] \in Roles
    <3>1. \A i \in n..Len(talk) : i \in 1..Len(talk)
      BY <2>2
    <3> QED
      BY <3>1, ElementOfSeq
  <2>4. /\ SubSeq(talk, n, Len(talk)) \in Seq(Roles)
        /\ Len(SubSeq(talk, n, Len(talk))) = IF n <= Len(talk) THEN Len(talk) - n + 1 ELSE 0
        /\ \A i \in 1..Len(talk) - n + 1 : SubSeq(talk, n, Len(talk))[i] = talk[n + i - 1]
    BY <2>2, <2>3, SubSeqProperties
  <2>5. Len(Trimmed) = MaxMessages /\ Trimmed \in Seq(Roles)
    BY <2>1, <2>2, <2>4
  <2>6. ASSUME NEW i \in 1..MaxMessages PROVE Trimmed[i] = talk[i + Len(talk) - MaxMessages]
    <3>1. Trimmed[i] = talk[n + i - 1]
      BY <2>1, <2>2, <2>4
    <3>2. n + i - 1 = i + Len(talk) - MaxMessages
      BY <2>2
    <3> QED
      BY <3>1, <3>2
  <2> QED
    BY <1>3, <2>5, <2>6
<1> QED
  BY <1>1, <1>2, <1>3 DEF Messages

\* If the last answer and its results fit, it does not cut into them.
LEMMA AnswerSurvives ==
    ASSUME talk \in Seq(Roles), system \in Nat, ran \in 0..MaxBatch, LastAnswer,
           ran < MaxMessages, talk' = Trimmed, ran' = ran
    PROVE  LastAnswer'
<1> USE Limits
<1>1. Len(talk) \in Nat /\ Len(Trimmed) \in Nat
  BY TrimmedTail, LenProperties
<1>2. ran < Len(Trimmed)
  BY <1>1, TrimmedTail DEF LastAnswer
<1>3. Trimmed[Len(Trimmed) - ran] = "assistant"
  <2>1. Len(Trimmed) - ran \in 1..Len(Trimmed)
    BY <1>1, <1>2
  <2>2. Trimmed[Len(Trimmed) - ran] = talk[Len(talk) - ran]
    <3>1. (Len(Trimmed) - ran) + Len(talk) - Len(Trimmed) = Len(talk) - ran
      BY <1>1
    <3> QED
      BY <2>1, <3>1, TrimmedTail
  <2> QED
    BY <2>2 DEF LastAnswer
<1>4. ASSUME NEW i \in 1..Len(Trimmed), i > Len(Trimmed) - ran PROVE Trimmed[i] = "tool"
  <2> DEFINE j == i + Len(talk) - Len(Trimmed)
  <2>1. j \in 1..Len(talk) /\ j > Len(talk) - ran
    BY <1>1, <1>4, TrimmedTail
  <2>2. Trimmed[i] = talk[j]
    BY TrimmedTail
  <2> QED
    BY <2>1, <2>2 DEF LastAnswer
<1> QED
  BY <1>2, <1>3, <1>4 DEF LastAnswer

\* If they do not, it leaves results alone.
LEMMA OnlyResults ==
    ASSUME talk \in Seq(Roles), system \in Nat, ran \in 0..MaxBatch, LastAnswer,
           ran >= MaxMessages, talk' = Trimmed
    PROVE  Len(talk') = MaxMessages /\ \A i \in 1..Len(talk') : talk'[i] = "tool"
<1> USE Limits
<1>1. Len(talk) \in Nat /\ ran < Len(talk)
  BY LenProperties DEF LastAnswer
<1>2. Len(Trimmed) = MaxMessages
  BY <1>1, TrimmedTail
<1>3. ASSUME NEW i \in 1..Len(Trimmed) PROVE Trimmed[i] = "tool"
  <2> DEFINE j == i + Len(talk) - Len(Trimmed)
  <2>1. j \in 1..Len(talk) /\ j > Len(talk) - ran
    BY <1>1, <1>2
  <2>2. Trimmed[i] = talk[j]
    BY TrimmedTail
  <2> QED
    BY <2>1, <2>2 DEF LastAnswer
<1> QED
  BY <1>2, <1>3

\* A result after the last answer and its results.
LEMMA ResultFollows ==
    ASSUME talk \in Seq(Roles), ran \in Nat, LastAnswer,
           talk' = Append(talk, "tool"), ran' = ran + 1
    PROVE  LastAnswer'
<1>1. /\ Len(talk) \in Nat /\ Len(talk') = Len(talk) + 1
      /\ \A i \in 1..Len(talk) : talk'[i] = talk[i]
      /\ talk'[Len(talk) + 1] = "tool"
  BY AppendProperties, LenProperties DEF Roles
<1>2. ran' < Len(talk') /\ Len(talk') - ran' = Len(talk) - ran
  BY <1>1 DEF LastAnswer
<1>3. talk'[Len(talk') - ran'] = "assistant"
  <2>1. Len(talk) - ran \in 1..Len(talk)
    BY <1>1 DEF LastAnswer
  <2> QED
    BY <1>1, <1>2, <2>1 DEF LastAnswer
<1>4. ASSUME NEW i \in 1..Len(talk'), i > Len(talk') - ran' PROVE talk'[i] = "tool"
  <2>1. CASE i = Len(talk) + 1
    BY <1>1, <2>1
  <2>2. CASE i # Len(talk) + 1
    <3>1. i \in 1..Len(talk) /\ i > Len(talk) - ran
      BY <1>1, <1>2, <1>4, <2>2
    <3> QED
      BY <1>1, <3>1 DEF LastAnswer
  <2> QED
    BY <2>1, <2>2
<1> QED
  BY <1>2, <1>3, <1>4 DEF LastAnswer

\* Each step keeps the tail; a command adds a system message to the prompt only
\* when it is counted.
LEMMA ContextStep == IInv /\ Context /\ [Next]_vars => Context'
<1> SUFFICES ASSUME IInv, Context, [Next]_vars PROVE Context'
  OBVIOUS
<1> USE Limits, ToolsAssumption
<1>0. Types /\ Clear /\ Noticed /\ writes[RunCommand] \in Nat /\ RunCommand \in Mutating
  BY DEF IInv, Types
<1>1. /\ system \in Nat /\ talk \in Seq(Roles) /\ Len(talk) \in Nat
      /\ asked \in 0..MaxBatch /\ ran \in 0..MaxBatch
  BY LenProperties DEF Context
<1>2. CASE Start
  <2>1. talk' = <<"user">> /\ talk' \in Seq(Roles) /\ system' = 1 /\ pc' = "top" /\ steps' = 0
    BY <1>0, <1>2 DEF Start, Roles, IInv, Unstarted
  <2> QED
    BY <1>0, <1>1, <1>2, <2>1 DEF Start, Context, guards, batch
\* Repeated commands have ended the run before the context is full.
<1>3. CASE NextStep
  <2>1. pc = "top" /\ pc' = "llm" /\ steps' = steps + 1 /\ UNCHANGED <<batch, guards>>
    BY <1>3 DEF NextStep
  <2>2. system \in 1..(1 + writes[RunCommand]) /\ writes[RunCommand] <= MutatingLimit
    BY <1>0, <2>1 DEF Context, Clear, Noticed, Tripped
  <2>3. Trimmed \in Seq(Roles) /\ Len(Trimmed) \in Nat /\ Len(Trimmed) <= MaxMessages
    BY <1>1, TrimmedTail, LenProperties
  <2>4. system + Len(Trimmed) <= Threshold
    BY <1>0, <2>2, <2>3
  <2>5. system' = system /\ talk' = Trimmed
    BY <1>3, <2>4 DEF NextStep, Summarized
  <2>6. steps' > 1 => AnswerGiven'
    <3> SUFFICES ASSUME steps' > 1 PROVE AnswerGiven'
      OBVIOUS
    <3>1. steps > 0
      BY <1>0, <2>1 DEF Types
    <3>2. LastAnswer
      BY <2>1, <3>1 DEF Context
    <3>3. CASE ran < MaxMessages
      BY <1>1, <2>1, <2>5, <3>2, <3>3, AnswerSurvives DEF batch, AnswerGiven
    <3>4. CASE ~(ran < MaxMessages)
      <4>1. ran >= MaxMessages /\ ran' = ran
        BY <1>1, <2>1, <3>4 DEF batch
      <4> QED
        BY <1>1, <2>5, <3>2, <3>4, <4>1, OnlyResults DEF AnswerGiven
    <3> QED
      BY <3>3, <3>4
  <2> QED
    BY <1>1, <2>1, <2>2, <2>3, <2>5, <2>6 DEF Context, batch, guards
<1>4. CASE Fails
  BY <1>1, <1>4 DEF Fails, Context, context, batch
<1>5. ASSUME NEW n \in 0..MaxBatch, NEW used \in 0..MaxTokens, Answer(n, used) PROVE Context'
  <2>1. talk' \in Seq(Roles) /\ Len(talk') = Len(talk) + 1 /\ talk'[Len(talk) + 1] = "assistant"
    BY <1>1, <1>5, AppendProperties DEF Answer, Roles
  <2>2. asked' = n /\ ran' = 0 /\ pc' \in {"ending", "tools"} /\ (pc' = "tools" => n # 0)
    BY <1>5 DEF Answer
  <2>3. LastAnswer'
    BY <1>1, <2>1, <2>2 DEF LastAnswer
  <2>4. system' = system /\ system \in 1..(1 + writes[RunCommand]) /\ UNCHANGED writes
    BY <1>5 DEF Answer, guards, Context
  <2> QED
    BY <1>1, <2>1, <2>2, <2>3, <2>4 DEF Context
<1>6. CASE CallFinish \/ CallUnknown
  <2>1. talk' \in Seq(Roles) /\ pc' = "ending" /\ UNCHANGED <<system, batch>>
    BY <1>1, <1>6, AppendProperties DEF CallFinish, CallUnknown, Roles
  <2> QED
    BY <1>1, <2>1 DEF Context, batch
\* A call of t with its result, and perhaps a system message.
<1>7. ASSUME NEW t \in Tools, NEW a \in Args, NEW ok \in BOOLEAN, Recorded(t, a, ok),
             pc = "tools", talk' = Append(talk, "tool"), pc' \in {"tools", "guards", "gated"},
             pc' = "tools" => ran' # asked,
             system' = system \/ (system' = system + 1 /\ t = RunCommand)
      PROVE  Context'
  <2>1. ran < asked /\ LastAnswer /\ system \in 1..(1 + writes[RunCommand])
    BY <1>7 DEF Context
  <2>2. ran' = ran + 1 /\ asked' = asked
    BY <1>7 DEF Recorded
  <2>3. talk' \in Seq(Roles)
    BY <1>1, <1>7, AppendProperties DEF Roles
  <2>4. LastAnswer'
    BY <1>1, <1>7, <2>1, <2>2, ResultFollows
  <2>5. writes'[RunCommand] \in Nat /\ writes'[RunCommand] >= writes[RunCommand]
        /\ (t = RunCommand => writes'[RunCommand] = writes[RunCommand] + 1)
    BY <1>0, <1>7 DEF Recorded, Types
  <2>6. system' \in 1..(1 + writes'[RunCommand])
    BY <1>0, <1>1, <1>7, <2>1, <2>5
  <2>7. ran' \in 0..MaxBatch /\ (pc' = "tools" => ran' < asked')
    BY <1>1, <1>7, <2>1, <2>2
  <2> QED
    BY <1>1, <1>7, <2>2, <2>3, <2>4, <2>6, <2>7 DEF Context
<1>8. ASSUME NEW t \in Tools, NEW a \in Args, NEW ok \in BOOLEAN, Call(t, a, ok) PROVE Context'
  BY <1>7, <1>8 DEF Call
<1>9. ASSUME NEW a \in Args, Gate(a) PROVE Context'
  <2>1. RunCommand \in Tools /\ TRUE \in BOOLEAN
    OBVIOUS
  <2> QED
    BY <1>7, <1>9, <2>1 DEF Gate
<1>10. CASE Trips
  BY <1>1, <1>10 DEF Trips, Context, batch
<1>11. CASE OverBudget
  BY <1>1, <1>11 DEF OverBudget, Context, context, batch
<1>12. CASE StepEnds
  BY <1>1, <1>12 DEF StepEnds, Context, context, batch, guards, LastAnswer
<1>13. CASE LoopEnds \/ Finish \/ CommitRaises
  BY <1>1, <1>13 DEF LoopEnds, Finish, CommitRaises, Context, context, batch
<1>14. CASE UNCHANGED vars
  BY <1>1, <1>14 DEF vars, Context, context, batch, guards, LastAnswer, AnswerGiven
<1> QED
  BY <1>2, <1>3, <1>4, <1>5, <1>6, <1>8, <1>9, <1>10, <1>11, <1>12, <1>13, <1>14 DEF Next

\* The invariant holds of every run.
THEOREM ContextInvariance == Spec => []Context
BY InitContext, ContextStep, LoopInvariance, PTL DEF Spec

\* Type correctness, the length of a batch and of the context included.
THEOREM LoopTypeCorrect == Spec => []TypeOK
<1>1. IInv /\ Context => TypeOK
  BY DEF IInv, Types, Context, TypeOK
<1> QED
  BY <1>1, LoopInvariance, ContextInvariance, PTL

\* memory.py: the LLM never reads more of the conversation than trim's limit,
\* nor more system messages than the prompt and one for each command, however
\* many steps the run takes.
THEOREM ContextStaysBounded == Spec => []ContextBounded
<1>1. Context => ContextBounded
  BY DEF Context, ContextBounded
<1> QED
  BY <1>1, ContextInvariance, PTL

\* trim keeps the last answer with the results of its calls if they fit in what
\* it keeps, and otherwise gives the LLM results alone: for every size of a batch.
THEOREM LastAnswerKept == Spec => []AnswerKept
<1>1. Context => AnswerKept
  BY DEF Context, AnswerKept, AnswerGiven, LastAnswer
<1> QED
  BY <1>1, ContextInvariance, PTL

-----------------------------------------------------------------------------
(* Refinement *)

TheLoop == [l \in {"run"} |-> RunLoop]

\* A loop that has not started is one AgentRun has not started.
LEMMA InitMaps == Init => Run!Init
  BY DEF Init, Run!Init, Run!NoLoop, Run!Fresh, RunLoop, RunPlace, RunLost

\* The loop as AgentRun sees it, while it runs and otherwise.
LEMMA Shape ==
    /\ TheLoop["run"] = RunLoop
    /\ RunPlace # "idle" =>
           RunLoop = [pc |-> RunPlace, copy |-> status, steps |-> steps, reason |-> reason]
    /\ RunPlace = "idle" =>
           RunLoop = [pc |-> "idle", copy |-> "absent", steps |-> 0, reason |-> "none"]
  BY DEF TheLoop, RunLoop

\* The same after a step.
LEMMA ShapeNext ==
    /\ RunPlace' # "idle" =>
           RunLoop' = [pc |-> RunPlace', copy |-> status', steps |-> steps', reason |-> reason']
    /\ RunPlace' = "idle" =>
           RunLoop' = [pc |-> "idle", copy |-> "absent", steps |-> 0, reason |-> "none"]
  BY DEF RunLoop

\* What a step makes of the loop, in the function AgentRun keeps the loops in.
LEMMA Changes ==
    ASSUME NEW x, RunLoop' = x
    PROVE  TheLoop' = [TheLoop EXCEPT !["run"] = x]
  BY DEF TheLoop

\* A step that changes the loop's place, perhaps its copy of the status, and its
\* reason.
LEMMA Updates ==
    ASSUME RunPlace # "idle", RunPlace' # "idle", steps' = steps
    PROVE  /\ TheLoop' = [TheLoop EXCEPT !["run"].pc = RunPlace', !["run"].copy = status',
                                         !["run"].reason = reason']
           /\ status' = status =>
                  TheLoop' = [TheLoop EXCEPT !["run"].pc = RunPlace', !["run"].reason = reason']
<1>1. RunLoop = [pc |-> RunPlace, copy |-> status, steps |-> steps, reason |-> reason]
  BY Shape
<1>2. RunLoop' = [pc |-> RunPlace', copy |-> status', steps |-> steps, reason |-> reason']
  BY ShapeNext
<1>3. TheLoop' = [TheLoop EXCEPT !["run"].pc = RunPlace', !["run"].copy = status',
                                 !["run"].reason = reason']
  BY <1>1, <1>2 DEF TheLoop
<1>4. status' = status =>
          TheLoop' = [TheLoop EXCEPT !["run"].pc = RunPlace', !["run"].reason = reason']
  BY <1>1, <1>2 DEF TheLoop
<1> QED
  BY <1>3, <1>4

\* Each step of the loop is one of AgentRun's, or none.
LEMMA StepMaps == ASSUME IInv, [Next]_vars PROVE Run!Next \/ UNCHANGED <<status, TheLoop, RunLost>>
<1> USE Shape, ShapeNext
<1>0. Types /\ Unstarted /\ Open
  BY DEF IInv
\* A step that does not end the run changes nothing in whether it was lost.
<1>l. ASSUME pc # "over", pc' # "over" PROVE RunLost = FALSE /\ RunLost' = FALSE /\ RunLost' = RunLost
  BY <1>l DEF RunLost
<1>1. CASE Start
  <2>1. RunPlace = "idle" /\ RunPlace' = "top" /\ status = "absent" /\ steps' = 0 /\ reason' = "none"
        /\ status' = "running" /\ UNCHANGED RunLost
    BY <1>0, <1>1, <1>l DEF Start, Unstarted, RunPlace
  <2>2. Run!Start("run")
    <3>1. TheLoop' = [TheLoop EXCEPT !["run"] = Run!Fresh("top", "running")]
      BY <2>1, Changes DEF Run!Fresh
    <3>2. TheLoop["run"].pc = "idle"
      BY <2>1
    <3> QED
      BY <2>1, <3>1, <3>2 DEF Run!Start, TheLoop
  <2> QED
    BY <2>2 DEF Run!Next
<1>2. CASE NextStep
  <2>1. /\ RunPlace = "top" /\ RunPlace' = "llm"
        /\ steps < MaxSteps /\ steps' = steps + 1
        /\ UNCHANGED <<status, reason, RunLost>>
    BY <1>2, <1>l DEF NextStep, More, RunPlace
  <2>2. Run!NextStep("run")
    <3>1. /\ RunLoop = [pc |-> "top", copy |-> status, steps |-> steps, reason |-> reason]
          /\ RunLoop' = [pc |-> "llm", copy |-> status, steps |-> steps', reason |-> reason]
      BY <2>1
    <3>2. TheLoop' = [TheLoop EXCEPT !["run"].pc = "llm", !["run"].steps = steps']
      BY <3>1 DEF TheLoop
    <3>3. TheLoop["run"].pc = "top" /\ TheLoop["run"].steps = steps
      BY <2>1
    <3> QED
      BY <2>1, <3>2, <3>3 DEF Run!NextStep, Run!More, Run!Counted, TheLoop
  <2> QED
    BY <2>2 DEF Run!Next, Run!Proceed
<1>3. ASSUME RunPlace \in {"llm", "guards"}, RunPlace' = "ending",
             UNCHANGED <<status, steps, RunLost>>,
             reason' = "error" \/ (RunPlace = "llm" /\ reason' = "finished")
      PROVE  Run!Next
  <2>1. RunPlace # "idle"
    BY <1>3
  <2>2. TheLoop' = [TheLoop EXCEPT !["run"].pc = "ending", !["run"].reason = reason']
    BY <1>3, <2>1, Updates
  <2>3. TheLoop["run"].pc = RunPlace
    BY <2>1
  <2>4. Run!Break("run")
    BY <1>3, <2>2, <2>3 DEF Run!Break, TheLoop
  <2> QED
    BY <2>4 DEF Run!Next, Run!Proceed
<1>4. CASE Fails \/ CallFinish \/ CallUnknown
  <2>1. /\ RunPlace \in {"llm", "guards"} /\ RunPlace' = "ending"
        /\ UNCHANGED <<status, steps, RunLost>>
        /\ reason' = "error" \/ (RunPlace = "llm" /\ reason' = "finished")
    BY <1>4, <1>l DEF Fails, CallFinish, CallUnknown, RunPlace
  <2> QED
    BY <1>3, <2>1
<1>5. ASSUME NEW n \in 0..MaxBatch, NEW used \in 0..MaxTokens, Answer(n, used)
      PROVE  Run!Next \/ UNCHANGED <<status, TheLoop, RunLost>>
  <2>1. CASE n = 0
    <3>1. /\ RunPlace = "llm" /\ RunPlace' = "ending"
          /\ UNCHANGED <<status, steps, RunLost>>
          /\ reason' = "finished"
      BY <1>5, <1>l, <2>1 DEF Answer, RunPlace
    <3> QED
      BY <1>3, <3>1
  <2>2. CASE n # 0
    <3>1. RunPlace = "llm" /\ RunPlace' = "llm" /\ UNCHANGED <<status, steps, reason, RunLost>>
      BY <1>5, <1>l, <2>2 DEF Answer, RunPlace
    <3> QED
      BY <3>1 DEF TheLoop
  <2> QED
    BY <2>1, <2>2
<1>6. ASSUME NEW t \in Tools, NEW a \in Args, NEW ok \in BOOLEAN, Call(t, a, ok)
      PROVE  UNCHANGED <<status, TheLoop, RunLost>>
  <2>1. RunPlace = "llm" /\ RunPlace' = "llm" /\ UNCHANGED <<status, steps, reason, RunLost>>
    BY <1>6, <1>l DEF Call, RunPlace
  <2> QED
    BY <2>1 DEF TheLoop
<1>7. ASSUME NEW a \in Args, Gate(a) PROVE Run!Next
  <2>1. /\ RunPlace = "llm" /\ RunPlace' = "guards" /\ UNCHANGED steps
        /\ status' = "awaiting_approval" /\ reason' = "awaiting_approval"
        /\ RunLost = FALSE /\ RunLost' = FALSE
    BY <1>7, <1>l DEF Gate, RunPlace
  <2>2. Run!Gate("run")
    <3>1. TheLoop' = [TheLoop EXCEPT !["run"].pc = "guards", !["run"].copy = "awaiting_approval",
                                     !["run"].reason = "awaiting_approval"]
      BY <2>1, Updates
    <3>2. TheLoop["run"].pc = "llm" /\ TheLoop["run"].copy = status
      BY <2>1
    <3> QED
      BY <2>1, <3>1, <3>2 DEF Run!Gate, Run!Written, TheLoop
  <2> QED
    BY <2>2 DEF Run!Next, Run!Proceed
<1>8. CASE Trips \/ OverBudget \/ StepEnds
  <2>1. PICK trip \in {"none", "safety_tripped", "budget_exceeded"} :
            /\ RunPlace' = IF trip = "none" THEN "top" ELSE "ending"
            /\ reason' = IF trip # "none" THEN trip
                         ELSE IF reason = "none" THEN "max_steps" ELSE reason
    BY <1>8 DEF Trips, OverBudget, StepEnds, Standing, RunPlace
  <2>2. RunPlace \in {"llm", "guards"} /\ UNCHANGED <<status, steps, RunLost>>
    BY <1>8, <1>l DEF Trips, OverBudget, StepEnds, RunPlace
  <2>3. Run!Guards("run")
    <3>1. RunPlace # "idle" /\ RunPlace' # "idle"
      BY <2>1, <2>2
    <3>2. TheLoop' = [TheLoop EXCEPT !["run"].pc = RunPlace', !["run"].reason = reason']
      BY <2>2, <3>1, Updates
    <3>3. TheLoop["run"].pc = RunPlace /\ TheLoop["run"].reason = reason
      BY <3>1
    <3> QED
      BY <2>1, <2>2, <3>2, <3>3 DEF Run!Guards, TheLoop
  <2> QED
    BY <2>3 DEF Run!Next, Run!Proceed
<1>9. CASE LoopEnds
  <2>1. RunPlace = "top" /\ RunPlace' = "ending" /\ ~(steps < MaxSteps)
        /\ UNCHANGED <<status, steps, reason, RunLost>>
    BY <1>9, <1>l DEF LoopEnds, More, RunPlace
  <2>2. Run!LoopEnds("run")
    <3>1. RunLoop' = [TheLoop["run"] EXCEPT !.pc = "ending"]
      BY <2>1
    <3>2. TheLoop' = [TheLoop EXCEPT !["run"].pc = "ending"]
      BY <3>1, Changes
    <3>3. TheLoop["run"].pc = "top" /\ TheLoop["run"].steps = steps
      BY <2>1
    <3> QED
      BY <2>1, <3>2, <3>3 DEF Run!LoopEnds, Run!More, TheLoop
  <2> QED
    BY <2>2 DEF Run!Next, Run!Proceed
<1>10. CASE Finish
  <2>1. RunPlace = "ending" /\ RunPlace' = "idle" /\ status' = reason
        /\ status' # "running" /\ RunLost = FALSE /\ RunLost' = FALSE
    BY <1>0, <1>10 DEF Finish, Open, Types, Reasons, RunPlace, RunLost
  <2>2. Run!Finish("run")
    <3>1. TheLoop' = [TheLoop EXCEPT !["run"] = Run!NoLoop]
      BY <2>1, Changes DEF Run!NoLoop, Run!Fresh
    <3>2. /\ TheLoop["run"].pc = "ending" /\ TheLoop["run"].copy = status
          /\ TheLoop["run"].reason = reason
      BY <2>1
    <3> QED
      BY <2>1, <3>1, <3>2 DEF Run!Finish, Run!Ended, Run!Written, TheLoop
  <2> QED
    BY <2>2 DEF Run!Next, Run!Proceed
<1>12. CASE CommitRaises
  <2>1. /\ RunPlace = "ending" \/ (RunPlace = "top" /\ steps = 0)
        /\ RunPlace' = "idle" /\ UNCHANGED <<status, steps>>
    BY <1>12 DEF CommitRaises, RunPlace
  <2>2. Run!CommitRaises("run")
    <3>1. TheLoop' = [TheLoop EXCEPT !["run"] = Run!NoLoop]
      BY <2>1, Changes DEF Run!NoLoop, Run!Fresh
    <3>2. /\ TheLoop["run"].pc = RunPlace /\ TheLoop["run"].copy = status
          /\ TheLoop["run"].steps = steps
      BY <2>1
    <3>3. RunLost' = (RunLost \/ (status = "running" /\ Run!Committed("run")))
      BY <1>12, <2>1, <3>2 DEF CommitRaises, RunLost, Run!Committed, TheLoop
    <3>4. Run!Gone("run")
      BY <2>1, <3>1, <3>3 DEF Run!Gone, TheLoop
    <3> QED
      BY <2>1, <3>2, <3>4 DEF Run!CommitRaises, TheLoop
  <2> QED
    BY <2>2 DEF Run!Next
<1>11. CASE UNCHANGED vars
  <2>1. UNCHANGED <<pc, status, steps, reason>>
    BY <1>11 DEF vars
  <2> QED
    BY <2>1 DEF TheLoop, RunLoop, RunPlace, RunLost
<1> QED
  BY <1>1, <1>2, <1>4, <1>5, <1>6, <1>7, <1>8, <1>9, <1>10, <1>11, <1>12 DEF Next

\* A loop in all its detail changes the run's row only as AgentRun says: the
\* tools, the guards, the budget and the gate decide when, never what else.
THEOREM RunImplemented == Spec => ImplementsRun
<1>1. IInv /\ [Next]_vars => [Run!Next]_(Run!vars)
  BY StepMaps DEF Run!vars, TheLoop
<1> QED
  BY <1>1, InitMaps, LoopInvariance, PTL DEF Spec, ImplementsRun, Run!Spec

=============================================================================
