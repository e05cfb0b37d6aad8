--------------------------- MODULE AgentRunProofs ---------------------------
(***************************************************************************)
(* What holds of an agent run for every number of loops and requests: the  *)
(* types, and that no run is left "running" unless its loop was lost.      *)
(***************************************************************************)
EXTENDS AgentRun, TLAPS

\* In the while loop and after it a loop has a reason to end, except before its
\* first step.
HasReason(x) ==
    /\ x.pc = "top" /\ x.steps > 0 => x.reason # "none"
    /\ x.pc = "ending" => x.reason # "none"

Reasoned == \A l \in Loops : HasReason(loop[l])

IInv == TypeOK /\ Reasoned /\ NoZombie

\* The states an action may give a loop.
LEMMA FreshState ==
    ASSUME NEW pc \in LoopPlaces,
           NEW copy \in RunStatus
    PROVE  Fresh(pc, copy) \in LoopState
<1>1. 0 \in 0..MaxSteps
  BY StepsAssumption
<1>2. "none" \in Reasons \cup {"none"}
  OBVIOUS
<1> QED
  BY <1>1, <1>2 DEF Fresh, LoopState

\* A loop that changes its place, its copy of the status or its reason.
LEMMA Moved ==
    ASSUME loop \in [Loops -> LoopState], NEW l \in Loops,
           NEW pc \in LoopPlaces,
           NEW copy \in RunStatus, NEW reason \in Reasons \cup {"none"},
           loop' = [loop EXCEPT ![l] = [loop[l] EXCEPT !.pc = pc, !.copy = copy, !.reason = reason]]
    PROVE  loop' \in [Loops -> LoopState]
<1> DEFINE x == [loop[l] EXCEPT !.pc = pc, !.copy = copy, !.reason = reason]
<1>1. loop[l] \in LoopState
  OBVIOUS
<1>2. x \in LoopState
  BY <1>1 DEF LoopState
<1> QED
  BY <1>2

\* The states in which a loop starts and rests are states of a loop.
LEMMA NewStates ==
    /\ NoLoop \in LoopState
    /\ Fresh("top", "running") \in LoopState
    /\ \A r \in RunStatus :
          /\ Fresh("resuming", r) \in LoopState
          /\ Fresh("entering", r) \in LoopState
  BY FreshState DEF NoLoop, RunStatus, LoopPlaces

\* There is no run and no loop yet.
LEMMA InitInv == Init => IInv
<1> SUFFICES ASSUME Init PROVE IInv
  OBVIOUS
<1>1. NoLoop \in LoopState
  BY NewStates
<1>2. TypeOK
  <2>1. row \in RunStatus /\ old \in BOOLEAN /\ lost \in BOOLEAN
    BY DEF Init, RunStatus
  <2>2. clerk \in [Clerks -> ClerkState]
    BY DEF Init, ClerkState
  <2>3. loop \in [Loops -> LoopState]
    BY <1>1 DEF Init
  <2> QED
    BY <2>1, <2>2, <2>3 DEF TypeOK
<1>3. Reasoned
  BY DEF Init, Reasoned, HasReason, NoLoop, Fresh
<1>4. NoZombie
  BY DEF Init, NoZombie
<1> QED
  BY <1>2, <1>3, <1>4 DEF IInv

\* One step of the control of a loop, or of a request, keeps the types.
LEMMA TypeStep == IInv /\ [Next]_vars => TypeOK'
<1> SUFFICES ASSUME IInv, [Next]_vars PROVE TypeOK'
  OBVIOUS
<1> USE StepsAssumption
<1>0. /\ row \in RunStatus /\ loop \in [Loops -> LoopState] /\ clerk \in [Clerks -> ClerkState]
      /\ old \in BOOLEAN /\ lost \in BOOLEAN
  BY DEF IInv, TypeOK
<1>s. {"absent", "running", "awaiting_approval"} \subseteq RunStatus /\ Reasons \subseteq RunStatus
  BY DEF RunStatus, Reasons
<1>1. ASSUME NEW l \in Loops, Start(l) PROVE TypeOK'
  BY <1>0, <1>s, <1>1, NewStates DEF TypeOK, Start
<1>2. ASSUME NEW l \in Loops, ResumeLoad(l) \/ ConverseLoad(l) PROVE TypeOK'
  BY <1>0, <1>2, NewStates DEF TypeOK, ResumeLoad, ConverseLoad
<1>3. ASSUME NEW l \in Loops, ResumeCommit(l) \/ Enter(l) PROVE TypeOK'
  <2>1. row' \in RunStatus
    BY <1>0, <1>s, <1>3 DEF ResumeCommit, Enter, Written
  <2>2. loop' \in [Loops -> LoopState]
    <3>1. CASE ResumeCommit(l)
      <4>1. loop' = [loop EXCEPT ![l] = [loop[l] EXCEPT !.pc = "entering", !.copy = "running",
                                                        !.reason = loop[l].reason]]
        BY <1>0, <3>1 DEF ResumeCommit, LoopState
      <4>2. loop[l].reason \in Reasons \cup {"none"}
        BY <1>0 DEF LoopState
      <4> QED
        BY <1>0, <1>s, <4>1, <4>2, Moved DEF LoopPlaces
    <3>2. CASE Enter(l)
      BY <1>0, <3>2, NewStates DEF Enter
    <3> QED
      BY <1>3, <3>1, <3>2
  <2> QED
    BY <1>0, <1>3, <2>1, <2>2 DEF ResumeCommit, Enter, TypeOK
<1>4. ASSUME NEW l \in Loops, NextStep(l) PROVE TypeOK'
  <2>1. loop[l].steps \in 0..MaxSteps
    BY <1>0 DEF LoopState
  <2>2. Counted(loop[l].steps) \in 1..MaxSteps
    BY <1>4, <2>1 DEF NextStep, More, Counted
  <2>4. loop' = [loop EXCEPT ![l].pc = "llm", ![l].steps = Counted(loop[l].steps)]
    BY <1>4 DEF NextStep
  <2>5. Counted(loop[l].steps) \in 0..MaxSteps
    BY <2>2
  <2>3. [loop[l] EXCEPT !.pc = "llm", !.steps = Counted(loop[l].steps)] \in LoopState
    BY <1>0, <2>5 DEF LoopState, LoopPlaces
  <2>6. loop' \in [Loops -> LoopState]
    BY <1>0, <2>3, <2>4
  <2> QED
    BY <1>0, <1>4, <2>6 DEF NextStep, TypeOK
<1>5. ASSUME NEW l \in Loops, Break(l) \/ LoopEnds(l) PROVE TypeOK'
  <2>0. loop[l].steps \in 0..MaxSteps /\ loop[l].copy \in RunStatus
        /\ loop[l].reason \in Reasons \cup {"none"}
    BY <1>0 DEF LoopState
  <2>1. loop' \in [Loops -> LoopState]
    <3>1. PICK reason \in Reasons \cup {"none"} :
              loop' = [loop EXCEPT ![l] = [loop[l] EXCEPT !.pc = "ending", !.copy = loop[l].copy,
                                                          !.reason = reason]]
      <4>1. CASE Break(l)
        <5>1. PICK reason \in {"error", "finished"} :
                 loop' = [loop EXCEPT ![l].pc = "ending", ![l].reason = reason]
          BY <4>1 DEF Break
        <5>2. loop' = [loop EXCEPT ![l] = [loop[l] EXCEPT !.pc = "ending", !.copy = loop[l].copy,
                                                          !.reason = reason]]
          BY <1>0, <5>1 DEF LoopState
        <5>3. reason \in Reasons \cup {"none"}
          BY DEF Reasons
        <5> QED
          BY <5>2, <5>3
      <4>2. CASE LoopEnds(l)
        <5>1. loop' = [loop EXCEPT ![l] = [loop[l] EXCEPT !.pc = "ending", !.copy = loop[l].copy,
                                                          !.reason = loop[l].reason]]
          BY <1>0, <4>2 DEF LoopEnds, LoopState
        <5> QED
          BY <2>0, <5>1
      <4> QED
        BY <1>5, <4>1, <4>2
    <3> QED
      BY <1>0, <2>0, <3>1, Moved DEF LoopPlaces
  <2> QED
    BY <1>0, <1>5, <2>1 DEF Break, LoopEnds, TypeOK
<1>11. ASSUME NEW l \in Loops, CommitRaises(l) \/ LoopDies(l) PROVE TypeOK'
  <2>1. Gone(l)
    BY <1>11 DEF CommitRaises, LoopDies
  <2>2. (lost \/ (row = "running" /\ Committed(l))) \in BOOLEAN
    OBVIOUS
  <2> QED
    BY <1>0, <2>1, <2>2, NewStates DEF Gone, TypeOK
<1>12. ASSUME NEW l \in Loops, Gate(l) \/ Guards(l) PROVE TypeOK'
  <2>0. loop[l].reason \in Reasons \cup {"none"} /\ loop[l].copy \in RunStatus
    BY <1>0 DEF LoopState
  <2>1. PICK pc \in LoopPlaces, copy \in RunStatus, reason \in Reasons \cup {"none"} :
            loop' = [loop EXCEPT ![l] = [loop[l] EXCEPT !.pc = pc, !.copy = copy, !.reason = reason]]
    <3>1. CASE Gate(l)
      <4>1. "guards" \in LoopPlaces /\ "awaiting_approval" \in Reasons
        BY DEF LoopPlaces, Reasons
      <4>2. loop' = [loop EXCEPT ![l] = [loop[l] EXCEPT !.pc = "guards", !.copy = "awaiting_approval",
                                                        !.reason = "awaiting_approval"]]
        BY <1>0, <3>1 DEF Gate, LoopState
      <4> QED
        BY <1>s, <4>1, <4>2
    <3>2. CASE Guards(l)
      <4>1. PICK trip \in {"none", "safety_tripped", "budget_exceeded"} :
                loop' = [loop EXCEPT
                    ![l].pc = IF trip = "none" THEN "top" ELSE "ending",
                    ![l].reason = IF trip # "none" THEN trip
                                  ELSE IF @ = "none" THEN "max_steps"
                                  ELSE @]
        BY <3>2 DEF Guards
      <4> DEFINE pc == IF trip = "none" THEN "top" ELSE "ending"
                 reason == IF trip # "none" THEN trip
                           ELSE IF loop[l].reason = "none" THEN "max_steps" ELSE loop[l].reason
      <4>2. pc \in LoopPlaces /\ reason \in Reasons \cup {"none"}
        BY <2>0 DEF LoopPlaces, Reasons
      <4>3. loop' = [loop EXCEPT ![l] = [loop[l] EXCEPT !.pc = pc, !.copy = loop[l].copy,
                                                        !.reason = reason]]
        BY <1>0, <4>1 DEF LoopState
      <4> HIDE DEF pc, reason
      <4> QED
        BY <2>0, <4>2, <4>3
    <3> QED
      BY <1>12, <3>1, <3>2
  <2>2. loop' \in [Loops -> LoopState]
    BY <1>0, <2>1, Moved
  <2>3. row' \in RunStatus
    BY <1>0, <1>s, <1>12 DEF Gate, Guards, Written
  <2> QED
    BY <1>0, <1>12, <2>2, <2>3 DEF Gate, Guards, TypeOK
<1>6. ASSUME NEW l \in Loops, Finish(l) PROVE TypeOK'
  <2>1. loop[l].reason \in Reasons
    BY <1>0, <1>6 DEF Finish, IInv, Reasoned, HasReason, LoopState
  <2>2. row' \in RunStatus
    BY <1>0, <1>s, <1>6, <2>1 DEF Finish, Ended, Written
  <2>3. loop' \in [Loops -> LoopState]
    BY <1>0, <1>6, NewStates DEF Finish
  <2> QED
    BY <1>0, <1>6, <2>2, <2>3 DEF Finish, TypeOK
<1>7. ASSUME NEW c \in Clerks, NEW mark \in Marks, MarkLoad(c, mark) PROVE TypeOK'
  BY <1>7 DEF IInv, TypeOK, MarkLoad, ClerkState
<1>8. ASSUME NEW c \in Clerks, MarkCommit(c) \/ ClerkDies(c) PROVE TypeOK'
  BY <1>8 DEF IInv, TypeOK, MarkCommit, ClerkDies, ClerkState, RunStatus
<1>9. CASE Ages
  BY <1>9 DEF IInv, TypeOK, Ages
<1>10. CASE UNCHANGED vars
  BY <1>10 DEF IInv, TypeOK, vars
<1> QED
  BY <1>1, <1>2, <1>3, <1>4, <1>5, <1>6, <1>7, <1>8, <1>9, <1>10, <1>11, <1>12 DEF Next, Proceed

\* A loop that has made a step, or ends, has a reason; every step keeps that.
LEMMA ReasonStep == IInv /\ [Next]_vars => Reasoned'
<1> SUFFICES ASSUME IInv, [Next]_vars, NEW m \in Loops PROVE HasReason(loop'[m])
  BY DEF Reasoned
<1>1. HasReason(loop[m]) /\ loop[m] \in LoopState /\ loop \in [Loops -> LoopState]
  BY DEF IInv, TypeOK, Reasoned
<1>2. HasReason(NoLoop)
  BY DEF HasReason, NoLoop, Fresh
<1>3. ASSUME NEW l \in Loops, Start(l) \/ ResumeLoad(l) \/ ConverseLoad(l) \/ ResumeCommit(l)
      PROVE  HasReason(loop'[m])
  BY <1>1, <1>3 DEF Start, ResumeLoad, ConverseLoad, ResumeCommit, NoLoop, Fresh, HasReason, LoopState
<1>4. ASSUME NEW l \in Loops, Enter(l) \/ Finish(l) \/ CommitRaises(l) \/ LoopDies(l)
      PROVE  HasReason(loop'[m])
  BY <1>1, <1>4 DEF Enter, Finish, CommitRaises, LoopDies, Gone, NoLoop, Fresh, HasReason, LoopState
<1>5. ASSUME NEW l \in Loops, NextStep(l) \/ Break(l)
      PROVE  HasReason(loop'[m])
  <2>1. CASE NextStep(l)
    BY <1>1, <2>1 DEF NextStep, HasReason, LoopState
  <2>2. CASE Break(l)
    <3>1. PICK reason \in {"error", "finished"} :
                loop' = [loop EXCEPT ![l].pc = "ending", ![l].reason = reason]
      BY <2>2 DEF Break
    <3>2. reason # "none"
      BY <3>1
    <3> QED
      BY <1>1, <3>1, <3>2 DEF HasReason, LoopState
  <2> QED
    BY <1>5, <2>1, <2>2
<1>6. ASSUME NEW l \in Loops, Gate(l) \/ Guards(l) PROVE HasReason(loop'[m])
  <2>1. CASE Gate(l)
    BY <1>1, <2>1 DEF Gate, HasReason, LoopState
  <2>2. CASE Guards(l)
    BY <1>1, <2>2 DEF Guards, HasReason, LoopState
  <2> QED
    BY <1>6, <2>1, <2>2
<1>7. ASSUME NEW l \in Loops, LoopEnds(l) PROVE HasReason(loop'[m])
  BY <1>1, <1>7, StepsAssumption DEF LoopEnds, More, HasReason, LoopState
<1>8. ASSUME NEW c \in Clerks, (\E mark \in Marks : MarkLoad(c, mark)) \/ MarkCommit(c) \/ ClerkDies(c)
      PROVE  HasReason(loop'[m])
  BY <1>1, <1>8 DEF MarkLoad, MarkCommit, ClerkDies
<1>9. CASE Ages \/ UNCHANGED vars
  BY <1>1, <1>9 DEF Ages, vars
<1> QED
  BY <1>3, <1>4, <1>5, <1>6, <1>7, <1>8, <1>9 DEF Next, Proceed

\* A committed loop stays one through every step it does not take itself, and
\* leaves only by writing a status that is not "running".
LEMMA ZombieStep == IInv /\ [Next]_vars => NoZombie'
<1> SUFFICES ASSUME IInv, [Next]_vars, ~lost', row' = "running"
             PROVE  (\E l \in Loops : Committed(l))'
  BY DEF NoZombie
<1>1. loop \in [Loops -> LoopState] /\ row \in RunStatus
  BY DEF IInv, TypeOK
<1>2. row = "running" /\ ~lost => \E l \in Loops : Committed(l)
  BY DEF IInv, NoZombie
<1>3. ASSUME NEW l \in Loops, Start(l) \/ ResumeCommit(l) \/ Enter(l)
      PROVE  Committed(l)'
  <2>1. CASE Start(l) \/ Enter(l)
    BY <1>1, <2>1 DEF Start, Enter, Fresh, Committed
  <2>2. CASE ResumeCommit(l)
    BY <1>1, <2>2 DEF ResumeCommit, Committed, LoopState
  <2> QED
    BY <1>3, <2>1, <2>2
<1>4. ASSUME NEW l \in Loops, ResumeLoad(l) \/ ConverseLoad(l)
      PROVE  (\E k \in Loops : Committed(k))'
  <2>1. PICK k \in Loops : Committed(k)
    BY <1>2, <1>4 DEF ResumeLoad, ConverseLoad
  <2>2. k # l
    BY <1>4, <2>1 DEF ResumeLoad, ConverseLoad, Committed
  <2> QED
    BY <1>1, <1>4, <2>1, <2>2 DEF ResumeLoad, ConverseLoad, Committed
<1>5. ASSUME NEW l \in Loops, NextStep(l) \/ Break(l) \/ LoopEnds(l)
      PROVE  (\E k \in Loops : Committed(k))'
  <2>1. PICK k \in Loops : Committed(k)
    BY <1>2, <1>5 DEF NextStep, Break, LoopEnds
  <2> QED
    BY <1>1, <1>5, <2>1 DEF NextStep, Break, LoopEnds, Committed, LoopState
<1>6. ASSUME NEW l \in Loops, Gate(l) \/ Guards(l)
      PROVE  (\E k \in Loops : Committed(k))'
  <2>1. row = "running" /\ ~lost /\ (Gate(l) => loop[l].copy # "running")
    <3>1. Gate(l) => row' = Written(loop[l].copy, "awaiting_approval")
      BY DEF Gate
    <3>2. ~lost
      BY <1>6 DEF Gate, Guards
    <3>3. row = "running" /\ (Gate(l) => loop[l].copy # "running")
      BY <1>6, <3>1 DEF Guards, Written
    <3> QED
      BY <3>2, <3>3
  <2>2. PICK k \in Loops : Committed(k)
    BY <1>2, <2>1
  <2>3. CASE Gate(l)
    <3>1. k # l
      BY <2>1, <2>2, <2>3 DEF Committed
    <3> QED
      BY <1>1, <2>2, <2>3, <3>1 DEF Gate, Committed
  <2>4. CASE Guards(l)
    BY <1>1, <2>2, <2>4 DEF Guards, Committed, LoopState
  <2> QED
    BY <1>6, <2>3, <2>4
<1>7. ASSUME NEW l \in Loops, Finish(l)
      PROVE  (\E k \in Loops : Committed(k))'
  <2>1. loop[l].reason \in Reasons
    BY <1>1, <1>7 DEF Finish, IInv, Reasoned, HasReason, LoopState
  <2>2. row = "running" /\ loop[l].copy # "running" /\ ~lost
    BY <1>7, <2>1 DEF Finish, Ended, Written, Reasons
  <2>3. PICK k \in Loops : Committed(k)
    BY <1>2, <2>2
  <2>4. k # l
    BY <2>2, <2>3 DEF Committed
  <2> QED
    BY <1>1, <1>7, <2>3, <2>4 DEF Finish, Committed
<1>8. ASSUME NEW c \in Clerks, (\E mark \in Marks : MarkLoad(c, mark)) \/ ClerkDies(c)
      PROVE  (\E k \in Loops : Committed(k))'
  BY <1>2, <1>8 DEF MarkLoad, ClerkDies, Committed
<1>9. ASSUME NEW c \in Clerks, MarkCommit(c) PROVE FALSE
  BY <1>9 DEF MarkCommit, IInv, TypeOK, ClerkState, Marks
<1>10. CASE Ages \/ UNCHANGED vars
  BY <1>2, <1>10 DEF Ages, vars, Committed
<1>11. ASSUME NEW l \in Loops, CommitRaises(l) \/ LoopDies(l)
       PROVE  (\E k \in Loops : Committed(k))'
  <2>1. Gone(l)
    BY <1>11 DEF CommitRaises, LoopDies
  <2>2. row = "running" /\ ~lost /\ ~Committed(l)
    BY <2>1 DEF Gone
  <2>3. PICK k \in Loops : Committed(k)
    BY <1>2, <2>2
  <2>4. k # l
    BY <2>2, <2>3
  <2> QED
    BY <1>1, <2>1, <2>3, <2>4 DEF Gone, Committed
<1> QED
  BY <1>3, <1>4, <1>5, <1>6, <1>7, <1>8, <1>9, <1>10, <1>11 DEF Next, Proceed

\* The inductive invariant: types, a reason for every end, and a committed loop
\* behind every running row.
THEOREM RunInvariance == Spec => []IInv
<1>1. Init => IInv
  BY InitInv
<1>2. IInv /\ [Next]_vars => IInv'
  BY TypeStep, ReasonStep, ZombieStep DEF IInv
<1> QED
  BY <1>1, <1>2, PTL DEF Spec

\* Every status, copy and count of the run is one the code can hold.
THEOREM RunTypeCorrect == Spec => []TypeOK
<1>1. IInv => TypeOK
  BY DEF IInv
<1> QED
  BY <1>1, RunInvariance, PTL

\* A running row has a loop that will write its end, or lost that loop to a death
\* or to a commit that raised: for any number of loops, resumes, cancels and
\* cleanups at once.
THEOREM Alive == Spec => []NoZombie
<1>1. IInv => NoZombie
  BY DEF IInv
<1> QED
  BY <1>1, RunInvariance, PTL

=============================================================================
