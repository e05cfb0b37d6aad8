------------------------------ MODULE Services ------------------------------
(***************************************************************************)
(* The parts around the engine, side by side.  They share no state, so a   *)
(* behaviour moves only one of them, chosen at the start: every state of   *)
(* each is reached, without their product.                                 *)
(***************************************************************************)
EXTENDS Naturals

CONSTANTS
    Emails, Orgs, Teams, Invitations, Wanted, Platform, Founding,     \* accounts
    Tokens, Tabs,                                                       \* sessions
    ResetTokens, Old,                                                   \* password resets
    Keys, UserKeys, Integrations,                                       \* the vault
    Users, Homes, NoOrg, Models, NoModel, Copies,                       \* settings
    Crons, Valid,                                                       \* schedules
    TTL, MaxTime,                                                       \* the cache
    Tasks, Members, Nobody,                                             \* notices
    Runs, Lines, MaxLines,                                              \* test runs
    Files, Existing, MaxEdits,                                          \* patches
    Names,                                                              \* templates
    Loops, MaxSteps, MaxMessages, Threshold, Every, MaxBatch, MaxRows,  \* conversation
    Wished,                                                             \* todos
    Cap, Amounts, MaxUsed, MaxDays,                                     \* the budget
    Sockets, Channels, MaxQueue, MaxEvents,                             \* broadcasts
    Servers,
    Requests,       \* requests of the accounts and calls of the tools that write files
    Calls           \* those of the other parts

VARIABLES moves,        \* the part that does
          users, org, team, dropped, member, teamMember, invitation, expired, change,
          token, timedOut, cookie, tab, lost,
          secretRow, secret, keyCall,
          settings,
          schedule, job, cronRequest, mixed, forgotten,
          now, reachable, redis, memory, call, answered, stored, hit,
          task, subtask, comment, notice, taskRequest,
          testRun, process,
          file, toolCall, spoiled, rewritten,
          template, visit, clone, overlapped,
          resetToken, lapsed, password, resetting, together,
          rows, status, saved, loop,
          todo, todoCall, crossed, told,
          used, today, check, alerts, abreast,
          channel, queue, socket, sending, shown, due, event

A == INSTANCE Accounts WITH request <- change

S == INSTANCE Sessions

V == INSTANCE Vault WITH row <- secretRow, call <- keyCall

P == INSTANCE Settings WITH Orgs <- Homes, rows <- settings

J == INSTANCE Schedules WITH Schedules <- Crons, Requests <- Calls, row <- schedule,
        request <- cronRequest

C == INSTANCE Cache

N == INSTANCE Notices WITH Users <- Members, Requests <- Calls, request <- taskRequest

U == INSTANCE TestRuns WITH row <- testRun

F == INSTANCE Patches WITH Calls <- Requests, call <- toolCall

T == INSTANCE Templates WITH Visits <- Calls

R == INSTANCE Resets WITH Tokens <- ResetTokens, Resets <- Calls

M == INSTANCE Conversation

L == INSTANCE Todos

D == INSTANCE Budget

B == INSTANCE Broadcast

ASSUME PartAssumptions ==
    /\ A!PlatformAssumption /\ S!TokensAssumption /\ V!UserKeysAssumption
    /\ J!ValidAssumption /\ C!TTLAssumption /\ N!NobodyAssumption
    /\ U!LinesAssumption /\ F!ExistingAssumption /\ T!NamesAssumption /\ R!OldAssumption
    /\ M!BoundsAssumption /\ P!PlacesAssumption /\ L!WishedAssumption
    /\ D!CapAssumption /\ B!LimitsAssumption

accounts == <<users, org, team, dropped, member, teamMember, invitation, expired, change>>
sessions == <<token, timedOut, cookie, tab, lost>>
vault == <<secretRow, secret, keyCall>>
schedules == <<schedule, job, cronRequest, mixed, forgotten>>
cache == <<now, reachable, redis, memory, call, answered, stored, hit>>
notices == <<task, subtask, comment, notice, taskRequest>>
testRuns == <<testRun, process>>
patches == <<file, toolCall, spoiled, rewritten>>
templates == <<template, visit, clone, overlapped>>
resets == <<resetToken, lapsed, password, resetting, together>>
conversation == <<rows, status, saved, loop>>
todos == <<todo, todoCall, crossed, told>>
budget == <<used, today, check, alerts, abreast>>
broadcast == <<channel, queue, socket, sending, shown, due, event>>

Init ==
    /\ moves \in {"A", "S", "V", "P", "J", "C", "N", "U", "F", "T", "R", "M", "L", "D", "B"}
    /\ A!Init /\ S!Init /\ V!Init /\ P!Init /\ J!Init /\ C!Init /\ N!Init
    /\ U!Init /\ F!Init /\ T!Init /\ R!Init /\ M!Init
    /\ L!Init /\ D!Init /\ B!Init

\* The parts that rest.
RestA == UNCHANGED accounts
RestS == UNCHANGED sessions
RestV == UNCHANGED vault
RestP == UNCHANGED settings
RestJ == UNCHANGED schedules
RestC == UNCHANGED cache
RestN == UNCHANGED notices
RestU == UNCHANGED testRuns
RestF == UNCHANGED patches
RestT == UNCHANGED templates
RestR == UNCHANGED resets
RestM == UNCHANGED conversation
RestL == UNCHANGED todos
RestD == UNCHANGED budget
RestB == UNCHANGED broadcast
RestAtoN == RestA /\ RestS /\ RestV /\ RestP /\ RestJ /\ RestC /\ RestN
RestUtoR == RestU /\ RestF /\ RestT /\ RestR
RestMtoB == RestM /\ RestL /\ RestD /\ RestB

Next ==
    /\ UNCHANGED moves
    /\ \/ moves = "A" /\ A!Next /\ RestS /\ RestV /\ RestP /\ RestJ /\ RestC /\ RestN
                      /\ RestUtoR /\ RestMtoB
       \/ moves = "S" /\ S!Next /\ RestA /\ RestV /\ RestP /\ RestJ /\ RestC /\ RestN
                      /\ RestUtoR /\ RestMtoB
       \/ moves = "V" /\ V!Next /\ RestA /\ RestS /\ RestP /\ RestJ /\ RestC /\ RestN
                      /\ RestUtoR /\ RestMtoB
       \/ moves = "P" /\ P!Next /\ RestA /\ RestS /\ RestV /\ RestJ /\ RestC /\ RestN
                      /\ RestUtoR /\ RestMtoB
       \/ moves = "J" /\ J!Next /\ RestA /\ RestS /\ RestV /\ RestP /\ RestC /\ RestN
                      /\ RestUtoR /\ RestMtoB
       \/ moves = "C" /\ C!Next /\ RestA /\ RestS /\ RestV /\ RestP /\ RestJ /\ RestN
                      /\ RestUtoR /\ RestMtoB
       \/ moves = "N" /\ N!Next /\ RestA /\ RestS /\ RestV /\ RestP /\ RestJ /\ RestC
                      /\ RestUtoR /\ RestMtoB
       \/ moves = "U" /\ U!Next /\ RestAtoN /\ RestF /\ RestT /\ RestR /\ RestMtoB
       \/ moves = "F" /\ F!Next /\ RestAtoN /\ RestU /\ RestT /\ RestR /\ RestMtoB
       \/ moves = "T" /\ T!Next /\ RestAtoN /\ RestU /\ RestF /\ RestR /\ RestMtoB
       \/ moves = "R" /\ R!Next /\ RestAtoN /\ RestU /\ RestF /\ RestT /\ RestMtoB
       \/ moves = "M" /\ M!Next /\ RestAtoN /\ RestUtoR /\ RestL /\ RestD /\ RestB
       \/ moves = "L" /\ L!Next /\ RestAtoN /\ RestUtoR /\ RestM /\ RestD /\ RestB
       \/ moves = "D" /\ D!Next /\ RestAtoN /\ RestUtoR /\ RestM /\ RestL /\ RestB
       \/ moves = "B" /\ B!Next /\ RestAtoN /\ RestUtoR /\ RestM /\ RestL /\ RestD

vars == <<moves, accounts, sessions, vault, settings, schedules, cache, notices,
          testRuns, patches, templates, resets, conversation,
          todos, budget, broadcast>>

Spec == Init /\ [][Next]_vars

-----------------------------------------------------------------------------
(* Properties *)

\* The rows of the part that moves are of their types; the others keep their Init.
TypeOK ==
    CASE moves = "A" -> A!TypeOK [] moves = "S" -> S!TypeOK [] moves = "V" -> V!TypeOK
      [] moves = "P" -> P!TypeOK [] moves = "J" -> J!TypeOK [] moves = "C" -> C!TypeOK
      [] moves = "N" -> N!TypeOK [] moves = "U" -> U!TypeOK [] moves = "F" -> F!TypeOK
      [] moves = "T" -> T!TypeOK [] moves = "R" -> R!TypeOK [] moves = "M" -> M!TypeOK
      [] moves = "L" -> L!TypeOK [] moves = "D" -> D!TypeOK [] moves = "B" -> B!TypeOK

\* Whoever accepted an invitation has every membership it promised (invitations.py).
AcceptedIsMember == moves = "A" => A!AcceptedIsMember

\* A browser whose requests are all answered holds no revoked token (auth.py).
CookieLives == moves = "S" => S!CookieLives

\* A run uses the model that the settings page shows, if both look in the same
\* places (settings.py, model_resolver.py).
ShownIsUsed == moves = "P" => P!ShownIsUsed

\* A cached answer is fresh and is no error (cache.py).
HitsAreSound == moves = "C" => C!HitsAreSound

\* A test run's stored verdict is what its process said (testing/service.py).
VerdictTrue == moves = "U" => U!VerdictTrue

\* A patch of several files is made whole or not at all (apply_patch.py).
PatchesWhole == moves = "F" => F!PatchesWhole

\* The stored results of an answer follow it, in order (runtime.py: _persist).
ResultsFollow == moves = "M" => M!ResultsFollow

\* A resumed loop shows the LLM the approval that resumed it (memory.py: trim).
ApprovalKept == moves = "M" => M!ApprovalKept

\* What is kept twice agrees: the vault with its rows (keys.py), the jobs with
\* theirs (scheduler.py).
StoresAgree == (moves = "V" => V!VaultAgrees) /\ (moves = "J" => J!JobsFollowRows)

\* What is looked up first is done once: a default template (templates.py), a
\* password reset (auth.py), a todo's number (update_todo.py), a budget alert
\* (budget.py).
OnceEach ==
    /\ moves = "T" => T!TemplatesOnce
    /\ moves = "R" => R!ResetOnce
    /\ moves = "L" => L!TodosNumbered
    /\ moves = "D" => D!AlertsOnce

\* Who is to be told is: the assignee of a task (task_service.py), the subscribers
\* of a channel (websocket.py).
EveryoneTold == (moves = "N" => N!AssigneeTold) /\ (moves = "B" => B!SubscribersTold)

=============================================================================
