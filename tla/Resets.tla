------------------------------- MODULE Resets -------------------------------
(***************************************************************************)
(* Password resets of backend/app/api/v1/auth.py, for one user: tokens are *)
(* mailed, and a request that brings one judges its row and then writes    *)
(* the password and the row's used_at in one commit.                       *)
(***************************************************************************)
CONSTANTS
    Tokens,
    Old,            \* the password before all resets
    Resets          \* requests; each brings a password of its own

\* What is assumed of the constants.
OldAssumption == Old \notin Resets

VARIABLES
    resetToken,     \* password_reset_tokens: "none", "unused" or "used" (used_at)
    lapsed,         \* tokens whose expires_at has passed
    password,       \* the request whose password the user has, or Old
    resetting,      \* [at, token] of each request
    together        \* pairs of requests: one committed while the other had judged

vars == <<resetToken, lapsed, password, resetting, together>>

Bringing == {{}} \cup {{t} : t \in Tokens}

TypeOK ==
    /\ resetToken \in [Tokens -> {"none", "unused", "used"}]
    /\ lapsed \subseteq Tokens
    /\ password \in Resets \cup {Old}
    /\ resetting \in [Resets -> [at : {"start", "judged", "over", "refused", "died"},
                                 token : Bringing]]
    /\ together \subseteq Resets \X Resets

Init ==
    /\ resetToken = [t \in Tokens |-> "none"]
    /\ lapsed = {}
    /\ password = Old
    /\ resetting = [r \in Resets |-> [at |-> "start", token |-> {}]]
    /\ together = {}

\* forgot_password: a row is committed and its token mailed.
Forgot(t) ==
    /\ resetToken[t] = "none"
    /\ resetToken' = [resetToken EXCEPT ![t] = "unused"]
    /\ UNCHANGED <<lapsed, password, resetting, together>>

Lapse(t) ==
    /\ resetToken[t] # "none"
    /\ lapsed' = lapsed \cup {t}
    /\ UNCHANGED <<resetToken, password, resetting, together>>

\* Fault: used_at is not asked for.
Good_Unasked(t) == resetToken[t] # "none" /\ t \notin lapsed

Good(t) == resetToken[t] = "unused" /\ t \notin lapsed

\* reset_password judges the token's row ...
JudgeReset(r, t) ==
    /\ resetting[r].at = "start"
    /\ resetting' = [resetting EXCEPT ![r] =
           [at |-> IF Good(t) THEN "judged" ELSE "refused", token |-> {t}]]
    /\ UNCHANGED <<resetToken, lapsed, password, together>>

SameToken(r, s) == resetting[r].token = resetting[s].token

\* ... and commits the password and used_at without looking again.
Reset(r) ==
    /\ resetting[r].at = "judged"
    /\ password' = r
    /\ resetToken' = [t \in Tokens |-> IF t \in resetting[r].token THEN "used" ELSE resetToken[t]]
    /\ resetting' = [resetting EXCEPT ![r].at = "over"]
    /\ together' = together \cup
           {<<r, s>> : s \in {s \in Resets \ {r} : resetting[s].at = "judged" /\ SameToken(r, s)}}
    /\ UNCHANGED lapsed

DiesResetting(r) ==
    /\ resetting[r].at = "judged"
    /\ resetting' = [resetting EXCEPT ![r].at = "died"]
    /\ UNCHANGED <<resetToken, lapsed, password, together>>

Next ==
    \/ \E t \in Tokens : Forgot(t) \/ Lapse(t)
    \/ \E r \in Resets :
           \/ \E t \in Tokens : JudgeReset(r, t)
           \/ Reset(r) \/ DiesResetting(r)

Spec == Init /\ [][Next]_vars

-----------------------------------------------------------------------------
(* Properties *)

\* A token sets the password once, unless one request committed while another
\* had already judged the same token; a token is used exactly if a request over
\* brought it; and the user's password is that of such a request or the old one,
\* whatever was refused or died (auth.py: reset_password).
ResetOnce ==
    /\ \A r, s \in Resets :
           r # s /\ resetting[r].at = "over" /\ resetting[s].at = "over" /\ SameToken(r, s) =>
               <<r, s>> \in together \/ <<s, r>> \in together
    /\ \A t \in Tokens : (resetToken[t] = "used") =
           \E r \in Resets : resetting[r].at = "over" /\ resetting[r].token = {t}
    /\ IF password = Old THEN \A t \in Tokens : resetToken[t] # "used"
                         ELSE resetting[password].at = "over"

=============================================================================
