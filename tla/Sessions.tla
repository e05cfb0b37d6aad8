------------------------------ MODULE Sessions ------------------------------
(***************************************************************************)
(* The refresh tokens of backend/app/api/v1/auth.py and the cookie one     *)
(* browser keeps of them.  Tabs share the cookie; each has at most one     *)
(* request in progress, which reads the token's row and writes it in a     *)
(* later commit, and whose answer may be lost.  (Access tokens are not     *)
(* stored; passwords are taken to be right.)                               *)
(***************************************************************************)
EXTENDS Naturals

CONSTANTS
    Tokens,         \* refresh tokens, numbered as they are issued
    Tabs            \* tabs of the browser

\* What is assumed of the constants.
TokensAssumption == Tokens \subseteq Nat

VARIABLES
    token,          \* refresh_tokens: "none", "live" or "revoked" (revoked_at)
    timedOut,       \* tokens whose expires_at has passed
    cookie,         \* the browser's refresh_token cookie: {token}, or {}
    tab,            \* where each tab's request stands
    lost            \* an answer has been lost since the last one that arrived

vars == <<token, timedOut, cookie, tab, lost>>

Holding == {{}} \cup {{t} : t \in Tokens}

\* A request: where it is, the token it was sent with, the cookie it answers.
Stage == {"idle", "refresh", "rotate", "logout", "close", "answer"}

Idle == [at |-> "idle", sent |-> {}, set |-> {}]

TypeOK ==
    /\ token \in [Tokens -> {"none", "live", "revoked"}]
    /\ timedOut \subseteq Tokens
    /\ cookie \in Holding
    /\ tab \in [Tabs -> [at : Stage, sent : Holding, set : Holding]]
    /\ lost \in BOOLEAN

Init ==
    /\ token = [t \in Tokens |-> "none"]
    /\ timedOut = {}
    /\ cookie = {}
    /\ tab = [b \in Tabs |-> Idle]
    /\ lost = FALSE

\* The next token: each is made only once.
Issuable(new) == token[new] = "none" /\ \A t \in Tokens : t < new => token[t] # "none"

Usable(t) == token[t] = "live" /\ t \notin timedOut

Move(b, at, set) == tab' = [tab EXCEPT ![b].at = at, ![b].set = set]

\* login, and the second commit of register: a new row, then the answer.
Login(b, new) ==
    /\ tab[b] = Idle
    /\ Issuable(new)
    /\ token' = [token EXCEPT ![new] = "live"]
    /\ Move(b, "answer", {new})
    /\ UNCHANGED <<timedOut, cookie, lost>>

\* The tab sends the cookie.
Send(b, op) ==
    /\ tab[b] = Idle
    /\ cookie # {}
    /\ tab' = [tab EXCEPT ![b] = [at |-> op, sent |-> cookie, set |-> {}]]
    /\ UNCHANGED <<token, timedOut, cookie, lost>>

\* refresh reads the row: an unusable token is answered 401, without a cookie ...
ReadRefresh(b) ==
    /\ tab[b].at = "refresh"
    /\ IF \E t \in tab[b].sent : Usable(t)
         THEN Move(b, "rotate", {})
         ELSE tab' = [tab EXCEPT ![b] = Idle]
    /\ UNCHANGED <<token, timedOut, cookie, lost>>

\* Fault: the user's other tokens are revoked too.
Rotated_All(old, new) ==
    [t \in Tokens |-> CASE t = new -> "live"
                        [] token[t] = "live" -> "revoked"
                        [] OTHER -> token[t]]

\* Revoke old, issue new.
Rotated(old, new) == [token EXCEPT ![old] = "revoked", ![new] = "live"]

\* ... and commits both rows, whatever the old one is by then.
Rotate(b, new) ==
    /\ tab[b].at = "rotate"
    /\ Issuable(new)
    /\ \E old \in tab[b].sent : token' = Rotated(old, new)
    /\ Move(b, "answer", {new})
    /\ UNCHANGED <<timedOut, cookie, lost>>

\* logout reads the row, revokes it if it is not, and deletes the cookie.
ReadLogout(b) ==
    /\ tab[b].at = "logout"
    /\ IF \E t \in tab[b].sent : token[t] = "live"
         THEN Move(b, "close", {})
         ELSE Move(b, "answer", {})
    /\ UNCHANGED <<token, timedOut, cookie, lost>>

Close(b) ==
    /\ tab[b].at = "close"
    /\ \E t \in tab[b].sent : token' = [token EXCEPT ![t] = "revoked"]
    /\ Move(b, "answer", {})
    /\ UNCHANGED <<timedOut, cookie, lost>>

\* _set_cookies, or delete_cookie, reaches the browser.
Answer(b) ==
    /\ tab[b].at = "answer"
    /\ cookie' = tab[b].set
    /\ lost' = FALSE
    /\ tab' = [tab EXCEPT ![b] = Idle]
    /\ UNCHANGED <<token, timedOut>>

\* The answer is lost: what was committed stays.
Lose(b) ==
    /\ tab[b].at = "answer"
    /\ lost' = TRUE
    /\ tab' = [tab EXCEPT ![b] = Idle]
    /\ UNCHANGED <<token, timedOut, cookie>>

\* The request dies before its commit.
Fail(b) ==
    /\ tab[b].at \in {"refresh", "rotate", "logout", "close"}
    /\ tab' = [tab EXCEPT ![b] = Idle]
    /\ UNCHANGED <<token, timedOut, cookie, lost>>

Expire(t) ==
    /\ token[t] # "none" /\ t \notin timedOut
    /\ timedOut' = timedOut \cup {t}
    /\ UNCHANGED <<token, cookie, tab, lost>>

Next ==
    \/ \E b \in Tabs :
           \/ \E new \in Tokens : Login(b, new) \/ Rotate(b, new)
           \/ \E op \in {"refresh", "logout"} : Send(b, op)
           \/ ReadRefresh(b) \/ ReadLogout(b) \/ Close(b)
           \/ Answer(b) \/ Lose(b) \/ Fail(b)
    \/ \E t \in Tokens : Expire(t)

Spec == Init /\ [][Next]_vars

-----------------------------------------------------------------------------
(* Properties *)

\* Whatever logins, refreshes and logouts of the tabs overlap, once no request
\* is in progress the cookie is a token the server has not revoked, so the
\* session goes on until it expires -- unless an answer was lost, for a refresh
\* commits before it answers (auth.py: refresh, _set_cookies).
CookieLives ==
    (\A b \in Tabs : tab[b] = Idle) /\ ~lost =>
        \A t \in cookie : token[t] = "live"

=============================================================================
