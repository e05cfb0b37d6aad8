--------------------------- MODULE IdentityProofs ---------------------------
(***************************************************************************)
(* Who may do what, for any number of people, organisations, keys, tabs    *)
(* and requests: the accounts, the sessions, the vault, the settings and   *)
(* the password resets of Services.  Each has an invariant of its own,     *)
(* proved of its own Init and Next, which Services takes over because a    *)
(* step of it is a step of one part and leaves the others alone.           *)
(***************************************************************************)
EXTENDS Services, TLAPS

-----------------------------------------------------------------------------
(* Accounts *)

\* The rows are of their types, and whoever accepted has what was promised.
AccountsInv == A!TypeOK /\ A!AcceptedIsMember

\* There is no invitation yet.
LEMMA AccountsInit == A!Init => AccountsInv
BY DEF A!Init, AccountsInv, A!TypeOK, A!AcceptedIsMember, A!Invitation, A!Role

\* What invitation i promises.
Honoured(i) ==
    /\ invitation[i].email \in users
    /\ \E m \in member : /\ m.user = invitation[i].email /\ m.org = invitation[i].org
                        /\ m.role = invitation[i].role
    /\ \A t \in invitation[i].teams : team[t] # {} /\ <<t, invitation[i].email>> \in teamMember

\* The property says that every accepted invitation is honoured.
LEMMA Promise ==
  A!AcceptedIsMember <=> \A i \in Invitations : invitation[i].status = "accepted" => Honoured(i)
BY DEF A!AcceptedIsMember, Honoured, A!Rows

\* It is kept by a step that takes no user, no membership and no invited team.
LEMMA PromiseKept ==
  ASSUME users \subseteq users', member \subseteq member', teamMember \subseteq teamMember',
         NEW i \in Invitations, Honoured(i),
         invitation'[i] = invitation[i],
         \A t \in invitation[i].teams : team'[t] # {}
  PROVE  Honoured(i)'
BY DEF Honoured

\* Every step of Accounts keeps AccountsInv.
LEMMA AccountsNext == AccountsInv /\ [A!Next]_(A!vars) => AccountsInv'
<1> SUFFICES ASSUME AccountsInv, [A!Next]_(A!vars) PROVE AccountsInv'
  OBVIOUS
<1>0. A!TypeOK /\ A!AcceptedIsMember
  BY DEF AccountsInv
\* An untouched board of invitations and teams keeps what was promised.
<1>a. ASSUME users \subseteq users', member \subseteq member', teamMember \subseteq teamMember',
             \A i \in Invitations : invitation'[i].status = "accepted" =>
                 /\ invitation[i].status = "accepted" /\ invitation'[i] = invitation[i]
                 /\ \A t \in invitation[i].teams : team'[t] # {}
      PROVE  A!AcceptedIsMember'
  <2>1. ASSUME NEW i \in Invitations, invitation'[i].status = "accepted" PROVE Honoured(i)'
    <3>1. Honoured(i)
      BY <1>0, <1>a, <2>1, Promise
    <3> QED BY <1>a, <2>1, <3>1, PromiseKept
  <2>2. (\A i \in Invitations : invitation[i].status = "accepted" => Honoured(i))'
    BY <2>1
  <2> QED BY <2>2, Promise, PTL
\* The teams of an accepted invitation are there.
<1>b. \A i \in Invitations : invitation[i].status = "accepted" =>
          \A t \in invitation[i].teams : team[t] # {} /\ <<t, invitation[i].email>> \in teamMember
  BY <1>0 DEF A!AcceptedIsMember
<1>1. ASSUME NEW o \in Orgs, NEW e \in Emails, A!CreateOrg(o, e) PROVE AccountsInv'
  <2>1. A!TypeOK'
    BY <1>0, <1>1 DEF A!CreateOrg, A!TypeOK, A!OrgStatus, A!Membership, A!Role
  <2> QED BY <1>1, <1>a, <1>b, <2>1 DEF A!CreateOrg, AccountsInv
<1>2. ASSUME NEW o \in Orgs, A!DeleteOrg(o) PROVE AccountsInv'
  <2>1. A!TypeOK'
    BY <1>0, <1>2 DEF A!DeleteOrg, A!TypeOK, A!OrgStatus
  <2> QED BY <1>2, <1>a, <1>b, <2>1 DEF A!DeleteOrg, AccountsInv
<1>3. ASSUME NEW e \in Emails, A!Register(e) PROVE AccountsInv'
  <2>1. A!TypeOK'
    BY <1>0, <1>3 DEF A!Register, A!TypeOK
  <2> QED BY <1>3, <1>a, <1>b, <2>1 DEF A!Register, AccountsInv
<1>4. ASSUME NEW caller, NEW o \in Orgs, NEW st \in Wanted, A!UpdateOrg(caller, o, st)
      PROVE  AccountsInv'
  <2>1. A!TypeOK'
    BY <1>0, <1>4 DEF A!UpdateOrg, A!TypeOK, A!OrgStatus
  <2> QED BY <1>4, <1>a, <1>b, <2>1 DEF A!UpdateOrg, AccountsInv
<1>5. ASSUME NEW caller, NEW t \in Teams, NEW o \in Orgs, A!CreateTeam(caller, t, o) PROVE AccountsInv'
  <2>1. A!TypeOK'
    BY <1>0, <1>5 DEF A!CreateTeam, A!TypeOK
  <2>2. \A s \in Teams : team[s] # {} => team'[s] # {}
    BY <1>0, <1>5 DEF A!CreateTeam, A!TypeOK
  <2>3. \A i \in Invitations : invitation[i].teams \subseteq Teams
    BY <1>0 DEF A!TypeOK, A!Invitation
  <2> QED BY <1>5, <1>a, <1>b, <2>1, <2>2, <2>3 DEF A!CreateTeam, AccountsInv
\* The team that goes has no member, so no accepted invitation named it.
<1>6. ASSUME NEW caller, NEW t \in Teams, NEW o \in Orgs, A!DeleteTeam(caller, t, o) PROVE AccountsInv'
  <2>1. A!TypeOK'
    BY <1>0, <1>6 DEF A!DeleteTeam, A!TypeOK
  <2>2. \A i \in Invitations : invitation[i].email \in Emails /\ invitation[i].teams \subseteq Teams
    BY <1>0 DEF A!TypeOK, A!Invitation
  <2>3. \A i \in Invitations : invitation[i].status = "accepted" => t \notin invitation[i].teams
    BY <1>6, <1>b, <2>2 DEF A!DeleteTeam
  <2>4. \A s \in Teams \ {t} : team'[s] = team[s]
    BY <1>0, <1>6 DEF A!DeleteTeam, A!TypeOK
  <2> QED BY <1>6, <1>a, <1>b, <2>1, <2>2, <2>3, <2>4 DEF A!DeleteTeam, AccountsInv
<1>7. ASSUME NEW caller, NEW i \in Invitations, NEW o \in Orgs, NEW e \in Emails,
             NEW role \in A!Role, NEW teams \in SUBSET Teams, A!Invite(caller, i, o, e, role, teams)
      PROVE  AccountsInv'
  <2>1. [status |-> "pending", org |-> o, email |-> e, role |-> role, teams |-> teams]
            \in A!Invitation
    BY DEF A!Invitation
  <2>2. A!TypeOK'
    BY <1>0, <1>7, <2>1 DEF A!Invite, A!TypeOK
  <2>3. \A j \in Invitations : invitation'[j].status = "accepted" =>
            invitation[j].status = "accepted" /\ invitation'[j] = invitation[j]
    BY <1>0, <1>7 DEF A!Invite, A!TypeOK
  <2> QED BY <1>7, <1>a, <1>b, <2>2, <2>3 DEF A!Invite, AccountsInv
<1>8. ASSUME NEW i \in Invitations, A!Expire(i) PROVE AccountsInv'
  <2>1. A!TypeOK'
    BY <1>0, <1>8 DEF A!Expire, A!TypeOK
  <2> QED BY <1>8, <1>a, <1>b, <2>1 DEF A!Expire, AccountsInv
<1>9. ASSUME NEW r \in Requests, NEW caller, NEW i \in Invitations, A!BeginRevoke(r, caller, i)
      PROVE  AccountsInv'
  <2>1. [op |-> "revoke", of |-> i, new |-> FALSE] \in A!Change
    BY DEF A!Change
  <2>2. A!TypeOK'
    BY <1>0, <1>9, <2>1 DEF A!BeginRevoke, A!TypeOK
  <2> QED BY <1>9, <1>a, <1>b, <2>2 DEF A!BeginRevoke, AccountsInv
<1>10. ASSUME NEW r \in Requests, NEW i \in Invitations, A!BeginAccept(r, i) PROVE AccountsInv'
  <2>0. (invitation[i].email \notin users) \in BOOLEAN
    OBVIOUS
  <2>1. [op |-> "accept", of |-> i, new |-> invitation[i].email \notin users] \in A!Change
    BY <2>0 DEF A!Change
  <2>2. A!TypeOK'
    BY <1>0, <1>10, <2>1 DEF A!BeginAccept, A!TypeOK
  <2> QED BY <1>10, <1>a, <1>b, <2>2 DEF A!BeginAccept, AccountsInv
<1>11. ASSUME NEW r \in Requests, A!Revoke(r) PROVE AccountsInv'
  <2>1. PICK c \in change[r] : invitation' = [invitation EXCEPT ![c.of].status = "revoked"]
    BY <1>11 DEF A!Revoke
  <2>2. c \in A!Change /\ c.of \in Invitations
    BY <1>0, <2>1 DEF A!TypeOK, A!Change
  <2>3. [invitation[c.of] EXCEPT !.status = "revoked"] \in A!Invitation
    BY <1>0, <2>2 DEF A!TypeOK, A!Invitation
  <2>4. A!TypeOK'
    BY <1>0, <1>11, <2>1, <2>2, <2>3 DEF A!Revoke, A!TypeOK
  <2>5. \A j \in Invitations : invitation'[j].status = "accepted" =>
            invitation[j].status = "accepted" /\ invitation'[j] = invitation[j]
    BY <1>0, <2>1, <2>2 DEF A!TypeOK, A!Invitation
  <2> QED BY <1>11, <1>a, <1>b, <2>4, <2>5 DEF A!Revoke, AccountsInv
<1>12. ASSUME NEW r \in Requests, A!Accept(r) PROVE AccountsInv'
  <2> DEFINE inv(c) == invitation[c.of]
             row(c) == [user |-> inv(c).email, org |-> inv(c).org,
                        role |-> inv(c).role, by |-> <<r, c.of>>]
  <2>1. PICK c \in change[r] :
            /\ \A t \in inv(c).teams : team[t] # {}
            /\ users' = users \cup {inv(c).email}
            /\ member' = member \cup {row(c)}
            /\ teamMember' = teamMember \cup A!TeamRows(c)
            /\ invitation' = [invitation EXCEPT ![c.of].status = "accepted"]
    BY <1>12 DEF A!Accept
  <2>2. c.of \in Invitations
    BY <1>0, <2>1 DEF A!TypeOK, A!Change
  <2>3. inv(c) \in A!Invitation
    BY <1>0, <2>2 DEF A!TypeOK
  <2>4. /\ inv(c).email \in Emails /\ inv(c).org \in Orgs /\ inv(c).role \in A!Role
        /\ inv(c).teams \in SUBSET Teams
    BY <2>3 DEF A!Invitation
  <2>5. [inv(c) EXCEPT !.status = "accepted"] \in A!Invitation
    BY <2>3 DEF A!Invitation
  <2>6. row(c) \in A!Membership
    BY <2>2, <2>4 DEF A!Membership
  <2>7. A!TeamRows(c) \subseteq Teams \X Emails
    BY <2>4 DEF A!TeamRows
  <2>8. A!TypeOK'
    BY <1>0, <1>12, <2>1, <2>2, <2>4, <2>5, <2>6, <2>7 DEF A!Accept, A!TypeOK
  <2>9. UNCHANGED team
    BY <1>12 DEF A!Accept
  <2>10. /\ invitation'[c.of] = [inv(c) EXCEPT !.status = "accepted"]
         /\ \A j \in Invitations \ {c.of} : invitation'[j] = invitation[j]
    BY <1>0, <2>1, <2>2 DEF A!TypeOK
  <2>11. /\ invitation'[c.of].email = inv(c).email /\ invitation'[c.of].org = inv(c).org
         /\ invitation'[c.of].role = inv(c).role /\ invitation'[c.of].teams = inv(c).teams
    BY <2>3, <2>10 DEF A!Invitation
  <2>12. A!AcceptedIsMember'
    <3>1. ASSUME NEW i \in Invitations, invitation'[i].status = "accepted", i = c.of
          PROVE  Honoured(i)'
      <4>1. row(c) \in member' /\ inv(c).email \in users'
        BY <2>1
      <4>2. \A t \in inv(c).teams : <<t, inv(c).email>> \in teamMember'
        BY <2>1 DEF A!TeamRows
      <4>3. /\ row(c).user = inv(c).email /\ row(c).org = inv(c).org /\ row(c).role = inv(c).role
        OBVIOUS
      <4>4. \A t \in inv(c).teams : team'[t] # {}
        BY <2>1, <2>9
      <4> HIDE DEF inv, row
      <4>5. \E m \in member' : /\ m.user = inv(c).email /\ m.org = inv(c).org
                              /\ m.role = inv(c).role
        BY <4>1, <4>3
      <4> QED BY <3>1, <4>1, <4>2, <4>4, <4>5, <2>11 DEF Honoured
    <3>2. ASSUME NEW i \in Invitations, invitation'[i].status = "accepted", i # c.of
          PROVE  Honoured(i)'
      <4>1. users \subseteq users' /\ member \subseteq member' /\ teamMember \subseteq teamMember'
        BY <2>1
      <4>2. invitation'[i] = invitation[i]
        BY <3>2, <2>10
      <4>3. Honoured(i)
        BY <1>0, <3>2, <4>2, Promise
      <4>4. \A t \in invitation[i].teams : team'[t] # {}
        BY <4>3, <2>9 DEF Honoured
      <4> QED BY <4>1, <4>2, <4>3, <4>4, PromiseKept
    <3>3. (\A i \in Invitations : invitation[i].status = "accepted" => Honoured(i))'
      BY <3>1, <3>2
    <3> QED BY <3>3, Promise, PTL
  <2> QED BY <2>8, <2>12 DEF AccountsInv
<1>13. ASSUME NEW r \in Requests, A!RollBack(r) PROVE AccountsInv'
  <2>1. A!TypeOK'
    BY <1>0, <1>13 DEF A!RollBack, A!TypeOK
  <2> QED BY <1>13, <1>a, <1>b, <2>1 DEF A!RollBack, AccountsInv
<1>14. ASSUME UNCHANGED A!vars PROVE AccountsInv'
  <2>1. A!TypeOK'
    BY <1>0, <1>14 DEF A!vars, A!TypeOK
  <2> QED BY <1>14, <1>a, <1>b, <2>1 DEF A!vars, AccountsInv
<1> QED BY <1>1, <1>2, <1>3, <1>4, <1>5, <1>6, <1>7, <1>8, <1>9, <1>10, <1>11, <1>12, <1>13,
           <1>14 DEF A!Next

-----------------------------------------------------------------------------
(* Sessions *)

\* What is set is new: live, not in the cookie, sent by no tab, set by no other.
Fresh ==
    \A b \in Tabs : \A t \in tab[b].set :
        /\ token[t] = "live" /\ t \notin cookie
        /\ \A c \in Tabs : t \notin tab[c].sent /\ (c # b => t \notin tab[c].set)

\* Whoever revokes the cookie has an answer that will replace it.
Replaced == (\A t \in cookie : token[t] = "live") \/ lost \/ \E b \in Tabs : tab[b].at = "answer"

SessionsInv ==
    /\ S!TypeOK
    /\ \A b \in Tabs : tab[b].at # "answer" => tab[b].set = {}
    /\ \A t \in cookie : token[t] # "none"
    /\ \A b \in Tabs : \A t \in tab[b].sent : token[t] # "none"
    /\ Fresh
    /\ Replaced

\* No tab has done anything.
LEMMA SessionsInit == S!Init => SessionsInv
<1> SUFFICES ASSUME S!Init PROVE SessionsInv
  OBVIOUS
<1>1. \A b \in Tabs : tab[b].at = "idle" /\ tab[b].set = {} /\ tab[b].sent = {}
  BY DEF S!Init, S!Idle
<1>2. S!TypeOK
  BY DEF S!Init, S!TypeOK, S!Idle, S!Holding, S!Stage
<1> QED
  BY <1>1, <1>2 DEF S!Init, SessionsInv, Fresh, Replaced

\* A tab's record after it moved.
LEMMA Moved ==
    ASSUME S!TypeOK, NEW b \in Tabs, NEW at \in S!Stage, NEW set \in S!Holding, S!Move(b, at, set)
    PROVE  /\ tab' \in [Tabs -> [at : S!Stage, sent : S!Holding, set : S!Holding]]
           /\ tab'[b].at = at /\ tab'[b].set = set /\ tab'[b].sent = tab[b].sent
           /\ \A c \in Tabs \ {b} : tab'[c] = tab[c]
BY DEF S!TypeOK, S!Move

\* A tab's record after its request is over.
LEMMA Rested ==
    ASSUME S!TypeOK, NEW b \in Tabs, tab' = [tab EXCEPT ![b] = S!Idle]
    PROVE  /\ tab' \in [Tabs -> [at : S!Stage, sent : S!Holding, set : S!Holding]]
           /\ tab'[b].at = "idle" /\ tab'[b].set = {} /\ tab'[b].sent = {}
           /\ \A c \in Tabs \ {b} : tab'[c] = tab[c]
<1>1. S!Idle \in [at : S!Stage, sent : S!Holding, set : S!Holding]
  BY DEF S!Idle, S!Stage, S!Holding
<1> QED
  BY <1>1 DEF S!TypeOK, S!Idle

\* Every step keeps it: a token is revoked only by a tab that sent it.
LEMMA SessionsNext == SessionsInv /\ [S!Next]_(S!vars) => SessionsInv'
<1> SUFFICES ASSUME SessionsInv, [S!Next]_(S!vars) PROVE SessionsInv'
  OBVIOUS
<1>0. /\ S!TypeOK /\ Fresh /\ Replaced
      /\ token \in [Tokens -> {"none", "live", "revoked"}]
      /\ timedOut \subseteq Tokens /\ cookie \in S!Holding /\ lost \in BOOLEAN
      /\ cookie \subseteq Tokens
      /\ \A b \in Tabs : tab[b].sent \in S!Holding /\ tab[b].set \in S!Holding
                         /\ tab[b].sent \subseteq Tokens /\ tab[b].set \subseteq Tokens
      /\ {} \in S!Holding /\ \A t \in Tokens : {t} \in S!Holding
      /\ {"idle", "refresh", "rotate", "logout", "close", "answer"} = S!Stage
  BY DEF SessionsInv, S!TypeOK, S!Holding, S!Stage
\* A new row, and perhaps the old one revoked.
<1>a. ASSUME NEW b \in Tabs, NEW new \in Tokens, NEW gone \in SUBSET tab[b].sent,
             S!Issuable(new), UNCHANGED <<timedOut, cookie, lost>>,
             \A t \in Tokens : token'[t] = IF t = new THEN "live"
                                           ELSE IF t \in gone THEN "revoked" ELSE token[t],
             token' \in [Tokens -> {"none", "live", "revoked"}],
             S!Move(b, "answer", {new})
      PROVE  SessionsInv'
  <2>1. /\ tab' \in [Tabs -> [at : S!Stage, sent : S!Holding, set : S!Holding]]
        /\ tab'[b].at = "answer" /\ tab'[b].set = {new} /\ tab'[b].sent = tab[b].sent
        /\ \A c \in Tabs \ {b} : tab'[c] = tab[c]
    BY <1>0, <1>a, Moved
  <2>2. token[new] = "none"
    BY <1>a DEF S!Issuable
  <2>3. /\ new \notin cookie
        /\ \A c \in Tabs : new \notin tab[c].sent /\ new \notin tab[c].set
    BY <2>2 DEF SessionsInv, Fresh
  <2>4. Fresh'
    BY <1>0, <1>a, <2>1, <2>3 DEF Fresh
  <2>5. S!TypeOK'
    BY <1>0, <1>a, <2>1 DEF S!TypeOK, S!Holding, S!Stage
  <2>6. /\ \A c \in Tabs : tab'[c].at # "answer" => tab'[c].set = {}
        /\ \A t \in cookie' : token'[t] # "none"
        /\ \A c \in Tabs : \A t \in tab'[c].sent : token'[t] # "none"
    BY <1>0, <1>a, <2>1, <2>3 DEF SessionsInv
  <2>7. Replaced'
    BY <2>1 DEF Replaced
  <2> QED
    BY <2>4, <2>5, <2>6, <2>7 DEF SessionsInv
\* A tab goes on, or rests, and the rows stay as they are.
<1>b. ASSUME NEW b \in Tabs, UNCHANGED <<token, timedOut>>,
             tab' \in [Tabs -> [at : S!Stage, sent : S!Holding, set : S!Holding]],
             tab'[b].set = {}, tab'[b].sent \in {{}, cookie, tab[b].sent},
             \A c \in Tabs \ {b} : tab'[c] = tab[c],
             \/ cookie' = cookie /\ lost' = lost /\ tab[b].at # "answer"
             \/ cookie' = cookie /\ lost' = TRUE
             \/ cookie' = tab[b].set /\ lost' = FALSE
      PROVE  SessionsInv'
  <2>1. Fresh'
    <3> SUFFICES ASSUME NEW c \in Tabs, NEW t \in tab'[c].set
                 PROVE  /\ token'[t] = "live" /\ t \notin cookie'
                        /\ \A d \in Tabs : t \notin tab'[d].sent /\ (d # c => t \notin tab'[d].set)
      BY DEF Fresh
    <3>1. c # b /\ t \in tab[c].set
      BY <1>b
    <3>2. /\ token[t] = "live" /\ t \notin cookie
          /\ \A d \in Tabs : t \notin tab[d].sent /\ (d # c => t \notin tab[d].set)
      BY <1>0, <3>1 DEF Fresh
    <3>3. t \notin cookie'
      BY <1>b, <3>1, <3>2
    <3>4. ASSUME NEW d \in Tabs PROVE t \notin tab'[d].sent /\ (d # c => t \notin tab'[d].set)
      <4>1. CASE d = b
        BY <1>b, <3>2, <4>1
      <4>2. CASE d # b
        BY <1>b, <3>2, <4>2
      <4> QED
        BY <4>1, <4>2
    <3> QED
      BY <1>b, <3>2, <3>3, <3>4
  <2>2. S!TypeOK'
    BY <1>0, <1>b DEF S!TypeOK, S!Holding, S!Stage
  <2>3. \A t \in tab[b].set : token[t] = "live"
    BY <1>0 DEF Fresh
  <2>4. /\ \A c \in Tabs : tab'[c].at # "answer" => tab'[c].set = {}
        /\ \A t \in cookie' : token'[t] # "none"
        /\ \A c \in Tabs : \A t \in tab'[c].sent : token'[t] # "none"
    BY <1>0, <1>b, <2>3 DEF SessionsInv
  <2>5. Replaced'
    <3>1. CASE cookie' = tab[b].set
      BY <1>b, <2>3, <3>1 DEF Replaced
    <3>2. CASE lost'
      BY <3>2 DEF Replaced
    <3>3. CASE cookie' = cookie /\ lost' = lost /\ tab[b].at # "answer"
      BY <1>0, <1>b, <3>3 DEF Replaced
    <3> QED
      BY <1>b, <3>1, <3>2, <3>3
  <2> QED
    BY <2>1, <2>2, <2>4, <2>5 DEF SessionsInv
<1>1. ASSUME NEW b \in Tabs, NEW new \in Tokens, S!Login(b, new) PROVE SessionsInv'
  <2>1. /\ S!Issuable(new) /\ UNCHANGED <<timedOut, cookie, lost>> /\ S!Move(b, "answer", {new})
        /\ token' = [token EXCEPT ![new] = "live"]
    BY <1>1 DEF S!Login
  <2>2. \A t \in Tokens : token'[t] = IF t = new THEN "live"
                                      ELSE IF t \in {} THEN "revoked" ELSE token[t]
    BY <1>0, <2>1
  <2>3. token' \in [Tokens -> {"none", "live", "revoked"}]
    BY <1>0, <2>1
  <2>4. {} \in SUBSET tab[b].sent
    OBVIOUS
  <2> QED
    BY <1>a, <2>1, <2>2, <2>3, <2>4
<1>2. ASSUME NEW b \in Tabs, NEW new \in Tokens, S!Rotate(b, new) PROVE SessionsInv'
  <2>1. PICK old \in tab[b].sent : token' = S!Rotated(old, new)
    BY <1>2 DEF S!Rotate
  <2>2. S!Issuable(new) /\ UNCHANGED <<timedOut, cookie, lost>> /\ S!Move(b, "answer", {new})
    BY <1>2 DEF S!Rotate
  <2>3. old \in Tokens /\ {old} \in SUBSET tab[b].sent
    BY <1>0, <2>1
  <2>4. token' = [token EXCEPT ![old] = "revoked", ![new] = "live"]
    BY <2>1 DEF S!Rotated
  <2>5. \A t \in Tokens : token'[t] = IF t = new THEN "live"
                                      ELSE IF t \in {old} THEN "revoked" ELSE token[t]
    BY <1>0, <2>3, <2>4
  <2>6. token' \in [Tokens -> {"none", "live", "revoked"}]
    BY <1>0, <2>3, <2>4
  <2> QED
    BY <1>a, <2>2, <2>3, <2>5, <2>6
<1>3. ASSUME NEW b \in Tabs, NEW op \in {"refresh", "logout"}, S!Send(b, op) PROVE SessionsInv'
  <2>1. /\ tab[b] = S!Idle /\ UNCHANGED <<token, timedOut, cookie, lost>>
        /\ tab' = [tab EXCEPT ![b] = [at |-> op, sent |-> cookie, set |-> {}]]
    BY <1>3 DEF S!Send
  <2>2. [at |-> op, sent |-> cookie, set |-> {}] \in [at : S!Stage, sent : S!Holding, set : S!Holding]
    BY <1>0
  <2>3. /\ tab' \in [Tabs -> [at : S!Stage, sent : S!Holding, set : S!Holding]]
        /\ tab'[b].set = {} /\ tab'[b].sent = cookie
        /\ \A c \in Tabs \ {b} : tab'[c] = tab[c]
    BY <1>0, <2>1, <2>2 DEF S!TypeOK
  <2>4. tab[b].at # "answer"
    BY <2>1 DEF S!Idle
  <2> QED
    BY <1>b, <2>1, <2>3, <2>4
\* A request that goes on, or is over, before its commit.
<1>c. ASSUME NEW b \in Tabs, UNCHANGED <<token, timedOut, cookie, lost>>, tab[b].at # "answer",
             \/ tab' = [tab EXCEPT ![b] = S!Idle]
             \/ \E at \in S!Stage : S!Move(b, at, {})
      PROVE  SessionsInv'
  <2>1. CASE tab' = [tab EXCEPT ![b] = S!Idle]
    BY <1>0, <1>b, <1>c, <2>1, Rested
  <2>2. ASSUME NEW at \in S!Stage, S!Move(b, at, {}) PROVE SessionsInv'
    BY <1>0, <1>b, <1>c, <2>2, Moved
  <2> QED
    BY <1>c, <2>1, <2>2
<1>4. ASSUME NEW b \in Tabs, S!ReadRefresh(b) \/ S!ReadLogout(b) \/ S!Fail(b) PROVE SessionsInv'
  BY <1>0, <1>4, <1>c DEF S!ReadRefresh, S!ReadLogout, S!Fail
<1>5. ASSUME NEW b \in Tabs, S!Close(b) PROVE SessionsInv'
  <2>1. PICK t \in tab[b].sent : token' = [token EXCEPT ![t] = "revoked"]
    BY <1>5 DEF S!Close
  <2>2. S!Move(b, "answer", {}) /\ UNCHANGED <<timedOut, cookie, lost>>
    BY <1>5 DEF S!Close
  <2>3. /\ tab' \in [Tabs -> [at : S!Stage, sent : S!Holding, set : S!Holding]]
        /\ tab'[b].at = "answer" /\ tab'[b].set = {} /\ tab'[b].sent = tab[b].sent
        /\ \A c \in Tabs \ {b} : tab'[c] = tab[c]
    BY <1>0, <2>2, Moved
  <2>4. /\ token' \in [Tokens -> {"none", "live", "revoked"}]
        /\ \A u \in Tokens : token'[u] = IF u = t THEN "revoked" ELSE token[u]
    BY <1>0, <2>1
  <2>5. Fresh'
    BY <1>0, <2>1, <2>2, <2>3, <2>4 DEF Fresh
  <2>6. S!TypeOK'
    BY <1>0, <2>2, <2>3, <2>4 DEF S!TypeOK, S!Holding, S!Stage
  <2>7. /\ \A c \in Tabs : tab'[c].at # "answer" => tab'[c].set = {}
        /\ \A u \in cookie' : token'[u] # "none"
        /\ \A c \in Tabs : \A u \in tab'[c].sent : token'[u] # "none"
    BY <1>0, <2>2, <2>3, <2>4 DEF SessionsInv
  <2>8. Replaced'
    BY <2>3 DEF Replaced
  <2> QED
    BY <2>5, <2>6, <2>7, <2>8 DEF SessionsInv
<1>6. ASSUME NEW b \in Tabs, S!Answer(b) \/ S!Lose(b) PROVE SessionsInv'
  <2>1. /\ tab' = [tab EXCEPT ![b] = S!Idle] /\ UNCHANGED <<token, timedOut>>
        /\ \/ cookie' = cookie /\ lost' = TRUE
           \/ cookie' = tab[b].set /\ lost' = FALSE
    BY <1>6 DEF S!Answer, S!Lose
  <2> QED
    BY <1>0, <1>b, <2>1, Rested
<1>7. ASSUME NEW t \in Tokens, S!Expire(t) PROVE SessionsInv'
  BY <1>0, <1>7 DEF S!Expire, SessionsInv, S!TypeOK, Fresh, Replaced
<1>8. CASE UNCHANGED S!vars
  BY <1>0, <1>8 DEF S!vars, SessionsInv, S!TypeOK, Fresh, Replaced, S!Stage, S!Holding
<1> QED
  BY <1>1, <1>2, <1>3, <1>4, <1>5, <1>6, <1>7, <1>8 DEF S!Next

\* With every tab idle, nobody will answer.
LEMMA SessionsPromise == SessionsInv => S!CookieLives
BY DEF SessionsInv, Replaced, S!CookieLives, S!Idle

-----------------------------------------------------------------------------
(* The vault *)

Writing(k) == \E r \in Calls : V!Is(r, "create", "written", k)
Resolving(k) == \E r \in Calls : V!Is(r, "resolve", "loaded", k) \/ V!Is(r, "resolve", "read", k)
Failed(k) == \E r \in Calls : V!Is(r, "resolve", "failed", k)

\* A creation has written its secret, and a resolution has seen its row, unless a
\* deletion has begun.
KeyInv(k) ==
    \/ V!Deleting(k)
    \/ /\ k \notin secretRow \ secret
       /\ k \in secret \ secretRow => Writing(k)
       /\ ~Failed(k)
       /\ Writing(k) => k \in secret
       /\ Resolving(k) => k \in secretRow

VaultInv == V!TypeOK /\ \A k \in Keys : KeyInv(k)

\* There is no key.
LEMMA VaultInit == V!Init => VaultInv
<1> SUFFICES ASSUME V!Init PROVE VaultInv
  OBVIOUS
<1>1. secretRow = {} /\ secret = {} /\ \A r \in Calls : keyCall[r] = V!Fresh
  BY DEF V!Init
<1>2. V!TypeOK
  BY DEF V!Init, V!TypeOK, V!Fresh, V!Op, V!At
<1> QED
  BY <1>1, <1>2 DEF VaultInv, KeyInv, Writing, Resolving, Failed, V!Is, V!Fresh

\* A call that begins.
LEMMA Begun ==
    ASSUME V!TypeOK, NEW r \in Calls, NEW op \in V!Op, NEW k \in Keys, NEW at \in V!At,
           V!Begin(r, op, k, at)
    PROVE  /\ keyCall[r] = V!Fresh /\ keyCall'[r] = [op |-> op, key |-> {k}, at |-> at]
           /\ \A q \in Calls \ {r} : keyCall'[q] = keyCall[q]
           /\ keyCall' \in [Calls -> [op : V!Op, key : {{}} \cup {{j} : j \in Keys}, at : V!At]]
BY DEF V!TypeOK, V!Begin

\* A call that goes on.
LEMMA GoneOn ==
    ASSUME V!TypeOK, NEW r \in Calls, NEW at \in V!At, V!Go(r, at)
    PROVE  /\ keyCall'[r] = [keyCall[r] EXCEPT !.at = at]
           /\ \A q \in Calls \ {r} : keyCall'[q] = keyCall[q]
           /\ keyCall' \in [Calls -> [op : V!Op, key : {{}} \cup {{j} : j \in Keys}, at : V!At]]
BY DEF V!TypeOK, V!Go

\* What a step of one call means for the calls of a key: those of other keys are
\* as they were.
LEMMA OfKeys ==
    ASSUME V!TypeOK, NEW r \in Calls, NEW k \in Keys, NEW op, NEW at,
           \A q \in Calls \ {r} : keyCall'[q] = keyCall[q],
           keyCall[r] = V!Fresh \/ (keyCall[r].key = {k} /\ keyCall[r].op = op),
           keyCall'[r] = [op |-> op, key |-> {k}, at |-> at],
           op = "delete" /\ keyCall[r] # V!Fresh => at \in {"dropped", "done"}
    PROVE  /\ \A j \in Keys : V!Deleting(j) => V!Deleting(j)'
           /\ op = "delete" /\ at \in {"dropped", "done"} => V!Deleting(k)'
           /\ \A j \in Keys \ {k} : /\ Writing(j)' = Writing(j)
                                    /\ Resolving(j)' = Resolving(j)
                                    /\ Failed(j)' = Failed(j)
           /\ Writing(k)' => Writing(k) \/ (op = "create" /\ at = "written")
           /\ op = "create" /\ at = "written" => Writing(k)'
           /\ Writing(k) => Writing(k)' \/ op = "create"
           /\ Resolving(k)' => Resolving(k) \/ (op = "resolve" /\ at \in {"loaded", "read"})
           /\ Failed(k)' => Failed(k) \/ (op = "resolve" /\ at = "failed")
<1>1. \A q \in Calls \ {r} : \A o, a, j : V!Is(q, o, a, j)' <=> V!Is(q, o, a, j)
  BY DEF V!Is
<1>2. \A j \in Keys \ {k} : {j} # {k}
  OBVIOUS
<1>3. \A o, a : \A j \in Keys \ {k} : ~V!Is(r, o, a, j)' /\ (o # "none" => ~V!Is(r, o, a, j))
  BY <1>2 DEF V!Is, V!Fresh
<1>4. \A o, a : V!Is(r, o, a, k)' <=> o = op /\ a = at
  BY DEF V!Is
<1>5. \A o, a : o # "none" /\ V!Is(r, o, a, k) => o = op
  BY DEF V!Is, V!Fresh
<1>6. \A j \in Keys : V!Deleting(j) => V!Deleting(j)'
  BY DEF V!Deleting, V!Fresh
<1>7. op = "delete" /\ at \in {"dropped", "done"} => V!Deleting(k)'
  BY DEF V!Deleting
<1>8. \A j \in Keys \ {k} : Writing(j)' = Writing(j) /\ Resolving(j)' = Resolving(j) /\ Failed(j)' = Failed(j)
  BY <1>1, <1>3 DEF Writing, Resolving, Failed
<1>9. /\ Writing(k)' => Writing(k) \/ (op = "create" /\ at = "written")
      /\ op = "create" /\ at = "written" => Writing(k)'
      /\ Writing(k) => Writing(k)' \/ op = "create"
  BY <1>1, <1>4, <1>5 DEF Writing
<1>10. Resolving(k)' => Resolving(k) \/ (op = "resolve" /\ at \in {"loaded", "read"})
  BY <1>1, <1>4 DEF Resolving
<1>11. Failed(k)' => Failed(k) \/ (op = "resolve" /\ at = "failed")
  BY <1>1, <1>4 DEF Failed
<1> QED
  BY <1>6, <1>7, <1>8, <1>9, <1>10, <1>11

\* Every step keeps the stores' agreement.
LEMMA VaultNext == VaultInv /\ [V!Next]_(V!vars) => VaultInv'
<1> SUFFICES ASSUME VaultInv, [V!Next]_(V!vars) PROVE VaultInv'
  OBVIOUS
<1>0. /\ V!TypeOK /\ secretRow \subseteq Keys /\ secret \subseteq Keys
      /\ \A r \in Calls : keyCall[r] = [op |-> keyCall[r].op, key |-> keyCall[r].key, at |-> keyCall[r].at]
      /\ {"none", "create", "delete", "resolve"} = V!Op
      /\ {"start", "loaded", "written", "dropped", "read", "done", "failed"} = V!At
  BY DEF VaultInv, V!TypeOK, V!Op, V!At
<1>a. ASSUME NEW r \in Calls, NEW k \in Keys, NEW op \in {"create", "delete", "resolve"}, NEW at \in V!At,
             \/ V!Begin(r, op, k, at) /\ (op = "delete" => at = "loaded")
             \/ keyCall[r].op = op /\ keyCall[r].key = {k} /\ V!Go(r, at)
                 /\ (op = "delete" => at \in {"dropped", "done"}),
             UNCHANGED secretRow \/ secretRow' = secretRow \cup {k} \/ secretRow' = secretRow \ {k},
             UNCHANGED secret \/ secret' = secret \cup {k} \/ secret' = secret \ {k},
             \/ op = "create" /\ at = "written" /\ UNCHANGED secretRow /\ k \in secret'
             \/ op = "create" /\ at = "done" /\ UNCHANGED secret /\ k \in secretRow' /\ Writing(k)
             \/ op = "delete" /\ at = "loaded" /\ UNCHANGED <<secret, secretRow>>
             \/ op = "delete" /\ at \in {"dropped", "done"}
             \/ op = "resolve" /\ at = "loaded" /\ UNCHANGED <<secret, secretRow>> /\ k \in secretRow
             \/ op = "resolve" /\ at \in {"read", "done"} /\ UNCHANGED <<secret, secretRow>> /\ Resolving(k)
             \/ op = "resolve" /\ at = "failed" /\ UNCHANGED <<secret, secretRow>> /\ Resolving(k)
                 /\ (k \notin secret \/ k \notin secretRow)
      PROVE  VaultInv'
  <2>1. /\ keyCall[r] = V!Fresh \/ (keyCall[r].key = {k} /\ keyCall[r].op = op)
        /\ keyCall'[r] = [op |-> op, key |-> {k}, at |-> at]
        /\ \A q \in Calls \ {r} : keyCall'[q] = keyCall[q]
        /\ keyCall' \in [Calls -> [op : V!Op, key : {{}} \cup {{j} : j \in Keys}, at : V!At]]
        /\ op = "delete" /\ keyCall[r] # V!Fresh => at \in {"dropped", "done"}
    <3>1. CASE V!Begin(r, op, k, at) /\ (op = "delete" => at = "loaded")
      BY <1>0, <3>1, Begun DEF V!Begin
    <3>2. CASE /\ keyCall[r].op = op /\ keyCall[r].key = {k} /\ V!Go(r, at)
               /\ (op = "delete" => at \in {"dropped", "done"})
      <4>1. /\ keyCall'[r] = [keyCall[r] EXCEPT !.at = at]
            /\ \A q \in Calls \ {r} : keyCall'[q] = keyCall[q]
            /\ keyCall' \in [Calls -> [op : V!Op, key : {{}} \cup {{j} : j \in Keys}, at : V!At]]
        BY <1>0, <3>2, GoneOn
      <4>2. keyCall[r] = [op |-> op, key |-> {k}, at |-> keyCall[r].at]
        BY <1>0, <3>2
      <4>3. keyCall'[r] = [op |-> op, key |-> {k}, at |-> at]
        BY <4>1, <4>2
      <4> QED
        BY <3>2, <4>1, <4>3
    <3> QED
      BY <1>a, <3>1, <3>2
  <2>2. V!TypeOK'
    BY <1>0, <1>a, <2>1 DEF V!TypeOK
  <2>3. /\ \A j \in Keys : V!Deleting(j) => V!Deleting(j)'
        /\ op = "delete" /\ at \in {"dropped", "done"} => V!Deleting(k)'
        /\ \A j \in Keys \ {k} : /\ Writing(j)' = Writing(j)
                                 /\ Resolving(j)' = Resolving(j)
                                 /\ Failed(j)' = Failed(j)
        /\ Writing(k)' => Writing(k) \/ (op = "create" /\ at = "written")
        /\ op = "create" /\ at = "written" => Writing(k)'
        /\ Writing(k) => Writing(k)' \/ op = "create"
        /\ Resolving(k)' => Resolving(k) \/ (op = "resolve" /\ at \in {"loaded", "read"})
        /\ Failed(k)' => Failed(k) \/ (op = "resolve" /\ at = "failed")
    BY <1>0, <2>1, OfKeys
  <2>4. ASSUME NEW j \in Keys \ {k} PROVE KeyInv(j)'
    <3>1. KeyInv(j) /\ (j \in secret' <=> j \in secret) /\ (j \in secretRow' <=> j \in secretRow)
      BY <1>a DEF VaultInv
    <3> QED
      BY <2>3, <3>1 DEF KeyInv
  <2>5. KeyInv(k)'
    <3>1. KeyInv(k)
      BY DEF VaultInv
    <3> QED
      BY <1>a, <2>3, <3>1 DEF KeyInv
  <2> QED
    BY <2>2, <2>4, <2>5 DEF VaultInv
<1>1. ASSUME NEW r \in Calls, NEW k \in Keys, V!WriteSecret(r, k) PROVE VaultInv'
  BY <1>0, <1>1, <1>a DEF V!WriteSecret
<1>2. ASSUME NEW r \in Calls, NEW k \in Keys, V!InsertRow(r, k) PROVE VaultInv'
  <2>1. Writing(k) /\ keyCall[r].op = "create" /\ keyCall[r].key = {k}
    BY <1>2 DEF V!InsertRow, Writing, V!Is
  <2> QED
    BY <1>0, <1>2, <1>a, <2>1 DEF V!InsertRow
<1>3. ASSUME NEW r \in Calls, NEW k \in Keys, V!LoadDelete(r, k) \/ V!LoadResolve(r, k) PROVE VaultInv'
  BY <1>0, <1>3, <1>a DEF V!LoadDelete, V!LoadResolve, V!Candidates
<1>4. ASSUME NEW r \in Calls, NEW k \in Keys, V!DropSecret(r, k) \/ V!DeleteRow(r, k) PROVE VaultInv'
  <2>1. keyCall[r].op = "delete" /\ keyCall[r].key = {k}
    BY <1>4 DEF V!DropSecret, V!DeleteRow, V!Is
  <2> QED
    BY <1>0, <1>4, <1>a, <2>1 DEF V!DropSecret, V!DeleteRow
<1>5. ASSUME NEW r \in Calls, NEW k \in Keys, V!ReadSecret(r, k) \/ V!Touch(r, k) PROVE VaultInv'
  <2>1. Resolving(k) /\ keyCall[r].op = "resolve" /\ keyCall[r].key = {k}
    BY <1>5 DEF V!ReadSecret, V!Touch, Resolving, V!Is
  <2> QED
    BY <1>0, <1>5, <1>a, <2>1 DEF V!ReadSecret, V!Touch
<1>6. CASE UNCHANGED V!vars
  BY <1>6 DEF V!vars, VaultInv, V!TypeOK, KeyInv, Writing, Resolving, Failed, V!Is, V!Deleting
<1> QED
  BY <1>1, <1>2, <1>3, <1>4, <1>5, <1>6 DEF V!Next, V!CreateKey, V!CreateIntegration, V!DeleteKey, V!DeleteIntegration

\* What is left says what VaultAgrees says.
LEMMA VaultPromise == VaultInv => V!VaultAgrees
BY DEF VaultInv, KeyInv, V!VaultAgrees, Writing, Failed

-----------------------------------------------------------------------------
(* Settings *)

\* A user or an org has one row at most: its unique constraint sees a conflict.
SettingsInv ==
    /\ P!TypeOK
    /\ \A p \in Users \cup Homes : \A r, s \in P!At(p) : r = s

\* There is no row.
LEMMA SettingsInit == P!Init => SettingsInv
BY DEF P!Init, SettingsInv, P!TypeOK, P!At

\* A row takes the place of the one there was.
LEMMA SettingsNext == SettingsInv /\ [P!Next]_settings => SettingsInv'
<1> SUFFICES ASSUME SettingsInv, [P!Next]_settings PROVE SettingsInv'
  OBVIOUS
<1> USE PartAssumptions DEF P!PlacesAssumption
<1>1. ASSUME NEW p \in P!Places, NEW model \in Models \cup {NoModel}, NEW enforced \in BOOLEAN,
             NEW copy \in Copies, P!Put(p, model, enforced, copy)
      PROVE  SettingsInv'
  <2> DEFINE new == [at |-> p, model |-> model, enforced |-> enforced, copy |-> copy]
  <2>1. new \in P!Row /\ new.at = p
    BY DEF P!Row
  <2>2. settings' = (settings \ P!Replaced(p)) \cup {new}
    BY <1>1 DEF P!Put
  <2> HIDE DEF new
  <2>3. P!TypeOK'
    BY <2>1, <2>2 DEF SettingsInv, P!TypeOK
  <2>4. ASSUME NEW q \in Users \cup Homes, NEW r \in P!At(q)', NEW s \in P!At(q)' PROVE r = s
    <3>1. CASE q = p
      BY <2>1, <2>2, <3>1 DEF P!At, P!Replaced
    <3>2. CASE q # p
      BY <2>1, <2>2, <3>2 DEF P!At, SettingsInv
    <3> QED
      BY <3>1, <3>2
  <2> QED
    BY <2>3, <2>4 DEF SettingsInv
<1>2. ASSUME NEW p \in P!Places, P!Delete(p) PROVE SettingsInv'
  BY <1>2 DEF P!Delete, SettingsInv, P!TypeOK, P!At
<1>3. CASE UNCHANGED settings
  BY <1>3 DEF SettingsInv, P!TypeOK, P!At
<1> QED
  BY <1>1, <1>2, <1>3 DEF P!Next

\* The place whose row is shown.
LEMMA ShownAt ==
    ASSUME NEW u, NEW own, NEW r \in P!Shown(u, own)
    PROVE  /\ r \in settings /\ P!At(r.at) = {r}
           /\ r.at = u \/ P!At(u) = {}
BY DEF P!Shown, P!First

\* The two readers agree on any rows the table may have.
LEMMA SettingsPromise == SettingsInv => P!ShownIsUsed
<1> SUFFICES ASSUME SettingsInv, NEW u \in Users, NEW own \in SUBSET Homes, NEW o \in Homes \cup {NoOrg}
             PROVE  /\ P!At(u) # {} \/ (\E l \in own : P!At(l) # {}) => P!Shown(u, own) # {}
                    /\ \A r \in P!Shown(u, own) :
                           /\ r.model # NoModel
                           /\ \/ r.at = u /\ ~P!OrgEnforced(o)
                              \/ r.at = o
                              \/ r.at = Platform /\ P!Model(o) = {}
                           => P!Used(u, o) = {r.model}
                    /\ P!OrgEnforced(o) /\ P!Model(o) # {} => P!Used(u, o) = P!Model(o)
  BY DEF P!ShownIsUsed
<1>1. /\ \A p \in Users \cup Homes : P!At(p) # {} => \E r \in P!At(p) : P!At(p) = {r}
      /\ \A p : \A r \in P!At(p) : r \in settings /\ r.at = p
  BY DEF SettingsInv, P!At
<1>2. Platform \notin Users \cup Homes
  BY PartAssumptions DEF P!PlacesAssumption
<1>3. P!At(u) # {} \/ (\E l \in own : P!At(l) # {}) => P!Shown(u, own) # {}
  <2>1. CASE P!At(u) # {}
    <3>1. PICK r \in P!At(u) : P!At(u) = {r}
      BY <1>1, <2>1
    <3> QED
      BY <1>1, <2>1, <3>1 DEF P!Shown, P!First
  <2>2. CASE P!At(u) = {} /\ \E l \in own : P!At(l) # {}
    <3>1. PICK l \in own : P!At(l) # {}
      BY <2>2
    <3>2. PICK r \in P!At(l) : P!At(l) = {r}
      BY <1>1, <3>1
    <3>3. r \in settings /\ r.at = l
      BY <1>1, <3>2
    <3> QED
      BY <2>2, <3>1, <3>2, <3>3 DEF P!Shown, P!First
  <2> QED
    BY <2>1, <2>2
<1>4. P!OrgEnforced(o) /\ P!Model(o) # {} => P!Used(u, o) = P!Model(o)
  BY DEF P!Used, P!UserDecides
<1>5. ASSUME NEW r \in P!Shown(u, own), r.model # NoModel,
             \/ r.at = u /\ ~P!OrgEnforced(o)
             \/ r.at = o
             \/ r.at = Platform /\ P!Model(o) = {}
      PROVE  P!Used(u, o) = {r.model}
  <2>1. P!At(r.at) = {r} /\ r \in settings /\ (r.at = u \/ P!At(u) = {})
    BY ShownAt
  <2>2. P!Model(r.at) = {r.model}
    BY <1>5, <2>1 DEF P!Model
  <2>3. CASE r.at = u /\ ~P!OrgEnforced(o)
    BY <2>2, <2>3 DEF P!Used, P!UserDecides
  <2>4. CASE r.at = o /\ r.at # u
    <3>1. P!Model(u) = {}
      BY <2>1, <2>4 DEF P!Model
    <3> QED
      BY <2>2, <2>4, <3>1 DEF P!Used, P!UserDecides
  <2>5. CASE r.at = o /\ r.at = u
    BY <2>2, <2>5 DEF P!Used, P!UserDecides
  <2>6. CASE r.at = Platform /\ P!Model(o) = {}
    <3>1. r.at # u /\ P!Model(u) = {}
      BY <1>2, <2>1, <2>6 DEF P!Model
    <3>2. P!Used(u, o) = {m \in P!Model(Platform) : \E s \in settings : P!At(Platform) = {s}}
      BY <2>6, <3>1 DEF P!Used, P!UserDecides
    <3> QED
      BY <2>1, <2>2, <2>6, <3>2
  <2> QED
    BY <1>5, <2>3, <2>4, <2>5, <2>6
<1> QED
  BY <1>3, <1>4, <1>5

-----------------------------------------------------------------------------
(* Password resets *)

\* A request that has judged a token another request has used was overtaken by it.
ResetsInv ==
    /\ R!TypeOK
    /\ R!ResetOnce
    /\ \A r \in Calls : resetting[r].at \in {"judged", "over"} => resetting[r].token # {}
    /\ \A r, s \in Calls :
           resetting[r].at = "judged" /\ resetting[s].at = "over" /\ R!SameToken(r, s) =>
               <<s, r>> \in together

\* No token was mailed.
LEMMA ResetsInit == R!Init => ResetsInv
<1> SUFFICES ASSUME R!Init PROVE ResetsInv
  OBVIOUS
<1>1. \A r \in Calls : resetting[r].at = "start"
  BY DEF R!Init
<1>2. \A t \in ResetTokens : resetToken[t] = "none"
  BY DEF R!Init
<1>3. R!TypeOK
  BY DEF R!Init, R!TypeOK, R!Bringing
<1>4. R!ResetOnce
  BY <1>1, <1>2 DEF R!Init, R!ResetOnce
<1> QED
  BY <1>1, <1>3, <1>4 DEF ResetsInv

\* Every step of Resets keeps ResetsInv.
LEMMA ResetsNext == ResetsInv /\ [R!Next]_(R!vars) => ResetsInv'
<1> SUFFICES ASSUME ResetsInv, [R!Next]_(R!vars) PROVE ResetsInv'
  OBVIOUS
<1>0. /\ R!TypeOK /\ R!ResetOnce
      /\ resetToken \in [ResetTokens -> {"none", "unused", "used"}] /\ lapsed \subseteq ResetTokens
      /\ password \in Calls \cup {Old} /\ together \subseteq Calls \X Calls
      /\ resetting \in [Calls -> [at : {"start", "judged", "over", "refused", "died"}, token : R!Bringing]]
      /\ Old \notin Calls
      /\ \A t \in ResetTokens : (resetToken[t] = "used") =
             \E r \in Calls : resetting[r].at = "over" /\ resetting[r].token = {t}
  BY PartAssumptions DEF ResetsInv, R!TypeOK, R!ResetOnce, R!OldAssumption
<1>1. ASSUME NEW t \in ResetTokens, R!Forgot(t) PROVE ResetsInv'
  <2>1. /\ resetToken' \in [ResetTokens -> {"none", "unused", "used"}]
        /\ \A u \in ResetTokens : resetToken'[u] = IF u = t THEN "unused" ELSE resetToken[u]
        /\ resetToken[t] = "none"
    BY <1>0, <1>1 DEF R!Forgot
  <2>2. \A u \in ResetTokens : (resetToken'[u] = "used") = (resetToken[u] = "used")
    BY <2>1
  <2> QED
    BY <1>0, <1>1, <2>1, <2>2 DEF R!Forgot, ResetsInv, R!TypeOK, R!ResetOnce, R!SameToken
<1>2. ASSUME NEW t \in ResetTokens, R!Lapse(t) PROVE ResetsInv'
  BY <1>0, <1>2 DEF R!Lapse, ResetsInv, R!TypeOK, R!ResetOnce, R!SameToken
\* The token of a request that is over is used, so nobody judges it good any more.
<1>3. ASSUME NEW r \in Calls, NEW t \in ResetTokens, R!JudgeReset(r, t) PROVE ResetsInv'
  <2>1. /\ resetting[r].at = "start"
        /\ resetting'[r].at \in {"judged", "refused"} /\ resetting'[r].token = {t}
        /\ resetting'[r].at = "judged" => resetToken[t] = "unused"
        /\ \A s \in Calls \ {r} : resetting'[s] = resetting[s]
        /\ UNCHANGED <<resetToken, lapsed, password, together>>
    BY <1>0, <1>3 DEF R!JudgeReset, R!Good
  <2>2. resetting' \in [Calls -> [at : {"start", "judged", "over", "refused", "died"}, token : R!Bringing]]
    BY <1>0, <1>3 DEF R!JudgeReset, R!Bringing
  <2>3. R!TypeOK'
    BY <1>0, <2>1, <2>2 DEF R!TypeOK
  <2>4. \A s \in Calls : (resetting'[s].at = "over") = (resetting[s].at = "over")
    BY <2>1
  <2>5. \A s \in Calls : resetting[s].at = "over" => resetting'[s] = resetting[s]
    BY <2>1
  <2>6. R!ResetOnce'
    <3>1. ASSUME NEW q \in Calls, NEW s \in Calls, q # s, resetting'[q].at = "over",
                 resetting'[s].at = "over", resetting'[q].token = resetting'[s].token
          PROVE  <<q, s>> \in together' \/ <<s, q>> \in together'
      BY <1>0, <2>1, <2>4, <2>5, <3>1 DEF R!ResetOnce, R!SameToken
    <3>2. ASSUME NEW u \in ResetTokens
          PROVE  (resetToken'[u] = "used") =
                     \E s \in Calls : resetting'[s].at = "over" /\ resetting'[s].token = {u}
      <4>1. (\E s \in Calls : resetting[s].at = "over" /\ resetting[s].token = {u})
            = (\E s \in Calls : resetting'[s].at = "over" /\ resetting'[s].token = {u})
        BY <2>4, <2>5
      <4> QED
        BY <1>0, <2>1, <4>1
    <3>3. IF password' = Old THEN \A u \in ResetTokens : resetToken'[u] # "used"
                             ELSE resetting'[password'].at = "over"
      BY <1>0, <2>1, <2>4 DEF R!ResetOnce
    <3> QED
      BY <3>1, <3>2, <3>3 DEF R!ResetOnce, R!SameToken
  <2>7. ASSUME NEW s \in Calls, resetting[s].at = "over", resetting[s].token = {t}
        PROVE  resetting'[r].at # "judged"
    BY <1>0, <2>1, <2>7
  <2> QED
    BY <2>1, <2>3, <2>4, <2>5, <2>6, <2>7 DEF ResetsInv, R!SameToken
<1>4. ASSUME NEW r \in Calls, R!Reset(r) PROVE ResetsInv'
  <2>1. PICK t \in ResetTokens : resetting[r].token = {t}
    BY <1>0, <1>4 DEF R!Reset, ResetsInv, R!Bringing
  <2>2. /\ resetting[r].at = "judged" /\ password' = r /\ lapsed' = lapsed
        /\ resetting'[r].at = "over" /\ resetting'[r].token = {t}
        /\ \A s \in Calls \ {r} : resetting'[s] = resetting[s]
        /\ resetting' \in [Calls -> [at : {"start", "judged", "over", "refused", "died"}, token : R!Bringing]]
    BY <1>0, <1>4, <2>1 DEF R!Reset
  <2>3. \A u \in ResetTokens : resetToken'[u] = IF u = t THEN "used" ELSE resetToken[u]
    BY <1>4, <2>1 DEF R!Reset
  <2>4. resetToken' \in [ResetTokens -> {"none", "unused", "used"}]
    BY <1>0, <1>4 DEF R!Reset
  <2>5. /\ together \subseteq together' /\ together' \subseteq Calls \X Calls
        /\ \A s \in Calls \ {r} : resetting[s].at = "judged" /\ resetting[s].token = {t} =>
               <<r, s>> \in together'
    BY <1>0, <1>4, <2>1 DEF R!Reset, R!SameToken
  <2>6. R!TypeOK'
    BY <1>0, <2>2, <2>4, <2>5 DEF R!TypeOK
  <2>7. \A s \in Calls : resetting[s].at = "over" /\ resetting[s].token = {t} => <<s, r>> \in together
    BY <2>1, <2>2 DEF ResetsInv, R!SameToken
  <2>8. ASSUME NEW q \in Calls, NEW s \in Calls, q # s, resetting'[q].at = "over",
               resetting'[s].at = "over", resetting'[q].token = resetting'[s].token
        PROVE  <<q, s>> \in together' \/ <<s, q>> \in together'
    <3>1. CASE q # r /\ s # r
      BY <1>0, <2>2, <2>5, <2>8, <3>1 DEF R!ResetOnce, R!SameToken
    <3>2. CASE q = r \/ s = r
      BY <2>2, <2>5, <2>7, <2>8, <3>2
    <3> QED
      BY <3>1, <3>2
  <2>9. \A u \in ResetTokens : (resetToken'[u] = "used") =
            \E s \in Calls : resetting'[s].at = "over" /\ resetting'[s].token = {u}
    <3> TAKE u \in ResetTokens
    <3>1. CASE u = t
      BY <2>2, <2>3, <3>1
    <3>2. CASE u # t
      <4>1. \A s \in Calls : (resetting'[s].at = "over" /\ resetting'[s].token = {u}) <=>
                             (resetting[s].at = "over" /\ resetting[s].token = {u})
        BY <2>1, <2>2, <3>2
      <4> QED
        BY <1>0, <2>3, <3>2, <4>1
    <3> QED
      BY <3>1, <3>2
  <2>10. R!ResetOnce'
    BY <1>0, <2>2, <2>8, <2>9 DEF R!ResetOnce, R!SameToken
  <2>11. ASSUME NEW q \in Calls, NEW s \in Calls, resetting'[q].at = "judged",
                resetting'[s].at = "over", resetting'[q].token = resetting'[s].token
         PROVE  <<s, q>> \in together'
    <3>1. q # r /\ resetting[q].at = "judged"
      BY <2>2, <2>11
    <3>2. CASE s = r
      BY <2>2, <2>5, <2>11, <3>1, <3>2
    <3>3. CASE s # r
      BY <2>2, <2>5, <2>11, <3>1, <3>3 DEF ResetsInv, R!SameToken
    <3> QED
      BY <3>2, <3>3
  <2>12. \A q \in Calls : resetting'[q].at \in {"judged", "over"} => resetting'[q].token # {}
    BY <2>2 DEF ResetsInv
  <2> QED
    BY <2>6, <2>10, <2>11, <2>12 DEF ResetsInv, R!SameToken
<1>5. ASSUME NEW r \in Calls, R!DiesResetting(r) PROVE ResetsInv'
  <2>1. /\ resetting[r].at = "judged" /\ resetting'[r].at = "died"
        /\ resetting'[r].token = resetting[r].token
        /\ \A s \in Calls \ {r} : resetting'[s] = resetting[s]
        /\ UNCHANGED <<resetToken, lapsed, password, together>>
        /\ resetting' \in [Calls -> [at : {"start", "judged", "over", "refused", "died"}, token : R!Bringing]]
    BY <1>0, <1>5 DEF R!DiesResetting
  <2>2. \A s \in Calls : (resetting'[s].at = "over") = (resetting[s].at = "over")
                         /\ resetting'[s].token = resetting[s].token
                         /\ (resetting'[s].at = "judged" => resetting[s].at = "judged")
    BY <2>1
  <2>3. R!TypeOK'
    BY <1>0, <2>1 DEF R!TypeOK
  <2>4. \A u \in ResetTokens :
            (\E s \in Calls : resetting[s].at = "over" /\ resetting[s].token = {u})
            = (\E s \in Calls : resetting'[s].at = "over" /\ resetting'[s].token = {u})
    BY <2>2
  <2>5. R!ResetOnce'
    <3>1. \A q, s \in Calls : q # s /\ resetting'[q].at = "over" /\ resetting'[s].at = "over"
                               /\ resetting'[q].token = resetting'[s].token =>
                                   <<q, s>> \in together' \/ <<s, q>> \in together'
      BY <1>0, <2>1, <2>2 DEF R!ResetOnce, R!SameToken
    <3>2. \A u \in ResetTokens : (resetToken'[u] = "used") =
              \E s \in Calls : resetting'[s].at = "over" /\ resetting'[s].token = {u}
      BY <1>0, <2>1, <2>4
    <3>3. IF password' = Old THEN \A u \in ResetTokens : resetToken'[u] # "used"
                             ELSE resetting'[password'].at = "over"
      BY <1>0, <2>1, <2>2 DEF R!ResetOnce
    <3> QED
      BY <3>1, <3>2, <3>3 DEF R!ResetOnce, R!SameToken
  <2>6. \A s \in Calls : resetting'[s].at \in {"judged", "over"} => resetting'[s].token # {}
    BY <2>1, <2>2 DEF ResetsInv
  <2>7. \A q, s \in Calls : resetting'[q].at = "judged" /\ resetting'[s].at = "over"
                             /\ resetting'[q].token = resetting'[s].token => <<s, q>> \in together'
    BY <2>1, <2>2 DEF ResetsInv, R!SameToken
  <2> QED
    BY <2>3, <2>5, <2>6, <2>7 DEF ResetsInv, R!SameToken
<1>6. CASE UNCHANGED R!vars
  BY <1>0, <1>6 DEF R!vars, ResetsInv, R!TypeOK, R!ResetOnce, R!SameToken
<1> QED
  BY <1>1, <1>2, <1>3, <1>4, <1>5, <1>6 DEF R!Next

-----------------------------------------------------------------------------
(* The parts in Services *)

\* A step of the services is one of Accounts, or leaves it alone.
LEMMA AccountsMoves == [Next]_vars => [A!Next]_(A!vars)
BY DEF Next, vars, RestA, RestAtoN, A!vars, accounts

\* In every state that Services reaches, AccountsInv holds.
LEMMA AccountsInvariance == Spec => []AccountsInv
<1>1. Init => AccountsInv
  BY AccountsInit DEF Init
<1>2. AccountsInv /\ [Next]_vars => AccountsInv'
  BY AccountsMoves, AccountsNext
<1> QED
  BY <1>1, <1>2, PTL DEF Spec

\* A step of the services is one of Sessions, or leaves it alone.
LEMMA SessionsMoves == [Next]_vars => [S!Next]_(S!vars)
BY DEF Next, vars, RestS, RestAtoN, S!vars, sessions

\* In every state that Services reaches, SessionsInv holds.
LEMMA SessionsInvariance == Spec => []SessionsInv
<1>1. Init => SessionsInv
  BY SessionsInit DEF Init
<1>2. SessionsInv /\ [Next]_vars => SessionsInv'
  BY SessionsMoves, SessionsNext
<1> QED
  BY <1>1, <1>2, PTL DEF Spec

\* A step of the services is one of Vault, or leaves it alone.
LEMMA VaultMoves == [Next]_vars => [V!Next]_(V!vars)
BY DEF Next, vars, RestV, RestAtoN, V!vars, vault

\* In every state that Services reaches, VaultInv holds.
LEMMA VaultInvariance == Spec => []VaultInv
<1>1. Init => VaultInv
  BY VaultInit DEF Init
<1>2. VaultInv /\ [Next]_vars => VaultInv'
  BY VaultMoves, VaultNext
<1> QED
  BY <1>1, <1>2, PTL DEF Spec

\* A step of the services is one of Settings, or leaves it alone.
LEMMA SettingsMoves == [Next]_vars => [P!Next]_settings
BY DEF Next, vars, RestP, RestAtoN

\* In every state that Services reaches, SettingsInv holds.
LEMMA SettingsInvariance == Spec => []SettingsInv
<1>1. Init => SettingsInv
  BY SettingsInit DEF Init
<1>2. SettingsInv /\ [Next]_vars => SettingsInv'
  BY SettingsMoves, SettingsNext
<1> QED
  BY <1>1, <1>2, PTL DEF Spec

\* A step of the services is one of Resets, or leaves it alone.
LEMMA ResetsMoves == [Next]_vars => [R!Next]_(R!vars)
BY DEF Next, vars, RestR, RestUtoR, R!vars, resets

\* In every state that Services reaches, ResetsInv holds.
LEMMA ResetsInvariance == Spec => []ResetsInv
<1>1. Init => ResetsInv
  BY ResetsInit DEF Init
<1>2. ResetsInv /\ [Next]_vars => ResetsInv'
  BY ResetsMoves, ResetsNext
<1> QED
  BY <1>1, <1>2, PTL DEF Spec

-----------------------------------------------------------------------------

\* Whoever accepted an invitation is a user and has the membership of the org and
\* of every team it named, whatever else was accepted, revoked, removed or deleted
\* since and in which order (invitations.py: accept_invitation).
THEOREM InvitationsHonoured == Spec => []AcceptedIsMember
<1>1. AccountsInv => AcceptedIsMember
  BY DEF AccountsInv, AcceptedIsMember
<1> QED
  BY <1>1, AccountsInvariance, PTL

\* However two tabs refresh at once, a browser whose requests are all answered holds
\* no revoked token, unless an answer was lost (auth.py: refresh).
THEOREM CookiesLive == Spec => []CookieLives
<1>1. SessionsInv => CookieLives
  BY SessionsPromise DEF CookieLives
<1> QED
  BY <1>1, SessionsInvariance, PTL

\* A run uses the model the settings page shows whenever the org it names and the
\* orgs of the token give both readers the same place to look in: no user or org
\* ever has a second row there (settings.py, model_resolver.py).
THEOREM ModelsShown == Spec => []ShownIsUsed
<1>1. SettingsInv => ShownIsUsed
  BY SettingsPromise DEF ShownIsUsed
<1> QED
  BY <1>1, SettingsInvariance, PTL

=============================================================================
