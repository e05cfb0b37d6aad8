------------------------------ MODULE Accounts ------------------------------
(***************************************************************************)
(* Organisations, teams, users, memberships and invitations of             *)
(* backend/app/api/v1/orgs.py, invitations.py and auth.py.  Every table is *)
(* a variable and every handler's commit an action; the two handlers that  *)
(* judge an invitation and write it later, accept and revoke, are requests *)
(* in progress.  What the database refuses (a second user of one email, a  *)
(* row that names no team) rolls the whole request back.                   *)
(***************************************************************************)
EXTENDS FiniteSets

CONSTANTS
    Emails, Orgs, Teams, Invitations,
    Wanted,         \* what update_org is asked to write: the body may say anything
    Requests,       \* accept and revoke requests in progress
    Platform,       \* the platform administrator, who is no user
    Founding        \* stands for create_org in a membership it inserts

\* What is assumed of the constants.
PlatformAssumption == Platform \notin Emails

VARIABLES
    users,          \* emails of the rows of users
    org,            \* orgs.status, "none" before the insert
    team,           \* the org of each team, {} when there is no row
    dropped,        \* teams deleted: their ids are not given out again
    member,         \* rows of org_memberships, each with what inserted it
    teamMember,     \* rows of team_memberships: <<team, user>>
    invitation,     \* invitations: status and the fields fixed at the insert
    expired,        \* invitations whose expires_at has passed
    request         \* what each request will write: {change}, or {}

vars == <<users, org, team, dropped, member, teamMember, invitation, expired, request>>

Role == {"admin", "developer"}
OrgStatus == {"active", "deleted"} \cup Wanted

Invitation == [status : {"none", "pending", "accepted", "revoked"}, org : Orgs,
               email : Emails, role : Role, teams : SUBSET Teams]

Membership == [user : Emails, org : Orgs, role : Role,
               by : (Requests \X Invitations) \cup {Founding}]

Change == [op : {"accept", "revoke"}, of : Invitations, new : BOOLEAN]

TypeOK ==
    /\ users \subseteq Emails
    /\ org \in [Orgs -> OrgStatus \cup {"none"}]
    /\ team \in [Teams -> {{}} \cup {{o} : o \in Orgs}]
    /\ dropped \subseteq Teams
    /\ member \subseteq Membership
    /\ teamMember \subseteq Teams \X Emails
    /\ invitation \in [Invitations -> Invitation]
    /\ expired \subseteq Invitations
    /\ request \in [Requests -> {{}} \cup {{c} : c \in Change}]

Init ==
    /\ users = {}
    /\ org = [o \in Orgs |-> "none"]
    /\ team = [t \in Teams |-> {}]
    /\ dropped = {}
    /\ member = {}
    /\ teamMember = {}
    /\ \E o \in Orgs, e \in Emails :
           invitation = [i \in Invitations |->
               [status |-> "none", org |-> o, email |-> e, role |-> "developer", teams |-> {}]]
    /\ expired = {}
    /\ request = [r \in Requests |-> {}]

-----------------------------------------------------------------------------
(* Organisations and teams *)

Rows(u, o) == {m \in member : m.user = u /\ m.org = o}

\* _require_org_admin: scalar_one_or_none raises when there are two rows.
Administers(caller, o) ==
    \/ caller = Platform
    \/ \E m \in member : Rows(caller, o) = {m} /\ m.role = "admin"

\* create_org: the org, its first administrator and the membership, one commit.
CreateOrg(o, e) ==
    /\ org[o] = "none"
    /\ org' = [org EXCEPT ![o] = "active"]
    /\ users' = users \cup {e}
    /\ member' = member \cup {[user |-> e, org |-> o, role |-> "admin", by |-> Founding]}
    /\ UNCHANGED <<team, dropped, teamMember, invitation, expired, request>>

\* update_org: the status is what the body says.
UpdateOrg(caller, o, status) ==
    /\ Administers(caller, o)
    /\ org[o] # "none"
    /\ org' = [org EXCEPT ![o] = status]
    /\ UNCHANGED <<users, team, dropped, member, teamMember, invitation, expired, request>>

\* delete_org: the row stays.
DeleteOrg(o) ==
    /\ org[o] # "none"
    /\ org' = [org EXCEPT ![o] = "deleted"]
    /\ UNCHANGED <<users, team, dropped, member, teamMember, invitation, expired, request>>

CreateTeam(caller, t, o) ==
    /\ Administers(caller, o)
    /\ org[o] # "none"
    /\ team[t] = {} /\ t \notin dropped
    /\ team' = [team EXCEPT ![t] = {o}]
    /\ UNCHANGED <<users, org, dropped, member, teamMember, invitation, expired, request>>

\* delete_team: the foreign key refuses a team that has members.
DeleteTeam(caller, t, o) ==
    /\ Administers(caller, o)
    /\ team[t] = {o}
    /\ \A e \in Emails : <<t, e>> \notin teamMember
    /\ team' = [team EXCEPT ![t] = {}]
    /\ dropped' = dropped \cup {t}
    /\ UNCHANGED <<users, org, member, teamMember, invitation, expired, request>>

\* register: a user with no org; an email is registered once.
Register(e) ==
    /\ e \notin users
    /\ users' = users \cup {e}
    /\ UNCHANGED <<org, team, dropped, member, teamMember, invitation, expired, request>>

-----------------------------------------------------------------------------
(* Invitations *)

\* create_invitation: the team ids are stored as they are given.
Invite(caller, i, o, e, role, teams) ==
    /\ Administers(caller, o)
    /\ org[o] # "none"
    /\ invitation[i].status = "none"
    /\ invitation' = [invitation EXCEPT ![i] =
           [status |-> "pending", org |-> o, email |-> e, role |-> role, teams |-> teams]]
    /\ UNCHANGED <<users, org, team, dropped, member, teamMember, expired, request>>

Expire(i) ==
    /\ invitation[i].status = "pending"
    /\ expired' = expired \cup {i}
    /\ UNCHANGED <<users, org, team, dropped, member, teamMember, invitation, request>>

\* revoke_invitation finds it pending ...
BeginRevoke(r, caller, i) ==
    /\ request[r] = {}
    /\ Administers(caller, invitation[i].org)
    /\ invitation[i].status = "pending"
    /\ request' = [request EXCEPT ![r] = {[op |-> "revoke", of |-> i, new |-> FALSE]}]
    /\ UNCHANGED <<users, org, team, dropped, member, teamMember, invitation, expired>>

\* ... and writes the status, whatever the row says by then.
Revoke(r) ==
    /\ \E c \in request[r] :
           /\ c.op = "revoke"
           /\ invitation' = [invitation EXCEPT ![c.of].status = "revoked"]
    /\ request' = [request EXCEPT ![r] = {}]
    /\ UNCHANGED <<users, org, team, dropped, member, teamMember, expired>>

\* accept_invitation finds it pending and looks the user up ...
BeginAccept(r, i) ==
    /\ request[r] = {}
    /\ invitation[i].status = "pending"
    /\ i \notin expired
    /\ request' = [request EXCEPT ![r] =
           {[op |-> "accept", of |-> i, new |-> invitation[i].email \notin users]}]
    /\ UNCHANGED <<users, org, team, dropped, member, teamMember, invitation, expired>>

\* Faults: the two ids are swapped; an existing user is given the org but not
\* the teams.
TeamRows_Swapped(c) == {<<invitation[c.of].email, t>> : t \in invitation[c.of].teams}
TeamRows_NewOnly(c) ==
    IF c.new THEN {<<t, invitation[c.of].email>> : t \in invitation[c.of].teams} ELSE {}

TeamRows(c) == {<<t, invitation[c.of].email>> : t \in invitation[c.of].teams}

\* ... and commits the user, both kinds of membership and the status together,
\* unless a constraint refuses one of them.  No unique index is left on
\* org_memberships: a second invitation of a member gives a second row.
Accept(r) ==
    /\ \E c \in request[r] :
           LET inv == invitation[c.of] IN
           /\ c.op = "accept"
           /\ c.new => inv.email \notin users
           /\ \A t \in inv.teams : team[t] # {}
           /\ users' = users \cup {inv.email}
           /\ member' = member \cup {[user |-> inv.email, org |-> inv.org,
                                      role |-> inv.role, by |-> <<r, c.of>>]}
           /\ teamMember' = teamMember \cup TeamRows(c)
           /\ invitation' = [invitation EXCEPT ![c.of].status = "accepted"]
    /\ request' = [request EXCEPT ![r] = {}]
    /\ UNCHANGED <<org, team, dropped, expired>>

\* A constraint refuses the commit, or the server stops before it.
RollBack(r) ==
    /\ request[r] # {}
    /\ request' = [request EXCEPT ![r] = {}]
    /\ UNCHANGED <<users, org, team, dropped, member, teamMember, invitation, expired>>

Next ==
    \/ \E o \in Orgs, e \in Emails : CreateOrg(o, e)
    \/ \E o \in Orgs : DeleteOrg(o)
    \/ \E e \in Emails : Register(e)
    \/ \E caller \in users \cup {Platform}, o \in Orgs :
           \/ \E status \in Wanted : UpdateOrg(caller, o, status)
           \/ \E t \in Teams : CreateTeam(caller, t, o) \/ DeleteTeam(caller, t, o)
           \/ \E i \in Invitations, e \in Emails, role \in Role, teams \in SUBSET Teams :
                  Invite(caller, i, o, e, role, teams)
    \/ \E i \in Invitations : Expire(i)
    \/ \E r \in Requests :
           \/ \E i \in Invitations :
                  \/ \E caller \in users \cup {Platform} : BeginRevoke(r, caller, i)
                  \/ BeginAccept(r, i)
           \/ Revoke(r)
           \/ Accept(r)
           \/ RollBack(r)

Spec == Init /\ [][Next]_vars

-----------------------------------------------------------------------------
(* Properties *)

\* An accepted invitation has been honoured in full: the user exists, belongs
\* to the org with the invited role and to every invited team, and those teams
\* are still there, although accepts, revocations and team deletions overlap
\* (invitations.py: accept_invitation, orgs.py: delete_team).
AcceptedIsMember ==
    \A i \in Invitations :
        LET inv == invitation[i] IN
        inv.status = "accepted" =>
            /\ inv.email \in users
            /\ \E m \in Rows(inv.email, inv.org) : m.role = inv.role
            /\ \A t \in inv.teams : team[t] # {} /\ <<t, inv.email>> \in teamMember

=============================================================================
