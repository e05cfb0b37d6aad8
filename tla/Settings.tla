------------------------------ MODULE Settings ------------------------------
(***************************************************************************)
(* The setting ai.default_model: its rows (backend/app/api/v1/settings.py) *)
(* and the two readers that resolve it, get_setting, whose answer the user *)
(* is shown, and agent/model_resolver.py, whose answer an agent run uses.  *)
(* The user, the org and the platform each have a place; team rows exist   *)
(* but no reader looks for them, as the teams in a token are always [].    *)
(***************************************************************************)
CONSTANTS
    Users, Orgs,
    Platform,       \* the place whose scope_id is NULL
    NoOrg,          \* a run outside any org
    Models,
    NoModel,        \* a value with neither "model" nor "name"
    Copies          \* tell the platform's rows apart; bounds them

\* What is assumed of the constants.
PlacesAssumption == Platform \notin Users \cup Orgs /\ NoOrg \notin Users \cup Orgs \cup {Platform}

Places == Users \cup Orgs \cup {Platform}

VARIABLE rows       \* the settings rows of the key

Row == [at : Places, model : Models \cup {NoModel}, enforced : BOOLEAN, copy : Copies]

TypeOK == rows \subseteq Row

Init == rows = {}

At(p) == {r \in rows : r.at = p}

\* The copy of a row that can have no duplicate.
TheCopy == CHOOSE c \in Copies : TRUE

-----------------------------------------------------------------------------
(* settings.py *)

\* What ON CONFLICT (scope, scope_id, key) replaces: the unique constraint does
\* not see a conflict between rows whose scope_id is NULL.
Replaced(p) == IF p = Platform THEN {} ELSE At(p)

\* set_setting, by a caller its checks admit.
Put(p, model, enforced, copy) ==
    /\ p # Platform => copy = TheCopy
    /\ \A r \in At(p) \ Replaced(p) : r.copy # copy
    /\ rows' = (rows \ Replaced(p)) \cup
                   {[at |-> p, model |-> model, enforced |-> enforced, copy |-> copy]}

\* delete_setting: scalar_one_or_none raises when there are two.
Delete(p) ==
    /\ \E r \in rows : At(p) = {r}
    /\ rows' = rows \ At(p)

Next ==
    \E p \in Places :
        \/ \E model \in Models \cup {NoModel}, enforced \in BOOLEAN, copy \in Copies :
               Put(p, model, enforced, copy)
        \/ Delete(p)

Spec == Init /\ [][Next]_rows

\* Where get_setting may find its answer for a user u whose token lists the orgs
\* in own: with the user, or else with the first of the orgs that has a row
\* (_build_orgs puts them in no fixed order), or else with the platform.
First(u, own) ==
    IF At(u) # {} THEN {u}
    ELSE IF \E o \in own : At(o) # {} THEN {o \in own : At(o) # {}}
    ELSE {Platform}

\* The rows one of which it shows; two rows in a place raise, as does no row.
Shown(u, own) == {r \in rows : r.at \in First(u, own) /\ At(r.at) = {r}}

-----------------------------------------------------------------------------
(* model_resolver.py *)

Model(p) == {r.model : r \in At(p)} \ {NoModel}

\* _org_enforced
OrgEnforced(o) == \E r \in At(o) : r.enforced

\* Fault: the enforcement is looked up on the user's own row.
UserDecides_Own(u, o) == Model(u) # {} /\ ~OrgEnforced(u)

UserDecides(u, o) == Model(u) # {} /\ ~OrgEnforced(o)

\* resolve_default_model for a request that names org o, which need not be one of
\* the user's, or none, and no model: {model}, or {} for the role's own model --
\* or for the error two platform rows raise.
Used(u, o) ==
    CASE UserDecides(u, o) -> Model(u)
      [] ~UserDecides(u, o) /\ Model(o) # {} -> Model(o)
      [] OTHER -> {m \in Model(Platform) : \E r \in rows : At(Platform) = {r}}

-----------------------------------------------------------------------------
(* Properties *)

\* The two readers agree as far as they look in the same places: get_setting walks
\* the orgs of the token, the resolver asks for the one org the request names.  A
\* run uses the model the user is shown if that is the user's own and the
\* request's org enforces nothing, if it is that of the request's org, or if it is
\* the platform's and the request's org has none; and an enforced model of that org
\* is used whatever any user or the platform stores.  Whatever was put and deleted,
\* a user who has a row, or one of whose orgs has, is shown one: only the
\* platform's may be there twice and raise (settings.py: get_setting, set_setting,
\* model_resolver.py: resolve_default_model).
ShownIsUsed ==
    \A u \in Users, own \in SUBSET Orgs, o \in Orgs \cup {NoOrg} :
        /\ At(u) # {} \/ (\E l \in own : At(l) # {}) => Shown(u, own) # {}
        /\ \A r \in Shown(u, own) :
               /\ r.model # NoModel
               /\ \/ r.at = u /\ ~OrgEnforced(o)
                  \/ r.at = o
                  \/ r.at = Platform /\ Model(o) = {}
               => Used(u, o) = {r.model}
        /\ OrgEnforced(o) /\ Model(o) # {} => Used(u, o) = Model(o)

=============================================================================
