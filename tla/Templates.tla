----------------------------- MODULE Templates -----------------------------
(***************************************************************************)
(* The template gallery of backend/app/workflow/templates.py.  Every       *)
(* listing first seeds the defaults: it asks for each by name, adds those  *)
(* that are missing and commits them at the end.  The names are not unique *)
(* in the table, and two listings may look before either commits.          *)
(***************************************************************************)
EXTENDS Naturals

CONSTANTS
    Names,          \* of SEED_TEMPLATES, numbered in their order
    Visits          \* requests

\* What is assumed of the constants.
NamesAssumption == Names \subseteq Nat

VARIABLES
    template,       \* workflow_templates: the visits that inserted each name
    visit,          \* [at, seen, adds, shows] of each request
    clone,          \* draft processes: <<visit, name>>
    overlapped      \* two seedings were under way at once

vars == <<template, visit, clone, overlapped>>

At == {"start", "seeding", "seeded", "over", "failed"}

Visit == [at : At, seen : SUBSET Names, adds : SUBSET Names, shows : SUBSET (Names \X Visits)]

TypeOK ==
    /\ template \in [Names -> SUBSET Visits]
    /\ visit \in [Visits -> Visit]
    /\ clone \subseteq Visits \X Names
    /\ overlapped \in BOOLEAN

Init ==
    /\ template = [n \in Names |-> {}]
    /\ visit = [v \in Visits |-> [at |-> "start", seen |-> {}, adds |-> {}, shows |-> {}]]
    /\ clone = {}
    /\ overlapped = FALSE

Seeding(v) == visit[v].at = "seeding"

Go(v, at) == visit' = [visit EXCEPT ![v].at = at]

Many(rows) == \E v, w \in rows : v # w

\* api_list_templates calls seed_templates.
Begin(v) ==
    /\ visit[v].at = "start"
    /\ Go(v, "seeding")
    /\ overlapped' = (overlapped \/ \E w \in Visits : Seeding(w))
    /\ UNCHANGED <<template, clone>>

\* The next default, which the visit has not asked for.
IsNext(v, n) == n \notin visit[v].seen /\ \A m \in Names : m < n => m \in visit[v].seen

Missing(n) == template[n] = {}

\* One name: two rows of it raise, and what was added is rolled back.
Look(v, n) ==
    /\ Seeding(v) /\ IsNext(v, n)
    /\ IF Many(template[n])
         THEN Go(v, "failed")
         ELSE visit' = [visit EXCEPT ![v].seen = @ \cup {n},
                                     ![v].adds = IF Missing(n) THEN @ \cup {n} ELSE @]
    /\ UNCHANGED <<template, clone, overlapped>>

\* The commit.
Seed(v) ==
    /\ Seeding(v) /\ visit[v].seen = Names
    /\ template' = [n \in Names |-> template[n] \cup (IF n \in visit[v].adds THEN {v} ELSE {})]
    /\ Go(v, "seeded")
    /\ UNCHANGED <<clone, overlapped>>

\* list_templates.
List(v) ==
    /\ visit[v].at = "seeded"
    /\ visit' = [visit EXCEPT ![v].at = "over",
                              ![v].shows = {p \in Names \X Visits : p[2] \in template[p[1]]}]
    /\ UNCHANGED <<template, clone, overlapped>>

\* clone_template, of a row by its id: a draft process of its definition.
Clone(v, n) ==
    /\ visit[v].at = "start" /\ template[n] # {}
    /\ clone' = clone \cup {<<v, n>>}
    /\ Go(v, "over")
    /\ UNCHANGED <<template, overlapped>>

\* The connection or the server is lost before the commit.
Dies(v) ==
    /\ Seeding(v)
    /\ Go(v, "failed")
    /\ UNCHANGED <<template, clone, overlapped>>

Next ==
    \E v \in Visits :
        \/ Begin(v) \/ Seed(v) \/ List(v) \/ Dies(v)
        \/ \E n \in Names : Look(v, n) \/ Clone(v, n)

Spec == Init /\ [][Next]_vars

-----------------------------------------------------------------------------
(* Properties *)

\* seed_templates is idempotent as long as no two ran at once, after failures
\* too: no default is there twice and none is missing from a listing that
\* seeded.  Once two have overlapped a name may be there twice for ever, and
\* every later listing fails (templates.py: seed_templates).
TemplatesOnce ==
    /\ ~overlapped => \A n \in Names : ~Many(template[n])
    /\ \A v \in Visits : visit[v].at = "over" /\ visit[v].seen = Names =>
           \A n \in Names : \E w \in Visits : <<n, w>> \in visit[v].shows

=============================================================================
