------------------------------- MODULE Vault -------------------------------
(***************************************************************************)
(* The AI keys and the integrations of backend/app/api/v1/keys.py: a row   *)
(* in the database and a secret in the vault, written and deleted one      *)
(* after the other with no transaction around both.  A call is one         *)
(* request; the server may stop, or the database fail, between any two of  *)
(* its steps.                                                              *)
(***************************************************************************)
CONSTANTS
    Keys,           \* key ids (uuids: each is created once)
    UserKeys,       \* AI keys of the user; the others belong to the org
    Integrations,   \* those that are integrations: no code resolves them
    Calls

\* What is assumed of the constants.
UserKeysAssumption == UserKeys \subseteq Keys \ Integrations /\ Integrations \subseteq Keys

VARIABLES
    row,            \* ids in api_keys or integration_credentials
    secret,         \* ids whose path holds a secret in the vault
    call            \* [op, key, at] of each call, one-shot

vars == <<row, secret, call>>

Fresh == [op |-> "none", key |-> {}, at |-> "start"]

Op == {"none", "create", "delete", "resolve"}
At == {"start", "loaded", "written", "dropped", "read", "done", "failed"}

TypeOK ==
    /\ row \subseteq Keys
    /\ secret \subseteq Keys
    /\ call \in [Calls -> [op : Op, key : {{}} \cup {{k} : k \in Keys}, at : At]]

Init ==
    /\ row = {}
    /\ secret = {}
    /\ call = [r \in Calls |-> Fresh]

Is(r, op, at, k) == call[r] = [op |-> op, key |-> {k}, at |-> at]

Begin(r, op, k, at) ==
    /\ call[r] = Fresh
    /\ call' = [call EXCEPT ![r] = [op |-> op, key |-> {k}, at |-> at]]

Go(r, at) == call' = [call EXCEPT ![r].at = at]

\* Fault: the row is committed first.
WriteSecret_RowFirst(r, k) ==
    /\ \A q \in Calls : call[q].key = {k} => call[q].op # "create"
    /\ Begin(r, "create", k, "written")
    /\ row' = row \cup {k}
    /\ UNCHANGED secret

\* A creation writes the secret ...
WriteSecret(r, k) ==
    /\ \A q \in Calls : call[q].key = {k} => call[q].op # "create"
    /\ Begin(r, "create", k, "written")
    /\ secret' = secret \cup {k}
    /\ UNCHANGED row

\* ... and then the row.
InsertRow(r, k) ==
    /\ Is(r, "create", "written", k)
    /\ row' = row \cup {k}
    /\ Go(r, "done")
    /\ UNCHANGED secret

\* A deletion loads the row ...
LoadDelete(r, k) ==
    /\ k \in row
    /\ Begin(r, "delete", k, "loaded")
    /\ UNCHANGED <<row, secret>>

\* ... asks the vault to delete the secret, and passes over its errors ...
DropSecret(r, k) ==
    /\ Is(r, "delete", "loaded", k)
    /\ secret' \in {secret, secret \ {k}}
    /\ Go(r, "dropped")
    /\ UNCHANGED row

\* ... and deletes the row.
DeleteRow(r, k) ==
    /\ Is(r, "delete", "dropped", k)
    /\ row' = row \ {k}
    /\ Go(r, "done")
    /\ UNCHANGED secret

\* resolve_ai_key: the user's keys override the org's.
Candidates ==
    IF row \cap UserKeys # {} THEN row \cap UserKeys ELSE row \ (UserKeys \cup Integrations)

LoadResolve(r, k) ==
    /\ k \in Candidates
    /\ Begin(r, "resolve", k, "loaded")
    /\ UNCHANGED <<row, secret>>

\* vault.read gives {} for a missing path, and {}["value"] raises -- after the
\* commit of last_used_at, which a row deleted meanwhile refuses.
ReadSecret(r, k) ==
    /\ Is(r, "resolve", "loaded", k)
    /\ Go(r, IF k \in secret THEN "read" ELSE "failed")
    /\ UNCHANGED <<row, secret>>

Touch(r, k) ==
    /\ Is(r, "resolve", "read", k)
    /\ Go(r, IF k \in row THEN "done" ELSE "failed")
    /\ UNCHANGED <<row, secret>>

\* create_integration and delete_integration have tables and paths of their own and
\* the steps of create_ai_key and delete_ai_key.
CreateIntegration(r, k) == k \in Integrations /\ (WriteSecret(r, k) \/ InsertRow(r, k))

DeleteIntegration(r, k) ==
    k \in Integrations /\ (LoadDelete(r, k) \/ DropSecret(r, k) \/ DeleteRow(r, k))

CreateKey(r, k) == k \notin Integrations /\ (WriteSecret(r, k) \/ InsertRow(r, k))

DeleteKey(r, k) ==
    k \notin Integrations /\ (LoadDelete(r, k) \/ DropSecret(r, k) \/ DeleteRow(r, k))

\* A server that stops, or a database that fails, leaves the call where it is.
Next ==
    \E r \in Calls, k \in Keys :
        \/ CreateKey(r, k) \/ CreateIntegration(r, k)
        \/ DeleteKey(r, k) \/ DeleteIntegration(r, k)
        \/ LoadResolve(r, k) \/ ReadSecret(r, k) \/ Touch(r, k)

Spec == Init /\ [][Next]_vars

-----------------------------------------------------------------------------
(* Properties *)

Deleting(k) == \E r \in Calls : call[r].op = "delete" /\ call[r].key = {k}
                                     /\ call[r].at \in {"dropped", "done"}

\* The two stores disagree about a key only while a call is between its two
\* writes, or after one that stopped there or met a vault error; and resolving a
\* key fails only if a deletion of that key has begun (keys.py: create_ai_key,
\* delete_ai_key, create_integration, delete_integration, resolve_ai_key).
VaultAgrees ==
    \A k \in Keys :
        /\ k \in row \ secret => Deleting(k)
        /\ k \in secret \ row =>
               Deleting(k) \/ \E r \in Calls : Is(r, "create", "written", k)
        /\ (\E r \in Calls : Is(r, "resolve", "failed", k)) => Deleting(k)

=============================================================================
