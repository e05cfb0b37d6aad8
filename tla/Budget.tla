------------------------------- MODULE Budget -------------------------------
(***************************************************************************)
(* The daily budget alerts of one org (backend/app/cost/budget.py): a      *)
(* check sums the day's token_usage, looks for an alert of the highest     *)
(* threshold reached and inserts one if there is none.  Each await is a    *)
(* step, and no constraint of the table forbids a second alert.            *)
(***************************************************************************)
EXTENDS Naturals, Sequences

CONSTANTS
    Calls,          \* checks, one-shot
    Cap,            \* daily_cap
    Amounts,        \* tokens of a row of token_usage
    MaxUsed,        \* bound: tokens of a day
    MaxDays         \* bound

\* What is assumed of the constants: without a cap a check does nothing.
CapAssumption == Cap \in Nat \ {0} /\ Amounts \subseteq Nat

VARIABLES
    used,           \* sum of today's rows of token_usage
    today,
    check,          \* [at, kind, day] of each check
    alerts,         \* rows of budget_alerts in the order of their commits, each
                    \* by the check that wrote it: it has its kind and day
    abreast         \* pairs of checks that overlapped

vars == <<used, today, check, alerts, abreast>>

\* In percent; a kind is its threshold.
Thresholds == {50, 90, 100}

At == {"start", "none", "summed", "looked", "known", "recorded", "failed", "died"}

TypeOK ==
    /\ used \in Nat
    /\ today \in Nat
    /\ check \in [Calls -> [at : At, kind : {0} \cup Thresholds, day : Nat]]
    /\ alerts \in Seq(Calls)
    /\ abreast \subseteq SUBSET Calls

Init ==
    /\ used = 0
    /\ today = 1
    /\ check = [c \in Calls |-> [at |-> "start", kind |-> 0, day |-> 0]]
    /\ alerts = <<>>
    /\ abreast = {}

Reached(t) == 100 * used >= t * Cap

\* The last of the sorted thresholds that is reached.
Crossed(t) == t \in Thresholds /\ Reached(t) /\ \A u \in Thresholds : Reached(u) => u <= t

InFlight(c) == check[c].at \in {"summed", "looked"}

Go(c, at) == check' = [check EXCEPT ![c].at = at]

\* Tokens are used; a new day begins.
Use ==
    /\ \E n \in Amounts : used + n <= MaxUsed /\ used' = used + n
    /\ UNCHANGED <<today, check, alerts, abreast>>

NewDay ==
    /\ today < MaxDays
    /\ today' = today + 1
    /\ used' = 0
    /\ UNCHANGED <<check, alerts, abreast>>

\* Under every threshold the check is over.
Sum(c) ==
    /\ check[c].at = "start"
    /\ \/ /\ \A t \in Thresholds : ~Reached(t)
          /\ Go(c, "none")
          /\ UNCHANGED abreast
       \/ \E t \in Thresholds :
              /\ Crossed(t)
              /\ check' = [check EXCEPT ![c] = [at |-> "summed", kind |-> t, day |-> today]]
              /\ abreast' = abreast \cup {{c, d} : d \in {e \in Calls : InFlight(e)}}
    /\ UNCHANGED <<used, today, alerts>>

Same(c, d) == check[c].kind = check[d].kind /\ check[c].day = check[d].day

Alike(c) == {i \in DOMAIN alerts : Same(c, alerts[i])}

\* scalar_one_or_none raises if there are two.
Look(c) ==
    /\ check[c].at = "summed"
    /\ Go(c, CASE Alike(c) = {} -> "looked"
               [] \E i \in Alike(c) : Alike(c) = {i} -> "known"
               [] OTHER -> "failed")
    /\ UNCHANGED <<used, today, alerts, abreast>>

Insert(c) ==
    /\ check[c].at = "looked"
    /\ alerts' = Append(alerts, c)
    /\ Go(c, "recorded")
    /\ UNCHANGED <<used, today, abreast>>

\* The server stops, or the database fails.
Dies(c) ==
    /\ InFlight(c)
    /\ Go(c, "died")
    /\ UNCHANGED <<used, today, alerts, abreast>>

Next == Use \/ NewDay \/ \E c \in Calls : Sum(c) \/ Look(c) \/ Insert(c) \/ Dies(c)

Spec == Init /\ [][Next]_vars

-----------------------------------------------------------------------------
(* Properties *)

\* Checks that do not overlap record each kind once a day, and never a lower one
\* after a higher one; a check fails only on a kind that overlapping checks have
\* recorded twice (budget.py: "each alert kind fires once per period per org").
AlertsOnce ==
    /\ \A i, j \in DOMAIN alerts :
           i < j /\ check[alerts[i]].day = check[alerts[j]].day
                 /\ {alerts[i], alerts[j]} \notin abreast =>
               check[alerts[i]].kind < check[alerts[j]].kind
    /\ \A c \in Calls : check[c].at = "failed" =>
           \E i, j \in DOMAIN alerts :
               i # j /\ Same(c, alerts[i]) /\ Same(c, alerts[j])
                     /\ {alerts[i], alerts[j]} \in abreast

=============================================================================
