------------------------------- MODULE Cache -------------------------------
(***************************************************************************)
(* The LLM response cache (backend/app/agent/cache.py) and the completion  *)
(* that asks it (agent/llm/litellm_client.py), for one cache key: Redis,   *)
(* shared by the servers, and in each server a dictionary that serves      *)
(* while Redis is unreachable.  An answer is named by the call that asked  *)
(* the provider for it; each call is made once.                            *)
(***************************************************************************)
EXTENDS Naturals

CONSTANTS
    Calls, Servers,
    TTL,            \* default_ttl_seconds, in ticks
    MaxTime         \* bounds the clock

\* What is assumed of the constants.
TTLAssumption == TTL \in Nat \ {0} /\ MaxTime \in Nat

VARIABLES
    now,
    reachable,      \* Redis answers
    redis,          \* its entry: {[answer, until]}, or {}
    memory,         \* the entry of each server's _mem_cache
    call,           \* [server, at] of each call; the server is {} before it starts
    answered,       \* history: the calls the provider has answered
    stored,         \* when each answer was put in the cache
    hit             \* the answer each call was given from it, and when

vars == <<now, reachable, redis, memory, call, answered, stored, hit>>

Entry == [answer : Calls, until : Nat]
At == {"start", "redis", "memory", "ask", "record", "store", "over"}

TypeOK ==
    /\ now \in 0..MaxTime
    /\ reachable \in BOOLEAN
    /\ redis \in {{}} \cup {{e} : e \in [answer : Calls, until : 0..(MaxTime + TTL)]}
    /\ \A s \in Servers : memory[s] \subseteq Entry
    /\ call \in [Calls -> [server : {{}} \cup {{s} : s \in Servers}, at : At]]
    /\ answered \subseteq Calls
    /\ stored \in [Calls -> Nat]
    /\ hit \in [Calls -> SUBSET [answer : Calls, at : Nat]]

Init ==
    /\ now = 0
    /\ reachable = TRUE
    /\ redis = {}
    /\ memory = [s \in Servers |-> {}]
    /\ call = [c \in Calls |-> [server |-> {}, at |-> "start"]]
    /\ answered = {}
    /\ stored = [c \in Calls |-> 0]
    /\ hit = [c \in Calls |-> {}]

Go(c, at) == call' = [call EXCEPT ![c].at = at]

Hit(c, e) == hit' = [hit EXCEPT ![c] = {[answer |-> e.answer, at |-> now]}]

-----------------------------------------------------------------------------
(* The world *)

\* Redis drops its entry when its time is over.
Tick ==
    /\ now < MaxTime
    /\ now' = now + 1
    /\ redis' = {e \in redis : e.until > now'}
    /\ UNCHANGED <<reachable, memory, call, answered, stored, hit>>

Outage ==
    /\ reachable' = ~reachable
    /\ UNCHANGED <<now, redis, memory, call, answered, stored, hit>>

\* The server stops: its memory and the calls it was on are gone.
Restart(s) ==
    /\ memory' = [memory EXCEPT ![s] = {}]
    /\ call' = [c \in Calls |-> IF call[c].server = {s}
                                  THEN [call[c] EXCEPT !.at = "over"]
                                  ELSE call[c]]
    /\ UNCHANGED <<now, reachable, redis, answered, stored, hit>>

-----------------------------------------------------------------------------
(* One completion *)

Begin(c, s) ==
    /\ call[c].at = "start"
    /\ call' = [call EXCEPT ![c] = [server |-> {s}, at |-> "redis"]]
    /\ UNCHANGED <<now, reachable, redis, memory, answered, stored, hit>>

\* get asks Redis first, and on a miss or an error goes on ...
AskRedis(c) ==
    /\ call[c].at = "redis"
    /\ \/ \E e \in redis : reachable /\ Hit(c, e) /\ Go(c, "over")
       \/ (redis = {} \/ ~reachable) /\ Go(c, "memory") /\ UNCHANGED hit
    /\ UNCHANGED <<now, reachable, redis, memory, answered, stored>>

Alive(e) == e.until > now

\* ... to the server's memory, which pops an expired entry.
AskMemory(c, s) ==
    /\ call[c] = [server |-> {s}, at |-> "memory"]
    /\ \/ \E e \in memory[s] : Alive(e) /\ Hit(c, e) /\ Go(c, "over")
       \/ (\A e \in memory[s] : ~Alive(e)) /\ Go(c, "ask") /\ UNCHANGED hit
    /\ memory' = [memory EXCEPT ![s] = {e \in memory[s] : Alive(e)}]
    /\ UNCHANGED <<now, reachable, redis, answered, stored>>

\* Fault: an error is stored like an answer.
Ask_Errors(c) ==
    /\ call[c].at = "ask"
    /\ \/ Go(c, "record") /\ answered' = answered \cup {c}
       \/ Go(c, "store") /\ UNCHANGED answered
    /\ UNCHANGED <<now, reachable, redis, memory, stored, hit>>

\* The provider answers, or its error is returned as an answer.
Ask(c) ==
    /\ call[c].at = "ask"
    /\ \/ Go(c, "record") /\ answered' = answered \cup {c}
       \/ Go(c, "over") /\ UNCHANGED answered
    /\ UNCHANGED <<now, reachable, redis, memory, stored, hit>>

\* The callback, if there is one, is told of the tokens; whether it fails or not,
\* the answer is stored.
Record(c) ==
    /\ call[c].at = "record"
    /\ Go(c, "store")
    /\ UNCHANGED <<now, reachable, redis, memory, answered, stored, hit>>

\* set: in Redis, or else -- it fails, perhaps with the entry in place -- in
\* this server's memory.
Store(c, s) ==
    LET entry == {[answer |-> c, until |-> now + TTL]} IN
    /\ call[c] = [server |-> {s}, at |-> "store"]
    /\ IF reachable
         THEN redis' = entry /\ UNCHANGED memory
         ELSE /\ memory' = [memory EXCEPT ![s] = entry]
              /\ redis' \in {redis, entry}
    /\ stored' = [stored EXCEPT ![c] = now]
    /\ Go(c, "over")
    /\ UNCHANGED <<now, reachable, answered, hit>>

Next ==
    \/ Tick
    \/ Outage
    \/ \E s \in Servers : Restart(s)
    \/ \E c \in Calls :
           \/ \E s \in Servers : Begin(c, s) \/ AskMemory(c, s) \/ Store(c, s)
           \/ AskRedis(c) \/ Ask(c) \/ Record(c)

Spec == Init /\ [][Next]_vars

-----------------------------------------------------------------------------
(* Properties *)

\* Every answer served from the cache, by Redis or by a server's memory left
\* from an earlier outage, is younger than its time to live and came from the
\* provider: an error is served to nobody but the call that met it.  Whether the
\* tokens of the answer were accounted for is not promised: the callback may be
\* missing or fail (cache.py: get, set; litellm_client.py: completion).
HitsAreSound ==
    \A c \in Calls : \A h \in hit[c] :
        /\ h.answer # c
        /\ h.at < stored[h.answer] + TTL
        /\ h.answer \in answered

=============================================================================
