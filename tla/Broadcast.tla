----------------------------- MODULE Broadcast -----------------------------
(***************************************************************************)
(* The Broadcaster of backend/app/notifications/websocket.py and the       *)
(* sockets of notifications/api.py, which forward an organisation's and a  *)
(* user's channel by a task each.  No method awaits while it holds the     *)
(* lock, so each is one step.  Who broadcasts is outside this code.        *)
(***************************************************************************)
EXTENDS Naturals, Sequences

CONSTANTS
    Sockets, Channels,
    MaxQueue,       \* maxsize of a subscriber's queue
    MaxEvents       \* bounds the events

\* What is assumed of the constants.
LimitsAssumption == MaxQueue \in Nat \ {0} /\ MaxEvents \in Nat

VARIABLES
    channel,        \* _channels: the sockets whose queues are in the set of each
    queue,          \* events by their numbers, of each socket and channel
    socket,         \* "new", "open", "left" (the server does not know), "closing" or "closed"
    sending,        \* the event a forwarding task has taken: <<event>>, or <<>>
    shown,          \* what the client has been shown
    due,            \* what was broadcast since the task subscribed, less what a full
                    \* queue dropped
    event           \* number of events so far

vars == <<channel, queue, socket, sending, shown, due, event>>

Task == Sockets \X Channels
Log == Seq(1..MaxEvents)

TypeOK ==
    /\ channel \in [Channels -> SUBSET Sockets]
    /\ socket \in [Sockets -> {"new", "open", "left", "closing", "closed"}]
    /\ {queue, sending, shown, due} \subseteq [Task -> Log]
    /\ \A t \in Task : Len(queue[t]) <= MaxQueue /\ Len(sending[t]) <= 1
    /\ event \in 0..MaxEvents

Init ==
    /\ channel = [c \in Channels |-> {}]
    /\ socket = [s \in Sockets |-> "new"]
    /\ queue = [t \in Task |-> <<>>]
    /\ sending = [t \in Task |-> <<>>]
    /\ shown = [t \in Task |-> <<>>]
    /\ due = [t \in Task |-> <<>>]
    /\ event = 0

Subscribed(s, c) == s \in channel[c]

\* The token is good: accepted, and a forwarding task for each channel.
Accept(s) ==
    /\ socket[s] = "new"
    /\ socket' = [socket EXCEPT ![s] = "open"]
    /\ UNCHANGED <<channel, queue, sending, shown, due, event>>

\* The task begins.
Subscribe(s, c) ==
    /\ socket[s] \in {"open", "left"} /\ ~Subscribed(s, c)
    /\ channel' = [channel EXCEPT ![c] = @ \cup {s}]
    /\ UNCHANGED <<queue, socket, sending, shown, due, event>>

\* put_nowait to every queue of the channel; a full one goes without.
Send(c) ==
    /\ event < MaxEvents
    /\ event' = event + 1
    /\ LET put == {t \in Task : t[2] = c /\ Subscribed(t[1], c) /\ Len(queue[t]) < MaxQueue}
       IN  /\ queue' = [t \in Task |-> IF t \in put THEN Append(queue[t], event') ELSE queue[t]]
           /\ due' = [t \in Task |-> IF t \in put THEN Append(due[t], event') ELSE due[t]]
    /\ UNCHANGED <<channel, socket, sending, shown>>

\* queue.get ...
Take(s, c) ==
    /\ socket[s] \in {"open", "left"} /\ Subscribed(s, c)
    /\ sending[s, c] = <<>> /\ queue[s, c] # <<>>
    /\ sending' = [sending EXCEPT ![<<s, c>>] = <<Head(queue[s, c])>>]
    /\ queue' = [queue EXCEPT ![<<s, c>>] = Tail(@)]
    /\ UNCHANGED <<channel, socket, shown, due, event>>

\* ... and send_json.  A client that has left is noticed here only, and the end of
\* one task ends the wait for both.
Forward(s, c) ==
    /\ sending[s, c] # <<>>
    /\ \/ /\ socket[s] = "open"
          /\ shown' = [shown EXCEPT ![<<s, c>>] = @ \o sending[s, c]]
          /\ sending' = [sending EXCEPT ![<<s, c>>] = <<>>]
          /\ UNCHANGED socket
       \/ /\ socket[s] \in {"open", "left"}
          /\ socket' = [socket EXCEPT ![s] = "closing"]
          /\ UNCHANGED <<shown, sending>>
    /\ UNCHANGED <<channel, queue, due, event>>

Leave(s) ==
    /\ socket[s] = "open"
    /\ socket' = [socket EXCEPT ![s] = "left"]
    /\ UNCHANGED <<channel, queue, sending, shown, due, event>>

\* Fault: the channel goes with its first subscriber.
Remaining_Popped(s, c) == {}

Remaining(s, c) == channel[c] \ {s}

\* A task ends or is cancelled: the generator's finally, perhaps after the socket
\* is closed.
Unsubscribe(s, c) ==
    /\ socket[s] \in {"closing", "closed"} /\ Subscribed(s, c)
    /\ channel' = [channel EXCEPT ![c] = Remaining(s, c)]
    /\ UNCHANGED <<queue, socket, sending, shown, due, event>>

\* The handler asks its tasks to stop and returns; it does not wait for them.
Close(s) ==
    /\ socket[s] = "closing"
    /\ socket' = [socket EXCEPT ![s] = "closed"]
    /\ UNCHANGED <<channel, queue, sending, shown, due, event>>

Next ==
    \/ \E c \in Channels : Send(c)
    \/ \E s \in Sockets :
           \/ Accept(s) \/ Leave(s) \/ Close(s)
           \/ \E c \in Channels :
                  Subscribe(s, c) \/ Take(s, c) \/ Forward(s, c) \/ Unsubscribe(s, c)

Spec == Init /\ [][Next]_vars

-----------------------------------------------------------------------------
(* Properties *)

\* Whatever other sockets subscribe, leave or lag, a socket that is open has been
\* shown a beginning of what was due on each of its channels, the rest of it waits
\* in order in its own queue, and a task to which something was due still listens.
\* What finds the queue full is dropped and was not due (websocket.py: subscribe,
\* broadcast).
SubscribersTold ==
    \A s \in Sockets, c \in Channels :
        socket[s] \in {"open", "left"} =>
            /\ shown[s, c] \o sending[s, c] \o queue[s, c] = due[s, c]
            /\ due[s, c] # <<>> => Subscribed(s, c)

=============================================================================
