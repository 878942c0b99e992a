----------------------------- MODULE LogStream -----------------------------
(***************************************************************************)
(* Request events on their way to the analytics stream and to the live     *)
(* logs.  Track starts a goroutine per event, which adds it to a Redis     *)
(* stream and then publishes it on the user's channel, within a timeout.   *)
(* StreamLogs subscribes to that channel and writes what it receives to    *)
(* its client, until a write fails.                                        *)
(*                                                                         *)
(* An event is its number; only its user is of interest.  Redis and the    *)
(* go-redis client are external: a command may be executed and its reply   *)
(* lost, and is then sent again; a message may be lost on its way to a     *)
(* subscription (a reconnect, a full buffer).  The trimming of the stream  *)
(* at about maxStreamLen entries is left out.                              *)
(***************************************************************************)
EXTENDS Naturals, SequencesExt

CONSTANTS
    User,
    Client,      \* connections to /v1/logs
    MaxEvents,   \* bound: events tracked
    MaxBuffer,   \* capacity of a subscription's channel
    None         \* the user of a client that has not connected

ASSUME BoundsAssumption == MaxEvents \in Nat /\ MaxBuffer \in Nat \ {0}
ASSUME NoneAssumption == None \notin User

VARIABLES
    events,      \* event number -> its user
    stage,       \* event number -> where its goroutine is: "xadd", "publish", "done"
    resent,      \* events of which go-redis sent a command again (bound: once each)
    stored,      \* (history) the events veil:analytics has, once or twice
    published,   \* (history) the messages Redis took, on all channels
    redis,       \* "up", or "down": commands hang
    user,        \* client -> the user it authenticated as
    conn,        \* client -> "new", "open", "gone"
    subscribed,  \* clients whose handler is in its loop
    since,       \* (history) client -> messages published before it subscribed
    buffer,      \* client -> messages received and not yet written
    seen         \* client -> what it was sent

trackVars == <<events, stage, resent, stored>>
clientVars == <<user, conn, subscribed, since, buffer, seen>>
vars == <<events, stage, resent, stored, published, redis,
          user, conn, subscribed, since, buffer, seen>>

Init ==
    /\ events = <<>> /\ stage = <<>> /\ resent = {}
    /\ stored = {} /\ published = <<>>
    /\ redis = "up"
    /\ user = [c \in Client |-> None]
    /\ conn = [c \in Client |-> "new"]
    /\ subscribed = {}
    /\ since = [c \in Client |-> 0]
    /\ buffer = [c \in Client |-> <<>>]
    /\ seen = [c \in Client |-> <<>>]

-----------------------------------------------------------------------------
(* The tracker. *)

Event == DOMAIN events

(* A request of u ends: go publish(event).  Nobody waits for it. *)
Track(u) ==
    /\ Len(events) < MaxEvents
    /\ events' = Append(events, u)
    /\ stage' = Append(stage, "xadd")
    /\ UNCHANGED <<resent, stored, published, redis, clientVars>>

(* A command was executed: its reply arrives and the goroutine goes on, or *)
(* the reply is lost, and go-redis sends the command again or gives up.    *)
Executed(e, next) ==
    \/ stage' = [stage EXCEPT ![e] = next] /\ UNCHANGED resent
    \/ stage' = [stage EXCEPT ![e] = "done"] /\ UNCHANGED resent
    \/ e \notin resent /\ resent' = resent \cup {e} /\ UNCHANGED stage

XAdd(e) ==
    /\ redis = "up" /\ stage[e] = "xadd"
    /\ stored' = stored \cup {e}
    /\ Executed(e, "publish")
    /\ UNCHANGED <<events, published, redis, clientVars>>

(* Mutant of Listeners: a full buffer grows. *)
ListenersUnbounded(u) == {c \in subscribed : user[c] = u}

(* The subscriptions a message on u's channel can reach. *)
Listeners(u) == {c \in subscribed : user[c] = u /\ Len(buffer[c]) < MaxBuffer}

Publish(e) ==
    /\ redis = "up" /\ stage[e] = "publish"
    /\ published' = Append(published, e)
    /\ \E reached \in SUBSET Listeners(events[e]) :
          buffer' = [c \in Client |-> IF c \in reached THEN Append(buffer[c], e) ELSE buffer[c]]
    /\ Executed(e, "done")
    /\ UNCHANGED <<events, stored, redis, user, conn, subscribed, since, seen>>

(* Mutants of Timeout: only the first command has a timeout; a failed XADD  *)
(* is logged and the event published all the same.                          *)
TimeoutXAdd(e) ==
    /\ stage[e] = "xadd"
    /\ stage' = [stage EXCEPT ![e] = "done"]
    /\ UNCHANGED <<events, resent, stored, published, redis, clientVars>>

TimeoutGoesOn(e) ==
    /\ stage[e] # "done"
    /\ stage' = [stage EXCEPT ![e] = IF @ = "xadd" THEN "publish" ELSE "done"]
    /\ UNCHANGED <<events, resent, stored, published, redis, clientVars>>

(* A command failed, and the rest is not attempted.  One that hangs fails by *)
(* go-redis's read timeout, since its sockets are not given the context's    *)
(* deadline; the context's 3 seconds end the retries.                        *)
Timeout(e) ==
    /\ stage[e] # "done"
    /\ stage' = [stage EXCEPT ![e] = "done"]
    /\ UNCHANGED <<events, resent, stored, published, redis, clientVars>>

-----------------------------------------------------------------------------
(* StreamLogs. *)

(* The middleware has found u; the subscription takes effect. *)
Subscribe(c, u) ==
    /\ redis = "up" /\ conn[c] = "new"
    /\ user' = [user EXCEPT ![c] = u]
    /\ conn' = [conn EXCEPT ![c] = "open"]
    /\ subscribed' = subscribed \cup {c}
    /\ since' = [since EXCEPT ![c] = Len(published)]
    /\ UNCHANGED <<trackVars, published, redis, buffer, seen>>

(* Mutant of Write: the latest message first. *)
WriteLast(c) ==
    /\ c \in subscribed /\ buffer[c] # <<>>
    /\ buffer' = [buffer EXCEPT ![c] = Front(@)]
    /\ IF conn[c] = "open"
       THEN seen' = [seen EXCEPT ![c] = Append(@, Last(buffer[c]))] /\ UNCHANGED subscribed
       ELSE subscribed' \in {subscribed, subscribed \ {c}} /\ UNCHANGED seen
    /\ UNCHANGED <<trackVars, published, redis, user, conn, since>>

(* Write and flush a message.  After the client is gone they may succeed   *)
(* still, as fasthttp has the socket; the first that fails ends the handler *)
(* and closes the subscription.                                            *)
Write(c) ==
    /\ c \in subscribed /\ buffer[c] # <<>>
    /\ buffer' = [buffer EXCEPT ![c] = Tail(@)]
    /\ IF conn[c] = "open"
       THEN seen' = [seen EXCEPT ![c] = Append(@, Head(buffer[c]))] /\ UNCHANGED subscribed
       ELSE subscribed' \in {subscribed, subscribed \ {c}} /\ UNCHANGED seen
    /\ UNCHANGED <<trackVars, published, redis, user, conn, since>>

(* The client leaves, or the server's write timeout ends the response.  The *)
(* handler is not told.                                                     *)
Disconnect(c) ==
    /\ conn[c] = "open"
    /\ conn' = [conn EXCEPT ![c] = "gone"]
    /\ UNCHANGED <<trackVars, published, redis, user, subscribed, since, buffer, seen>>

(* A process exits: its goroutines E and its handlers C with it. *)
Kill(E, C) ==
    /\ stage' = [e \in Event |-> IF e \in E THEN "done" ELSE stage[e]]
    /\ conn' = [c \in Client |-> IF c \in C /\ conn[c] = "open" THEN "gone" ELSE conn[c]]
    /\ subscribed' = subscribed \ C
    /\ buffer' = [c \in Client |-> IF c \in C THEN <<>> ELSE buffer[c]]
    /\ UNCHANGED <<events, resent, stored, published, redis, user, since, seen>>

RedisDown ==
    /\ redis = "up" /\ redis' = "down"
    /\ UNCHANGED <<trackVars, published, clientVars>>

RedisUp ==
    /\ redis = "down" /\ redis' = "up"
    /\ UNCHANGED <<trackVars, published, clientVars>>

Next ==
    \/ \E u \in User : Track(u)
    \/ \E e \in Event : XAdd(e) \/ Publish(e) \/ Timeout(e)
    \/ \E c \in Client : Write(c) \/ Disconnect(c) \/ \E u \in User : Subscribe(c, u)
    \/ \E E \in SUBSET Event, C \in SUBSET Client : Kill(E, C)
    \/ RedisDown \/ RedisUp

Spec == Init /\ [][Next]_vars

(* The runtime keeps go-redis's timeouts and the context's deadline, and      *)
(* handlers are scheduled.  Redis and the clients owe nothing.                *)
FairSpec ==
    /\ Spec
    /\ \A e \in 1 .. MaxEvents : WF_vars(e \in Event /\ Timeout(e))
    /\ \A c \in Client : WF_vars(Write(c))

-----------------------------------------------------------------------------
TypeOK ==
    /\ events \in Seq(User) /\ Len(events) <= MaxEvents
    /\ Len(stage) = Len(events) /\ ToSet(stage) \subseteq {"xadd", "publish", "done"}
    /\ resent \subseteq Event
    /\ stored \cup ToSet(published) \subseteq Event
    /\ redis \in {"up", "down"}
    /\ user \in [Client -> User \cup {None}]
    /\ conn \in [Client -> {"new", "open", "gone"}]
    /\ \A c \in Client : conn[c] = "new" => c \notin subscribed
    /\ \A c \in Client : Len(buffer[c]) <= MaxBuffer /\ ToSet(buffer[c] \o seen[c]) \subseteq Event

(* s holds members of t after its first n, each once and in their order. *)
PickedFrom(s, t, n) ==
    \E pos \in [DOMAIN s -> n + 1 .. Len(t)] :
        /\ \A i \in DOMAIN s : s[i] = t[pos[i]]
        /\ \A i, j \in DOMAIN s : i < j => pos[i] < pos[j]

(* What a client was sent, and what its handler is about to write. *)
LogOf(c) == seen[c] \o (IF c \in subscribed THEN buffer[c] ELSE <<>>)

(***************************************************************************)
(* A line of the live logs is about an event of the client's own user that *)
(* the analytics stream has: the log never shows what analytics missed,    *)
(* whichever command failed or was sent twice.                             *)
(***************************************************************************)
LogIsRecorded ==
    \A c \in Client : \A e \in ToSet(seen[c]) : events[e] = user[c] /\ e \in stored

(***************************************************************************)
(* A client may miss messages, but those it gets come in the order of      *)
(* their publication, and no more often than they were published since it  *)
(* subscribed.  (The order of the analytics stream may be another, as the  *)
(* goroutines are independent.)                                            *)
(***************************************************************************)
InPublishOrder == \A c \in Client : PickedFrom(LogOf(c), published, since[c])

(***************************************************************************)
(* The goroutine of every event ends, also when Redis hangs for good: they *)
(* do not pile up behind it.                                               *)
(***************************************************************************)
GoroutinesEnd == \A e \in 1 .. MaxEvents : e \in Event ~> e \in Event /\ stage[e] = "done"
=============================================================================
