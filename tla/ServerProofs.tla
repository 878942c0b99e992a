---------------------------- MODULE ServerProofs ----------------------------
(***************************************************************************)
(* Proofs about LogStream, for any users, clients, events and buffers: its *)
(* types, that the live logs show what the analytics stream has, in the    *)
(* order of publication.  An event that is to be published has been        *)
(* stored, and what is published goes to its user's clients only.  And     *)
(* about Server, for any processes and migrations: which process may touch *)
(* the schema and what it finds there, and that the live logs of all       *)
(* processes together are those of LogStream.                              *)
(***************************************************************************)
EXTENDS Server, SequenceTheorems, TLAPS

(* An event to be published is in the stream. *)
StoredFirst ==
    /\ events \in Seq(User) /\ Len(events) <= MaxEvents
    /\ stage \in Seq({"xadd", "publish", "done"}) /\ Len(stage) = Len(events)
    /\ resent \subseteq Event
    /\ stored \subseteq Event
    /\ \A e \in Event : stage[e] = "publish" => e \in stored
    /\ published \in Seq(Nat) /\ \A i \in 1 .. Len(published) : published[i] \in Event
    /\ redis \in {"up", "down"}

Clients ==
    /\ user \in [Client -> User \cup {None}]
    /\ conn \in [Client -> {"new", "open", "gone"}]
    /\ subscribed \subseteq Client
    /\ buffer \in [Client -> Seq(Nat)] /\ seen \in [Client -> Seq(Nat)]
    /\ \A c \in Client : Len(buffer[c]) <= MaxBuffer
    /\ \A c \in Client : conn[c] = "new" => c \notin subscribed /\ buffer[c] = <<>> /\ seen[c] = <<>>

(* What a client has, or is about to get, is its user's, and is stored. *)
Own(c, e) == e \in stored /\ events[e] = user[c]

OwnOnly ==
    \A c \in Client :
        /\ \A i \in 1 .. Len(buffer[c]) : Own(c, buffer[c][i])
        /\ \A i \in 1 .. Len(seen[c]) : Own(c, seen[c][i])

Inv == StoredFirst /\ Clients /\ OwnOnly

-----------------------------------------------------------------------------
LEMMA InitInv == Init => Inv
<1> SUFFICES ASSUME Init PROVE Inv
  OBVIOUS
<1>1. /\ <<>> \in Seq(User) /\ <<>> \in Seq({"xadd", "publish", "done"}) /\ <<>> \in Seq(Nat)
      /\ Len(<<>>) = 0
  OBVIOUS
<1>2. StoredFirst
  BY <1>1, BoundsAssumption DEF Init, StoredFirst, Event
<1>3. Clients
  BY <1>1, BoundsAssumption DEF Init, Clients
<1>4. OwnOnly
  BY <1>1 DEF Init, OwnOnly
<1> QED
  BY <1>2, <1>3, <1>4 DEF Inv

(* A goroutine that goes on to p. *)
LEMMA StageStep ==
    ASSUME StoredFirst, NEW e \in Event, NEW p \in {"xadd", "publish", "done"},
           stage' = [stage EXCEPT ![e] = p]
    PROVE  /\ stage' \in Seq({"xadd", "publish", "done"}) /\ Len(stage') = Len(stage)
           /\ \A f \in Event : stage'[f] = IF f = e THEN p ELSE stage[f]
BY DEF StoredFirst, Event

(* The goroutines and the channels. *)
LEMMA StoredFirstStep == StoredFirst /\ [Next]_vars => StoredFirst'
<1> SUFFICES ASSUME StoredFirst, [Next]_vars PROVE StoredFirst'
  OBVIOUS
<1> USE DEF StoredFirst, Event, trackVars, clientVars
<1>1. ASSUME NEW u \in User, Track(u) PROVE StoredFirst'
  <2>1. /\ events' \in Seq(User) /\ Len(events') = Len(events) + 1
        /\ stage' \in Seq({"xadd", "publish", "done"}) /\ Len(stage') = Len(stage) + 1
        /\ \A e \in 1 .. Len(stage) : stage'[e] = stage[e]
        /\ stage'[Len(stage) + 1] = "xadd"
        /\ Len(events') <= MaxEvents
    BY <1>1, BoundsAssumption DEF Track
  <2> QED
    BY <1>1, <2>1 DEF Track
<1>2. ASSUME NEW e \in Event, XAdd(e) PROVE StoredFirst'
  <2>1. /\ stage' \in Seq({"xadd", "publish", "done"}) /\ Len(stage') = Len(stage)
        /\ \A f \in Event : stage'[f] = "publish" => f = e \/ stage[f] = "publish"
    <3>1. stage' = stage \/ stage' = [stage EXCEPT ![e] = "publish"] \/ stage' = [stage EXCEPT ![e] = "done"]
      BY <1>2 DEF XAdd, Executed
    <3>2. StoredFirst
      OBVIOUS
    <3> HIDE DEF StoredFirst
    <3>3. stage \in Seq({"xadd", "publish", "done"})
      BY <3>2 DEF StoredFirst
    <3> QED
      BY <3>1, <3>2, <3>3, StageStep
  <2>2. resent' \subseteq Event
    BY <1>2 DEF XAdd, Executed
  <2> QED
    BY <1>2, <2>1, <2>2 DEF XAdd
<1>3. ASSUME NEW e \in Event, Publish(e) PROVE StoredFirst'
  <2>1. /\ published' \in Seq(Nat) /\ Len(published') = Len(published) + 1
        /\ \A i \in 1 .. Len(published) : published'[i] = published[i]
        /\ published'[Len(published) + 1] = e
    BY <1>3 DEF Publish
  <2>2. \A i \in 1 .. Len(published') : published'[i] \in Event'
    BY <1>3, <2>1 DEF Publish
  <2>3. /\ stage' \in Seq({"xadd", "publish", "done"}) /\ Len(stage') = Len(stage)
        /\ \A f \in Event : stage'[f] = "publish" => stage[f] = "publish"
    <3>1. stage' = stage \/ stage' = [stage EXCEPT ![e] = "done"]
      BY <1>3 DEF Publish, Executed
    <3>2. StoredFirst
      OBVIOUS
    <3> HIDE DEF StoredFirst
    <3>3. stage \in Seq({"xadd", "publish", "done"})
      BY <3>2 DEF StoredFirst
    <3> QED
      BY <3>1, <3>2, <3>3, StageStep
  <2>4. resent' \subseteq Event
    BY <1>3 DEF Publish, Executed
  <2> QED
    BY <1>3, <2>1, <2>2, <2>3, <2>4 DEF Publish
<1>4. ASSUME NEW e \in Event, Timeout(e) PROVE StoredFirst'
  BY <1>4 DEF Timeout
<1>5. ASSUME NEW E, NEW C, Kill(E, C) PROVE StoredFirst'
  <2>1. /\ stage' \in Seq({"xadd", "publish", "done"}) /\ Len(stage') = Len(events)
        /\ \A e \in Event : stage'[e] \in {stage[e], "done"}
    BY <1>5 DEF Kill
  <2> QED
    BY <1>5, <2>1 DEF Kill
<1>6. CASE UNCHANGED <<trackVars, published>>
  <2>1. redis' \in {"up", "down"}
    BY <1>6 DEF Next, Track, XAdd, Publish, Timeout, Write, Disconnect, Subscribe, Kill, RedisDown, RedisUp, vars
  <2> QED
    BY <1>6, <2>1
<1> QED
  BY <1>1, <1>2, <1>3, <1>4, <1>5, <1>6
  DEF Next, Write, Disconnect, Subscribe, RedisDown, RedisUp, vars

(* The clients and their buffers. *)
LEMMA ClientsStep == StoredFirst /\ Clients /\ [Next]_vars => Clients'
<1> SUFFICES ASSUME StoredFirst, Clients, [Next]_vars PROVE Clients'
  OBVIOUS
<1> USE BoundsAssumption DEF Clients, clientVars
<1>1. ASSUME NEW e \in Event, Publish(e) PROVE Clients'
  <2>1. e \in Nat
    BY DEF StoredFirst, Event
  <2>2. PICK reached \in SUBSET Listeners(events[e]) :
          buffer' = [c \in Client |-> IF c \in reached THEN Append(buffer[c], e) ELSE buffer[c]]
    BY <1>1 DEF Publish
  <2>3. \A c \in Client : Append(buffer[c], e) \in Seq(Nat) /\ Len(Append(buffer[c], e)) = Len(buffer[c]) + 1
    BY <2>1
  <2>4. \A c \in reached : c \in subscribed /\ Len(buffer[c]) < MaxBuffer
    BY DEF Listeners
  <2>5. \A c \in Client : Len(buffer'[c]) <= MaxBuffer
    BY <2>2, <2>3, <2>4
  <2> QED
    BY <1>1, <2>2, <2>3, <2>4, <2>5 DEF Publish
<1>2. ASSUME NEW c \in Client, Write(c) PROVE Clients'
  <2>1. /\ Tail(buffer[c]) \in Seq(Nat) /\ Len(Tail(buffer[c])) <= Len(buffer[c])
        /\ Head(buffer[c]) \in Nat /\ Append(seen[c], Head(buffer[c])) \in Seq(Nat)
    BY <1>2 DEF Write
  <2>2. /\ buffer' = [buffer EXCEPT ![c] = Tail(buffer[c])]
        /\ seen' = seen \/ seen' = [seen EXCEPT ![c] = Append(seen[c], Head(buffer[c]))]
        /\ subscribed' \subseteq subscribed
        /\ c \in subscribed
        /\ UNCHANGED <<user, conn>>
    BY <1>2 DEF Write
  <2>3. buffer' \in [Client -> Seq(Nat)] /\ seen' \in [Client -> Seq(Nat)]
    BY <2>1, <2>2
  <2>4. \A d \in Client : Len(buffer'[d]) <= MaxBuffer
    <3>1. Len(buffer[c]) \in Nat /\ Len(Tail(buffer[c])) \in Nat
      BY <2>1
    <3> QED
      BY <2>1, <2>2, <3>1
  <2>5. \A d \in Client : conn'[d] = "new" => d \notin subscribed' /\ buffer'[d] = <<>> /\ seen'[d] = <<>>
    BY <2>2
  <2> QED
    BY <2>2, <2>3, <2>4, <2>5
<1>3. ASSUME NEW c \in Client, NEW u \in User, Subscribe(c, u) PROVE Clients'
  BY <1>3 DEF Subscribe
<1>4. ASSUME NEW c \in Client, Disconnect(c) PROVE Clients'
  BY <1>4 DEF Disconnect
<1>5. ASSUME NEW E, NEW C, Kill(E, C) PROVE Clients'
  <2>1. <<>> \in Seq(Nat) /\ Len(<<>>) = 0
    OBVIOUS
  <2> QED
    BY <1>5, <2>1 DEF Kill
<1>6. CASE UNCHANGED clientVars
  BY <1>6
<1> QED
  BY <1>1, <1>2, <1>3, <1>4, <1>5, <1>6
  DEF Next, Track, XAdd, Timeout, RedisDown, RedisUp, vars

(* Nothing reaches a client that is not its own. *)
LEMMA OwnOnlyStep == Inv /\ [Next]_vars => OwnOnly'
<1> SUFFICES ASSUME Inv, [Next]_vars PROVE OwnOnly'
  OBVIOUS
<1> USE DEF Inv, OwnOnly, Own
<1>a. \A e \in stored : e \in 1 .. Len(events)
  BY DEF StoredFirst, Event
<1>1. ASSUME NEW u \in User, Track(u) PROVE OwnOnly'
  <2>1. \A e \in stored : events'[e] = events[e]
    BY <1>1, <1>a DEF Track, StoredFirst
  <2> QED
    BY <1>1, <2>1 DEF Track, clientVars
<1>2. ASSUME NEW e \in Event, XAdd(e) PROVE OwnOnly'
  BY <1>2 DEF XAdd, clientVars
<1>3. ASSUME NEW e \in Event, Publish(e) PROVE OwnOnly'
  <2>1. PICK reached \in SUBSET Listeners(events[e]) :
          buffer' = [c \in Client |-> IF c \in reached THEN Append(buffer[c], e) ELSE buffer[c]]
    BY <1>3 DEF Publish
  <2>2. e \in stored /\ UNCHANGED <<stored, events, user, seen>>
    BY <1>3 DEF Publish, StoredFirst
  <2>3. ASSUME NEW c \in Client, NEW i \in 1 .. Len(buffer'[c])
        PROVE  Own(c, buffer'[c][i])
    <3>1. CASE c \in reached
      <4>1. buffer'[c] = Append(buffer[c], e) /\ user[c] = events[e] /\ buffer[c] \in Seq(Nat) /\ e \in Nat
        BY <2>1, <3>1 DEF Listeners, Clients, StoredFirst, Event
      <4>2. \/ buffer'[c][i] = e
            \/ i \in 1 .. Len(buffer[c]) /\ buffer'[c][i] = buffer[c][i]
        BY <4>1
      <4> QED
        BY <2>2, <4>1, <4>2
    <3>2. CASE c \notin reached
      BY <2>1, <3>2
    <3> QED
      BY <3>1, <3>2
  <2> QED
    BY <2>2, <2>3
<1>4. ASSUME NEW c \in Client, Write(c) PROVE OwnOnly'
  <2>1. /\ buffer[c] \in Seq(Nat) /\ buffer[c] # <<>> /\ seen[c] \in Seq(Nat)
        /\ buffer' = [buffer EXCEPT ![c] = Tail(@)]
        /\ UNCHANGED <<stored, events, user>>
    BY <1>4 DEF Write, Clients, trackVars
  <2>2. /\ Head(buffer[c]) = buffer[c][1] /\ Len(buffer[c]) >= 1
        /\ Len(Tail(buffer[c])) = Len(buffer[c]) - 1
        /\ \A i \in 1 .. Len(Tail(buffer[c])) : Tail(buffer[c])[i] = buffer[c][i + 1]
    BY <2>1
  <2>3. Own(c, Head(buffer[c])) /\ \A i \in 1 .. Len(Tail(buffer[c])) : Own(c, Tail(buffer[c])[i])
    BY <2>1, <2>2
  <2>4. \A d \in Client : \A i \in 1 .. Len(buffer'[d]) : Own(d, buffer'[d][i])
    BY <2>1, <2>3 DEF Clients
  <2>5. \A d \in Client : \A i \in 1 .. Len(seen'[d]) : Own(d, seen'[d][i])
    <3>1. CASE UNCHANGED seen
      BY <3>1
    <3>2. CASE seen' = [seen EXCEPT ![c] = Append(@, Head(buffer[c]))]
      <4>1. seen'[c] = Append(seen[c], Head(buffer[c])) /\ \A d \in Client \ {c} : seen'[d] = seen[d]
        BY <3>2 DEF Clients
      <4>2. \A i \in 1 .. Len(seen'[c]) :
                \/ seen'[c][i] = Head(buffer[c])
                \/ i \in 1 .. Len(seen[c]) /\ seen'[c][i] = seen[c][i]
        BY <2>1, <2>2, <4>1
      <4>3. \A i \in 1 .. Len(seen'[c]) : Own(c, seen'[c][i])
        BY <2>3, <4>2
      <4>4. ASSUME NEW d \in Client, d # c PROVE \A i \in 1 .. Len(seen'[d]) : Own(d, seen'[d][i])
        <5>1. seen'[d] = seen[d]
          BY <4>1, <4>4
        <5>2. \A i \in 1 .. Len(seen[d]) : Own(d, seen[d][i])
          BY DEF Inv, OwnOnly
        <5> QED
          BY <5>1, <5>2
      <4> HIDE DEF Own
      <4> QED
        BY <4>3, <4>4
    <3> QED
      BY <1>4, <3>1, <3>2 DEF Write
  <2> QED
    BY <2>1, <2>4, <2>5
<1>5. ASSUME NEW c \in Client, NEW u \in User, Subscribe(c, u) PROVE OwnOnly'
  <2>1. buffer[c] = <<>> /\ seen[c] = <<>> /\ Len(<<>>) = 0
    BY <1>5 DEF Subscribe, Clients
  <2>2. UNCHANGED <<stored, events, buffer, seen>> /\ \A d \in Client \ {c} : user'[d] = user[d]
    BY <1>5 DEF Subscribe, Clients, trackVars
  <2>3. ASSUME NEW d \in Client
        PROVE  /\ \A i \in 1 .. Len(buffer[d]) : Own(d, buffer[d][i])'
               /\ \A i \in 1 .. Len(seen[d]) : Own(d, seen[d][i])'
    <3>1. CASE d = c
      BY <2>1, <3>1
    <3>2. CASE d # c
      BY <2>2, <3>2
    <3> QED
      BY <3>1, <3>2
  <2> QED
    BY <2>2, <2>3
<1>6. ASSUME NEW E, NEW C, Kill(E, C) PROVE OwnOnly'
  <2>1. Len(<<>>) = 0
    OBVIOUS
  <2> QED
    BY <1>6, <2>1 DEF Kill
<1>7. CASE UNCHANGED <<events, stored, user, buffer, seen>>
  BY <1>7
<1> QED
  BY <1>1, <1>2, <1>3, <1>4, <1>5, <1>6, <1>7
  DEF Next, Timeout, Disconnect, RedisDown, RedisUp, trackVars, clientVars, vars

LEMMA InvStep == Inv /\ [Next]_vars => Inv'
BY StoredFirstStep, ClientsStep, OwnOnlyStep DEF Inv

LEMMA LogInvariant == Spec => []Inv
BY InitInv, InvStep, PTL DEF Spec

-----------------------------------------------------------------------------
(* What is in two sequences together is in one of them. *)
LEMMA InConcat ==
    ASSUME NEW S, NEW s \in Seq(S), NEW t \in Seq(S)
    PROVE  ToSet(s \o t) \subseteq ToSet(s) \cup ToSet(t)
<1> DEFINE n == Len(s)
           m == Len(t)
           both == s \o t
<1>1. /\ n \in Nat /\ DOMAIN s = 1 .. n
      /\ m \in Nat /\ DOMAIN t = 1 .. m
  OBVIOUS
<1>2. DOMAIN both = 1 .. n + m
  BY ConcatProperties
<1>3. \A i \in 1 .. n + m : both[i] = IF i <= n THEN s[i] ELSE t[i - n]
  BY ConcatProperties
<1> HIDE DEF n, m, both
<1>4. ASSUME NEW i \in 1 .. n + m PROVE i \in 1 .. n \/ (i > n /\ i - n \in 1 .. m)
  BY <1>1
<1>5. ASSUME NEW i \in 1 .. n + m PROVE both[i] \in ToSet(s) \cup ToSet(t)
  <2>1. CASE i \in 1 .. n
    <3>1. both[i] = s[i]
      BY <1>1, <1>3, <2>1
    <3> QED
      BY <1>1, <2>1, <3>1 DEF ToSet
  <2>2. CASE i > n /\ i - n \in 1 .. m
    <3>1. both[i] = t[i - n]
      BY <1>1, <1>3, <2>2
    <3> QED
      BY <1>1, <2>2, <3>1 DEF ToSet
  <2> QED
    BY <1>4, <2>1, <2>2
<1> QED
  BY <1>2, <1>5 DEF ToSet, both

(* The invariant says more than the types. *)
LEMMA InvTypes == Inv => TypeOK
<1> SUFFICES ASSUME Inv PROVE TypeOK
  OBVIOUS
<1> USE DEF Inv
<1>1. ToSet(stage) \subseteq {"xadd", "publish", "done"} /\ ToSet(published) \subseteq Event
  BY DEF StoredFirst, ToSet
<1>2. ASSUME NEW c \in Client PROVE ToSet(buffer[c] \o seen[c]) \subseteq Event
  <2>1. buffer[c] \in Seq(Nat) /\ seen[c] \in Seq(Nat)
    BY DEF Clients
  <2>2. ToSet(buffer[c]) \subseteq stored /\ ToSet(seen[c]) \subseteq stored
    BY <2>1 DEF ToSet, OwnOnly, Own
  <2>3. ToSet(buffer[c] \o seen[c]) \subseteq stored
    BY <2>1, <2>2, InConcat
  <2> QED
    BY <2>3 DEF StoredFirst
<1> QED
  BY <1>1, <1>2 DEF TypeOK, StoredFirst, Clients

LEMMA InvLogs == Inv => LogIsRecorded
<1> SUFFICES ASSUME Inv, NEW c \in Client, NEW e \in ToSet(seen[c])
             PROVE  events[e] = user[c] /\ e \in stored
  BY DEF LogIsRecorded
<1>1. seen[c] \in Seq(Nat)
  BY DEF Inv, Clients
<1>2. PICK i \in 1 .. Len(seen[c]) : e = seen[c][i]
  BY <1>1 DEF ToSet
<1> QED
  BY <1>2 DEF Inv, OwnOnly, Own

(* The live logs show a user's own events, and only those that analytics   *)
(* has, whatever commands fail, hang or are sent twice.                    *)
THEOREM LogsAreRecorded == Spec => []LogIsRecorded
BY LogInvariant, InvLogs, PTL

-----------------------------------------------------------------------------
(* What is picked from a sequence. *)
LEMMA PickEmpty == ASSUME NEW t, NEW n PROVE PickedFrom(<<>>, t, n)
<1>1. DOMAIN <<>> = {} /\ <<>> \in [{} -> n + 1 .. Len(t)]
  OBVIOUS
<1> QED
  BY <1>1 DEF PickedFrom

LEMMA PickFromMore ==
    ASSUME NEW s \in Seq(Nat), NEW t \in Seq(Nat), NEW n \in Nat, NEW x \in Nat, PickedFrom(s, t, n)
    PROVE  PickedFrom(s, Append(t, x), n)
<1>1. PICK pos \in [DOMAIN s -> n + 1 .. Len(t)] :
        /\ \A i \in DOMAIN s : s[i] = t[pos[i]]
        /\ \A i, j \in DOMAIN s : i < j => pos[i] < pos[j]
  BY DEF PickedFrom
<1> DEFINE more == Append(t, x)
<1>2. Len(more) = Len(t) + 1 /\ \A k \in 1 .. Len(t) : more[k] = t[k]
  OBVIOUS
<1>3. \A i \in DOMAIN s : pos[i] \in 1 .. Len(t) /\ pos[i] \in n + 1 .. Len(more)
  BY <1>2
<1> HIDE DEF more
<1>4. pos \in [DOMAIN s -> n + 1 .. Len(more)]
  BY <1>3
<1>5. \A i \in DOMAIN s : s[i] = more[pos[i]]
  BY <1>1, <1>2, <1>3, Zenon
<1>6. PickedFrom(s, more, n)
  BY <1>1, <1>4, <1>5, Zenon DEF PickedFrom
<1> QED
  BY <1>6 DEF more

LEMMA PickOneMore ==
    ASSUME NEW s \in Seq(Nat), NEW t \in Seq(Nat), NEW n \in Nat, NEW x \in Nat,
           n <= Len(t), PickedFrom(s, t, n)
    PROVE  PickedFrom(Append(s, x), Append(t, x), n)
<1>1. PICK pos \in [DOMAIN s -> n + 1 .. Len(t)] :
        /\ \A i \in DOMAIN s : s[i] = t[pos[i]]
        /\ \A i, j \in DOMAIN s : i < j => pos[i] < pos[j]
  BY DEF PickedFrom
<1> DEFINE m == Len(s)
           more == Append(t, x)
           longer == Append(s, x)
           all == [i \in 1 .. m + 1 |-> IF i = m + 1 THEN Len(more) ELSE pos[i]]
<1>2. /\ Len(more) = Len(t) + 1 /\ more[Len(t) + 1] = x
      /\ \A k \in 1 .. Len(t) : more[k] = t[k]
  OBVIOUS
<1>3. /\ DOMAIN longer = 1 .. m + 1 /\ longer[m + 1] = x
      /\ \A k \in 1 .. m : longer[k] = s[k]
  OBVIOUS
<1>4. m \in Nat /\ DOMAIN s = 1 .. m /\ Len(t) \in Nat
  OBVIOUS
<1>5. \A i \in 1 .. m : pos[i] \in n + 1 .. Len(t)
  BY <1>4
<1> HIDE DEF m, more, longer
<1>6. all[m + 1] = Len(more) /\ \A i \in 1 .. m : all[i] = pos[i] /\ all[i] \in n + 1 .. Len(t)
  BY <1>4, <1>5
<1>7. all \in [1 .. m + 1 -> n + 1 .. Len(more)]
  BY <1>2, <1>4, <1>5
<1> HIDE DEF all
<1>8. ASSUME NEW i \in 1 .. m + 1 PROVE longer[i] = more[all[i]]
  <2>1. CASE i = m + 1
    BY <1>2, <1>3, <1>6, <2>1
  <2>2. CASE i \in 1 .. m
    <3>1. all[i] = pos[i] /\ pos[i] \in 1 .. Len(t)
      BY <1>5, <1>6, <2>2
    <3> QED
      BY <1>1, <1>2, <1>3, <1>4, <2>2, <3>1, Zenon
  <2> QED
    BY <1>4, <2>1, <2>2
<1>9. ASSUME NEW i \in 1 .. m + 1, NEW j \in 1 .. m + 1, i < j PROVE all[i] < all[j]
  <2>1. i \in 1 .. m
    BY <1>4, <1>9
  <2>0. all[i] \in n + 1 .. Len(t)
    BY <1>6, <2>1, Zenon
  <2>2. CASE j = m + 1
    <3>1. all[j] = Len(t) + 1
      BY <1>2, <1>6, <2>2
    <3> QED
      BY <1>4, <2>0, <3>1
  <2>3. CASE j \in 1 .. m
    BY <1>1, <1>4, <1>6, <1>9, <2>1, <2>3, Zenon
  <2> QED
    BY <1>4, <2>2, <2>3
<1>10. PickedFrom(longer, more, n)
  BY <1>3, <1>7, <1>8, <1>9, Zenon DEF PickedFrom
<1> QED
  BY <1>10 DEF longer, more

(* What is left of it when some are dropped. *)
LEMMA PickFewer ==
    ASSUME NEW s \in Seq(Nat), NEW t, NEW n, PickedFrom(s, t, n), NEW u \in Seq(Nat),
           NEW sel \in [1 .. Len(u) -> 1 .. Len(s)],
           \A i \in 1 .. Len(u) : u[i] = s[sel[i]],
           \A i, j \in 1 .. Len(u) : i < j => sel[i] < sel[j]
    PROVE  PickedFrom(u, t, n)
<1>1. PICK pos \in [1 .. Len(s) -> n + 1 .. Len(t)] :
        /\ \A i \in 1 .. Len(s) : s[i] = t[pos[i]]
        /\ \A i, j \in 1 .. Len(s) : i < j => pos[i] < pos[j]
  <2>1. DOMAIN s = 1 .. Len(s)
    OBVIOUS
  <2> QED
    BY <2>1, Zenon DEF PickedFrom
<1> DEFINE few == [i \in 1 .. Len(u) |-> pos[sel[i]]]
<1>2. DOMAIN u = 1 .. Len(u)
  OBVIOUS
<1>3. \A i \in 1 .. Len(u) : sel[i] \in 1 .. Len(s) /\ few[i] = pos[sel[i]]
  OBVIOUS
<1>4. few \in [1 .. Len(u) -> n + 1 .. Len(t)]
  BY <1>3
<1> HIDE DEF few
<1>5. \A i \in 1 .. Len(u) : u[i] = t[few[i]]
  BY <1>1, <1>3, Zenon
<1>6. \A i, j \in 1 .. Len(u) : i < j => few[i] < few[j]
  BY <1>1, <1>3, Zenon
<1> QED
  BY <1>2, <1>4, <1>5, <1>6, Zenon DEF PickedFrom

(* A client's log is one of messages that came after it subscribed. *)
Since ==
    /\ since \in [Client -> Nat]
    /\ \A c \in Client : since[c] <= Len(published)

InOrder(c) == PickedFrom(LogOf(c), published, since[c])

(* The log when a message is written, when one arrives, and when one is lost. *)
LEMMA LogMoves ==
    ASSUME NEW s \in Seq(Nat), NEW b \in Seq(Nat), b # <<>>
    PROVE  Append(s, Head(b)) \o Tail(b) = s \o b
OBVIOUS

LEMMA LogGrows ==
    ASSUME NEW s \in Seq(Nat), NEW b \in Seq(Nat), NEW x \in Nat
    PROVE  s \o Append(b, x) = Append(s \o b, x)
OBVIOUS

LEMMA LogShrinks ==
    ASSUME NEW s \in Seq(Nat), NEW b \in Seq(Nat), NEW t, NEW n, PickedFrom(s \o b, t, n)
    PROVE  PickedFrom(s, t, n) /\ (b # <<>> => PickedFrom(s \o Tail(b), t, n))
<1> DEFINE all == s \o b
<1>1. /\ all \in Seq(Nat) /\ Len(all) = Len(s) + Len(b)
      /\ \A i \in 1 .. Len(s) + Len(b) : all[i] = IF i <= Len(s) THEN s[i] ELSE b[i - Len(s)]
  OBVIOUS
<1>2. Len(s) \in Nat /\ Len(b) \in Nat
  OBVIOUS
<1>3. PickedFrom(s, t, n)
  <2> DEFINE sel == [i \in 1 .. Len(s) |-> i]
  <2> HIDE DEF all
  <2>1. sel \in [1 .. Len(s) -> 1 .. Len(all)] /\ \A i \in 1 .. Len(s) : s[i] = all[sel[i]]
    BY <1>1, <1>2
  <2>2. \A i, j \in 1 .. Len(s) : i < j => sel[i] < sel[j]
    OBVIOUS
  <2>3. PickedFrom(all, t, n)
    BY DEF all
  <2> HIDE DEF sel
  <2> QED
    BY <1>1, <2>1, <2>2, <2>3, PickFewer, Zenon
<1>4. ASSUME b # <<>> PROVE PickedFrom(s \o Tail(b), t, n)
  <2> DEFINE rest == Tail(b)
             u == s \o rest
             sel == [i \in 1 .. Len(u) |-> IF i <= Len(s) THEN i ELSE i + 1]
  <2>1. rest \in Seq(Nat) /\ Len(rest) = Len(b) - 1 /\ \A i \in 1 .. Len(b) - 1 : rest[i] = b[i + 1]
    BY <1>4
  <2>2. PickedFrom(all, t, n)
    BY DEF all
  <2> HIDE DEF all, rest
  <2>3. /\ u \in Seq(Nat) /\ Len(u) = Len(s) + Len(rest)
        /\ \A i \in 1 .. Len(s) + Len(rest) : u[i] = IF i <= Len(s) THEN s[i] ELSE rest[i - Len(s)]
    <3>1. rest \in Seq(Nat)
      BY <2>1
    <3> QED
      BY <3>1
  <2> DEFINE m == Len(s)
             k == Len(b)
  <2>a. m \in Nat /\ k \in Nat /\ Len(all) = m + k /\ Len(u) = m + (k - 1)
    BY <1>1, <1>2, <2>1, <2>3
  <2>b. \A i \in 1 .. m + (k - 1) : u[i] = IF i <= m THEN s[i] ELSE rest[i - m]
    BY <1>2, <2>1, <2>3
  <2>c. \A i \in 1 .. m + k : all[i] = IF i <= m THEN s[i] ELSE b[i - m]
    BY <1>1
  <2>d. \A i \in 1 .. k - 1 : rest[i] = b[i + 1]
    BY <2>1
  <2> HIDE DEF u, m, k
  <2>4. sel \in [1 .. Len(u) -> 1 .. Len(all)] /\ \A i \in 1 .. Len(u) : sel[i] = IF i <= m THEN i ELSE i + 1
    BY <2>a DEF m
  <2> HIDE DEF sel
  <2>5. ASSUME NEW i \in 1 .. Len(u) PROVE u[i] = all[sel[i]]
    <3>1. CASE i <= m
      <4>1. i \in 1 .. m + k /\ i \in 1 .. m + (k - 1) /\ sel[i] = i
        BY <2>a, <2>4, <3>1
      <4> QED
        BY <2>b, <2>c, <3>1, <4>1, Zenon
    <3>2. CASE ~(i <= m)
      <4>1. i + 1 \in 1 .. m + k /\ i \in 1 .. m + (k - 1) /\ sel[i] = i + 1 /\ ~(i + 1 <= m)
        BY <2>a, <2>4, <3>2
      <4>2. i - m \in 1 .. k - 1 /\ (i + 1) - m = (i - m) + 1
        BY <2>a, <3>2
      <4>3. u[i] = rest[i - m] /\ all[i + 1] = b[(i + 1) - m]
        BY <2>b, <2>c, <3>2, <4>1, Zenon
      <4>4. rest[i - m] = b[(i - m) + 1]
        BY <2>d, <4>2, Zenon
      <4> QED
        BY <4>1, <4>2, <4>3, <4>4, Zenon
    <3> QED
      BY <3>1, <3>2
  <2>6. ASSUME NEW i \in 1 .. Len(u), NEW j \in 1 .. Len(u), i < j PROVE sel[i] < sel[j]
    <3>1. sel[i] = (IF i <= m THEN i ELSE i + 1) /\ sel[j] = (IF j <= m THEN j ELSE j + 1)
      BY <2>4, Zenon
    <3>2. i \in Int /\ j \in Int
      BY <2>a
    <3> QED
      BY <2>a, <2>6, <3>1, <3>2
  <2> HIDE DEF sel
  <2>7. PickedFrom(u, t, n)
    BY <1>1, <2>2, <2>3, <2>4, <2>5, <2>6, PickFewer, Zenon
  <2> QED
    BY <2>7 DEF u, rest
<1> QED
  BY <1>3, <1>4

LEMMA SinceStep == Inv /\ Since /\ [Next]_vars => Since'
<1> SUFFICES ASSUME Inv, Since, [Next]_vars PROVE Since'
  OBVIOUS
<1> USE DEF Since, clientVars, trackVars
<1>0. published \in Seq(Nat)
  BY DEF Inv, StoredFirst
<1>1. ASSUME NEW e \in Event, Publish(e) PROVE Since'
  <2>1. Len(published') = Len(published) + 1 /\ Len(published) \in Nat
    BY <1>0, <1>1 DEF Publish
  <2> QED
    BY <1>1, <2>1 DEF Publish
<1>2. ASSUME NEW c \in Client, NEW u \in User, Subscribe(c, u) PROVE Since'
  BY <1>0, <1>2 DEF Subscribe
<1>3. CASE UNCHANGED <<published, since>>
  BY <1>3
<1> QED
  BY <1>1, <1>2, <1>3
  DEF Next, Track, XAdd, Timeout, Write, Disconnect, Kill, RedisDown, RedisUp, vars

LEMMA InOrderStep ==
    ASSUME Inv, Since, [Next]_vars, NEW c \in Client, InOrder(c)
    PROVE  InOrder(c)'
<1> DEFINE log == LogOf(c)
<1>1. /\ seen[c] \in Seq(Nat) /\ buffer[c] \in Seq(Nat) /\ published \in Seq(Nat)
      /\ log \in Seq(Nat) /\ since[c] \in Nat /\ since[c] <= Len(published)
  <2>1. seen[c] \in Seq(Nat) /\ buffer[c] \in Seq(Nat) /\ published \in Seq(Nat)
    BY DEF Inv, Clients, StoredFirst
  <2>2. <<>> \in Seq(Nat)
    OBVIOUS
  <2> QED
    BY <2>1, <2>2 DEF Since, LogOf
<1>2. PickedFrom(log, published, since[c])
  BY DEF InOrder
<1> SUFFICES PickedFrom(log', published', since'[c])
  BY DEF InOrder
<1> USE DEF clientVars
<1>3. ASSUME NEW e \in Event, Publish(e) PROVE PickedFrom(log', published', since'[c])
  <2>1. PICK reached \in SUBSET Listeners(events[e]) :
          buffer' = [d \in Client |-> IF d \in reached THEN Append(buffer[d], e) ELSE buffer[d]]
    BY <1>3 DEF Publish
  <2>2. published' = Append(published, e) /\ UNCHANGED <<since, seen, subscribed>> /\ e \in Nat
    BY <1>3 DEF Publish, Inv, StoredFirst, Event
  <2>3. CASE c \in reached
    <3>1. c \in subscribed /\ c \in subscribed' /\ buffer'[c] = Append(buffer[c], e) /\ seen'[c] = seen[c]
      BY <2>1, <2>2, <2>3 DEF Listeners
    <3>2. seen[c] \o Append(buffer[c], e) = Append(seen[c] \o buffer[c], e)
      <4>1. seen[c] \in Seq(Nat) /\ buffer[c] \in Seq(Nat) /\ e \in Nat
        BY <1>1, <2>2
      <4> QED
        BY <4>1, LogGrows
    <3>3. log' = Append(log, e)
      BY <3>1, <3>2, Zenon DEF LogOf
    <3> HIDE DEF log
    <3> QED
      BY <1>1, <1>2, <2>2, <3>3, PickOneMore, Zenon
  <2>4. CASE c \notin reached
    <3>1. log' = log
      BY <2>1, <2>2, <2>4 DEF LogOf
    <3> HIDE DEF log
    <3> QED
      BY <1>1, <1>2, <2>2, <3>1, PickFromMore, Zenon
  <2> QED
    BY <2>3, <2>4
<1>4. ASSUME NEW d \in Client, Write(d) PROVE PickedFrom(log', published', since'[c])
  <2>1. UNCHANGED <<published, since>> /\ d \in subscribed /\ buffer[d] # <<>>
    BY <1>4 DEF Write
  <2>2. CASE d = c /\ conn[d] = "open"
    <3>1. /\ buffer'[c] = Tail(buffer[c]) /\ seen'[c] = Append(seen[c], Head(buffer[c]))
          /\ subscribed' = subscribed
      BY <1>4, <2>2 DEF Write, Inv, Clients
    <3>2. log' = log
      BY <1>1, <2>1, <2>2, <3>1, LogMoves DEF LogOf
    <3> QED
      BY <1>2, <2>1, <3>2, Zenon
  <2>3. CASE d = c /\ conn[d] # "open"
    <3>1. buffer'[c] = Tail(buffer[c]) /\ seen'[c] = seen[c] /\ buffer[c] # <<>> /\ c \in subscribed
      BY <1>4, <2>1, <2>3 DEF Write, Inv, Clients
    <3>2. log = seen[c] \o buffer[c]
      BY <3>1 DEF LogOf
    <3>3. log' = seen[c] \o Tail(buffer[c]) \/ log' = seen[c]
      <4>1. seen[c] \o <<>> = seen[c]
        BY <1>1
      <4> QED
        BY <3>1, <4>1, Zenon DEF LogOf
    <3>4. PickedFrom(seen[c] \o buffer[c], published, since[c])
      BY <1>2, <3>2, Zenon
    <3>5. PickedFrom(seen[c], published, since[c]) /\ PickedFrom(seen[c] \o Tail(buffer[c]), published, since[c])
      BY <1>1, <3>1, <3>4, LogShrinks, Zenon
    <3> QED
      BY <2>1, <3>3, <3>5, Zenon
  <2>4. CASE d # c
    <3>1. /\ buffer'[c] = buffer[c] /\ seen'[c] = seen[c]
          /\ c \in subscribed' <=> c \in subscribed
      BY <1>4, <2>4 DEF Write, Inv, Clients
    <3>2. log' = log
      BY <3>1, Zenon DEF LogOf
    <3> QED
      BY <1>2, <2>1, <3>2, Zenon
  <2> QED
    BY <2>2, <2>3, <2>4
<1>5. ASSUME NEW d \in Client, NEW u \in User, Subscribe(d, u) PROVE PickedFrom(log', published', since'[c])
  <2>1. UNCHANGED <<published, buffer, seen>> /\ conn[d] = "new"
    BY <1>5 DEF Subscribe
  <2>2. CASE d = c
    <3>1. seen'[c] = <<>> /\ buffer'[c] = <<>>
      BY <2>1, <2>2 DEF Inv, Clients
    <3>2. <<>> \o <<>> = <<>>
      OBVIOUS
    <3>3. log' = <<>>
      BY <3>1, <3>2, Zenon DEF LogOf
    <3> QED
      BY <3>3, PickEmpty, Zenon
  <2>3. CASE d # c
    <3>1. since'[c] = since[c] /\ (c \in subscribed' <=> c \in subscribed)
      BY <1>5, <2>3 DEF Subscribe, Since
    <3>2. log' = log
      BY <2>1, <3>1, Zenon DEF LogOf
    <3> QED
      BY <1>2, <2>1, <3>1, <3>2, Zenon
  <2> QED
    BY <2>2, <2>3
<1>6. ASSUME NEW E, NEW C, Kill(E, C) PROVE PickedFrom(log', published', since'[c])
  <2>1. /\ UNCHANGED <<published, since, seen>>
        /\ buffer'[c] = (IF c \in C THEN <<>> ELSE buffer[c])
        /\ c \in subscribed' <=> c \in subscribed /\ c \notin C
    BY <1>6 DEF Kill
  <2>2. CASE c \in C
    <3>1. seen[c] \o <<>> = seen[c]
      BY <1>1
    <3>2. log' = seen[c] /\ (log = seen[c] \/ log = seen[c] \o buffer[c])
      BY <2>1, <2>2, <3>1, Zenon DEF LogOf
    <3>3. PickedFrom(seen[c], published, since[c])
      <4>1. seen[c] \in Seq(Nat) /\ buffer[c] \in Seq(Nat)
        BY <1>1
      <4>2. CASE log = seen[c]
        BY <1>2, <4>2, Zenon
      <4>3. CASE log = seen[c] \o buffer[c]
        <5>1. PickedFrom(seen[c] \o buffer[c], published, since[c])
          BY <1>2, <4>3, Zenon
        <5> QED
          BY <4>1, <5>1, LogShrinks, Zenon
      <4> QED
        BY <3>2, <4>2, <4>3, Zenon
    <3> QED
      BY <2>1, <3>2, <3>3, Zenon
  <2>3. CASE c \notin C
    <3>1. log' = log
      BY <2>1, <2>3, Zenon DEF LogOf
    <3> QED
      BY <1>2, <2>1, <3>1, Zenon
  <2> QED
    BY <2>2, <2>3
<1>7. CASE UNCHANGED <<published, since, seen, buffer, subscribed>>
  <2>1. log' = log
    BY <1>7, Zenon DEF LogOf
  <2> QED
    BY <1>2, <1>7, <2>1, Zenon
<1> QED
  BY <1>3, <1>4, <1>5, <1>6, <1>7
  DEF Next, Track, XAdd, Timeout, Disconnect, RedisDown, RedisUp, vars

(* What a client gets comes in the order of publication, and no message    *)
(* more often than it was published since the client subscribed.           *)
THEOREM LogsInOrder == Spec => []InPublishOrder
<1> DEFINE Ordered == Since /\ InPublishOrder
<1>1. Init => Ordered
  <2> SUFFICES ASSUME Init PROVE Ordered
    OBVIOUS
  <2>1. Since
    BY DEF Init, Since
  <2>2. <<>> \o <<>> = <<>>
    OBVIOUS
  <2>3. ASSUME NEW c \in Client PROVE PickedFrom(LogOf(c), published, since[c])
    <3>1. LogOf(c) = <<>>
      BY <2>2 DEF Init, LogOf
    <3> QED
      BY <3>1, PickEmpty, Zenon
  <2> QED
    BY <2>1, <2>3 DEF InPublishOrder
<1>2. Inv /\ Ordered /\ [Next]_vars => Ordered'
  <2> SUFFICES ASSUME Inv, Since, InPublishOrder, [Next]_vars PROVE InPublishOrder'
    BY SinceStep
  <2>1. ASSUME NEW c \in Client PROVE InOrder(c)'
    <3>1. InOrder(c)
      BY Zenon DEF InPublishOrder, InOrder
    <3> QED
      BY <3>1, InOrderStep, Zenon
  <2> QED
    BY <2>1, Zenon DEF InPublishOrder, InOrder
<1> HIDE DEF Ordered
<1>3. Spec => []Ordered
  BY <1>1, <1>2, LogInvariant, PTL DEF Spec
<1>4. Ordered => InPublishOrder
  BY DEF Ordered
<1> QED
  BY <1>3, <1>4, PTL

-----------------------------------------------------------------------------
(* The phases in which a process works on the schema. *)
Owning == {"migrating", "marked", "applied"}

(* The types of main's variables. *)
SchemaTypes ==
    /\ phase \in [Process -> {"off"} \cup Starting \cup Running]
    /\ lock \in Process \cup {None}
    /\ version \in Nat
    /\ schema \in Seq(Nat)
    /\ at \in [Process -> Nat]

(* The lock is held by the one process that migrates. *)
Exclusive ==
    /\ \A s \in Process : phase[s] \in Owning => lock = s
    /\ lock # None => phase[lock] \in Owning

(* The version counts the bodies that ran, but while it is dirty: then the *)
(* last may have run or not, and the process that migrates knows which.    *)
Counted ==
    /\ \A i \in 1 .. Len(schema) : schema[i] = i
    /\ ~dirty => Len(schema) = version
    /\ \A s \in Process :
          /\ phase[s] \in Owning => version = at[s] /\ at[s] <= Known[s]
          /\ phase[s] = "migrating" => ~dirty
          /\ phase[s] = "marked" => dirty /\ Len(schema) + 1 = at[s]
          /\ phase[s] = "applied" => dirty /\ Len(schema) = at[s]
          /\ phase[s] \in {"connecting"} \cup Running => Len(schema) >= Known[s]

SchemaInv == SchemaTypes /\ Exclusive /\ Counted

-----------------------------------------------------------------------------
(* One migration after the other, by one process at a time. *)
LEMMA SchemaInit == ServerInit => SchemaInv
<1> SUFFICES ASSUME ServerInit PROVE SchemaInv
  OBVIOUS
<1>1. schema = <<>> /\ schema \in Seq(Nat) /\ Len(schema) = 0
  BY DEF ServerInit
<1> QED
  BY <1>1, KnownAssumption, NoProcess
  DEF ServerInit, SchemaInv, SchemaTypes, Exclusive, Counted, Owning, Starting, Running

LEMMA SchemaStep == SchemaInv /\ [ServerNext]_serverVars => SchemaInv'
<1> SUFFICES ASSUME SchemaInv, [ServerNext]_serverVars PROVE SchemaInv'
  OBVIOUS
<1> USE KnownAssumption, NoProcess
    DEF SchemaInv, SchemaTypes, Exclusive, Counted, Owning, Starting, Running, Go, schemaVars, placeVars
<1>1. ASSUME NEW s \in Process, Start(s) PROVE SchemaInv'
  BY <1>1 DEF Start
<1>2. ASSUME NEW s \in Process, Lock(s) PROVE SchemaInv'
  BY <1>2 DEF Lock
<1>3. ASSUME NEW s \in Process, MarkDirty(s) PROVE SchemaInv'
  BY <1>3 DEF MarkDirty
<1>4. ASSUME NEW s \in Process, RunBody(s) PROVE SchemaInv'
  <2>1. /\ schema' \in Seq(Nat) /\ Len(schema') = Len(schema) + 1
        /\ \A i \in 1 .. Len(schema) : schema'[i] = schema[i]
        /\ schema'[Len(schema) + 1] = at[s]
    BY <1>4 DEF RunBody
  <2>2. at[s] = Len(schema) + 1
    BY <1>4 DEF RunBody
  <2>3. \A i \in 1 .. Len(schema') : schema'[i] = i
    <3>1. Len(schema) \in Nat /\ \A i \in 1 .. Len(schema) : schema[i] = i
      OBVIOUS
    <3> HIDE DEF SchemaInv
    <3> QED
      BY <2>1, <2>2, <3>1
  <2> HIDE DEF Go
  <2>4. /\ phase' = [phase EXCEPT ![s] = "applied"] /\ phase[s] = "marked"
        /\ UNCHANGED <<lock, version, dirty, at>>
    BY <1>4 DEF RunBody, Go
  <2> QED
    BY <2>1, <2>2, <2>3, <2>4
<1>5. ASSUME NEW s \in Process, MarkClean(s) PROVE SchemaInv'
  BY <1>5 DEF MarkClean
<1>6. ASSUME NEW s \in Process, Migrated(s) PROVE SchemaInv'
  BY <1>6 DEF Migrated
<1>7. ASSUME NEW s \in Process, Connect(s) \/ Signal(s) \/ StopDraining(s) \/ QueriesDone(s)
      PROVE  SchemaInv'
  <2>1. PICK p \in Running : phase' = [phase EXCEPT ![s] = p]
    BY <1>7 DEF Connect, Signal, StopDraining, QueriesDone
  <2>2. phase[s] \in {"connecting"} \cup Running /\ UNCHANGED <<lock, schemaVars>>
    BY <1>7 DEF Connect, Signal, StopDraining, QueriesDone
  <2> QED
    BY <2>1, <2>2
<1>8. ASSUME NEW s \in Process, Close(s) \/ Crash(s) PROVE SchemaInv'
  <2>1. /\ phase' = [phase EXCEPT ![s] = "off"]
        /\ lock' = IF lock = s THEN None ELSE lock
        /\ at' = [at EXCEPT ![s] = 0]
        /\ UNCHANGED <<version, dirty, schema>>
    BY <1>8 DEF Close, Crash, Exit
  <2>2. SchemaTypes'
    BY <2>1
  <2>3. Exclusive'
    BY <2>1
  <2>4. Counted'
    BY <2>1
  <2> QED
    BY <2>2, <2>3, <2>4
<1>9. CASE UNCHANGED processVars
  BY <1>9 DEF processVars
<1> QED
  BY <1>1, <1>2, <1>3, <1>4, <1>5, <1>6, <1>7, <1>8, <1>9
  DEF ServerNext, Migrating, TrackAt, SubscribeAt, Command, Logs, serverVars

LEMMA SchemaInvariant == ServerSpec => []SchemaInv
BY SchemaInit, SchemaStep, PTL DEF ServerSpec

(* However many processes start at once and wherever one ends, a process   *)
(* that serves finds its migrations applied once each, in their order.     *)
THEOREM SchemaIsComplete == ServerSpec => []ServesCompleteSchema
<1>1. SchemaInv => ServesCompleteSchema
  BY DEF SchemaInv, Counted, ServesCompleteSchema, Complete
<1> QED
  BY <1>1, SchemaInvariant, PTL

(* An interrupted migration keeps every process from the lock, for good. *)
THEOREM InterruptionIsFinal == ServerSpec => InterruptedForGood
<1> DEFINE Stuck(s) == SchemaInv /\ Interrupted /\ phase[s] \in {"off", "locking"}
<1>1. ASSUME NEW s \in Process
      PROVE  ServerSpec => [](Interrupted /\ phase[s] = "off" => [](phase[s] \notin Running))
  <2>1. Stuck(s) /\ [ServerNext]_serverVars => Stuck(s)'
    <3> SUFFICES ASSUME Stuck(s), [ServerNext]_serverVars PROVE Stuck(s)'
      OBVIOUS
    <3>1. SchemaInv'
      BY SchemaStep
    <3>2. \A t \in Process : phase[t] \notin Owning
      BY NoProcess DEF SchemaInv, SchemaTypes, Exclusive, Interrupted
    <3>3. \A t \in Process : ~Migrating(t)
      BY <3>2 DEF Interrupted, Owning, Migrating, Lock, MarkDirty, RunBody, MarkClean, Migrated
    <3>4. lock' = None /\ UNCHANGED dirty
      BY <3>3 DEF ServerNext, Interrupted, Start, Connect, Signal, StopDraining, QueriesDone, Close, Crash,
             Exit, TrackAt, SubscribeAt, Command, Logs, schemaVars, placeVars, processVars, serverVars
    <3>5. phase'[s] \in {"off", "locking"}
      BY <3>3 DEF SchemaInv, SchemaTypes, Running, Go,
             ServerNext, Start, Connect, Signal, StopDraining, QueriesDone, Close, Crash,
             Exit, TrackAt, SubscribeAt, Command, Logs, processVars, serverVars
    <3> QED
      BY <3>1, <3>4, <3>5 DEF Interrupted
  <2>2. SchemaInv /\ Interrupted /\ phase[s] = "off" => Stuck(s)
    OBVIOUS
  <2>3. Stuck(s) => phase[s] \notin Running
    BY DEF Running
  <2> HIDE DEF Stuck
  <2> QED
    BY <2>1, <2>2, <2>3, SchemaInvariant, PTL DEF ServerSpec
<1> QED
  BY <1>1 DEF InterruptedForGood
-----------------------------------------------------------------------------
(* A step of the processes is a step of the live logs, or none. *)
LEMMA StepOfLogs == [ServerNext]_serverVars => [Next]_vars
<1> SUFFICES ASSUME ServerNext PROVE [Next]_vars
  BY DEF serverVars
<1>1. ASSUME NEW s \in Process, Close(s) \/ Crash(s) PROVE Next
  <2>1. {e \in Event : home[e] = s} \in SUBSET Event /\ {c \in Client : host[c] = s} \in SUBSET Client
    OBVIOUS
  <2> QED
    BY <1>1, <2>1 DEF Close, Crash, Exit, Next
<1>2. CASE Logs
  BY <1>2 DEF Logs, Next
<1>3. CASE \E e \in Event : Command(e)
  BY <1>3 DEF Command, Next
<1>4. ASSUME NEW s \in Process, \E u \in User : TrackAt(s, u) \/ \E c \in Client : SubscribeAt(s, c, u)
      PROVE  Next
  BY <1>4 DEF TrackAt, SubscribeAt, Next
<1>5. ASSUME NEW s \in Process, \/ Start(s) \/ Migrating(s) \/ Connect(s)
                                \/ Signal(s) \/ StopDraining(s) \/ QueriesDone(s)
      PROVE  UNCHANGED vars
  BY <1>5 DEF Start, Migrating, Lock, MarkDirty, RunBody, MarkClean, Migrated, Connect,
              Signal, StopDraining, QueriesDone
<1> QED
  BY <1>1, <1>2, <1>3, <1>4, <1>5 DEF ServerNext

(* The live logs of all processes together implement the live logs. *)
THEOREM ServerImplementsLogStream == ServerSpec => Spec
<1>1. ServerInit => Init
  BY DEF ServerInit
<1> QED
  BY <1>1, StepOfLogs, PTL DEF ServerSpec, Spec

(* The variables that neither half is about. *)
Placed ==
    /\ budget \in Budgets
    /\ starts \in [Process -> Nat]
    /\ dirty \in BOOLEAN
    /\ home \in [Event -> Process]
    /\ host \in [Client -> Process \cup {None}]

LEMMA PlacedStep == Inv /\ Placed /\ [ServerNext]_serverVars => Placed'
<1> SUFFICES ASSUME Inv, Placed, [ServerNext]_serverVars PROVE Placed'
  OBVIOUS
<1> USE DEF Placed
<1>1. budget' \in Budgets
  BY DEF ServerNext, Migrating, Start, Lock, MarkDirty, RunBody, MarkClean, Migrated, Connect, Signal,
         StopDraining, QueriesDone, Close, Crash, Exit, TrackAt, SubscribeAt, Command, Logs,
         placeVars, serverVars
<1>2. starts' \in [Process -> Nat]
  <2>1. ASSUME NEW s \in Process, Start(s) PROVE starts' \in [Process -> Nat]
    BY <2>1 DEF Start
  <2>2. CASE UNCHANGED starts
    BY <2>2
  <2> QED
    BY <2>1, <2>2
    DEF ServerNext, Migrating, Lock, MarkDirty, RunBody, MarkClean, Migrated, Connect, Signal,
        StopDraining, QueriesDone, Close, Crash, Exit, TrackAt, SubscribeAt, Command, Logs,
        processVars, serverVars
<1>3. UNCHANGED dirty \/ dirty' = TRUE \/ dirty' = FALSE
  BY DEF ServerNext, Migrating, Start, Lock, MarkDirty, RunBody, MarkClean, Migrated, Connect, Signal,
         StopDraining, QueriesDone, Close, Crash, Exit, TrackAt, SubscribeAt, Command, Logs,
         schemaVars, processVars, serverVars
<1>4. dirty' \in BOOLEAN
  BY <1>3, Zenon
<1>5. host' \in [Client -> Process \cup {None}]
  BY DEF ServerNext, Migrating, Start, Lock, MarkDirty, RunBody, MarkClean, Migrated, Connect, Signal,
         StopDraining, QueriesDone, Close, Crash, Exit, TrackAt, SubscribeAt, Command, Logs,
         placeVars, serverVars
<1>6. home' \in [Event' -> Process]
  <2>1. CASE UNCHANGED <<events, home>>
    BY <2>1 DEF Event
  <2>2. ASSUME NEW s \in Process, NEW u \in User, TrackAt(s, u) PROVE home' \in [Event' -> Process]
    <3>1. events \in Seq(User) /\ events' = Append(events, u) /\ home' = Append(home, s)
      BY <2>2 DEF TrackAt, Track, Inv, StoredFirst
    <3>2. home \in Seq(Process) /\ Len(home) = Len(events)
      BY <3>1 DEF Event
    <3>3. home' \in Seq(Process) /\ Len(home') = Len(events) + 1
      BY <3>1, <3>2
    <3>4. events' \in Seq(User) /\ Len(events') = Len(events) + 1
      BY <3>1
    <3>5. Event' = 1 .. Len(home') /\ home' \in [1 .. Len(home') -> Process]
      BY <3>3, <3>4 DEF Event
    <3> QED
      BY <3>5
  <2>3. CASE Logs \/ \E e \in Event : Command(e)
    BY <2>1, <2>3 DEF Logs, Command, XAdd, Publish, Timeout, Write, Disconnect, RedisDown, RedisUp,
                      trackVars, placeVars
  <2>4. ASSUME NEW s \in Process, \/ Start(s) \/ Migrating(s) \/ Connect(s)
                                  \/ Signal(s) \/ StopDraining(s) \/ QueriesDone(s)
        PROVE  UNCHANGED <<events, home>>
    BY <2>4 DEF Migrating, Start, Lock, MarkDirty, RunBody, MarkClean, Migrated, Connect, Signal,
                StopDraining, QueriesDone, placeVars, vars
  <2>5. ASSUME NEW s \in Process, Close(s) \/ Crash(s) PROVE UNCHANGED <<events, home>>
    BY <2>5 DEF Close, Crash, Exit, Kill, placeVars
  <2>6. ASSUME NEW s \in Process, NEW c \in Client, NEW u \in User, SubscribeAt(s, c, u)
        PROVE  UNCHANGED <<events, home>>
    BY <2>6 DEF SubscribeAt, Subscribe, trackVars
  <2>7. CASE UNCHANGED serverVars
    BY <2>1, <2>7 DEF serverVars, placeVars, vars
  <2> HIDE DEF Placed
  <2> QED
    BY <2>1, <2>2, <2>3, <2>4, <2>5, <2>6, <2>7 DEF ServerNext
<1> QED
  BY <1>1, <1>2, <1>4, <1>5, <1>6, Zenon

(* The types of the processes and of the live logs. *)
THEOREM ServerTypes == ServerSpec => []ServerTypeOK
<1>1. ServerInit => Placed
  <2> SUFFICES ASSUME ServerInit PROVE Placed
    OBVIOUS
  <2>1. home \in [Event -> Process]
    BY DEF ServerInit, Init, Event
  <2>2. dirty \in BOOLEAN
    BY Zenon DEF ServerInit
  <2> QED
    BY <2>1, <2>2 DEF ServerInit, Placed
<1>2. Inv /\ SchemaInv /\ Placed => ServerTypeOK
  BY InvTypes, Zenon DEF SchemaInv, SchemaTypes, Placed, ServerTypeOK
<1> QED
  BY <1>1, <1>2, PlacedStep, SchemaInvariant, ServerImplementsLogStream, LogInvariant, PTL DEF ServerSpec

(* The live logs show what analytics has, whichever process ends when. *)
THEOREM ServerLogsAreRecorded == ServerSpec => []LogIsRecorded
BY ServerImplementsLogStream, LogsAreRecorded, PTL

(* And in the order of publication. *)
THEOREM ServerLogsInOrder == ServerSpec => []InPublishOrder
BY ServerImplementsLogStream, LogsInOrder, PTL
=============================================================================
