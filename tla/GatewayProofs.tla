--------------------------- MODULE GatewayProofs ---------------------------
(***************************************************************************)
(* Proofs about StreamPipe, for any channel capacity and any number of     *)
(* events: its types, where an event is on its way, that none is lost, and *)
(* that the stream implements Relay.  And about Gateway, for any upstream  *)
(* statuses: a request's stream is a StreamPipe, so what was proved of     *)
(* that holds here; and the two invariants of the answer, which are        *)
(* inductive once it is known that a request that is not answered yet has  *)
(* no cause and no charge.                                                 *)
(***************************************************************************)
EXTENDS Gateway, SequenceLemmas

(* Which steps hold an event, and when the channel is closed. *)
Stages ==
    /\ producer = "sending" <=> pending # None
    /\ consumer \in {"writing", "flushing"} <=> got # None
    /\ got # None => got \in Shown(translator)
    /\ closed <=> producer = "done"
    /\ consumer \in {"marking", "returned"} => closed /\ chan = <<>>
    /\ sticky => conn = "gone"
    /\ marked => consumer = "returned"

(* The event being sent is the last of those decoded, before it come those *)
(* in the channel, and before them the one being written: nothing is       *)
(* skipped, repeated or out of order between the producer and the client.  *)
InOrder ==
    /\ Taken \in Nat
    /\ pending # None => pending = decoded[Len(decoded)]
    /\ \A i \in 1 .. Len(chan) : chan[i] = decoded[Taken + Held(got) + i]
    /\ got # None => got = decoded[Taken + 1]

Inv == TypeOK /\ Stages /\ InOrder

-----------------------------------------------------------------------------
(* The initial state satisfies the invariant. *)
LEMMA InitInv == Init => Inv
<1> SUFFICES ASSUME Init PROVE Inv
  OBVIOUS
<1> <<>> \in Seq(Kinds) /\ Len(<<>>) = 0
  OBVIOUS
<1>a. /\ decoded \in Seq(Kinds) /\ Len(decoded) <= MaxEvents
      /\ chan \in Seq(Kinds) /\ Len(chan) <= Cap
      /\ out \in Seq(Kinds)
  BY CapAssumption, MaxEventsAssumption DEF Init
<1>b. closed \in BOOLEAN /\ sticky \in BOOLEAN /\ marked \in BOOLEAN
  BY DEF Init
<1>1. TypeOK
  BY <1>a, <1>b, Zenon DEF Init, TypeOK
<1>2. Stages
  BY DEF Init, Stages
<1>3. Taken = 0
  BY DEF Init, Taken, Held
<1>4. InOrder
  BY <1>3 DEF Init, InOrder
<1> QED
  BY <1>1, <1>2, <1>4 DEF Inv

(* Each part of the invariant survives every step. *)
LEMMA TypeStep == TypeOK /\ Stages /\ [Next]_vars => TypeOK'
  <1> SUFFICES ASSUME TypeOK, Stages, [Next]_vars PROVE TypeOK'
    OBVIOUS
  <1> USE CapAssumption, MaxEventsAssumption DEF TypeOK, producerVars, clientVars
  <1>1. CASE Post BY <1>1 DEF Post
  <1>2. CASE Scan BY <1>2 DEF Scan
  <1>3. CASE Send BY <1>3 DEF Send, Stages
  <1>4. CASE Finish BY <1>4 DEF Finish
  <1>5. CASE Receive
    <2>1. Head(chan) \in Kinds /\ Tail(chan) \in Seq(Kinds) /\ Len(Tail(chan)) = Len(chan) - 1
      BY <1>5 DEF Receive
    <2>2. chan' \in Seq(Kinds) /\ Len(chan') <= Cap
      BY <1>5, <2>1 DEF Receive
    <2>3. consumer' \in {"receiving", "writing", "flushing", "marking", "returned", "aborted"}
      BY <1>5 DEF Receive
    <2>4. got' \in Kinds \cup {None}
      BY <1>5, <2>1 DEF Receive
    <2>5. UNCHANGED <<translator, decoded, producer, pending, closed, sticky, conn, out, marked>>
      BY <1>5 DEF Receive
    <2> QED
      BY <2>2, <2>3, <2>4, <2>5
  <1>6. CASE Write BY <1>6 DEF Write
  <1>7. CASE Flush
    <2>1. out' \in Seq(Kinds)
      <3>1. got \in Kinds
        BY <1>7 DEF Flush, Stages
      <3>2. out' = Append(out, got) \/ out' = out
        BY <1>7, Zenon DEF Flush
      <3>3. out \in Seq(Kinds)
        OBVIOUS
      <3>4. Append(out, got) \in Seq(Kinds)
        BY <3>1, <3>3
      <3> QED
        BY <3>2, <3>3, <3>4, Zenon
    <2>2. sticky' \in BOOLEAN
      BY <1>7, Zenon DEF Flush
    <2>3. consumer' = "receiving" /\ got' = None
      BY <1>7 DEF Flush
    <2>4. UNCHANGED <<translator, decoded, producer, pending, chan, closed, conn, marked>>
      BY <1>7 DEF Flush
    <2> QED
      BY <2>1, <2>2, <2>3, <2>4
  <1>8. CASE Drained BY <1>8 DEF Drained
  <1>9. CASE Mark
    <2>1. marked' \in BOOLEAN
      BY <1>9, Zenon DEF Mark
    <2>2. consumer' = "returned"
      BY <1>9 DEF Mark
    <2>3. UNCHANGED <<translator, decoded, producer, pending, chan, closed, got, sticky, conn, out>>
      BY <1>9 DEF Mark
    <2> QED
      BY <2>1, <2>2, <2>3
  <1>10. CASE Disconnect BY <1>10 DEF Disconnect
  <1>11. CASE UNCHANGED vars BY <1>11 DEF vars
  <1> QED
    BY <1>1, <1>2, <1>3, <1>4, <1>5, <1>6, <1>7, <1>8, <1>9, <1>10, <1>11
    DEF Next, Producer, Consumer

LEMMA StagesStep == TypeOK /\ Stages /\ [Next]_vars => Stages'
  <1> SUFFICES ASSUME TypeOK, Stages, [Next]_vars PROVE Stages'
    OBVIOUS
  <1> USE NoneAssumption DEF Stages, producerVars, clientVars
  <1>1. CASE Post BY <1>1 DEF Post
  <1>2. CASE Scan BY <1>2 DEF Scan, Kinds
  <1>3. CASE Send BY <1>3 DEF Send
  <1>4. CASE Finish BY <1>4 DEF Finish
  <1>5. CASE Receive BY <1>5 DEF Receive, TypeOK, Kinds
  <1>6. CASE Write BY <1>6 DEF Write
  <1>7. CASE Flush BY <1>7 DEF Flush, TypeOK
  <1>8. CASE Drained BY <1>8 DEF Drained
  <1>9. CASE Mark BY <1>9 DEF Mark
  <1>10. CASE Disconnect BY <1>10 DEF Disconnect, TypeOK
  <1>11. CASE UNCHANGED vars BY <1>11 DEF vars
  <1> QED
    BY <1>1, <1>2, <1>3, <1>4, <1>5, <1>6, <1>7, <1>8, <1>9, <1>10, <1>11
    DEF Next, Producer, Consumer

LEMMA OrderStep == TypeOK /\ Stages /\ InOrder /\ [Next]_vars => InOrder'
  <1> SUFFICES ASSUME TypeOK, Stages, InOrder, [Next]_vars PROVE InOrder'
    OBVIOUS
  <1> USE NoneAssumption DEF Taken, Held, producerVars, clientVars
  <1>1. CASE Post BY <1>1 DEF Post, InOrder
  <1>2. CASE Scan
    <2>1. PICK kind \in Kinds : decoded' = Append(decoded, kind) /\ pending' = kind
      BY <1>2 DEF Scan
    <2>2. pending = None /\ kind # None
      BY <1>2 DEF Scan, Stages, Kinds
    <2>3. UNCHANGED <<chan, got>>
      BY <1>2 DEF Scan
    <2>4. Taken' = Taken
      BY <2>1, <2>2, <2>3 DEF TypeOK
    <2>5. \A i \in 1 .. Len(decoded) : decoded'[i] = decoded[i]
      BY <2>1 DEF TypeOK
    <2> QED
      BY <2>1, <2>2, <2>3, <2>4, <2>5 DEF TypeOK, InOrder
  <1>3. CASE Send
    <2>1. chan' = Append(chan, pending) /\ pending' = None /\ UNCHANGED <<decoded, got>>
      BY <1>3 DEF Send
    <2>2. pending # None
      BY <1>3 DEF Send, Stages
    <2>3. Taken' = Taken
      BY <2>1, <2>2 DEF TypeOK
    <2> QED
      BY <2>1, <2>2, <2>3 DEF TypeOK, InOrder
  <1>4. CASE Finish BY <1>4 DEF Finish, InOrder
  <1>5. CASE Receive
    <2>1. got = None /\ chan # <<>> /\ chan' = Tail(chan) /\ UNCHANGED <<decoded, pending>>
      BY <1>5 DEF Receive, Stages
    <2>2. Head(chan) = decoded[Taken + 1]
      BY <2>1 DEF TypeOK, InOrder
    <2>3. Head(chan) # None
      BY <2>1 DEF TypeOK, Kinds
    <2>4. CASE got' = Head(chan)
      BY <2>1, <2>2, <2>3, <2>4 DEF TypeOK, InOrder
    <2>5. CASE got' = got
      BY <2>1, <2>2, <2>3, <2>5 DEF TypeOK, InOrder
    <2> QED
      BY <1>5, <2>4, <2>5 DEF Receive
  <1>6. CASE Write
    <2>1. (got' = got \/ got' = None) /\ UNCHANGED <<decoded, pending, chan>>
      BY <1>6 DEF Write
    <2> QED
      BY <2>1 DEF TypeOK, InOrder
  <1>7. CASE Flush BY <1>7 DEF Flush, TypeOK, InOrder
  <1>8. CASE Drained BY <1>8 DEF Drained, InOrder
  <1>9. CASE Mark BY <1>9 DEF Mark, InOrder
  <1>10. CASE Disconnect BY <1>10 DEF Disconnect, InOrder
  <1>11. CASE UNCHANGED vars BY <1>11 DEF vars, InOrder
  <1> QED
    BY <1>1, <1>2, <1>3, <1>4, <1>5, <1>6, <1>7, <1>8, <1>9, <1>10, <1>11
    DEF Next, Producer, Consumer

(* Types, stages and order hold in every state. *)
THEOREM PipeInvariant == Spec => []Inv
  <1>1. Inv /\ [Next]_vars => Inv'
    BY TypeStep, StagesStep, OrderStep DEF Inv
  <1> QED
    BY InitInv, <1>1, PTL DEF Spec

-----------------------------------------------------------------------------
(* What is shown of one sequence of events after another, and of one event. *)
LEMMA PartType ==
    ASSUME NEW t, NEW event \in Kinds
    PROVE  Part(t, event) \in Seq(Kinds)
BY DEF Part

LEMMA PartsType ==
    ASSUME NEW t, NEW events \in Seq(Kinds)
    PROVE  /\ Parts(t, events) \in Seq(Seq(Kinds)) /\ Len(Parts(t, events)) = Len(events)
           /\ \A i \in 1 .. Len(events) : Parts(t, events)[i] = Part(t, events[i])
<1>1. \A i \in 1 .. Len(events) : Part(t, events[i]) \in Seq(Kinds)
  BY PartType
<1> QED
  BY <1>1 DEF Parts

LEMMA ShownConcat ==
    ASSUME NEW t, NEW a \in Seq(Kinds), NEW b \in Seq(Kinds)
    PROVE  /\ ShownOf(t, a \o b) = ShownOf(t, a) \o ShownOf(t, b)
           /\ ShownOf(t, a) \in Seq(Kinds)
<1> DEFINE Q == Seq(Kinds)
           c == a \o b
           pa == Parts(t, a)
           pb == Parts(t, b)
           pc == Parts(t, c)
           both == pa \o pb
<1>1. c \in Seq(Kinds) /\ Len(c) = Len(a) + Len(b)
  OBVIOUS
<1>2. \A i \in 1 .. Len(c) : c[i] = IF i <= Len(a) THEN a[i] ELSE b[i - Len(a)]
  OBVIOUS
<1>3. /\ pa \in Seq(Q) /\ Len(pa) = Len(a) /\ \A i \in 1 .. Len(a) : pa[i] = Part(t, a[i])
      /\ pb \in Seq(Q) /\ Len(pb) = Len(b) /\ \A i \in 1 .. Len(b) : pb[i] = Part(t, b[i])
  BY PartsType
<1> HIDE DEF c
<1>4. pc \in Seq(Q) /\ Len(pc) = Len(c) /\ \A i \in 1 .. Len(c) : pc[i] = Part(t, c[i])
  BY <1>1, PartsType
<1> HIDE DEF Q, pa, pb, pc
<1>5. /\ both \in Seq(Q) /\ Len(both) = Len(pa) + Len(pb)
      /\ \A i \in 1 .. Len(pa) + Len(pb) : both[i] = IF i <= Len(pa) THEN pa[i] ELSE pb[i - Len(pa)]
  <2>1. pa \in Seq(Q) /\ pb \in Seq(Q)
    BY <1>3
  <2> QED
    BY <2>1
<1> HIDE DEF both
<1>6. pc = both
  <2>1. ASSUME NEW i \in 1 .. Len(c) PROVE pc[i] = both[i]
    <3>0. i \in 1 .. Len(pa) + Len(pb)
      BY <1>1, <1>3
    <3>1. CASE i <= Len(a)
      <4>1. i \in 1 .. Len(a)
        BY <1>1, <3>1
      <4>2. c[i] = a[i]
        BY <1>2, <3>1, Zenon
      <4>3. both[i] = pa[i]
        BY <1>3, <1>5, <3>0, <3>1, Zenon
      <4>4. pc[i] = Part(t, c[i]) /\ pa[i] = Part(t, a[i])
        BY <1>3, <1>4, <4>1, Zenon
      <4> QED
        BY <4>2, <4>3, <4>4, Zenon
    <3>2. CASE ~(i <= Len(a))
      <4>1. i - Len(a) \in 1 .. Len(b)
        BY <1>1, <3>2
      <4>2. c[i] = b[i - Len(a)] /\ both[i] = pb[i - Len(a)]
        BY <1>2, <1>3, <1>5, <3>0, <3>2, Zenon
      <4>3. pc[i] = Part(t, c[i]) /\ pb[i - Len(a)] = Part(t, b[i - Len(a)])
        BY <1>3, <1>4, <4>1
      <4> QED
        BY <4>2, <4>3, Zenon
    <3> QED
      BY <3>1, <3>2
  <2> QED
    BY <1>1, <1>3, <1>4, <1>5, <2>1, SeqEqual
<1>7. FlattenSeq(pa \o pb) = FlattenSeq(pa) \o FlattenSeq(pb)
  BY <1>3, FlattenConcat, Zenon DEF Q
<1>8. FlattenSeq(pa) \in Seq(Kinds)
  BY <1>3, FlattenType, Zenon DEF Q
<1> QED
  BY <1>6, <1>7, <1>8, Zenon DEF ShownOf, c, pa, pb, pc, both

LEMMA ShownOne ==
    ASSUME NEW t, NEW event \in Kinds
    PROVE  ShownOf(t, <<event>>) = Part(t, event)
<1>1. Parts(t, <<event>>) = <<Part(t, event)>>
  BY DEF Parts
<1>2. FlattenSeq(<<Part(t, event)>>) = Part(t, event)
  BY PartType, FlattenOne, Zenon
<1> QED
  BY <1>1, <1>2, Zenon DEF ShownOf

(* An event in hand is a sequence of one, or empty. *)
LEMMA HoldType ==
    ASSUME NEW event \in Kinds \cup {None}
    PROVE  /\ Hold(event) \in Seq(Kinds)
           /\ event = None => Hold(event) = <<>>
           /\ event # None => Hold(event) = <<event>>
<1>1. CASE event = None BY <1>1 DEF Hold
<1>2. CASE event # None
  <2>1. <<event>> \in Seq(Kinds)
    BY <1>2
  <2> QED
    BY <1>2, <2>1, Zenon DEF Hold
<1> QED BY <1>1, <1>2

LEMMA ShownType ==
    ASSUME NEW t, NEW a \in Seq(Kinds)
    PROVE  ShownOf(t, a) \in Seq(Kinds)
BY ShownConcat, Zenon

(* On a step, an event goes from the upstream to the client's side of what  *)
(* is under way, and nothing else moves.                                    *)
Way(o, g, t, c) == o \o g \o ShownOf(t, c)

Grows(o, g, t, c, e) == Way(o, g, t, c \o <<e>>) = Way(o, g, t, c) \o ShownOf(t, <<e>>)

LEMMA WayGrows ==
    ASSUME NEW o \in Seq(Kinds), NEW g \in Seq(Kinds), NEW t, NEW c \in Seq(Kinds), NEW e \in Kinds
    PROVE  Grows(o, g, t, c, e)
<1> DEFINE d == o \o g
           x == ShownOf(t, c)
           y == ShownOf(t, <<e>>)
<1>1. <<e>> \in Seq(Kinds)
  OBVIOUS
<1>2. ShownOf(t, c \o <<e>>) = x \o y
  BY <1>1, ShownConcat, Zenon
<1>3. d \in Seq(Kinds)
  OBVIOUS
<1>4. x \in Seq(Kinds) /\ y \in Seq(Kinds)
  BY <1>1, ShownType, Zenon
<1> HIDE DEF d, x, y
<1>5. Associates(d, x, y)
  BY <1>3, <1>4, ConcatAssociates, Zenon
<1> QED
  BY <1>2, <1>5, Zenon DEF Grows, Way, Associates, d, x, y

Shifts(o, t, c, e) == Way(o, <<>>, t, <<e>> \o c) = Way(o, Part(t, e), t, c)

LEMMA WayShifts ==
    ASSUME NEW o \in Seq(Kinds), NEW t, NEW c \in Seq(Kinds), NEW e \in Kinds
    PROVE  Shifts(o, t, c, e)
<1> DEFINE x == ShownOf(t, c)
           y == Part(t, e)
           one == ShownOf(t, <<e>>)
<1>1. <<e>> \in Seq(Kinds)
  OBVIOUS
<1>2. ShownOf(t, <<e>> \o c) = one \o x
  BY <1>1, ShownConcat, Zenon
<1>3. one = y
  BY ShownOne
<1>4. x \in Seq(Kinds)
  BY ShownType, Zenon
<1>5. y \in Seq(Kinds)
  BY PartType, Zenon
<1> HIDE DEF x, y, one
<1>6. o \o <<>> = o
  OBVIOUS
<1>7. Associates(o, y, x)
  BY <1>4, <1>5, ConcatAssociates, Zenon
<1> QED
  BY <1>2, <1>3, <1>6, <1>7, Zenon DEF Shifts, Way, Associates, x, y

LEMMA NothingLostStep == Inv /\ NothingLost /\ [Next]_vars => NothingLost'
<1> SUFFICES ASSUME TypeOK, Stages, NothingLost, [Next]_vars, conn' = "open" PROVE NothingLost'
  BY DEF Inv, NothingLost
<1> DEFINE now == Way(out, Hold(got), translator, chan \o Hold(pending))
           all == ShownOf(translator, decoded)
<1> SUFFICES now' = all'
  BY DEF NothingLost, Way
<1>0. /\ conn = "open" => now = all
      /\ chan \in Seq(Kinds) /\ decoded \in Seq(Kinds) /\ out \in Seq(Kinds)
      /\ got \in Kinds \cup {None} /\ pending \in Kinds \cup {None}
  BY DEF NothingLost, Way, TypeOK
<1> USE DEF producerVars, clientVars
<1>1. CASE UNCHANGED <<translator, decoded, pending, chan, got, out, conn>>
  BY <1>0, <1>1 DEF Way
<1>2. CASE Scan
  <2>1. PICK kind \in Kinds : decoded' = Append(decoded, kind) /\ pending' = kind
    BY <1>2 DEF Scan
  <2>2. pending = None /\ UNCHANGED <<translator, chan, got, out, conn>>
    BY <1>2 DEF Scan, Stages
  <2>3. Hold(pending) = <<>> /\ Hold(pending') = <<kind>> /\ Hold(got) \in Seq(Kinds)
    BY <1>0, <2>1, <2>2, HoldType, NoneAssumption DEF Kinds
  <2>4. chan \o Hold(pending) = chan /\ decoded' = decoded \o <<kind>>
    BY <1>0, <2>1, <2>3
  <2>5. now' = Way(out, Hold(got), translator, chan) \o ShownOf(translator, <<kind>>)
    <3>1. Grows(out, Hold(got), translator, chan, kind)
      BY <1>0, <2>3, WayGrows, Zenon
    <3> QED
      BY <2>2, <2>3, <3>1, Zenon DEF Grows
  <2>6. all' = ShownOf(translator, decoded) \o ShownOf(translator, <<kind>>)
    <3>1. <<kind>> \in Seq(Kinds)
      OBVIOUS
    <3> QED
      BY <1>0, <2>2, <2>4, <3>1, ShownConcat, Zenon
  <2> QED
    BY <1>0, <2>2, <2>4, <2>5, <2>6, Zenon
<1>3. CASE Send
  <2>1. /\ chan' = Append(chan, pending) /\ pending' = None /\ pending \in Kinds
        /\ UNCHANGED <<translator, decoded, got, out, conn>>
    BY <1>0, <1>3 DEF Send, Stages
  <2>2. Hold(pending) = <<pending>> /\ Hold(pending') = <<>>
    BY <2>1, HoldType, NoneAssumption DEF Kinds
  <2>3. (chan \o Hold(pending))' = chan \o Hold(pending)
    BY <1>0, <2>1, <2>2
  <2> QED
    BY <1>0, <2>1, <2>3, Zenon
<1>4. CASE Receive
  <2>1. /\ got = None /\ chan # <<>> /\ chan' = Tail(chan)
        /\ UNCHANGED <<translator, decoded, pending, out, conn>>
    BY <1>4 DEF Receive, Stages
  <2> DEFINE e == Head(chan)
             rest == chan' \o Hold(pending)
  <2>2. e \in Kinds /\ chan' \in Seq(Kinds) /\ chan = <<e>> \o chan'
    BY <1>0, <2>1
  <2>3. Hold(got) = <<>> /\ Hold(pending) \in Seq(Kinds)
    BY <1>0, <2>1, HoldType
  <2>4. rest \in Seq(Kinds) /\ chan \o Hold(pending) = <<e>> \o rest
    <3>1. <<e>> \in Seq(Kinds)
      BY <2>2
    <3> HIDE DEF e
    <3> QED
      BY <2>2, <2>3, <3>1, ConcatAssociative
  <2>5. Hold(got') = Part(translator, e)
    <3>1. e # None
      BY <2>2, NoneAssumption DEF Kinds
    <3>2. got' = IF e \in Shown(translator) THEN e ELSE None
      BY <1>4, <2>1 DEF Receive
    <3> HIDE DEF e
    <3> QED
      BY <3>1, <3>2 DEF Hold, Part
  <2> HIDE DEF e, rest
  <2>6. now = Way(out, Part(translator, e), translator, rest)
    <3>1. Shifts(out, translator, rest, e)
      BY <1>0, <2>2, <2>4, WayShifts, Zenon
    <3> QED
      BY <2>3, <2>4, <3>1, Zenon DEF Shifts
  <2> QED
    BY <1>0, <2>1, <2>5, <2>6, Zenon DEF rest
<1>5. CASE Write
  <2>1. got' = got \/ conn = "gone"
    BY <1>5 DEF Write, Stages
  <2> QED
    BY <1>1, <1>5, <2>1 DEF Write
<1>6. CASE Flush
  <2>1. /\ conn = "open" /\ out' = Append(out, got) /\ got' = None /\ got \in Kinds
        /\ UNCHANGED <<translator, decoded, pending, chan>>
    BY <1>0, <1>6 DEF Flush, Stages
  <2>2. Hold(got) = <<got>> /\ Hold(got') = <<>>
    BY <2>1, HoldType, NoneAssumption DEF Kinds
  <2>3. (out \o Hold(got))' = out \o Hold(got)
    BY <1>0, <2>1, <2>2
  <2> QED
    BY <1>0, <2>1, <2>3, Zenon DEF Way
<1>7. CASE Post \/ Finish \/ Drained \/ Mark \/ UNCHANGED vars
  BY <1>1, <1>7 DEF Post, Finish, Drained, Mark, vars
<1> QED
  BY <1>2, <1>3, <1>4, <1>5, <1>6, <1>7 DEF Next, Producer, Consumer, Disconnect

(* Nothing is lost on the way to a client that is there, for every capacity *)
(* of the channel and every answer of the upstream.                         *)
THEOREM StreamLosesNothing == Spec => []NothingLost
<1>1. Init => NothingLost
  <2> SUFFICES ASSUME Init PROVE NothingLost
    OBVIOUS
  <2>1. Hold(got) = <<>> /\ Hold(pending) = <<>> /\ out = <<>> /\ chan = <<>> /\ decoded = <<>>
    BY HoldType DEF Init
  <2>2. <<>> \o <<>> = <<>> /\ <<>> \in Seq(Kinds)
    OBVIOUS
  <2>3. <<>> \o <<>> \o ShownOf(translator, <<>>) = ShownOf(translator, <<>>)
    BY <2>2, ShownConcat
  <2> QED
    BY <2>1, <2>2, <2>3, Zenon DEF NothingLost
<1> QED
  BY <1>1, NothingLostStep, PipeInvariant, PTL DEF Spec

(* An event is dealt with: it reaches a client that is there, or nobody. *)
LEMMA DealtWith ==
    ASSUME TypeOK, Stages, InOrder, UNCHANGED <<translator, decoded, producer, conn, marked>>,
           ~marked, Taken < Len(decoded), Taken' = Taken + 1,
           \/ conn = "gone" /\ out' = out
           \/ /\ conn = "open"
              /\ out' = IF decoded[Taken + 1] \in Shown(translator)
                        THEN Append(out, decoded[Taken + 1]) ELSE out
    PROVE  [R!Next]_(R!vars)
  <1>1. CASE conn = "gone" /\ out' = out
    <2>1. R!Discard
      BY <1>1, SMT DEF R!Discard
    <2> QED
      BY <2>1 DEF R!Next
  <1>2. CASE /\ conn = "open"
             /\ out' = IF decoded[Taken + 1] \in Shown(translator)
                       THEN Append(out, decoded[Taken + 1]) ELSE out
    <2>1. R!Deliver
      BY <1>2, SMT DEF R!Deliver
    <2> QED
      BY <2>1 DEF R!Next
  <1> QED
    BY <1>1, <1>2

(* Nothing that Relay sees changes. *)
LEMMA NotSeen ==
    ASSUME UNCHANGED <<translator, decoded, producer, out, marked, conn>>, Taken' = Taken
    PROVE  [R!Next]_(R!vars)
  BY DEF R!vars

(* Every step of the pipe is one of Relay, or none. *)
LEMMA RelayStep == Inv /\ [Next]_vars => [R!Next]_(R!vars)
  <1> SUFFICES ASSUME TypeOK, Stages, InOrder, [Next]_vars PROVE [R!Next]_(R!vars)
    BY DEF Inv
  <1> USE NoneAssumption DEF producerVars, clientVars
  <1>1. CASE Post
    <2>1. R!vars' = R!vars
      BY <1>1 DEF Post, R!vars, Taken, Held
    <2> QED
      BY <2>1
  <1>2. CASE Scan
    <2>1. PICK kind \in Kinds : decoded' = Append(decoded, kind) /\ pending' = kind
      BY <1>2 DEF Scan
    <2>2. pending = None /\ kind # None /\ UNCHANGED <<chan, got>>
      BY <1>2 DEF Scan, Stages, Kinds
    <2>3. Taken' = Taken
      BY <2>1, <2>2 DEF TypeOK, Taken, Held
    <2>4. R!Produce
      BY <1>2, <2>1, <2>3 DEF Scan, R!Produce
    <2> QED
      BY <2>4 DEF R!Next
  <1>3. CASE Send
    <2>1. pending # None
      BY <1>3 DEF Send, Stages
    <2>2. Taken' = Taken
      BY <1>3, <2>1 DEF Send, TypeOK, Taken, Held
    <2>3. R!vars' = R!vars
      BY <1>3, <2>2 DEF Send, R!vars
    <2> QED
      BY <2>3
  <1>4. CASE Finish
    <2>1. R!End
      BY <1>4 DEF Finish, R!End, Taken, Held
    <2> QED
      BY <2>1 DEF R!Next
  <1>5. CASE Receive
    <2>1. /\ got = None /\ ~marked
          /\ UNCHANGED <<translator, decoded, producer, pending, out, conn, marked>>
      BY <1>5 DEF Receive, Stages
    <2>2. chan # <<>> /\ chan' = Tail(chan) /\ Head(chan) # None
      BY <1>5 DEF Receive, TypeOK, Kinds
    <2>3. CASE Head(chan) \in Shown(translator)
      <3>1. got' = Head(chan)
        BY <1>5, <2>3 DEF Receive
      <3>2. Taken' = Taken
        BY <2>1, <2>2, <3>1 DEF TypeOK, Taken, Held
      <3> QED
        BY <2>1, <3>2, NotSeen
    <2>4. CASE Head(chan) \notin Shown(translator)
      <3>1. got' = None
        BY <1>5, <2>1, <2>4 DEF Receive
      <3>2. Len(chan') = Len(chan) - 1 /\ Len(chan) > 0 /\ Head(chan) = chan[1]
        BY <2>2 DEF TypeOK
      <3>3. Taken' = Taken + 1 /\ Taken < Len(decoded)
        BY <2>1, <3>1, <3>2 DEF TypeOK, InOrder, Taken, Held
      <3>4. Head(chan) = decoded[Taken + 1]
        BY <2>1, <3>2 DEF TypeOK, InOrder, Held
      <3> QED
        BY <2>1, <2>4, <3>3, <3>4, DealtWith DEF TypeOK
    <2> QED
      BY <2>3, <2>4
  <1>6. CASE Write
    <2>1. /\ got # None /\ ~marked
          /\ UNCHANGED <<translator, decoded, producer, pending, chan, out, conn, marked>>
      BY <1>6 DEF Write, Stages
    <2>2. CASE got' = got
      <3>1. Taken' = Taken
        BY <2>1, <2>2 DEF Taken, Held
      <3> QED
        BY <2>1, <3>1, NotSeen
    <2>3. CASE got' = None /\ (sticky \/ conn = "gone")
      <3>1. Taken' = Taken + 1 /\ Taken < Len(decoded)
        BY <2>1, <2>3 DEF TypeOK, InOrder, Taken, Held
      <3>2. conn = "gone"
        BY <2>3 DEF Stages
      <3> QED
        BY <2>1, <3>1, <3>2, DealtWith
    <2> QED
      BY <1>6, <2>2, <2>3 DEF Write
  <1>7. CASE Flush
    <2>1. /\ got # None /\ got' = None /\ ~marked
          /\ UNCHANGED <<translator, decoded, producer, pending, chan, conn, marked>>
      BY <1>7 DEF Flush, Stages
    <2>2. Taken' = Taken + 1 /\ Taken < Len(decoded)
      BY <2>1 DEF TypeOK, InOrder, Taken, Held
    <2>3. got = decoded[Taken + 1] /\ got \in Shown(translator)
      BY <2>1 DEF InOrder, Stages
    <2>4. CASE conn = "open" /\ ~sticky
      <3>1. out' = Append(out, got)
        BY <1>7, <2>4 DEF Flush
      <3> QED
        BY <2>1, <2>2, <2>3, <2>4, <3>1, DealtWith
    <2>5. CASE ~(conn = "open" /\ ~sticky)
      <3>1. out' = out
        BY <1>7, <2>5 DEF Flush
      <3>2. conn = "gone"
        BY <2>5 DEF Stages, TypeOK
      <3> QED
        BY <2>1, <2>2, <3>1, <3>2, DealtWith
    <2> QED
      BY <2>4, <2>5
  <1>8. CASE Drained
    <2>1. R!vars' = R!vars
      BY <1>8 DEF Drained, R!vars, Taken, Held
    <2> QED
      BY <2>1
  <1>9. CASE Mark
    <2>1. /\ ~marked
          /\ UNCHANGED <<translator, decoded, producer, pending, chan, got, out, conn>>
      BY <1>9 DEF Mark, Stages
    <2>2. Taken' = Taken
      BY <2>1 DEF Taken, Held
    <2>3. CASE conn = "open" /\ ~sticky
      <3>1. marked'
        BY <1>9, <2>3, Zenon DEF Mark
      <3>2. producer = "done" /\ chan = <<>> /\ got = None /\ pending = None
        BY <1>9 DEF Mark, Stages
      <3>3. Taken = Len(decoded)
        BY <3>2 DEF TypeOK, Taken, Held
      <3>4. R!Finish
        BY <2>1, <2>2, <2>3, <3>1, <3>2, <3>3 DEF R!Finish
      <3> QED
        BY <3>4 DEF R!Next
    <2>4. CASE ~(conn = "open" /\ ~sticky)
      <3>1. marked' = FALSE
        BY <1>9, <2>4, Zenon DEF Mark
      <3>2. R!vars' = R!vars
        BY <2>1, <2>2, <3>1 DEF R!vars
      <3> QED
        BY <3>2
    <2> QED
      BY <2>3, <2>4
  <1>10. CASE Disconnect
    <2>1. /\ conn = "open" /\ conn' = "gone"
          /\ UNCHANGED <<translator, decoded, producer, pending, chan, got, out, marked>>
      BY <1>10 DEF Disconnect
    <2>2. Taken' = Taken
      BY <2>1 DEF Taken, Held
    <2>3. CASE marked
      <3>1. R!vars' = R!vars
        BY <2>1, <2>2, <2>3 DEF R!vars
      <3> QED
        BY <3>1
    <2>4. CASE ~marked
      <3>1. R!Cut
        BY <2>1, <2>2, <2>4 DEF R!Cut
      <3> QED
        BY <3>1 DEF R!Next
    <2> QED
      BY <2>3, <2>4
  <1>11. CASE UNCHANGED vars
    <2>1. R!vars' = R!vars
      BY <1>11 DEF vars, R!vars, Taken, Held
    <2> QED
      BY <2>1
  <1> QED
    BY <1>1, <1>2, <1>3, <1>4, <1>5, <1>6, <1>7, <1>8, <1>9, <1>10, <1>11
    DEF Next, Producer, Consumer

(* The pipe implements Relay: for every capacity and every answer of the   *)
(* upstream, a client gets the events of its format in order, none skipped *)
(* or repeated, and [DONE] only after the last.                            *)
THEOREM PipeImplementsRelay == Spec => ImplementsRelay
  <1>1. Init => R!Init
    <2> SUFFICES ASSUME Init PROVE R!Init
      OBVIOUS
    <2>1. Shown(translator) \in SUBSET Kinds
      BY DEF Init, Translators, Shown, Kinds
    <2>2. Taken = 0
      BY DEF Init, Taken, Held
    <2> QED
      BY <2>1, <2>2 DEF Init, R!Init
  <1> QED
    BY <1>1, PipeInvariant, RelayStep, PTL DEF Spec, ImplementsRelay, R!Spec

-----------------------------------------------------------------------------
Unanswered ==
    /\ phase # "answered" => cause = "none" /\ charges = 0 /\ recording = "none"
    /\ recording = "none" => cause # "served" /\ sends = 0 /\ charges = 0
    /\ recording # "none" => cause = "served"
    /\ recording = "pending" => sends < MaxSends

AnswerInv == StatusTellsFault /\ ChargedIfServed /\ Unanswered

-----------------------------------------------------------------------------
(* A step of the request is a step of its pipe, or none. *)
LEMMA StepOfPipe == [GatewayNext]_gatewayVars => [Next]_vars
BY DEF GatewayNext, gatewayVars, pipeVars, Admit, HandleCompletion, Call, CallFails, CallSucceeds,
       RecordUsage, Shutdown, PostStream, Produce, Consume, Leave, Next, Producer

(* The request implements the pipe. *)
THEOREM GatewayImplementsPipe == GatewaySpec => Spec
<1>1. GatewayInit => Init
  BY DEF GatewayInit
<1> QED
  BY <1>1, StepOfPipe, PTL DEF GatewaySpec, Spec

(* Whatever happens around it, a stream keeps its order and its end. *)
THEOREM GatewayImplementsRelay == GatewaySpec => ImplementsRelay
BY GatewayImplementsPipe, PipeImplementsRelay, PTL

-----------------------------------------------------------------------------
(* What the handler makes of an upstream's status. *)
KeepsClass(code) ==
    /\ ClientStatus(code) \in 400 .. 599
    /\ ClientStatus(code) >= 500 <=> code >= 500

LEMMA ClientStatusClass == \A code \in 200 .. 599 : KeepsClass(code)
BY DEF ClientStatus, KeepsClass

(* The types of the request, given those of the pipe. *)
LEMMA RequestTypeStep ==
    ASSUME GatewayTypeOK, AnswerInv, [GatewayNext]_gatewayVars
    PROVE  /\ phase' \in {"received", "admitted", "calling", "streaming", "answered"}
           /\ cause' \in Causes
           /\ upstream' \in UpstreamStatus \cup {0}
           /\ status' \in {0} \cup 200 .. 599
           /\ recording' \in {"none", "pending", "done", "logged", "lost"}
           /\ sends' \in 0 .. MaxSends
           /\ charges' \in 0 .. MaxSends
<1> USE DEF GatewayTypeOK
<1>1. CASE Admit
  BY <1>1 DEF Admit, Respond, respondAuthError, ValidateKey, AuthFailures, Causes
<1>2. CASE HandleCompletion
  BY <1>2 DEF HandleCompletion, Respond, mapErrorToResponse, Causes
<1>3. CASE CallFails
  <2>1. PICK failure \in CallFailures, code \in UpstreamStatus \cup {0} :
          /\ Respond(mapErrorToResponse(failure, code), failure)
          /\ failure = "refused" => code \in UpstreamStatus
          /\ upstream' = upstream \/ upstream' = code
          /\ UNCHANGED <<recording, sends, charges>>
    BY <1>3 DEF CallFails, CallFailures
  <2>2. mapErrorToResponse(failure, code) \in 200 .. 599
    <3>1. CASE failure = "refused"
      <4>1. code \in 200 .. 599
        BY <2>1, <3>1, UpstreamAssumption
      <4>2. ClientStatus(code) \in 200 .. 599
        BY <4>1 DEF ClientStatus
      <4> QED
        BY <3>1, <4>2 DEF mapErrorToResponse
    <3>2. CASE failure # "refused"
      BY <3>2 DEF mapErrorToResponse
    <3> QED
      BY <3>1, <3>2
  <2> QED
    BY <2>1, <2>2 DEF Respond, CallFailures, Causes
<1>4. CASE CallSucceeds
  BY <1>4, UpstreamAssumption DEF CallSucceeds, Respond, Causes
<1>5. CASE RecordUsage
  <2>1. sends \in Nat /\ charges \in Nat /\ charges <= sends /\ sends < MaxSends /\ MaxSends \in Nat
    BY <1>5, SendsAssumption DEF RecordUsage, AnswerInv, Unanswered, ChargedIfServed
  <2>2. /\ sends' = sends + 1
        /\ charges' \in {charges, charges + 1}
        /\ recording' \in {"done", "logged", "pending"}
        /\ UNCHANGED <<phase, cause, upstream, status>>
    BY <1>5 DEF RecordUsage
  <2> QED
    BY <2>1, <2>2
<1>6. CASE PostStream
  BY <1>6 DEF PostStream
<1>7. CASE UNCHANGED requestVars
  BY <1>7 DEF requestVars
<1>8. CASE Shutdown
  BY <1>8 DEF Shutdown
<1> QED
  BY <1>1, <1>2, <1>3, <1>4, <1>5, <1>6, <1>7, <1>8
  DEF GatewayNext, gatewayVars, Call, Produce, Consume, Leave

LEMMA GatewayTypeStep == GatewayTypeOK /\ Inv /\ AnswerInv /\ [GatewayNext]_gatewayVars => GatewayTypeOK'
BY RequestTypeStep, StepOfPipe, TypeStep DEF GatewayTypeOK, Inv

(* The answer is right when it is given, and does not change afterwards. *)
LEMMA AnswerStep ==
    GatewayTypeOK /\ AnswerInv /\ [GatewayNext]_gatewayVars => AnswerInv'
<1> SUFFICES ASSUME GatewayTypeOK, AnswerInv, [GatewayNext]_gatewayVars
             PROVE  AnswerInv'
  OBVIOUS
<1> USE DEF AnswerInv, StatusTellsFault, ServerFault, ChargedIfServed, Unanswered
<1>1. CASE Admit
  BY <1>1 DEF Admit, Respond, respondAuthError, ValidateKey, AuthFailures
<1>2. CASE HandleCompletion
  BY <1>2 DEF HandleCompletion, Respond, mapErrorToResponse
<1>3. CASE CallFails
  <2>1. PICK failure \in CallFailures, code \in UpstreamStatus \cup {0} :
          /\ Respond(mapErrorToResponse(failure, code), failure)
          /\ failure = "refused" => code \in UpstreamStatus /\ upstream' = code
          /\ UNCHANGED <<recording, sends, charges>>
    BY <1>3 DEF CallFails, CallFailures
  <2>2. /\ status' = mapErrorToResponse(failure, code) /\ cause' = failure
        /\ phase' = "answered" /\ cause = "none" /\ sends = 0 /\ charges = 0 /\ recording = "none"
    BY <1>3, <2>1 DEF CallFails, Respond
  <2>3. CASE failure = "refused"
    <3>1. code \in 200 .. 599
      BY <2>1, <2>3, UpstreamAssumption
    <3>2. KeepsClass(code)
      <4> HIDE DEF AnswerInv, StatusTellsFault, ServerFault, ChargedIfServed, Unanswered
      <4> QED
        BY <3>1, ClientStatusClass
    <3>3. status' = ClientStatus(code)
      BY <2>2, <2>3 DEF mapErrorToResponse
    <3> QED
      BY <2>1, <2>2, <2>3, <3>2, <3>3 DEF KeepsClass
  <2>4. CASE failure # "refused"
    BY <2>1, <2>2, <2>4 DEF mapErrorToResponse, CallFailures
  <2> QED
    BY <2>3, <2>4
<1>4. CASE CallSucceeds
  BY <1>4, SendsAssumption DEF CallSucceeds, Respond
<1>5. CASE RecordUsage
  <2>1. /\ sends \in Nat /\ charges \in Nat /\ charges <= sends
        /\ cause = "served" /\ phase = "answered"
    BY <1>5, SendsAssumption DEF RecordUsage, GatewayTypeOK
  <2>2. /\ sends' = sends + 1
        /\ \/ recording' = "done" /\ charges' = charges + 1
           \/ recording' = "logged" /\ charges' \in {charges, charges + 1}
           \/ recording' = "pending" /\ charges' \in {charges, charges + 1} /\ sends' < MaxSends
        /\ UNCHANGED <<phase, cause, upstream, status>>
    BY <1>5 DEF RecordUsage
  <2>3. ChargedIfServed' /\ Unanswered'
    BY <2>1, <2>2
  <2>4. StatusTellsFault'
    BY <2>2
  <2> QED
    BY <2>3, <2>4
<1>6. CASE PostStream
  BY <1>6 DEF PostStream
<1>7. CASE UNCHANGED requestVars
  BY <1>7 DEF requestVars
<1>8. CASE Shutdown
  BY <1>8 DEF Shutdown
<1> QED
  BY <1>1, <1>2, <1>3, <1>4, <1>5, <1>6, <1>7, <1>8
  DEF GatewayNext, gatewayVars, Call, Produce, Consume, Leave

LEMMA GatewayInvariant == GatewaySpec => [](GatewayTypeOK /\ Inv /\ AnswerInv)
<1>1. GatewayInit => GatewayTypeOK /\ Inv /\ AnswerInv
  <2> SUFFICES ASSUME GatewayInit PROVE GatewayTypeOK /\ Inv /\ AnswerInv
    OBVIOUS
  <2>1. Inv
    BY InitInv DEF GatewayInit
  <2>2. GatewayTypeOK
    BY <2>1, SendsAssumption DEF GatewayInit, GatewayTypeOK, Inv, Causes
  <2>3. AnswerInv
    BY DEF GatewayInit, AnswerInv, StatusTellsFault, ChargedIfServed, Unanswered
  <2> QED
    BY <2>1, <2>2, <2>3
<1>2. Inv /\ [GatewayNext]_gatewayVars => Inv'
  BY StepOfPipe, TypeStep, StagesStep, OrderStep DEF Inv
<1>3. GatewayTypeOK /\ Inv /\ AnswerInv /\ [GatewayNext]_gatewayVars => (GatewayTypeOK /\ Inv /\ AnswerInv)'
  BY <1>2, GatewayTypeStep, AnswerStep
<1> QED
  BY <1>1, <1>3, PTL DEF GatewaySpec

(* The types of a request and of its pipe. *)
THEOREM GatewayTypes == GatewaySpec => []GatewayTypeOK
BY GatewayInvariant, PTL

(* Whatever the upstream answers and wherever the request fails, the status *)
(* says on whose side the fault was, but for the two exceptions named.      *)
THEOREM StatusIsRight == GatewaySpec => []StatusTellsFault
<1>1. AnswerInv => StatusTellsFault
  BY DEF AnswerInv
<1> QED
  BY <1>1, GatewayInvariant, PTL

(* Only a served completion is charged, as often at most as its pipeline    *)
(* was sent; one that stays uncharged is on its way, logged, or lost with   *)
(* the process.                                                             *)
THEOREM ChargeIsRight == GatewaySpec => []ChargedIfServed
<1>1. AnswerInv => ChargedIfServed
  BY DEF AnswerInv
<1> QED
  BY <1>1, GatewayInvariant, PTL
=============================================================================
