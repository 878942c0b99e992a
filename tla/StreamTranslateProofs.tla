----------------------- MODULE StreamTranslateProofs -----------------------
(***************************************************************************)
(* Proofs about StreamTranslate, for any message, calls and fragments: the *)
(* table of the Responses translator is about the open calls, a client     *)
(* rebuilds the same answer from a whole stream as without streaming, and  *)
(* can tell a whole stream from a cut one.                                 *)
(*                                                                         *)
(* The text and the arguments sent so far are those of the blocks so far,  *)
(* because a block that is not a call is the last one while it is open,    *)
(* and a call's id is its own.                                             *)
(***************************************************************************)
EXTENDS StreamTranslate, SequenceLemmas

(* The blocks of the upstream's message. *)
MessageInv ==
    /\ \A i \in 1 .. Len(message) : message[i].id = None <=> message[i].kind # "tool_use"
    /\ \A i, j \in 1 .. Len(message) : message[i].kind = "tool_use" /\ i # j => message[i].id # message[j].id
    /\ \A i \in 1 .. Len(message) : message[i].kind # "tool_use" /\ ~message[i].stopped => i = Len(message)
    /\ phase # "blocks" => \A i \in 1 .. Len(message) : message[i].stopped
    /\ \A i \in Indices : IsTool(i) => translator = "responses" /\ message[i].kind = "tool_use"

(* What the blocks so far give a client. *)
BlockText(block) == IF block.kind = "text" THEN Body(block) ELSE <<>>

BlockCall(block) == IF block.kind = "tool_use" THEN <<block.id>> ELSE <<>>

TextInv == StreamedText = Collect(BlockText, message)

CallsInv == translator = "responses" => StreamedCalls = Collect(BlockCall, message)

(* The phases in which a format's last event has been sent. *)
EndPhases == {"stop"} \cup (IF translator = "openai" THEN {"delta"} ELSE {})

EndInv ==
    /\ Finished <=> phase \in EndPhases
    /\ ~over => \A j \in 1 .. Len(sent) : sent[j].type # "[DONE]"
    /\ over => Len(sent) > 0 /\ \A j \in 1 .. Len(sent) : sent[j].type = "[DONE]" <=> j = Len(sent)

CallTypes == {"added", "arguments", "done"}

(* An event about a call is about one of the message's, and only one that   *)
(* has ended is done.                                                       *)
OfBlock(event, block) ==
    /\ block.kind = "tool_use" /\ block.id = event.call
    /\ event.type = "done" => block.stopped

SentInv ==
    \A n \in 1 .. Len(sent) : sent[n].type \in CallTypes =>
        translator = "responses" /\ \E i \in 1 .. Len(message) : OfBlock(sent[n], message[i])

Announced(i) == \E n \in 1 .. Len(sent) : sent[n].type = "added" /\ sent[n].call = message[i].id

Reported(i) == \E n \in 1 .. Len(sent) : sent[n].type = "done" /\ sent[n].call = message[i].id

(* Of a call that has not been announced nothing was sent. *)
FreshInv ==
    \A call \in Calls :
        (\A i \in 1 .. Len(message) : message[i].id # call) => StreamedArguments(call) = <<>>

(* A call's arguments are those sent, and those in the table while it is open. *)
CallInv(i) ==
    /\ StreamedArguments(message[i].id) = Body(message[i])
    /\ Announced(i)
    /\ message[i].stopped => Reported(i)
    /\ ~message[i].stopped => IsTool(i) /\ blocks[i].id = message[i].id /\ blocks[i].args = Body(message[i])

TableInv ==
    translator = "responses" =>
        \A i \in 1 .. Len(message) : message[i].kind = "tool_use" => CallInv(i)

Inv == TypeOK /\ MessageInv /\ TextInv /\ CallsInv /\ EndInv /\ SentInv /\ FreshInv /\ TableInv /\ DoneRepeatsDeltas

-----------------------------------------------------------------------------
(* What is written for an event. *)
EventText(event) ==
    IF event.type = "content_block_delta" /\ event.kind = "text" THEN event.delta ELSE <<>>

Ends(event) == event.type = IF translator = "openai" THEN "message_delta" ELSE "message_stop"

Fits(event, e) ==
    /\ TextOf(e) = EventText(event)
    /\ e.type = Terminal <=> Ends(event)
    /\ e.type # "[DONE]"
    /\ e.type \in CallTypes => translator = "responses"

Writes(event) ==
    \/ Forward(event) = <<>> /\ EventText(event) = <<>> /\ ~Ends(event)
    \/ \E e \in Written : Forward(event) = <<e>> /\ Fits(event, e)

Forwarded(event) == Restrict(event, DOMAIN event \ Dropped(event))

(* The anthropic translator keeps what the others look at. *)
Alike(event) ==
    /\ Forwarded(event).type = event.type
    /\ event.type = "content_block_delta" =>
          Forwarded(event).kind = event.kind /\ Forwarded(event).delta = event.delta

LEMMA StartAlike == ASSUME NEW i, NEW kind, NEW id PROVE Alike(Start(i, kind, id))
BY DEF Alike, Forwarded, Start, Dropped, Restrict

LEMMA DeltaAlike == ASSUME NEW i, NEW kind, NEW f PROVE Alike(Delta(i, kind, f))
BY DEF Alike, Forwarded, Delta, Dropped, Restrict

LEMMA StopAlike == ASSUME NEW i PROVE Alike(Stop(i))
BY DEF Alike, Forwarded, Stop, Dropped, Restrict

LEMMA OthersAlike == Alike(MessageDelta) /\ Alike(MessageStop) /\ Alike(Error)
BY DEF Alike, Forwarded, MessageDelta, MessageStop, Error, Dropped, Restrict

UpstreamTypes ==
    {"content_block_start", "content_block_delta", "content_block_stop", "message_delta", "message_stop", "error"}

LEMMA EventTypes == \A event \in Event : event.type \in UpstreamTypes
BY DEF Event, Start, Delta, Stop, MessageDelta, MessageStop, Error, UpstreamTypes

LEMMA StartIsEvent ==
    ASSUME NEW i \in Indices, NEW kind \in BlockKinds, NEW id \in Calls \cup {None}
    PROVE  Start(i, kind, id) \in Event
BY DEF Event

LEMMA DeltaIsEvent ==
    ASSUME NEW i \in Indices, NEW kind \in BlockKinds, NEW f \in Fragments
    PROVE  Delta(i, kind, f) \in Event
BY DEF Event

LEMMA StopIsEvent == ASSUME NEW i \in Indices PROVE Stop(i) \in Event
BY DEF Event

LEMMA EventsAlike == ASSUME NEW event \in Event PROVE Alike(event)
<1>1. ASSUME NEW i \in Indices, NEW kind \in BlockKinds, NEW id \in Calls \cup {None}, event = Start(i, kind, id)
      PROVE  Alike(event)
  BY <1>1, StartAlike, Zenon
<1>2. ASSUME NEW i \in Indices, NEW kind \in BlockKinds, NEW f \in Fragments, event = Delta(i, kind, f)
      PROVE  Alike(event)
  BY <1>2, DeltaAlike, Zenon
<1>3. ASSUME NEW i \in Indices, event = Stop(i) PROVE Alike(event)
  BY <1>3, StopAlike, Zenon
<1>4. CASE event \in {MessageDelta, MessageStop, Error}
  <2>1. event = MessageDelta \/ event = MessageStop \/ event = Error
    BY <1>4
  <2> QED
    BY <2>1, OthersAlike, Zenon
<1>5. \/ \E i \in Indices, kind \in BlockKinds, id \in Calls \cup {None} : event = Start(i, kind, id)
      \/ \E i \in Indices, kind \in BlockKinds, f \in Fragments : event = Delta(i, kind, f)
      \/ \E i \in Indices : event = Stop(i)
      \/ event \in {MessageDelta, MessageStop, Error}
  BY DEF Event
<1> QED
  BY <1>1, <1>2, <1>3, <1>4, <1>5, Zenon

LEMMA AnthropicWrites ==
    ASSUME translator = "anthropic", NEW event \in Event
    PROVE  Writes(event)
<1> DEFINE e == Forwarded(event)
<1>1. Forward(event) = <<e>>
  BY DEF Forward, ForwardAnthropic, Forwarded
<1>2. e \in Written
  <2>1. ForwardAnthropic(event)[1] = e
    BY DEF ForwardAnthropic, Forwarded
  <2> QED
    BY <2>1, Zenon DEF Written
<1>3. Alike(event) /\ event.type \in UpstreamTypes
  BY EventsAlike, EventTypes, Zenon
<1>4. Fits(event, e)
  <2> HIDE DEF e
  <2>1. /\ e.type = event.type /\ event.type \in UpstreamTypes
        /\ event.type = "content_block_delta" => e.kind = event.kind /\ e.delta = event.delta
    BY <1>3, Zenon DEF Alike, e
  <2> QED
    BY <2>1 DEF Fits, TextOf, EventText, Terminal, Ends, CallTypes, UpstreamTypes
<1> HIDE DEF e
<1> QED
  BY <1>1, <1>2, <1>4, Zenon DEF Writes

LEMMA OpenAIWrites ==
    ASSUME translator = "openai", NEW event \in Event
    PROVE  Writes(event)
<1>1. event.type \in UpstreamTypes
  BY EventTypes
<1>2. CASE event.type = "content_block_delta" /\ event.kind = "text" /\ event.delta # <<>>
  <2> DEFINE e == [type |-> "content", delta |-> event.delta]
  <2>1. Forward(event) = <<e>>
    BY <1>2 DEF Forward, ForwardOpenAI
  <2>2. event.delta \in Text
    BY <1>2, FragmentsAssumption DEF Event, Start, Delta, Stop, MessageDelta, MessageStop, Error
  <2>3. e \in [type : {"content", "text"}, delta : Text]
    BY <2>2
  <2>4. Fits(event, e)
    BY <1>2 DEF Fits, TextOf, EventText, Terminal, Ends, CallTypes
  <2>5. e \in Written
    <3> HIDE DEF e
    <3> QED
      BY <2>3, Zenon DEF Written
  <2> HIDE DEF e
  <2> QED
    BY <2>1, <2>4, <2>5, Zenon DEF Writes
<1>3. CASE event.type = "message_delta"
  <2> DEFINE e == [type |-> "finish"]
  <2>1. Forward(event) = <<e>>
    BY <1>3 DEF Forward, ForwardOpenAI
  <2>3. e \in [type : {"finish", "completed", "[DONE]"}]
    OBVIOUS
  <2>4. Fits(event, e)
    BY <1>3 DEF Fits, TextOf, EventText, Terminal, Ends, CallTypes
  <2>5. e \in Written
    <3> HIDE DEF e
    <3> QED
      BY <2>3, Zenon DEF Written
  <2> HIDE DEF e
  <2> QED
    BY <2>1, <2>4, <2>5, Zenon DEF Writes
<1>4. CASE /\ ~(event.type = "content_block_delta" /\ event.kind = "text" /\ event.delta # <<>>)
           /\ event.type # "message_delta"
  <2>1. Forward(event) = <<>>
    BY <1>4 DEF Forward, ForwardOpenAI
  <2>2. EventText(event) = <<>> /\ ~Ends(event)
    BY <1>4 DEF EventText, Ends
  <2> QED
    BY <2>1, <2>2, Zenon DEF Writes
<1> QED
  BY <1>2, <1>3, <1>4

(* What the table holds of a call is the call's. *)
Tabled(i) == blocks[i].id \in Calls /\ blocks[i].args \in Text

LEMMA ToolTabled ==
    ASSUME TypeOK, MessageInv, NEW i \in Indices, IsTool(i)
    PROVE  Tabled(i)
<1>1. blocks[i] \in BlockState /\ i \in 1 .. Len(message) /\ blocks[i].id = message[i].id /\ message[i].kind = "tool_use"
  BY DEF TypeOK, IsTool, Open, MessageInv
<1>2. message[i].id \in Calls
  <2>1. message[i] \in Block
    BY <1>1 DEF TypeOK
  <2>2. message[i].id \in Calls \cup {None}
    BY <2>1 DEF Block
  <2>3. message[i].id # None
    BY <1>1 DEF MessageInv
  <2> QED
    BY <2>2, <2>3
<1> QED
  BY <1>1, <1>2 DEF Tabled, BlockState

LEMMA ResponsesWrites ==
    ASSUME translator = "responses", TypeOK, MessageInv, NEW event \in Event,
           event.type = "content_block_start" /\ event.kind = "tool_use" => event.id \in Calls
    PROVE  Writes(event)
<1> USE DEF Fits, TextOf, EventText, Terminal, Ends, CallTypes, Forward, ForwardResponses
<1>1. event.type \in UpstreamTypes
  BY EventTypes
<1>2. ASSUME NEW e \in Written, Forward(event) = <<e>>, Fits(event, e) PROVE Writes(event)
  BY <1>2, Zenon DEF Writes
<1>3. CASE event.type = "content_block_start" /\ event.kind = "tool_use"
  <2> DEFINE e == [type |-> "added", call |-> event.id]
  <2>1. Forward(event) = <<e>> /\ Fits(event, e)
    BY <1>3
  <2>2. e \in [type : {"added"}, call : Calls]
    BY <1>3
  <2> HIDE DEF e
  <2>3. e \in Written
    BY <2>2, Zenon DEF Written
  <2> QED
    BY <1>2, <2>1, <2>3, Zenon
<1>4. CASE event.type = "content_block_delta" /\ event.kind = "text"
  <2> DEFINE e == [type |-> "text", delta |-> event.delta]
  <2>1. Forward(event) = <<e>> /\ Fits(event, e)
    BY <1>4
  <2>2. event.delta \in Text
    BY <1>4, FragmentsAssumption DEF Event, Start, Delta, Stop, MessageDelta, MessageStop, Error
  <2>3. e \in [type : {"content", "text"}, delta : Text]
    BY <2>2
  <2> HIDE DEF e
  <2>4. e \in Written
    BY <2>3, Zenon DEF Written
  <2> QED
    BY <1>2, <2>1, <2>4, Zenon
<1>5. CASE event.type = "content_block_delta" /\ event.kind = "tool_use" /\ IsTool(event.index)
  <2> DEFINE e == [type |-> "arguments", call |-> blocks[event.index].id, delta |-> event.delta]
  <2>1. Forward(event) = <<e>> /\ Fits(event, e)
    BY <1>5
  <2>2. event.delta \in Text /\ event.index \in Indices
    BY <1>5, FragmentsAssumption DEF Event, Start, Delta, Stop, MessageDelta, MessageStop, Error
  <2>3. Tabled(event.index)
    BY <1>5, <2>2, ToolTabled, Zenon
  <2>4. e \in [type : {"arguments"}, call : Calls, delta : Text]
    BY <2>2, <2>3 DEF Tabled
  <2> HIDE DEF e
  <2>5. e \in Written
    BY <2>4, Zenon DEF Written
  <2> QED
    BY <1>2, <2>1, <2>5, Zenon
<1>6. CASE event.type = "content_block_stop" /\ IsTool(event.index)
  <2> DEFINE e == [type |-> "done", call |-> blocks[event.index].id, arguments |-> blocks[event.index].args]
  <2>1. Forward(event) = <<e>> /\ Fits(event, e)
    BY <1>6
  <2>2. event.index \in Indices
    BY <1>6 DEF Event, Start, Delta, Stop, MessageDelta, MessageStop, Error
  <2>3. Tabled(event.index)
    BY <1>6, <2>2, ToolTabled, Zenon
  <2>4. e \in [type : {"done"}, call : Calls, arguments : Text]
    BY <2>3 DEF Tabled
  <2> HIDE DEF e
  <2>5. e \in Written
    BY <2>4, Zenon DEF Written
  <2> QED
    BY <1>2, <2>1, <2>5, Zenon
<1>7. CASE event.type = "message_stop"
  <2> DEFINE e == [type |-> "completed"]
  <2>1. Forward(event) = <<e>> /\ Fits(event, e)
    BY <1>7
  <2>2. e \in [type : {"finish", "completed", "[DONE]"}]
    OBVIOUS
  <2> HIDE DEF e
  <2>3. e \in Written
    BY <2>2, Zenon DEF Written
  <2> QED
    BY <1>2, <2>1, <2>3, Zenon
<1>8. CASE /\ ~(event.type = "content_block_start" /\ event.kind = "tool_use")
           /\ ~(event.type = "content_block_delta" /\ event.kind = "text")
           /\ ~(event.type = "content_block_delta" /\ event.kind = "tool_use" /\ IsTool(event.index))
           /\ ~(event.type = "content_block_stop" /\ IsTool(event.index))
           /\ event.type # "message_stop"
  <2>1. Forward(event) = <<>> /\ EventText(event) = <<>> /\ ~Ends(event)
    BY <1>8
  <2> QED
    BY <2>1, Zenon DEF Writes
<1> QED
  BY <1>3, <1>4, <1>5, <1>6, <1>7, <1>8, Zenon

LEMMA AllWrite ==
    ASSUME TypeOK, MessageInv, NEW event \in Event,
           event.type = "content_block_start" /\ event.kind = "tool_use" => event.id \in Calls
    PROVE  Writes(event)
BY AnthropicWrites, OpenAIWrites, ResponsesWrites DEF TypeOK, Translators

-----------------------------------------------------------------------------
(* What is collected, as functions on what is written and on blocks. *)
TextPart == [e \in Written |-> TextOf(e)]
CallPart == [e \in Written |-> CallOf(e)]
DeltaPart(call) == [e \in Written |-> DeltaOf(call, e)]
BlockTextPart == [b \in Block |-> BlockText(b)]
BlockCallPart == [b \in Block |-> BlockCall(b)]

(* What a written event is worth. *)
Worth(e) ==
    /\ TextOf(e) \in Seq(Characters)
    /\ CallOf(e) \in Seq(Calls)
    /\ \A call : DeltaOf(call, e) \in Seq(Characters)

LEMMA DeltaTyped == ASSUME NEW event \in Event PROVE EventText(event) \in Seq(Characters)
<1>1. CASE event.type = "content_block_delta"
  <2>1. event.delta \in Text
    BY <1>1, FragmentsAssumption DEF Event, Start, Delta, Stop, MessageDelta, MessageStop, Error
  <2> QED
    BY <2>1 DEF EventText, Text
<1>2. CASE event.type # "content_block_delta"
  BY <1>2 DEF EventText
<1> QED
  BY <1>1, <1>2

LEMMA WrittenWorth == ASSUME NEW e \in Written PROVE Worth(e)
<1> USE DEF Worth, TextOf, CallOf, DeltaOf, Text
<1>1. ASSUME NEW event \in Event, e = ForwardAnthropic(event)[1] PROVE Worth(e)
  <2>1. e = Forwarded(event)
    BY <1>1 DEF ForwardAnthropic, Forwarded
  <2>2. Alike(event) /\ event.type \in UpstreamTypes
    BY EventsAlike, EventTypes, Zenon
  <2>3. EventText(event) \in Seq(Characters)
    BY DeltaTyped, Zenon
  <2>4. /\ e.type = event.type /\ event.type \in UpstreamTypes
        /\ event.type = "content_block_delta" => e.kind = event.kind /\ e.delta = event.delta
    BY <2>1, <2>2, Zenon DEF Alike
  <2> QED
    BY <2>3, <2>4 DEF EventText, UpstreamTypes
<1>2. CASE e \in [type : {"content", "text"}, delta : Text] BY <1>2
<1>3. CASE e \in [type : {"added"}, call : Calls] BY <1>3
<1>4. CASE e \in [type : {"arguments"}, call : Calls, delta : Text] BY <1>4
<1>5. CASE e \in [type : {"done"}, call : Calls, arguments : Text] BY <1>5
<1>6. CASE e \in [type : {"finish", "completed", "[DONE]"}] BY <1>6
<1> HIDE DEF Worth, Text
<1> QED
  BY <1>1, <1>2, <1>3, <1>4, <1>5, <1>6, Zenon DEF Written

LEMMA PartTypes ==
    /\ TextPart \in [Written -> Seq(Characters)]
    /\ CallPart \in [Written -> Seq(Calls)]
    /\ \A call : DeltaPart(call) \in [Written -> Seq(Characters)]
BY WrittenWorth DEF Worth, TextPart, CallPart, DeltaPart

Collects(s) ==
    /\ Collect(TextOf, s) = Collected(TextPart, s)
    /\ Collect(CallOf, s) = Collected(CallPart, s)
    /\ \A call : ArgumentsOf(call, s) = Collected(DeltaPart(call), s)

LEMMA SentCollects == ASSUME NEW s \in Seq(Written) PROVE Collects(s)
<1>1. \A i \in DOMAIN s : s[i] \in Written
  OBVIOUS
<1>2. [i \in DOMAIN s |-> TextOf(s[i])] = [i \in DOMAIN s |-> TextPart[s[i]]]
  BY <1>1 DEF TextPart
<1>3. [i \in DOMAIN s |-> CallOf(s[i])] = [i \in DOMAIN s |-> CallPart[s[i]]]
  BY <1>1 DEF CallPart
<1>4. ASSUME NEW call
      PROVE  [i \in DOMAIN s |-> DeltaOf(call, s[i])] = [i \in DOMAIN s |-> DeltaPart(call)[s[i]]]
  BY <1>1 DEF DeltaPart
<1> QED
  BY <1>2, <1>3, <1>4, Zenon DEF Collects, ArgumentsOf, Collect, Collected

(* One event more is worth that much more. *)
Adds(s, e) ==
    /\ Collect(TextOf, Append(s, e)) = Collect(TextOf, s) \o TextOf(e)
    /\ Collect(CallOf, Append(s, e)) = Collect(CallOf, s) \o CallOf(e)
    /\ \A call : ArgumentsOf(call, Append(s, e)) = ArgumentsOf(call, s) \o DeltaOf(call, e)

LEMMA SentAdds == ASSUME NEW s \in Seq(Written), NEW e \in Written PROVE Adds(s, e)
<1>1. Append(s, e) \in Seq(Written)
  OBVIOUS
<1>2. Collects(s) /\ Collects(Append(s, e))
  BY <1>1, SentCollects, Zenon
<1>3. CollectsOneMore(TextPart, s, e)
  BY PartTypes, CollectedAppend, Zenon
<1>4. CollectsOneMore(CallPart, s, e)
  BY PartTypes, CollectedAppend, Zenon
<1>5. ASSUME NEW call PROVE CollectsOneMore(DeltaPart(call), s, e)
  BY PartTypes, CollectedAppend, Zenon
<1>6. TextPart[e] = TextOf(e) /\ CallPart[e] = CallOf(e) /\ \A call : DeltaPart(call)[e] = DeltaOf(call, e)
  BY DEF TextPart, CallPart, DeltaPart
<1> QED
  BY <1>2, <1>3, <1>4, <1>5, <1>6, Zenon DEF Adds, Collects, CollectsOneMore

Totals(s) ==
    /\ Collect(TextOf, s) \in Seq(Characters)
    /\ Collect(CallOf, s) \in Seq(Calls)
    /\ \A call : ArgumentsOf(call, s) \in Seq(Characters)

LEMMA SentTotals == ASSUME NEW s \in Seq(Written) PROVE Totals(s)
<1>1. Collects(s)
  BY SentCollects, Zenon
<1>2. /\ Collected(TextPart, s) \in Seq(Characters)
      /\ Collected(CallPart, s) \in Seq(Calls)
      /\ \A call : Collected(DeltaPart(call), s) \in Seq(Characters)
  BY PartTypes, CollectedType, Zenon
<1>3. Collect(TextOf, s) \in Seq(Characters) /\ Collect(CallOf, s) \in Seq(Calls)
  BY <1>1, <1>2, Zenon DEF Collects
<1>4. ASSUME NEW call PROVE ArgumentsOf(call, s) \in Seq(Characters)
  <2>1. ArgumentsOf(call, s) = Collected(DeltaPart(call), s)
    BY <1>1, Zenon DEF Collects
  <2>2. Collected(DeltaPart(call), s) \in Seq(Characters)
    BY <1>2, Zenon
  <2> QED
    BY <2>1, <2>2, Zenon
<1> QED
  BY <1>3, <1>4, Zenon DEF Totals

-----------------------------------------------------------------------------
(* What blocks are worth. *)
LEMMA FragmentsType == Seq(Fragments) \subseteq Seq(Seq(Characters))
BY FragmentsAssumption DEF Text

LEMMA BodyType == ASSUME NEW b \in Block PROVE Body(b) \in Seq(Characters)
<1>1. b.fragments \in Seq(Seq(Characters))
  BY FragmentsType DEF Block
<1> QED
  BY <1>1, FlattenType, Zenon DEF Body

LEMMA BlockPartTypes ==
    /\ BlockTextPart \in [Block -> Seq(Characters)]
    /\ BlockCallPart \in [Block -> Seq(Calls \cup {None})]
<1>1. \A b \in Block : BlockText(b) \in Seq(Characters)
  BY BodyType DEF BlockText
<1>2. \A b \in Block : BlockCall(b) \in Seq(Calls \cup {None})
  <2> SUFFICES ASSUME NEW b \in Block PROVE BlockCall(b) \in Seq(Calls \cup {None})
    OBVIOUS
  <2>1. b.id \in Calls \cup {None}
    BY DEF Block
  <2>2. <<b.id>> \in Seq(Calls \cup {None}) /\ <<>> \in Seq(Calls \cup {None})
    BY <2>1
  <2> QED
    BY <2>2, Zenon DEF BlockCall
<1> QED
  BY <1>1, <1>2 DEF BlockTextPart, BlockCallPart

BlocksCollect(m) ==
    /\ Collect(BlockText, m) = Collected(BlockTextPart, m)
    /\ Collect(BlockCall, m) = Collected(BlockCallPart, m)

LEMMA MessageCollects == ASSUME NEW m \in Seq(Block) PROVE BlocksCollect(m)
<1>1. \A i \in DOMAIN m : m[i] \in Block
  OBVIOUS
<1>2. [i \in DOMAIN m |-> BlockText(m[i])] = [i \in DOMAIN m |-> BlockTextPart[m[i]]]
  BY <1>1 DEF BlockTextPart
<1>3. [i \in DOMAIN m |-> BlockCall(m[i])] = [i \in DOMAIN m |-> BlockCallPart[m[i]]]
  BY <1>1 DEF BlockCallPart
<1> QED
  BY <1>2, <1>3, Zenon DEF BlocksCollect, Collect, Collected

(* A new block has no text yet, and may be a call. *)
Opens(m, b) ==
    /\ Collect(BlockText, Append(m, b)) = Collect(BlockText, m)
    /\ Collect(BlockCall, Append(m, b)) = Collect(BlockCall, m) \o BlockCall(b)

LEMMA NewBlockOpens ==
    ASSUME NEW m \in Seq(Block), NEW b \in Block, b.fragments = <<>>
    PROVE  Opens(m, b)
<1>1. Append(m, b) \in Seq(Block)
  OBVIOUS
<1>2. BlocksCollect(m) /\ BlocksCollect(Append(m, b))
  BY <1>1, MessageCollects, Zenon
<1>3. CollectsOneMore(BlockTextPart, m, b)
  BY BlockPartTypes, CollectedAppend, Zenon
<1>4. CollectsOneMore(BlockCallPart, m, b)
  BY BlockPartTypes, CollectedAppend, Zenon
<1>5. BlockTextPart[b] = BlockText(b) /\ BlockCallPart[b] = BlockCall(b)
  BY DEF BlockTextPart, BlockCallPart
<1>6. BlockText(b) = <<>>
  BY FlattenEmpty DEF BlockText, Body
<1>7. Collected(BlockTextPart, m) \o <<>> = Collected(BlockTextPart, m)
  <2>1. Collected(BlockTextPart, m) \in Seq(Characters)
    BY BlockPartTypes, CollectedType, Zenon
  <2> QED
    BY <2>1
<1> QED
  BY <1>2, <1>3, <1>4, <1>5, <1>6, <1>7, Zenon DEF Opens, BlocksCollect, CollectsOneMore

(* A block that stops, or another fragment of one. *)
Changes(m, n, i) ==
    /\ Len(n) = Len(m) /\ i \in 1 .. Len(m)
    /\ \A k \in 1 .. Len(m) : k # i => n[k] = m[k]
    /\ n[i].kind = m[i].kind /\ n[i].id = m[i].id

SameText(m, n) == Collect(BlockText, n) = Collect(BlockText, m)
SameCalls(m, n) == Collect(BlockCall, n) = Collect(BlockCall, m)

LEMMA ChangeKeepsCalls ==
    ASSUME NEW m \in Seq(Block), NEW n \in Seq(Block), NEW i, Changes(m, n, i)
    PROVE  SameCalls(m, n)
<1>1. ASSUME NEW k \in 1 .. Len(m) PROVE BlockCallPart[n[k]] = BlockCallPart[m[k]]
  <2>1. n[k] \in Block /\ m[k] \in Block
    BY DEF Changes
  <2>2. n[k].kind = m[k].kind /\ n[k].id = m[k].id
    BY DEF Changes
  <2> QED
    BY <2>1, <2>2 DEF BlockCallPart, BlockCall
<1>2. CollectsSame(BlockCallPart, m, n)
  <2>1. Len(m) = Len(n)
    BY DEF Changes
  <2> QED
    BY <1>1, <2>1, BlockPartTypes, CollectedSame, Zenon
<1>3. BlocksCollect(m) /\ BlocksCollect(n)
  BY MessageCollects, Zenon
<1> QED
  BY <1>2, <1>3, Zenon DEF BlocksCollect, CollectsSame, SameCalls

LEMMA ChangeKeepsText ==
    ASSUME NEW m \in Seq(Block), NEW n \in Seq(Block), NEW i, Changes(m, n, i),
           m[i].kind # "text" \/ n[i].fragments = m[i].fragments
    PROVE  SameText(m, n)
<1>1. ASSUME NEW k \in 1 .. Len(m) PROVE BlockTextPart[n[k]] = BlockTextPart[m[k]]
  <2>1. n[k] \in Block /\ m[k] \in Block
    BY DEF Changes
  <2>2. n[k].kind = m[k].kind /\ (m[k].kind # "text" \/ n[k].fragments = m[k].fragments)
    BY DEF Changes
  <2> QED
    BY <2>1, <2>2 DEF BlockTextPart, BlockText, Body
<1>2. CollectsSame(BlockTextPart, m, n)
  <2>1. Len(m) = Len(n)
    BY DEF Changes
  <2> QED
    BY <1>1, <2>1, BlockPartTypes, CollectedSame, Zenon
<1>3. BlocksCollect(m) /\ BlocksCollect(n)
  BY MessageCollects, Zenon
<1> QED
  BY <1>2, <1>3, Zenon DEF BlocksCollect, CollectsSame, SameText

(* A fragment more of the last block. *)
BodyGrows(b, c, f) == Body(c) = Body(b) \o f

LEMMA FragmentGrows ==
    ASSUME NEW b \in Block, NEW c \in Block, NEW f \in Fragments, c.fragments = Append(b.fragments, f)
    PROVE  BodyGrows(b, c, f)
<1>1. b.fragments \in Seq(Seq(Characters)) /\ f \in Seq(Characters)
  BY FragmentsType, FragmentsAssumption DEF Block, Text
<1>2. FlattenSeq(Append(b.fragments, f)) = FlattenSeq(b.fragments) \o f
  BY <1>1, FlattenAppend, Zenon
<1> QED
  BY <1>2, Zenon DEF BodyGrows, Body

TextGrows(m, n, f) == Collect(BlockText, n) = Collect(BlockText, m) \o f

LEMMA LastTextGrows ==
    ASSUME NEW m \in Seq(Block), NEW n \in Seq(Block), Changes(m, n, Len(m)), m[Len(m)].kind = "text",
           NEW f \in Fragments, n[Len(m)].fragments = Append(m[Len(m)].fragments, f)
    PROVE  TextGrows(m, n, f)
<1> DEFINE l == Len(m) - 1
<1>1. l \in Nat /\ Len(m) = l + 1 /\ Len(n) = l + 1
  BY DEF Changes
<1>2. ASSUME NEW k \in 1 .. l PROVE BlockTextPart[m[k]] = BlockTextPart[n[k]]
  BY <1>1 DEF Changes
<1>3. f \in Seq(Characters)
  BY FragmentsAssumption DEF Text
<1>4. BlockTextPart[n[l + 1]] = BlockTextPart[m[l + 1]] \o f
  <2>1. m[l + 1] \in Block /\ n[l + 1] \in Block
    BY <1>1
  <2>2. n[l + 1].kind = "text" /\ m[l + 1].kind = "text"
    BY <1>1 DEF Changes
  <2>3. n[l + 1].fragments = Append(m[l + 1].fragments, f)
    BY <1>1
  <2> HIDE DEF l
  <2>4. BodyGrows(m[l + 1], n[l + 1], f)
    BY <2>1, <2>3, FragmentGrows, Zenon
  <2> QED
    BY <2>1, <2>2, <2>4, Zenon DEF BlockTextPart, BlockText, BodyGrows
<1> HIDE DEF l
<1>5. LastGrows(BlockTextPart, m, n, f)
  BY <1>1, <1>2, <1>3, <1>4, BlockPartTypes, CollectedLast, Zenon
<1>6. BlocksCollect(m) /\ BlocksCollect(n)
  BY MessageCollects, Zenon
<1> QED
  BY <1>5, <1>6, Zenon DEF BlocksCollect, TextGrows, LastGrows

-----------------------------------------------------------------------------
(* What a step of the upstream does. *)
Sends(event) ==
    \/ sent' = sent /\ Forward(event) = <<>> /\ EventText(event) = <<>> /\ ~Ends(event)
    \/ \E e \in Written : sent' = Append(sent, e) /\ Forward(event) = <<e>> /\ Fits(event, e)

LEMMA HandleSends ==
    ASSUME TypeOK, NEW event, Writes(event), Handle(event)
    PROVE  Sends(event)
<1>1. sent' = sent \o Forward(event) /\ sent \in Seq(Written)
  BY DEF Handle, TypeOK
<1>2. CASE Forward(event) = <<>> /\ EventText(event) = <<>> /\ ~Ends(event)
  <2>1. sent \o <<>> = sent
    BY <1>1
  <2> QED
    BY <1>1, <1>2, <2>1, Zenon DEF Sends
<1>3. ASSUME NEW e \in Written, Forward(event) = <<e>>, Fits(event, e) PROVE Sends(event)
  <2>1. sent \o <<e>> = Append(sent, e)
    BY <1>1
  <2> QED
    BY <1>1, <1>3, <2>1, Zenon DEF Sends
<1> QED
  BY <1>2, <1>3, Zenon DEF Writes

NewBlock(kind, id) == [kind |-> kind, id |-> id, fragments |-> <<>>, stopped |-> FALSE]

(* The table while the others' translators run is never looked at. *)
Tracks(event) == blocks' = IF translator = "responses" THEN Track(event) ELSE blocks

Starts(kind, id) ==
    /\ NewBlock(kind, id) \in Block /\ message' = Append(message, NewBlock(kind, id))
    /\ Len(message) + 1 \in Indices /\ Len(message) \in Nat
    /\ id = None <=> kind # "tool_use"
    /\ \A i \in 1 .. Len(message) : id = None \/ message[i].id # id
    /\ \A i \in 1 .. Len(message) : ~message[i].stopped => kind = "tool_use" /\ message[i].kind = "tool_use"
    /\ Sends(Start(Len(message) + 1, kind, id)) /\ Tracks(Start(Len(message) + 1, kind, id))
    /\ phase = "blocks" /\ ~over /\ UNCHANGED <<translator, phase, over>>

LEMMA BlockStartFacts ==
    ASSUME TypeOK, MessageInv, NEW kind \in BlockKinds, NEW id \in Calls \cup {None}, BlockStart(kind, id)
    PROVE  Starts(kind, id)
<1> DEFINE i == Len(message) + 1
           event == Start(i, kind, id)
<1>1. i \in Indices /\ Len(message) \in Nat /\ DOMAIN message = 1 .. Len(message)
  BY BoundsAssumption DEF BlockStart, TypeOK, Indices
<1>2. NewBlock(kind, id) \in Block
  BY DEF NewBlock, Block
<1>3. id = None <=> kind # "tool_use"
  BY DEF BlockStart
<1> HIDE DEF i
<1>4. event \in Event
  BY <1>1, StartIsEvent, Zenon
<1>5. event.type = "content_block_start" /\ event.kind = kind /\ event.id = id
  BY DEF Start
<1> HIDE DEF event
<1>6. Writes(event)
  BY <1>3, <1>4, <1>5, AllWrite
<1>7. Handle(event)
  BY Zenon DEF BlockStart, event, i
<1>8. Sends(event)
  BY <1>6, <1>7, HandleSends, Zenon
<1>9. Tracks(event) /\ ~over /\ UNCHANGED <<translator, over>>
  BY <1>7 DEF Handle, Tracks
<1>10. /\ \A k \in 1 .. Len(message) : id = None \/ message[k].id # id
       /\ \A k \in 1 .. Len(message) : ~message[k].stopped => kind = "tool_use" /\ message[k].kind = "tool_use"
       /\ message' = Append(message, NewBlock(kind, id)) /\ phase = "blocks" /\ phase' = phase
  BY <1>1, Zenon DEF BlockStart, Open, NewBlock
<1> QED
  BY <1>1, <1>2, <1>3, <1>8, <1>9, <1>10, Zenon DEF Starts, event, i

Appends(i, f) ==
    /\ message' \in Seq(Block) /\ Changes(message, message', i) /\ i \in Indices /\ Len(message) \in Nat
    /\ ~message[i].stopped /\ message'[i].stopped = message[i].stopped
    /\ message'[i].fragments = Append(message[i].fragments, f)
    /\ Sends(Delta(i, message[i].kind, f)) /\ Tracks(Delta(i, message[i].kind, f))
    /\ ~over /\ UNCHANGED <<translator, phase, over>>

LEMMA BlockDeltaFacts ==
    ASSUME TypeOK, MessageInv, NEW i \in Indices, NEW f \in Fragments, BlockDelta(i, f)
    PROVE  Appends(i, f)
<1> DEFINE event == Delta(i, message[i].kind, f)
           block == [message[i] EXCEPT !.fragments = Append(@, f)]
<1>1. i \in 1 .. Len(message) /\ ~message[i].stopped /\ message \in Seq(Block) /\ message[i] \in Block
  BY DEF BlockDelta, Open, TypeOK
<1>2. /\ block \in Block /\ block.fragments = Append(message[i].fragments, f)
      /\ block.kind = message[i].kind /\ block.id = message[i].id /\ block.stopped = message[i].stopped
  <2>1. Append(message[i].fragments, f) \in Seq(Fragments)
    BY <1>1 DEF Block
  <2> HIDE DEF block
  <2>2. block = [message[i] EXCEPT !.fragments = Append(message[i].fragments, f)]
    BY DEF block
  <2> QED
    BY <1>1, <2>1, <2>2 DEF Block
<1>3. message' = [message EXCEPT ![i] = block]
  BY DEF BlockDelta
<1> HIDE DEF block
<1>4. /\ message' \in Seq(Block) /\ Len(message') = Len(message) /\ message'[i] = block
      /\ \A k \in 1 .. Len(message) : k # i => message'[k] = message[k]
  BY <1>1, <1>2, <1>3
<1>5. message[i].kind \in BlockKinds
  BY <1>1 DEF Block
<1>6. event \in Event
  BY <1>5, DeltaIsEvent, Zenon
<1>7. event.type = "content_block_delta"
  BY DEF Delta
<1> HIDE DEF event
<1>8. Writes(event)
  BY <1>6, <1>7, AllWrite
<1>9. Handle(event)
  BY Zenon DEF BlockDelta, event
<1>10. Sends(event)
  BY <1>8, <1>9, HandleSends, Zenon
<1>11. Tracks(event) /\ ~over /\ UNCHANGED <<translator, over, phase>>
  BY <1>9 DEF Handle, Tracks, BlockDelta
<1>12. Changes(message, message', i)
  BY <1>1, <1>2, <1>4, Zenon DEF Changes
<1>13. Len(message) \in Nat
  BY <1>1
<1> QED
  BY <1>1, <1>2, <1>4, <1>10, <1>11, <1>12, <1>13, Zenon DEF Appends, event

Closes(i) ==
    /\ message' \in Seq(Block) /\ Changes(message, message', i) /\ i \in Indices /\ Len(message) \in Nat
    /\ ~message[i].stopped /\ message'[i].stopped = TRUE
    /\ message'[i].fragments = message[i].fragments
    /\ Sends(Stop(i)) /\ Tracks(Stop(i))
    /\ ~over /\ UNCHANGED <<translator, phase, over>>

LEMMA BlockStopFacts ==
    ASSUME TypeOK, MessageInv, NEW i \in Indices, BlockStop(i)
    PROVE  Closes(i)
<1> DEFINE event == Stop(i)
           block == [message[i] EXCEPT !.stopped = TRUE]
<1>1. i \in 1 .. Len(message) /\ ~message[i].stopped /\ message \in Seq(Block) /\ message[i] \in Block
  BY DEF BlockStop, Open, TypeOK
<1>2. /\ block \in Block /\ block.fragments = message[i].fragments
      /\ block.kind = message[i].kind /\ block.id = message[i].id /\ block.stopped = TRUE
  BY <1>1 DEF Block
<1>3. message' = [message EXCEPT ![i] = block]
  BY DEF BlockStop
<1> HIDE DEF block
<1>4. /\ message' \in Seq(Block) /\ Len(message') = Len(message) /\ message'[i] = block
      /\ \A k \in 1 .. Len(message) : k # i => message'[k] = message[k]
  BY <1>1, <1>2, <1>3
<1>6. event \in Event
  BY StopIsEvent, Zenon
<1>7. event.type = "content_block_stop"
  BY DEF Stop
<1> HIDE DEF event
<1>8. Writes(event)
  BY <1>6, <1>7, AllWrite
<1>9. Handle(event)
  BY Zenon DEF BlockStop, event
<1>10. Sends(event)
  BY <1>8, <1>9, HandleSends, Zenon
<1>11. Tracks(event) /\ ~over /\ UNCHANGED <<translator, over, phase>>
  BY <1>9 DEF Handle, Tracks, BlockStop
<1>12. Changes(message, message', i)
  BY <1>1, <1>2, <1>4, Zenon DEF Changes
<1>13. Len(message) \in Nat
  BY <1>1
<1> QED
  BY <1>1, <1>2, <1>4, <1>10, <1>11, <1>12, <1>13, Zenon DEF Closes, event

Finishes ==
    /\ \A i \in 1 .. Len(message) : message[i].stopped
    /\ \/ phase = "blocks" /\ phase' = "delta" /\ Sends(MessageDelta)
       \/ phase = "delta" /\ phase' = "stop" /\ Sends(MessageStop)
    /\ ~over /\ UNCHANGED <<translator, message, blocks, over>>

LEMMA MessageEndsFacts == ASSUME TypeOK, MessageInv, MessageEnds PROVE Finishes
<1>1. DOMAIN message = 1 .. Len(message)
  BY DEF TypeOK
<1>2. \A i \in 1 .. Len(message) : message[i].stopped
  BY <1>1, Zenon DEF MessageEnds, Open
<1>3. MessageDelta \in Event /\ MessageStop \in Event
  BY DEF Event
<1>4. MessageDelta.type = "message_delta" /\ MessageStop.type = "message_stop"
  BY DEF MessageDelta, MessageStop
<1>5. Writes(MessageDelta) /\ Writes(MessageStop)
  BY <1>3, <1>4, AllWrite
<1>6. CASE phase = "blocks" /\ phase' = "delta" /\ Handle(MessageDelta)
  <2>1. Sends(MessageDelta)
    BY <1>5, <1>6, HandleSends, Zenon
  <2> QED
    BY <1>2, <1>4, <1>6, <2>1 DEF Finishes, Handle, MessageEnds, Track
<1>7. CASE phase = "delta" /\ phase' = "stop" /\ Handle(MessageStop)
  <2>1. Sends(MessageStop)
    BY <1>5, <1>7, HandleSends, Zenon
  <2> QED
    BY <1>2, <1>4, <1>7, <2>1 DEF Finishes, Handle, MessageEnds, Track
<1> QED
  BY <1>6, <1>7, Zenon DEF MessageEnds

(* An event that is neither text, nor about a call, nor the last. *)
Neutral(e) == e \in Written /\ TextOf(e) = <<>> /\ e.type \notin CallTypes /\ e.type # Terminal

DoneMark == [type |-> "[DONE]"]

Before(s) == s = sent \/ \E e : Neutral(e) /\ e.type # "[DONE]" /\ s = Append(sent, e)

Drains ==
    /\ \E s \in Seq(Written) : Before(s) /\ sent' = Append(s, DoneMark)
    /\ Neutral(DoneMark) /\ ~over /\ over' = TRUE
    /\ UNCHANGED <<translator, message, phase, blocks>>

LEMMA EndOfStreamFacts == ASSUME TypeOK, EndOfStream PROVE Drains
<1>1. Neutral(DoneMark)
  <2>1. DoneMark \in [type : {"finish", "completed", "[DONE]"}]
    BY DEF DoneMark
  <2>2. DoneMark \in Written
    BY <2>1, Zenon DEF Written
  <2> QED
    BY <2>2 DEF Neutral, DoneMark, TextOf, CallTypes, Terminal, TypeOK, Translators
<1>2. PICK last \in {<<>>, Forward(Error)} : sent' = sent \o last \o <<[type |-> "[DONE]"]>>
  BY Zenon DEF EndOfStream
<1>3. last = <<>> \/ \E e : Neutral(e) /\ e.type # "[DONE]" /\ last = <<e>>
  <2>1. CASE translator = "anthropic"
    <3> DEFINE e == Forwarded(Error)
    <3>1. Error \in Event /\ Error.type = "error"
      BY DEF Event, Error
    <3>2. e.type = "error"
      BY <3>1, OthersAlike DEF Alike
    <3>3. ForwardAnthropic(Error)[1] = e /\ Forward(Error) = <<e>>
      BY <2>1 DEF ForwardAnthropic, Forwarded, Forward
    <3>4. e \in Written
      BY <3>1, <3>3, Zenon DEF Written
    <3> HIDE DEF e
    <3>5. Neutral(e)
      BY <2>1, <3>2, <3>4 DEF Neutral, TextOf, CallTypes, Terminal
    <3>6. e.type # "[DONE]"
      BY <3>2
    <3> QED
      BY <1>2, <3>3, <3>5, <3>6, Zenon
  <2>2. CASE translator \in {"openai", "responses"}
    <3>1. Forward(Error) = <<>>
      BY <2>2 DEF Forward, ForwardOpenAI, ForwardResponses, Error
    <3> QED
      BY <1>2, <3>1
  <2> QED
    BY <2>1, <2>2 DEF TypeOK, Translators
<1>4. sent \in Seq(Written) /\ DoneMark \in Written
  BY <1>1 DEF TypeOK, Neutral
<1>5. CASE last = <<>>
  <2>1. sent' = Append(sent, DoneMark)
    BY <1>2, <1>4, <1>5 DEF DoneMark
  <2> QED
    BY <1>1, <1>4, <2>1 DEF Drains, Before, EndOfStream
<1>6. ASSUME NEW e, Neutral(e), e.type # "[DONE]", last = <<e>> PROVE Drains
  <2>1. e \in Written
    BY <1>6 DEF Neutral
  <2>2. Append(sent, e) \in Seq(Written) /\ sent \o <<e>> = Append(sent, e)
    BY <1>4, <2>1
  <2>3. Append(sent, e) \o <<DoneMark>> = Append(Append(sent, e), DoneMark)
    BY <1>4, <2>2
  <2>4. sent' = Append(Append(sent, e), DoneMark)
    BY <1>2, <1>6, <2>2, <2>3, Zenon DEF DoneMark
  <2>5. Before(Append(sent, e))
    BY <1>6, Zenon DEF Before
  <2>6. ~over /\ over' = TRUE /\ UNCHANGED <<translator, message, phase, blocks>>
    BY DEF EndOfStream
  <2> QED
    BY <1>1, <2>2, <2>4, <2>5, <2>6, Zenon DEF Drains
<1> QED
  BY <1>3, <1>5, <1>6, Zenon

-----------------------------------------------------------------------------
(* Every step of Next is one of these. *)
LEMMA Steps ==
    ASSUME TypeOK, MessageInv, Next
    PROVE  \/ \E kind \in BlockKinds, id \in Calls \cup {None} : Starts(kind, id)
           \/ \E i \in Indices, f \in Fragments : Appends(i, f)
           \/ \E i \in Indices : Closes(i)
           \/ Finishes
           \/ Drains
<1>1. ASSUME NEW kind \in BlockKinds, NEW id \in Calls \cup {None}, BlockStart(kind, id) PROVE Starts(kind, id)
  BY <1>1, BlockStartFacts, Zenon
<1>2. ASSUME NEW i \in Indices, NEW f \in Fragments, BlockDelta(i, f) PROVE Appends(i, f)
  BY <1>2, BlockDeltaFacts, Zenon
<1>3. ASSUME NEW i \in Indices, BlockStop(i) PROVE Closes(i)
  BY <1>3, BlockStopFacts, Zenon
<1>4. MessageEnds => Finishes
  BY MessageEndsFacts, Zenon
<1>5. EndOfStream => Drains
  BY EndOfStreamFacts, Zenon
<1> QED
  BY <1>1, <1>2, <1>3, <1>4, <1>5, Zenon DEF Next

LEMMA SendsType == ASSUME TypeOK, NEW event, Sends(event) PROVE sent' \in Seq(Written)
BY DEF Sends, TypeOK

(* The Responses translator's table after each event. *)
State(kind, id) == [isTool |-> kind = "tool_use", id |-> id, args |-> <<>>]

Typed(kind, id) == State(kind, id).isTool <=> kind = "tool_use"

LEMMA StateIsTool == ASSUME NEW kind, NEW id PROVE Typed(kind, id)
<1>1. CASE kind = "tool_use"
  <2>1. (kind = "tool_use") = TRUE
    BY <1>1
  <2>2. State(kind, id) = [isTool |-> TRUE, id |-> id, args |-> <<>>]
    BY <2>1, Zenon DEF State
  <2>3. [isTool |-> TRUE, id |-> id, args |-> <<>>].isTool = TRUE
    OBVIOUS
  <2> QED
    BY <1>1, <2>2, <2>3, Zenon DEF Typed
<1>2. CASE kind # "tool_use"
  <2>1. (kind = "tool_use") = FALSE
    BY <1>2
  <2>2. State(kind, id) = [isTool |-> FALSE, id |-> id, args |-> <<>>]
    BY <2>1, Zenon DEF State
  <2>3. [isTool |-> FALSE, id |-> id, args |-> <<>>].isTool = FALSE
    OBVIOUS
  <2> QED
    BY <1>2, <2>2, <2>3, Zenon DEF Typed
<1> QED
  BY <1>1, <1>2

LEMMA TableTypes ==
    ASSUME TypeOK, NEW i \in Indices, NEW x \in {None} \cup BlockState, blocks' = [blocks EXCEPT ![i] = x]
    PROVE  /\ blocks' \in [Indices -> {None} \cup BlockState] /\ blocks'[i] = x
           /\ \A k \in Indices : k # i => blocks'[k] = blocks[k]
BY DEF TypeOK

(* Which blocks the table may have, and what it has of them. *)
Row(i) ==
    IsTool(i) => /\ translator = "responses" /\ i \in 1 .. Len(message) /\ ~message[i].stopped
                 /\ message[i].kind = "tool_use" /\ blocks[i].id = message[i].id

LEMMA Rows == ASSUME TypeOK, MessageInv PROVE \A i \in Indices : Row(i)
BY DEF TypeOK, MessageInv, Row, Open

LEMMA StartsTable ==
    ASSUME TypeOK, MessageInv, NEW kind \in BlockKinds, NEW id \in Calls \cup {None}, Starts(kind, id)
    PROVE  blocks' \in [Indices -> {None} \cup BlockState] /\ \A i \in Indices : Row(i)'
<1>0. PICK n : n = Len(message) + 1
  OBVIOUS
<1>1. /\ n \in Indices /\ n \in Nat /\ message \in Seq(Block) /\ message' = Append(message, NewBlock(kind, id))
      /\ UNCHANGED translator
  BY <1>0 DEF Starts, TypeOK, Indices
<1>2. /\ message' \in Seq(Block) /\ Len(message') = n /\ message'[n] = NewBlock(kind, id)
      /\ \A k \in 1 .. Len(message) : message'[k] = message[k]
  BY <1>0, <1>1 DEF Starts
<1>3. \A k \in Indices : Row(k)
  BY Rows, Zenon
<1>4. CASE translator # "responses"
  <2>1. blocks' = blocks
    BY <1>4 DEF Starts, Tracks
  <2> QED
    BY <1>1, <1>3, <1>4, <2>1 DEF TypeOK, Row, IsTool
<1>5. CASE translator = "responses"
  <2>1. blocks' = [blocks EXCEPT ![n] = State(kind, id)]
    BY <1>0, <1>5 DEF Starts, Tracks, Track, Start, State
  <2>2. State(kind, id) \in BlockState
    BY DEF State, BlockState, Text
  <2>3. /\ blocks' \in [Indices -> {None} \cup BlockState] /\ blocks'[n] = State(kind, id)
        /\ \A k \in Indices : k # n => blocks'[k] = blocks[k]
    BY <1>1, <2>1, <2>2, TableTypes
  <2>4. ASSUME NEW k \in Indices, k # n PROVE Row(k)'
    <3>1. IsTool(k)' <=> IsTool(k)
      BY <2>3, <2>4 DEF IsTool
    <3>2. k \in 1 .. Len(message) => k \in 1 .. Len(message') /\ message'[k] = message[k]
      BY <1>0, <1>1, <1>2
    <3> QED
      BY <1>1, <1>3, <2>3, <2>4, <3>1, <3>2, Zenon DEF Row
  <2>5. Row(n)'
    <3>1. n \in 1 .. Len(message')
      BY <1>1, <1>2
    <3>2. message'[n].kind = kind /\ message'[n].id = id /\ ~message'[n].stopped
      BY <1>2 DEF NewBlock
    <3>3. blocks'[n].isTool <=> kind = "tool_use"
      <4>1. Typed(kind, id)
        BY StateIsTool, Zenon
      <4> QED
        BY <2>3, <4>1, Zenon DEF Typed
    <3>4. blocks'[n].id = id
      BY <2>3 DEF State
    <3> QED
      BY <1>1, <1>5, <3>1, <3>2, <3>3, <3>4, Zenon DEF Row, IsTool
  <2> QED
    BY <2>3, <2>4, <2>5, Zenon
<1> QED
  BY <1>4, <1>5

LEMMA AppendsTable ==
    ASSUME TypeOK, MessageInv, NEW i \in Indices, NEW f \in Fragments, Appends(i, f)
    PROVE  blocks' \in [Indices -> {None} \cup BlockState] /\ \A k \in Indices : Row(k)'
<1>1. /\ i \in 1 .. Len(message) /\ Len(message') = Len(message) /\ UNCHANGED translator
      /\ \A k \in 1 .. Len(message) :
            message'[k].kind = message[k].kind /\ message'[k].id = message[k].id
            /\ message'[k].stopped = message[k].stopped
  BY DEF Appends, Changes
<1>2. \A k \in Indices : Row(k)
  BY Rows, Zenon
<1>3. ASSUME \A k \in Indices : (IsTool(k)' <=> IsTool(k)) /\ (IsTool(k) => blocks'[k].id = blocks[k].id)
      PROVE  \A k \in Indices : Row(k)'
  BY <1>1, <1>2, <1>3, Zenon DEF Row
<1>4. CASE blocks' = blocks
  BY <1>3, <1>4 DEF TypeOK, IsTool
<1>5. CASE IsTool(i) /\ blocks' = [blocks EXCEPT ![i].args = @ \o f]
  <2> DEFINE x == [blocks[i] EXCEPT !.args = @ \o f]
  <2>1. blocks[i] \in BlockState
    BY <1>5 DEF TypeOK, IsTool
  <2>2. blocks[i].args \o f \in Text
    <3>1. blocks[i].args \in Text /\ f \in Text
      BY <2>1, FragmentsAssumption DEF BlockState
    <3> QED
      BY <3>1 DEF Text
  <2>3. x \in BlockState /\ x.id = blocks[i].id /\ x.isTool = blocks[i].isTool /\ x # None
    <3>1. x \in BlockState
      BY <2>1, <2>2 DEF BlockState
    <3>2. x # None
      BY <3>1, NoneAssumption
    <3> QED
      BY <2>1, <3>1, <3>2 DEF BlockState
  <2>4. blocks' = [blocks EXCEPT ![i] = x]
    BY <1>5
  <2> HIDE DEF x
  <2>5. /\ blocks' \in [Indices -> {None} \cup BlockState] /\ blocks'[i] = x
        /\ \A k \in Indices : k # i => blocks'[k] = blocks[k]
    BY <2>3, <2>4, TableTypes
  <2> QED
    BY <1>3, <1>5, <2>3, <2>5 DEF IsTool
<1>6. blocks' = blocks \/ (IsTool(i) /\ blocks' = [blocks EXCEPT ![i].args = @ \o f])
  BY DEF Appends, Tracks, Track, Delta
<1> QED
  BY <1>4, <1>5, <1>6

LEMMA ClosesTable ==
    ASSUME TypeOK, MessageInv, NEW i \in Indices, Closes(i)
    PROVE  blocks' \in [Indices -> {None} \cup BlockState] /\ \A k \in Indices : Row(k)'
<1>1. /\ i \in 1 .. Len(message) /\ Len(message') = Len(message) /\ UNCHANGED translator
      /\ \A k \in 1 .. Len(message) :
            /\ message'[k].kind = message[k].kind /\ message'[k].id = message[k].id
            /\ k # i => message'[k].stopped = message[k].stopped
  BY DEF Closes, Changes
<1>2. \A k \in Indices : Row(k)
  BY Rows, Zenon
<1>3. CASE ~IsTool(i)
  <2>1. blocks' = blocks
    BY <1>3 DEF Closes, Tracks, Track, Stop
  <2>2. \A k \in Indices : IsTool(k)' => IsTool(k) /\ k # i
    BY <1>3, <2>1 DEF IsTool
  <2> QED
    BY <1>1, <1>2, <2>1, <2>2, Zenon DEF Row, TypeOK
<1>4. CASE IsTool(i)
  <2>1. translator = "responses"
    BY <1>2, <1>4 DEF Row
  <2>2. blocks' = [blocks EXCEPT ![i] = None]
    BY <1>4, <2>1 DEF Closes, Tracks, Track, Stop
  <2>3. /\ blocks' \in [Indices -> {None} \cup BlockState] /\ blocks'[i] = None
        /\ \A k \in Indices : k # i => blocks'[k] = blocks[k]
    BY <2>2, TableTypes
  <2>4. \A k \in Indices : IsTool(k)' => IsTool(k) /\ k # i /\ blocks'[k] = blocks[k]
    BY <2>3 DEF IsTool
  <2> QED
    BY <1>1, <1>2, <2>3, <2>4, Zenon DEF Row
<1> QED
  BY <1>3, <1>4

(* A step keeps the types once it keeps the message, the table and the rows. *)
Shapes ==
    /\ message' \in Seq(Block) /\ Len(message') <= MaxBlocks
    /\ blocks' \in [Indices -> {None} \cup BlockState] /\ \A i \in Indices : Row(i)'
    /\ sent' \in Seq(Written)
    /\ phase' \in {"blocks", "delta", "stop"} /\ over' \in BOOLEAN /\ translator' = translator

LEMMA ShapesType ==
    ASSUME TypeOK, Shapes
    PROVE  /\ TypeOK'
           /\ \A i \in Indices : IsTool(i)' => translator' = "responses" /\ message'[i].kind = "tool_use"
<1>1. DOMAIN message' = 1 .. Len(message')
  BY DEF Shapes
<1>2. \A i \in Indices : IsTool(i)' => Open(i)' /\ (blocks[i].id = message[i].id)'
  BY <1>1, Zenon DEF Shapes, Row, Open
<1>3. \A i \in Indices : IsTool(i)' => translator' = "responses" /\ message'[i].kind = "tool_use"
  BY Zenon DEF Shapes, Row
<1> QED
  BY <1>2, <1>3 DEF Shapes, TypeOK

Unique(m) ==
    /\ \A i \in 1 .. Len(m) : m[i].id = None <=> m[i].kind # "tool_use"
    /\ \A i, j \in 1 .. Len(m) : m[i].kind = "tool_use" /\ i # j => m[i].id # m[j].id

LastOpen(m) == \A i \in 1 .. Len(m) : m[i].kind # "tool_use" /\ ~m[i].stopped => i = Len(m)

LEMMA MessageParts == MessageInv <=>
    /\ Unique(message) /\ LastOpen(message)
    /\ phase # "blocks" => \A i \in 1 .. Len(message) : message[i].stopped
    /\ \A i \in Indices : IsTool(i) => translator = "responses" /\ message[i].kind = "tool_use"
BY DEF MessageInv, Unique, LastOpen

LEMMA MessagePartsPrimed == MessageInv' <=>
    /\ Unique(message') /\ LastOpen(message')
    /\ phase' # "blocks" => \A i \in 1 .. Len(message') : message'[i].stopped
    /\ \A i \in Indices : IsTool(i)' => translator' = "responses" /\ message'[i].kind = "tool_use"
BY DEF MessageInv, Unique, LastOpen

LEMMA StartsShapes ==
    ASSUME TypeOK, MessageInv, NEW kind \in BlockKinds, NEW id \in Calls \cup {None}, Starts(kind, id)
    PROVE  TypeOK' /\ MessageInv'
<1>1. blocks' \in [Indices -> {None} \cup BlockState] /\ \A i \in Indices : Row(i)'
  BY StartsTable, Zenon
<1>2. sent' \in Seq(Written)
  BY SendsType, Zenon DEF Starts
<1> DEFINE n == Len(message) + 1
<1>3. /\ message' \in Seq(Block) /\ Len(message') = n /\ n \in Indices /\ message'[n] = NewBlock(kind, id)
      /\ \A k \in 1 .. Len(message) : message'[k] = message[k]
      /\ Len(message) \in Nat
  BY DEF Starts, TypeOK
<1>4. Shapes
  BY <1>1, <1>2, <1>3, BoundsAssumption DEF Shapes, Starts, TypeOK, Indices
<1>5. Unique(message) /\ LastOpen(message)
  BY MessageParts, Zenon
<1>6. message'[n].kind = kind /\ message'[n].id = id /\ ~message'[n].stopped
  BY <1>3 DEF NewBlock
<1>7. \A k \in 1 .. Len(message') : k = n \/ k \in 1 .. Len(message)
  BY <1>3
<1> HIDE DEF n
<1>8. Unique(message')
  <2>1. (id = None <=> kind # "tool_use") /\ \A k \in 1 .. Len(message) : id = None \/ message[k].id # id
    BY Zenon DEF Starts
  <2>2. ASSUME NEW k \in 1 .. Len(message') PROVE message'[k].id = None <=> message'[k].kind # "tool_use"
    BY <1>3, <1>5, <1>6, <1>7, <2>1, Zenon DEF Unique
  <2>3. ASSUME NEW k \in 1 .. Len(message'), NEW l \in 1 .. Len(message'), message'[k].kind = "tool_use", k # l
        PROVE  message'[k].id # message'[l].id
    <3>1. CASE k = n
      <4>1. l \in 1 .. Len(message) /\ message'[l] = message[l]
        BY <1>3, <1>7, <2>3, <3>1, Zenon
      <4>2. message'[k].id = id /\ id # None
        BY <1>6, <2>1, <2>3, <3>1, Zenon
      <4> QED
        BY <2>1, <4>1, <4>2, Zenon
    <3>2. CASE k # n /\ l = n
      <4>1. k \in 1 .. Len(message) /\ message'[k] = message[k]
        BY <1>3, <1>7, <3>2, Zenon
      <4>2. message[k].id # None
        BY <1>5, <2>3, <4>1, Zenon DEF Unique
      <4>3. message'[k].id # id
        BY <2>1, <4>1, <4>2, Zenon
      <4> QED
        BY <1>6, <3>2, <4>3, Zenon
    <3>3. CASE k # n /\ l # n
      <4>1. /\ k \in 1 .. Len(message) /\ message'[k] = message[k]
            /\ l \in 1 .. Len(message) /\ message'[l] = message[l]
        BY <1>3, <1>7, <3>3, Zenon
      <4>2. message[k].id # message[l].id
        BY <1>5, <2>3, <4>1, Zenon DEF Unique
      <4> QED
        BY <4>1, <4>2, Zenon
    <3> QED
      BY <3>1, <3>2, <3>3
  <2> QED
    BY <2>2, <2>3, Zenon DEF Unique
<1>9. LastOpen(message')
  <2> SUFFICES ASSUME NEW k \in 1 .. Len(message'), message'[k].kind # "tool_use", ~message'[k].stopped
               PROVE  k = n
    BY <1>3 DEF LastOpen
  <2>1. CASE k \in 1 .. Len(message)
    BY <1>3, <2>1, Zenon DEF Starts
  <2> QED
    BY <1>7, <2>1
<1> QED
  BY <1>4, <1>8, <1>9, ShapesType, MessagePartsPrimed, Zenon DEF Starts

LEMMA ChangesShapes ==
    ASSUME TypeOK, MessageInv, Shapes, NEW i, Changes(message, message', i), ~message[i].stopped, phase' = phase
    PROVE  TypeOK' /\ MessageInv'
<1>1. Unique(message) /\ LastOpen(message) /\ (phase # "blocks" => \A k \in 1 .. Len(message) : message[k].stopped)
  BY MessageParts, Zenon
<1>2. /\ Len(message') = Len(message) /\ i \in 1 .. Len(message)
      /\ \A k \in 1 .. Len(message) :
            message'[k].kind = message[k].kind /\ message'[k].id = message[k].id
            /\ (~message'[k].stopped => ~message[k].stopped)
  BY DEF Changes
<1>3. Unique(message')
  <2>1. ASSUME NEW k \in 1 .. Len(message') PROVE message'[k].id = None <=> message'[k].kind # "tool_use"
    BY <1>1, <1>2, Zenon DEF Unique
  <2>2. ASSUME NEW k \in 1 .. Len(message'), NEW l \in 1 .. Len(message'), message'[k].kind = "tool_use", k # l
        PROVE  message'[k].id # message'[l].id
    <3>1. k \in 1 .. Len(message) /\ l \in 1 .. Len(message)
      BY <1>2, <2>2, Zenon
    <3>2. message[k].kind = "tool_use"
      BY <1>2, <2>2, <3>1, Zenon
    <3>3. message[k].id # message[l].id
      BY <1>1, <2>2, <3>1, <3>2, Zenon DEF Unique
    <3> QED
      BY <1>2, <3>1, <3>3, Zenon
  <2> QED
    BY <2>1, <2>2, Zenon DEF Unique
<1>4. LastOpen(message')
  BY <1>1, <1>2, Zenon DEF LastOpen
<1>5. phase' = "blocks"
  BY <1>1, <1>2, Zenon
<1> QED
  BY <1>3, <1>4, <1>5, ShapesType, MessagePartsPrimed, Zenon

LEMMA TypesKept == ASSUME TypeOK, MessageInv, Next PROVE TypeOK' /\ MessageInv'
<1>1. ASSUME NEW kind \in BlockKinds, NEW id \in Calls \cup {None}, Starts(kind, id) PROVE TypeOK' /\ MessageInv'
  BY <1>1, StartsShapes, Zenon
<1>2. ASSUME NEW i \in Indices, NEW f \in Fragments, Appends(i, f) PROVE TypeOK' /\ MessageInv'
  <2>1. sent' \in Seq(Written)
    BY <1>2, SendsType, Zenon DEF Appends
  <2>2. blocks' \in [Indices -> {None} \cup BlockState] /\ \A k \in Indices : Row(k)'
    BY <1>2, AppendsTable, Zenon
  <2>3. Shapes
    BY <1>2, <2>1, <2>2 DEF Shapes, Appends, Changes, TypeOK
  <2> QED
    BY <1>2, <2>3, ChangesShapes, Zenon DEF Appends
<1>3. ASSUME NEW i \in Indices, Closes(i) PROVE TypeOK' /\ MessageInv'
  <2>1. sent' \in Seq(Written)
    BY <1>3, SendsType, Zenon DEF Closes
  <2>2. blocks' \in [Indices -> {None} \cup BlockState] /\ \A k \in Indices : Row(k)'
    BY <1>3, ClosesTable, Zenon
  <2>3. Shapes
    BY <1>3, <2>1, <2>2 DEF Shapes, Closes, Changes, TypeOK
  <2> QED
    BY <1>3, <2>3, ChangesShapes, Zenon DEF Closes
<1>4. CASE Finishes
  <2>1. sent' \in Seq(Written)
    BY <1>4, SendsType, Zenon DEF Finishes
  <2> QED
    BY <1>4, <2>1 DEF Finishes, TypeOK, MessageInv, IsTool, Open
<1>5. CASE Drains
  <2>1. sent' \in Seq(Written)
    BY <1>5 DEF Drains, Neutral
  <2> QED
    BY <1>5, <2>1 DEF Drains, TypeOK, MessageInv, IsTool, Open
<1> QED
  BY <1>1, <1>2, <1>3, <1>4, <1>5, Steps, Zenon

-----------------------------------------------------------------------------
(* The text. *)
More(t) == Collect(TextOf, sent') = Collect(TextOf, sent) \o t

LEMMA SendsText == ASSUME TypeOK, NEW event, Sends(event) PROVE More(EventText(event))
<1>1. sent \in Seq(Written)
  BY DEF TypeOK
<1>2. Totals(sent)
  BY <1>1, SentTotals, Zenon
<1>3. CASE sent' = sent /\ EventText(event) = <<>>
  <2>1. Collect(TextOf, sent) \in Seq(Characters)
    BY <1>2, Zenon DEF Totals
  <2>2. Collect(TextOf, sent) \o <<>> = Collect(TextOf, sent)
    BY <2>1
  <2> QED
    BY <1>3, <2>2, Zenon DEF More
<1>4. ASSUME NEW e \in Written, sent' = Append(sent, e), Fits(event, e) PROVE More(EventText(event))
  <2>1. Adds(sent, e)
    BY <1>1, SentAdds, Zenon
  <2> QED
    BY <1>4, <2>1, Zenon DEF More, Adds, Fits
<1> QED
  BY <1>3, <1>4, Zenon DEF Sends

(* What is neutral adds no text. *)
SameSent(s, t) == Collect(TextOf, t) = Collect(TextOf, s)

LEMMA NeutralText == ASSUME NEW s \in Seq(Written), NEW e, Neutral(e) PROVE SameSent(s, Append(s, e))
<1>1. e \in Written /\ TextOf(e) = <<>>
  BY DEF Neutral
<1>2. Adds(s, e) /\ Totals(s)
  BY <1>1, SentAdds, SentTotals, Zenon
<1>3. ASSUME NEW S, NEW x \in Seq(S) PROVE x \o <<>> = x
  OBVIOUS
<1>4. Collect(TextOf, s) \o <<>> = Collect(TextOf, s)
  BY <1>2, <1>3, Zenon DEF Totals
<1> QED
  BY <1>1, <1>2, <1>4, Zenon DEF SameSent, Adds

LEMMA DrainsText == ASSUME TypeOK, Drains PROVE SameSent(sent, sent')
<1>1. PICK s \in Seq(Written) : Before(s) /\ sent' = Append(s, DoneMark)
  BY Zenon DEF Drains
<1>2. SameSent(s, sent')
  BY <1>1, NeutralText, Zenon DEF Drains
<1>3. SameSent(sent, s)
  <2>1. sent \in Seq(Written)
    BY DEF TypeOK
  <2>2. SameSent(sent, sent)
    BY Zenon DEF SameSent
  <2> QED
    BY <1>1, <2>1, <2>2, NeutralText, Zenon DEF Before
<1> QED
  BY <1>2, <1>3, Zenon DEF SameSent

LEMMA TextKept == ASSUME TypeOK, MessageInv, TextInv, Next PROVE TextInv'
<1> DEFINE text == Collect(TextOf, sent)
<1>1. message \in Seq(Block) /\ sent \in Seq(Written)
  BY DEF TypeOK
<1>2. Collect(TextOf, sent) = Collect(BlockText, message)
  BY Zenon DEF TextInv, StreamedText
<1>3. ASSUME Collect(TextOf, sent') = Collect(BlockText, message') PROVE TextInv'
  BY <1>3, Zenon DEF TextInv, StreamedText
<1>4. Collect(TextOf, sent) \o <<>> = Collect(TextOf, sent)
  <2>1. Totals(sent)
    BY <1>1, SentTotals, Zenon
  <2>2. text \in Seq(Characters)
    BY <2>1, Zenon DEF Totals
  <2> HIDE DEF text
  <2>3. text \o <<>> = text
    BY <2>2
  <2> QED
    BY <2>3, Zenon DEF text
<1> HIDE DEF text
<1>5. ASSUME NEW kind \in BlockKinds, NEW id \in Calls \cup {None}, Starts(kind, id) PROVE TextInv'
  <2>1. EventText(Start(Len(message) + 1, kind, id)) = <<>>
    BY DEF EventText, Start
  <2>2. More(<<>>)
    BY <1>5, <2>1, SendsText, Zenon DEF Starts
  <2>3. NewBlock(kind, id).fragments = <<>> /\ NewBlock(kind, id) \in Block
    BY <1>5 DEF NewBlock, Starts
  <2>4. Opens(message, NewBlock(kind, id))
    BY <1>1, <2>3, NewBlockOpens, Zenon
  <2> QED
    BY <1>2, <1>3, <1>4, <1>5, <2>2, <2>4, Zenon DEF Opens, More, Starts
<1>6. ASSUME NEW i \in Indices, NEW f \in Fragments, Appends(i, f) PROVE TextInv'
  <2>1. /\ message' \in Seq(Block) /\ Changes(message, message', i) /\ Sends(Delta(i, message[i].kind, f))
        /\ message'[i].fragments = Append(message[i].fragments, f) /\ ~message[i].stopped
        /\ i \in 1 .. Len(message)
    BY <1>6 DEF Appends, Changes
  <2>2. CASE message[i].kind = "text"
    <3>1. EventText(Delta(i, message[i].kind, f)) = f
      BY <2>2 DEF EventText, Delta
    <3>2. i = Len(message)
      BY <2>1, <2>2 DEF MessageInv
    <3>3. More(f)
      BY <2>1, <3>1, SendsText, Zenon
    <3>4. TextGrows(message, message', f)
      <4>1. Changes(message, message', Len(message)) /\ message[Len(message)].kind = "text"
        BY <2>1, <2>2, <3>2, Zenon
      <4>2. message'[Len(message)].fragments = Append(message[Len(message)].fragments, f)
        BY <2>1, <3>2, Zenon
      <4> QED
        BY <1>1, <2>1, <4>1, <4>2, LastTextGrows, Zenon
    <3> QED
      BY <1>2, <1>3, <3>3, <3>4, Zenon DEF More, TextGrows
  <2>3. CASE message[i].kind # "text"
    <3>1. EventText(Delta(i, message[i].kind, f)) = <<>>
      BY <2>3 DEF EventText, Delta
    <3>2. More(<<>>)
      BY <2>1, <3>1, SendsText, Zenon
    <3>3. SameText(message, message')
      BY <1>1, <2>1, <2>3, ChangeKeepsText, Zenon
    <3> QED
      BY <1>2, <1>3, <1>4, <3>2, <3>3, Zenon DEF More, SameText
  <2> QED
    BY <2>2, <2>3
<1>7. ASSUME NEW i \in Indices, Closes(i) PROVE TextInv'
  <2>1. /\ message' \in Seq(Block) /\ Changes(message, message', i) /\ Sends(Stop(i))
        /\ message'[i].fragments = message[i].fragments
    BY <1>7, Zenon DEF Closes
  <2>2. EventText(Stop(i)) = <<>>
    BY DEF EventText, Stop
  <2>3. More(<<>>)
    BY <2>1, <2>2, SendsText, Zenon
  <2>4. SameText(message, message')
    BY <1>1, <2>1, ChangeKeepsText, Zenon
  <2> QED
    BY <1>2, <1>3, <1>4, <2>3, <2>4, Zenon DEF More, SameText
<1>8. CASE Finishes
  <2>1. EventText(MessageDelta) = <<>> /\ EventText(MessageStop) = <<>>
    BY DEF EventText, MessageDelta, MessageStop
  <2>2. More(<<>>) /\ message' = message
    BY <1>8, <2>1, SendsText, Zenon DEF Finishes
  <2> QED
    BY <1>2, <1>3, <1>4, <2>2, Zenon DEF More
<1>9. CASE Drains
  BY <1>2, <1>3, <1>9, DrainsText, Zenon DEF SameSent, Drains
<1> QED
  BY <1>5, <1>6, <1>7, <1>8, <1>9, Steps, Zenon

-----------------------------------------------------------------------------
(* The end. *)
Has(s, type) == \E j \in 1 .. Len(s) : s[j].type = type

LEMMA SendsEnd ==
    ASSUME TypeOK, NEW event, Sends(event), translator' = translator
    PROVE  /\ Has(sent', Terminal') <=> Has(sent, Terminal) \/ Ends(event)
           /\ ~Has(sent, "[DONE]") => ~Has(sent', "[DONE]")
<1>1. sent \in Seq(Written) /\ Terminal' = Terminal
  BY DEF TypeOK, Terminal
<1>2. CASE sent' = sent /\ ~Ends(event)
  BY <1>1, <1>2
<1>3. ASSUME NEW e \in Written, sent' = Append(sent, e), Fits(event, e)
      PROVE  /\ Has(sent', Terminal') <=> Has(sent, Terminal) \/ Ends(event)
             /\ ~Has(sent, "[DONE]") => ~Has(sent', "[DONE]")
  <2>1. (e.type = Terminal <=> Ends(event)) /\ e.type # "[DONE]"
    BY <1>3 DEF Fits
  <2>2. /\ Len(sent) \in Nat /\ Len(sent') = Len(sent) + 1 /\ sent'[Len(sent) + 1] = e
        /\ \A j \in 1 .. Len(sent) : sent'[j] = sent[j]
    BY <1>1, <1>3
  <2>3. ASSUME NEW type PROVE Has(sent', type) <=> Has(sent, type) \/ e.type = type
    <3>1. \A j \in 1 .. Len(sent') : j \in 1 .. Len(sent) \/ j = Len(sent) + 1
      BY <2>2
    <3>2. Len(sent) + 1 \in 1 .. Len(sent') /\ \A j \in 1 .. Len(sent) : j \in 1 .. Len(sent')
      BY <2>2
    <3> QED
      BY <2>2, <3>1, <3>2, Zenon DEF Has
  <2> QED
    BY <1>1, <2>1, <2>3, Zenon
<1> QED
  BY <1>2, <1>3, Zenon DEF Sends

LEMMA DrainsEnd ==
    ASSUME TypeOK, Drains, ~Has(sent, "[DONE]")
    PROVE  /\ Has(sent', Terminal') <=> Has(sent, Terminal)
           /\ Len(sent') > 0 /\ \A j \in 1 .. Len(sent') : sent'[j].type = "[DONE]" <=> j = Len(sent')
<1>1. Terminal' = Terminal /\ sent \in Seq(Written)
  BY DEF TypeOK, Terminal, Drains
<1>2. PICK s \in Seq(Written) : Before(s) /\ sent' = Append(s, DoneMark)
  BY Zenon DEF Drains
<1>3. (Has(s, Terminal) <=> Has(sent, Terminal)) /\ ~Has(s, "[DONE]")
  <2>1. ASSUME NEW e, Neutral(e), e.type # "[DONE]", s = Append(sent, e)
        PROVE  (Has(s, Terminal) <=> Has(sent, Terminal)) /\ ~Has(s, "[DONE]")
    <3>1. e \in Written /\ e.type # Terminal
      BY <2>1 DEF Neutral
    <3>2. /\ Len(sent) \in Nat /\ Len(s) = Len(sent) + 1 /\ s[Len(sent) + 1] = e
          /\ \A j \in 1 .. Len(sent) : s[j] = sent[j]
      BY <1>1, <2>1, <3>1
    <3> QED
      BY <2>1, <3>1, <3>2 DEF Has
  <2> QED
    BY <1>2, <2>1, Zenon DEF Before
<1>4. /\ Len(s) \in Nat /\ Len(sent') = Len(s) + 1 /\ sent'[Len(s) + 1] = DoneMark
      /\ \A j \in 1 .. Len(s) : sent'[j] = s[j]
  BY <1>2 DEF Drains, Neutral
<1>5. DoneMark.type = "[DONE]" /\ DoneMark.type # Terminal
  BY DEF Drains, Neutral, DoneMark
<1>6. Has(sent', Terminal) <=> Has(s, Terminal)
  BY <1>4, <1>5 DEF Has
<1>7. ASSUME NEW j \in 1 .. Len(sent') PROVE sent'[j].type = "[DONE]" <=> j = Len(sent')
  <2>1. CASE j \in 1 .. Len(s)
    BY <1>3, <1>4, <2>1 DEF Has
  <2> QED
    BY <1>4, <1>5, <2>1
<1>8. Len(sent') > 0
  BY <1>4
<1> QED
  BY <1>1, <1>3, <1>6, <1>7, <1>8, Zenon

LEMMA EndParts == EndInv <=>
    /\ Has(sent, Terminal) <=> phase \in EndPhases
    /\ ~over => ~Has(sent, "[DONE]")
    /\ over => Len(sent) > 0 /\ \A j \in 1 .. Len(sent) : sent[j].type = "[DONE]" <=> j = Len(sent)
BY DEF EndInv, Has, Finished

LEMMA EndPartsPrimed == EndInv' <=>
    /\ Has(sent', Terminal') <=> phase' \in EndPhases'
    /\ ~over' => ~Has(sent', "[DONE]")
    /\ over' => Len(sent') > 0 /\ \A j \in 1 .. Len(sent') : sent'[j].type = "[DONE]" <=> j = Len(sent')
BY DEF EndInv, Has, Finished

LEMMA EndKept == ASSUME TypeOK, MessageInv, EndInv, Next PROVE EndInv'
<1>1. /\ Has(sent, Terminal) <=> phase \in EndPhases
      /\ ~over => ~Has(sent, "[DONE]")
  BY EndParts, Zenon
<1>2. ASSUME NEW event, Sends(event), translator' = translator, ~over, over' = over,
             phase' \in EndPhases' <=> phase \in EndPhases \/ Ends(event)
      PROVE  EndInv'
  BY <1>1, <1>2, SendsEnd, EndPartsPrimed, Zenon
<1>3. ASSUME NEW kind \in BlockKinds, NEW id \in Calls \cup {None}, Starts(kind, id) PROVE EndInv'
  <2>1. ~Ends(Start(Len(message) + 1, kind, id))
    BY DEF Ends, Start
  <2>2. phase' \in EndPhases' <=> phase \in EndPhases
    BY <1>3, Zenon DEF EndPhases, Starts
  <2> QED
    BY <1>2, <1>3, <2>1, <2>2, Zenon DEF Starts
<1>4. ASSUME NEW i \in Indices, NEW f \in Fragments, Appends(i, f) PROVE EndInv'
  <2>1. ~Ends(Delta(i, message[i].kind, f))
    BY DEF Ends, Delta
  <2>2. phase' \in EndPhases' <=> phase \in EndPhases
    BY <1>4, Zenon DEF EndPhases, Appends
  <2> QED
    BY <1>2, <1>4, <2>1, <2>2, Zenon DEF Appends
<1>5. ASSUME NEW i \in Indices, Closes(i) PROVE EndInv'
  <2>1. ~Ends(Stop(i))
    BY DEF Ends, Stop
  <2>2. phase' \in EndPhases' <=> phase \in EndPhases
    BY <1>5, Zenon DEF EndPhases, Closes
  <2> QED
    BY <1>2, <1>5, <2>1, <2>2, Zenon DEF Closes
<1>6. CASE Finishes
  <2>1. (Ends(MessageDelta) <=> translator = "openai") /\ (Ends(MessageStop) <=> translator # "openai")
    BY DEF Ends, MessageDelta, MessageStop
  <2>2. CASE phase = "blocks" /\ phase' = "delta" /\ Sends(MessageDelta)
    <3>1. phase' \in EndPhases' <=> phase \in EndPhases \/ Ends(MessageDelta)
      BY <1>6, <2>1, <2>2 DEF EndPhases, Finishes
    <3> QED
      BY <1>2, <1>6, <2>2, <3>1, Zenon DEF Finishes
  <2>3. CASE phase = "delta" /\ phase' = "stop" /\ Sends(MessageStop)
    <3>1. phase' \in EndPhases' <=> phase \in EndPhases \/ Ends(MessageStop)
      BY <1>6, <2>1, <2>3 DEF EndPhases, Finishes
    <3> QED
      BY <1>2, <1>6, <2>3, <3>1, Zenon DEF Finishes
  <2> QED
    BY <1>6, <2>2, <2>3, Zenon DEF Finishes
<1>7. CASE Drains
  <2>1. ~Has(sent, "[DONE]")
    BY <1>1, <1>7 DEF Drains
  <2>2. /\ Has(sent', Terminal') <=> Has(sent, Terminal)
        /\ Len(sent') > 0 /\ \A j \in 1 .. Len(sent') : sent'[j].type = "[DONE]" <=> j = Len(sent')
    BY <1>7, <2>1, DrainsEnd, Zenon
  <2>3. (phase' \in EndPhases' <=> phase \in EndPhases) /\ over'
    BY <1>7, Zenon DEF EndPhases, Drains
  <2> QED
    BY <1>1, <2>2, <2>3, EndPartsPrimed, Zenon
<1> QED
  BY <1>3, <1>4, <1>5, <1>6, <1>7, Steps, Zenon

-----------------------------------------------------------------------------
(* The calls: most events say nothing about any. *)
Alongside(s, t) ==
    /\ Len(s) \in Nat /\ \A n \in 1 .. Len(s) : n \in 1 .. Len(t) /\ t[n] = s[n]
    /\ \A n \in 1 .. Len(t) : t[n].type \in CallTypes => n \in 1 .. Len(s)
    /\ Collect(CallOf, t) = Collect(CallOf, s)
    /\ \A call : ArgumentsOf(call, t) = ArgumentsOf(call, s)

Silent == Alongside(sent, sent')

LEMMA AlongsideSelf == ASSUME NEW s \in Seq(Written) PROVE Alongside(s, s)
<1>1. Len(s) \in Nat
  OBVIOUS
<1> QED
  BY <1>1, Zenon DEF Alongside

LEMMA AlongsideOne ==
    ASSUME NEW s \in Seq(Written), NEW e \in Written, e.type \notin CallTypes
    PROVE  Alongside(s, Append(s, e))
<1> DEFINE t == Append(s, e)
<1>1. CallOf(e) = <<>> /\ \A call : DeltaOf(call, e) = <<>>
  BY DEF CallOf, DeltaOf, CallTypes
<1>2. Adds(s, e)
  BY SentAdds, Zenon
<1>3. Totals(s)
  BY SentTotals, Zenon
<1>4. ASSUME NEW S, NEW x \in Seq(S) PROVE x \o <<>> = x
  OBVIOUS
<1>5. Collect(CallOf, s) \o <<>> = Collect(CallOf, s)
  BY <1>3, <1>4, Zenon DEF Totals
<1>6. ASSUME NEW call PROVE ArgumentsOf(call, s) \o <<>> = ArgumentsOf(call, s)
  BY <1>3, <1>4, Zenon DEF Totals
<1>7. /\ Len(s) \in Nat /\ \A n \in 1 .. Len(s) : n \in 1 .. Len(t) /\ t[n] = s[n]
      /\ \A n \in 1 .. Len(t) : t[n].type \in CallTypes => n \in 1 .. Len(s)
  OBVIOUS
<1> HIDE DEF t
<1> QED
  BY <1>1, <1>2, <1>5, <1>6, <1>7, Zenon DEF Alongside, Adds, t

LEMMA AlongsideTwo ==
    ASSUME NEW s, NEW t, NEW u, Alongside(s, t), Alongside(t, u)
    PROVE  Alongside(s, u)
<1>1. \A call : ArgumentsOf(call, u) = ArgumentsOf(call, s)
  BY Zenon DEF Alongside
<1> QED
  BY <1>1, Zenon DEF Alongside

LEMMA SendsSilent ==
    ASSUME TypeOK, NEW event, Sends(event), \A e : Forward(event) = <<e>> => e.type \notin CallTypes
    PROVE  Silent
<1>1. sent \in Seq(Written)
  BY DEF TypeOK
<1>2. CASE sent' = sent
  BY <1>1, <1>2, AlongsideSelf, Zenon DEF Silent
<1>3. ASSUME NEW e \in Written, sent' = Append(sent, e), Forward(event) = <<e>> PROVE Silent
  BY <1>1, <1>3, AlongsideOne, Zenon DEF Silent
<1> QED
  BY <1>2, <1>3, Zenon DEF Sends

LEMMA OthersSilent == ASSUME TypeOK, NEW event, Sends(event), translator # "responses" PROVE Silent
<1>1. sent \in Seq(Written)
  BY DEF TypeOK
<1>2. CASE sent' = sent
  BY <1>1, <1>2, AlongsideSelf, Zenon DEF Silent
<1>3. ASSUME NEW e \in Written, sent' = Append(sent, e), Fits(event, e) PROVE Silent
  <2>1. e.type \notin CallTypes
    BY <1>3 DEF Fits
  <2> QED
    BY <1>1, <1>3, <2>1, AlongsideOne, Zenon DEF Silent
<1> QED
  BY <1>2, <1>3, Zenon DEF Sends

LEMMA FinishesSilent == ASSUME TypeOK, Finishes PROVE Silent
<1>1. ASSUME NEW event, Sends(event), event.type \in {"message_delta", "message_stop"} PROVE Silent
  <2>1. CASE translator # "responses"
    BY <1>1, <2>1, OthersSilent, Zenon
  <2>2. CASE translator = "responses"
    <3>1. \A e : Forward(event) = <<e>> => e.type \notin CallTypes
      BY <1>1, <2>2 DEF Forward, ForwardResponses, CallTypes
    <3> QED
      BY <1>1, <3>1, SendsSilent, Zenon
  <2> QED
    BY <2>1, <2>2
<1>2. MessageDelta.type \in {"message_delta", "message_stop"} /\ MessageStop.type \in {"message_delta", "message_stop"}
  BY DEF MessageDelta, MessageStop
<1> QED
  BY <1>1, <1>2, Zenon DEF Finishes

LEMMA DrainsSilent == ASSUME TypeOK, Drains PROVE Silent
<1>1. PICK s \in Seq(Written) : Before(s) /\ sent' = Append(s, DoneMark)
  BY Zenon DEF Drains
<1>2. sent \in Seq(Written) /\ DoneMark \in Written /\ DoneMark.type \notin CallTypes
  BY DEF TypeOK, Drains, Neutral
<1>3. Alongside(s, sent')
  BY <1>1, <1>2, AlongsideOne, Zenon
<1>4. Alongside(sent, s)
  <2>1. CASE s = sent
    BY <1>2, <2>1, AlongsideSelf, Zenon
  <2>2. ASSUME NEW e, Neutral(e), s = Append(sent, e) PROVE Alongside(sent, s)
    <3>1. e \in Written /\ e.type \notin CallTypes
      BY <2>2, Zenon DEF Neutral
    <3> QED
      BY <1>2, <2>2, <3>1, AlongsideOne, Zenon
  <2> QED
    BY <1>1, <2>1, <2>2, Zenon DEF Before
<1> QED
  BY <1>3, <1>4, AlongsideTwo, Zenon DEF Silent

(* The others are about one call. *)
Tells(e) ==
    /\ e \in Written /\ Len(sent) \in Nat /\ Len(sent') = Len(sent) + 1 /\ sent'[Len(sent) + 1] = e
    /\ \A n \in 1 .. Len(sent) : sent'[n] = sent[n]
    /\ Collect(CallOf, sent') = Collect(CallOf, sent) \o CallOf(e)
    /\ \A call : ArgumentsOf(call, sent') = ArgumentsOf(call, sent) \o DeltaOf(call, e)

LEMMA SendsTells == ASSUME TypeOK, NEW event, Sends(event), NEW e, Forward(event) = <<e>> PROVE Tells(e)
<1>1. sent \in Seq(Written) /\ Forward(event) # <<>>
  BY DEF TypeOK
<1>2. PICK d \in Written : sent' = Append(sent, d) /\ Forward(event) = <<d>>
  BY <1>1, Zenon DEF Sends
<1>3. d = e
  BY <1>2
<1>4. Adds(sent, e)
  BY <1>1, <1>2, <1>3, SentAdds, Zenon
<1>5. /\ Len(sent) \in Nat /\ Len(sent') = Len(sent) + 1 /\ sent'[Len(sent) + 1] = e
      /\ \A n \in 1 .. Len(sent) : sent'[n] = sent[n]
  BY <1>1, <1>2, <1>3
<1> QED
  BY <1>2, <1>3, <1>4, <1>5, Zenon DEF Tells, Adds

ToldAdded(id) == [type |-> "added", call |-> id]
ToldArguments(id, f) == [type |-> "arguments", call |-> id, delta |-> f]
ToldDone(id, args) == [type |-> "done", call |-> id, arguments |-> args]

LEMMA StartsTells ==
    ASSUME TypeOK, NEW kind, NEW id, Starts(kind, id)
    PROVE  IF translator = "responses" /\ kind = "tool_use" THEN Tells(ToldAdded(id)) ELSE Silent
<1> DEFINE event == Start(Len(message) + 1, kind, id)
<1>1. Sends(event)
  BY Zenon DEF Starts
<1>2. event.type = "content_block_start" /\ event.kind = kind /\ event.id = id
  BY DEF Start
<1> HIDE DEF event
<1>3. CASE translator = "responses" /\ kind = "tool_use"
  <2>1. Forward(event) = <<ToldAdded(id)>>
    BY <1>2, <1>3 DEF Forward, ForwardResponses, ToldAdded
  <2> QED
    BY <1>1, <1>3, <2>1, SendsTells, Zenon
<1>4. CASE translator = "responses" /\ kind # "tool_use"
  <2>1. \A e : Forward(event) = <<e>> => e.type \notin CallTypes
    BY <1>2, <1>4 DEF Forward, ForwardResponses
  <2> QED
    BY <1>1, <1>4, <2>1, SendsSilent, Zenon
<1>5. CASE translator # "responses"
  BY <1>1, <1>5, OthersSilent, Zenon
<1> QED
  BY <1>3, <1>4, <1>5

LEMMA AppendsTells ==
    ASSUME TypeOK, NEW i \in Indices, NEW f \in Fragments, Appends(i, f),
           translator = "responses" /\ message[i].kind = "tool_use" => IsTool(i) /\ blocks[i].id = message[i].id
    PROVE  IF translator = "responses" /\ message[i].kind = "tool_use"
           THEN Tells(ToldArguments(message[i].id, f)) ELSE Silent
<1> DEFINE event == Delta(i, message[i].kind, f)
<1>1. Sends(event)
  BY Zenon DEF Appends
<1>2. event.type = "content_block_delta" /\ event.kind = message[i].kind /\ event.index = i /\ event.delta = f
  BY DEF Delta
<1> HIDE DEF event
<1>3. CASE translator = "responses" /\ message[i].kind = "tool_use"
  <2>1. Forward(event) = <<ToldArguments(message[i].id, f)>>
    BY <1>2, <1>3 DEF Forward, ForwardResponses, ToldArguments
  <2> QED
    BY <1>1, <1>3, <2>1, SendsTells, Zenon
<1>4. CASE translator = "responses" /\ message[i].kind # "tool_use"
  <2>1. \A e : Forward(event) = <<e>> => e.type \notin CallTypes
    BY <1>2, <1>4 DEF Forward, ForwardResponses, CallTypes
  <2> QED
    BY <1>1, <1>4, <2>1, SendsSilent, Zenon
<1>5. CASE translator # "responses"
  BY <1>1, <1>5, OthersSilent, Zenon
<1> QED
  BY <1>3, <1>4, <1>5

LEMMA ClosesTells ==
    ASSUME TypeOK, MessageInv, NEW i \in Indices, Closes(i),
           translator = "responses" /\ message[i].kind = "tool_use"
               => IsTool(i) /\ blocks[i].id = message[i].id /\ blocks[i].args = Body(message[i])
    PROVE  IF translator = "responses" /\ message[i].kind = "tool_use"
           THEN Tells(ToldDone(message[i].id, Body(message[i]))) ELSE Silent
<1> DEFINE event == Stop(i)
<1>1. Sends(event)
  BY Zenon DEF Closes
<1>2. event.type = "content_block_stop" /\ event.index = i
  BY DEF Stop
<1> HIDE DEF event
<1>3. CASE translator = "responses" /\ message[i].kind = "tool_use"
  <2>1. Forward(event) = <<ToldDone(message[i].id, Body(message[i]))>>
    BY <1>2, <1>3 DEF Forward, ForwardResponses, ToldDone
  <2> QED
    BY <1>1, <1>3, <2>1, SendsTells, Zenon
<1>4. CASE translator = "responses" /\ message[i].kind # "tool_use"
  <2>1. ~IsTool(i)
    BY <1>4 DEF MessageInv
  <2>2. \A e : Forward(event) = <<e>> => e.type \notin CallTypes
    BY <1>2, <1>4, <2>1 DEF Forward, ForwardResponses, CallTypes
  <2> QED
    BY <1>1, <1>4, <2>2, SendsSilent, Zenon
<1>5. CASE translator # "responses"
  BY <1>1, <1>5, OthersSilent, Zenon
<1> QED
  BY <1>3, <1>4, <1>5

(* The blocks go on, and what was sent stays. *)
Advances ==
    /\ translator' = translator
    /\ \A k \in 1 .. Len(message) :
          /\ k \in 1 .. Len(message') /\ message'[k].kind = message[k].kind /\ message'[k].id = message[k].id
          /\ message[k].stopped => message'[k].stopped

LEMMA StartsAdvances == ASSUME TypeOK, NEW kind, NEW id, Starts(kind, id) PROVE Advances
<1>1. message \in Seq(Block) /\ message' = Append(message, NewBlock(kind, id)) /\ translator' = translator
  BY DEF TypeOK, Starts
<1> QED
  BY <1>1 DEF Advances

LEMMA ChangesAdvances ==
    ASSUME NEW i, Changes(message, message', i), ~message[i].stopped, translator' = translator
    PROVE  Advances
BY DEF Changes, Advances

LEMMA SilentSent == ASSUME Advances, Silent, SentInv PROVE SentInv'
<1> SUFFICES ASSUME NEW n \in 1 .. Len(sent'), sent'[n].type \in CallTypes
             PROVE  translator' = "responses" /\ \E i \in 1 .. Len(message') : OfBlock(sent'[n], message'[i])
  BY DEF SentInv, CallTypes, OfBlock
<1>1. n \in 1 .. Len(sent) /\ sent'[n] = sent[n]
  BY Zenon DEF Silent, Alongside
<1>2. PICK i \in 1 .. Len(message) : translator = "responses" /\ OfBlock(sent[n], message[i])
  BY <1>1, Zenon DEF SentInv
<1> QED
  BY <1>1, <1>2, Zenon DEF Advances, OfBlock

LEMMA TellsSent ==
    ASSUME Advances, NEW e, Tells(e), translator = "responses", SentInv,
           NEW k \in 1 .. Len(message'), OfBlock(e, message'[k])
    PROVE  SentInv'
<1> SUFFICES ASSUME NEW n \in 1 .. Len(sent'), sent'[n].type \in CallTypes
             PROVE  translator' = "responses" /\ \E i \in 1 .. Len(message') : OfBlock(sent'[n], message'[i])
  BY DEF SentInv, CallTypes, OfBlock
<1>1. CASE n \in 1 .. Len(sent)
  <2>1. sent'[n] = sent[n]
    BY <1>1 DEF Tells
  <2>2. PICK i \in 1 .. Len(message) : OfBlock(sent[n], message[i])
    BY <1>1, <2>1, Zenon DEF SentInv
  <2> QED
    BY <2>1, <2>2, Zenon DEF Advances, OfBlock
<1>2. CASE sent'[n] = e
  BY <1>2, Zenon DEF Advances
<1>3. n \in 1 .. Len(sent) \/ sent'[n] = e
  BY DEF Tells
<1> QED
  BY <1>1, <1>2, <1>3

LEMMA SilentFresh == ASSUME Advances, Silent, FreshInv PROVE FreshInv'
<1> SUFFICES ASSUME NEW call \in Calls, \A i \in 1 .. Len(message') : message'[i].id # call
             PROVE  ArgumentsOf(call, sent') = <<>>
  BY Zenon DEF FreshInv, StreamedArguments
<1>1. \A i \in 1 .. Len(message) : message[i].id # call
  BY Zenon DEF Advances
<1>2. ArgumentsOf(call, sent) = <<>>
  BY <1>1, Zenon DEF FreshInv, StreamedArguments
<1> QED
  BY <1>2, Zenon DEF Silent, Alongside

LEMMA TellsFresh ==
    ASSUME Advances, NEW e, Tells(e), FreshInv, NEW k \in 1 .. Len(message'), OfBlock(e, message'[k])
    PROVE  FreshInv'
<1> SUFFICES ASSUME NEW call \in Calls, \A i \in 1 .. Len(message') : message'[i].id # call
             PROVE  ArgumentsOf(call, sent') = <<>>
  BY Zenon DEF FreshInv, StreamedArguments
<1>1. \A i \in 1 .. Len(message) : message[i].id # call
  BY Zenon DEF Advances
<1>2. ArgumentsOf(call, sent) = <<>>
  BY <1>1, Zenon DEF FreshInv, StreamedArguments
<1>3. DeltaOf(call, e) = <<>>
  BY DEF DeltaOf, OfBlock
<1>4. ArgumentsOf(call, sent') = <<>> \o <<>>
  BY <1>2, <1>3, Zenon DEF Tells
<1> QED
  BY <1>4

(* Done repeats deltas, of any sequence. *)
DoneAt(s, j) ==
    s[j].type = "done" =>
        /\ s[j].arguments = ArgumentsOf(s[j].call, s)
        /\ \E n \in 1 .. Len(s) : n < j /\ s[n].type = "added" /\ s[n].call = s[j].call
        /\ \A n \in 1 .. Len(s) : s[n].type \in CallTypes /\ s[n].call = s[j].call => n <= j

LEMMA DoneParts == ASSUME TypeOK PROVE DoneRepeatsDeltas <=> \A j \in 1 .. Len(sent) : DoneAt(sent, j)
<1>1. DOMAIN sent = 1 .. Len(sent)
  BY DEF TypeOK
<1> QED
  BY <1>1, Zenon DEF DoneRepeatsDeltas, DoneAt, CallTypes, StreamedArguments

LEMMA DonePartsPrimed ==
    ASSUME TypeOK' PROVE DoneRepeatsDeltas' <=> \A j \in 1 .. Len(sent') : DoneAt(sent', j)
<1>1. DOMAIN sent' = 1 .. Len(sent')
  BY DEF TypeOK
<1> QED
  BY <1>1, Zenon DEF DoneRepeatsDeltas, DoneAt, CallTypes, StreamedArguments

LEMMA SilentDone == ASSUME TypeOK, TypeOK', Silent, DoneRepeatsDeltas PROVE DoneRepeatsDeltas'
<1> SUFFICES ASSUME NEW j \in 1 .. Len(sent'), sent'[j].type = "done" PROVE DoneAt(sent', j)
  BY DonePartsPrimed, Zenon DEF DoneAt
<1>1. j \in 1 .. Len(sent) /\ sent'[j] = sent[j]
  <2>1. sent'[j].type \in CallTypes
    BY DEF CallTypes
  <2> QED
    BY <2>1, Zenon DEF Silent, Alongside
<1>2. DoneAt(sent, j) /\ sent[j].type = "done"
  BY <1>1, DoneParts, Zenon
<1>3. sent'[j].arguments = ArgumentsOf(sent'[j].call, sent')
  BY <1>1, <1>2, Zenon DEF DoneAt, Silent, Alongside
<1>4. \E n \in 1 .. Len(sent') : n < j /\ sent'[n].type = "added" /\ sent'[n].call = sent'[j].call
  BY <1>1, <1>2, Zenon DEF DoneAt, Silent, Alongside
<1>5. \A n \in 1 .. Len(sent') : sent'[n].type \in CallTypes /\ sent'[n].call = sent'[j].call => n <= j
  BY <1>1, <1>2, Zenon DEF DoneAt, Silent, Alongside
<1> QED
  BY <1>3, <1>4, <1>5, Zenon DEF DoneAt

LEMMA TellsDone ==
    ASSUME TypeOK, TypeOK', NEW e, Tells(e), DoneRepeatsDeltas,
           \A j \in 1 .. Len(sent) : sent[j].type = "done" => sent[j].call # e.call,
           e.type = "done" => /\ e.arguments = ArgumentsOf(e.call, sent)
                              /\ \E n \in 1 .. Len(sent) : sent[n].type = "added" /\ sent[n].call = e.call
    PROVE  DoneRepeatsDeltas'
<1> SUFFICES ASSUME NEW j \in 1 .. Len(sent'), sent'[j].type = "done" PROVE DoneAt(sent', j)
  BY DonePartsPrimed, Zenon DEF DoneAt
<1>0. ASSUME NEW call, DeltaOf(call, e) = <<>> PROVE ArgumentsOf(call, sent') = ArgumentsOf(call, sent)
  <2>1. Totals(sent)
    BY SentTotals DEF TypeOK
  <2>2. ArgumentsOf(call, sent) \in Seq(Characters)
    BY <2>1, Zenon DEF Totals
  <2>3. ArgumentsOf(call, sent) \o <<>> = ArgumentsOf(call, sent)
    BY <2>2
  <2> QED
    BY <1>0, <2>3, Zenon DEF Tells
<1>1. CASE j \in 1 .. Len(sent)
  <2>1. sent'[j] = sent[j] /\ sent[j].call # e.call
    BY <1>1 DEF Tells
  <2>2. DoneAt(sent, j) /\ sent[j].type = "done"
    BY <1>1, <2>1, DoneParts, Zenon
  <2>3. DeltaOf(sent[j].call, e) = <<>>
    BY <2>1 DEF DeltaOf
  <2>4. sent'[j].arguments = ArgumentsOf(sent'[j].call, sent')
    BY <1>0, <2>1, <2>2, <2>3, Zenon DEF DoneAt
  <2>5. \A n \in 1 .. Len(sent) : n \in 1 .. Len(sent') /\ sent'[n] = sent[n]
    BY DEF Tells
  <2>6. \E n \in 1 .. Len(sent') : n < j /\ sent'[n].type = "added" /\ sent'[n].call = sent'[j].call
    BY <2>1, <2>2, <2>5, Zenon DEF DoneAt
  <2>7. \A n \in 1 .. Len(sent') : sent'[n].type \in CallTypes /\ sent'[n].call = sent'[j].call => n <= j
    <3>1. \A n \in 1 .. Len(sent') : n \in 1 .. Len(sent) \/ sent'[n] = e
      BY DEF Tells
    <3> QED
      BY <2>1, <2>2, <2>5, <3>1, Zenon DEF DoneAt
  <2> QED
    BY <2>4, <2>6, <2>7, Zenon DEF DoneAt
<1>2. CASE j = Len(sent) + 1
  <2>1. sent'[j] = e /\ e.type = "done"
    BY <1>2 DEF Tells
  <2>2. DeltaOf(e.call, e) = <<>>
    BY <2>1 DEF DeltaOf
  <2>3. sent'[j].arguments = ArgumentsOf(sent'[j].call, sent')
    BY <1>0, <2>1, <2>2, Zenon
  <2>4. PICK n \in 1 .. Len(sent) : sent[n].type = "added" /\ sent[n].call = e.call
    BY <2>1
  <2>5. n \in 1 .. Len(sent') /\ n < j /\ sent'[n] = sent[n]
    BY <1>2 DEF Tells
  <2>6. \A k \in 1 .. Len(sent') : k <= j
    BY <1>2 DEF Tells
  <2> QED
    BY <2>1, <2>3, <2>4, <2>5, <2>6, Zenon DEF DoneAt
<1>3. j \in 1 .. Len(sent) \/ j = Len(sent) + 1
  BY DEF Tells
<1> QED
  BY <1>1, <1>2, <1>3

(* What the table holds, call by call. *)
Grown == Len(sent) \in Nat /\ \A n \in 1 .. Len(sent) : n \in 1 .. Len(sent') /\ sent'[n] = sent[n]

LEMMA SilentGrown == ASSUME Silent PROVE Grown
BY Zenon DEF Silent, Alongside, Grown

LEMMA TellsGrown == ASSUME NEW e, Tells(e) PROVE Grown
BY DEF Tells, Grown

LEMMA TellsOthers ==
    ASSUME TypeOK, NEW e, Tells(e), NEW call, DeltaOf(call, e) = <<>>
    PROVE  ArgumentsOf(call, sent') = ArgumentsOf(call, sent)
<1>1. Totals(sent)
  BY SentTotals DEF TypeOK
<1>2. ArgumentsOf(call, sent) \in Seq(Characters)
  BY <1>1, Zenon DEF Totals
<1>3. ArgumentsOf(call, sent) \o <<>> = ArgumentsOf(call, sent)
  BY <1>2
<1> QED
  BY <1>3, Zenon DEF Tells

LEMMA CallKept ==
    ASSUME NEW k \in 1 .. Len(message), CallInv(k), message'[k] = message[k], blocks'[k] = blocks[k], Grown,
           ArgumentsOf(message[k].id, sent') = ArgumentsOf(message[k].id, sent)
    PROVE  CallInv(k)'
<1>1. Announced(k)'
  BY Zenon DEF CallInv, Announced, Grown
<1>2. message[k].stopped => Reported(k)'
  BY Zenon DEF CallInv, Reported, Grown
<1>3. IsTool(k) => IsTool(k)'
  BY Zenon DEF IsTool
<1> QED
  BY <1>1, <1>2, <1>3, Zenon DEF CallInv, StreamedArguments

LEMMA StartsCalls ==
    ASSUME TypeOK, MessageInv, FreshInv, TableInv, CallsInv, translator = "responses",
           NEW kind \in BlockKinds, NEW id \in Calls \cup {None}, Starts(kind, id)
    PROVE  TableInv' /\ CallsInv'
<1>1. PICK n : n = Len(message) + 1
  OBVIOUS
<1>2. /\ n \in Indices /\ n \in Nat /\ message \in Seq(Block) /\ message' = Append(message, NewBlock(kind, id))
      /\ translator' = "responses" /\ NewBlock(kind, id) \in Block /\ (id = None <=> kind # "tool_use")
  BY <1>1 DEF Starts, TypeOK, Indices
<1>3. /\ Len(message') = n /\ message'[n] = NewBlock(kind, id)
      /\ \A k \in 1 .. Len(message) : message'[k] = message[k] /\ k # n /\ k \in Indices
      /\ \A k \in 1 .. Len(message') : k = n \/ k \in 1 .. Len(message)
  <2>1. Len(message) \in Nat /\ n \in 1 .. MaxBlocks
    BY <1>1, <1>2 DEF Indices
  <2>2. \A k \in 1 .. Len(message) : k # n /\ k \in Indices
    BY <1>1, <2>1, BoundsAssumption DEF Indices
  <2>3. /\ Len(message') = n /\ message'[n] = NewBlock(kind, id)
        /\ \A k \in 1 .. Len(message) : message'[k] = message[k]
    BY <1>1, <1>2
  <2>4. \A k \in 1 .. n : k = n \/ k \in 1 .. Len(message)
    BY <1>1, <2>1
  <2> QED
    BY <2>2, <2>3, <2>4, Zenon
<1>4. blocks' = [blocks EXCEPT ![n] = State(kind, id)]
  BY <1>1, <1>2 DEF Starts, Tracks, Track, Start, State
<1>5. /\ \A k \in 1 .. Len(message) : blocks'[k] = blocks[k]
      /\ blocks'[n] = State(kind, id)
  BY <1>2, <1>3, <1>4 DEF TypeOK
<1>6. Opens(message, NewBlock(kind, id))
  <2>1. NewBlock(kind, id).fragments = <<>>
    BY DEF NewBlock
  <2> QED
    BY <1>2, <2>1, NewBlockOpens, Zenon
<1>7. IF kind = "tool_use" THEN Tells(ToldAdded(id)) ELSE Silent
  BY StartsTells, Zenon
<1>8. /\ Grown
      /\ \A call : ArgumentsOf(call, sent') = ArgumentsOf(call, sent)
      /\ Collect(CallOf, sent') = Collect(CallOf, sent) \o BlockCall(NewBlock(kind, id))
  <2>1. CASE kind = "tool_use"
    <3>1. /\ \A call : DeltaOf(call, ToldAdded(id)) = <<>>
          /\ CallOf(ToldAdded(id)) = <<id>> /\ BlockCall(NewBlock(kind, id)) = <<id>>
      BY <2>1 DEF DeltaOf, CallOf, ToldAdded, BlockCall, NewBlock
    <3>2. Tells(ToldAdded(id))
      BY <1>7, <2>1
    <3>3. Grown
      BY <3>2, TellsGrown, Zenon
    <3>4. \A call : ArgumentsOf(call, sent') = ArgumentsOf(call, sent)
      BY <3>1, <3>2, TellsOthers
    <3> QED
      BY <3>1, <3>2, <3>3, <3>4, Zenon DEF Tells
  <2>2. CASE kind # "tool_use"
    <3>1. Silent
      BY <1>7, <2>2
    <3>2. Collect(CallOf, sent) \o <<>> = Collect(CallOf, sent)
      <4>1. Totals(sent)
        BY SentTotals DEF TypeOK
      <4>2. Collect(CallOf, sent) \in Seq(Calls)
        BY <4>1, Zenon DEF Totals
      <4> QED
        BY <4>2
    <3>3. BlockCall(NewBlock(kind, id)) = <<>>
      BY <2>2 DEF BlockCall, NewBlock
    <3> QED
      BY <3>1, <3>2, <3>3, SilentGrown, Zenon DEF Silent, Alongside
  <2> QED
    BY <2>1, <2>2
<1>9. CallsInv'
  BY <1>2, <1>6, <1>8, Zenon DEF CallsInv, StreamedCalls, Opens
<1>10. ASSUME NEW k \in 1 .. Len(message), message'[k].kind = "tool_use" PROVE CallInv(k)'
  <2>1. CallInv(k)
    BY <1>3, <1>10, Zenon DEF TableInv
  <2> QED
    BY <1>3, <1>5, <1>8, <2>1, CallKept, Zenon
<1>11. ASSUME kind = "tool_use" PROVE CallInv(n)'
  <2>1. /\ message'[n].id = id /\ ~message'[n].stopped /\ message'[n].fragments = <<>>
        /\ id \in Calls /\ \A k \in 1 .. Len(message) : message[k].id # id
    BY <1>2, <1>3, <1>11 DEF NewBlock, Starts
  <2>2. Body(message'[n]) = <<>>
    BY <2>1, FlattenEmpty DEF Body
  <2>3. ArgumentsOf(id, sent) = <<>>
    BY <2>1, Zenon DEF FreshInv, StreamedArguments
  <2>4. Tells(ToldAdded(id)) /\ ToldAdded(id).type = "added" /\ ToldAdded(id).call = id
    BY <1>7, <1>11 DEF ToldAdded
  <2>5. Len(sent) + 1 \in 1 .. Len(sent') /\ sent'[Len(sent) + 1] = ToldAdded(id)
    BY <2>4 DEF Tells
  <2>6. Announced(n)'
    BY <2>1, <2>4, <2>5, Zenon DEF Announced
  <2>7. State(kind, id).id = id /\ State(kind, id).args = <<>>
    BY DEF State
  <2>8. IsTool(n)'
    <3>1. Typed(kind, id)
      BY StateIsTool, Zenon
    <3>2. State(kind, id) # None
      <4>1. State(kind, id) \in BlockState
        BY DEF State, BlockState, Text
      <4> QED
        BY <4>1, NoneAssumption
    <3> QED
      BY <1>5, <1>11, <3>1, <3>2, Zenon DEF Typed, IsTool
  <2> QED
    BY <1>5, <1>8, <2>1, <2>2, <2>3, <2>6, <2>7, <2>8, Zenon DEF CallInv, StreamedArguments
<1>12. message'[n].kind = kind
  BY <1>3 DEF NewBlock
<1>13. TableInv'
  BY <1>3, <1>10, <1>11, <1>12, Zenon DEF TableInv
<1> QED
  BY <1>9, <1>13

LEMMA ChangesCalls ==
    ASSUME TypeOK, MessageInv, CallsInv, TableInv, translator = "responses", translator' = translator,
           NEW i, message' \in Seq(Block), Changes(message, message', i), Grown,
           Collect(CallOf, sent') = Collect(CallOf, sent),
           \A k \in 1 .. Len(message) : k # i /\ message[k].kind = "tool_use" =>
               /\ ArgumentsOf(message[k].id, sent') = ArgumentsOf(message[k].id, sent)
               /\ blocks'[k] = blocks[k],
           message[i].kind = "tool_use" => CallInv(i)'
    PROVE  TableInv' /\ CallsInv'
<1>1. message \in Seq(Block)
  BY DEF TypeOK
<1>2. SameCalls(message, message')
  BY <1>1, ChangeKeepsCalls, Zenon
<1>3. CallsInv'
  BY <1>2, Zenon DEF CallsInv, SameCalls, StreamedCalls
<1>4. ASSUME NEW k \in 1 .. Len(message), k # i, message'[k].kind = "tool_use" PROVE CallInv(k)'
  <2>1. message'[k] = message[k] /\ message[k].kind = "tool_use"
    BY <1>4, Zenon DEF Changes
  <2>2. CallInv(k)
    BY <2>1, Zenon DEF TableInv
  <2> QED
    BY <1>4, <2>1, <2>2, CallKept, Zenon
<1>5. Len(message') = Len(message) /\ message'[i].kind = message[i].kind
  BY DEF Changes
<1>6. TableInv'
  BY <1>4, <1>5, Zenon DEF TableInv
<1> QED
  BY <1>3, <1>6

LEMMA AppendsCalls ==
    ASSUME TypeOK, MessageInv, TableInv, CallsInv, translator = "responses",
           NEW i \in Indices, NEW f \in Fragments, Appends(i, f)
    PROVE  TableInv' /\ CallsInv'
<1>1. /\ message' \in Seq(Block) /\ Changes(message, message', i) /\ translator' = translator
      /\ i \in 1 .. Len(message) /\ message'[i].kind = message[i].kind /\ message'[i].id = message[i].id
      /\ ~message[i].stopped /\ ~message'[i].stopped
  BY DEF Appends, Changes
<1>2. \A k \in 1 .. Len(message) : k \in Indices
  BY BoundsAssumption DEF TypeOK, Indices
<1>3. CASE message[i].kind # "tool_use"
  <2>1. Silent
    BY <1>3, AppendsTells, Zenon
  <2>2. blocks' = blocks
    BY <1>3 DEF Appends, Tracks, Track, Delta
  <2>3. Collect(CallOf, sent') = Collect(CallOf, sent) /\ \A call : ArgumentsOf(call, sent') = ArgumentsOf(call, sent)
    BY <2>1, Zenon DEF Silent, Alongside
  <2> QED
    BY <1>1, <1>3, <2>1, <2>2, <2>3, SilentGrown, ChangesCalls, Zenon
<1>4. CASE message[i].kind = "tool_use"
  <2> DEFINE id == message[i].id
             e == ToldArguments(id, f)
  <2>1. /\ IsTool(i) /\ blocks[i].id = id /\ blocks[i].args = Body(message[i])
        /\ ArgumentsOf(id, sent) = Body(message[i]) /\ Announced(i)
    BY <1>1, <1>4, Zenon DEF TableInv, CallInv, StreamedArguments
  <2>2. Tells(e)
    BY <1>4, <2>1, AppendsTells, Zenon
  <2>3. /\ CallOf(e) = <<>> /\ DeltaOf(id, e) = f
        /\ \A call : call # id => DeltaOf(call, e) = <<>>
    BY DEF CallOf, DeltaOf, ToldArguments
  <2>4. blocks' = [blocks EXCEPT ![i].args = @ \o f]
    BY <1>4, <2>1 DEF Appends, Tracks, Track, Delta
  <2>5. \A k \in Indices : k # i => blocks'[k] = blocks[k]
    BY <2>4 DEF TypeOK
  <2>6. IsTool(i)' /\ blocks'[i].id = id /\ blocks'[i].args = Body(message[i]) \o f
    <3>1. blocks[i] \in BlockState /\ i \in Indices
      BY <2>1 DEF TypeOK, IsTool
    <3>2. blocks'[i] = [blocks[i] EXCEPT !.args = Body(message[i]) \o f]
      BY <2>1, <2>4, <3>1 DEF TypeOK
    <3>3. blocks'[i].id = id /\ blocks'[i].args = Body(message[i]) \o f /\ blocks'[i].isTool = blocks[i].isTool
      <4> HIDE DEF id
      <4> QED
        BY <2>1, <3>1, <3>2 DEF BlockState
    <3>4. blocks'[i] # None
      <4>1. blocks'[i] \in BlockState
        <5>1. Row(i)' /\ blocks' \in [Indices -> {None} \cup BlockState]
          BY AppendsTable, Zenon
        <5>2. blocks'[i] # None
          <6>1. Body(message[i]) \in Text /\ f \in Text
            BY <1>1, BodyType, FragmentsAssumption DEF TypeOK, Text
          <6>2. Body(message[i]) \o f \in Text
            BY <6>1 DEF Text
          <6>3. blocks'[i] \in BlockState
            BY <3>1, <3>2, <6>2 DEF BlockState
          <6> QED
            BY <6>3, NoneAssumption
        <5> QED
          BY <3>1, <5>1, <5>2
      <4> QED
        BY <4>1, NoneAssumption
    <3> QED
      BY <2>1, <3>3, <3>4, Zenon DEF IsTool
  <2>7. Body(message'[i]) = Body(message[i]) \o f
    <3>1. message[i] \in Block /\ message'[i] \in Block
      BY <1>1 DEF TypeOK, Changes
    <3>2. message'[i].fragments = Append(message[i].fragments, f)
      BY Zenon DEF Appends
    <3>3. BodyGrows(message[i], message'[i], f)
      BY <3>1, <3>2, FragmentGrows, Zenon
    <3> QED
      BY <3>3, Zenon DEF BodyGrows
  <2>8. Grown
    BY <2>2, TellsGrown, Zenon
  <2>9. Announced(i)'
    BY <1>1, <2>1, <2>8, Zenon DEF Announced, Grown
  <2>10. ArgumentsOf(id, sent') = Body(message'[i])
    BY <2>1, <2>2, <2>3, <2>7, Zenon DEF Tells
  <2>11. CallInv(i)'
    BY <1>1, <2>6, <2>7, <2>9, <2>10, Zenon DEF CallInv, StreamedArguments
  <2>12. Collect(CallOf, sent') = Collect(CallOf, sent)
    <3>1. Totals(sent)
      BY SentTotals DEF TypeOK
    <3>2. Collect(CallOf, sent) \in Seq(Calls)
      BY <3>1, Zenon DEF Totals
    <3>3. Collect(CallOf, sent) \o <<>> = Collect(CallOf, sent)
      BY <3>2
    <3> QED
      BY <2>2, <2>3, <3>3, Zenon DEF Tells
  <2>13. ASSUME NEW k \in 1 .. Len(message), k # i, message[k].kind = "tool_use"
         PROVE  /\ ArgumentsOf(message[k].id, sent') = ArgumentsOf(message[k].id, sent)
                /\ blocks'[k] = blocks[k]
    <3>1. message[k].id # id
      BY <1>1, <2>13 DEF MessageInv
    <3>2. DeltaOf(message[k].id, e) = <<>>
      BY <2>3, <3>1, Zenon
    <3>3. ArgumentsOf(message[k].id, sent') = ArgumentsOf(message[k].id, sent)
      BY <2>2, <3>2, TellsOthers
    <3> QED
      BY <1>2, <2>5, <2>13, <3>3, Zenon
  <2> QED
    BY <1>1, <2>8, <2>11, <2>12, <2>13, ChangesCalls, Zenon
<1> QED
  BY <1>3, <1>4

LEMMA ClosesCalls ==
    ASSUME TypeOK, MessageInv, TableInv, CallsInv, translator = "responses", NEW i \in Indices, Closes(i)
    PROVE  TableInv' /\ CallsInv'
<1>1. /\ message' \in Seq(Block) /\ Changes(message, message', i) /\ translator' = translator
      /\ i \in 1 .. Len(message) /\ message'[i].kind = message[i].kind /\ message'[i].id = message[i].id
      /\ message'[i].fragments = message[i].fragments /\ ~message[i].stopped /\ message'[i].stopped
  BY DEF Closes, Changes
<1>2. \A k \in 1 .. Len(message) : k \in Indices
  BY BoundsAssumption DEF TypeOK, Indices
<1>3. CASE message[i].kind # "tool_use"
  <2>1. Silent
    BY <1>3, ClosesTells, Zenon
  <2>2. blocks' = blocks
    <3>1. ~IsTool(i)
      BY <1>3 DEF MessageInv
    <3> QED
      BY <3>1 DEF Closes, Tracks, Track, Stop
  <2>3. Collect(CallOf, sent') = Collect(CallOf, sent) /\ \A call : ArgumentsOf(call, sent') = ArgumentsOf(call, sent)
    BY <2>1, Zenon DEF Silent, Alongside
  <2> QED
    BY <1>1, <1>3, <2>1, <2>2, <2>3, SilentGrown, ChangesCalls, Zenon
<1>4. CASE message[i].kind = "tool_use"
  <2> DEFINE id == message[i].id
             e == ToldDone(id, Body(message[i]))
  <2>1. /\ IsTool(i) /\ blocks[i].id = id /\ blocks[i].args = Body(message[i])
        /\ ArgumentsOf(id, sent) = Body(message[i]) /\ Announced(i)
    BY <1>1, <1>4, Zenon DEF TableInv, CallInv, StreamedArguments
  <2>2. Tells(e)
    BY <1>4, <2>1, ClosesTells, Zenon
  <2>3. /\ CallOf(e) = <<>> /\ \A call : DeltaOf(call, e) = <<>>
        /\ e.type = "done" /\ e.call = id
    BY DEF CallOf, DeltaOf, ToldDone
  <2>4. blocks' = [blocks EXCEPT ![i] = None]
    BY <1>4, <2>1 DEF Closes, Tracks, Track, Stop
  <2>5. \A k \in Indices : k # i => blocks'[k] = blocks[k]
    BY <2>4 DEF TypeOK
  <2> HIDE DEF e
  <2>6. Grown
    BY <2>2, TellsGrown, Zenon
  <2>7. \A call : ArgumentsOf(call, sent') = ArgumentsOf(call, sent)
    BY <2>2, <2>3, TellsOthers
  <2>8. Announced(i)'
    BY <1>1, <2>1, <2>6, Zenon DEF Announced, Grown
  <2>9. Reported(i)'
    <3>1. Len(sent) + 1 \in 1 .. Len(sent') /\ sent'[Len(sent) + 1] = e
      BY <2>2 DEF Tells
    <3> QED
      BY <1>1, <2>3, <3>1, Zenon DEF Reported
  <2>10. Body(message'[i]) = Body(message[i])
    BY <1>1, Zenon DEF Body
  <2>11. CallInv(i)'
    BY <1>1, <2>1, <2>7, <2>8, <2>9, <2>10, Zenon DEF CallInv, StreamedArguments
  <2>12. Collect(CallOf, sent') = Collect(CallOf, sent)
    <3>1. Totals(sent)
      BY SentTotals DEF TypeOK
    <3>2. Collect(CallOf, sent) \in Seq(Calls)
      BY <3>1, Zenon DEF Totals
    <3>3. Collect(CallOf, sent) \o <<>> = Collect(CallOf, sent)
      BY <3>2
    <3> QED
      BY <2>2, <2>3, <3>3, Zenon DEF Tells
  <2> QED
    BY <1>1, <1>2, <2>5, <2>6, <2>7, <2>11, <2>12, ChangesCalls, Zenon
<1> QED
  BY <1>3, <1>4

(* All of it, step by step. *)
Repeats == SentInv /\ FreshInv /\ DoneRepeatsDeltas

LEMMA SilentRepeats == ASSUME TypeOK, TypeOK', Advances, Silent, Repeats PROVE Repeats'
BY SilentSent, SilentFresh, SilentDone, Zenon DEF Repeats

LEMMA StartsRepeats ==
    ASSUME TypeOK, TypeOK', Repeats, NEW kind \in BlockKinds, NEW id \in Calls \cup {None}, Starts(kind, id)
    PROVE  Repeats'
<1>1. Advances
  BY StartsAdvances, Zenon
<1>2. CASE ~(translator = "responses" /\ kind = "tool_use")
  <2>1. Silent
    BY <1>2, StartsTells, Zenon
  <2> QED
    BY <1>1, <2>1, SilentRepeats, Zenon
<1>3. CASE translator = "responses" /\ kind = "tool_use"
  <2> DEFINE e == ToldAdded(id)
  <2>1. Tells(e)
    BY <1>3, StartsTells, Zenon
  <2>2. e.type = "added" /\ e.call = id
    BY DEF ToldAdded
  <2> HIDE DEF e
  <2>3. PICK n \in 1 .. Len(message') : message'[n] = NewBlock(kind, id)
    <3>1. message \in Seq(Block) /\ message' = Append(message, NewBlock(kind, id))
      BY DEF TypeOK, Starts
    <3>2. Len(message) + 1 \in 1 .. Len(message') /\ message'[Len(message) + 1] = NewBlock(kind, id)
      BY <3>1
    <3> QED
      BY <3>2
  <2>4. OfBlock(e, message'[n])
    BY <1>3, <2>2, <2>3 DEF OfBlock, NewBlock
  <2>5. \A j \in 1 .. Len(sent) : sent[j].type = "done" => sent[j].call # e.call
    <3> SUFFICES ASSUME NEW j \in 1 .. Len(sent), sent[j].type = "done" PROVE sent[j].call # id
      BY <2>2
    <3>1. sent[j].type \in CallTypes
      BY DEF CallTypes
    <3>2. PICK i \in 1 .. Len(message) : OfBlock(sent[j], message[i])
      BY <3>1, Zenon DEF Repeats, SentInv
    <3>3. message[i].id # id
      BY <1>3 DEF Starts
    <3> QED
      BY <3>2, <3>3, Zenon DEF OfBlock
  <2>6. SentInv'
    BY <1>1, <1>3, <2>1, <2>4, TellsSent, Zenon DEF Repeats
  <2>7. FreshInv'
    BY <1>1, <2>1, <2>4, TellsFresh, Zenon DEF Repeats
  <2>8. DoneRepeatsDeltas'
    <3>1. e.type # "done"
      BY <2>2
    <3> QED
      BY <2>1, <2>5, <3>1, TellsDone, Zenon DEF Repeats
  <2> QED
    BY <2>6, <2>7, <2>8 DEF Repeats
<1> QED
  BY <1>2, <1>3, Zenon

(* An open call is not done. *)
LEMMA NotDone ==
    ASSUME MessageInv, SentInv, NEW i \in 1 .. Len(message), message[i].kind = "tool_use", ~message[i].stopped
    PROVE  \A j \in 1 .. Len(sent) : sent[j].type = "done" => sent[j].call # message[i].id
<1> SUFFICES ASSUME NEW j \in 1 .. Len(sent), sent[j].type = "done" PROVE sent[j].call # message[i].id
  OBVIOUS
<1>1. sent[j].type \in CallTypes
  BY DEF CallTypes
<1>2. PICK k \in 1 .. Len(message) : OfBlock(sent[j], message[k])
  BY <1>1, Zenon DEF SentInv
<1>3. k # i
  BY <1>2, Zenon DEF OfBlock
<1>4. message[i].id # message[k].id
  BY <1>3, Zenon DEF MessageInv
<1> QED
  BY <1>2, <1>4, Zenon DEF OfBlock

LEMMA AppendsRepeats ==
    ASSUME TypeOK, TypeOK', MessageInv, TableInv, Repeats, NEW i \in Indices, NEW f \in Fragments, Appends(i, f)
    PROVE  Repeats'
<1>1. Advances /\ i \in 1 .. Len(message) /\ i \in 1 .. Len(message') /\ message'[i].kind = message[i].kind
      /\ message'[i].id = message[i].id /\ ~message[i].stopped
  BY ChangesAdvances DEF Appends, Changes
<1>2. translator = "responses" /\ message[i].kind = "tool_use" => IsTool(i) /\ blocks[i].id = message[i].id
  BY <1>1, Zenon DEF TableInv, CallInv
<1>3. CASE ~(translator = "responses" /\ message[i].kind = "tool_use")
  <2>1. Silent
    BY <1>2, <1>3, AppendsTells, Zenon
  <2> QED
    BY <1>1, <2>1, SilentRepeats, Zenon
<1>4. CASE translator = "responses" /\ message[i].kind = "tool_use"
  <2> DEFINE e == ToldArguments(message[i].id, f)
  <2>1. Tells(e)
    BY <1>2, <1>4, AppendsTells, Zenon
  <2>2. e.type = "arguments" /\ e.call = message[i].id
    BY DEF ToldArguments
  <2> HIDE DEF e
  <2>3. OfBlock(e, message'[i])
    BY <1>1, <1>4, <2>2 DEF OfBlock
  <2>4. \A j \in 1 .. Len(sent) : sent[j].type = "done" => sent[j].call # e.call
    BY <1>1, <1>4, <2>2, NotDone, Zenon DEF Repeats
  <2>5. SentInv'
    BY <1>1, <1>4, <2>1, <2>3, TellsSent, Zenon DEF Repeats
  <2>6. FreshInv'
    BY <1>1, <2>1, <2>3, TellsFresh, Zenon DEF Repeats
  <2>7. DoneRepeatsDeltas'
    <3>1. e.type # "done"
      BY <2>2
    <3> QED
      BY <2>1, <2>4, <3>1, TellsDone, Zenon DEF Repeats
  <2> QED
    BY <2>5, <2>6, <2>7 DEF Repeats
<1> QED
  BY <1>3, <1>4, Zenon

LEMMA ClosesRepeats ==
    ASSUME TypeOK, TypeOK', MessageInv, TableInv, Repeats, NEW i \in Indices, Closes(i)
    PROVE  Repeats'
<1>1. Advances /\ i \in 1 .. Len(message) /\ i \in 1 .. Len(message') /\ message'[i].kind = message[i].kind
      /\ message'[i].id = message[i].id /\ ~message[i].stopped /\ message'[i].stopped
  BY ChangesAdvances DEF Closes, Changes
<1>2. translator = "responses" /\ message[i].kind = "tool_use" =>
          /\ IsTool(i) /\ blocks[i].id = message[i].id /\ blocks[i].args = Body(message[i])
          /\ ArgumentsOf(message[i].id, sent) = Body(message[i]) /\ Announced(i)
  BY <1>1, Zenon DEF TableInv, CallInv, StreamedArguments
<1>3. CASE ~(translator = "responses" /\ message[i].kind = "tool_use")
  <2>1. Silent
    BY <1>2, <1>3, ClosesTells, Zenon
  <2> QED
    BY <1>1, <2>1, SilentRepeats, Zenon
<1>4. CASE translator = "responses" /\ message[i].kind = "tool_use"
  <2> DEFINE e == ToldDone(message[i].id, Body(message[i]))
  <2>1. Tells(e)
    BY <1>2, <1>4, ClosesTells, Zenon
  <2>2. e.type = "done" /\ e.call = message[i].id /\ e.arguments = Body(message[i])
    BY DEF ToldDone
  <2> HIDE DEF e
  <2>3. OfBlock(e, message'[i])
    BY <1>1, <1>4, <2>2 DEF OfBlock
  <2>4. \A j \in 1 .. Len(sent) : sent[j].type = "done" => sent[j].call # e.call
    BY <1>1, <1>4, <2>2, NotDone, Zenon DEF Repeats
  <2>5. SentInv'
    BY <1>1, <1>4, <2>1, <2>3, TellsSent, Zenon DEF Repeats
  <2>6. FreshInv'
    BY <1>1, <2>1, <2>3, TellsFresh, Zenon DEF Repeats
  <2>7. DoneRepeatsDeltas'
    <3>1. e.arguments = ArgumentsOf(e.call, sent)
      BY <1>2, <1>4, <2>2, Zenon
    <3>2. \E n \in 1 .. Len(sent) : sent[n].type = "added" /\ sent[n].call = e.call
      BY <1>2, <1>4, <2>2, Zenon DEF Announced
    <3> QED
      BY <2>1, <2>4, <3>1, <3>2, TellsDone, Zenon DEF Repeats
  <2> QED
    BY <2>5, <2>6, <2>7 DEF Repeats
<1> QED
  BY <1>3, <1>4, Zenon

LEMMA RestSilent ==
    ASSUME TypeOK, TypeOK', CallsInv, TableInv, Repeats, Silent, UNCHANGED <<translator, message, blocks>>
    PROVE  CallsInv' /\ TableInv' /\ Repeats'
<1>1. Advances
  BY Zenon DEF Advances
<1>2. Repeats'
  BY <1>1, SilentRepeats, Zenon
<1>3. CallsInv'
  BY Zenon DEF CallsInv, StreamedCalls, Silent, Alongside
<1>4. ASSUME NEW k \in 1 .. Len(message), CallInv(k) PROVE CallInv(k)'
  BY <1>4, SilentGrown, CallKept, Zenon DEF Silent, Alongside
<1>5. TableInv'
  BY <1>4, Zenon DEF TableInv
<1> QED
  BY <1>2, <1>3, <1>5

LEMMA CallsKept ==
    ASSUME TypeOK, TypeOK', MessageInv, CallsInv, TableInv, Repeats, Next
    PROVE  CallsInv' /\ TableInv' /\ Repeats'
<1>1. ASSUME NEW kind \in BlockKinds, NEW id \in Calls \cup {None}, Starts(kind, id)
      PROVE  CallsInv' /\ TableInv' /\ Repeats'
  <2>1. Repeats'
    BY <1>1, StartsRepeats, Zenon
  <2>2. CASE translator # "responses"
    BY <1>1, <2>1, <2>2, Zenon DEF Starts, CallsInv, TableInv
  <2>3. CASE translator = "responses"
    BY <1>1, <2>1, <2>3, StartsCalls, Zenon DEF Repeats
  <2> QED
    BY <2>2, <2>3
<1>2. ASSUME NEW i \in Indices, NEW f \in Fragments, Appends(i, f)
      PROVE  CallsInv' /\ TableInv' /\ Repeats'
  <2>1. Repeats'
    BY <1>2, AppendsRepeats, Zenon
  <2>2. CASE translator # "responses"
    BY <1>2, <2>1, <2>2, Zenon DEF Appends, CallsInv, TableInv
  <2>3. CASE translator = "responses"
    BY <1>2, <2>1, <2>3, AppendsCalls, Zenon
  <2> QED
    BY <2>2, <2>3
<1>3. ASSUME NEW i \in Indices, Closes(i) PROVE CallsInv' /\ TableInv' /\ Repeats'
  <2>1. Repeats'
    BY <1>3, ClosesRepeats, Zenon
  <2>2. CASE translator # "responses"
    BY <1>3, <2>1, <2>2, Zenon DEF Closes, CallsInv, TableInv
  <2>3. CASE translator = "responses"
    BY <1>3, <2>1, <2>3, ClosesCalls, Zenon
  <2> QED
    BY <2>2, <2>3
<1>4. CASE Finishes
  <2>1. Silent
    BY <1>4, FinishesSilent, Zenon
  <2>2. UNCHANGED <<translator, message, blocks>>
    BY <1>4 DEF Finishes
  <2> QED
    BY <2>1, <2>2, RestSilent, Zenon
<1>5. CASE Drains
  <2>1. Silent
    BY <1>5, DrainsSilent, Zenon
  <2>2. UNCHANGED <<translator, message, blocks>>
    BY <1>5 DEF Drains
  <2> QED
    BY <2>1, <2>2, RestSilent, Zenon
<1> QED
  BY <1>1, <1>2, <1>3, <1>4, <1>5, Steps, Zenon

-----------------------------------------------------------------------------
LEMMA InitInv == Init => Inv
<1> SUFFICES ASSUME Init PROVE Inv
  OBVIOUS
<1>1. /\ translator \in Translators /\ message = <<>> /\ phase = "blocks" /\ over = FALSE
      /\ blocks = [i \in Indices |-> None] /\ sent = <<>>
  BY DEF Init
<1>2. \A i \in Indices : ~IsTool(i)
  BY <1>1 DEF IsTool
<1>3. TypeOK
  <2>1. message \in Seq(Block) /\ Len(message) <= MaxBlocks /\ sent \in Seq(Written)
    BY <1>1, BoundsAssumption
  <2>2. blocks \in [Indices -> {None} \cup BlockState]
    BY <1>1
  <2>3. phase \in {"blocks", "delta", "stop"} /\ over \in BOOLEAN
    BY <1>1
  <2> QED
    BY <1>1, <1>2, <2>1, <2>2, <2>3, Zenon DEF TypeOK
<1>4. MessageInv
  BY <1>1, <1>2 DEF MessageInv
<1>5. /\ Collect(TextOf, <<>>) = <<>> /\ Collect(CallOf, <<>>) = <<>>
      /\ \A call : ArgumentsOf(call, <<>>) = <<>>
      /\ Collect(BlockText, <<>>) = <<>> /\ Collect(BlockCall, <<>>) = <<>>
  <2>1. Collects(<<>>) /\ BlocksCollect(<<>>)
    <3>1. <<>> \in Seq(Written) /\ <<>> \in Seq(Block)
      OBVIOUS
    <3> QED
      BY <3>1, SentCollects, MessageCollects, Zenon
  <2>2. \A Part : Collected(Part, <<>>) = <<>>
    BY CollectedEmpty
  <2> QED
    BY <2>1, <2>2, Zenon DEF Collects, BlocksCollect
<1>6. TextInv /\ CallsInv
  BY <1>1, <1>5, Zenon DEF TextInv, CallsInv, StreamedText, StreamedCalls
<1>7. EndInv
  BY <1>1 DEF EndInv, Finished, EndPhases, Translators
<1>8. SentInv /\ TableInv /\ DoneRepeatsDeltas
  BY <1>1 DEF SentInv, TableInv, DoneRepeatsDeltas
<1>9. FreshInv
  BY <1>1, <1>5, Zenon DEF FreshInv, StreamedArguments
<1> QED
  BY <1>3, <1>4, <1>6, <1>7, <1>8, <1>9 DEF Inv

LEMMA NextInv == Inv /\ [Next]_vars => Inv'
<1> SUFFICES ASSUME Inv, [Next]_vars PROVE Inv'
  OBVIOUS
<1>1. TypeOK /\ MessageInv /\ TextInv /\ CallsInv /\ EndInv /\ TableInv /\ Repeats
  BY Zenon DEF Inv, Repeats
<1>2. CASE Next
  <2>1. TypeOK' /\ MessageInv'
    BY <1>1, <1>2, TypesKept, Zenon
  <2>2. TextInv' /\ EndInv'
    BY <1>1, <1>2, TextKept, EndKept, Zenon
  <2>3. CallsInv' /\ TableInv' /\ Repeats'
    BY <1>1, <1>2, <2>1, CallsKept, Zenon
  <2> QED
    BY <2>1, <2>2, <2>3, Zenon DEF Inv, Repeats
<1>3. CASE UNCHANGED vars
  <2>1. /\ translator' = translator /\ message' = message /\ phase' = phase
        /\ over' = over /\ blocks' = blocks /\ sent' = sent
    BY <1>3 DEF vars
  <2>2. TypeOK' /\ MessageInv'
    BY <1>1, <2>1 DEF TypeOK, MessageInv, IsTool, Open
  <2>3. TextInv' /\ EndInv'
    BY <1>1, <2>1, Zenon DEF TextInv, StreamedText, EndInv, Finished, Terminal, EndPhases
  <2>4. Silent
    <3>1. sent \in Seq(Written)
      BY <1>1 DEF TypeOK
    <3> QED
      BY <2>1, <3>1, AlongsideSelf, Zenon DEF Silent
  <2>5. CallsInv' /\ TableInv' /\ Repeats'
    BY <1>1, <2>1, <2>2, <2>4, RestSilent, Zenon
  <2> QED
    BY <2>2, <2>3, <2>5, Zenon DEF Inv, Repeats
<1> QED
  BY <1>2, <1>3

LEMMA Invariant == Spec => []Inv
BY InitInv, NextInv, PTL DEF Spec

(* Every event is written in one of the format's shapes, and the table only *)
(* holds calls that are open, under their own ids.                          *)
THEOREM Types == Spec => []TypeOK
BY Invariant, PTL DEF Inv

(* done repeats the deltas of its own call, announced before and silent after. *)
THEOREM DoneIsRight == Spec => []DoneRepeatsDeltas
BY Invariant, PTL DEF Inv

(* A client tells a cut stream from a whole one. *)
THEOREM CutsAreSeen == Spec => []CutIsVisible
<1>1. ASSUME Inv PROVE CutIsVisible
  <2>1. TypeOK /\ EndInv
    BY <1>1 DEF Inv
  <2>2. DOMAIN sent = 1 .. Len(sent) /\ (Len(sent) > 0 => sent # <<>>)
    BY <2>1 DEF TypeOK
  <2> QED
    BY <2>1, <2>2, Zenon DEF CutIsVisible, EndInv, EndPhases
<1> QED
  BY <1>1, Invariant, PTL

-----------------------------------------------------------------------------
(* The same message without streaming. *)
KeptPart == [b \in Block |-> Kept(b)]

LEMMA KeptType == KeptPart \in [Block -> Seq(Block)]
<1>1. \A b \in Block : Kept(b) \in Seq(Block)
  BY DEF Kept
<1> QED
  BY <1>1 DEF KeptPart

KeptCollects(m) == Collect(Kept, m) = Collected(KeptPart, m)

LEMMA KeptIsCollected == ASSUME NEW m \in Seq(Block) PROVE KeptCollects(m)
<1>1. [i \in DOMAIN m |-> Kept(m[i])] = [i \in DOMAIN m |-> KeptPart[m[i]]]
  BY DEF KeptPart
<1> QED
  BY <1>1, Zenon DEF KeptCollects, Collect, Collected

Keeps(m, b) ==
    Collect(Kept, Append(m, b))
        = IF b.kind \in {"text", "tool_use"} THEN Append(Collect(Kept, m), b) ELSE Collect(Kept, m)

LEMMA OneMoreKept == ASSUME NEW m \in Seq(Block), NEW b \in Block PROVE Keeps(m, b)
<1> DEFINE c == Collect(Kept, m)
<1>1. CollectsOneMore(KeptPart, m, b)
  BY KeptType, CollectedAppend, Zenon
<1>2. KeptCollects(m) /\ KeptCollects(Append(m, b))
  <2>1. Append(m, b) \in Seq(Block)
    OBVIOUS
  <2> QED
    BY <2>1, KeptIsCollected, Zenon
<1>3. KeptPart[b] = Kept(b)
  BY DEF KeptPart
<1>4. Collect(Kept, Append(m, b)) = c \o Kept(b)
  BY <1>1, <1>2, <1>3, Zenon DEF CollectsOneMore, KeptCollects
<1>5. c \in Seq(Block)
  <2>1. Collected(KeptPart, m) \in Seq(Block)
    BY KeptType, CollectedType, Zenon
  <2> QED
    BY <1>2, <2>1, Zenon DEF KeptCollects
<1> HIDE DEF c
<1>6. c \o <<b>> = Append(c, b) /\ c \o <<>> = c
  BY <1>5
<1>7. CASE b.kind \in {"text", "tool_use"}
  BY <1>4, <1>6, <1>7, Zenon DEF Keeps, Kept, c
<1>8. CASE b.kind \notin {"text", "tool_use"}
  BY <1>4, <1>6, <1>8, Zenon DEF Keeps, Kept, c
<1> QED
  BY <1>7, <1>8

GivesMore(m, b) ==
    /\ Collect(BlockText, Append(m, b)) = Collect(BlockText, m) \o BlockText(b)
    /\ Collect(BlockCall, Append(m, b)) = Collect(BlockCall, m) \o BlockCall(b)
    /\ Collect(BlockText, m) \in Seq(Characters) /\ Collect(BlockCall, m) \in Seq(Calls \cup {None})

LEMMA OneMoreBlock == ASSUME NEW m \in Seq(Block), NEW b \in Block PROVE GivesMore(m, b)
<1>1. Append(m, b) \in Seq(Block)
  OBVIOUS
<1>2. BlocksCollect(m) /\ BlocksCollect(Append(m, b))
  BY <1>1, MessageCollects, Zenon
<1>3. CollectsOneMore(BlockTextPart, m, b) /\ CollectsOneMore(BlockCallPart, m, b)
  BY BlockPartTypes, CollectedAppend, Zenon
<1>4. BlockTextPart[b] = BlockText(b) /\ BlockCallPart[b] = BlockCall(b)
  BY DEF BlockTextPart, BlockCallPart
<1>5. Collected(BlockTextPart, m) \in Seq(Characters) /\ Collected(BlockCallPart, m) \in Seq(Calls \cup {None})
  BY BlockPartTypes, CollectedType, Zenon
<1> QED
  BY <1>2, <1>3, <1>4, <1>5, Zenon DEF GivesMore, BlocksCollect, CollectsOneMore

(* What is kept gives the same as all of the message. *)
Faithful(m) ==
    LET c == Collect(Kept, m)
    IN  /\ c \in Seq(Block)
        /\ Collect(BlockText, c) = Collect(BlockText, m)
        /\ Collect(BlockCall, c) = Collect(BlockCall, m)
        /\ \A i \in 1 .. Len(c) :
              c[i].kind \in {"text", "tool_use"} /\ \E k \in 1 .. Len(m) : c[i] = m[k]

LEMMA ContentFaithful == ASSUME NEW m \in Seq(Block) PROVE Faithful(m)
<1> DEFINE T == {s \in Seq(Block) : Faithful(s)}
<1>1. <<>> \in T
  <2>1. KeptCollects(<<>>)
    BY <<>> \in Seq(Block), KeptIsCollected, Zenon
  <2>2. Collect(Kept, <<>>) = <<>>
    BY <2>1, CollectedEmpty, Zenon DEF KeptCollects
  <2>3. <<>> \in Seq(Block) /\ Len(<<>>) = 0
    OBVIOUS
  <2>4. \A i \in 1 .. Len(<<>>) : FALSE
    OBVIOUS
  <2>5. Faithful(<<>>)
    BY <2>2, <2>3, <2>4, Zenon DEF Faithful
  <2> QED
    BY <2>3, <2>5, Zenon
<1>2. ASSUME NEW s \in Seq(Block), NEW b \in Block, s \in T PROVE Append(s, b) \in T
  <2> DEFINE t == Append(s, b)
             c == Collect(Kept, s)
             d == Collect(Kept, t)
  <2>1. /\ c \in Seq(Block)
        /\ Collect(BlockText, c) = Collect(BlockText, s)
        /\ Collect(BlockCall, c) = Collect(BlockCall, s)
        /\ \A i \in 1 .. Len(c) :
              c[i].kind \in {"text", "tool_use"} /\ \E k \in 1 .. Len(s) : c[i] = s[k]
    BY <1>2, Zenon DEF Faithful
  <2>2. d = IF b.kind \in {"text", "tool_use"} THEN Append(c, b) ELSE c
    BY OneMoreKept, Zenon DEF Keeps
  <2>3. GivesMore(s, b) /\ GivesMore(c, b)
    BY <2>1, OneMoreBlock, Zenon
  <2>4. /\ t \in Seq(Block) /\ t[Len(s) + 1] = b /\ Len(s) + 1 \in 1 .. Len(t)
        /\ \A k \in 1 .. Len(s) : k \in 1 .. Len(t) /\ t[k] = s[k]
    OBVIOUS
  <2> HIDE DEF t, c, d
  <2>5. CASE b.kind \in {"text", "tool_use"}
    <3>1. d = Append(c, b)
      BY <2>2, <2>5
    <3>2. d \in Seq(Block)
      BY <2>1, <3>1
    <3>3. Collect(BlockText, d) = Collect(BlockText, t) /\ Collect(BlockCall, d) = Collect(BlockCall, t)
      BY <2>1, <2>3, <3>1, Zenon DEF GivesMore, t
    <3>4. ASSUME NEW i \in 1 .. Len(d)
          PROVE  d[i].kind \in {"text", "tool_use"} /\ \E k \in 1 .. Len(t) : d[i] = t[k]
      <4>1. CASE i \in 1 .. Len(c)
        <5>1. d[i] = c[i]
          BY <2>1, <3>1, <4>1
        <5> QED
          BY <2>1, <2>4, <4>1, <5>1, Zenon
      <4>2. CASE i \notin 1 .. Len(c)
        <5>1. d[i] = b
          BY <2>1, <3>1, <4>2
        <5> QED
          BY <2>4, <2>5, <5>1, Zenon
      <4> QED
        BY <4>1, <4>2
    <3>5. Faithful(t)
      BY <3>2, <3>3, <3>4, Zenon DEF Faithful, d
    <3> QED
      BY <2>4, <3>5, Zenon DEF t
  <2>6. CASE b.kind \notin {"text", "tool_use"}
    <3>1. d = c
      BY <2>2, <2>6
    <3>2. BlockText(b) = <<>> /\ BlockCall(b) = <<>>
      BY <2>6 DEF BlockText, BlockCall
    <3>3. Collect(BlockText, s) \o <<>> = Collect(BlockText, s) /\ Collect(BlockCall, s) \o <<>> = Collect(BlockCall, s)
      <4>1. ASSUME NEW S, NEW x \in Seq(S) PROVE x \o <<>> = x
        OBVIOUS
      <4> QED
        BY <2>3, <4>1, Zenon DEF GivesMore
    <3>4. Collect(BlockText, d) = Collect(BlockText, t) /\ Collect(BlockCall, d) = Collect(BlockCall, t)
      BY <2>1, <2>3, <3>1, <3>2, <3>3, Zenon DEF GivesMore, t
    <3>5. ASSUME NEW i \in 1 .. Len(d)
          PROVE  d[i].kind \in {"text", "tool_use"} /\ \E k \in 1 .. Len(t) : d[i] = t[k]
      BY <2>1, <2>4, <3>1, Zenon
    <3>6. Faithful(t)
      BY <2>1, <3>1, <3>4, <3>5, Zenon DEF Faithful, d
    <3> QED
      BY <2>4, <3>6, Zenon DEF t
  <2> QED
    BY <2>5, <2>6
<1>3. Seq(Block) \subseteq T
  <2> HIDE DEF T
  <2> QED
    BY <1>1, <1>2, SeqInductionSet, Zenon
<1> QED
  BY <1>3

(* The text of the first block comes first. *)
Leads(c) ==
    c # <<>> /\ c[1].kind = "text" => \E r \in Seq(Characters) : Collect(BlockText, c) = Body(c[1]) \o r

LEMMA FirstLeads == ASSUME NEW c \in Seq(Block) PROVE Leads(c)
<1> DEFINE T == {s \in Seq(Block) : Leads(s)}
<1>1. <<>> \in T
  BY DEF Leads
<1>2. ASSUME NEW s \in Seq(Block), NEW b \in Block, s \in T PROVE Append(s, b) \in T
  <2> DEFINE t == Append(s, b)
  <2>1. t \in Seq(Block) /\ t # <<>>
    OBVIOUS
  <2>2. GivesMore(s, b)
    BY OneMoreBlock, Zenon
  <2>3. CASE s = <<>>
    <3>1. t[1] = b
      BY <2>3
    <3>2. BlocksCollect(s)
      BY MessageCollects, Zenon
    <3>3. Collect(BlockText, s) = <<>>
      BY <2>3, <3>2, CollectedEmpty, Zenon DEF BlocksCollect
    <3> HIDE DEF t
    <3> SUFFICES ASSUME b.kind = "text"
                 PROVE  \E r \in Seq(Characters) : Collect(BlockText, t) = Body(b) \o r
      BY <2>1, <3>1, Zenon DEF Leads, t
    <3>4. Body(b) \in Seq(Characters)
      BY BodyType, Zenon
    <3>5. BlockText(b) = Body(b)
      BY Zenon DEF BlockText
    <3>6. Collect(BlockText, t) = <<>> \o Body(b)
      BY <2>2, <3>3, <3>5, Zenon DEF GivesMore, t
    <3>7. Collect(BlockText, t) = Body(b) \o <<>> /\ <<>> \in Seq(Characters)
      BY <3>4, <3>6
    <3> QED
      BY <3>7, Zenon
  <2>4. CASE s # <<>>
    <3>1. t[1] = s[1] /\ s[1] \in Block
      BY <2>4
    <3> HIDE DEF t
    <3> SUFFICES ASSUME s[1].kind = "text"
                 PROVE  \E r \in Seq(Characters) : Collect(BlockText, t) = Body(s[1]) \o r
      BY <2>1, <3>1, Zenon DEF Leads, t
    <3>2. PICK r \in Seq(Characters) : Collect(BlockText, s) = Body(s[1]) \o r
      BY <1>2, <2>4, Zenon DEF Leads
    <3>3. Body(s[1]) \in Seq(Characters) /\ BlockText(b) \in Seq(Characters)
      <4>1. Body(s[1]) \in Seq(Characters) /\ Body(b) \in Seq(Characters)
        BY <3>1, BodyType, Zenon
      <4> QED
        BY <4>1 DEF BlockText
    <3>4. Associates(Body(s[1]), r, BlockText(b))
      BY <3>3, ConcatAssociates, Zenon
    <3>5. Collect(BlockText, t) = Body(s[1]) \o (r \o BlockText(b))
      BY <2>2, <3>2, <3>4, Zenon DEF GivesMore, Associates, t
    <3>6. r \o BlockText(b) \in Seq(Characters)
      BY <3>3
    <3> QED
      BY <3>5, <3>6, Zenon
  <2> QED
    BY <2>3, <2>4
<1>3. Seq(Block) \subseteq T
  <2> HIDE DEF T
  <2> QED
    BY <1>1, <1>2, SeqInductionSet, Zenon
<1> QED
  BY <1>3

(* The items of an answer in one piece, and what they give. *)
Item(block) == [type |-> "message", text |-> Body(block)]

Input(block) == IF Body(block) = <<>> THEN <<"{}">> ELSE Body(block)

CallItem(block) == [type |-> "function_call", call |-> block.id, arguments |-> Input(block)]

Answers(c) ==
    /\ DOMAIN WriteResponses(c) = 1 .. Len(c)
    /\ \A i \in 1 .. Len(c) : WriteResponses(c)[i] = IF c[i].kind = "text" THEN Item(c[i]) ELSE CallItem(c[i])
    /\ Collect(AnsweredText, WriteResponses(c)) = Collect(BlockText, c)
    /\ Collect(AnsweredCall, WriteResponses(c)) = Collect(BlockCall, c)

LEMMA ItemsAnswer ==
    ASSUME NEW c \in Seq(Block), \A i \in 1 .. Len(c) : c[i].kind \in {"text", "tool_use"}
    PROVE  Answers(c)
<1> DEFINE items == WriteResponses(c)
<1>1. DOMAIN c = 1 .. Len(c)
  OBVIOUS
<1>2. DOMAIN items = 1 .. Len(c)
  BY <1>1 DEF WriteResponses
<1>3. \A i \in 1 .. Len(c) : items[i] = IF c[i].kind = "text" THEN Item(c[i]) ELSE CallItem(c[i])
  BY <1>1, Zenon DEF WriteResponses, Item, CallItem, Input
<1> HIDE DEF items
<1>4. ASSUME NEW i \in 1 .. Len(c)
      PROVE  AnsweredText(items[i]) = BlockText(c[i]) /\ AnsweredCall(items[i]) = BlockCall(c[i])
  <2>1. CASE c[i].kind = "text"
    <3>1. items[i] = Item(c[i])
      BY <1>3, <2>1
    <3> QED
      BY <2>1, <3>1 DEF Item, AnsweredText, AnsweredCall, BlockText, BlockCall
  <2>2. CASE c[i].kind = "tool_use"
    <3>1. items[i] = CallItem(c[i])
      BY <1>3, <2>2
    <3> QED
      BY <2>2, <3>1 DEF CallItem, AnsweredText, AnsweredCall, BlockText, BlockCall
  <2> QED
    BY <2>1, <2>2
<1>5. [i \in DOMAIN items |-> AnsweredText(items[i])] = [i \in DOMAIN c |-> BlockText(c[i])]
  BY <1>1, <1>2, <1>4
<1>6. [i \in DOMAIN items |-> AnsweredCall(items[i])] = [i \in DOMAIN c |-> BlockCall(c[i])]
  BY <1>1, <1>2, <1>4
<1> QED
  BY <1>2, <1>3, <1>5, <1>6, Zenon DEF Answers, Collect, items

(* A client that saw the last event has rebuilt the answer in one piece. *)
THEOREM SameAnswerRebuilt == Spec => []SameAnswer
<1> SUFFICES Inv => SameAnswer
  BY Invariant, PTL
<1> SUFFICES ASSUME Inv, Finished PROVE SameAnswer
  BY Zenon DEF SameAnswer
<1> DEFINE content == Content
           items == WriteResponses(content)
<1>1. TypeOK /\ TextInv /\ CallsInv /\ EndInv /\ TableInv /\ DoneRepeatsDeltas /\ MessageInv
  BY DEF Inv
<1>2. message \in Seq(Block) /\ DOMAIN sent = 1 .. Len(sent)
  BY <1>1 DEF TypeOK
<1>3. Faithful(message)
  BY <1>2, ContentFaithful, Zenon
<1>4. /\ content \in Seq(Block)
      /\ Collect(BlockText, content) = Collect(BlockText, message)
      /\ Collect(BlockCall, content) = Collect(BlockCall, message)
      /\ \A i \in 1 .. Len(content) :
            content[i].kind \in {"text", "tool_use"} /\ \E k \in 1 .. Len(message) : content[i] = message[k]
  BY <1>3, Zenon DEF Faithful, Content
<1> HIDE DEF content
<1>5. Answers(content)
  BY <1>4, ItemsAnswer, Zenon
<1>6. StreamedText = Collect(AnsweredText, items)
  BY <1>1, <1>4, <1>5, Zenon DEF TextInv, Answers
<1>7. IsPrefix(WriteOpenAI(content), StreamedText)
  <2>1. StreamedText = Collect(BlockText, content)
    BY <1>1, <1>4, Zenon DEF TextInv
  <2>2. CASE content # <<>> /\ content[1].kind = "text"
    <3>1. Leads(content)
      BY <1>4, FirstLeads, Zenon
    <3>2. PICK r \in Seq(Characters) : StreamedText = Body(content[1]) \o r
      BY <2>1, <2>2, <3>1, Zenon DEF Leads
    <3>3. WriteOpenAI(content) = Body(content[1])
      BY <2>2 DEF WriteOpenAI
    <3>4. Body(content[1]) \in Seq(Characters)
      <4>1. content[1] \in Block
        BY <1>4, <2>2
      <4> QED
        BY <4>1, BodyType, Zenon
    <3>5. ASSUME NEW a \in Seq(Characters) PROVE IsPrefix(a, a \o r)
      BY DEF IsPrefix
    <3> QED
      BY <3>2, <3>3, <3>4, <3>5, Zenon
  <2>3. CASE ~(content # <<>> /\ content[1].kind = "text")
    <3>1. WriteOpenAI(content) = <<>>
      BY <2>3 DEF WriteOpenAI
    <3>2. StreamedText \in Seq(Characters)
      <4>1. Totals(sent)
        BY <1>1, SentTotals DEF TypeOK
      <4> QED
        BY <4>1, Zenon DEF Totals, StreamedText
    <3>3. ASSUME NEW a \in Seq(Characters) PROVE IsPrefix(<<>>, a)
      BY DEF IsPrefix
    <3> QED
      BY <3>1, <3>2, <3>3, Zenon
  <2> QED
    BY <2>2, <2>3
<1>8. ASSUME translator = "responses" PROVE StreamedCalls = Collect(AnsweredCall, items)
  BY <1>1, <1>4, <1>5, <1>8, Zenon DEF CallsInv, Answers
<1>9. ASSUME translator = "responses", NEW i \in DOMAIN items, items[i].type = "function_call"
      PROVE  \E j \in DOMAIN sent :
                /\ sent[j].type = "done" /\ sent[j].call = items[i].call
                /\ \/ sent[j].arguments = items[i].arguments
                   \/ sent[j].arguments = <<>> /\ items[i].arguments = <<"{}">>
  <2>1. i \in 1 .. Len(content) /\ items[i] = IF content[i].kind = "text" THEN Item(content[i]) ELSE CallItem(content[i])
    BY <1>5, Zenon DEF Answers
  <2> HIDE DEF items
  <2>2. content[i].kind # "text" /\ items[i] = CallItem(content[i])
    BY <1>9, <2>1 DEF Item
  <2>3. PICK k \in 1 .. Len(message) : content[i] = message[k]
    BY <1>4, <2>1, Zenon
  <2>4. message[k].kind = "tool_use"
    BY <1>4, <2>1, <2>2, <2>3
  <2>5. phase = "stop"
    BY <1>1, <1>9 DEF EndInv, EndPhases
  <2>6. message[k].stopped
    BY <1>1, <2>5 DEF MessageInv
  <2>7. CallInv(k)
    BY <1>1, <1>9, <2>4, Zenon DEF TableInv
  <2>8. PICK j \in 1 .. Len(sent) : sent[j].type = "done" /\ sent[j].call = message[k].id
    BY <2>6, <2>7, Zenon DEF CallInv, Reported
  <2>9. sent[j].arguments = Body(message[k])
    <3>1. sent[j].arguments = StreamedArguments(sent[j].call)
      BY <1>1, <1>2, <2>8, Zenon DEF DoneRepeatsDeltas
    <3> QED
      BY <2>7, <2>8, <3>1, Zenon DEF CallInv
  <2>10. items[i].call = message[k].id /\ items[i].arguments = Input(message[k])
    BY <2>2, <2>3 DEF CallItem
  <2> QED
    BY <1>2, <2>8, <2>9, <2>10, Zenon DEF Input
<1> QED
  BY <1>6, <1>7, <1>8, <1>9, Zenon DEF SameAnswer, content
=============================================================================
