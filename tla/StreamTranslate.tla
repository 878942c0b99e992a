-------------------------- MODULE StreamTranslate --------------------------
(***************************************************************************)
(* What the three StreamEvents implementations make of the upstream's      *)
(* stream, event by event, and what a client can rebuild from it.  The     *)
(* same message can also be asked for without streaming: then parseResponse *)
(* and WriteResponse answer it in one piece, and the two should agree.     *)
(*                                                                         *)
(* The upstream (external) sends a message as numbered content blocks:     *)
(* start, fragments, stop; then message_delta and message_stop.  Tool      *)
(* blocks may overlap, others are sent one at a time.  The stream may end  *)
(* anywhere.  How events travel to the client is StreamPipe's subject.     *)
(***************************************************************************)
EXTENDS Integers, SequencesExt

CONSTANTS
    Calls,         \* tool call ids the upstream may use
    Fragments,     \* what one delta carries: a sequence of characters
    MaxBlocks,     \* bound: content blocks in a message
    MaxFragments,  \* bound: deltas in a block
    None           \* the id of a block that is no tool call; no blockState

Characters == UNION {ToSet(f) : f \in Fragments}

Text == Seq(Characters)

BlockState == [isTool : BOOLEAN, id : Calls \cup {None}, args : Text]

ASSUME FragmentsAssumption == Fragments \subseteq Text
ASSUME BoundsAssumption == MaxBlocks \in Nat /\ MaxFragments \in Nat
ASSUME NoneAssumption == None \notin Calls \cup BlockState

Translators == {"anthropic", "openai", "responses"}
BlockKinds == {"text", "tool_use", "thinking"}
Indices == 1 .. MaxBlocks   \* event.Index is one less

VARIABLES
    translator,  \* chosen by the route
    message,     \* the upstream's blocks so far
    phase,       \* the upstream sent: "blocks", "delta" (message_delta), "stop"
    over,        \* the events channel is drained
    blocks,      \* responses: the map of blockState by index
    sent         \* what was written for the client, in order

vars == <<translator, message, phase, over, blocks, sent>>

Init ==
    /\ translator \in Translators
    /\ message = <<>>
    /\ phase = "blocks"
    /\ over = FALSE
    /\ blocks = [i \in Indices |-> None]
    /\ sent = <<>>

-----------------------------------------------------------------------------
(* The upstream's events. *)

Start(i, kind, id) == [type |-> "content_block_start", index |-> i, kind |-> kind, id |-> id]
Delta(i, kind, f) == [type |-> "content_block_delta", index |-> i, kind |-> kind, delta |-> f]
Stop(i) == [type |-> "content_block_stop", index |-> i]
(* A message_delta says why the message stopped: one without a stop reason, *)
(* which the OpenAI translator would skip, is not sent by an upstream.      *)
MessageDelta == [type |-> "message_delta"]
MessageStop == [type |-> "message_stop"]
Error == [type |-> "error", error |-> "overloaded"]

Open(i) == i \in DOMAIN message /\ ~message[i].stopped

-----------------------------------------------------------------------------
(* The translators: what each writes for one event. *)

(* models.StreamEvent has no field for an error's body, and leaves an index *)
(* of 0 out when it is marshalled again.                                    *)
Dropped(event) == IF "index" \in DOMAIN event /\ event.index = 1 THEN {"index"} ELSE {"error"}

ForwardAnthropic(event) == <<Restrict(event, DOMAIN event \ Dropped(event))>>

(* Mutant of ForwardOpenAI: the type of a delta is not looked at. *)
ForwardOpenAIAny(event) ==
    CASE event.type = "content_block_delta" /\ event.delta # <<>> ->
            <<[type |-> "content", delta |-> event.delta]>>
      [] event.type = "message_delta" -> <<[type |-> "finish"]>>
      [] OTHER -> <<>>

(* Text that is not empty, and the stop reason; everything else is skipped. *)
ForwardOpenAI(event) ==
    CASE event.type = "content_block_delta" /\ event.kind = "text" /\ event.delta # <<>> ->
            <<[type |-> "content", delta |-> event.delta]>>
      [] event.type = "message_delta" -> <<[type |-> "finish"]>>
      [] OTHER -> <<>>

IsTool(i) == blocks[i] # None /\ blocks[i].isTool

ForwardResponses(event) ==
    CASE event.type = "content_block_start" /\ event.kind = "tool_use" ->
            <<[type |-> "added", call |-> event.id]>>
      [] event.type = "content_block_delta" /\ event.kind = "text" ->
            <<[type |-> "text", delta |-> event.delta]>>
      [] event.type = "content_block_delta" /\ event.kind = "tool_use" /\ IsTool(event.index) ->
            <<[type |-> "arguments", call |-> blocks[event.index].id, delta |-> event.delta]>>
      [] event.type = "content_block_stop" /\ IsTool(event.index) ->
            <<[type |-> "done", call |-> blocks[event.index].id,
               arguments |-> blocks[event.index].args]>>
      [] event.type = "message_stop" -> <<[type |-> "completed"]>>
      [] OTHER -> <<>>

Forward(event) ==
    CASE translator = "anthropic" -> ForwardAnthropic(event)
      [] translator = "openai"    -> ForwardOpenAI(event)
      [] translator = "responses" -> ForwardResponses(event)

(* Mutants of Track: the arguments hold the last fragment only; a state is  *)
(* kept after its block's stop.                                             *)
TrackLast(event) ==
    CASE event.type = "content_block_start" ->
            [blocks EXCEPT ![event.index] =
                [isTool |-> event.kind = "tool_use", id |-> event.id, args |-> <<>>]]
      [] event.type = "content_block_delta" /\ event.kind = "tool_use" /\ IsTool(event.index) ->
            [blocks EXCEPT ![event.index].args = event.delta]
      [] event.type = "content_block_stop" /\ IsTool(event.index) ->
            [blocks EXCEPT ![event.index] = None]
      [] OTHER -> blocks

TrackKeep(event) ==
    CASE event.type = "content_block_start" ->
            [blocks EXCEPT ![event.index] =
                [isTool |-> event.kind = "tool_use", id |-> event.id, args |-> <<>>]]
      [] event.type = "content_block_delta" /\ event.kind = "tool_use" /\ IsTool(event.index) ->
            [blocks EXCEPT ![event.index].args = @ \o event.delta]
      [] OTHER -> blocks

(* The responses translator's map: a start enters any block, a stop removes *)
(* a tool's.                                                                *)
Track(event) ==
    CASE event.type = "content_block_start" ->
            [blocks EXCEPT ![event.index] =
                [isTool |-> event.kind = "tool_use", id |-> event.id, args |-> <<>>]]
      [] event.type = "content_block_delta" /\ event.kind = "tool_use" /\ IsTool(event.index) ->
            [blocks EXCEPT ![event.index].args = @ \o event.delta]
      [] event.type = "content_block_stop" /\ IsTool(event.index) ->
            [blocks EXCEPT ![event.index] = None]
      [] OTHER -> blocks

(* One turn of the loop over events. *)
Handle(event) ==
    /\ ~over
    /\ sent' = sent \o Forward(event)
    /\ blocks' = IF translator = "responses" THEN Track(event) ELSE blocks
    /\ UNCHANGED <<translator, over>>

-----------------------------------------------------------------------------
BlockStart(kind, id) ==
    /\ phase = "blocks" /\ Len(message) < MaxBlocks
    /\ \A i \in DOMAIN message : Open(i) => kind = "tool_use" /\ message[i].kind = "tool_use"
    /\ id = None <=> kind # "tool_use"
    /\ \A i \in DOMAIN message : id = None \/ message[i].id # id
    /\ message' = Append(message,
                     [kind |-> kind, id |-> id, fragments |-> <<>>, stopped |-> FALSE])
    /\ Handle(Start(Len(message) + 1, kind, id))
    /\ UNCHANGED phase

BlockDelta(i, f) ==
    /\ Open(i) /\ Len(message[i].fragments) < MaxFragments
    /\ message' = [message EXCEPT ![i].fragments = Append(@, f)]
    /\ Handle(Delta(i, message[i].kind, f))
    /\ UNCHANGED phase

BlockStop(i) ==
    /\ Open(i)
    /\ message' = [message EXCEPT ![i].stopped = TRUE]
    /\ Handle(Stop(i))
    /\ UNCHANGED phase

MessageEnds ==
    /\ \A i \in DOMAIN message : ~Open(i)
    /\ \/ phase = "blocks" /\ phase' = "delta" /\ Handle(MessageDelta)
       \/ phase = "delta" /\ phase' = "stop" /\ Handle(MessageStop)
    /\ UNCHANGED message

(* Mutant of EndOfStream: the completion is announced whatever happened. *)
EndOfStreamCompleted ==
    /\ ~over
    /\ over' = TRUE
    /\ sent' = sent \o <<[type |-> "completed"], [type |-> "[DONE]"]>>
    /\ UNCHANGED <<translator, message, phase, blocks>>

(* The channel is closed, for whatever reason: the upstream may have sent an *)
(* error event last, or nothing.                                             *)
EndOfStream ==
    /\ ~over
    /\ over' = TRUE
    /\ \E last \in {<<>>, Forward(Error)} : sent' = sent \o last \o <<[type |-> "[DONE]"]>>
    /\ UNCHANGED <<translator, message, phase, blocks>>

Next ==
    \/ \E kind \in BlockKinds, id \in Calls \cup {None} : BlockStart(kind, id)
    \/ \E i \in Indices : BlockStop(i) \/ \E f \in Fragments : BlockDelta(i, f)
    \/ MessageEnds
    \/ EndOfStream

Spec == Init /\ [][Next]_vars

-----------------------------------------------------------------------------
(* The same message without streaming. *)

Body(block) == FlattenSeq(block.fragments)

(* What the members of a sequence are worth, one after the other. *)
Collect(Part(_), seq) == FlattenSeq([i \in DOMAIN seq |-> Part(seq[i])])

(* The content parseResponse keeps: a block of another kind is dropped. *)
Kept(block) == IF block.kind \in {"text", "tool_use"} THEN <<block>> ELSE <<>>

Content == Collect(Kept, message)

(* WriteResponse of OpenAI: Content[0].Text, which a tool call leaves empty. *)
WriteOpenAI(content) ==
    IF content # <<>> /\ content[1].kind = "text" THEN Body(content[1]) ELSE <<>>

(* WriteResponse of Responses: a message or a function_call per block.  The  *)
(* upstream's input of a call without arguments is an empty object, which is *)
(* what "{}" stands for.                                                     *)
WriteResponses(content) ==
    [i \in DOMAIN content |->
        IF content[i].kind = "text"
        THEN [type |-> "message", text |-> Body(content[i])]
        ELSE [type |-> "function_call", call |-> content[i].id,
              arguments |-> IF Body(content[i]) = <<>> THEN <<"{}">> ELSE Body(content[i])]]

-----------------------------------------------------------------------------
Block == [kind : BlockKinds, id : Calls \cup {None}, fragments : Seq(Fragments), stopped : BOOLEAN]

Event ==
    {Start(i, kind, id) : i \in Indices, kind \in BlockKinds, id \in Calls \cup {None}}
    \cup {Delta(i, kind, f) : i \in Indices, kind \in BlockKinds, f \in Fragments}
    \cup {Stop(i) : i \in Indices}
    \cup {MessageDelta, MessageStop, Error}

Written ==
    {ForwardAnthropic(event)[1] : event \in Event}
    \cup [type : {"content", "text"}, delta : Text]
    \cup [type : {"added"}, call : Calls]
    \cup [type : {"arguments"}, call : Calls, delta : Text]
    \cup [type : {"done"}, call : Calls, arguments : Text]
    \cup [type : {"finish", "completed", "[DONE]"}]

TypeOK ==
    /\ translator \in Translators
    /\ phase \in {"blocks", "delta", "stop"}
    /\ over \in BOOLEAN
    /\ message \in Seq(Block) /\ Len(message) <= MaxBlocks
    /\ blocks \in [Indices -> {None} \cup BlockState]
    /\ sent \in Seq(Written)
    /\ \A i \in Indices : IsTool(i) => Open(i) /\ blocks[i].id = message[i].id

(* What a client has read: text, and of the calls their ids and arguments. *)
TextOf(event) ==
    IF \/ event.type \in {"content", "text"}
       \/ event.type = "content_block_delta" /\ event.kind = "text"
    THEN event.delta ELSE <<>>

CallOf(event) == IF event.type = "added" THEN <<event.call>> ELSE <<>>

DeltaOf(call, event) == IF event.type = "arguments" /\ event.call = call THEN event.delta ELSE <<>>

StreamedText == Collect(TextOf, sent)

StreamedCalls == Collect(CallOf, sent)

ArgumentsOf(call, events) == Collect(LAMBDA event : DeltaOf(call, event), events)

StreamedArguments(call) == ArgumentsOf(call, sent)

(* The event that tells a client of each format that the answer is whole. *)
Terminal == CASE translator = "anthropic" -> "message_stop"
              [] translator = "openai"    -> "finish"
              [] translator = "responses" -> "completed"

Finished == \E j \in DOMAIN sent : sent[j].type = Terminal

(***************************************************************************)
(* The two ways a Responses client can learn a call's arguments agree, in  *)
(* whole and in cut streams, whatever calls overlap: done repeats exactly  *)
(* the deltas of its own call, which was announced before and gets nothing *)
(* after.                                                                  *)
(***************************************************************************)
DoneRepeatsDeltas ==
    \A j \in DOMAIN sent : sent[j].type = "done" =>
        /\ sent[j].arguments = StreamedArguments(sent[j].call)
        /\ \E n \in DOMAIN sent : n < j /\ sent[n].type = "added" /\ sent[n].call = sent[j].call
        /\ \A n \in DOMAIN sent :
              sent[n].type \in {"added", "arguments", "done"} /\ sent[n].call = sent[j].call => n <= j

(* The same of an answer in one piece. *)
AnsweredText(item) == IF item.type = "message" THEN item.text ELSE <<>>

AnsweredCall(item) == IF item.type = "function_call" THEN <<item.call>> ELSE <<>>

(***************************************************************************)
(* A client that saw its format's last event has rebuilt what the same     *)
(* message gives without streaming: the text (of which the OpenAI answer   *)
(* only has the first block's), and for Responses the calls in their order *)
(* with their arguments, except that a call without arguments is "" in a   *)
(* stream and "{}" otherwise.                                              *)
(***************************************************************************)
SameAnswer ==
    Finished =>
        LET items == WriteResponses(Content)
        IN  /\ StreamedText = Collect(AnsweredText, items)
            /\ translator = "openai" => IsPrefix(WriteOpenAI(Content), StreamedText)
            /\ translator = "responses" =>
                  /\ StreamedCalls = Collect(AnsweredCall, items)
                  /\ \A i \in DOMAIN items : items[i].type = "function_call" =>
                        \E j \in DOMAIN sent :
                           /\ sent[j].type = "done" /\ sent[j].call = items[i].call
                           /\ \/ sent[j].arguments = items[i].arguments
                              \/ sent[j].arguments = <<>> /\ items[i].arguments = <<"{}">>

(***************************************************************************)
(* [DONE] ends every stream, but a cut one can be told from a whole one:   *)
(* the format's last event was sent if and only if the upstream sent it.   *)
(***************************************************************************)
CutIsVisible ==
    over => /\ sent # <<>>
            /\ \A j \in DOMAIN sent : sent[j].type = "[DONE]" <=> j = Len(sent)
            /\ Finished <=> phase \in {"stop"} \cup (IF translator = "openai" THEN {"delta"} ELSE {})
=============================================================================
