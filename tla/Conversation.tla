---------------------------- MODULE Conversation ----------------------------
(***************************************************************************)
(* A conversation of several turns, as the upstream is told it.  The       *)
(* gateway keeps nothing between requests: a client sends its whole        *)
(* history each time, in its own format and as it recorded the earlier     *)
(* answers, and ParseRequest and buildRequest make the upstream's messages *)
(* of it.                                                                  *)
(*                                                                         *)
(* A block is its kind and a tag that no other block has, except that a    *)
(* call's result carries the call's tag; texts are never compared.  Of the *)
(* settings there are those that the upstream accepts only in some         *)
(* requests: tools, a system prompt, a temperature and a thinking budget.  *)
(***************************************************************************)
EXTENDS Integers, SequencesExt

CONSTANTS
    MaxAnswers,  \* bound: answers in a conversation
    MaxBlocks    \* bound: blocks in an answer

ASSUME BoundsAssumption == MaxAnswers \in Nat /\ MaxBlocks \in Nat

Formats == {"anthropic", "openai", "responses"}
Reasoning == {"thinking", "reasoning_content"}

(* "raw" is the JSON text of a content that had no text in it. *)
Kinds == Reasoning \cup {"text", "image", "raw", "tool_use", "tool_result"}

Roles == {"user", "assistant", "system"}

Blocks == [kind : Kinds, tag : Nat]
(* What a client sends: messages and, for responses, items.  An item "" has a *)
(* role and content but no type, as in the documented examples of the route.  *)
Messages == [type : {"message"}, role : Roles, content : Seq(Blocks)]
Entries ==
    Messages \cup [type : {"function_call", "function_call_output"}, tag : Nat]
             \cup [type : {""}, role : Roles, content : Seq(Blocks)]

Tools == {"function", "hosted"}
reasoningMaxThreshold == 32000
Budgets == {0, reasoningMaxThreshold, reasoningMaxThreshold + 1}   \* 0: no thinking

VARIABLES
    format,    \* the client's, by the route it uses
    tools,     \* the tools the client sends with every request
    system,    \* whether it has a system prompt
    history,   \* what the client sends: messages, or items for responses
    asked,     \* the upstream request
    phase,     \* "client", "ready" (history complete), "asked"
    answers,   \* answers so far
    tag        \* tags used so far

client == <<format, tools, system>>
vars == <<client, history, asked, phase, answers, tag>>

NoRequest ==
    [messages |-> <<>>, system |-> FALSE, tools |-> {}, effort |-> "", temperature |-> FALSE]

Init ==
    /\ format \in Formats
    /\ tools \in SUBSET Tools /\ system \in BOOLEAN
    /\ history = <<>> /\ asked = NoRequest
    /\ phase = "client"
    /\ answers = 0 /\ tag = 0

Message(role, content) == [type |-> "message", role |-> role, content |-> content]
Call(t) == [type |-> "function_call", tag |-> t]
Output(t) == [type |-> "function_call_output", tag |-> t]
Untyped(role, content) == [type |-> "", role |-> role, content |-> content]

Block(kind, t) == [kind |-> kind, tag |-> t]

Only(kinds, blocks) ==
    FlattenSeq([i \in DOMAIN blocks |-> IF blocks[i].kind \in kinds THEN <<blocks[i]>> ELSE <<>>])

(* One block per kind, with tags of its own. *)
Tagged(kinds) == [i \in DOMAIN kinds |-> Block(kinds[i], tag + i)]

-----------------------------------------------------------------------------
(* The request path. *)

(* Mutant of StripReasoning: one of the two types is forgotten. *)
StripThinking(content) == Only(Kinds \ {"thinking"}, content)

(* stripReasoningBlocks; the empty content it may leave is "". *)
StripReasoning(content) == Only(Kinds \ Reasoning, content)

(* responsesContentToAnthropic: the text parts, or the JSON if there are none. *)
TextParts(content) ==
    LET texts == Only({"text"}, content)
    IN  IF texts # <<>> \/ content = <<>> THEN texts ELSE <<Block("raw", content[1].tag)>>

(* Mutants of Grouped: a message per block; and OpenAI's role for outputs. *)
GroupedNever(messages, run, type, role, block) ==
    [messages |-> Append(messages, Message(role, <<block>>)), run |-> type]

GroupedTool(messages, run, type, role, block) ==
    [messages |-> IF run = type
                  THEN [messages EXCEPT ![Len(messages)].content = Append(@, block)]
                  ELSE Append(messages, Message(IF role = "user" THEN "tool" ELSE role, <<block>>)),
     run |-> type]

(* A block joins the message of the item before it if that is of its type. *)
Grouped(messages, run, type, role, block) ==
    [messages |-> IF run = type
                  THEN [messages EXCEPT ![Len(messages)].content = Append(@, block)]
                  ELSE Append(messages, Message(role, <<block>>)),
     run |-> type]

(* Mutant of Item: the index skips the item after a message. *)
ItemSkipping(acc, item) ==
    CASE acc.run = "message" -> [acc EXCEPT !.run = "none"]
      [] item.type = "message" ->
            [messages |-> Append(acc.messages, Message(item.role, TextParts(item.content))),
             run |-> "message"]
      [] item.type = "function_call" ->
            Grouped(acc.messages, acc.run, item.type, "assistant", Block("tool_use", item.tag))
      [] item.type = "function_call_output" ->
            Grouped(acc.messages, acc.run, item.type, "user", Block("tool_result", item.tag))
      [] OTHER -> [acc EXCEPT !.run = "none"]

(* An item of any other type, or of none, is skipped with all it says. *)
Item(acc, item) ==
    CASE item.type = "message" ->
            [messages |-> Append(acc.messages, Message(item.role, TextParts(item.content))),
             run |-> "message"]
      [] item.type = "function_call" ->
            Grouped(acc.messages, acc.run, item.type, "assistant", Block("tool_use", item.tag))
      [] item.type = "function_call_output" ->
            Grouped(acc.messages, acc.run, item.type, "user", Block("tool_result", item.tag))
      [] OTHER -> [acc EXCEPT !.run = "none"]

NothingParsed == [messages |-> <<>>, run |-> "none"]

Parsed(items) ==
    LET parsed[n \in 0 .. Len(items)] ==
            IF n = 0 THEN NothingParsed ELSE Item(parsed[n - 1], items[n])
    IN  parsed[Len(items)]

ParseInput(items) == Parsed(items).messages

(* models.Tool has no type: a hosted tool (web search) is left with its name. *)
Bare(tool) == IF tool = "hosted" THEN "bare" ELSE tool

(* parseResponsesTools skips it. *)
ParseTools == tools \ {"hosted"}

ParseAnthropic(budget, temperature) ==
    [messages |-> history, system |-> system, tools |-> {Bare(tool) : tool \in tools},
     budget |-> budget, temperature |-> temperature]

(* openAIRequest has no field for tools. *)
ParseOpenAI(temperature) ==
    [messages |-> history, system |-> FALSE, tools |-> {},
     budget |-> 0, temperature |-> temperature]

ParseResponses(temperature) ==
    [messages |-> ParseInput(history), system |-> system, tools |-> ParseTools,
     budget |-> 0, temperature |-> temperature]

ParseRequest(budget, temperature) ==
    CASE format = "anthropic" -> ParseAnthropic(budget, temperature)
      [] format = "openai"    -> ParseOpenAI(temperature)
      [] format = "responses" -> ParseResponses(temperature)

ReasoningEffort(budget) ==
    IF budget <= 0 THEN "" ELSE IF budget > reasoningMaxThreshold THEN "max" ELSE "high"

Stripped(messages) ==
    [i \in DOMAIN messages |-> [messages[i] EXCEPT !.content = StripReasoning(@)]]

BuildRequest(req) ==
    [messages |-> Stripped(req.messages),
     system |-> req.system,
     tools |-> req.tools,
     effort |-> ReasoningEffort(req.budget),
     temperature |-> ReasoningEffort(req.budget) = "" /\ req.temperature]

Ask(budget, temperature) ==
    /\ phase = "ready"
    /\ asked' = BuildRequest(ParseRequest(budget, temperature))
    /\ phase' = "asked"
    /\ UNCHANGED <<client, history, answers, tag>>

(* The upstream fails; the client may send the same history again. *)
Fail ==
    /\ phase = "asked"
    /\ phase' = "ready" /\ asked' = NoRequest
    /\ UNCHANGED <<client, history, answers, tag>>

-----------------------------------------------------------------------------
(* The answer path: what a client records of an answer. *)

(* parseResponse keeps text and calls; a stream forwards every block. *)
Shown(content, stream) ==
    IF stream THEN content ELSE Only({"text", "tool_use"}, content)

(* OpenAI clients get text: of the first block, or all of it in a stream. *)
TextOnly(content, stream) ==
    Only({"text"}, IF stream THEN content ELSE SubSeq(content, 1, 1))

(* Responses clients get an item for each text and each call. *)
ItemsOf(block) ==
    CASE block.kind = "text"     -> <<Message("assistant", <<block>>)>>
      [] block.kind = "tool_use" -> <<Call(block.tag)>>
      [] OTHER                   -> <<>>

Items(content) ==
    FlattenSeq([i \in DOMAIN content |-> ItemsOf(content[i])])

Recorded(content, stream) ==
    CASE format = "anthropic" -> <<Message("assistant", Shown(content, stream))>>
      [] format = "openai"    -> <<Message("assistant", TextOnly(Shown(content, stream), stream))>>
      [] format = "responses" -> Items(content)

(* The upstream calls a function only if it was given one.  An unstreamed *)
(* answer without text or calls is an error.                              *)
Answer(kinds, stream) ==
    /\ phase = "asked" /\ answers < MaxAnswers
    /\ "tool_use" \in ToSet(kinds) => "function" \in asked.tools
    /\ ~stream => Shown(Tagged(kinds), FALSE) # <<>>
    /\ history' = history \o Recorded(Tagged(kinds), stream)
    /\ phase' = "client" /\ asked' = NoRequest
    /\ answers' = answers + 1
    /\ tag' = tag + Len(kinds)
    /\ UNCHANGED client

-----------------------------------------------------------------------------
(* The client (external): it speaks, and answers every call it was given.   *)

Typed(entry) == entry.type # ""

(* What the gateway makes out of an entry, and what the client said by it. *)
Heard(entry) ==
    CASE entry.type = "message"              -> entry.content
      [] entry.type = "function_call"        -> <<Block("tool_use", entry.tag)>>
      [] entry.type = "function_call_output" -> <<Block("tool_result", entry.tag)>>
      [] OTHER                               -> <<>>

Said(entry) == IF Typed(entry) THEN Heard(entry) ELSE entry.content

HeardOf(entries) == FlattenSeq([i \in DOMAIN entries |-> Heard(entries[i])])
SaidOf(entries) == FlattenSeq([i \in DOMAIN entries |-> Said(entries[i])])

Tags(kind, blocks) == {block.tag : block \in {b \in ToSet(blocks) : b.kind = kind}}

(* Calls and results are items with a type. *)
Pending == Tags("tool_use", HeardOf(history)) \ Tags("tool_result", HeardOf(history))

(* An OpenAI client's system prompt is its first message. *)
SystemMessage ==
    IF format = "openai" /\ system /\ history = <<>>
    THEN <<Message("system", <<Block("text", tag)>>)>> ELSE <<>>

(* A Responses client may leave the type of its messages out. *)
UserTurn(kinds, typed) ==
    /\ phase = "client" /\ Pending = {}
    /\ format # "responses" => typed
    /\ history' = history \o SystemMessage \o
          <<IF typed THEN Message("user", Tagged(kinds)) ELSE Untyped("user", Tagged(kinds))>>
    /\ phase' = "ready"
    /\ tag' = tag + Len(kinds)
    /\ UNCHANGED <<client, asked, answers>>

ToolResults ==
    /\ phase = "client" /\ Pending # {}
    /\ \E calls \in SetToSeqs(Pending) :
          history' = history \o
              IF format = "responses"
              THEN [i \in DOMAIN calls |-> Output(calls[i])]
              ELSE <<Message("user", [i \in DOMAIN calls |-> Block("tool_result", calls[i])])>>
    /\ phase' = "ready"
    /\ UNCHANGED <<client, asked, answers, tag>>

UserContents == {<<"text">>, <<"image">>, <<"text", "image">>, <<"text", "text">>}

AnswerContents == BoundedSeq(Reasoning \cup {"text", "tool_use"}, MaxBlocks) \ {<<>>}

Next ==
    \/ \E kinds \in UserContents, typed \in BOOLEAN : UserTurn(kinds, typed)
    \/ ToolResults
    \/ \E budget \in Budgets, temperature \in BOOLEAN : Ask(budget, temperature)
    \/ Fail
    \/ \E kinds \in AnswerContents, stream \in BOOLEAN : Answer(kinds, stream)

Spec == Init /\ [][Next]_vars

-----------------------------------------------------------------------------
TypeOK ==
    /\ format \in Formats
    /\ tools \in SUBSET Tools /\ system \in BOOLEAN
    /\ history \in Seq(Entries)
    /\ asked \in [messages : Seq(Messages), system : BOOLEAN, tools : SUBSET {"function", "bare"},
                  effort : {"", "high", "max"}, temperature : BOOLEAN]
    /\ phase \in {"client", "ready", "asked"}
    /\ answers \in 0 .. MaxAnswers
    /\ tag \in Nat
    /\ \A block \in ToSet(HeardOf(history)) : block.tag <= tag

CallsIn(message) == Tags("tool_use", message.content)
ResultsIn(message) == Tags("tool_result", message.content)

(***************************************************************************)
(* No request has what the source says DeepSeek rejects: a block of the    *)
(* reasoning of an earlier answer, whatever a client recorded of a stream, *)
(* or a temperature beside an effort.  And no request has calls in its     *)
(* messages without function tools to go with them.                        *)
(***************************************************************************)
NothingRejected ==
    /\ \A i \in DOMAIN asked.messages :
          /\ \A block \in ToSet(asked.messages[i].content) : block.kind \notin Reasoning
          /\ CallsIn(asked.messages[i]) # {} => "function" \in asked.tools
    /\ asked.effort # "" => ~asked.temperature

(***************************************************************************)
(* Everything else the client remembers is told, once and in order: texts, *)
(* calls and results, over all turns and formats, and its system prompt.   *)
(* Missing are only the images of a Responses client and all that its      *)
(* items without a type say, for which see InputIsTold.                    *)
(***************************************************************************)
Told(blocks) == Only({"text", "tool_use", "tool_result"}, blocks)

HistoryKept ==
    phase = "asked" =>
        /\ Told(HeardOf(asked.messages)) = Told(HeardOf(history))
        /\ system => asked.system \/ asked.messages[1].role = "system"

(***************************************************************************)
(* The example body of POST /v1/responses has an input of messages with a  *)
(* role and a content, and parseResponsesInput says it handles a message   *)
(* array: what a client says in such messages is told as well.             *)
(***************************************************************************)
InputIsTold == phase = "asked" => Told(HeardOf(asked.messages)) = Told(SaidOf(history))

(***************************************************************************)
(* The upstream's rule for tools: after the assistant's turn with calls    *)
(* comes one message of the user that has the results of all of them, and  *)
(* a result comes nowhere else.  A request ends with the user, unless the  *)
(* user's last words were an item without a type.                          *)
(***************************************************************************)
TurnCalls(messages, i) ==
    UNION {CallsIn(messages[j]) :
           j \in {j \in 1 .. i : \A n \in j .. i : messages[n].role = "assistant"}}

ToolTurns ==
    phase = "asked" =>
        \A i \in DOMAIN asked.messages :
            /\ asked.messages[i].role = "user" =>
                  ResultsIn(asked.messages[i]) = TurnCalls(asked.messages, i - 1)
            /\ i = Len(asked.messages) /\ Typed(Last(history)) => asked.messages[i].role = "user"
=============================================================================
