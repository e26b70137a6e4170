-------------------------------- MODULE Bodies --------------------------------
(***************************************************************************)
(* The request and response bodies of the three formats and the stateless   *)
(* converters between them (format/format.go, format/responses.go and the   *)
(* body converters of relay/).                                              *)
(*                                                                          *)
(* A body is a sequence of messages, each a role and a sequence of parts.   *)
(* The system prompt is a message of role "system" wherever the format      *)
(* keeps it. A chat assistant's fields are listed as reasoning, text, calls; *)
(* a Responses item is a message of one kind of parts. A part of kind "odd" *)
(* exists in its own format only (a file id, an audio URL); "blank" is an   *)
(* empty text; a "refusal" is what a model says instead of a text, in chat  *)
(* a field of its own. A message is plain when its content is one string,   *)
(* as Anthropic's format allows, and not an array of parts.                 *)
(***************************************************************************)
EXTENDS Naturals, Sequences, SequencesExt

Part(kind, id) == [kind |-> kind, id |-> id, body |-> <<>>]
Result(call, body) == [kind |-> "result", id |-> call, body |-> body]
Blank == Part("blank", <<0, 0>>)

Message(role, content) == [role |-> role, content |-> content, plain |-> FALSE]

Only(kinds, parts) == SelectSeq(parts, LAMBDA p : p.kind \in kinds)
OrBlank(parts) == IF parts = <<>> THEN <<Blank>> ELSE parts
Contents(messages) == FlattenSeq([i \in DOMAIN messages |-> messages[i].content])
MapFlat(Op(_), messages) == FlattenSeq([i \in DOMAIN messages |-> Op(messages[i])])
OfRole(role, messages) == SelectSeq(messages, LAMBDA m : m.role = role)

\* The parts a conversion can express in the other format.
Carried == {"text", "media", "blank"}

ConvertOpenAIContentArray(parts) == Only(Carried, parts)
ConvertAnthropicContentArray(parts) == Only(Carried, parts)
ResponsesUserContent(parts) == OrBlank(Only(Carried, parts))
ResponsesOutputToAnthropic(parts) == OrBlank(Only(Carried, parts))
ResponsesOutputToChatContent(parts) == OrBlank(Only(Carried, parts))
------------------------------------------------------------------------------
(* Requests to an Anthropic upstream *)

\* Mutant: merging forgets what the message it merges into said.
AppendMergedBroken(list, m) ==
  IF list # <<>> /\ Last(list).role = m.role THEN Append(Front(list), m) ELSE Append(list, m)

AppendMerged(list, m) ==
  IF list # <<>> /\ Last(list).role = m.role
  THEN Append(Front(list), [m EXCEPT !.content = Last(list).content \o m.content])
  ELSE Append(list, m)

Merged(messages) == FoldLeft(AppendMerged, <<>>, messages)

MinimalTurn == Message("user", <<Blank>>)

\* The system texts of a request, hoisted to its front.
SystemTexts(messages) == Only({"text"}, Contents(OfRole("system", messages)))
Led(texts, messages) ==
  IF texts = <<>> THEN messages ELSE <<Message("system", texts)>> \o messages

ConvertOpenAIUserMessage(m) == Message("user", OrBlank(ConvertOpenAIContentArray(m.content)))

ConvertOpenAIAssistantMessage(m) ==
  Message("assistant", OrBlank(Only({"think", "text", "call"}, m.content)))

ConvertOpenAIToolMessage(m) ==
  LET result == m.content[1]
  IN Message("user", <<Result(result.id, OrBlank(ConvertOpenAIContentArray(result.body)))>>)

OpenAIMessage(m) ==
  CASE m.role = "system" -> <<>>
    [] m.role = "user" -> <<ConvertOpenAIUserMessage(m)>>
    [] m.role = "assistant" -> <<ConvertOpenAIAssistantMessage(m)>>
    [] m.role = "tool" -> <<ConvertOpenAIToolMessage(m)>>

OpenAIRequestToAnthropic(messages) ==
  LET turns == Merged(MapFlat(OpenAIMessage, messages))
  IN Led(SystemTexts(messages), IF turns = <<>> THEN <<MinimalTurn>> ELSE turns)

\* The kinds of Responses input items.
ItemType(item) ==
  CASE item.role = "tool" -> "function_call_output"
    [] item.content[1].kind = "call" -> "function_call"
    [] item.content[1].kind = "think" -> "reasoning"
    [] OTHER -> "message"

ResponsesAssistantContent(parts) == OrBlank(Only({"text", "call"}, parts))

ResponsesItemToAnthropic(item) ==
  CASE item.role = "user" -> <<Message("user", ResponsesUserContent(item.content))>>
    [] item.role = "assistant" /\ ItemType(item) # "reasoning" ->
         <<Message("assistant", ResponsesAssistantContent(item.content))>>
    [] ItemType(item) = "function_call_output" ->
         <<Message("user", <<Result(item.content[1].id, ResponsesOutputToAnthropic(item.content[1].body))>>)>>
    [] OTHER -> <<>>

ResponsesRequestToAnthropic(items) ==
  LET turns == Merged(MapFlat(ResponsesItemToAnthropic, items))
      ended == IF turns = <<>> \/ Last(turns).role = "assistant" THEN Append(turns, MinimalTurn) ELSE turns
  IN Led(SystemTexts(items), ended)
------------------------------------------------------------------------------
(* Requests to a chat upstream *)

ConvertAnthropicToolResult(p) ==
  Message("tool", <<Result(p.id, OrBlank(ConvertAnthropicContentArray(p.body)))>>)

\* A plain content is no array: the message is left without content.
ConvertAnthropicAssistantMessage(m) ==
  Message("assistant",
    IF m.plain THEN <<>>
    ELSE OrBlank(Only({"think"}, m.content) \o Only({"text"}, m.content) \o Only({"call"}, m.content)))

\* Mutant: what the user says comes before the results.
SplitUserMessageBroken(m) ==
  LET results == Only({"result"}, m.content)
      others == ConvertAnthropicContentArray(SelectSeq(m.content, LAMBDA p : p.kind # "result"))
  IN (IF others # <<>> \/ results = <<>> THEN <<Message("user", others)>> ELSE <<>>)
     \o [i \in DOMAIN results |-> ConvertAnthropicToolResult(results[i])]

\* splitToolResults: a user message's tool results become tool messages of
\* their own, before what else it says.
SplitUserMessage(m) ==
  LET results == Only({"result"}, m.content)
      others == SelectSeq(m.content, LAMBDA p : p.kind # "result")
  IN [i \in DOMAIN results |-> ConvertAnthropicToolResult(results[i])]
     \o (IF others # <<>> \/ results = <<>>
         THEN <<Message("user", ConvertAnthropicContentArray(others))>> ELSE <<>>)

AnthropicMessage(m) ==
  CASE m.role = "system" -> <<>>
    [] m.role = "user" -> SplitUserMessage(m)
    [] m.role = "assistant" -> <<ConvertAnthropicAssistantMessage(m)>>

PadTool(messages) ==
  IF messages # <<>> /\ Last(messages).role = "tool"
  THEN Append(messages, Message("assistant", <<Blank>>)) ELSE messages

AnthropicRequestToOpenAI(messages) ==
  PadTool(Led(SystemTexts(messages), MapFlat(AnthropicMessage, messages)))

\* Adjacent function_call items are one assistant message.
CallsFrom(items, i) ==
  LET run == {j \in i .. Len(items) : \A k \in i .. j : ItemType(items[k]) = "function_call"}
  IN Message("assistant", [k \in 1 .. Cardinality(run) |-> items[i + k - 1].content[1]])

ResponsesItemToChat(items, i) ==
  LET item == items[i] IN
  CASE ItemType(item) = "message" /\ item.role # "system" ->
         <<Message(item.role, OrBlank(Only(Carried, item.content)))>>
    [] ItemType(item) = "function_call" ->
         IF i > 1 /\ ItemType(items[i - 1]) = "function_call" THEN <<>> ELSE <<CallsFrom(items, i)>>
    [] ItemType(item) = "function_call_output" ->
         <<Message("tool", <<Result(item.content[1].id, ResponsesOutputToChatContent(item.content[1].body))>>)>>
    [] OTHER -> <<>>

\* Calls nobody answered are answered with nothing.
PadCalls(messages) ==
  LET pending == Only({"call"}, Last(messages).content)
  IN IF Last(messages).role # "assistant" THEN messages
     ELSE messages \o [i \in DOMAIN pending |-> Message("tool", <<Result(pending[i].id, <<Blank>>)>>)]

ResponsesRequestToChatCompletion(items) ==
  LET turns == FlattenSeq([i \in DOMAIN items |-> ResponsesItemToChat(items, i)])
      led == Led(SystemTexts(items), turns)
  IN IF led = <<>> THEN <<MinimalTurn>>
     ELSE IF Last(led).role = "tool" THEN PadTool(led) ELSE PadCalls(led)
------------------------------------------------------------------------------
(* Answers *)

ConvertAnthropicResponseToOpenAI(parts) ==
  <<Message("assistant",
      OrBlank(Only({"think"}, parts) \o Only({"text"}, parts) \o Only({"call"}, parts)))>>

\* Anthropic's format has no refusals: one is a text.
ConvertOpenAIResponseToAnthropic(parts) ==
  LET kept == Only({"think", "text", "refusal", "call"}, parts)
  IN <<Message("assistant",
         [i \in DOMAIN kept |-> IF kept[i].kind = "refusal" THEN [kept[i] EXCEPT !.kind = "text"] ELSE kept[i]])>>

Items(parts) == [i \in DOMAIN parts |-> Message("assistant", <<parts[i]>>)]

ChatCompletionResponseToResponses(parts) ==
  LET text == Only({"text"}, parts) \o Only({"refusal"}, parts)
  IN (IF text = <<>> THEN <<>> ELSE <<Message("assistant", text)>>)
     \o Items(Only({"call"}, parts)) \o Items(Only({"think"}, parts))

\* Texts are flushed as a message before a call or a thought.
AddBlock(items, p) ==
  IF p.kind \in {"text", "refusal"} /\ items # <<>> /\ ItemType(Last(items)) = "message"
  THEN Append(Front(items), Message("assistant", Append(Last(items).content, p)))
  ELSE Append(items, Message("assistant", <<p>>))

AnthropicResponseToResponses(parts) == FoldLeft(AddBlock, <<>>, Only({"think", "text", "call"}, parts))
------------------------------------------------------------------------------
(* Tool choices: a word ("auto", "none", "required"), an Anthropic object,   *)
(* or a forced function, nested in chat and flat in Responses.               *)

Choice(form, what) == [form |-> form, what |-> what]

ToolChoices(format) ==
  CASE format = "anthropic" -> {Choice("object", w) : w \in {"auto", "any", "none", "tool"}}
    [] format = "openai" -> {Choice("word", w) : w \in {"auto", "required", "none"}} \cup {Choice("nested", "tool")}
    [] OTHER -> {Choice("word", w) : w \in {"auto", "required", "none"}}
                \cup {Choice("nested", "tool"), Choice("flat", "tool")}

OpenAIToolChoiceToAnthropic(c) ==
  CASE c.form = "word" /\ c.what = "none" -> Choice("object", "none")
    [] c.form = "word" /\ c.what = "required" -> Choice("object", "any")
    [] c.form = "word" /\ c.what \notin {"none", "required"} -> Choice("object", "auto")
    [] c.form \in {"nested", "flat"} -> Choice("object", "tool")
    [] OTHER -> c

AnthropicToolChoiceToOpenAI(c) ==
  CASE c = Choice("object", "any") -> Choice("word", "required")
    [] c = Choice("object", "tool") -> Choice("nested", "tool")
    [] c.form = "object" /\ c.what \in {"auto", "none"} -> Choice("word", c.what)
    [] OTHER -> c

ResponsesToolChoiceToChat(c) == IF c.form = "flat" THEN Choice("nested", "tool") ELSE c
===============================================================================
