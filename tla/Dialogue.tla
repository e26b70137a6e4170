------------------------------- MODULE Dialogue -------------------------------
(***************************************************************************)
(* A conversation with tools, turn by turn. The client keeps the transcript  *)
(* in its own format and sends all of it with every request; the gateway     *)
(* forwards it to whichever provider selection or failover picks, in that    *)
(* provider's format (relay.ForwardRequest), and converts the answer back    *)
(* (handleRelay). Nothing is kept between requests, so what one provider's   *)
(* answer became is what the next one is asked with.                         *)
(***************************************************************************)
EXTENDS Bodies

CONSTANTS
  Clients,       \* the formats clients may speak
  Prompts,       \* what a user says in a turn: sequences of kinds of parts
  Outputs,       \* what a tool returns: sequences of kinds of parts
  Answers,       \* per upstream format, what a model answers: sequences of kinds
  MaxTurns       \* bound: turns of a conversation

Formats == {"openai", "anthropic", "responses"}

ASSUME DialogueAssumption ==
  /\ Clients \subseteq Formats
  /\ DOMAIN Answers = Formats
  /\ MaxTurns \in Nat

VARIABLES
  client,        \* the client's format
  transcript,    \* its messages, in its format
  said,          \* history: the messages as they were spoken
  sent,          \* the body the upstream received last: its format and messages
  turn,          \* how many turns were spoken
  phase          \* "compose", "ask" (at the gateway) or "answer" (at the upstream)

vars == <<client, transcript, said, sent, turn, phase>>

None == [to |-> "nobody", messages |-> <<>>]

Stamped(kinds, n) == [i \in DOMAIN kinds |-> Part(kinds[i], <<n, i>>)]

Calls(messages) == {p.id : p \in {q \in ToSet(Contents(messages)) : q.kind = "call"}}
Results(messages) == {p.id : p \in {q \in ToSet(Contents(messages)) : q.kind = "result"}}
Pending == Calls(transcript) \ Results(transcript)

Prompt == <<Message("system", Stamped(<<"text">>, 0))>>

Init ==
  /\ client \in Clients
  /\ transcript \in IF client = "anthropic" THEN {<<>>, Prompt} ELSE {<<>>}
  /\ said = transcript
  /\ sent = None
  /\ turn = 0
  /\ phase = "compose"

Say(messages) ==
  /\ transcript' = transcript \o messages
  /\ said' = said \o messages
  /\ turn' = turn + 1
  /\ UNCHANGED <<client, sent>>

\* The client runs the tools it was asked for, in any order it likes, and may
\* say something on top. An Anthropic client says it all in one message, the
\* results first.
ReturnResults ==
  /\ phase = "compose" /\ turn < MaxTurns /\ Pending # {}
  /\ \E order \in SetToSeqs(Pending), output \in Outputs, more \in Prompts \cup {<<>>} :
       LET results == [i \in DOMAIN order |-> Result(order[i], Stamped(output, turn + 1))]
           other == Stamped(more, turn + 1)
       IN Say(IF client = "anthropic" THEN <<Message("user", results \o other)>>
              ELSE [i \in DOMAIN results |-> Message("tool", <<results[i]>>)]
                   \o (IF more = <<>> THEN <<>> ELSE <<Message("user", other)>>))
  /\ phase' = "ask"

\* A user's turn. OpenAI's formats allow several in a row, and instructions
\* anywhere.
Speak ==
  /\ phase = "compose" /\ turn < MaxTurns /\ Pending = {}
  /\ \E kinds \in Prompts : Say(<<Message("user", Stamped(kinds, turn + 1))>>)
  /\ phase' \in IF client = "anthropic" THEN {"ask"} ELSE {"ask", "compose"}

Instruct ==
  /\ phase = "compose" /\ turn < MaxTurns /\ Pending = {} /\ client # "anthropic"
  /\ Say(<<Message("system", Stamped(<<"text">>, turn + 1))>>)
  /\ phase' \in {"ask", "compose"}

\* ForwardRequest: the body the provider gets.
Body(provider) ==
  CASE client = "responses" /\ provider = "anthropic" ->
         [to |-> "anthropic", messages |-> ResponsesRequestToAnthropic(transcript)]
    [] client = "responses" /\ provider = "openai" ->
         [to |-> "responses", messages |-> transcript]
    [] client = "openai" /\ provider = "anthropic" ->
         [to |-> "anthropic", messages |-> OpenAIRequestToAnthropic(transcript)]
    [] client = "anthropic" /\ provider = "openai" ->
         [to |-> "openai", messages |-> AnthropicRequestToOpenAI(transcript)]
    [] OTHER -> [to |-> provider, messages |-> transcript]

\* Selection picked a provider; after a failure, failover picks another one.
Forward ==
  /\ phase \in {"ask", "answer"}
  /\ \E provider \in {"openai", "anthropic"} : sent' = Body(provider)
  /\ phase' = "answer"
  /\ UNCHANGED <<client, transcript, said, turn>>

\* The provider does not know /v1/responses (404, 405, 501): chat instead.
Fallback ==
  /\ phase = "answer" /\ sent.to = "responses"
  /\ sent' = [to |-> "openai", messages |-> ResponsesRequestToChatCompletion(transcript)]
  /\ UNCHANGED <<client, transcript, said, turn, phase>>

\* handleRelay: the answer in the client's format, which keeps it as it is.
Answer(parts) ==
  CASE client = "responses" /\ sent.to = "anthropic" -> AnthropicResponseToResponses(parts)
    [] client = "responses" /\ sent.to = "openai" -> ChatCompletionResponseToResponses(parts)
    [] client = "responses" /\ sent.to = "responses" -> FoldLeft(AddBlock, <<>>, parts)
    [] client = "openai" /\ sent.to = "anthropic" -> ConvertAnthropicResponseToOpenAI(parts)
    [] client = "anthropic" /\ sent.to = "openai" -> ConvertOpenAIResponseToAnthropic(parts)
    [] OTHER -> <<Message("assistant", parts)>>

\* An Anthropic client may keep an answer of texts alone as a plain string.
Reply ==
  /\ phase = "answer"
  /\ \E kinds \in Answers[sent.to], plain \in BOOLEAN :
       LET parts == Stamped(kinds, turn + 1)
           kept == Answer(parts)
       IN /\ plain => client = "anthropic" /\ Only({"text"}, kept[1].content) = kept[1].content
          /\ transcript' = transcript \o [i \in DOMAIN kept |-> [kept[i] EXCEPT !.plain = plain]]
          /\ said' = Append(said, [Message("assistant", parts) EXCEPT !.plain = plain])
  /\ turn' = turn + 1
  /\ sent' = None
  /\ phase' = "compose"
  /\ UNCHANGED client

Next == ReturnResults \/ Speak \/ Instruct \/ Forward \/ Fallback \/ Reply

Spec == Init /\ [][Next]_vars
------------------------------------------------------------------------------
(* What the upstreams' protocols demand of a request *)

\* An answer an Anthropic client kept as a plain string: the chat request has the
\* assistant's messages in the order of the transcript.
Muted(messages, i) ==
  OfRole("assistant", transcript)[Len(OfRole("assistant", SubSeq(messages, 1, i)))].plain

Answered(calls, results) == {p.id : p \in ToSet(calls)} = {p.id : p \in ToSet(results)} /\ Len(calls) = Len(results)

\* A chat request: instructions first; calls answered at once by tool messages
\* and those only; no message without content; never a tool message last. Two
\* kinds of Anthropic messages become ones without content: a user's of nothing
\* but odd parts and an assistant's plain string.
ChatAccepts(messages) ==
  /\ messages # <<>>
  /\ Last(messages).role # "tool"
  /\ \A i \in DOMAIN messages :
       LET m == messages[i]
           calls == Only({"call"}, m.content)
       IN /\ m.content = <<>> => client = "anthropic" /\ (m.role = "user" \/ Muted(messages, i))
          /\ m.role = "system" => i = 1
          /\ calls # <<>> =>
               /\ i + Len(calls) <= Len(messages)
               /\ \A j \in 1 .. Len(calls) : messages[i + j].role = "tool"
               /\ Answered(calls, Contents(SubSeq(messages, i + 1, i + Len(calls))))
          /\ m.role = "tool" =>
               \E j \in 1 .. i - 1 : /\ m.content[1].id \in Calls(<<messages[j]>>)
                                     /\ \A k \in j + 1 .. i : messages[k].role = "tool"

OpenedByModel ==
  \E i \in DOMAIN said : said[i].role = "assistant" /\ \A j \in 1 .. i - 1 : said[j].role = "system"

\* An Anthropic request: turns alternate, starting and ending with the user's,
\* none empty; calls are answered by the parts the next turn begins with. A chat
\* client's last assistant message is one to be continued, and a conversation the
\* model opened (an answer to instructions alone) starts with the model.
AnthropicAccepts(messages) ==
  LET turns == SelectSeq(messages, LAMBDA m : m.role # "system") IN
  /\ Len(messages) - Len(turns) = (IF messages[1].role = "system" THEN 1 ELSE 0)
  /\ turns # <<>>
  /\ turns[1].role = "user" \/ OpenedByModel
  /\ Last(turns).role = "user" \/ client = "openai"
  /\ \A i \in DOMAIN turns :
       LET calls == Only({"call"}, turns[i].content)
       IN /\ i < Len(turns) => turns[i].role # turns[i + 1].role
          /\ turns[i].content # <<>>
          /\ calls # <<>> =>
               /\ Len(turns[i + 1].content) >= Len(calls)
               /\ Answered(calls, SubSeq(turns[i + 1].content, 1, Len(calls)))
          /\ Results(<<turns[i]>>) # {} => i > 1 /\ Results(<<turns[i]>>) \subseteq Calls(<<turns[i - 1]>>)
------------------------------------------------------------------------------
(* Properties *)

\* Some answer had something between or after its calls, which Responses keeps as
\* items between the calls and their outputs.
Interrupted ==
  \E m \in ToSet(said) : m.role = "assistant" /\
    \E i, j \in DOMAIN m.content : i < j /\ m.content[i].kind = "call" /\ m.content[j].kind # "call"

\* Every request the gateway converts is one its upstream accepts, whatever mix
\* of providers answered the turns before (ResponsesRequestToChatCompletion and
\* its siblings regroup, pad and merge for this) - but for interrupted calls that
\* a Responses client sends back to a chat upstream, and messages that lose their
\* content on the way from an Anthropic client to one (ChatAccepts).
UpstreamAccepts ==
  phase = "answer" /\ sent.to # client =>
    /\ sent.to = "openai" => ChatAccepts(sent.messages) \/ (client = "responses" /\ Interrupted)
    /\ sent.to = "anthropic" => AnthropicAccepts(sent.messages)

\* What one speaker said of a kind, in order. A refusal is said like a text.
Voice(role, kind, messages) ==
  LET parts == Only(IF kind = "text" THEN {"text", "refusal"} ELSE {kind}, Contents(OfRole(role, messages)))
  IN [i \in DOMAIN parts |-> parts[i].id]

\* What of the conversation the upstream can hear. The converters of requests have
\* no refusals, and drop an assistant's plain string.
Audible ==
  CASE sent.to = client -> said
    [] client = "anthropic" -> SelectSeq(said, LAMBDA m : ~m.plain)
    [] OTHER -> [i \in DOMAIN said |->
                   [said[i] EXCEPT !.content = SelectSeq(said[i].content, LAMBDA p : p.kind # "refusal")]]

\* The tools' results, without what cannot be converted or is empty.
Returned(messages) ==
  LET results == Only({"result"}, Contents(messages))
  IN {<<p.id, Only({"text"}, p.body)>> : p \in {q \in ToSet(results) : Only({"blank"}, q.body) = <<>>}}

\* No part of a later turn comes before one of an earlier turn.
InTurn(messages) ==
  LET spoken == SelectSeq(Contents(SelectSeq(messages, LAMBDA m : m.role # "system")),
                          LAMBDA p : p.kind \notin {"blank", "result"})
  IN \A i, j \in DOMAIN spoken : i < j => spoken[i].id[1] <= spoken[j].id[1]

\* What every format can carry: reasoning is not sent back by a Responses client's
\* conversions, odd parts stay in their own format.
Conveys(messages, spoken, kinds) ==
  /\ \A kind \in kinds, role \in {"user", "assistant"} : Voice(role, kind, messages) = Voice(role, kind, spoken)
  /\ Voice("system", "text", messages) = Voice("system", "text", spoken)
  /\ InTurn(messages)

\* A tool choice keeps its meaning in the upstream's words.
Meaning(c) == IF c.what \in {"any", "required"} THEN "required" ELSE c.what
ChoicesKept ==
  /\ \A c \in ToolChoices("openai") \cup ToolChoices("responses") :
       /\ OpenAIToolChoiceToAnthropic(c) \in ToolChoices("anthropic")
       /\ Meaning(OpenAIToolChoiceToAnthropic(c)) = Meaning(c)
  /\ \A c \in ToolChoices("anthropic") :
       /\ AnthropicToolChoiceToOpenAI(c) \in ToolChoices("openai")
       /\ Meaning(AnthropicToolChoiceToOpenAI(c)) = Meaning(c)
  /\ \A c \in ToolChoices("responses") :
       /\ ResponsesToolChoiceToChat(c) \in ToolChoices("openai")
       /\ Meaning(ResponsesToolChoiceToChat(c)) = Meaning(c)

\* What was said is heard: the client keeps all of every answer, and each upstream
\* is asked with everything audible so far, in order, in the right mouth, with every
\* tool's result, and with a tool choice that means the same.
NothingLost ==
  /\ Conveys(transcript, said, {"text", "media", "call", "think"})
  /\ phase = "answer" =>
       /\ Conveys(sent.messages, Audible, {"text", "media", "call"}
                    \cup IF client = "responses" /\ sent.to # client THEN {} ELSE {"think"})
       /\ {r \in Returned(said) : r[2] # <<>>} = {r \in Returned(sent.messages) : r[2] # <<>>}
       /\ ChoicesKept
===============================================================================
