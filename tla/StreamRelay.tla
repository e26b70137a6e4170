------------------------------ MODULE StreamRelay ------------------------------
(***************************************************************************)
(* relay.StreamResponse for one request: the upstream's answer is read frame *)
(* by frame, converted for the client and ended in the client's format; the  *)
(* caller learns whether to bill it (result), what it used (usage) and       *)
(* whether it said anything (saw.content).                                   *)
(*                                                                         *)
(* conv is the route's converter and conv.out all the client has received;   *)
(* a route without conversion uses only out, where a forwarded frame is      *)
(* [type |-> "frame", frame |-> f].  Numbers of tokens are abstracted to the *)
(* number of the frame that reported them.                                  *)
(*                                                                         *)
(* The upstream may stop at any frame boundary, break off anywhere, send an  *)
(* error or garbage, or ignore stream:true and answer with one JSON body.    *)
(* SSE comments and frames without data, which StreamResponse only forwards, *)
(* are left out.  A JSON body starts with a brace, so it is never empty.     *)
(***************************************************************************)
EXTENDS Integers, Sequences, SequencesExt, FiniteSets

CONSTANTS
  None, ToolIds,
  Routes,        \* the routes considered, records of client and upstream format
  Frames,        \* Frames[u]: what an upstream of format u may send
  Bodies,        \* Bodies[u]: the JSON bodies it may answer with, as the frames
                 \* that would say the same: one chunk, an Anthropic event
                 \* sequence, a terminal Responses event
  MaxFrames      \* bound: MaxFrames[u] frames in an answer

Formats == {"openai", "anthropic", "responses"}

ASSUME StreamAssumption ==
  /\ Routes \subseteq [client : Formats, upstream : Formats]
  /\ \A r \in Routes : r.upstream = "responses" => r.client = "responses"
  /\ MaxFrames \in [Formats -> Nat]

VARIABLES route, frames, conv, saw, usage, result

vars == <<route, frames, conv, saw, usage, result>>

A == INSTANCE AnthropicStream
O == INSTANCE OpenAIStream
R == INSTANCE ResponsesStream

\* What may come in each format; a Responses event has no other format's type.
ASSUME FrameAssumption ==
  /\ \A f \in Frames["openai"] : f.type \in {"malformed", "[DONE]"} \/ f \in A!Chunk
  /\ \A f \in Frames["anthropic"] : f.type = "malformed" \/ f \in O!Event
  /\ \A f \in Frames["responses"] : f.type \notin {"chunk", "message_delta", "message_stop"}

\* A message in one body has no error among its events.
ASSUME BodyAssumption ==
  /\ \A body \in Bodies["openai"] :
       body = <<body[1]>> /\ (body[1].type = "malformed" \/ body[1] \in A!Chunk)
  /\ \A body \in Bodies["anthropic"] :
       body[1].type \in {"malformed", "error"} \/ body \in Seq({e \in O!Event : e.type # "error"})
  /\ \A body \in Bodies["responses"] :
       /\ body = <<body[1]>>
       /\ body[1].type \in {"malformed", "error", "response.completed", "response.incomplete", "response.failed"}

Client == route.client
Upstream == route.upstream
NeedConvert == Client # Upstream

NewConverter ==
  IF ~NeedConvert THEN O!NewConverter
  ELSE CASE Client = "anthropic" -> A!NewConverter
         [] Client = "openai" -> O!NewConverter
         [] Client = "responses" -> R!NewConverter

NothingSeen ==
  [done |-> FALSE, stop |-> FALSE, delta |-> FALSE, terminal |-> FALSE,
   native |-> FALSE, error |-> FALSE, content |-> FALSE]

Init ==
  /\ route \in Routes
  /\ frames = <<>>
  /\ conv = NewConverter
  /\ saw = NothingSeen
  /\ usage = 0
  /\ result = "none"

Write(c, events) == [c EXCEPT !.out = @ \o events]

DoneEvent == [type |-> "[DONE]"]
ErrorEvent == [type |-> "error"]
CompletedEvent == [type |-> "response.completed", output |-> <<>>, tokens |-> 0]
AnthropicEnd(reason, n) ==
  <<[type |-> "message_delta", reason |-> reason, tokens |-> n], [type |-> "message_stop"]>>

Return(c, r) == conv' = c /\ result' = r
------------------------------------------------------------------------------
(* What a frame says, whatever becomes of it *)

\* Mutant: refusals are not content.
ChatContentBroken(f) == f.type = "chunk" /\ (f.think \/ f.text \/ f.tools # <<>>)

ChatContent(f) == f.type = "chunk" /\ (f.think \/ f.text \/ f.refusal \/ f.tools # <<>>)

\* streamChunkHasContent
HasContent(f) ==
  CASE Upstream = "openai" -> ChatContent(f)
    [] Upstream = "anthropic" -> f.type \in {"content_block_start", "content_block_delta"}
    [] Upstream = "responses" -> f.type \notin {"error", "malformed"} /\ f.text

\* isErrorPayload of the frame's error field: null and absent ones are not.
HasError(f) == f.type = "error" \/ (f.type = "chunk" /\ f.error = "real")

Noted(f) ==
  [saw EXCEPT
     !.stop = @ \/ (Client = "anthropic" /\ f.type = "message_stop"),
     !.delta = @ \/ (Client = "anthropic" /\ f.type = "message_delta"),
     !.native = @ \/ (Client = "responses" /\ f.type \in
                        {"response.created", "response.output_text.delta", "response.completed",
                         "response.incomplete", "response.failed"}),
     !.terminal = @ \/ (Client = "responses" /\ f.type \in
                        {"response.completed", "response.incomplete"}),
     !.error = @ \/ HasError(f) \/ (Client = "responses" /\ f.type = "response.failed"),
     !.content = @ \/ HasContent(f)]

\* extractStreamUsage: the output tokens a frame reports.
Counts(f) ==
  CASE f.type = "chunk" -> f.usage = "real"
    [] f.type \in {"message_delta", "response.completed", "response.incomplete"} -> f.usage
    [] OTHER -> FALSE

\* The number of the frame being read.
Place == Len(frames) + 1

Convert(f, n) ==
  IF ~NeedConvert THEN Write(conv, <<[type |-> "frame", frame |-> f]>>)
  ELSE CASE Client = "anthropic" -> A!Convert(conv, f, n)
         [] Client = "openai" -> O!Convert(conv, f, n)
         [] Client = "responses" -> R!Convert(conv, Upstream, f, n)

\* A converter that has ended skips what follows before it looks at it.
Skips == /\ NeedConvert /\ Client # "openai" /\ conv.finished

Said(t) == \E j \in DOMAIN frames : frames[j].type = t

\* Where the content block's event of this type was sent.
Places(t, i) == {j \in DOMAIN frames : frames[j].type = t /\ frames[j].index = i}

\* An Anthropic server numbers its blocks, sends a block's deltas between its
\* start and its stop, then message_delta and message_stop.
AnthropicOrder(f) ==
  /\ f.type = "message_start" <=> frames = <<>>
  /\ ~Said("error")
  /\ CASE f.type = "content_block_start" ->
            /\ Places(f.type, f.index) = {} /\ ~Said("message_delta")
            /\ f.index > 1 => Places(f.type, f.index - 1) # {}
       [] f.type \in {"content_block_delta", "content_block_stop"} ->
            /\ \E j \in Places("content_block_start", f.index) : frames[j].kind = f.kind
            /\ Places("content_block_stop", f.index) = {} /\ ~Said("message_delta")
       [] f.type = "message_stop" -> Said("message_delta")
       [] OTHER -> ~Said(f.type)

\* A chat server reports usage once, on its finish chunk or on a chunk without
\* choices after it.
ChatOrder(f) ==
  LET chunks == {j \in DOMAIN frames : frames[j].type = "chunk"} IN
  f.type = "chunk" /\ f.usage = "real" =>
    /\ \A j \in chunks : frames[j].usage # "real"
    /\ f.choices <=> \A j \in chunks : frames[j].finish = None

LastFrames ==
  {"[DONE]", "message_stop", "response.completed", "response.incomplete", "response.failed"}

Follows(f) ==
  /\ \A t \in LastFrames : ~Said(t)
  /\ Upstream = "anthropic" /\ f.type \notin {"error", "malformed"} => AnthropicOrder(f)
  /\ Upstream = "openai" => ChatOrder(f)

\* "[DONE]" is OpenAI's end; other clients are not told.
Sentinel(f) ==
  /\ f.type = "[DONE]"
  /\ saw' = [saw EXCEPT !.done = @ \/ Client = "openai"]
  /\ conv' = IF Client = "openai" THEN Write(conv, <<DoneEvent>>) ELSE conv
  /\ UNCHANGED <<usage, result>>

Payload(f) ==
  /\ f.type # "[DONE]"
  /\ LET n == Place IN
     /\ saw' = IF f.type = "malformed" THEN saw ELSE Noted(f)
     /\ usage' = IF Counts(f) THEN n ELSE usage
     /\ IF NeedConvert /\ f.type = "malformed" /\ ~Skips
        THEN Return(Write(Convert(f, n), <<ErrorEvent>>), "error")
        ELSE conv' = Convert(f, n) /\ UNCHANGED result

Frame ==
  /\ result = "none"
  /\ Len(frames) < MaxFrames[Upstream]
  /\ \E f \in Frames[Upstream] :
       /\ Follows(f)
       /\ frames' = Append(frames, f)
       /\ Sentinel(f) \/ Payload(f)
  /\ UNCHANGED route

\* The connection drops, a line or frame is too long, or the body ends inside
\* a frame: the client gets an error before any end.
Broken ==
  /\ result = "none"
  /\ Return(Write(conv, <<ErrorEvent>>), "error")
  /\ UNCHANGED <<route, frames, saw, usage>>

\* A write to the client fails.
ClientGone ==
  /\ result = "none"
  /\ Return(conv, "gone")
  /\ UNCHANGED <<route, frames, saw, usage>>
------------------------------------------------------------------------------
(* The upstream ends its stream at a frame boundary *)

Errored == NeedConvert /\ Client # "anthropic" /\ conv.errored

\* A converter that saw a frame and has not ended ends the message itself.
Closed ==
  IF ~NeedConvert \/ Client = "openai" \/ ~conv.started \/ conv.finished THEN conv
  ELSE IF Client = "anthropic" THEN A!CloseStream(conv) ELSE R!CloseStream(conv)

\* Mutant: an upstream error does not keep [DONE] back.
EndingBroken ==
  IF Client = "openai" THEN (IF saw.done THEN <<>> ELSE <<DoneEvent>>) ELSE <<>>

\* What the client still lacks of its format's end.
Ending ==
  CASE Client = "openai" ->
         IF saw.done \/ saw.error \/ Errored THEN <<>> ELSE <<DoneEvent>>
    [] Client = "anthropic" ->
         IF saw.stop \/ saw.error \/ (NeedConvert /\ Closed.finished) THEN <<>>
         ELSE IF saw.delta THEN <<[type |-> "message_stop"]>>
         ELSE AnthropicEnd("end_turn", 0)
    [] Client = "responses" ->
         IF saw.native \/ saw.terminal \/ saw.error \/ conv.started THEN <<>>
         ELSE <<CompletedEvent>>

EndOfStream ==
  /\ result = "none"
  /\ Return(Write(Closed, Ending), IF saw.error \/ Errored THEN "error" ELSE "ok")
  /\ UNCHANGED <<route, frames, saw, usage>>
------------------------------------------------------------------------------
(* The upstream ignored stream:true and answered with one JSON body *)

\* The last of these places; 0 when there is none.
LastOf(at) == Max(at \cup {0})

\* completionToStreamChunk
StreamChunk(b) == IF b.choices THEN [b EXCEPT !.usage = "absent", !.error = "absent"] ELSE b

UsageOnly(b) ==
  [b EXCEPT !.choices = FALSE, !.think = FALSE, !.text = FALSE, !.refusal = FALSE,
            !.tools = <<>>, !.finish = None]

\* The blocks of an OpenAI completion as an Anthropic message.
MessageBlocks(b) ==
  LET when(said, kind) == IF said THEN <<[kind |-> kind, data |-> <<1, 0>>]>> ELSE <<>>
  IN when(b.think, "thinking") \o when(b.text, "text") \o when(b.refusal, "text")
     \o [j \in DOMAIN b.tools |-> [kind |-> "tool", data |-> <<1, j>>]]

\* anthropicFullMessageToStreamEvents
MessageEvents(blocks) ==
  <<[type |-> "message_start"]>> \o
  FlattenSeq([i \in DOMAIN blocks |->
    <<A!BlockStart(i, [kind |-> blocks[i].kind, id |-> TRUE, name |-> TRUE]),
      A!BlockDelta(i, blocks[i].kind, blocks[i].data), A!BlockStop(i)>>])

\* ConvertAnthropicResponseToOpenAI: one chunk, its reasoning, text and tools.
CompletionEvents(body) ==
  LET of(kind, i) == body[i].type = "content_block_delta" /\ body[i].kind = kind
      deltas(kind) == FlattenSeq([i \in DOMAIN body |-> IF of(kind, i) THEN <<<<i, 0>>>> ELSE <<>>])
      prose(kind) == [i \in DOMAIN deltas(kind) |-> O!ContentChunk(kind, 0, deltas(kind)[i])]
      tools == FlattenSeq([t \in DOMAIN deltas("tool") |->
                 <<O!ContentChunk("tool_start", t, None),
                   O!ContentChunk("tool", t, deltas("tool")[t])>>])
      end == body[LastOf({i \in DOMAIN body : body[i].type = "message_delta"})]
  IN prose("thinking") \o prose("text") \o tools \o <<O!FinishChunk(O!FinishReason(end.reason), 0)>>

OpenAIBody(body, usageRequested) ==
  LET forward(f) == [type |-> "frame", frame |-> f] IN
  IF Upstream = "anthropic" THEN Append(CompletionEvents(body), DoneEvent)
  ELSE <<forward(StreamChunk(body[1]))>>
       \o (IF usageRequested /\ body[1].usage = "real" /\ body[1].choices
           THEN <<forward(UsageOnly(body[1]))>> ELSE <<>>)
       \o <<DoneEvent>>

AnthropicBody(body) ==
  IF Upstream = "openai"
  THEN MessageEvents(MessageBlocks(body[1]))
       \o AnthropicEnd(A!StopReason(body[1].finish), IF body[1].usage = "real" THEN 1 ELSE 0)
  ELSE LET e == LastOf({i \in DOMAIN body : body[i].type = "message_delta"})
       IN <<[type |-> "message_start", message |-> body]>>
          \o AnthropicEnd(body[e].reason, IF body[e].usage THEN e ELSE 0)

ResponsesBody(body) ==
  CASE Upstream = "responses" ->
         Write(conv, <<[type |-> "response.created"], [type |-> "response.in_progress"],
                       [type |-> "frame", frame |-> body[1]]>>)
    [] Upstream = "openai" ->
         LET c == R!Convert(conv, Upstream, StreamChunk(body[1]), 1)
         IN R!CloseStream(IF body[1].usage = "real" THEN R!SetUsage(c, 1) ELSE c)
    [] Upstream = "anthropic" ->
         R!CloseStream(FoldLeftDomain(LAMBDA c, i : R!Convert(c, Upstream, body[i], i), conv, body))

Whole(body, usageRequested) ==
  CASE Client = "openai" -> Write(conv, OpenAIBody(body, usageRequested))
    [] Client = "anthropic" -> Write(conv, AnthropicBody(body))
    [] Client = "responses" -> ResponsesBody(body)

Garbage(body) == body[1].type = "malformed"

\* Garbage is only noticed by a conversion; without one it is passed on.
GarbageEvents ==
  LET f == [type |-> "frame", frame |-> [type |-> "malformed"]] IN
  IF Client = "openai" THEN <<f, DoneEvent>> ELSE <<f>> \o AnthropicEnd("end_turn", 0)

JsonBody ==
  /\ result = "none"
  /\ frames = <<>>
  /\ \E body \in Bodies[Upstream], usageRequested \in BOOLEAN :
       /\ frames' = body
       /\ usage' = LastOf({i \in DOMAIN body : Counts(body[i])})
       /\ saw' = [saw EXCEPT !.content = \E i \in DOMAIN body : HasContent(body[i])]
       /\ IF Garbage(body)
          THEN IF NeedConvert \/ Client = "responses"
               THEN Return(Write(conv, <<ErrorEvent>>), "error")
               ELSE Return(Write(conv, GarbageEvents), "ok")
          ELSE IF HasError(body[1]) THEN Return(Write(conv, <<ErrorEvent>>), "error")
          ELSE Return(Whole(body, usageRequested), IF body[1].type = "response.failed" THEN "error" ELSE "ok")
  /\ UNCHANGED route
------------------------------------------------------------------------------
Next == Frame \/ EndOfStream \/ Broken \/ ClientGone \/ JsonBody

Spec == Init /\ [][Next]_vars
================================================================================
