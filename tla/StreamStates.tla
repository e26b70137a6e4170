---------------------------- MODULE StreamStates ----------------------------
(*****************************************************************************)
(* The states of an answer as StreamProofs tells them apart: the types of the*)
(* converters' records and events, what a client has received so far, and the*)
(* inductive invariants made of these.                                       *)
(*****************************************************************************)
EXTENDS StreamClients
-----------------------------------------------------------------------------
(* The folds of the community modules, which the converters use.           *)

\* What Folds' iteration computes: for each set of places, from the last one.
Folded(b, step, g, k) ==
  g = [s \in SUBSET (1 .. k) |-> IF s = {} THEN b ELSE step[<<g[s \ {Max(s)}], Max(s)>>]]
-----------------------------------------------------------------------------
(* The Anthropic converter's types.                                        *)

Kinds == {"text", "thinking", "tool"}
Stamp == Nat \X Nat
ABlock == [kind : Kinds, key : Int, id : BOOLEAN, name : BOOLEAN,
           state : {"held", "open", "dropped"}, deltas : Seq(Stamp)]

StartEvent == [type : {"content_block_start"}, index : Nat, kind : Kinds, id : BOOLEAN, name : BOOLEAN]
DeltaEvent == [type : {"content_block_delta"}, index : Nat, kind : Kinds, data : Stamp]
StopEvent == [type : {"content_block_stop"}, index : Nat]
BlockEvent == StartEvent \cup DeltaEvent \cup StopEvent
StopReasons == {"end_turn", "max_tokens", "tool_use", "refusal"}
AEvent == BlockEvent \cup [type : {"message_start", "message_stop", "error"}]
            \cup [type : {"message_delta"}, reason : StopReasons, tokens : Nat]

Finishes == {None, "stop", "length", "tool_calls", "content_filter"}
AConv == [started : BOOLEAN, finished : BOOLEAN, ended : Finishes, tokens : Nat,
          anonKey : Int, idToKey : [ToolIds -> Int], blocks : Seq(ABlock), out : Seq(AEvent)]

\* What an operator that only speaks leaves alone.
Steady(c, d) == /\ d \in AConv
                /\ d.started = c.started /\ d.finished = c.finished
                /\ d.ended = c.ended /\ d.tokens = c.tokens

\* What flushAllPendingStarts and the stops say of block i.
FlushEvents(B, i) ==
  IF B[i].state = "held" /\ B[i].name
  THEN <<A!BlockStart(i, A!Flushed(B[i]))>>
       \o [j \in DOMAIN B[i].deltas |-> A!BlockDelta(i, B[i].kind, B[i].deltas[j])]
  ELSE <<>>
StopEvents(B, i) == IF B[i].state = "open" THEN <<A!BlockStop(i)>> ELSE <<>>

\* A loop that emits evs[1] to evs[n], one after the other.
Emitted(c, it, evs, n) ==
  \A s \in SUBSET (1 .. n) :
    it[s] = IF s = {} THEN c ELSE A!Emit(it[s \ {Max(s)}], evs[Max(s)])

\* What such a loop has emitted after each of them.
Summed(g, evs, n) ==
  /\ evs \in [1 .. n -> Seq(BlockEvent)] /\ g \in [0 .. n -> Seq(BlockEvent)]
  /\ g[0] = <<>> /\ \A i \in 1 .. n : g[i] = g[i - 1] \o evs[i]

\* In the end it has emitted all of them.
Total(c, it, g, n) == it[1 .. n] = A!Emit(c, g[n])
-----------------------------------------------------------------------------
(* The order of a message's events.                                        *)

OfType(s, t) == {p \in DOMAIN s : s[p].type = t}
Starts(s) == OfType(s, "content_block_start")
Deltas(s) == OfType(s, "content_block_delta")
Stops(s) == OfType(s, "content_block_stop")

\* Exactly the open blocks have started, in order; deltas follow.
BlockOrder(s, B) ==
  /\ \A p \in Starts(s) : /\ s[p].index \in DOMAIN B /\ B[s[p].index].state = "open"
                          /\ s[p].kind = B[s[p].index].kind /\ s[p].id /\ s[p].name
  /\ \A p, q \in Starts(s) : p < q => s[p].index < s[q].index
  /\ \A i \in DOMAIN B : B[i].state = "open" => \E p \in Starts(s) : s[p].index = i
  /\ \A p \in Deltas(s) : \E q \in Starts(s) : q < p /\ s[q].index = s[p].index /\ s[q].kind = s[p].kind

\* The open ones of the first k blocks have stopped, each once.
StopOrder(s, B, k) ==
  /\ \A p \in Stops(s) : s[p].index \in 1 .. k /\ \E q \in Starts(s) : q < p /\ s[q].index = s[p].index
  /\ \A p, q \in Stops(s) : s[p].index = s[q].index => p = q
  /\ \A p \in Deltas(s), q \in Stops(s) : s[p].index = s[q].index => p < q
  /\ \A i \in 1 .. k : B[i].state = "open" => \E p \in Stops(s) : s[p].index = i

\* A start e of block i, later than all that have started: B becomes C.
MayStart(s, B, n, C, m, i, e) ==
  /\ s \in Seq(AEvent) /\ n \in Nat /\ m \in Nat /\ m >= n /\ DOMAIN B = 1 .. n /\ DOMAIN C = 1 .. m
  /\ BlockOrder(s, B) /\ StopOrder(s, B, 0)
  /\ i \in 1 .. m /\ e \in StartEvent
  /\ e.index = i /\ e.id /\ e.name /\ e.kind = C[i].kind /\ C[i].state = "open"
  /\ \A j \in 1 .. n : B[j].state = "open" => j < i
  /\ \A j \in 1 .. m : j # i => (C[j].state = "open" <=> j \in 1 .. n /\ B[j].state = "open")
  /\ \A j \in 1 .. n : C[j].kind = B[j].kind

\* Blocks after a held one are held too, and not for reasoning alone; only
\* tools have keys.
HoldOrder(B) ==
  /\ \A i, j \in DOMAIN B : i < j /\ B[i].state = "held" => B[j].state = "held"
  /\ (\E i \in DOMAIN B : B[i].state = "held")
       => \E i \in DOMAIN B : B[i].state = "held" /\ B[i].kind \in {"tool", "text"}
  /\ \A i \in DOMAIN B : B[i].kind # "tool" => B[i].key = 0
-----------------------------------------------------------------------------
(* Ends and errors of what a client received.                              *)

\* What TypeAt sees of an event.
Seen(e) ==
  IF e.type # "frame" THEN e.type ELSE IF HasError(e.frame) THEN "error" ELSE e.frame.type

\* Where a client sees an end, and where an error.
EndsOf(s) == {i \in DOMAIN s : Seen(s[i]) \in Ends}
ErrorsOf(s) == {i \in DOMAIN s : Seen(s[i]) = "error"}

\* Neither an end nor an error; an answer still going on, one that ended
\* and one that failed.
Harmless(e) == Seen(e) \notin Ends /\ Seen(e) # "error"

Ongoing(s) == \A i \in DOMAIN s : Harmless(s[i])
Complete(s) == EndsOf(s) = {Len(s)} /\ ErrorsOf(s) = {}
Failing(s) == EndsOf(s) = {} /\ ErrorsOf(s) # {}

\* What the client of a failed answer is told.
ErrorTold(s) ==
  /\ ErrorsOf(s) \cup EndsOf(s) # {}
  /\ \A i \in ErrorsOf(s), j \in EndsOf(s) : j < i

\* An event more.
OneMore(s, e, t) ==
  /\ Len(s) \in Nat /\ Len(t) = Len(s) + 1
  /\ \A p \in DOMAIN s : p \in DOMAIN t /\ t[p] = s[p] /\ p < Len(t) /\ p \in Nat
  /\ \A p \in DOMAIN t : p \in DOMAIN s \/ p = Len(t)
  /\ Len(t) \in DOMAIN t /\ t[Len(t)] = e

\* An Anthropic message that has begun and not yet said its
\* message_delta.
Message(s) == OfType(s, "message_start") = {1} /\ OfType(s, "message_delta") = {} /\ Ongoing(s)

\* The converter inside the message it has begun.
Talking(c) ==
  /\ c \in AConv /\ c.started /\ ~c.finished /\ c.ended = None
  /\ Message(c.out) /\ BlockOrder(c.out, c.blocks) /\ StopOrder(c.out, c.blocks, 0)
  /\ HoldOrder(c.blocks)

\* Every block that started has stopped.
AllStopped(s) == \A p \in Starts(s) : \E q \in Stops(s) : s[q].index = s[p].index

\* What AnthropicOrderKept asks of what the client received.
Fine(s) ==
  /\ \A p, q \in Starts(s) : p < q => s[p].index < s[q].index
  /\ \A p \in Starts(s) : s[p].id /\ s[p].name
  /\ \A p \in Deltas(s) \cup Stops(s) : \E q \in Starts(s) : q < p /\ s[q].index = s[p].index
  /\ \A p \in Deltas(s), q \in Starts(s) : s[p].index = s[q].index => q < p /\ s[q].kind = s[p].kind
  /\ \A p \in Deltas(s), q \in Stops(s) : s[p].index = s[q].index => p < q
  /\ \A p, q \in Stops(s) : s[p].index = s[q].index => p = q
  /\ \A p \in OfType(s, "message_start") : p = 1
  /\ Starts(s) # {} => OfType(s, "message_start") # {}
  /\ \A m \in OfType(s, "message_delta") :
       /\ \A p \in Starts(s) \cup Deltas(s) \cup Stops(s) : p < m
       /\ AllStopped(s)
  /\ \A p, q \in OfType(s, "message_delta") : p = q

\* The converter before its first chunk, between the finish chunk and the
\* usage it waits for, and after its end.
Silent(c) == c \in AConv /\ ~c.started /\ ~c.finished /\ c.ended = None /\ c.out = <<>> /\ c.blocks = <<>>
Stopped(c) ==
  /\ c \in AConv /\ c.started /\ ~c.finished
  /\ Message(c.out) /\ Fine(c.out) /\ AllStopped(c.out)
Over(c) == c \in AConv /\ c.started /\ c.finished /\ Fine(c.out)
Done(c) == Over(c) /\ Complete(c.out)
Cut(c) == Over(c) /\ Failing(c.out)
Well(c) == Talking(c) \/ (Stopped(c) /\ c.ended # None) \/ Done(c)
Begun(c) == Well(c) \/ Cut(c)

\* A whole message: each block's three events at once.
Whole3(s, k) ==
  /\ s \in Seq(AEvent) /\ Message(s) /\ Fine(s) /\ AllStopped(s)
  /\ \A p \in Starts(s) \cup Deltas(s) \cup Stops(s) : s[p].index \in 1 .. k

\* One block's three events.
BlockSays(w, i) ==
  /\ w \in Seq(AEvent) /\ Len(w) = 3
  /\ w[1].type = "content_block_start" /\ w[1].index = i /\ w[1].id /\ w[1].name
  /\ w[2].type = "content_block_delta" /\ w[2].index = i /\ w[2].kind = w[1].kind
  /\ w[3].type = "content_block_stop" /\ w[3].index = i

\* A block of the message a JSON body holds.
MessageBlock == [kind : Kinds, data : Stamp]
-----------------------------------------------------------------------------
(* OpenAI upstreams, Anthropic clients.                                    *)

\* The routes from OpenAI upstreams to Anthropic clients.
ToAnthropic == NeedConvert /\ Client = "anthropic"

\* The inductive invariant for Anthropic clients of OpenAI upstreams.
AnthropicInv ==
  /\ route \in Routes
  /\ ToAnthropic =>
       /\ conv \in AConv /\ Fine(conv.out)
       /\ result = "none" =>
            /\ Silent(conv) \/ Begun(conv)
            /\ frames \in Seq(Frames["openai"])
            /\ frames = <<>> => Silent(conv)
-----------------------------------------------------------------------------
(* The OpenAI converter.                                                   *)

OChunk == [type : {"chunk"}, kind : O!BlockKinds \cup {None, "tool_start", "role"}, tool : Nat,
           data : Stamp \cup {None}]

\* The finish reasons, the events and the records of the OpenAI
\* converter.
OReasons == {"stop", "length", "content_filter", "tool_calls"}
OEvent == OChunk \cup [type : {"finish"}, reason : OReasons, tokens : Nat] \cup [type : {"error", "[DONE]"}]
OConv == [toolIndexes : Seq(Nat), errored : BOOLEAN, started : BOOLEAN, out : Seq(OEvent)]

IsChunk(e) == e.type = "chunk"
Announces(e, t) == e.type = "chunk" /\ e.kind = "tool_start" /\ e.tool = t
IsFinish(e) == e.type = "finish"

\* What OpenAIOrderKept asks of what the client received.
ChunksFine(s) ==
  /\ \A i \in DOMAIN s : s[i].type \in {"chunk", "finish", "error", "[DONE]"}
  /\ \A i \in DOMAIN s : IsChunk(s[i]) /\ s[i].kind = "tool" =>
       \E j \in DOMAIN s : j < i /\ Announces(s[j], s[i].tool)
  /\ \A i, j \in DOMAIN s : IsFinish(s[i]) /\ s[j].type \in {"chunk", "finish"} => j <= i

Unfinished(s) == \A i \in DOMAIN s : ~IsFinish(s[i])

\* What a frame does to the converter.
Same(c, d) == d.out = c.out /\ d.toolIndexes = c.toolIndexes

\* A content_block_start makes a tool call known, or nothing.
Announced(c, d, f) ==
  /\ f.type = "content_block_start"
  /\ d.toolIndexes = Append(c.toolIndexes, f.index)
  /\ d.out = Append(c.out, O!ContentChunk("tool_start", Len(c.toolIndexes) + 1, None))

\* A delta becomes at most one chunk.
Chunked(c, d, f) ==
  /\ f.type \in {"content_block_start", "content_block_delta"}
  /\ d.toolIndexes = c.toolIndexes
  /\ \E x \in OChunk : /\ d.out = Append(c.out, x)
                       /\ x.kind = "tool" => x.tool \in DOMAIN c.toolIndexes

\* A message_delta becomes the finish chunk.
Finished(c, d, f) ==
  /\ f.type = "message_delta"
  /\ d.toolIndexes = c.toolIndexes
  /\ \E x \in OEvent : IsFinish(x) /\ d.out = Append(c.out, x)

\* An error event becomes an error.
Failed(c, d, f) ==
  /\ f.type = "error"
  /\ d.toolIndexes = c.toolIndexes
  /\ d.out = Append(c.out, O!ErrorChunk)

\* The routes from Anthropic upstreams to OpenAI clients.
ToOpenAI == NeedConvert /\ Client = "openai"

\* The tools that have an index were announced with it, and the finish
\* chunk came of the upstream's message_delta.
Speaking(c) ==
  /\ c \in OConv
  /\ \A k \in DOMAIN c.toolIndexes : \E j \in DOMAIN c.out : Announces(c.out[j], k)
  /\ ~Unfinished(c.out) => Said("message_delta")

\* The inductive invariant for OpenAI clients of Anthropic upstreams.
OpenAIInv ==
  /\ route \in Routes
  /\ ToOpenAI =>
       /\ ChunksFine(conv.out)
       /\ result = "none" =>
            /\ Speaking(conv)
            /\ frames \in Seq(Frames["anthropic"])
            /\ frames = <<>> => conv.out = <<>>

\* Chunks in which a call's arguments follow its first chunk.
Called(s) ==
  \A i \in DOMAIN s :
    /\ s[i].type = "chunk"
    /\ s[i].kind = "tool" => \E j \in DOMAIN s : j < i /\ Announces(s[j], s[i].tool)
-----------------------------------------------------------------------------
(* Every answer has one end or tells of an error.                          *)

SawType == [done : BOOLEAN, stop : BOOLEAN, delta : BOOLEAN, terminal : BOOLEAN,
            native : BOOLEAN, error : BOOLEAN, content : BOOLEAN]

\* How a converted answer has ended.
Answered ==
  /\ result = "ok" => Complete(conv.out)
  /\ result = "error" => ErrorTold(conv.out)

\* What JsonBody makes of a body, where the upstream's usage was asked for
\* if u.
BodyTo(body, u) ==
  /\ saw' = [saw EXCEPT !.content = \E i \in DOMAIN body : HasContent(body[i])]
  /\ IF Garbage(body)
     THEN IF NeedConvert \/ Client = "responses"
          THEN Return(Write(conv, <<ErrorEvent>>), "error")
          ELSE Return(Write(conv, GarbageEvents), "ok")
     ELSE IF HasError(body[1]) THEN Return(Write(conv, <<ErrorEvent>>), "error")
     ELSE Return(Whole(body, u), IF body[1].type = "response.failed" THEN "error" ELSE "ok")

\* A client may not be told of an error its caller does not see: "error":
\* null in a chat chunk ends the converted stream and is no error to it.
NoNullErrors ==
  /\ \A f \in Frames["openai"] : f.type = "chunk" => f.error # "null"
  /\ \A body \in Bodies["openai"] : body[1].type = "chunk" => body[1].error # "null"

\* What an Anthropic client has received while the answer lasts and when
\* it is over.
AnthropicEnds ==
  ToAnthropic =>
    /\ Answered
    /\ result = "none" => /\ ~saw.stop /\ ~saw.delta
                          /\ ~conv.finished => ~saw.error
                          /\ Cut(conv) => saw.error

\* The same of an OpenAI client.
OpenAIEnds ==
  ToOpenAI =>
    /\ Answered
    /\ result = "none" => /\ ~saw.done /\ (saw.error => conv.errored)
                          /\ IF conv.errored THEN Failing(conv.out) ELSE Ongoing(conv.out)
-----------------------------------------------------------------------------
(* Streams forwarded as they come.                                         *)

\* A route that forwards, its events and its record.
ToSame == ~NeedConvert

FrameEvent == [type : {"frame"}, frame : UNION {Frames[u] : u \in Formats}]
NEvent == FrameEvent \cup [type : {"[DONE]"}]
NConv == [toolIndexes : Seq(Nat), errored : {FALSE}, started : {FALSE}, out : Seq(NEvent)]

\* What the client has been told while the upstream is still talking.
Relaying ==
  /\ conv \in NConv
  /\ frames \in Seq(Frames[Upstream])
  /\ frames = <<>> => conv.out = <<>>
  /\ ErrorsOf(conv.out) # {} => saw.error
  /\ saw.error => ErrorsOf(conv.out) \cup EndsOf(conv.out) # {}
  /\ EndsOf(conv.out) = {} \/ (EndsOf(conv.out) = {Len(conv.out)} /\ \E t \in LastFrames : Said(t))
  /\ EndsOf(conv.out) # {} =>
       CASE Client = "openai" -> saw.done
         [] Client = "anthropic" -> saw.stop
         [] OTHER -> saw.native
  /\ Client = "openai" /\ saw.done => EndsOf(conv.out) # {}
  /\ Client = "anthropic" /\ saw.stop => EndsOf(conv.out) # {}
  /\ saw.terminal => saw.native

\* An end before an error is the upstream's own.
NativeEnds ==
  ToSame =>
    /\ result = "ok" => \/ Complete(conv.out)
                        \/ Client = "responses" /\ saw.native /\ Ongoing(conv.out)
    /\ result = "error" => \/ Complete(conv.out)
                           \/ /\ ErrorsOf(conv.out) \cup EndsOf(conv.out) # {}
                              /\ \A j \in EndsOf(conv.out) : conv.out[j].type = "frame" \/ saw.done
    /\ result = "none" => Relaying /\ \A j \in EndsOf(conv.out) : conv.out[j].type = "frame" \/ saw.done
-----------------------------------------------------------------------------
(* ResponsesStream: what its records are made of.                          *)

ItemKinds == {"message", "function_call", "reasoning"}
PartKinds == {None, "text", "refusal"}
RPart == [kind : PartKinds, data : Seq(Stamp)]
RItem == [typ : ItemKinds, key : Int, added : BOOLEAN, done : BOOLEAN,
          data : Seq(Stamp), parts : Seq(RPart), part : PartKinds]
AddedEvent == [type : {"output_item.added"}, item : Nat, typ : ItemKinds]
PartsEvent == [type : {"content_part.added", "text.done", "content_part.done"}, item : Nat, part : Nat,
               kind : PartKinds, data : Seq(Stamp)]
GrowEvent == [type : {"delta"}, item : Nat, part : Nat, kind : PartKinds \cup ItemKinds, data : Stamp]
DataEvent == [type : {"data.done"}, item : Nat, data : Seq(Stamp)]
ItemEvent == [type : {"output_item.done"}, item : Nat, final : RItem]
LastEvent == [type : {"response.completed", "response.incomplete", "response.failed"},
              output : Seq(RItem), tokens : Nat]
REvent == AddedEvent \cup PartsEvent \cup GrowEvent \cup DataEvent \cup ItemEvent \cup LastEvent
          \cup [type : {"response.created", "response.in_progress", "error"}]
RReasons == {None, "stop", "length", "tool_calls", "content_filter", "end_turn", "max_tokens", "tool_use", "refusal"}
RConv == [started : BOOLEAN, closed : BOOLEAN, finished : BOOLEAN, errored : BOOLEAN,
          items : Seq(RItem), msgBlock : Nat, anonKey : Int, idToKey : [ToolIds -> Int],
          tokens : Nat, hasUsage : BOOLEAN, stopReason : RReasons, out : Seq(REvent)]

\* All but the items and the output stays.
Kept(c, d) ==
  /\ d \in RConv /\ d.started = c.started /\ d.closed = c.closed /\ d.finished = c.finished
  /\ d.errored = c.errored /\ d.msgBlock = c.msgBlock /\ d.anonKey = c.anonKey /\ d.idToKey = c.idToKey
  /\ d.tokens = c.tokens /\ d.hasUsage = c.hasUsage /\ d.stopReason = c.stopReason

\* One item has changed.
Becomes(c, d, i, it) ==
  /\ Kept(c, d) /\ it \in RItem
  /\ DOMAIN d.items = DOMAIN c.items /\ Len(d.items) = Len(c.items) /\ d.items[i] = it
  /\ \A j \in DOMAIN c.items : j # i => d.items[j] = c.items[j]

\* Items that differ in one or two things.
Tagged(x, y) == /\ y \in RItem /\ y.typ = x.typ /\ y.key = x.key

\* An item with another field.
WithAdded(c, i, v) == [c EXCEPT !.items[i].added = v]
WithDone(c, i, v) == [c EXCEPT !.items[i].done = v]
WithData(c, i, v) == [c EXCEPT !.items[i].data = v]
WithParts(c, i, v) == [c EXCEPT !.items[i].parts = v]
WithPart(c, i, v) == [c EXCEPT !.items[i].part = v]

\* Item i announced, and ended.
ShownAt(c, i) == WithAdded(c, i, TRUE)
DoneAt(c, i) == WithDone(c, i, TRUE)

\* ResponsesStream: what its operators do to an item and to the output.
Announce(i, typ) == [type |-> "output_item.added", item |-> i, typ |-> typ]
PartSaid(type, i, p, kind, data) == [type |-> type, item |-> i, part |-> p, kind |-> kind, data |-> data]

\* A part of this kind is open.
Opened(c, d, i, kind, b) ==
  LET p == Len(b.items[i].parts) + 1
      e == PartSaid("content_part.added", i, p, kind, <<>>)
  IN
  /\ Becomes(c, d, i, d.items[i]) /\ Tagged(c.items[i], d.items[i])
  /\ d.items[i].done = c.items[i].done /\ d.items[i].part = kind
  /\ c.items[i].part = kind => d = c
  /\ c.items[i].part # kind =>
       /\ d.items[i].added
       /\ d.items[i].data = b.items[i].data /\ d.items[i].parts = b.items[i].parts
       /\ c.items[i].added => d.out = b.out \o <<e>>
       /\ ~c.items[i].added => d.out = (b.out \o <<Announce(i, c.items[i].typ)>>) \o <<e>>

\* The item i has grown to the data s, which w says.
Grown(c, d, i, s, w) ==
  /\ Becomes(c, d, i, d.items[i]) /\ Tagged(c.items[i], d.items[i])
  /\ d.out = c.out \o w
  /\ d.items[i].added = c.items[i].added /\ d.items[i].done = c.items[i].done
  /\ d.items[i].data = s
  /\ d.items[i].parts = c.items[i].parts /\ d.items[i].part = c.items[i].part

\* An item more.
NewOne(c, d, typ, key) ==
  /\ Kept(c, d) /\ d.out = c.out /\ Len(d.items) = Len(c.items) + 1
  /\ \A j \in DOMAIN c.items : j \in DOMAIN d.items /\ d.items[j] = c.items[j]
  /\ \A j \in DOMAIN d.items : j \in DOMAIN c.items \/ j = Len(d.items)
  /\ Len(d.items) \in DOMAIN d.items /\ Len(d.items) \notin DOMAIN c.items
  /\ d.items[Len(d.items)] = R!NewItem(typ, key)

\* What closes an item: its last part, or all its data.
ClosingOf(c, i) ==
  IF c.items[i].typ = "message" THEN R!ClosePart(c, i)
  ELSE R!Emit(c, <<[type |-> "data.done", item |-> i, data |-> c.items[i].data]>>)
-----------------------------------------------------------------------------
(* ResponsesStream: which events its operators write.                      *)

\* All events written are in E if those before were.
Says(c, d, E) == Kept(c, d) /\ (c.out \in Seq(E) => d.out \in Seq(E))

\* E has every event that frames items and parts.
Framing(E) ==
  /\ \A i \in Nat, typ \in ItemKinds : Announce(i, typ) \in E
  /\ \A type \in {"content_part.added", "text.done", "content_part.done"}, i \in Nat, p \in Nat,
        kind \in PartKinds, data \in Seq(Stamp) : PartSaid(type, i, p, kind, data) \in E
  /\ \A i \in Nat, data \in Seq(Stamp) : [type |-> "data.done", item |-> i, data |-> data] \in E
  /\ \A i \in Nat, it \in RItem : [type |-> "output_item.done", item |-> i, final |-> it] \in E

\* E has every delta.
Speech(E) ==
  \A i \in Nat, p \in Nat, kind \in PartKinds \cup ItemKinds, data \in Stamp : PartSaid("delta", i, p, kind, data) \in E

\* The tool calls of a chat delta.
CallsOf(c, f, n) == R!ForEach(LAMBDA d, j : R!ChatTool(d, f.tools[j], <<n, j>>), c, f.tools)

\* A JSON body's events, converted one after the other.
ConvertedBody(c, u, body) == FoldLeftDomain(LAMBDA d, j : R!Convert(d, u, body[j], j), c, body)

\* A converter between its first and its last event, E's all it said.
RTalk(E) == {c \in RConv : c.started /\ ~c.finished /\ ~c.errored /\ c.out \in Seq(E)}

\* Neither items nor output nor phase change.
Near(c, d) ==
  /\ d \in RConv /\ d.started = c.started /\ d.finished = c.finished /\ d.errored = c.errored
  /\ d.items = c.items /\ d.out = c.out

\* A response completed after talking, and one that failed.
RDone(d, E) == \E k \in RTalk(E) : d = R!Completed(k)
RFailed(d, E) == \E k \in RTalk(E) : d = R!Fail(k)

\* E has the two events that open a response.
Opening(E) == [type |-> "response.created"] \in E /\ [type |-> "response.in_progress"] \in E

\* A converter that has seen nothing yet.
RFresh(c) == c \in RConv /\ ~c.started /\ ~c.finished /\ ~c.errored /\ c.out = <<>>
RAlive(c, E) == RFresh(c) \/ c \in RTalk(E)
ROver(c) == c \in RConv /\ c.started /\ c.finished

\* The last event.
LastSaid(k) == [type |-> R!Status(k.stopReason), output |-> k.items, tokens |-> k.tokens]
-----------------------------------------------------------------------------
(* How a stream converted for a Responses client ends.                     *)

Mute == AddedEvent \cup PartsEvent \cup DataEvent \cup ItemEvent
        \cup [type : {"response.created", "response.in_progress"}]
Loud == Mute \cup GrowEvent

\* What a client may have been told so far.
Voice == IF saw.content THEN Loud ELSE Mute

\* The types of events that carry content.
Words == {"content_block_delta", "chunk", "delta", "frame"}
Wordless(s) == \A i \in DOMAIN s : s[i].type \notin Words

\* A Responses converter in one of its states.
RState(c, E) == RAlive(c, E) \/ RDone(c, E) \/ RFailed(c, E)

\* A route that converts for a Responses client, and what that client has
\* received.
ToResponses == NeedConvert /\ Client = "responses"

ResponsesEnds ==
  ToResponses =>
    /\ NoNullErrors => Answered
    /\ result = "ok" /\ ~saw.content => Wordless(conv.out)
    /\ result = "none" =>
         /\ RState(conv, Voice)
         /\ frames \in Seq(Frames[Upstream])
         /\ frames = <<>> => RFresh(conv)
         /\ ~saw.native /\ ~saw.terminal
         /\ saw.error => conv.finished
-----------------------------------------------------------------------------
(* Every route: one end, or an error.                                      *)

\* The inductive invariant behind EndsOnce.
EndsInv == AnthropicInv /\ OpenAIInv /\ saw \in SawType /\ AnthropicEnds /\ OpenAIEnds /\ ResponsesEnds /\ NativeEnds
-----------------------------------------------------------------------------
(* An answer without content gives its client nothing.                     *)

Void(s) == \A i \in DOMAIN s : (IsDelta(s[i]) => s[i].data = None) /\ s[i].type # "frame"

\* The events that frame an Anthropic message.
QEvent == [type : {"message_start", "message_stop", "error"}]
          \cup [type : {"message_delta"}, reason : StopReasons, tokens : Nat]

\* An Anthropic converter that has said nothing but framing.
Quiet(c) == c \in AConv /\ c.blocks = <<>> /\ c.out \in Seq(QEvent)

\* An empty answer is a quiet message.
AnthropicEmpty ==
  ToAnthropic /\ ~saw.content =>
    /\ result = "none" => Quiet(conv)
    /\ result = "ok" => Void(conv.out)

\* An empty answer is a completion without content.
OpenAIEmpty == ToOpenAI /\ ~saw.content /\ result \in {"none", "ok"} => Void(conv.out)

\* An event that says nothing, seen through a forwarded frame.
Hollow(e) == (IsDelta(e) => e.data = None) /\ (e.type = "frame" => ~HasContent(e.frame))

\* Nothing but hollow events.
Vacant(s) == \A i \in DOMAIN s : Hollow(s[i])

\* An empty answer forwarded is hollow.
NativeEmpty == ToSame /\ ~saw.content /\ result \in {"none", "ok"} => Vacant(conv.out)
-----------------------------------------------------------------------------
(* Every route: an empty answer gave the client nothing.                   *)

EmptyInv ==
  /\ AnthropicInv /\ OpenAIInv /\ saw \in SawType /\ OpenAIEnds /\ ResponsesEnds /\ NativeEnds
  /\ AnthropicEmpty /\ OpenAIEmpty /\ NativeEmpty
=============================================================================
