----------------------------- MODULE StreamClients -----------------------------
(***************************************************************************)
(* What clients may rely on: the properties of StreamRelay, stated over what *)
(* the client received (conv.out), what the upstream said (frames) and what  *)
(* the relay's caller is told (result, usage, saw.content).                 *)
(***************************************************************************)
EXTENDS StreamRelay

Out == conv.out

\* The type of a received event, seen through a forwarded frame.
TypeAt(i) ==
  IF Out[i].type # "frame" THEN Out[i].type
  ELSE IF HasError(Out[i].frame) THEN "error" ELSE Out[i].frame.type

Ends == {"[DONE]", "message_stop", "response.completed", "response.incomplete", "response.failed"}

At(types) == {i \in DOMAIN Out : TypeAt(i) \in types}

ByBody == \E body \in Bodies[Upstream] : frames = body

------------------------------------------------------------------------------
(* A converted stream follows its client's protocol at every moment, whatever *)
(* the upstream sent and wherever it stopped.                               *)

\* Blocks start in ascending order, tools with their id and name; deltas come
\* between start and stop of a block of their kind; message_start comes first
\* and message_delta once, after all stops (the order pendingStarts and
\* flushAllPendingStarts keep while ids and names come late).
AnthropicOrderKept ==
  NeedConvert /\ Client = "anthropic" =>
  LET starts == At({"content_block_start"})
      deltas == At({"content_block_delta"})
      stops == At({"content_block_stop"})
  IN /\ \A i, j \in starts : i < j => Out[i].index < Out[j].index
     /\ \A i \in starts : Out[i].id /\ Out[i].name
     /\ \A i \in deltas \cup stops : \E j \in starts : j < i /\ Out[j].index = Out[i].index
     /\ \A i \in deltas, j \in starts \cup stops :
          Out[i].index = Out[j].index =>
            IF j \in starts THEN j < i /\ Out[j].kind = Out[i].kind ELSE i < j
     /\ \A i, j \in stops : Out[i].index = Out[j].index => i = j
     /\ \A i \in At({"message_start"}) : i = 1
     /\ starts # {} => At({"message_start"}) # {}
     /\ \A i \in At({"message_delta"}) :
          /\ \A j \in starts \cup deltas \cup stops : j < i
          /\ \A j \in starts : \E k \in stops : Out[k].index = Out[j].index
     /\ Cardinality(At({"message_delta"})) <= 1

\* Arguments follow their call's first chunk; nothing but usage, an error or
\* [DONE] follows the finish chunk (the tool indexes given to content blocks).
OpenAIOrderKept ==
  NeedConvert /\ Client = "openai" =>
  /\ \A i \in At({"chunk"}) : Out[i].kind = "tool" =>
       \E j \in At({"chunk"}) : j < i /\ Out[j].kind = "tool_start" /\ Out[j].tool = Out[i].tool
  /\ \A i \in At({"finish"}), j \in At({"chunk", "finish"}) : j <= i

\* Both: a message converted between the two formats is in its client's order.
MessagesOrderKept == AnthropicOrderKept /\ OpenAIOrderKept

\* Items and parts are announced, grow and are closed in this order, each once;
\* what is said of a closed item or part is what its deltas said, and so is the
\* final output (the order closeMessagePart and closeAll keep).
ResponsesOrderKept ==
  NeedConvert /\ Client = "responses" =>
  LET of(types, i) == {j \in At(types) : Out[j].item = i}
      data(i, p) == LET ds == SelectSeq(Out, LAMBDA e : e.type = "delta" /\ e.item = i /\ e.part = p)
                    IN [k \in DOMAIN ds |-> ds[k].data]
      items == {Out[j].item : j \in At({"output_item.added"})}
      inner == {"delta", "content_part.added", "text.done", "content_part.done", "data.done"}
  IN /\ \A i \in At({"response.created"}) : i = 1
     /\ items = 1 .. Cardinality(items)
     /\ \A j \in At(inner \cup {"output_item.done"}) : Out[j].item \in items
     /\ \A i \in items :
          /\ Cardinality(of({"output_item.added"}, i)) = 1
          /\ Cardinality(of({"output_item.done"}, i)) <= 1
          /\ \A a \in of({"output_item.added"}, i), j \in of(inner, i) : a < j
          /\ \A d \in of({"output_item.done"}, i), j \in of(inner, i) : j < d
          /\ \A j \in of({"content_part.done"}, i) : Out[j].data = data(i, Out[j].part)
          /\ \A j \in of({"data.done"}, i) : Out[j].data = data(i, 0)
          /\ \A a \in of({"content_part.added"}, i), j \in of({"delta", "content_part.done"}, i) :
               Out[j].part = Out[a].part => a < j
          /\ \A d \in of({"content_part.done"}, i), j \in of({"delta"}, i) :
               Out[j].part = Out[d].part => j < d
     /\ \A e \in At(Ends) : Out[e].type # "frame" /\ Out[e].output # <<>> =>
          /\ DOMAIN Out[e].output = items
          /\ \A i \in items : of({"output_item.done"}, i) # {} /\ Out[e].output[i].part = None
          /\ \A i \in items : \A p \in DOMAIN Out[e].output[i].parts :
               Out[e].output[i].parts[p].data = data(i, p)
------------------------------------------------------------------------------
(* The message itself *)

\* A chat message is over with its first finish chunk.
Spoken ==
  LET last == {i \in DOMAIN frames : frames[i].type = "chunk" /\ frames[i].finish # None}
  IN {i \in DOMAIN frames : \A j \in last : i <= j}

\* The fragments of a kind the upstream sent, in order.
SaidOf(kind) ==
  LET at(i) ==
        LET f == frames[i] IN
        CASE f.type = "content_block_delta" /\ f.kind = kind -> <<<<i, 0>>>>
          [] f.type = "chunk" /\ i \in Spoken ->
               CASE kind = "thinking" /\ f.think -> <<<<i, 0>>>>
                 [] kind = "text" /\ f.text -> <<<<i, 0>>>>
                 [] kind = "refusal" /\ f.refusal -> <<<<i, 0>>>>
                 [] kind = "tool" -> SelectSeq([j \in DOMAIN f.tools |-> <<i, j>>],
                                               LAMBDA s : f.tools[s[2]].args)
                 [] OTHER -> <<>>
          [] OTHER -> <<>>
  IN FlattenSeq([i \in DOMAIN frames |-> at(i)])

\* The fragments of a kind the client received, in order.
IsDelta(e) == e.type \in {"content_block_delta", "chunk", "delta"}

Heard(Test(_)) ==
  LET ds == SelectSeq(Out, LAMBDA e : IsDelta(e) /\ Test(e)) IN [i \in DOMAIN ds |-> ds[i].data]

HeardOf(kind) ==
  Heard(LAMBDA e : e.kind = IF kind = "thinking" /\ Client = "responses" THEN "reasoning" ELSE kind)

\* The tool calls: each a sequence of argument fragments.  A chat fragment
\* belongs to the call with its index or, without an index, its id; an
\* Anthropic client is not told of calls that never got a name.
CallOf(s) ==
  LET f == frames[s[1]] IN
  IF f.type # "chunk" THEN [block |-> f.index]
  ELSE LET t == f.tools[s[2]] IN
       IF t.index # None THEN [index |-> t.index]
       ELSE IF t.id # None THEN [id |-> t.id] ELSE [lone |-> s]

Fragments ==
  UNION {LET f == frames[i] IN
         IF f.type = "chunk" THEN {<<i, j>> : j \in DOMAIN f.tools}
         ELSE IF f.type = "content_block_start" /\ f.kind = "tool" THEN {<<i, 0>>} ELSE {} : i \in Spoken}

Told(call) ==
  \/ Client # "anthropic"
  \/ \E s \in Fragments : CallOf(s) = call /\ frames[s[1]].tools[s[2]].name

CallsSaid ==
  {SelectSeq(SaidOf("tool"), LAMBDA s : CallOf(s) = call) : call \in {c \in {CallOf(s) : s \in Fragments} : Told(c)}}

CallsHeard ==
  CASE Client = "anthropic" ->
         {Heard(LAMBDA e : e.index = Out[i].index) : i \in {j \in At({"content_block_start"}) : Out[j].kind = "tool"}}
    [] Client = "openai" ->
         {Heard(LAMBDA e : e.kind = "tool" /\ e.tool = Out[i].tool) : i \in {j \in At({"chunk"}) : Out[j].kind = "tool_start"}}
    [] Client = "responses" ->
         {Heard(LAMBDA e : e.item = Out[i].item) : i \in {j \in At({"output_item.added"}) : Out[j].typ = "function_call"}}

\* A converted answer the caller calls a success reached the client whole: all
\* reasoning and text in order, and every tool call with its own arguments in
\* order, whatever order ids, names and indexes came in.  (Streamed refusals are
\* not converted for Anthropic clients.)
NothingLost ==
  result = "ok" /\ NeedConvert =>
    /\ HeardOf("thinking") = SaidOf("thinking")
    /\ (Client = "anthropic" /\ ByBody) \/ HeardOf("text") = SaidOf("text")
    /\ Client = "responses" => HeardOf("refusal") = SaidOf("refusal")
    /\ CallsHeard = CallsSaid

\* An end a route without conversion only forwarded.
OwnEnd(j) == ~NeedConvert /\ (Out[j].type = "frame" \/ saw.done)

\* The client of a successful answer has one end, at the end, and no error; that
\* of a failed one is told of an error, unless its answer had ended before, and
\* gets no end after it but the upstream's own.  (A native Responses stream that
\* stops early is left without an end on purpose.)
EndsOnce ==
  /\ result = "ok" =>
       /\ At({"error"}) = {}
       /\ \/ At(Ends) = {Len(Out)}
          \/ Client = "responses" /\ ~NeedConvert /\ saw.native /\ At(Ends) = {}
  /\ result = "error" =>
       /\ At({"error"} \cup Ends) # {}
       /\ \A i \in At({"error"}), j \in At(Ends) : j < i \/ OwnEnd(j)

TokensTold ==
  LET at == {i \in DOMAIN Out : Out[i].type \in {"message_delta", "finish", "response.completed",
                                             "response.incomplete", "response.failed"}}
  IN {Out[i].tokens : i \in at}

\* The tokens billed are the tokens the client was told of (the reason
\* message_delta waits for the usage chunk).  One chunk made of a JSON body
\* tells OpenAI clients nothing.
UsageTold ==
  result = "ok" /\ NeedConvert /\ usage # 0 /\ ~(Client = "openai" /\ ByBody) => TokensTold = {usage}

\* An answer the handler will count as empty gave the client nothing.
EmptyIsEmpty ==
  result = "ok" /\ ~saw.content =>
    /\ ~\E i \in DOMAIN Out : IsDelta(Out[i]) /\ Out[i].data # None
    /\ ~\E i \in DOMAIN Out : Out[i].type = "frame" /\ HasContent(Out[i].frame)
================================================================================
