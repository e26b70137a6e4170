---------------------------- MODULE ResponsesStream ----------------------------
(***************************************************************************)
(* format.ResponsesStreamConverter: OpenAI chat chunks or Anthropic events   *)
(* in, Responses API events out.  Output items are numbered from 1; an       *)
(* item's key is the tool call's key or the content block's index.          *)
(***************************************************************************)
EXTENDS Integers, Sequences, Loop

CONSTANTS
  None,
  ToolIds

NewConverter ==
  [started |-> FALSE, closed |-> FALSE, finished |-> FALSE, errored |-> FALSE,
   items |-> <<>>, msgBlock |-> 0, anonKey |-> 0, idToKey |-> [i \in ToolIds |-> 0],
   tokens |-> 0, hasUsage |-> FALSE, stopReason |-> None, out |-> <<>>]

Emit(c, events) == [c EXCEPT !.out = @ \o events]

Begin(c) ==
  IF c.started THEN c
  ELSE [Emit(c, <<[type |-> "response.created"], [type |-> "response.in_progress"]>>)
          EXCEPT !.started = TRUE]

ErrorEvent == [type |-> "error"]

Fail(c) == [Emit(c, <<ErrorEvent>>) EXCEPT !.errored = TRUE, !.finished = TRUE]
------------------------------------------------------------------------------
(* Output items.  data is a tool's arguments or a reasoning summary; a       *)
(* message has closed parts and at most one open part, of kind text or       *)
(* refusal, whose text is data.                                             *)

NewItem(typ, key) ==
  [typ |-> typ, key |-> key, added |-> FALSE, done |-> FALSE,
   data |-> <<>>, parts |-> <<>>, part |-> None]

\* The last item with this key among those of the types; 0 when there is none.
ItemOf(c, types, key) ==
  LET at == {i \in DOMAIN c.items : c.items[i].typ \in types /\ c.items[i].key = key}
  IN IF at = {} THEN 0 ELSE CHOOSE i \in at : \A j \in at : j <= i

MsgItem(c) == ItemOf(c, {"message"}, 0)

WithItem(c, typ, key) ==
  IF ItemOf(c, {typ}, key) # 0 THEN c ELSE [c EXCEPT !.items = Append(@, NewItem(typ, key))]

OutputItemAdded(c, i) ==
  IF c.items[i].added THEN c
  ELSE [Emit(c, <<[type |-> "output_item.added", item |-> i, typ |-> c.items[i].typ]>>)
          EXCEPT !.items[i].added = TRUE]

PartIdx(c, i) == Len(c.items[i].parts) + 1

PartEvent(type, c, i, kind, data) ==
  [type |-> type, item |-> i, part |-> PartIdx(c, i), kind |-> kind, data |-> data]

\* Mutant: the text of a closed part stays and joins the next part's.
ClosePartBroken(c, i) ==
  LET it == c.items[i] IN
  IF it.part = None THEN c
  ELSE [Emit(c, <<PartEvent("text.done", c, i, it.part, it.data),
                  PartEvent("content_part.done", c, i, it.part, it.data)>>)
          EXCEPT !.items[i].parts = Append(@, [kind |-> it.part, data |-> it.data]),
                 !.items[i].part = None]

\* closeMessagePart
ClosePart(c, i) ==
  LET it == c.items[i] IN
  IF it.part = None THEN c
  ELSE [Emit(c, <<PartEvent("text.done", c, i, it.part, it.data),
                  PartEvent("content_part.done", c, i, it.part, it.data)>>)
          EXCEPT !.items[i].parts = Append(@, [kind |-> it.part, data |-> it.data]),
                 !.items[i].part = None, !.items[i].data = <<>>]

OpenPart(c, i, kind) ==
  IF c.items[i].part = kind THEN c
  ELSE LET d == OutputItemAdded([ClosePart(c, i) EXCEPT !.items[i].part = kind], i)
       IN Emit(d, <<PartEvent("content_part.added", d, i, kind, <<>>)>>)

\* textDelta and refusalDelta
MessageDelta(c, kind, stamp) ==
  LET w == WithItem(c, "message", 0)
      i == MsgItem(w)
      d == OpenPart(w, i, kind)
  IN [Emit(d, <<PartEvent("delta", d, i, kind, stamp)>>) EXCEPT !.items[i].data = Append(@, stamp)]

\* Arguments of a tool call or text of a reasoning summary.
ItemDelta(c, i, stamp) ==
  LET d == OutputItemAdded(c, i) IN
  [Emit(d, <<[type |-> "delta", item |-> i, part |-> 0, kind |-> d.items[i].typ, data |-> stamp]>>)
     EXCEPT !.items[i].data = Append(@, stamp)]

\* closeItem with what closeMessageItem and closeToolItem emit before it.
CloseItem(c, i) ==
  IF c.items[i].done THEN c
  ELSE LET d == IF c.items[i].typ = "message" THEN ClosePart(c, i)
                ELSE Emit(c, <<[type |-> "data.done", item |-> i, data |-> c.items[i].data]>>)
       IN [Emit(d, <<[type |-> "output_item.done", item |-> i, final |-> d.items[i]]>>)
             EXCEPT !.items[i].done = TRUE]

CloseAll(c) == ForEach(LAMBDA d, i : CloseItem(d, i), c, c.items)

Status(reason) ==
  CASE reason \in {"length", "max_tokens"} -> "response.incomplete"
    [] reason \in {"content_filter", "refusal"} -> "response.failed"
    [] OTHER -> "response.completed"

Completed(c) ==
  [Emit(c, <<[type |-> Status(c.stopReason), output |-> c.items, tokens |-> c.tokens]>>)
     EXCEPT !.finished = TRUE]

CloseStream(c) ==
  IF c.finished THEN c
  ELSE LET d == Begin(c)
       IN Completed(IF d.closed THEN d ELSE [CloseAll(d) EXCEPT !.closed = TRUE])

SetUsage(c, n) == [c EXCEPT !.tokens = n, !.hasUsage = TRUE]
------------------------------------------------------------------------------
(* Chat chunks *)

ToolKey(c, f) ==
  IF f.index # None THEN f.index
  ELSE IF f.id # None /\ c.idToKey[f.id] # 0 THEN c.idToKey[f.id]
  ELSE c.anonKey - 1

AnonToolKey(c, f) ==
  LET key == ToolKey(c, f) IN
  IF f.index # None \/ key # c.anonKey - 1 THEN c
  ELSE IF f.id = None THEN [c EXCEPT !.anonKey = key]
  ELSE [c EXCEPT !.anonKey = key, !.idToKey[f.id] = key]

ChatTool(c, f, stamp) ==
  LET k == WithItem(AnonToolKey(c, f), "function_call", ToolKey(c, f))
      i == ItemOf(k, {"function_call"}, ToolKey(c, f))
      d == OutputItemAdded(k, i)
  IN IF f.args THEN ItemDelta(d, i, stamp) ELSE d

Reasoning(c, stamp) ==
  LET w == WithItem(c, "reasoning", 0) IN ItemDelta(w, ItemOf(w, {"reasoning"}, 0), stamp)

ChatDelta(c, f, n) ==
  LET c1 == IF f.think THEN Reasoning(c, <<n, 0>>) ELSE c
      c2 == IF f.text THEN MessageDelta(c1, "text", <<n, 0>>) ELSE c1
      c3 == IF f.refusal THEN MessageDelta(c2, "refusal", <<n, 0>>) ELSE c2
  IN ForEach(LAMBDA d, j : ChatTool(d, f.tools[j], <<n, j>>), c3, f.tools)

ChatFinish(c, reason) ==
  LET d == [CloseAll(c) EXCEPT !.stopReason = reason, !.closed = TRUE]
  IN IF d.hasUsage THEN Completed(d) ELSE d

ChatChunk(b, f, n) ==
  LET c == IF f.usage = "real" THEN SetUsage(b, n) ELSE b IN
  IF f.error # "absent" THEN Fail(b)
  ELSE IF c.closed THEN (IF f.usage = "real" THEN Completed(c) ELSE c)
  ELSE IF ~f.choices THEN c
  ELSE LET d == ChatDelta(c, f, n) IN IF f.finish = None THEN d ELSE ChatFinish(d, f.finish)
------------------------------------------------------------------------------
(* Anthropic events *)

\* The tool or thinking block's item.
BlockItem(c, index) == ItemOf(c, {"function_call", "reasoning"}, index)

BlockStarts(c, e) ==
  IF e.kind # "text"
  THEN LET d == [c EXCEPT !.items = Append(@, NewItem(
                   IF e.kind = "tool" THEN "function_call" ELSE "reasoning", e.index))]
       IN OutputItemAdded(d, Len(d.items))
  ELSE LET w == WithItem(c, "message", 0)
           i == MsgItem(w)
       IN IF w.items[i].part # None THEN w
          ELSE OpenPart([w EXCEPT !.msgBlock = e.index], i, "text")

BlockGrows(c, e, n) ==
  IF e.kind = "text"
  THEN MessageDelta([c EXCEPT !.msgBlock = e.index], "text", <<n, 0>>)
  ELSE LET i == BlockItem(c, e.index) IN IF i = 0 THEN c ELSE ItemDelta(c, i, <<n, 0>>)

BlockStops(c, e) ==
  LET m == MsgItem(c)
      i == BlockItem(c, e.index)
  IN IF m # 0 /\ ~c.items[m].done /\ c.items[m].part # None /\ c.msgBlock = e.index
     THEN ClosePart(c, m)
     ELSE IF i = 0 THEN c ELSE CloseItem(c, i)

AnthropicEvent(c, e, n) ==
  CASE e.type = "message_start" -> IF e.usage THEN SetUsage(c, n) ELSE c
    [] e.type = "content_block_start" -> BlockStarts(c, e)
    [] e.type = "content_block_delta" -> BlockGrows(c, e, n)
    [] e.type = "content_block_stop" -> BlockStops(c, e)
    [] e.type = "message_delta" ->
         LET d == IF e.reason = None THEN c ELSE [c EXCEPT !.stopReason = e.reason]
         IN IF e.usage THEN SetUsage(d, n) ELSE d
    [] e.type = "message_stop" -> Completed(CloseAll(c))
    [] e.type = "error" -> Fail(c)
    [] OTHER -> c
------------------------------------------------------------------------------
\* Convert of the n-th frame, for either upstream.
Convert(c, upstream, f, n) ==
  LET b == Begin(c) IN
  IF b.finished \/ f.type = "malformed" THEN b
  ELSE IF upstream = "anthropic" THEN AnthropicEvent(b, f, n) ELSE ChatChunk(b, f, n)
================================================================================
