----------------------------- MODULE OpenAIStream -----------------------------
(***************************************************************************)
(* format.OpenAIStreamConverter: Anthropic Messages events in, OpenAI chat   *)
(* chunks out.  toolIndexes lists the content blocks of the tools seen, in   *)
(* the order of the tool indexes they were given.                           *)
(***************************************************************************)
EXTENDS Integers, Sequences

CONSTANT None

BlockKinds == {"text", "thinking", "tool"}

\* An Anthropic stream event; index counts content blocks from 1.
Event == [type : {"message_start", "content_block_start", "content_block_delta",
                  "content_block_stop", "message_delta", "message_stop", "ping", "error"},
          index : Nat, kind : BlockKinds \cup {None},
          reason : {None, "end_turn", "max_tokens", "tool_use", "refusal"}, usage : BOOLEAN]

NewConverter == [toolIndexes |-> <<>>, errored |-> FALSE, started |-> FALSE, out |-> <<>>]

Emit(c, chunk) == [c EXCEPT !.out = Append(@, chunk)]

ContentChunk(kind, tool, stamp) == [type |-> "chunk", kind |-> kind, tool |-> tool, data |-> stamp]
FinishChunk(reason, tokens) == [type |-> "finish", reason |-> reason, tokens |-> tokens]
ErrorChunk == [type |-> "error"]

ToolOf(c, index) ==
  LET at == {t \in DOMAIN c.toolIndexes : c.toolIndexes[t] = index}
  IN IF at = {} THEN 0 ELSE CHOOSE t \in at : \A u \in at : u <= t

\* Mutant: a tool is announced with the index of the one before it.
BlockStartsBroken(c, e) ==
  CASE e.kind = "tool" ->
         Emit([c EXCEPT !.toolIndexes = Append(@, e.index)],
              ContentChunk("tool_start", Len(c.toolIndexes), None))
    [] e.kind = "thinking" -> Emit(c, ContentChunk("role", 0, None))
    [] OTHER -> c

BlockStarts(c, e) ==
  CASE e.kind = "tool" ->
         Emit([c EXCEPT !.toolIndexes = Append(@, e.index)],
              ContentChunk("tool_start", Len(c.toolIndexes) + 1, None))
    [] e.kind = "thinking" -> Emit(c, ContentChunk("role", 0, None))
    [] OTHER -> c

BlockGrows(c, e, n) ==
  CASE e.kind = "tool" ->
         IF ToolOf(c, e.index) = 0 THEN c
         ELSE Emit(c, ContentChunk("tool", ToolOf(c, e.index), <<n, 0>>))
    [] OTHER -> Emit(c, ContentChunk(e.kind, 0, <<n, 0>>))

FinishReason(reason) ==
  CASE reason = "end_turn" -> "stop"
    [] reason = "max_tokens" -> "length"
    [] reason = "refusal" -> "content_filter"
    [] reason = "tool_use" -> "tool_calls"

\* Convert of the n-th frame.
Convert(b, e, n) ==
  LET c == [b EXCEPT !.started = TRUE] IN
  CASE e.type = "content_block_start" -> BlockStarts(c, e)
    [] e.type = "content_block_delta" -> BlockGrows(c, e, n)
    [] e.type = "message_delta" /\ e.reason # None ->
         Emit(c, FinishChunk(FinishReason(e.reason), IF e.usage THEN n ELSE 0))
    [] e.type = "error" -> Emit([c EXCEPT !.errored = TRUE], ErrorChunk)
    [] OTHER -> c
===============================================================================
