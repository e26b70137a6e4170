---------------------------- MODULE AnthropicStream ----------------------------
(***************************************************************************)
(* format.AnthropicStreamConverter: OpenAI chat chunks in, Anthropic events *)
(* out.  A converter is a record and every method an operator from record   *)
(* to record; "out" is everything it has returned so far.                   *)
(*                                                                         *)
(* A text, reasoning or argument fragment is a stamp <<chunk, place>>.  The *)
(* blocks (thinking, text, tools, in one sequence: a block's place is its   *)
(* content block index, counted from 1) replace the converter's separate    *)
(* flags, maps and buffers:                                                 *)
(*   held     its content_block_start and its deltas wait (textPending,      *)
(*            thinkingPending, pendingStarts)                                *)
(*   open     its start was emitted                                          *)
(*   dropped  a tool whose name never came                                   *)
(***************************************************************************)
EXTENDS Integers, Sequences, Loop

CONSTANTS
  None,        \* an absent JSON field
  ToolIds      \* the ids upstream gives tool calls

\* One element of a chunk's delta.tool_calls.
Fragment == [index : Nat \cup {None}, id : ToolIds \cup {None}, name : BOOLEAN, args : BOOLEAN]

\* A chunk.  Of usage and error it matters whether the field is absent, null or
\* real; choices is FALSE for the usage chunk, whose choices are empty.
Chunk == [type : {"chunk"}, choices : BOOLEAN,
          think : BOOLEAN, text : BOOLEAN, refusal : BOOLEAN, tools : Seq(Fragment),
          finish : {None, "stop", "length", "tool_calls", "content_filter"},
          usage : {"absent", "null", "real"}, error : {"absent", "null", "real"}]

NoFinish == None

NewConverter ==
  [started |-> FALSE, finished |-> FALSE, ended |-> NoFinish, tokens |-> 0,
   anonKey |-> 0, idToKey |-> [i \in ToolIds |-> 0], blocks |-> <<>>, out |-> <<>>]

Emit(c, events) == [c EXCEPT !.out = @ \o events]

Begin(c) ==
  IF c.started THEN c
  ELSE [Emit(c, <<[type |-> "message_start"]>>) EXCEPT !.started = TRUE]

ErrorEvent == [type |-> "error"]
------------------------------------------------------------------------------
(* Content blocks *)

Block(kind, key, id, name) ==
  [kind |-> kind, key |-> key, id |-> id, name |-> name, state |-> "open", deltas |-> <<>>]

\* The place of the block a kind and key belong to; 0 when there is none.
BlockOf(c, kind, key) ==
  LET at == {i \in DOMAIN c.blocks : /\ c.blocks[i].kind = kind
                                     /\ c.blocks[i].key = key
                                     /\ c.blocks[i].state # "dropped"}
  IN IF at = {} THEN 0 ELSE CHOOSE i \in at : TRUE

Held(c, kinds) ==
  \E i \in DOMAIN c.blocks : c.blocks[i].state = "held" /\ c.blocks[i].kind \in kinds

BlockStart(i, b) ==
  [type |-> "content_block_start", index |-> i, kind |-> b.kind, id |-> b.id, name |-> b.name]
BlockDelta(i, kind, stamp) ==
  [type |-> "content_block_delta", index |-> i, kind |-> kind, data |-> stamp]
BlockStop(i) == [type |-> "content_block_stop", index |-> i]

OpenBlock(c, b, hold) ==
  LET i == Len(c.blocks) + 1
      state == IF hold THEN "held" ELSE "open"
      d == [c EXCEPT !.blocks = Append(@, [b EXCEPT !.state = state])]
  IN IF hold THEN d ELSE Emit(d, <<BlockStart(i, b)>>)

AddDelta(c, i, stamp) ==
  IF c.blocks[i].state = "held"
  THEN [c EXCEPT !.blocks[i].deltas = Append(@, stamp)]
  ELSE Emit(c, <<BlockDelta(i, c.blocks[i].kind, stamp)>>)

\* What flushAllPendingStarts makes of a block: a tool without a name is
\* dropped, one without an id gets one.
Flushed(b) ==
  IF b.state # "held" THEN b
  ELSE IF ~b.name THEN [b EXCEPT !.state = "dropped", !.deltas = <<>>]
  ELSE [b EXCEPT !.state = "open", !.id = TRUE, !.deltas = <<>>]

FlushAll(c) ==
  LET events(i) ==
        LET b == c.blocks[i] IN
        IF b.state = "held" /\ b.name
        THEN <<BlockStart(i, Flushed(b))>>
             \o [j \in DOMAIN b.deltas |-> BlockDelta(i, b.kind, b.deltas[j])]
        ELSE <<>>
  IN ForEach(LAMBDA d, i : Emit(d, events(i)),
             [c EXCEPT !.blocks = [i \in DOMAIN @ |-> Flushed(@[i])]], c.blocks)

\* content_block_stop for every open block, in ascending order.
StopBlocks(c) ==
  LET stops(i) == IF c.blocks[i].state = "open" THEN <<BlockStop(i)>> ELSE <<>>
  IN ForEach(LAMBDA d, i : Emit(d, stops(i)), c, c.blocks)
------------------------------------------------------------------------------
(* The parts of a chunk's delta *)

\* Reasoning and text each have one block; it waits behind any held block of
\* another kind.
Prose(c, kind, stamp) ==
  LET other == {"tool", "text", "thinking"} \ {kind}
      d == IF BlockOf(c, kind, 0) # 0 THEN c
           ELSE OpenBlock(c, Block(kind, 0, TRUE, TRUE), Held(c, other))
  IN AddDelta(d, BlockOf(d, kind, 0), stamp)

\* Mutant: fragments without an index share one key.
ToolKeyBroken(c, f) == IF f.index # None THEN f.index ELSE -1

\* A tool call is known by its index, else by its id, else it is new each time.
ToolKey(c, f) ==
  IF f.index # None THEN f.index
  ELSE IF f.id # None /\ c.idToKey[f.id] # 0 THEN c.idToKey[f.id]
  ELSE c.anonKey - 1

AnonToolKey(c, f) ==
  LET key == ToolKey(c, f) IN
  IF f.index # None \/ key # c.anonKey - 1 THEN c
  ELSE IF f.id = None THEN [c EXCEPT !.anonKey = key]
  ELSE [c EXCEPT !.anonKey = key, !.idToKey[f.id] = key]

\* A fragment for a held tool brings what its start still lacks; once every
\* held tool has its id and name, all held blocks are let go.
Resolve(c, i, f) ==
  LET d == [c EXCEPT !.blocks[i].id = @ \/ f.id # None, !.blocks[i].name = @ \/ f.name]
  IN IF \E j \in DOMAIN d.blocks : /\ d.blocks[j].state = "held"
                                   /\ ~(d.blocks[j].id /\ d.blocks[j].name)
     THEN d
     ELSE FlushAll(d)

\* Mutant: a complete tool call does not wait behind held blocks.
ToolBroken(c, f, stamp) ==
  LET key == ToolKey(c, f)
      k == AnonToolKey(c, f)
      i == BlockOf(k, "tool", key)
      d == IF i = 0
           THEN OpenBlock(k, Block("tool", key, f.id # None, f.name), f.id = None \/ ~f.name)
           ELSE IF k.blocks[i].state = "held" THEN Resolve(k, i, f)
           ELSE k
  IN IF f.args THEN AddDelta(d, BlockOf(d, "tool", key), stamp) ELSE d

Tool(c, f, stamp) ==
  LET key == ToolKey(c, f)
      k == AnonToolKey(c, f)
      i == BlockOf(k, "tool", key)
      d == IF i = 0
           THEN OpenBlock(k, Block("tool", key, f.id # None, f.name),
                          f.id = None \/ ~f.name \/ Held(k, {"tool", "text"}))
           ELSE IF k.blocks[i].state = "held" THEN Resolve(k, i, f)
           ELSE k
  IN IF f.args THEN AddDelta(d, BlockOf(d, "tool", key), stamp) ELSE d

Tools(c, f, n) ==
  ForEach(LAMBDA d, j : Tool(d, f.tools[j], <<n, j>>), c, f.tools)
------------------------------------------------------------------------------
(* The end of the message *)

StopReason(finish) ==
  CASE finish = "length" -> "max_tokens"
    [] finish = "tool_calls" -> "tool_use"
    [] finish = "content_filter" -> "refusal"
    [] OTHER -> "end_turn"

Terminate(c) ==
  IF c.finished THEN c
  ELSE [Emit(c, <<[type |-> "message_delta", reason |-> StopReason(c.ended), tokens |-> c.tokens],
                  [type |-> "message_stop"]>>) EXCEPT !.finished = TRUE]

\* Mutant: the message ends with the finish chunk, usage or not.
FinishBroken(c, f, n) ==
  Terminate([StopBlocks(FlushAll(c)) EXCEPT !.ended = f.finish,
                                            !.tokens = IF f.usage = "real" THEN n ELSE @])

Finish(c, f, n) ==
  LET d == [StopBlocks(FlushAll(c)) EXCEPT !.ended = f.finish]
  IN IF f.usage = "absent" THEN d
     ELSE Terminate([d EXCEPT !.tokens = IF f.usage = "real" THEN n ELSE @])

CloseStream(c) ==
  IF c.ended # NoFinish THEN Terminate(c) ELSE Terminate(StopBlocks(FlushAll(c)))
------------------------------------------------------------------------------
Delta(c, f, n) ==
  LET c1 == IF f.think THEN Prose(c, "thinking", <<n, 0>>) ELSE c
      c2 == IF f.text THEN Prose(c1, "text", <<n, 0>>) ELSE c1
  IN Tools(c2, f, n)

\* A chunk with empty choices: usage, and the deferred end.
UsageChunk(c, f, n) ==
  LET d == [c EXCEPT !.tokens = IF f.usage = "real" THEN n ELSE @]
  IN IF d.ended # NoFinish THEN Terminate(d) ELSE d

\* Convert of the n-th frame.  A frame that is not JSON leaves the converter
\* alone; its caller reports the error.
Convert(c, f, n) ==
  LET b == Begin(c) IN
  IF b.finished \/ f.type = "malformed" THEN b
  ELSE IF f.error # "absent" THEN [Emit(b, <<ErrorEvent>>) EXCEPT !.finished = TRUE]
  ELSE IF ~f.choices THEN UsageChunk(b, f, n)
  ELSE IF b.ended # NoFinish THEN b
  ELSE LET d == Delta(b, f, n) IN IF f.finish = None THEN d ELSE Finish(d, f, n)
================================================================================
