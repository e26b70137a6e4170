------------------------------- MODULE MCStreams -------------------------------
(* Small instances of StreamRelay. *)
EXTENDS StreamClients

CONSTANTS IdA, IdB, FinishUsage

Route(c, u) == [client |-> c, upstream |-> u]

MCRoutes == {Route(c, u) : c \in Formats, u \in Formats \ {"responses"}} \cup {Route("responses", "responses")}
MCConverted == {Route("anthropic", "openai")}

Plain ==
  [type |-> "chunk", choices |-> TRUE, think |-> FALSE, text |-> FALSE, refusal |-> FALSE,
   tools |-> <<>>, finish |-> None, usage |-> "absent", error |-> "absent"]
Call(index, id, name, args) == [index |-> index, id |-> id, name |-> name, args |-> args]
Other(type) == [type |-> type]

ChatFrames ==
  {Plain,
   [Plain EXCEPT !.think = TRUE], [Plain EXCEPT !.text = TRUE], [Plain EXCEPT !.refusal = TRUE],
   [Plain EXCEPT !.think = TRUE, !.text = TRUE, !.tools = <<Call(1, IdA, TRUE, TRUE)>>],
   [Plain EXCEPT !.tools = <<Call(0, IdA, TRUE, TRUE)>>],
   [Plain EXCEPT !.tools = <<Call(0, None, FALSE, TRUE)>>],
   [Plain EXCEPT !.tools = <<Call(0, None, TRUE, FALSE), Call(1, IdB, FALSE, TRUE)>>],
   [Plain EXCEPT !.tools = <<Call(0, IdA, FALSE, FALSE)>>],
   [Plain EXCEPT !.tools = <<Call(1, IdB, TRUE, TRUE)>>],
   [Plain EXCEPT !.tools = <<Call(None, IdA, TRUE, TRUE)>>],
   [Plain EXCEPT !.tools = <<Call(None, IdA, FALSE, TRUE), Call(None, None, TRUE, TRUE)>>],
   [Plain EXCEPT !.text = TRUE, !.finish = "stop"],
   [Plain EXCEPT !.finish = "content_filter"],
   [Plain EXCEPT !.choices = FALSE, !.usage = "real"],
   [Plain EXCEPT !.error = "real"],
   Other("malformed"), Other("[DONE]")}
  \cup {[Plain EXCEPT !.finish = "length", !.usage = u] : u \in FinishUsage}

Event(type, index, kind) ==
  [type |-> type, index |-> index, kind |-> kind, reason |-> None, usage |-> FALSE]
End(reason, counted) ==
  [type |-> "message_delta", index |-> 0, kind |-> None, reason |-> reason, usage |-> counted]

Begun == [Event("message_start", 0, None) EXCEPT !.usage = TRUE]

MessageFrames ==
  {Begun, Event("ping", 0, None), Event("message_stop", 0, None), Event("error", 0, None),
   Other("malformed"), End("end_turn", TRUE), End("max_tokens", FALSE)}
  \cup {Event(t, i, k) : t \in {"content_block_start", "content_block_delta", "content_block_stop"},
                         i \in 1 .. 2, k \in O!BlockKinds}

Native(type, text, counted) == [type |-> type, text |-> text, usage |-> counted]

NativeFrames ==
  {Native("response.created", FALSE, FALSE), Native("response.output_text.delta", TRUE, FALSE),
   Native("response.completed", FALSE, TRUE), Native("response.incomplete", FALSE, FALSE),
   Native("response.failed", FALSE, FALSE), Other("error"), Other("malformed"), Other("[DONE]")}

Message(kinds) ==
  <<Begun>>
  \o FlattenSeq([i \in DOMAIN kinds |->
       <<Event("content_block_start", i, kinds[i]), Event("content_block_delta", i, kinds[i]),
         Event("content_block_stop", i, kinds[i])>>])
  \o <<End("tool_use", TRUE), Event("message_stop", 0, None)>>

MCFrames ==
  [f \in Formats |-> CASE f = "openai" -> ChatFrames [] f = "anthropic" -> MessageFrames
                       [] f = "responses" -> NativeFrames]

MCBodies ==
  [f \in Formats |->
     CASE f = "openai" ->
            {<<b>> : b \in {[Plain EXCEPT !.text = TRUE, !.think = TRUE, !.finish = "stop", !.usage = "real"],
                            [Plain EXCEPT !.refusal = TRUE, !.finish = "content_filter"],
                            [Plain EXCEPT !.tools = <<Call(None, IdA, TRUE, TRUE), Call(None, IdB, TRUE, TRUE)>>,
                                          !.finish = "tool_calls"],
                            [Plain EXCEPT !.choices = FALSE, !.usage = "real"],
                            [Plain EXCEPT !.error = "real"], Other("malformed")}}
       [] f = "anthropic" ->
            {Message(<<>>), Message(<<"thinking", "text", "tool", "tool">>), <<Other("error")>>, <<Other("malformed")>>}
       [] f = "responses" ->
            {<<b>> : b \in {Native("response.completed", TRUE, TRUE), Native("response.failed", FALSE, FALSE),
                            Other("error"), Other("malformed")}}]

MCMaxFrames == [f \in Formats |-> CASE f = "openai" -> 4 [] f = "anthropic" -> 7 [] f = "responses" -> 4]
MCShort == [f \in Formats |-> 3]
================================================================================
