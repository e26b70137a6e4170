------------------------------- MODULE MCDialogue -------------------------------
(* Small instances of Dialogue. *)
EXTENDS Dialogue

AllClients == Formats

MCPrompts == {<<"media", "odd", "text">>, <<"odd">>}

MCOutputs == {<<"text", "odd">>, <<"odd">>}

\* A chat answer is reasoning, text and calls. A model that speaks blocks or items
\* may put texts and thoughts anywhere.
ChatAnswers ==
  {<<"text">>, <<"think", "text">>, <<"call">>, <<"text", "call", "call">>, <<"think", "call", "call">>}
BlockAnswers ==
  ChatAnswers \cup {<<"think", "text", "think", "call">>, <<"text", "text">>,
                    <<"call", "text", "call">>, <<"call", "think", "call">>}

\* OpenAI's models may refuse.
MCAnswers == [f \in Formats |-> CASE f = "openai" -> ChatAnswers \cup {<<"refusal">>}
                                 [] f = "anthropic" -> BlockAnswers
                                 [] OTHER -> BlockAnswers \cup {<<"text", "refusal">>}]
==================================================================================
