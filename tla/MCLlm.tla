------------------------------- MODULE MCLlm -------------------------------
(* An instance of Llm for TLC. *)
EXTENDS Llm

Msg(role, content) == [role |-> role, content |-> content]
Conversation ==
  <<Msg("system", 1), Msg("user", 2), Msg("system", 3), Msg("tool", 4), Msg("assistant", 5)>>

(* Each operation with a model that is left out, bare, unknown or known. *)
AllCalls ==
  {[op |-> op, model |-> m, input |-> Conversation] :
     op \in {"chat", "chat_stream"},
     m \in {<<>>, << <<"gpt">> >>, << <<"mistral", "x">> >>, << <<"anthropic", "c">> >>,
            << <<"openai", "o", "x">> >>}}
    \cup {[op |-> "embed", model |-> << <<p, "e">> >>, input |-> in] :
            p \in {"anthropic", "openai"}, in \in {<<>>, <<Msg("user", 2)>>}}

(* No default for chat. *)
Defaults == [chat |-> <<>>, chat_stream |-> <<"openai", "o">>, embed |-> <<"openai", "e">>]

(* All streams of up to three events of these. *)
Events ==
  {[kind |-> k, wide |-> FALSE, crlf |-> FALSE] : k \in {"text", "finish", "other", "[DONE]"}}
    \cup {[kind |-> "text", wide |-> TRUE, crlf |-> FALSE],
          [kind |-> "text", wide |-> FALSE, crlf |-> TRUE],
          [kind |-> "text and finish", wide |-> TRUE, crlf |-> FALSE]}

AllStreams == BoundedSeq(Events, 3)
=============================================================================
