--------------------------- MODULE MCStreamProxy ---------------------------
(* StreamProxy for TLC: the clients, and the quirks of the backends that   *)
(* serve them.                                                             *)
EXTENDS StreamProxy

Both == {"openai", "anthropic"}
OpenAIOnly == {"openai"}
AnthropicOnly == {"anthropic"}

(* Quirks that every client is served well in spite of, and those that an  *)
(* OpenAI client is.                                                       *)
HandledQuirks ==
    [c \in Clients |->
        {"other_reason", "no_function"} \cup
        (IF c = "openai" THEN {"text_after_tool", "interleaved_tools"} ELSE {})]

(* One quirk each, for the runs that show what it does.                    *)
Only(quirk) == [c \in Clients |-> {quirk}]
UpstreamErrorQuirk == Only("upstream_error")

=============================================================================
