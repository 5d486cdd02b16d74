----------------------------- MODULE MCServing -----------------------------
(***************************************************************************)
(* Serving for TLC: two clients, and a file that is right or wrong in one  *)
(* place.                                                                  *)
(***************************************************************************)
EXTENDS Serving

CONSTANTS c1, c2

MCFactories ==
    [logging |-> "pre_request",
     request_text_modifier |-> "pre_request",
     response_text_modifier |-> "post_response",
     stream_text_modifier |-> "stream_event",
     guard |-> "pre_request",
     auditor |-> "error",
     idle |-> "none"]

Backend(name, protocol) ==
    [name |-> name, protocol |-> protocol, baseURL |-> "plain", mode |-> "",
     value |-> "${SET}", header |-> ""]
RouteTo(name, prefix, backend) ==
    [name |-> name, priority |-> 1, protocol |-> "openai", prefix |-> prefix,
     kinds |-> {"chat"}, backend |-> backend]
Hook(name, type, stage) ==
    [name |-> name, type |-> type, stage |-> stage, enabled |-> TRUE, phase |-> ""]

Chat == <<"v1", "chat/completions">>
Namespaced == <<"openai">> \o Chat

Good == [backends |-> <<Backend("x", "openai"), Backend("y", "anthropic")>>,
         routes |-> <<RouteTo("r", Chat, "x")>>,
         hooks |-> <<>>]

Guard(stage) == Hook("guard", "guard", stage)
Auditor(stage) == Hook("auditor", "auditor", stage)
HookLists ==
    {<<>>, <<Guard("")>>, <<Auditor("error")>>, <<Guard("pre_request"), Auditor("")>>,
     <<Hook("log", "logging", ""), Guard(""),
       [Hook("add", "header_modifier", "") EXCEPT !.phase = "response"],
       [Hook("off", "unknown", "") EXCEPT !.enabled = FALSE],
       Hook("say", "response_text_modifier", "post_response"),
       Auditor(""),
       Hook("cut", "stream_text_modifier", "stream_event"),
       Hook("hide", "request_text_modifier", "pre_request")>>}

GoodConfigs == {[Good EXCEPT !.hooks = hooks] : hooks \in HookLists}

BadConfigs ==
    {[Good EXCEPT !.backends[1].name = n] : n \in {"", "y"}}
    \cup {[Good EXCEPT !.backends[1].protocol = p] : p \in {"", "other"}}
    \cup {[Good EXCEPT !.backends[1].baseURL = v] : v \in {"", "${UNSET}"}}
    \cup {[Good EXCEPT !.backends[1].mode = "other"],
          [Good EXCEPT !.backends[1].value = "${UNSET}"],
          [Good EXCEPT !.backends[1].header = "${UNSET}"],
          [Good EXCEPT !.routes[1].name = ""],
          [Good EXCEPT !.routes[1].prefix = <<>>],
          [Good EXCEPT !.routes[1].protocol = "other"],
          [Good EXCEPT !.routes[1].protocol = "anthropic",
                       !.routes[1].kinds = {"completion"}],
          [Good EXCEPT !.routes = <<RouteTo("r", Chat, "x"), RouteTo("r", Chat, "x")>>],
          [Good EXCEPT !.routes = <<RouteTo("r", Chat, "x"), RouteTo("q", Chat, "y")>>]}
    \cup {[Good EXCEPT !.routes[1].backend = b] : b \in {"", "z"}}
    \cup {[Good EXCEPT !.hooks = <<h>>] :
             h \in {Hook("", "logging", ""), Hook("h", "", ""),
                    Hook("h", "unknown", ""), Hook("h", "idle", ""),
                    Hook("h", "logging", "unknown"), Hook("h", "logging", "error")}}

MCConfigs == GoodConfigs \cup BadConfigs
MCPaths == {Chat, <<"health">>, <<"v1", "other">>}
MCHookErrors == {"fresh", "statusless", "plain", "stop"}

NamespacedConfigs == {[Good EXCEPT !.routes[1].prefix = Namespaced]}
NamespacedPaths == {Namespaced}

=============================================================================
