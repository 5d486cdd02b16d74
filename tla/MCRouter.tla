------------------------------ MODULE MCRouter ------------------------------
(* Router for TLC: up to three routes over one nest of prefixes.           *)
EXTENDS Router, TLC

CONSTANTS a, b, c

MCPrefixes == {<<"v1">>, <<"v1", "chat/completions">>, <<"v1", "messages">>}

OpenAIKinds == {{"chat"}, {"completion"}, {"chat", "completion"}, EndpointKinds}

MCRoutes ==
    [priority: {1, 2}, protocol: {"openai"}, prefix: MCPrefixes,
     kinds: OpenAIKinds]
    \cup
    [priority: {1, 2}, protocol: {"anthropic"}, prefix: MCPrefixes,
     kinds: {{"chat"}}]

MCConfigs == [{a, b, c} -> MCRoutes]

MCPaths == {<<"v1", "chat/completions">>, <<"v1", "completions">>,
            <<"v1", "messages">>, <<"v1", "models">>,
            <<"v1", "messages", "/">>, <<"v1", "other">>,
            <<"v1", "chat/completions", "other">>, <<"other">>}

Names == Permutations({a, b, c})

=============================================================================
