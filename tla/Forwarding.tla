----------------------------- MODULE Forwarding -----------------------------
(***************************************************************************)
(* The headers of one request and its answer, through the gateway:         *)
(* ServeHTTP and Handle (internal/app), the header_modifier hooks          *)
(* (internal/hooks/builtin.go) and the backend's request                   *)
(* (internal/backend).  A streamed answer is left out: its headers are     *)
(* fixed.                                                                  *)
(***************************************************************************)
EXTENDS Headers

CONSTANTS
    Tokens,         \* the words of headers' values
    Backends,       \* protocol, default headers and auth of a backend
    ClientHeaders,  \* header maps a client may send
    ReplyHeaders,   \* header maps a backend may answer with
    RequestHooks,   \* sequences of header modifiers, as configured
    ResponseHooks

IsHeaderMap(h) ==
    /\ DOMAIN h \subseteq Names
    /\ \A k \in DOMAIN h : h[k] \in Seq(Seq(Tokens)) /\ h[k] # <<>>

(* Names with one value each.                                              *)
IsFields(f) == DOMAIN f \subseteq Names /\ \A k \in DOMAIN f : f[k] \in Seq(Tokens)

ASSUME ForwardingAssumption ==
    /\ {"json", "generated", "Bearer"} \subseteq Tokens
    /\ \A b \in Backends :
          /\ b.protocol \in Protocols /\ IsFields(b.defaults)
          /\ b.auth \in [mode: AuthModes, header: Names, value: Seq(Tokens)]
    /\ \A h \in ClientHeaders \cup ReplyHeaders : IsHeaderMap(h)
    /\ \A hs \in RequestHooks \cup ResponseHooks :
          /\ hs \in Seq(Range(hs))
          /\ \A n \in DOMAIN hs : IsFields(hs[n].add) /\ hs[n].remove \subseteq Names

VARIABLES
    backend,
    passthrough,    \* an embedding or model_list endpoint (OpenAI's only)
    client,         \* what the client sent
    hooks,          \* the hooks still to run
    phase,
    headers,        \* NormalizedRequest.Headers, NormalizedResponse.Headers
    sent,           \* the headers of the backend's request
    answer          \* the ResponseWriter's headers

vars == <<backend, passthrough, client, hooks, phase, headers, sent, answer>>

(* The id generated for a client that sends none.                          *)
Generated == <<"generated">>

NormalizeRequestID(h) ==
    IF Get(h, "X-Request-Id") # NoValue THEN Get(h, "X-Request-Id")
    ELSE Generated

(* The request id, and the trace header if the client sent one.            *)
Echoed(h) ==
    LET id == One("X-Request-Id", NormalizeRequestID(h))
    IN  IF Get(h, "Traceparent") = NoValue THEN id
        ELSE [k \in {"X-Request-Id", "Traceparent"} |->
                 IF k = "Traceparent" THEN Get(h, k) ELSE id[k]]

(* header_modifier: what it adds, then what it removes.                    *)
Modify(h, hook) == Del(Set(h, hook.add), hook.remove)

-----------------------------------------------------------------------------
Init ==
    /\ backend \in Backends
    /\ passthrough \in BOOLEAN
    /\ passthrough => backend.protocol = "openai"
    /\ client \in ClientHeaders
    /\ hooks = <<>>
    /\ phase = "arriving"
    /\ headers = NoHeaders
    /\ sent = NoHeaders
    /\ answer = NoHeaders

Accept ==
    /\ phase = "arriving"
    /\ answer' = Set(answer, Echoed(client))
    /\ headers' = SanitizeClientHeaders(client)
    /\ hooks' \in RequestHooks
    /\ phase' = "request"
    /\ UNCHANGED <<backend, passthrough, client, sent>>

RunHook ==
    /\ phase \in {"request", "response"}
    /\ hooks # <<>>
    /\ headers' = Modify(headers, Head(hooks))
    /\ hooks' = Tail(hooks)
    /\ UNCHANGED <<backend, passthrough, client, phase, sent, answer>>

Send ==
    /\ phase = "request"
    /\ hooks = <<>>
    /\ sent' = BackendHeaders(backend, headers)
    /\ phase' = "sent"
    /\ UNCHANGED <<backend, passthrough, client, hooks, headers, answer>>

(* The decoded answer of a translated endpoint has no headers; that of a   *)
(* passthrough endpoint keeps the backend's.                               *)
ReplyOK ==
    /\ phase = "sent"
    /\ \E reply \in ReplyHeaders :
          headers' = IF passthrough THEN reply ELSE NoHeaders
    /\ hooks' \in ResponseHooks
    /\ phase' = "response"
    /\ UNCHANGED <<backend, passthrough, client, sent, answer>>

Json == One("Content-Type", <<<<"json">>>>)

(* An error answer is JSON; that of a passthrough endpoint keeps the rest  *)
(* of the backend's headers.                                               *)
ReplyError ==
    /\ phase = "sent"
    /\ \E reply \in ReplyHeaders :
          answer' = Add(answer, Add(IF passthrough
                                    THEN Del(reply, {"Content-Type"})
                                    ELSE NoHeaders, Json))
    /\ phase' = "answered"
    /\ UNCHANGED <<backend, passthrough, client, hooks, headers, sent>>

WriteOutboundResponse ==
    /\ phase = "response"
    /\ hooks = <<>>
    /\ answer' = Add(answer, IF passthrough THEN headers
                             ELSE Add(Del(headers, {"Content-Type"}), Json))
    /\ phase' = "answered"
    /\ UNCHANGED <<backend, passthrough, client, hooks, headers, sent>>

Answered == phase = "answered" /\ UNCHANGED vars

Next == Accept \/ RunHook \/ Send \/ ReplyOK \/ ReplyError
        \/ WriteOutboundResponse \/ Answered

Spec == Init /\ [][Next]_vars

-----------------------------------------------------------------------------
Phases == {"arriving", "request", "sent", "response", "answered"}

TypeOK ==
    /\ backend \in Backends
    /\ passthrough \in BOOLEAN
    /\ client \in ClientHeaders
    /\ phase \in Phases
    /\ IsHeaderMap(headers)
    /\ IsHeaderMap(sent)
    /\ IsHeaderMap(answer)

IsSent == phase \in {"sent", "response", "answered"}

Words(h, k) == UNION {Range(h[k][n]) : n \in DOMAIN h[k]}

AuthNames == {"Authorization", "X-Api-Key"}

(* The words of a client's own credential: its Authorization and API key.  *)
KeyWords(h) == (UNION {Words(h, k) : k \in DOMAIN h \cap AuthNames}) \ {"Bearer"}

ClientKeys == KeyWords(client)

KeysOf(auth) == Range(auth.value) \ {"Bearer"}

SentWords == UNION {Words(sent, k) : k \in DOMAIN sent}

(* What the gateway's operator writes into headers beside the credential.  *)
WordsOf(fields) == UNION {Range(fields[k]) : k \in DOMAIN fields}
HookWords == UNION {UNION {WordsOf(hs[n].add) : n \in DOMAIN hs} : hs \in RequestHooks}
OperatorWords(b) == {"json"} \cup WordsOf(b.defaults) \cup HookWords

(* Keys can be told from everything else: a client has its own in its      *)
(* credential only, and so has the gateway.                                *)
ASSUME KeysAreOwn ==
    \A h \in ClientHeaders, b \in Backends :
       /\ \A k \in DOMAIN h \ AuthNames : KeyWords(h) \cap Words(h, k) = {}
       /\ KeyWords(h) \cap (OperatorWords(b) \cup Range(b.auth.value)) = {}
       /\ \A k \in DOMAIN h : KeysOf(b.auth) \cap Words(h, k) = {}
       /\ KeysOf(b.auth) \cap OperatorWords(b) = {}

(* A header that is sent says something; a Bearer key, and a configured    *)
(* one, is one word; hooks leave credentials alone.                        *)
IsBearer(value) == Len(value) = 2 /\ value[1] = "Bearer" /\ value[2] # "Bearer"

ASSUME KeysHaveForm ==
    /\ \A h \in ClientHeaders :
          /\ \A k \in DOMAIN h \cap Propagated : Get(h, k) # NoValue
          /\ \A k \in DOMAIN h \cap AuthNames :
                Get(h, k) # NoValue /\ Words(h, k) \ {"Bearer"} # {}
          /\ "Authorization" \in DOMAIN h /\ Get(h, "Authorization")[1] = "Bearer" =>
                IsBearer(Get(h, "Authorization"))
    /\ \A b \in Backends :
          \/ IsBearer(b.auth.value)
          \/ Len(b.auth.value) = 1 /\ b.auth.value[1] # "Bearer"
    /\ \A hs \in RequestHooks : \A n \in DOMAIN hs :
          AuthNames \cap (DOMAIN hs[n].add \cup hs[n].remove) = {}

(* "The backend always uses the credential you configure" (inject): no     *)
(* part of the client's own credential reaches the backend, in any header; *)
(* "there is no fallback" (passthrough): no part of the configured one     *)
(* does.  Several functions touch the same headers, and each could let one *)
(* through.                                                                *)
KeysStayApart ==
    IsSent => /\ backend.auth.mode = "inject" => ClientKeys \cap SentWords = {}
              /\ backend.auth.mode = "passthrough" =>
                    KeysOf(backend.auth) \cap SentWords = {}

(* A Bearer key of the client that the mode admits, and a configured key   *)
(* that it does not override, reach the backend in the one header and the  *)
(* form of the backend's protocol ("handles the conversion in both         *)
(* directions", authentication.md), whichever protocol they were in.       *)
InForm(key) ==
    IF backend.protocol = "openai"
    THEN Get(sent, "Authorization") = <<"Bearer", key>>
    ELSE Get(sent, "X-Api-Key") = <<key>>

UsesClientKey ==
    /\ backend.auth.mode # "inject"
    /\ "Authorization" \in DOMAIN client
    /\ Get(client, "Authorization")[1] = "Bearer"

UsesConfiguredKey ==
    \/ backend.auth.mode = "inject"
    \/ /\ backend.auth.mode = "prefer_client"
       /\ ClientKeys = {}

CredentialFits ==
    IsSent => /\ UsesClientKey => \E key \in ClientKeys : InForm(key)
              /\ UsesConfiguredKey => \E key \in KeysOf(backend.auth) : InForm(key)

(* A header the client sends to trace its request reaches the backend, and *)
(* comes back to the client, whatever the backend's defaults say, unless a *)
(* hook replaces it on the way (Touched).                                  *)
Touched(k) ==
    \E hs \in RequestHooks : \E n \in DOMAIN hs :
       k \in DOMAIN hs[n].add \cup hs[n].remove

TraceSurvives ==
    \A k \in Propagated \cap DOMAIN client :
       /\ IsSent /\ ~Touched(k) => Get(sent, k) = Get(client, k)
       /\ phase # "arriving" => Get(answer, k) = Get(client, k)

-----------------------------------------------------------------------------
(* A client may send its key as X-Api-Key, to a backend of either protocol *)
(* (authentication.md, "Going the other way").                             *)
ApiKeyIsUsed ==
    IsSent /\ backend.auth.mode # "inject" /\ DOMAIN client = {"X-Api-Key"} =>
       \E key \in ClientKeys : InForm(key)

=============================================================================
