------------------------------ MODULE Gateway ------------------------------
(***************************************************************************)
(* One request through the gateway: ServeHTTP, Handle and what they call   *)
(* (internal/app), the hook manager (internal/hooks) and the exchange with *)
(* a backend (internal/backend).  A handler keeps nothing from one request *)
(* to the next and shares nothing it writes, so one request is enough.     *)
(*                                                                         *)
(* Hooks are user code that passes or refuses; a stream, whose inside is   *)
(* StreamProxy's, ends well or fails.                                      *)
(***************************************************************************)
EXTENDS Pipeline, Integers

CONSTANTS
    MaxHooks,           \* hooks of each stage
    BackendStatuses,    \* statuses a backend may answer with
    HookStatuses        \* statuses a hook may refuse with, or put on an error

ASSUME GatewayAssumption ==
    /\ MaxHooks \in Nat
    /\ BackendStatuses \subseteq 200..599
    /\ HookStatuses \subseteq 400..599

(* The protocols of the route and of its backend, and the hooks.           *)
Setups == [client: Protocols, backend: Protocols,
           pre: 0..MaxHooks, post: 0..MaxHooks, errs: 0..MaxHooks]

NoKind == ""
Kinds == EndpointKinds \cup {NoKind}

(* Whether a route takes the path, and the kind the router gives it; a     *)
(* body that is no request of the protocol, or that has tool arguments     *)
(* that are not JSON; and whether a stream is asked for.                   *)
Requests == [routed: BOOLEAN, kind: Kinds, method: {"GET", "POST"},
             body: {"good", "bad", "bad arguments", "large"}, stream: BOOLEAN]

VARIABLES
    setup,
    request,
    phase,      \* how far the handler is
    passed,     \* hooks that have let the request, or its answer, pass
    vetoed,     \* one has not
    sends,      \* requests sent to the backend
    reply,      \* the status it answered with
    body,       \* the body of its answer: none, open or closed
    started,    \* an event stream has begun
    failed,     \* the status of the error being answered
    heard,      \* error hooks that have run
    answer,     \* what was written to the client: bare if without its body
    gone        \* the client has closed its connection

input == <<setup, request>>
verdict == <<passed, vetoed>>
exchange == <<sends, reply, body>>
error == <<failed, heard>>
output == <<started, answer>>
vars == <<input, phase, verdict, exchange, error, output, gone>>

NoStatus == 0
NoAnswer == [status |-> NoStatus, error |-> FALSE, bare |-> TRUE]

(* writeOutboundResponse: net/http writes no body after some statuses, and *)
(* the error it returns for that is not looked at.                         *)
Bodyless == {204, 304}

Written(status, isError) ==
    [status |-> status, error |-> isError, bare |-> status \in Bodyless]

-----------------------------------------------------------------------------
IsPassthrough == request.kind \in {"embedding", "model_list"}

IsStreamed == ~IsPassthrough /\ request.stream

(* The kind a decoder gives the request: chat unless it is a completion.   *)
DecodedKind == IF request.kind = "completion" THEN "completion" ELSE "chat"

Supports(protocol, kind) == protocol = "openai" \/ kind = "chat"

Method(kind) == IF kind = "model_list" THEN "GET" ELSE "POST"

(* The checks Handle makes before any hook runs, in order.                 *)
Refusal ==
    CASE ~request.routed -> 404
      [] request.routed /\ request.method # Method(request.kind) -> 405
      [] request.routed /\ request.method = Method(request.kind) ->
            IF IsPassthrough
            THEN IF setup.client # setup.backend THEN 400 ELSE NoStatus
            ELSE IF request.body = "bad" THEN 400
            ELSE IF ~Supports(setup.backend, DecodedKind) THEN 400
            ELSE NoStatus

-----------------------------------------------------------------------------
Init ==
    /\ setup \in Setups
    /\ request \in Requests
    /\ ~request.routed => request.kind = NoKind
    /\ setup.client = "anthropic" => request.kind \in {"chat", NoKind}
    /\ phase = "body"
    /\ passed = 0
    /\ vetoed = FALSE
    /\ sends = 0
    /\ reply = NoStatus
    /\ body = "none"
    /\ started = FALSE
    /\ failed = NoStatus
    /\ heard = 0
    /\ answer = NoAnswer
    /\ gone = FALSE

Go(next) == phase' = next

(* HandleError begins: the error hooks are next.                           *)
Fail(status) == Go("failing") /\ failed' = status
FailOnly(status) ==
    Fail(status) /\ UNCHANGED <<input, verdict, exchange, heard, output, gone>>

(* The handlers of streams and of passthrough endpoints close the body     *)
(* they hold when they return; DoHTTP closes its own.                      *)
Released ==
    IF body = "open" /\ (started \/ IsPassthrough) THEN "closed" ELSE body

-----------------------------------------------------------------------------
BodyUnreadable ==
    /\ phase = "body"
    /\ FailOnly(400)

BodyTooLarge ==
    /\ phase = "body"
    /\ request.body = "large"
    /\ FailOnly(413)

Refuse ==
    /\ phase = "body"
    /\ request.body # "large"
    /\ Refusal # NoStatus
    /\ FailOnly(Refusal)

Accept ==
    /\ phase = "body"
    /\ request.body # "large"
    /\ Refusal = NoStatus
    /\ Go("pre")
    /\ UNCHANGED <<input, verdict, exchange, error, output, gone>>

(* A hook refuses: with a status of its own, or 500.                       *)
Veto ==
    /\ vetoed' = TRUE
    /\ \E s \in HookStatuses \cup {500} : Fail(s)

PreRequestHook ==
    /\ phase = "pre"
    /\ passed < setup.pre
    /\ \/ passed' = passed + 1 /\ UNCHANGED <<phase, vetoed, failed>>
       \/ Veto /\ UNCHANGED passed
    /\ UNCHANGED <<input, exchange, heard, output, gone>>

IsUnencodable ==
    /\ ~IsPassthrough
    /\ request.body = "bad arguments"
    /\ setup.backend = "anthropic"

Unencodable ==
    /\ phase = "pre"
    /\ passed = setup.pre
    /\ IsUnencodable
    /\ FailOnly(400)

(* Variant: the hooks' verdict is not awaited.                             *)
SendUnchecked ==
    /\ phase = "pre"
    /\ ~IsUnencodable
    /\ sends' = sends + 1
    /\ Go("waiting")
    /\ UNCHANGED <<input, verdict, reply, body, error, output, gone>>

Send ==
    /\ phase = "pre"
    /\ passed = setup.pre
    /\ ~IsUnencodable
    /\ sends' = sends + 1
    /\ Go("waiting")
    /\ passed' = 0
    /\ UNCHANGED <<input, vetoed, reply, body, error, output, gone>>

(* Variant: a request that got no answer is sent again.                    *)
BackendFailsRetrying ==
    /\ phase = "waiting"
    /\ sends' = sends + 1
    /\ UNCHANGED <<input, phase, verdict, reply, body, error, output, gone>>

(* No connection, no header within the transport's timeout, or a client    *)
(* that is gone: client.Do returns an error.                               *)
BackendFails ==
    /\ phase = "waiting"
    /\ FailOnly(500)

IsError(status) == IF IsPassthrough THEN status >= 400 ELSE status # 200

(* Variant: every refusal is a bad gateway.                                *)
BackendRefusesAs502 ==
    /\ phase = "waiting"
    /\ \E s \in BackendStatuses : IsError(s) /\ reply' = s
    /\ Fail(502)
    /\ body' = "closed"
    /\ UNCHANGED <<input, verdict, sends, heard, output, gone>>

(* Variant: the body of an error answer to a stream is left open.          *)
BackendRefusesLeavingBody ==
    /\ phase = "waiting"
    /\ \E s \in BackendStatuses : IsError(s) /\ reply' = s /\ Fail(s)
    /\ body' = IF IsStreamed THEN "open" ELSE "closed"
    /\ UNCHANGED <<input, verdict, sends, heard, output, gone>>

BackendRefuses ==
    /\ phase = "waiting"
    /\ \E s \in BackendStatuses : IsError(s) /\ reply' = s /\ Fail(s)
    /\ body' = "closed"
    /\ UNCHANGED <<input, verdict, sends, heard, output, gone>>

BackendAccepts ==
    /\ phase = "waiting"
    /\ \E s \in BackendStatuses : ~IsError(s) /\ reply' = s
    /\ body' = "open"
    /\ started' = IsStreamed
    /\ Go(IF IsStreamed THEN "streaming" ELSE "receiving")
    /\ UNCHANGED <<input, verdict, sends, error, answer, gone>>

-----------------------------------------------------------------------------
(* DoHTTP closes the body when it has read it; a passthrough handler keeps *)
(* it until it returns.                                                    *)
ReceiveBody ==
    /\ phase = "receiving"
    /\ Go("post")
    /\ body' = IF IsPassthrough THEN body ELSE "closed"
    /\ UNCHANGED <<input, verdict, sends, reply, error, output, gone>>

(* Variant: the backend's request is made without the client's context.    *)
BodyBreaksWithoutContext ==
    /\ phase = "receiving"
    /\ ~gone
    /\ Fail(IF IsPassthrough THEN 502 ELSE 500)
    /\ body' = "closed"
    /\ UNCHANGED <<input, verdict, sends, reply, heard, output, gone>>

(* The body breaks off (always, in the end, if the client is gone).        *)
BodyBreaks ==
    /\ phase = "receiving"
    /\ Fail(IF IsPassthrough THEN 502 ELSE 500)
    /\ body' = "closed"
    /\ UNCHANGED <<input, verdict, sends, reply, heard, output, gone>>

ReplyTooLarge ==
    /\ phase = "receiving"
    /\ Fail(502)
    /\ body' = "closed"
    /\ UNCHANGED <<input, verdict, sends, reply, heard, output, gone>>

ReplyUndecodable ==
    /\ phase = "receiving"
    /\ ~IsPassthrough
    /\ Fail(500)
    /\ body' = "closed"
    /\ UNCHANGED <<input, verdict, sends, reply, heard, output, gone>>

PostResponseHook ==
    /\ phase = "post"
    /\ passed < setup.post
    /\ \/ passed' = passed + 1 /\ UNCHANGED <<phase, vetoed, body, failed>>
       \/ Veto /\ body' = Released /\ UNCHANGED passed
    /\ UNCHANGED <<input, sends, reply, heard, output, gone>>

(* Tool arguments from the backend that are not JSON cannot be written for *)
(* an Anthropic client.                                                    *)
ReplyUnencodable ==
    /\ phase = "post"
    /\ passed = setup.post
    /\ ~IsPassthrough
    /\ setup.client = "anthropic"
    /\ FailOnly(400)

Respond ==
    /\ phase = "post"
    /\ passed = setup.post
    /\ Go("returned")
    /\ answer' = Written(IF IsPassthrough THEN reply ELSE 200, FALSE)
    /\ body' = Released
    /\ UNCHANGED <<input, verdict, sends, reply, error, started, gone>>

-----------------------------------------------------------------------------
StreamEnds ==
    /\ phase = "streaming"
    /\ Go("returned")
    /\ answer' = Written(200, FALSE)
    /\ body' = "closed"
    /\ UNCHANGED <<input, verdict, sends, reply, error, started, gone>>

(* Variant: an error in a stream is written, and nobody else told.         *)
StreamFailsUnheard ==
    /\ phase = "streaming"
    /\ Go("returned")
    /\ answer' = Written(200, TRUE)
    /\ body' = "closed"
    /\ UNCHANGED <<input, verdict, sends, reply, error, started, gone>>

(* The backend's stream breaks, or the client's does, or a hook refuses an *)
(* event.                                                                  *)
StreamFails ==
    /\ phase = "streaming"
    /\ \/ Fail(500) /\ UNCHANGED vetoed
       \/ Veto
    /\ UNCHANGED <<input, passed, exchange, heard, output, gone>>

-----------------------------------------------------------------------------
(* An error hook passes the error on, perhaps with another status, or      *)
(* fails, and then the rest are skipped.                                   *)
ErrorHook ==
    /\ phase = "failing"
    /\ heard < setup.errs
    /\ heard' = heard + 1
    /\ \/ failed' \in {failed} \cup HookStatuses /\ UNCHANGED phase
       \/ Go("skipping") /\ UNCHANGED failed
    /\ UNCHANGED <<input, verdict, exchange, output, gone>>

HooksHaveHeard ==
    \/ phase = "skipping"
    \/ phase = "failing" /\ heard = setup.errs

(* The error response, or the error event if a stream has begun.           *)
RespondError ==
    /\ HooksHaveHeard
    /\ Go("returned")
    /\ answer' = Written(IF started THEN 200 ELSE failed, TRUE)
    /\ body' = Released
    /\ UNCHANGED <<input, verdict, sends, reply, error, started, gone>>

ClientLeaves ==
    /\ ~gone
    /\ phase # "returned"
    /\ gone' = TRUE
    /\ UNCHANGED <<input, phase, verdict, exchange, error, output>>

Returned == phase = "returned" /\ UNCHANGED vars

-----------------------------------------------------------------------------
ReadBody == BodyUnreadable \/ BodyTooLarge \/ Refuse \/ Accept
AwaitReply == BackendFails \/ BackendRefuses \/ BackendAccepts
Receive == ReceiveBody \/ BodyBreaks \/ ReplyTooLarge \/ ReplyUndecodable
RunHooks == PreRequestHook \/ PostResponseHook \/ ErrorHook
Proceed == Unencodable \/ Send \/ ReplyUnencodable \/ Respond \/ RespondError
Stream == StreamEnds \/ StreamFails

Next == ReadBody \/ RunHooks \/ Proceed \/ AwaitReply \/ Receive \/ Stream
        \/ ClientLeaves \/ Returned

Spec == Init /\ [][Next]_vars

(* Hooks return, and the transport gives up on a backend that is silent;   *)
(* nothing bounds the time a body or a stream may take, but the context of *)
(* a client that is gone ends both, and the reading of its own body.       *)
Cancelled == gone /\ (BodyUnreadable \/ BodyBreaks \/ StreamFails)

Fairness ==
    /\ WF_vars(RunHooks)
    /\ WF_vars(Proceed)
    /\ WF_vars(AwaitReply)
    /\ WF_vars(Cancelled)

FairSpec == Spec /\ Fairness

-----------------------------------------------------------------------------
Phases == {"body", "pre", "waiting", "receiving", "streaming", "post",
           "failing", "skipping", "returned"}

TypeOK ==
    /\ setup \in Setups
    /\ request \in Requests
    /\ phase \in Phases
    /\ passed \in 0..MaxHooks
    /\ vetoed \in BOOLEAN
    /\ sends \in 0..1
    /\ reply \in BackendStatuses \cup {NoStatus}
    /\ body \in {"none", "open", "closed"}
    /\ started \in BOOLEAN
    /\ failed \in {NoStatus} \cup 200..599
    /\ heard \in 0..MaxHooks
    /\ answer \in [status: {NoStatus} \cup 200..599, error: BOOLEAN, bare: BOOLEAN]
    /\ gone \in BOOLEAN

(* The gateway keeps Exchange's promise.  A stream has no hooks on its     *)
(* answer as a whole.                                                      *)
Before == IF sends = 0 THEN setup.pre - passed ELSE 0

After ==
    IF IsStreamed THEN 0
    ELSE IF sends = 0 THEN setup.post ELSE setup.post - passed

Outcome ==
    IF phase # "returned" THEN "pending"
    ELSE IF answer.error THEN "error" ELSE "success"

Promise ==
    INSTANCE Exchange WITH before <- Before, after <- After,
                           forwards <- sends, outcome <- Outcome

Promised == Promise!Spec

(* When the handler has returned, however it came to, the connection to    *)
(* the backend is free: nothing holds the body of an answer.               *)
BodyReleased == phase = "returned" => body # "open"

(* "error runs whenever an error occurs anywhere in the pipeline"          *)
(* (hooks.md), and only then: error hooks have run exactly when an error   *)
(* is what the client is answered, in a response or in a stream.           *)
ErrorHooksHear ==
    phase = "returned" /\ setup.errs > 0 => (answer.error <=> heard > 0)

(* A backend's error reaches the client with the backend's status, unless  *)
(* an error hook may have changed it; no later step covers it up.  It is   *)
(* told in the body, but for a status that can have none: of a 204, which  *)
(* is an error unless the endpoint is passed through, only the status is   *)
(* left.                                                                   *)
BackendErrorReachesClient ==
    phase = "returned" /\ reply # NoStatus /\ IsError(reply) /\ setup.errs = 0
      => answer = [status |-> reply, error |-> TRUE, bare |-> reply \in Bodyless]

(* Once the client is gone the handler returns.                            *)
HandlerReturns == gone ~> phase = "returned"

=============================================================================
