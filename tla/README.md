# InsightLayer in TLA+

InsightLayer is an HTTP gateway between LLM clients and LLM backends. A client
speaks the OpenAI or the Anthropic protocol, a backend either of them; the
gateway routes a request, runs hooks on it, sends it to a backend, translates
the answer, as one body or as a stream of events, and writes it to the client.

This directory holds its specifications. Everything is written from the Go code
under `src/internal` and `src/cmd`; comments name the functions. `PROJECT.json` lists the runs,
the source lines behind each definition, the variants that show each property
can fail, the findings, the hazards and the theorems.

## 1. Inventory

| Component | Source | State | Operations | Hard behaviour | What makes it correct |
|---|---|---|---|---|---|
| Stream proxy | `app/http_adapter.go`, `app/core.go`, `backend/backend.go` | both connections, the event queue, the encoder, the error being reported | read an event, run hooks, encode, write, report, close | either connection fails at any step; a write fails while an error is reported; a panic | the client gets a prefix of the answer, is told how it ended, in a well-formed stream; the handler returns and frees the connection |
| Stream codecs | `stream/openai.go`, `stream/anthropic.go` | `started`, `pending`; `blockIndex`, `hasTextBlock`, `hasToolBlock` | decode a chunk, encode an event | order of text and tool calls, several events in one chunk, unusual first and last chunks | nothing lost, repeated or given to another call |
| SSE framing | `stream/sse.go` | a scanner; a flusher | next event, write event | blocks without data, half an event at the end, lines over the limit, end of file against failure | an event is whole and has no earlier event's name, or is not delivered |
| Router | `router/router.go` | the sorted routes, constant once serving | New, Resolve | an unstable sort; ambiguity decided before a path is known | the best route serves; the sort's freedom is invisible |
| Request pipeline | `app/core.go`, `app/handler.go`, `app/http_adapter.go` | one request's progress | Handle, HandleError, BuildErrorResponse | early returns, three ways to answer, partial failure, cancellation | forwarded at most once, vetoes hold, errors heard once, bodies closed |
| Backend exchange | `backend/*` | a response body | Do, DoStream, RawProxy | timeouts, refusals, bodies that break or are too large | status passed on, body closed |
| Headers and credentials | `backend/backend.go`, `hooks/builtin.go` | header maps | sanitize, propagate, resolve, map | several functions write the same headers in turn | keys reach only whom they may, in the right form |
| Hook manager | `hooks/manager.go` | four lists of hooks | Add*, Run* | errors passed by pointer to error hooks | order, first failure ends a stage, errors stay with their request |
| Hook registry, built-ins | `hooks/registry.go`, `hooks/builtin.go` | factories | build, modify headers and text | which stages a hook runs at; replacements in the order of a map | each hook at its stages, in order; what is replaced is gone |
| Codecs | `protocol/*`, `pipeline/model.go` | none | decode, encode | what one protocol cannot say; results of tools; two copies of a response's text | a conversation, its tools and its answer survive translation |
| Configuration | `config/config.go`, `app/handler.go` | none | load, default, validate, build | what each of several checks leaves to another; unresolved variables | every route of a gateway that serves leads to a complete backend |
| Lifecycle | `cmd/insightlayer/main.go`, `httpserver/server.go` | server, signal, connections | load, listen, serve, shut down | a signal at any moment, a deadline against running requests, idle connections, panics | requests are cut only for cause; 0 means that none was |
| Observability, test kit | `observability/log.go`, `testkit/fixtures.go` | none | | | not modelled: no state |

How they meet: `main` builds a handler from the configuration and hands it to
`net/http`, which runs `ServeHTTP` in a goroutine per request. It calls
`Handle`, which asks the router, runs the hook manager and calls a backend, and
returns either a response or a stream still to be opened; `handleHTTPStream`
then reads events from the backend's decoder and hands them, after the stream
hooks, to the emitter, which owns the client's encoder. Goroutines share the
router, the backends and the hooks, which do not change while requests are
served, and the errors that hooks may return more than once.

So the models divide the system in two. Within one request (`StreamProxy`,
`SSE`, `Gateway`, `Forwarding`, `Translation`) what runs concurrently is the
handler, the backend's connection and the client's. Between requests (`Serving`)
it is several handlers, `main`, the listener and the signal; there a handler's
work is one step that may take any time, and its hooks and errors are in detail.

## 2. The modules

| Module | What it is |
|---|---|
| `Pipeline` | protocols and endpoint kinds |
| `StreamEvents` | the protocol-neutral events, the maps of stop reasons, and the message a reader of a stream puts together |
| `OpenAIStream`, `AnthropicStream` | each format: decoder, encoder, and what a client understands |
| `StreamBackend` | the streams backends send (external): a small state and the frames it may send next |
| `StreamProxy` | `handleHTTPStream`, `HandleStream`, `handleHTTPStreamError` between the two connections |
| `ClientStream` | abstract: what a streaming client is promised; `StreamProxy` implements it |
| `SSE` | `SSEReader.Next` line by line, against the lines of a backend |
| `FramePipe` | abstract: frames go in and come out; `SSE` implements it, and `StreamProxy` reads from one |
| `Routes`, `Router` | routes and requests as operators; the router from configuration to resolution |
| `Headers`, `Forwarding` | header maps and credentials as operators; the headers of one request and its answer |
| `Gateway` | `ServeHTTP` and `Handle` with every error path; a stream is one phase of it |
| `Exchange` | abstract: what the gateway promises for one request; `Gateway` implements it |
| `Conversation` | the neutral request and response (`pipeline/model.go`) |
| `OpenAICodec`, `AnthropicCodec` | what each codec makes of requests and responses, as operators |
| `TextHooks` | the text modifiers, and `syncResponseContent` |
| `Translation` | one exchange that is not streamed, from the client's body to its answer |
| `Startup` | expansion, defaults, validation, `BuildFromConfig` and `NewHandler`, as operators; it uses `Routes` |
| `Serving` | the process: `main`, the listener, the signal, and several clients' requests; it uses `Startup` and `Routes` |
| `MC*` | the values TLC gives the constants |
| `*Proofs` | theorems |

Operators called *variants* in a comment are plausible bugs of the definition
after them. Nothing uses them but the list of variants in `PROJECT.json`.

### 2.1 StreamProxy

`pc` is where `handleHTTPStream` is: `dial`, the loop (`stream`), `finish`
(WriteDone), `fail` and `report` (handleHTTPStreamError), `closed`, or
`panicked`. A chunk read from the backend is one step: `DoStreamSucceeds` and
`DoStreamFails` open the stream; `ReceiveEvents` queues what `DecodeChunk` or
`DecodeFrame` makes of a frame (`pending`); `HandleEvent` takes one event through
the hooks and the encoder into `out`; `WriteFrame` writes one frame of it. Between any two of
them the backend may cut (`BackendCuts`) or close (`BackendCloses`) its connection and the client
may leave (`ClientLeaves`), which the handler learns by a failing write or a
cancelled context (`NoticeClientGone`). A first write to a departed client still
succeeds, since Flush reports no error.

`said` and `heard` are messages: what a direct client of the backend would have
understood, and what the client has. Properties compare the two. Text is a
number per piece, so that a lost, repeated, reordered or misattributed piece
shows; token counts, ids, names and models are left out, as are entries of tool
calls that say nothing. `QuirksFor` names, for each client protocol, what the
servers behind it send besides the usual. The run `stream` gives both clients
reasons without a counterpart and chunks that make the decoder panic, and an
OpenAI client also text after tool calls and arguments of two calls mixed; the
quirks the code does not handle are listed under the disagreements below. A panic is
recovered by `net/http`, which closes the client's connection, while the deferred
`Close` frees the backend's.

### 2.2 SSE and FramePipe

A backend appends lines (`SendLine`) to `sent` and may close or drop its
connection at any time (`GoDown`); a line is a name, a data line, a blank one, one
over the scanner's limit, or anything else. `Next` is several steps, one for each
line it scans: `mark` is where the call began, `name` and `data` are its locals, and
`delivered` remembers which lines each event was made of, so that the properties
can ask whether these are the lines they ought to be. `FramePipe` counts frames
only: one goes in when the blank line is sent that ends a block with data, comes
out once, in order, and the end of the pipe is an end of file, a failure, or half
a frame. The refinement mapping computes these counts from `sent`.

### 2.3 Gateway and Exchange

`phase` follows one request: `body`, `pre` (hooks), `waiting`, `receiving` or
`streaming`, `post`, `failing` and `skipping` (error hooks), `returned`. `passed`
counts the hooks that have passed it, `sends` the requests to the backend.
`request.body` abstracts the body to good, not decodable, with tool arguments
that are not JSON, and too large. Hooks return: they pass, or refuse with a
status. Reading, decoding and the checks before the hooks take no time of their
own and are one step (`Refusal` has them in the code's order).

`Exchange` says less: hooks still to pass before and after, one forward, one
outcome. `Before`, `After` and `Outcome` in `Gateway` are the refinement mapping.

Left out: that Go's transport may itself repeat a request which was never
written or that is a GET; `ReadTimeout`, which ends the reading of a body as the
client's leaving does; `backends.Get` failing, which New and validation exclude;
`http.NewRequest` failing on a malformed base URL.

### 2.4 Router

`New` is nondeterministic in `Orders`: `sort.Slice` is not stable, so any order
without inversions may result (its present implementation is stable for a few
routes; nothing promises so). A path is the sequence of its segments. Strings
are compared by segments, which is exact for prefixes that end at a slash.

### 2.5 Headers and Forwarding

`BackendHeaders` is `buildRequest` of both backends and `DoRawProxy`, which agree
line by line on headers. A value is the sequence of its words, so that "Bearer
key" and "key" differ as the code sees it. `Tracestate` behaves as `Traceparent`
and is left out. The header modifiers are those of `builtin.go`: each is a set of headers to add
and one to remove. Header names are in canonical form, as `net/http` delivers them;
the length and encoding headers `errHeaders` drops are not among them.

### 2.6 Translation

An exchange (`Exchanges`) is a client's body, a backend's answer, their protocols
and the hooks. One action each decodes the body, runs a hook, encodes for the
backend, decodes the answer, runs a hook, reconciles the two copies of the text
(`Sync`) and encodes for the client; what cannot be said is refused (`RefuseRequest`,
`RefuseReply`). A text is a sequence of symbols, so that a modifier can find its
words within others and at borders; a `Symbol` is a word the code knows, and a
reason to stop is one of the protocols' words or another. A modifier's map is a
finite set of pairs (`Modifications`), and each range over it takes an order of its
own. What folds over messages (`Turns`, `EditText`) is a recursive function. The properties do not use the codecs: `ConversationOf` and
`AnswersOf` read the bodies of both protocols as the documentation of their
owners does, by turns.

Left out: names, models, ids, token counts, `top_p` and `stop`, and what is no
JSON of the protocol's at all (`Gateway` has a body that does not decode).

### 2.7 Startup and Serving

`main` is a program counter from `load` to `exited`. A configuration is typed by
`Configuration`: a value is absent, plain, or a variable that is set or not.
`Loaded` is expansion and defaults, `IsValid` is `validate`, `CanHandle` and
`NewHandler` are the constructors' refusals and what they build. The order of
validation is lost, since what is wrong is only logged.

Each client has one connection, in the states `net/http` gives it (`stale` is one
on which no request has come for five seconds, which Shutdown treats as idle),
and one goroutine while a request is on it. `errors` is the heap of
PipelineErrors: a goroutine allocates its own, at its own address, or returns the
value a hook keeps, at `SharedError`; error hooks write to that address. What `Gateway`
and `StreamProxy` say of the work between the hooks and the answer is one step
here, which may never come.

Left out: connections beyond one per client, which share nothing more, HTTP/2,
and `ReadTimeout` and `IdleTimeout`, which close connections as `Close` does.

## 3. The runs

Passing:

- `stream`: four pairs of protocols, up to 3 pieces of text or arguments, 2 tool
  calls, 3 blocks. Two calls make every index question appear, three pieces give
  text before a call and arguments for both; a longer answer repeats the same
  encoder states (`blockIndex` only grows).
  It shows that the client hears a prefix of the answer (`Transparent`), all of it
  and the reason if it is told the stream ended (`CompleteAtEnd`), never a good end
  for a stream that had none (`UnfinishedIsNotEnded`), always an end
  (`NeverSilent`); that error hooks run once (`ErrorHooksOnce`); that the
  stream is one `ClientStream` allows (`KeepsClientStream`); and that the handler
  returns and frees the backend's connection (`HandlerReturns`).
- `sse`: every stream of up to six lines, which is two whole events with a name each,
  or one with a half after it and a block without data between. It shows that events are whole and none
  is lost (`WholeEvents`), that the name of an event is the last one sent since the event
  before it, its own block's or one that a block without data has left, and never an
  earlier event's (`NamesAreLatest`), and that the reader is a `FramePipe`, also in time:
  what is in comes out.
- `router`: all 27,000 sets of three routes (up to renaming) from 30, two
  priorities, three nested prefixes; eight paths. Three routes are the fewest in
  which one can be skipped between two others.
- `forwarding`: three modes, both protocols and forms of the configured key, five
  ways a client sends a key or none, with and without trace headers, and hooks
  that add and remove.
- `gateway`: two hooks of each stage (one to pass and one to refuse), every
  endpoint kind, method, body, both protocols on both sides, and backends that
  answer with 200, with another success and with an error. It checks that
  `Gateway` implements `Exchange`, that bodies are released, that error hooks and
  client agree on whether there was an error, that a backend's status is not
  covered up, and that the handler returns once the client is gone.

- `translation`: conversations of up to three segments out of eight (OpenAI) or seven
  (Anthropic), among them calls and results in and out of order, two calls in one
  message, results without a call, arguments that are no JSON and calls without any; every limit,
  set of tools and choice; every answer; text modifiers with up to two
  replacements, and hooks that edit one copy of a response. Three segments put any
  two kinds of message beside each other and a third on either side. Every body
  meets one answer and every answer one body: between the two there is no state
  but the mode of the exchange.
  It shows that the backend is asked what the client asked (`ConversationSurvives`)
  in a form it accepts (`TurnsStayValid`), that the client gets the backend's answer
  (`AnswerSurvives`), that only what cannot be said is refused (`RefusedForCause`),
  that what is to be replaced is gone wherever it was (`SecretsStay`), and that both
  copies of a response agree and edits of one arrive (`Mirrored`, `NotesArrive`).
- `serving`: five configurations that are right and 23 that are wrong in one place;
  two clients with two requests each. Two clients are enough for one to fail beside
  another, two requests for a connection to be reused or closed when it falls idle.
  It shows that no file is served whose routes do not lead to a complete backend
  (`RoutesLead`), that hooks run where and in the order they were configured
  (`HooksInOrder`), that clients are told their own errors (`ErrorsStayApart`), that
  requests are cut only for cause (`CutForCause`) and never by an exit with 0
  (`CleanExit`), and that a signal ends the process (`SignalEnds`).

Violated, each by what the code does against a sentence of the documentation
(`findings` in `PROJECT.json` quotes both):

- `stream_upstream_error`: a backend's own error in mid-stream ends as a success.
- `forwarding_api_key`: a key sent as `X-Api-Key` is dropped before it is looked for.
- `translation_parameters`: `temperature` does not reach an Anthropic backend; nor
  do `top_p` and `stop`, nor any of them from an Anthropic client.
- `translation_preamble`: a replacement for the empty text is not put before a system
  prompt but between all its characters.
- `serving_namespaced`: a route outside `/v1/` is never reached, though `routing.md` and
  `config.example.yaml` have such routes.

### Other disagreements

Met while modelling, without a run of their own.

Streams. Each of these is a quirk of `StreamBackend`; put into `QuirksFor` for the
clients named, it violates the invariant named:

- `text_after_tool` (Anthropic client, `KeepsClientStream`): text after a tool call
  opens a block at an index that is open.
- `interleaved_tools` (Anthropic client, `Transparent`): arguments of one tool call
  arrive in another.
- `args_with_start` (`Transparent`): arguments in the chunk that announces the call
  are lost.
- `completions` (`CompleteAtEnd`): a streamed legacy completion arrives without text.
- `clean_cut` (`UnfinishedIsNotEnded`): a connection closed early in good order is a
  good end.
- `finish_first` (`NeverSilent`) and `finish_with_text` (`CompleteAtEnd`): what comes in
  one chunk with the reason is lost, or the reason is.
- `no_function`: an announcement without a function object panics; the client
  sees its connection close, and nothing else goes wrong.
- `SSEReader` takes `data: x` only, and drops `data:x`, which the format allows.
- `SSEReader` keeps the name of a block without data for the next block (`sse.go` 42),
  where the format drops it with the block.

Requests and answers:

- Of several OpenAI system messages the last one counts; OpenAI keeps all.
- An OpenAI `stop` that is a string, or a `content` that is an array, is answered 400.
- Arguments of a tool call that are empty are refused toward Anthropic with 400, also
  when it was the backend that sent them. A `tool_use` without `input` is such a call
  (`anthropic/codec.go` 147, 366), so an Anthropic client and backend cannot pass it on.
- A prompt that is an empty array is forwarded as no prompt (`completion.go` 93-103,
  120-124).
- An Anthropic client is told `end_turn` of an answer with calls that ended with `stop`;
  an OpenAI client is told `tool_calls` (`AsClientIsTold`).
- A tool result made of blocks empties the whole user message; a user message of
  images only is dropped.
- Modifiers do not see a prompt of tokens, nor the arguments of tool calls.
- A hook's edit of `Content` is lost when another hook edits a choice.
- An empty answer becomes an Anthropic text block without `text`; an Anthropic
  request without `max_tokens` is forwarded with 0; of several choices of a chat
  answer the first is kept.
- A finish reason without a counterpart keeps its word in the other protocol.
- An Anthropic `tool_choice` of type `none` is dropped (`codec.go` 419-436), so that the
  backend is free to use the tools.

Routes, headers and errors:

- A path that names no endpoint is taken by a route of several kinds, with no kind
  (`router.go` 123), where `routing.md` wants the route's kinds to include it.
- "Basic x" in passthrough mode reaches an OpenAI backend as "Bearer Basic x"
  (`backend.go` 75), where `authentication.md` says as-is.
- A client's own X- headers are dropped (`backend.go` 107), where `backends.md` says
  they are forwarded.
- A passthrough answer has two `X-Request-Id` if the backend sends one
  (`http_adapter.go` 71).
- A backend's 204 to a translated request is an error answered with 204
  (`backend.go` 163); `net/http` writes no body after a 204 or a 304, so the message is
  lost and only the status says so (`http_adapter.go` 74-75).
- Two routes of one priority and prefix but different protocols are no ambiguity to
  `New`, and one that names no endpoint of its path may be taken with either's kinds:
  which of the two serves is left to the sort.
- A hook's `PipelineError` without a status panics in `WriteHeader`.
- `ErrorsStayApart` is violated when `"shared"` is put into `HookErrors`: a hook that
  keeps one PipelineError for all requests shows one client's note to another.

Configuration and start:

- `configuration.md` 35-37 says that a variable that is not set is left in place;
  validation then refuses the file (`config.go` 210).
- A plain `$5` becomes `${5}`. Variables that are not set are looked for in a backend's
  URL, credential and default headers (`config.go` 149-159), and in nothing else.
- A signal before `signal.Notify` (`main.go` 43) ends the process at once, though the
  server may be serving.

### Fairness

The handler's own steps are weakly fair: a goroutine that can run does, a dial
ends by the transport's timeouts (30 s to connect, 15 s for TLS, 30 s for the
response header), a write returns, and hooks are assumed to return.
`net/http` notices a client that is gone and cancels the context
(`NoticeClientGone`). Nothing makes a backend send, so neither `Receive` in
`StreamProxy` nor the end of a body or stream in `Gateway` is fair; only a
cancelled context ends them (`Cancelled`). So what is shown is that the handler
returns once a connection is down or the client has left, and not that a silent
backend is given up: the server has no write timeout by default (`streaming.md`),
and the transport none between two chunks.

In `SSE` the reader is fair and the backend is not: lines that are there are
scanned, and the decoder comes back for the next event or stops. In `Serving`
only `main` is fair: it goes on, and the 15 seconds of Shutdown pass. Requests
need not end, so `SignalEnds` rests on the deadline alone.

## 4. The theorems

For every value of the constants that satisfies the named assumptions, with no
bound on sizes. Each proof has an invariant that is inductive, and a step per
action. A theorem with a hypothesis has it because the property is false without
it: each hypothesis excludes named quirks or answers, and section 3 says what
each of these does.

- `GatewayProofs`: `PromiseKept` (Gateway implements Exchange), `BodiesReleased`,
  `ErrorsAreHeard`, `GatewayTypeCorrect`. The inductive invariant `GatewayInv` is
  `TypeOK` with three parts. `HooksInv` ties the phase to the counters: the
  hooks that have passed are no more than their stage has, nothing is sent before
  `pre` is over and it has been sent once from `waiting` to `post`, only a request
  that is failing, skipping or over can have been refused, and `streaming` is for
  streamed requests only; without it a success after a veto could not be excluded.
  `BodyInv` says in which phases a body
  is open and that a failing phase which holds one belongs to a stream or a
  passthrough request, whose handlers close it. `HeardInv` counts the error hooks
  against the failing phase. The refinement maps each action to one of Exchange's
  or to a stutter. `RefusalsReachClient` adds `RefusalInv`: from a backend's error on,
  the status to be answered is the backend's. Assumed: statuses are HTTP statuses, `MaxHooks` is a number.
- `RouterProofs`: `RouterServesBest`, `RouterIgnoresOrder` and `RouterTypeCorrect`,
  for any set of configurations and paths. `RouterInv` is that the answer is
  `Resolve` of the sorted routes and that these are ranked, complete and not
  ambiguous. The lemma `ResolveFindsBest` is the first-match argument;
  `EqualRanksAreAmbiguous` shows that two routes of equal rank that take one path,
  with one protocol and kind, are a pair `New` refuses.
- `StreamProxyProofs`: `TypeCorrect`, for all bounds and quirks, and
  `ErrorHooksCorrect`, from `ReportInv`: the count of error hooks is a function of
  `pc`, and the client has an error, or one on its way, only past `fail`.
- `StreamClientProofs`: `EndsAreEarned`, `NoneIsLeftSilent`, `StreamsAreKept`,
  `StreamsAreTransparent` and `EndsAreComplete`. The first three are
  for answers of any length and for every quirk but four: an error in mid-stream and
  an early close in good order (`FinishesProperly`, all three),
  `finish_first` (the second) and `text_after_tool` for an Anthropic client (the
  third); each of the four violates what it is excluded from. `EndInv` says that until the backend
  has given a reason (`said.reason`) nothing looks like an end: no stop event is queued, no
  last frame is written, the backend is in a phase it may not close in, and the
  handler is not finishing (`Unfinished`). `SilenceInv` is its converse, what a
  client that is connected is owed: once the reason is given, the stop event is
  queued, or the last frame is written, or the client knows (`OwedInStream`). Both
  rest on what each frame a backend may send is decoded to.
  `StreamsAreKept` is the refinement: `StreamProxy` implements `ClientStream`. Its
  `ClientInv` relates the queue at every point, from the backend to the client: text is
  queued only while the backend has begun no call, arguments only when the encoder
  has a tool block (`EventsFit`); a stream not begun at the client has its first
  frame next (`StartIsDue`); and the blocks an Anthropic client holds are the
  encoder's, less what is still to be written, which can be five things
  (`GoesOn`) or an end (`Ends`, `FramesFit`). Every frame written is then an action of
  `ClientStream`. Without the exclusions it is false: a backend that
  closes or reports an error before its first chunk has an OpenAI client's stream
  end without beginning.
  `StreamsAreTransparent` (the client has a prefix of the answer, each piece where it
  belongs) and `EndsAreComplete` (a client told of the end has all of it and the reason)
  rest on `FlowInv`: what the backend has said is what the client has heard, then what
  is in `out`, then what is queued, in this order, text and arguments apart
  and arguments by call. Their hypothesis is that the quirks are `Handled`: not
  `args_with_start`, `completions`, `finish_first` and `finish_with_text`, nor for an
  Anthropic client `text_after_tool` and `interleaved_tools`, each of which loses or
  misplaces a piece.
- `SSEProofs`: `EventsAreWhole`, `NamesCorrect` and `SSETypeCorrect`, from `SSEInv`: a
  call of `Next` has read exactly the lines since the last event, its data lines
  ascending and after any blank one (`LocalInv`).
  `FramesAreKept` is the refinement: `SSE` implements the safety of `FramePipe`
  (`FramePipe!Safety`, its specification without fairness). It rests on `FramesInv`:
  no line read was too long, and the frames that have come out are those that end by the
  last event's line. `PipeStep` says what each step of the reader does to the
  pipe, and `PipeMapped` that this is a step of it or a stutter.
- `ForwardingProofs`: `KeysAreApart`, `CredentialsFit`, `TracesSurvive` and
  `ForwardingTypeCorrect`, for any headers, backends and hooks. `RequestInv` says
  where each word of the request's headers comes from: a hook, or the client's header of
  that name that sanitizing leaves. Assumed beside types (`ForwardingAssumption`):
  keys can be told from everything else (`KeysAreOwn`), without which "the client's
  key does not reach the backend" would be false of two equal keys; and
  `KeysHaveForm`, that a Bearer key is one word and hooks leave credentials alone.
- `TranslationProofs`, for any exchange, texts and hooks:
  - `TypeCorrect`, from a lemma per codec about what it decodes to, and per modifier
    about what it keeps. `ExchangeInv` is `TypeOK` with what relates the variables to the
    exchange: which variables are set in which phase, and that while hooks run the response
    is an edit of what was decoded.
  - `RefusalsHaveACause`: an exchange is refused only for a call in the client's body or
    the backend's answer whose arguments are no JSON or missing, or for a choice to use no tool; a
    lemma for each codec says that the calls it keeps are calls it was given.
  - `CopiesAgree`, `AnswersArrive`: the two copies of the text agree when the answer is
    encoded, and the client gets the backend's choices, texts, calls and reasons, but that an OpenAI
    client hears `tool_calls` for a `stop` with calls.
    `AnswersArrive` assumes `AnswersAreSayable`: a chat answer of an OpenAI backend
    has one choice at most (the gateway never asks for more: `ChatRequest` has no `n`),
    and for an Anthropic client its reason is not one of Anthropic's own words, which
    the map of reasons passes through as if it were one.
  - `ConversationsSurvive`: what the client said means the same when the backend hears
    it. `Meaning` is the turn a message of `pipeline/model.go` is, and `Turns` puts
    together what one speaker said in a row (`Onto`); the lemmas are that `Turns` of a
    concatenation is the turns of its first part with its second put onto them, that each codec makes
    such a concatenation, and that both ways of cutting it, results one by one
    or a run of them in one message, have the same turns. `RestInv` says that hooks
    leave alone what no modifier is set upon.
  - `TurnsAreValid`: calls are answered, all of them and at once, on the backend's side
    if they are on the client's. `RunRule` is OpenAI's rule, of the run of results after a message
    instead of a count; `Answered` is Anthropic's, of all turns but the last of a prefix. An encoder or a
    decoder that has done n messages keeps the rule but for the calls that are still
    to be answered (`EncodedUpTo`, `DecodedUpTo`), and those are the last message's.

    Both assume `BodiesAreProper`. Of an Anthropic client's body: a content has a text or
    blocks; a user sends texts and results that say what they answer and are not rich,
    an assistant texts and uses; the choice is one of the protocol's and there is a limit,
    which the protocol demands. Of an OpenAI client's: the choice is one the decoder knows,
    and for an Anthropic backend results say what they answer and users call
    nothing. A raw prompt is not empty, nor is one that is an array. Without each of these a codec drops
    something: a rich result takes its whole content with it, an empty prompt
    is sent as none. `Translation` states the two hypotheses, and `MCTranslation`
    assumes them (`HypothesesHold`), so that TLC evaluates them on every run of it.
  - `EveryNoteArrives`: an edit a hook makes of one copy is in the answer, from
    `NoteInv`.
  - `NoSecretLeaves`: what a modifier replaces is in no text it has gone over, in
    whatever order the map is ranged over. The lemma `ReplacedHasNone`
    says a replaced text has no old word left, and `NoneIsLeft` that later
    replacements bring none back. Both need the replacements to be nonempty and
    to share no symbol with the old words (`AreApart`): removing "st" from "sstt"
    leaves "st", and the code makes one pass.
- `ServingProofs`: `TypeCorrect`, `OnlyForCause` and `ZeroIsClean` from `StageInv` and
  `EndInv` (a request that is not being served has been told something; one that was
  cut was cut by the exit), for any number of clients and requests; `ErrorsAreOwn` from `ErrorInv`
  (the address a goroutine has raised is its own and has its own note), if no hook
  keeps an error; `RoutesAlwaysLead` from `ConfigInv`, for any file of the form
  `Configuration`; `HooksAreInOrder`, by induction over the hooks of the file: what
  `NewHandler` has registered after n of them is, at each stage, those of the n that run there,
  in the file's order. The property is stated without `BuildFromConfig`: an ascending
  embedding of what is registered into the file, onto its enabled hooks of the stage.

Folds and recursive functions are proved about by induction: `FromZeroOn`, from
the library's well-founded minimum on the naturals, takes the set of the numbers for
which a formula holds. A recursive function within a definition is a CHOOSE, whose
existence is proved step by step before anything is said of its value.

Only model-checked: liveness (`HandlerReturns`, `SignalEnds`), and the timing parts of
`KeepsFramePipe`, since enabledness is beyond the prover.

## 5. Not modelled

- Observability and the test kit: logging changes no state, fixtures are the
  tests'.
- Of the codecs: names, ids, models, token counts, `top_p`, `stop`, JSON.
- Of the configuration: the parsers, the listener's address and timeouts, and the
  hooks' own settings.
- Of the hooks: hooks added while requests are served (only tests do), and text
  within a streamed piece, so that a modifier of streams passes or refuses.
- Of the backends: URLs, the transport's settings, and its own retries.
- A `ResponseWriter` that cannot flush, which `net/http` does not have.

## 6. Plan

Written, in this order: the stream (the hardest part), the router, the headers,
the request pipeline, the SSE reader, the translation, the start and the process,
and their proofs. What is left:

1. Text within streamed pieces, to say which replacements a stream modifier misses.
2. The tool-call names and ids of streams, once a run needs them.
