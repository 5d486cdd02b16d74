---------------------------- MODULE Translation ----------------------------
(***************************************************************************)
(* What one exchange that is not streamed says on its way through the      *)
(* gateway: the client's body is decoded (Handle, internal/app/core.go),   *)
(* edited by the pre-request hooks, encoded for the backend (Do), the      *)
(* answer decoded, edited by the post-response hooks, its two copies of    *)
(* the text reconciled, and encoded for the client (handleNonStreamCore).  *)
(*                                                                         *)
(* An exchange is a client's protocol, the kind of its endpoint, its body, *)
(* the backend's protocol and its answer, and the hooks it meets: text     *)
(* modifiers and, after the response, hooks of the user's own that edit    *)
(* one copy of it.  How an exchange fails is Gateway's concern; here only  *)
(* bodies that cannot be said in the other protocol are refused.           *)
(***************************************************************************)
EXTENDS OpenAICodec, AnthropicCodec, TextHooks

CONSTANT
    Exchanges       \* [client, kind, body, backend, answer, pre, post]:
                    \* pre is a sequence of [target, replacements], post of
                    \* [edits, replacements], where edits is "all" for a
                    \* modifier, "content" or "choice" for a hook that
                    \* edits one copy

Modifications == {rs \in SUBSET Replacement : IsFiniteSet(rs)}
PreHook == [target: Targets, replacements: Modifications]
PostHook == [edits: {"all", "content", "choice"}, replacements: Modifications]

ASSUME TranslationAssumption ==
    \A x \in Exchanges :
       /\ x.client \in Protocols /\ x.backend \in Protocols
       /\ x.kind \in {"chat", "completion"}
       /\ x.kind = "completion" =>
             /\ x.client = "openai" /\ x.backend = "openai"
             /\ x.body \in CompletionRequest /\ x.answer \in CompletionResponse
       /\ x.kind = "chat" =>
             /\ x.body \in IF x.client = "openai" THEN ChatRequest ELSE MessagesRequest
             /\ x.answer \in IF x.backend = "openai" THEN ChatResponse
                            ELSE MessagesResponse
       /\ x.pre \in Seq(PreHook) /\ x.post \in Seq(PostHook)

VARIABLES
    exchange,   \* what client and backend say, and the hooks
    phase,      \* body, pre, sent, post, encode, answered or refused
    ran,        \* hooks that have run in this stage
    request,    \* NormalizedRequest
    forwarded,  \* the body sent to the backend
    response,   \* NormalizedResponse
    before,     \* the response as the hooks got it
    reply       \* the body sent to the client

vars == <<exchange, phase, ran, request, forwarded, response, before, reply>>

pre == exchange.pre
post == exchange.post

NoResponse == [content |-> <<>>, reason |-> "", calls |-> <<>>, choices |-> <<>>]
NoBody == [form |-> "no body"]

Init ==
    /\ exchange \in Exchanges
    /\ phase = "body"
    /\ ran = 0
    /\ request = PlainRequest("chat")
    /\ forwarded = NoBody
    /\ response = NoResponse
    /\ before = NoResponse
    /\ reply = NoBody

IsCompletion == exchange.kind = "completion"

-----------------------------------------------------------------------------
DecodeRequest ==
    /\ phase = "body"
    /\ request' = CASE IsCompletion -> DecodeCompletionRequest(exchange.body)
                    [] ~IsCompletion /\ exchange.client = "openai" ->
                          DecodeChatRequest(exchange.body)
                    [] OTHER -> DecodeMessagesRequest(exchange.body)
    /\ phase' = "pre"
    /\ UNCHANGED <<exchange, ran, forwarded, response, before, reply>>

PreRequestHook ==
    /\ phase = "pre" /\ ran < Len(pre)
    /\ LET h == pre[ran + 1]
       IN  \E orders \in [0..Len(request.messages) -> Orders(h.replacements)] :
               request' = EditRequest(request, h.target, orders)
    /\ ran' = ran + 1
    /\ UNCHANGED <<exchange, phase, forwarded, response, before, reply>>

CannotSend == exchange.backend = "anthropic" /\ CannotEncodeRequest(request)

RefuseRequest ==
    /\ phase = "pre" /\ ran = Len(pre)
    /\ CannotSend
    /\ phase' = "refused"
    /\ UNCHANGED <<exchange, ran, request, forwarded, response, before, reply>>

Send ==
    /\ phase = "pre" /\ ran = Len(pre)
    /\ ~CannotSend
    /\ forwarded' = CASE IsCompletion -> EncodeCompletionRequest(request)
                      [] ~IsCompletion /\ exchange.backend = "openai" ->
                            EncodeChatRequest(request)
                      [] OTHER -> EncodeMessagesRequest(request)
    /\ phase' = "sent"
    /\ ran' = 0
    /\ UNCHANGED <<exchange, request, response, before, reply>>

Receive ==
    /\ phase = "sent"
    /\ response' = CASE IsCompletion -> DecodeCompletionResponse(exchange.answer)
                     [] ~IsCompletion /\ exchange.backend = "openai" ->
                           DecodeChatResponse(exchange.answer)
                     [] OTHER -> DecodeMessagesResponse(exchange.answer)
    /\ before' = response'
    /\ phase' = "post"
    /\ UNCHANGED <<exchange, ran, request, forwarded, reply>>

(* A modifier, or a hook that puts its note into one of the copies.        *)
Note == <<"note">>
NoteInContent(r) == [r EXCEPT !.content = @ \o Note]
NoteInChoice(r, n) == [r EXCEPT !.choices[n].text = @ \o Note]

PostResponseHook ==
    /\ phase = "post" /\ ran < Len(post)
    /\ LET h == post[ran + 1]
       IN  CASE h.edits = "all" ->
                  \E order \in Orders(h.replacements) :
                      response' = EditResponse(response, order)
             [] h.edits = "content" ->
                  response' = NoteInContent(response)
             [] h.edits = "choice" ->
                  IF response.choices = <<>> THEN response' = response
                  ELSE \E n \in DOMAIN response.choices :
                          response' = NoteInChoice(response, n)
    /\ ran' = ran + 1
    /\ UNCHANGED <<exchange, phase, request, forwarded, before, reply>>

Sync ==
    /\ phase = "post" /\ ran = Len(post)
    /\ response' = IF post = <<>> THEN response ELSE Synced(response, before)
    /\ phase' = "encode"
    /\ UNCHANGED <<exchange, ran, request, forwarded, before, reply>>

CannotReply == exchange.client = "anthropic" /\ IsBroken(response.calls)

RefuseReply ==
    /\ phase = "encode"
    /\ CannotReply
    /\ phase' = "refused"
    /\ UNCHANGED <<exchange, ran, request, forwarded, response, before, reply>>

Reply ==
    /\ phase = "encode"
    /\ ~CannotReply
    /\ reply' = CASE IsCompletion -> EncodeCompletionResponse(response)
                  [] ~IsCompletion /\ exchange.client = "openai" ->
                        EncodeChatResponse(response)
                  [] OTHER -> EncodeMessagesResponse(response)
    /\ phase' = "answered"
    /\ UNCHANGED <<exchange, ran, request, forwarded, response, before>>

Terminated == phase \in {"answered", "refused"} /\ UNCHANGED vars

Next ==
    \/ DecodeRequest \/ PreRequestHook \/ RefuseRequest \/ Send
    \/ Receive \/ PostResponseHook \/ Sync \/ RefuseReply \/ Reply
    \/ Terminated

Spec == Init /\ [][Next]_vars

-----------------------------------------------------------------------------
(* What the bodies of the two protocols mean, said without the codecs.  A  *)
(* conversation is a sequence of turns of the two sides, user and          *)
(* assistant; the results of tools are the user's.                         *)

Turn(by, text, calls, results) ==
    [by |-> by, text |-> text, calls |-> calls, results |-> results]

(* Neighbouring messages of one side are one turn.                         *)
Turns(messages) ==
    LET Add(turns, t) ==
            IF turns # <<>> /\ Last(turns).by = t.by
            THEN Append(Front(turns),
                        Turn(t.by, Last(turns).text \o t.text,
                             Last(turns).calls \o t.calls,
                             Last(turns).results \o t.results))
            ELSE Append(turns, t)
        after[n \in 0..Len(messages)] ==
            IF n = 0 THEN <<>> ELSE Add(after[n - 1], messages[n])
    IN  after[Len(messages)]

CallIds(calls) == [n \in DOMAIN calls |-> calls[n].id]

OpenAITurn(m) ==
    IF m.role = "tool"
    THEN Turn("user", <<>>, <<>>,
              <<[id |-> m.answers, text |-> OrEmpty(m.content)]>>)
    ELSE Turn(m.role, OrEmpty(m.content), CallIds(m.calls), <<>>)

AnthropicTurn(m) ==
    LET uses == OfType("tool_use", m.content.blocks)
        results == OfType("tool_result", m.content.blocks)
    IN  Turn(m.role, m.content.text \o JoinedText(m.content.blocks),
             [n \in DOMAIN uses |-> uses[n].id],
             [n \in DOMAIN results |->
                 [id |-> results[n].id, text |-> results[n].text]])

MessagesOf(protocol, b) ==
    LET messages == IF protocol = "openai"
                    THEN Those(b.messages, IsNotSystem) ELSE b.messages
    IN  [n \in DOMAIN messages |->
            IF protocol = "openai" THEN OpenAITurn(messages[n])
            ELSE AnthropicTurn(messages[n])]

TurnsOf(protocol, b) == Turns(MessagesOf(protocol, b))

(* The last system message is the one that counts, as it does for the      *)
(* gateway; OpenAI itself keeps several.                                   *)
SystemPromptOf(protocol, b) ==
    IF protocol = "anthropic"
    THEN b.system.text \o FlattenSeq([n \in DOMAIN b.system.blocks |->
             (IF n = 1 THEN <<>> ELSE <<"newline">>) \o b.system.blocks[n].text])
    ELSE LET systems == {n \in DOMAIN b.messages :
                            IsSystem(b.messages[n]) /\ b.messages[n].content # Null}
         IN  IF systems = {} THEN <<>>
             ELSE b.messages[CHOOSE n \in systems : \A k \in systems : k <= n].content

(* Whether the assistant may or must use a tool.                           *)
ToolUseOf(b) ==
    CASE b.choice \in {"any", "required"}  -> "must"
      [] b.choice \in {"tool", "specific"} -> "this one"
      [] b.choice \in {"", "auto"}         -> "may"
      [] b.choice = "none"                 -> "may not"

(* Anthropic's limit is 1024 where an OpenAI client set none.              *)
LimitOf(protocol, b) ==
    IF b.maxTokens = <<>> /\ protocol = "openai" /\ exchange.backend = "anthropic"
    THEN <<1024>> ELSE b.maxTokens

(* What the modifiers are set upon is left out.                            *)
IsTarget(speaker) ==
    \E n \in DOMAIN pre : pre[n].target \in {"all", speaker}
Unless(targeted, text) == IF targeted THEN <<>> ELSE text

TurnLeftAlone(t) ==
    Turn(t.by, Unless(IsTarget(t.by), t.text), t.calls,
         [n \in DOMAIN t.results |->
             [t.results[n] EXCEPT !.text = Unless(IsTarget("tool"), @)]])

ConversationOf(protocol, b) ==
    LET turns == TurnsOf(protocol, b)
    IN  [system |-> Unless(IsTarget("system"), SystemPromptOf(protocol, b)),
         turns |-> [n \in DOMAIN turns |-> TurnLeftAlone(turns[n])],
         limit |-> LimitOf(protocol, b),
         tools |-> b.tools,
         use |-> ToolUseOf(b)]

(* An array of one string is the string.                                   *)
PromptOf(b) ==
    [given |-> b.form # "none",
     tokens |-> b.form = "raw",
     prompt |-> IF b.form = "raw" THEN b.prompt
                ELSE [n \in DOMAIN b.prompt |-> Unless(IsTarget("user"), b.prompt[n])],
     limit |-> b.maxTokens, n |-> b.n, temperature |-> b.temperature]

(* Why an answer ended, in the words of the neutral form.                  *)
ReasonOf(protocol, reason) ==
    LET words == IF protocol = "openai" THEN <<"stop", "length", "tool_calls">>
                 ELSE <<"end_turn", "max_tokens", "tool_use">>
        neutral == <<"stop", "length", "tool_calls">>
        said == IF reason = "" THEN words[1] ELSE reason
    IN  IF said \notin Range(words) THEN said
        ELSE neutral[CHOOSE n \in 1..3 : words[n] = said]

(* The answers of a body: text, calls and reason of each, the text unless  *)
(* a hook may have changed it.                                             *)
Answer(protocol, text, calls, reason) ==
    [text |-> Unless(post # <<>>, text), calls |-> calls,
     reason |-> ReasonOf(protocol, reason)]

AnswersOf(protocol, b) ==
    CASE IsCompletion ->
            [n \in DOMAIN b.choices |->
                Answer(protocol, b.choices[n].text, <<>>, b.choices[n].reason)]
      [] ~IsCompletion /\ protocol = "openai" ->
            [n \in DOMAIN b.choices |->
                Answer(protocol, OrEmpty(b.choices[n].content),
                       CallIds(b.choices[n].calls), b.choices[n].reason)]
      [] OTHER ->
            LET uses == OfType("tool_use", b.blocks)
            IN  <<Answer(protocol, JoinedText(b.blocks),
                         [n \in DOMAIN uses |-> uses[n].id], b.reason)>>

-----------------------------------------------------------------------------
(* What passes between the codecs has the types of pipeline/model.go: a    *)
(* word of one protocol does not get into the neutral form as it is.       *)
TypeOK ==
    /\ request \in NormalizedRequest
    /\ response \in NormalizedResponse /\ before \in NormalizedResponse
    /\ ran \in 0..(Len(pre) + Len(post))
    /\ phase \in {"body", "pre", "sent", "post", "encode", "answered", "refused"}

(* What the backend is asked is what the client asked, whatever the two    *)
(* protocols: the system prompt, who said what in which order, which calls *)
(* were made and what came of each, the tools, the choice of them and the  *)
(* limits; and the words no modifier is set upon are the client's own.     *)
ConversationSurvives ==
    forwarded # NoBody =>
        IF IsCompletion THEN PromptOf(forwarded) = PromptOf(exchange.body)
        ELSE ConversationOf(exchange.backend, forwarded)
                = ConversationOf(exchange.client, exchange.body)

(* Whether a call in a body, or in an answer, has arguments that are not   *)
(* JSON, or none at all.                                                   *)
AsksBroken(protocol, b) ==
    \E n \in DOMAIN b.messages :
        IF protocol = "openai" THEN IsBroken(b.messages[n].calls)
        ELSE IsBroken(OfType("tool_use", b.messages[n].content.blocks))

AnswersBroken(protocol, b) ==
    IF protocol = "openai"
    THEN \E n \in DOMAIN b.choices : IsBroken(b.choices[n].calls)
    ELSE IsBroken(OfType("tool_use", b.blocks))

(* A client is refused only what Anthropic's protocol has no words for,    *)
(* where it is spoken: arguments that are not JSON, on the way to the      *)
(* backend or to the client, and a choice to use no tool.                  *)
RefusedForCause ==
    phase = "refused" =>
        \/ exchange.backend = "anthropic" /\ exchange.body.choice = "none"
        \/ exchange.backend = "anthropic" /\ AsksBroken(exchange.client, exchange.body)
        \/ exchange.client = "anthropic" /\ AnswersBroken(exchange.backend, exchange.answer)

(* The rule both protocols have for tools: right after the assistant's     *)
(* calls come the results of exactly these calls, and nowhere else.        *)
ResultsFollow(asked, told) ==
    /\ Range(asked) = {told[n].id : n \in DOMAIN told}
    /\ Len(asked) = Len(told)

OpenAIIsValid(b) ==
    LET ms == Those(b.messages, IsNotSystem)
        toolsAfter(n) == {k \in (n + 1)..Len(ms) :
                             \A j \in (n + 1)..k : ms[j].role = "tool"}
    IN  /\ \A n \in DOMAIN ms : ms[n].role = "assistant" =>
              ResultsFollow(CallIds(ms[n].calls),
                            [k \in 1..Cardinality(toolsAfter(n)) |->
                                [id |-> ms[n + k].answers]])
        /\ \A n \in DOMAIN ms : ms[n].role = "tool" =>
              n > 1 /\ ms[n - 1].role \in {"assistant", "tool"}

AnthropicIsValid(b) ==
    LET turn == [n \in DOMAIN b.messages |-> AnthropicTurn(b.messages[n])]
        results(n) == IF n \in DOMAIN turn THEN turn[n].results ELSE <<>>
        calls(n) == IF n \in DOMAIN turn THEN turn[n].calls ELSE <<>>
    IN  \A n \in 0..Len(turn) : ResultsFollow(calls(n), results(n + 1))

IsValid(protocol, b) ==
    IF protocol = "openai" THEN OpenAIIsValid(b) ELSE AnthropicIsValid(b)

(* A conversation that keeps the client's protocol's rule for tools keeps  *)
(* the backend's: several tool messages become one user message, a user    *)
(* message becomes several tool messages before its text.                  *)
TurnsStayValid ==
    ~IsCompletion /\ forwarded # NoBody /\ IsValid(exchange.client, exchange.body) =>
        IsValid(exchange.backend, forwarded)

(* An OpenAI client is told that an answer with calls ended for them,      *)
(* where the backend says that it just stopped.                            *)
AsClientIsTold(a) ==
    IF exchange.client = "openai" /\ a.reason = "stop" /\ a.calls # <<>>
    THEN [a EXCEPT !.reason = "tool_calls"] ELSE a

(* What the client is told is what the backend said: each choice's text,   *)
(* which calls it makes and why it ended; the text is its own unless hooks *)
(* edit responses.                                                         *)
AnswerSurvives ==
    LET said == AnswersOf(exchange.backend, exchange.answer)
    IN  reply # NoBody /\ said # <<>> =>
            AnswersOf(exchange.client, reply)
                = [n \in DOMAIN said |-> AsClientIsTold(said[n])]

-----------------------------------------------------------------------------
(* The texts of a chat body.                                               *)
TextsOf(protocol, b) ==
    {SystemPromptOf(protocol, b)}
      \cup UNION {{t.text} \cup {t.results[n].text : n \in DOMAIN t.results} :
                     t \in Range(MessagesOf(protocol, b))}

(* Whether no replacement can bring back what another one removed: a new   *)
(* text has symbols of its own, and as it has some, what was on its two    *)
(* sides does not meet.                                                    *)
AreApart(replacements) ==
    \A r \in replacements : r.old # <<>> /\ \A q \in replacements :
        q.new # <<>>
        /\ \A n \in DOMAIN r.old : \A k \in DOMAIN q.new : r.old[n] # q.new[k]

LeavesNone(replacements, texts) ==
    AreApart(replacements) =>
        \A r \in replacements : \A t \in texts : ~Occurs(r.old, t)

(* A modifier that comes last and is set upon everything leaves none of    *)
(* what it replaces, in whatever place of whichever protocol it was.       *)
SecretsStay ==
    /\ forwarded # NoBody /\ pre # <<>> =>
          (Last(pre).target = "all" =>
              LeavesNone(Last(pre).replacements,
                         IF ~IsCompletion THEN TextsOf(exchange.backend, forwarded)
                         ELSE IF forwarded.form = "raw" THEN {}
                         ELSE Range(forwarded.prompt)))
    /\ reply # NoBody /\ post # <<>> =>
          (Last(post).edits = "all" =>
              LeavesNone(Last(post).replacements,
                         CASE IsCompletion ->
                                 {c.text : c \in Range(reply.choices)}
                           [] ~IsCompletion /\ exchange.client = "openai" ->
                                 {OrEmpty(c.content) : c \in Range(reply.choices)}
                           [] OTHER -> {JoinedText(reply.blocks)}))

(* "Content mirrors Choices[0].Text; both are synced after hooks run"      *)
(* (internal/pipeline/model.go:104), whichever of them the hooks edited.    *)
Mirrored ==
    phase \in {"encode", "answered", "refused"} /\ response.choices # <<>> =>
        response.content = response.choices[1].text

EndsWithNote(c) == c.text # <<>> /\ Last(c.text) = Note[1]

(* A note that hooks put into one copy of the text reaches the client, if  *)
(* no hook edits the other copy.                                           *)
NotesArrive ==
    reply # NoBody /\ IsCompletion /\ post # <<>> =>
        /\ (\A n \in DOMAIN post : post[n].edits = "content") =>
              EndsWithNote(reply.choices[1])
        /\ (\A n \in DOMAIN post : post[n].edits = "choice")
           /\ exchange.answer.choices # <<>> =>
              \E c \in Range(reply.choices) : EndsWithNote(c)

(* docs.md/cross-protocol.md:86: temperature is passed through.            *)
SamplingSurvives ==
    forwarded # NoBody => forwarded.temperature = exchange.body.temperature

(* docs.md/hooks.md:99: a replacement for "" in the system prompt prepends *)
(* it "to every request's system prompt".                                  *)
PreamblePrepended ==
    forwarded # NoBody /\ pre # <<>> =>
        \A r \in pre[1].replacements : r.old = <<>> =>
            SystemPromptOf(exchange.backend, forwarded)
                = r.new \o SystemPromptOf(exchange.client, exchange.body)

-----------------------------------------------------------------------------
(* What TranslationProofs assumes of the exchanges, beside their types:    *)
(* TLC finds it true of every instance.                                    *)

AnthropicWords == {"end_turn", "max_tokens", "tool_use"}

(* A backend sends several choices where n asks for them, which no chat    *)
(* body does here: one at most is read.  And a reason to stop that is a    *)
(* word of Anthropic's would be taken for that word by its client.         *)
AnswersAreSayable ==
    \A x \in Exchanges : x.kind = "chat" /\ x.backend = "openai" =>
        /\ Len(x.answer.choices) <= 1
        /\ x.client = "anthropic" =>
              \A n \in DOMAIN x.answer.choices :
                  x.answer.choices[n].reason \notin AnthropicWords

(* A result says what it answers, and users call no tools.                 *)
IsProper(m) ==
    /\ m.role = "tool" => m.answers # 0
    /\ m.role = "user" => m.calls = <<>>

(* What an Anthropic client may send: text, results of tools it says which,*)
(* and for the assistant the uses of tools.                                *)
IsWellFormed(m) ==
    /\ m.content.text = <<>> \/ m.content.blocks = <<>>
    /\ \A n \in DOMAIN m.content.blocks :
          /\ ~m.content.blocks[n].rich
          /\ m.role = "user" => m.content.blocks[n].type \in {"text", "tool_result"}
          /\ m.role = "assistant" => m.content.blocks[n].type \in {"text", "tool_use"}
          /\ m.content.blocks[n].type = "tool_result" => m.content.blocks[n].id # 0

(* A system prompt is a string or texts that say something.                *)
IsSystemContent(c) ==
    /\ c.text = <<>> \/ c.blocks = <<>>
    /\ \A n \in DOMAIN c.blocks :
          c.blocks[n].type = "text" /\ c.blocks[n].text # <<>> /\ ~c.blocks[n].rich

(* Bodies that both protocols have words for: a choice of tools one knows, *)
(* results that name their call, no calls by the user, and in Anthropic's  *)
(* contents nothing that the codec drops: rich results, pictures, blocks   *)
(* the role does not have.  What a completion has that is no string is     *)
(* JSON, and that has at least one symbol; an array of no strings would be *)
(* dropped.                                                                *)
ChatIsProper(x) ==
    /\ x.body.choice \in ToolChoice
    /\ x.backend = "anthropic" =>
          \A n \in 1..Len(x.body.messages) : IsProper(x.body.messages[n])

MessagesAreProper(x) ==
    /\ x.body.choice \in {"", "auto", "any", "tool"}
    /\ x.body.maxTokens # <<>>
    /\ IsSystemContent(x.body.system)
    /\ \A n \in 1..Len(x.body.messages) : IsWellFormed(x.body.messages[n])

BodiesAreProper ==
    \A x \in Exchanges :
       /\ x.kind = "chat" /\ x.client = "openai" => ChatIsProper(x)
       /\ x.kind = "chat" /\ x.client = "anthropic" => MessagesAreProper(x)
       /\ x.kind = "completion" =>
             /\ x.body.form = "raw" => x.body.prompt[1] # <<>>
             /\ x.body.form = "array" => x.body.prompt # <<>>

=============================================================================
