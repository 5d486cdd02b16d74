---------------------------- MODULE OpenAICodec ----------------------------
(***************************************************************************)
(* The OpenAI codec (internal/protocol/openai): chat completions           *)
(* (codec.go) and legacy completions (completion.go).                      *)
(*                                                                         *)
(* A body is what its JSON says.  A content that is null or missing is     *)
(* Null.  A prompt has one of four forms: none, a string, an array of      *)
(* strings, or anything else ("raw": arrays of token ids).                 *)
(***************************************************************************)
EXTENDS Conversation

Null == <<"null">>
OrEmpty(content) == IF content = Null THEN <<>> ELSE content

OpenAIMessage ==
    [role: Roles \cup {"system"}, content: Text \cup {Null},
     calls: Seq(ToolCall), answers: Nat]

ChatRequest ==
    [messages: Seq(OpenAIMessage), maxTokens: Seq(Nat), temperature: Seq(Nat),
     tools: Seq(STRING), choice: STRING]
ChatResponse ==
    [choices: Seq([content: Text \cup {Null}, calls: Seq(ToolCall),
                   reason: Reason])]

CompletionRequest ==
    {b \in [form: {"none", "string", "array", "raw"}, prompt: Seq(Text),
            maxTokens: Seq(Nat), temperature: Seq(Nat), n: Seq(Nat),
            choice: {""}] :
        /\ b.form = "none" => b.prompt = <<>>
        /\ b.form \in {"string", "raw"} => Len(b.prompt) = 1}
CompletionResponse == [choices: Seq(Choice)]

IsSystem(m) == m.role = "system"
IsNotSystem(m) == ~IsSystem(m)

(* The last system message that has a content.                             *)
SystemOf(messages) ==
    LET Speaks(m) == IsSystem(m) /\ m.content # Null
        systems == Those(messages, Speaks)
    IN  IF systems = <<>> THEN <<>> ELSE Last(systems).content

DecodeMessage(m) ==
    [role |-> m.role, content |-> OrEmpty(m.content), calls |-> m.calls,
     answers |-> IF m.role = "tool" THEN m.answers ELSE 0]

DecodeOpenAIMessages(messages) ==
    LET others == Those(messages, IsNotSystem)
    IN  [n \in DOMAIN others |-> DecodeMessage(others[n])]

(* decodeOpenAIToolChoice drops what it does not know.                     *)
DecodeOpenAIChoice(c) ==
    IF c \in {"auto", "none", "required", "specific"} THEN c ELSE ""

DecodeChatRequest(b) ==
    [PlainRequest("chat") EXCEPT
        !.system = SystemOf(b.messages),
        !.messages = DecodeOpenAIMessages(b.messages),
        !.maxTokens = b.maxTokens,
        !.temperature = b.temperature,
        !.tools = b.tools,
        !.choice = DecodeOpenAIChoice(b.choice)]

EncodeOpenAIMessage(m) ==
    IF m.role = "tool" /\ m.answers # 0 THEN [m EXCEPT !.calls = <<>>]
    ELSE IF m.calls # <<>>
    THEN [m EXCEPT !.content = IF @ = <<>> THEN Null ELSE @, !.answers = 0]
    ELSE [m EXCEPT !.answers = 0]

EncodeChatRequest(r) ==
    [messages |->
        (IF r.system = <<>> THEN <<>> ELSE <<Saying("system", r.system)>>)
          \o [n \in DOMAIN r.messages |-> EncodeOpenAIMessage(r.messages[n])],
     maxTokens |-> r.maxTokens, temperature |-> r.temperature,
     tools |-> r.tools, choice |-> r.choice]

-----------------------------------------------------------------------------
(* Of several choices only the first is read.                              *)
DecodeChatResponse(b) ==
    IF b.choices = <<>>
    THEN [content |-> <<>>, reason |-> "", calls |-> <<>>, choices |-> <<>>]
    ELSE [content |-> OrEmpty(Head(b.choices).content),
          reason |-> Head(b.choices).reason,
          calls |-> Head(b.choices).calls,
          choices |-> <<>>]

OrStop(reason) == IF reason = "" THEN "stop" ELSE reason

EncodeChatResponse(r) ==
    LET reason == OrStop(r.reason)
    IN  [choices |->
           <<[content |-> IF r.calls # <<>> /\ r.content = <<>>
                          THEN Null ELSE r.content,
              calls |-> r.calls,
              reason |-> IF r.calls # <<>> /\ reason = "stop"
                         THEN "tool_calls" ELSE reason]>>]

-----------------------------------------------------------------------------
(* decodePrompt: every string becomes a user message.                      *)
DecodeCompletionRequest(b) ==
    [PlainRequest("completion") EXCEPT
        !.messages = IF b.form = "raw" THEN <<>>
                     ELSE [n \in DOMAIN b.prompt |-> Saying("user", b.prompt[n])],
        !.raw = IF b.form = "raw" THEN b.prompt[1] ELSE <<>>,
        !.maxTokens = b.maxTokens,
        !.temperature = b.temperature,
        !.n = b.n]

EncodeCompletionRequest(r) ==
    [form |-> CASE r.raw # <<>> -> "raw"
                [] r.raw = <<>> /\ r.messages = <<>> -> "none"
                [] r.raw = <<>> /\ Len(r.messages) = 1 -> "string"
                [] OTHER -> "array",
     prompt |-> IF r.raw # <<>> THEN <<r.raw>>
                ELSE [n \in DOMAIN r.messages |-> r.messages[n].content],
     maxTokens |-> r.maxTokens, temperature |-> r.temperature, n |-> r.n]

DecodeCompletionResponse(b) ==
    [content |-> IF b.choices = <<>> THEN <<>> ELSE b.choices[1].text,
     reason |-> IF b.choices = <<>> THEN "" ELSE b.choices[1].reason,
     calls |-> <<>>,
     choices |-> b.choices]

EncodeCompletionResponse(r) ==
    [choices |->
        IF r.choices # <<>>
        THEN [n \in DOMAIN r.choices |->
                 [r.choices[n] EXCEPT !.reason = OrStop(@)]]
        ELSE <<[text |-> r.content, reason |-> OrStop(r.reason)]>>]

=============================================================================
