--------------------------- MODULE AnthropicCodec ---------------------------
(***************************************************************************)
(* The Anthropic codec (internal/protocol/anthropic/codec.go).             *)
(*                                                                         *)
(* A content is a string or a sequence of blocks.  A tool_result is rich   *)
(* if its own content is a list of blocks instead of a string.  Arguments  *)
(* of a tool_use are JSON, being part of a JSON body, unless its input is  *)
(* missing.                                                                *)
(***************************************************************************)
EXTENDS Conversation

BlockTypes == {"text", "tool_use", "tool_result", "image"}
Block == [type: BlockTypes, text: Text, id: Nat, rich: BOOLEAN,
          args: {"json", "broken"}]

Content == [form: {"string", "blocks"}, text: Text, blocks: Seq(Block)]
MessagesRequest ==
    [system: Content,
     messages: Seq([role: {"user", "assistant"}, content: Content]),
     maxTokens: Seq(Nat), temperature: Seq(Nat), tools: Seq(STRING),
     choice: STRING]
MessagesResponse == [blocks: Seq(Block), reason: Reason]

TextBlock(t) ==
    [type |-> "text", text |-> t, id |-> 0, rich |-> FALSE, args |-> "json"]
UseBlock(id) ==
    [type |-> "tool_use", text |-> <<>>, id |-> id, rich |-> FALSE, args |-> "json"]
ResultBlock(id, t) ==
    [type |-> "tool_result", text |-> t, id |-> id, rich |-> FALSE, args |-> "json"]

StringContent(t) == [form |-> "string", text |-> t, blocks |-> <<>>]
BlocksContent(bs) == [form |-> "blocks", text |-> <<>>, blocks |-> bs]

OfType(type, blocks) ==
    LET Is(b) == b.type = type IN Those(blocks, Is)
JoinedText(blocks) ==
    LET texts == OfType("text", blocks)
    IN  FlattenSeq([n \in DOMAIN texts |-> texts[n].text])

(* A rich tool_result does not unmarshal into a ContentBlock, and then     *)
(* parseMessageContent gives up the whole content.                         *)
ParsedBlocks(c) ==
    IF \E n \in DOMAIN c.blocks : c.blocks[n].rich THEN <<>> ELSE c.blocks

(* parseSystemPrompt: a string, or the text blocks that say something,     *)
(* joined by newlines.                                                     *)
ParseSystemPrompt(c) ==
    LET SaysSomething(b) == b.type = "text" /\ b.text # <<>>
        parts == Those(ParsedBlocks(c), SaysSomething)
    IN  c.text \o FlattenSeq([n \in DOMAIN parts |->
            IF n = 1 THEN parts[n].text ELSE <<"newline">> \o parts[n].text])

(* An input that is missing makes empty arguments, which are not JSON.     *)
CallsIn(blocks) ==
    LET uses == OfType("tool_use", blocks)
    IN  [n \in DOMAIN uses |-> [id |-> uses[n].id, args |-> uses[n].args]]

DecodeAssistant(blocks) == <<Calling(JoinedText(blocks), CallsIn(blocks))>>

(* Variant: the results of one message become one message.                 *)
DecodeUserFirstResult(blocks) ==
    LET results == OfType("tool_result", blocks)
    IN  (IF results = <<>> THEN <<>>
         ELSE <<Answering(results[1].id, results[1].text)>>)
        \o (IF OfType("text", blocks) = <<>> THEN <<>>
            ELSE <<Saying("user", JoinedText(blocks))>>)

(* Every tool_result is a message of its own, before the text.             *)
DecodeUser(blocks) ==
    LET results == OfType("tool_result", blocks)
    IN  [n \in DOMAIN results |-> Answering(results[n].id, results[n].text)]
        \o (IF OfType("text", blocks) = <<>> THEN <<>>
            ELSE <<Saying("user", JoinedText(blocks))>>)

DecodeAnthropicMessage(m) ==
    LET blocks == ParsedBlocks(m.content)
    IN  CASE blocks = <<>> -> <<Saying(m.role, m.content.text)>>
          [] blocks # <<>> /\ m.role = "assistant" -> DecodeAssistant(blocks)
          [] blocks # <<>> /\ m.role = "user" -> DecodeUser(blocks)

(* Variant: a choice is passed on as it is.                                *)
DecodeChoicePassedOn(c) == c

DecodeAnthropicChoice(c) ==
    CASE c = "auto" -> "auto"
      [] c = "any"  -> "required"
      [] c = "tool" -> "specific"
      [] OTHER      -> ""

(* temperature, top_p and stop_sequences are no fields of MessagesRequest; *)
(* max_tokens is one that is 0 where it is missing.                        *)
DecodeMessagesRequest(b) ==
    [PlainRequest("chat") EXCEPT
        !.system = ParseSystemPrompt(b.system),
        !.messages = FlattenSeq([n \in DOMAIN b.messages |->
                                    DecodeAnthropicMessage(b.messages[n])]),
        !.maxTokens = IF b.maxTokens = <<>> THEN <<0>> ELSE b.maxTokens,
        !.tools = b.tools,
        !.choice = DecodeAnthropicChoice(b.choice)]

-----------------------------------------------------------------------------
(* EncodeRequest.  A run of results becomes one user message.              *)

IsResult(m) == m.role = "tool" /\ m.answers # 0

(* The results from the n-th message on.                                   *)
RunFrom(ms, n) ==
    SubSeq(ms, n, CHOOSE e \in n..Len(ms) :
                      /\ \A k \in n..e : IsResult(ms[k])
                      /\ e < Len(ms) => ~IsResult(ms[e + 1]))

(* Variant: after a run the next message is the run's second.              *)
StartsRunAlways(ms, n) == IsResult(ms[n])

StartsRun(ms, n) == IsResult(ms[n]) /\ (n = 1 \/ ~IsResult(ms[n - 1]))

(* Variant: a message with calls has no text.                              *)
UseBlocksWithoutText(m) ==
    IF m.calls = <<>> /\ m.content # <<>> THEN <<TextBlock(m.content)>>
    ELSE [n \in DOMAIN m.calls |-> UseBlock(m.calls[n].id)]

UseBlocks(m) ==
    (IF m.content = <<>> THEN <<>> ELSE <<TextBlock(m.content)>>)
      \o [n \in DOMAIN m.calls |-> UseBlock(m.calls[n].id)]

(* What the message at n adds to the body: a run of results where it       *)
(* starts, and nothing in its course.                                      *)
EncodeAt(ms, n) ==
    CASE StartsRun(ms, n) ->
            LET run == RunFrom(ms, n)
            IN  <<[role |-> "user", content |-> BlocksContent(
                     [k \in DOMAIN run |->
                         ResultBlock(run[k].answers, run[k].content)])]>>
      [] IsResult(ms[n]) /\ ~StartsRun(ms, n) -> <<>>
      [] ms[n].role = "assistant" /\ ms[n].calls # <<>> ->
            <<[role |-> "assistant", content |-> BlocksContent(UseBlocks(ms[n]))]>>
      [] OTHER ->
            <<[role |-> ms[n].role, content |-> StringContent(ms[n].content)]>>

(* Variant: a choice that is not there is none.                            *)
CannotEncodeUnchosen(r) == r.choice \in {"", "none"}

(* validatedToolArguments, encodeAnthropicToolChoice.                      *)
CannotEncodeRequest(r) ==
    \/ \E n \in DOMAIN r.messages :
          r.messages[n].role = "assistant" /\ IsBroken(r.messages[n].calls)
    \/ r.choice = "none"

EncodeAnthropicChoice(c) ==
    CASE c = "auto"     -> "auto"
      [] c = "required" -> "any"
      [] c = "specific" -> "tool"
      [] OTHER          -> ""

EncodeMessagesRequest(r) ==
    [system |-> StringContent(r.system),
     messages |-> FlattenSeq([n \in DOMAIN r.messages |-> EncodeAt(r.messages, n)]),
     maxTokens |-> IF r.maxTokens = <<>> THEN <<1024>> ELSE r.maxTokens,
     temperature |-> <<>>,
     tools |-> r.tools,
     choice |-> EncodeAnthropicChoice(r.choice)]

-----------------------------------------------------------------------------
Maps == INSTANCE StreamEvents

DecodeMessagesResponse(b) ==
    [content |-> JoinedText(b.blocks),
     reason |-> Maps!MapStopReason(b.reason),
     calls |-> CallsIn(b.blocks),
     choices |-> <<>>]

EncodeMessagesResponse(r) ==
    LET blocks == UseBlocks(r)
    IN  [blocks |-> IF blocks = <<>> THEN <<TextBlock(<<>>)>> ELSE blocks,
         reason |-> IF r.reason = "" THEN "end_turn"
                    ELSE Maps!MapFinishReason(r.reason)]

=============================================================================
