---------------------------- MODULE MCTranslation ----------------------------
(***************************************************************************)
(* Instances of Translation.  "s" "t" is what the modifiers replace: it is *)
(* met inside other words, twice, and cut in two by a border of blocks.    *)
(***************************************************************************)
EXTENDS Translation

Plain  == <<"a">>
Secret == <<"s", "t">>
Buried == <<"s", "s", "t", "a">>

Hide == [old |-> Secret, new |-> <<"*">>]
Name == [old |-> <<"a">>, new |-> <<"b", "b">>]

PreChoices ==
    {<<>>,
     <<[target |-> "all", replacements |-> {Hide, Name}]>>,
     <<[target |-> "user", replacements |-> {Hide}]>>,
     <<[target |-> "system", replacements |-> {Name}],
       [target |-> "assistant", replacements |-> {Hide}]>>}

Modifier(rs) == [edits |-> "all", replacements |-> rs]
Editor(copy) == [edits |-> copy, replacements |-> {}]

PostChoices ==
    {<<>>, <<Modifier({Hide, Name})>>}
      \cup {<<Editor(c)>> : c \in {"content", "choice"}}
      \cup {<<Editor(c), Editor(d)>> : c, d \in {"content", "choice"}}
      \cup {<<Editor(c), Modifier({Name})>> : c \in {"content", "choice"}}

Call(id) == [id |-> id, args |-> "json"]
BrokenCall(id) == [id |-> id, args |-> "broken"]
BareUse(id) == [UseBlock(id) EXCEPT !.args = "broken"]

-----------------------------------------------------------------------------
(* Conversations are up to three of these put together.                    *)

UpToThree(segments) == SeqOf(segments, 3)

OpenAISegments ==
    {<<Saying("user", Buried)>>,
     <<Saying("assistant", Secret)>>,
     <<Saying("system", Buried)>>,
     <<Saying("system", Null)>>,
     <<Calling(Null, <<Call(1)>>), Answering(1, Secret)>>,
     <<Calling(Plain, <<Call(2), Call(3)>>), Answering(3, Plain), Answering(2, Secret)>>,
     <<Calling(Plain, <<BrokenCall(4)>>), Answering(4, Plain)>>,
     <<Answering(5, Plain)>>}

AnthropicSays(role, content) == [role |-> role, content |-> content]

AnthropicSegments ==
    {<<AnthropicSays("user", StringContent(Buried))>>,
     <<AnthropicSays("user", BlocksContent(<<TextBlock(<<"s">>), TextBlock(<<"t">>)>>))>>,
     <<AnthropicSays("assistant", StringContent(Secret))>>,
     <<AnthropicSays("assistant", BlocksContent(<<UseBlock(1)>>)),
       AnthropicSays("user", BlocksContent(<<ResultBlock(1, Secret)>>))>>,
     <<AnthropicSays("assistant",
           BlocksContent(<<TextBlock(Plain), UseBlock(2), UseBlock(3)>>)),
       AnthropicSays("user",
           BlocksContent(<<ResultBlock(3, Plain), ResultBlock(2, Secret),
                           TextBlock(Secret)>>))>>,
     <<AnthropicSays("assistant", BlocksContent(<<BareUse(4)>>)),
       AnthropicSays("user", BlocksContent(<<ResultBlock(4, Plain)>>))>>,
     <<AnthropicSays("user", BlocksContent(<<ResultBlock(5, Plain)>>))>>}

OpenAIBody(messages) ==
    [messages |-> messages, maxTokens |-> <<>>, temperature |-> <<>>,
     tools |-> <<>>, choice |-> ""]

AnthropicBody(system, messages) ==
    [system |-> system, messages |-> messages, maxTokens |-> <<7>>,
     temperature |-> <<>>, tools |-> <<>>, choice |-> ""]

OpenAIConversations ==
    {OpenAIBody(FlattenSeq(s)) : s \in UpToThree(OpenAISegments)}

AnthropicConversations ==
    {AnthropicBody(StringContent(Buried), FlattenSeq(s)) :
        s \in UpToThree(AnthropicSegments)}
      \cup {AnthropicBody(BlocksContent(bs), <<>>) :
               bs \in {<<>>, <<TextBlock(Secret)>>,
                       <<TextBlock(Plain), TextBlock(Secret)>>}}

(* One conversation, every way to limit it and to offer tools.             *)
OpenAIParameters ==
    {[OpenAIBody(<<Saying("user", Plain)>>) EXCEPT
        !.maxTokens = limit, !.tools = tools, !.choice = choice] :
        limit \in {<<>>, <<0>>, <<7>>}, tools \in {<<>>, <<"f", "g">>},
        choice \in {"", "auto", "none", "required", "specific"}}

AnthropicParameters ==
    {[AnthropicBody(StringContent(<<>>),
                    <<AnthropicSays("user", StringContent(Plain))>>) EXCEPT
        !.maxTokens = limit, !.tools = tools, !.choice = choice] :
        limit \in {<<0>>, <<7>>}, tools \in {<<>>, <<"f", "g">>},
        choice \in {"", "auto", "any", "tool"}}

Completions ==
    {[form |-> form, prompt |-> prompt, maxTokens |-> limit, n |-> n,
      temperature |-> <<>>, choice |-> ""] :
        limit \in {<<>>, <<7>>}, n \in {<<>>, <<2>>},
        form \in {"array"}, prompt \in {<<Plain>>, <<Secret, Buried>>}}
      \cup
    {[form |-> "none", prompt |-> <<>>, maxTokens |-> <<7>>, n |-> <<>>,
      temperature |-> <<>>, choice |-> ""]}
      \cup
    {[form |-> form, prompt |-> <<Secret>>, maxTokens |-> <<>>, n |-> <<>>,
      temperature |-> <<7>>, choice |-> ""] : form \in {"string", "raw"}}

-----------------------------------------------------------------------------
ChatReasons == {"", "stop", "length", "tool_calls", "content_filter"}

OpenAIAnswers ==
    {[choices |-> <<>>]} \cup
    {[choices |-> <<[content |-> text, calls |-> calls, reason |-> reason]>>] :
        text \in {Null, <<>>, Buried}, reason \in ChatReasons,
        calls \in {<<>>, <<Call(1), Call(2)>>, <<BrokenCall(1)>>}}

AnthropicAnswers ==
    {[blocks |-> blocks, reason |-> reason] :
        reason \in {"", "end_turn", "max_tokens", "tool_use", "stop_sequence"},
        blocks \in {<<>>, <<TextBlock(<<"s">>), TextBlock(<<"t">>)>>,
                    <<TextBlock(Plain), UseBlock(1), UseBlock(2)>>,
                    <<UseBlock(1)>>, <<BareUse(1)>>}}

CompletionChoices ==
    {[text |-> text, reason |-> reason] :
        text \in {<<>>, Buried}, reason \in {"", "length"}}
CompletionAnswers == {[choices |-> cs] : cs \in SeqOf(CompletionChoices, 2)}

AnswersFrom(kind, backend) ==
    CASE kind = "completion" -> CompletionAnswers
      [] kind = "chat" /\ backend = "openai" -> OpenAIAnswers
      [] OTHER -> AnthropicAnswers

BodiesOf(client, kind) ==
    CASE kind = "completion" -> Completions
      [] kind = "chat" /\ client = "openai" -> OpenAIConversations \cup OpenAIParameters
      [] OTHER -> AnthropicConversations \cup AnthropicParameters

Endpoints ==
    {<<c, "chat", b>> : c, b \in Protocols} \cup {<<"openai", "completion", "openai">>}

Exchanged(e, body, answer, hooksBefore, hooksAfter) ==
    [client |-> e[1], kind |-> e[2], backend |-> e[3], body |-> body,
     answer |-> answer, pre |-> hooksBefore, post |-> hooksAfter]

AnAnswer(e) == CHOOSE a \in AnswersFrom(e[2], e[3]) : TRUE
ABody(e) == CHOOSE b \in BodiesOf(e[1], e[2]) : b.choice = ""

(* Every body with one answer, and every answer to one body.               *)
MCExchanges ==
    UNION {LET anAnswer == AnAnswer(e)
               aBody == ABody(e)
           IN  {Exchanged(e, body, anAnswer, hooks, <<>>) :
                   body \in BodiesOf(e[1], e[2]), hooks \in PreChoices}
                 \cup {Exchanged(e, aBody, answer, <<>>, hooks) :
                   answer \in AnswersFrom(e[2], e[3]), hooks \in PostChoices} :
           e \in Endpoints}

-----------------------------------------------------------------------------
(* An OpenAI client of an Anthropic backend sets the temperature.          *)
ToAnthropic == <<"openai", "chat", "anthropic">>

WithTemperature ==
    {Exchanged(ToAnthropic, [OpenAIBody(<<Saying("user", Plain)>>) EXCEPT
                                 !.temperature = <<1>>],
               AnAnswer(ToAnthropic), <<>>, <<>>)}

(* The modifier of docs.md/hooks.md:103, and a prompt of several symbols.  *)
WithPreamble ==
    {Exchanged(ToAnthropic, OpenAIBody(<<Saying("system", Secret)>>),
               AnAnswer(ToAnthropic),
               <<[target |-> "system",
                  replacements |-> {[old |-> <<>>, new |-> <<"always">>]}]>>, <<>>)}

-----------------------------------------------------------------------------
(* The hypotheses of the theorems hold of these exchanges.                 *)
ASSUME HypothesesHold == AnswersAreSayable /\ BodiesAreProper

=============================================================================
