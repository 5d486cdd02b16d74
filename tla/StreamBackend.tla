--------------------------- MODULE StreamBackend ---------------------------
(***************************************************************************)
(* The streams that backends send, as the decoders of internal/stream and  *)
(* their tests know them.  All of it is outside the repository: a backend  *)
(* is a state (up) and the set of frames it may send next.                 *)
(*                                                                         *)
(* Without quirks an OpenAI backend sends a first chunk with a role and    *)
(* perhaps content, then text, then tool calls one after the other, each   *)
(* announced before its arguments, one finish chunk, perhaps usage, and    *)
(* [DONE]; an Anthropic backend sends message_start, blocks one at a time, *)
(* message_delta and message_stop.  Its quirks are what real servers do    *)
(* besides:                                                                *)
(*   text_after_tool     text after a tool call was begun                  *)
(*   interleaved_tools   arguments of an earlier tool call                 *)
(*   args_with_start     arguments in the entry that announces the call    *)
(*   no_function         an announced call without a function object       *)
(*   finish_first        the finish reason in the first chunk              *)
(*   finish_with_text    text in the chunk that has the finish reason      *)
(*   other_reason        content_filter, stop_sequence: reasons without a  *)
(*                       counterpart in the other protocol                 *)
(*   completions         text in choices[].text (the legacy endpoint)      *)
(*   upstream_error      an error object or event instead of an answer     *)
(*   clean_cut           closing in good order before the stream is over   *)
(***************************************************************************)
EXTENDS OpenAIStream, AnthropicStream

CONSTANTS MaxItems,     \* pieces of text a backend sends
          MaxCalls,     \* tool calls it begins
          MaxBlocks     \* content blocks it begins (Anthropic)

AllQuirks == {"text_after_tool", "interleaved_tools", "args_with_start",
              "no_function", "finish_first", "finish_with_text",
              "other_reason", "completions", "upstream_error", "clean_cut"}

ASSUME StreamBackendAssumption ==
    MaxItems \in Nat /\ MaxCalls \in Nat /\ MaxBlocks \in Nat

Backend == [phase: {"new", "open", "finished", "counted", "over"}, items: Nat,
            calls: Nat, index: Nat, block: {"", "text", "tool_use"},
            quirks: SUBSET AllQuirks]

NewBackend(quirks) ==
    [phase |-> "new", items |-> 0, calls |-> 0, index |-> 0, block |-> "",
     quirks |-> quirks]

(* Sending f, after which the backend is v; the moves S, if c holds.       *)
Send(f, v) == [frame |-> f, next |-> v]
When(c, S) == IF c THEN S ELSE {}
Quirk(u, q, S) == When(q \in u.quirks, S)

TextAllowed(u) == u.calls = 0 \/ "text_after_tool" \in u.quirks
ItemLeft(u) == u.items < MaxItems
WithItem(u) == [u EXCEPT !.items = @ + 1, !.phase = "open"]
WithCalls(u, n) == [u EXCEPT !.calls = @ + n, !.phase = "open"]
Finished(u) == [u EXCEPT !.phase = "finished"]
Ended(u) == [u EXCEPT !.phase = "over"]

-----------------------------------------------------------------------------
(* OpenAI: call k has index k - 1.                                         *)

Announce(k, args) ==
    [index |-> k - 1, call |-> k, args |-> args, function |-> TRUE]
Arguments(k, t) ==
    [index |-> k - 1, call |-> 0, args |-> t, function |-> TRUE]

AnswerChunk(u, t) ==
    IF "completions" \in u.quirks THEN PlainChunk(t) ELSE TextChunk(t)

OpenAITexts(u) ==
    When(ItemLeft(u) /\ TextAllowed(u),
         {Send(AnswerChunk(u, u.items + 1), WithItem(u))})

OpenAICalls(u) ==
    LET one == Announce(u.calls + 1, 0)
        two == Announce(u.calls + 2, 0)
        full == Announce(u.calls + 1, u.items + 1)
        empty == [one EXCEPT !.function = FALSE]
    IN  When(u.calls < MaxCalls,
             {Send(CallChunk(one), WithCalls(u, 1))}
             \cup Quirk(u, "no_function",
                  {Send(CallChunk(empty), WithCalls(u, 1))})
             \cup Quirk(u, "args_with_start",
                  When(ItemLeft(u),
                       {Send(CallChunk(full), WithItem(WithCalls(u, 1)))})))
        \cup When(u.calls + 1 < MaxCalls,
             {Send([BareChunk("chunk") EXCEPT !.calls = <<one, two>>],
                   WithCalls(u, 2))})

OpenAIArguments(u) ==
    When(ItemLeft(u),
         {Send(CallChunk(Arguments(k, u.items + 1)), WithItem(u)) :
             k \in {k \in 1..u.calls :
                       k = u.calls \/ "interleaved_tools" \in u.quirks}})

OpenAIContent(u) == OpenAITexts(u) \cup OpenAICalls(u) \cup OpenAIArguments(u)

FinishReasonsOf(u) ==
    (IF u.calls > 0 THEN {"tool_calls"} ELSE {"stop", "length"})
    \cup Quirk(u, "other_reason", {"content_filter"})

OpenAIFinishes(u) ==
    {Send(FinishChunk(r), Finished(u)) : r \in FinishReasonsOf(u)}
    \cup Quirk(u, "finish_with_text",
         When(ItemLeft(u),
              {Send([FinishChunk("stop") EXCEPT !.text = u.items + 1],
                    Finished(WithItem(u)))}))

OpenAISends(u) ==
    CASE u.phase = "new" ->
            {Send(BareChunk("chunk"), [u EXCEPT !.phase = "open"])}
            \cup OpenAIContent(u)
            \cup Quirk(u, "finish_first", OpenAIFinishes(u))
      [] u.phase = "open" -> OpenAIContent(u) \cup OpenAIFinishes(u)
      [] u.phase = "finished" ->
            {Send(BareChunk("usage"), [u EXCEPT !.phase = "counted"]),
             Send(DoneChunk, Ended(u))}
      [] u.phase = "counted" -> {Send(DoneChunk, Ended(u))}
      [] OTHER -> {}

-----------------------------------------------------------------------------
(* Anthropic: one block is open at a time, block n has index n - 1.        *)

AnthropicBlocks(u) ==
    When(u.index < MaxBlocks /\ TextAllowed(u),
         {Send(BlockStart("text", u.index, 0), [u EXCEPT !.block = "text"])})
    \cup
    When(u.index < MaxBlocks /\ u.calls < MaxCalls,
         {Send(BlockStart("tool_use", u.index, u.calls + 1),
               [WithCalls(u, 1) EXCEPT !.block = "tool_use"])})

AnthropicInBlock(u) ==
    {Send(BlockStop(u.index), [u EXCEPT !.block = "", !.index = @ + 1])}
    \cup When(ItemLeft(u),
              {Send(BlockDelta(u.block, u.index, u.items + 1), WithItem(u))})

StopReasonsOf(u) ==
    (IF u.calls > 0 THEN {"tool_use"} ELSE {"end_turn", "max_tokens"})
    \cup Quirk(u, "other_reason", {"stop_sequence"})

AnthropicFinishes(u) ==
    {Send(MessageDelta(r), Finished(u)) : r \in StopReasonsOf(u)}

AnthropicSends(u) ==
    CASE u.phase = "new" ->
            {Send(BareFrame("message_start"), [u EXCEPT !.phase = "open"])}
      [] u.phase = "open" ->
            {Send(BareFrame("ping"), u)}
            \cup (IF u.block = ""
                  THEN AnthropicBlocks(u) \cup AnthropicFinishes(u)
                  ELSE AnthropicInBlock(u))
      [] u.phase = "finished" -> {Send(BareFrame("message_stop"), Ended(u))}
      [] OTHER -> {}

-----------------------------------------------------------------------------
Frames(p) == IF p = "openai" THEN Chunk ELSE Frame
BareOf(p, kind) == IF p = "openai" THEN BareChunk(kind) ELSE BareFrame(kind)

(* What a backend of protocol p may send next.  It may also break off with *)
(* data that is not a frame or, with the quirk, with an error.             *)
Sends(p, u) ==
    (IF p = "openai" THEN OpenAISends(u) ELSE AnthropicSends(u))
    \cup When(u.phase # "over", {Send(BareOf(p, "garbage"), Ended(u))})
    \cup Quirk(u, "upstream_error",
         When(u.phase \in {"new", "open"},
              {Send(BareOf(p, "error"), Ended(u))}))

(* It closes the connection in good order once it has said why it stopped. *)
MayClose(u) == u.phase \in {"finished", "counted", "over"}
                 \/ "clean_cut" \in u.quirks

(* What a client of protocol p makes of a frame.                           *)
ReadAs(p, m, f) == IF p = "openai" THEN ReadChunk(m, f) ELSE ReadFrame(m, f)

=============================================================================
