---------------------------- MODULE OpenAIStream ----------------------------
(***************************************************************************)
(* The OpenAI streaming format (internal/stream/openai.go): the decoder    *)
(* that reads a backend's chunks, the encoder that writes a client's, and  *)
(* what a client of the protocol understands from a chunk.                 *)
(*                                                                         *)
(* "usage" is a chunk with usage and no choices, "error" an object with an *)
(* error member and nothing else, "done" the [DONE] sentinel, "garbage"    *)
(* data that is not a chunk.  plain is choices[0].text, the field of       *)
(* legacy completions, which has no place in openaiChoice.  A tool-call    *)
(* entry with neither id nor arguments says nothing and is left out.       *)
(***************************************************************************)
EXTENDS StreamEvents

ToolCallEntry == [index: Nat, call: Nat, args: Nat, function: BOOLEAN]

Chunk == [kind: {"chunk", "usage", "error", "done", "garbage"},
          text: Nat, plain: Nat, calls: Seq(ToolCallEntry), finish: Reasons]

Entries(c) == {c.calls[n] : n \in DOMAIN c.calls}

BareChunk(kind) ==
    [kind |-> kind, text |-> 0, plain |-> 0, calls |-> <<>>, finish |-> ""]
TextChunk(t) == [BareChunk("chunk") EXCEPT !.text = t]
PlainChunk(t) == [BareChunk("chunk") EXCEPT !.plain = t]
FinishChunk(r) == [BareChunk("chunk") EXCEPT !.finish = r]
CallChunk(entry) == [BareChunk("chunk") EXCEPT !.calls = <<entry>>]

-----------------------------------------------------------------------------
(* OpenAIStreamDecoder.  Next is called until what a chunk has queued is   *)
(* used up, so a chunk is one step that yields a sequence of events.       *)

IsDone(c) == c.kind = "done"
IsBadChunk(c) == c.kind = "garbage"

(* buildToolCallEvents reads tc.Function.Name of every entry with an id.   *)
Panics(c) == \E e \in Entries(c) : e.call # 0 /\ ~e.function

(* An entry with an id begins a call: its arguments, if any, are not read. *)
ToolCallEvent(e) ==
    IF e.call # 0 THEN ToolCallStart(e.call, e.index)
    ELSE ToolCallDelta(e.args, e.index)

ToolCallEvents(calls) == [n \in DOMAIN calls |-> ToolCallEvent(calls[n])]

TextEvents(c) == IF c.text # 0 THEN <<TextDelta(c.text)>> ELSE <<>>

(* Variant: what the first chunk carries besides the role is not queued.   *)
DecodeChunkWithoutQueue(started, c) ==
    CASE ~started -> <<Plain("stream_start")>>
      [] started /\ c.kind = "usage" -> <<Plain("usage")>>
      [] started /\ c.kind # "usage" /\ c.finish # "" -> <<Stop(c.finish)>>
      [] started /\ c.kind # "usage" /\ c.finish = "" /\ c.text # 0 ->
            <<TextDelta(c.text)>>
      [] OTHER -> ToolCallEvents(c.calls)

DecodeChunk(started, c) ==
    CASE ~started -> <<Plain("stream_start")>>
                       \o TextEvents(c) \o ToolCallEvents(c.calls)
      [] started /\ c.kind = "usage" -> <<Plain("usage")>>
      [] started /\ c.kind # "usage" /\ c.finish # "" -> <<Stop(c.finish)>>
      [] started /\ c.kind # "usage" /\ c.finish = "" /\ c.text # 0 ->
            <<TextDelta(c.text)>>
      [] OTHER -> ToolCallEvents(c.calls)

-----------------------------------------------------------------------------
(* OpenAIStreamEncoder.  Usage events are not forwarded.                   *)

FinishOf(ev) == IF ev.reason = "" THEN "stop" ELSE ev.reason

EncodeChunk(ev) ==
    CASE ev.type = "stream_start" -> <<BareChunk("chunk")>>
      [] ev.type = "text_delta" -> <<TextChunk(ev.text)>>
      [] ev.type = "tool_call_start" ->
            <<CallChunk([index |-> ev.index, call |-> ev.call, args |-> 0,
                         function |-> TRUE])>>
      [] ev.type = "tool_call_delta" ->
            <<CallChunk([index |-> ev.index, call |-> 0, args |-> ev.text,
                         function |-> TRUE])>>
      [] ev.type = "stop" ->
            <<FinishChunk(FinishOf(ev))>>
      [] ev.type = "error" -> <<BareChunk("error")>>
      [] OTHER -> <<>>

DoneChunk == BareChunk("done")

-----------------------------------------------------------------------------
(* A client of the protocol: text is appended to the answer, an entry with *)
(* an id names the call its index stands for from then on, arguments go to *)
(* the call of their index, [DONE] ends the stream.                        *)

EntryPiece(m, e) ==
    [of |-> IF e.call # 0 THEN e.call ELSE OwnerAt(m, e.index),
     text |-> e.args]

TextPieces(t) == IF t = 0 THEN <<>> ELSE <<[of |-> 0, text |-> t]>>

CallPieces(m, calls) == [n \in DOMAIN calls |-> EntryPiece(m, calls[n])]

Pieces(m, c) == TextPieces(c.text) \o TextPieces(c.plain)
                  \o CallPieces(m, c.calls)

Announced(c) ==
    {<<e.index, e.call>> : e \in {e \in Entries(c) : e.call # 0}}

SlotsAfter(m, c) ==
    {s \in m.slots : \A a \in Announced(c) : a[1] # s[1]} \cup Announced(c)

ReadChunk(m, c) ==
    CASE c.kind = "error" -> [m EXCEPT !.phase = "failed"]
      [] c.kind = "done" ->
            IF m.phase = "failed" THEN m ELSE [m EXCEPT !.phase = "ended"]
      [] c.kind \in {"chunk", "usage"} ->
            [Opened(m) EXCEPT !.slots = SlotsAfter(m, c),
                              !.got = @ \o Pieces(m, c),
                              !.reason = IF c.finish # "" THEN c.finish ELSE @]
      [] OTHER -> m

=============================================================================
