-------------------------- MODULE AnthropicStream --------------------------
(***************************************************************************)
(* The Anthropic streaming format (internal/stream/anthropic.go): the      *)
(* decoder that reads a backend's typed events, the encoder that writes a  *)
(* client's, and what a client of the protocol understands from a frame.   *)
(* A frame's kind is its SSE event name; "garbage" is a known event whose  *)
(* data does not parse.  block tells text from tool_use, of a block or of  *)
(* a delta.                                                                *)
(***************************************************************************)
EXTENDS StreamEvents

Frame == [kind: {"message_start", "content_block_start",
                 "content_block_delta", "content_block_stop",
                 "message_delta", "message_stop", "ping", "error", "garbage"},
          block: {"", "text", "tool_use"},
          index: Nat, call: Nat, text: Nat, reason: Reasons]

BareFrame(kind) == [kind |-> kind, block |-> "", index |-> 0, call |-> 0,
               text |-> 0, reason |-> ""]
BlockStart(b, i, k) == [BareFrame("content_block_start")
                          EXCEPT !.block = b, !.index = i, !.call = k]
BlockDelta(b, i, t) == [BareFrame("content_block_delta")
                          EXCEPT !.block = b, !.index = i, !.text = t]
BlockStop(i) == [BareFrame("content_block_stop") EXCEPT !.index = i]
MessageDelta(r) == [BareFrame("message_delta") EXCEPT !.reason = r]

-----------------------------------------------------------------------------
(* AnthropicStreamDecoder.  A frame yields at most one event; the names    *)
(* the switch does not list, "error" among them, yield none.               *)

IsStop(f) == f.kind = "message_stop"
IsBadFrame(f) == f.kind = "garbage"

DecodeFrame(f) ==
    CASE f.kind = "message_start" -> <<Plain("stream_start")>>
      [] f.kind = "content_block_start" /\ f.block = "tool_use" ->
            <<ToolCallStart(f.call, f.index)>>
      [] f.kind = "content_block_delta" /\ f.block = "text" ->
            <<TextDelta(f.text)>>
      [] f.kind = "content_block_delta" /\ f.block = "tool_use" ->
            <<ToolCallDelta(f.text, f.index)>>
      [] f.kind = "message_delta" -> <<Stop(MapStopReason(f.reason))>>
      [] OTHER -> <<>>

-----------------------------------------------------------------------------
(* AnthropicStreamEncoder: the index of the block being written and        *)
(* whether a text or a tool block has been begun at it.                    *)

Encoder == [blockIndex: Nat, hasTextBlock: BOOLEAN, hasToolBlock: BOOLEAN]

NewEncoder ==
    [blockIndex |-> 0, hasTextBlock |-> FALSE, hasToolBlock |-> FALSE]

HasBlock(e) == e.hasTextBlock \/ e.hasToolBlock

(* The index a tool block gets: the next one if a block has been begun.    *)
ToolIndex(e) == IF HasBlock(e) THEN e.blockIndex + 1 ELSE e.blockIndex

(* Variant: only a text block is closed.                                   *)
StopIfText(e) == IF e.hasTextBlock THEN <<BlockStop(e.blockIndex)>> ELSE <<>>

StopIfBegun(e) == IF HasBlock(e) THEN <<BlockStop(e.blockIndex)>> ELSE <<>>

StartText(e) == IF e.hasTextBlock THEN <<>>
                ELSE <<BlockStart("text", e.blockIndex, 0)>>

EncodeFrames(e, ev) ==
    CASE ev.type = "stream_start" -> <<BareFrame("message_start")>>
      [] ev.type = "text_delta" ->
            Append(StartText(e), BlockDelta("text", e.blockIndex, ev.text))
      [] ev.type = "tool_call_start" ->
            Append(StopIfBegun(e), BlockStart("tool_use", ToolIndex(e), ev.call))
      [] ev.type = "tool_call_delta" ->
            <<BlockDelta("tool_use", e.blockIndex, ev.text)>>
      [] ev.type = "stop" ->
            StopIfBegun(e) \o <<MessageDelta(MapFinishReason(ev.reason)),
                                BareFrame("message_stop")>>
      [] ev.type = "error" -> <<BareFrame("error")>>
      [] OTHER -> <<>>

(* Variant: blockIndex is not advanced with the block it announces.        *)
AfterEncodeSameIndex(e, ev) ==
    CASE ev.type = "text_delta" -> [e EXCEPT !.hasTextBlock = TRUE]
      [] ev.type = "tool_call_start" ->
            [e EXCEPT !.hasTextBlock = FALSE, !.hasToolBlock = TRUE]
      [] OTHER -> e

AfterEncode(e, ev) ==
    CASE ev.type = "text_delta" -> [e EXCEPT !.hasTextBlock = TRUE]
      [] ev.type = "tool_call_start" ->
            [blockIndex |-> ToolIndex(e),
             hasTextBlock |-> FALSE, hasToolBlock |-> TRUE]
      [] OTHER -> e

-----------------------------------------------------------------------------
(* A client of the protocol: a block start says what its index stands for, *)
(* a delta goes to the open block of its index, message_stop ends the      *)
(* stream.                                                                 *)

StartPieces(f) ==
    IF f.block = "tool_use" THEN <<[of |-> f.call, text |-> 0]>> ELSE <<>>

OwnerOf(m, i) == IF i \in m.open THEN OwnerAt(m, i) ELSE Stray

ReadFrame(m, f) ==
    CASE f.kind = "message_start" -> Opened(m)
      [] f.kind = "content_block_start" ->
            [m EXCEPT !.slots = Assign(@, f.index, f.call),
                      !.begun = @ + 1,
                      !.open = @ \cup {f.index},
                      !.got = @ \o StartPieces(f)]
      [] f.kind = "content_block_delta" ->
            [m EXCEPT !.got = Append(@, [of |-> OwnerOf(m, f.index),
                                         text |-> f.text])]
      [] f.kind = "content_block_stop" -> [m EXCEPT !.open = @ \ {f.index}]
      [] f.kind = "message_delta" -> [m EXCEPT !.reason = f.reason]
      [] f.kind = "message_stop" -> [m EXCEPT !.phase = "ended"]
      [] f.kind = "error" -> [m EXCEPT !.phase = "failed"]
      [] OTHER -> m

=============================================================================
