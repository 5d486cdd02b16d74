---------------------------- MODULE StreamEvents ----------------------------
(***************************************************************************)
(* The protocol-neutral events of a streamed answer                        *)
(* (internal/pipeline/model.go), which every stream decoder produces and   *)
(* every stream encoder consumes, and the message a reader of a stream     *)
(* puts together.                                                          *)
(*                                                                         *)
(* A piece of text (an answer token, a fragment of tool arguments) is a    *)
(* natural number that names it: 0 is the empty string.  A tool call's id  *)
(* is a positive number: 0 is the empty id.                                *)
(***************************************************************************)
EXTENDS Pipeline, Integers, Sequences

-----------------------------------------------------------------------------
(* Why a generation stops, in each protocol's own words, and the maps      *)
(* between them (internal/protocol/anthropic/codec.go).  Both maps pass a  *)
(* word they do not know through unchanged.                                *)

FinishReasons == {"stop", "length", "tool_calls", "content_filter"}
StopReasons == {"end_turn", "max_tokens", "tool_use", "stop_sequence"}
Reasons == FinishReasons \cup StopReasons \cup {""}

MapFinishReason(r) ==
    CASE r = "stop"       -> "end_turn"
      [] r = "length"     -> "max_tokens"
      [] r = "tool_calls" -> "tool_use"
      [] OTHER            -> r

MapStopReason(r) ==
    CASE r = "end_turn"   -> "stop"
      [] r = "max_tokens" -> "length"
      [] r = "tool_use"   -> "tool_calls"
      [] OTHER            -> r

-----------------------------------------------------------------------------
StreamEventTypes == {"stream_start", "text_delta", "usage", "stop", "error",
                     "tool_call_start", "tool_call_delta"}

StreamEvent == [type: StreamEventTypes, text: Nat, call: Nat, index: Nat,
                reason: Reasons]

Plain(type) ==
    [type |-> type, text |-> 0, call |-> 0, index |-> 0, reason |-> ""]

TextDelta(t) == [Plain("text_delta") EXCEPT !.text = t]
ToolCallStart(k, i) ==
    [Plain("tool_call_start") EXCEPT !.call = k, !.index = i]
ToolCallDelta(t, i) ==
    [Plain("tool_call_delta") EXCEPT !.text = t, !.index = i]
Stop(r) == [Plain("stop") EXCEPT !.reason = r]

-----------------------------------------------------------------------------
(* What a reader of a stream holds: how far the stream is, which tool call *)
(* or text block each index stands for (pairs of index and owner), how     *)
(* many blocks were begun and which are open (Anthropic), the pieces       *)
(* received in order, and the reason given for stopping.  A piece belongs  *)
(* to a tool call, to the answer's text (0) or, when its index was never   *)
(* announced, to nothing (Stray).                                          *)

Stray == -1
Owners == Nat \cup {Stray}
Piece == [of: Owners, text: Nat]

Message == [phase: {"before", "open", "ended", "failed"},
            slots: SUBSET (Nat \X Nat), begun: Nat, open: SUBSET Nat,
            got: Seq(Piece), reason: Reasons]

NoMessage == [phase |-> "before", slots |-> {}, begun |-> 0, open |-> {},
              got |-> <<>>, reason |-> ""]

OwnerAt(m, i) ==
    IF \E s \in m.slots : s[1] = i
    THEN (CHOOSE s \in m.slots : s[1] = i)[2]
    ELSE Stray

(* The index i stands for the owner o from now on.                         *)
Assign(slots, i, o) == {s \in slots : s[1] # i} \cup {<<i, o>>}

(* A reader that sees anything of a stream knows it has started.           *)
Opened(m) == IF m.phase = "before" THEN [m EXCEPT !.phase = "open"] ELSE m

=============================================================================
