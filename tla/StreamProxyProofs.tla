------------------------- MODULE StreamProxyProofs -------------------------
(***************************************************************************)
(* Theorems about StreamProxy for every number of items, calls and blocks, *)
(* every set of backend quirks and every set of client protocols: what     *)
(* holds of a stream whatever it says.  What it says is the subject of     *)
(* StreamClientProofs.                                                     *)
(*                                                                         *)
(* Types first: what decoders, encoders, readers and backends make of      *)
(* typed arguments, then TypeOK.  Then the error hooks: ReportInv says     *)
(* how often they have run at each point of the handler, that nothing but  *)
(* handleHTTPStreamError puts an error frame in the client's stream, and   *)
(* that between its run and the handler's return the report is either      *)
(* still whole in front of the client or already heard.                    *)
(*                                                                         *)
(* Then the ends: a stream that the backend did not finish is not passed   *)
(* off as finished (EndInv), and no connected client is left without an    *)
(* end (SilenceInv).  Then the form: what a client sees is a stream that   *)
(* ClientStream allows (ClientInv).                                        *)
(*                                                                         *)
(* The ends hold only if backends say why they stop: for one that reports  *)
(* an error in mid-stream or closes before it has finished they are false  *)
(* (the run stream_upstream_error), and the second also for one that gives *)
(* its reason in the first chunk.  The form fails for an Anthropic client  *)
(* whose backend sends text after a tool call.  Those quirks are assumed   *)
(* away by name.                                                           *)
(***************************************************************************)
EXTENDS StreamProxy, SequenceTheorems, TLAPS

-----------------------------------------------------------------------------
(* Events and decoders.                                                    *)

(* An event with a type and nothing else is an event.                      *)
LEMMA PlainType ==
    ASSUME NEW t \in StreamEventTypes PROVE Plain(t) \in StreamEvent
BY DEF Plain, StreamEvent, Reasons

(* The events that carry something are events.                             *)
LEMMA EventTypes ==
    /\ \A t \in Nat : TextDelta(t) \in StreamEvent
    /\ \A k, i \in Nat : ToolCallStart(k, i) \in StreamEvent
    /\ \A t, i \in Nat : ToolCallDelta(t, i) \in StreamEvent
    /\ \A r \in Reasons : Stop(r) \in StreamEvent
<1>1. /\ Plain("text_delta") \in StreamEvent
      /\ Plain("tool_call_start") \in StreamEvent
      /\ Plain("tool_call_delta") \in StreamEvent
      /\ Plain("stop") \in StreamEvent
  BY PlainType DEF StreamEventTypes
<1>2. QED
  BY <1>1 DEF TextDelta, ToolCallStart, ToolCallDelta, Stop, StreamEvent

(* The events of an answer.                                                *)
AnswerEvent == {ev \in StreamEvent : ev.type # "error"}

(* What a decoder makes is never an error event (anthropic.go:134 and      *)
(* openai.go have no case that makes one).                                 *)
LEMMA AnswerEvents ==
    /\ Plain("stream_start") \in AnswerEvent
    /\ Plain("usage") \in AnswerEvent
    /\ \A t \in Nat : TextDelta(t) \in AnswerEvent
    /\ \A k, i \in Nat : ToolCallStart(k, i) \in AnswerEvent
    /\ \A t, i \in Nat : ToolCallDelta(t, i) \in AnswerEvent
    /\ \A r \in Reasons : Stop(r) \in AnswerEvent
<1>1. /\ Plain("stream_start") \in StreamEvent
      /\ Plain("usage") \in StreamEvent
  BY PlainType DEF StreamEventTypes
<1>2. /\ Plain("stream_start").type # "error"
      /\ Plain("usage").type # "error"
      /\ \A t : TextDelta(t).type # "error"
      /\ \A k, i : ToolCallStart(k, i).type # "error"
      /\ \A t, i : ToolCallDelta(t, i).type # "error"
      /\ \A r : Stop(r).type # "error"
  BY DEF Plain, TextDelta, ToolCallStart, ToolCallDelta, Stop
<1>3. QED
  BY <1>1, <1>2, EventTypes DEF AnswerEvent

(* The fields of a tool-call entry.                                        *)
LEMMA EntryType ==
    ASSUME NEW e \in ToolCallEntry
    PROVE  /\ e.index \in Nat /\ e.call \in Nat /\ e.args \in Nat
           /\ e.function \in BOOLEAN
BY DEF ToolCallEntry

(* An OpenAI chunk decodes to events of an answer, the first chunk         *)
(* included.                                                               *)
LEMMA DecodeChunkType ==
    ASSUME NEW b \in BOOLEAN, NEW c \in Chunk
    PROVE  DecodeChunk(b, c) \in Seq(AnswerEvent)
<1>1. ToolCallEvents(c.calls) \in Seq(AnswerEvent)
  <2>1. \A e \in ToolCallEntry : ToolCallEvent(e) \in AnswerEvent
    BY EntryType, AnswerEvents DEF ToolCallEvent
  <2>2. c.calls \in Seq(ToolCallEntry)
    BY DEF Chunk
  <2>3. QED
    BY <2>1, <2>2 DEF ToolCallEvents
<1>2. Stop(c.finish) \in AnswerEvent /\ TextDelta(c.text) \in AnswerEvent
  BY AnswerEvents DEF Chunk
<1>3. TextEvents(c) \in Seq(AnswerEvent)
  BY <1>2 DEF TextEvents
<1>4. <<Plain("stream_start")>> \o TextEvents(c) \o ToolCallEvents(c.calls)
        \in Seq(AnswerEvent)
  BY <1>1, <1>3, AnswerEvents
<1>5. /\ <<Plain("usage")>> \in Seq(AnswerEvent)
      /\ <<Stop(c.finish)>> \in Seq(AnswerEvent)
      /\ <<TextDelta(c.text)>> \in Seq(AnswerEvent)
  BY <1>2, AnswerEvents
<1>6. QED
  BY <1>1, <1>4, <1>5, Zenon DEF DecodeChunk

(* An Anthropic frame decodes to events of an answer.                      *)
LEMMA DecodeFrameType ==
    ASSUME NEW f \in Frame
    PROVE  DecodeFrame(f) \in Seq(AnswerEvent)
<1>1. MapStopReason(f.reason) \in Reasons
  BY DEF MapStopReason, Frame, Reasons, FinishReasons, StopReasons
<1>2. /\ ToolCallStart(f.call, f.index) \in AnswerEvent
      /\ TextDelta(f.text) \in AnswerEvent
      /\ ToolCallDelta(f.text, f.index) \in AnswerEvent
      /\ Stop(MapStopReason(f.reason)) \in AnswerEvent
  BY <1>1, AnswerEvents DEF Frame
<1>3. QED
  BY <1>2, AnswerEvents DEF DecodeFrame

-----------------------------------------------------------------------------
(* Frames and encoders.                                                    *)

(* A chunk with a kind and nothing else is a chunk.                        *)
LEMMA BareChunkType ==
    ASSUME NEW k \in {"chunk", "usage", "error", "done", "garbage"}
    PROVE  BareChunk(k) \in Chunk
BY DEF BareChunk, Chunk, Reasons

(* The chunks that carry something are chunks.                             *)
LEMMA ChunkTypes ==
    /\ \A t \in Nat : TextChunk(t) \in Chunk
    /\ \A t \in Nat : PlainChunk(t) \in Chunk
    /\ \A r \in Reasons : FinishChunk(r) \in Chunk
    /\ \A e \in ToolCallEntry : CallChunk(e) \in Chunk
<1>1. BareChunk("chunk") \in Chunk
  BY BareChunkType
<1>2. \A e \in ToolCallEntry : <<e>> \in Seq(ToolCallEntry)
  OBVIOUS
<1>3. QED
  BY <1>1, <1>2 DEF TextChunk, PlainChunk, FinishChunk, CallChunk, Chunk

(* The fields of an event.                                                 *)
LEMMA EventFields ==
    ASSUME NEW ev \in StreamEvent
    PROVE  /\ ev.text \in Nat /\ ev.call \in Nat /\ ev.index \in Nat
           /\ ev.reason \in Reasons
BY DEF StreamEvent

(* Every event, an error too, is encoded as OpenAI chunks.                 *)
LEMMA EncodeChunkType ==
    ASSUME NEW ev \in StreamEvent
    PROVE  EncodeChunk(ev) \in Seq(Chunk)
<1>1. FinishOf(ev) \in Reasons
  BY EventFields DEF FinishOf, Reasons, FinishReasons
<1>2. /\ [index |-> ev.index, call |-> ev.call, args |-> 0, function |-> TRUE]
           \in ToolCallEntry
      /\ [index |-> ev.index, call |-> 0, args |-> ev.text, function |-> TRUE]
           \in ToolCallEntry
  BY EventFields DEF ToolCallEntry
<1>3. QED
  BY <1>1, <1>2, EventFields, ChunkTypes, BareChunkType DEF EncodeChunk

(* A frame with a kind and nothing else is a frame.                        *)
LEMMA BareFrameType ==
    ASSUME NEW k \in {"message_start", "content_block_start",
                 "content_block_delta", "content_block_stop",
                 "message_delta", "message_stop", "ping", "error", "garbage"}
    PROVE  BareFrame(k) \in Frame
BY DEF BareFrame, Frame, Reasons

(* The Anthropic frames that carry something are frames.                   *)
LEMMA FrameTypes ==
    /\ \A b \in {"text", "tool_use"}, i, n \in Nat :
          BlockStart(b, i, n) \in Frame /\ BlockDelta(b, i, n) \in Frame
    /\ \A i \in Nat : BlockStop(i) \in Frame
    /\ \A r \in Reasons : MessageDelta(r) \in Frame
<1>1. /\ BareFrame("content_block_start") \in Frame
      /\ BareFrame("content_block_delta") \in Frame
      /\ BareFrame("content_block_stop") \in Frame
      /\ BareFrame("message_delta") \in Frame
  BY BareFrameType
<1>2. QED
  BY <1>1 DEF BlockStart, BlockDelta, BlockStop, MessageDelta, Frame

(* The fields of the Anthropic encoder, and the index of a new tool block. *)
LEMMA EncoderFields ==
    ASSUME NEW e \in Encoder
    PROVE  /\ e.blockIndex \in Nat /\ e.hasTextBlock \in BOOLEAN
           /\ e.hasToolBlock \in BOOLEAN /\ ToolIndex(e) \in Nat
BY DEF Encoder, ToolIndex

(* Every event, an error too, is encoded as Anthropic frames.              *)
LEMMA EncodeFramesType ==
    ASSUME NEW e \in Encoder, NEW ev \in StreamEvent
    PROVE  EncodeFrames(e, ev) \in Seq(Frame)
<1>1. MapFinishReason(ev.reason) \in Reasons
  BY EventFields DEF MapFinishReason, Reasons, FinishReasons, StopReasons
<1>2. /\ StartText(e) \in Seq(Frame)
      /\ StopIfBegun(e) \in Seq(Frame)
  BY FrameTypes, EncoderFields DEF StartText, StopIfBegun
<1>3. /\ BlockDelta("text", e.blockIndex, ev.text) \in Frame
      /\ BlockDelta("tool_use", e.blockIndex, ev.text) \in Frame
      /\ BlockStart("tool_use", ToolIndex(e), ev.call) \in Frame
      /\ MessageDelta(MapFinishReason(ev.reason)) \in Frame
      /\ BareFrame("message_start") \in Frame
      /\ BareFrame("message_stop") \in Frame
      /\ BareFrame("error") \in Frame
  BY <1>1, FrameTypes, BareFrameType, EncoderFields, EventFields
<1>4. QED
  BY <1>2, <1>3 DEF EncodeFrames

(* Encoding leaves the encoder an encoder.                                 *)
LEMMA AfterEncodeType ==
    ASSUME NEW e \in Encoder, NEW ev \in StreamEvent
    PROVE  AfterEncode(e, ev) \in Encoder
BY EncoderFields DEF AfterEncode, Encoder

-----------------------------------------------------------------------------
(* Readers.                                                                *)

(* The fields of what a reader holds.                                      *)
LEMMA MessageFields ==
    ASSUME NEW m \in Message
    PROVE  /\ m.slots \subseteq Nat \X Nat
           /\ m.begun \in Nat /\ m.open \subseteq Nat
           /\ m.got \in Seq(Piece) /\ m.reason \in Reasons
           /\ \A i : OwnerAt(m, i) \in Owners
           /\ Opened(m) \in Message
<1>1. m.slots \subseteq Nat \X Nat
  BY DEF Message
<1>2. ASSUME NEW i PROVE OwnerAt(m, i) \in Owners
  <2>1. CASE \E s \in m.slots : s[1] = i
    <3>1. (CHOOSE s \in m.slots : s[1] = i) \in m.slots
      BY <2>1
    <3>2. QED
      BY <1>1, <2>1, <3>1 DEF OwnerAt, Owners
  <2>2. CASE ~ \E s \in m.slots : s[1] = i
    BY <2>2 DEF OwnerAt, Owners
  <2>3. QED
    BY <2>1, <2>2
<1>3. QED
  BY <1>1, <1>2 DEF Message, Opened

(* A chunk is read as a sequence of pieces.                                *)
LEMMA PiecesType ==
    ASSUME NEW m \in Message, NEW c \in Chunk
    PROVE  Pieces(m, c) \in Seq(Piece)
<1>1. /\ c.text \in Nat /\ c.plain \in Nat /\ c.calls \in Seq(ToolCallEntry)
  BY DEF Chunk
<1>2. \A e \in ToolCallEntry : EntryPiece(m, e) \in Piece
  BY EntryType, MessageFields DEF EntryPiece, Piece, Owners
<1>3. CallPieces(m, c.calls) \in Seq(Piece)
  BY <1>1, <1>2 DEF CallPieces
<1>4. ASSUME NEW t \in Nat PROVE TextPieces(t) \in Seq(Piece)
  <2>1. [of |-> 0, text |-> t] \in Piece
    BY DEF Piece, Owners
  <2> QED
    BY <2>1 DEF TextPieces
<1>5. TextPieces(c.text) \in Seq(Piece) /\ TextPieces(c.plain) \in Seq(Piece)
  BY <1>1, <1>4
<1>6. TextPieces(c.text) \o TextPieces(c.plain) \in Seq(Piece)
  BY <1>5
<1> QED
  BY <1>3, <1>6 DEF Pieces

(* Reading a chunk keeps what an OpenAI client holds well typed.           *)
LEMMA ReadChunkType ==
    ASSUME NEW m \in Message, NEW c \in Chunk
    PROVE  ReadChunk(m, c) \in Message
<1>1. /\ c.text \in Nat /\ c.plain \in Nat /\ c.finish \in Reasons
      /\ c.calls \in Seq(ToolCallEntry)
  BY DEF Chunk
<1>2. Pieces(m, c) \in Seq(Piece)
  BY PiecesType
<1>3. SlotsAfter(m, c) \subseteq Nat \X Nat
  <2>1. Entries(c) \subseteq ToolCallEntry
    BY <1>1 DEF Entries
  <2>2. Announced(c) \subseteq Nat \X Nat
    BY <2>1, EntryType DEF Announced
  <2>3. QED
    BY <2>2, MessageFields DEF SlotsAfter
<1>4. \A x \in Message, s \in SUBSET (Nat \X Nat), g \in Seq(Piece),
        r \in Reasons :
        [x EXCEPT !.slots = s, !.got = g, !.reason = r] \in Message
  BY DEF Message
<1>5. [Opened(m) EXCEPT !.slots = SlotsAfter(m, c),
                        !.got = @ \o Pieces(m, c),
                        !.reason = IF c.finish # "" THEN c.finish ELSE @]
        \in Message
  <2>1. /\ Opened(m) \in Message
        /\ Opened(m).got \in Seq(Piece)
        /\ Opened(m).reason \in Reasons
    BY MessageFields
  <2>2. Opened(m).got \o Pieces(m, c) \in Seq(Piece)
    BY <1>2, <2>1
  <2>3. (IF c.finish # "" THEN c.finish ELSE Opened(m).reason) \in Reasons
    BY <1>1, <2>1
  <2>4. QED
    BY <1>3, <1>4, <2>1, <2>2, <2>3
<1>6. /\ [m EXCEPT !.phase = "failed"] \in Message
      /\ [m EXCEPT !.phase = "ended"] \in Message
  BY DEF Message
<1>7. QED
  BY <1>5, <1>6 DEF ReadChunk

(* Reading a frame keeps what an Anthropic client holds well typed.        *)
LEMMA ReadFrameType ==
    ASSUME NEW m \in Message, NEW f \in Frame
    PROVE  ReadFrame(m, f) \in Message
<1>1. /\ f.index \in Nat /\ f.call \in Nat /\ f.text \in Nat
      /\ f.reason \in Reasons
  BY DEF Frame
<1>2. CASE f.kind = "content_block_start"
  <2>1. Assign(m.slots, f.index, f.call) \subseteq Nat \X Nat
    BY <1>1, MessageFields DEF Assign
  <2>2. m.got \o StartPieces(f) \in Seq(Piece)
    <3>1. [of |-> f.call, text |-> 0] \in Piece
      BY <1>1 DEF Piece, Owners
    <3>2. StartPieces(f) \in Seq(Piece) /\ m.got \in Seq(Piece)
      BY <3>1, MessageFields DEF StartPieces
    <3>3. QED
      BY <3>2
  <2>3. m.begun + 1 \in Nat /\ m.open \cup {f.index} \subseteq Nat
    BY <1>1, MessageFields
  <2>4. ReadFrame(m, f) = [m EXCEPT !.slots = Assign(@, f.index, f.call),
                                    !.begun = @ + 1,
                                    !.open = @ \cup {f.index},
                                    !.got = @ \o StartPieces(f)]
    BY <1>2 DEF ReadFrame
  <2>5. QED
    BY <2>1, <2>2, <2>3, <2>4 DEF Message
<1>3. CASE f.kind = "content_block_delta"
  <2>1. [of |-> OwnerOf(m, f.index), text |-> f.text] \in Piece
    BY <1>1, MessageFields DEF OwnerOf, Piece, Owners
  <2>2. Append(m.got, [of |-> OwnerOf(m, f.index), text |-> f.text])
          \in Seq(Piece)
    BY <2>1, MessageFields
  <2>3. ReadFrame(m, f) =
          [m EXCEPT !.got = Append(@, [of |-> OwnerOf(m, f.index),
                                       text |-> f.text])]
    BY <1>3 DEF ReadFrame
  <2>4. QED
    BY <2>2, <2>3 DEF Message
<1>4. CASE f.kind \notin {"content_block_start", "content_block_delta"}
  <2>1. /\ [m EXCEPT !.open = @ \ {f.index}] \in Message
        /\ [m EXCEPT !.reason = f.reason] \in Message
        /\ [m EXCEPT !.phase = "ended"] \in Message
        /\ [m EXCEPT !.phase = "failed"] \in Message
    BY <1>1 DEF Message
  <2>2. QED
    BY <1>4, <2>1, MessageFields DEF ReadFrame
<1>5. QED
  BY <1>2, <1>3, <1>4

-----------------------------------------------------------------------------
(* Backends.                                                               *)

(* A frame a backend sends, and the backend after it.                      *)
Moves(p) == [frame: Frames(p), next: Backend]

(* A backend's counters are natural numbers, and so are their successors.  *)
LEMMA BackendNumbers ==
    ASSUME NEW u \in Backend
    PROVE  /\ u.items \in Nat /\ u.calls \in Nat /\ u.index \in Nat
           /\ u.items + 1 \in Nat /\ u.calls + 1 \in Nat /\ u.index + 1 \in Nat
           /\ \A n \in Nat : u.calls + n \in Nat
<1>1. u.items \in Nat
  BY DEF Backend
<1>2. u.calls \in Nat
  BY DEF Backend
<1>3. u.index \in Nat
  BY DEF Backend
<1>4. QED
  BY <1>1, <1>2, <1>3

(* The updates a backend makes to its state.                               *)
LEMMA BackendMoves ==
    ASSUME NEW u \in Backend
    PROVE  /\ WithItem(u) \in Backend
           /\ \A n \in Nat : WithCalls(u, n) \in Backend
           /\ Finished(u) \in Backend
           /\ Ended(u) \in Backend
           /\ [u EXCEPT !.phase = "open"] \in Backend
           /\ [u EXCEPT !.phase = "counted"] \in Backend
           /\ [u EXCEPT !.block = "text"] \in Backend
           /\ [u EXCEPT !.block = "tool_use"] \in Backend
           /\ [u EXCEPT !.block = "", !.index = @ + 1] \in Backend
<1>1. /\ \A n \in Nat : [u EXCEPT !.items = n, !.phase = "open"] \in Backend
      /\ \A n \in Nat : [u EXCEPT !.calls = n, !.phase = "open"] \in Backend
      /\ \A n \in Nat : [u EXCEPT !.block = "", !.index = n] \in Backend
  BY DEF Backend
<1>2. WithItem(u) \in Backend /\ \A n \in Nat : WithCalls(u, n) \in Backend
  BY <1>1, BackendNumbers DEF WithItem, WithCalls
<1>3. [u EXCEPT !.block = "", !.index = @ + 1] \in Backend
  BY <1>1, BackendNumbers
<1>4. /\ [u EXCEPT !.phase = "open"] \in Backend
      /\ [u EXCEPT !.phase = "counted"] \in Backend
      /\ [u EXCEPT !.phase = "finished"] \in Backend
      /\ [u EXCEPT !.phase = "over"] \in Backend
      /\ [u EXCEPT !.block = "text"] \in Backend
      /\ [u EXCEPT !.block = "tool_use"] \in Backend
  BY DEF Backend
<1>5. QED
  BY <1>2, <1>3, <1>4 DEF Finished, Ended

(* What an OpenAI backend may send, with any quirks, is a chunk.           *)
LEMMA OpenAISendsType ==
    ASSUME NEW u \in Backend
    PROVE  OpenAISends(u) \subseteq Moves("openai")
<1>0. ASSUME NEW f \in Chunk, NEW v \in Backend
      PROVE  Send(f, v) \in Moves("openai")
  BY DEF Send, Moves, Frames
<1>1. \A k \in Nat \ {0}, t \in Nat :
         Announce(k, t) \in ToolCallEntry /\ Arguments(k, t) \in ToolCallEntry
  BY DEF Announce, Arguments, ToolCallEntry
<1>2. \A t \in Nat : AnswerChunk(u, t) \in Chunk
  BY ChunkTypes DEF AnswerChunk
<1>3. OpenAITexts(u) \subseteq Moves("openai")
  <2>1. AnswerChunk(u, u.items + 1) \in Chunk
    BY <1>2, BackendNumbers
  <2>2. Send(AnswerChunk(u, u.items + 1), WithItem(u)) \in Moves("openai")
    BY <1>0, <2>1, BackendMoves
  <2>3. QED
    BY <2>2 DEF OpenAITexts, When
<1>4. OpenAICalls(u) \subseteq Moves("openai")
  <2> DEFINE one == Announce(u.calls + 1, 0)
             two == Announce(u.calls + 2, 0)
             full == Announce(u.calls + 1, u.items + 1)
             empty == [one EXCEPT !.function = FALSE]
             pair == [BareChunk("chunk") EXCEPT !.calls = <<one, two>>]
  <2>1. one \in ToolCallEntry /\ two \in ToolCallEntry /\ full \in ToolCallEntry
    <3>1. u.calls + 1 \in Nat \ {0} /\ u.calls + 2 \in Nat \ {0}
      BY BackendNumbers
    <3>2. QED
      BY <1>1, <3>1, BackendNumbers
  <2>2. empty \in ToolCallEntry
    BY <2>1 DEF ToolCallEntry
  <2>3. pair \in Chunk
    <3>1. <<one, two>> \in Seq(ToolCallEntry)
      BY <2>1
    <3>2. QED
      BY <3>1, BareChunkType DEF Chunk
  <2>4. /\ Send(CallChunk(one), WithCalls(u, 1)) \in Moves("openai")
        /\ Send(CallChunk(empty), WithCalls(u, 1)) \in Moves("openai")
        /\ Send(CallChunk(full), WithItem(WithCalls(u, 1))) \in Moves("openai")
        /\ Send(pair, WithCalls(u, 2)) \in Moves("openai")
    BY <1>0, <2>1, <2>2, <2>3, ChunkTypes, BackendNumbers, BackendMoves
  <2>5. QED
    BY <2>4 DEF OpenAICalls, When, Quirk
<1>5. OpenAIArguments(u) \subseteq Moves("openai")
  <2>1. ASSUME NEW k \in 1..u.calls
        PROVE  Send(CallChunk(Arguments(k, u.items + 1)), WithItem(u))
                 \in Moves("openai")
    <3>1. k \in Nat \ {0}
      BY BackendNumbers
    <3>2. Arguments(k, u.items + 1) \in ToolCallEntry
      BY <1>1, <3>1, BackendNumbers
    <3>3. QED
      BY <1>0, <3>2, ChunkTypes, BackendMoves
  <2>2. QED
    BY <2>1 DEF OpenAIArguments, When
<1>6. OpenAIFinishes(u) \subseteq Moves("openai")
  <2>1. FinishReasonsOf(u) \subseteq Reasons
    BY DEF FinishReasonsOf, Quirk, When, Reasons, FinishReasons
  <2>2. "stop" \in Reasons
    BY DEF Reasons, FinishReasons
  <2>3. [FinishChunk("stop") EXCEPT !.text = u.items + 1] \in Chunk
    <3>1. \A n \in Nat : [FinishChunk("stop") EXCEPT !.text = n] \in Chunk
      BY <2>2, ChunkTypes DEF Chunk
    <3>2. QED
      BY <3>1, BackendNumbers
  <2>4. Finished(WithItem(u)) \in Backend
    BY BackendMoves
  <2>5. Send([FinishChunk("stop") EXCEPT !.text = u.items + 1],
             Finished(WithItem(u))) \in Moves("openai")
    BY <1>0, <2>3, <2>4
  <2>6. \A x \in FinishReasonsOf(u) :
           Send(FinishChunk(x), Finished(u)) \in Moves("openai")
    BY <1>0, <2>1, ChunkTypes, BackendMoves
  <2>7. QED
    BY <2>5, <2>6 DEF OpenAIFinishes, When, Quirk
<1>7. /\ Send(BareChunk("chunk"), [u EXCEPT !.phase = "open"]) \in Moves("openai")
      /\ Send(BareChunk("usage"), [u EXCEPT !.phase = "counted"])
           \in Moves("openai")
      /\ Send(DoneChunk, Ended(u)) \in Moves("openai")
  BY <1>0, BareChunkType, BackendNumbers, BackendMoves DEF DoneChunk
<1>8. QED
  BY <1>3, <1>4, <1>5, <1>6, <1>7 DEF OpenAISends, OpenAIContent, Quirk, When

(* What an Anthropic backend may send is a frame.                          *)
LEMMA AnthropicSendsType ==
    ASSUME NEW u \in Backend
    PROVE  AnthropicSends(u) \subseteq Moves("anthropic")
<1>0. ASSUME NEW f \in Frame, NEW v \in Backend
      PROVE  Send(f, v) \in Moves("anthropic")
  BY DEF Send, Moves, Frames
<1>1. AnthropicBlocks(u) \subseteq Moves("anthropic")
  <2>1. [WithCalls(u, 1) EXCEPT !.block = "tool_use"] \in Backend
    BY BackendMoves, BackendNumbers
  <2>2. /\ BlockStart("text", u.index, 0) \in Frame
        /\ BlockStart("tool_use", u.index, u.calls + 1) \in Frame
    BY FrameTypes, BackendNumbers, BackendMoves
  <2>3. /\ Send(BlockStart("text", u.index, 0), [u EXCEPT !.block = "text"])
             \in Moves("anthropic")
        /\ Send(BlockStart("tool_use", u.index, u.calls + 1),
                [WithCalls(u, 1) EXCEPT !.block = "tool_use"])
             \in Moves("anthropic")
    BY <1>0, <2>1, <2>2, BackendMoves
  <2>4. QED
    BY <2>3 DEF AnthropicBlocks, When
<1>2. ASSUME u.block # "" PROVE AnthropicInBlock(u) \subseteq Moves("anthropic")
  <2>1. /\ BlockStop(u.index) \in Frame
        /\ BlockDelta(u.block, u.index, u.items + 1) \in Frame
    <3>1. u.block \in {"text", "tool_use"}
      BY <1>2 DEF Backend
    <3>2. QED
      BY <3>1, FrameTypes, BackendNumbers
  <2>2. /\ Send(BlockStop(u.index), [u EXCEPT !.block = "", !.index = @ + 1])
             \in Moves("anthropic")
        /\ Send(BlockDelta(u.block, u.index, u.items + 1), WithItem(u))
             \in Moves("anthropic")
    BY <1>0, <2>1, BackendMoves
  <2>3. QED
    BY <2>2 DEF AnthropicInBlock, When
<1>3. AnthropicFinishes(u) \subseteq Moves("anthropic")
  <2>1. StopReasonsOf(u) \subseteq Reasons
    BY DEF StopReasonsOf, Quirk, When, Reasons, StopReasons
  <2>2. \A x \in StopReasonsOf(u) :
           Send(MessageDelta(x), Finished(u)) \in Moves("anthropic")
    BY <1>0, <2>1, FrameTypes, BackendMoves
  <2>3. QED
    BY <2>2 DEF AnthropicFinishes
<1>4. /\ Send(BareFrame("message_start"), [u EXCEPT !.phase = "open"])
           \in Moves("anthropic")
      /\ Send(BareFrame("ping"), u) \in Moves("anthropic")
      /\ Send(BareFrame("message_stop"), Ended(u)) \in Moves("anthropic")
  BY <1>0, BareFrameType, BackendNumbers, BackendMoves
<1>5. QED
  BY <1>1, <1>2, <1>3, <1>4 DEF AnthropicSends

(* What a backend may send is a frame of its protocol.                     *)
LEMMA SendsType ==
    ASSUME NEW p \in Protocols, NEW u \in Backend
    PROVE  Sends(p, u) \subseteq Moves(p)
<1>1. /\ BareOf(p, "garbage") \in Frames(p)
      /\ BareOf(p, "error") \in Frames(p)
  BY BareChunkType, BareFrameType DEF BareOf, Frames
<1>2. /\ Send(BareOf(p, "garbage"), Ended(u)) \in Moves(p)
      /\ Send(BareOf(p, "error"), Ended(u)) \in Moves(p)
  BY <1>1, BackendNumbers, BackendMoves DEF Send, Moves
<1>3. QED
  BY <1>2, OpenAISendsType, AnthropicSendsType DEF Sends, When, Quirk, Protocols

(* Reading a frame keeps what a reader holds well typed.                   *)
LEMMA ReadAsType ==
    ASSUME NEW p \in Protocols, NEW m \in Message, NEW f \in Frames(p)
    PROVE  ReadAs(p, m, f) \in Message
BY ReadChunkType, ReadFrameType DEF ReadAs, Frames, Protocols

-----------------------------------------------------------------------------
(* The types of StreamProxy.                                               *)

(* What the emitter is given to write are frames of the client's protocol. *)
LEMMA FrameSequences ==
    ASSUME TypeOK
    PROVE  /\ DoneFrames \in Seq(Frames(inbound))
           /\ ErrorFrames \in Seq(Frames(inbound))
           /\ \A ev \in StreamEvent :
                 /\ inbound = "openai" => EncodeChunk(ev) \in Seq(Frames(inbound))
                 /\ inbound # "openai" =>
                       EncodeFrames(encoder, ev) \in Seq(Frames(inbound))
<1>1. CASE inbound = "openai"
  <2>1. DoneChunk \in Chunk
    BY BareChunkType DEF DoneChunk
  <2>2. Plain("error") \in StreamEvent
    BY PlainType DEF StreamEventTypes
  <2>3. QED
    BY <1>1, <2>1, <2>2, EncodeChunkType DEF DoneFrames, ErrorFrames, Frames
<1>2. CASE inbound # "openai"
  <2>1. Plain("error") \in StreamEvent
    BY PlainType DEF StreamEventTypes
  <2>2. encoder \in Encoder
    BY DEF TypeOK
  <2>3. QED
    BY <1>2, <2>1, <2>2, EncodeFramesType DEF DoneFrames, ErrorFrames, Frames
<1>3. QED
  BY <1>1, <1>2

(* A read gives a frame of the backend's protocol.                         *)
LEMMA ReadType ==
    ASSUME TypeOK, NEW s \in Sends(outbound, up), Read(s)
    PROVE  /\ up' \in Backend
           /\ said' \in Message
           /\ s.frame \in Frames(outbound)
<1>1. s \in Moves(outbound)
  BY SendsType DEF TypeOK
<1>2. s.frame \in Frames(outbound) /\ s.next \in Backend
  BY <1>1 DEF Moves
<1>3. QED
  BY <1>2, ReadAsType DEF Read, TypeOK

(* A frame of the backend's protocol decodes to events of an answer.       *)
LEMMA DecodedType ==
    ASSUME TypeOK, NEW f \in Frames(outbound)
    PROVE  Decoded(f) \in Seq(AnswerEvent)
<1>1. CASE outbound = "openai"
  <2>1. f \in Chunk /\ started \in BOOLEAN
    BY <1>1 DEF Frames, TypeOK
  <2>2. QED
    BY <1>1, <2>1, DecodeChunkType DEF Decoded
<1>2. CASE outbound # "openai"
  <2>1. f \in Frame
    BY <1>2 DEF Frames
  <2>2. QED
    BY <1>2, <2>1, DecodeFrameType DEF Decoded
<1>3. QED
  BY <1>1, <1>2

(* The types hold when a request is dispatched.                            *)
LEMMA InitType == Init => TypeOK
<1>1. \A c \in Clients : NewBackend(QuirksFor[c]) \in Backend
  BY StreamProxyAssumption DEF NewBackend, Backend
<1>2. NoMessage \in Message
  BY DEF NoMessage, Message, Reasons
<1>3. NewEncoder \in Encoder
  BY DEF NewEncoder, Encoder
<1>4. SUFFICES ASSUME Init PROVE TypeOK
  OBVIOUS
<1>5. inbound \in Protocols /\ outbound \in Protocols
  BY <1>4, StreamProxyAssumption DEF Init
<1>6. /\ up \in Backend /\ said \in Message /\ heard \in Message
      /\ encoder \in Encoder
  BY <1>1, <1>2, <1>3, <1>4 DEF Init
<1>7. pending \in Seq(StreamEvent) /\ out \in Seq(Frames(inbound))
  BY <1>4 DEF Init
<1>8. /\ pc \in {"dial", "stream", "finish", "fail", "report", "closed", "panicked"}
      /\ link \in {"none", "open", "cut", "eof"}
      /\ conn \in {"up", "gone"}
      /\ body \in {"none", "open", "closed"}
  BY <1>4 DEF Init
<1>9. started \in BOOLEAN /\ cancelled \in BOOLEAN /\ errorHooks \in Nat
  BY <1>4 DEF Init
<1>10. QED
  BY <1>5, <1>6, <1>7, <1>8, <1>9 DEF TypeOK

(* Every step keeps the types.                                             *)
LEMMA NextType == TypeOK /\ [Next]_vars => TypeOK'
<1> SUFFICES ASSUME TypeOK, [Next]_vars PROVE TypeOK'
  OBVIOUS
<1> USE DEF backendVars, decoderVars, clientVars
<1>1. CASE DoStreamSucceeds
  BY <1>1 DEF DoStreamSucceeds, TypeOK
<1>2. CASE DoStreamFails
  <2>1. [heard EXCEPT !.phase = "failed"] \in Message
    BY DEF TypeOK, Message
  <2>2. heard' \in Message
    BY <1>2, <2>1 DEF DoStreamFails, TypeOK
  <2>3. QED
    BY <1>2, <2>2 DEF DoStreamFails, TypeOK
<1>3. CASE ReceiveEvents
  <2>1. PICK s \in Sends(outbound, up) :
          /\ Read(s)
          /\ pending' = Decoded(s.frame)
          /\ started' = (started \/ outbound = "openai")
          /\ UNCHANGED <<inbound, outbound, pc, link, encoder, out, clientVars,
                         errorHooks, body>>
    BY <1>3 DEF ReceiveEvents
  <2>2. Decoded(s.frame) \in Seq(StreamEvent)
    <3>1. Decoded(s.frame) \in Seq(AnswerEvent)
      BY <2>1, ReadType, DecodedType
    <3>2. QED
      BY <3>1, SeqMonotonic DEF AnswerEvent
  <2>3. started' \in BOOLEAN
    BY <2>1
  <2>4. QED
    BY <2>1, <2>2, <2>3, ReadType DEF TypeOK
<1>4. CASE ReceiveEnd
  <2>1. PICK s \in Sends(outbound, up) :
          /\ Read(s)
          /\ pc' = "finish"
          /\ out' = DoneFrames
          /\ UNCHANGED <<inbound, outbound, link, decoderVars, encoder,
                         clientVars, errorHooks, body>>
    BY <1>4 DEF ReceiveEnd
  <2>2. QED
    BY <2>1, ReadType, FrameSequences DEF TypeOK
<1>5. CASE ReceiveUndecodable
  <2>1. PICK s \in Sends(outbound, up) :
          /\ Read(s)
          /\ pc' = "fail"
          /\ UNCHANGED <<inbound, outbound, link, decoderVars, encoder, out,
                         clientVars, errorHooks, body>>
    BY <1>5 DEF ReceiveUndecodable
  <2>2. QED
    BY <2>1, ReadType DEF TypeOK
<1>6. CASE ReceivePanics
  <2>1. PICK s \in Sends(outbound, up) :
          /\ Read(s)
          /\ pc' = "panicked"
          /\ conn' = "gone"
          /\ body' = "closed"
          /\ UNCHANGED <<inbound, outbound, link, decoderVars, encoder, out,
                         heard, cancelled, errorHooks>>
    BY <1>6 DEF ReceivePanics
  <2>2. QED
    BY <2>1, ReadType DEF TypeOK
<1>7. CASE BackendCuts \/ BackendCloses
  BY <1>7 DEF BackendCuts, BackendCloses, TypeOK
<1>8. CASE ReadEOF \/ ReadFails
  BY <1>8, FrameSequences DEF ReadEOF, ReadFails, TypeOK
<1>9. CASE HandleEvent
  <2>1. /\ Head(pending) \in StreamEvent
        /\ Tail(pending) \in Seq(StreamEvent)
    BY <1>9 DEF HandleEvent, HasEvent, TypeOK
  <2>2. out' \in Seq(Frames(inbound))
    BY <1>9, <2>1, FrameSequences DEF HandleEvent
  <2>3. encoder' \in Encoder
    BY <1>9, <2>1, AfterEncodeType DEF HandleEvent, TypeOK
  <2>4. QED
    BY <1>9, <2>1, <2>2, <2>3 DEF HandleEvent, TypeOK
<1>10. CASE HookFails
  BY <1>10 DEF HookFails, TypeOK
<1>11. CASE WriteFrame
  <2>1. /\ Head(out) \in Frames(inbound)
        /\ Tail(out) \in Seq(Frames(inbound))
    BY <1>11 DEF WriteFrame, TypeOK
  <2>2. ReadAs(inbound, heard, Head(out)) \in Message
    BY <2>1, ReadAsType DEF TypeOK
  <2>3. heard' \in Message /\ cancelled' \in BOOLEAN
    BY <1>11, <2>2 DEF WriteFrame, TypeOK
  <2>4. QED
    BY <1>11, <2>1, <2>3 DEF WriteFrame, TypeOK
<1>12. CASE WriteFails
  <2>1. Tail(out) \in Seq(Frames(inbound)) /\ <<>> \in Seq(Frames(inbound))
    BY <1>12 DEF WriteFails, TypeOK
  <2>2. out' \in {Tail(out), <<>>} /\ pc' \in {pc, "fail"}
    <3>1. CASE pc = "report"
      BY <1>12, <3>1 DEF WriteFails
    <3>2. CASE pc # "report"
      BY <1>12, <3>2 DEF WriteFails
    <3>3. QED
      BY <3>1, <3>2
  <2>3. out' \in Seq(Frames(inbound))
    BY <2>1, <2>2
  <2>4. QED
    BY <1>12, <2>2, <2>3 DEF WriteFails, TypeOK
<1>13. CASE Fail
  <2>1. ErrorFrames \o DoneFrames \in Seq(Frames(inbound))
    BY FrameSequences
  <2>2. QED
    BY <1>13, <2>1 DEF Fail, TypeOK
<1>14. CASE Return
  BY <1>14 DEF Return, TypeOK
<1>15. CASE ClientLeaves \/ NoticeClientGone
  BY <1>15 DEF ClientLeaves, NoticeClientGone, TypeOK
<1>16. CASE UNCHANGED vars
  BY <1>16 DEF vars, TypeOK
<1>17. QED
  BY <1>1, <1>2, <1>3, <1>4, <1>5, <1>6, <1>7, <1>8, <1>9, <1>10, <1>11,
     <1>12, <1>13, <1>14, <1>15, <1>16
     DEF Next, Handler, Receive, Environment, Terminated

(* TypeOK holds of every stream: above all, each frame that waits to be    *)
(* written is a frame of the client's own protocol, whatever the backend   *)
(* speaks and sends (sseStreamEmitter in http_adapter.go).                 *)
THEOREM TypeCorrect == Spec => []TypeOK
BY InitType, NextType, PTL DEF Spec

-----------------------------------------------------------------------------
(* Error hooks.                                                            *)

(* Frames of an answer, which report no error.                             *)
AnswerFrame(p) == {f \in Frames(p) : f.kind # "error"}

(* How often the error hooks have run, by where the handler is.            *)
HookCount ==
    /\ pc \in {"dial", "stream", "finish", "fail", "panicked"} => errorHooks = 0
    /\ pc = "report" => errorHooks = 1
    /\ errorHooks <= 1
    /\ pc \in {"dial", "closed"} => out = <<>>

(* No error frame is made before the error is reported.                    *)
AnswerUnreported ==
    /\ pending \in Seq(AnswerEvent)
    /\ pc # "report" => out \in Seq(AnswerFrame(inbound))

(* A report is either still in front of a connected client or heard.       *)
ReportHeard ==
    /\ heard.phase = "failed" => errorHooks = 1
    /\ pc = "report" /\ conn = "up" =>
          \/ heard.phase = "failed" /\ out \in {<<>>, DoneFrames}
          \/ out = <<BareOf(inbound, "error")>> \o DoneFrames
    /\ pc = "closed" /\ errorHooks = 1 /\ conn = "up" => heard.phase = "failed"

ReportInv == TypeOK /\ HookCount /\ AnswerUnreported /\ ReportHeard

(* An answer's events make no error chunk.                                 *)
LEMMA EncodedChunks ==
    ASSUME NEW ev \in AnswerEvent
    PROVE  EncodeChunk(ev) \in Seq(AnswerFrame("openai"))
<1> DEFINE S == AnswerFrame("openai")
<1>1. ev \in StreamEvent /\ ev.type # "error"
  BY DEF AnswerEvent
<1>2. /\ ev.text \in Nat /\ ev.call \in Nat /\ ev.index \in Nat
      /\ FinishOf(ev) \in Reasons
  BY <1>1, EventFields DEF FinishOf, Reasons, FinishReasons
<1>3. BareChunk("chunk") \in S
  <2>1. BareChunk("chunk").kind # "error"
    BY DEF BareChunk
  <2>2. QED
    BY <2>1, BareChunkType DEF AnswerFrame, Frames
<1>4. \A t \in Nat : TextChunk(t) \in S
  <2>1. \A t \in Nat : TextChunk(t).kind # "error"
    BY DEF TextChunk, BareChunk
  <2>2. QED
    BY <2>1, ChunkTypes DEF AnswerFrame, Frames
<1>5. \A r \in Reasons : FinishChunk(r) \in S
  <2>1. \A r \in Reasons : FinishChunk(r).kind # "error"
    BY DEF FinishChunk, BareChunk
  <2>2. QED
    BY <2>1, ChunkTypes DEF AnswerFrame, Frames
<1>6. \A x \in ToolCallEntry : CallChunk(x) \in S
  <2>1. \A x \in ToolCallEntry : CallChunk(x).kind # "error"
    BY DEF CallChunk, BareChunk
  <2>2. QED
    BY <2>1, ChunkTypes DEF AnswerFrame, Frames
<1>7. /\ [index |-> ev.index, call |-> ev.call, args |-> 0, function |-> TRUE]
           \in ToolCallEntry
      /\ [index |-> ev.index, call |-> 0, args |-> ev.text, function |-> TRUE]
           \in ToolCallEntry
  BY <1>2 DEF ToolCallEntry
<1> HIDE DEF S
<1>8. EncodeChunk(ev) \in Seq(S)
  BY <1>1, <1>2, <1>3, <1>4, <1>5, <1>6, <1>7 DEF EncodeChunk
<1>9. QED
  BY <1>8 DEF S

(* An answer's events make no error frame.                                 *)
LEMMA EncodedFrames ==
    ASSUME NEW ev \in AnswerEvent, NEW e \in Encoder
    PROVE  EncodeFrames(e, ev) \in Seq(AnswerFrame("anthropic"))
<1> DEFINE S == AnswerFrame("anthropic")
<1>1. ev \in StreamEvent /\ ev.type # "error"
  BY DEF AnswerEvent
<1>2. MapFinishReason(ev.reason) \in Reasons
  BY <1>1, EventFields DEF MapFinishReason, Reasons, FinishReasons, StopReasons
<1>3. BareFrame("message_start") \in S /\ BareFrame("message_stop") \in S
  <2>1. /\ BareFrame("message_start").kind # "error"
        /\ BareFrame("message_stop").kind # "error"
    BY DEF BareFrame
  <2>2. QED
    BY <2>1, BareFrameType DEF AnswerFrame, Frames
<1>4. \A b \in {"text", "tool_use"}, i, n \in Nat :
         BlockStart(b, i, n) \in S /\ BlockDelta(b, i, n) \in S
  <2>1. \A b \in {"text", "tool_use"}, i, n \in Nat :
          BlockStart(b, i, n).kind # "error" /\ BlockDelta(b, i, n).kind # "error"
    BY DEF BlockStart, BlockDelta, BareFrame
  <2>2. QED
    BY <2>1, FrameTypes DEF AnswerFrame, Frames
<1>5. \A i \in Nat : BlockStop(i) \in S
  <2>1. \A i \in Nat : BlockStop(i).kind # "error"
    BY DEF BlockStop, BareFrame
  <2>2. QED
    BY <2>1, FrameTypes DEF AnswerFrame, Frames
<1>6. \A r \in Reasons : MessageDelta(r) \in S
  <2>1. \A r \in Reasons : MessageDelta(r).kind # "error"
    BY DEF MessageDelta, BareFrame
  <2>2. QED
    BY <2>1, FrameTypes DEF AnswerFrame, Frames
<1> HIDE DEF S
<1>7. StartText(e) \in Seq(S) /\ StopIfBegun(e) \in Seq(S)
  BY <1>4, <1>5, EncoderFields DEF StartText, StopIfBegun
<1>8. /\ BlockDelta("text", e.blockIndex, ev.text) \in S
      /\ BlockDelta("tool_use", e.blockIndex, ev.text) \in S
      /\ BlockStart("tool_use", ToolIndex(e), ev.call) \in S
      /\ MessageDelta(MapFinishReason(ev.reason)) \in S
  BY <1>1, <1>2, <1>4, <1>6, EncoderFields, EventFields
<1>9. EncodeFrames(e, ev) \in Seq(S)
  BY <1>1, <1>3, <1>7, <1>8 DEF EncodeFrames
<1>10. QED
  BY <1>9 DEF S

(* An error event is one frame in either protocol.                         *)
LEMMA ErrorFramesAre ==
    ErrorFrames = <<BareOf(inbound, "error")>>
BY DEF ErrorFrames, EncodeChunk, EncodeFrames, Plain, BareOf

(* The first element and the rest of a sequence with an element put in     *)
(* front.                                                                  *)
LEMMA HeadTailCons ==
    ASSUME NEW S, NEW e \in S, NEW s \in Seq(S)
    PROVE  /\ <<e>> \o s # <<>>
           /\ Head(<<e>> \o s) = e
           /\ Tail(<<e>> \o s) = s
<1> DEFINE t == <<e>> \o s
<1>1. /\ t \in Seq(S) /\ Len(t) = Len(s) + 1 /\ t[1] = e
      /\ \A i \in 1..Len(s) : t[i + 1] = s[i]
  BY ConcatProperties
<1>2. Len(s) \in Nat
  OBVIOUS
<1> HIDE DEF t
<1>3. t # <<>>
  BY <1>1, <1>2
<1>4. Head(t) = e
  BY <1>1, <1>3
<1>5. /\ Tail(t) \in Seq(S) /\ Len(Tail(t)) = Len(s)
      /\ \A i \in 1..Len(s) : Tail(t)[i] = s[i]
  BY <1>1, <1>2, <1>3, HeadTailProperties
<1>6. Tail(t) = s
  BY <1>5, SeqEqual
<1>7. QED
  BY <1>3, <1>4, <1>6 DEF t

(* The frames of a report: the error, then WriteDone's.                    *)
LEMMA ErrorFrameSequence ==
    /\ Head(<<BareOf(inbound, "error")>> \o DoneFrames) = BareOf(inbound, "error")
    /\ Tail(<<BareOf(inbound, "error")>> \o DoneFrames) = DoneFrames
    /\ DoneFrames # <<>> => Head(DoneFrames) = DoneChunk /\ Tail(DoneFrames) = <<>>
    /\ DoneFrames # <<>> => inbound = "openai"
    /\ <<BareOf(inbound, "error")>> \o DoneFrames # <<>>
<1> DEFINE e == BareOf(inbound, "error")
           S == {e, DoneChunk}
<1>1. DoneFrames \in Seq(S)
  <2>1. DoneChunk \in S
    OBVIOUS
  <2> HIDE DEF S
  <2>2. <<DoneChunk>> \in Seq(S) /\ <<>> \in Seq(S)
    BY <2>1
  <2>3. QED
    BY <2>2 DEF DoneFrames
<1>2. DoneFrames # <<>> => DoneFrames = <<DoneChunk>> /\ inbound = "openai"
  BY DEF DoneFrames
<1>3. Head(<<DoneChunk>>) = DoneChunk /\ Tail(<<DoneChunk>>) = <<>>
  OBVIOUS
<1>4. e \in S
  OBVIOUS
<1> HIDE DEF S
<1>5. QED
  BY <1>1, <1>2, <1>3, <1>4, HeadTailCons

(* WriteDone's frame is no error frame.                                    *)
LEMMA DoneIsAnswer ==
    ASSUME TypeOK
    PROVE  DoneFrames \in Seq(AnswerFrame(inbound))
<1>1. DoneChunk \in Chunk /\ DoneChunk.kind # "error"
  <2>1. DoneChunk \in Chunk
    BY BareChunkType DEF DoneChunk
  <2>2. QED
    BY <2>1 DEF DoneChunk, BareChunk
<1>2. CASE inbound = "openai"
  <2>1. DoneFrames = <<DoneChunk>> /\ DoneChunk \in AnswerFrame(inbound)
    BY <1>1, <1>2 DEF DoneFrames, AnswerFrame, Frames
  <2>2. QED
    BY <2>1
<1>3. CASE inbound # "openai"
  <2>1. DoneFrames = <<>>
    BY <1>3 DEF DoneFrames
  <2>2. QED
    BY <2>1
<1>4. QED
  BY <1>2, <1>3

(* A reader learns of a failure from an error frame and only from one, and *)
(* an OpenAI client does not forget it at [DONE].                          *)
LEMMA Phases ==
    ASSUME NEW m \in Message, NEW p \in Protocols, NEW f \in Frames(p)
    PROVE  /\ f.kind # "error" /\ ReadAs(p, m, f).phase = "failed" => m.phase = "failed"
           /\ f.kind = "error" => ReadAs(p, m, f).phase = "failed"
           /\ p = "openai" /\ m.phase = "failed" => ReadAs(p, m, f).phase = "failed"
<1>1. CASE p = "openai"
  <2>1. f \in Chunk
    BY <1>1 DEF Frames
  <2>2. Opened(m).phase = "failed" <=> m.phase = "failed"
    BY DEF Opened, Message
  <2>3. ReadAs(p, m, f) = ReadChunk(m, f)
    BY <1>1 DEF ReadAs
  <2>4. CASE f.kind \in {"chunk", "usage"}
    <3>1. ReadChunk(m, f).phase = Opened(m).phase
      BY <2>4, MessageFields DEF ReadChunk, Message
    <3>2. QED
      BY <2>2, <2>3, <2>4, <3>1
  <2>5. CASE f.kind \notin {"chunk", "usage"}
    BY <2>1, <2>3, <2>5 DEF ReadChunk, Message
  <2>6. QED
    BY <2>4, <2>5
<1>2. CASE p # "openai"
  <2>1. f \in Frame
    BY <1>2 DEF Frames
  <2>2. Opened(m).phase = "failed" <=> m.phase = "failed"
    BY DEF Opened, Message
  <2>3. ReadAs(p, m, f) = ReadFrame(m, f)
    BY <1>2 DEF ReadAs
  <2>4. f.kind # "error" => (ReadFrame(m, f).phase = "failed" => m.phase = "failed")
    BY <2>2 DEF ReadFrame, Message
  <2>5. f.kind = "error" => ReadFrame(m, f).phase = "failed"
    BY DEF ReadFrame, Message
  <2>6. QED
    BY <1>2, <2>3, <2>4, <2>5
<1>3. QED
  BY <1>1, <1>2

(* The invariant holds when a request is dispatched.                       *)
LEMMA ReportInit == Init => ReportInv
<1>1. Init => TypeOK
  BY InitType
<1>2. Init => HookCount
  BY DEF Init, HookCount
<1>3. Init => AnswerUnreported
  BY DEF Init, AnswerUnreported
<1>4. Init => ReportHeard
  <2>1. NoMessage.phase = "before"
    BY DEF NoMessage
  <2>2. Init => pc = "dial" /\ heard = NoMessage
    BY DEF Init
  <2>3. QED
    BY <2>1, <2>2 DEF ReportHeard
<1>5. QED
  BY <1>1, <1>2, <1>3, <1>4 DEF ReportInv

(* Every step keeps the count of hook runs.                                *)
LEMMA HookCountNext == ReportInv /\ [Next]_vars => HookCount'
<1> SUFFICES ASSUME ReportInv, [Next]_vars PROVE HookCount'
  OBVIOUS
<1> USE DEF ReportInv, HookCount
<1>1. CASE DoStreamSucceeds \/ DoStreamFails
  BY <1>1 DEF DoStreamSucceeds, DoStreamFails
<1>2. CASE Receive
  BY <1>2 DEF Receive, ReceiveEvents, ReceiveEnd, ReceiveUndecodable,
              ReceivePanics, Read, IsReading
<1>3. CASE ReadEOF \/ ReadFails
  BY <1>3 DEF ReadEOF, ReadFails, IsReading
<1>4. CASE HandleEvent \/ HookFails
  BY <1>4 DEF HandleEvent, HookFails, HasEvent
<1>5. CASE WriteFrame
  BY <1>5 DEF WriteFrame
<1>6. CASE WriteFails
  <2>1. out # <<>> /\ errorHooks' = errorHooks
    BY <1>6 DEF WriteFails
  <2>2. (pc = "report" /\ pc' = pc) \/ (pc # "report" /\ pc' = "fail")
    BY <1>6 DEF WriteFails
  <2>3. pc \in {"stream", "finish", "fail", "panicked", "report"}
    BY <2>1 DEF TypeOK
  <2>4. QED
    BY <2>1, <2>2, <2>3
<1>7. CASE Fail \/ Return
  BY <1>7 DEF Fail, Return, TypeOK
<1>8. CASE Environment
  BY <1>8 DEF Environment, BackendCuts, BackendCloses, ClientLeaves,
              NoticeClientGone
<1>9. CASE UNCHANGED vars
  BY <1>9 DEF vars
<1>10. QED
  BY <1>1, <1>2, <1>3, <1>4, <1>5, <1>6, <1>7, <1>8, <1>9
     DEF Next, Handler, Terminated

(* Every step keeps the answer free of errors.                             *)
LEMMA AnswerUnreportedNext == ReportInv /\ [Next]_vars => AnswerUnreported'
<1> SUFFICES ASSUME ReportInv, [Next]_vars PROVE AnswerUnreported'
  OBVIOUS
<1> USE DEF ReportInv, AnswerUnreported, decoderVars
<1>1. CASE DoStreamSucceeds \/ DoStreamFails
  BY <1>1 DEF DoStreamSucceeds, DoStreamFails
<1>2. CASE ReceiveEvents
  <2>1. PICK s \in Sends(outbound, up) :
          /\ Read(s)
          /\ pending' = Decoded(s.frame)
          /\ UNCHANGED <<inbound, pc, out>>
    BY <1>2 DEF ReceiveEvents
  <2>2. Decoded(s.frame) \in Seq(AnswerEvent)
    BY <2>1, ReadType, DecodedType
  <2>3. QED
    BY <2>1, <2>2
<1>3. CASE ReceiveEnd \/ ReadEOF
  <2>1. /\ out' = DoneFrames /\ inbound' = inbound
        /\ pending' = pending
    BY <1>3 DEF ReceiveEnd, ReadEOF
  <2>2. QED
    BY <2>1, DoneIsAnswer
<1>4. CASE ReceiveUndecodable \/ ReceivePanics \/ ReadFails
  BY <1>4 DEF ReceiveUndecodable, ReceivePanics, ReadFails, Read, IsReading
<1>5. CASE HandleEvent
  <2>1. /\ Head(pending) \in AnswerEvent
        /\ pending' \in Seq(AnswerEvent)
    BY <1>5 DEF HandleEvent, HasEvent
  <2>2. out' \in Seq(AnswerFrame(inbound)) /\ inbound' = inbound
    <3>1. CASE inbound = "openai"
      BY <1>5, <2>1, <3>1, EncodedChunks DEF HandleEvent
    <3>2. CASE inbound # "openai"
      <4>1. inbound = "anthropic" /\ encoder \in Encoder
        BY <3>2 DEF TypeOK, Protocols
      <4>2. QED
        BY <1>5, <2>1, <4>1, EncodedFrames DEF HandleEvent
    <3>3. QED
      BY <3>1, <3>2
  <2>3. QED
    BY <2>1, <2>2
<1>6. CASE HookFails
  BY <1>6 DEF HookFails, HasEvent
<1>7. CASE WriteFrame
  <2>1. /\ out' = Tail(out) /\ out # <<>>
        /\ UNCHANGED <<inbound, pc, pending>>
    BY <1>7 DEF WriteFrame
  <2>2. QED
    BY <2>1
<1>8. CASE WriteFails
  <2>1. UNCHANGED <<inbound, pending>>
    BY <1>8 DEF WriteFails
  <2>2. pc' = "report" \/ out' = <<>>
    BY <1>8 DEF WriteFails
  <2>3. <<>> \in Seq(AnswerFrame(inbound))
    OBVIOUS
  <2>4. QED
    BY <2>1, <2>2, <2>3
<1>9. CASE Fail
  BY <1>9 DEF Fail
<1>13. CASE Return
  <2>1. UNCHANGED <<inbound, pending>> /\ out' = <<>>
    BY <1>13 DEF Return
  <2>2. <<>> \in Seq(AnswerFrame(inbound))
    OBVIOUS
  <2>3. QED
    BY <2>1, <2>2
<1>10. CASE Environment
  BY <1>10 DEF Environment, BackendCuts, BackendCloses, ClientLeaves,
               NoticeClientGone, clientVars, backendVars
<1>11. CASE UNCHANGED vars
  BY <1>11 DEF vars
<1>12. QED
  BY <1>1, <1>2, <1>3, <1>4, <1>5, <1>6, <1>7, <1>8, <1>9, <1>10, <1>11,
     <1>13 DEF Next, Handler, Receive, Terminated

(* Every step keeps what the client knows of a failure.                    *)
LEMMA ReportHeardNext == ReportInv /\ [Next]_vars => ReportHeard'
<1> SUFFICES ASSUME ReportInv, [Next]_vars PROVE ReportHeard'
  OBVIOUS
<1> USE DEF ReportInv, decoderVars, clientVars
<1>0. TypeOK'
  BY NextType
<1>1. CASE DoStreamSucceeds
  BY <1>1 DEF DoStreamSucceeds, ReportHeard, HookCount
<1>2. CASE DoStreamFails
  <2>1. [heard EXCEPT !.phase = "failed"].phase = "failed"
    BY DEF TypeOK, Message
  <2>2. /\ errorHooks' = 1 /\ pc' = "closed" /\ conn' = conn
        /\ conn = "up" => heard'.phase = "failed"
    BY <1>2, <2>1 DEF DoStreamFails, HookCount
  <2>3. QED
    BY <2>2 DEF ReportHeard
<1>3. CASE Receive \/ ReadEOF \/ ReadFails \/ HandleEvent \/ HookFails
  <2>1. pc = "stream" /\ pc' \in {"stream", "finish", "fail", "panicked"}
    BY <1>3 DEF Receive, ReceiveEvents, ReceiveEnd, ReceiveUndecodable,
         ReceivePanics, Read, IsReading, ReadEOF, ReadFails, HandleEvent,
         HookFails, HasEvent
  <2>2. UNCHANGED <<heard, errorHooks>>
    BY <1>3 DEF Receive, ReceiveEvents, ReceiveEnd, ReceiveUndecodable,
         ReceivePanics, ReadEOF, ReadFails, HandleEvent, HookFails
  <2>3. QED
    BY <2>1, <2>2 DEF ReportHeard
<1>4. CASE WriteFrame /\ conn = "up"
  <2>1. /\ out # <<>> /\ out' = Tail(out)
        /\ heard' = ReadAs(inbound, heard, Head(out))
        /\ UNCHANGED <<inbound, pc, conn, errorHooks>>
    BY <1>4 DEF WriteFrame
  <2>2. /\ Head(out) \in Frames(inbound) /\ heard \in Message
        /\ inbound \in Protocols
    BY <2>1 DEF TypeOK
  <2>3. DoneFrames' = DoneFrames
    BY <2>1 DEF DoneFrames
  <2>4. CASE pc # "report"
    <3>1. Head(out).kind # "error"
      BY <2>1, <2>4 DEF AnswerUnreported, AnswerFrame
    <3>2. heard'.phase = "failed" => heard.phase = "failed"
      BY <2>1, <2>2, <3>1, Phases
    <3>3. pc # "closed"
      BY <2>1 DEF HookCount
    <3>4. QED
      BY <2>1, <2>4, <3>2, <3>3 DEF ReportHeard
  <2>5. CASE pc = "report" /\ heard.phase = "failed" /\ out \in {<<>>, DoneFrames}
    <3>1. inbound = "openai" /\ out' = <<>>
      BY <2>1, <2>5, ErrorFrameSequence
    <3>2. heard'.phase = "failed"
      BY <2>1, <2>2, <2>5, <3>1, Phases
    <3>3. errorHooks' = 1
      BY <2>1, <2>5 DEF HookCount
    <3>4. QED
      BY <2>1, <2>5, <3>1, <3>2, <3>3 DEF ReportHeard
  <2>6. CASE pc = "report" /\ out = <<BareOf(inbound, "error")>> \o DoneFrames
    <3>1. Head(out) = BareOf(inbound, "error") /\ out' = DoneFrames
      BY <2>1, <2>6, ErrorFrameSequence
    <3>2. BareOf(inbound, "error").kind = "error"
      BY DEF BareOf, BareChunk, BareFrame
    <3>3. heard'.phase = "failed"
      BY <2>1, <2>2, <3>1, <3>2, Phases
    <3>4. errorHooks' = 1
      BY <2>1, <2>6 DEF HookCount
    <3>5. QED
      BY <2>1, <2>3, <2>6, <3>1, <3>3, <3>4 DEF ReportHeard
  <2>7. QED
    BY <1>4, <2>4, <2>5, <2>6 DEF ReportHeard
<1>5. CASE WriteFrame /\ conn # "up"
  <2>1. UNCHANGED <<heard, conn, pc, errorHooks>>
    BY <1>5 DEF WriteFrame
  <2>2. QED
    BY <1>5, <2>1 DEF ReportHeard
<1>6. CASE WriteFails
  <2>1. conn = "gone" /\ UNCHANGED <<heard, conn, errorHooks>>
    BY <1>6 DEF WriteFails
  <2>2. QED
    BY <2>1 DEF ReportHeard
<1>7. CASE Fail
  <2>1. /\ pc' = "report" /\ out' = ErrorFrames \o DoneFrames
        /\ errorHooks' = 1 /\ UNCHANGED <<inbound, heard, conn>>
    BY <1>7 DEF Fail, HookCount
  <2>2. DoneFrames' = DoneFrames
    BY <2>1 DEF DoneFrames
  <2>3. out' = <<BareOf(inbound', "error")>> \o DoneFrames'
    BY <2>1, <2>2, ErrorFramesAre
  <2>4. QED
    BY <2>1, <2>3 DEF ReportHeard
<1>8. CASE Return
  <2>1. /\ pc \in {"finish", "report"} /\ out = <<>> /\ pc' = "closed"
        /\ UNCHANGED <<heard, conn, errorHooks>>
    BY <1>8 DEF Return
  <2>2. pc = "report" /\ conn = "up" => heard.phase = "failed"
    BY <2>1, ErrorFrameSequence DEF ReportHeard
  <2>3. pc = "finish" => errorHooks = 0
    BY DEF HookCount
  <2>4. QED
    BY <2>1, <2>2, <2>3 DEF ReportHeard
<1>9. CASE Environment
  <2>1. UNCHANGED <<inbound, pc, out, heard, errorHooks>>
    BY <1>9 DEF Environment, BackendCuts, BackendCloses, ClientLeaves,
                NoticeClientGone, backendVars
  <2>2. conn' = "up" => conn = "up"
    BY <1>9 DEF Environment, BackendCuts, BackendCloses, ClientLeaves,
                NoticeClientGone, backendVars
  <2>3. DoneFrames' = DoneFrames
    BY <2>1 DEF DoneFrames
  <2>4. QED
    BY <2>1, <2>2, <2>3 DEF ReportHeard
<1>10. CASE UNCHANGED vars
  BY <1>10 DEF vars, ReportHeard, DoneFrames
<1>11. QED
  BY <1>1, <1>2, <1>3, <1>4, <1>5, <1>6, <1>7, <1>8, <1>9, <1>10
     DEF Next, Handler, Terminated

(* ErrorHooksOnce holds of every stream, for all constants: the error      *)
(* hooks (HandleError, core.go:261) run at most once, always when the      *)
(* client is told of an error, and a client that stayed is told whenever   *)
(* they ran.                                                               *)
THEOREM ErrorHooksCorrect == Spec => []ErrorHooksOnce
<1>1. ReportInv /\ [Next]_vars => ReportInv'
  <2>1. ReportInv /\ [Next]_vars => TypeOK'
    BY NextType DEF ReportInv
  <2>2. QED
    BY <2>1, HookCountNext, AnswerUnreportedNext, ReportHeardNext DEF ReportInv
<1>2. ReportInv => ErrorHooksOnce
  BY DEF ReportInv, HookCount, ReportHeard, ErrorHooksOnce
<1>3. QED
  BY <1>1, <1>2, ReportInit, PTL DEF Spec

-----------------------------------------------------------------------------
(* The ends of streams.                                                    *)

FinishesProperly(quirks) == quirks \cap {"upstream_error", "clean_cut"} = {}

Unending(phase) == phase \in {"new", "open"}

(* Events and frames that do not end a stream.                             *)
OpenEvent == {ev \in AnswerEvent : ev.type # "stop"}
OpenFrame(p) == {f \in AnswerFrame(p) : f.kind \notin {"done", "message_stop"}}

-----------------------------------------------------------------------------
(* Decoders and encoders.                                                  *)

(* A chunk without a reason makes no stop event.                           *)
LEMMA OpenChunk ==
    ASSUME NEW b \in BOOLEAN, NEW c \in Chunk
    PROVE  c.finish = "" => DecodeChunk(b, c) \in Seq(OpenEvent)
<1>1. /\ Plain("stream_start") \in OpenEvent
      /\ Plain("usage") \in OpenEvent
      /\ \A t \in Nat : TextDelta(t) \in OpenEvent
      /\ \A k, i \in Nat : ToolCallStart(k, i) \in OpenEvent
      /\ \A t, i \in Nat : ToolCallDelta(t, i) \in OpenEvent
  <2>1. /\ Plain("stream_start").type # "stop"
        /\ Plain("usage").type # "stop"
        /\ \A t : TextDelta(t).type # "stop"
        /\ \A k, i : ToolCallStart(k, i).type # "stop"
        /\ \A t, i : ToolCallDelta(t, i).type # "stop"
    BY DEF Plain, TextDelta, ToolCallStart, ToolCallDelta
  <2> QED
    BY <2>1, AnswerEvents DEF OpenEvent
<1>2. ToolCallEvents(c.calls) \in Seq(OpenEvent)
  <2>1. \A e \in ToolCallEntry : ToolCallEvent(e) \in OpenEvent
    BY <1>1, EntryType DEF ToolCallEvent
  <2>2. c.calls \in Seq(ToolCallEntry)
    BY DEF Chunk
  <2> QED
    BY <2>1, <2>2 DEF ToolCallEvents
<1>3. TextDelta(c.text) \in OpenEvent
  BY <1>1 DEF Chunk
<1>4. TextEvents(c) \in Seq(OpenEvent)
  BY <1>3 DEF TextEvents
<1>5. <<Plain("stream_start")>> \o TextEvents(c) \o ToolCallEvents(c.calls)
        \in Seq(OpenEvent)
  BY <1>1, <1>2, <1>4
<1>6. <<Plain("usage")>> \in Seq(OpenEvent) /\ <<TextDelta(c.text)>> \in Seq(OpenEvent)
  BY <1>1, <1>3
<1> QED
  BY <1>2, <1>5, <1>6, Zenon DEF DecodeChunk

(* Of Anthropic's frames only a message_delta makes one.                   *)
LEMMA OpenFrameDecoded ==
    ASSUME NEW f \in Frame, f.kind # "message_delta"
    PROVE  DecodeFrame(f) \in Seq(OpenEvent)
<1>1. /\ ToolCallStart(f.call, f.index) \in OpenEvent
      /\ TextDelta(f.text) \in OpenEvent
      /\ ToolCallDelta(f.text, f.index) \in OpenEvent
      /\ Plain("stream_start") \in OpenEvent
  <2>1. /\ Plain("stream_start").type # "stop"
        /\ TextDelta(f.text).type # "stop"
        /\ ToolCallStart(f.call, f.index).type # "stop"
        /\ ToolCallDelta(f.text, f.index).type # "stop"
    BY DEF Plain, TextDelta, ToolCallStart, ToolCallDelta
  <2> QED
    BY <2>1, AnswerEvents DEF OpenEvent, Frame
<1> QED
  BY <1>1 DEF DecodeFrame

(* Only a stop event is encoded as a frame that ends the stream.           *)
LEMMA OpenEncoded ==
    ASSUME NEW ev \in OpenEvent
    PROVE  /\ EncodeChunk(ev) \in Seq(OpenFrame("openai"))
           /\ \A e \in Encoder : EncodeFrames(e, ev) \in Seq(OpenFrame("anthropic"))
<1>1. ev \in AnswerEvent /\ ev.type # "stop" /\ ev.type # "error"
  BY DEF OpenEvent, AnswerEvent
<1>2. EncodeChunk(ev) \in Seq(OpenFrame("openai"))
  <2> DEFINE S == OpenFrame("openai")
  <2>1. ev.text \in Nat /\ ev.call \in Nat /\ ev.index \in Nat
    BY <1>1, EventFields DEF AnswerEvent
  <2>2. BareChunk("chunk") \in S
    <3>1. BareChunk("chunk").kind = "chunk"
      BY DEF BareChunk
    <3> QED
      BY <3>1, BareChunkType DEF OpenFrame, AnswerFrame, Frames
  <2>3. \A t \in Nat : TextChunk(t) \in S
    <3>1. \A t \in Nat : TextChunk(t).kind = "chunk"
      BY DEF TextChunk, BareChunk
    <3> QED
      BY <3>1, ChunkTypes DEF OpenFrame, AnswerFrame, Frames
  <2>4. \A x \in ToolCallEntry : CallChunk(x) \in S
    <3>1. \A x \in ToolCallEntry : CallChunk(x).kind = "chunk"
      BY DEF CallChunk, BareChunk
    <3> QED
      BY <3>1, ChunkTypes DEF OpenFrame, AnswerFrame, Frames
  <2>5. /\ [index |-> ev.index, call |-> ev.call, args |-> 0, function |-> TRUE]
             \in ToolCallEntry
        /\ [index |-> ev.index, call |-> 0, args |-> ev.text, function |-> TRUE]
             \in ToolCallEntry
    BY <2>1 DEF ToolCallEntry
  <2> HIDE DEF S
  <2>6. EncodeChunk(ev) \in Seq(S)
    BY <1>1, <2>1, <2>2, <2>3, <2>4, <2>5 DEF EncodeChunk
  <2> QED
    BY <2>6 DEF S
<1>3. ASSUME NEW e \in Encoder
      PROVE  EncodeFrames(e, ev) \in Seq(OpenFrame("anthropic"))
  <2>1. EncodeFrames(e, ev) \in Seq(AnswerFrame("anthropic"))
    BY <1>1, EncodedFrames
  <2>2. \A n \in DOMAIN EncodeFrames(e, ev) :
           EncodeFrames(e, ev)[n].kind \notin {"done", "message_stop"}
    <3>1. /\ BareFrame("message_start").kind \notin {"done", "message_stop"}
          /\ \A b, i, n : BlockStart(b, i, n).kind \notin {"done", "message_stop"}
          /\ \A b, i, n : BlockDelta(b, i, n).kind \notin {"done", "message_stop"}
          /\ \A i : BlockStop(i).kind \notin {"done", "message_stop"}
      BY DEF BareFrame, BlockStart, BlockDelta, BlockStop
    <3> QED
      BY <1>1, <3>1 DEF EncodeFrames, StartText, StopIfBegun
  <2> QED
    BY <2>1, <2>2 DEF OpenFrame
<1> QED
  BY <1>2, <1>3

-----------------------------------------------------------------------------
(* Backends.                                                               *)

(* A move of an OpenAI backend that goes on, and one that says why it      *)
(* stops.                                                                  *)
IsContent(u, s) ==
    /\ s.frame.kind = "chunk" /\ s.frame.finish = ""
    /\ s.next.quirks = u.quirks /\ s.next.phase = "open"

IsFinish(u, s) ==
    /\ s.frame.kind = "chunk" /\ s.frame.finish # ""
    /\ s.next.quirks = u.quirks /\ s.next.phase = "finished"

(* The kinds and reasons of the chunks there are.                          *)
LEMMA ChunkFields ==
    /\ \A k : BareChunk(k).kind = k /\ BareChunk(k).finish = ""
    /\ \A t : TextChunk(t).kind = "chunk" /\ TextChunk(t).finish = ""
    /\ \A t : PlainChunk(t).kind = "chunk" /\ PlainChunk(t).finish = ""
    /\ \A e : CallChunk(e).kind = "chunk" /\ CallChunk(e).finish = ""
    /\ \A r : FinishChunk(r).kind = "chunk" /\ FinishChunk(r).finish = r
BY DEF BareChunk, TextChunk, PlainChunk, CallChunk, FinishChunk

LEMMA BackendPhases ==
    ASSUME NEW u \in Backend
    PROVE  /\ WithItem(u).phase = "open" /\ WithItem(u).quirks = u.quirks
           /\ \A n : WithCalls(u, n).phase = "open"
           /\ \A n : WithCalls(u, n).quirks = u.quirks
           /\ Finished(u).quirks = u.quirks /\ Ended(u).quirks = u.quirks
           /\ Finished(u).phase = "finished"
BY DEF WithItem, WithCalls, Finished, Ended, Backend

(* Text, tool calls and arguments go on.                                   *)
LEMMA ContentGoesOn ==
    ASSUME NEW u \in Backend
    PROVE  \A s \in OpenAIContent(u) : IsContent(u, s)
<1>0. ASSUME NEW f, f.kind = "chunk", f.finish = "",
             NEW v, v.quirks = u.quirks, v.phase = "open"
      PROVE  IsContent(u, Send(f, v))
  BY <1>0 DEF IsContent, Send
<1> HIDE DEF IsContent
<1>1. ASSUME NEW s \in OpenAITexts(u) PROVE IsContent(u, s)
  <2>1. s = Send(AnswerChunk(u, u.items + 1), WithItem(u))
    BY <1>1 DEF OpenAITexts, When
  <2>2. /\ AnswerChunk(u, u.items + 1).kind = "chunk"
        /\ AnswerChunk(u, u.items + 1).finish = ""
    BY ChunkFields DEF AnswerChunk
  <2> QED
    BY <1>0, <2>1, <2>2, BackendPhases
<1>2. ASSUME NEW s \in OpenAICalls(u) PROVE IsContent(u, s)
  <2> DEFINE one == Announce(u.calls + 1, 0)
             two == Announce(u.calls + 2, 0)
             full == Announce(u.calls + 1, u.items + 1)
             empty == [one EXCEPT !.function = FALSE]
             pair == [BareChunk("chunk") EXCEPT !.calls = <<one, two>>]
             more == WithItem(WithCalls(u, 1))
  <2>1. s \in {Send(CallChunk(one), WithCalls(u, 1)),
               Send(CallChunk(empty), WithCalls(u, 1)),
               Send(CallChunk(full), more),
               Send(pair, WithCalls(u, 2))}
    BY <1>2 DEF OpenAICalls, When, Quirk
  <2>2. pair.kind = "chunk" /\ pair.finish = ""
    BY DEF BareChunk
  <2>3. more.quirks = u.quirks /\ more.phase = "open"
    <3>1. WithCalls(u, 1) \in Backend /\ WithCalls(u, 1).quirks = u.quirks
      BY BackendMoves, BackendPhases
    <3> QED
      BY <3>1, BackendPhases
  <2> HIDE DEF one, empty, full, pair, more
  <2>4. /\ IsContent(u, Send(CallChunk(one), WithCalls(u, 1)))
        /\ IsContent(u, Send(CallChunk(empty), WithCalls(u, 1)))
        /\ IsContent(u, Send(CallChunk(full), more))
        /\ IsContent(u, Send(pair, WithCalls(u, 2)))
    BY <1>0, <2>2, <2>3, ChunkFields, BackendPhases
  <2> QED
    BY <2>1, <2>4
<1>3. ASSUME NEW s \in OpenAIArguments(u) PROVE IsContent(u, s)
  <2>1. PICK k : s = Send(CallChunk(Arguments(k, u.items + 1)), WithItem(u))
    BY <1>3 DEF OpenAIArguments, When
  <2> QED
    BY <1>0, <2>1, ChunkFields, BackendPhases
<1> QED
  BY <1>1, <1>2, <1>3 DEF OpenAIContent

(* A finish chunk has a reason.                                            *)
LEMMA FinishesGiveReason ==
    ASSUME NEW u \in Backend
    PROVE  \A s \in OpenAIFinishes(u) : IsFinish(u, s)
<1>0. ASSUME NEW f, f.kind = "chunk", f.finish # "",
             NEW v, v.quirks = u.quirks, v.phase = "finished"
      PROVE  IsFinish(u, Send(f, v))
  BY <1>0 DEF IsFinish, Send
<1>1. \A r \in FinishReasonsOf(u) : r # ""
  BY DEF FinishReasonsOf, Quirk, When
<1>2. [FinishChunk("stop") EXCEPT !.text = u.items + 1].kind = "chunk"
      /\ [FinishChunk("stop") EXCEPT !.text = u.items + 1].finish = "stop"
  BY DEF FinishChunk, BareChunk
<1>3. Finished(WithItem(u)).quirks = u.quirks
      /\ Finished(WithItem(u)).phase = "finished"
  BY BackendMoves, BackendPhases
<1>4. IsFinish(u, Send([FinishChunk("stop") EXCEPT !.text = u.items + 1],
                       Finished(WithItem(u))))
  BY <1>0, <1>2, <1>3
<1>5. \A r \in FinishReasonsOf(u) : IsFinish(u, Send(FinishChunk(r), Finished(u)))
  BY <1>0, <1>1, ChunkFields, BackendPhases
<1> QED
  BY <1>4, <1>5 DEF OpenAIFinishes, When, Quirk

(* What an OpenAI backend does next.                                       *)
LEMMA OpenAIGoesOn ==
    ASSUME NEW u \in Backend, NEW s \in OpenAISends(u)
    PROVE  /\ s.next.quirks = u.quirks
           /\ s.frame.kind \in {"chunk", "usage", "done"}
           /\ Unending(u.phase) =>
                 \/ IsContent(u, s)
                 \/ IsFinish(u, s) /\ (u.phase = "open" \/ "finish_first" \in u.quirks)
           /\ ~Unending(u.phase) => s.next.phase \notin {"new", "open"}
<1>1. CASE u.phase = "new"
  <2>1. \/ s = Send(BareChunk("chunk"), [u EXCEPT !.phase = "open"])
        \/ s \in OpenAIContent(u)
        \/ s \in OpenAIFinishes(u) /\ "finish_first" \in u.quirks
    BY <1>1 DEF OpenAISends, Quirk, When
  <2>2. IsContent(u, Send(BareChunk("chunk"), [u EXCEPT !.phase = "open"]))
    BY ChunkFields DEF IsContent, Send, Backend
  <2>3. \/ IsContent(u, s)
        \/ IsFinish(u, s) /\ "finish_first" \in u.quirks
    BY <2>1, <2>2, ContentGoesOn, FinishesGiveReason
  <2> QED
    BY <1>1, <2>3 DEF IsContent, IsFinish, Unending
<1>2. CASE u.phase = "open"
  <2>1. s \in OpenAIContent(u) \/ s \in OpenAIFinishes(u)
    BY <1>2 DEF OpenAISends
  <2> QED
    BY <1>2, <2>1, ContentGoesOn, FinishesGiveReason
    DEF IsContent, IsFinish, Unending
<1>3. CASE u.phase \notin {"new", "open"}
  <2>1. s \in {Send(BareChunk("usage"), [u EXCEPT !.phase = "counted"]),
               Send(DoneChunk, Ended(u))}
    BY <1>3 DEF OpenAISends
  <2>2. /\ [u EXCEPT !.phase = "counted"].quirks = u.quirks
        /\ [u EXCEPT !.phase = "counted"].phase = "counted"
        /\ Ended(u).quirks = u.quirks /\ Ended(u).phase = "over"
    BY DEF Backend, Ended
  <2>3. CASE s = Send(BareChunk("usage"), [u EXCEPT !.phase = "counted"])
    <3>1. s.frame = BareChunk("usage") /\ s.next = [u EXCEPT !.phase = "counted"]
      BY <2>3 DEF Send
    <3> QED
      BY <1>3, <2>2, <3>1, ChunkFields DEF Unending
  <2>4. CASE s = Send(DoneChunk, Ended(u))
    <3>1. s.frame = BareChunk("done") /\ s.next = Ended(u)
      BY <2>4 DEF Send, DoneChunk
    <3> QED
      BY <1>3, <2>2, <3>1, ChunkFields DEF Unending
  <2> QED
    BY <2>1, <2>3, <2>4
<1> QED
  BY <1>1, <1>2, <1>3

(* A move of an Anthropic backend that goes on.                            *)
IsBlockMove(u, s) ==
    /\ s.frame.kind \in {"message_start", "ping", "content_block_start",
                         "content_block_delta", "content_block_stop"}
    /\ s.next.quirks = u.quirks /\ s.next.phase = "open"

LEMMA FrameFields ==
    /\ \A k : BareFrame(k).kind = k
    /\ \A b, i, n : BlockStart(b, i, n).kind = "content_block_start"
    /\ \A b, i, n : BlockDelta(b, i, n).kind = "content_block_delta"
    /\ \A i : BlockStop(i).kind = "content_block_stop"
    /\ \A r : MessageDelta(r).kind = "message_delta" /\ MessageDelta(r).reason = r
BY DEF BareFrame, BlockStart, BlockDelta, BlockStop, MessageDelta

(* What an Anthropic backend does next: only a message_delta says why the  *)
(* answer ends, and it always does.                                        *)
LEMMA AnthropicGoesOn ==
    ASSUME NEW u \in Backend, NEW s \in AnthropicSends(u)
    PROVE  /\ s.next.quirks = u.quirks
           /\ Unending(u.phase) =>
                 \/ IsBlockMove(u, s)
                 \/ s.frame.kind = "message_delta" /\ s.frame.reason # ""
           /\ ~Unending(u.phase) =>
                 s.frame.kind = "message_stop" /\ ~Unending(s.next.phase)
<1>0. ASSUME NEW f, f.kind \in {"message_start", "ping", "content_block_start",
                               "content_block_delta", "content_block_stop"},
             NEW v, v.quirks = u.quirks, v.phase = "open"
      PROVE  IsBlockMove(u, Send(f, v))
  BY <1>0 DEF IsBlockMove, Send
<1>1. CASE u.phase = "new"
  <2>1. s = Send(BareFrame("message_start"), [u EXCEPT !.phase = "open"])
    BY <1>1 DEF AnthropicSends
  <2>2. /\ [u EXCEPT !.phase = "open"].phase = "open"
        /\ [u EXCEPT !.phase = "open"].quirks = u.quirks
    BY DEF Backend
  <2>3. BareFrame("message_start").kind = "message_start"
    BY FrameFields
  <2>4. s.frame = BareFrame("message_start") /\ s.next = [u EXCEPT !.phase = "open"]
    BY <2>1 DEF Send
  <2>5. IsBlockMove(u, s)
    BY <2>2, <2>3, <2>4 DEF IsBlockMove
  <2> QED
    BY <1>1, <2>5 DEF IsBlockMove, Unending
<1>2. CASE u.phase = "open"
  <2>1. \/ s = Send(BareFrame("ping"), u)
        \/ s \in AnthropicBlocks(u)
        \/ s \in AnthropicFinishes(u)
        \/ s \in AnthropicInBlock(u)
    BY <1>2 DEF AnthropicSends
  <2>2. CASE s = Send(BareFrame("ping"), u)
    <3>1. IsBlockMove(u, s)
      BY <1>0, <1>2, <2>2, FrameFields
    <3> QED
      BY <1>2, <3>1 DEF IsBlockMove, Unending
  <2>3. CASE s \in AnthropicBlocks(u)
    <3> DEFINE text == [u EXCEPT !.block = "text"]
               tool == [WithCalls(u, 1) EXCEPT !.block = "tool_use"]
    <3>1. s \in {Send(BlockStart("text", u.index, 0), text),
                 Send(BlockStart("tool_use", u.index, u.calls + 1), tool)}
      BY <2>3 DEF AnthropicBlocks, When
    <3>2. /\ text.quirks = u.quirks /\ text.phase = "open"
          /\ tool.quirks = u.quirks /\ tool.phase = "open"
      <4>1. WithCalls(u, 1) \in Backend
        BY BackendMoves
      <4> QED
        BY <1>2, <4>1, BackendPhases DEF Backend
    <3> HIDE DEF text, tool
    <3>3. IsBlockMove(u, s)
      BY <1>0, <3>1, <3>2, FrameFields
    <3> QED
      BY <1>2, <3>3 DEF IsBlockMove, Unending
  <2>4. CASE s \in AnthropicInBlock(u)
    <3> DEFINE after == [u EXCEPT !.block = "", !.index = @ + 1]
    <3>1. s \in {Send(BlockStop(u.index), after),
                 Send(BlockDelta(u.block, u.index, u.items + 1), WithItem(u))}
      BY <2>4 DEF AnthropicInBlock, When
    <3>2. after.quirks = u.quirks /\ after.phase = "open"
      BY <1>2 DEF Backend
    <3> HIDE DEF after
    <3>3. IsBlockMove(u, s)
      BY <1>0, <3>1, <3>2, FrameFields, BackendPhases
    <3> QED
      BY <1>2, <3>3 DEF IsBlockMove, Unending
  <2>5. CASE s \in AnthropicFinishes(u)
    <3>1. PICK r \in StopReasonsOf(u) : s = Send(MessageDelta(r), Finished(u))
      BY <2>5 DEF AnthropicFinishes
    <3>2. r # ""
      BY <3>1 DEF StopReasonsOf, Quirk, When
    <3>3. s.frame = MessageDelta(r) /\ s.next = Finished(u)
      BY <3>1 DEF Send
    <3>4. s.frame.kind = "message_delta" /\ s.frame.reason # ""
      BY <3>2, <3>3, FrameFields
    <3>5. s.next.quirks = u.quirks
      BY <3>3, BackendPhases
    <3> QED
      BY <1>2, <3>4, <3>5 DEF Unending
  <2> QED
    BY <2>1, <2>2, <2>3, <2>4, <2>5
<1>3. CASE u.phase \notin {"new", "open"}
  <2>1. s = Send(BareFrame("message_stop"), Ended(u))
    BY <1>3 DEF AnthropicSends
  <2>2. s.frame = BareFrame("message_stop") /\ s.next = Ended(u)
    BY <2>1 DEF Send
  <2>3. Ended(u).phase = "over" /\ Ended(u).quirks = u.quirks
    BY DEF Ended, Backend
  <2> QED
    BY <1>3, <2>2, <2>3, FrameFields DEF Unending
<1> QED
  BY <1>1, <1>2, <1>3

-----------------------------------------------------------------------------
(* Readers.                                                                *)

Reported(m) == m.phase \in {"ended", "failed"}

(* The reason a reader holds is the last one given.                        *)
LEMMA ReadReason ==
    ASSUME NEW m \in Message
    PROVE  /\ \A c \in Chunk : ReadChunk(m, c).reason =
                 IF c.kind \in {"chunk", "usage"} /\ c.finish # ""
                 THEN c.finish ELSE m.reason
           /\ \A f \in Frame : ReadFrame(m, f).reason =
                 IF f.kind = "message_delta" THEN f.reason ELSE m.reason
<1>1. ASSUME NEW c \in Chunk
      PROVE  ReadChunk(m, c).reason =
                 IF c.kind \in {"chunk", "usage"} /\ c.finish # ""
                 THEN c.finish ELSE m.reason
  <2>1. Opened(m) \in Message /\ Opened(m).reason = m.reason
    BY MessageFields DEF Opened, Message
  <2>2. CASE c.kind \in {"chunk", "usage"}
    <3>1. ReadChunk(m, c).reason = IF c.finish # "" THEN c.finish ELSE Opened(m).reason
      BY <2>1, <2>2 DEF ReadChunk, Message
    <3> QED
      BY <2>1, <2>2, <3>1
  <2>3. CASE c.kind \notin {"chunk", "usage"}
    BY <2>3 DEF ReadChunk, Message
  <2> QED
    BY <2>2, <2>3
<1>2. ASSUME NEW f \in Frame
      PROVE  ReadFrame(m, f).reason =
                 IF f.kind = "message_delta" THEN f.reason ELSE m.reason
  BY DEF ReadFrame, Opened, Message
<1> QED
  BY <1>1, <1>2

(* A reader learns of the end from [DONE] or message_stop and from nothing *)
(* else, and does not forget it.                                           *)
LEMMA ReadEnd ==
    ASSUME NEW m \in Message, NEW p \in Protocols, NEW f \in Frames(p)
    PROVE  /\ ReadAs(p, m, f).phase = "ended" =>
                 m.phase = "ended" \/ f.kind \in {"done", "message_stop"}
           /\ Reported(m) \/ f.kind \in {"done", "message_stop"} =>
                 Reported(ReadAs(p, m, f))
<1>1. CASE p = "openai"
  <2>1. f \in Chunk /\ ReadAs(p, m, f) = ReadChunk(m, f)
    BY <1>1 DEF Frames, ReadAs
  <2>2. CASE f.kind \in {"chunk", "usage"}
    <3>1. ReadChunk(m, f).phase = Opened(m).phase
      BY <2>2, MessageFields DEF ReadChunk, Message
    <3>2. /\ Opened(m).phase = "ended" => m.phase = "ended"
          /\ Reported(m) => Opened(m).phase = m.phase
      BY DEF Opened, Message, Reported
    <3> QED
      BY <2>1, <2>2, <3>1, <3>2 DEF Reported
  <2>3. CASE f.kind \notin {"chunk", "usage"}
    <3>1. f.kind \in {"error", "done", "garbage"}
      BY <2>1, <2>3 DEF Chunk
    <3> QED
      BY <2>1, <3>1 DEF ReadChunk, Message, Reported
  <2> QED
    BY <2>2, <2>3
<1>2. CASE p # "openai"
  <2>1. f \in Frame /\ ReadAs(p, m, f) = ReadFrame(m, f)
    BY <1>2 DEF Frames, ReadAs
  <2>2. f.kind # "done"
    BY <2>1 DEF Frame
  <2>3. Reported(m) => ReadFrame(m, f).phase \in {"ended", "failed"}
    BY DEF ReadFrame, Opened, Message, Reported
  <2>4. ReadFrame(m, f).phase = "ended" => m.phase = "ended" \/ f.kind = "message_stop"
    BY DEF ReadFrame, Opened, Message
  <2>5. f.kind = "message_stop" => ReadFrame(m, f).phase = "ended"
    BY DEF ReadFrame, Message
  <2> QED
    BY <2>1, <2>2, <2>3, <2>4, <2>5 DEF Reported
<1> QED
  BY <1>1, <1>2

-----------------------------------------------------------------------------
(* Reading from a backend that finishes properly.                          *)

(* What it sends is a move of its protocol or data that is not a frame.    *)
LEMMA ProperSends ==
    ASSUME NEW p \in Protocols, NEW u \in Backend, FinishesProperly(u.quirks),
           NEW s \in Sends(p, u)
    PROVE  \/ s = Send(BareOf(p, "garbage"), Ended(u))
           \/ p = "openai" /\ s \in OpenAISends(u)
           \/ p = "anthropic" /\ s \in AnthropicSends(u)
<1>1. "upstream_error" \notin u.quirks
  BY DEF FinishesProperly
<1> QED
  BY <1>1 DEF Sends, Quirk, When, Protocols

(* As long as no reason was given the stream goes on: what is read is not  *)
(* the end, and makes no stop event.  A reason, once given, is kept.       *)
LEMMA ReadStep ==
    ASSUME TypeOK, FinishesProperly(up.quirks), NEW s \in Sends(outbound, up), Read(s)
    PROVE  /\ up'.quirks = up.quirks
           /\ said.reason # "" => said'.reason # ""
           /\ said'.reason = "" /\ Unending(up.phase) =>
                 /\ ~IsEnd(s.frame)
                 /\ \/ IsUndecodable(s.frame)
                    \/ Unending(up'.phase) /\ Decoded(s.frame) \in Seq(OpenEvent)
<1>1. /\ up' = s.next /\ said' = ReadAs(outbound, said, s.frame)
      /\ outbound \in Protocols /\ up \in Backend /\ said \in Message
      /\ s.frame \in Frames(outbound) /\ started \in BOOLEAN
  BY ReadType DEF Read, TypeOK
<1>2. CASE s = Send(BareOf(outbound, "garbage"), Ended(up))
  <2>1. s.frame = BareOf(outbound, "garbage") /\ s.next = Ended(up)
    BY <1>2 DEF Send
  <2>2. s.frame.kind = "garbage"
    BY <2>1, ChunkFields, FrameFields DEF BareOf
  <2>3. said'.reason = said.reason
    BY <1>1, <2>2, ReadReason DEF ReadAs, Frames, Protocols
  <2>4. ~IsEnd(s.frame) /\ IsUndecodable(s.frame)
    BY <2>2 DEF IsEnd, IsUndecodable, IsDone, IsStop, IsBadChunk, IsBadFrame
  <2> QED
    BY <1>1, <2>1, <2>3, <2>4, BackendPhases
<1>3. CASE outbound = "openai" /\ s \in OpenAISends(up)
  <2>1. s.frame \in Chunk /\ said' = ReadChunk(said, s.frame)
    BY <1>1, <1>3 DEF Frames, ReadAs
  <2>2. said.reason # "" => said'.reason # ""
    BY <1>1, <2>1, ReadReason
  <2>3. up'.quirks = up.quirks
    BY <1>1, <1>3, OpenAIGoesOn
  <2>4. ASSUME said'.reason = "", Unending(up.phase)
        PROVE  /\ ~IsEnd(s.frame) /\ Unending(up'.phase)
               /\ Decoded(s.frame) \in Seq(OpenEvent)
    <3>1. IsContent(up, s) \/ IsFinish(up, s)
      BY <1>1, <1>3, <2>4, OpenAIGoesOn
    <3>2. ~IsFinish(up, s)
      BY <1>1, <2>1, <2>4, ReadReason DEF IsFinish
    <3>3. s.frame.kind = "chunk" /\ s.frame.finish = "" /\ s.next.phase = "open"
      BY <3>1, <3>2 DEF IsContent
    <3>4. DecodeChunk(started, s.frame) \in Seq(OpenEvent)
      BY <1>1, <2>1, <3>3, OpenChunk
    <3> QED
      BY <1>1, <1>3, <3>3, <3>4 DEF IsEnd, IsDone, Decoded, Unending
  <2> QED
    BY <2>2, <2>3, <2>4
<1>4. CASE outbound = "anthropic" /\ s \in AnthropicSends(up)
  <2>1. s.frame \in Frame /\ said' = ReadFrame(said, s.frame)
    BY <1>1, <1>4 DEF Frames, ReadAs
  <2>2. s.frame.kind = "message_delta" => s.frame.reason # ""
    BY <1>1, <1>4, AnthropicGoesOn DEF IsBlockMove
  <2>3. said.reason # "" => said'.reason # ""
    BY <1>1, <2>1, <2>2, ReadReason
  <2>4. up'.quirks = up.quirks
    BY <1>1, <1>4, AnthropicGoesOn
  <2>5. ASSUME said'.reason = "", Unending(up.phase)
        PROVE  /\ ~IsEnd(s.frame) /\ Unending(up'.phase)
               /\ Decoded(s.frame) \in Seq(OpenEvent)
    <3>1. s.frame.kind # "message_delta"
      BY <1>1, <2>1, <2>2, <2>5, ReadReason
    <3>2. IsBlockMove(up, s)
      BY <1>1, <1>4, <2>5, <3>1, AnthropicGoesOn
    <3>3. s.frame.kind # "message_stop" /\ s.next.phase = "open"
      BY <3>2 DEF IsBlockMove
    <3>4. DecodeFrame(s.frame) \in Seq(OpenEvent)
      BY <2>1, <3>1, OpenFrameDecoded
    <3> QED
      BY <1>1, <1>4, <3>3, <3>4 DEF IsEnd, IsStop, Decoded, Unending
  <2> QED
    BY <2>3, <2>4, <2>5
<1> QED
  BY <1>1, <1>2, <1>3, <1>4, ProperSends

-----------------------------------------------------------------------------
(* Until the backend has given a reason nothing in the gateway, and        *)
(* nothing at the client, looks like the end of a stream.                  *)
Unfinished ==
    /\ pc # "finish"
    /\ pc \in {"dial", "stream"} => Unending(up.phase) /\ link # "eof"
    /\ pending \in Seq(OpenEvent)
    /\ pc # "report" => out \in Seq(OpenFrame(inbound))
    /\ heard.phase # "ended"

EndInv ==
    /\ ReportInv
    /\ FinishesProperly(up.quirks)
    /\ said.reason = "" => Unfinished

LEMMA ReportNext == ReportInv /\ [Next]_vars => ReportInv'
<1>1. ReportInv /\ [Next]_vars => TypeOK'
  BY NextType DEF ReportInv
<1> QED
  BY <1>1, HookCountNext, AnswerUnreportedNext, ReportHeardNext DEF ReportInv

LEMMA EndInit ==
    ASSUME \A c \in Clients : FinishesProperly(QuirksFor[c])
    PROVE  Init => EndInv
<1> SUFFICES ASSUME Init PROVE EndInv
  OBVIOUS
<1>1. ReportInv
  BY ReportInit
<1>2. up.quirks = QuirksFor[inbound] /\ up.phase = "new"
  BY DEF Init, NewBackend
<1>3. FinishesProperly(up.quirks)
  BY <1>2 DEF Init
<1>4. heard.phase = "before"
  BY DEF Init, NoMessage
<1>5. Unfinished
  BY <1>2, <1>4 DEF Init, Unfinished, Unending
<1> QED
  BY <1>1, <1>3, <1>5 DEF EndInv

(* While no reason has been given, what is read leaves the stream          *)
(* unfinished.                                                             *)
LEMMA ReceiveUnfinished ==
    ASSUME EndInv, Receive
    PROVE  /\ FinishesProperly(up'.quirks)
           /\ said.reason # "" => said'.reason # ""
           /\ said'.reason = "" => Unfinished'
<1> USE DEF EndInv, decoderVars, clientVars
<1>0. TypeOK
  BY DEF ReportInv
<1>1. PICK s \in Sends(outbound, up) : Read(s) /\
         \/ /\ ~IsUndecodable(s.frame)
            /\ pending' = Decoded(s.frame)
            /\ UNCHANGED <<inbound, pc, link, out, heard>>
         \/ IsEnd(s.frame)
         \/ /\ pc' \in {"fail", "panicked"}
            /\ UNCHANGED <<inbound, pending, out, heard>>
  BY DEF Receive, ReceiveEvents, ReceiveEnd, ReceiveUndecodable, ReceivePanics
<1>2. /\ up'.quirks = up.quirks
      /\ said.reason # "" => said'.reason # ""
      /\ said'.reason = "" /\ Unending(up.phase) =>
            /\ ~IsEnd(s.frame)
            /\ \/ IsUndecodable(s.frame)
               \/ Unending(up'.phase) /\ Decoded(s.frame) \in Seq(OpenEvent)
  BY <1>0, <1>1, ReadStep
<1>3. pc = "stream" /\ link = "open"
  BY <1>1 DEF Read, IsReading
<1>4. ASSUME said'.reason = "" PROVE Unfinished'
  <2>1. Unfinished /\ Unending(up.phase)
    BY <1>2, <1>3, <1>4 DEF Unfinished
  <2> QED
    BY <1>1, <1>2, <1>3, <1>4, <2>1 DEF Unfinished
<1> QED
  BY <1>2, <1>4

LEMMA EndNext == EndInv /\ [Next]_vars => EndInv'
<1> SUFFICES ASSUME EndInv, [Next]_vars PROVE EndInv'
  OBVIOUS
<1>0. ReportInv' /\ TypeOK
  BY ReportNext DEF EndInv, ReportInv
<1>1. CASE Receive
  BY <1>0, <1>1, ReceiveUnfinished DEF EndInv
<1>2. SUFFICES ASSUME ~Receive, said.reason = "" PROVE Unfinished'
  <2>1. ~Receive => UNCHANGED <<up, said>>
    BY DEF Next, Handler, Environment, Terminated, DoStreamSucceeds,
           DoStreamFails, ReadEOF, ReadFails, HandleEvent, HookFails,
           WriteFrame, WriteFails, Fail, Return, BackendCuts, BackendCloses,
           ClientLeaves, NoticeClientGone, backendVars, vars
  <2> QED
    BY <1>0, <1>1, <1>2, <2>1 DEF EndInv
<1>3. Unfinished /\ ReportInv
  BY <1>2 DEF EndInv
<1> USE DEF Unfinished, backendVars, decoderVars, clientVars
<1>4. CASE DoStreamSucceeds
  BY <1>3, <1>4 DEF DoStreamSucceeds
<1>5. CASE DoStreamFails
  <2>1. [heard EXCEPT !.phase = "failed"].phase = "failed"
    BY <1>0 DEF TypeOK, Message
  <2> QED
    BY <1>3, <1>5, <2>1 DEF DoStreamFails
<1>6. CASE ReadEOF \/ ReadFails \/ HookFails
  <2>1. pc = "stream" /\ ~ReadEOF
    BY <1>3, <1>6 DEF ReadEOF, ReadFails, HookFails, IsReading, HasEvent
  <2>2. pc' = "fail" /\ UNCHANGED <<inbound, pending, out, heard>>
    BY <1>6, <2>1 DEF ReadFails, HookFails
  <2> QED
    BY <1>3, <2>1, <2>2
<1>7. CASE HandleEvent
  <2>1. Head(pending) \in OpenEvent /\ pending' \in Seq(OpenEvent)
    BY <1>3, <1>7 DEF HandleEvent, HasEvent
  <2>2. out' \in Seq(OpenFrame(inbound)) /\ UNCHANGED <<inbound, pc, up, link, heard>>
    <3>1. CASE inbound = "openai"
      BY <1>7, <2>1, <3>1, OpenEncoded DEF HandleEvent
    <3>2. CASE inbound # "openai"
      <4>1. inbound = "anthropic" /\ encoder \in Encoder
        BY <1>0, <3>2 DEF TypeOK, Protocols
      <4> QED
        BY <1>7, <2>1, <4>1, OpenEncoded DEF HandleEvent
    <3> QED
      BY <3>1, <3>2
  <2> QED
    BY <1>3, <2>1, <2>2
<1>8. CASE WriteFrame
  <2>1. /\ out # <<>> /\ out' = Tail(out)
        /\ UNCHANGED <<inbound, pc, up, link, pending>>
    BY <1>8 DEF WriteFrame
  <2>2. CASE conn # "up"
    <3>1. heard' = heard
      BY <1>8, <2>2 DEF WriteFrame
    <3> QED
      BY <1>3, <2>1, <3>1
  <2>3. CASE conn = "up"
    <3>1. /\ heard' = ReadAs(inbound, heard, Head(out))
          /\ heard \in Message /\ inbound \in Protocols
          /\ Head(out) \in Frames(inbound)
      BY <1>0, <1>8, <2>1, <2>3 DEF WriteFrame, TypeOK
    <3>2. heard'.phase # "ended"
      <4>1. CASE pc # "report"
        <5>1. Head(out).kind \notin {"done", "message_stop"}
          BY <1>3, <2>1, <4>1 DEF OpenFrame
        <5> QED
          BY <1>3, <3>1, <5>1, ReadEnd
      <4>2. CASE pc = "report" /\ heard.phase = "failed" /\ out \in {<<>>, DoneFrames}
        <5>1. inbound = "openai"
          BY <2>1, <4>2, ErrorFrameSequence
        <5> QED
          BY <3>1, <4>2, <5>1, Phases
      <4>3. CASE pc = "report" /\ out = <<BareOf(inbound, "error")>> \o DoneFrames
        <5>1. Head(out).kind = "error"
          BY <4>3, ErrorFrameSequence, ChunkFields, FrameFields DEF BareOf
        <5> QED
          BY <3>1, <5>1, Phases
      <4> QED
        BY <1>3, <2>3, <4>1, <4>2, <4>3 DEF ReportInv, ReportHeard
    <3> QED
      BY <1>3, <2>1, <3>2
  <2> QED
    BY <2>2, <2>3
<1>9. CASE WriteFails
  <2>1. UNCHANGED <<inbound, up, link, pending, heard>>
    BY <1>9 DEF WriteFails
  <2>2. \/ pc = "report" /\ pc' = pc
        \/ pc' = "fail" /\ out' = <<>>
    BY <1>9 DEF WriteFails
  <2>3. <<>> \in Seq(OpenFrame(inbound))
    OBVIOUS
  <2>4. pc' # "report" => out' \in Seq(OpenFrame(inbound))
    BY <2>2, <2>3
  <2> QED
    BY <1>3, <2>1, <2>2, <2>4
<1>10. CASE Fail \/ Return
  <2>1. UNCHANGED <<inbound, up, link, pending, heard>>
    BY <1>10 DEF Fail, Return
  <2>2. pc' = "report" \/ (pc' = "closed" /\ out' = <<>>)
    BY <1>10 DEF Fail, Return
  <2>3. <<>> \in Seq(OpenFrame(inbound))
    OBVIOUS
  <2>4. pc' # "report" => out' \in Seq(OpenFrame(inbound))
    BY <2>2, <2>3
  <2> QED
    BY <1>3, <2>1, <2>2, <2>4
<1>11. CASE Environment
  <2>1. UNCHANGED <<inbound, pc, up, pending, out, heard>>
    BY <1>11 DEF Environment, BackendCuts, BackendCloses, ClientLeaves,
                 NoticeClientGone
  <2>2. link' = "eof" => link = "eof" \/ MayClose(up)
    BY <1>11 DEF Environment, BackendCuts, BackendCloses, ClientLeaves,
                 NoticeClientGone
  <2>3. MayClose(up) => ~Unending(up.phase)
    BY DEF EndInv, FinishesProperly, MayClose, Unending
  <2>4. pc' \in {"dial", "stream"} => Unending(up'.phase) /\ link' # "eof"
    BY <1>3, <2>1, <2>2, <2>3
  <2>5. pc' # "report" => out' \in Seq(OpenFrame(inbound'))
    BY <1>3, <2>1
  <2>6. pc' # "finish" /\ pending' \in Seq(OpenEvent) /\ heard'.phase # "ended"
    BY <1>3, <2>1
  <2> QED
    BY <2>4, <2>5, <2>6
<1>12. CASE UNCHANGED vars
  <2>1. UNCHANGED <<inbound, pc, up, link, pending, out, heard>>
    BY <1>12 DEF vars
  <2> QED
    BY <1>3, <2>1
<1> QED
  BY <1>2, <1>4, <1>5, <1>6, <1>7, <1>8, <1>9, <1>10, <1>11, <1>12
  DEF Next, Handler, Terminated

(* A stream that the backend did not finish is never passed off as one     *)
(* that ended well (HandleStream, core.go, and the two WriteDone), for     *)
(* every backend that reports no error in mid-stream and does not close    *)
(* before it has finished, whatever else it does.                          *)
THEOREM EndsAreEarned ==
    ASSUME \A c \in Clients : FinishesProperly(QuirksFor[c])
    PROVE  Spec => []UnfinishedIsNotEnded
<1>1. EndInv => UnfinishedIsNotEnded
  BY DEF EndInv, Unfinished, UnfinishedIsNotEnded
<1>2. Init => EndInv
  BY EndInit
<1> QED
  BY <1>1, <1>2, EndNext, PTL DEF Spec

-----------------------------------------------------------------------------
(* A client that stays learns how its stream ended.                        *)

HasStop(events) == \E n \in DOMAIN events : events[n].type = "stop"
HasEnd(frames) == \E n \in DOMAIN frames : frames[n].kind = "message_stop"

LEMMA TailKeeps ==
    ASSUME NEW S, NEW s \in Seq(S), s # <<>>, NEW n \in DOMAIN s
    PROVE  s[n] = Head(s) \/ \E k \in DOMAIN Tail(s) : Tail(s)[k] = s[n]
<1>1. CASE n = 1
  BY <1>1
<1>2. CASE n # 1
  <2>1. n - 1 \in DOMAIN Tail(s) /\ Tail(s)[n - 1] = s[n]
    BY <1>2
  <2> QED
    BY <2>1
<1> QED
  BY <1>1, <1>2

LEMMA StopEncoded ==
    ASSUME NEW e \in Encoder, NEW ev \in StreamEvent, ev.type = "stop"
    PROVE  HasEnd(EncodeFrames(e, ev))
<1> DEFINE last == <<MessageDelta(MapFinishReason(ev.reason)), BareFrame("message_stop")>>
<1>1. EncodeFrames(e, ev) = StopIfBegun(e) \o last
  BY DEF EncodeFrames
<1>2. MapFinishReason(ev.reason) \in Reasons
  BY EventFields DEF MapFinishReason, Reasons, FinishReasons, StopReasons
<1>3. /\ StopIfBegun(e) \in Seq(Frame)
      /\ last \in Seq(Frame) /\ Len(last) = 2 /\ last[2] = BareFrame("message_stop")
  BY <1>2, FrameTypes, BareFrameType, EncoderFields DEF StopIfBegun
<1> HIDE DEF last
<1> DEFINE n == Len(StopIfBegun(e)) + 2
<1>4. n \in 1..(Len(StopIfBegun(e)) + Len(last)) /\ n > Len(StopIfBegun(e))
  BY <1>3
<1>5. /\ n \in DOMAIN EncodeFrames(e, ev)
      /\ EncodeFrames(e, ev)[n] = last[2]
  <2> DEFINE begin == StopIfBegun(e)
  <2>1. begin \in Seq(Frame) /\ last \in Seq(Frame)
    BY <1>3
  <2> HIDE DEF begin
  <2>2. /\ Len(begin \o last) = Len(begin) + Len(last)
        /\ begin \o last \in Seq(Frame)
        /\ \A i \in 1..(Len(begin) + Len(last)) :
              (begin \o last)[i] = IF i <= Len(begin) THEN begin[i]
                                   ELSE last[i - Len(begin)]
    BY <2>1
  <2> USE DEF begin
  <2>3. n - Len(StopIfBegun(e)) = 2
    BY <1>3
  <2>4. n \in DOMAIN (begin \o last)
    BY <1>4, <2>2
  <2> QED
    BY <1>1, <1>4, <2>2, <2>3, <2>4
<1> HIDE DEF n
<1> QED
  BY <1>3, <1>5, FrameFields DEF HasEnd

LEMMA SingleEvent ==
    ASSUME NEW x
    PROVE  DOMAIN <<x>> = {1} /\ <<x>>[1] = x
OBVIOUS

(* The chunk or frame that gives the reason is decoded to a stop event.    *)
LEMMA ReadStop ==
    ASSUME TypeOK, FinishesProperly(up.quirks), "finish_first" \notin up.quirks,
           outbound = "openai" /\ up.phase # "new" => started,
           Unending(up.phase), NEW s \in Sends(outbound, up), Read(s),
           said.reason = "", said'.reason # ""
    PROVE  HasStop(Decoded(s.frame)) /\ ~IsEnd(s.frame)
<1>1. /\ said' = ReadAs(outbound, said, s.frame)
      /\ outbound \in Protocols /\ up \in Backend /\ said \in Message
      /\ s.frame \in Frames(outbound)
  BY ReadType DEF Read, TypeOK
<1>2. s # Send(BareOf(outbound, "garbage"), Ended(up))
  <2>1. SUFFICES ASSUME s = Send(BareOf(outbound, "garbage"), Ended(up))
                 PROVE  FALSE
    OBVIOUS
  <2>2. s.frame.kind = "garbage"
    <3>1. s.frame = BareOf(outbound, "garbage")
      BY <2>1 DEF Send
    <3> QED
      BY <3>1, ChunkFields, FrameFields DEF BareOf
  <2>3. said'.reason = said.reason
    BY <1>1, <2>2, ReadReason DEF ReadAs, Frames, Protocols
  <2> QED
    BY <2>3
<1>3. \A r : HasStop(<<Stop(r)>>)
  <2>1. \A r : Stop(r).type = "stop"
    BY DEF Stop, Plain
  <2> QED
    BY <2>1, SingleEvent DEF HasStop
<1>4. CASE outbound = "openai" /\ s \in OpenAISends(up)
  <2>1. s.frame \in Chunk /\ said' = ReadChunk(said, s.frame)
    BY <1>1, <1>4 DEF Frames, ReadAs
  <2>2. s.frame.kind = "chunk" /\ s.frame.finish # "" /\ up.phase = "open"
    BY <1>1, <1>4, <2>1, OpenAIGoesOn, ReadReason DEF IsContent, IsFinish
  <2>3. DecodeChunk(started, s.frame) = <<Stop(s.frame.finish)>>
    BY <1>4, <2>2 DEF DecodeChunk
  <2> QED
    BY <1>3, <1>4, <2>2, <2>3 DEF Decoded, IsEnd, IsDone
<1>5. CASE outbound = "anthropic" /\ s \in AnthropicSends(up)
  <2>1. s.frame \in Frame /\ said' = ReadFrame(said, s.frame)
    BY <1>1, <1>5 DEF Frames, ReadAs
  <2>2. s.frame.kind = "message_delta"
    BY <1>1, <2>1, ReadReason
  <2>3. DecodeFrame(s.frame) = <<Stop(MapStopReason(s.frame.reason))>>
    BY <2>2 DEF DecodeFrame
  <2> QED
    BY <1>3, <1>5, <2>2, <2>3 DEF Decoded, IsEnd, IsStop
<1> QED
  BY <1>1, <1>2, <1>4, <1>5, ProperSends

(* What a connected client is still owed at each point of the handler.     *)
OwedInStream ==
    pc \in {"dial", "stream", "finish"} /\ inbound = "anthropic" /\ said.reason # "" =>
        Reported(heard) \/ HasEnd(out) \/ HasStop(pending)

OwedAtFinish ==
    /\ pc = "finish" => pending = <<>>
    /\ pc = "finish" /\ inbound = "openai" /\ conn = "up" =>
          Reported(heard) \/ out = DoneFrames

SilenceInv ==
    /\ EndInv
    /\ "finish_first" \notin up.quirks
    /\ pc \in {"dial", "stream"} /\ outbound = "openai" /\ up.phase # "new" => started
    /\ conn = "up" => OwedInStream
    /\ OwedAtFinish
    /\ Over /\ conn = "up" => Reported(heard)

LEMMA SilenceInit ==
    ASSUME \A c \in Clients : /\ FinishesProperly(QuirksFor[c])
                              /\ "finish_first" \notin QuirksFor[c]
    PROVE  Init => SilenceInv
<1> SUFFICES ASSUME Init PROVE SilenceInv
  OBVIOUS
<1>1. EndInv
  BY EndInit
<1>2. up.quirks = QuirksFor[inbound] /\ up.phase = "new"
  BY DEF Init, NewBackend
<1>3. inbound \in Clients /\ pc = "dial"
  BY DEF Init
<1>4. said.reason = ""
  BY DEF Init, NoMessage
<1> QED
  BY <1>1, <1>2, <1>3, <1>4 DEF SilenceInv, OwedInStream, OwedAtFinish, Over

(* A read keeps what is owed: either it was given before, or the stop      *)
(* event is queued.                                                        *)
LEMMA SilenceReceive ==
    ASSUME SilenceInv, Receive, EndInv'
    PROVE  SilenceInv'
<1> USE DEF decoderVars, clientVars
<1>0. TypeOK /\ EndInv /\ FinishesProperly(up.quirks)
  BY DEF SilenceInv, EndInv, ReportInv
<1>1. PICK s \in Sends(outbound, up) : /\ Read(s)
         /\ UNCHANGED <<inbound, outbound, heard>>
         /\ \/ /\ ~IsEnd(s.frame)
               /\ pending' = Decoded(s.frame)
               /\ started' = (started \/ outbound = "openai")
               /\ UNCHANGED <<pc, out, conn>>
            \/ /\ IsEnd(s.frame)
               /\ pc' = "finish" /\ out' = DoneFrames
               /\ UNCHANGED <<pending, conn>>
            \/ pc' = "fail"
            \/ pc' = "panicked" /\ conn' = "gone"
  BY DEF Receive, ReceiveEvents, ReceiveEnd, ReceiveUndecodable, ReceivePanics
<1>2. pc = "stream" /\ pending = <<>> /\ out = <<>>
  BY <1>1 DEF Read, IsReading
<1>3. up'.quirks = up.quirks
  BY <1>0, <1>1, ReadStep
<1>4. DoneFrames' = DoneFrames
  BY <1>1 DEF DoneFrames
<1>5. ~HasEnd(out) /\ ~HasStop(pending)
  BY <1>2 DEF HasEnd, HasStop
<1>6. said.reason = "" => Unending(up.phase)
  BY <1>0, <1>2 DEF EndInv, Unfinished
<1>7. said.reason = "" /\ said'.reason # "" =>
         HasStop(Decoded(s.frame)) /\ ~IsEnd(s.frame)
  BY <1>0, <1>1, <1>2, <1>6, ReadStop DEF SilenceInv
<1>8. CASE /\ ~IsEnd(s.frame)
           /\ pending' = Decoded(s.frame)
           /\ started' = (started \/ outbound = "openai")
           /\ UNCHANGED <<pc, out, conn>>
  <2>1. conn' = "up" => OwedInStream'
    <3>1. CASE said.reason # ""
      BY <1>1, <1>2, <1>5, <1>8, <3>1 DEF SilenceInv, OwedInStream, Reported
    <3>2. CASE said.reason = ""
      BY <1>7, <1>8, <3>2 DEF OwedInStream, HasStop
    <3> QED
      BY <3>1, <3>2
  <2> QED
    BY <1>1, <1>2, <1>3, <1>8, <2>1 DEF SilenceInv, OwedAtFinish, Over
<1>9. CASE /\ IsEnd(s.frame)
           /\ pc' = "finish" /\ out' = DoneFrames
           /\ UNCHANGED <<pending, conn>>
  <2>1. conn' = "up" => OwedInStream'
    <3>1. CASE said.reason # ""
      BY <1>1, <1>2, <1>5, <1>9, <3>1 DEF SilenceInv, OwedInStream, Reported
    <3>2. CASE said.reason = ""
      BY <1>7, <1>9, <3>2 DEF OwedInStream
    <3> QED
      BY <3>1, <3>2
  <2> QED
    BY <1>1, <1>2, <1>3, <1>4, <1>9, <2>1 DEF SilenceInv, OwedAtFinish, Over
<1>10. CASE \/ pc' = "fail"
            \/ pc' = "panicked" /\ conn' = "gone"
  BY <1>3, <1>10 DEF SilenceInv, OwedInStream, OwedAtFinish, Over
<1> QED
  BY <1>1, <1>8, <1>9, <1>10

LEMMA SilenceNext == SilenceInv /\ [Next]_vars => SilenceInv'
<1> SUFFICES ASSUME SilenceInv, [Next]_vars PROVE SilenceInv'
  OBVIOUS
<1>0. EndInv' /\ TypeOK /\ ReportInv /\ ReportInv'
  BY EndNext DEF SilenceInv, EndInv, ReportInv
<1>1. CASE Receive
  BY <1>0, <1>1, SilenceReceive
<1> SUFFICES ASSUME ~Receive PROVE SilenceInv'
  BY <1>1
<1>2. UNCHANGED <<inbound, outbound, up, said, started>>
  BY DEF Next, Handler, Environment, Terminated, DoStreamSucceeds,
         DoStreamFails, ReadEOF, ReadFails, HandleEvent, HookFails,
         WriteFrame, WriteFails, Fail, Return, BackendCuts, BackendCloses,
         ClientLeaves, NoticeClientGone, backendVars, decoderVars, clientVars,
         vars
<1>3. DoneFrames' = DoneFrames
  BY <1>2 DEF DoneFrames
<1>4. SUFFICES /\ pc' \in {"dial", "stream"} => pc \in {"dial", "stream"}
               /\ conn' = "up" => OwedInStream'
               /\ OwedAtFinish'
               /\ pc' \in {"closed", "panicked"} /\ conn' = "up" => Reported(heard')
  BY <1>0, <1>2 DEF SilenceInv, Over
<1> USE DEF backendVars, decoderVars, clientVars
<1>5. CASE DoStreamSucceeds
  BY <1>2, <1>5 DEF DoStreamSucceeds, SilenceInv, OwedInStream, OwedAtFinish
<1>6. CASE DoStreamFails
  <2>1. [heard EXCEPT !.phase = "failed"].phase = "failed"
    BY <1>0 DEF TypeOK, Message
  <2> QED
    BY <1>2, <1>6, <2>1 DEF DoStreamFails, OwedInStream, OwedAtFinish, Reported
<1>7. CASE ReadEOF
  <2>1. /\ pc = "stream" /\ pending = <<>> /\ out = <<>>
        /\ pc' = "finish" /\ out' = DoneFrames
        /\ UNCHANGED <<pending, heard, conn>>
    BY <1>7 DEF ReadEOF, IsReading
  <2>2. ~HasEnd(out) /\ ~HasStop(pending)
    BY <2>1 DEF HasEnd, HasStop
  <2> QED
    BY <1>2, <1>3, <2>1, <2>2 DEF SilenceInv, OwedInStream, OwedAtFinish
<1>8. CASE ReadFails \/ HookFails
  <2>1. pc' = "fail"
    BY <1>8 DEF ReadFails, HookFails
  <2> QED
    BY <2>1 DEF OwedInStream, OwedAtFinish
<1>9. CASE HandleEvent
  <2>1. /\ pc = "stream" /\ pc' = "stream" /\ pending # <<>> /\ out = <<>>
        /\ pending' = Tail(pending)
        /\ pending \in Seq(StreamEvent)
        /\ Head(pending) \in StreamEvent
        /\ UNCHANGED <<heard, conn>>
    BY <1>0, <1>9 DEF HandleEvent, HasEvent, TypeOK
  <2>2. ASSUME inbound = "anthropic", HasStop(pending)
        PROVE  HasEnd(out') \/ HasStop(pending')
    <3>1. PICK n \in DOMAIN pending : pending[n].type = "stop"
      BY <2>2 DEF HasStop
    <3>2. CASE pending[n] = Head(pending)
      <4>1. out' = EncodeFrames(encoder, Head(pending))
        BY <1>9, <2>2 DEF HandleEvent
      <4>2. HasEnd(EncodeFrames(encoder, Head(pending)))
        BY <1>0, <2>1, <3>1, <3>2, StopEncoded DEF TypeOK
      <4> QED
        BY <4>1, <4>2
    <3>3. CASE pending[n] # Head(pending)
      <4>1. \E k \in DOMAIN Tail(pending) : Tail(pending)[k] = pending[n]
        BY <2>1, <3>3, TailKeeps
      <4> QED
        BY <2>1, <3>1, <4>1 DEF HasStop
    <3> QED
      BY <3>2, <3>3
  <2>3. ~HasEnd(out)
    BY <2>1 DEF HasEnd
  <2>4. conn' = "up" => OwedInStream'
    BY <1>2, <2>1, <2>2, <2>3 DEF SilenceInv, OwedInStream
  <2> QED
    BY <2>1, <2>4 DEF OwedAtFinish
<1>10. CASE WriteFrame
  <2>1. /\ out # <<>> /\ out' = Tail(out) /\ out \in Seq(Frames(inbound))
        /\ UNCHANGED <<pc, pending, conn>>
    BY <1>0, <1>10 DEF WriteFrame, TypeOK
  <2>2. CASE conn # "up"
    <3>1. pc = "finish" => pending = <<>>
      BY DEF SilenceInv, OwedAtFinish
    <3> QED
      BY <2>1, <2>2, <3>1 DEF OwedAtFinish
  <2>3. CASE conn = "up"
    <3>1. /\ heard' = ReadAs(inbound, heard, Head(out))
          /\ heard \in Message /\ inbound \in Protocols
          /\ Head(out) \in Frames(inbound)
      BY <1>0, <1>10, <2>1, <2>3 DEF WriteFrame, TypeOK
    <3>2. Reported(heard) \/ Head(out).kind \in {"done", "message_stop"} =>
             Reported(heard')
      BY <3>1, ReadEnd
    <3>3. HasEnd(out) => Reported(heard') \/ HasEnd(out')
      <4>1. SUFFICES ASSUME NEW n \in DOMAIN out, out[n].kind = "message_stop"
                     PROVE  Reported(heard') \/ HasEnd(out')
        BY DEF HasEnd
      <4>2. out[n] = Head(out) \/ \E k \in DOMAIN Tail(out) : Tail(out)[k] = out[n]
        BY <2>1, TailKeeps
      <4> QED
        BY <2>1, <3>2, <4>1, <4>2 DEF HasEnd
    <3>4. OwedInStream'
      BY <1>2, <2>1, <2>3, <3>2, <3>3 DEF SilenceInv, OwedInStream
    <3>5. OwedAtFinish'
      <4>1. out = DoneFrames => Head(out) = DoneChunk
        BY <2>1, ErrorFrameSequence
      <4>2. DoneChunk.kind = "done"
        BY DEF DoneChunk, BareChunk
      <4> QED
        BY <1>2, <2>1, <2>3, <3>2, <4>1, <4>2 DEF SilenceInv, OwedAtFinish
    <3>6. pc' \notin {"closed", "panicked"} \/ Reported(heard')
      BY <2>1, <2>3, <3>2 DEF SilenceInv, Over
    <3> QED
      BY <2>1, <3>4, <3>5, <3>6
  <2> QED
    BY <2>2, <2>3
<1>11. CASE WriteFails
  <2>1. pc' \in {"report", "fail"}
    BY <1>11 DEF WriteFails
  <2> QED
    BY <2>1 DEF OwedInStream, OwedAtFinish
<1>12. CASE Fail
  <2>1. pc' = "report"
    BY <1>12 DEF Fail
  <2> QED
    BY <2>1 DEF OwedInStream, OwedAtFinish
<1>13. CASE Return
  <2>1. /\ pc \in {"finish", "report"} /\ out = <<>> /\ pc' = "closed"
        /\ UNCHANGED <<heard, conn, errorHooks>>
    BY <1>13 DEF Return
  <2>2. ASSUME conn = "up", pc = "finish" PROVE Reported(heard)
    <3>1. CASE inbound = "openai"
      <4>1. DoneFrames # <<>>
        BY <3>1, SingleEvent DEF DoneFrames
      <4> QED
        BY <2>1, <2>2, <3>1, <4>1 DEF SilenceInv, OwedAtFinish
    <3>2. CASE inbound # "openai"
      <4>1. inbound = "anthropic" /\ said.reason # ""
        BY <1>0, <2>2, <3>2 DEF SilenceInv, EndInv, Unfinished, TypeOK, Protocols
      <4>2. ~HasEnd(out) /\ ~HasStop(pending)
        BY <2>1, <2>2 DEF SilenceInv, OwedAtFinish, HasEnd, HasStop
      <4> QED
        BY <2>2, <4>1, <4>2 DEF SilenceInv, OwedInStream
    <3> QED
      BY <3>1, <3>2
  <2>3. ASSUME conn = "up", pc = "report" PROVE Reported(heard)
    <3>1. errorHooks = 1
      BY <1>0, <2>3 DEF ReportInv, HookCount
    <3> QED
      BY <1>0, <2>1, <2>3, <3>1 DEF ReportInv, ReportHeard, Reported
  <2> QED
    BY <2>1, <2>2, <2>3 DEF OwedInStream, OwedAtFinish
<1>14. CASE Environment
  <2>1. /\ UNCHANGED <<pc, pending, out, heard>>
        /\ conn' = "up" => conn = "up"
    BY <1>14 DEF Environment, BackendCuts, BackendCloses, ClientLeaves,
                 NoticeClientGone
  <2> QED
    BY <1>2, <1>3, <2>1 DEF SilenceInv, OwedInStream, OwedAtFinish, Over
<1>15. CASE UNCHANGED vars
  <2>1. UNCHANGED <<pc, pending, out, heard, conn>>
    BY <1>15 DEF vars
  <2> QED
    BY <1>2, <1>3, <2>1 DEF SilenceInv, OwedInStream, OwedAtFinish, Over
<1> QED
  BY <1>5, <1>6, <1>7, <1>8, <1>9, <1>10, <1>11, <1>12, <1>13, <1>14, <1>15
  DEF Next, Handler, Terminated

(* When the handler of a stream is done, a client that is still connected  *)
(* knows how its stream ended, well or with an error (HandleStream,        *)
(* handleHTTPStreamError), for every backend that finishes properly and    *)
(* sends something before it does.                                         *)
THEOREM NoneIsLeftSilent ==
    ASSUME \A c \in Clients : /\ FinishesProperly(QuirksFor[c])
                              /\ "finish_first" \notin QuirksFor[c]
    PROVE  Spec => []NeverSilent
<1>1. SilenceInv => NeverSilent
  BY DEF SilenceInv, NeverSilent, Reported
<1>2. Init => SilenceInv
  BY SilenceInit
<1> QED
  BY <1>1, <1>2, SilenceNext, PTL DEF Spec

-----------------------------------------------------------------------------
(* Events in hand, for the encoder that writes blocks.                     *)

(* There is an event of type t among the events.                           *)
Brings(events, t) == \E n \in DOMAIN events : events[n].type = t

(* An element of the second of two joined sequences.                       *)
LEMMA Joined ==
    ASSUME NEW S, NEW s \in Seq(S), NEW t \in Seq(S), NEW n \in DOMAIN t
    PROVE  /\ Len(s) + n \in DOMAIN (s \o t)
           /\ (s \o t)[Len(s) + n] = t[n]
<1>1. /\ Len(s) \in Nat /\ n \in 1..Len(t) /\ Len(t) \in Nat
      /\ s \o t \in Seq(S) /\ Len(s \o t) = Len(s) + Len(t)
  OBVIOUS
<1>2. Len(s) + n \in 1..Len(s \o t) /\ Len(s) + n > Len(s)
  BY <1>1
<1>3. (s \o t)[Len(s) + n] = t[Len(s) + n - Len(s)]
  BY <1>1, <1>2, ConcatProperties
<1> QED
  BY <1>1, <1>2, <1>3

(* The events a chunk makes, by what is in it.                             *)
EventOf(b, c) ==
    {ev \in AnswerEvent :
        /\ ev.type = "text_delta" => c.text # 0
        /\ ev.type = "tool_call_start" => \E e \in Entries(c) : e.call # 0
        /\ ev.type = "tool_call_delta" => \E e \in Entries(c) : e.call = 0
        /\ ev.type = "stop" => b /\ c.finish # ""}

(* The types of the events there are.                                      *)
LEMMA EventKinds ==
    /\ \A t : Plain(t).type = t
    /\ \A t : TextDelta(t).type = "text_delta"
    /\ \A k, i : ToolCallStart(k, i).type = "tool_call_start"
    /\ \A t, i : ToolCallDelta(t, i).type = "tool_call_delta"
    /\ \A r : Stop(r).type = "stop"
BY DEF Plain, TextDelta, ToolCallStart, ToolCallDelta, Stop

(* The events that the tool-call entries of a chunk make.                  *)
LEMMA CallEvents ==
    ASSUME NEW b \in BOOLEAN, NEW c \in Chunk
    PROVE  /\ ToolCallEvents(c.calls) \in Seq(EventOf(b, c))
           /\ DOMAIN ToolCallEvents(c.calls) = DOMAIN c.calls
           /\ \A n \in DOMAIN c.calls : c.calls[n].call # 0 =>
                 ToolCallEvents(c.calls)[n].type = "tool_call_start"
<1>1. c.calls \in Seq(ToolCallEntry)
  BY DEF Chunk
<1>2. ASSUME NEW e \in Entries(c) PROVE ToolCallEvent(e) \in EventOf(b, c)
  <2>1. e \in ToolCallEntry
    BY <1>1 DEF Entries
  <2>2. /\ ToolCallStart(e.call, e.index) \in AnswerEvent
        /\ ToolCallDelta(e.args, e.index) \in AnswerEvent
    BY <2>1, EntryType, AnswerEvents
  <2> QED
    BY <2>2, EventKinds DEF ToolCallEvent, EventOf
<1>3. \A n \in DOMAIN c.calls : ToolCallEvent(c.calls[n]) \in EventOf(b, c)
  BY <1>2 DEF Entries
<1> QED
  BY <1>1, <1>3, EventKinds DEF ToolCallEvents, ToolCallEvent

(* The events that a chunk makes, whether the stream has started or not.   *)
LEMMA ChunkEvents ==
    ASSUME NEW b \in BOOLEAN, NEW c \in Chunk
    PROVE  /\ DecodeChunk(b, c) \in Seq(EventOf(b, c))
           /\ c.kind = "chunk" /\ c.finish = "" /\ c.text = 0 =>
                 \A e \in Entries(c) : e.call # 0 =>
                    Brings(DecodeChunk(b, c), "tool_call_start")
           /\ b /\ c.kind = "usage" => DecodeChunk(b, c) = <<Plain("usage")>>
           /\ b /\ c.kind = "chunk" /\ c.finish # "" =>
                 DecodeChunk(b, c) = <<Stop(c.finish)>>
           /\ ~b => /\ DecodeChunk(b, c) # <<>>
                    /\ Head(DecodeChunk(b, c)) = Plain("stream_start")
<1> DEFINE S == EventOf(b, c)
           calls == ToolCallEvents(c.calls)
           texts == TextEvents(c)
           first == <<Plain("stream_start")>>
<1>1. calls \in Seq(S)
  BY CallEvents
<1>2. first \in Seq(S) /\ <<Plain("usage")>> \in Seq(S)
  <2>1. Plain("stream_start") \in S /\ Plain("usage") \in S
    BY AnswerEvents, EventKinds DEF EventOf
  <2> HIDE DEF S
  <2> QED
    BY <2>1
<1>3. c.text # 0 => <<TextDelta(c.text)>> \in Seq(S)
  <2>1. c.text # 0 => TextDelta(c.text) \in S
    BY AnswerEvents, EventKinds DEF EventOf, Chunk
  <2> HIDE DEF S
  <2> QED
    BY <2>1
<1>4. ASSUME b, c.finish # "" PROVE <<Stop(c.finish)>> \in Seq(S)
  <2>1. Stop(c.finish) \in S
    BY <1>4, AnswerEvents, EventKinds DEF EventOf, Chunk
  <2> HIDE DEF S
  <2> QED
    BY <2>1
<1> HIDE DEF S
<1>5. texts \in Seq(S) /\ (c.text = 0 => texts = <<>>)
  <2>1. <<>> \in Seq(S)
    OBVIOUS
  <2> QED
    BY <1>3, <2>1 DEF TextEvents
<1> HIDE DEF calls, texts
<1>6. texts \o calls \in Seq(S)
  BY <1>1, <1>5
<1>7. first \o texts \o calls = first \o (texts \o calls)
  BY <1>1, <1>2, <1>5, ConcatAssociative
<1>8. /\ ~b => DecodeChunk(b, c) = first \o (texts \o calls)
      /\ b /\ c.kind = "usage" => DecodeChunk(b, c) = <<Plain("usage")>>
      /\ b /\ c.kind = "chunk" /\ c.finish # "" => DecodeChunk(b, c) = <<Stop(c.finish)>>
      /\ b /\ c.kind # "usage" /\ c.finish = "" /\ c.text = 0 => DecodeChunk(b, c) = calls
      /\ DecodeChunk(b, c) \in Seq(S)
  <2>1. /\ ~b => DecodeChunk(b, c) = first \o (texts \o calls)
        /\ b /\ c.kind = "usage" => DecodeChunk(b, c) = <<Plain("usage")>>
        /\ b /\ c.kind # "usage" /\ c.finish # "" => DecodeChunk(b, c) = <<Stop(c.finish)>>
        /\ b /\ c.kind # "usage" /\ c.finish = "" /\ c.text # 0 =>
              DecodeChunk(b, c) = <<TextDelta(c.text)>>
        /\ b /\ c.kind # "usage" /\ c.finish = "" /\ c.text = 0 => DecodeChunk(b, c) = calls
    <3>1. DecodeChunk(b, c) =
            CASE ~b -> first \o (texts \o calls)
              [] b /\ c.kind = "usage" -> <<Plain("usage")>>
              [] b /\ c.kind # "usage" /\ c.finish # "" -> <<Stop(c.finish)>>
              [] b /\ c.kind # "usage" /\ c.finish = "" /\ c.text # 0 -> <<TextDelta(c.text)>>
              [] OTHER -> calls
      BY <1>7, Zenon DEF DecodeChunk, calls, texts
    <3> QED
      BY <3>1
  <2>2. first \o (texts \o calls) \in Seq(S)
    BY <1>2, <1>6
  <2> QED
    BY <1>1, <1>2, <1>3, <1>4, <2>1, <2>2
<1>9. ~b => DecodeChunk(b, c) # <<>> /\ Head(DecodeChunk(b, c)) = Plain("stream_start")
  <2>1. Plain("stream_start") \in S
    BY AnswerEvents, EventKinds DEF EventOf, S
  <2> QED
    BY <1>6, <1>8, <2>1, HeadTailCons
<1>10. ASSUME c.kind = "chunk", c.finish = "", c.text = 0,
              NEW e \in Entries(c), e.call # 0
       PROVE  Brings(DecodeChunk(b, c), "tool_call_start")
  <2>0. PICK n \in DOMAIN c.calls : c.calls[n].call # 0
    BY <1>10 DEF Entries
  <2>1. n \in DOMAIN calls /\ calls[n].type = "tool_call_start"
    BY <2>0, CallEvents DEF calls
  <2>2. CASE b
    BY <1>8, <1>10, <2>1, <2>2 DEF Brings
  <2>3. CASE ~b
    <3>1. texts \o calls = calls
      BY <1>1, <1>5, <1>10, ConcatEmptySeq
    <3>2. DecodeChunk(b, c) = first \o calls
      BY <1>8, <2>3, <3>1
    <3>3. /\ Len(first) + n \in DOMAIN (first \o calls)
          /\ (first \o calls)[Len(first) + n] = calls[n]
      BY <1>1, <1>2, <2>1, Joined
    <3> QED
      BY <2>1, <3>2, <3>3 DEF Brings
  <2> QED
    BY <2>2, <2>3
<1> QED
  BY <1>8, <1>9, <1>10 DEF S

(* What a backend's move lets its events be, if it keeps text before tool  *)
(* calls: u before the move, v after it.                                   *)
Follows(u, v, events) ==
    /\ v.phase # "new"
    /\ Brings(events, "text_delta") => v.calls = 0
    /\ Brings(events, "tool_call_delta") => u.calls > 0
    /\ u.calls > 0 \/ Brings(events, "tool_call_start") <=> v.calls > 0
    /\ Brings(events, "stop") => Len(events) = 1 /\ ~Unending(v.phase)
    /\ ~Unending(u.phase) =>
          /\ ~Unending(v.phase)
          /\ \A n \in DOMAIN events : events[n].type = "usage"

(* The moves of an OpenAI backend, by what their chunks bring.             *)
BringsText(u, s) ==
    /\ s.frame.kind = "chunk" /\ Entries(s.frame) = {}
    /\ s.next.calls = u.calls
    /\ s.frame.text # 0 => TextAllowed(u) \/ s.frame.finish # ""
    /\ s.frame.finish # "" => ~Unending(s.next.phase)
BringsCalls(u, s) ==
    /\ s.frame.kind = "chunk" /\ s.frame.finish = "" /\ s.frame.text = 0
    /\ Entries(s.frame) # {} /\ \A e \in Entries(s.frame) : e.call # 0
    /\ s.next.calls > 0
BringsArguments(u, s) ==
    /\ s.frame.kind = "chunk" /\ s.frame.finish = "" /\ s.frame.text = 0
    /\ \A e \in Entries(s.frame) : e.call = 0
    /\ u.calls > 0 /\ s.next.calls = u.calls

(* The text and the entries of the chunks there are.                       *)
LEMMA ChunkContents ==
    /\ \A k : BareChunk(k).text = 0 /\ Entries(BareChunk(k)) = {}
    /\ \A t : TextChunk(t).text = t /\ Entries(TextChunk(t)) = {}
    /\ \A t : PlainChunk(t).text = 0 /\ Entries(PlainChunk(t)) = {}
    /\ \A e : CallChunk(e).text = 0 /\ Entries(CallChunk(e)) = {e}
    /\ \A r : FinishChunk(r).text = 0 /\ Entries(FinishChunk(r)) = {}
<1>1. /\ \A k : BareChunk(k).text = 0 /\ BareChunk(k).calls = <<>>
      /\ \A t : TextChunk(t).text = t /\ TextChunk(t).calls = <<>>
      /\ \A t : PlainChunk(t).text = 0 /\ PlainChunk(t).calls = <<>>
      /\ \A e : CallChunk(e).text = 0 /\ CallChunk(e).calls = <<e>>
      /\ \A r : FinishChunk(r).text = 0 /\ FinishChunk(r).calls = <<>>
  BY DEF BareChunk, TextChunk, PlainChunk, CallChunk, FinishChunk
<1>2. \A c : c.calls = <<>> => Entries(c) = {}
  BY DEF Entries
<1>3. \A c, e : c.calls = <<e>> => Entries(c) = {e}
  BY DEF Entries
<1> QED
  BY <1>1, <1>2, <1>3

(* The calls a backend has begun after each of its moves.                  *)
LEMMA BackendCalls ==
    ASSUME NEW u \in Backend
    PROVE  /\ WithItem(u).calls = u.calls
           /\ \A n : WithCalls(u, n).calls = u.calls + n
           /\ Finished(u).calls = u.calls
           /\ Finished(u).phase = "finished"
           /\ \A p : [u EXCEPT !.phase = p].calls = u.calls
           /\ \A p : [u EXCEPT !.phase = p].phase = p
BY DEF WithItem, WithCalls, Finished, Backend

(* Every chunk before [DONE] is of one of these kinds.                     *)
LEMMA OpenAIMoves ==
    ASSUME NEW u \in Backend, NEW s \in OpenAISends(u), s.frame.kind # "done"
    PROVE  \/ BringsText(u, s)
           \/ BringsCalls(u, s)
           \/ BringsArguments(u, s)
           \/ s.frame = BareChunk("usage") /\ s.next.calls = u.calls
<1>1. ASSUME NEW t \in OpenAITexts(u) PROVE BringsText(u, t)
  <2>1. /\ t = Send(AnswerChunk(u, u.items + 1), WithItem(u))
        /\ TextAllowed(u)
    BY <1>1 DEF OpenAITexts, When
  <2>2. /\ AnswerChunk(u, u.items + 1).kind = "chunk"
        /\ Entries(AnswerChunk(u, u.items + 1)) = {}
        /\ AnswerChunk(u, u.items + 1).finish = ""
    BY ChunkFields, ChunkContents DEF AnswerChunk
  <2>3. WithItem(u).calls = u.calls
    BY BackendCalls
  <2> QED
    BY <2>1, <2>2, <2>3 DEF Send, BringsText
<1>2. ASSUME NEW t \in OpenAICalls(u) PROVE BringsCalls(u, t)
  <2> DEFINE one == Announce(u.calls + 1, 0)
             two == Announce(u.calls + 2, 0)
             full == Announce(u.calls + 1, u.items + 1)
             empty == [one EXCEPT !.function = FALSE]
             pair == [BareChunk("chunk") EXCEPT !.calls = <<one, two>>]
             more == WithItem(WithCalls(u, 1))
  <2>1. t \in {Send(CallChunk(one), WithCalls(u, 1)),
               Send(CallChunk(empty), WithCalls(u, 1)),
               Send(CallChunk(full), more),
               Send(pair, WithCalls(u, 2))}
    BY <1>2 DEF OpenAICalls, When, Quirk
  <2>2. /\ WithCalls(u, 1).calls > 0 /\ WithCalls(u, 2).calls > 0
        /\ more.calls > 0
    <3>1. u.calls \in Nat
      BY BackendNumbers
    <3>2. WithCalls(u, 1) \in Backend
      BY BackendMoves
    <3> QED
      BY <3>1, <3>2, BackendCalls
  <2>3. /\ one.call # 0 /\ two.call # 0 /\ full.call # 0 /\ empty.call # 0
    <3>1. u.calls \in Nat
      BY BackendNumbers
    <3> QED
      BY <3>1 DEF Announce
  <2>4. /\ Entries(pair) = {one, two}
        /\ pair.kind = "chunk" /\ pair.finish = "" /\ pair.text = 0
    <3>1. pair.calls = <<one, two>>
      BY DEF BareChunk
    <3>2. pair.kind = "chunk" /\ pair.finish = "" /\ pair.text = 0
      BY DEF BareChunk
    <3>3. Entries(pair) = {one, two}
      <4> HIDE DEF one, two, pair
      <4> QED
        BY <3>1 DEF Entries
    <3> QED
      BY <3>2, <3>3
  <2> HIDE DEF one, two, full, empty, pair, more
  <2>5. ASSUME NEW e \in {one, full, empty}, NEW v, v.calls > 0,
               t = Send(CallChunk(e), v)
        PROVE  BringsCalls(u, t)
    <3>1. t.frame = CallChunk(e) /\ t.next = v
      BY <2>5 DEF Send
    <3>2. /\ CallChunk(e).kind = "chunk" /\ CallChunk(e).finish = ""
          /\ CallChunk(e).text = 0 /\ Entries(CallChunk(e)) = {e} /\ e.call # 0
      BY <2>3, ChunkFields, ChunkContents
    <3> QED
      BY <2>5, <3>1, <3>2 DEF BringsCalls
  <2>6. ASSUME t = Send(pair, WithCalls(u, 2)) PROVE BringsCalls(u, t)
    <3>1. t.frame = pair /\ t.next = WithCalls(u, 2)
      BY <2>6 DEF Send
    <3>2. \A x \in Entries(t.frame) : x.call # 0
      BY <2>3, <2>4, <3>1
    <3>3. /\ t.frame.kind = "chunk" /\ t.frame.finish = "" /\ t.frame.text = 0
          /\ Entries(t.frame) # {} /\ t.next.calls > 0
      BY <2>2, <2>4, <3>1
    <3> QED
      BY <3>2, <3>3 DEF BringsCalls
  <2> QED
    BY <2>1, <2>2, <2>5, <2>6
<1>3. ASSUME NEW t \in OpenAIArguments(u) PROVE BringsArguments(u, t)
  <2>1. PICK k \in 1..u.calls :
           t = Send(CallChunk(Arguments(k, u.items + 1)), WithItem(u))
    BY <1>3 DEF OpenAIArguments, When
  <2>2. /\ t.frame = CallChunk(Arguments(k, u.items + 1)) /\ t.next = WithItem(u)
        /\ Arguments(k, u.items + 1).call = 0
    BY <2>1 DEF Send, Arguments
  <2>3. u.calls > 0 /\ t.next.calls = u.calls
    BY <2>2, BackendNumbers, BackendCalls
  <2>4. /\ t.frame.kind = "chunk" /\ t.frame.finish = "" /\ t.frame.text = 0
        /\ \A e \in Entries(t.frame) : e.call = 0
    <3> DEFINE e == Arguments(k, u.items + 1)
    <3>1. t.frame = CallChunk(e) /\ e.call = 0
      BY <2>2
    <3> HIDE DEF e
    <3>2. /\ CallChunk(e).kind = "chunk" /\ CallChunk(e).finish = ""
          /\ CallChunk(e).text = 0 /\ Entries(CallChunk(e)) = {e}
      BY ChunkFields, ChunkContents
    <3> QED
      BY <3>1, <3>2
  <2> QED
    BY <2>3, <2>4 DEF BringsArguments
<1>4. ASSUME NEW t \in OpenAIFinishes(u) PROVE BringsText(u, t)
  <2> DEFINE last == [FinishChunk("stop") EXCEPT !.text = u.items + 1]
             done == Finished(WithItem(u))
  <2>1. \/ \E r \in FinishReasonsOf(u) : t = Send(FinishChunk(r), Finished(u))
        \/ t = Send(last, done)
    BY <1>4 DEF OpenAIFinishes, Quirk, When
  <2>2. ASSUME NEW r, t = Send(FinishChunk(r), Finished(u)) PROVE BringsText(u, t)
    <3>1. t.frame = FinishChunk(r) /\ t.next = Finished(u)
      BY <2>2 DEF Send
    <3>2. /\ FinishChunk(r).kind = "chunk" /\ Entries(FinishChunk(r)) = {}
          /\ FinishChunk(r).text = 0
          /\ Finished(u).calls = u.calls /\ Finished(u).phase = "finished"
      BY ChunkFields, ChunkContents, BackendCalls
    <3> QED
      BY <3>1, <3>2 DEF BringsText, Unending
  <2>3. last.kind = "chunk" /\ Entries(last) = {} /\ last.finish = "stop"
    <3>1. last.kind = "chunk" /\ last.calls = <<>> /\ last.finish = "stop"
      BY DEF FinishChunk, BareChunk
    <3> HIDE DEF last
    <3> QED
      BY <3>1 DEF Entries
  <2>4. done.calls = u.calls /\ done.phase = "finished"
    <3>1. WithItem(u) \in Backend
      BY BackendMoves
    <3> QED
      BY <3>1, BackendCalls
  <2> HIDE DEF last, done
  <2>5. ASSUME t = Send(last, done) PROVE BringsText(u, t)
    <3>1. t.frame = last /\ t.next = done
      BY <2>5 DEF Send
    <3>2. /\ t.frame.kind = "chunk" /\ Entries(t.frame) = {}
          /\ t.frame.finish # "" /\ t.next.calls = u.calls
      BY <2>3, <2>4, <3>1
    <3>3. ~Unending(t.next.phase)
      BY <2>4, <3>1 DEF Unending
    <3> QED
      BY <3>2, <3>3 DEF BringsText
  <2> QED
    BY <2>1, <2>2, <2>5
<1>5. BringsText(u, Send(BareChunk("chunk"), [u EXCEPT !.phase = "open"]))
  BY ChunkFields, ChunkContents, BackendCalls DEF Send, BringsText
<1>6. ASSUME s = Send(BareChunk("usage"), [u EXCEPT !.phase = "counted"])
      PROVE  s.frame = BareChunk("usage") /\ s.next.calls = u.calls
  BY <1>6, BackendCalls DEF Send
<1>7. ASSUME s = Send(DoneChunk, Ended(u)) PROVE FALSE
  BY <1>7, ChunkFields DEF Send, DoneChunk
<1>8. \/ s = Send(BareChunk("chunk"), [u EXCEPT !.phase = "open"])
      \/ s \in OpenAITexts(u) \cup OpenAICalls(u) \cup OpenAIArguments(u)
      \/ s \in OpenAIFinishes(u)
      \/ s = Send(BareChunk("usage"), [u EXCEPT !.phase = "counted"])
      \/ s = Send(DoneChunk, Ended(u))
  BY DEF OpenAISends, OpenAIContent, Quirk, When
<1> QED
  BY <1>1, <1>2, <1>3, <1>4, <1>5, <1>6, <1>7, <1>8

(* What one event brings.                                                  *)
LEMMA OneEvent ==
    ASSUME NEW x, NEW t
    PROVE  /\ Brings(<<x>>, t) <=> x.type = t
           /\ ~Brings(<<>>, t)
           /\ Len(<<x>>) = 1
BY DEF Brings

(* The events made of an OpenAI backend's next chunk.                      *)
LEMMA OpenAIFollows ==
    ASSUME NEW u \in Backend, "text_after_tool" \notin u.quirks,
           NEW b \in BOOLEAN, b <=> u.phase # "new",
           u.phase = "new" => u.calls = 0,
           NEW s \in OpenAISends(u), s.frame.kind # "done"
    PROVE  Follows(u, s.next, DecodeChunk(b, s.frame))
<1> DEFINE c == s.frame
           v == s.next
           events == DecodeChunk(b, c)
<1>1. c \in Chunk /\ v \in Backend
  BY OpenAISendsType DEF Moves, Frames
<1>2. ASSUME NEW n \in DOMAIN events PROVE events[n] \in EventOf(b, c)
  <2>1. events \in Seq(EventOf(b, c))
    BY <1>1, ChunkEvents
  <2> HIDE DEF events
  <2> QED
    BY <1>2, <2>1
<1>3. v.phase # "new" /\ (~Unending(u.phase) => ~Unending(v.phase))
  BY OpenAIGoesOn DEF IsContent, IsFinish, Unending
<1>4. ASSUME ~Unending(u.phase) PROVE c = BareChunk("usage") /\ b
  <2>1. s \in {Send(BareChunk("usage"), [u EXCEPT !.phase = "counted"]),
               Send(DoneChunk, Ended(u))}
    BY <1>4 DEF OpenAISends, Unending
  <2>2. ASSUME s = Send(DoneChunk, Ended(u)) PROVE FALSE
    BY <2>2, ChunkFields DEF Send, DoneChunk
  <2> QED
    BY <1>4, <2>1, <2>2 DEF Send, Unending
<1>5. u.calls \in Nat /\ v.calls \in Nat
  BY <1>1, BackendNumbers
<1> SUFFICES Follows(u, v, events)
  OBVIOUS
<1> HIDE DEF c, v, events
<1>6. CASE c = BareChunk("usage") /\ v.calls = u.calls
  <2>1. c.kind = "usage" /\ c.finish = "" /\ c.text = 0 /\ Entries(c) = {}
    <3>1. /\ BareChunk("usage").kind = "usage" /\ BareChunk("usage").finish = ""
          /\ BareChunk("usage").text = 0 /\ Entries(BareChunk("usage")) = {}
      BY ChunkFields, ChunkContents
    <3> QED
      BY <1>6, <3>1
  <2>2. /\ ~Brings(events, "text_delta") /\ ~Brings(events, "tool_call_delta")
        /\ ~Brings(events, "tool_call_start") /\ ~Brings(events, "stop")
    BY <1>2, <2>1 DEF Brings, EventOf
  <2>3. b => \A n \in DOMAIN events : events[n].type = "usage"
    <3>1. b => events = <<Plain("usage")>>
      BY <1>1, <2>1, ChunkEvents DEF events
    <3>2. Plain("usage").type = "usage"
      BY EventKinds
    <3> QED
      BY <3>1, <3>2, SingleEvent
  <2> QED
    BY <1>3, <1>4, <1>6, <2>2, <2>3 DEF Follows
<1>7. CASE BringsText(u, s)
  <2>1. /\ c.kind = "chunk" /\ Entries(c) = {} /\ v.calls = u.calls
        /\ c.text # 0 => u.calls = 0 \/ c.finish # ""
        /\ c.finish # "" => ~Unending(v.phase)
    BY <1>7 DEF BringsText, TextAllowed, c, v
  <2>2. Unending(u.phase)
    <3>1. BareChunk("usage").kind = "usage"
      BY ChunkFields
    <3> QED
      BY <1>4, <2>1, <3>1
  <2>3. ~Brings(events, "tool_call_delta") /\ ~Brings(events, "tool_call_start")
    BY <1>2, <2>1 DEF Brings, EventOf
  <2>4. CASE b /\ c.finish # ""
    <3>1. events = <<Stop(c.finish)>> /\ Stop(c.finish).type = "stop"
      BY <1>1, <2>1, <2>4, ChunkEvents, EventKinds DEF events
    <3>2. ~Brings(events, "text_delta") /\ Len(events) = 1
      BY <3>1, OneEvent
    <3> QED
      BY <1>3, <2>1, <2>2, <2>3, <2>4, <3>2 DEF Follows
  <2>5. CASE ~(b /\ c.finish # "")
    <3>1. Brings(events, "text_delta") => c.text # 0
      BY <1>2 DEF Brings, EventOf
    <3>2. ~Brings(events, "stop")
      BY <1>2, <2>5 DEF Brings, EventOf
    <3>3. Brings(events, "text_delta") => u.calls = 0
      BY <2>1, <2>5, <3>1
    <3> QED
      BY <1>3, <2>1, <2>2, <2>3, <3>2, <3>3 DEF Follows
  <2> QED
    BY <2>4, <2>5
<1>8. CASE BringsCalls(u, s)
  <2>1. /\ c.kind = "chunk" /\ c.finish = "" /\ c.text = 0 /\ v.calls > 0
        /\ Entries(c) # {} /\ \A e \in Entries(c) : e.call # 0
    BY <1>8, Zenon DEF BringsCalls, c, v
  <2>2. Unending(u.phase)
    <3>1. BareChunk("usage").kind = "usage"
      BY ChunkFields
    <3> QED
      BY <1>4, <2>1, <3>1
  <2>3. /\ ~Brings(events, "text_delta") /\ ~Brings(events, "tool_call_delta")
        /\ ~Brings(events, "stop")
    BY <1>2, <2>1 DEF Brings, EventOf
  <2>4. Brings(events, "tool_call_start")
    <3>1. PICK e \in Entries(c) : e.call # 0
      BY <2>1
    <3> QED
      BY <1>1, <2>1, <3>1, ChunkEvents DEF events
  <2> QED
    BY <1>3, <2>1, <2>2, <2>3, <2>4 DEF Follows
<1>9. CASE BringsArguments(u, s)
  <2>1. /\ c.kind = "chunk" /\ c.finish = "" /\ c.text = 0
        /\ u.calls > 0 /\ v.calls = u.calls
        /\ \A e \in Entries(c) : e.call = 0
    BY <1>9, Zenon DEF BringsArguments, c, v
  <2>2. Unending(u.phase)
    <3>1. BareChunk("usage").kind = "usage"
      BY ChunkFields
    <3> QED
      BY <1>4, <2>1, <3>1
  <2>3. /\ ~Brings(events, "text_delta") /\ ~Brings(events, "tool_call_start")
        /\ ~Brings(events, "stop")
    BY <1>2, <2>1 DEF Brings, EventOf
  <2> QED
    BY <1>3, <2>1, <2>2, <2>3 DEF Follows
<1> QED
  BY <1>6, <1>7, <1>8, <1>9, OpenAIMoves DEF c, v

(* A text block is open only before, a tool block only after a tool call   *)
(* was begun.                                                              *)
BlockFits(u) ==
    /\ u.block = "text" => u.calls = 0
    /\ u.block = "tool_use" => u.calls > 0

(* What blocks and deltas are of.                                          *)
LEMMA FrameContents ==
    /\ \A b, i, n : BlockStart(b, i, n).block = b
    /\ \A b, i, n : BlockDelta(b, i, n).block = b
BY DEF BareFrame, BlockStart, BlockDelta

(* The events made of an Anthropic backend's next frame.                   *)
LEMMA AnthropicFollows ==
    ASSUME NEW u \in Backend, "text_after_tool" \notin u.quirks, BlockFits(u),
           NEW s \in AnthropicSends(u), s.frame.kind # "message_stop"
    PROVE  BlockFits(s.next) /\ Follows(u, s.next, DecodeFrame(s.frame))
<1>1. u.calls \in Nat /\ s.next \in Backend
  BY AnthropicSendsType, BackendNumbers DEF Moves
<1>2. Unending(u.phase)
  BY AnthropicGoesOn
<1>3. ASSUME NEW f, NEW v, v.phase # "new", v.calls = u.calls, DecodeFrame(f) = <<>>
      PROVE  Follows(u, v, DecodeFrame(f))
  <2>1. \A t : ~Brings(DecodeFrame(f), t)
    BY <1>3, OneEvent
  <2> QED
    BY <1>1, <1>2, <1>3, <2>1 DEF Follows
<1>4. CASE u.phase = "new"
  <2> DEFINE v == [u EXCEPT !.phase = "open"]
  <2>1. s.frame = BareFrame("message_start") /\ s.next = v
    BY <1>4 DEF AnthropicSends, Send
  <2>2. v.phase = "open" /\ v.calls = u.calls /\ v.block = u.block
    BY DEF Backend
  <2>3. DecodeFrame(s.frame) = <<Plain("stream_start")>>
    <3>1. BareFrame("message_start").kind = "message_start"
      BY FrameFields
    <3> QED
      BY <2>1, <3>1 DEF DecodeFrame
  <2>4. \A t : Brings(DecodeFrame(s.frame), t) => t = "stream_start"
    BY <2>3, OneEvent, EventKinds
  <2> HIDE DEF v
  <2> QED
    BY <1>1, <1>2, <2>1, <2>2, <2>4 DEF Follows, BlockFits
<1>5. CASE u.phase = "open"
  <2>1. \/ s = Send(BareFrame("ping"), u)
        \/ s \in AnthropicBlocks(u)
        \/ s \in AnthropicFinishes(u)
        \/ u.block # "" /\ s \in AnthropicInBlock(u)
    BY <1>5 DEF AnthropicSends
  <2>2. CASE s = Send(BareFrame("ping"), u)
    <3>1. s.frame = BareFrame("ping") /\ s.next = u
      BY <2>2 DEF Send
    <3>2. DecodeFrame(BareFrame("ping")) = <<>>
      BY FrameFields DEF DecodeFrame
    <3> QED
      BY <1>3, <1>5, <3>1, <3>2
  <2>3. CASE s \in AnthropicBlocks(u)
    <3> DEFINE text == [u EXCEPT !.block = "text"]
               tool == [WithCalls(u, 1) EXCEPT !.block = "tool_use"]
    <3>1. \/ s = Send(BlockStart("text", u.index, 0), text) /\ TextAllowed(u)
          \/ s = Send(BlockStart("tool_use", u.index, u.calls + 1), tool)
      BY <2>3 DEF AnthropicBlocks, When
    <3>2. /\ text.phase = "open" /\ text.calls = u.calls /\ text.block = "text"
          /\ tool.phase = "open" /\ tool.calls = u.calls + 1
          /\ tool.block = "tool_use"
      <4>1. text.phase = "open" /\ text.calls = u.calls /\ text.block = "text"
        BY <1>5 DEF Backend
      <4>2. /\ WithCalls(u, 1) \in Backend /\ WithCalls(u, 1).calls = u.calls + 1
            /\ WithCalls(u, 1).phase = "open"
        <5>1. 1 \in Nat
          OBVIOUS
        <5>2. WithCalls(u, 1) \in Backend
          BY <5>1, BackendMoves
        <5> QED
          BY <5>2, BackendCalls, BackendPhases
      <4>3. tool.phase = "open" /\ tool.calls = u.calls + 1 /\ tool.block = "tool_use"
        BY <4>2 DEF Backend
      <4> QED
        BY <4>1, <4>3
    <3> HIDE DEF text, tool
    <3>3. CASE s = Send(BlockStart("text", u.index, 0), text) /\ TextAllowed(u)
      <4>1. s.frame = BlockStart("text", u.index, 0) /\ s.next = text /\ u.calls = 0
        BY <3>3 DEF Send, TextAllowed
      <4>2. DecodeFrame(BlockStart("text", u.index, 0)) = <<>>
        BY FrameFields, FrameContents DEF DecodeFrame
      <4> QED
        BY <1>3, <3>2, <4>1, <4>2 DEF BlockFits
    <3>4. CASE s = Send(BlockStart("tool_use", u.index, u.calls + 1), tool)
      <4> DEFINE f == BlockStart("tool_use", u.index, u.calls + 1)
      <4>1. s.frame = f /\ s.next = tool
        BY <3>4 DEF Send
      <4>2. f.kind = "content_block_start" /\ f.block = "tool_use"
        BY FrameFields, FrameContents
      <4> HIDE DEF f
      <4>3. DecodeFrame(f) = <<ToolCallStart(f.call, f.index)>>
        BY <4>2 DEF DecodeFrame
      <4>4. \A t : Brings(DecodeFrame(f), t) <=> t = "tool_call_start"
        BY <4>3, OneEvent, EventKinds
      <4>5. tool.calls > 0
        BY <1>1, <3>2
      <4> QED
        BY <1>2, <3>2, <4>1, <4>4, <4>5 DEF Follows, BlockFits
    <3> QED
      BY <3>1, <3>3, <3>4
  <2>4. CASE s \in AnthropicFinishes(u)
    <3>1. PICK r \in StopReasonsOf(u) : s = Send(MessageDelta(r), Finished(u))
      BY <2>4 DEF AnthropicFinishes
    <3>2. s.frame = MessageDelta(r) /\ s.next = Finished(u)
      BY <3>1 DEF Send
    <3>3. MessageDelta(r).kind = "message_delta"
      BY FrameFields
    <3>4. DecodeFrame(s.frame) = <<Stop(MapStopReason(s.frame.reason))>>
      BY <3>2, <3>3 DEF DecodeFrame
    <3>5. /\ \A t : Brings(DecodeFrame(s.frame), t) <=> t = "stop"
          /\ Len(DecodeFrame(s.frame)) = 1
      BY <3>4, OneEvent, EventKinds
    <3>6. /\ Finished(u).phase = "finished" /\ Finished(u).calls = u.calls
          /\ Finished(u).block = u.block
      BY DEF Finished, Backend
    <3> QED
      BY <1>1, <1>2, <3>2, <3>5, <3>6 DEF Follows, BlockFits, Unending
  <2>5. CASE u.block # "" /\ s \in AnthropicInBlock(u)
    <3> DEFINE after == [u EXCEPT !.block = "", !.index = @ + 1]
               f == BlockDelta(u.block, u.index, u.items + 1)
    <3>1. s = Send(BlockStop(u.index), after) \/ s = Send(f, WithItem(u))
      BY <2>5 DEF AnthropicInBlock, When
    <3>2. CASE s = Send(BlockStop(u.index), after)
      <4>1. s.frame = BlockStop(u.index) /\ s.next = after
        BY <3>2 DEF Send
      <4>2. DecodeFrame(BlockStop(u.index)) = <<>>
        BY FrameFields DEF DecodeFrame
      <4>3. after.phase = "open" /\ after.calls = u.calls /\ after.block = ""
        BY <1>5 DEF Backend
      <4> HIDE DEF after
      <4> QED
        BY <1>3, <4>1, <4>2, <4>3 DEF BlockFits
    <3>3. CASE s = Send(f, WithItem(u))
      <4>1. s.frame = f /\ s.next = WithItem(u)
        BY <3>3 DEF Send
      <4>2. f.kind = "content_block_delta" /\ f.block = u.block
        BY FrameFields, FrameContents
      <4>3. /\ WithItem(u).phase = "open" /\ WithItem(u).calls = u.calls
            /\ WithItem(u).block = u.block
        BY DEF WithItem, Backend
      <4>4. u.block \in {"text", "tool_use"}
        BY <2>5 DEF Backend
      <4> HIDE DEF f
      <4>5. CASE u.block = "text"
        <5>1. DecodeFrame(f) = <<TextDelta(f.text)>>
          BY <4>2, <4>5 DEF DecodeFrame
        <5>2. \A t : Brings(DecodeFrame(f), t) <=> t = "text_delta"
          BY <5>1, OneEvent, EventKinds
        <5> QED
          BY <1>1, <1>2, <4>1, <4>3, <4>5, <5>2 DEF Follows, BlockFits
      <4>6. CASE u.block = "tool_use"
        <5>1. DecodeFrame(f) = <<ToolCallDelta(f.text, f.index)>>
          BY <4>2, <4>6 DEF DecodeFrame
        <5>2. \A t : Brings(DecodeFrame(f), t) <=> t = "tool_call_delta"
          BY <5>1, OneEvent, EventKinds
        <5> QED
          BY <1>1, <1>2, <4>1, <4>3, <4>6, <5>2 DEF Follows, BlockFits
      <4> QED
        BY <4>4, <4>5, <4>6
    <3> QED
      BY <3>1, <3>2, <3>3
  <2> QED
    BY <2>1, <2>2, <2>3, <2>4, <2>5
<1> QED
  BY <1>2, <1>4, <1>5 DEF Unending

-----------------------------------------------------------------------------
(* What frames do to what a client knows of its stream.                    *)

(* The elements of the frame sequences the encoder builds.                 *)
LEMMA SmallSequences ==
    ASSUME NEW S, NEW x \in S, NEW y \in S, NEW z \in S, NEW s
    PROVE  /\ s = Append(<<>>, x) => Len(s) = 1 /\ s[1] = x
           /\ s = Append(<<x>>, y) => Len(s) = 2 /\ s[1] = x /\ s[2] = y
           /\ s = <<>> \o <<y, z>> => Len(s) = 2 /\ s[1] = y /\ s[2] = z
           /\ s = <<x>> \o <<y, z>> =>
                 Len(s) = 3 /\ s[1] = x /\ s[2] = y /\ s[3] = z
<1>1. <<x>> \in Seq(S) /\ Len(<<x>>) = 1 /\ <<x>>[1] = x
  OBVIOUS
<1>2. /\ <<y, z>> \in Seq(S) /\ Len(<<y, z>>) = 2
      /\ <<y, z>>[1] = y /\ <<y, z>>[2] = z
  OBVIOUS
<1>3. s = Append(<<>>, x) => Len(s) = 1 /\ s[1] = x
  OBVIOUS
<1>4. s = Append(<<x>>, y) => Len(s) = 2 /\ s[1] = x /\ s[2] = y
  BY <1>1, AppendProperties
<1>5. s = <<>> \o <<y, z>> => Len(s) = 2 /\ s[1] = y /\ s[2] = z
  BY <1>2, ConcatEmptySeq
<1>6. ASSUME s = <<x>> \o <<y, z>>
      PROVE  Len(s) = 3 /\ s[1] = x /\ s[2] = y /\ s[3] = z
  <2>1. /\ Len(s) = Len(<<x>>) + Len(<<y, z>>)
        /\ \A i \in 1..Len(<<x>>) : s[i] = <<x>>[i]
        /\ \A i \in 1..Len(<<y, z>>) : s[Len(<<x>>) + i] = <<y, z>>[i]
    BY <1>1, <1>2, <1>6, ConcatProperties
  <2>2. s[1] = <<x>>[1]
    BY <1>1, <2>1
  <2>3. s[1 + 1] = <<y, z>>[1]
    BY <1>1, <1>2, <2>1
  <2>4. s[1 + 2] = <<y, z>>[2]
    BY <1>1, <1>2, <2>1
  <2> QED
    BY <1>1, <1>2, <2>1, <2>2, <2>3, <2>4
<1> QED
  BY <1>3, <1>4, <1>5, <1>6

(* The block indexes in the frames there are.                              *)
LEMMA FrameIndexes ==
    /\ \A b, i, n : BlockStart(b, i, n).index = i
    /\ \A b, i, n : BlockDelta(b, i, n).index = i
    /\ \A i : BlockStop(i).index = i
BY DEF BareFrame, BlockStart, BlockDelta, BlockStop

(* What a frame does to what an Anthropic client holds of its blocks.      *)
LEMMA FrameRead ==
    ASSUME NEW m \in Message, NEW f \in Frame, NEW r, r = ReadFrame(m, f)
    PROVE  /\ f.kind = "message_start" =>
                 /\ r.phase = IF m.phase = "before" THEN "open" ELSE m.phase
                 /\ r.open = m.open /\ r.begun = m.begun /\ Len(r.got) = Len(m.got)
           /\ f.kind = "content_block_start" =>
                 /\ r.phase = m.phase /\ r.open = m.open \cup {f.index}
                 /\ r.begun = m.begun + 1
                 /\ Len(r.got) \in {Len(m.got), Len(m.got) + 1}
           /\ f.kind = "content_block_delta" =>
                 /\ r.phase = m.phase /\ r.open = m.open /\ r.begun = m.begun
                 /\ Len(r.got) = Len(m.got) + 1
           /\ f.kind = "content_block_stop" =>
                 /\ r.phase = m.phase /\ r.open = m.open \ {f.index}
                 /\ r.begun = m.begun /\ Len(r.got) = Len(m.got)
           /\ f.kind = "message_delta" =>
                 /\ r.phase = m.phase /\ r.open = m.open /\ r.begun = m.begun
                 /\ Len(r.got) = Len(m.got)
           /\ f.kind = "message_stop" =>
                 /\ r.phase = "ended" /\ r.open = m.open /\ r.begun = m.begun
                 /\ Len(r.got) = Len(m.got)
<1>0. m.got \in Seq(Piece) /\ m.begun \in Nat
  BY MessageFields
<1>1. CASE f.kind = "message_start"
  <2>1. r = Opened(m)
    BY <1>1 DEF ReadFrame
  <2> QED
    BY <1>1, <2>1 DEF Opened, Message
<1>2. CASE f.kind = "content_block_start"
  <2>1. r = [m EXCEPT !.slots = Assign(m.slots, f.index, f.call),
                      !.begun = m.begun + 1,
                      !.open = m.open \cup {f.index},
                      !.got = m.got \o StartPieces(f)]
    BY <1>2 DEF ReadFrame, Message
  <2>2. /\ r.phase = m.phase /\ r.open = m.open \cup {f.index}
        /\ r.begun = m.begun + 1 /\ r.got = m.got \o StartPieces(f)
    BY <2>1 DEF Message
  <2>3. /\ StartPieces(f) \in Seq(Piece)
        /\ Len(StartPieces(f)) \in {0, 1}
    <3>1. [of |-> f.call, text |-> 0] \in Piece
      BY DEF Frame, Piece, Owners
    <3> QED
      BY <3>1 DEF StartPieces
  <2>4. Len(m.got \o StartPieces(f)) = Len(m.got) + Len(StartPieces(f))
    BY <1>0, <2>3
  <2> QED
    BY <1>0, <1>2, <2>2, <2>3, <2>4
<1>3. CASE f.kind = "content_block_delta"
  <2>1. r = [m EXCEPT !.got = Append(m.got, [of |-> OwnerOf(m, f.index),
                                             text |-> f.text])]
    BY <1>3 DEF ReadFrame, Message
  <2>2. /\ r.phase = m.phase /\ r.open = m.open /\ r.begun = m.begun
        /\ r.got = Append(m.got, [of |-> OwnerOf(m, f.index), text |-> f.text])
    BY <2>1 DEF Message
  <2>3. \A p : Len(Append(m.got, p)) = Len(m.got) + 1
    BY <1>0
  <2> QED
    BY <1>3, <2>2, <2>3
<1>4. CASE f.kind \in {"content_block_stop", "message_delta", "message_stop"}
  BY <1>4 DEF ReadFrame, Message
<1> QED
  BY <1>1, <1>2, <1>3, <1>4

(* And what a chunk does to an OpenAI client.                              *)
LEMMA ChunkRead ==
    ASSUME NEW m \in Message, NEW c \in Chunk, NEW r, r = ReadChunk(m, c)
    PROVE  /\ r.open = m.open /\ r.begun = m.begun
           /\ c.kind = "chunk" =>
                 /\ r.phase = IF m.phase = "before" THEN "open" ELSE m.phase
                 /\ Len(r.got) >= Len(m.got)
           /\ c = BareChunk("chunk") => Len(r.got) = Len(m.got)
           /\ c.kind = "done" =>
                 /\ r.phase = IF m.phase = "failed" THEN "failed" ELSE "ended"
                 /\ r.got = m.got
           /\ c.kind = "error" => r.phase = "failed" /\ r.got = m.got
<1>0. m.got \in Seq(Piece)
  BY MessageFields
<1>1. CASE c.kind \in {"chunk", "usage"}
  <2>1. Opened(m) \in Message /\ Opened(m).got = m.got
        /\ Opened(m).open = m.open /\ Opened(m).begun = m.begun
        /\ Opened(m).phase = IF m.phase = "before" THEN "open" ELSE m.phase
    BY DEF Opened, Message
  <2>2. /\ r.phase = Opened(m).phase /\ r.open = m.open /\ r.begun = m.begun
        /\ r.got = m.got \o Pieces(m, c)
    BY <1>1, <2>1 DEF ReadChunk, Message
  <2>3. Pieces(m, c) \in Seq(Piece)
    BY PiecesType
  <2>4. Len(r.got) = Len(m.got) + Len(Pieces(m, c))
    BY <1>0, <2>2, <2>3
  <2>5. c = BareChunk("chunk") => Len(Pieces(m, c)) = 0
    <3> SUFFICES ASSUME c = BareChunk("chunk") PROVE Len(Pieces(m, c)) = 0
      OBVIOUS
    <3>1. c.text = 0 /\ c.plain = 0 /\ c.calls = <<>>
      BY DEF BareChunk
    <3>2. /\ TextPieces(c.text) = <<>> /\ TextPieces(c.plain) = <<>>
          /\ CallPieces(m, c.calls) = <<>>
      BY <3>1 DEF TextPieces, CallPieces
    <3>3. Pieces(m, c) = <<>> \o <<>> \o <<>>
      BY <3>2 DEF Pieces
    <3>4. <<>> \o <<>> = <<>>
      OBVIOUS
    <3> QED
      BY <3>3, <3>4
  <2>6. Len(m.got) \in Nat /\ Len(Pieces(m, c)) \in Nat
    BY <1>0, <2>3
  <2> QED
    BY <1>1, <2>1, <2>2, <2>4, <2>5, <2>6
<1>2. CASE c.kind \notin {"chunk", "usage"}
  <2>1. c.kind # "chunk" /\ c # BareChunk("chunk")
    BY <1>2, ChunkFields
  <2> QED
    BY <1>2, <2>1 DEF ReadChunk, Message
<1> QED
  BY <1>1, <1>2

-----------------------------------------------------------------------------
(* The queue from the backend to the client, in step at every point.       *)

InStream == pc \in {"dial", "stream"}

(* The backend was read from as often as the decoder says, and has not     *)
(* closed unread.                                                          *)
BackendFits ==
    /\ up.phase = "new" => link # "eof"
    /\ outbound = "openai" => (started <=> up.phase # "new")

(* The events in hand and the encoder's block are in step with the calls    *)
(* the backend has begun: text comes before them, arguments after.         *)
EventsFit ==
    /\ up.phase = "new" => up.calls = 0
    /\ outbound = "anthropic" => BlockFits(up)
    /\ Brings(pending, "text_delta") => up.calls = 0
    /\ Brings(pending, "tool_call_delta") => encoder.hasToolBlock
    /\ encoder.hasToolBlock \/ Brings(pending, "tool_call_start") <=> up.calls > 0
    /\ Brings(pending, "stop") => Len(pending) = 1 /\ ~Unending(up.phase)

StartFrame == IF inbound = "openai" THEN BareChunk("chunk") ELSE BareFrame("message_start")

(* A stream that has not begun at the client begins with its first frame.  *)
StartIsDue ==
    heard.phase = "before" =>
        \/ up.phase = "new" /\ pending = <<>> /\ out = <<>>
        \/ out = <<>> /\ pending # <<>> /\ Head(pending) = Plain("stream_start")
        \/ out = <<StartFrame>>

(* An OpenAI client is sent one chunk at a time.                           *)
ChunksFit ==
    /\ heard.phase \in {"before", "open"}
    /\ Len(out) <= 1
    /\ \A n \in DOMAIN out : out[n].kind = "chunk"

(* The blocks the encoder has open and has begun, which are those an       *)
(* Anthropic client knows of when it has been sent everything.             *)
BlockOpen(e) == IF HasBlock(e) THEN {e.blockIndex} ELSE {}
BlocksBegun(e) == IF HasBlock(e) THEN e.blockIndex + 1 ELSE e.blockIndex
IsOpen(blocks, begun) ==
    heard.phase = "open" /\ heard.open = blocks /\ heard.begun = begun
IsSettled ==
    /\ heard.phase \in {"before", "open"}
    /\ heard.open = BlockOpen(encoder)
    /\ heard.begun = BlocksBegun(encoder)

(* What is on its way to an Anthropic client, and what it holds meanwhile. *)
AwaitsNothing == out = <<>> /\ IsSettled
AwaitsStart == Len(out) = 1 /\ out[1].kind = "message_start" /\ IsSettled
AwaitsDelta ==
    /\ Len(out) = 1 /\ out[1].kind = "content_block_delta"
    /\ HasBlock(encoder)
    /\ IsOpen({encoder.blockIndex}, encoder.blockIndex + 1)
AwaitsBlock ==
    /\ Len(out) = 1 \/ (Len(out) = 2 /\ out[2].kind = "content_block_delta")
    /\ out[1].kind = "content_block_start" /\ out[1].index = encoder.blockIndex
    /\ HasBlock(encoder)
    /\ IsOpen({}, encoder.blockIndex)
AwaitsNextBlock ==
    /\ Len(out) = 2
    /\ out[1].kind = "content_block_stop" /\ out[1].index + 1 = encoder.blockIndex
    /\ out[2].kind = "content_block_start" /\ out[2].index = encoder.blockIndex
    /\ HasBlock(encoder)
    /\ IsOpen({out[1].index}, encoder.blockIndex)
AwaitsEnd ==
    /\ heard.phase = "open"
    /\ \/ /\ Len(out) = 3
          /\ out[1].kind = "content_block_stop" /\ heard.open = {out[1].index}
          /\ out[2].kind = "message_delta" /\ out[3].kind = "message_stop"
       \/ /\ Len(out) = 2 /\ heard.open = {}
          /\ out[1].kind = "message_delta" /\ out[2].kind = "message_stop"
       \/ /\ Len(out) = 1 /\ heard.open = {}
          /\ out[1].kind = "message_stop"

(* The answer goes on, or its end is written or on its way.                *)
GoesOn == AwaitsNothing \/ AwaitsStart \/ AwaitsDelta \/ AwaitsBlock \/ AwaitsNextBlock
Ends ==
    /\ ~Unending(up.phase)
    /\ AwaitsEnd \/ (heard.phase = "ended" /\ out = <<>>)
    /\ \A n \in DOMAIN pending : pending[n].type = "usage"
FramesFit == GoesOn \/ Ends

(* What holds while the stream is served, and when its end is written.     *)
StreamFits ==
    /\ BackendFits
    /\ inbound = "anthropic" => EventsFit
    /\ conn = "up" => StartIsDue
    /\ conn = "up" /\ inbound = "openai" => ChunksFit
    /\ conn = "up" /\ inbound = "anthropic" => FramesFit

AtFinish ==
    pc = "finish" /\ conn = "up" =>
        IF inbound = "openai"
        THEN heard.phase \in {"open", "ended"} /\ out \in {<<>>, DoneFrames}
        ELSE out = <<>>

ClientInv ==
    /\ EndInv
    /\ inbound = "anthropic" => "text_after_tool" \notin up.quirks
    /\ inbound = "openai" => heard.open = {}
    /\ pc \in {"fail", "panicked"} => out = <<>>
    /\ InStream => StreamFits
    /\ AtFinish

(* What events bring, their first or one of the others does.               *)
LEMMA BringsTail ==
    ASSUME NEW S, NEW s \in Seq(S), s # <<>>, NEW t
    PROVE  Brings(s, t) <=> Head(s).type = t \/ Brings(Tail(s), t)
<1>1. ASSUME Brings(s, t) PROVE Head(s).type = t \/ Brings(Tail(s), t)
  <2>1. PICK n \in DOMAIN s : s[n].type = t
    BY <1>1 DEF Brings
  <2>2. s[n] = Head(s) \/ \E k \in DOMAIN Tail(s) : Tail(s)[k] = s[n]
    BY TailKeeps
  <2> QED
    BY <2>1, <2>2 DEF Brings
<1>2. ASSUME Head(s).type = t PROVE Brings(s, t)
  <2>1. 1 \in DOMAIN s /\ s[1] = Head(s)
    OBVIOUS
  <2> QED
    BY <1>2, <2>1 DEF Brings
<1>3. ASSUME Brings(Tail(s), t) PROVE Brings(s, t)
  <2>1. PICK n \in DOMAIN Tail(s) : Tail(s)[n].type = t
    BY <1>3 DEF Brings
  <2>2. n + 1 \in DOMAIN s /\ Tail(s)[n] = s[n + 1]
    OBVIOUS
  <2> QED
    BY <2>1, <2>2 DEF Brings
<1> QED
  BY <1>1, <1>2, <1>3

(* The encoder's block after an event.                                     *)
LEMMA EncoderAfter ==
    ASSUME NEW e \in Encoder, NEW ev
    PROVE  /\ AfterEncode(e, ev).hasToolBlock <=>
                 e.hasToolBlock \/ ev.type = "tool_call_start"
           /\ ev.type = "text_delta" =>
                 /\ AfterEncode(e, ev).blockIndex = e.blockIndex
                 /\ HasBlock(AfterEncode(e, ev))
           /\ ev.type = "tool_call_start" =>
                 /\ AfterEncode(e, ev).blockIndex = ToolIndex(e)
                 /\ HasBlock(AfterEncode(e, ev))
           /\ ev.type \notin {"text_delta", "tool_call_start"} =>
                 AfterEncode(e, ev) = e
BY DEF AfterEncode, HasBlock, Encoder

(* Handling an event keeps what is said of those that are left.            *)
LEMMA HandleEvents ==
    ASSUME ClientInv, HandleEvent, inbound = "anthropic"
    PROVE  EventsFit'
<1>1. /\ pending \in Seq(AnswerEvent) /\ pending # <<>> /\ encoder \in Encoder
      /\ EventsFit
  BY DEF ClientInv, StreamFits, EndInv, ReportInv, AnswerUnreported, TypeOK,
         HandleEvent, HasEvent, InStream
<1>2. /\ pending' = Tail(pending)
      /\ encoder' = AfterEncode(encoder, Head(pending))
      /\ UNCHANGED <<outbound, up>>
  BY DEF HandleEvent, backendVars
<1>3. \A t : Brings(pending, t) <=> Head(pending).type = t \/ Brings(pending', t)
  BY <1>1, <1>2, BringsTail
<1>4. encoder'.hasToolBlock <=>
         encoder.hasToolBlock \/ Head(pending).type = "tool_call_start"
  BY <1>1, <1>2, EncoderAfter
<1>5. ~Brings(pending', "stop")
  <2>1. SUFFICES ASSUME Brings(pending', "stop") PROVE FALSE
    OBVIOUS
  <2>2. Len(pending) = 1
    BY <1>1, <1>3, <2>1 DEF EventsFit
  <2>3. pending' = <<>>
    BY <1>1, <1>2, <2>2
  <2> QED
    BY <2>1, <2>3, OneEvent
<1> QED
  BY <1>1, <1>2, <1>3, <1>4, <1>5 DEF EventsFit

(* Handling an event keeps the frames in step with what the client holds.  *)
LEMMA HandleFrames ==
    ASSUME ClientInv, HandleEvent, inbound = "anthropic", conn = "up"
    PROVE  FramesFit'
<1> DEFINE ev == Head(pending)
<1>1. /\ pending \in Seq(AnswerEvent) /\ pending # <<>> /\ encoder \in Encoder
      /\ ev \in AnswerEvent /\ out = <<>>
      /\ EventsFit /\ FramesFit /\ StartIsDue
  <2>1. /\ pending \in Seq(AnswerEvent) /\ encoder \in Encoder
        /\ pc = "stream" /\ pending # <<>> /\ out = <<>>
    BY DEF ClientInv, EndInv, ReportInv, AnswerUnreported, TypeOK, HandleEvent,
           HasEvent
  <2>2. EventsFit /\ FramesFit /\ StartIsDue
    BY <2>1 DEF ClientInv, StreamFits, InStream
  <2> QED
    BY <2>1, <2>2
<1>2. /\ pending' = Tail(pending)
      /\ out' = EncodeFrames(encoder, ev)
      /\ encoder' = AfterEncode(encoder, ev)
      /\ UNCHANGED <<up, heard>>
  BY DEF HandleEvent, backendVars, clientVars
<1>3. AwaitsNothing \/ (Ends /\ heard.phase = "ended")
  BY <1>1 DEF FramesFit, GoesOn, AwaitsStart, AwaitsDelta, AwaitsBlock,
              AwaitsNextBlock, Ends, AwaitsEnd
<1>4. \A t : ev.type = t => Brings(pending, t)
  BY <1>1, BringsTail
<1>5. ev.type \in {"stream_start", "text_delta", "usage", "stop",
                   "tool_call_start", "tool_call_delta"}
  BY <1>1 DEF AnswerEvent, StreamEvent, StreamEventTypes
<1>6. ev.text \in Nat /\ ev.call \in Nat /\ ev.reason \in Reasons
      /\ MapFinishReason(ev.reason) \in Reasons
  BY <1>1, EventFields DEF AnswerEvent, MapFinishReason, Reasons, FinishReasons,
                           StopReasons
<1>7. encoder.blockIndex \in Nat
  BY <1>1, EncoderFields
<1> HIDE DEF ev
<1>8. CASE Ends /\ heard.phase = "ended"
  <2>1. ev.type = "usage"
    BY <1>1, <1>8 DEF Ends, ev
  <2>2. out' = <<>>
    BY <1>2, <2>1 DEF EncodeFrames
  <2>3. \A n \in DOMAIN pending' : pending'[n].type = "usage"
    <3>1. \A n \in DOMAIN Tail(pending) : n + 1 \in DOMAIN pending /\ Tail(pending)[n] = pending[n + 1]
      BY <1>1
    <3> QED
      BY <1>2, <1>8, <3>1 DEF Ends
  <2> QED
    BY <1>2, <1>8, <2>2, <2>3 DEF FramesFit, Ends
<1>9. CASE AwaitsNothing /\ ev.type \in {"stream_start", "usage"}
  <2>1. encoder' = encoder
    BY <1>1, <1>2, <1>9, EncoderAfter
  <2>2. IsSettled'
    BY <1>2, <1>9, <2>1 DEF AwaitsNothing, IsSettled
  <2>3. \/ out' = <<>>
        \/ out' = <<BareFrame("message_start")>>
    BY <1>2, <1>9 DEF EncodeFrames
  <2>4. \/ out' = <<>>
        \/ Len(out') = 1 /\ out'[1].kind = "message_start"
    BY <2>3, FrameFields
  <2> QED
    BY <2>2, <2>4 DEF FramesFit, GoesOn, AwaitsNothing, AwaitsStart
<1>10. AwaitsNothing /\ ev.type # "stream_start" => heard.phase = "open"
  <2>1. Plain("stream_start").type = "stream_start"
    BY EventKinds
  <2>2. <<StartFrame>> # <<>>
    OBVIOUS
  <2> QED
    BY <1>1, <2>1, <2>2 DEF StartIsDue, AwaitsNothing, IsSettled, ev
<1>11. CASE AwaitsNothing /\ ev.type = "text_delta"
  <2>1. ~encoder.hasToolBlock
    BY <1>1, <1>4, <1>11 DEF EventsFit
  <2>2. encoder'.blockIndex = encoder.blockIndex /\ HasBlock(encoder')
    BY <1>1, <1>2, <1>11, EncoderAfter
  <2> DEFINE start == BlockStart("text", encoder.blockIndex, 0)
             delta == BlockDelta("text", encoder.blockIndex, ev.text)
  <2>3. out' = Append(StartText(encoder), delta)
    BY <1>2, <1>11 DEF EncodeFrames
  <2>4. /\ start.kind = "content_block_start" /\ start.index = encoder.blockIndex
        /\ delta.kind = "content_block_delta"
    BY FrameFields, FrameIndexes
  <2> HIDE DEF delta
  <2>5. CASE HasBlock(encoder)
    <3>1. out' = Append(<<>>, delta)
      BY <2>1, <2>3, <2>5 DEF StartText, HasBlock
    <3>2. Len(out') = 1 /\ out'[1] = delta
      BY <3>1
    <3>3. IsOpen({encoder.blockIndex}, encoder.blockIndex + 1)'
      BY <1>2, <1>10, <1>11, <2>2, <2>5
      DEF AwaitsNothing, IsSettled, BlockOpen, BlocksBegun, IsOpen
    <3> QED
      BY <2>2, <2>4, <3>2, <3>3 DEF FramesFit, GoesOn, AwaitsDelta
  <2>6. CASE ~HasBlock(encoder)
    <3>1. out' = Append(<<start>>, delta)
      BY <2>3, <2>6 DEF StartText, HasBlock
    <3> HIDE DEF start
    <3>2. Len(out') = 2 /\ out'[1] = start /\ out'[2] = delta
      BY <3>1, SmallSequences
    <3>3. IsOpen({}, encoder.blockIndex)'
      BY <1>2, <1>10, <1>11, <2>2, <2>6
      DEF AwaitsNothing, IsSettled, BlockOpen, BlocksBegun, IsOpen
    <3> QED
      BY <2>2, <2>4, <3>2, <3>3 DEF FramesFit, GoesOn, AwaitsBlock
  <2> QED
    BY <2>5, <2>6
<1>12. CASE AwaitsNothing /\ ev.type = "tool_call_start"
  <2>1. encoder'.blockIndex = ToolIndex(encoder) /\ HasBlock(encoder')
    BY <1>1, <1>2, <1>12, EncoderAfter
  <2> DEFINE stop == BlockStop(encoder.blockIndex)
             start == BlockStart("tool_use", ToolIndex(encoder), ev.call)
  <2>2. out' = Append(StopIfBegun(encoder), start)
    BY <1>2, <1>12 DEF EncodeFrames
  <2>3. /\ start.kind = "content_block_start" /\ start.index = encoder'.blockIndex
        /\ stop.kind = "content_block_stop" /\ stop.index = encoder.blockIndex
    BY <2>1, FrameFields, FrameIndexes
  <2> HIDE DEF start
  <2>4. CASE HasBlock(encoder)
    <3>1. out' = Append(<<stop>>, start)
      BY <2>2, <2>4 DEF StopIfBegun
    <3> HIDE DEF stop
    <3>2. Len(out') = 2 /\ out'[1] = stop /\ out'[2] = start
      BY <3>1, SmallSequences
    <3>3. encoder'.blockIndex = encoder.blockIndex + 1
      BY <2>1, <2>4 DEF ToolIndex
    <3>4. heard'.phase = "open" /\ heard'.open = {stop.index} /\ heard'.begun = encoder'.blockIndex
      BY <1>2, <1>10, <1>12, <2>3, <2>4, <3>3
      DEF AwaitsNothing, IsSettled, BlockOpen, BlocksBegun
    <3>5. IsOpen({out[1].index}, encoder.blockIndex)'
      BY <3>2, <3>4 DEF IsOpen
    <3> QED
      BY <2>1, <2>3, <3>2, <3>3, <3>5 DEF FramesFit, GoesOn, AwaitsNextBlock
  <2>5. CASE ~HasBlock(encoder)
    <3>1. out' = Append(<<>>, start)
      BY <2>2, <2>5 DEF StopIfBegun
    <3>2. Len(out') = 1 /\ out'[1] = start
      BY <3>1
    <3>3. encoder'.blockIndex = encoder.blockIndex
      BY <2>1, <2>5 DEF ToolIndex
    <3>4. IsOpen({}, encoder.blockIndex)'
      BY <1>2, <1>10, <1>12, <2>5, <3>3
      DEF AwaitsNothing, IsSettled, BlockOpen, BlocksBegun, IsOpen
    <3> QED
      BY <2>1, <2>3, <3>2, <3>3, <3>4 DEF FramesFit, GoesOn, AwaitsBlock
  <2> QED
    BY <2>4, <2>5
<1>13. CASE AwaitsNothing /\ ev.type = "tool_call_delta"
  <2>1. encoder' = encoder /\ HasBlock(encoder)
    BY <1>1, <1>2, <1>4, <1>13, EncoderAfter DEF EventsFit, HasBlock
  <2> DEFINE delta == BlockDelta("tool_use", encoder.blockIndex, ev.text)
  <2>2. out' = <<delta>> /\ delta.kind = "content_block_delta"
    BY <1>2, <1>13, FrameFields DEF EncodeFrames
  <2> HIDE DEF delta
  <2>3. Len(out') = 1 /\ out'[1] = delta
    BY <2>2
  <2>4. IsOpen({encoder.blockIndex}, encoder.blockIndex + 1)'
    BY <1>2, <1>10, <1>13, <2>1
    DEF AwaitsNothing, IsSettled, BlockOpen, BlocksBegun, IsOpen
  <2> QED
    BY <2>1, <2>2, <2>3, <2>4 DEF FramesFit, GoesOn, AwaitsDelta
<1>14. CASE AwaitsNothing /\ ev.type = "stop"
  <2>1. Len(pending) = 1 /\ ~Unending(up.phase)
    BY <1>1, <1>4, <1>14 DEF EventsFit
  <2>2. pending' = <<>>
    BY <1>1, <1>2, <2>1
  <2> DEFINE close == BlockStop(encoder.blockIndex)
             reason == MessageDelta(MapFinishReason(ev.reason))
             last == BareFrame("message_stop")
  <2>3. out' = StopIfBegun(encoder) \o <<reason, last>>
    BY <1>2, <1>14 DEF EncodeFrames
  <2>4. /\ close.kind = "content_block_stop" /\ close.index = encoder.blockIndex
        /\ reason.kind = "message_delta" /\ last.kind = "message_stop"
    BY FrameFields, FrameIndexes
  <2> HIDE DEF reason, last
  <2>5. CASE HasBlock(encoder)
    <3>1. out' = <<close>> \o <<reason, last>>
      BY <2>3, <2>5 DEF StopIfBegun
    <3> HIDE DEF close
    <3>2. Len(out') = 3 /\ out'[1] = close /\ out'[2] = reason /\ out'[3] = last
      BY <3>1, SmallSequences
    <3>3. heard'.phase = "open" /\ heard'.open = {close.index}
      BY <1>2, <1>10, <1>14, <2>4, <2>5 DEF AwaitsNothing, IsSettled, BlockOpen
    <3>4. AwaitsEnd'
      BY <2>4, <3>2, <3>3 DEF AwaitsEnd
    <3> QED
      BY <1>2, <2>1, <2>2, <3>4 DEF FramesFit, Ends
  <2>6. CASE ~HasBlock(encoder)
    <3>1. out' = <<>> \o <<reason, last>>
      BY <2>3, <2>6 DEF StopIfBegun
    <3>2. Len(out') = 2 /\ out'[1] = reason /\ out'[2] = last
      BY <3>1, SmallSequences
    <3>3. heard'.phase = "open" /\ heard'.open = {}
      BY <1>2, <1>10, <1>14, <2>6 DEF AwaitsNothing, IsSettled, BlockOpen
    <3>4. AwaitsEnd'
      BY <2>4, <3>2, <3>3 DEF AwaitsEnd
    <3> QED
      BY <1>2, <2>1, <2>2, <3>4 DEF FramesFit, Ends
  <2> QED
    BY <2>5, <2>6
<1> QED
  BY <1>3, <1>5, <1>8, <1>9, <1>11, <1>12, <1>13, <1>14

-----------------------------------------------------------------------------
(* Writing.                                                                *)

(* A step that ClientStream allows.                                        *)
ClientStep == [CS!Next]_(CS!streamVars)

(* The first element and the rest of a short sequence.                     *)
LEMMA TailOf ==
    ASSUME NEW S, NEW s \in Seq(S), s # <<>>
    PROVE  /\ Head(s) = s[1] /\ s[1] \in S /\ Tail(s) \in Seq(S)
           /\ Len(s) = 1 => Tail(s) = <<>>
           /\ Len(s) = 2 => Len(Tail(s)) = 1 /\ Tail(s)[1] = s[2]
           /\ Len(s) = 3 =>
                 Len(Tail(s)) = 2 /\ Tail(s)[1] = s[2] /\ Tail(s)[2] = s[3]
OBVIOUS

(* Every frame an Anthropic client is sent is a step of ClientStream.      *)
LEMMA AnthropicWrites ==
    ASSUME ClientInv, WriteFrame, InStream, conn = "up", inbound = "anthropic"
    PROVE  FramesFit' /\ ClientStep
<1> DEFINE f == out[1]
           m == heard
           r == heard'
           index == encoder.blockIndex
<1>1. /\ out \in Seq(Frame) /\ out # <<>> /\ m \in Message /\ index \in Nat
  BY EncoderFields
  DEF ClientInv, EndInv, ReportInv, TypeOK, Frames, WriteFrame
<1>2. /\ Head(out) = f /\ f \in Frame
      /\ Len(out) = 1 => Tail(out) = <<>>
      /\ Len(out) = 2 => Len(Tail(out)) = 1 /\ Tail(out)[1] = out[2]
      /\ Len(out) = 3 =>
            Len(Tail(out)) = 2 /\ Tail(out)[1] = out[2] /\ Tail(out)[2] = out[3]
  BY <1>1, TailOf
<1>3. /\ out' = Tail(out) /\ r = ReadFrame(m, f)
      /\ UNCHANGED <<inbound, encoder, pending, up>>
  BY <1>2 DEF WriteFrame, ReadAs, backendVars, decoderVars
<1>4. HasBlock(encoder)' = HasBlock(encoder)
  BY <1>3 DEF HasBlock
<1>5. m.begun \in Nat /\ m.open \subseteq Nat
  BY <1>1, MessageFields
<1>6. /\ f.kind = "message_start" =>
            /\ r.phase = IF m.phase = "before" THEN "open" ELSE m.phase
            /\ r.open = m.open /\ r.begun = m.begun /\ Len(r.got) = Len(m.got)
      /\ f.kind = "content_block_start" =>
            /\ r.phase = m.phase /\ r.open = m.open \cup {f.index}
            /\ r.begun = m.begun + 1
            /\ Len(r.got) \in {Len(m.got), Len(m.got) + 1}
      /\ f.kind = "content_block_delta" =>
            /\ r.phase = m.phase /\ r.open = m.open /\ r.begun = m.begun
            /\ Len(r.got) = Len(m.got) + 1
      /\ f.kind = "content_block_stop" =>
            /\ r.phase = m.phase /\ r.open = m.open \ {f.index}
            /\ r.begun = m.begun /\ Len(r.got) = Len(m.got)
      /\ f.kind = "message_delta" =>
            /\ r.phase = m.phase /\ r.open = m.open /\ r.begun = m.begun
            /\ Len(r.got) = Len(m.got)
      /\ f.kind = "message_stop" =>
            /\ r.phase = "ended" /\ r.open = m.open /\ r.begun = m.begun
            /\ Len(r.got) = Len(m.got)
  BY <1>1, <1>2, <1>3, FrameRead
<1>7. FramesFit
  BY DEF ClientInv, StreamFits
<1> DEFINE Same == Len(r.got) = Len(m.got) /\ r.begun = m.begun
<1> USE DEF ClientStep, CS!Next, CS!streamVars
<1>8. CASE AwaitsStart
  <2>1. /\ out' = <<>> /\ f.kind = "message_start"
        /\ m.phase \in {"before", "open"}
        /\ m.open = BlockOpen(encoder) /\ m.begun = BlocksBegun(encoder)
    BY <1>2, <1>3, <1>8 DEF AwaitsStart, IsSettled
  <2>2. r.phase = "open" /\ r.open = m.open /\ Same
    BY <1>6, <2>1
  <2>3. FramesFit'
    BY <1>3, <1>4, <2>1, <2>2
    DEF FramesFit, GoesOn, AwaitsNothing, IsSettled, BlockOpen, BlocksBegun
  <2>4. ClientStep
    BY <1>3, <2>1, <2>2 DEF CS!Begin
  <2> QED
    BY <2>3, <2>4
<1>9. CASE AwaitsDelta
  <2>1. /\ out' = <<>> /\ f.kind = "content_block_delta" /\ HasBlock(encoder)
        /\ m.phase = "open" /\ m.open = {index} /\ m.begun = index + 1
    BY <1>2, <1>3, <1>9 DEF AwaitsDelta, IsOpen
  <2>2. /\ r.phase = "open" /\ r.open = m.open /\ r.begun = m.begun
        /\ Len(r.got) = Len(m.got) + 1
    BY <1>6, <2>1
  <2>3. FramesFit'
    BY <1>3, <1>4, <2>1, <2>2
    DEF FramesFit, GoesOn, AwaitsNothing, IsSettled, BlockOpen, BlocksBegun
  <2>4. ClientStep
    BY <1>3, <2>1, <2>2 DEF CS!Deliver
  <2> QED
    BY <2>3, <2>4
<1>10. CASE AwaitsBlock
  <2>1. /\ f.kind = "content_block_start" /\ f.index = index
        /\ HasBlock(encoder)
        /\ m.phase = "open" /\ m.open = {} /\ m.begun = index
    BY <1>10 DEF AwaitsBlock, IsOpen
  <2>2. /\ r.phase = "open" /\ r.open = {index} /\ r.begun = index + 1
        /\ Len(r.got) \in {Len(m.got), Len(m.got) + 1}
    BY <1>6, <2>1
  <2>3. \/ out' = <<>>
        \/ Len(out') = 1 /\ out'[1].kind = "content_block_delta"
    BY <1>2, <1>3, <1>10 DEF AwaitsBlock
  <2>4. ASSUME out' = <<>> PROVE FramesFit'
    BY <1>3, <1>4, <2>1, <2>2, <2>4
    DEF FramesFit, GoesOn, AwaitsNothing, IsSettled, BlockOpen, BlocksBegun
  <2>5. ASSUME Len(out') = 1, out'[1].kind = "content_block_delta"
        PROVE  FramesFit'
    <3>1. AwaitsDelta'
      BY <1>3, <1>4, <2>1, <2>2, <2>5 DEF AwaitsDelta, IsOpen
    <3> QED
      BY <3>1 DEF FramesFit, GoesOn
  <2>6. ClientStep
    BY <1>3, <2>1, <2>2 DEF CS!OpenBlock
  <2> QED
    BY <2>3, <2>4, <2>5, <2>6
<1>11. CASE AwaitsNextBlock
  <2>1. /\ f.kind = "content_block_stop" /\ HasBlock(encoder)
        /\ m.phase = "open" /\ m.open = {f.index} /\ m.begun = index
        /\ Len(out') = 1 /\ out'[1].kind = "content_block_start"
        /\ out'[1].index = index
    BY <1>2, <1>3, <1>11 DEF AwaitsNextBlock, IsOpen
  <2>2. r.phase = "open" /\ r.open = {} /\ Same
    BY <1>6, <2>1
  <2>3. AwaitsBlock'
    BY <1>3, <1>4, <2>1, <2>2 DEF AwaitsBlock, IsOpen
  <2>4. ClientStep
    BY <1>3, <2>1, <2>2 DEF CS!CloseBlock
  <2> QED
    BY <2>3, <2>4 DEF FramesFit, GoesOn
<1>12. CASE Ends
  <2>1. ~Unending(up.phase)' /\ (\A n \in DOMAIN pending : pending[n].type = "usage")'
    BY <1>3, <1>12 DEF Ends
  <2>2. m.phase = "open"
    BY <1>1, <1>12 DEF Ends, AwaitsEnd
  <2>3. CASE Len(out) = 3
    <3>0. /\ f.kind = "content_block_stop" /\ m.open = {f.index}
          /\ out[2].kind = "message_delta" /\ out[3].kind = "message_stop"
      BY <1>1, <1>12, <2>3 DEF Ends, AwaitsEnd
    <3>1. /\ f.kind = "content_block_stop" /\ m.open = {f.index}
          /\ Len(out') = 2 /\ out'[1].kind = "message_delta"
          /\ out'[2].kind = "message_stop"
      BY <1>2, <1>3, <2>3, <3>0
    <3>2. r.phase = "open" /\ r.open = {} /\ Same
      BY <1>6, <2>2, <3>1
    <3>3. AwaitsEnd'
      BY <3>1, <3>2 DEF AwaitsEnd
    <3>4. ClientStep
      BY <1>3, <2>2, <3>1, <3>2 DEF CS!CloseBlock
    <3> QED
      BY <2>1, <3>3, <3>4 DEF FramesFit, Ends
  <2>4. CASE Len(out) = 2
    <3>1. /\ f.kind = "message_delta" /\ m.open = {}
          /\ Len(out') = 1 /\ out'[1].kind = "message_stop"
      BY <1>1, <1>2, <1>3, <1>12, <2>4 DEF Ends, AwaitsEnd
    <3>2. r.phase = "open" /\ r.open = {} /\ Same
      BY <1>6, <2>2, <3>1
    <3>3. AwaitsEnd'
      BY <3>1, <3>2 DEF AwaitsEnd
    <3>4. ClientStep
      BY <1>3, <2>2, <3>1, <3>2
    <3> QED
      BY <2>1, <3>3, <3>4 DEF FramesFit, Ends
  <2>5. CASE Len(out) = 1
    <3>1. f.kind = "message_stop" /\ m.open = {} /\ out' = <<>>
      BY <1>1, <1>2, <1>3, <1>12, <2>5 DEF Ends, AwaitsEnd
    <3>2. r.phase = "ended" /\ r.open = {} /\ Same
      BY <1>6, <3>1
    <3>3. ClientStep
      BY <1>3, <2>2, <3>1, <3>2 DEF CS!End
    <3> QED
      BY <2>1, <3>1, <3>2, <3>3 DEF FramesFit, Ends
  <2> QED
    BY <1>1, <1>12, <2>3, <2>4, <2>5 DEF Ends, AwaitsEnd
<1>13. ~AwaitsNothing
  BY <1>1 DEF AwaitsNothing
<1> QED
  BY <1>7, <1>8, <1>9, <1>10, <1>11, <1>12, <1>13 DEF FramesFit, GoesOn

(* Reading begins the stream.                                              *)
LEMMA ReadBegins ==
    ASSUME NEW m \in Message, NEW p \in Protocols, NEW f \in Frames(p)
    PROVE  ReadAs(p, m, f).phase = "before" =>
              m.phase = "before" /\ f.kind \notin {"chunk", "message_start"}
<1>1. CASE p = "openai"
  <2>1. f \in Chunk /\ ReadAs(p, m, f) = ReadChunk(m, f)
    BY <1>1 DEF Frames, ReadAs
  <2>2. Opened(m) \in Message /\ Opened(m).phase # "before"
    BY DEF Opened, Message
  <2>3. f.kind \in {"chunk", "usage"} => ReadChunk(m, f).phase = Opened(m).phase
    BY <2>2 DEF ReadChunk, Message
  <2>4. f.kind \notin {"chunk", "usage"} /\ ReadChunk(m, f).phase = "before" =>
           m.phase = "before" /\ f.kind # "chunk"
    BY <2>1 DEF ReadChunk, Message
  <2>5. f.kind # "message_start"
    BY <2>1 DEF Chunk
  <2> QED
    BY <2>1, <2>2, <2>3, <2>4, <2>5
<1>2. CASE p # "openai"
  <2>1. f \in Frame /\ ReadAs(p, m, f) = ReadFrame(m, f)
    BY <1>2 DEF Frames, ReadAs
  <2>2. ReadFrame(m, f).phase = "before" => m.phase = "before" /\ f.kind # "message_start"
    BY DEF ReadFrame, Opened, Message
  <2>3. f.kind # "chunk"
    BY <2>1 DEF Frame
  <2> QED
    BY <2>1, <2>2, <2>3
<1> QED
  BY <1>1, <1>2

(* The first frame written is the one that begins the stream.              *)
LEMMA StartWritten ==
    ASSUME ClientInv, WriteFrame, InStream, conn = "up"
    PROVE  StartIsDue'
<1>1. /\ StartIsDue /\ out # <<>>
      /\ heard \in Message /\ inbound \in Protocols
      /\ Head(out) \in Frames(inbound)
      /\ heard' = ReadAs(inbound, heard, Head(out))
  <2>1. /\ heard \in Message /\ inbound \in Protocols
        /\ out \in Seq(Frames(inbound)) /\ out # <<>>
        /\ heard' = ReadAs(inbound, heard, Head(out))
    BY DEF ClientInv, EndInv, ReportInv, TypeOK, WriteFrame
  <2>2. StartIsDue
    BY DEF ClientInv, StreamFits
  <2>3. Head(out) \in Frames(inbound)
    BY <2>1
  <2> QED
    BY <2>1, <2>2, <2>3
<1>2. heard.phase = "before" => Head(out).kind \in {"chunk", "message_start"}
  <2>1. heard.phase = "before" => out = <<StartFrame>>
    BY <1>1 DEF StartIsDue
  <2>2. StartFrame.kind \in {"chunk", "message_start"}
    BY ChunkFields, FrameFields DEF StartFrame
  <2>3. Head(<<StartFrame>>) = StartFrame
    OBVIOUS
  <2> QED
    BY <2>1, <2>2, <2>3
<1>3. heard'.phase # "before"
  BY <1>1, <1>2, ReadBegins
<1> QED
  BY <1>3 DEF StartIsDue

(* Every chunk an OpenAI client is sent is a step of ClientStream.         *)
LEMMA OpenAIWrites ==
    ASSUME ClientInv, WriteFrame, InStream, conn = "up", inbound = "openai"
    PROVE  ChunksFit' /\ heard'.open = {} /\ ClientStep
<1> DEFINE f == Head(out)
<1>1. /\ out \in Seq(Chunk) /\ out # <<>> /\ heard \in Message /\ heard.open = {}
      /\ ChunksFit /\ StartIsDue
  BY DEF ClientInv, StreamFits, EndInv, ReportInv, TypeOK, Frames, WriteFrame
<1>2. Len(out) = 1 /\ f.kind = "chunk" /\ f \in Chunk /\ Tail(out) = <<>>
  <2>1. f = out[1] /\ f \in Chunk /\ (Len(out) = 1 => Tail(out) = <<>>)
    BY <1>1, TailOf
  <2>2. Len(out) \in Nat /\ Len(out) # 0 /\ DOMAIN out = 1..Len(out)
    BY <1>1
  <2>3. Len(out) = 1 /\ 1 \in DOMAIN out
    BY <1>1, <2>2 DEF ChunksFit
  <2> QED
    BY <1>1, <2>1, <2>3 DEF ChunksFit
<1>3. out' = <<>> /\ heard' = ReadChunk(heard, f) /\ UNCHANGED inbound
  BY <1>2 DEF WriteFrame, ReadAs
<1>4. /\ heard'.phase = "open" /\ heard'.open = {} /\ heard'.begun = heard.begun
      /\ Len(heard'.got) >= Len(heard.got)
      /\ f = BareChunk("chunk") => Len(heard'.got) = Len(heard.got)
  BY <1>1, <1>2, <1>3, ChunkRead DEF ChunksFit
<1>5. ChunksFit'
  BY <1>3, <1>4 DEF ChunksFit
<1>6. heard.phase = "before" => f = BareChunk("chunk")
  <2>1. heard.phase = "before" => out = <<StartFrame>>
    BY <1>1 DEF StartIsDue
  <2>2. StartFrame = BareChunk("chunk")
    BY DEF StartFrame
  <2>3. Head(<<StartFrame>>) = StartFrame
    OBVIOUS
  <2> QED
    BY <2>1, <2>2, <2>3
<1> HIDE DEF f
<1>7. ClientStep
  <2> USE DEF ClientStep, CS!Next, CS!streamVars
  <2>1. CASE heard.phase = "before"
    BY <1>1, <1>3, <1>4, <1>6, <2>1 DEF CS!Begin
  <2>2. CASE heard.phase = "open"
    BY <1>1, <1>3, <1>4, <2>2 DEF CS!DeliverChunk
  <2> QED
    BY <1>1, <2>1, <2>2 DEF ChunksFit
<1> QED
  BY <1>4, <1>5, <1>7

(* WriteDone ends the stream, or finds it ended.                           *)
LEMMA EndWritten ==
    ASSUME ClientInv, WriteFrame, pc = "finish", conn = "up"
    PROVE  /\ inbound = "openai" /\ heard'.phase = "ended" /\ out' = <<>>
           /\ heard'.open = {} /\ ClientStep
<1>1. /\ out # <<>> /\ inbound = "openai" /\ heard.phase \in {"open", "ended"}
      /\ out = DoneFrames /\ heard.open = {} /\ heard \in Message
  BY DEF ClientInv, AtFinish, EndInv, ReportInv, TypeOK, WriteFrame
<1>2. Head(out) = DoneChunk /\ Tail(out) = <<>>
  BY <1>1, ErrorFrameSequence
<1>3. out' = <<>> /\ heard' = ReadChunk(heard, DoneChunk) /\ UNCHANGED inbound
  BY <1>1, <1>2 DEF WriteFrame, ReadAs
<1>4. DoneChunk \in Chunk /\ DoneChunk.kind = "done"
  BY BareChunkType, ChunkFields DEF DoneChunk
<1>5. /\ heard'.phase = "ended" /\ heard'.open = heard.open
      /\ heard'.begun = heard.begun /\ heard'.got = heard.got
  BY <1>1, <1>3, <1>4, ChunkRead
<1>6. ClientStep
  BY <1>1, <1>3, <1>5 DEF ClientStep, CS!Next, CS!streamVars, CS!End
<1> QED
  BY <1>1, <1>3, <1>5, <1>6

(* The report of an error fails it, and [DONE] after that changes nothing. *)
LEMMA ReportWritten ==
    ASSUME ClientInv, WriteFrame, pc = "report", conn = "up"
    PROVE  (inbound = "openai" => heard'.open = {}) /\ ClientStep
<1>1. /\ heard \in Message /\ inbound \in Protocols /\ out # <<>>
      /\ inbound = "openai" => heard.open = {}
      /\ ReportHeard
      /\ heard' = ReadAs(inbound, heard, Head(out)) /\ UNCHANGED inbound
  BY DEF ClientInv, EndInv, ReportInv, TypeOK, WriteFrame
<1> USE DEF ClientStep, CS!Next, CS!streamVars
<1>2. CASE heard.phase = "failed" /\ out = DoneFrames
  <2>1. inbound = "openai" /\ Head(out) = DoneChunk
    BY <1>1, <1>2, ErrorFrameSequence
  <2>2. DoneChunk \in Chunk /\ DoneChunk.kind = "done"
    BY BareChunkType, ChunkFields DEF DoneChunk
  <2>3. /\ heard'.phase = "failed" /\ heard'.open = heard.open
        /\ heard'.begun = heard.begun /\ heard'.got = heard.got
    BY <1>1, <1>2, <2>1, <2>2, ChunkRead DEF ReadAs
  <2> QED
    BY <1>1, <1>2, <2>3
<1>3. CASE out = <<BareOf(inbound, "error")>> \o DoneFrames
  <2>1. Head(out) = BareOf(inbound, "error")
    BY <1>3, ErrorFrameSequence
  <2>2. BareOf(inbound, "error").kind = "error"
    BY ChunkFields, FrameFields DEF BareOf
  <2>3. heard' = [heard EXCEPT !.phase = "failed"]
    BY <1>1, <2>1, <2>2 DEF ReadAs, ReadChunk, ReadFrame
  <2>4. /\ heard'.phase = "failed" /\ heard'.open = heard.open
        /\ heard'.begun = heard.begun /\ heard'.got = heard.got
    BY <1>1, <2>3 DEF Message
  <2> QED
    BY <1>1, <2>4 DEF CS!Fail
<1> QED
  BY <1>1, <1>2, <1>3 DEF ReportHeard

-----------------------------------------------------------------------------
(* Reading and handling.                                                   *)

(* What a read of a frame that is not the end leaves, when the frame       *)
(* decodes.                                                                *)
LEMMA EventsReceived ==
    ASSUME ClientInv, ReceiveEvents
    PROVE  /\ up'.phase # "new" /\ (outbound = "openai" => started')
           /\ up.phase = "new" =>
                 pending' # <<>> /\ Head(pending') = Plain("stream_start")
           /\ inbound = "anthropic" =>
                 /\ outbound = "anthropic" => BlockFits(up')
                 /\ Follows(up, up', pending')
<1>1. PICK s \in Sends(outbound, up) :
         /\ Read(s)
         /\ ~IsEnd(s.frame) /\ ~IsUndecodable(s.frame)
         /\ pending' = Decoded(s.frame)
         /\ started' = (started \/ outbound = "openai")
  BY DEF ReceiveEvents
<1>2. /\ up' = s.next /\ InStream /\ BackendFits
      /\ inbound = "anthropic" =>
            EventsFit /\ "text_after_tool" \notin up.quirks
      /\ up \in Backend /\ outbound \in Protocols /\ started \in BOOLEAN
      /\ FinishesProperly(up.quirks)
  BY <1>1 DEF Read, IsReading, InStream, ClientInv, StreamFits, EndInv,
              ReportInv, TypeOK
<1>3. s # Send(BareOf(outbound, "garbage"), Ended(up))
  <2>1. SUFFICES ASSUME s.frame = BareOf(outbound, "garbage") PROVE FALSE
    BY DEF Send
  <2>2. s.frame.kind = "garbage"
    BY <2>1, ChunkFields, FrameFields DEF BareOf
  <2> QED
    BY <1>1, <2>2 DEF IsUndecodable, IsBadChunk, IsBadFrame
<1>4. CASE outbound = "openai" /\ s \in OpenAISends(up)
  <2>1. s.frame \in Chunk /\ s.frame.kind # "done"
    BY <1>1, <1>2, <1>4, OpenAISendsType DEF IsEnd, IsDone, Moves, Frames
  <2>2. /\ pending' = DecodeChunk(started, s.frame)
        /\ started <=> up.phase # "new"
    BY <1>1, <1>2, <1>4 DEF Decoded, BackendFits
  <2>3. up'.phase # "new"
    BY <1>2, <1>4, OpenAIGoesOn DEF IsContent, IsFinish, Unending
  <2>4. up.phase = "new" =>
           pending' # <<>> /\ Head(pending') = Plain("stream_start")
    BY <1>2, <2>1, <2>2, ChunkEvents
  <2>5. inbound = "anthropic" => Follows(up, s.next, DecodeChunk(started, s.frame))
    <3>1. inbound = "anthropic" =>
             "text_after_tool" \notin up.quirks /\ (up.phase = "new" => up.calls = 0)
      BY <1>2 DEF EventsFit
    <3> QED
      BY <1>2, <1>4, <2>1, <2>2, <3>1, OpenAIFollows
  <2> QED
    BY <1>1, <1>2, <1>4, <2>2, <2>3, <2>4, <2>5
<1>5. CASE outbound = "anthropic" /\ s \in AnthropicSends(up)
  <2>1. s.frame.kind # "message_stop" /\ pending' = DecodeFrame(s.frame)
    BY <1>1, <1>5 DEF IsEnd, IsStop, Decoded
  <2>2. up'.phase # "new"
    <3>1. Unending(up.phase)
      BY <1>2, <1>5, <2>1, AnthropicGoesOn
    <3>2. CASE up.phase = "new"
      <4>1. s.next = [up EXCEPT !.phase = "open"]
        BY <1>5, <3>2 DEF AnthropicSends, Send
      <4> QED
        BY <1>2, <4>1 DEF Backend
    <3>3. CASE up.phase = "open"
      <4>1. \/ s.frame.kind = "message_delta"
            \/ s.next.phase = "open"
        BY <1>2, <1>5, <3>1, AnthropicGoesOn DEF IsBlockMove
      <4>2. \/ s.next.phase = "open"
            \/ \E r \in StopReasonsOf(up) : s = Send(MessageDelta(r), Finished(up))
        <5>1. \/ s = Send(BareFrame("ping"), up)
              \/ s \in AnthropicBlocks(up)
              \/ s \in AnthropicFinishes(up)
              \/ s \in AnthropicInBlock(up)
          BY <1>5, <3>3 DEF AnthropicSends
        <5>2. s.frame.kind = "message_delta" =>
                 s \notin AnthropicBlocks(up) /\ s \notin AnthropicInBlock(up)
                 /\ s # Send(BareFrame("ping"), up)
          BY FrameFields DEF AnthropicBlocks, AnthropicInBlock, When, Send
        <5> QED
          BY <4>1, <5>1, <5>2 DEF AnthropicFinishes
      <4>3. \A r : Send(MessageDelta(r), Finished(up)).next.phase = "finished"
        BY <1>2, BackendPhases DEF Send
      <4> QED
        BY <1>2, <4>2, <4>3
    <3> QED
      BY <3>1, <3>2, <3>3 DEF Unending
  <2>3. up.phase = "new" =>
           pending' # <<>> /\ Head(pending') = Plain("stream_start")
    <3>1. SUFFICES ASSUME up.phase = "new" PROVE pending' = <<Plain("stream_start")>>
      OBVIOUS
    <3>2. s.frame = BareFrame("message_start")
      BY <1>5, <3>1 DEF AnthropicSends, Send
    <3>3. s.frame.kind = "message_start"
      BY <3>2, FrameFields
    <3> QED
      BY <2>1, <3>3 DEF DecodeFrame
  <2>4. inbound = "anthropic" =>
           BlockFits(s.next) /\ Follows(up, s.next, DecodeFrame(s.frame))
    <3>1. inbound = "anthropic" =>
             "text_after_tool" \notin up.quirks /\ BlockFits(up)
      BY <1>2, <1>5 DEF EventsFit
    <3> QED
      BY <1>2, <1>5, <2>1, <3>1, AnthropicFollows
  <2> QED
    BY <1>2, <1>5, <2>1, <2>2, <2>3, <2>4
<1> QED
  BY <1>2, <1>1, <1>3, <1>4, <1>5, ProperSends

(* Reading events keeps the stream's parts in step.                        *)
LEMMA ReceiveFits ==
    ASSUME ClientInv, ReceiveEvents
    PROVE  StreamFits'
<1>1. /\ InStream /\ pending = <<>> /\ out = <<>>
      /\ UNCHANGED <<inbound, outbound, out, encoder, heard, conn>>
  BY DEF ReceiveEvents, Read, IsReading, InStream, clientVars
<1>2. StreamFits
  BY <1>1 DEF ClientInv
<1>3. BackendFits'
  BY <1>1, EventsReceived DEF BackendFits
<1>4. conn' = "up" => StartIsDue'
  <2>1. conn = "up" /\ heard.phase = "before" => up.phase = "new"
    <3>1. <<StartFrame>> # <<>>
      OBVIOUS
    <3> QED
      BY <1>1, <1>2, <3>1 DEF StreamFits, StartIsDue
  <2> QED
    BY <1>1, <2>1, EventsReceived DEF StartIsDue
<1>5. conn' = "up" /\ inbound' = "openai" => ChunksFit'
  BY <1>1, <1>2 DEF StreamFits, ChunksFit
<1>6. ASSUME inbound' = "anthropic" PROVE EventsFit'
  <2>1. EventsFit /\ Follows(up, up', pending') /\ up'.phase # "new"
        /\ (outbound = "anthropic" => BlockFits(up'))
    BY <1>1, <1>2, <1>6, EventsReceived DEF StreamFits
  <2>2. \A t : ~Brings(pending, t)
    BY <1>1, OneEvent
  <2>3. encoder.hasToolBlock <=> up.calls > 0
    BY <2>1, <2>2 DEF EventsFit
  <2> QED
    BY <1>1, <2>1, <2>3 DEF EventsFit, Follows
<1>7. ASSUME conn' = "up", inbound' = "anthropic" PROVE FramesFit'
  <2>1. FramesFit /\ Follows(up, up', pending')
    BY <1>1, <1>2, <1>7, EventsReceived DEF StreamFits
  <2>2. GoesOn => GoesOn'
    BY <1>1 DEF GoesOn, AwaitsNothing, AwaitsStart, AwaitsDelta, AwaitsBlock,
                AwaitsNextBlock, IsSettled, IsOpen, BlockOpen, BlocksBegun, HasBlock
  <2>3. Ends => Ends'
    BY <1>1, <2>1 DEF Ends, AwaitsEnd, Follows
  <2> QED
    BY <2>1, <2>2, <2>3 DEF FramesFit
<1> QED
  BY <1>3, <1>4, <1>5, <1>6, <1>7 DEF StreamFits

(* The end is only read from a backend that has sent something.            *)
LEMMA EndNotFirst ==
    ASSUME ClientInv, ReceiveEnd
    PROVE  up.phase # "new"
<1>1. PICK s \in Sends(outbound, up) : IsEnd(s.frame)
  BY DEF ReceiveEnd
<1>2. up \in Backend /\ outbound \in Protocols /\ FinishesProperly(up.quirks)
  BY DEF ClientInv, EndInv, ReportInv, TypeOK
<1>3. s # Send(BareOf(outbound, "garbage"), Ended(up))
  <2>1. SUFFICES ASSUME s.frame = BareOf(outbound, "garbage") PROVE FALSE
    BY DEF Send
  <2>2. s.frame.kind = "garbage"
    BY <2>1, ChunkFields, FrameFields DEF BareOf
  <2> QED
    BY <1>1, <2>2 DEF IsEnd, IsDone, IsStop
<1>4. CASE outbound = "openai" /\ s \in OpenAISends(up)
  <2>1. s.frame.kind = "done"
    BY <1>1, <1>4 DEF IsEnd, IsDone
  <2> QED
    BY <1>2, <1>4, <2>1, OpenAIGoesOn DEF IsContent, IsFinish, Unending
<1>5. CASE outbound = "anthropic" /\ s \in AnthropicSends(up)
  <2>1. s.frame.kind = "message_stop"
    BY <1>1, <1>5 DEF IsEnd, IsStop
  <2> QED
    BY <1>2, <1>5, <2>1, AnthropicGoesOn DEF IsBlockMove, Unending
<1> QED
  BY <1>2, <1>3, <1>4, <1>5, ProperSends

(* At the end of the loop the client's stream has begun.                   *)
LEMMA FinishFits ==
    ASSUME ClientInv, IsReading, conn = "up", inbound = "openai", up.phase # "new"
    PROVE  heard.phase = "open"
<1>1. /\ InStream /\ pending = <<>> /\ out = <<>>
  BY DEF IsReading, InStream
<1>2. StartIsDue /\ ChunksFit
  BY <1>1 DEF ClientInv, StreamFits
<1>3. <<StartFrame>> # <<>>
  OBVIOUS
<1> QED
  BY <1>1, <1>2, <1>3 DEF StartIsDue, ChunksFit

(* So does handling one.                                                   *)
LEMMA HandleFits ==
    ASSUME ClientInv, HandleEvent
    PROVE  StreamFits'
<1>1. /\ InStream /\ pending # <<>> /\ out = <<>> /\ pending \in Seq(AnswerEvent)
      /\ UNCHANGED <<inbound, outbound, up, link, started, heard, conn>>
      /\ pending' = Tail(pending) /\ inbound \in Protocols
  BY DEF HandleEvent, HasEvent, InStream, backendVars, clientVars, ClientInv,
         EndInv, ReportInv, AnswerUnreported, TypeOK
<1>2. StreamFits
  BY <1>1 DEF ClientInv
<1>3. BackendFits'
  BY <1>1, <1>2 DEF StreamFits, BackendFits
<1>4. inbound = "anthropic" => EventsFit' /\ (conn = "up" => FramesFit')
  BY HandleEvents, HandleFrames
<1>5. ASSUME conn = "up" PROVE StartIsDue'
  <2>1. <<StartFrame>> # <<>>
    OBVIOUS
  <2>2. heard.phase = "before" => Head(pending) = Plain("stream_start")
    BY <1>1, <1>2, <1>5, <2>1 DEF StreamFits, StartIsDue
  <2>3. heard.phase = "before" => out' = <<StartFrame>>
    <3>1. Plain("stream_start").type = "stream_start"
      BY EventKinds
    <3>2. \A ev : ev.type = "stream_start" =>
             /\ EncodeChunk(ev) = <<BareChunk("chunk")>>
             /\ \A e : EncodeFrames(e, ev) = <<BareFrame("message_start")>>
      BY DEF EncodeChunk, EncodeFrames
    <3> QED
      BY <2>2, <3>1, <3>2 DEF HandleEvent, StartFrame
  <2>4. StartFrame' = StartFrame
    BY <1>1 DEF StartFrame
  <2> QED
    BY <1>1, <2>3, <2>4 DEF StartIsDue
<1>6. ASSUME conn = "up", inbound = "openai" PROVE ChunksFit'
  <2>1. Head(pending) \in AnswerEvent
    BY <1>1
  <2>2. out' = EncodeChunk(Head(pending))
    BY <1>6 DEF HandleEvent
  <2>3. \A ev \in AnswerEvent :
           EncodeChunk(ev) = <<>> \/ \E c : EncodeChunk(ev) = <<c>> /\ c.kind = "chunk"
    BY ChunkFields DEF EncodeChunk, AnswerEvent
  <2>4. \A c : Len(<<c>>) = 1 /\ DOMAIN <<c>> = {1} /\ <<c>>[1] = c
    OBVIOUS
  <2>5. Len(out') <= 1 /\ \A n \in DOMAIN out' : out'[n].kind = "chunk"
    <3>1. CASE out' = <<>>
      BY <3>1
    <3>2. CASE \E c : out' = <<c>> /\ c.kind = "chunk"
      <4>1. PICK c : out' = <<c>> /\ c.kind = "chunk"
        BY <3>2
      <4>2. Len(out') = 1 /\ DOMAIN out' = {1} /\ out'[1] = c
        BY <2>4, <4>1
      <4> QED
        BY <4>1, <4>2
    <3> QED
      BY <2>1, <2>2, <2>3, <3>1, <3>2
  <2>6. heard'.phase \in {"before", "open"}
    BY <1>1, <1>2, <1>6 DEF StreamFits, ChunksFit
  <2> QED
    BY <2>5, <2>6 DEF ChunksFit
<1> QED
  BY <1>1, <1>3, <1>4, <1>5, <1>6 DEF StreamFits

-----------------------------------------------------------------------------
(* The refinement.                                                         *)

(* The invariant holds when a request is dispatched.                       *)
LEMMA ClientInit ==
    ASSUME \A c \in Clients : FinishesProperly(QuirksFor[c]),
           "anthropic" \in Clients => "text_after_tool" \notin QuirksFor["anthropic"]
    PROVE  Init => ClientInv
<1> SUFFICES ASSUME Init PROVE ClientInv
  OBVIOUS
<1>1. EndInv
  BY EndInit
<1>2. /\ up.quirks = QuirksFor[inbound] /\ up.phase = "new" /\ up.calls = 0
      /\ up.block = "" /\ inbound \in Clients /\ pc = "dial" /\ link = "none"
      /\ started = FALSE /\ pending = <<>> /\ out = <<>> /\ encoder = NewEncoder
  BY DEF Init, NewBackend
<1>3. heard.phase = "before" /\ heard.open = {} /\ heard.begun = 0
  BY DEF Init, NoMessage
<1>4. /\ ~encoder.hasToolBlock /\ ~encoder.hasTextBlock /\ encoder.blockIndex = 0
  BY <1>2 DEF NewEncoder
<1>5. EventsFit
  <2>1. \A t : ~Brings(pending, t)
    BY <1>2, OneEvent
  <2> QED
    <3>0. up.calls = 0
      BY <1>2, Zenon
    <3>1. ~(up.calls > 0)
      BY <3>0
    <3>2. outbound = "anthropic" => BlockFits(up)
      BY <1>2 DEF BlockFits
    <3> QED
      BY <1>2, <1>4, <2>1, <3>1, <3>2 DEF EventsFit
<1>6. FramesFit
  BY <1>2, <1>3, <1>4
  DEF FramesFit, GoesOn, AwaitsNothing, IsSettled, BlockOpen, BlocksBegun, HasBlock
<1>7. StartIsDue /\ ChunksFit /\ BackendFits
  <2>1. Len(<<>>) <= 1 /\ DOMAIN <<>> = {}
    OBVIOUS
  <2> QED
    BY <1>2, <1>3, <2>1 DEF StartIsDue, ChunksFit, BackendFits
<1>8. inbound = "anthropic" => "text_after_tool" \notin up.quirks
  BY <1>2
<1> QED
  BY <1>1, <1>2, <1>3, <1>5, <1>6, <1>7, <1>8
  DEF ClientInv, StreamFits, AtFinish, InStream

(* What a step leaves alone of the invariant's parts.                      *)
LEMMA StreamKept ==
    ASSUME StreamFits,
           UNCHANGED <<inbound, outbound, up, started, pending, encoder, out, heard>>,
           up.phase = "new" /\ link' = "eof" => link = "eof",
           conn' = "up" => conn = "up"
    PROVE  StreamFits'
<1>1. BackendFits'
  BY DEF StreamFits, BackendFits
<1>2. inbound' = "anthropic" => EventsFit'
  BY DEF StreamFits, EventsFit
<1>3. conn' = "up" => StartIsDue'
  BY DEF StreamFits, StartIsDue, StartFrame
<1>4. conn' = "up" /\ inbound' = "openai" => ChunksFit'
  BY DEF StreamFits, ChunksFit
<1>5. ASSUME conn' = "up", inbound' = "anthropic" PROVE FramesFit'
  <2>1. FramesFit
    BY <1>5 DEF StreamFits
  <2>2. GoesOn => GoesOn'
    BY DEF GoesOn, AwaitsNothing, AwaitsStart, AwaitsDelta, AwaitsBlock,
           AwaitsNextBlock, IsSettled, IsOpen, BlockOpen, BlocksBegun, HasBlock
  <2>3. Ends => Ends'
    BY DEF Ends, AwaitsEnd
  <2> QED
    BY <2>1, <2>2, <2>3 DEF FramesFit
<1> QED
  BY <1>1, <1>2, <1>3, <1>4, <1>5 DEF StreamFits

(* Every step keeps the invariant and is one that ClientStream allows.     *)
LEMMA ClientNext == ClientInv /\ [Next]_vars => ClientInv' /\ ClientStep
<1> SUFFICES ASSUME ClientInv, [Next]_vars PROVE ClientInv' /\ ClientStep
  OBVIOUS
<1>1. EndInv' /\ TypeOK /\ ReportInv /\ FinishesProperly(up.quirks)
  BY EndNext DEF ClientInv, EndInv, ReportInv
<1>2. UNCHANGED <<inbound, outbound>>
  BY DEF Next, Handler, Receive, Environment, Terminated, DoStreamSucceeds,
         DoStreamFails, ReceiveEvents, ReceiveEnd, ReceiveUndecodable,
         ReceivePanics, ReadEOF, ReadFails, HandleEvent, HookFails, WriteFrame,
         WriteFails, Fail, Return, BackendCuts, BackendCloses, ClientLeaves,
         NoticeClientGone, vars
<1>3. up'.quirks = up.quirks
  <2>1. CASE Receive
    <3>1. \E s \in Sends(outbound, up) : Read(s)
      BY <2>1 DEF Receive, ReceiveEvents, ReceiveEnd, ReceiveUndecodable, ReceivePanics
    <3> QED
      BY <1>1, <3>1, ReadStep
  <2>2. CASE ~Receive
    BY <2>2 DEF Next, Handler, Environment, Terminated, DoStreamSucceeds,
         DoStreamFails, ReadEOF, ReadFails, HandleEvent, HookFails, WriteFrame,
         WriteFails, Fail, Return, BackendCuts, BackendCloses, ClientLeaves,
         NoticeClientGone, backendVars, vars
  <2> QED
    BY <2>1, <2>2
<1>4. InStream => StreamFits
  BY DEF ClientInv
<1>5. SUFFICES /\ inbound = "openai" => heard'.open = {}
               /\ pc' \in {"fail", "panicked"} => out' = <<>>
               /\ pc' \in {"dial", "stream"} => StreamFits'
               /\ AtFinish'
               /\ ClientStep
  BY <1>1, <1>2, <1>3 DEF ClientInv, InStream
<1>6. UNCHANGED heard => ClientStep
  BY <1>2 DEF ClientStep, CS!streamVars
<1>7. inbound = "openai" => heard.open = {}
  BY DEF ClientInv
<1>8. pc \in {"fail", "panicked"} => out = <<>>
  BY DEF ClientInv
<1>9. DoneFrames' = DoneFrames
  BY <1>2 DEF DoneFrames
<1>10. CASE DoStreamSucceeds
  <2>1. /\ pc = "dial" /\ pc' = "stream" /\ link' = "open"
        /\ UNCHANGED <<up, started, pending, encoder, out, heard, conn>>
    BY <1>10 DEF DoStreamSucceeds, decoderVars, clientVars
  <2>2. StreamFits'
    BY <1>2, <1>4, <2>1, StreamKept DEF InStream
  <2> QED
    BY <1>6, <1>7, <2>1, <2>2 DEF AtFinish
<1>11. CASE DoStreamFails
  <2>1. /\ pc = "dial" /\ pc' = "closed"
        /\ heard' = IF conn = "up" THEN [heard EXCEPT !.phase = "failed"] ELSE heard
    BY <1>11 DEF DoStreamFails
  <2>2. heard.phase # "failed"
    BY <1>1, <2>1 DEF ReportInv, HookCount, ReportHeard
  <2>3. CASE conn # "up"
    BY <1>6, <1>7, <2>1, <2>3 DEF AtFinish
  <2>4. CASE conn = "up"
    <3>1. /\ heard'.phase = "failed" /\ heard'.open = heard.open
          /\ heard'.begun = heard.begun /\ heard'.got = heard.got
      BY <1>1, <2>1, <2>4 DEF TypeOK, Message
    <3>2. ClientStep
      BY <1>2, <2>2, <3>1 DEF ClientStep, CS!Next, CS!Fail, CS!streamVars
    <3> QED
      BY <1>7, <2>1, <3>1, <3>2 DEF AtFinish
  <2> QED
    BY <2>3, <2>4
<1>12. CASE ReadEOF \/ ReceiveEnd
  <2>1. /\ IsReading /\ pc' = "finish" /\ out' = DoneFrames /\ UNCHANGED <<heard, conn>>
    BY <1>12 DEF ReadEOF, ReceiveEnd, Read, clientVars
  <2>2. up.phase # "new"
    <3>1. CASE ReceiveEnd
      BY <3>1, EndNotFirst
    <3>2. CASE ReadEOF
      <4>1. InStream /\ link = "eof"
        BY <3>2 DEF ReadEOF, IsReading, InStream
      <4> QED
        BY <4>1 DEF ClientInv, StreamFits, BackendFits
    <3> QED
      BY <1>12, <3>1, <3>2
  <2>3. conn = "up" /\ inbound = "openai" => heard.phase = "open"
    BY <2>1, <2>2, FinishFits
  <2>4. inbound # "openai" => DoneFrames = <<>>
    BY DEF DoneFrames
  <2>5. AtFinish'
    BY <1>2, <1>9, <2>1, <2>3, <2>4 DEF AtFinish
  <2> QED
    BY <1>6, <1>7, <2>1, <2>5
<1>13. CASE ReceiveEvents
  <2>1. pc' = "stream" /\ UNCHANGED heard
    BY <1>13 DEF ReceiveEvents, Read, IsReading, clientVars
  <2> QED
    BY <1>6, <1>7, <1>13, <2>1, ReceiveFits DEF AtFinish
<1>14. CASE ReceiveUndecodable \/ ReceivePanics \/ ReadFails \/ HookFails
  <2>1. pc' \in {"fail", "panicked"} /\ out' = <<>> /\ UNCHANGED heard
    BY <1>14 DEF ReceiveUndecodable, ReceivePanics, ReadFails, HookFails, Read,
                 IsReading, HasEvent, clientVars
  <2> QED
    BY <1>6, <1>7, <2>1 DEF AtFinish
<1>15. CASE HandleEvent
  <2>1. pc' = "stream" /\ UNCHANGED heard
    BY <1>15 DEF HandleEvent, HasEvent, clientVars
  <2> QED
    BY <1>6, <1>7, <1>15, <2>1, HandleFits DEF AtFinish
<1>16. CASE WriteFrame
  <2>1. /\ out # <<>> /\ out' = Tail(out)
        /\ UNCHANGED <<pc, up, link, started, pending, encoder, conn>>
    BY <1>16 DEF WriteFrame, backendVars, decoderVars
  <2>2. pc \notin {"fail", "panicked", "dial", "closed"}
    BY <1>1, <1>8, <2>1 DEF ReportInv, HookCount
  <2>3. InStream' = InStream
    BY <2>1 DEF InStream
  <2>4. CASE conn # "up"
    <3>1. UNCHANGED heard
      BY <1>16, <2>4 DEF WriteFrame
    <3>2. ASSUME InStream PROVE StreamFits'
      <4>1. BackendFits'
        BY <1>2, <1>4, <2>1, <3>2 DEF StreamFits, BackendFits
      <4>2. inbound' = "anthropic" => EventsFit'
        BY <1>2, <1>4, <2>1, <3>2 DEF StreamFits, EventsFit
      <4> QED
        BY <2>1, <2>4, <4>1, <4>2 DEF StreamFits
    <3> QED
      BY <1>6, <1>7, <2>1, <2>2, <2>4, <3>1, <3>2 DEF AtFinish, InStream
  <2>5. CASE conn = "up" /\ InStream
    <3>1. BackendFits'
      BY <1>2, <1>4, <2>1, <2>5 DEF StreamFits, BackendFits
    <3>2. inbound' = "anthropic" => EventsFit'
      BY <1>2, <1>4, <2>1, <2>5 DEF StreamFits, EventsFit
    <3>3. StartIsDue'
      BY <1>16, <2>5, StartWritten
    <3>4. inbound = "openai" => ChunksFit' /\ heard'.open = {} /\ ClientStep
      BY <1>16, <2>5, OpenAIWrites
    <3>5. inbound = "anthropic" => FramesFit' /\ ClientStep
      BY <1>16, <2>5, AnthropicWrites
    <3>6. inbound \in {"openai", "anthropic"}
      BY <1>1 DEF TypeOK, Protocols
    <3>7. StreamFits' /\ ClientStep
      BY <1>2, <3>1, <3>2, <3>3, <3>4, <3>5, <3>6 DEF StreamFits
    <3> QED
      BY <2>1, <2>2, <2>5, <3>4, <3>7 DEF AtFinish, InStream
  <2>6. CASE conn = "up" /\ pc = "finish"
    BY <1>2, <1>16, <2>1, <2>6, EndWritten DEF AtFinish
  <2>7. CASE conn = "up" /\ pc = "report"
    BY <1>16, <2>1, <2>7, ReportWritten DEF AtFinish
  <2>8. pc \in {"dial", "stream", "finish", "fail", "report", "closed", "panicked"}
    BY <1>1 DEF TypeOK
  <2> QED
    BY <2>2, <2>4, <2>5, <2>6, <2>7, <2>8 DEF InStream
<1>17. CASE WriteFails
  <2>1. /\ pc' = "report" \/ (pc' = "fail" /\ out' = <<>>)
        /\ UNCHANGED heard
    BY <1>17 DEF WriteFails, clientVars
  <2> QED
    BY <1>6, <1>7, <2>1 DEF AtFinish
<1>18. CASE Fail \/ Return
  <2>1. pc' \in {"report", "closed"} /\ UNCHANGED heard
    BY <1>18 DEF Fail, Return, clientVars
  <2> QED
    BY <1>6, <1>7, <2>1 DEF AtFinish
<1>19. CASE Environment \/ UNCHANGED vars
  <2>1. /\ UNCHANGED <<pc, up, started, pending, encoder, out, heard>>
        /\ conn' = "up" => conn = "up"
        /\ link' = "eof" => link = "eof" \/ MayClose(up)
    BY <1>19 DEF Environment, BackendCuts, BackendCloses, ClientLeaves,
                 NoticeClientGone, backendVars, decoderVars, clientVars, vars
  <2>2. MayClose(up) => up.phase # "new"
    BY <1>1 DEF FinishesProperly, MayClose
  <2>3. InStream => StreamFits'
    BY <1>2, <1>4, <2>1, <2>2, StreamKept
  <2>4. AtFinish'
    BY <1>2, <1>9, <2>1 DEF ClientInv, AtFinish
  <2> QED
    BY <1>6, <1>7, <1>8, <2>1, <2>3, <2>4 DEF InStream
<1> QED
  BY <1>10, <1>11, <1>12, <1>13, <1>14, <1>15, <1>16, <1>17, <1>18, <1>19
  DEF Next, Handler, Receive, Terminated

(* What a client sees of a stream is a stream that ClientStream allows     *)
(* (internal/stream, both encoders; HandleStream, handleHTTPStreamError):  *)
(* it begins before it carries anything, every piece an Anthropic client   *)
(* gets is in an open block, blocks are opened one at a time with          *)
(* consecutive indexes and closed before the end, and nothing but the      *)
(* report of an error follows an end.                                      *)
THEOREM StreamsAreKept ==
    ASSUME \A c \in Clients : FinishesProperly(QuirksFor[c]),
           "anthropic" \in Clients => "text_after_tool" \notin QuirksFor["anthropic"]
    PROVE  Spec => KeepsClientStream
<1>1. Init => CS!Init
  <2> SUFFICES ASSUME Init PROVE CS!Init
    OBVIOUS
  <2>2. inbound \in {"openai", "anthropic"}
    BY StreamProxyAssumption DEF Init, Protocols
  <2>3. /\ heard.phase = "before" /\ heard.open = {} /\ heard.begun = 0
        /\ heard.got = <<>>
    BY DEF Init, NoMessage
  <2>4. Len(<<>>) = 0
    OBVIOUS
  <2> QED
    BY <2>2, <2>3, <2>4 DEF CS!Init
<1>2. Init => ClientInv
  BY ClientInit
<1>3. ClientInv /\ [Next]_vars => ClientInv' /\ [CS!Next]_(CS!streamVars)
  BY ClientNext DEF ClientStep
<1> QED
  BY <1>1, <1>2, <1>3, PTL DEF Spec, KeepsClientStream, CS!Spec

=============================================================================
