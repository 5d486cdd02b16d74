------------------------- MODULE StreamClientProofs -------------------------
(***************************************************************************)
(* That the client of a streamed answer hears what the backend said, for   *)
(* answers of every length and every set of client protocols: at any       *)
(* moment a beginning of it, piece by piece, and all of it, with the       *)
(* reason, when it is told that the stream is over.                        *)
(*                                                                         *)
(* Both are assumed of backends with the quirks that a client's protocol   *)
(* can carry (Handled); Stream.cfg gives each protocol just those.  Of     *)
(* args_with_start, finish_first and finish_with_text the OpenAI decoder   *)
(* drops what the chunk carries besides, legacy completions lose their     *)
(* text, and an Anthropic client cannot be told of text or of another      *)
(* call's arguments once a tool call has begun.                            *)
(*                                                                         *)
(* The argument: each read brings a direct client of the backend what its  *)
(* events will bring (Conveyed), each event's frames bring a client what   *)
(* the event says (ChunkTells, FramesTell), and each frame written is one  *)
(* of those.  So what a client holds, with the frames on their way and the *)
(* events in hand, is always what a direct client holds (ClientReached).   *)
(***************************************************************************)
EXTENDS StreamProxyProofs

(* The quirks in spite of which a client of protocol c is served well.     *)
Handled(c) ==
    {"other_reason", "no_function"} \cup
    (IF c = "openai" THEN {"text_after_tool", "interleaved_tools"} ELSE {})

-----------------------------------------------------------------------------
(* Sequences and their beginnings.                                         *)

(* A sequence is a beginning of itself and of what continues it.           *)
LEMMA PrefixOfMore ==
    ASSUME NEW S, NEW s \in Seq(S), NEW t \in Seq(S)
    PROVE  IsPrefix(s, s \o t) /\ IsPrefix(s, s)
<1>1. /\ s \o t \in Seq(S) /\ Len(s \o t) = Len(s) + Len(t)
      /\ \A i \in 1..Len(s) : (s \o t)[i] = s[i]
  BY ConcatProperties
<1>2. Len(s) \in Nat /\ Len(t) \in Nat
  OBVIOUS
<1>3. ASSUME NEW w \in Seq(S), Len(s) <= Len(w), \A i \in 1..Len(s) : w[i] = s[i]
      PROVE  IsPrefix(s, w)
  <2>1. \A i \in 1..Len(s) : w[i] \in S /\ s[i] \in S
    BY <1>3
  <2>2. /\ SubSeq(s, 1, Len(s)) \in Seq(S) /\ SubSeq(w, 1, Len(s)) \in Seq(S)
        /\ Len(SubSeq(s, 1, Len(s))) = Len(SubSeq(w, 1, Len(s)))
        /\ Len(SubSeq(s, 1, Len(s))) = Len(s)
        /\ \A i \in 1..Len(s) : SubSeq(s, 1, Len(s))[i] = SubSeq(w, 1, Len(s))[i]
    BY <1>2, <1>3, <2>1, SubSeqProperties
  <2>3. SubSeq(s, 1, Len(s)) = SubSeq(w, 1, Len(s))
    BY <2>2, SeqEqual
  <2> QED
    BY <1>3, <2>3 DEF IsPrefix
<1>4. Len(s) <= Len(s \o t)
  BY <1>1, <1>2
<1>5. IsPrefix(s, s \o t)
  BY <1>1, <1>3, <1>4
<1>6. IsPrefix(s, s)
  BY <1>2, <1>3
<1> QED
  BY <1>5, <1>6

(* A beginning of a sequence is a beginning of what continues it.          *)
LEMMA PrefixKept ==
    ASSUME NEW S, NEW s \in Seq(S), NEW t \in Seq(S), NEW e \in Seq(S),
           IsPrefix(s, t)
    PROVE  IsPrefix(s, t \o e)
<1>1. /\ t \o e \in Seq(S) /\ Len(t \o e) = Len(t) + Len(e)
      /\ \A i \in 1..Len(t) : (t \o e)[i] = t[i]
  BY ConcatProperties
<1>2. /\ Len(s) \in Nat /\ Len(t) \in Nat /\ Len(e) \in Nat
      /\ Len(s) <= Len(t) /\ SubSeq(s, 1, Len(s)) = SubSeq(t, 1, Len(s))
  BY DEF IsPrefix
<1> DEFINE w == t \o e
<1>3. \A i \in 1..Len(s) : w[i] \in S /\ t[i] \in S /\ w[i] = t[i]
  BY <1>1, <1>2
<1>4. Len(s) <= Len(w) /\ w \in Seq(S)
  BY <1>1, <1>2
<1> HIDE DEF w
<1>5. SubSeq(t, 1, Len(s)) = SubSeq(w, 1, Len(s))
  <2>1. \A i \in 1..Len(s) : w[i] \in S /\ t[i] \in S
    BY <1>3
  <2>2. /\ SubSeq(t, 1, Len(s)) \in Seq(S) /\ SubSeq(w, 1, Len(s)) \in Seq(S)
        /\ Len(SubSeq(t, 1, Len(s))) = Len(SubSeq(w, 1, Len(s)))
        /\ Len(SubSeq(t, 1, Len(s))) = Len(s)
    BY <1>2, <2>1, SubSeqProperties
  <2>3. \A i \in 1..Len(s) : SubSeq(t, 1, Len(s))[i] = SubSeq(w, 1, Len(s))[i]
    BY <1>2, <1>3, <2>1, SubSeqProperties
  <2> QED
    BY <2>2, <2>3, SeqEqual
<1>6. IsPrefix(s, w)
  BY <1>2, <1>4, <1>5 DEF IsPrefix
<1> QED
  BY <1>6 DEF w

-----------------------------------------------------------------------------
(* The pieces that a sequence of events will be to the client.             *)

(* Events that carry a piece of the answer.                                *)
Carries(ev) == ev.type \in {"text_delta", "tool_call_start", "tool_call_delta"}

(* The piece an event carries, for a reader that holds m.                  *)
EventPiece(m, ev) ==
    [of |-> CASE ev.type = "text_delta" -> 0
              [] ev.type = "tool_call_start" -> ev.call
              [] OTHER -> OwnerAt(m, ev.index),
     text |-> ev.text]
PiecesOf(m, events) == [n \in DOMAIN events |-> EventPiece(m, events[n])]

(* What is decoded at a time carries pieces only, but for the first event. *)
AnswerPart(events) ==
    IF events # <<>> /\ ~Carries(Head(events)) THEN Tail(events) ELSE events
Owed(m, events) == PiecesOf(m, AnswerPart(events))

(* The calls that events begin, with their indexes.                        *)
Starts(events) ==
    {<<events[n].index, events[n].call>> :
        n \in {n \in DOMAIN events : events[n].type = "tool_call_start"}}

(* An event carries a piece.                                               *)
LEMMA EventPieceType ==
    ASSUME NEW m \in Message, NEW ev \in StreamEvent
    PROVE  EventPiece(m, ev) \in Piece
<1>1. ev.text \in Nat /\ ev.call \in Nat /\ OwnerAt(m, ev.index) \in Owners
  BY EventFields, MessageFields
<1>2. ev.call \in Owners /\ 0 \in Owners
  BY <1>1 DEF Owners
<1> QED
  BY <1>1, <1>2 DEF EventPiece, Piece

(* Events carry pieces.                                                    *)
LEMMA PiecesOfType ==
    ASSUME NEW m \in Message, NEW events \in Seq(StreamEvent)
    PROVE  /\ PiecesOf(m, events) \in Seq(Piece)
           /\ AnswerPart(events) \in Seq(StreamEvent)
           /\ Owed(m, events) \in Seq(Piece)
<1>1. ASSUME NEW t \in Seq(StreamEvent) PROVE PiecesOf(m, t) \in Seq(Piece)
  <2>1. \A n \in DOMAIN t : EventPiece(m, t[n]) \in Piece
    BY EventPieceType
  <2>2. DOMAIN t = 1..Len(t) /\ Len(t) \in Nat
    OBVIOUS
  <2> QED
    BY <2>1, <2>2 DEF PiecesOf
<1>2. AnswerPart(events) \in Seq(StreamEvent)
  <2>1. events # <<>> => Tail(events) \in Seq(StreamEvent)
    OBVIOUS
  <2> QED
    BY <2>1 DEF AnswerPart
<1> QED
  BY <1>1, <1>2 DEF Owed

(* The pieces of short sequences.                                          *)
LEMMA FewPieces ==
    ASSUME NEW m, NEW x, NEW y
    PROVE  /\ PiecesOf(m, <<>>) = <<>>
           /\ PiecesOf(m, <<x>>) = <<EventPiece(m, x)>>
           /\ PiecesOf(m, <<x, y>>) = <<EventPiece(m, x), EventPiece(m, y)>>
BY DEF PiecesOf

(* The pieces of events, the first one's in front.                         *)
LEMMA PiecesCons ==
    ASSUME NEW m \in Message, NEW events \in Seq(StreamEvent), events # <<>>
    PROVE  /\ PiecesOf(m, events) = <<EventPiece(m, Head(events))>> \o PiecesOf(m, Tail(events))
<1> DEFINE x == Head(events)
           t == Tail(events)
           p == PiecesOf(m, t)
           q == PiecesOf(m, events)
           f == <<EventPiece(m, x)>>
<1>1. /\ x \in StreamEvent /\ t \in Seq(StreamEvent) /\ x = events[1]
      /\ Len(t) + 1 = Len(events) /\ Len(t) \in Nat
      /\ \A i \in 1..Len(t) : t[i] = events[i + 1]
  BY HeadTailProperties
<1>2. p \in Seq(Piece) /\ q \in Seq(Piece)
  BY <1>1, PiecesOfType
<1>3. EventPiece(m, x) \in Piece
  BY <1>1, EventPieceType
<1>4. f \in Seq(Piece) /\ Len(f) = 1 /\ f[1] = EventPiece(m, x)
  BY <1>3
<1>5. /\ Len(q) = Len(events) /\ \A i \in 1..Len(events) : q[i] = EventPiece(m, events[i])
      /\ Len(p) = Len(t) /\ \A i \in 1..Len(t) : p[i] = EventPiece(m, t[i])
  BY <1>1 DEF PiecesOf
<1> HIDE DEF f, p, q, x, t
<1>6. /\ f \o p \in Seq(Piece) /\ Len(f \o p) = 1 + Len(p)
      /\ \A i \in 1..(1 + Len(p)) : (f \o p)[i] = IF i <= 1 THEN f[i] ELSE p[i - 1]
  <2>1. /\ f \o p \in Seq(Piece) /\ Len(f \o p) = Len(f) + Len(p)
        /\ \A i \in 1..(Len(f) + Len(p)) :
              (f \o p)[i] = IF i <= Len(f) THEN f[i] ELSE p[i - Len(f)]
    BY <1>2, <1>4, ConcatProperties
  <2> QED
    BY <1>4, <2>1
<1>7. Len(q) = Len(f \o p)
  BY <1>1, <1>5, <1>6
<1>8. ASSUME NEW i \in 1..Len(q) PROVE q[i] = (f \o p)[i]
  <2>1. CASE i = 1
    BY <1>1, <1>4, <1>5, <1>6, <1>7, <2>1
  <2>2. CASE i # 1
    <3>1. i - 1 \in 1..Len(t) /\ (i - 1) + 1 = i
      BY <1>1, <1>5, <2>2
    <3>2. q[i] = EventPiece(m, events[i]) /\ p[i - 1] = EventPiece(m, t[i - 1])
      BY <1>5, <3>1
    <3>3. t[i - 1] = events[i]
      BY <1>1, <3>1
    <3>4. (f \o p)[i] = p[i - 1]
      BY <1>6, <1>7, <2>2
    <3> QED
      BY <3>2, <3>3, <3>4
  <2> QED
    BY <2>1, <2>2
<1>9. q = f \o p
  BY <1>2, <1>6, <1>7, <1>8, SeqEqual
<1> QED
  BY <1>9 DEF f, p, q, x, t

(* An event's slots, owner or reason are those of the reader m.            *)
EventFits(m, ev) ==
    /\ ev.type = "text_delta" => ev.text # 0
    /\ ev.type = "tool_call_start" =>
          ev.text = 0 /\ ev.call # 0 /\ <<ev.index, ev.call>> \in m.slots
    /\ ev.type = "tool_call_delta" =>
          /\ <<ev.index, OwnerAt(m, ev.index)>> \in m.slots
          /\ OwnerAt(m, ev.index) # 0
    /\ ev.type = "stop" =>
          ev.reason # "" /\ ev.reason \in {m.reason, MapStopReason(m.reason)}

(* Of the events decoded and not yet handled all but the first carry a     *)
(* piece, a call that has just begun is the backend's last, and arguments  *)
(* belong to the backend's last call unless it interleaves them.           *)
PendingFits(v, m, events) ==
    /\ \A n \in DOMAIN AnswerPart(events) : Carries(AnswerPart(events)[n])
    /\ \A n \in DOMAIN events : EventFits(m, events[n])
    /\ Brings(events, "tool_call_delta") => ~Brings(events, "tool_call_start")
    /\ Brings(events, "tool_call_start") =>
          /\ events[Len(events)].type = "tool_call_start"
          /\ events[Len(events)].call = v.calls
    /\ "interleaved_tools" \notin v.quirks =>
          \A n \in DOMAIN events : events[n].type = "tool_call_delta" =>
              OwnerAt(m, events[n].index) = v.calls

(* What is made of the short sequences of events that a frame decodes to.  *)
Conveys(v, m, events, pieces, starts) ==
    /\ PendingFits(v, m, events)
    /\ Owed(m, events) = pieces
    /\ Starts(events) = starts

(* Two elements, and three.                                                *)
LEMMA TwoOrThree ==
    ASSUME NEW x, NEW y, NEW z
    PROVE  /\ DOMAIN <<x, y>> = {1, 2} /\ Len(<<x, y>>) = 2
           /\ <<x, y>>[1] = x /\ <<x, y>>[2] = y
           /\ Head(<<x, y>>) = x /\ Tail(<<x, y>>) = <<y>> /\ <<x, y>> # <<>>
           /\ DOMAIN <<x, y, z>> = {1, 2, 3} /\ Len(<<x, y, z>>) = 3
           /\ <<x, y, z>>[1] = x /\ <<x, y, z>>[2] = y /\ <<x, y, z>>[3] = z
           /\ Head(<<x, y, z>>) = x /\ Tail(<<x, y, z>>) = <<y, z>>
           /\ <<x, y, z>> # <<>>
OBVIOUS

(* One element, and none.                                                  *)
LEMMA OneOrNone ==
    ASSUME NEW x
    PROVE  /\ DOMAIN <<x>> = {1} /\ Len(<<x>>) = 1 /\ <<x>>[1] = x
           /\ Head(<<x>>) = x /\ Tail(<<x>>) = <<>> /\ <<x>> # <<>>
           /\ DOMAIN <<>> = {}
OBVIOUS

(* Events that carry nothing.                                              *)
LEMMA NoPiece ==
    ASSUME NEW v, NEW m, NEW x, ~Carries(x), EventFits(m, x)
    PROVE  Conveys(v, m, <<>>, <<>>, {}) /\ Conveys(v, m, <<x>>, <<>>, {})
<1>1. AnswerPart(<<>>) = <<>> /\ AnswerPart(<<x>>) = <<>>
  BY OneOrNone DEF AnswerPart
<1>2. Owed(m, <<>>) = <<>> /\ Owed(m, <<x>>) = <<>>
  BY <1>1, FewPieces DEF Owed
<1>3. Starts(<<>>) = {} /\ Starts(<<x>>) = {}
  BY OneOrNone DEF Starts, Carries
<1>4. PendingFits(v, m, <<>>)
  BY <1>1, OneOrNone DEF PendingFits, Brings
<1>5. PendingFits(v, m, <<x>>)
  BY <1>1, OneOrNone DEF PendingFits, Brings, Carries
<1> QED
  BY <1>2, <1>3, <1>4, <1>5 DEF Conveys

(* An event that carries a piece, behind the start of the stream or not.   *)
LEMMA OnePiece ==
    ASSUME NEW v, NEW m, NEW x, Carries(x), EventFits(m, x),
           x.type = "tool_call_start" => x.call = v.calls,
           x.type = "tool_call_delta" =>
              "interleaved_tools" \in v.quirks \/ OwnerAt(m, x.index) = v.calls,
           NEW events, events \in {<<x>>, <<Plain("stream_start"), x>>}
    PROVE  Conveys(v, m, events, <<EventPiece(m, x)>>,
                   IF x.type = "tool_call_start" THEN {<<x.index, x.call>>} ELSE {})
<1> DEFINE a == Plain("stream_start")
<1>1. a.type = "stream_start" /\ ~Carries(a) /\ EventFits(m, a)
  BY EventKinds DEF Carries, EventFits
<1> HIDE DEF a
<1>2. AnswerPart(<<x>>) = <<x>> /\ AnswerPart(<<a, x>>) = <<x>>
  BY <1>1, OneOrNone, TwoOrThree DEF AnswerPart
<1>3. Owed(m, events) = <<EventPiece(m, x)>>
  BY <1>2, FewPieces DEF Owed, a
<1>4. CASE events = <<x>>
  <2>1. DOMAIN events = {1} /\ events[1] = x /\ Len(events) = 1
    BY <1>4, OneOrNone
  <2>2. Starts(events) = IF x.type = "tool_call_start" THEN {<<x.index, x.call>>} ELSE {}
    BY <2>1 DEF Starts
  <2>3. PendingFits(v, m, events)
    BY <1>2, <1>4, <2>1 DEF PendingFits, Brings
  <2> QED
    BY <1>3, <2>2, <2>3 DEF Conveys
<1>5. CASE events = <<a, x>>
  <2>1. DOMAIN events = {1, 2} /\ events[1] = a /\ events[2] = x /\ Len(events) = 2
    BY <1>5, TwoOrThree
  <2>2. Starts(events) = IF x.type = "tool_call_start" THEN {<<x.index, x.call>>} ELSE {}
    BY <1>1, <2>1 DEF Starts
  <2>3. \A n \in DOMAIN AnswerPart(events) : Carries(AnswerPart(events)[n])
    BY <1>2, <1>5, OneOrNone
  <2>4. PendingFits(v, m, events)
    BY <1>1, <2>1, <2>3 DEF PendingFits, Brings
  <2> QED
    BY <1>3, <2>2, <2>4 DEF Conveys
<1> QED
  BY <1>4, <1>5 DEF a

(* Two calls announced at once.                                            *)
LEMMA TwoPieces ==
    ASSUME NEW v, NEW m, NEW x, NEW y,
           x.type = "tool_call_start", y.type = "tool_call_start",
           EventFits(m, x), EventFits(m, y), y.call = v.calls,
           NEW events, events \in {<<x, y>>, <<Plain("stream_start"), x, y>>}
    PROVE  Conveys(v, m, events, <<EventPiece(m, x), EventPiece(m, y)>>,
                   {<<x.index, x.call>>, <<y.index, y.call>>})
<1> DEFINE a == Plain("stream_start")
<1>1. a.type = "stream_start" /\ ~Carries(a) /\ EventFits(m, a)
  BY EventKinds DEF Carries, EventFits
<1>2. Carries(x) /\ Carries(y)
  BY DEF Carries
<1> HIDE DEF a
<1>3. AnswerPart(<<x, y>>) = <<x, y>> /\ AnswerPart(<<a, x, y>>) = <<x, y>>
  BY <1>2, <1>1, TwoOrThree DEF AnswerPart
<1>4. Owed(m, events) = <<EventPiece(m, x), EventPiece(m, y)>>
  BY <1>3, FewPieces DEF Owed, a
<1>5. \A n \in DOMAIN AnswerPart(events) : Carries(AnswerPart(events)[n])
  BY <1>2, <1>3, TwoOrThree DEF a
<1>6. CASE events = <<x, y>>
  <2>1. DOMAIN events = {1, 2} /\ events[1] = x /\ events[2] = y /\ Len(events) = 2
    BY <1>6, TwoOrThree
  <2>2. Starts(events) = {<<x.index, x.call>>, <<y.index, y.call>>}
    BY <2>1 DEF Starts
  <2>3. PendingFits(v, m, events)
    BY <1>5, <2>1 DEF PendingFits, Brings
  <2> QED
    BY <1>4, <2>2, <2>3 DEF Conveys
<1>7. CASE events = <<a, x, y>>
  <2>1. /\ DOMAIN events = {1, 2, 3} /\ events[1] = a /\ events[2] = x
        /\ events[3] = y /\ Len(events) = 3
    BY <1>7, TwoOrThree
  <2>2. Starts(events) = {<<x.index, x.call>>, <<y.index, y.call>>}
    BY <1>1, <2>1 DEF Starts
  <2>3. PendingFits(v, m, events)
    BY <1>1, <1>5, <2>1 DEF PendingFits, Brings
  <2> QED
    BY <1>4, <2>2, <2>3 DEF Conveys
<1> QED
  BY <1>6, <1>7 DEF a

(* The events of short lists of tool-call entries.                         *)
LEMMA FewCallEvents ==
    ASSUME NEW x, NEW y
    PROVE  /\ ToolCallEvents(<<>>) = <<>>
           /\ ToolCallEvents(<<x>>) = <<ToolCallEvent(x)>>
           /\ ToolCallEvents(<<x, y>>) = <<ToolCallEvent(x), ToolCallEvent(y)>>
BY DEF ToolCallEvents

(* Short sequences put one behind the other.                               *)
LEMMA FewJoined ==
    ASSUME NEW x, NEW y, NEW z
    PROVE  /\ <<>> \o <<>> = <<>> /\ <<>> \o <<x>> = <<x>> /\ <<x>> \o <<>> = <<x>>
           /\ <<>> \o <<x, y>> = <<x, y>> /\ <<x, y>> \o <<>> = <<x, y>>
           /\ <<x>> \o <<y>> = <<x, y>> /\ <<x>> \o <<y, z>> = <<x, y, z>>
<1> DEFINE S == {x, y, z}
<1>1. x \in S /\ y \in S /\ z \in S
  OBVIOUS
<1> HIDE DEF S
<1>2. /\ <<>> \in Seq(S) /\ <<x>> \in Seq(S) /\ <<y>> \in Seq(S)
      /\ <<x, y>> \in Seq(S) /\ <<y, z>> \in Seq(S) /\ <<x, y, z>> \in Seq(S)
  BY <1>1
<1>3. /\ <<>> \o <<>> = <<>> /\ <<>> \o <<x>> = <<x>> /\ <<x>> \o <<>> = <<x>>
      /\ <<>> \o <<x, y>> = <<x, y>> /\ <<x, y>> \o <<>> = <<x, y>>
  BY <1>2, ConcatEmptySeq
<1>4. <<x>> \o <<y>> = <<x, y>>
  <2> DEFINE w == <<x>> \o <<y>>
  <2>1. w \in Seq(S) /\ Len(w) = 2 /\ w[1] = x /\ w[2] = y
    BY <1>2
  <2> HIDE DEF w
  <2>2. Len(<<x, y>>) = 2 /\ <<x, y>>[1] = x /\ <<x, y>>[2] = y
    BY TwoOrThree
  <2>3. \A i \in 1..2 : w[i] = <<x, y>>[i]
    BY <2>1, <2>2
  <2>4. w = <<x, y>>
    BY <1>2, <2>1, <2>2, <2>3, SeqEqual
  <2> QED
    BY <2>4 DEF w
<1>5. <<x>> \o <<y, z>> = <<x, y, z>>
  <2> DEFINE w == <<x>> \o <<y, z>>
  <2>1. w \in Seq(S) /\ Len(w) = 3 /\ w[1] = x /\ w[2] = y /\ w[3] = z
    BY <1>2
  <2> HIDE DEF w
  <2>2. /\ Len(<<x, y, z>>) = 3 /\ <<x, y, z>>[1] = x /\ <<x, y, z>>[2] = y
        /\ <<x, y, z>>[3] = z
    BY TwoOrThree
  <2>3. \A i \in 1..3 : w[i] = <<x, y, z>>[i]
    BY <2>1, <2>2
  <2>4. w = <<x, y, z>>
    BY <1>2, <2>1, <2>2, <2>3, SeqEqual
  <2> QED
    BY <2>4 DEF w
<1> QED
  BY <1>3, <1>4, <1>5

(* The chunks without a finish reason: a role, a piece of text, one entry  *)
(* or two.  What they decode to, with what the first chunk begins with.    *)
LEMMA ContentDecoded ==
    ASSUME NEW b \in BOOLEAN, NEW c, c.kind = "chunk", c.finish = "",
           NEW t, NEW x, NEW y
    PROVE  /\ c.text = 0 /\ c.calls = <<>> =>
                 DecodeChunk(b, c) \in {<<>>, <<Plain("stream_start")>>}
           /\ c.text = t /\ t # 0 /\ c.calls = <<>> =>
                 DecodeChunk(b, c) \in {<<TextDelta(t)>>,
                                        <<Plain("stream_start"), TextDelta(t)>>}
           /\ c.text = 0 /\ c.calls = <<x>> =>
                 DecodeChunk(b, c) \in {<<ToolCallEvent(x)>>,
                                        <<Plain("stream_start"), ToolCallEvent(x)>>}
           /\ c.text = 0 /\ c.calls = <<x, y>> =>
                 DecodeChunk(b, c) \in
                    {<<ToolCallEvent(x), ToolCallEvent(y)>>,
                     <<Plain("stream_start"), ToolCallEvent(x), ToolCallEvent(y)>>}
<1> DEFINE a == Plain("stream_start")
<1>1. DecodeChunk(b, c) =
        IF ~b THEN <<a>> \o TextEvents(c) \o ToolCallEvents(c.calls)
        ELSE IF c.text # 0 THEN <<TextDelta(c.text)>> ELSE ToolCallEvents(c.calls)
  BY DEF DecodeChunk
<1> HIDE DEF a
<1>2. ASSUME c.text = 0, c.calls = <<>>
      PROVE  DecodeChunk(b, c) \in {<<>>, <<a>>}
  <2>1. TextEvents(c) = <<>> /\ ToolCallEvents(c.calls) = <<>>
    BY <1>2, FewCallEvents DEF TextEvents
  <2>2. DecodeChunk(b, c) = IF ~b THEN <<a>> \o <<>> \o <<>> ELSE <<>>
    BY <1>1, <1>2, <2>1
  <2>3. <<a>> \o <<>> \o <<>> = <<a>>
    BY FewJoined
  <2>4. DecodeChunk(b, c) \in {<<>>, <<a>>}
    BY <2>2, <2>3
  <2> QED
    BY <2>4
<1>3. ASSUME c.text = t, t # 0, c.calls = <<>>
      PROVE  DecodeChunk(b, c) \in {<<TextDelta(t)>>, <<a, TextDelta(t)>>}
  <2> DEFINE d == TextDelta(t)
  <2>1. TextEvents(c) = <<d>> /\ ToolCallEvents(c.calls) = <<>>
    BY <1>3, FewCallEvents DEF TextEvents
  <2>2. DecodeChunk(b, c) = IF ~b THEN <<a>> \o <<d>> \o <<>> ELSE <<d>>
    BY <1>1, <1>3, <2>1
  <2> HIDE DEF d
  <2>3. <<a>> \o <<d>> \o <<>> = <<a, d>>
    BY FewJoined
  <2> QED
    BY <2>2, <2>3 DEF d
<1>4. ASSUME c.text = 0, c.calls = <<x>>
      PROVE  DecodeChunk(b, c) \in {<<ToolCallEvent(x)>>, <<a, ToolCallEvent(x)>>}
  <2> DEFINE d == ToolCallEvent(x)
  <2>1. TextEvents(c) = <<>> /\ ToolCallEvents(c.calls) = <<d>>
    BY <1>4, FewCallEvents DEF TextEvents
  <2>2. DecodeChunk(b, c) = IF ~b THEN <<a>> \o <<>> \o <<d>> ELSE <<d>>
    BY <1>1, <1>4, <2>1
  <2> HIDE DEF d
  <2>3. <<a>> \o <<>> \o <<d>> = <<a, d>>
    BY FewJoined
  <2>4. DecodeChunk(b, c) \in {<<d>>, <<a, d>>}
    BY <2>2, <2>3
  <2> QED
    BY <2>4 DEF d
<1>5. ASSUME c.text = 0, c.calls = <<x, y>>
      PROVE  DecodeChunk(b, c) \in {<<ToolCallEvent(x), ToolCallEvent(y)>>,
                                    <<a, ToolCallEvent(x), ToolCallEvent(y)>>}
  <2> DEFINE d == ToolCallEvent(x)
             e == ToolCallEvent(y)
  <2>1. TextEvents(c) = <<>> /\ ToolCallEvents(c.calls) = <<d, e>>
    BY <1>5, FewCallEvents DEF TextEvents
  <2>2. DecodeChunk(b, c) = IF ~b THEN <<a>> \o <<>> \o <<d, e>> ELSE <<d, e>>
    BY <1>1, <1>5, <2>1
  <2> HIDE DEF d, e
  <2>3. <<a>> \o <<>> \o <<d, e>> = <<a, d, e>>
    BY FewJoined
  <2>4. DecodeChunk(b, c) \in {<<d, e>>, <<a, d, e>>}
    BY <2>2, <2>3
  <2> QED
    BY <2>4 DEF d, e
<1> QED
  BY <1>2, <1>3, <1>4, <1>5 DEF a

(* The same chunks read by a client that holds m.                          *)
LEMMA ContentPieces ==
    ASSUME NEW m, NEW c, c.plain = 0, NEW x, NEW y
    PROVE  /\ c.text = 0 /\ c.calls = <<>> => Pieces(m, c) = <<>>
           /\ c.text # 0 /\ c.calls = <<>> =>
                 Pieces(m, c) = <<[of |-> 0, text |-> c.text]>>
           /\ c.text = 0 /\ c.calls = <<x>> => Pieces(m, c) = <<EntryPiece(m, x)>>
           /\ c.text = 0 /\ c.calls = <<x, y>> =>
                 Pieces(m, c) = <<EntryPiece(m, x), EntryPiece(m, y)>>
<1>1. /\ CallPieces(m, <<>>) = <<>>
      /\ CallPieces(m, <<x>>) = <<EntryPiece(m, x)>>
      /\ CallPieces(m, <<x, y>>) = <<EntryPiece(m, x), EntryPiece(m, y)>>
  BY DEF CallPieces
<1>2. TextPieces(c.plain) = <<>> /\ (c.text = 0 => TextPieces(c.text) = <<>>)
  BY DEF TextPieces
<1>3. c.text # 0 => TextPieces(c.text) = <<[of |-> 0, text |-> c.text]>>
  BY DEF TextPieces
<1>4. CASE c.text = 0 /\ c.calls = <<>>
  BY <1>1, <1>2, <1>4, FewJoined DEF Pieces
<1>5. CASE c.text # 0 /\ c.calls = <<>>
  <2> DEFINE d == [of |-> 0, text |-> c.text]
  <2>1. Pieces(m, c) = <<d>> \o <<>> \o <<>>
    BY <1>1, <1>2, <1>3, <1>5 DEF Pieces
  <2> HIDE DEF d
  <2>2. <<d>> \o <<>> \o <<>> = <<d>>
    BY FewJoined
  <2> QED
    BY <1>5, <2>1, <2>2 DEF d
<1>6. CASE c.text = 0 /\ c.calls = <<x>>
  <2> DEFINE d == EntryPiece(m, x)
  <2>1. Pieces(m, c) = <<>> \o <<>> \o <<d>>
    BY <1>1, <1>2, <1>6 DEF Pieces
  <2> HIDE DEF d
  <2>2. <<>> \o <<>> \o <<d>> = <<d>>
    BY FewJoined
  <2> QED
    BY <1>6, <2>1, <2>2 DEF d
<1>7. CASE c.text = 0 /\ c.calls = <<x, y>>
  <2> DEFINE d == EntryPiece(m, x)
             e == EntryPiece(m, y)
  <2>1. Pieces(m, c) = <<>> \o <<>> \o <<d, e>>
    BY <1>1, <1>2, <1>7 DEF Pieces
  <2> HIDE DEF d, e
  <2>2. <<>> \o <<>> \o <<d, e>> = <<d, e>>
    BY FewJoined
  <2> QED
    BY <1>7, <2>1, <2>2 DEF d, e
<1> QED
  BY <1>4, <1>5, <1>6, <1>7

(* What a chunk leaves its reader with.                                    *)
LEMMA ChunkReadMore ==
    ASSUME NEW m \in Message, NEW c \in Chunk, c.kind \in {"chunk", "usage"},
           NEW r, r = ReadChunk(m, c)
    PROVE  /\ r \in Message
           /\ r.slots = SlotsAfter(m, c)
           /\ r.got = m.got \o Pieces(m, c)
           /\ r.reason = IF c.finish # "" THEN c.finish ELSE m.reason
<1>1. r = [Opened(m) EXCEPT !.slots = SlotsAfter(m, c),
                            !.got = @ \o Pieces(m, c),
                            !.reason = IF c.finish # "" THEN c.finish ELSE @]
  BY DEF ReadChunk
<1>2. Opened(m) \in Message /\ Opened(m).got = m.got /\ Opened(m).reason = m.reason
  BY MessageFields DEF Opened, Message
<1>3. r \in Message
  BY ReadChunkType
<1>4. /\ r.slots = SlotsAfter(m, c)
      /\ r.got = Opened(m).got \o Pieces(m, c)
      /\ r.reason = IF c.finish # "" THEN c.finish ELSE Opened(m).reason
  <2> DEFINE o == Opened(m)
             sl == SlotsAfter(m, c)
             g == Opened(m).got \o Pieces(m, c)
             q == IF c.finish # "" THEN c.finish ELSE Opened(m).reason
  <2>1. o \in Message /\ r = [o EXCEPT !.slots = sl, !.got = g, !.reason = q]
    BY <1>1, <1>2
  <2> HIDE DEF o, sl, g, q
  <2>2. r.slots = sl /\ r.got = g /\ r.reason = q
    BY <2>1 DEF Message
  <2> QED
    BY <2>2 DEF sl, g, q
<1> QED
  BY <1>2, <1>3, <1>4

(* The calls a chunk announces: none, one or two.                          *)
LEMMA ContentAnnounces ==
    ASSUME NEW m, NEW c, NEW x, NEW y
    PROVE  /\ c.calls = <<>> => Announced(c) = {} /\ SlotsAfter(m, c) = m.slots
           /\ c.calls = <<x>> /\ x.call = 0 =>
                 Announced(c) = {} /\ SlotsAfter(m, c) = m.slots
           /\ c.calls = <<x>> /\ x.call # 0 => Announced(c) = {<<x.index, x.call>>}
           /\ c.calls = <<x, y>> /\ x.call # 0 /\ y.call # 0 =>
                 Announced(c) = {<<x.index, x.call>>, <<y.index, y.call>>}
<1>1. Announced(c) = {} => SlotsAfter(m, c) = m.slots
  BY DEF SlotsAfter
<1>2. c.calls = <<>> => Entries(c) = {}
  BY DEF Entries
<1>3. c.calls = <<x>> => Entries(c) = {x}
  BY DEF Entries
<1>4. c.calls = <<x, y>> => Entries(c) = {x, y}
  BY DEF Entries
<1> QED
  BY <1>1, <1>2, <1>3, <1>4 DEF Announced

(* Announcing calls of new indexes adds them to what the indexes stand for.*)
LEMMA SlotsAdded ==
    ASSUME NEW m, NEW c, \A s \in m.slots, a \in Announced(c) : s[1] # a[1]
    PROVE  SlotsAfter(m, c) = m.slots \cup Announced(c)
BY DEF SlotsAfter

-----------------------------------------------------------------------------
(* What a read of an OpenAI backend brings.                                *)

(* What the indexes of an OpenAI backend stand for after n calls.          *)
Numbered(n) == {<<k - 1, k>> : k \in 1..n}

(* Each index stands for one owner; the slots that stand for calls.        *)
Functional(slots) == \A s, t \in slots : s[1] = t[1] => s = t
CallSlots(m) == {s \in m.slots : s[2] # 0}

(* What a direct client m of the backend u takes the indexes for.          *)
SaidFits(p, u, m) ==
    /\ Functional(m.slots)
    /\ p = "openai" => m.slots = Numbered(u.calls)
    /\ p = "anthropic" =>
          /\ \A s \in m.slots : s[1] < u.index \/ (s[1] = u.index /\ u.block # "")
          /\ m.open = IF u.block = "" THEN {} ELSE {u.index}
          /\ u.block = "text" => <<u.index, 0>> \in m.slots
          /\ u.block = "tool_use" => u.calls > 0 /\ <<u.index, u.calls>> \in m.slots

(* A read takes backend and direct client from u and m to v and r and      *)
(* decodes to events that bring another client what it brought this one.   *)
Conveyed(p, u, m, v, r, events) ==
    /\ SaidFits(p, v, r)
    /\ PendingFits(v, r, events)
    /\ r.got = m.got \o Owed(r, events)
    /\ CallSlots(r) = CallSlots(m) \cup Starts(events)
    /\ r.reason # m.reason => Brings(events, "stop")
    /\ Unending(u.phase) \/ (r.got = m.got /\ r.reason = m.reason)

(* An index that stands for one owner stands for that.                     *)
LEMMA OwnerIs ==
    ASSUME NEW m \in Message, Functional(m.slots), NEW i, NEW o,
           <<i, o>> \in m.slots
    PROVE  OwnerAt(m, i) = o
<1> DEFINE x == CHOOSE s \in m.slots : s[1] = i
<1>1. \E s \in m.slots : s[1] = i
  <2>1. <<i, o>>[1] = i
    OBVIOUS
  <2> QED
    BY <2>1
<1>2. x \in m.slots /\ x[1] = i
  BY <1>1
<1>3. x = <<i, o>>
  <2>1. <<i, o>>[1] = i
    OBVIOUS
  <2> HIDE DEF x
  <2> QED
    BY <1>2, <2>1 DEF Functional
<1>4. OwnerAt(m, i) = x[2]
  BY <1>1 DEF OwnerAt
<1> HIDE DEF x
<1> QED
  BY <1>3, <1>4

(* Two readers with the same slots take an index for the same.             *)
LEMMA SameOwner ==
    ASSUME NEW m, NEW r, m.slots = r.slots, NEW i
    PROVE  OwnerAt(m, i) = OwnerAt(r, i)
BY DEF OwnerAt

(* The calls of an OpenAI backend.                                         *)
LEMMA NumberedCalls ==
    ASSUME NEW n \in Nat
    PROVE  /\ Functional(Numbered(n))
           /\ \A s \in Numbered(n) : s[1] \in Int /\ s[1] < n /\ s[2] # 0
           /\ \A k \in 1..n : <<k - 1, k>> \in Numbered(n)
           /\ Numbered(n + 1) = Numbered(n) \cup {<<n, n + 1>>}
           /\ Numbered(n + 2) = Numbered(n) \cup {<<n, n + 1>>, <<n + 1, n + 2>>}
<1>1. \A k, l \in 1..n : k - 1 = l - 1 => k = l
  OBVIOUS
<1>2. Functional(Numbered(n))
  BY <1>1 DEF Functional, Numbered
<1>3. \A s \in Numbered(n) : s[1] \in Int /\ s[1] < n /\ s[2] # 0
  BY DEF Numbered
<1>4. \A k \in 1..n : <<k - 1, k>> \in Numbered(n)
  BY DEF Numbered
<1>5. ASSUME NEW j \in Nat PROVE Numbered(j + 1) = Numbered(j) \cup {<<j, j + 1>>}
  <2>1. 1..(j + 1) = 1..j \cup {j + 1}
    OBVIOUS
  <2>2. (j + 1) - 1 = j
    OBVIOUS
  <2> QED
    BY <2>1, <2>2 DEF Numbered
<1>6. Numbered(n + 2) = Numbered(n + 1) \cup {<<n + 1, n + 2>>}
  <2>1. n + 1 \in Nat /\ (n + 1) + 1 = n + 2
    OBVIOUS
  <2> QED
    BY <1>5, <2>1
<1> QED
  BY <1>2, <1>3, <1>4, <1>5, <1>6

(* The chunks an OpenAI backend with handled quirks sends before [DONE].   *)
OnlyBegins(u, s) == s.frame = BareChunk("chunk") /\ s.next.calls = u.calls
OneText(u, s) ==
    \E t \in Nat \ {0} : s.frame = TextChunk(t) /\ s.next.calls = u.calls
IsCallEntry(e, n) == e.call = n + 1 /\ e.index = n /\ e.args = 0
OneCall(u, s) ==
    \E e : /\ IsCallEntry(e, u.calls)
           /\ s.frame = CallChunk(e) /\ s.next.calls = u.calls + 1
TwoCalls(u, s) ==
    \E e, f : /\ IsCallEntry(e, u.calls) /\ IsCallEntry(f, u.calls + 1)
              /\ s.frame = [BareChunk("chunk") EXCEPT !.calls = <<e, f>>]
              /\ s.next.calls = u.calls + 2
SomeArguments(u, s) ==
    \E t \in Nat \ {0}, k \in 1..u.calls :
       /\ k = u.calls \/ "interleaved_tools" \in u.quirks
       /\ s.frame = CallChunk(Arguments(k, t)) /\ s.next.calls = u.calls
TheReason(u, s) ==
    /\ u.phase # "new"
    /\ \E q \in Reasons \ {""} : s.frame = FinishChunk(q)
    /\ s.next.calls = u.calls
TheUsage(u, s) ==
    s.frame = BareChunk("usage") /\ s.next.calls = u.calls /\ ~Unending(u.phase)

(* A backend whose quirks OpenAI clients handle sends one of these before  *)
(* [DONE]; what it sends is content while it has given no reason, and      *)
(* usage after.                                                            *)
LEMMA HandledChunks ==
    ASSUME NEW u \in Backend, u.quirks \subseteq Handled("openai"),
           NEW s \in OpenAISends(u), s.frame.kind # "done"
    PROVE  /\ s.next.quirks = u.quirks
           /\ \/ Unending(u.phase) /\
                    \/ OnlyBegins(u, s) \/ OneText(u, s) \/ OneCall(u, s)
                    \/ TwoCalls(u, s) \/ SomeArguments(u, s) \/ TheReason(u, s)
              \/ TheUsage(u, s)
<1>1. /\ "completions" \notin u.quirks /\ "args_with_start" \notin u.quirks
      /\ "finish_first" \notin u.quirks /\ "finish_with_text" \notin u.quirks
  BY DEF Handled
<1>2. /\ u.calls \in Nat /\ u.items \in Nat /\ u.items + 1 \in Nat \ {0}
  BY BackendNumbers
<1>3. ASSUME NEW t \in OpenAITexts(u) PROVE OneText(u, t)
  <2>1. t = Send(TextChunk(u.items + 1), WithItem(u))
    BY <1>1, <1>3 DEF OpenAITexts, When, AnswerChunk
  <2>2. t.frame = TextChunk(u.items + 1) /\ t.next.calls = u.calls
    BY <2>1, BackendCalls DEF Send
  <2> QED
    BY <1>2, <2>2 DEF OneText
<1>4. ASSUME NEW t \in OpenAICalls(u) PROVE OneCall(u, t) \/ TwoCalls(u, t)
  <2> DEFINE one == Announce(u.calls + 1, 0)
             two == Announce(u.calls + 2, 0)
             empty == [one EXCEPT !.function = FALSE]
             pair == [BareChunk("chunk") EXCEPT !.calls = <<one, two>>]
  <2>1. \/ t = Send(CallChunk(one), WithCalls(u, 1))
        \/ t = Send(CallChunk(empty), WithCalls(u, 1))
        \/ t = Send(pair, WithCalls(u, 2))
    BY <1>1, <1>4 DEF OpenAICalls, When, Quirk
  <2>2. /\ WithCalls(u, 1).calls = u.calls + 1
        /\ WithCalls(u, 2).calls = u.calls + 2
    BY BackendCalls
  <2>3. /\ IsCallEntry(one, u.calls) /\ IsCallEntry(empty, u.calls)
        /\ IsCallEntry(two, u.calls + 1)
    <3>1. /\ one.index = (u.calls + 1) - 1 /\ one.call = u.calls + 1 /\ one.args = 0
          /\ two.index = (u.calls + 2) - 1 /\ two.call = u.calls + 2 /\ two.args = 0
          /\ empty.index = one.index /\ empty.call = one.call /\ empty.args = one.args
      BY DEF Announce
    <3>2. /\ (u.calls + 1) - 1 = u.calls /\ (u.calls + 2) - 1 = u.calls + 1
          /\ (u.calls + 1) + 1 = u.calls + 2
      BY <1>2
    <3> HIDE DEF one, two, empty
    <3> QED
      BY <3>1, <3>2 DEF IsCallEntry
  <2> HIDE DEF one, two, empty
  <2>4. t = Send(CallChunk(one), WithCalls(u, 1)) => OneCall(u, t)
    BY <2>2, <2>3 DEF Send, OneCall
  <2>5. t = Send(CallChunk(empty), WithCalls(u, 1)) => OneCall(u, t)
    BY <2>2, <2>3 DEF Send, OneCall
  <2>6. t = Send(pair, WithCalls(u, 2)) => TwoCalls(u, t)
    BY <2>2, <2>3 DEF Send, TwoCalls
  <2> QED
    BY <2>1, <2>4, <2>5, <2>6
<1>5. ASSUME NEW t \in OpenAIArguments(u) PROVE SomeArguments(u, t)
  <2>1. PICK k \in 1..u.calls :
           /\ k = u.calls \/ "interleaved_tools" \in u.quirks
           /\ t = Send(CallChunk(Arguments(k, u.items + 1)), WithItem(u))
    BY <1>5 DEF OpenAIArguments, When
  <2>2. /\ t.frame = CallChunk(Arguments(k, u.items + 1))
        /\ t.next.calls = u.calls
    BY <2>1, BackendCalls DEF Send
  <2> QED
    BY <1>2, <2>1, <2>2 DEF SomeArguments
<1>6. ASSUME u.phase # "new", NEW t \in OpenAIFinishes(u) PROVE TheReason(u, t)
  <2>1. PICK q \in FinishReasonsOf(u) : t = Send(FinishChunk(q), Finished(u))
    BY <1>1, <1>6 DEF OpenAIFinishes, Quirk, When
  <2>2. q \in Reasons \ {""}
    BY DEF FinishReasonsOf, Quirk, When, Reasons, FinishReasons
  <2>3. t.frame = FinishChunk(q) /\ t.next.calls = u.calls
    BY <2>1, BackendCalls DEF Send
  <2> QED
    BY <1>6, <2>2, <2>3 DEF TheReason
<1>7. ASSUME s = Send(BareChunk("chunk"), [u EXCEPT !.phase = "open"])
      PROVE  OnlyBegins(u, s)
  BY <1>7, BackendCalls DEF Send, OnlyBegins
<1>8. ASSUME s = Send(BareChunk("usage"), [u EXCEPT !.phase = "counted"])
      PROVE  s.frame = BareChunk("usage") /\ s.next.calls = u.calls
  BY <1>8, BackendCalls DEF Send
<1>9. ASSUME s = Send(DoneChunk, Ended(u)) PROVE FALSE
  BY <1>9, ChunkFields DEF Send, DoneChunk
<1>10. CASE u.phase = "new"
  <2>1. \/ s = Send(BareChunk("chunk"), [u EXCEPT !.phase = "open"])
        \/ s \in OpenAITexts(u) \cup OpenAICalls(u) \cup OpenAIArguments(u)
    BY <1>1, <1>10 DEF OpenAISends, OpenAIContent, Quirk, When
  <2> QED
    BY <1>3, <1>4, <1>5, <1>7, <1>10, <2>1, OpenAIGoesOn DEF Unending
<1>11. CASE u.phase = "open"
  <2>1. \/ s \in OpenAITexts(u) \cup OpenAICalls(u) \cup OpenAIArguments(u)
        \/ s \in OpenAIFinishes(u)
    BY <1>11 DEF OpenAISends, OpenAIContent
  <2> QED
    BY <1>3, <1>4, <1>5, <1>6, <1>11, <2>1, OpenAIGoesOn DEF Unending
<1>12. CASE u.phase \notin {"new", "open"}
  <2>1. \/ s = Send(BareChunk("usage"), [u EXCEPT !.phase = "counted"])
        \/ s = Send(DoneChunk, Ended(u))
    BY <1>12 DEF OpenAISends
  <2> QED
    BY <1>8, <1>9, <1>12, <2>1, OpenAIGoesOn DEF Unending, TheUsage
<1> QED
  BY <1>10, <1>11, <1>12

(* What the chunks of HandledChunks hold.                                  *)
LEMMA ChunkHolds ==
    /\ \A k : /\ BareChunk(k).text = 0 /\ BareChunk(k).plain = 0
              /\ BareChunk(k).calls = <<>> /\ BareChunk(k).finish = ""
              /\ BareChunk(k).kind = k
    /\ \A t : /\ TextChunk(t).text = t /\ TextChunk(t).plain = 0
              /\ TextChunk(t).calls = <<>> /\ TextChunk(t).finish = ""
              /\ TextChunk(t).kind = "chunk"
    /\ \A e : /\ CallChunk(e).text = 0 /\ CallChunk(e).plain = 0
              /\ CallChunk(e).calls = <<e>> /\ CallChunk(e).finish = ""
              /\ CallChunk(e).kind = "chunk"
    /\ \A q : /\ FinishChunk(q).text = 0 /\ FinishChunk(q).plain = 0
              /\ FinishChunk(q).calls = <<>> /\ FinishChunk(q).finish = q
              /\ FinishChunk(q).kind = "chunk"
    /\ \A e, f : LET c == [BareChunk("chunk") EXCEPT !.calls = <<e, f>>]
                 IN  /\ c.text = 0 /\ c.plain = 0 /\ c.calls = <<e, f>>
                     /\ c.finish = "" /\ c.kind = "chunk"
BY DEF BareChunk, TextChunk, CallChunk, FinishChunk

(* A read that brings nothing, and one that brings one reason.             *)
LEMMA NothingConveyed ==
    ASSUME NEW p, NEW u, NEW m \in Message, NEW v, NEW r \in Message,
           SaidFits(p, v, r), r.got = m.got, CallSlots(r) = CallSlots(m),
           NEW events, NEW x, ~Carries(x), EventFits(r, x),
           events \in {<<>>, <<x>>},
           r.reason = m.reason \/ (Unending(u.phase) /\ events = <<x>> /\ x.type = "stop")
    PROVE  Conveyed(p, u, m, v, r, events)
<1>1. Conveys(v, r, events, <<>>, {})
  BY NoPiece
<1>2. m.got \in Seq(Piece)
  BY MessageFields
<1>3. r.got = m.got \o <<>>
  BY <1>2, ConcatEmptySeq
<1>4. CallSlots(r) = CallSlots(m) \cup {}
  OBVIOUS
<1>5. r.reason # m.reason => Brings(events, "stop")
  BY OneEvent
<1> QED
  BY <1>1, <1>3, <1>4, <1>5 DEF Conveys, Conveyed

(* A chunk that only begins, or says how much was used, brings nothing.    *)
LEMMA EmptyChunkConveys ==
    ASSUME NEW u \in Backend, NEW v \in Backend, NEW m \in Message,
           SaidFits("openai", u, m), v.calls = u.calls,
           NEW b \in BOOLEAN, NEW c \in Chunk,
           c = BareChunk("chunk") \/ (b /\ c = BareChunk("usage")),
           NEW r, r = ReadChunk(m, c)
    PROVE  Conveyed("openai", u, m, v, r, DecodeChunk(b, c))
<1>1. /\ c.text = 0 /\ c.plain = 0 /\ c.calls = <<>> /\ c.finish = ""
      /\ c.kind \in {"chunk", "usage"}
  <2>1. PICK k \in {"chunk", "usage"} : c = BareChunk(k)
    OBVIOUS
  <2> QED
    BY <2>1, ChunkHolds
<1>2. /\ r \in Message /\ r.slots = m.slots /\ r.reason = m.reason
      /\ r.got = m.got \o <<>>
  <2>1. /\ r \in Message /\ r.slots = SlotsAfter(m, c)
        /\ r.got = m.got \o Pieces(m, c)
        /\ r.reason = IF c.finish # "" THEN c.finish ELSE m.reason
    BY <1>1, ChunkReadMore
  <2>2. SlotsAfter(m, c) = m.slots
    BY <1>1, ContentAnnounces
  <2>3. Pieces(m, c) = <<>>
    BY <1>1, ContentPieces
  <2> QED
    BY <1>1, <2>1, <2>2, <2>3
<1>3. r.got = m.got
  BY <1>2, MessageFields, ConcatEmptySeq
<1>4. SaidFits("openai", v, r)
  BY <1>2 DEF SaidFits
<1>5. DecodeChunk(b, c) \in {<<>>, <<Plain("stream_start")>>, <<Plain("usage")>>}
  <2>1. CASE c = BareChunk("chunk")
    <3>1. c.kind = "chunk"
      BY <2>1, ChunkHolds
    <3> QED
      BY <1>1, <3>1, ContentDecoded
  <2>2. CASE b /\ c = BareChunk("usage")
    BY <2>2, ChunkEvents, ChunkHolds
  <2> QED
    BY <2>1, <2>2
<1>6. \A t \in {"stream_start", "usage"} :
         ~Carries(Plain(t)) /\ EventFits(r, Plain(t))
  BY EventKinds DEF Carries, EventFits
<1>7. PICK t \in {"stream_start", "usage"} :
         DecodeChunk(b, c) \in {<<>>, <<Plain(t)>>}
  BY <1>5
<1> QED
  BY <1>2, <1>3, <1>4, <1>6, <1>7, NothingConveyed DEF CallSlots

(* The finish chunk brings the reason.                                     *)
LEMMA FinishConveys ==
    ASSUME NEW u \in Backend, NEW v \in Backend, NEW m \in Message,
           SaidFits("openai", u, m), v.calls = u.calls, Unending(u.phase),
           NEW q \in Reasons \ {""}, NEW c \in Chunk, c = FinishChunk(q),
           NEW r, r = ReadChunk(m, c)
    PROVE  Conveyed("openai", u, m, v, r, DecodeChunk(TRUE, c))
<1>1. /\ c.text = 0 /\ c.plain = 0 /\ c.calls = <<>> /\ c.finish = q
      /\ c.kind = "chunk"
  BY ChunkHolds
<1>2. /\ r \in Message /\ r.slots = m.slots /\ r.reason = q
      /\ r.got = m.got \o <<>>
  <2>1. /\ r \in Message /\ r.slots = SlotsAfter(m, c)
        /\ r.got = m.got \o Pieces(m, c)
        /\ r.reason = IF c.finish # "" THEN c.finish ELSE m.reason
    BY <1>1, ChunkReadMore
  <2>2. SlotsAfter(m, c) = m.slots
    BY <1>1, ContentAnnounces
  <2>3. Pieces(m, c) = <<>>
    BY <1>1, ContentPieces
  <2> QED
    BY <1>1, <2>1, <2>2, <2>3
<1>3. r.got = m.got
  BY <1>2, MessageFields, ConcatEmptySeq
<1>4. SaidFits("openai", v, r)
  BY <1>2 DEF SaidFits
<1>5. DecodeChunk(TRUE, c) = <<Stop(q)>>
  BY <1>1, ChunkEvents
<1>6. Stop(q).type = "stop" /\ Stop(q).reason = q
  BY DEF Stop, Plain
<1>7. ~Carries(Stop(q)) /\ EventFits(r, Stop(q))
  BY <1>2, <1>6 DEF Carries, EventFits
<1> QED
  BY <1>2, <1>3, <1>4, <1>5, <1>6, <1>7, NothingConveyed DEF CallSlots

(* A piece of text.                                                        *)
LEMMA TextConveys ==
    ASSUME NEW u \in Backend, NEW v \in Backend, NEW m \in Message,
           SaidFits("openai", u, m), v.calls = u.calls, Unending(u.phase),
           NEW b \in BOOLEAN, NEW t \in Nat \ {0},
           NEW c \in Chunk, c = TextChunk(t),
           NEW r, r = ReadChunk(m, c)
    PROVE  Conveyed("openai", u, m, v, r, DecodeChunk(b, c))
<1>1. /\ c.text = t /\ c.plain = 0 /\ c.calls = <<>> /\ c.finish = ""
      /\ c.kind = "chunk"
  BY ChunkHolds
<1>2. /\ r \in Message /\ r.slots = m.slots /\ r.reason = m.reason
      /\ r.got = m.got \o <<[of |-> 0, text |-> t]>>
  <2>1. /\ r \in Message /\ r.slots = SlotsAfter(m, c)
        /\ r.got = m.got \o Pieces(m, c)
        /\ r.reason = IF c.finish # "" THEN c.finish ELSE m.reason
    BY <1>1, ChunkReadMore
  <2>2. SlotsAfter(m, c) = m.slots
    BY <1>1, ContentAnnounces
  <2>3. t # 0 /\ c.text = t /\ c.plain = 0 /\ c.calls = <<>>
    BY <1>1
  <2>4. Pieces(m, c) = <<[of |-> 0, text |-> c.text]>>
    BY <2>3, ContentPieces
  <2>5. Pieces(m, c) = <<[of |-> 0, text |-> t]>>
    BY <2>3, <2>4
  <2> QED
    BY <1>1, <2>1, <2>2, <2>5
<1>3. SaidFits("openai", v, r)
  BY <1>2 DEF SaidFits
<1> DEFINE x == TextDelta(t)
<1>4. DecodeChunk(b, c) \in {<<x>>, <<Plain("stream_start"), x>>}
  BY <1>1, ContentDecoded
<1>5. x.type = "text_delta" /\ x.text = t
  BY DEF TextDelta, Plain
<1> HIDE DEF x
<1>6. Carries(x) /\ EventFits(r, x) /\ EventPiece(r, x) = [of |-> 0, text |-> t]
  BY <1>5 DEF Carries, EventFits, EventPiece
<1>7. Conveys(v, r, DecodeChunk(b, c), <<[of |-> 0, text |-> t]>>, {})
  BY <1>4, <1>5, <1>6, OnePiece
<1>8. CallSlots(r) = CallSlots(m) \cup {}
  BY <1>2 DEF CallSlots
<1> QED
  BY <1>2, <1>3, <1>7, <1>8 DEF Conveyed, Conveys

(* A fragment of the arguments of a call.                                  *)
LEMMA ArgumentsConvey ==
    ASSUME NEW u \in Backend, NEW v \in Backend, NEW m \in Message,
           SaidFits("openai", u, m), v.calls = u.calls, v.quirks = u.quirks,
           Unending(u.phase),
           NEW b \in BOOLEAN, NEW t \in Nat \ {0}, NEW k \in 1..u.calls,
           k = u.calls \/ "interleaved_tools" \in u.quirks,
           NEW c \in Chunk, c = CallChunk(Arguments(k, t)),
           NEW r, r = ReadChunk(m, c)
    PROVE  Conveyed("openai", u, m, v, r, DecodeChunk(b, c))
<1> DEFINE e == Arguments(k, t)
<1>1. e.index = k - 1 /\ e.call = 0 /\ e.args = t
  BY DEF Arguments
<1> HIDE DEF e
<1>2. /\ c.text = 0 /\ c.plain = 0 /\ c.calls = <<e>> /\ c.finish = ""
      /\ c.kind = "chunk"
  BY ChunkHolds DEF e
<1>3. /\ r \in Message /\ r.slots = m.slots /\ r.reason = m.reason
      /\ r.got = m.got \o <<EntryPiece(m, e)>>
  <2>1. /\ r \in Message /\ r.slots = SlotsAfter(m, c)
        /\ r.got = m.got \o Pieces(m, c)
        /\ r.reason = IF c.finish # "" THEN c.finish ELSE m.reason
    BY <1>2, ChunkReadMore
  <2>2. SlotsAfter(m, c) = m.slots
    BY <1>1, <1>2, ContentAnnounces
  <2>3. Pieces(m, c) = <<EntryPiece(m, e)>>
    BY <1>2, ContentPieces
  <2> QED
    BY <1>2, <2>1, <2>2, <2>3
<1>4. <<k - 1, k>> \in m.slots /\ k # 0
  <2>1. u.calls \in Nat /\ m.slots = Numbered(u.calls)
    BY BackendNumbers DEF SaidFits
  <2> QED
    BY <2>1, NumberedCalls
<1>5. OwnerAt(m, k - 1) = k /\ OwnerAt(r, k - 1) = k
  BY <1>3, <1>4, OwnerIs, SameOwner DEF SaidFits
<1>6. SaidFits("openai", v, r)
  BY <1>3 DEF SaidFits
<1> DEFINE x == ToolCallDelta(t, k - 1)
<1>7. ToolCallEvent(e) = x
  BY <1>1 DEF ToolCallEvent
<1>8. DecodeChunk(b, c) \in {<<x>>, <<Plain("stream_start"), x>>}
  BY <1>2, <1>7, ContentDecoded
<1>9. x.type = "tool_call_delta" /\ x.text = t /\ x.index = k - 1
  BY DEF ToolCallDelta, Plain
<1> HIDE DEF x
<1>10. EntryPiece(m, e) = [of |-> k, text |-> t]
  BY <1>1, <1>5 DEF EntryPiece
<1>11. Carries(x) /\ EventFits(r, x) /\ EventPiece(r, x) = [of |-> k, text |-> t]
  BY <1>3, <1>4, <1>5, <1>9 DEF Carries, EventFits, EventPiece
<1>12. Conveys(v, r, DecodeChunk(b, c), <<[of |-> k, text |-> t]>>, {})
  BY <1>5, <1>8, <1>9, <1>11, OnePiece
<1>13. CallSlots(r) = CallSlots(m) \cup {}
  BY <1>3 DEF CallSlots
<1> QED
  BY <1>3, <1>6, <1>10, <1>12, <1>13 DEF Conveyed, Conveys

(* What the entry of a new call is to a reader and to a decoder.           *)
LEMMA NewCall ==
    ASSUME NEW n \in Nat, NEW e, IsCallEntry(e, n), NEW m, NEW r,
           NEW x, x = ToolCallEvent(e)
    PROVE  /\ EntryPiece(m, e) = [of |-> n + 1, text |-> 0]
           /\ x.type = "tool_call_start" /\ x.call = n + 1 /\ x.index = n
           /\ Carries(x) /\ EventPiece(r, x) = [of |-> n + 1, text |-> 0]
           /\ <<n, n + 1>> \in r.slots => EventFits(r, x)
<1>1. e.call = n + 1 /\ e.index = n /\ e.args = 0 /\ n + 1 # 0
  BY DEF IsCallEntry
<1>2. EntryPiece(m, e) = [of |-> n + 1, text |-> 0]
  BY <1>1 DEF EntryPiece
<1>3. x = ToolCallStart(n + 1, n)
  BY <1>1 DEF ToolCallEvent
<1>4. /\ x.type = "tool_call_start" /\ x.call = n + 1 /\ x.index = n /\ x.text = 0
  BY <1>3 DEF ToolCallStart, Plain
<1>5. Carries(x) /\ (<<n, n + 1>> \in r.slots => EventFits(r, x))
  BY <1>1, <1>4 DEF Carries, EventFits
<1>6. EventPiece(r, x) = [of |-> n + 1, text |-> 0]
  BY <1>4 DEF EventPiece
<1> QED
  BY <1>2, <1>4, <1>5, <1>6

(* The slots of calls are added with the calls.                            *)
LEMMA CallsAdded ==
    ASSUME NEW m, NEW r, NEW A, r.slots = m.slots \cup A, \A a \in A : a[2] # 0
    PROVE  CallSlots(r) = CallSlots(m) \cup A
BY DEF CallSlots

(* A call is announced.                                                    *)
LEMMA OneCallConveys ==
    ASSUME NEW u \in Backend, NEW v \in Backend, NEW m \in Message,
           SaidFits("openai", u, m), v.calls = u.calls + 1, Unending(u.phase),
           NEW b \in BOOLEAN, NEW e, IsCallEntry(e, u.calls),
           NEW c \in Chunk, c = CallChunk(e),
           NEW r, r = ReadChunk(m, c)
    PROVE  Conveyed("openai", u, m, v, r, DecodeChunk(b, c))
<1> DEFINE n == u.calls
           p == [of |-> n + 1, text |-> 0]
           A == {<<n, n + 1>>}
           x == ToolCallEvent(e)
<1>1. n \in Nat
  BY BackendNumbers
<1>2. /\ c.text = 0 /\ c.plain = 0 /\ c.calls = <<e>> /\ c.finish = ""
      /\ c.kind = "chunk"
  BY ChunkHolds
<1>3. /\ EntryPiece(m, e) = p
      /\ x.type = "tool_call_start" /\ x.call = n + 1 /\ x.index = n
      /\ Carries(x) /\ EventPiece(r, x) = p
      /\ <<n, n + 1>> \in r.slots => EventFits(r, x)
  BY <1>1, NewCall
<1>4. DecodeChunk(b, c) \in {<<x>>, <<Plain("stream_start"), x>>}
  BY <1>2, ContentDecoded
<1>5. e.call # 0 /\ e.index = n /\ e.call = n + 1
  BY <1>1 DEF IsCallEntry
<1> HIDE DEF x, p
<1>6. m.slots = Numbered(n)
  BY DEF SaidFits
<1> HIDE DEF n
<1>7. Announced(c) = A
  BY <1>2, <1>5, ContentAnnounces
<1>8. SlotsAfter(m, c) = Numbered(n) \cup A
  <2>1. \A s \in Numbered(n) : s[1] \in Int /\ s[1] < n
    BY <1>1, NumberedCalls
  <2>2. \A s \in m.slots, a \in Announced(c) : s[1] # a[1]
    <3>1. \A a \in A : a[1] = n
      OBVIOUS
    <3> QED
      BY <1>1, <1>6, <1>7, <2>1, <3>1
  <2>3. SlotsAfter(m, c) = m.slots \cup Announced(c)
    BY <2>2, SlotsAdded
  <2> QED
    BY <1>6, <1>7, <2>3
<1>9. Pieces(m, c) = <<p>>
  <2>1. Pieces(m, c) = <<EntryPiece(m, e)>>
    BY <1>2, ContentPieces
  <2> QED
    BY <1>3, <2>1
<1>10. /\ r \in Message /\ r.slots = Numbered(n) \cup A /\ r.reason = m.reason
      /\ r.got = m.got \o <<p>>
  <2>1. /\ r \in Message /\ r.slots = SlotsAfter(m, c)
        /\ r.got = m.got \o Pieces(m, c)
        /\ r.reason = IF c.finish # "" THEN c.finish ELSE m.reason
    BY <1>2, ChunkReadMore
  <2> QED
    BY <1>2, <1>8, <1>9, <2>1
<1>11. r.slots = Numbered(n + 1) /\ Functional(r.slots)
  <2>1. Numbered(n + 1) = Numbered(n) \cup A
    BY <1>1, NumberedCalls
  <2>2. n + 1 \in Nat
    BY <1>1
  <2>3. Functional(Numbered(n + 1))
    BY <2>2, NumberedCalls
  <2> QED
    BY <1>10, <2>1, <2>3
<1>12. v.calls = n + 1
  BY DEF n
<1>13. SaidFits("openai", v, r)
  BY <1>11, <1>12 DEF SaidFits
<1>14. EventFits(r, x)
  BY <1>3, <1>10
<1>15. Conveys(v, r, DecodeChunk(b, c), <<p>>, A)
  <2>1. <<x.index, x.call>> = <<n, n + 1>>
    BY <1>3
  <2>2. Conveys(v, r, DecodeChunk(b, c), <<EventPiece(r, x)>>,
                   IF x.type = "tool_call_start" THEN {<<x.index, x.call>>} ELSE {})
    BY <1>3, <1>4, <1>12, <1>14, OnePiece
  <2> QED
    BY <1>3, <2>1, <2>2
<1>16. CallSlots(r) = CallSlots(m) \cup A
  <2>1. \A a \in A : a[2] # 0
    BY <1>1
  <2> HIDE DEF A
  <2> QED
    BY <1>6, <1>10, <2>1, CallsAdded
<1> HIDE DEF A
<1> QED
  BY <1>10, <1>13, <1>15, <1>16 DEF Conveyed, Conveys

(* Two calls are announced.                                                *)
LEMMA TwoCallsConvey ==
    ASSUME NEW u \in Backend, NEW v \in Backend, NEW m \in Message,
           SaidFits("openai", u, m), v.calls = u.calls + 2, Unending(u.phase),
           NEW b \in BOOLEAN, NEW e, IsCallEntry(e, u.calls),
           NEW f, IsCallEntry(f, u.calls + 1),
           NEW c \in Chunk, c = [BareChunk("chunk") EXCEPT !.calls = <<e, f>>],
           NEW r, r = ReadChunk(m, c)
    PROVE  Conveyed("openai", u, m, v, r, DecodeChunk(b, c))
<1> DEFINE n == u.calls
           k == u.calls + 1
           p == [of |-> n + 1, text |-> 0]
           q == [of |-> k + 1, text |-> 0]
           A == {<<n, n + 1>>, <<k, k + 1>>}
           x == ToolCallEvent(e)
           y == ToolCallEvent(f)
<1>1. n \in Nat /\ k \in Nat /\ k = n + 1 /\ k + 1 = n + 2
  BY BackendNumbers
<1>2. /\ c.text = 0 /\ c.plain = 0 /\ c.calls = <<e, f>> /\ c.finish = ""
      /\ c.kind = "chunk"
  BY DEF BareChunk
<1>3. /\ EntryPiece(m, e) = p
      /\ x.type = "tool_call_start" /\ x.call = n + 1 /\ x.index = n
      /\ Carries(x) /\ EventPiece(r, x) = p
      /\ <<n, n + 1>> \in r.slots => EventFits(r, x)
  BY <1>1, NewCall
<1>4. IsCallEntry(f, k)
  OBVIOUS
<1>5. v.calls = n + 2
  OBVIOUS
<1> HIDE DEF k
<1>6. /\ EntryPiece(m, f) = q
      /\ y.type = "tool_call_start" /\ y.call = k + 1 /\ y.index = k
      /\ Carries(y) /\ EventPiece(r, y) = q
      /\ <<k, k + 1>> \in r.slots => EventFits(r, y)
  BY <1>1, <1>4, NewCall
<1>7. DecodeChunk(b, c) \in {<<x, y>>, <<Plain("stream_start"), x, y>>}
  BY <1>2, ContentDecoded
<1>8. /\ e.call # 0 /\ e.index = n /\ e.call = n + 1
      /\ f.call # 0 /\ f.index = k /\ f.call = k + 1
  BY <1>1, <1>4 DEF IsCallEntry
<1> HIDE DEF x, y, p, q
<1>9. m.slots = Numbered(n)
  BY DEF SaidFits
<1>10. v.calls = n + 2
  BY <1>5
<1> HIDE DEF n
<1>11. Announced(c) = A
  <2>1. Announced(c) = {<<e.index, e.call>>, <<f.index, f.call>>}
    BY <1>2, <1>8, ContentAnnounces
  <2> QED
    BY <1>8, <2>1
<1>12. SlotsAfter(m, c) = Numbered(n) \cup A
  <2>1. \A s \in Numbered(n) : s[1] \in Int /\ s[1] < n
    BY <1>1, NumberedCalls
  <2>2. \A s \in m.slots, a \in Announced(c) : s[1] # a[1]
    <3>1. \A a \in A : a[1] \in {n, k}
      OBVIOUS
    <3> QED
      BY <1>1, <1>9, <1>11, <2>1, <3>1
  <2>3. SlotsAfter(m, c) = m.slots \cup Announced(c)
    BY <2>2, SlotsAdded
  <2> QED
    BY <1>9, <1>11, <2>3
<1>13. Pieces(m, c) = <<p, q>>
  <2>1. Pieces(m, c) = <<EntryPiece(m, e), EntryPiece(m, f)>>
    BY <1>2, ContentPieces
  <2> QED
    BY <1>3, <1>6, <2>1
<1>14. /\ r \in Message /\ r.slots = Numbered(n) \cup A /\ r.reason = m.reason
       /\ r.got = m.got \o <<p, q>>
  <2>1. /\ r \in Message /\ r.slots = SlotsAfter(m, c)
        /\ r.got = m.got \o Pieces(m, c)
        /\ r.reason = IF c.finish # "" THEN c.finish ELSE m.reason
    BY <1>2, ChunkReadMore
  <2> QED
    BY <1>2, <1>12, <1>13, <2>1
<1>15. r.slots = Numbered(n + 2) /\ Functional(r.slots)
  <2>1. Numbered(n + 2) = Numbered(n) \cup {<<n, n + 1>>, <<n + 1, n + 2>>}
    BY <1>1, NumberedCalls
  <2>2. n + 2 \in Nat
    BY <1>1
  <2>3. Functional(Numbered(n + 2))
    BY <2>2, NumberedCalls
  <2>4. A = {<<n, n + 1>>, <<n + 1, n + 2>>}
    BY <1>1
  <2> QED
    BY <1>14, <2>1, <2>3, <2>4
<1>16. SaidFits("openai", v, r)
  BY <1>10, <1>15 DEF SaidFits
<1>17. EventFits(r, x) /\ EventFits(r, y)
  BY <1>3, <1>6, <1>14
<1>18. Conveys(v, r, DecodeChunk(b, c), <<p, q>>, A)
  <2>1. <<x.index, x.call>> = <<n, n + 1>> /\ <<y.index, y.call>> = <<k, k + 1>>
    BY <1>3, <1>6
  <2>2. y.call = v.calls
    BY <1>1, <1>6, <1>10
  <2>3. Conveys(v, r, DecodeChunk(b, c), <<EventPiece(r, x), EventPiece(r, y)>>,
                {<<x.index, x.call>>, <<y.index, y.call>>})
    BY <1>3, <1>6, <1>7, <1>17, <2>2, TwoPieces
  <2> QED
    BY <1>3, <1>6, <2>1, <2>3
<1>19. r.slots = m.slots \cup A
  BY <1>9, <1>14
<1>20. CallSlots(r) = CallSlots(m) \cup A
  <2>1. \A a \in A : a[2] # 0
    BY <1>1
  <2> HIDE DEF A
  <2> QED
    BY <1>19, <2>1, CallsAdded
<1> HIDE DEF A
<1> QED
  BY <1>14, <1>16, <1>18, <1>20 DEF Conveyed, Conveys

(* An OpenAI backend's next chunk but [DONE].                              *)
LEMMA OpenAIConveys ==
    ASSUME NEW u \in Backend, u.quirks \subseteq Handled("openai"),
           NEW m \in Message, SaidFits("openai", u, m),
           NEW b \in BOOLEAN, b <=> u.phase # "new",
           NEW s \in OpenAISends(u), s.frame.kind # "done"
    PROVE  Conveyed("openai", u, m, s.next, ReadChunk(m, s.frame),
                    DecodeChunk(b, s.frame))
<1> DEFINE c == s.frame
           v == s.next
<1>1. c \in Chunk /\ v \in Backend
  BY OpenAISendsType DEF Moves, Frames
<1>2. /\ v.quirks = u.quirks
      /\ \/ Unending(u.phase) /\
               \/ OnlyBegins(u, s) \/ OneText(u, s) \/ OneCall(u, s)
               \/ TwoCalls(u, s) \/ SomeArguments(u, s) \/ TheReason(u, s)
         \/ TheUsage(u, s)
  BY HandledChunks
<1>3. CASE Unending(u.phase) /\ OnlyBegins(u, s)
  <2>1. c = BareChunk("chunk") /\ v.calls = u.calls
    BY <1>3 DEF OnlyBegins
  <2> HIDE DEF c, v
  <2> QED
    BY <1>1, <2>1, EmptyChunkConveys DEF c, v
<1>4. CASE TheUsage(u, s)
  <2>1. c = BareChunk("usage") /\ v.calls = u.calls /\ b
    BY <1>4 DEF TheUsage, Unending
  <2> HIDE DEF c, v
  <2>2. Conveyed("openai", u, m, v, ReadChunk(m, c), DecodeChunk(b, c))
    BY <1>1, <2>1, EmptyChunkConveys
  <2> QED
    BY <2>2 DEF c, v
<1>5. CASE Unending(u.phase) /\ OneText(u, s)
  <2>1. PICK t \in Nat \ {0} : c = TextChunk(t) /\ v.calls = u.calls
    BY <1>5 DEF OneText
  <2> HIDE DEF c, v
  <2>2. Conveyed("openai", u, m, v, ReadChunk(m, c), DecodeChunk(b, c))
    BY <1>1, <1>5, <2>1, TextConveys
  <2> QED
    BY <2>2 DEF c, v
<1>6. CASE Unending(u.phase) /\ OneCall(u, s)
  <2>1. PICK e : IsCallEntry(e, u.calls) /\ c = CallChunk(e) /\ v.calls = u.calls + 1
    BY <1>6 DEF OneCall
  <2> HIDE DEF c, v
  <2>2. Conveyed("openai", u, m, v, ReadChunk(m, c), DecodeChunk(b, c))
    BY <1>1, <1>6, <2>1, OneCallConveys
  <2> QED
    BY <2>2 DEF c, v
<1>7. CASE Unending(u.phase) /\ TwoCalls(u, s)
  <2>1. PICK e, f : /\ IsCallEntry(e, u.calls) /\ IsCallEntry(f, u.calls + 1)
                    /\ c = [BareChunk("chunk") EXCEPT !.calls = <<e, f>>]
                    /\ v.calls = u.calls + 2
    BY <1>7 DEF TwoCalls
  <2> HIDE DEF c, v
  <2>2. Conveyed("openai", u, m, v, ReadChunk(m, c), DecodeChunk(b, c))
    BY <1>1, <1>7, <2>1, TwoCallsConvey
  <2> QED
    BY <2>2 DEF c, v
<1>8. CASE Unending(u.phase) /\ SomeArguments(u, s)
  <2>1. PICK t \in Nat \ {0}, k \in 1..u.calls :
           /\ k = u.calls \/ "interleaved_tools" \in u.quirks
           /\ c = CallChunk(Arguments(k, t)) /\ v.calls = u.calls
    BY <1>8 DEF SomeArguments
  <2> HIDE DEF c
  <2>2. Conveyed("openai", u, m, v, ReadChunk(m, c), DecodeChunk(b, c))
    BY <1>1, <1>2, <1>8, <2>1, ArgumentsConvey
  <2> QED
    BY <2>2 DEF c, v
<1>9. CASE Unending(u.phase) /\ TheReason(u, s)
  <2>1. PICK q \in Reasons \ {""} : c = FinishChunk(q)
    BY <1>9 DEF TheReason
  <2>2. b = TRUE /\ v.calls = u.calls
    BY <1>9 DEF TheReason
  <2> HIDE DEF c, v
  <2>3. Conveyed("openai", u, m, v, ReadChunk(m, c), DecodeChunk(TRUE, c))
    BY <1>1, <1>9, <2>1, <2>2, FinishConveys
  <2> QED
    BY <2>2, <2>3 DEF c, v
<1> QED
  BY <1>2, <1>3, <1>4, <1>5, <1>6, <1>7, <1>8, <1>9

-----------------------------------------------------------------------------
(* What a read of an Anthropic backend brings.                             *)

(* The frames an Anthropic backend sends before message_stop.              *)
SameBlock(u, s) ==
    /\ s.next.block = u.block /\ s.next.index = u.index /\ s.next.calls = u.calls
BeginsOrPings(u, s) ==
    s.frame \in {BareFrame("message_start"), BareFrame("ping")} /\ SameBlock(u, s)
TextBlock(u, s) ==
    /\ u.block = "" /\ s.frame = BlockStart("text", u.index, 0)
    /\ s.next.block = "text" /\ s.next.index = u.index /\ s.next.calls = u.calls
ToolBlock(u, s) ==
    /\ u.block = "" /\ s.frame = BlockStart("tool_use", u.index, u.calls + 1)
    /\ s.next.block = "tool_use" /\ s.next.index = u.index
    /\ s.next.calls = u.calls + 1
BlockEnds(u, s) ==
    /\ s.frame = BlockStop(u.index)
    /\ s.next.block = "" /\ s.next.index = u.index + 1 /\ s.next.calls = u.calls
BlockGoesOn(u, s) ==
    /\ u.block \in {"text", "tool_use"} /\ SameBlock(u, s)
    /\ \E t \in Nat \ {0} : s.frame = BlockDelta(u.block, u.index, t)
SaysWhy(u, s) ==
    (\E q \in Reasons \ {""} : s.frame = MessageDelta(q)) /\ SameBlock(u, s)

(* What an Anthropic backend sends before message_stop is one of these.    *)
LEMMA HandledFrames ==
    ASSUME NEW u \in Backend, NEW s \in AnthropicSends(u),
           s.frame.kind # "message_stop"
    PROVE  /\ s.next.quirks = u.quirks /\ Unending(u.phase)
           /\ \/ BeginsOrPings(u, s) \/ TextBlock(u, s) \/ ToolBlock(u, s)
              \/ BlockEnds(u, s) \/ BlockGoesOn(u, s) \/ SaysWhy(u, s)
<1>1. s.next.quirks = u.quirks /\ Unending(u.phase)
  BY AnthropicGoesOn
<1>2. u.block \in {"", "text", "tool_use"}
  BY DEF Backend
<1>3. u.items \in Nat /\ u.items + 1 \in Nat \ {0}
  BY BackendNumbers
<1>4. CASE u.phase = "new"
  <2>1. s.frame = BareFrame("message_start") /\ s.next = [u EXCEPT !.phase = "open"]
    BY <1>4 DEF AnthropicSends, Send
  <2>2. SameBlock(u, s)
    BY <2>1 DEF SameBlock, Backend
  <2> QED
    BY <1>1, <2>1, <2>2 DEF BeginsOrPings
<1>5. CASE u.phase = "open"
  <2>1. \/ s = Send(BareFrame("ping"), u)
        \/ u.block = "" /\ s \in AnthropicBlocks(u)
        \/ s \in AnthropicFinishes(u)
        \/ u.block # "" /\ s \in AnthropicInBlock(u)
    BY <1>5 DEF AnthropicSends
  <2>2. ASSUME s = Send(BareFrame("ping"), u) PROVE BeginsOrPings(u, s)
    BY <2>2 DEF BeginsOrPings, Send, SameBlock
  <2>3. ASSUME u.block = "", s \in AnthropicBlocks(u)
        PROVE  TextBlock(u, s) \/ ToolBlock(u, s)
    <3> DEFINE text == [u EXCEPT !.block = "text"]
               tool == [WithCalls(u, 1) EXCEPT !.block = "tool_use"]
    <3>1. s \in {Send(BlockStart("text", u.index, 0), text),
                 Send(BlockStart("tool_use", u.index, u.calls + 1), tool)}
      BY <2>3 DEF AnthropicBlocks, When
    <3>2. text.block = "text" /\ text.index = u.index /\ text.calls = u.calls
      BY DEF Backend
    <3>3. tool.block = "tool_use" /\ tool.index = u.index /\ tool.calls = u.calls + 1
      <4>1. WithCalls(u, 1).index = u.index /\ WithCalls(u, 1).calls = u.calls + 1
        BY DEF Backend, WithCalls
      <4>2. WithCalls(u, 1) \in Backend
        BY BackendMoves
      <4> QED
        BY <4>1, <4>2 DEF Backend
    <3> HIDE DEF text, tool
    <3>4. ASSUME NEW f, NEW v, s = Send(f, v) PROVE s.frame = f /\ s.next = v
      BY <3>4 DEF Send
    <3>5. ASSUME s = Send(BlockStart("text", u.index, 0), text) PROVE TextBlock(u, s)
      <4>1. s.frame = BlockStart("text", u.index, 0) /\ s.next = text
        BY <3>4, <3>5
      <4> QED
        BY <2>3, <3>2, <4>1 DEF TextBlock
    <3>6. ASSUME s = Send(BlockStart("tool_use", u.index, u.calls + 1), tool)
          PROVE  ToolBlock(u, s)
      <4>1. /\ s.frame = BlockStart("tool_use", u.index, u.calls + 1)
            /\ s.next = tool
        BY <3>4, <3>6
      <4> QED
        BY <2>3, <3>3, <4>1 DEF ToolBlock
    <3> QED
      BY <3>1, <3>5, <3>6
  <2>4. ASSUME u.block # "", s \in AnthropicInBlock(u)
        PROVE  BlockEnds(u, s) \/ BlockGoesOn(u, s)
    <3> DEFINE after == [u EXCEPT !.block = "", !.index = @ + 1]
               delta == BlockDelta(u.block, u.index, u.items + 1)
    <3>1. s \in {Send(BlockStop(u.index), after), Send(delta, WithItem(u))}
      BY <2>4 DEF AnthropicInBlock, When
    <3>2. after.block = "" /\ after.index = u.index + 1 /\ after.calls = u.calls
      BY DEF Backend
    <3> HIDE DEF after
    <3>3. ASSUME s = Send(BlockStop(u.index), after) PROVE BlockEnds(u, s)
      <4>1. s.frame = BlockStop(u.index) /\ s.next = after
        BY <3>3 DEF Send
      <4> QED
        BY <3>2, <4>1 DEF BlockEnds
    <3>4. ASSUME s = Send(delta, WithItem(u)) PROVE BlockGoesOn(u, s)
      <4>1. s.frame = delta /\ s.next = WithItem(u)
        BY <3>4 DEF Send
      <4>2. SameBlock(u, s)
        BY <4>1 DEF SameBlock, WithItem, Backend
      <4> QED
        BY <1>2, <1>3, <2>4, <4>1, <4>2 DEF BlockGoesOn
    <3> QED
      BY <3>1, <3>3, <3>4
  <2>5. ASSUME s \in AnthropicFinishes(u) PROVE SaysWhy(u, s)
    <3>1. PICK q \in StopReasonsOf(u) : s = Send(MessageDelta(q), Finished(u))
      BY <2>5 DEF AnthropicFinishes
    <3>2. q \in Reasons \ {""}
      BY <3>1 DEF StopReasonsOf, Quirk, When, Reasons, StopReasons
    <3>3. s.frame = MessageDelta(q) /\ s.next = Finished(u)
      BY <3>1 DEF Send
    <3>4. SameBlock(u, s)
      BY <3>3 DEF SameBlock, Finished, Backend
    <3> QED
      BY <3>2, <3>3, <3>4 DEF SaysWhy
  <2> QED
    BY <1>1, <2>1, <2>2, <2>3, <2>4, <2>5
<1> QED
  BY <1>1, <1>4, <1>5 DEF Unending

(* What a frame does to the message of the client that reads it.           *)
LEMMA BlockStartRead ==
    ASSUME NEW m \in Message, NEW f \in Frame, f.kind = "content_block_start",
           NEW r, r = ReadFrame(m, f)
    PROVE  /\ r \in Message
           /\ r.slots = Assign(m.slots, f.index, f.call)
           /\ r.open = m.open \cup {f.index}
           /\ r.got = m.got \o StartPieces(f) /\ r.reason = m.reason
<1>1. r = [m EXCEPT !.slots = Assign(m.slots, f.index, f.call),
                    !.begun = m.begun + 1,
                    !.open = m.open \cup {f.index},
                    !.got = m.got \o StartPieces(f)]
  BY DEF ReadFrame, Message
<1>2. /\ r.slots = Assign(m.slots, f.index, f.call) /\ r.reason = m.reason
      /\ r.open = m.open \cup {f.index} /\ r.got = m.got \o StartPieces(f)
  BY <1>1 DEF Message
<1> QED
  BY <1>2, ReadFrameType

(* A fragment is read as a piece of its block's owner.                     *)
LEMMA DeltaRead ==
    ASSUME NEW m \in Message, NEW f \in Frame, f.kind = "content_block_delta",
           NEW r, r = ReadFrame(m, f),
           NEW p, p = [of |-> OwnerOf(m, f.index), text |-> f.text]
    PROVE  /\ r \in Message /\ p \in Piece
           /\ r.got = m.got \o <<p>>
           /\ r.slots = m.slots /\ r.open = m.open /\ r.reason = m.reason
<1>1. r = [m EXCEPT !.got = Append(m.got, p)]
  BY DEF ReadFrame, Message
<1>2. p \in Piece
  <2>1. f.index \in Nat /\ f.text \in Nat
    BY DEF Frame
  <2>2. OwnerAt(m, f.index) \in Owners
    BY MessageFields
  <2> QED
    BY <2>1, <2>2 DEF OwnerOf, Piece, Owners
<1>3. /\ r.slots = m.slots /\ r.reason = m.reason
      /\ r.open = m.open /\ r.got = Append(m.got, p)
  BY <1>1 DEF Message
<1>4. Append(m.got, p) = m.got \o <<p>>
  <2>1. m.got \in Seq(Piece)
    BY MessageFields
  <2> QED
    BY <1>2, <2>1, AppendIsConcat
<1> QED
  BY <1>2, <1>3, <1>4, ReadFrameType

(* The end of a block closes it and brings nothing.                        *)
LEMMA BlockStopRead ==
    ASSUME NEW m \in Message, NEW f \in Frame, f.kind = "content_block_stop",
           NEW r, r = ReadFrame(m, f)
    PROVE  /\ r \in Message
           /\ r.open = m.open \ {f.index}
           /\ r.slots = m.slots /\ r.got = m.got /\ r.reason = m.reason
<1>1. r = [m EXCEPT !.open = m.open \ {f.index}]
  BY DEF ReadFrame, Message
<1>2. /\ r.slots = m.slots /\ r.reason = m.reason
      /\ r.open = m.open \ {f.index} /\ r.got = m.got
  BY <1>1 DEF Message
<1> QED
  BY <1>2, ReadFrameType

(* A reader takes the reason q and learns nothing else.                    *)
ToldWhy(m, q, r) ==
    /\ r \in Message /\ r.reason = q
    /\ r.slots = m.slots /\ r.open = m.open /\ r.got = m.got

(* message_delta gives a reader the reason.                                *)
LEMMA ReasonRead ==
    ASSUME NEW m \in Message, NEW f \in Frame, f.kind = "message_delta",
           NEW r, r = ReadFrame(m, f), NEW q, q = f.reason
    PROVE  ToldWhy(m, q, r)
<1>1. r = [m EXCEPT !.reason = q]
  BY DEF ReadFrame, Message
<1>2. /\ r.slots = m.slots /\ r.reason = q
      /\ r.open = m.open /\ r.got = m.got
  BY <1>1 DEF Message
<1> QED
  BY <1>2, ReadFrameType DEF ToldWhy

(* The other frames bring nothing of the answer.                           *)
LEMMA QuietRead ==
    ASSUME NEW m \in Message, NEW f \in Frame,
           f.kind \in {"message_start", "message_stop", "ping", "error", "garbage"},
           NEW r, r = ReadFrame(m, f)
    PROVE  /\ r \in Message
           /\ r.slots = m.slots /\ r.open = m.open /\ r.got = m.got
           /\ r.reason = m.reason
<1>1. r \in Message
  BY ReadFrameType
<1>2. CASE f.kind = "message_start"
  BY <1>1, <1>2 DEF ReadFrame, Opened, Message
<1>3. CASE f.kind \in {"message_stop", "error"}
  BY <1>1, <1>3 DEF ReadFrame, Message
<1>4. CASE f.kind \in {"ping", "garbage"}
  <2>1. r = m
    BY <1>4 DEF ReadFrame
  <2> QED
    BY <2>1
<1> QED
  BY <1>2, <1>3, <1>4

(* What else the frames hold.                                              *)
LEMMA FrameHolds ==
    /\ \A b, i, n : BlockStart(b, i, n).call = n
    /\ \A b, i, t : BlockDelta(b, i, t).text = t
BY DEF BareFrame, BlockStart, BlockDelta

(* An index that stood for nothing gets an owner.                          *)
LEMMA Assigned ==
    ASSUME NEW slots, Functional(slots), NEW i, NEW o, \A s \in slots : s[1] # i
    PROVE  /\ Assign(slots, i, o) = slots \cup {<<i, o>>}
           /\ Functional(Assign(slots, i, o)) /\ <<i, o>> \in Assign(slots, i, o)
<1>1. Assign(slots, i, o) = slots \cup {<<i, o>>}
  BY DEF Assign
<1>2. <<i, o>>[1] = i
  OBVIOUS
<1>3. Functional(slots \cup {<<i, o>>})
  <2> DEFINE x == <<i, o>>
  <2>1. x[1] = i
    BY <1>2
  <2> HIDE DEF x
  <2> QED
    BY <2>1 DEF Functional, x
<1> QED
  BY <1>1, <1>3

(* The slots when a read leaves the block as it is.                        *)
LEMMA SameBlockFits ==
    ASSUME NEW u, NEW s, NEW m, NEW r, SaidFits("anthropic", u, m),
           SameBlock(u, s), r.slots = m.slots, r.open = m.open
    PROVE  SaidFits("anthropic", s.next, r)
BY DEF SaidFits, SameBlock

(* message_start and ping bring nothing.                                   *)
LEMMA PingConveys ==
    ASSUME NEW u \in Backend, NEW m \in Message, SaidFits("anthropic", u, m),
           Unending(u.phase), NEW s, BeginsOrPings(u, s),
           NEW f \in Frame, f = s.frame, NEW r, r = ReadFrame(m, f)
    PROVE  Conveyed("anthropic", u, m, s.next, r, DecodeFrame(f))
<1>1. f.kind \in {"message_start", "ping"}
  BY FrameFields DEF BeginsOrPings
<1>2. /\ r \in Message /\ r.slots = m.slots /\ r.open = m.open /\ r.got = m.got
      /\ r.reason = m.reason
  BY <1>1, QuietRead
<1>3. SaidFits("anthropic", s.next, r)
  BY <1>2, SameBlockFits DEF BeginsOrPings
<1> DEFINE x == Plain("stream_start")
<1>4. DecodeFrame(f) \in {<<>>, <<x>>}
  BY <1>1 DEF DecodeFrame
<1>5. ~Carries(x) /\ EventFits(r, x)
  BY EventKinds DEF Carries, EventFits
<1> HIDE DEF x
<1> QED
  BY <1>2, <1>3, <1>4, <1>5, NothingConveyed DEF CallSlots

(* A read that brings nothing and decodes to nothing.                      *)
LEMMA NoEventConveys ==
    ASSUME NEW p, NEW u, NEW m \in Message, NEW v, NEW r \in Message,
           SaidFits(p, v, r), r.got = m.got, CallSlots(r) = CallSlots(m),
           r.reason = m.reason
    PROVE  Conveyed(p, u, m, v, r, <<>>)
<1> DEFINE x == Plain("usage")
           events == <<>>
<1>1. ~Carries(x) /\ EventFits(r, x)
  BY EventKinds DEF Carries, EventFits
<1> HIDE DEF x
<1>2. events \in {<<>>, <<x>>}
  OBVIOUS
<1> HIDE DEF events
<1>3. Conveyed(p, u, m, v, r, events)
  BY <1>1, <1>2, NothingConveyed
<1> QED
  BY <1>3 DEF events

(* A text block begins: its index stands for the text.                     *)
LEMMA TextBlockConveys ==
    ASSUME NEW u \in Backend, NEW m \in Message, SaidFits("anthropic", u, m),
           Unending(u.phase), NEW s, TextBlock(u, s),
           NEW f \in Frame, f = s.frame, NEW r, r = ReadFrame(m, f)
    PROVE  Conveyed("anthropic", u, m, s.next, r, DecodeFrame(f))
<1> DEFINE i == u.index
           v == s.next
<1>1. /\ f.kind = "content_block_start" /\ f.block = "text" /\ f.index = i
      /\ f.call = 0
  <2>1. f = BlockStart("text", i, 0)
    BY DEF TextBlock
  <2> QED
    BY <2>1, FrameFields, FrameContents, FrameIndexes, FrameHolds
<1>2. v.block = "text" /\ v.index = i /\ v.calls = u.calls /\ u.block = ""
  BY DEF TextBlock
<1>3. i \in Nat
  BY BackendNumbers
<1> HIDE DEF i, v
<1>4. /\ Functional(m.slots) /\ m.open = {}
      /\ \A t \in m.slots : t[1] < i
  BY <1>2 DEF SaidFits, i
<1>5. /\ Assign(m.slots, i, 0) = m.slots \cup {<<i, 0>>}
      /\ Functional(Assign(m.slots, i, 0)) /\ <<i, 0>> \in Assign(m.slots, i, 0)
  BY <1>3, <1>4, Assigned
<1>6. /\ r \in Message /\ r.slots = Assign(m.slots, i, 0) /\ r.open = {i}
      /\ r.got = m.got \o StartPieces(f) /\ r.reason = m.reason
  <2>1. /\ r \in Message /\ r.slots = Assign(m.slots, f.index, f.call)
        /\ r.open = m.open \cup {f.index}
        /\ r.got = m.got \o StartPieces(f) /\ r.reason = m.reason
    BY <1>1, BlockStartRead
  <2> QED
    BY <1>1, <1>4, <2>1
<1>7. r.got = m.got
  <2>1. StartPieces(f) = <<>> /\ m.got \in Seq(Piece)
    BY <1>1, MessageFields DEF StartPieces
  <2> QED
    BY <1>6, <2>1, ConcatEmptySeq
<1>8. SaidFits("anthropic", v, r)
  <2>1. <<i, 0>>[1] = i
    OBVIOUS
  <2> DEFINE x == <<i, 0>>
  <2>2. x[1] = i /\ r.slots = m.slots \cup {x}
    BY <1>5, <1>6, <2>1
  <2>3. x \in r.slots
    BY <2>2
  <2> HIDE DEF x
  <2>4. \A t \in r.slots : t[1] < i \/ t[1] = i
    BY <1>4, <2>2
  <2> QED
    BY <1>2, <1>5, <1>6, <2>3, <2>4 DEF SaidFits, x
<1>9. CallSlots(r) = CallSlots(m)
  <2> DEFINE x == <<i, 0>>
  <2>1. x[2] = 0 /\ r.slots = m.slots \cup {x}
    BY <1>5, <1>6
  <2> HIDE DEF x
  <2> QED
    BY <2>1 DEF CallSlots
<1>10. DecodeFrame(f) = <<>>
  BY <1>1 DEF DecodeFrame
<1>11. Conveyed("anthropic", u, m, v, r, <<>>)
  BY <1>6, <1>7, <1>8, <1>9, NoEventConveys
<1> QED
  BY <1>10, <1>11 DEF v

(* A tool block begins: a call is announced.                               *)
LEMMA ToolBlockConveys ==
    ASSUME NEW u \in Backend, NEW m \in Message, SaidFits("anthropic", u, m),
           Unending(u.phase), NEW s, ToolBlock(u, s),
           NEW f \in Frame, f = s.frame, NEW r, r = ReadFrame(m, f)
    PROVE  Conveyed("anthropic", u, m, s.next, r, DecodeFrame(f))
<1> DEFINE i == u.index
           k == u.calls + 1
           v == s.next
           p == [of |-> k, text |-> 0]
           y == <<i, k>>
<1>1. /\ f.kind = "content_block_start" /\ f.block = "tool_use" /\ f.index = i
      /\ f.call = k
  <2>1. f = BlockStart("tool_use", i, k)
    BY DEF ToolBlock
  <2> QED
    BY <2>1, FrameFields, FrameContents, FrameIndexes, FrameHolds
<1>2. v.block = "tool_use" /\ v.index = i /\ v.calls = k /\ u.block = ""
  BY DEF ToolBlock
<1>3. i \in Nat /\ k \in Nat /\ k > 0
  BY BackendNumbers
<1> HIDE DEF i, v, k
<1>4. /\ Functional(m.slots) /\ m.open = {}
      /\ \A t \in m.slots : t[1] < i
  BY <1>2 DEF SaidFits, i
<1>5. /\ Assign(m.slots, i, k) = m.slots \cup {y}
      /\ Functional(Assign(m.slots, i, k)) /\ y \in Assign(m.slots, i, k)
  BY <1>3, <1>4, Assigned
<1>6. /\ r \in Message /\ r.slots = Assign(m.slots, i, k) /\ r.open = {i}
      /\ r.got = m.got \o StartPieces(f) /\ r.reason = m.reason
  <2>1. /\ r \in Message /\ r.slots = Assign(m.slots, f.index, f.call)
        /\ r.open = m.open \cup {f.index}
        /\ r.got = m.got \o StartPieces(f) /\ r.reason = m.reason
    BY <1>1, BlockStartRead
  <2> QED
    BY <1>1, <1>4, <2>1
<1>7. r.got = m.got \o <<p>>
  <2>1. StartPieces(f) = <<p>>
    BY <1>1 DEF StartPieces
  <2> HIDE DEF p
  <2> QED
    BY <1>6, <2>1
<1>8. y[1] = i /\ y[2] = k /\ k # 0
  BY <1>3
<1> DEFINE x == ToolCallStart(k, i)
<1>9. DecodeFrame(f) = <<x>>
  BY <1>1 DEF DecodeFrame
<1>10. x.type = "tool_call_start" /\ x.call = k /\ x.index = i /\ x.text = 0
  BY DEF ToolCallStart, Plain
<1>11. <<x.index, x.call>> = y
  BY <1>10
<1> HIDE DEF y, x
<1>12. SaidFits("anthropic", v, r)
  <2>1. \A t \in r.slots : t[1] < i \/ t[1] = i
    BY <1>4, <1>5, <1>6, <1>8
  <2> QED
    BY <1>2, <1>3, <1>5, <1>6, <2>1 DEF SaidFits, y
<1>13. CallSlots(r) = CallSlots(m) \cup {y}
  BY <1>5, <1>6, <1>8 DEF CallSlots
<1>14. Carries(x) /\ EventFits(r, x) /\ EventPiece(r, x) = p
  BY <1>5, <1>6, <1>8, <1>10, <1>11 DEF Carries, EventFits, EventPiece
<1> HIDE DEF p
<1>15. Conveys(v, r, DecodeFrame(f), <<p>>, {y})
  <2>1. Conveys(v, r, DecodeFrame(f), <<EventPiece(r, x)>>,
                IF x.type = "tool_call_start" THEN {<<x.index, x.call>>} ELSE {})
    BY <1>2, <1>9, <1>10, <1>14, OnePiece
  <2> QED
    BY <1>10, <1>11, <1>14, <2>1
<1>16. Conveyed("anthropic", u, m, v, r, DecodeFrame(f))
  BY <1>6, <1>7, <1>12, <1>13, <1>15 DEF Conveyed, Conveys
<1> QED
  BY <1>16 DEF v

(* A block ends.                                                           *)
LEMMA BlockEndConveys ==
    ASSUME NEW u \in Backend, NEW m \in Message, SaidFits("anthropic", u, m),
           Unending(u.phase), NEW s, BlockEnds(u, s),
           NEW f \in Frame, f = s.frame, NEW r, r = ReadFrame(m, f)
    PROVE  Conveyed("anthropic", u, m, s.next, r, DecodeFrame(f))
<1> DEFINE i == u.index
           v == s.next
<1>1. f.kind = "content_block_stop" /\ f.index = i
  BY FrameFields, FrameIndexes DEF BlockEnds
<1>2. v.block = "" /\ v.index = i + 1 /\ v.calls = u.calls
  BY DEF BlockEnds
<1>3. i \in Nat
  BY BackendNumbers
<1> HIDE DEF i, v
<1>4. /\ Functional(m.slots) /\ m.open \subseteq {i}
      /\ \A t \in m.slots : t[1] < i \/ t[1] = i
  BY DEF SaidFits, i
<1>5. /\ r \in Message /\ r.slots = m.slots /\ r.open = m.open \ {i}
      /\ r.got = m.got /\ r.reason = m.reason
  BY <1>1, BlockStopRead
<1>6. m.slots \subseteq Nat \X Nat
  BY MessageFields
<1>7. \A t \in r.slots : t[1] < i + 1
  <2>1. ASSUME NEW t \in m.slots PROVE t[1] < i + 1
    <3>1. t[1] \in Nat
      BY <1>6
    <3> QED
      BY <1>3, <1>4, <3>1
  <2> QED
    BY <1>5, <2>1
<1>8. SaidFits("anthropic", v, r)
  <2>1. r.open = {}
    BY <1>4, <1>5
  <2> QED
    BY <1>2, <1>4, <1>5, <1>7, <2>1 DEF SaidFits
<1>9. DecodeFrame(f) = <<>>
  BY <1>1 DEF DecodeFrame
<1>10. Conveyed("anthropic", u, m, v, r, <<>>)
  BY <1>5, <1>8, NoEventConveys DEF CallSlots
<1> QED
  BY <1>9, <1>10 DEF v

(* A fragment of what a block is of.                                       *)
LEMMA DeltaConveys ==
    ASSUME NEW u \in Backend, NEW m \in Message, SaidFits("anthropic", u, m),
           Unending(u.phase), NEW s, BlockGoesOn(u, s),
           NEW f \in Frame, f = s.frame, NEW r, r = ReadFrame(m, f)
    PROVE  Conveyed("anthropic", u, m, s.next, r, DecodeFrame(f))
<1> DEFINE i == u.index
           v == s.next
           o == IF u.block = "text" THEN 0 ELSE u.calls
<1>1. PICK t \in Nat \ {0} : f = BlockDelta(u.block, i, t)
  BY DEF BlockGoesOn
<1>2. /\ f.kind = "content_block_delta" /\ f.block = u.block /\ f.index = i
      /\ f.text = t
  BY <1>1, FrameFields, FrameContents, FrameIndexes, FrameHolds
<1>3. u.block \in {"text", "tool_use"} /\ SameBlock(u, s) /\ v.calls = u.calls
  BY DEF BlockGoesOn, SameBlock
<1>4. /\ Functional(m.slots) /\ m.open = {i} /\ <<i, o>> \in m.slots
      /\ u.block = "tool_use" => u.calls > 0
  BY <1>3 DEF SaidFits
<1>5. u.block = "tool_use" => o # 0 /\ o = u.calls
  <2>1. u.calls \in Nat
    BY BackendNumbers
  <2> QED
    BY <1>4, <2>1
<1>6. u.block = "text" => o = 0
  OBVIOUS
<1> HIDE DEF i, o
<1>7. OwnerAt(m, i) = o
  BY <1>4, OwnerIs
<1>8. OwnerOf(m, f.index) = o
  BY <1>2, <1>4, <1>7 DEF OwnerOf
<1> DEFINE p == [of |-> o, text |-> t]
<1>9. p = [of |-> OwnerOf(m, f.index), text |-> f.text]
  BY <1>2, <1>8
<1> HIDE DEF p
<1>10. /\ r \in Message /\ r.slots = m.slots /\ r.open = m.open
       /\ r.got = m.got \o <<p>> /\ r.reason = m.reason
  BY <1>2, <1>9, DeltaRead
<1>11. SaidFits("anthropic", v, r)
  BY <1>3, <1>10, SameBlockFits
<1>12. OwnerAt(r, i) = o
  BY <1>7, <1>10, SameOwner
<1>13. CallSlots(r) = CallSlots(m) \cup {}
  BY <1>10 DEF CallSlots
<1> DEFINE x == IF u.block = "text" THEN TextDelta(t) ELSE ToolCallDelta(t, i)
<1>14. DecodeFrame(f) = <<x>>
  BY <1>2, <1>3 DEF DecodeFrame
<1>15. /\ x.type = IF u.block = "text" THEN "text_delta" ELSE "tool_call_delta"
       /\ x.text = t /\ (u.block # "text" => x.index = i)
  BY DEF TextDelta, ToolCallDelta, Plain
<1> HIDE DEF x
<1>16. Carries(x) /\ EventFits(r, x)
  BY <1>3, <1>4, <1>5, <1>10, <1>12, <1>15 DEF Carries, EventFits
<1>17. EventPiece(r, x) = p
  BY <1>3, <1>6, <1>12, <1>15 DEF EventPiece, p
<1> HIDE DEF v
<1>18. Conveys(v, r, DecodeFrame(f), <<p>>, {})
  <2>1. x.type # "tool_call_start"
    BY <1>15
  <2>2. x.type = "tool_call_delta" => OwnerAt(r, x.index) = v.calls
    BY <1>3, <1>5, <1>12, <1>15
  <2>3. Conveys(v, r, DecodeFrame(f), <<EventPiece(r, x)>>,
                IF x.type = "tool_call_start" THEN {<<x.index, x.call>>} ELSE {})
    BY <1>14, <1>16, <2>1, <2>2, OnePiece
  <2> QED
    BY <1>17, <2>1, <2>3
<1>19. Conveyed("anthropic", u, m, v, r, DecodeFrame(f))
  BY <1>10, <1>11, <1>13, <1>18 DEF Conveyed, Conveys
<1> QED
  BY <1>19 DEF v

(* What a message_delta is read as.                                        *)
LEMMA ReasonGiven ==
    ASSUME NEW m \in Message, NEW f \in Frame, NEW q, f = MessageDelta(q)
    PROVE  /\ ToldWhy(m, q, ReadFrame(m, f))
           /\ DecodeFrame(f) = <<Stop(MapStopReason(q))>>
<1>1. f.kind = "message_delta" /\ f.reason = q
  BY FrameFields
<1>2. ToldWhy(m, q, ReadFrame(m, f))
  BY <1>1, ReasonRead
<1>3. DecodeFrame(f) = <<Stop(MapStopReason(q))>>
  BY <1>1 DEF DecodeFrame
<1> QED
  BY <1>2, <1>3

(* message_delta brings the reason.                                        *)
LEMMA GivenConveys ==
    ASSUME NEW u \in Backend, NEW m \in Message, SaidFits("anthropic", u, m),
           Unending(u.phase), NEW v, NEW q, q # "",
           NEW r \in Message, SaidFits("anthropic", v, r),
           r.slots = m.slots, r.got = m.got, r.reason = q
    PROVE  Conveyed("anthropic", u, m, v, r, <<Stop(MapStopReason(q))>>)
<1> DEFINE x == Stop(MapStopReason(q))
           events == <<x>>
<1>1. x.type = "stop" /\ x.reason = MapStopReason(q)
  BY DEF Stop, Plain
<1>2. MapStopReason(q) # ""
  BY DEF MapStopReason
<1> HIDE DEF x
<1>3. ~Carries(x) /\ EventFits(r, x)
  BY <1>1, <1>2 DEF Carries, EventFits
<1>4. events = <<x>> /\ events \in {<<>>, <<x>>}
  OBVIOUS
<1> HIDE DEF events
<1>5. Conveyed("anthropic", u, m, v, r, events)
  BY <1>1, <1>3, <1>4, NothingConveyed DEF CallSlots
<1> QED
  BY <1>5 DEF events, x

(* A reason is conveyed by the stop event with its counterpart.            *)
LEMMA ReasonConveys ==
    ASSUME NEW u \in Backend, NEW m \in Message, SaidFits("anthropic", u, m),
           Unending(u.phase), NEW s, SameBlock(u, s), NEW q \in Reasons \ {""},
           NEW r, ToldWhy(m, q, r)
    PROVE  Conveyed("anthropic", u, m, s.next, r, <<Stop(MapStopReason(q))>>)
<1>1. /\ r \in Message /\ r.reason = q
      /\ r.slots = m.slots /\ r.open = m.open /\ r.got = m.got
  BY DEF ToldWhy
<1>2. SaidFits("anthropic", s.next, r)
  BY <1>1, SameBlockFits
<1> QED
  BY <1>1, <1>2, GivenConveys

(* An Anthropic backend's next frame but message_stop.                     *)
LEMMA AnthropicConveys ==
    ASSUME NEW u \in Backend, NEW m \in Message, SaidFits("anthropic", u, m),
           NEW s \in AnthropicSends(u), s.frame.kind # "message_stop"
    PROVE  /\ s.next.quirks = u.quirks
           /\ Conveyed("anthropic", u, m, s.next, ReadFrame(m, s.frame),
                       DecodeFrame(s.frame))
<1>1. s.frame \in Frame
  BY AnthropicSendsType DEF Moves, Frames
<1>2. /\ s.next.quirks = u.quirks /\ Unending(u.phase)
      /\ \/ BeginsOrPings(u, s) \/ TextBlock(u, s) \/ ToolBlock(u, s)
         \/ BlockEnds(u, s) \/ BlockGoesOn(u, s) \/ SaysWhy(u, s)
  BY HandledFrames
<1>3. ASSUME SaysWhy(u, s)
      PROVE  Conveyed("anthropic", u, m, s.next, ReadFrame(m, s.frame),
                      DecodeFrame(s.frame))
  <2>1. PICK q \in Reasons \ {""} : s.frame = MessageDelta(q)
    BY <1>3 DEF SaysWhy
  <2>2. SameBlock(u, s)
    BY <1>3 DEF SaysWhy
  <2>3. /\ ToldWhy(m, q, ReadFrame(m, s.frame))
        /\ DecodeFrame(s.frame) = <<Stop(MapStopReason(q))>>
    BY <1>1, <2>1, ReasonGiven
  <2>4. Conveyed("anthropic", u, m, s.next, ReadFrame(m, s.frame),
                 <<Stop(MapStopReason(q))>>)
    BY <1>2, <2>2, <2>3, ReasonConveys
  <2> QED
    BY <2>3, <2>4
<1> QED
  BY <1>1, <1>2, <1>3, PingConveys, TextBlockConveys, ToolBlockConveys,
     BlockEndConveys, DeltaConveys

-----------------------------------------------------------------------------
(* What readers hold as frames arrive.                                     *)

(* t goes on where s ends.                                                 *)
Continues(s, t) == \E e \in Seq(Piece) : t = s \o e

(* What goes on goes on, and is begun by what it goes on from.             *)
LEMMA ContinuesOn ==
    ASSUME NEW s \in Seq(Piece)
    PROVE  /\ Continues(s, s)
           /\ \A t : Continues(s, t) => t \in Seq(Piece) /\ IsPrefix(s, t)
           /\ \A t, w : Continues(s, t) /\ Continues(t, w) => Continues(s, w)
<1>1. Continues(s, s)
  <2>1. s = s \o <<>> /\ <<>> \in Seq(Piece)
    BY ConcatEmptySeq
  <2> QED
    BY <2>1 DEF Continues
<1>2. ASSUME NEW t, Continues(s, t) PROVE t \in Seq(Piece) /\ IsPrefix(s, t)
  <2>1. PICK e \in Seq(Piece) : t = s \o e
    BY <1>2 DEF Continues
  <2>2. s \o e \in Seq(Piece)
    BY ConcatProperties
  <2> QED
    BY <2>1, <2>2, PrefixOfMore
<1>3. ASSUME NEW t, NEW w, Continues(s, t), Continues(t, w) PROVE Continues(s, w)
  <2>1. PICK e \in Seq(Piece) : t = s \o e
    BY <1>3 DEF Continues
  <2>2. PICK g \in Seq(Piece) : w = t \o g
    BY <1>3 DEF Continues
  <2>3. e \o g \in Seq(Piece)
    BY ConcatProperties
  <2>4. w = s \o (e \o g)
    BY <2>1, <2>2, ConcatAssociative
  <2> QED
    BY <2>3, <2>4 DEF Continues
<1> QED
  BY <1>1, <1>2, <1>3

(* Reading a frame adds to what was read.                                  *)
LEMMA ReadContinues ==
    ASSUME NEW p \in Protocols, NEW m \in Message, NEW f \in Frames(p)
    PROVE  /\ ReadAs(p, m, f) \in Message
           /\ Continues(m.got, ReadAs(p, m, f).got)
<1> DEFINE r == ReadAs(p, m, f)
<1>1. r \in Message
  BY ReadAsType
<1>2. m.got \in Seq(Piece)
  BY MessageFields
<1>3. r.got = m.got => Continues(m.got, r.got)
  BY <1>2, ContinuesOn
<1> SUFFICES Continues(m.got, r.got)
  BY <1>1
<1>4. CASE p = "openai"
  <2>1. f \in Chunk /\ r = ReadChunk(m, f)
    BY <1>4 DEF Frames, ReadAs
  <2>2. CASE f.kind \in {"chunk", "usage"}
    <3>1. r.got = m.got \o Pieces(m, f)
      BY <2>1, <2>2, ChunkReadMore
    <3>2. Pieces(m, f) \in Seq(Piece)
      BY <2>1, PiecesType
    <3> QED
      BY <3>1, <3>2 DEF Continues
  <2>3. CASE f.kind \notin {"chunk", "usage"}
    <3>1. r.got = m.got
      BY <2>1, <2>3 DEF ReadChunk, Message
    <3> QED
      BY <1>3, <3>1
  <2> QED
    BY <2>2, <2>3
<1>5. CASE p # "openai"
  <2>1. f \in Frame /\ r = ReadFrame(m, f)
    BY <1>5 DEF Frames, ReadAs
  <2>2. CASE f.kind = "content_block_start"
    <3>1. r.got = m.got \o StartPieces(f)
      BY <2>1, <2>2, BlockStartRead
    <3>2. StartPieces(f) \in Seq(Piece)
      <4>1. [of |-> f.call, text |-> 0] \in Piece
        BY <2>1 DEF Frame, Piece, Owners
      <4> QED
        BY <4>1 DEF StartPieces
    <3> QED
      BY <3>1, <3>2 DEF Continues
  <2>3. CASE f.kind = "content_block_delta"
    <3> DEFINE q == [of |-> OwnerOf(m, f.index), text |-> f.text]
    <3>1. q \in Piece /\ r.got = m.got \o <<q>>
      BY <2>1, <2>3, DeltaRead
    <3> HIDE DEF q
    <3>2. <<q>> \in Seq(Piece)
      BY <3>1
    <3> QED
      BY <3>1, <3>2 DEF Continues
  <2>4. CASE f.kind \notin {"content_block_start", "content_block_delta"}
    <3>1. r.got = m.got
      BY <2>1, <2>4 DEF ReadFrame, Opened, Message
    <3> QED
      BY <1>3, <3>1
  <2> QED
    BY <2>2, <2>3, <2>4
<1> QED
  BY <1>1, <1>4, <1>5

(* What a reader holds when it has read up to three frames.                *)
Delivered(p, m, frames) ==
    CASE Len(frames) = 0 -> m
      [] Len(frames) = 1 -> ReadAs(p, m, frames[1])
      [] Len(frames) = 2 -> ReadAs(p, ReadAs(p, m, frames[1]), frames[2])
      [] OTHER -> ReadAs(p, ReadAs(p, ReadAs(p, m, frames[1]), frames[2]), frames[3])

(* The cases of Delivered.                                                 *)
LEMMA DeliveredCases ==
    ASSUME NEW p, NEW m
    PROVE  /\ Delivered(p, m, <<>>) = m
           /\ \A x : Delivered(p, m, <<x>>) = ReadAs(p, m, x)
           /\ \A x, y : Delivered(p, m, <<x, y>>) = ReadAs(p, ReadAs(p, m, x), y)
           /\ \A x, y, z : Delivered(p, m, <<x, y, z>>) =
                 ReadAs(p, ReadAs(p, ReadAs(p, m, x), y), z)
BY TwoOrThree, OneOrNone DEF Delivered

(* Reading one of them leaves the others to be read.                       *)
LEMMA DeliveredOne ==
    ASSUME NEW p \in Protocols, NEW m \in Message, NEW frames \in Seq(Frames(p)),
           Len(frames) \in {1, 2, 3}
    PROVE  Delivered(p, ReadAs(p, m, Head(frames)), Tail(frames)) =
              Delivered(p, m, frames)
<1>1. /\ Head(frames) = frames[1] /\ Tail(frames) \in Seq(Frames(p))
      /\ Len(frames) = 1 => Len(Tail(frames)) = 0
      /\ Len(frames) = 2 => Len(Tail(frames)) = 1 /\ Tail(frames)[1] = frames[2]
      /\ Len(frames) = 3 =>
            Len(Tail(frames)) = 2 /\ Tail(frames)[1] = frames[2] /\ Tail(frames)[2] = frames[3]
  BY TailOf
<1> QED
  BY <1>1 DEF Delivered

(* Reading them adds to what was read.                                     *)
LEMMA DeliveredContinues ==
    ASSUME NEW p \in Protocols, NEW m \in Message, NEW frames \in Seq(Frames(p)),
           Len(frames) <= 3
    PROVE  /\ Delivered(p, m, frames) \in Message
           /\ Continues(m.got, Delivered(p, m, frames).got)
<1> DEFINE a == ReadAs(p, m, frames[1])
           b == ReadAs(p, a, frames[2])
           c == ReadAs(p, b, frames[3])
<1>1. /\ Len(frames) \in Nat
      /\ \A i \in 1..Len(frames) : frames[i] \in Frames(p)
  OBVIOUS
<1>2. Len(frames) > 0 => a \in Message /\ Continues(m.got, a.got)
  BY <1>1, ReadContinues
<1>3. Len(frames) > 1 => b \in Message /\ Continues(a.got, b.got)
  BY <1>1, <1>2, ReadContinues
<1>4. Len(frames) > 2 => c \in Message /\ Continues(b.got, c.got)
  BY <1>1, <1>3, ReadContinues
<1>5. m.got \in Seq(Piece)
  BY MessageFields
<1> DEFINE d == Delivered(p, m, frames)
<1> HIDE DEF a, b, c
<1>6. Continues(m.got, m.got)
  BY <1>5, ContinuesOn
<1>7. Len(frames) > 1 => Continues(m.got, b.got)
  BY <1>1, <1>2, <1>3, <1>5, ContinuesOn
<1>8. Len(frames) > 2 => Continues(m.got, c.got)
  BY <1>1, <1>4, <1>5, <1>7, ContinuesOn
<1>9. \/ Len(frames) = 0 /\ d = m
      \/ Len(frames) = 1 /\ d = a
      \/ Len(frames) = 2 /\ d = b
      \/ Len(frames) = 3 /\ d = c
  <2>1. Len(frames) = 0 \/ Len(frames) = 1 \/ Len(frames) = 2 \/ Len(frames) = 3
    <3>1. \A n \in Nat : n <= 3 => n = 0 \/ n = 1 \/ n = 2 \/ n = 3
      OBVIOUS
    <3>2. Len(frames) \in Nat
      BY <1>1
    <3> QED
      BY <3>1, <3>2
  <2>2. CASE Len(frames) = 0
    BY <2>2 DEF Delivered
  <2>3. CASE Len(frames) = 1
    BY <2>3 DEF Delivered, a
  <2>4. CASE Len(frames) = 2
    BY <2>4 DEF Delivered, a, b
  <2>5. CASE Len(frames) = 3
    <3>1. Len(frames) # 0 /\ Len(frames) # 1 /\ Len(frames) # 2
      BY <2>5
    <3>2. d = c
      BY <3>1, Zenon DEF Delivered, a, b, c, d
    <3> QED
      BY <2>5, <3>2
  <2> QED
    BY <2>1, <2>2, <2>3, <2>4, <2>5
<1> HIDE DEF d
<1>10. d \in Message /\ Continues(m.got, d.got)
  <2>1. CASE Len(frames) = 0 /\ d = m
    BY <1>6, <2>1
  <2>2. CASE Len(frames) = 1 /\ d = a
    BY <1>2, <2>2
  <2>3. CASE Len(frames) = 2 /\ d = b
    BY <1>3, <1>7, <2>3
  <2>4. CASE Len(frames) = 3 /\ d = c
    BY <1>4, <1>8, <2>4
  <2> QED
    BY <1>9, <2>1, <2>2, <2>3, <2>4
<1> QED
  BY <1>10 DEF d

-----------------------------------------------------------------------------
(* What the events in hand bring a client.                                 *)

(* The reasons the maps make of a reason are the same in other words.      *)
LEMMA SameReasons ==
    ASSUME NEW q \in Reasons
    PROVE  /\ SameReason(q, q) /\ SameReason(MapStopReason(q), q)
           /\ SameReason(MapFinishReason(q), q)
           /\ SameReason(MapFinishReason(MapStopReason(q)), q)
<1>1. q \in {"stop", "length", "tool_calls", "content_filter", "end_turn",
             "max_tokens", "tool_use", "stop_sequence", ""}
  BY DEF Reasons, FinishReasons, StopReasons
<1>2. \A a, b : {a, b} = {b, a}
  OBVIOUS
<1>3. /\ \A a : SameReason(a, a)
      /\ SameReason("stop", "end_turn") /\ SameReason("end_turn", "stop")
      /\ SameReason("length", "max_tokens") /\ SameReason("max_tokens", "length")
      /\ SameReason("tool_calls", "tool_use") /\ SameReason("tool_use", "tool_calls")
  BY <1>2 DEF SameReason
<1>4. /\ MapStopReason(q) = q \/ q \in {"end_turn", "max_tokens", "tool_use"}
      /\ MapStopReason("end_turn") = "stop" /\ MapStopReason("max_tokens") = "length"
      /\ MapStopReason("tool_use") = "tool_calls"
      /\ MapFinishReason(q) = q \/ q \in {"stop", "length", "tool_calls"}
      /\ MapFinishReason("stop") = "end_turn" /\ MapFinishReason("length") = "max_tokens"
      /\ MapFinishReason("tool_calls") = "tool_use"
  BY DEF MapStopReason, MapFinishReason
<1> QED
  BY <1>1, <1>3, <1>4

(* What holds of the events after the first.                               *)
LEMMA RestFits ==
    ASSUME NEW u, NEW m \in Message, NEW events \in Seq(StreamEvent), events # <<>>,
           PendingFits(u, m, events)
    PROVE  LET x == Head(events)
               t == Tail(events)
           IN  /\ EventFits(m, x)
               /\ PendingFits(u, m, t)
               /\ Carries(x) => Owed(m, events) = <<EventPiece(m, x)>> \o Owed(m, t)
               /\ ~Carries(x) => Owed(m, events) = Owed(m, t)
<1> DEFINE x == Head(events)
           t == Tail(events)
<1>1. /\ x \in StreamEvent /\ t \in Seq(StreamEvent) /\ x = events[1]
      /\ Len(t) + 1 = Len(events) /\ Len(t) \in Nat
      /\ \A i \in 1..Len(t) : t[i] = events[i + 1]
  BY HeadTailProperties
<1>2. \A n \in DOMAIN t : n + 1 \in DOMAIN events /\ t[n] = events[n + 1]
  BY <1>1
<1>3. 1 \in DOMAIN events
  BY <1>1
<1>4. EventFits(m, x) /\ \A n \in DOMAIN t : EventFits(m, t[n])
  BY <1>1, <1>2, <1>3 DEF PendingFits
<1>5. \A n \in DOMAIN t : Carries(t[n])
  BY <1>2 DEF PendingFits, AnswerPart
<1>6. AnswerPart(t) = t
  <2>1. t # <<>> => Head(t) = t[1] /\ 1 \in DOMAIN t
    BY <1>1
  <2> QED
    BY <1>5, <2>1 DEF AnswerPart
<1>7. /\ Carries(x) => AnswerPart(events) = events
      /\ ~Carries(x) => AnswerPart(events) = t
  BY DEF AnswerPart
<1>8. PiecesOf(m, events) = <<EventPiece(m, x)>> \o PiecesOf(m, t)
  BY PiecesCons
<1>9. \A k : Brings(t, k) => Brings(events, k)
  BY <1>2 DEF Brings
<1>10. ASSUME Brings(t, "tool_call_start")
       PROVE  /\ t[Len(t)].type = "tool_call_start"
              /\ t[Len(t)].call = u.calls
  <2>1. t # <<>>
    BY <1>10 DEF Brings
  <2>2. Len(t) \in 1..Len(t)
    BY <1>1, <2>1
  <2>3. t[Len(t)] = events[Len(events)]
    BY <1>1, <2>2
  <2> QED
    BY <1>9, <1>10, <2>3 DEF PendingFits
<1>11. "interleaved_tools" \notin u.quirks =>
          \A n \in DOMAIN t : t[n].type = "tool_call_delta" =>
              OwnerAt(m, t[n].index) = u.calls
  BY <1>2 DEF PendingFits
<1>12. Brings(t, "tool_call_delta") => ~Brings(t, "tool_call_start")
  BY <1>9 DEF PendingFits
<1> HIDE DEF x, t
<1>13. PendingFits(u, m, t)
  BY <1>4, <1>5, <1>6, <1>10, <1>11, <1>12 DEF PendingFits
<1>14. /\ Carries(x) => Owed(m, events) = <<EventPiece(m, x)>> \o Owed(m, t)
       /\ ~Carries(x) => Owed(m, events) = Owed(m, t)
  BY <1>6, <1>7, <1>8 DEF Owed
<1> QED
  BY <1>4, <1>13, <1>14 DEF x, t

(* What the first event starts, and whose arguments it carries.            *)
LEMMA FirstStarts ==
    ASSUME NEW u, NEW m \in Message, NEW events \in Seq(StreamEvent), events # <<>>,
           PendingFits(u, m, events)
    PROVE  LET x == Head(events)
               t == Tail(events)
           IN  /\ Starts(events) =
                     Starts(t) \cup (IF x.type = "tool_call_start"
                                     THEN {<<x.index, x.call>>} ELSE {})
               /\ x.type = "tool_call_start" =>
                     Brings(t, "tool_call_start") \/ x.call = u.calls
               /\ x.type = "tool_call_delta" =>
                     /\ Starts(events) = {} /\ ~Brings(events, "tool_call_start")
                     /\ "interleaved_tools" \notin u.quirks =>
                           OwnerAt(m, x.index) = u.calls
<1> DEFINE x == Head(events)
           t == Tail(events)
<1>1. /\ x = events[1] /\ t \in Seq(StreamEvent)
      /\ Len(t) + 1 = Len(events) /\ Len(t) \in Nat
      /\ \A i \in 1..Len(t) : t[i] = events[i + 1]
  BY HeadTailProperties
<1>2. \A n \in DOMAIN t : n + 1 \in DOMAIN events /\ t[n] = events[n + 1]
  BY <1>1
<1>3. 1 \in DOMAIN events
  BY <1>1
<1>4. \A n \in DOMAIN events : n = 1 \/ (n - 1 \in DOMAIN t /\ events[n] = t[n - 1])
  BY <1>1
<1> DEFINE At(n) == <<events[n].index, events[n].call>>
           new == IF x.type = "tool_call_start" THEN {<<x.index, x.call>>} ELSE {}
<1>5. Starts(events) = Starts(t) \cup new
  <2>1. ASSUME NEW s \in Starts(events) PROVE s \in Starts(t) \cup new
    <3>1. PICK n \in DOMAIN events :
             events[n].type = "tool_call_start" /\ s = <<events[n].index, events[n].call>>
      BY <2>1 DEF Starts
    <3>2. CASE n = 1
      BY <1>1, <3>1, <3>2
    <3>3. CASE n # 1
      <4>1. n - 1 \in DOMAIN t /\ events[n] = t[n - 1]
        BY <1>4, <3>3
      <4> QED
        BY <3>1, <4>1 DEF Starts
    <3> QED
      BY <3>2, <3>3
  <2>2. ASSUME NEW s \in Starts(t) PROVE s \in Starts(events)
    <3>1. PICK n \in DOMAIN t :
             t[n].type = "tool_call_start" /\ s = <<t[n].index, t[n].call>>
      BY <2>2 DEF Starts
    <3>2. n + 1 \in DOMAIN events /\ t[n] = events[n + 1]
      BY <1>2
    <3> QED
      BY <3>1, <3>2 DEF Starts
  <2>3. new \subseteq Starts(events)
    BY <1>1, <1>3 DEF Starts
  <2> QED
    BY <2>1, <2>2, <2>3
<1>6. ASSUME x.type = "tool_call_start"
      PROVE  Brings(t, "tool_call_start") \/ x.call = u.calls
  <2>1. Brings(events, "tool_call_start")
    BY <1>1, <1>3, <1>6 DEF Brings
  <2>2. /\ events[Len(events)].type = "tool_call_start"
        /\ events[Len(events)].call = u.calls
    BY <2>1 DEF PendingFits
  <2>3. CASE Len(events) = 1
    BY <1>1, <2>2, <2>3
  <2>4. CASE Len(events) # 1
    <3>1. Len(t) \in DOMAIN t /\ t[Len(t)] = events[Len(events)]
      BY <1>1, <2>4
    <3> QED
      BY <2>2, <3>1 DEF Brings
  <2> QED
    BY <2>3, <2>4
<1>7. ASSUME x.type = "tool_call_delta"
      PROVE  /\ Starts(events) = {} /\ ~Brings(events, "tool_call_start")
             /\ "interleaved_tools" \notin u.quirks => OwnerAt(m, x.index) = u.calls
  <2>1. Brings(events, "tool_call_delta")
    BY <1>1, <1>3, <1>7 DEF Brings
  <2>2. ~Brings(events, "tool_call_start")
    BY <2>1 DEF PendingFits
  <2>3. Starts(events) = {}
    BY <2>2 DEF Starts, Brings
  <2> QED
    BY <1>1, <1>3, <1>7, <2>2, <2>3 DEF PendingFits
<1> QED
  BY <1>5, <1>6, <1>7

(* The answer so far is what the reader d has and what the events will     *)
(* bring it, and so is the reason.                                         *)
Reaches(m, d, events) ==
    /\ m.got = d.got \o Owed(m, events)
    /\ m.reason # "" => Brings(events, "stop") \/ SameReason(d.reason, m.reason)

(* The reader d learns from what is made of an event x what it says.       *)
Told(m, d, x, r) ==
    /\ r \in Message
    /\ Carries(x) => r.got = d.got \o <<EventPiece(m, x)>>
    /\ ~Carries(x) => r.got = d.got
    /\ x.type = "stop" => SameReason(r.reason, m.reason)
    /\ x.type # "stop" => r.reason = d.reason

(* A reader that is told what the first of the events says is as far as    *)
(* the others leave it.                                                    *)
LEMMA StillReaches ==
    ASSUME NEW u, NEW m \in Message, NEW events \in Seq(StreamEvent), events # <<>>,
           PendingFits(u, m, events), NEW d \in Message, Reaches(m, d, events),
           NEW r, Told(m, d, Head(events), r)
    PROVE  Reaches(m, r, Tail(events))
<1> DEFINE x == Head(events)
           t == Tail(events)
           p == EventPiece(m, x)
           rest == Owed(m, t)
<1>1. x \in StreamEvent /\ t \in Seq(StreamEvent)
  OBVIOUS
<1>2. /\ Carries(x) => Owed(m, events) = <<p>> \o rest
      /\ ~Carries(x) => Owed(m, events) = rest
  BY RestFits
<1>3. rest \in Seq(Piece) /\ p \in Piece /\ d.got \in Seq(Piece)
  BY <1>1, PiecesOfType, EventPieceType, MessageFields
<1>4. m.got = d.got \o Owed(m, events)
  BY DEF Reaches
<1>5. /\ Carries(x) => r.got = d.got \o <<p>>
      /\ ~Carries(x) => r.got = d.got
  BY DEF Told
<1> HIDE DEF p, rest
<1>6. m.got = r.got \o rest
  <2>1. CASE Carries(x)
    <3>1. <<p>> \in Seq(Piece)
      BY <1>3
    <3>2. (d.got \o <<p>>) \o rest = d.got \o (<<p>> \o rest)
      <4>1. \A a, b, c \in Seq(Piece) : (a \o b) \o c = a \o (b \o c)
        BY ConcatAssociative
      <4> QED
        BY <1>3, <3>1, <4>1
    <3>3. m.got = d.got \o (<<p>> \o rest) /\ r.got = d.got \o <<p>>
      BY <1>2, <1>4, <1>5, <2>1
    <3> QED
      BY <3>2, <3>3, Zenon
  <2>2. CASE ~Carries(x)
    BY <1>2, <1>4, <1>5, <2>2
  <2> QED
    BY <2>1, <2>2
<1>7. m.reason # "" => Brings(t, "stop") \/ SameReason(r.reason, m.reason)
  <2>1. Brings(events, "stop") => x.type = "stop" \/ Brings(t, "stop")
    BY BringsTail
  <2> QED
    BY <2>1 DEF Told, Reaches
<1> QED
  BY <1>6, <1>7 DEF Reaches, rest

-----------------------------------------------------------------------------
(* The chunks the encoder makes, and an OpenAI client.                     *)

(* What an OpenAI client learns from each chunk the encoder makes.         *)
LEMMA EmptyChunkRead ==
    ASSUME NEW d \in Message, NEW c \in Chunk, c = BareChunk("chunk"),
           NEW r, r = ReadChunk(d, c)
    PROVE  r \in Message /\ r.slots = d.slots /\ r.reason = d.reason /\ r.got = d.got
<1>1. /\ c.text = 0 /\ c.plain = 0 /\ c.calls = <<>> /\ c.finish = ""
      /\ c.kind = "chunk"
  BY ChunkHolds
<1>2. /\ r \in Message /\ r.slots = SlotsAfter(d, c)
      /\ r.got = d.got \o Pieces(d, c)
      /\ r.reason = IF c.finish # "" THEN c.finish ELSE d.reason
  BY <1>1, ChunkReadMore
<1>3. SlotsAfter(d, c) = d.slots
  BY <1>1, ContentAnnounces
<1>4. Pieces(d, c) = <<>>
  BY <1>1, ContentPieces
<1>5. d.got \o <<>> = d.got
  BY MessageFields, ConcatEmptySeq
<1> QED
  BY <1>1, <1>2, <1>3, <1>4, <1>5

(* A chunk with text brings a piece of the answer's text.                  *)
LEMMA TextChunkRead ==
    ASSUME NEW d \in Message, NEW t \in Nat \ {0},
           NEW c \in Chunk, c = TextChunk(t), NEW r, r = ReadChunk(d, c)
    PROVE  /\ r \in Message /\ r.slots = d.slots /\ r.reason = d.reason
           /\ r.got = d.got \o <<[of |-> 0, text |-> t]>>
<1>1. /\ c.text = t /\ c.plain = 0 /\ c.calls = <<>> /\ c.finish = ""
      /\ c.kind = "chunk" /\ c.text # 0
  BY ChunkHolds
<1>2. /\ r \in Message /\ r.slots = SlotsAfter(d, c)
      /\ r.got = d.got \o Pieces(d, c)
      /\ r.reason = IF c.finish # "" THEN c.finish ELSE d.reason
  BY <1>1, ChunkReadMore
<1>3. SlotsAfter(d, c) = d.slots
  BY <1>1, ContentAnnounces
<1>4. Pieces(d, c) = <<[of |-> 0, text |-> c.text]>>
  BY <1>1, ContentPieces
<1>5. Pieces(d, c) = <<[of |-> 0, text |-> t]>>
  BY <1>1, <1>4
<1> QED
  BY <1>1, <1>2, <1>3, <1>5

(* A chunk with a reason gives the reason.                                 *)
LEMMA FinishChunkRead ==
    ASSUME NEW d \in Message, NEW q \in Reasons \ {""},
           NEW c \in Chunk, c = FinishChunk(q), NEW r, r = ReadChunk(d, c)
    PROVE  ToldWhy(d, q, r)
<1>1. /\ c.text = 0 /\ c.plain = 0 /\ c.calls = <<>> /\ c.finish = q
      /\ c.kind = "chunk"
  BY ChunkHolds
<1>2. /\ r \in Message /\ r.slots = SlotsAfter(d, c)
      /\ r.got = d.got \o Pieces(d, c)
      /\ r.reason = IF c.finish # "" THEN c.finish ELSE d.reason
  BY <1>1, ChunkReadMore
<1>3. SlotsAfter(d, c) = d.slots
  BY <1>1, ContentAnnounces
<1>4. Pieces(d, c) = <<>>
  BY <1>1, ContentPieces
<1>5. d.got \o <<>> = d.got
  BY MessageFields, ConcatEmptySeq
<1>6. r.open = d.open
  BY ChunkRead
<1> QED
  BY <1>1, <1>2, <1>3, <1>4, <1>5, <1>6 DEF ToldWhy

(* A tool-call entry brings a piece of its call, and with an id makes its  *)
(* index stand for that call.                                              *)
LEMMA EntryChunkRead ==
    ASSUME NEW d \in Message, NEW e \in ToolCallEntry,
           NEW i, i = e.index, NEW k, k = e.call, NEW t, t = e.args,
           NEW c \in Chunk, c = CallChunk(e), NEW r, r = ReadChunk(d, c)
    PROVE  /\ r \in Message /\ r.reason = d.reason
           /\ r.got = d.got \o
                <<[of |-> IF k # 0 THEN k ELSE OwnerAt(d, i), text |-> t]>>
           /\ k = 0 => r.slots = d.slots
           /\ k # 0 => r.slots = {s \in d.slots : s[1] # i} \cup {<<i, k>>}
<1>1. /\ c.text = 0 /\ c.plain = 0 /\ c.calls = <<e>> /\ c.finish = ""
      /\ c.kind = "chunk"
  BY ChunkHolds
<1>2. /\ r \in Message /\ r.slots = SlotsAfter(d, c)
      /\ r.got = d.got \o Pieces(d, c)
      /\ r.reason = IF c.finish # "" THEN c.finish ELSE d.reason
  BY <1>1, ChunkReadMore
<1>3. Pieces(d, c) = <<EntryPiece(d, e)>>
  BY <1>1, ContentPieces
<1>4. EntryPiece(d, e) = [of |-> IF k # 0 THEN k ELSE OwnerAt(d, i), text |-> t]
  BY DEF EntryPiece
<1>5. k = 0 => SlotsAfter(d, c) = d.slots
  BY <1>1, ContentAnnounces
<1>6. k # 0 => Announced(c) = {<<i, k>>}
  BY <1>1, ContentAnnounces
<1>7. k # 0 => SlotsAfter(d, c) = {s \in d.slots : s[1] # i} \cup {<<i, k>>}
  <2>1. <<i, k>>[1] = i
    OBVIOUS
  <2> QED
    BY <1>6, <2>1 DEF SlotsAfter
<1> QED
  BY <1>1, <1>2, <1>3, <1>4, <1>5, <1>7

(* An index assigned to its owner once more.                               *)
LEMMA Reassigned ==
    ASSUME NEW slots, NEW all, Functional(all), slots \subseteq all,
           NEW i, NEW k, <<i, k>> \in all
    PROVE  {s \in slots : s[1] # i} \cup {<<i, k>>} = slots \cup {<<i, k>>}
<1> DEFINE x == <<i, k>>
<1>1. x[1] = i
  OBVIOUS
<1> HIDE DEF x
<1>2. \A s \in slots : s[1] = i => s = x
  BY <1>1 DEF Functional, x
<1> QED
  BY <1>2 DEF x

(* The chunk that the encoder makes of an event tells an OpenAI client     *)
(* what the event says.                                                    *)
LEMMA ChunkTells ==
    ASSUME NEW m \in Message, NEW d \in Message, NEW x \in AnswerEvent,
           EventFits(m, x), Functional(m.slots), d.slots \subseteq m.slots,
           x.type = "tool_call_delta" => d.slots = CallSlots(m),
           NEW r, r = Delivered("openai", d, EncodeChunk(x))
    PROVE  /\ Told(m, d, x, r)
           /\ r.slots = d.slots \cup (IF x.type = "tool_call_start"
                                      THEN {<<x.index, x.call>>} ELSE {})
<1> DEFINE i == x.index
           k == x.call
           t == x.text
           q == FinishOf(x)
           new == IF x.type = "tool_call_start" THEN {<<i, k>>} ELSE {}
<1>1. /\ i \in Nat /\ k \in Nat /\ t \in Nat /\ x \in StreamEvent
      /\ x.reason \in Reasons
      /\ x.type \in {"stream_start", "text_delta", "usage", "stop",
                     "tool_call_start", "tool_call_delta"}
  BY EventFields DEF AnswerEvent, StreamEvent, StreamEventTypes
<1>2. \A c : Delivered("openai", d, <<c>>) = ReadChunk(d, c)
  <2>1. \A c : Delivered("openai", d, <<c>>) = ReadAs("openai", d, c)
    BY DeliveredCases
  <2>2. \A c : ReadAs("openai", d, c) = ReadChunk(d, c)
    BY DEF ReadAs
  <2> QED
    BY <2>1, <2>2
<1>3. \A c : EncodeChunk(x) = <<c>> => c \in Chunk
  <2>1. EncodeChunk(x) \in Seq(Chunk)
    BY <1>1, EncodeChunkType
  <2> QED
    BY <2>1
<1>4. CASE x.type = "usage"
  <2>1. EncodeChunk(x) = <<>>
    BY <1>4 DEF EncodeChunk
  <2>2. r = d
    BY <2>1, DeliveredCases
  <2> QED
    BY <1>4, <2>2 DEF Told, Carries
<1>5. CASE x.type = "stream_start"
  <2> DEFINE c == BareChunk("chunk")
  <2>1. EncodeChunk(x) = <<c>>
    BY <1>5 DEF EncodeChunk
  <2> HIDE DEF c
  <2>2. c \in Chunk /\ r = ReadChunk(d, c)
    BY <1>2, <1>3, <2>1
  <2>3. r \in Message /\ r.slots = d.slots /\ r.reason = d.reason /\ r.got = d.got
    BY <2>2, EmptyChunkRead DEF c
  <2> QED
    BY <1>5, <2>3 DEF Told, Carries
<1>6. CASE x.type = "text_delta"
  <2> DEFINE c == TextChunk(t)
  <2>1. EncodeChunk(x) = <<c>>
    BY <1>6 DEF EncodeChunk
  <2>2. t # 0 /\ EventPiece(m, x) = [of |-> 0, text |-> t]
    BY <1>6 DEF EventFits, EventPiece
  <2> HIDE DEF c, t
  <2>3. c \in Chunk /\ r = ReadChunk(d, c)
    BY <1>2, <1>3, <2>1
  <2>4. /\ r \in Message /\ r.slots = d.slots /\ r.reason = d.reason
        /\ r.got = d.got \o <<[of |-> 0, text |-> t]>>
    BY <1>1, <2>2, <2>3, TextChunkRead DEF c
  <2> QED
    BY <1>6, <2>2, <2>4 DEF Told, Carries
<1>7. CASE x.type = "stop"
  <2> DEFINE c == FinishChunk(q)
  <2>1. EncodeChunk(x) = <<c>>
    BY <1>7 DEF EncodeChunk
  <2>2. /\ q = x.reason /\ q # ""
        /\ q \in {m.reason, MapStopReason(m.reason)}
    BY <1>7 DEF EventFits, FinishOf
  <2>3. q \in Reasons \ {""} /\ SameReason(q, m.reason)
    <3>1. m.reason \in Reasons
      BY MessageFields
    <3> QED
      BY <1>1, <2>2, <3>1, SameReasons
  <2> HIDE DEF c, q
  <2>4. c \in Chunk /\ r = ReadChunk(d, c)
    BY <1>2, <1>3, <2>1
  <2>5. ToldWhy(d, q, r)
    BY <2>3, <2>4, FinishChunkRead DEF c
  <2> QED
    BY <1>7, <2>3, <2>5 DEF Told, Carries, ToldWhy
<1>8. CASE x.type = "tool_call_start"
  <2> DEFINE e == [index |-> i, call |-> k, args |-> 0, function |-> TRUE]
             c == CallChunk(e)
  <2>1. EncodeChunk(x) = <<c>>
    BY <1>8 DEF EncodeChunk
  <2>2. /\ k # 0 /\ <<i, k>> \in m.slots
        /\ EventPiece(m, x) = [of |-> k, text |-> 0]
    BY <1>8 DEF EventFits, EventPiece
  <2> HIDE DEF i, k
  <2>3. e \in ToolCallEntry /\ e.index = i /\ e.call = k /\ e.args = 0
    BY <1>1 DEF ToolCallEntry
  <2> HIDE DEF e, c
  <2>4. c \in Chunk /\ r = ReadChunk(d, c)
    BY <1>2, <1>3, <2>1
  <2>5. /\ r \in Message /\ r.reason = d.reason
        /\ r.got = d.got \o <<[of |-> IF k # 0 THEN k ELSE OwnerAt(d, i), text |-> 0]>>
        /\ k # 0 => r.slots = {s \in d.slots : s[1] # i} \cup {<<i, k>>}
    BY <2>3, <2>4, EntryChunkRead DEF c
  <2>6. r.slots = d.slots \cup {<<i, k>>}
    BY <2>2, <2>5, Reassigned
  <2>7. r.got = d.got \o <<[of |-> k, text |-> 0]>>
    BY <2>2, <2>5
  <2>8. Told(m, d, x, r)
    BY <1>8, <2>2, <2>5, <2>7 DEF Told, Carries
  <2> QED
    BY <1>8, <2>6, <2>8 DEF i, k
<1>9. CASE x.type = "tool_call_delta"
  <2> DEFINE o == OwnerAt(m, i)
             e == [index |-> i, call |-> 0, args |-> t, function |-> TRUE]
             c == CallChunk(e)
  <2>1. EncodeChunk(x) = <<c>>
    BY <1>9 DEF EncodeChunk
  <2>2. /\ o # 0 /\ <<i, o>> \in m.slots
        /\ EventPiece(m, x) = [of |-> o, text |-> t]
    BY <1>9 DEF EventFits, EventPiece
  <2> HIDE DEF i, t, o
  <2>3. e \in ToolCallEntry /\ e.index = i /\ e.call = 0 /\ e.args = t
    BY <1>1 DEF ToolCallEntry
  <2> HIDE DEF e, c
  <2>4. c \in Chunk /\ r = ReadChunk(d, c)
    BY <1>2, <1>3, <2>1
  <2> DEFINE z == 0
  <2> HIDE DEF z
  <2>5. /\ r \in Message /\ r.reason = d.reason
        /\ r.got = d.got \o <<[of |-> IF z # 0 THEN z ELSE OwnerAt(d, i), text |-> t]>>
        /\ z = 0 => r.slots = d.slots
    <3>1. z = e.call
      BY <2>3 DEF z
    <3> QED
      BY <2>3, <2>4, <3>1, EntryChunkRead DEF c
  <2>6. OwnerAt(d, i) = o
    <3>1. <<i, o>>[2] = o
      OBVIOUS
    <3>2. <<i, o>> \in d.slots
      BY <1>9, <2>2, <3>1 DEF CallSlots
    <3>3. Functional(d.slots)
      BY DEF Functional
    <3> QED
      BY <3>2, <3>3, OwnerIs
  <2>7. r.slots = d.slots /\ r.got = d.got \o <<[of |-> o, text |-> t]>>
    BY <2>5, <2>6 DEF z
  <2>8. Told(m, d, x, r)
    BY <1>9, <2>2, <2>5, <2>7 DEF Told, Carries
  <2> QED
    BY <1>9, <2>7, <2>8
<1> QED
  BY <1>1, <1>4, <1>5, <1>6, <1>7, <1>8, <1>9

-----------------------------------------------------------------------------
(* The frames the encoder makes, and an Anthropic client.                  *)

(* An index stands for the owner it was assigned to last.                  *)
LEMMA AssignedOwner ==
    ASSUME NEW m, NEW slots, NEW i, NEW o, m.slots = Assign(slots, i, o)
    PROVE  OwnerAt(m, i) = o
<1> DEFINE new == <<i, o>>
           x == CHOOSE s \in m.slots : s[1] = i
<1>1. new[1] = i /\ new[2] = o
  OBVIOUS
<1> HIDE DEF new
<1>2. new \in m.slots /\ \A s \in m.slots : s[1] = i => s = new
  BY <1>1 DEF Assign, new
<1>3. x \in m.slots /\ x[1] = i
  BY <1>1, <1>2
<1>4. OwnerAt(m, i) = x[2]
  BY <1>1, <1>2 DEF OwnerAt
<1> HIDE DEF x
<1> QED
  BY <1>1, <1>2, <1>3, <1>4

(* The reader d of the frames of the encoder e knows which call the block  *)
(* is of; a call that is still among the events is not the block's yet.    *)
BlockIs(u, e, d, events) ==
    /\ e.hasToolBlock => ~e.hasTextBlock
    /\ e.hasTextBlock => OwnerAt(d, e.blockIndex) = 0
    /\ e.hasToolBlock =>
          Brings(events, "tool_call_start") \/ OwnerAt(d, e.blockIndex) = u.calls

(* A reader reads a block's beginning, a fragment of it, its end.          *)
TookBlock(d, i, k, pieces, r) ==
    /\ r \in Message /\ r.slots = Assign(d.slots, i, k) /\ r.open = d.open \cup {i}
    /\ r.got = d.got \o pieces /\ r.reason = d.reason

(* A block's beginning says what its index stands for.                     *)
LEMMA BeginningTaken ==
    ASSUME NEW d \in Message, NEW f \in Frame, f.kind = "content_block_start",
           NEW i, i = f.index, NEW k, k = f.call, NEW r, r = ReadFrame(d, f)
    PROVE  TookBlock(d, i, k, StartPieces(f), r)
BY BlockStartRead DEF TookBlock

(* So it does for the blocks that the encoder begins.                      *)
LEMMA BeginningRead ==
    ASSUME NEW d \in Message, NEW i \in Nat, NEW k \in Nat,
           NEW b \in {"text", "tool_use"},
           NEW f \in Frame, f = BlockStart(b, i, k),
           NEW r, r = ReadAs("anthropic", d, f)
    PROVE  /\ r \in Message /\ OwnerAt(r, i) = k /\ r.open = d.open \cup {i}
           /\ b = "text" => r.got = d.got
           /\ b = "tool_use" => r.got = d.got \o <<[of |-> k, text |-> 0]>>
           /\ r.reason = d.reason
<1>1. f.kind = "content_block_start"
  BY FrameFields
<1>2. f.index = i
  BY FrameIndexes
<1>3. f.call = k
  BY FrameHolds
<1>4. f.block = b
  BY FrameContents
<1>5. r = ReadFrame(d, f)
  BY DEF ReadAs
<1>6. TookBlock(d, i, k, StartPieces(f), r)
  BY <1>1, <1>2, <1>3, <1>5, BeginningTaken
<1>7. OwnerAt(r, i) = k
  BY <1>6, AssignedOwner DEF TookBlock
<1>8. /\ b = "text" => StartPieces(f) = <<>>
      /\ b = "tool_use" => StartPieces(f) = <<[of |-> k, text |-> 0]>>
  BY <1>3, <1>4 DEF StartPieces
<1>9. d.got \o <<>> = d.got
  BY MessageFields, ConcatEmptySeq
<1>10. /\ b = "text" => r.got = d.got
       /\ b = "tool_use" => r.got = d.got \o <<[of |-> k, text |-> 0]>>
  <2>1. r.got = d.got \o StartPieces(f)
    BY <1>6 DEF TookBlock
  <2> QED
    BY <1>8, <1>9, <2>1
<1>11. r \in Message /\ r.open = d.open \cup {i}
  BY <1>6 DEF TookBlock
<1>12. r.reason = d.reason
  BY <1>6 DEF TookBlock
<1> QED
  BY <1>7, <1>10, <1>11, <1>12

(* A fragment of an open block brings a piece of the block's owner.        *)
LEMMA FragmentRead ==
    ASSUME NEW d \in Message, NEW i \in Nat, NEW t \in Nat, NEW b, i \in d.open,
           NEW o, OwnerAt(d, i) = o,
           NEW f \in Frame, f = BlockDelta(b, i, t),
           NEW r, r = ReadAs("anthropic", d, f)
    PROVE  /\ r \in Message /\ r.got = d.got \o <<[of |-> o, text |-> t]>>
           /\ \A j : OwnerAt(r, j) = OwnerAt(d, j)
           /\ r.reason = d.reason
<1>1. f.kind = "content_block_delta"
  BY FrameFields
<1>2. f.index = i
  BY FrameIndexes
<1>3. f.text = t
  BY FrameHolds
<1>4. r = ReadFrame(d, f)
  BY DEF ReadAs
<1> DEFINE p == [of |-> o, text |-> t]
<1>5. p = [of |-> OwnerOf(d, f.index), text |-> f.text]
  BY <1>2, <1>3 DEF OwnerOf
<1> HIDE DEF p
<1>6. /\ r \in Message /\ r.got = d.got \o <<p>>
      /\ r.slots = d.slots /\ r.open = d.open /\ r.reason = d.reason
  BY <1>1, <1>4, <1>5, DeltaRead
<1>7. \A j : OwnerAt(r, j) = OwnerAt(d, j)
  BY <1>6, SameOwner
<1>8. r.reason = d.reason
  BY <1>6
<1>9. r \in Message /\ r.got = d.got \o <<p>>
  BY <1>6
<1> QED
  BY <1>7, <1>8, <1>9 DEF p

(* The end of a block brings nothing.                                      *)
LEMMA BlockEndRead ==
    ASSUME NEW d \in Message, NEW i, NEW f \in Frame, f = BlockStop(i),
           NEW r, r = ReadAs("anthropic", d, f)
    PROVE  /\ r \in Message /\ r.got = d.got /\ r.reason = d.reason
           /\ \A j : OwnerAt(r, j) = OwnerAt(d, j)
<1>1. f.kind = "content_block_stop" /\ r = ReadFrame(d, f)
  BY FrameFields DEF ReadAs
<1>2. r.slots = d.slots /\ r \in Message /\ r.got = d.got
  BY <1>1, BlockStopRead
<1>3. r.reason = d.reason
  BY <1>1, BlockStopRead
<1> QED
  BY <1>2, <1>3, SameOwner

(* Nor do the beginning and the end of the message.                        *)
LEMMA QuietFrameRead ==
    ASSUME NEW d \in Message, NEW k \in {"message_start", "message_stop"},
           NEW f \in Frame, f = BareFrame(k),
           NEW r, r = ReadAs("anthropic", d, f)
    PROVE  /\ r \in Message /\ r.got = d.got /\ r.reason = d.reason
           /\ \A j : OwnerAt(r, j) = OwnerAt(d, j)
<1>1. f.kind = k /\ r = ReadFrame(d, f)
  BY FrameFields DEF ReadAs
<1>2. r.slots = d.slots /\ r \in Message /\ r.got = d.got
  BY <1>1, QuietRead
<1>3. r.reason = d.reason
  BY <1>1, QuietRead
<1> QED
  BY <1>2, <1>3, SameOwner

(* The message's delta brings the reason.                                  *)
LEMMA WhyRead ==
    ASSUME NEW d \in Message, NEW q, NEW f \in Frame, f = MessageDelta(q),
           NEW r, r = ReadAs("anthropic", d, f)
    PROVE  /\ r \in Message /\ r.got = d.got /\ r.reason = q
           /\ \A j : OwnerAt(r, j) = OwnerAt(d, j)
<1>1. ToldWhy(d, q, r)
  BY ReasonGiven DEF ReadAs
<1> QED
  BY <1>1, SameOwner DEF ToldWhy

(* What a reader takes the open block for is left by an event that begins  *)
(* no call and by frames that assign no index.                             *)
LEMMA BlockKept ==
    ASSUME NEW u, NEW e, NEW d, NEW events \in Seq(AnswerEvent), events # <<>>,
           BlockIs(u, e, d, events), Head(events).type # "tool_call_start",
           NEW r, \A j : OwnerAt(r, j) = OwnerAt(d, j)
    PROVE  BlockIs(u, e, r, Tail(events))
<1>1. Brings(events, "tool_call_start") => Brings(Tail(events), "tool_call_start")
  BY BringsTail
<1> QED
  BY <1>1 DEF BlockIs

(* A sequence of one frame, of two, of three.                              *)
IsOne(s, x) == Len(s) = 1 /\ s[1] = x
AreTwo(s, x, y) == Len(s) = 2 /\ s[1] = x /\ s[2] = y
AreThree(s, x, y, z) == Len(s) = 3 /\ s[1] = x /\ s[2] = y /\ s[3] = z

(* The sequences that the encoder makes.                                   *)
LEMMA FramesMade ==
    ASSUME NEW s
    PROVE  /\ \A x \in Frame : s = <<x>> => IsOne(s, x)
           /\ \A x \in Frame : s = Append(<<>>, x) => IsOne(s, x)
           /\ \A x, y \in Frame : s = Append(<<x>>, y) => AreTwo(s, x, y)
           /\ \A x, y \in Frame : s = <<>> \o <<x, y>> => AreTwo(s, x, y)
           /\ \A x, y, z \in Frame : s = <<x>> \o <<y, z>> => AreThree(s, x, y, z)
BY SmallSequences, OneOrNone DEF IsOne, AreTwo, AreThree

(* Reading them one after the other.                                       *)
LEMMA FramesRead ==
    ASSUME NEW d, NEW s
    PROVE  /\ \A x : IsOne(s, x) => Delivered("anthropic", d, s) = ReadAs("anthropic", d, x)
           /\ \A x, y : AreTwo(s, x, y) =>
                 Delivered("anthropic", d, s) =
                    ReadAs("anthropic", ReadAs("anthropic", d, x), y)
           /\ \A x, y, z : AreThree(s, x, y, z) =>
                 Delivered("anthropic", d, s) =
                    ReadAs("anthropic", ReadAs("anthropic", ReadAs("anthropic", d, x), y), z)
BY DEF IsOne, AreTwo, AreThree, Delivered

(* What a reader has after a block's beginning, after something else that  *)
(* belongs to the answer or to nothing, after the reason.                  *)
Began(d, i, k, pieces, r) ==
    /\ r \in Message /\ OwnerAt(r, i) = k /\ i \in r.open
    /\ r.got = d.got \o pieces /\ r.reason = d.reason
Grew(d, pieces, r) ==
    /\ r \in Message /\ r.got = d.got \o pieces /\ r.reason = d.reason
    /\ \A j : OwnerAt(r, j) = OwnerAt(d, j)
Gave(d, q, r) ==
    /\ r \in Message /\ r.got = d.got /\ r.reason = q
    /\ \A j : OwnerAt(r, j) = OwnerAt(d, j)

(* The beginning of a block.                                               *)
LEMMA BlockBegins ==
    ASSUME NEW d \in Message, NEW i \in Nat, NEW k \in Nat
    PROVE  /\ Began(d, i, 0, <<>>, ReadAs("anthropic", d, BlockStart("text", i, 0)))
           /\ Began(d, i, k, <<[of |-> k, text |-> 0]>>,
                    ReadAs("anthropic", d, BlockStart("tool_use", i, k)))
<1>1. ASSUME NEW b \in {"text", "tool_use"}, NEW n \in Nat
      PROVE  /\ b = "text" =>
                   Began(d, i, n, <<>>, ReadAs("anthropic", d, BlockStart(b, i, n)))
             /\ b = "tool_use" =>
                   Began(d, i, n, <<[of |-> n, text |-> 0]>>,
                         ReadAs("anthropic", d, BlockStart(b, i, n)))
  <2> DEFINE f == BlockStart(b, i, n)
             r == ReadAs("anthropic", d, f)
  <2>1. f \in Frame
    BY FrameTypes
  <2>2. f = BlockStart(b, i, n) /\ r = ReadAs("anthropic", d, f)
    OBVIOUS
  <2> HIDE DEF f, r
  <2>3. \A c \in {"text", "tool_use"} :
           f = BlockStart(c, i, n) /\ r = ReadAs("anthropic", d, f) =>
              /\ r \in Message /\ OwnerAt(r, i) = n /\ r.open = d.open \cup {i}
              /\ c = "text" => r.got = d.got
              /\ c = "tool_use" => r.got = d.got \o <<[of |-> n, text |-> 0]>>
              /\ r.reason = d.reason
    BY <2>1, BeginningRead
  <2>4. d.got \o <<>> = d.got
    BY MessageFields, ConcatEmptySeq
  <2>5. /\ b = "text" => Began(d, i, n, <<>>, r)
        /\ b = "tool_use" => Began(d, i, n, <<[of |-> n, text |-> 0]>>, r)
    BY <2>2, <2>3, <2>4 DEF Began
  <2> QED
    BY <2>5 DEF f, r
<1>2. Began(d, i, 0, <<>>, ReadAs("anthropic", d, BlockStart("text", i, 0)))
  <2>1. 0 \in Nat /\ "text" \in {"text", "tool_use"}
    OBVIOUS
  <2> QED
    BY <1>1, <2>1, Zenon
<1>3. Began(d, i, k, <<[of |-> k, text |-> 0]>>,
            ReadAs("anthropic", d, BlockStart("tool_use", i, k)))
  <2>1. "tool_use" \in {"text", "tool_use"}
    OBVIOUS
  <2> QED
    BY <1>1, <2>1, Zenon
<1> QED
  BY <1>2, <1>3

(* A fragment of an open block.                                            *)
LEMMA BlockGrows ==
    ASSUME NEW d \in Message, NEW i \in Nat, NEW t \in Nat,
           NEW b \in {"text", "tool_use"}, i \in d.open,
           NEW o, OwnerAt(d, i) = o
    PROVE  Grew(d, <<[of |-> o, text |-> t]>>,
                ReadAs("anthropic", d, BlockDelta(b, i, t)))
<1> DEFINE f == BlockDelta(b, i, t)
           r == ReadAs("anthropic", d, f)
<1>1. f \in Frame
  BY FrameTypes
<1>2. f = BlockDelta(b, i, t) /\ r = ReadAs("anthropic", d, f)
  OBVIOUS
<1> HIDE DEF f, r
<1>3. /\ r \in Message /\ r.got = d.got \o <<[of |-> o, text |-> t]>>
      /\ \A j : OwnerAt(r, j) = OwnerAt(d, j)
      /\ r.reason = d.reason
  BY <1>1, <1>2, FragmentRead
<1>4. Grew(d, <<[of |-> o, text |-> t]>>, r)
  BY <1>3 DEF Grew
<1> QED
  BY <1>4 DEF f, r

(* The end of a block, the reason, and what says nothing.                  *)
LEMMA OthersRead ==
    ASSUME NEW d \in Message
    PROVE  /\ \A i \in Nat :
                 Grew(d, <<>>, ReadAs("anthropic", d, BlockStop(i)))
           /\ \A k \in {"message_start", "message_stop"} :
                 Grew(d, <<>>, ReadAs("anthropic", d, BareFrame(k)))
           /\ \A q \in Reasons : Gave(d, q, ReadAs("anthropic", d, MessageDelta(q)))
<1>1. d.got \o <<>> = d.got
  BY MessageFields, ConcatEmptySeq
<1>2. ASSUME NEW r, r \in Message, r.got = d.got, r.reason = d.reason,
             \A j : OwnerAt(r, j) = OwnerAt(d, j)
      PROVE  Grew(d, <<>>, r)
  BY <1>1, <1>2 DEF Grew
<1>3. ASSUME NEW i \in Nat
      PROVE  Grew(d, <<>>, ReadAs("anthropic", d, BlockStop(i)))
  <2> DEFINE f == BlockStop(i)
             r == ReadAs("anthropic", d, f)
  <2>1. f \in Frame
    BY FrameTypes
  <2>2. f = BlockStop(i) /\ r = ReadAs("anthropic", d, f)
    OBVIOUS
  <2> HIDE DEF f, r
  <2>3. /\ r \in Message /\ r.got = d.got /\ r.reason = d.reason
        /\ \A j : OwnerAt(r, j) = OwnerAt(d, j)
    BY <2>1, <2>2, BlockEndRead
  <2>4. Grew(d, <<>>, r)
    BY <1>2, <2>3
  <2> QED
    BY <2>4 DEF f, r
<1>4. ASSUME NEW k \in {"message_start", "message_stop"}
      PROVE  Grew(d, <<>>, ReadAs("anthropic", d, BareFrame(k)))
  <2> DEFINE f == BareFrame(k)
             r == ReadAs("anthropic", d, f)
  <2>1. f \in Frame
    BY BareFrameType
  <2>2. f = BareFrame(k) /\ r = ReadAs("anthropic", d, f)
    OBVIOUS
  <2> HIDE DEF f, r
  <2>3. /\ r \in Message /\ r.got = d.got /\ r.reason = d.reason
        /\ \A j : OwnerAt(r, j) = OwnerAt(d, j)
    BY <2>1, <2>2, QuietFrameRead
  <2>4. Grew(d, <<>>, r)
    BY <1>2, <2>3
  <2> QED
    BY <2>4 DEF f, r
<1>5. ASSUME NEW q \in Reasons
      PROVE  Gave(d, q, ReadAs("anthropic", d, MessageDelta(q)))
  <2> DEFINE f == MessageDelta(q)
             r == ReadAs("anthropic", d, f)
  <2>1. f \in Frame
    BY FrameTypes
  <2>2. f = MessageDelta(q) /\ r = ReadAs("anthropic", d, f)
    OBVIOUS
  <2> HIDE DEF f, r
  <2>3. /\ r \in Message /\ r.got = d.got /\ r.reason = q
        /\ \A j : OwnerAt(r, j) = OwnerAt(d, j)
    BY <2>1, <2>2, WhyRead
  <2>4. Gave(d, q, r)
    BY <2>3 DEF Gave
  <2> QED
    BY <2>4 DEF f, r
<1> QED
  BY <1>3, <1>4, <1>5

(* What a reader has after all the frames that are made of an event.       *)
Took(d, i, k, pieces, r) ==
    /\ r \in Message /\ r.got = d.got \o pieces /\ r.reason = d.reason
    /\ OwnerAt(r, i) = k

(* A fragment of a block goes to the block's owner.                        *)
LEMMA TookMore ==
    ASSUME NEW d \in Message, NEW i \in Nat, NEW t \in Nat,
           NEW b \in {"text", "tool_use"}, i \in d.open,
           NEW o, OwnerAt(d, i) = o
    PROVE  Took(d, i, o, <<[of |-> o, text |-> t]>>,
                ReadAs("anthropic", d, BlockDelta(b, i, t)))
<1>1. \A r : Grew(d, <<[of |-> o, text |-> t]>>, r) =>
                Took(d, i, o, <<[of |-> o, text |-> t]>>, r)
  BY DEF Grew, Took
<1>2. Grew(d, <<[of |-> o, text |-> t]>>,
                ReadAs("anthropic", d, BlockDelta(b, i, t)))
  BY BlockGrows
<1> QED
  BY <1>1, <1>2, Zenon

(* So does the first one of a text.                                        *)
LEMMA TookText ==
    ASSUME NEW d \in Message, NEW i \in Nat, NEW t \in Nat
    PROVE  Took(d, i, 0, <<[of |-> 0, text |-> t]>>,
                ReadAs("anthropic", ReadAs("anthropic", d, BlockStart("text", i, 0)),
                       BlockDelta("text", i, t)))
<1> DEFINE b == ReadAs("anthropic", d, BlockStart("text", i, 0))
           r == ReadAs("anthropic", b, BlockDelta("text", i, t))
           p == <<[of |-> 0, text |-> t]>>
<1>1. Began(d, i, 0, <<>>, b)
  BY BlockBegins
<1> HIDE DEF b
<1>2. b \in Message /\ OwnerAt(b, i) = 0 /\ i \in b.open
  BY <1>1 DEF Began
<1>3. Took(b, i, 0, p, r)
  BY <1>2, TookMore
<1> HIDE DEF r, p
<1>4. d.got \o <<>> = d.got
  BY MessageFields, ConcatEmptySeq
<1>5. Took(d, i, 0, p, r)
  BY <1>1, <1>3, <1>4 DEF Began, Took
<1> QED
  BY <1>5 DEF b, r, p

(* Text goes to the open text block, or begins it.                         *)
LEMMA TextTold ==
    ASSUME NEW d \in Message, NEW e \in Encoder, NEW t \in Nat,
           d.open = BlockOpen(e), e.hasTextBlock => OwnerAt(d, e.blockIndex) = 0,
           NEW s, s = Append(StartText(e), BlockDelta("text", e.blockIndex, t))
    PROVE  Took(d, e.blockIndex, 0, <<[of |-> 0, text |-> t]>>,
                Delivered("anthropic", d, s))
<1>1. /\ e.blockIndex \in Nat
      /\ BlockStart("text", e.blockIndex, 0) \in Frame
      /\ BlockDelta("text", e.blockIndex, t) \in Frame
  BY EncoderFields, FrameTypes
<1>2. CASE e.hasTextBlock
  <2>1. s = Append(<<>>, BlockDelta("text", e.blockIndex, t))
    BY <1>2 DEF StartText
  <2>2. e.blockIndex \in d.open /\ OwnerAt(d, e.blockIndex) = 0
    BY <1>2 DEF BlockOpen, HasBlock
  <2>3. \A x \in Frame : s = Append(<<>>, x) => IsOne(s, x)
    BY FramesMade
  <2>4. Delivered("anthropic", d, s) =
           ReadAs("anthropic", d, BlockDelta("text", e.blockIndex, t))
    BY <1>1, <2>3, <2>1, FramesRead, Zenon
  <2>5. Took(d, e.blockIndex, 0, <<[of |-> 0, text |-> t]>>,
             ReadAs("anthropic", d, BlockDelta("text", e.blockIndex, t)))
    BY <1>1, <2>2, TookMore
  <2> QED
    BY <2>4, <2>5, Zenon
<1>3. CASE ~e.hasTextBlock
  <2>1. s = Append(<<BlockStart("text", e.blockIndex, 0)>>,
                   BlockDelta("text", e.blockIndex, t))
    BY <1>3 DEF StartText
  <2>2. \A x, y \in Frame : s = Append(<<x>>, y) => AreTwo(s, x, y)
    BY FramesMade
  <2>3. AreTwo(s,
                BlockStart("text", e.blockIndex, 0),
                BlockDelta("text", e.blockIndex, t))
    BY <1>1, <2>2, <2>1, Zenon
  <2>4. Delivered("anthropic", d, s) =
           ReadAs("anthropic",
                  ReadAs("anthropic", d, BlockStart("text", e.blockIndex, 0)),
                  BlockDelta("text", e.blockIndex, t))
    BY <2>3, FramesRead
  <2>5. Took(d, e.blockIndex, 0, <<[of |-> 0, text |-> t]>>,
             ReadAs("anthropic",
                    ReadAs("anthropic", d, BlockStart("text", e.blockIndex, 0)),
                    BlockDelta("text", e.blockIndex, t)))
    BY <1>1, TookText
  <2> QED
    BY <2>4, <2>5, Zenon
<1> QED
  BY <1>2, <1>3

(* A call begins a block.                                                  *)
LEMMA TookCall ==
    ASSUME NEW d \in Message, NEW i \in Nat, NEW k \in Nat
    PROVE  /\ Took(d, i, k, <<[of |-> k, text |-> 0]>>,
                   ReadAs("anthropic", d, BlockStart("tool_use", i, k)))
           /\ \A j \in Nat :
                 Took(d, i, k, <<[of |-> k, text |-> 0]>>,
                      ReadAs("anthropic", ReadAs("anthropic", d, BlockStop(j)),
                             BlockStart("tool_use", i, k)))
<1> DEFINE p == <<[of |-> k, text |-> 0]>>
<1>1. \A b \in Message : Took(b, i, k, p, ReadAs("anthropic", b, BlockStart("tool_use", i, k)))
  <2>1. \A b, r : Began(b, i, k, p, r) => Took(b, i, k, p, r)
    BY DEF Began, Took
  <2>2. \A b \in Message : Began(b, i, k, p, ReadAs("anthropic", b, BlockStart("tool_use", i, k)))
    BY BlockBegins
  <2> QED
    BY <2>1, <2>2, Zenon
<1>2. ASSUME NEW j \in Nat
      PROVE  Took(d, i, k, p,
                  ReadAs("anthropic", ReadAs("anthropic", d, BlockStop(j)),
                         BlockStart("tool_use", i, k)))
  <2> DEFINE b == ReadAs("anthropic", d, BlockStop(j))
             r == ReadAs("anthropic", b, BlockStart("tool_use", i, k))
  <2>1. Grew(d, <<>>, b)
    BY OthersRead
  <2> HIDE DEF b, p
  <2>2. b \in Message
    BY <2>1 DEF Grew
  <2>3. Took(b, i, k, p, r)
    BY <1>1, <2>2
  <2> HIDE DEF r
  <2>4. d.got \o <<>> = d.got
    BY MessageFields, ConcatEmptySeq
  <2>5. Took(d, i, k, p, r)
    BY <2>1, <2>3, <2>4 DEF Grew, Took
  <2> QED
    BY <2>5 DEF b, r
<1> QED
  BY <1>1, <1>2

(* A call begins a block, after the end of the one that is open.           *)
LEMMA CallTold ==
    ASSUME NEW d \in Message, NEW e \in Encoder, NEW k \in Nat,
           NEW s, s = Append(StopIfBegun(e), BlockStart("tool_use", ToolIndex(e), k))
    PROVE  Took(d, ToolIndex(e), k, <<[of |-> k, text |-> 0]>>,
                Delivered("anthropic", d, s))
<1>1. /\ e.blockIndex \in Nat /\ ToolIndex(e) \in Nat
      /\ BlockStop(e.blockIndex) \in Frame
      /\ BlockStart("tool_use", ToolIndex(e), k) \in Frame
  BY EncoderFields, FrameTypes
<1>2. CASE ~HasBlock(e)
  <2>1. s = Append(<<>>, BlockStart("tool_use", ToolIndex(e), k))
    BY <1>2 DEF StopIfBegun
  <2>2. \A x \in Frame : s = Append(<<>>, x) => IsOne(s, x)
    BY FramesMade
  <2>3. Delivered("anthropic", d, s) =
           ReadAs("anthropic", d, BlockStart("tool_use", ToolIndex(e), k))
    BY <1>1, <2>2, <2>1, FramesRead, Zenon
  <2>4. Took(d, ToolIndex(e), k, <<[of |-> k, text |-> 0]>>,
             ReadAs("anthropic", d, BlockStart("tool_use", ToolIndex(e), k)))
    BY <1>1, TookCall
  <2> QED
    BY <2>3, <2>4, Zenon
<1>3. CASE HasBlock(e)
  <2>1. s = Append(<<BlockStop(e.blockIndex)>>, BlockStart("tool_use", ToolIndex(e), k))
    BY <1>3 DEF StopIfBegun
  <2>2. \A x, y \in Frame : s = Append(<<x>>, y) => AreTwo(s, x, y)
    BY FramesMade
  <2>3. AreTwo(s,
                BlockStop(e.blockIndex),
                BlockStart("tool_use", ToolIndex(e), k))
    BY <1>1, <2>2, <2>1, Zenon
  <2>4. Delivered("anthropic", d, s) =
           ReadAs("anthropic", ReadAs("anthropic", d, BlockStop(e.blockIndex)),
                  BlockStart("tool_use", ToolIndex(e), k))
    BY <2>3, FramesRead
  <2>5. Took(d, ToolIndex(e), k, <<[of |-> k, text |-> 0]>>,
             ReadAs("anthropic", ReadAs("anthropic", d, BlockStop(e.blockIndex)),
                    BlockStart("tool_use", ToolIndex(e), k)))
    BY <1>1, TookCall
  <2> QED
    BY <2>4, <2>5, Zenon
<1> QED
  BY <1>2, <1>3

(* The end gives the reason, after the end of the block that is open.      *)
LEMMA EndTellsWhy ==
    ASSUME NEW d \in Message, NEW e \in Encoder, NEW q \in Reasons, NEW s,
           s = StopIfBegun(e) \o <<MessageDelta(q), BareFrame("message_stop")>>
    PROVE  Gave(d, q, Delivered("anthropic", d, s))
<1>1. /\ BlockStop(e.blockIndex) \in Frame /\ MessageDelta(q) \in Frame
      /\ BareFrame("message_stop") \in Frame /\ e.blockIndex \in Nat
  BY EncoderFields, FrameTypes, BareFrameType
<1>2. ASSUME NEW b \in Message, b.got = d.got, \A j : OwnerAt(b, j) = OwnerAt(d, j)
      PROVE  Gave(d, q, ReadAs("anthropic", ReadAs("anthropic", b, MessageDelta(q)),
                               BareFrame("message_stop")))
  <2> DEFINE a == ReadAs("anthropic", b, MessageDelta(q))
             r == ReadAs("anthropic", a, BareFrame("message_stop"))
  <2>1. Gave(b, q, a)
    BY OthersRead
  <2> HIDE DEF a
  <2>2. a \in Message
    BY <2>1 DEF Gave
  <2>3. Grew(a, <<>>, r)
    BY <2>2, OthersRead
  <2> HIDE DEF r
  <2>4. a.got \o <<>> = a.got
    BY <2>2, MessageFields, ConcatEmptySeq
  <2>5. Gave(d, q, r)
    BY <1>2, <2>1, <2>3, <2>4 DEF Gave, Grew
  <2> QED
    BY <2>5 DEF a, r
<1>3. CASE ~HasBlock(e)
  <2>1. s = <<>> \o <<MessageDelta(q), BareFrame("message_stop")>>
    BY <1>3 DEF StopIfBegun
  <2>2. \A x, y \in Frame : s = <<>> \o <<x, y>> => AreTwo(s, x, y)
    BY FramesMade
  <2>3. AreTwo(s,
                MessageDelta(q),
                BareFrame("message_stop"))
    BY <1>1, <2>2, <2>1, Zenon
  <2>4. Delivered("anthropic", d, s) =
           ReadAs("anthropic", ReadAs("anthropic", d, MessageDelta(q)),
                  BareFrame("message_stop"))
    BY <2>3, FramesRead
  <2>5. Gave(d, q, ReadAs("anthropic", ReadAs("anthropic", d, MessageDelta(q)),
                          BareFrame("message_stop")))
    BY <1>2
  <2> QED
    BY <2>4, <2>5, Zenon
<1>4. CASE HasBlock(e)
  <2> DEFINE b == ReadAs("anthropic", d, BlockStop(e.blockIndex))
  <2>1. s = <<BlockStop(e.blockIndex)>> \o <<MessageDelta(q), BareFrame("message_stop")>>
    BY <1>4 DEF StopIfBegun
  <2>2. \A x, y, z \in Frame : s = <<x>> \o <<y, z>> => AreThree(s, x, y, z)
    BY FramesMade
  <2>3. AreThree(s,
                  BlockStop(e.blockIndex),
                  MessageDelta(q),
                  BareFrame("message_stop"))
    BY <1>1, <2>2, <2>1, Zenon
  <2>4. Delivered("anthropic", d, s) =
           ReadAs("anthropic", ReadAs("anthropic", b, MessageDelta(q)),
                  BareFrame("message_stop"))
    BY <2>3, FramesRead
  <2>5. Grew(d, <<>>, b)
    BY <1>1, OthersRead
  <2>6. d.got \o <<>> = d.got
    BY MessageFields, ConcatEmptySeq
  <2> HIDE DEF b
  <2>7. b \in Message /\ b.got = d.got /\ \A j : OwnerAt(b, j) = OwnerAt(d, j)
    BY <2>5, <2>6 DEF Grew
  <2>8. Gave(d, q, ReadAs("anthropic", ReadAs("anthropic", b, MessageDelta(q)),
                          BareFrame("message_stop")))
    BY <1>2, <2>7
  <2> QED
    BY <2>4, <2>8, Zenon
<1> QED
  BY <1>3, <1>4

(* The frames the encoder makes of each event.                             *)
LEMMA FramesOf ==
    ASSUME NEW e, NEW x, NEW s, s = EncodeFrames(e, x)
    PROVE  /\ x.type = "stream_start" => s = <<BareFrame("message_start")>>
           /\ x.type = "text_delta" =>
                 s = Append(StartText(e), BlockDelta("text", e.blockIndex, x.text))
           /\ x.type = "tool_call_start" =>
                 s = Append(StopIfBegun(e), BlockStart("tool_use", ToolIndex(e), x.call))
           /\ x.type = "tool_call_delta" =>
                 s = <<BlockDelta("tool_use", e.blockIndex, x.text)>>
           /\ x.type = "stop" =>
                 s = StopIfBegun(e) \o <<MessageDelta(MapFinishReason(x.reason)),
                                         BareFrame("message_stop")>>
           /\ x.type = "usage" => s = <<>>
BY DEF EncodeFrames

(* What the frames that are made of an event tell an Anthropic client, and *)
(* which call the block is of that they leave open.                        *)
Tells(u, m, d, e, events, r) ==
    Told(m, d, Head(events), r)
    /\ BlockIs(u, AfterEncode(e, Head(events)), r, Tail(events))

(* An event that carries nothing and gives no reason.                      *)
LEMMA QuietTells ==
    ASSUME NEW u, NEW m \in Message, NEW d \in Message, NEW e \in Encoder,
           NEW events \in Seq(AnswerEvent), events # <<>>, BlockIs(u, e, d, events),
           Head(events).type \in {"stream_start", "usage"},
           NEW r, r = Delivered("anthropic", d, EncodeFrames(e, Head(events)))
    PROVE  Tells(u, m, d, e, events, r)
<1> DEFINE x == Head(events)
<1>1. d.got \o <<>> = d.got
  BY MessageFields, ConcatEmptySeq
<1>2. Grew(d, <<>>, r)
  <2>1. CASE x.type = "usage"
    <3>1. EncodeFrames(e, x) = <<>>
      BY <2>1, FramesOf
    <3>2. r = d
      BY <3>1, DeliveredCases
    <3> QED
      BY <1>1, <3>2 DEF Grew
  <2>2. CASE x.type = "stream_start"
    <3>1. EncodeFrames(e, x) = <<BareFrame("message_start")>>
      BY <2>2, FramesOf
    <3>2. r = ReadAs("anthropic", d, BareFrame("message_start"))
      <4>1. \A y : Delivered("anthropic", d, <<y>>) = ReadAs("anthropic", d, y)
        BY DeliveredCases
      <4> QED
        BY <3>1, <4>1, Zenon
    <3>3. Grew(d, <<>>, ReadAs("anthropic", d, BareFrame("message_start")))
      BY OthersRead
    <3> QED
      BY <3>2, <3>3, Zenon
  <2> QED
    BY <2>1, <2>2
<1>3. AfterEncode(e, x) = e
  BY EncoderAfter
<1>4. \A j : OwnerAt(r, j) = OwnerAt(d, j)
  BY <1>2 DEF Grew
<1>5. BlockIs(u, e, r, Tail(events))
  BY <1>4, BlockKept
<1>6. Told(m, d, x, r)
  BY <1>1, <1>2 DEF Told, Grew, Carries
<1> QED
  BY <1>3, <1>5, <1>6 DEF Tells

(* Text.                                                                   *)
LEMMA TextTells ==
    ASSUME NEW u, NEW m \in Message, NEW d \in Message, NEW e \in Encoder,
           NEW events \in Seq(AnswerEvent), events # <<>>, BlockIs(u, e, d, events),
           Head(events).type = "text_delta",
           d.open = BlockOpen(e), ~e.hasToolBlock,
           NEW r, r = Delivered("anthropic", d, EncodeFrames(e, Head(events)))
    PROVE  Tells(u, m, d, e, events, r)
<1> DEFINE x == Head(events)
           p == <<[of |-> 0, text |-> x.text]>>
           a == AfterEncode(e, x)
<1>1. x \in AnswerEvent /\ x.text \in Nat
  BY EventFields DEF AnswerEvent
<1>2. EncodeFrames(e, x) = Append(StartText(e), BlockDelta("text", e.blockIndex, x.text))
  BY FramesOf
<1>3. e.hasTextBlock => OwnerAt(d, e.blockIndex) = 0
  BY DEF BlockIs
<1>4. Took(d, e.blockIndex, 0, p, r)
  <2> DEFINE t == x.text
             s == EncodeFrames(e, x)
  <2>1. t \in Nat /\ s = Append(StartText(e), BlockDelta("text", e.blockIndex, t))
        /\ r = Delivered("anthropic", d, s)
    BY <1>1, <1>2
  <2> HIDE DEF t, s
  <2>2. Took(d, e.blockIndex, 0, <<[of |-> 0, text |-> t]>>, Delivered("anthropic", d, s))
    BY <1>3, <2>1, TextTold
  <2> QED
    BY <2>1, <2>2 DEF t
<1>5. EventPiece(m, x) = [of |-> 0, text |-> x.text]
  BY DEF EventPiece
<1>6. Told(m, d, x, r)
  BY <1>4, <1>5 DEF Told, Took, Carries
<1>7. a.blockIndex = e.blockIndex /\ ~a.hasToolBlock
  BY EncoderAfter
<1>8. OwnerAt(r, e.blockIndex) = 0
  BY <1>4 DEF Took
<1> HIDE DEF a, x
<1>9. BlockIs(u, a, r, Tail(events))
  BY <1>7, <1>8 DEF BlockIs
<1> QED
  BY <1>6, <1>9 DEF Tells, a, x

(* The beginning of a call.                                                *)
LEMMA CallTells ==
    ASSUME NEW u, NEW m \in Message, NEW d \in Message, NEW e \in Encoder,
           NEW events \in Seq(AnswerEvent), events # <<>>, PendingFits(u, m, events),
           Head(events).type = "tool_call_start",
           NEW r, r = Delivered("anthropic", d, EncodeFrames(e, Head(events)))
    PROVE  Tells(u, m, d, e, events, r)
<1> DEFINE x == Head(events)
           k == x.call
           p == <<[of |-> k, text |-> 0]>>
           a == AfterEncode(e, x)
<1>1. x \in AnswerEvent /\ k \in Nat /\ events \in Seq(StreamEvent)
  BY EventFields DEF AnswerEvent
<1>2. EncodeFrames(e, x) = Append(StopIfBegun(e), BlockStart("tool_use", ToolIndex(e), k))
  BY FramesOf
<1>3. Took(d, ToolIndex(e), k, p, r)
  <2> DEFINE s == EncodeFrames(e, x)
  <2>1. s = Append(StopIfBegun(e), BlockStart("tool_use", ToolIndex(e), k))
        /\ r = Delivered("anthropic", d, s)
    BY <1>2
  <2> HIDE DEF k, s
  <2>2. Took(d, ToolIndex(e), k, <<[of |-> k, text |-> 0]>>, Delivered("anthropic", d, s))
    BY <1>1, <2>1, CallTold
  <2> QED
    BY <2>1, <2>2
<1>4. EventFits(m, x)
  BY <1>1, RestFits
<1>5. EventPiece(m, x) = [of |-> k, text |-> 0]
  BY <1>4 DEF EventFits, EventPiece
<1>6. Told(m, d, x, r)
  BY <1>3, <1>5 DEF Told, Took, Carries
<1>7. a.blockIndex = ToolIndex(e) /\ ~a.hasTextBlock
  BY DEF AfterEncode
<1>8. OwnerAt(r, ToolIndex(e)) = k
  BY <1>3 DEF Took
<1>9. Brings(Tail(events), "tool_call_start") \/ k = u.calls
  BY <1>1, FirstStarts
<1> HIDE DEF a, x, k
<1>10. BlockIs(u, a, r, Tail(events))
  BY <1>7, <1>8, <1>9 DEF BlockIs
<1> QED
  BY <1>6, <1>10 DEF Tells, a, x

(* Arguments go to the call the open block is of, the backend's last.      *)
LEMMA ArgumentsTell ==
    ASSUME NEW u, NEW m \in Message, NEW d \in Message, NEW e \in Encoder,
           NEW events \in Seq(AnswerEvent), events # <<>>, PendingFits(u, m, events),
           "interleaved_tools" \notin u.quirks, BlockIs(u, e, d, events),
           Head(events).type = "tool_call_delta",
           d.open = BlockOpen(e), e.hasToolBlock,
           NEW r, r = Delivered("anthropic", d, EncodeFrames(e, Head(events)))
    PROVE  Tells(u, m, d, e, events, r)
<1> DEFINE x == Head(events)
           t == x.text
           o == u.calls
           i == e.blockIndex
           a == AfterEncode(e, x)
<1>1. x \in AnswerEvent /\ t \in Nat /\ events \in Seq(StreamEvent) /\ i \in Nat
  BY EventFields, EncoderFields DEF AnswerEvent
<1>2. EncodeFrames(e, x) = <<BlockDelta("tool_use", i, t)>>
  BY FramesOf
<1>3. OwnerAt(m, x.index) = o /\ ~Brings(events, "tool_call_start")
  BY <1>1, FirstStarts
<1>4. OwnerAt(d, i) = o /\ i \in d.open
  BY <1>3 DEF BlockIs, BlockOpen, HasBlock
<1>5. r = ReadAs("anthropic", d, BlockDelta("tool_use", i, t))
  <2>1. \A y : Delivered("anthropic", d, <<y>>) = ReadAs("anthropic", d, y)
    BY DeliveredCases
  <2> QED
    BY <1>2, <2>1, Zenon
<1>6. EventPiece(m, x) = [of |-> o, text |-> t]
  BY <1>3 DEF EventPiece
<1>7. a = e
  BY EncoderAfter
<1> HIDE DEF a, i, t, o
<1>8. Grew(d, <<[of |-> o, text |-> t]>>,
           ReadAs("anthropic", d, BlockDelta("tool_use", i, t)))
  BY <1>1, <1>4, BlockGrows
<1>9. Grew(d, <<[of |-> o, text |-> t]>>, r)
  BY <1>5, <1>8, Zenon
<1>10. Told(m, d, x, r)
  BY <1>6, <1>9 DEF Told, Grew, Carries
<1>11. \A j : OwnerAt(r, j) = OwnerAt(d, j)
  BY <1>9 DEF Grew
<1>12. BlockIs(u, a, r, Tail(events))
  BY <1>7, <1>11, BlockKept
<1> QED
  BY <1>10, <1>12 DEF Tells, a

(* The reason.                                                             *)
LEMMA ReasonTells ==
    ASSUME NEW u, NEW m \in Message, NEW d \in Message, NEW e \in Encoder,
           NEW events \in Seq(AnswerEvent), events # <<>>, PendingFits(u, m, events),
           BlockIs(u, e, d, events), Head(events).type = "stop",
           NEW r, r = Delivered("anthropic", d, EncodeFrames(e, Head(events)))
    PROVE  Tells(u, m, d, e, events, r)
<1> DEFINE x == Head(events)
           q == MapFinishReason(x.reason)
           a == AfterEncode(e, x)
<1>1. x \in AnswerEvent /\ x.reason \in Reasons /\ events \in Seq(StreamEvent)
  <2>1. x \in AnswerEvent /\ AnswerEvent \subseteq StreamEvent
    BY DEF AnswerEvent
  <2> QED
    BY <2>1, EventFields
<1>2. EventFits(m, x)
  BY <1>1, RestFits
<1>3. q \in Reasons /\ SameReason(q, m.reason)
  <2>1. x.reason \in {m.reason, MapStopReason(m.reason)} /\ m.reason \in Reasons
    BY <1>2, MessageFields DEF EventFits
  <2>2. SameReason(q, m.reason)
    BY <2>1, SameReasons
  <2>3. q \in Reasons
    BY <1>1 DEF MapFinishReason, Reasons, FinishReasons, StopReasons
  <2> QED
    BY <2>2, <2>3
<1>4. EncodeFrames(e, x) = StopIfBegun(e) \o <<MessageDelta(q), BareFrame("message_stop")>>
  BY FramesOf
<1>5. Gave(d, q, r)
  <2> DEFINE s == EncodeFrames(e, x)
  <2>1. s = StopIfBegun(e) \o <<MessageDelta(q), BareFrame("message_stop")>>
        /\ r = Delivered("anthropic", d, s)
    BY <1>4
  <2> HIDE DEF q, s
  <2>2. Gave(d, q, Delivered("anthropic", d, s))
    BY <1>3, <2>1, EndTellsWhy
  <2> QED
    BY <2>1, <2>2
<1>6. a = e
  BY EncoderAfter
<1> HIDE DEF a, q
<1>7. Told(m, d, x, r)
  BY <1>3, <1>5 DEF Told, Gave, Carries
<1>8. \A j : OwnerAt(r, j) = OwnerAt(d, j)
  BY <1>5 DEF Gave
<1>9. BlockIs(u, a, r, Tail(events))
  BY <1>6, <1>8, BlockKept
<1> QED
  BY <1>7, <1>9 DEF Tells, a

(* The frames that are made of an event tell an Anthropic client what the  *)
(* event says.                                                             *)
LEMMA FramesTell ==
    ASSUME NEW u, NEW m \in Message, NEW d \in Message, NEW e \in Encoder,
           NEW events \in Seq(AnswerEvent), events # <<>>, PendingFits(u, m, events),
           "interleaved_tools" \notin u.quirks, BlockIs(u, e, d, events),
           Carries(Head(events)) => d.open = BlockOpen(e),
           Head(events).type = "text_delta" => ~e.hasToolBlock,
           Head(events).type = "tool_call_delta" => e.hasToolBlock,
           NEW r, r = Delivered("anthropic", d, EncodeFrames(e, Head(events)))
    PROVE  Tells(u, m, d, e, events, r)
<1>1. Head(events).type \in {"stream_start", "text_delta", "usage", "stop",
                             "tool_call_start", "tool_call_delta"}
  BY DEF AnswerEvent, StreamEvent, StreamEventTypes
<1>2. CASE Head(events).type \in {"stream_start", "usage"}
  BY <1>2, QuietTells
<1>3. CASE Head(events).type = "text_delta"
  BY <1>3, TextTells DEF Carries
<1>4. CASE Head(events).type = "tool_call_start"
  BY <1>4, CallTells
<1>5. CASE Head(events).type = "tool_call_delta"
  BY <1>5, ArgumentsTell DEF Carries
<1>6. CASE Head(events).type = "stop"
  BY <1>6, ReasonTells
<1> QED
  BY <1>1, <1>2, <1>3, <1>4, <1>5, <1>6

-----------------------------------------------------------------------------
(* Reading from the backend.                                               *)

(* When an OpenAI backend begins calls, what it sends does.                *)
LEMMA CallsBegun ==
    ASSUME NEW u \in Backend, NEW v \in Backend, NEW m, NEW r, NEW events,
           SaidFits("openai", u, m), Conveyed("openai", u, m, v, r, events)
    PROVE  v.calls # u.calls => Brings(events, "tool_call_start")
<1> SUFFICES ASSUME ~Brings(events, "tool_call_start") PROVE v.calls = u.calls
  OBVIOUS
<1>1. u.calls \in Nat /\ v.calls \in Nat
  BY BackendNumbers
<1>2. Starts(events) = {}
  BY DEF Starts, Brings
<1>3. m.slots = Numbered(u.calls) /\ r.slots = Numbered(v.calls)
  BY DEF Conveyed, SaidFits
<1>4. CallSlots(r) = CallSlots(m)
  BY <1>2 DEF Conveyed
<1>5. \A n \in Nat, k \in Nat : Numbered(n) \subseteq Numbered(k) => n <= k
  <2> SUFFICES ASSUME NEW n \in Nat, NEW k \in Nat, Numbered(n) \subseteq Numbered(k), n > k
               PROVE  FALSE
    OBVIOUS
  <2>1. n \in 1..n
    OBVIOUS
  <2>2. <<n - 1, n>> \in Numbered(k)
    BY <2>1, NumberedCalls
  <2>3. <<n - 1, n>>[1] < k
    BY <2>2, NumberedCalls
  <2> QED
    BY <2>3
<1>6. \A n \in Nat : \A s \in Numbered(n) : s[2] # 0
  BY NumberedCalls
<1>7. CallSlots(m) = m.slots /\ CallSlots(r) = r.slots
  BY <1>1, <1>3, <1>6 DEF CallSlots
<1>8. u.calls <= v.calls /\ v.calls <= u.calls
  BY <1>1, <1>3, <1>4, <1>5, <1>7
<1> QED
  BY <1>1, <1>8

(* So does what an Anthropic backend sends when it begins one.             *)
LEMMA BlockBegun ==
    ASSUME NEW u \in Backend, NEW s \in AnthropicSends(u),
           s.frame.kind # "message_stop", s.next.calls # u.calls
    PROVE  Brings(DecodeFrame(s.frame), "tool_call_start")
<1>1. u.calls \in Nat
  BY BackendNumbers
<1>2. ToolBlock(u, s)
  BY HandledFrames
  DEF BeginsOrPings, SameBlock, TextBlock, BlockEnds, BlockGoesOn, SaysWhy
<1>3. s.frame.kind = "content_block_start" /\ s.frame.block = "tool_use"
  BY <1>2 DEF ToolBlock, BlockStart, BareFrame
<1>4. DecodeFrame(s.frame) = <<ToolCallStart(s.frame.call, s.frame.index)>>
  BY <1>3 DEF DecodeFrame
<1> QED
  BY <1>4, EventKinds, OneEvent

(* A backend that has given its reason does not go on.                     *)
LEMMA StaysFinished ==
    ASSUME NEW u \in Backend, ~Unending(u.phase),
           NEW s \in OpenAISends(u), s.frame.kind # "done"
    PROVE  ~Unending(s.next.phase)
<1>1. u.phase \in {"finished", "counted", "over"}
  BY DEF Unending, Backend
<1>2. DoneChunk.kind = "done"
  BY ChunkFields DEF DoneChunk
<1>3. s = Send(BareChunk("usage"), [u EXCEPT !.phase = "counted"])
  BY <1>1, <1>2 DEF OpenAISends, Send
<1>4. s.next = [u EXCEPT !.phase = "counted"]
  BY <1>3 DEF Send
<1>5. s.next.phase = "counted"
  BY <1>4, BackendCalls
<1> QED
  BY <1>5 DEF Unending

(* What a read brings backend and direct client to, and what it says.      *)
ReadConveys(s) ==
    /\ up'.quirks = up.quirks
    /\ Continues(said.got, said'.got)
    /\ Unending(up.phase) \/ (said'.got = said.got /\ said'.reason = said.reason)
    /\ IsEnd(s.frame) \/ IsUndecodable(s.frame) =>
          said'.got = said.got /\ said'.reason = said.reason
    /\ ~IsEnd(s.frame) /\ ~IsUndecodable(s.frame) =>
          /\ Conveyed(outbound, up, said, up', said', Decoded(s.frame))
          /\ ~Unending(up.phase) => ~Unending(up'.phase)
          /\ up'.calls # up.calls => Brings(Decoded(s.frame), "tool_call_start")

(* Every read does so, of a backend whose quirks are handled.              *)
LEMMA ReadsConvey ==
    ASSUME TypeOK, FinishesProperly(up.quirks), up.quirks \subseteq Handled(inbound),
           SaidFits(outbound, up, said), BackendFits,
           NEW s \in Sends(outbound, up), Read(s)
    PROVE  ReadConveys(s)
<1>1. /\ up' = s.next /\ said' = ReadAs(outbound, said, s.frame)
      /\ outbound \in Protocols /\ up \in Backend /\ said \in Message
      /\ s.frame \in Frames(outbound) /\ started \in BOOLEAN
      /\ up' \in Backend /\ said' \in Message
  BY ReadType DEF Read, TypeOK
<1>2. up'.quirks = up.quirks
  BY ReadStep
<1>3. Continues(said.got, said'.got)
  BY <1>1, ReadContinues
<1>4. said.got \in Seq(Piece)
  BY <1>1, MessageFields
<1>5. ASSUME s.frame.kind \in {"garbage", "done", "message_stop"}
      PROVE  said'.got = said.got /\ said'.reason = said.reason
  <2>1. CASE outbound = "openai"
    <3>1. said' = ReadChunk(said, s.frame) /\ s.frame.kind \in {"garbage", "done", "message_stop"}
      BY <1>1, <1>5, <2>1 DEF ReadAs
    <3> QED
      BY <1>1, <3>1 DEF ReadChunk, Message
  <2>2. CASE outbound = "anthropic"
    <3>1. said' = ReadFrame(said, s.frame) /\ s.frame \in Frame
      BY <1>1, <2>2 DEF ReadAs, Frames
    <3>2. s.frame.kind \in {"message_stop", "garbage"}
      BY <1>5, <3>1 DEF Frame
    <3> QED
      BY <1>1, <3>1, <3>2, QuietRead
  <2> QED
    BY <1>1, <2>1, <2>2 DEF Protocols
<1>6. IsEnd(s.frame) \/ IsUndecodable(s.frame) =>
         s.frame.kind \in {"garbage", "done", "message_stop"}
  BY DEF IsEnd, IsUndecodable, IsDone, IsStop, IsBadChunk, IsBadFrame
<1>7. CASE IsEnd(s.frame) \/ IsUndecodable(s.frame)
  BY <1>2, <1>3, <1>5, <1>6, <1>7 DEF ReadConveys
<1>8. CASE ~IsEnd(s.frame) /\ ~IsUndecodable(s.frame)
  <2>1. s # Send(BareOf(outbound, "garbage"), Ended(up))
    <3>1. SUFFICES ASSUME s.frame = BareOf(outbound, "garbage") PROVE FALSE
      BY DEF Send
    <3>2. s.frame.kind = "garbage"
      BY <3>1, ChunkFields, FrameFields DEF BareOf
    <3> QED
      BY <1>8, <3>2 DEF IsUndecodable, IsBadChunk, IsBadFrame
  <2>2. SUFFICES /\ Conveyed(outbound, up, said, up', said', Decoded(s.frame))
                 /\ ~Unending(up.phase) => ~Unending(up'.phase)
                 /\ up'.calls # up.calls => Brings(Decoded(s.frame), "tool_call_start")
    BY <1>2, <1>3, <1>8 DEF ReadConveys, Conveyed
  <2>3. CASE outbound = "openai" /\ s \in OpenAISends(up)
    <3>1. /\ s.frame.kind # "done" /\ Decoded(s.frame) = DecodeChunk(started, s.frame)
          /\ said' = ReadChunk(said, s.frame)
      BY <1>1, <1>8, <2>3 DEF IsEnd, IsDone, Decoded, ReadAs
    <3>2. started <=> up.phase # "new"
      BY <2>3 DEF BackendFits
    <3>3. up.quirks \subseteq Handled("openai")
      BY DEF Handled
    <3>4. SaidFits("openai", up, said)
      BY <2>3
    <3>5. Conveyed("openai", up, said, s.next, ReadChunk(said, s.frame),
                   DecodeChunk(started, s.frame))
      BY <1>1, <2>3, <3>1, <3>2, <3>3, <3>4, OpenAIConveys
    <3>6. Conveyed(outbound, up, said, up', said', Decoded(s.frame))
      BY <1>1, <2>3, <3>1, <3>5
    <3>7. up'.calls # up.calls => Brings(Decoded(s.frame), "tool_call_start")
      BY <1>1, <3>1, <3>4, <3>5, CallsBegun
    <3> QED
      BY <1>1, <2>3, <3>1, <3>6, <3>7, StaysFinished
  <2>4. CASE outbound = "anthropic" /\ s \in AnthropicSends(up)
    <3>1. /\ s.frame.kind # "message_stop" /\ Decoded(s.frame) = DecodeFrame(s.frame)
          /\ said' = ReadFrame(said, s.frame)
      BY <1>1, <1>8, <2>4 DEF IsEnd, IsStop, Decoded, ReadAs
    <3>2. SaidFits("anthropic", up, said)
      BY <2>4
    <3>3. Conveyed("anthropic", up, said, s.next, ReadFrame(said, s.frame),
                   DecodeFrame(s.frame))
      BY <1>1, <2>4, <3>1, <3>2, AnthropicConveys
    <3>4. Unending(up.phase)
      BY <1>1, <2>4, <3>1, HandledFrames
    <3>5. up'.calls # up.calls => Brings(Decoded(s.frame), "tool_call_start")
      BY <1>1, <2>4, <3>1, BlockBegun
    <3> QED
      BY <1>1, <2>4, <3>1, <3>3, <3>4, <3>5
  <2> QED
    BY <1>1, <2>1, <2>3, <2>4, ProperSends
<1> QED
  BY <1>7, <1>8

-----------------------------------------------------------------------------
(* The invariant.                                                          *)

(* What a connected client holds when all that was written for it has      *)
(* arrived, with the events in hand, is what a direct client holds.        *)
Due == Delivered(inbound, heard, out)
(* A connected client is as far as the events in hand leave it, and knows  *)
(* the calls and the block they go on with.                                *)
ClientReached ==
    /\ Reaches(said, Due, pending)
    /\ inbound = "openai" => Due.slots \cup Starts(pending) = CallSlots(said)
    /\ inbound = "anthropic" => BlockIs(up, encoder, Due, pending)

(* What holds of the events in hand and of the client while the stream is  *)
(* served.                                                                 *)
StreamFlows ==
    /\ SaidFits(outbound, up, said)
    /\ PendingFits(up, said, pending)
    /\ conn = "up" => ClientReached

(* A client that was told of the end had been given everything.            *)
EndTold ==
    heard.phase = "ended" =>
        /\ heard.got = said.got /\ SameReason(heard.reason, said.reason)
        /\ InStream => ~Unending(up.phase)
(* At the end of HandleStream's loop a connected client has everything.    *)
AllRead ==
    pc = "finish" /\ conn = "up" =>
        heard.got = said.got /\ SameReason(heard.reason, said.reason)

(* The inductive invariant.                                                *)
FlowInv ==
    /\ ClientInv
    /\ up.quirks \subseteq Handled(inbound)
    /\ Transparent
    /\ EndTold
    /\ AllRead
    /\ InStream => StreamFlows

(* A beginning of what went on is a beginning of how it went on.           *)
LEMMA PrefixGrows ==
    ASSUME NEW s \in Seq(Piece), NEW t \in Seq(Piece), NEW w,
           IsPrefix(s, t), Continues(t, w)
    PROVE  IsPrefix(s, w)
BY PrefixKept DEF Continues

(* Nothing in hand is nothing owed.                                        *)
LEMMA NothingPending ==
    ASSUME NEW v, NEW m \in Message
    PROVE  /\ PendingFits(v, m, <<>>) /\ Owed(m, <<>>) = <<>> /\ Starts(<<>>) = {}
           /\ \A t : ~Brings(<<>>, t)
<1>1. Conveys(v, m, <<>>, <<>>, {})
  <2>1. /\ Plain("stream_start").type = "stream_start"
    BY EventKinds
  <2>2. ~Carries(Plain("stream_start")) /\ EventFits(m, Plain("stream_start"))
    BY <2>1 DEF Carries, EventFits
  <2> QED
    BY <2>2, NoPiece
<1> QED
  BY <1>1, OneEvent DEF Conveys

(* Usage is not owed to a client, and does not end a stream.               *)
LEMMA UsageOnly ==
    ASSUME NEW v, NEW m \in Message, NEW events \in Seq(StreamEvent),
           PendingFits(v, m, events),
           \A n \in DOMAIN events : events[n].type = "usage"
    PROVE  Owed(m, events) = <<>> /\ ~Brings(events, "stop")
<1>1. AnswerPart(events) = <<>>
  <2>1. CASE events = <<>>
    BY <2>1 DEF AnswerPart
  <2>2. CASE events # <<>>
    <3>1. /\ Head(events) = events[1] /\ 1 \in DOMAIN events
          /\ Tail(events) \in Seq(StreamEvent) /\ Len(Tail(events)) + 1 = Len(events)
          /\ Len(Tail(events)) \in Nat
          /\ \A i \in 1..Len(Tail(events)) : Tail(events)[i] = events[i + 1]
      BY <2>2, HeadTailProperties
    <3>2. AnswerPart(events) = Tail(events)
      BY <2>2, <3>1 DEF AnswerPart, Carries
    <3>3. ASSUME Len(Tail(events)) > 0 PROVE FALSE
      <4>1. 1 \in DOMAIN Tail(events) /\ 2 \in DOMAIN events /\ Tail(events)[1] = events[2]
        BY <3>1, <3>3
      <4>2. Carries(Tail(events)[1])
        BY <3>2, <4>1 DEF PendingFits
      <4> QED
        BY <4>1, <4>2 DEF Carries
    <3>4. Tail(events) = <<>>
      BY <3>1, <3>3
    <3> QED
      BY <3>2, <3>4
  <2> QED
    BY <2>1, <2>2
<1>2. Owed(m, events) = <<>>
  BY <1>1, FewPieces DEF Owed
<1>3. ~Brings(events, "stop")
  BY DEF Brings
<1> QED
  BY <1>2, <1>3

(* No more than three frames are ever on their way.                        *)
LEMMA FewFrames ==
    ASSUME ClientInv, InStream, conn = "up"
    PROVE  out \in Seq(Frames(inbound)) /\ Len(out) \in Nat /\ Len(out) <= 3
<1>1. out \in Seq(Frames(inbound)) /\ Len(out) \in Nat /\ inbound \in Protocols
  <2>1. out \in Seq(Frames(inbound)) /\ inbound \in Protocols
    BY DEF ClientInv, EndInv, ReportInv, TypeOK
  <2> QED
    BY <2>1
<1>2. StreamFits
  BY DEF ClientInv
<1>3. inbound = "openai" => Len(out) <= 3
  BY <1>1, <1>2 DEF StreamFits, ChunksFit
<1>4. Len(<<>>) = 0
  OBVIOUS
<1>5. inbound = "anthropic" => Len(out) <= 3
  <2> SUFFICES ASSUME inbound = "anthropic" PROVE Len(out) <= 3
    OBVIOUS
  <2>1. GoesOn \/ Ends
    BY <1>2 DEF StreamFits, FramesFit
  <2>2. GoesOn => Len(out) = 0 \/ Len(out) = 1 \/ Len(out) = 2
    BY <1>4 DEF GoesOn, AwaitsNothing, AwaitsStart, AwaitsDelta, AwaitsBlock,
                AwaitsNextBlock
  <2>3. Ends => Len(out) = 0 \/ Len(out) = 1 \/ Len(out) = 2 \/ Len(out) = 3
    BY <1>4 DEF Ends, AwaitsEnd
  <2>4. Len(out) = 0 \/ Len(out) = 1 \/ Len(out) = 2 \/ Len(out) = 3
    BY <2>1, <2>2, <2>3, Zenon
  <2> DEFINE n == Len(out)
  <2>5. n = 0 \/ n = 1 \/ n = 2 \/ n = 3
    BY <2>4, Zenon
  <2> HIDE DEF n
  <2>6. n <= 3
    BY <2>5
  <2> QED
    BY <2>6 DEF n
<1> QED
  BY <1>1, <1>3, <1>5 DEF Protocols

(* The invariant holds when a request is dispatched.                       *)
LEMMA FlowInit ==
    ASSUME \A c \in Clients : QuirksFor[c] \subseteq Handled(c)
    PROVE  Init => FlowInv
<1> SUFFICES ASSUME Init PROVE FlowInv
  OBVIOUS
<1>1. /\ \A c \in Clients : FinishesProperly(QuirksFor[c])
      /\ "anthropic" \in Clients => "text_after_tool" \notin QuirksFor["anthropic"]
  BY DEF FinishesProperly, Handled
<1>2. ClientInv
  BY <1>1, ClientInit
<1>3. /\ up.quirks = QuirksFor[inbound] /\ up.calls = 0 /\ up.block = ""
      /\ inbound \in Clients /\ pc = "dial" /\ encoder = NewEncoder
      /\ pending = <<>> /\ out = <<>> /\ said = NoMessage /\ heard = NoMessage
      /\ said \in Message
  BY <1>2 DEF Init, NewBackend, ClientInv, EndInv, ReportInv, TypeOK
<1>4. /\ said.slots = {} /\ said.open = {} /\ said.got = <<>> /\ said.reason = ""
      /\ said.phase = "before"
  BY <1>3 DEF NoMessage
<1>5. SaidFits(outbound, up, said)
  <2>1. Numbered(0) = {}
    BY DEF Numbered
  <2> QED
    BY <1>3, <1>4, <2>1 DEF SaidFits, Functional
<1>6. /\ PendingFits(up, said, pending) /\ Owed(said, pending) = <<>>
      /\ Starts(pending) = {}
  BY <1>3, NothingPending
<1>7. Due = said
  BY <1>3, DeliveredCases DEF Due
<1>8. <<>> = <<>> \o <<>>
  OBVIOUS
<1>9. ClientReached
  <2>1. Reaches(said, Due, pending)
    BY <1>4, <1>6, <1>7, <1>8 DEF Reaches
  <2>2. CallSlots(said) = {}
    BY <1>4 DEF CallSlots
  <2>3. ~encoder.hasToolBlock /\ ~encoder.hasTextBlock
    BY <1>3 DEF NewEncoder
  <2> QED
    BY <1>4, <1>6, <1>7, <2>1, <2>2, <2>3 DEF ClientReached, BlockIs
<1>10. Transparent
  <2>1. <<>> \in Seq(Piece)
    OBVIOUS
  <2> QED
    BY <1>3, <1>4, <2>1, PrefixOfMore DEF Transparent
<1>11. EndTold /\ AllRead
  BY <1>3, <1>4 DEF EndTold, AllRead
<1>12. up.quirks \subseteq Handled(inbound)
  BY <1>3
<1> QED
  BY <1>2, <1>5, <1>6, <1>9, <1>10, <1>11, <1>12 DEF FlowInv, StreamFlows

(* What a client holds while nothing is on its way or in hand.             *)
LEMMA AllDelivered ==
    ASSUME FlowInv, IsReading, conn = "up"
    PROVE  /\ Due = heard /\ heard.got = said.got
           /\ said.reason # "" => SameReason(heard.reason, said.reason)
           /\ inbound = "openai" => heard.slots = CallSlots(said)
           /\ inbound = "anthropic" => BlockIs(up, encoder, heard, <<>>)
<1>1. InStream /\ pending = <<>> /\ out = <<>> /\ said \in Message /\ heard \in Message
  BY DEF IsReading, InStream, FlowInv, ClientInv, EndInv, ReportInv, TypeOK
<1>2. ClientReached
  BY <1>1 DEF FlowInv, StreamFlows
<1>3. Due = heard
  BY <1>1, DeliveredCases DEF Due
<1>4. Owed(said, pending) = <<>> /\ Starts(pending) = {} /\ ~Brings(pending, "stop")
  BY <1>1, NothingPending
<1>5. heard.got \in Seq(Piece)
  BY <1>1, MessageFields
<1>6. heard.got \o <<>> = heard.got
  BY <1>5
<1> QED
  BY <1>1, <1>2, <1>3, <1>4, <1>6 DEF ClientReached, Reaches

(* What a read of the backend leaves of the invariant.                     *)
LEMMA ReadFlows ==
    ASSUME FlowInv, NEW s \in Sends(outbound, up), Read(s), UNCHANGED heard
    PROVE  /\ ReadConveys(s) /\ Transparent'
           /\ heard.phase = "ended" =>
                 /\ heard.got = said'.got /\ SameReason(heard.reason, said'.reason)
                 /\ ~Unending(up.phase)
<1>1. InStream
  BY DEF Read, IsReading, InStream
<1>2. TypeOK /\ FinishesProperly(up.quirks) /\ BackendFits
  BY <1>1 DEF FlowInv, ClientInv, EndInv, ReportInv, StreamFits
<1>3. ReadConveys(s)
  BY <1>1, <1>2, ReadsConvey DEF FlowInv, StreamFlows
<1>4. heard.got \in Seq(Piece) /\ said.got \in Seq(Piece)
  BY <1>2, MessageFields DEF TypeOK
<1>5. IsPrefix(heard.got, said'.got)
  BY <1>3, <1>4, PrefixGrows DEF ReadConveys, FlowInv, Transparent
<1>6. heard.phase = "ended" =>
         /\ heard.got = said'.got /\ SameReason(heard.reason, said'.reason)
         /\ ~Unending(up.phase)
  BY <1>1, <1>3 DEF ReadConveys, FlowInv, EndTold
<1> QED
  BY <1>3, <1>5, <1>6 DEF Transparent

-----------------------------------------------------------------------------
(* The steps that move the answer.                                         *)

(* Reading events.                                                         *)
LEMMA ReceiveFlows ==
    ASSUME FlowInv, ReceiveEvents
    PROVE  StreamFlows' /\ Transparent' /\ EndTold'
<1>1. PICK s \in Sends(outbound, up) :
         /\ Read(s) /\ ~IsEnd(s.frame) /\ ~IsUndecodable(s.frame)
         /\ pending' = Decoded(s.frame)
  BY DEF ReceiveEvents
<1>2. /\ IsReading /\ InStream /\ pending = <<>> /\ out = <<>>
      /\ UNCHANGED <<inbound, outbound, pc, out, encoder, heard, conn>>
  BY DEF ReceiveEvents, Read, IsReading, InStream, clientVars
<1>3. /\ ReadConveys(s) /\ Transparent'
      /\ heard.phase = "ended" =>
            /\ heard.got = said'.got /\ SameReason(heard.reason, said'.reason)
            /\ ~Unending(up.phase)
  BY <1>1, <1>2, ReadFlows
<1>4. Conveyed(outbound, up, said, up', said', pending')
  BY <1>1, <1>3 DEF ReadConveys
<1>5. EndTold'
  BY <1>1, <1>2, <1>3 DEF EndTold, ReadConveys
<1>6. SaidFits(outbound, up', said') /\ PendingFits(up', said', pending')
  BY <1>4 DEF Conveyed
<1>7. ASSUME conn' = "up" PROVE ClientReached'
  <2>1. /\ heard.got = said.got
        /\ said.reason # "" => SameReason(heard.reason, said.reason)
        /\ inbound = "openai" => heard.slots = CallSlots(said)
        /\ inbound = "anthropic" => BlockIs(up, encoder, heard, <<>>)
    BY <1>2, <1>7, AllDelivered
  <2>2. Due' = heard
    BY <1>2, DeliveredCases DEF Due
  <2>3. Reaches(said', heard, pending')
    BY <1>4, <2>1 DEF Conveyed, Reaches
  <2>4. inbound = "openai" => heard.slots \cup Starts(pending') = CallSlots(said')
    BY <1>4, <2>1 DEF Conveyed
  <2>5. inbound = "anthropic" => BlockIs(up', encoder, heard, pending')
    <3>1. ~Brings(<<>>, "tool_call_start")
      BY OneEvent
    <3>2. up'.calls # up.calls => Brings(pending', "tool_call_start")
      BY <1>1, <1>3 DEF ReadConveys
    <3> QED
      BY <2>1, <3>1, <3>2 DEF BlockIs
  <2> QED
    BY <1>2, <2>2, <2>3, <2>4, <2>5 DEF ClientReached
<1> QED
  BY <1>2, <1>3, <1>5, <1>6, <1>7 DEF StreamFlows

(* Handling an event.                                                      *)
LEMMA HandleFlows ==
    ASSUME FlowInv, HandleEvent
    PROVE  StreamFlows'
<1>1. /\ InStream /\ pending # <<>> /\ out = <<>>
      /\ pending \in Seq(AnswerEvent) /\ pending \in Seq(StreamEvent)
      /\ UNCHANGED <<inbound, outbound, up, said, heard, conn>>
      /\ pending' = Tail(pending) /\ inbound \in Protocols
      /\ said \in Message /\ heard \in Message /\ encoder \in Encoder
  BY DEF HandleEvent, HasEvent, InStream, backendVars, clientVars, FlowInv, ClientInv,
         EndInv, ReportInv, AnswerUnreported, TypeOK
<1>2. /\ SaidFits(outbound, up, said) /\ PendingFits(up, said, pending)
      /\ conn = "up" => ClientReached
      /\ up.quirks \subseteq Handled(inbound) /\ StreamFits
  BY <1>1 DEF FlowInv, ClientInv, StreamFlows
<1> DEFINE x == Head(pending)
           rest == Tail(pending)
<1>3. EventFits(said, x) /\ PendingFits(up, said, rest)
  BY <1>1, <1>2, RestFits
<1>4. x \in AnswerEvent
  BY <1>1
<1>5. ASSUME conn = "up" PROVE ClientReached'
  <2>1. Due = heard
    BY <1>1, DeliveredCases DEF Due
  <2>2. /\ Reaches(said, heard, pending)
        /\ inbound = "openai" => heard.slots \cup Starts(pending) = CallSlots(said)
        /\ inbound = "anthropic" => BlockIs(up, encoder, heard, pending)
    BY <1>2, <1>5, <2>1 DEF ClientReached
  <2>3. Due' = Delivered(inbound, heard, out')
    BY <1>1 DEF Due
  <2>4. CASE inbound = "openai"
    <3>1. out' = EncodeChunk(x)
      BY <2>4 DEF HandleEvent
    <3>2. Due' = Delivered("openai", heard, EncodeChunk(x))
      BY <2>3, <2>4, <3>1
    <3>3. /\ Starts(pending) =
                 Starts(rest) \cup (IF x.type = "tool_call_start"
                                 THEN {<<x.index, x.call>>} ELSE {})
          /\ x.type = "tool_call_delta" => Starts(pending) = {}
      BY <1>1, <1>2, FirstStarts
    <3>4. heard.slots \subseteq said.slots
      BY <2>2, <2>4 DEF CallSlots
    <3>5. x.type = "tool_call_delta" => heard.slots = CallSlots(said)
      BY <2>2, <2>4, <3>3
    <3>6. Functional(said.slots)
      BY <1>2 DEF SaidFits
    <3> HIDE DEF x, rest
    <3>7. /\ Told(said, heard, x, Due')
          /\ Due'.slots = heard.slots \cup (IF x.type = "tool_call_start"
                                            THEN {<<x.index, x.call>>} ELSE {})
      BY <1>1, <1>3, <1>4, <3>2, <3>4, <3>5, <3>6, ChunkTells
    <3>8. Reaches(said, Due', rest)
      <4>1. Told(said, heard, Head(pending), Due')
        BY <3>7 DEF x
      <4>2. Reaches(said, Due', Tail(pending))
        BY <1>1, <1>2, <2>2, <4>1, StillReaches
      <4> QED
        BY <4>2 DEF rest
    <3>9. Due'.slots \cup Starts(rest) = CallSlots(said)
      BY <2>2, <2>4, <3>3, <3>7
    <3>10. pending' = rest
      BY <1>1 DEF rest
    <3> QED
      BY <1>1, <2>4, <3>8, <3>9, <3>10 DEF ClientReached
  <2>5. CASE inbound = "anthropic"
    <3>1. out' = EncodeFrames(encoder, x) /\ encoder' = AfterEncode(encoder, x)
      BY <2>5 DEF HandleEvent
    <3>2. Due' = Delivered("anthropic", heard, EncodeFrames(encoder, x))
      BY <2>3, <2>5, <3>1
    <3>3. EventsFit /\ FramesFit
      BY <1>2, <1>5, <2>5 DEF StreamFits
    <3>4. 1 \in DOMAIN pending /\ pending[1] = x
      BY <1>1
    <3>5. Carries(x) => heard.open = BlockOpen(encoder)
      <4>1. Ends => x.type = "usage"
        BY <3>4 DEF Ends
      <4>2. ~(1 = Len(<<>>)) /\ ~(2 = Len(<<>>))
        OBVIOUS
      <4>3. GoesOn => AwaitsNothing
        BY <1>1, <4>2 DEF GoesOn, AwaitsStart, AwaitsDelta, AwaitsBlock, AwaitsNextBlock
      <4> QED
        BY <3>3, <4>1, <4>3 DEF FramesFit, AwaitsNothing, IsSettled, Carries
    <3>6. \A t : x.type = t => Brings(pending, t)
      BY <3>4 DEF Brings
    <3>7. x.type = "text_delta" => ~encoder.hasToolBlock
      <4>1. x.type = "text_delta" => up.calls = 0
        BY <3>3, <3>6 DEF EventsFit
      <4>2. ~(0 > 0)
        OBVIOUS
      <4> QED
        BY <3>3, <4>1, <4>2 DEF EventsFit
    <3>8. x.type = "tool_call_delta" => encoder.hasToolBlock
      BY <3>3, <3>6 DEF EventsFit
    <3>9. "interleaved_tools" \notin up.quirks
      BY <1>2, <2>5 DEF Handled
    <3>10. Tells(up, said, heard, encoder, pending, Due')
      BY <1>1, <1>2, <2>2, <2>5, <3>2, <3>5, <3>7, <3>8, <3>9, FramesTell
    <3>11. Told(said, heard, Head(pending), Due') /\ BlockIs(up, encoder', Due', Tail(pending))
      BY <3>1, <3>10 DEF Tells
    <3>12. Reaches(said, Due', Tail(pending))
      BY <1>1, <1>2, <2>2, <3>11, StillReaches
    <3> QED
      BY <1>1, <2>5, <3>11, <3>12 DEF ClientReached
  <2> QED
    BY <1>1, <2>4, <2>5 DEF Protocols
<1> QED
  BY <1>1, <1>2, <1>3, <1>5 DEF StreamFlows

(* Writing a frame of a stream.                                            *)
LEMMA WriteFlows ==
    ASSUME FlowInv, ClientInv', WriteFrame, InStream, conn = "up"
    PROVE  StreamFlows' /\ Transparent' /\ EndTold'
<1>1. /\ out # <<>> /\ out' = Tail(out) /\ heard' = ReadAs(inbound, heard, Head(out))
      /\ UNCHANGED <<inbound, outbound, pc, up, said, pending, encoder, conn>>
      /\ inbound \in Protocols /\ said \in Message /\ heard \in Message
      /\ heard' \in Message /\ pending \in Seq(StreamEvent) /\ InStream'
  BY DEF WriteFrame, backendVars, decoderVars, FlowInv, ClientInv, EndInv, ReportInv,
         TypeOK, InStream
<1>2. /\ SaidFits(outbound, up, said) /\ PendingFits(up, said, pending)
      /\ ClientReached
  BY DEF FlowInv, StreamFlows
<1>3. out \in Seq(Frames(inbound)) /\ Len(out) \in Nat /\ Len(out) <= 3
  BY FewFrames DEF FlowInv
<1>4. Due' = Due
  <2>1. Len(out) \in {1, 2, 3}
    <3>1. Len(out) # 0
      BY <1>1, <1>3
    <3>2. \A n \in Nat : n # 0 /\ n <= 3 => n \in {1, 2, 3}
      OBVIOUS
    <3> QED
      BY <1>3, <3>1, <3>2
  <2>2. Delivered(inbound, ReadAs(inbound, heard, Head(out)), Tail(out)) =
           Delivered(inbound, heard, out)
    BY <1>1, <1>3, <2>1, DeliveredOne
  <2> QED
    BY <1>1, <2>2 DEF Due
<1>5. ClientReached'
  BY <1>1, <1>2, <1>4 DEF ClientReached
<1>6. out' \in Seq(Frames(inbound)) /\ Len(out') <= 3
  <2>1. /\ Tail(out) \in Seq(Frames(inbound)) /\ Len(Tail(out)) + 1 = Len(out)
        /\ Len(Tail(out)) \in Nat
    BY <1>1, <1>3, HeadTailProperties
  <2> QED
    BY <1>1, <1>3, <2>1
<1>7. Due \in Message /\ Continues(heard'.got, Due.got)
  <2>1. Due' = Delivered(inbound, heard', out')
    BY <1>1 DEF Due
  <2>2. /\ Delivered(inbound, heard', out') \in Message
        /\ Continues(heard'.got, Delivered(inbound, heard', out').got)
    BY <1>1, <1>6, DeliveredContinues
  <2> QED
    BY <1>4, <2>1, <2>2
<1>8. Transparent'
  <2>1. heard'.got \in Seq(Piece) /\ Due.got \in Seq(Piece)
    BY <1>1, <1>7, MessageFields
  <2>2. IsPrefix(heard'.got, Due.got)
    BY <1>7, <2>1, ContinuesOn
  <2>3. Continues(Due.got, said.got)
    BY <1>1, <1>2, PiecesOfType DEF ClientReached, Reaches, Continues
  <2> QED
    BY <1>1, <2>1, <2>2, <2>3, PrefixGrows DEF Transparent
<1>9. ASSUME heard'.phase = "ended"
      PROVE  /\ heard'.got = said.got /\ SameReason(heard'.reason, said.reason)
             /\ ~Unending(up.phase)
  <2>1. StreamFits' /\ EndInv'
    BY <1>1 DEF ClientInv
  <2>2. said.reason # ""
    BY <1>1, <1>9, <2>1 DEF EndInv, Unfinished
  <2>3. FramesFit'
    <3>1. inbound # "openai"
      BY <1>1, <1>9, <2>1 DEF StreamFits, ChunksFit
    <3> QED
      BY <1>1, <2>1, <3>1 DEF StreamFits, Protocols
  <2>4. ~GoesOn'
    BY <1>9 DEF GoesOn, AwaitsNothing, AwaitsStart, AwaitsDelta, AwaitsBlock,
                AwaitsNextBlock, IsSettled, IsOpen
  <2>5. /\ ~Unending(up.phase) /\ out' = <<>>
        /\ \A n \in DOMAIN pending : pending[n].type = "usage"
    BY <1>1, <1>9, <2>3, <2>4 DEF FramesFit, Ends, AwaitsEnd
  <2>6. Due = heard'
    BY <1>1, <1>4, <2>5, DeliveredCases DEF Due
  <2>7. Owed(said, pending) = <<>> /\ ~Brings(pending, "stop")
    BY <1>1, <1>2, <2>5, UsageOnly
  <2>8. heard'.got \in Seq(Piece)
    BY <1>1, MessageFields
  <2>9. heard'.got \o <<>> = heard'.got
    BY <2>8
  <2>10. Reaches(said, heard', pending)
    BY <1>2, <2>6 DEF ClientReached
  <2>11. said.got = heard'.got /\ SameReason(heard'.reason, said.reason)
    BY <2>2, <2>7, <2>9, <2>10 DEF Reaches
  <2> QED
    BY <2>5, <2>11
<1>10. EndTold'
  BY <1>1, <1>9 DEF EndTold
<1> QED
  BY <1>1, <1>2, <1>5, <1>8, <1>10 DEF StreamFlows

-----------------------------------------------------------------------------
(* All steps, and the theorems.                                            *)

(* [DONE] and the report of an error bring a client nothing but the end.   *)
LEMMA LastWrites ==
    ASSUME FlowInv, WriteFrame, conn = "up", pc \in {"finish", "report"}
    PROVE  /\ heard'.got = heard.got /\ heard'.reason = heard.reason
           /\ pc = "report" => heard'.phase = "failed"
<1>1. /\ heard \in Message /\ inbound \in Protocols /\ out # <<>> /\ ReportHeard
      /\ heard' = ReadAs(inbound, heard, Head(out)) /\ AtFinish
  BY DEF FlowInv, ClientInv, EndInv, ReportInv, TypeOK, WriteFrame
<1>2. DoneChunk.kind = "done" /\ BareOf(inbound, "error").kind = "error"
  BY ChunkFields, FrameFields DEF BareOf, DoneChunk
<1>3. CASE pc = "report" /\ out = <<BareOf(inbound, "error")>> \o DoneFrames
  <2>1. Head(out) = BareOf(inbound, "error")
    BY <1>3, ErrorFrameSequence
  <2>2. heard' = [heard EXCEPT !.phase = "failed"]
    BY <1>1, <1>2, <2>1 DEF ReadAs, ReadChunk, ReadFrame
  <2> QED
    BY <1>1, <1>3, <2>2 DEF Message
<1>4. ASSUME out = DoneFrames
      PROVE  heard' = IF heard.phase = "failed" THEN heard
                      ELSE [heard EXCEPT !.phase = "ended"]
  <2>1. inbound = "openai" /\ Head(out) = DoneChunk
    BY <1>1, <1>4, ErrorFrameSequence
  <2> QED
    BY <1>1, <1>2, <2>1 DEF ReadAs, ReadChunk
<1>5. CASE pc = "report" /\ heard.phase = "failed" /\ out = DoneFrames
  BY <1>4, <1>5
<1>6. CASE pc = "finish"
  <2>1. out = DoneFrames
    BY <1>1, <1>6 DEF AtFinish
  <2>2. heard' = heard \/ heard' = [heard EXCEPT !.phase = "ended"]
    BY <1>4, <2>1
  <2>3. heard'.got = heard.got /\ heard'.reason = heard.reason
    BY <1>1, <2>2 DEF Message
  <2> QED
    BY <1>6, <2>3
<1> QED
  BY <1>1, <1>3, <1>5, <1>6 DEF ReportHeard

(* Every step keeps the invariant.                                         *)
LEMMA FlowNext == FlowInv /\ [Next]_vars => FlowInv'
<1> SUFFICES ASSUME FlowInv, [Next]_vars PROVE FlowInv'
  OBVIOUS
<1>1. ClientInv' /\ ClientInv /\ EndInv' /\ TypeOK
  BY ClientNext DEF FlowInv, ClientInv, EndInv, ReportInv
<1>2. UNCHANGED <<inbound, outbound>>
  BY DEF Next, Handler, Receive, Environment, Terminated, DoStreamSucceeds,
         DoStreamFails, ReceiveEvents, ReceiveEnd, ReceiveUndecodable,
         ReceivePanics, ReadEOF, ReadFails, HandleEvent, HookFails, WriteFrame,
         WriteFails, Fail, Return, BackendCuts, BackendCloses, ClientLeaves,
         NoticeClientGone, vars
<1>3. up'.quirks = up.quirks
  <2>1. CASE Receive
    <3>1. \E s \in Sends(outbound, up) : Read(s)
      BY <2>1 DEF Receive, ReceiveEvents, ReceiveEnd, ReceiveUndecodable, ReceivePanics
    <3>2. FinishesProperly(up.quirks)
      BY <1>1 DEF ClientInv, EndInv
    <3> QED
      BY <1>1, <3>1, <3>2, ReadStep
  <2>2. CASE ~Receive
    BY <2>2 DEF Next, Handler, Environment, Terminated, DoStreamSucceeds,
         DoStreamFails, ReadEOF, ReadFails, HandleEvent, HookFails, WriteFrame,
         WriteFails, Fail, Return, BackendCuts, BackendCloses, ClientLeaves,
         NoticeClientGone, backendVars, vars
  <2> QED
    BY <2>1, <2>2
<1>4. up'.quirks \subseteq Handled(inbound)'
  BY <1>2, <1>3 DEF FlowInv, Handled
<1>5. SUFFICES Transparent' /\ EndTold' /\ AllRead' /\ (InStream' => StreamFlows')
  BY <1>1, <1>2, <1>4 DEF FlowInv, Handled
<1>6. Transparent /\ EndTold /\ AllRead /\ (InStream => StreamFlows)
  BY DEF FlowInv
<1>7. ASSUME UNCHANGED <<said, heard.got, heard.reason>>,
             heard'.phase = "ended" => heard.phase = "ended",
             pc' \notin {"dial", "stream", "finish"}
      PROVE  Transparent' /\ EndTold' /\ AllRead' /\ (InStream' => StreamFlows')
  BY <1>6, <1>7 DEF Transparent, EndTold, AllRead, InStream
<1>8. ASSUME UNCHANGED <<up, said, pending, encoder, out, heard>>,
             conn' = "up" => conn = "up", InStream' => InStream,
             pc' = "finish" => pc = "finish"
      PROVE  Transparent' /\ EndTold' /\ AllRead' /\ (InStream' => StreamFlows')
  <2>1. Transparent' /\ EndTold' /\ AllRead'
    BY <1>6, <1>8 DEF Transparent, EndTold, AllRead
  <2>2. Due' = Due
    BY <1>2, <1>8 DEF Due
  <2>3. InStream' => StreamFlows'
    BY <1>2, <1>6, <1>8, <2>2 DEF StreamFlows, ClientReached
  <2> QED
    BY <2>1, <2>3
<1>9. CASE DoStreamSucceeds \/ Environment \/ UNCHANGED vars
  <2>1. /\ UNCHANGED <<up, said, pending, encoder, out, heard>>
        /\ conn' = "up" => conn = "up"
        /\ (pc = "dial" /\ pc' = "stream") \/ pc' = pc
    BY <1>9 DEF DoStreamSucceeds, Environment, BackendCuts, BackendCloses, ClientLeaves,
                NoticeClientGone, backendVars, decoderVars, clientVars, vars
  <2> QED
    BY <1>8, <2>1 DEF InStream
<1>10. CASE DoStreamFails
  <2>1. /\ pc' = "closed" /\ UNCHANGED said /\ heard \in Message
        /\ heard' = IF conn = "up" THEN [heard EXCEPT !.phase = "failed"] ELSE heard
    BY <1>1, <1>10 DEF DoStreamFails, backendVars, TypeOK
  <2>2. /\ heard'.got = heard.got /\ heard'.reason = heard.reason
        /\ heard'.phase = "ended" => heard.phase = "ended"
    BY <2>1 DEF Message
  <2> QED
    BY <1>7, <2>1, <2>2
<1>11. CASE HookFails \/ ReadFails \/ WriteFails \/ Fail \/ Return
  <2>1. pc' \notin {"dial", "stream", "finish"} /\ UNCHANGED <<said, heard>>
    BY <1>11 DEF HookFails, ReadFails, WriteFails, Fail, Return, backendVars, clientVars
  <2> QED
    BY <1>7, <2>1
<1>12. CASE ReceiveEvents
  <2>1. pc' = "stream"
    BY <1>12 DEF ReceiveEvents, Read, IsReading
  <2> QED
    BY <1>12, <2>1, ReceiveFlows DEF AllRead
<1>13. CASE ReceiveUndecodable \/ ReceivePanics
  <2>1. PICK s \in Sends(outbound, up) : Read(s)
    BY <1>13 DEF ReceiveUndecodable, ReceivePanics
  <2>2. pc' \in {"fail", "panicked"} /\ UNCHANGED heard
    BY <1>13 DEF ReceiveUndecodable, ReceivePanics, clientVars
  <2>3. /\ Transparent'
        /\ heard.phase = "ended" =>
              heard.got = said'.got /\ SameReason(heard.reason, said'.reason)
    BY <2>1, <2>2, ReadFlows
  <2> QED
    BY <2>2, <2>3 DEF EndTold, AllRead, InStream
<1>14. CASE ReceiveEnd
  <2>1. PICK s \in Sends(outbound, up) : Read(s) /\ IsEnd(s.frame)
    BY <1>14 DEF ReceiveEnd
  <2>2. pc' = "finish" /\ IsReading /\ UNCHANGED <<heard, conn>>
    BY <1>14 DEF ReceiveEnd, Read, clientVars
  <2>3. /\ Transparent' /\ ReadConveys(s)
        /\ heard.phase = "ended" =>
              heard.got = said'.got /\ SameReason(heard.reason, said'.reason)
    BY <2>1, <2>2, ReadFlows
  <2>4. said'.got = said.got /\ said'.reason = said.reason
    BY <2>1, <2>3 DEF ReadConveys
  <2>5. said.reason # ""
    BY <1>1, <2>2, <2>4 DEF EndInv, Unfinished
  <2>6. AllRead'
    BY <2>2, <2>4, <2>5, AllDelivered DEF AllRead
  <2> QED
    BY <2>2, <2>3, <2>6 DEF EndTold, InStream
<1>15. CASE ReadEOF
  <2>1. pc' = "finish" /\ IsReading /\ UNCHANGED <<said, heard, conn>>
    BY <1>15 DEF ReadEOF, backendVars, clientVars
  <2>2. said.reason # ""
    BY <1>1, <2>1 DEF EndInv, Unfinished
  <2>3. AllRead'
    BY <2>1, <2>2, AllDelivered DEF AllRead
  <2> QED
    BY <1>6, <2>1, <2>3 DEF Transparent, EndTold, InStream
<1>16. CASE HandleEvent
  <2>1. pc' = "stream" /\ pc = "stream" /\ UNCHANGED <<up, said, heard>>
    BY <1>16 DEF HandleEvent, HasEvent, backendVars, clientVars
  <2> QED
    BY <1>6, <1>16, <2>1, HandleFlows DEF Transparent, EndTold, AllRead, InStream
<1>17. CASE WriteFrame
  <2>1. /\ out # <<>> /\ UNCHANGED <<pc, up, said, pending, encoder, conn>>
        /\ InStream' = InStream
    BY <1>17 DEF WriteFrame, backendVars, decoderVars, InStream
  <2>2. CASE conn # "up"
    <3>1. UNCHANGED heard
      BY <1>17, <2>2 DEF WriteFrame
    <3> QED
      BY <1>2, <1>6, <2>1, <2>2, <3>1
      DEF Transparent, EndTold, AllRead, InStream, StreamFlows
  <2>3. CASE conn = "up" /\ InStream
    BY <1>1, <1>17, <2>1, <2>3, WriteFlows DEF AllRead, InStream
  <2>4. CASE conn = "up" /\ pc \in {"finish", "report"}
    <3>1. /\ heard'.got = heard.got /\ heard'.reason = heard.reason
          /\ pc = "report" => heard'.phase = "failed"
      BY <1>17, <2>4, LastWrites
    <3> QED
      BY <1>6, <2>1, <2>4, <3>1 DEF Transparent, EndTold, AllRead, InStream
  <2>5. pc \in {"dial", "stream", "finish", "report"}
    BY <1>1, <2>1 DEF ClientInv, EndInv, ReportInv, HookCount, TypeOK
  <2> QED
    BY <2>2, <2>3, <2>4, <2>5 DEF InStream
<1> QED
  BY <1>9, <1>10, <1>11, <1>12, <1>13, <1>14, <1>15, <1>16, <1>17
  DEF Next, Handler, Receive, Environment, Terminated

(* The invariant holds throughout.                                         *)
LEMMA FlowAlways ==
    ASSUME \A c \in Clients : QuirksFor[c] \subseteq Handled(c)
    PROVE  Spec => []FlowInv
<1>1. Init => FlowInv
  BY FlowInit
<1> QED
  BY <1>1, FlowNext, PTL DEF Spec

(* What a client has received of an answer is at any moment a beginning of *)
(* what a direct client of the backend would have received: no piece of    *)
(* text or of a tool call is lost, repeated, reordered or given to another *)
(* call between the backend's frames and the client's (both decoders and   *)
(* both encoders of internal/stream, HandleStream's loop, the writer), for *)
(* backends whose quirks the client's encoder handles.                     *)
THEOREM StreamsAreTransparent ==
    ASSUME \A c \in Clients : QuirksFor[c] \subseteq Handled(c)
    PROVE  Spec => []Transparent
<1>1. FlowInv => Transparent
  BY DEF FlowInv
<1> QED
  BY <1>1, FlowAlways, PTL

(* A client that is told that its stream is over has the whole answer and  *)
(* the reason the backend gave, in its own protocol's word (WriteDone,     *)
(* the stop events of both encoders, mapFinishReason, mapStopReason).      *)
THEOREM EndsAreComplete ==
    ASSUME \A c \in Clients : QuirksFor[c] \subseteq Handled(c)
    PROVE  Spec => []CompleteAtEnd
<1>1. FlowInv => CompleteAtEnd
  BY DEF FlowInv, EndTold, CompleteAtEnd
<1> QED
  BY <1>1, FlowAlways, PTL

=============================================================================
