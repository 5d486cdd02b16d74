---------------------------- MODULE StreamProxy ----------------------------
(***************************************************************************)
(* One streamed answer on its way from a backend to a client:              *)
(* handleHTTPStream and handleHTTPStreamError (internal/app/               *)
(* http_adapter.go), HandleStream and HandleError (internal/app/core.go),  *)
(* the SSE writer and the decoder and encoder of the two protocols         *)
(* (internal/stream).                                                      *)
(*                                                                         *)
(* The backend may send, drop or close its connection at any time and the  *)
(* client may leave at any time; the handler goroutine reads a frame, runs *)
(* the stream hooks on each event of it, encodes the event and writes the  *)
(* frames it makes one at a time.  Decoder, encoder and emitter belong to  *)
(* one request, so several streams do not interfere.                       *)
(***************************************************************************)
EXTENDS StreamBackend, SequencesExt

CONSTANTS
    Clients,        \* protocols the routes may take a request in
    QuirksFor       \* the quirks of the backends that serve each

ASSUME StreamProxyAssumption ==
    /\ Clients \subseteq Protocols
    /\ QuirksFor \in [Clients -> SUBSET AllQuirks]

VARIABLES
    inbound,    \* protocol of the route, which the client speaks
    outbound,   \* protocol of the backend
    pc,         \* where handleHTTPStream is
    up,         \* the backend, as far as it has been read
    link,       \* the backend's connection: none, open, cut or eof
    said,       \* what a direct client of the backend would have understood
    started,    \* OpenAIStreamDecoder.started
    pending,    \* events decoded and not yet handled
    encoder,    \* AnthropicStreamEncoder
    out,        \* frames the emitter has still to write
    heard,      \* what the client has understood
    conn,       \* the client's connection: up or gone (closed by either side)
    cancelled,  \* the request's context is cancelled
    errorHooks, \* times the error hooks have run
    body        \* the backend response's body: none, open or closed

backendVars == <<up, link, said>>
decoderVars == <<started, pending>>
clientVars == <<heard, conn, cancelled>>
vars == <<inbound, outbound, pc, backendVars, decoderVars, encoder, out,
          clientVars, errorHooks, body>>

Over == pc \in {"closed", "panicked"}

Init ==
    /\ inbound \in Clients
    /\ outbound \in Protocols
    /\ "completions" \in QuirksFor[inbound] =>
          inbound = "openai" /\ outbound = "openai"
    /\ pc = "dial"
    /\ up = NewBackend(QuirksFor[inbound])
    /\ link = "none"
    /\ said = NoMessage
    /\ started = FALSE
    /\ pending = <<>>
    /\ encoder = NewEncoder
    /\ out = <<>>
    /\ heard = NoMessage
    /\ conn = "up"
    /\ cancelled = FALSE
    /\ errorHooks = 0
    /\ body = "none"

-----------------------------------------------------------------------------
(* The backend answers 200 and NewSSEWriter commits the client's headers.  *)
DoStreamSucceeds ==
    /\ pc = "dial"
    /\ pc' = "stream"
    /\ link' = "open"
    /\ body' = "open"
    /\ UNCHANGED <<inbound, outbound, up, said, decoderVars, encoder, out,
                   clientVars, errorHooks>>

(* It does not: the error hooks run and the client, if it is still there,  *)
(* gets an ordinary error response.                                        *)
DoStreamFails ==
    /\ pc = "dial"
    /\ pc' = "closed"
    /\ errorHooks' = errorHooks + 1
    /\ heard' = IF conn = "up" THEN [heard EXCEPT !.phase = "failed"] ELSE heard
    /\ UNCHANGED <<inbound, outbound, backendVars, decoderVars, encoder, out,
                   conn, cancelled, body>>

-----------------------------------------------------------------------------
(* Reading from the backend, when every event so far has been handled.     *)

IsReading == pc = "stream" /\ pending = <<>> /\ out = <<>>

Decoded(f) ==
    IF outbound = "openai" THEN DecodeChunk(started, f) ELSE DecodeFrame(f)
IsEnd(f) == IF outbound = "openai" THEN IsDone(f) ELSE IsStop(f)
IsUndecodable(f) ==
    IF outbound = "openai" THEN IsBadChunk(f) ELSE IsBadFrame(f)
DecoderPanics(f) == outbound = "openai" /\ Panics(f)

(* The frames WriteDone writes.                                            *)
DoneFrames == IF inbound = "openai" THEN <<DoneChunk>> ELSE <<>>

Read(s) ==
    /\ IsReading
    /\ link = "open"
    /\ up' = s.next
    /\ said' = ReadAs(outbound, said, s.frame)

ReceiveEvents ==
    \E s \in Sends(outbound, up) :
        /\ Read(s)
        /\ ~IsEnd(s.frame) /\ ~IsUndecodable(s.frame) /\ ~DecoderPanics(s.frame)
        /\ pending' = Decoded(s.frame)
        /\ started' = (started \/ outbound = "openai")
        /\ UNCHANGED <<inbound, outbound, pc, link, encoder, out, clientVars,
                       errorHooks, body>>

(* The terminal marker ends the loop of HandleStream, as io.EOF does.      *)
ReceiveEnd ==
    \E s \in Sends(outbound, up) :
        /\ Read(s)
        /\ IsEnd(s.frame)
        /\ pc' = "finish"
        /\ out' = DoneFrames
        /\ UNCHANGED <<inbound, outbound, link, decoderVars, encoder,
                       clientVars, errorHooks, body>>

ReceiveUndecodable ==
    \E s \in Sends(outbound, up) :
        /\ Read(s)
        /\ IsUndecodable(s.frame)
        /\ pc' = "fail"
        /\ UNCHANGED <<inbound, outbound, link, decoderVars, encoder, out,
                       clientVars, errorHooks, body>>

(* Variant: the reader is closed by a call at the end, not a deferred one. *)
ReceivePanicsHoldingBody ==
    \E s \in Sends(outbound, up) :
        /\ Read(s)
        /\ DecoderPanics(s.frame)
        /\ pc' = "panicked"
        /\ conn' = "gone"
        /\ UNCHANGED <<inbound, outbound, link, decoderVars, encoder, out,
                       heard, cancelled, errorHooks, body>>

(* net/http recovers the panic and drops the client's connection; the      *)
(* deferred Close of the reader runs.                                      *)
ReceivePanics ==
    \E s \in Sends(outbound, up) :
        /\ Read(s)
        /\ DecoderPanics(s.frame)
        /\ pc' = "panicked"
        /\ conn' = "gone"
        /\ body' = "closed"
        /\ UNCHANGED <<inbound, outbound, link, decoderVars, encoder, out,
                       heard, cancelled, errorHooks>>

(* The backend's connection fails or is closed in good order.              *)
BackendCuts ==
    /\ link = "open" /\ ~Over
    /\ link' = "cut"
    /\ UNCHANGED <<inbound, outbound, pc, up, said, decoderVars, encoder, out,
                   clientVars, errorHooks, body>>

BackendCloses ==
    /\ link = "open" /\ ~Over
    /\ MayClose(up)
    /\ link' = "eof"
    /\ UNCHANGED <<inbound, outbound, pc, up, said, decoderVars, encoder, out,
                   clientVars, errorHooks, body>>

ReadEOF ==
    /\ IsReading
    /\ link = "eof"
    /\ pc' = "finish"
    /\ out' = DoneFrames
    /\ UNCHANGED <<inbound, outbound, backendVars, decoderVars, encoder,
                   clientVars, errorHooks, body>>

(* Variant: any failed read ends the loop as io.EOF does.                  *)
ReadFailsAsEOF ==
    /\ IsReading
    /\ link = "cut" \/ cancelled
    /\ pc' = "finish"
    /\ out' = DoneFrames
    /\ UNCHANGED <<inbound, outbound, backendVars, decoderVars, encoder,
                   clientVars, errorHooks, body>>

ReadFails ==
    /\ IsReading
    /\ link = "cut" \/ cancelled
    /\ pc' = "fail"
    /\ UNCHANGED <<inbound, outbound, backendVars, decoderVars, encoder, out,
                   clientVars, errorHooks, body>>

-----------------------------------------------------------------------------
(* RunStreamEvent on the next event, then the emitter's WriteEvent.        *)

HasEvent == pc = "stream" /\ pending # <<>> /\ out = <<>>

HandleEvent ==
    /\ HasEvent
    /\ pending' = Tail(pending)
    /\ IF inbound = "openai"
       THEN /\ out' = EncodeChunk(Head(pending))
            /\ UNCHANGED encoder
       ELSE /\ out' = EncodeFrames(encoder, Head(pending))
            /\ encoder' = AfterEncode(encoder, Head(pending))
    /\ UNCHANGED <<inbound, outbound, pc, backendVars, started, clientVars,
                   errorHooks, body>>

(* Variant: a failing stream hook runs the error hooks itself.             *)
HookFailsAndReports ==
    /\ HasEvent
    /\ pc' = "fail"
    /\ errorHooks' = errorHooks + 1
    /\ UNCHANGED <<inbound, outbound, backendVars, decoderVars, encoder, out,
                   clientVars, body>>

HookFails ==
    /\ HasEvent
    /\ pc' = "fail"
    /\ UNCHANGED <<inbound, outbound, backendVars, decoderVars, encoder, out,
                   clientVars, errorHooks, body>>

(* A frame is written and flushed.  http.Flusher reports no error: what a  *)
(* departed client does not get is lost, and net/http cancels the context. *)
WriteFrame ==
    /\ out # <<>>
    /\ out' = Tail(out)
    /\ IF conn = "up"
       THEN /\ heard' = ReadAs(inbound, heard, Head(out))
            /\ UNCHANGED cancelled
       ELSE /\ cancelled' = TRUE
            /\ UNCHANGED heard
    /\ UNCHANGED <<inbound, outbound, pc, backendVars, decoderVars, encoder,
                   conn, errorHooks, body>>

(* A later write fails.  While an error is reported the failure is         *)
(* ignored; otherwise it is the stream's error.                            *)
WriteFails ==
    /\ out # <<>>
    /\ conn = "gone" /\ cancelled
    /\ IF pc = "report"
       THEN /\ out' = Tail(out)
            /\ UNCHANGED pc
       ELSE /\ out' = <<>>
            /\ pc' = "fail"
    /\ UNCHANGED <<inbound, outbound, backendVars, decoderVars, encoder,
                   clientVars, errorHooks, body>>

(* handleHTTPStreamError: the error hooks, an error event, WriteDone.      *)
(* Variant: the error is encoded for Anthropic whatever the client speaks. *)
ErrorFramesOfAnthropic == EncodeFrames(encoder, Plain("error"))

ErrorFrames == IF inbound = "openai" THEN EncodeChunk(Plain("error"))
               ELSE EncodeFrames(encoder, Plain("error"))

(* Variant: the error is logged and the stream just ends.                  *)
FailSilently ==
    /\ pc = "fail"
    /\ errorHooks' = errorHooks + 1
    /\ out' = <<>>
    /\ pc' = "report"
    /\ UNCHANGED <<inbound, outbound, backendVars, decoderVars, encoder,
                   clientVars, body>>

Fail ==
    /\ pc = "fail"
    /\ errorHooks' = errorHooks + 1
    /\ out' = ErrorFrames \o DoneFrames
    /\ pc' = "report"
    /\ UNCHANGED <<inbound, outbound, backendVars, decoderVars, encoder,
                   clientVars, body>>

Return ==
    /\ pc \in {"finish", "report"}
    /\ out = <<>>
    /\ pc' = "closed"
    /\ body' = "closed"
    /\ UNCHANGED <<inbound, outbound, backendVars, decoderVars, encoder, out,
                   clientVars, errorHooks>>

-----------------------------------------------------------------------------
ClientLeaves ==
    /\ conn = "up" /\ ~Over
    /\ conn' = "gone"
    /\ UNCHANGED <<inbound, outbound, pc, backendVars, decoderVars, encoder,
                   out, heard, cancelled, errorHooks, body>>

(* net/http's background read finds the connection gone.                   *)
NoticeClientGone ==
    /\ conn = "gone" /\ ~cancelled /\ ~Over
    /\ cancelled' = TRUE
    /\ UNCHANGED <<inbound, outbound, pc, backendVars, decoderVars, encoder,
                   out, heard, conn, errorHooks, body>>

Terminated == Over /\ UNCHANGED vars

Handler == \/ DoStreamSucceeds \/ DoStreamFails
           \/ ReadEOF \/ ReadFails
           \/ HandleEvent \/ HookFails
           \/ WriteFrame \/ WriteFails
           \/ Fail \/ Return

Receive == \/ ReceiveEvents \/ ReceiveEnd
           \/ ReceiveUndecodable \/ ReceivePanics

Environment == \/ BackendCuts \/ BackendCloses
               \/ ClientLeaves \/ NoticeClientGone

Next == Handler \/ Receive \/ Environment \/ Terminated

Spec == Init /\ [][Next]_vars

(* The handler never waits for itself: a dial ends by its timeouts, a read *)
(* of a connection that is down and a write return, and a client that left *)
(* is noticed.  Nothing makes a backend send: Receive is not fair.         *)
FairSpec == Spec /\ WF_vars(Handler) /\ WF_vars(NoticeClientGone)

-----------------------------------------------------------------------------
TypeOK ==
    /\ inbound \in Protocols
    /\ outbound \in Protocols
    /\ pc \in {"dial", "stream", "finish", "fail", "report", "closed", "panicked"}
    /\ up \in Backend
    /\ link \in {"none", "open", "cut", "eof"}
    /\ said \in Message
    /\ started \in BOOLEAN
    /\ pending \in Seq(StreamEvent)
    /\ encoder \in Encoder
    /\ out \in Seq(Frames(inbound))
    /\ heard \in Message
    /\ conn \in {"up", "gone"}
    /\ cancelled \in BOOLEAN
    /\ errorHooks \in Nat
    /\ body \in {"none", "open", "closed"}

-----------------------------------------------------------------------------
(* The client hears the backend's answer: what it has received, piece by   *)
(* piece and each piece in the text or the tool call it belongs to, is a   *)
(* beginning of what a direct client of the backend would have received.   *)
(* A piece lost, repeated, reordered or given to another call by decoder,  *)
(* queue, encoder or writer breaks it.                                     *)
Transparent == IsPrefix(heard.got, said.got)

(* The two protocols' words for one reason.                                *)
SameReason(r, q) ==
    r = q \/ {r, q} \in {{"stop", "end_turn"}, {"length", "max_tokens"},
                         {"tool_calls", "tool_use"}}

(* A client that is told the stream is over has the whole answer and the   *)
(* reason the backend gave.                                                *)
CompleteAtEnd ==
    heard.phase = "ended" =>
        heard.got = said.got /\ SameReason(heard.reason, said.reason)

(* A stream that the backend did not finish is never passed off as one     *)
(* that ended well.                                                        *)
UnfinishedIsNotEnded == heard.phase = "ended" => said.reason # ""

(* When the handler is done, a client that is still connected knows how    *)
(* its stream ended: well, or with an error.                               *)
NeverSilent ==
    Over /\ conn = "up" => heard.phase \in {"ended", "failed"}

(* The error hooks run once for a stream that fails, before the client is  *)
(* told, and never for one that does not.                                  *)
ErrorHooksOnce ==
    /\ errorHooks <= 1
    /\ heard.phase = "failed" => errorHooks = 1
    /\ pc = "closed" /\ errorHooks = 1 /\ conn = "up" => heard.phase = "failed"

(* The stream a client sees is one that ClientStream allows.               *)
CS == INSTANCE ClientStream
        WITH protocol <- inbound, phase <- heard.phase, open <- heard.open,
             begun <- heard.begun, pieces <- Len(heard.got)

KeepsClientStream == CS!Spec

(* Once the backend's connection is down or the client has left, the       *)
(* handler returns and releases the backend's connection: it never hangs   *)
(* on a stream that cannot go on.                                          *)
HandlerReturns ==
    (link \in {"cut", "eof"} \/ conn = "gone") ~> (Over /\ body # "open")

=============================================================================
