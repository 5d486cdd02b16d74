---------------------------- MODULE GatewayProofs ----------------------------
(***************************************************************************)
(* For any number of hooks and any statuses: the gateway keeps Exchange's  *)
(* promise, frees the backend's connection, and lets the error hooks hear  *)
(* of every error it answers with.                                         *)
(***************************************************************************)
EXTENDS Gateway, TLAPS

(* Before the request is sent, passed counts request hooks; afterwards it  *)
(* counts response hooks, and a stream has none of them.                   *)
HooksInv ==
    /\ sends = 0 => passed <= setup.pre
    /\ sends = 1 => passed <= setup.post
    /\ phase = "body" => passed = 0
    /\ phase \in {"body", "pre"} => sends = 0
    /\ phase \in {"waiting", "receiving", "streaming", "post"} => sends = 1
    /\ phase \notin {"failing", "skipping", "returned"} => ~vetoed
    /\ phase = "streaming" => IsStreamed
    /\ phase \in {"receiving", "post"} => ~IsStreamed

(* Who holds the body of the backend's answer while it is open.            *)
BodyInv ==
    /\ phase = "streaming" => started
    /\ body = "open" =>
          \/ phase \in {"receiving", "streaming"}
          \/ phase = "post" /\ IsPassthrough
          \/ phase \in {"failing", "skipping"} /\ started

(* Error hooks run between a failure and its answer, and nowhere else.     *)
HeardInv ==
    /\ heard > 0 => \/ phase \in {"failing", "skipping"}
                    \/ phase = "returned" /\ answer.error
    /\ phase = "skipping" => heard > 0
    /\ phase = "returned" /\ answer.error /\ setup.errs > 0 => heard > 0

GatewayInv == TypeOK /\ HooksInv /\ BodyInv /\ HeardInv

(* The numbers among the variables, and the rest, in parts small enough    *)
(* for the provers.                                                        *)
Numbers ==
    /\ passed \in 0..MaxHooks
    /\ heard \in 0..MaxHooks
    /\ sends \in 0..1
    /\ failed \in {NoStatus} \cup 200..599
    /\ reply \in BackendStatuses \cup {NoStatus}

Words ==
    /\ phase \in Phases
    /\ vetoed \in BOOLEAN
    /\ body \in {"none", "open", "closed"}
    /\ started \in BOOLEAN
    /\ gone \in BOOLEAN

Records ==
    /\ setup \in Setups
    /\ request \in Requests
    /\ answer \in [status: {NoStatus} \cup 200..599, error: BOOLEAN, bare: BOOLEAN]

(* The type invariant is the three parts together.                         *)
LEMMA TypeParts == TypeOK <=> Numbers /\ Words /\ Records
PROOF BY DEF TypeOK, Numbers, Words, Records

(* And so after a step.                                                    *)
LEMMA TypePartsNext == TypeOK' <=> Numbers' /\ Words' /\ Records'
PROOF BY DEF TypeOK, Numbers, Words, Records

(* The numbers of hooks are within the bound.                              *)
LEMMA HookBounds ==
    ASSUME TypeOK
    PROVE  /\ setup.pre \in 0..MaxHooks
           /\ setup.post \in 0..MaxHooks
           /\ setup.errs \in 0..MaxHooks
PROOF BY DEF TypeOK, Setups

(* The invariant holds at first.                                           *)
LEMMA GatewayInvInit == Init => GatewayInv
PROOF
<1> SUFFICES ASSUME Init PROVE GatewayInv
  OBVIOUS
<1>1. Numbers
  <2>1. 0 \in 0..MaxHooks /\ 0 \in 0..1
    BY GatewayAssumption
  <2>2. /\ passed = 0 /\ heard = 0 /\ sends = 0
        /\ failed = NoStatus /\ reply = NoStatus
    BY DEF Init
  <2> QED BY <2>1, <2>2 DEF Numbers
<1>2. Words
  BY DEF Init, Words, Phases
<1>3. Records
  <2>1. answer \in [status: {NoStatus} \cup 200..599, error: BOOLEAN, bare: BOOLEAN]
    BY DEF Init, NoAnswer
  <2>2. setup \in Setups /\ request \in Requests
    BY DEF Init
  <2> QED BY <2>1, <2>2 DEF Records
<1>4. TypeOK
  BY <1>1, <1>2, <1>3, TypeParts
<1>5. HooksInv
  <2>1. 0 <= setup.pre
    BY <1>4, HookBounds, GatewayAssumption
  <2> QED BY <2>1 DEF Init, HooksInv
<1>6. BodyInv
  BY DEF Init, BodyInv
<1>7. HeardInv
  BY DEF Init, HeardInv
<1> QED BY <1>4, <1>5, <1>6, <1>7 DEF GatewayInv

-----------------------------------------------------------------------------
(* A failure while no answer of the backend is held open.                  *)
LEMMA FailOnlyKeeps ==
    ASSUME GatewayInv, NEW s \in 200..599, FailOnly(s),
           phase \in {"body", "pre", "waiting", "post"}, body # "open"
    PROVE  GatewayInv'
PROOF
<1>1. /\ setup' = setup /\ request' = request /\ phase' = "failing"
      /\ passed' = passed /\ vetoed' = vetoed /\ sends' = sends
      /\ reply' = reply /\ body' = body /\ started' = started
      /\ failed' = s /\ heard' = heard /\ answer' = answer /\ gone' = gone
  BY DEF FailOnly, Fail, Go, input, verdict, exchange, output
<1>2. Numbers /\ Words /\ Records
  BY TypeParts DEF GatewayInv
<1>3. Numbers'
  BY <1>1, <1>2 DEF Numbers
<1>4. Words'
  BY <1>1, <1>2 DEF Words, Phases
<1>5. Records'
  BY <1>1, <1>2 DEF Records
<1>6. HooksInv'
  BY <1>1 DEF GatewayInv, HooksInv
<1>7. BodyInv'
  BY <1>1 DEF GatewayInv, BodyInv
<1>8. HeardInv'
  BY <1>1 DEF GatewayInv, HeardInv
<1> QED BY <1>3, <1>4, <1>5, <1>6, <1>7, <1>8, TypePartsNext DEF GatewayInv

(* A body is open only while the backend's answer is read or relayed, and  *)
(* in a passthrough handler until it returns.                              *)
LEMMA NotOpen ==
    ASSUME GatewayInv,
           \/ phase \in {"body", "pre", "waiting", "returned"}
           \/ phase = "post" /\ ~IsPassthrough
    PROVE  body # "open"
PROOF BY DEF GatewayInv, BodyInv

(* A refusal is an HTTP status.                                            *)
LEMMA RefusalIsStatus == Refusal # NoStatus => Refusal \in 200..599
PROOF
<1>1. Refusal \in {NoStatus, 404, 405, 400}
  BY DEF Refusal
<1> QED BY <1>1

(* The request is refused before any hook has run.                         *)
LEMMA ReadFailureKeeps ==
    ASSUME GatewayInv, BodyUnreadable \/ BodyTooLarge \/ Refuse
    PROVE  GatewayInv'
PROOF
<1>1. PICK s \in {400, 413, Refusal} : s # NoStatus /\ FailOnly(s)
  BY DEF BodyUnreadable, BodyTooLarge, Refuse, NoStatus
<1>2. s \in 200..599
  BY <1>1, RefusalIsStatus
<1>3. phase = "body"
  BY DEF BodyUnreadable, BodyTooLarge, Refuse
<1> QED BY <1>1, <1>2, <1>3, NotOpen, FailOnlyKeeps

(* A request or an answer cannot be encoded, or no answer comes.           *)
LEMMA ExchangeFailureKeeps ==
    ASSUME GatewayInv, Unencodable \/ BackendFails \/ ReplyUnencodable
    PROVE  GatewayInv'
PROOF
<1>1. PICK s \in {400, 500} : FailOnly(s)
  BY DEF Unencodable, BackendFails, ReplyUnencodable
<1>2. s \in 200..599
  BY <1>1
<1>3. \/ phase \in {"pre", "waiting"}
      \/ phase = "post" /\ ~IsPassthrough
  BY DEF Unencodable, BackendFails, ReplyUnencodable
<1>4. body # "open"
  BY <1>3, NotOpen
<1>5. phase \in {"body", "pre", "waiting", "post"}
  BY <1>3
<1> QED BY <1>1, <1>2, <1>4, <1>5, FailOnlyKeeps

(* Handle lets the request through to the hooks.                           *)
LEMMA AcceptKeeps ==
    ASSUME GatewayInv, Accept
    PROVE  GatewayInv'
PROOF
<1>1. /\ phase = "body"
      /\ setup' = setup /\ request' = request /\ phase' = "pre"
      /\ passed' = passed /\ vetoed' = vetoed /\ sends' = sends
      /\ reply' = reply /\ body' = body /\ started' = started
      /\ failed' = failed /\ heard' = heard /\ answer' = answer
      /\ gone' = gone
  BY DEF Accept, Go, input, verdict, exchange, error, output
<1>2. Numbers /\ Words /\ Records
  BY TypeParts DEF GatewayInv
<1>3. Numbers'
  BY <1>1, <1>2 DEF Numbers
<1>4. Words'
  BY <1>1, <1>2 DEF Words, Phases
<1>5. Records'
  BY <1>1, <1>2 DEF Records
<1>6. HooksInv'
  BY <1>1 DEF GatewayInv, HooksInv, IsStreamed, IsPassthrough
<1>7. BodyInv'
  BY <1>1 DEF GatewayInv, BodyInv, IsPassthrough
<1>8. HeardInv'
  BY <1>1 DEF GatewayInv, HeardInv
<1> QED BY <1>3, <1>4, <1>5, <1>6, <1>7, <1>8, TypePartsNext DEF GatewayInv

(* A pre-request hook passes the request or refuses it.                    *)
LEMMA PreRequestHookKeeps ==
    ASSUME GatewayInv, PreRequestHook
    PROVE  GatewayInv'
PROOF
<1>1. \/ passed' = passed + 1 /\ UNCHANGED <<phase, vetoed, failed>>
      \/ Veto /\ UNCHANGED passed
  BY DEF PreRequestHook
<1>2. Numbers /\ Words /\ Records
  BY TypeParts DEF GatewayInv
<1>3. CASE passed' = passed + 1 /\ UNCHANGED <<phase, vetoed, failed>>
  <2>1. /\ phase = "pre" /\ passed < setup.pre
        /\ setup' = setup /\ request' = request /\ phase' = phase
        /\ passed' = passed + 1 /\ vetoed' = vetoed /\ sends' = sends
        /\ reply' = reply /\ body' = body /\ started' = started
        /\ failed' = failed /\ heard' = heard /\ answer' = answer
        /\ gone' = gone
    BY <1>3 DEF PreRequestHook, input, exchange, output
  <2>2. passed + 1 \in 0..MaxHooks
    BY <2>1, <1>2, HookBounds, GatewayAssumption DEF GatewayInv, Numbers
  <2>3. passed + 1 <= setup.pre
    BY <2>1, <1>2, HookBounds, GatewayAssumption DEF GatewayInv, Numbers
  <2>4. Numbers'
    BY <2>1, <1>2, <2>2, <2>3 DEF Numbers
  <2>5. Words'
    BY <2>1, <1>2 DEF Words, Phases
  <2>6. Records'
    BY <2>1, <1>2 DEF Records
  <2>7. HooksInv'
    BY <2>1, <2>2, <2>3 DEF GatewayInv, HooksInv, IsStreamed, IsPassthrough
  <2>8. BodyInv'
    BY <2>1 DEF GatewayInv, BodyInv, IsPassthrough
  <2>9. HeardInv'
    BY <2>1 DEF GatewayInv, HeardInv
  <2> QED BY <2>4, <2>5, <2>6, <2>7, <2>8, <2>9, TypePartsNext DEF GatewayInv
<1>4. CASE Veto /\ UNCHANGED passed
  <2>1. /\ phase = "pre"
        /\ setup' = setup /\ request' = request /\ phase' = "failing"
        /\ passed' = passed /\ vetoed' = TRUE /\ sends' = sends
        /\ reply' = reply /\ body' = body /\ started' = started
        /\ heard' = heard /\ answer' = answer /\ gone' = gone
        /\ failed' \in 200..599
    BY <1>4, GatewayAssumption DEF PreRequestHook, Veto, Fail, Go, input, exchange, output
  <2>2. Numbers'
    BY <2>1, <1>2 DEF Numbers
  <2>3. Words'
    BY <2>1, <1>2 DEF Words, Phases
  <2>4. Records'
    BY <2>1, <1>2 DEF Records
  <2>5. HooksInv'
    BY <2>1 DEF GatewayInv, HooksInv, IsStreamed, IsPassthrough
  <2>6. BodyInv'
    BY <2>1 DEF GatewayInv, BodyInv, IsPassthrough
  <2>7. HeardInv'
    BY <2>1 DEF GatewayInv, HeardInv
  <2> QED BY <2>2, <2>3, <2>4, <2>5, <2>6, <2>7, TypePartsNext DEF GatewayInv
<1> QED BY <1>1, <1>3, <1>4

(* The request is sent once every hook has passed it.                      *)
LEMMA SendKeeps ==
    ASSUME GatewayInv, Send
    PROVE  GatewayInv'
PROOF
<1>1. /\ phase = "pre"
      /\ setup' = setup /\ request' = request /\ phase' = "waiting"
      /\ passed' = 0 /\ vetoed' = vetoed /\ sends' = 1 /\ reply' = reply
      /\ body' = body /\ started' = started /\ failed' = failed
      /\ heard' = heard /\ answer' = answer /\ gone' = gone
  BY DEF Send, Go, input, verdict, exchange, error, output, GatewayInv, HooksInv
<1>2. Numbers /\ Words /\ Records
  BY TypeParts DEF GatewayInv
<1>3. 0 \in 0..MaxHooks /\ 1 \in 0..1
  BY GatewayAssumption
<1>4. 0 <= setup.post
  BY HookBounds, GatewayAssumption DEF GatewayInv
<1>5. Numbers'
  BY <1>1, <1>2, <1>3, <1>4 DEF Numbers
<1>6. Words'
  BY <1>1, <1>2 DEF Words, Phases
<1>7. Records'
  BY <1>1, <1>2 DEF Records
<1>8. HooksInv'
  BY <1>1, <1>3, <1>4 DEF GatewayInv, HooksInv, IsStreamed, IsPassthrough
<1>9. BodyInv'
  BY <1>1 DEF GatewayInv, BodyInv, IsPassthrough
<1>10. HeardInv'
  BY <1>1 DEF GatewayInv, HeardInv
<1> QED BY <1>5, <1>6, <1>7, <1>8, <1>9, <1>10, TypePartsNext DEF GatewayInv

(* An error answer is closed at once.                                      *)
LEMMA BackendRefusesKeeps ==
    ASSUME GatewayInv, BackendRefuses
    PROVE  GatewayInv'
PROOF
<1>1. /\ phase = "waiting"
      /\ setup' = setup /\ request' = request /\ phase' = "failing"
      /\ passed' = passed /\ vetoed' = vetoed /\ sends' = sends
      /\ body' = "closed" /\ started' = started /\ heard' = heard
      /\ answer' = answer /\ gone' = gone
      /\ reply' \in BackendStatuses
      /\ failed' \in 200..599
  BY GatewayAssumption DEF BackendRefuses, Fail, Go, input, verdict, output
<1>2. Numbers /\ Words /\ Records
  BY TypeParts DEF GatewayInv
<1>3. Numbers'
  BY <1>1, <1>2 DEF Numbers
<1>4. Words'
  BY <1>1, <1>2 DEF Words, Phases
<1>5. Records'
  BY <1>1, <1>2 DEF Records
<1>6. HooksInv'
  BY <1>1 DEF GatewayInv, HooksInv, IsStreamed, IsPassthrough
<1>7. BodyInv'
  BY <1>1 DEF GatewayInv, BodyInv, IsPassthrough
<1>8. HeardInv'
  BY <1>1 DEF GatewayInv, HeardInv
<1> QED BY <1>3, <1>4, <1>5, <1>6, <1>7, <1>8, TypePartsNext DEF GatewayInv

(* The body of a good answer is open.                                      *)
LEMMA BackendAcceptsKeeps ==
    ASSUME GatewayInv, BackendAccepts
    PROVE  GatewayInv'
PROOF
<1>1. /\ phase = "waiting"
      /\ setup' = setup /\ request' = request
      /\ phase' = IF IsStreamed THEN "streaming" ELSE "receiving"
      /\ passed' = passed /\ vetoed' = vetoed /\ sends' = sends
      /\ body' = "open" /\ started' = IsStreamed /\ failed' = failed
      /\ heard' = heard /\ answer' = answer /\ gone' = gone
      /\ reply' \in BackendStatuses
  BY DEF BackendAccepts, Go, input, verdict, error
<1>2. Numbers /\ Words /\ Records
  BY TypeParts DEF GatewayInv
<1>3. IsStreamed \in BOOLEAN
  BY <1>2 DEF Records, Requests, IsStreamed, IsPassthrough
<1>4. Numbers'
  BY <1>1, <1>2 DEF Numbers
<1>5. Words'
  BY <1>1, <1>2, <1>3 DEF Words, Phases
<1>6. Records'
  BY <1>1, <1>2 DEF Records
<1>7. HooksInv'
  BY <1>1 DEF GatewayInv, HooksInv, IsStreamed, IsPassthrough
<1>8. BodyInv'
  BY <1>1 DEF GatewayInv, BodyInv, IsStreamed, IsPassthrough
<1>9. HeardInv'
  BY <1>1 DEF GatewayInv, HeardInv
<1> QED BY <1>4, <1>5, <1>6, <1>7, <1>8, <1>9, TypePartsNext DEF GatewayInv

(* The body has been read.                                                 *)
LEMMA ReceiveBodyKeeps ==
    ASSUME GatewayInv, ReceiveBody
    PROVE  GatewayInv'
PROOF
<1>1. /\ phase = "receiving"
      /\ setup' = setup /\ request' = request /\ phase' = "post"
      /\ passed' = passed /\ vetoed' = vetoed /\ sends' = sends
      /\ reply' = reply /\ body' = IF IsPassthrough THEN body ELSE "closed"
      /\ started' = started /\ failed' = failed /\ heard' = heard
      /\ answer' = answer /\ gone' = gone
  BY DEF ReceiveBody, Go, input, verdict, error, output
<1>2. Numbers /\ Words /\ Records
  BY TypeParts DEF GatewayInv
<1>3. passed <= setup.post
  BY <1>1 DEF GatewayInv, HooksInv
<1>4. Numbers'
  BY <1>1, <1>2, <1>3 DEF Numbers
<1>5. Words'
  BY <1>1, <1>2 DEF Words, Phases
<1>6. Records'
  BY <1>1, <1>2 DEF Records
<1>7. HooksInv'
  BY <1>1, <1>3 DEF GatewayInv, HooksInv, IsStreamed, IsPassthrough
<1>8. BodyInv'
  BY <1>1 DEF GatewayInv, BodyInv, IsPassthrough
<1>9. HeardInv'
  BY <1>1 DEF GatewayInv, HeardInv
<1> QED BY <1>4, <1>5, <1>6, <1>7, <1>8, <1>9, TypePartsNext DEF GatewayInv

(* The body could not be read, or made nothing of.                         *)
LEMMA ReceiveFailureKeeps ==
    ASSUME GatewayInv, BodyBreaks \/ ReplyTooLarge \/ ReplyUndecodable
    PROVE  GatewayInv'
PROOF
<1>1. /\ phase = "receiving"
      /\ setup' = setup /\ request' = request /\ phase' = "failing"
      /\ passed' = passed /\ vetoed' = vetoed /\ sends' = sends
      /\ reply' = reply /\ body' = "closed" /\ started' = started
      /\ heard' = heard /\ answer' = answer /\ gone' = gone
      /\ failed' \in {500, 502}
  BY DEF BodyBreaks, ReplyTooLarge, ReplyUndecodable, Fail, Go,
         input, verdict, output
<1>2. Numbers /\ Words /\ Records
  BY TypeParts DEF GatewayInv
<1>3. failed' \in 200..599
  BY <1>1
<1>4. Numbers'
  BY <1>1, <1>2, <1>3 DEF Numbers
<1>5. Words'
  BY <1>1, <1>2 DEF Words, Phases
<1>6. Records'
  BY <1>1, <1>2 DEF Records
<1>7. HooksInv'
  BY <1>1, <1>3 DEF GatewayInv, HooksInv, IsStreamed, IsPassthrough
<1>8. BodyInv'
  BY <1>1 DEF GatewayInv, BodyInv, IsPassthrough
<1>9. HeardInv'
  BY <1>1 DEF GatewayInv, HeardInv
<1> QED BY <1>4, <1>5, <1>6, <1>7, <1>8, <1>9, TypePartsNext DEF GatewayInv

(* A post-response hook passes the answer or refuses it.                   *)
LEMMA PostResponseHookKeeps ==
    ASSUME GatewayInv, PostResponseHook
    PROVE  GatewayInv'
PROOF
<1>1. \/ passed' = passed + 1 /\ UNCHANGED <<phase, vetoed, body, failed>>
      \/ Veto /\ body' = Released /\ UNCHANGED passed
  BY DEF PostResponseHook
<1>2. Numbers /\ Words /\ Records
  BY TypeParts DEF GatewayInv
<1>3. CASE passed' = passed + 1 /\ UNCHANGED <<phase, vetoed, body, failed>>
  <2>1. /\ phase = "post" /\ passed < setup.post
        /\ setup' = setup /\ request' = request /\ phase' = phase
        /\ passed' = passed + 1 /\ vetoed' = vetoed /\ sends' = sends
        /\ reply' = reply /\ body' = body /\ started' = started
        /\ failed' = failed /\ heard' = heard /\ answer' = answer
        /\ gone' = gone
    BY <1>3 DEF PostResponseHook, input, output
  <2>2. passed + 1 \in 0..MaxHooks
    BY <2>1, <1>2, HookBounds, GatewayAssumption DEF GatewayInv, Numbers
  <2>3. passed + 1 <= setup.post
    BY <2>1, <1>2, HookBounds, GatewayAssumption DEF GatewayInv, Numbers
  <2>4. Numbers'
    BY <2>1, <1>2, <2>2, <2>3 DEF Numbers
  <2>5. Words'
    BY <2>1, <1>2 DEF Words, Phases
  <2>6. Records'
    BY <2>1, <1>2 DEF Records
  <2>7. HooksInv'
    BY <2>1, <2>2, <2>3 DEF GatewayInv, HooksInv, IsStreamed, IsPassthrough
  <2>8. BodyInv'
    BY <2>1 DEF GatewayInv, BodyInv, IsPassthrough
  <2>9. HeardInv'
    BY <2>1 DEF GatewayInv, HeardInv
  <2> QED BY <2>4, <2>5, <2>6, <2>7, <2>8, <2>9, TypePartsNext DEF GatewayInv
<1>4. CASE Veto /\ body' = Released /\ UNCHANGED passed
  <2>1. /\ phase = "post"
        /\ setup' = setup /\ request' = request /\ phase' = "failing"
        /\ passed' = passed /\ vetoed' = TRUE /\ sends' = sends
        /\ reply' = reply /\ body' = Released /\ started' = started
        /\ heard' = heard /\ answer' = answer /\ gone' = gone
        /\ failed' \in 200..599
    BY <1>4, GatewayAssumption DEF PostResponseHook, Veto, Fail, Go, input, output
  <2>2. Numbers'
    BY <2>1, <1>2 DEF Numbers
  <2>3. Words'
    BY <2>1, <1>2 DEF Words, Phases, Released
  <2>4. Records'
    BY <2>1, <1>2 DEF Records
  <2>5. HooksInv'
    BY <2>1 DEF GatewayInv, HooksInv, IsStreamed, IsPassthrough
  <2>6. BodyInv'
    BY <2>1 DEF GatewayInv, BodyInv, IsPassthrough, Released
  <2>7. HeardInv'
    BY <2>1 DEF GatewayInv, HeardInv
  <2> QED BY <2>2, <2>3, <2>4, <2>5, <2>6, <2>7, TypePartsNext DEF GatewayInv
<1> QED BY <1>1, <1>3, <1>4

(* The answer is written.                                                  *)
LEMMA RespondKeeps ==
    ASSUME GatewayInv, Respond
    PROVE  GatewayInv'
PROOF
<1>1. /\ phase = "post"
      /\ setup' = setup /\ request' = request /\ phase' = "returned"
      /\ passed' = passed /\ vetoed' = vetoed /\ sends' = sends
      /\ reply' = reply /\ body' = Released /\ started' = started
      /\ failed' = failed /\ heard' = heard /\ gone' = gone
      /\ answer' = Written(IF IsPassthrough THEN reply ELSE 200, FALSE)
  BY DEF Respond, Go, input, verdict, error
<1>2. Numbers /\ Words /\ Records
  BY TypeParts DEF GatewayInv
<1>3. Numbers'
  BY <1>1, <1>2 DEF Numbers
<1>4. Words'
  BY <1>1, <1>2 DEF Words, Phases, Released
<1>5. answer' \in [status: {NoStatus} \cup 200..599, error: BOOLEAN, bare: BOOLEAN]
  BY <1>1, <1>2, GatewayAssumption DEF Numbers, Written
<1>6. Records'
  BY <1>1, <1>2, <1>5 DEF Records
<1>7. HooksInv'
  BY <1>1 DEF GatewayInv, HooksInv, IsStreamed, IsPassthrough
<1>8. BodyInv'
  BY <1>1 DEF GatewayInv, BodyInv, IsPassthrough, Released
<1>9. HeardInv'
  BY <1>1 DEF GatewayInv, HeardInv, Written
<1> QED BY <1>3, <1>4, <1>6, <1>7, <1>8, <1>9, TypePartsNext DEF GatewayInv

(* A stream ends well.                                                     *)
LEMMA StreamEndsKeeps ==
    ASSUME GatewayInv, StreamEnds
    PROVE  GatewayInv'
PROOF
<1>1. /\ phase = "streaming"
      /\ setup' = setup /\ request' = request /\ phase' = "returned"
      /\ passed' = passed /\ vetoed' = vetoed /\ sends' = sends
      /\ reply' = reply /\ body' = "closed" /\ started' = started
      /\ failed' = failed /\ heard' = heard
      /\ answer' = Written(200, FALSE) /\ gone' = gone
  BY DEF StreamEnds, Go, input, verdict, error
<1>2. Numbers /\ Words /\ Records
  BY TypeParts DEF GatewayInv
<1>3. Numbers'
  BY <1>1, <1>2 DEF Numbers
<1>4. Words'
  BY <1>1, <1>2 DEF Words, Phases
<1>5. answer' \in [status: {NoStatus} \cup 200..599, error: BOOLEAN, bare: BOOLEAN]
  BY <1>1 DEF Written
<1>6. Records'
  BY <1>1, <1>2, <1>5 DEF Records
<1>7. HooksInv'
  BY <1>1 DEF GatewayInv, HooksInv, IsStreamed, IsPassthrough
<1>8. BodyInv'
  BY <1>1 DEF GatewayInv, BodyInv, IsPassthrough
<1>9. HeardInv'
  BY <1>1 DEF GatewayInv, HeardInv, Written
<1> QED BY <1>3, <1>4, <1>6, <1>7, <1>8, <1>9, TypePartsNext DEF GatewayInv

(* A stream fails.                                                         *)
LEMMA StreamFailsKeeps ==
    ASSUME GatewayInv, StreamFails
    PROVE  GatewayInv'
PROOF
<1>1. \/ Fail(500) /\ UNCHANGED vetoed
      \/ Veto
  BY DEF StreamFails
<1>2. Numbers /\ Words /\ Records
  BY TypeParts DEF GatewayInv
<1>3. CASE Fail(500) /\ UNCHANGED vetoed
  <2>1. /\ phase = "streaming"
        /\ setup' = setup /\ request' = request /\ phase' = "failing"
        /\ passed' = passed /\ vetoed' = vetoed /\ sends' = sends
        /\ reply' = reply /\ body' = body /\ started' = started
        /\ failed' = 500 /\ heard' = heard /\ answer' = answer
        /\ gone' = gone
    BY <1>3 DEF StreamFails, Fail, Go, input, exchange, output
  <2>2. 500 \in 200..599
    OBVIOUS
  <2>3. Numbers'
    BY <2>1, <1>2, <2>2 DEF Numbers
  <2>4. Words'
    BY <2>1, <1>2 DEF Words, Phases
  <2>5. Records'
    BY <2>1, <1>2 DEF Records
  <2>6. HooksInv'
    BY <2>1, <2>2 DEF GatewayInv, HooksInv, IsStreamed, IsPassthrough
  <2>7. BodyInv'
    BY <2>1 DEF GatewayInv, BodyInv, IsPassthrough
  <2>8. HeardInv'
    BY <2>1 DEF GatewayInv, HeardInv
  <2> QED BY <2>3, <2>4, <2>5, <2>6, <2>7, <2>8, TypePartsNext DEF GatewayInv
<1>4. CASE Veto
  <2>1. /\ phase = "streaming"
        /\ setup' = setup /\ request' = request /\ phase' = "failing"
        /\ passed' = passed /\ vetoed' = TRUE /\ sends' = sends
        /\ reply' = reply /\ body' = body /\ started' = started
        /\ heard' = heard /\ answer' = answer /\ gone' = gone
        /\ failed' \in 200..599
    BY <1>4, GatewayAssumption DEF StreamFails, Veto, Fail, Go, input, exchange, output
  <2>2. Numbers'
    BY <2>1, <1>2 DEF Numbers
  <2>3. Words'
    BY <2>1, <1>2 DEF Words, Phases
  <2>4. Records'
    BY <2>1, <1>2 DEF Records
  <2>5. HooksInv'
    BY <2>1 DEF GatewayInv, HooksInv, IsStreamed, IsPassthrough
  <2>6. BodyInv'
    BY <2>1 DEF GatewayInv, BodyInv, IsPassthrough
  <2>7. HeardInv'
    BY <2>1 DEF GatewayInv, HeardInv
  <2> QED BY <2>2, <2>3, <2>4, <2>5, <2>6, <2>7, TypePartsNext DEF GatewayInv
<1> QED BY <1>1, <1>3, <1>4

(* An error hook has run.                                                  *)
LEMMA ErrorHookKeeps ==
    ASSUME GatewayInv, ErrorHook
    PROVE  GatewayInv'
PROOF
<1>1. \/ failed' \in {failed} \cup HookStatuses /\ UNCHANGED phase
      \/ Go("skipping") /\ UNCHANGED failed
  BY DEF ErrorHook
<1>2. Numbers /\ Words /\ Records
  BY TypeParts DEF GatewayInv
<1>3. CASE failed' \in {failed} \cup HookStatuses /\ UNCHANGED phase
  <2>1. /\ phase = "failing" /\ heard < setup.errs
        /\ setup' = setup /\ request' = request /\ phase' = phase
        /\ passed' = passed /\ vetoed' = vetoed /\ sends' = sends
        /\ reply' = reply /\ body' = body /\ started' = started
        /\ heard' = heard + 1 /\ answer' = answer /\ gone' = gone
        /\ failed' \in {failed} \cup HookStatuses
    BY <1>3 DEF ErrorHook, input, verdict, exchange, output
  <2>2. heard + 1 \in 0..MaxHooks /\ heard + 1 > 0
    BY <2>1, <1>2, HookBounds, GatewayAssumption DEF GatewayInv, Numbers
  <2>3. HookStatuses \subseteq 200..599
    BY GatewayAssumption
  <2>4. failed' \in {NoStatus} \cup 200..599
    BY <2>1, <1>2, <2>3 DEF Numbers
  <2>5. Numbers'
    BY <2>1, <1>2, <2>2, <2>3, <2>4 DEF Numbers
  <2>6. Words'
    BY <2>1, <1>2 DEF Words, Phases
  <2>7. Records'
    BY <2>1, <1>2 DEF Records
  <2>8. HooksInv'
    BY <2>1, <2>2, <2>3, <2>4 DEF GatewayInv, HooksInv, IsStreamed, IsPassthrough
  <2>9. BodyInv'
    BY <2>1 DEF GatewayInv, BodyInv, IsPassthrough
  <2>10. HeardInv'
    BY <2>1, <2>2 DEF GatewayInv, HeardInv
  <2> QED BY <2>5, <2>6, <2>7, <2>8, <2>9, <2>10, TypePartsNext DEF GatewayInv
<1>4. CASE Go("skipping") /\ UNCHANGED failed
  <2>1. /\ phase = "failing" /\ heard < setup.errs
        /\ setup' = setup /\ request' = request /\ phase' = "skipping"
        /\ passed' = passed /\ vetoed' = vetoed /\ sends' = sends
        /\ reply' = reply /\ body' = body /\ started' = started
        /\ failed' = failed /\ heard' = heard + 1 /\ answer' = answer
        /\ gone' = gone
    BY <1>4 DEF ErrorHook, Go, input, verdict, exchange, output
  <2>2. heard + 1 \in 0..MaxHooks /\ heard + 1 > 0
    BY <2>1, <1>2, HookBounds, GatewayAssumption DEF GatewayInv, Numbers
  <2>3. Numbers'
    BY <2>1, <1>2, <2>2 DEF Numbers
  <2>4. Words'
    BY <2>1, <1>2 DEF Words, Phases
  <2>5. Records'
    BY <2>1, <1>2 DEF Records
  <2>6. HooksInv'
    BY <2>1, <2>2 DEF GatewayInv, HooksInv, IsStreamed, IsPassthrough
  <2>7. BodyInv'
    BY <2>1 DEF GatewayInv, BodyInv, IsPassthrough
  <2>8. HeardInv'
    BY <2>1, <2>2 DEF GatewayInv, HeardInv
  <2> QED BY <2>3, <2>4, <2>5, <2>6, <2>7, <2>8, TypePartsNext DEF GatewayInv
<1> QED BY <1>1, <1>3, <1>4

(* The error is written.                                                   *)
LEMMA RespondErrorKeeps ==
    ASSUME GatewayInv, RespondError
    PROVE  GatewayInv'
PROOF
<1>1. /\ phase \in {"failing", "skipping"}
      /\ setup' = setup /\ request' = request /\ phase' = "returned"
      /\ passed' = passed /\ vetoed' = vetoed /\ sends' = sends
      /\ reply' = reply /\ body' = Released /\ started' = started
      /\ failed' = failed /\ heard' = heard /\ gone' = gone
      /\ phase = "failing" => heard = setup.errs
      /\ answer' = Written(IF started THEN 200 ELSE failed, TRUE)
  BY DEF RespondError, HooksHaveHeard, Go, input, verdict, error
<1>2. Numbers /\ Words /\ Records
  BY TypeParts DEF GatewayInv
<1>3. Numbers'
  BY <1>1, <1>2 DEF Numbers
<1>4. Words'
  BY <1>1, <1>2 DEF Words, Phases, Released
<1>5. answer' \in [status: {NoStatus} \cup 200..599, error: BOOLEAN, bare: BOOLEAN]
  BY <1>1, <1>2 DEF Numbers, Written
<1>6. Records'
  BY <1>1, <1>2, <1>5 DEF Records
<1>7. HooksInv'
  BY <1>1 DEF GatewayInv, HooksInv, IsStreamed, IsPassthrough
<1>8. BodyInv'
  BY <1>1 DEF GatewayInv, BodyInv, IsPassthrough, Released
<1>9. HeardInv'
  BY <1>1 DEF GatewayInv, HeardInv, Written
<1> QED BY <1>3, <1>4, <1>6, <1>7, <1>8, <1>9, TypePartsNext DEF GatewayInv

(* The client leaves.                                                      *)
LEMMA ClientLeavesKeeps ==
    ASSUME GatewayInv, ClientLeaves
    PROVE  GatewayInv'
PROOF
<1>1. /\ setup' = setup /\ request' = request /\ phase' = phase
      /\ passed' = passed /\ vetoed' = vetoed /\ sends' = sends
      /\ reply' = reply /\ body' = body /\ started' = started
      /\ failed' = failed /\ heard' = heard /\ answer' = answer
      /\ gone' = TRUE
  BY DEF ClientLeaves, input, verdict, exchange, error, output
<1>2. Numbers /\ Words /\ Records
  BY TypeParts DEF GatewayInv
<1>3. Numbers'
  BY <1>1, <1>2 DEF Numbers
<1>4. Words'
  BY <1>1, <1>2 DEF Words, Phases
<1>5. Records'
  BY <1>1, <1>2 DEF Records
<1>6. HooksInv'
  BY <1>1 DEF GatewayInv, HooksInv, IsStreamed, IsPassthrough
<1>7. BodyInv'
  BY <1>1 DEF GatewayInv, BodyInv, IsPassthrough
<1>8. HeardInv'
  BY <1>1 DEF GatewayInv, HeardInv
<1> QED BY <1>3, <1>4, <1>5, <1>6, <1>7, <1>8, TypePartsNext DEF GatewayInv

(* Nothing happens.                                                        *)
LEMMA StutterKeeps ==
    ASSUME GatewayInv, UNCHANGED vars
    PROVE  GatewayInv'
PROOF
<1>1. /\ setup' = setup /\ request' = request /\ phase' = phase
      /\ passed' = passed /\ vetoed' = vetoed /\ sends' = sends
      /\ reply' = reply /\ body' = body /\ started' = started
      /\ failed' = failed /\ heard' = heard /\ answer' = answer
      /\ gone' = gone
  BY DEF vars, input, verdict, exchange, error, output
<1>2. Numbers /\ Words /\ Records
  BY TypeParts DEF GatewayInv
<1>3. Numbers'
  BY <1>1, <1>2 DEF Numbers
<1>4. Words'
  BY <1>1, <1>2 DEF Words, Phases
<1>5. Records'
  BY <1>1, <1>2 DEF Records
<1>6. HooksInv'
  BY <1>1 DEF GatewayInv, HooksInv, IsStreamed, IsPassthrough
<1>7. BodyInv'
  BY <1>1 DEF GatewayInv, BodyInv, IsPassthrough
<1>8. HeardInv'
  BY <1>1 DEF GatewayInv, HeardInv
<1> QED BY <1>3, <1>4, <1>5, <1>6, <1>7, <1>8, TypePartsNext DEF GatewayInv

(* Every step keeps the invariant.                                         *)
LEMMA GatewayInvNext == GatewayInv /\ [Next]_vars => GatewayInv'
PROOF
<1> SUFFICES ASSUME GatewayInv, [Next]_vars PROVE GatewayInv'
  OBVIOUS
<1>1. CASE ReadBody
  BY <1>1, ReadFailureKeeps, AcceptKeeps DEF ReadBody
<1>2. CASE RunHooks
  BY <1>2, PreRequestHookKeeps, PostResponseHookKeeps, ErrorHookKeeps
     DEF RunHooks
<1>3. CASE Proceed
  BY <1>3, ExchangeFailureKeeps, SendKeeps, RespondKeeps, RespondErrorKeeps
     DEF Proceed
<1>4. CASE AwaitReply
  BY <1>4, ExchangeFailureKeeps, BackendRefusesKeeps, BackendAcceptsKeeps
     DEF AwaitReply
<1>5. CASE Receive
  BY <1>5, ReceiveBodyKeeps, ReceiveFailureKeeps DEF Receive
<1>6. CASE Stream
  BY <1>6, StreamEndsKeeps, StreamFailsKeeps DEF Stream
<1>7. CASE ClientLeaves
  BY <1>7, ClientLeavesKeeps
<1>8. CASE Returned \/ UNCHANGED vars
  BY <1>8, StutterKeeps DEF Returned
<1> QED BY <1>1, <1>2, <1>3, <1>4, <1>5, <1>6, <1>7, <1>8 DEF Next

(* The invariant holds throughout.                                         *)
LEMMA GatewayInvCorrect == Spec => []GatewayInv
PROOF BY GatewayInvInit, GatewayInvNext, PTL DEF Spec

-----------------------------------------------------------------------------
(* Steps that change neither what is counted nor what is promised.         *)
LEMMA SamePromise ==
    ASSUME UNCHANGED <<setup, request, passed, vetoed, sends>>,
           Outcome' = Outcome
    PROVE  UNCHANGED Promise!vars
PROOF BY DEF Promise!vars, Before, After, IsStreamed, IsPassthrough

(* A handler that has not returned has promised nothing yet.               *)
LEMMA StillPending ==
    ASSUME phase # "returned", phase' # "returned"
    PROVE  Outcome = "pending" /\ Outcome' = "pending"
PROOF BY DEF Outcome

(* A failure alone promises nothing.                                       *)
LEMMA FailOnlyKeepsPromise ==
    ASSUME NEW s, FailOnly(s), phase # "returned"
    PROVE  UNCHANGED Promise!vars
PROOF
<1>1. UNCHANGED <<setup, request, passed, vetoed, sends>>
  BY DEF FailOnly, input, verdict, exchange
<1>2. phase' # "returned"
  BY DEF FailOnly, Fail, Go
<1> QED BY <1>1, <1>2, StillPending, SamePromise

(* Counting down the hooks of a stage, or refusing.                        *)
LEMMA PreRequestHookPromises ==
    ASSUME GatewayInv, PreRequestHook
    PROVE  Promise!PassBefore \/ Promise!Veto
PROOF
<1>1. /\ phase = "pre" /\ phase' # "returned" /\ passed < setup.pre
      /\ setup' = setup /\ request' = request /\ sends' = sends
  BY DEF PreRequestHook, Veto, Fail, Go, input, exchange
<1>2. sends = 0 /\ ~vetoed
  BY <1>1 DEF GatewayInv, HooksInv
<1>3. Outcome = "pending" /\ Outcome' = "pending"
  BY <1>1, StillPending
<1>4. After' = After
  BY <1>1, <1>2 DEF After, IsStreamed, IsPassthrough
<1>5. passed \in Nat /\ setup.pre \in Nat
  BY HookBounds, GatewayAssumption DEF GatewayInv, TypeOK
<1>6. vetoed = FALSE
  BY <1>2 DEF GatewayInv, TypeOK
<1>7. CASE passed' = passed + 1 /\ UNCHANGED vetoed
  <2>1. Before = setup.pre - passed /\ Before' = setup.pre - (passed + 1)
    BY <1>1, <1>2, <1>7 DEF Before
  <2>2. Before > 0 /\ Before' = Before - 1
    BY <1>1, <1>5, <2>1
  <2> QED BY <1>1, <1>2, <1>3, <1>4, <1>7, <2>2 DEF Promise!PassBefore
<1>8. CASE vetoed' = TRUE /\ UNCHANGED passed
  <2>1. Before' = Before
    BY <1>1, <1>8 DEF Before
  <2> QED BY <1>1, <1>2, <1>3, <1>4, <1>8, <2>1 DEF Promise!Veto
<1> QED BY <1>7, <1>8 DEF PreRequestHook, Veto

(* The same for the hooks on the answer.                                   *)
LEMMA PostResponseHookPromises ==
    ASSUME GatewayInv, PostResponseHook
    PROVE  Promise!PassAfter \/ Promise!Veto
PROOF
<1>1. /\ phase = "post" /\ phase' # "returned" /\ passed < setup.post
      /\ setup' = setup /\ request' = request /\ sends' = sends
  BY DEF PostResponseHook, Veto, Fail, Go, input
<1>2. sends = 1 /\ ~vetoed /\ ~IsStreamed
  BY <1>1 DEF GatewayInv, HooksInv
<1>3. Outcome = "pending" /\ Outcome' = "pending"
  BY <1>1, StillPending
<1>4. Before' = Before
  BY <1>1, <1>2 DEF Before
<1>5. passed \in Nat /\ setup.post \in Nat
  BY HookBounds, GatewayAssumption DEF GatewayInv, TypeOK
<1>6. ~IsStreamed'
  BY <1>1, <1>2 DEF IsStreamed, IsPassthrough
<1>7. CASE passed' = passed + 1 /\ UNCHANGED vetoed
  <2>1. After = setup.post - passed /\ After' = setup.post - (passed + 1)
    BY <1>1, <1>2, <1>6, <1>7 DEF After
  <2>2. After > 0 /\ After' = After - 1
    BY <1>1, <1>5, <2>1
  <2> QED BY <1>1, <1>2, <1>3, <1>4, <1>7, <2>2 DEF Promise!PassAfter
<1>8. CASE vetoed' = TRUE /\ UNCHANGED passed
  <2>1. After' = After
    BY <1>1, <1>2, <1>6, <1>8 DEF After
  <2> QED BY <1>1, <1>2, <1>3, <1>4, <1>8, <2>1 DEF Promise!Veto
<1> QED BY <1>7, <1>8 DEF PostResponseHook, Veto

(* The request is forwarded with no hook left to ask.                      *)
LEMMA SendPromises ==
    ASSUME GatewayInv, Send
    PROVE  Promise!Forward
PROOF
<1>1. /\ phase = "pre" /\ phase' # "returned" /\ passed = setup.pre
      /\ setup' = setup /\ request' = request /\ vetoed' = vetoed
      /\ sends' = sends + 1 /\ passed' = 0
  BY DEF Send, Go, input
<1>2. sends = 0 /\ ~vetoed
  BY <1>1 DEF GatewayInv, HooksInv
<1>3. Outcome = "pending" /\ Outcome' = "pending"
  BY <1>1, StillPending
<1>4. setup.pre \in Nat /\ setup.post \in Nat
  BY HookBounds, GatewayAssumption DEF GatewayInv
<1>5. sends' = 1
  BY <1>1, <1>2
<1>6. Before = 0 /\ Before' = 0
  BY <1>1, <1>2, <1>4, <1>5 DEF Before
<1>7. After' = After
  <2>1. setup.post - 0 = setup.post
    BY <1>4
  <2> QED BY <1>1, <1>2, <1>5, <2>1 DEF After, IsStreamed, IsPassthrough
<1> QED BY <1>1, <1>2, <1>3, <1>5, <1>6, <1>7 DEF Promise!Forward

(* A success is answered only when no hook is left to ask.                 *)
LEMMA SuccessPromises ==
    ASSUME GatewayInv, Respond \/ StreamEnds
    PROVE  Promise!Succeed
PROOF
<1>1. /\ phase \in {"post", "streaming"} /\ phase' = "returned"
      /\ phase = "post" => passed = setup.post
      /\ setup' = setup /\ request' = request /\ vetoed' = vetoed
      /\ sends' = sends /\ passed' = passed
      /\ ~answer'.error
  BY DEF Respond, StreamEnds, Go, input, verdict, Written
<1>2. sends = 1 /\ ~vetoed /\ (phase = "streaming" => IsStreamed)
  BY <1>1 DEF GatewayInv, HooksInv
<1>3. Outcome = "pending" /\ Outcome' = "success"
  BY <1>1 DEF Outcome
<1>4. After = 0
  <2>1. setup.post \in Nat
    BY HookBounds, GatewayAssumption DEF GatewayInv
  <2>2. setup.post - setup.post = 0
    BY <2>1
  <2> QED BY <1>1, <1>2, <2>2 DEF After
<1>5. Before' = Before /\ After' = After
  BY <1>1 DEF Before, After, IsStreamed, IsPassthrough
<1> QED BY <1>1, <1>2, <1>3, <1>4, <1>5 DEF Promise!Succeed

(* A stream that fails is vetoed, or merely broken.                        *)
LEMMA StreamFailsPromises ==
    ASSUME GatewayInv, StreamFails
    PROVE  Promise!Veto \/ UNCHANGED Promise!vars
PROOF
<1>1. /\ phase = "streaming" /\ phase' # "returned"
      /\ setup' = setup /\ request' = request /\ sends' = sends
      /\ passed' = passed
      /\ vetoed' = vetoed \/ vetoed' = TRUE
  BY DEF StreamFails, Veto, Fail, Go, input, exchange
<1>2. ~vetoed
  BY <1>1 DEF GatewayInv, HooksInv
<1>3. Outcome = "pending" /\ Outcome' = "pending"
  BY <1>1, StillPending
<1>4. Before' = Before /\ After' = After
  BY <1>1 DEF Before, After, IsStreamed, IsPassthrough
<1>5. CASE vetoed' = vetoed
  BY <1>1, <1>3, <1>5, SamePromise
<1>6. CASE vetoed' = TRUE
  BY <1>1, <1>2, <1>3, <1>4, <1>6 DEF Promise!Veto
<1> QED BY <1>1, <1>5, <1>6

(* An error answer is the abstract failure.                                *)
LEMMA RespondErrorPromises ==
    ASSUME RespondError
    PROVE  Promise!Fail
PROOF
<1>1. /\ phase \in {"failing", "skipping"} /\ phase' = "returned"
      /\ setup' = setup /\ request' = request /\ vetoed' = vetoed
      /\ sends' = sends /\ passed' = passed
      /\ answer'.error
  BY DEF RespondError, HooksHaveHeard, Go, input, verdict, Written
<1>2. Outcome = "pending" /\ Outcome' = "error"
  BY <1>1 DEF Outcome
<1>3. Before' = Before /\ After' = After
  BY <1>1 DEF Before, After, IsStreamed, IsPassthrough
<1> QED BY <1>1, <1>2, <1>3 DEF Promise!Fail

(* Steps the client cannot see.                                            *)
LEMMA QuietSteps ==
    ASSUME \/ Accept \/ BackendRefuses \/ BackendAccepts \/ Receive
           \/ ErrorHook \/ ClientLeaves
    PROVE  UNCHANGED Promise!vars
PROOF
<1>1. UNCHANGED <<setup, request, passed, vetoed, sends>>
  BY DEF Accept, BackendRefuses, BackendAccepts, Receive, ReceiveBody,
         BodyBreaks, ReplyTooLarge, ReplyUndecodable, ErrorHook, ClientLeaves,
         input, verdict, exchange
<1>2. phase # "returned" /\ phase' # "returned"
  BY DEF Accept, BackendRefuses, BackendAccepts, Receive, ReceiveBody,
         BodyBreaks, ReplyTooLarge, ReplyUndecodable, ErrorHook, ClientLeaves,
         Fail, Go
<1> QED BY <1>1, <1>2, StillPending, SamePromise

(* Failures, which the error answer will make visible.                     *)
LEMMA FailuresAreQuiet ==
    ASSUME \/ BodyUnreadable \/ BodyTooLarge \/ Refuse
           \/ Unencodable \/ BackendFails \/ ReplyUnencodable
    PROVE  UNCHANGED Promise!vars
PROOF
<1>1. \E s : FailOnly(s)
  BY DEF BodyUnreadable, BodyTooLarge, Refuse, Unencodable, BackendFails,
         ReplyUnencodable
<1>2. phase # "returned"
  BY DEF BodyUnreadable, BodyTooLarge, Refuse, Unencodable, BackendFails,
         ReplyUnencodable
<1> QED BY <1>1, <1>2, FailOnlyKeepsPromise

(* The initial states of the gateway are the promise's.                    *)
LEMMA PromiseInit == Init => Promise!Init
PROOF
<1> SUFFICES ASSUME Init PROVE Promise!Init
  OBVIOUS
<1>1. TypeOK
  BY GatewayInvInit DEF GatewayInv
<1>2. setup.pre \in Nat /\ setup.post \in Nat
  BY <1>1, HookBounds, GatewayAssumption
<1>3. sends = 0 /\ passed = 0 /\ vetoed = FALSE /\ phase # "returned"
  BY DEF Init
<1>4. Before \in Nat
  BY <1>2, <1>3 DEF Before
<1>5. After \in Nat
  BY <1>2, <1>3 DEF After
<1>6. Outcome = "pending"
  BY <1>3 DEF Outcome
<1> QED BY <1>3, <1>4, <1>5, <1>6 DEF Promise!Init

(* Every step of the gateway is a step of the promise, or none.            *)
LEMMA PromiseNext ==
    GatewayInv /\ [Next]_vars => [Promise!Next]_(Promise!vars)
PROOF
<1> SUFFICES ASSUME GatewayInv, [Next]_vars
             PROVE  Promise!Next \/ UNCHANGED Promise!vars
  OBVIOUS
<1>1. CASE ReadBody
  BY <1>1, FailuresAreQuiet, QuietSteps DEF ReadBody
<1>2. CASE RunHooks
  BY <1>2, PreRequestHookPromises, PostResponseHookPromises, QuietSteps
     DEF RunHooks, Promise!Next
<1>3. CASE Proceed
  BY <1>3, FailuresAreQuiet, SendPromises, SuccessPromises,
     RespondErrorPromises DEF Proceed, Promise!Next
<1>4. CASE AwaitReply
  BY <1>4, FailuresAreQuiet, QuietSteps DEF AwaitReply
<1>5. CASE Receive \/ ClientLeaves
  BY <1>5, QuietSteps
<1>6. CASE Stream
  BY <1>6, SuccessPromises, StreamFailsPromises DEF Stream, Promise!Next
<1>7. CASE Returned \/ UNCHANGED vars
  <2>1. UNCHANGED <<setup, request, passed, vetoed, sends, phase, answer>>
    BY <1>7 DEF Returned, vars, input, verdict, exchange, output
  <2>2. Outcome' = Outcome
    BY <2>1 DEF Outcome
  <2> QED BY <2>1, <2>2, SamePromise
<1> QED BY <1>1, <1>2, <1>3, <1>4, <1>5, <1>6, <1>7 DEF Next

-----------------------------------------------------------------------------
(* The gateway implements Exchange: one request is forwarded at most once, *)
(* past every hook, and a success is never answered past a veto.           *)
THEOREM PromiseKept == Spec => Promised
PROOF
<1>1. Spec => []GatewayInv
  BY GatewayInvCorrect
<1>2. Init => Promise!Init
  BY PromiseInit
<1>3. GatewayInv /\ [Next]_vars => [Promise!Next]_(Promise!vars)
  BY PromiseNext
<1> QED BY <1>1, <1>2, <1>3, PTL DEF Spec, Promised, Promise!Spec

(* No path through the handler leaves the backend's connection held.       *)
THEOREM BodiesReleased == Spec => []BodyReleased
PROOF
<1>1. GatewayInv => BodyReleased
  BY DEF GatewayInv, BodyInv, BodyReleased
<1> QED BY <1>1, GatewayInvCorrect, PTL

(* Error hooks hear of the requests answered with an error, and only them. *)
THEOREM ErrorsAreHeard == Spec => []ErrorHooksHear
PROOF
<1>1. GatewayInv => ErrorHooksHear
  <2>1. ASSUME GatewayInv, phase = "returned", setup.errs > 0
        PROVE  answer.error <=> heard > 0
    <3>1. answer.error \in BOOLEAN
      BY <2>1 DEF GatewayInv, TypeOK
    <3>2. answer.error => heard > 0
      BY <2>1 DEF GatewayInv, HeardInv
    <3>3. heard > 0 => answer.error
      BY <2>1 DEF GatewayInv, HeardInv
    <3> QED BY <3>1, <3>2, <3>3
  <2> QED BY <2>1 DEF ErrorHooksHear
<1> QED BY <1>1, GatewayInvCorrect, PTL

(* Every variable keeps its type.                                          *)
THEOREM GatewayTypeCorrect == Spec => []TypeOK
PROOF
<1>1. GatewayInv => TypeOK
  BY DEF GatewayInv
<1> QED BY <1>1, GatewayInvCorrect, PTL

-----------------------------------------------------------------------------
(* A backend's refusal, from its arrival to the answer: when no error hook *)
(* runs, nothing that follows changes the status.                          *)
RefusalInv ==
    /\ phase \in {"body", "pre", "waiting"} => ~started /\ reply = NoStatus
    /\ phase \in {"receiving", "streaming", "post"} => ~IsError(reply)
    /\ setup.errs = 0 => phase # "skipping"
    /\ reply # NoStatus /\ IsError(reply) => ~started
    /\ reply # NoStatus /\ IsError(reply) /\ setup.errs = 0 =>
          /\ phase = "failing" => failed = reply
          /\ phase = "returned" => answer = Written(reply, TRUE)

(* An error is one whatever is done about it.                              *)
LEMMA StillError ==
    ASSUME UNCHANGED <<request, reply>> PROVE IsError(reply)' = IsError(reply)
BY DEF IsError, IsPassthrough

LEMMA RefusalInit == Init => RefusalInv
BY DEF Init, RefusalInv

LEMMA RefusalNext == GatewayInv /\ RefusalInv /\ [Next]_vars => RefusalInv'
PROOF
<1> SUFFICES ASSUME GatewayInv, RefusalInv, [Next]_vars PROVE RefusalInv'
  OBVIOUS
<1> USE DEF RefusalInv, input, verdict, exchange, error, output, Go, Fail
<1>1. UNCHANGED <<setup, request>> /\ setup.errs \in Nat
  <2>1. UNCHANGED <<setup, request>>
    BY DEF Next, ReadBody, RunHooks, Proceed, AwaitReply, Receive, Stream, ClientLeaves,
           Returned, vars, FailOnly, BodyUnreadable, BodyTooLarge, Refuse, Accept,
           PreRequestHook, PostResponseHook, ErrorHook, Unencodable, Send,
           ReplyUnencodable, Respond, RespondError, BackendFails, BackendRefuses,
           BackendAccepts, ReceiveBody, BodyBreaks, ReplyTooLarge, ReplyUndecodable,
           StreamEnds, StreamFails
  <2> QED
    BY <2>1, HookBounds DEF GatewayInv
(* A failure while there is no answer of the backend, or a good one.       *)
<1>2. ASSUME NEW s, FailOnly(s), phase \in {"body", "pre", "waiting", "post"}
      PROVE  RefusalInv'
  BY <1>1, <1>2, StillError DEF FailOnly
<1>3. CASE ReadBody
  <2>1. CASE Accept
    BY <2>1, <1>1 DEF Accept
  <2> QED
    BY <1>2, <1>3, <2>1 DEF ReadBody, BodyUnreadable, BodyTooLarge, Refuse
<1>4. CASE PreRequestHook
  BY <1>1, <1>4 DEF PreRequestHook, Veto
<1>5. CASE PostResponseHook
  <2>1. UNCHANGED reply /\ ~IsError(reply) /\ phase' \in {"post", "failing"}
    BY <1>5 DEF PostResponseHook, Veto
  <2> QED
    BY <1>1, <2>1, StillError
<1>6. CASE ErrorHook
  <2>1. setup.errs # 0
    BY <1>1, <1>6 DEF ErrorHook, GatewayInv, TypeOK
  <2>2. UNCHANGED <<reply, started>> /\ phase' \in {"failing", "skipping"}
    BY <1>6 DEF ErrorHook
  <2> QED
    BY <1>1, <2>1, <2>2, StillError
<1>7. CASE Unencodable \/ ReplyUnencodable \/ BackendFails
  BY <1>2, <1>7 DEF Unencodable, ReplyUnencodable, BackendFails
<1>8. CASE Send
  BY <1>1, <1>8 DEF Send
<1>9. CASE Respond \/ StreamEnds \/ StreamFails
  <2>1. /\ UNCHANGED reply /\ ~IsError(reply) /\ phase' \in {"failing", "returned"}
    BY <1>9 DEF Respond, StreamEnds, StreamFails, Veto
  <2> QED
    BY <1>1, <2>1, StillError
<1>10. CASE RespondError
  <2>1. UNCHANGED <<reply, started>> /\ phase' = "returned"
        /\ phase \in {"failing", "skipping"}
        /\ answer' = Written(IF started THEN 200 ELSE failed, TRUE)
    BY <1>10 DEF RespondError, HooksHaveHeard
  <2> QED
    BY <1>1, <2>1, StillError
<1>11. CASE BackendRefuses
  <2>1. /\ phase' = "failing" /\ failed' = reply' /\ UNCHANGED started /\ ~started
    BY <1>11 DEF BackendRefuses
  <2> QED
    BY <2>1
<1>12. CASE BackendAccepts
  <2>1. PICK s \in BackendStatuses : ~IsError(s) /\ reply' = s
    BY <1>12 DEF BackendAccepts
  <2>2. ~IsError(reply)'
    BY <1>1, <2>1 DEF IsError, IsPassthrough
  <2>3. phase' \in {"streaming", "receiving"}
    BY <1>12 DEF BackendAccepts
  <2> QED
    BY <2>2, <2>3
<1>13. CASE Receive
  <2>1. UNCHANGED reply /\ ~IsError(reply) /\ phase' \in {"post", "failing"}
    BY <1>13 DEF Receive, ReceiveBody, BodyBreaks, ReplyTooLarge, ReplyUndecodable
  <2> QED
    BY <1>1, <2>1, StillError
<1>14. CASE ClientLeaves \/ Returned \/ UNCHANGED vars
  <2>1. UNCHANGED <<phase, reply, started, failed, answer>>
    BY <1>14 DEF ClientLeaves, Returned, vars
  <2> QED
    BY <1>1, <2>1, StillError
<1> QED
  BY <1>3, <1>4, <1>5, <1>6, <1>7, <1>8, <1>9, <1>10, <1>11, <1>12, <1>13, <1>14
     DEF Next, RunHooks, Proceed, AwaitReply, Stream

(* A backend's status reaches the client through everything that may still *)
(* go wrong, when no error hook is there to change it.                     *)
THEOREM RefusalsReachClient == Spec => []BackendErrorReachesClient
PROOF
<1>1. RefusalInv => BackendErrorReachesClient
  BY DEF RefusalInv, BackendErrorReachesClient, Written
<1> QED BY <1>1, GatewayInvCorrect, RefusalInit, RefusalNext, PTL DEF Spec

=============================================================================
