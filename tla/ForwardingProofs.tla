-------------------------- MODULE ForwardingProofs --------------------------
(***************************************************************************)
(* What holds of the headers for every set of backends, header maps and    *)
(* header hooks: keys stay on their side, the credential arrives in the    *)
(* backend's form, and a trace is kept.                                    *)
(***************************************************************************)
EXTENDS Forwarding, SequenceTheorems, TLAPS

-----------------------------------------------------------------------------
(* Header maps and the operations on them.                                 *)

LEMMA GetIsValue ==
    ASSUME NEW h, IsHeaderMap(h), NEW k PROVE Get(h, k) \in Seq(Tokens)
BY DEF Get, IsHeaderMap, NoValue

LEMMA EmptyIsMap == IsHeaderMap(NoHeaders) /\ IsFields(NoHeaders)
BY DEF IsHeaderMap, IsFields, NoHeaders

LEMMA SetIsMap ==
    ASSUME NEW h, IsHeaderMap(h), NEW more, IsFields(more)
    PROVE  IsHeaderMap(Set(h, more))
BY DEF IsHeaderMap, IsFields, Set

LEMMA DelIsMap ==
    ASSUME NEW h, IsHeaderMap(h), NEW names
    PROVE  IsHeaderMap(Del(h, names))
BY DEF IsHeaderMap, Del, Restrict

LEMMA AddIsMap ==
    ASSUME NEW h, IsHeaderMap(h), NEW more, IsHeaderMap(more)
    PROVE  IsHeaderMap(Add(h, more))
<1>1. ASSUME NEW k \in DOMAIN h \cup DOMAIN more
      PROVE  Add(h, more)[k] \in Seq(Seq(Tokens)) /\ Add(h, more)[k] # <<>>
  <2> DEFINE a == IF k \in DOMAIN h THEN h[k] ELSE <<>>
             b == IF k \in DOMAIN more THEN more[k] ELSE <<>>
  <2>1. a \in Seq(Seq(Tokens)) /\ b \in Seq(Seq(Tokens)) /\ (a # <<>> \/ b # <<>>)
    BY DEF IsHeaderMap
  <2>2. Add(h, more)[k] = a \o b
    BY DEF Add
  <2> HIDE DEF a, b
  <2>3. a \o b \in Seq(Seq(Tokens)) /\ Len(a \o b) = Len(a) + Len(b)
    BY <2>1
  <2>4. Len(a) > 0 \/ Len(b) > 0
    BY <2>1
  <2> QED
    BY <2>1, <2>2, <2>3, <2>4
<1> QED
  BY <1>1 DEF IsHeaderMap, Add

LEMMA OneIsFields ==
    ASSUME NEW k \in Names, NEW v \in Seq(Tokens) PROVE IsFields(One(k, v))
BY DEF IsFields, One

LEMMA PropagateIsMap ==
    ASSUME NEW src, IsHeaderMap(src), NEW dst, IsHeaderMap(dst)
    PROVE  IsHeaderMap(PropagateHeaders(src, dst))
<1> DEFINE over == [k \in Overriding(src) |-> Get(src, k)]
           listed == Set(dst, over)
           yielding == {k \in DOMAIN src \cap XNames : Get(listed, k) = NoValue}
<1>1. IsFields(over)
  BY GetIsValue DEF IsFields, Overriding, Propagated, Names, XNames
<1>2. IsHeaderMap(listed)
  BY <1>1, SetIsMap
<1>3. IsHeaderMap(Restrict(src, yielding))
  BY DEF IsHeaderMap, Restrict
<1> QED
  BY <1>2, <1>3, AddIsMap DEF PropagateHeaders

-----------------------------------------------------------------------------
(* Credentials.                                                            *)

Credential == [header: Names \cup {""}, value: Seq(Tokens)]

LEMMA ExtractIsCredential ==
    ASSUME NEW h, IsHeaderMap(h)
    PROVE  /\ ExtractClientCredential(h) \in Credential
           /\ ExtractClientCredential(h).value # NoValue =>
                 \E k \in AuthNames \cap DOMAIN h : ExtractClientCredential(h).value = Get(h, k)
<1>1. /\ Get(h, "Authorization") \in Seq(Tokens)
      /\ Get(h, "X-Api-Key") \in Seq(Tokens)
  BY GetIsValue
<1>2. \A k : Get(h, k) # NoValue => k \in DOMAIN h
  BY DEF Get
<1> QED
  BY <1>1, <1>2 DEF ExtractClientCredential, NoCredential, NoValue, Credential,
                    Names, XNames, AuthNames

LEMMA ResolveIsCredential ==
    ASSUME NEW b \in Backends, NEW h, IsHeaderMap(h)
    PROVE  ResolveCredential(b.auth, h) \in Credential
BY ForwardingAssumption, ExtractIsCredential
   DEF ForwardingAssumption, ResolveCredential, Credential

(* A mapped credential is in a credential's header, and says what it said. *)
LEMMA MappedCredential ==
    ASSUME NEW cred \in Credential, cred.value # NoValue, NEW target
    PROVE  LET m == MapCredentialToProtocol(cred, target)
           IN  /\ m.header = IF target = "openai" THEN "Authorization" ELSE "X-Api-Key"
               /\ m.value \in Seq(Tokens)
               /\ Range(m.value) \subseteq Range(cred.value) \cup {"Bearer"}
<1> DEFINE v == cred.value
           key == IF Len(v) > 1 /\ v[1] = "Bearer" THEN Tail(v) ELSE v
<1>1. v \in Seq(Tokens)
  BY DEF Credential
<1> HIDE DEF v
<1>2. key \in Seq(Tokens) /\ Range(key) \subseteq Range(v)
  <2>1. ASSUME Len(v) > 1 PROVE Tail(v) \in Seq(Tokens) /\ Range(Tail(v)) \subseteq Range(v)
    <3>1. Tail(v) \in Seq(Tokens)
      BY <1>1, <2>1
    <3>2. \A n \in DOMAIN Tail(v) : n + 1 \in DOMAIN v /\ Tail(v)[n] = v[n + 1]
      BY <1>1, <2>1
    <3> QED
      BY <3>1, <3>2 DEF Range
  <2>2. CASE Len(v) > 1 /\ v[1] = "Bearer"
    BY <2>1, <2>2
  <2>3. CASE ~(Len(v) > 1 /\ v[1] = "Bearer")
    BY <1>1, <2>3
  <2> QED
    BY <2>2, <2>3
<1> HIDE DEF key
<1>3. /\ <<"Bearer">> \o key \in Seq(Tokens)
      /\ Range(<<"Bearer">> \o key) \subseteq Range(v) \cup {"Bearer"}
  <2>1. "Bearer" \in Tokens
    BY ForwardingAssumption DEF ForwardingAssumption
  <2>2. \A n \in DOMAIN (<<"Bearer">> \o key) :
           (<<"Bearer">> \o key)[n] = IF n = 1 THEN "Bearer" ELSE key[n - 1]
    BY <1>2
  <2>3. \A n \in DOMAIN (<<"Bearer">> \o key) : n = 1 \/ n - 1 \in DOMAIN key
    BY <1>2
  <2> DEFINE all == <<"Bearer">> \o key
  <2>4. all \in Seq(Tokens)
    BY <1>2, <2>1
  <2>5. \A n \in DOMAIN all : all[n] = "Bearer" \/ all[n] \in Range(key)
    BY <2>2, <2>3 DEF Range
  <2> HIDE DEF all
  <2>6. Range(all) \subseteq Range(v) \cup {"Bearer"}
    BY <1>2, <2>5 DEF Range
  <2> QED
    BY <2>4, <2>6 DEF all
<1>4. MapCredentialToProtocol(cred, target) =
         IF target = "openai" THEN [header |-> "Authorization", value |-> <<"Bearer">> \o key]
         ELSE [header |-> "X-Api-Key", value |-> key]
  BY DEF MapCredentialToProtocol, key, v
<1>5. CASE target = "openai"
  <2> DEFINE all == <<"Bearer">> \o key
  <2>1. MapCredentialToProtocol(cred, target) = [header |-> "Authorization", value |-> all]
    BY <1>4, <1>5
  <2>2. all \in Seq(Tokens) /\ Range(all) \subseteq Range(cred.value) \cup {"Bearer"}
    BY <1>3 DEF v
  <2> HIDE DEF all
  <2> QED
    BY <1>5, <2>1, <2>2
<1>6. CASE target # "openai"
  <2>1. MapCredentialToProtocol(cred, target) = [header |-> "X-Api-Key", value |-> key]
    BY <1>4, <1>6
  <2> QED
    BY <1>2, <1>6, <2>1 DEF v
<1> QED
  BY <1>5, <1>6

(* What is sent before the credential is set.                              *)
Base(b, h) ==
    PropagateHeaders(h, Set(Set(NoHeaders, One("Content-Type", <<"json">>)), b.defaults))

LEMMA BaseIsMap ==
    ASSUME NEW b \in Backends, NEW h, IsHeaderMap(h) PROVE IsHeaderMap(Base(b, h))
<1>1. "json" \in Tokens /\ IsFields(b.defaults)
  BY ForwardingAssumption DEF ForwardingAssumption
<1>2. IsFields(One("Content-Type", <<"json">>))
  <2>1. "Content-Type" \in Names /\ <<"json">> \in Seq(Tokens)
    BY <1>1 DEF Names
  <2> QED
    BY <2>1, OneIsFields
<1>3. IsHeaderMap(Set(NoHeaders, One("Content-Type", <<"json">>)))
  BY <1>2, EmptyIsMap, SetIsMap
<1>4. IsHeaderMap(Set(Set(NoHeaders, One("Content-Type", <<"json">>)), b.defaults))
  BY <1>1, <1>3, SetIsMap
<1> QED
  BY <1>4, PropagateIsMap DEF Base

(* The credential, in the form of the backend's protocol.                  *)
Mapped(b, h) == MapCredentialToProtocol(ResolveCredential(b.auth, h), b.protocol)

LEMMA HeadersAreBaseAndCredential ==
    ASSUME NEW b \in Backends, NEW h, IsHeaderMap(h)
    PROVE  \/ BackendHeaders(b, h) = Base(b, h)
           \/ /\ ResolveCredential(b.auth, h).value # NoValue
              /\ BackendHeaders(b, h) = Set(Base(b, h), One(Mapped(b, h).header, Mapped(b, h).value))
<1>1. ResolveCredential(b.auth, h).value = NoValue => Mapped(b, h).value = NoValue
  BY DEF Mapped, MapCredentialToProtocol
<1> QED
  BY <1>1 DEF BackendHeaders, Base, Mapped

LEMMA BackendHeadersIsMap ==
    ASSUME NEW b \in Backends, NEW h, IsHeaderMap(h)
    PROVE  IsHeaderMap(BackendHeaders(b, h))
<1>1. ASSUME ResolveCredential(b.auth, h).value # NoValue
      PROVE  IsFields(One(Mapped(b, h).header, Mapped(b, h).value))
  BY <1>1, ResolveIsCredential, MappedCredential, OneIsFields DEF Mapped, Names, XNames
<1> QED
  BY <1>1, BaseIsMap, SetIsMap, HeadersAreBaseAndCredential

-----------------------------------------------------------------------------
(* Types.                                                                  *)

RequestModifiers == UNION {Range(hs) : hs \in RequestHooks}
Modifiers == RequestModifiers \cup UNION {Range(hs) : hs \in ResponseHooks}

TypeInv ==
    /\ TypeOK
    /\ hooks \in Seq(Modifiers)
    /\ phase \in {"arriving", "request"} => hooks \in Seq(RequestModifiers)

LEMMA ModifiersAreTyped ==
    /\ \A m \in Modifiers : IsFields(m.add) /\ m.remove \subseteq Names
    /\ \A hs \in RequestHooks : hs \in Seq(RequestModifiers)
    /\ \A hs \in RequestHooks \cup ResponseHooks : hs \in Seq(Modifiers)
<1>1. ASSUME NEW hs \in RequestHooks \cup ResponseHooks
      PROVE  hs \in [1..Len(hs) -> Range(hs)] /\ Len(hs) \in Nat
  BY ForwardingAssumption DEF ForwardingAssumption
<1>2. ASSUME NEW hs \in RequestHooks PROVE Range(hs) \subseteq RequestModifiers
  BY DEF RequestModifiers
<1>3. ASSUME NEW hs \in RequestHooks \cup ResponseHooks PROVE Range(hs) \subseteq Modifiers
  BY DEF Modifiers, RequestModifiers
<1>4. ASSUME NEW m \in Modifiers
      PROVE  \E hs \in RequestHooks \cup ResponseHooks : \E n \in DOMAIN hs : m = hs[n]
  BY DEF Modifiers, RequestModifiers, Range
<1>5. ASSUME NEW m \in Modifiers PROVE IsFields(m.add) /\ m.remove \subseteq Names
  BY <1>4, ForwardingAssumption DEF ForwardingAssumption
<1>6. ASSUME NEW hs \in RequestHooks PROVE hs \in Seq(RequestModifiers)
  BY <1>1, <1>2
<1>7. ASSUME NEW hs \in RequestHooks \cup ResponseHooks PROVE hs \in Seq(Modifiers)
  BY <1>1, <1>3
<1> QED
  BY <1>5, <1>6, <1>7

LEMMA SanitizedIsMap ==
    ASSUME NEW h, IsHeaderMap(h) PROVE IsHeaderMap(SanitizeClientHeaders(h))
BY DelIsMap DEF SanitizeClientHeaders

LEMMA EchoedIsFields ==
    ASSUME NEW h, IsHeaderMap(h) PROVE IsFields(Echoed(h))
<1>1. "generated" \in Tokens
  BY ForwardingAssumption DEF ForwardingAssumption
<1>2. NormalizeRequestID(h) \in Seq(Tokens) /\ Get(h, "Traceparent") \in Seq(Tokens)
  BY <1>1, GetIsValue DEF NormalizeRequestID, Generated
<1>3. "X-Request-Id" \in Names /\ "Traceparent" \in Names
  BY DEF Names, XNames
<1> QED
  BY <1>2, <1>3 DEF Echoed, IsFields, One

LEMMA JsonIsMap == IsHeaderMap(Json)
<1>1. <<"json">> \in Seq(Tokens)
  BY ForwardingAssumption DEF ForwardingAssumption
<1>2. <<<<"json">>>> \in Seq(Seq(Tokens)) /\ <<<<"json">>>> # <<>>
  BY <1>1
<1> QED
  BY <1>2 DEF Json, One, IsHeaderMap, Names

LEMMA TypeInit == Init => TypeInv
BY EmptyIsMap DEF Init, TypeInv, TypeOK, Phases

LEMMA TypeNext == TypeInv /\ [Next]_vars => TypeInv'
<1> SUFFICES ASSUME TypeInv, [Next]_vars PROVE TypeInv'
  OBVIOUS
<1> USE DEF TypeInv, TypeOK, Phases
<1>1. \A reply \in ReplyHeaders \cup ClientHeaders : IsHeaderMap(reply)
  BY ForwardingAssumption DEF ForwardingAssumption
<1>2. CASE Accept
  <2>1. IsHeaderMap(headers') /\ IsHeaderMap(answer')
    BY <1>1, <1>2, SanitizedIsMap, EchoedIsFields, SetIsMap DEF Accept
  <2>2. hooks' \in Seq(Modifiers) /\ hooks' \in Seq(RequestModifiers)
    BY <1>2, ModifiersAreTyped DEF Accept
  <2> QED
    BY <1>2, <2>1, <2>2 DEF Accept
<1>3. CASE RunHook
  <2>1. Head(hooks) \in Modifiers /\ Tail(hooks) \in Seq(Modifiers)
    BY <1>3 DEF RunHook
  <2>2. IsHeaderMap(headers')
    BY <1>3, <2>1, ModifiersAreTyped, SetIsMap, DelIsMap DEF RunHook, Modify
  <2>3. phase = "request" => Tail(hooks) \in Seq(RequestModifiers)
    BY <1>3 DEF RunHook
  <2> QED
    BY <1>3, <2>1, <2>2, <2>3 DEF RunHook
<1>4. CASE Send
  BY <1>4, BackendHeadersIsMap DEF Send
<1>5. CASE ReplyOK
  <2>1. IsHeaderMap(headers')
    BY <1>1, <1>5, EmptyIsMap DEF ReplyOK
  <2>2. hooks' \in Seq(Modifiers)
    BY <1>5, ModifiersAreTyped DEF ReplyOK
  <2> QED
    BY <1>5, <2>1, <2>2 DEF ReplyOK
<1>6. CASE ReplyError
  <2>1. PICK reply \in ReplyHeaders :
           answer' = Add(answer, Add(IF passthrough THEN Del(reply, {"Content-Type"})
                                     ELSE NoHeaders, Json))
    BY <1>6 DEF ReplyError
  <2>2. IsHeaderMap(IF passthrough THEN Del(reply, {"Content-Type"}) ELSE NoHeaders)
    BY <1>1, EmptyIsMap, DelIsMap
  <2>3. IsHeaderMap(answer')
    BY <2>1, <2>2, JsonIsMap, AddIsMap
  <2> QED
    BY <1>6, <2>3 DEF ReplyError
<1>7. CASE WriteOutboundResponse
  <2>1. IsHeaderMap(Add(Del(headers, {"Content-Type"}), Json))
    BY JsonIsMap, DelIsMap, AddIsMap
  <2>2. IsHeaderMap(answer')
    BY <1>7, <2>1, AddIsMap DEF WriteOutboundResponse
  <2> QED
    BY <1>7, <2>2 DEF WriteOutboundResponse
<1>8. CASE Answered \/ UNCHANGED vars
  BY <1>8 DEF Answered, vars
<1> QED
  BY <1>2, <1>3, <1>4, <1>5, <1>6, <1>7, <1>8 DEF Next

-----------------------------------------------------------------------------
(* What hooks leave of the client's headers until the request is sent.     *)

Sanitized == SanitizeClientHeaders(client)

(* A header no hook touches is the client's, and every word of a header is *)
(* the client's, in that header, or a hook's.                              *)
RequestInv ==
    phase = "request" =>
       /\ \A k \in Names : ~Touched(k) =>
             /\ k \in DOMAIN headers <=> k \in DOMAIN Sanitized
             /\ k \in DOMAIN headers => headers[k] = client[k]
       /\ \A k \in DOMAIN headers : \A w \in Words(headers, k) :
             w \in HookWords \/ (k \in DOMAIN Sanitized /\ w \in Words(client, k))

LEMMA SanitizedIsClients ==
    /\ DOMAIN Sanitized = DOMAIN client \ (XNames \ Propagated)
    /\ \A k \in DOMAIN Sanitized : Sanitized[k] = client[k]
BY DEF Sanitized, SanitizeClientHeaders, Del, Restrict

LEMMA ModifierTouches ==
    ASSUME NEW m \in RequestModifiers
    PROVE  /\ \A k \in DOMAIN m.add \cup m.remove : Touched(k)
           /\ WordsOf(m.add) \subseteq HookWords
<1>1. PICK hs \in RequestHooks : \E n \in DOMAIN hs : m = hs[n]
  BY DEF RequestModifiers, Range
<1> QED
  BY <1>1 DEF Touched, HookWords

LEMMA ModifyIsLocal ==
    ASSUME NEW h, NEW m
    PROVE  /\ DOMAIN Modify(h, m) = (DOMAIN h \cup DOMAIN m.add) \ m.remove
           /\ \A k \in DOMAIN Modify(h, m) :
                 Modify(h, m)[k] = IF k \in DOMAIN m.add THEN <<m.add[k]>> ELSE h[k]
BY DEF Modify, Set, Del, Restrict

LEMMA RequestNext == TypeInv /\ RequestInv /\ [Next]_vars => RequestInv'
<1> SUFFICES ASSUME TypeInv, RequestInv, [Next]_vars, phase' = "request" PROVE RequestInv'
  BY DEF RequestInv
<1>1. CASE Accept
  <2>1. headers' = Sanitized /\ client' = client
    BY <1>1 DEF Accept, Sanitized
  <2>2. \A k : Touched(k)' = Touched(k)
    BY DEF Touched
  <2>3. Sanitized' = Sanitized
    BY <2>1 DEF Sanitized
  <2>4. \A k \in DOMAIN headers' : k \in DOMAIN Sanitized /\ headers'[k] = client[k]
    BY <2>1, SanitizedIsClients
  <2>5. \A k \in DOMAIN headers' : \A w \in Words(headers', k) : w \in Words(client, k)
    BY <2>4 DEF Words
  <2>6. HookWords' = HookWords
    BY DEF HookWords, WordsOf
  <2> QED
    BY <2>1, <2>2, <2>3, <2>4, <2>5, <2>6 DEF RequestInv, Words
<1>2. CASE RunHook
  <2>0. PICK m : m = Head(hooks)
    OBVIOUS
  <2>1. phase = "request" /\ m \in RequestModifiers /\ client' = client
    BY <1>2, <2>0 DEF RunHook, TypeInv
  <2>2. /\ DOMAIN headers' = (DOMAIN headers \cup DOMAIN m.add) \ m.remove
        /\ \A k \in DOMAIN headers' :
              headers'[k] = IF k \in DOMAIN m.add THEN <<m.add[k]>> ELSE headers[k]
    <3>1. headers' = Modify(headers, m)
      BY <1>2, <2>0 DEF RunHook
    <3>2. DOMAIN Modify(headers, m) = (DOMAIN headers \cup DOMAIN m.add) \ m.remove
      BY ModifyIsLocal
    <3>3. \A k \in DOMAIN Modify(headers, m) :
             Modify(headers, m)[k] = IF k \in DOMAIN m.add THEN <<m.add[k]>> ELSE headers[k]
      BY ModifyIsLocal
    <3> QED
      BY <3>1, <3>2, <3>3
  <2>3. /\ \A k \in DOMAIN m.add \cup m.remove : Touched(k)
        /\ WordsOf(m.add) \subseteq HookWords
    BY <2>1, ModifierTouches
  <2>4. \A k \in Names : ~Touched(k) =>
             /\ k \in DOMAIN headers' <=> k \in DOMAIN Sanitized
             /\ k \in DOMAIN headers' => headers'[k] = client[k]
    BY <2>1, <2>2, <2>3 DEF RequestInv
  <2>5. ASSUME NEW k \in DOMAIN headers', NEW w \in Words(headers', k)
        PROVE  w \in HookWords \/ (k \in DOMAIN Sanitized /\ w \in Words(client, k))
    <3>1. CASE k \in DOMAIN m.add
      <4>1. headers'[k] = <<m.add[k]>>
        BY <2>2, <3>1
      <4>2. w \in Range(m.add[k])
        <5>1. PICK n \in DOMAIN headers'[k] : w \in Range(headers'[k][n])
          BY DEF Words
        <5>2. n = 1 /\ headers'[k][n] = m.add[k]
          BY <4>1, <5>1
        <5> QED
          BY <5>1, <5>2
      <4>3. Range(m.add[k]) \subseteq WordsOf(m.add)
        BY <3>1, Zenon DEF WordsOf
      <4> QED
        BY <2>3, <4>2, <4>3
    <3>2. CASE k \notin DOMAIN m.add
      <4>1. k \in DOMAIN headers /\ headers'[k] = headers[k]
        BY <2>2, <3>2
      <4> QED
        BY <2>1, <4>1 DEF RequestInv, Words
    <3> QED
      BY <3>1, <3>2
  <2>6. \A k : Touched(k)' = Touched(k)
    BY DEF Touched
  <2>7. Sanitized' = Sanitized
    BY <2>1 DEF Sanitized
  <2> QED
    BY <2>1, <2>4, <2>5, <2>6, <2>7 DEF RequestInv, Words
<1>3. CASE Answered \/ UNCHANGED vars
  BY <1>3 DEF Answered, vars, RequestInv, Sanitized, Words, Touched
<1> QED
  BY <1>1, <1>2, <1>3 DEF Next, Send, ReplyOK, ReplyError, WriteOutboundResponse

-----------------------------------------------------------------------------
(* Where the words of the backend's request come from.                     *)

LEMMA WordOfPair ==
    ASSUME NEW h, NEW k, NEW v, k \in DOMAIN h, h[k] = <<v>>
    PROVE  Words(h, k) = Range(v)
<1>1. DOMAIN h[k] = {1} /\ h[k][1] = v
  OBVIOUS
<1> QED
  BY <1>1 DEF Words

LEMMA WordsOfGet ==
    ASSUME NEW h, IsHeaderMap(h), NEW k \in DOMAIN h
    PROVE  Range(Get(h, k)) \subseteq Words(h, k)
<1>1. 1 \in DOMAIN h[k] /\ Get(h, k) = h[k][1]
  BY DEF IsHeaderMap, Get
<1> QED
  BY <1>1 DEF Words

LEMMA WordsOfSet ==
    ASSUME NEW h, NEW more, NEW k \in DOMAIN Set(h, more)
    PROVE  /\ k \in DOMAIN more => Words(Set(h, more), k) = Range(more[k])
           /\ k \notin DOMAIN more => /\ k \in DOMAIN h
                                     /\ Words(Set(h, more), k) = Words(h, k)
<1>1. ASSUME k \in DOMAIN more PROVE Set(h, more)[k] = <<more[k]>>
  BY <1>1 DEF Set
<1>2. ASSUME k \notin DOMAIN more PROVE k \in DOMAIN h /\ Set(h, more)[k] = h[k]
  BY <1>2 DEF Set
<1>3. ASSUME k \in DOMAIN more PROVE Words(Set(h, more), k) = Range(more[k])
  BY <1>1, <1>3, WordOfPair
<1>4. ASSUME k \notin DOMAIN more PROVE Words(Set(h, more), k) = Words(h, k)
  BY <1>2, <1>4 DEF Words
<1> QED
  BY <1>2, <1>3, <1>4

LEMMA WordsOfAdd ==
    ASSUME NEW h, IsHeaderMap(h), NEW more, IsHeaderMap(more),
           NEW k \in DOMAIN Add(h, more), NEW w \in Words(Add(h, more), k)
    PROVE  \/ k \in DOMAIN h /\ w \in Words(h, k)
           \/ k \in DOMAIN more /\ w \in Words(more, k)
<1> DEFINE a == IF k \in DOMAIN h THEN h[k] ELSE <<>>
           b == IF k \in DOMAIN more THEN more[k] ELSE <<>>
<1>1. a \in Seq(Seq(Tokens)) /\ b \in Seq(Seq(Tokens))
  BY DEF IsHeaderMap
<1>2. Add(h, more)[k] = a \o b
  BY DEF Add
<1>3. DOMAIN a # {} => k \in DOMAIN h /\ a = h[k]
  OBVIOUS
<1>4. DOMAIN b # {} => k \in DOMAIN more /\ b = more[k]
  OBVIOUS
<1> HIDE DEF a, b
<1>5. PICK n \in DOMAIN (a \o b) : w \in Range((a \o b)[n])
  BY <1>2 DEF Words
<1>6. CASE n \in DOMAIN a
  <2>1. (a \o b)[n] = a[n]
    BY <1>1, <1>6
  <2>2. k \in DOMAIN h /\ n \in DOMAIN h[k] /\ w \in Range(h[k][n])
    BY <1>3, <1>5, <1>6, <2>1
  <2> QED
    BY <2>2 DEF Words
<1>7. CASE n \notin DOMAIN a
  <2>1. n - Len(a) \in DOMAIN b /\ (a \o b)[n] = b[n - Len(a)]
    BY <1>1, <1>7
  <2>2. k \in DOMAIN more /\ n - Len(a) \in DOMAIN more[k] /\ w \in Range(more[k][n - Len(a)])
    BY <1>4, <1>5, <2>1
  <2> QED
    BY <2>2 DEF Words
<1> QED
  BY <1>6, <1>7

(* The client's Authorization is not propagated.                           *)
LEMMA WordsOfPropagated ==
    ASSUME NEW src, IsHeaderMap(src), NEW dst, IsHeaderMap(dst),
           NEW k \in DOMAIN PropagateHeaders(src, dst),
           NEW w \in Words(PropagateHeaders(src, dst), k)
    PROVE  \/ k \in DOMAIN dst /\ w \in Words(dst, k)
           \/ k \in DOMAIN src /\ k # "Authorization" /\ w \in Words(src, k)
<1> DEFINE over == [n \in Overriding(src) |-> Get(src, n)]
           listed == Set(dst, over)
           yielding == {n \in DOMAIN src \cap XNames : Get(listed, n) = NoValue}
           rest == Restrict(src, yielding)
<1>1. IsFields(over)
  BY GetIsValue DEF IsFields, Overriding, Propagated, Names, XNames
<1>2. IsHeaderMap(listed)
  BY <1>1, SetIsMap
<1>3. IsHeaderMap(rest)
  BY DEF IsHeaderMap, Restrict
<1>4. PropagateHeaders(src, dst) = Add(listed, rest)
  BY DEF PropagateHeaders
<1>5. k \in DOMAIN rest => /\ k \in DOMAIN src /\ k # "Authorization"
                          /\ rest[k] = src[k]
  BY DEF Restrict, XNames
<1>6. k \in DOMAIN over => /\ k \in DOMAIN src /\ k # "Authorization"
                          /\ over[k] = Get(src, k)
  BY DEF Overriding, Propagated, Get
<1> HIDE DEF over, rest
<1>7. CASE k \in DOMAIN rest /\ w \in Words(rest, k)
  BY <1>5, <1>7 DEF Words
<1>8. CASE k \in DOMAIN listed /\ w \in Words(listed, k)
  <2>1. CASE k \in DOMAIN over
    BY <1>6, <1>8, <2>1, WordsOfSet, WordsOfGet
  <2>2. CASE k \notin DOMAIN over
    BY <1>8, <2>2, WordsOfSet
  <2> QED
    BY <2>1, <2>2
<1> HIDE DEF listed
<1> QED
  BY <1>2, <1>3, <1>4, <1>7, <1>8, WordsOfAdd

LEMMA WordsOfBase ==
    ASSUME NEW b \in Backends, NEW h, IsHeaderMap(h),
           NEW k \in DOMAIN Base(b, h), NEW w \in Words(Base(b, h), k)
    PROVE  \/ w \in OperatorWords(b)
           \/ k \in DOMAIN h /\ k # "Authorization" /\ w \in Words(h, k)
<1> DEFINE json == One("Content-Type", <<"json">>)
           first == Set(NoHeaders, json)
           dst == Set(first, b.defaults)
<1>1. IsFields(b.defaults) /\ <<"json">> \in Seq(Tokens)
  BY ForwardingAssumption DEF ForwardingAssumption
<1>2. IsFields(json)
  BY <1>1, OneIsFields DEF Names
<1>3. IsHeaderMap(first)
  BY <1>2, EmptyIsMap, SetIsMap
<1>4. IsHeaderMap(dst)
  BY <1>1, <1>3, SetIsMap
<1>5. DOMAIN first = {"Content-Type"} /\ first["Content-Type"] = <<<<"json">>>>
  BY DEF Set, One, NoHeaders
<1> HIDE DEF first
<1>6. ASSUME k \in DOMAIN dst, w \in Words(dst, k) PROVE w \in OperatorWords(b)
  <2>1. CASE k \in DOMAIN b.defaults
    <3>1. w \in Range(b.defaults[k])
      BY <1>6, <2>1, WordsOfSet
    <3>2. w \in WordsOf(b.defaults)
      BY <2>1, <3>1 DEF WordsOf
    <3> QED
      BY <3>2 DEF OperatorWords
  <2>2. CASE k \notin DOMAIN b.defaults
    <3>1. k = "Content-Type" /\ w \in Words(first, k)
      BY <1>5, <1>6, <2>2, WordsOfSet
    <3>2. w \in Range(<<"json">>)
      BY <1>5, <3>1, WordOfPair
    <3>3. w = "json"
      BY <3>2 DEF Range
    <3> QED
      BY <3>3 DEF OperatorWords
  <2> QED
    BY <2>1, <2>2
<1>7. Base(b, h) = PropagateHeaders(h, dst)
  BY DEF Base, first
<1> HIDE DEF dst
<1> QED
  BY <1>4, <1>6, <1>7, WordsOfPropagated

-----------------------------------------------------------------------------
LEMMA SendKeepsApart ==
    ASSUME TypeInv, RequestInv, Send PROVE KeysStayApart'
<1> DEFINE b == backend
           h == headers
<1>1. /\ sent' = BackendHeaders(b, h) /\ IsHeaderMap(h) /\ b \in Backends
      /\ client \in ClientHeaders /\ UNCHANGED <<backend, client>>
  BY DEF Send, TypeInv, TypeOK
<1>2. ASSUME NEW k \in DOMAIN h, NEW w \in Words(h, k)
      PROVE  w \in HookWords \/ (k \in DOMAIN Sanitized /\ w \in Words(client, k))
  BY <1>2 DEF Send, RequestInv
<1>3. DOMAIN Sanitized \subseteq DOMAIN client /\ "X-Api-Key" \notin DOMAIN Sanitized
  BY SanitizedIsClients DEF XNames, Propagated
<1>4. ASSUME NEW bad, "Bearer" \notin bad, bad \cap OperatorWords(b) = {},
             \A k \in DOMAIN Sanitized \ {"Authorization"} : bad \cap Words(client, k) = {},
             ResolveCredential(b.auth, h).value # NoValue =>
                bad \cap Range(ResolveCredential(b.auth, h).value) = {}
      PROVE  bad \cap SentWords' = {}
  <2>1. ASSUME NEW k \in DOMAIN Base(b, h), NEW w \in Words(Base(b, h), k), w \in bad
        PROVE  FALSE
    <3>1. k \in DOMAIN h /\ k # "Authorization" /\ w \in Words(h, k)
      BY <1>1, <1>4, <2>1, WordsOfBase
    <3>2. w \notin HookWords
      BY <1>4, <2>1 DEF OperatorWords
    <3> QED
      BY <1>2, <1>4, <2>1, <3>1, <3>2
  <2>2. SUFFICES ASSUME NEW k \in DOMAIN BackendHeaders(b, h),
                        NEW w \in Words(BackendHeaders(b, h), k), w \in bad
                 PROVE  FALSE
    BY <1>1 DEF SentWords, Words
  <2>3. CASE BackendHeaders(b, h) = Base(b, h)
    BY <2>1, <2>2, <2>3
  <2>4. CASE /\ ResolveCredential(b.auth, h).value # NoValue
             /\ BackendHeaders(b, h) =
                   Set(Base(b, h), One(Mapped(b, h).header, Mapped(b, h).value))
    <3> DEFINE cred == One(Mapped(b, h).header, Mapped(b, h).value)
    <3>1. CASE k \in DOMAIN cred
      <4>1. cred[k] = Mapped(b, h).value
        BY <3>1 DEF One
      <4>2. w \in Range(Mapped(b, h).value)
        BY <2>2, <2>4, <3>1, <4>1, WordsOfSet
      <4>3. w \in Range(ResolveCredential(b.auth, h).value) \cup {"Bearer"}
        BY <1>1, <2>4, <4>2, ResolveIsCredential, MappedCredential DEF Mapped
      <4> QED
        BY <1>4, <2>2, <2>4, <4>3
    <3>2. CASE k \notin DOMAIN cred
      BY <2>1, <2>2, <2>4, <3>2, WordsOfSet
    <3> QED
      BY <3>1, <3>2
  <2> QED
    BY <1>1, <2>3, <2>4, HeadersAreBaseAndCredential
<1>5. ASSUME b.auth.mode = "inject" PROVE ClientKeys \cap SentWords' = {}
  <2>1. "Bearer" \notin ClientKeys
    BY Zenon DEF ClientKeys, KeyWords
  <2>2. ClientKeys \cap (OperatorWords(b) \cup Range(b.auth.value)) = {}
    BY <1>1, KeysAreOwn DEF ClientKeys
  <2>3. \A k \in DOMAIN Sanitized \ {"Authorization"} : ClientKeys \cap Words(client, k) = {}
    BY <1>1, <1>3, KeysAreOwn DEF ClientKeys, AuthNames
  <2>4. ResolveCredential(b.auth, h).value = b.auth.value
    BY <1>5 DEF ResolveCredential
  <2> QED
    BY <1>4, <2>1, <2>2, <2>3, <2>4
<1>6. ASSUME b.auth.mode = "passthrough" PROVE KeysOf(b.auth) \cap SentWords' = {}
  <2> DEFINE bad == KeysOf(b.auth)
  <2>1. "Bearer" \notin bad
    BY DEF KeysOf
  <2>2. bad \cap OperatorWords(b) = {} /\ \A k \in DOMAIN client : bad \cap Words(client, k) = {}
    BY <1>1, KeysAreOwn
  <2> HIDE DEF bad
  <2>3. ResolveCredential(b.auth, h) = ExtractClientCredential(h)
    BY <1>6 DEF ResolveCredential
  <2>4. ASSUME ExtractClientCredential(h).value # NoValue
        PROVE  bad \cap Range(ExtractClientCredential(h).value) = {}
    <3>1. PICK k \in AuthNames \cap DOMAIN h : ExtractClientCredential(h).value = Get(h, k)
      BY <1>1, <2>4, ExtractIsCredential
    <3>2. Range(ExtractClientCredential(h).value) \subseteq Words(h, k)
      BY <1>1, <3>1, WordsOfGet
    <3>3. bad \cap HookWords = {}
      BY <2>2 DEF OperatorWords
    <3>4. \A w \in Words(h, k) : w \notin bad
      BY <1>2, <1>3, <2>2, <3>1, <3>3
    <3> QED
      BY <3>2, <3>4
  <2>5. bad \cap SentWords' = {}
    BY <1>3, <1>4, <2>1, <2>2, <2>3, <2>4
  <2> QED
    BY <2>5 DEF bad
<1> QED
  BY <1>1, <1>5, <1>6 DEF KeysStayApart, ClientKeys

-----------------------------------------------------------------------------
(* A trace on its way to the backend and back.                             *)

LEMMA PropagatedSurvives ==
    ASSUME NEW b \in Backends, NEW h, IsHeaderMap(h), NEW k \in Propagated,
           Get(h, k) # NoValue
    PROVE  Get(BackendHeaders(b, h), k) = Get(h, k)
<1> DEFINE dst == Set(Set(NoHeaders, One("Content-Type", <<"json">>)), b.defaults)
           listed == Set(dst, [n \in Overriding(h) |-> Get(h, n)])
           yielding == {n \in DOMAIN h \cap XNames : Get(listed, n) = NoValue}
<1>1. Get(h, k) \in Seq(Tokens)
  BY GetIsValue
<1>2. k \in DOMAIN listed /\ listed[k] = <<Get(h, k)>>
  BY DEF Overriding, Set
<1>3. Get(listed, k) = Get(h, k)
  BY <1>2 DEF Get
<1>4. k \notin DOMAIN Restrict(h, yielding)
  BY <1>3 DEF Restrict
<1>5. Base(b, h) = Add(listed, Restrict(h, yielding))
  BY DEF Base, PropagateHeaders
<1> HIDE DEF listed, yielding
<1>6. k \in DOMAIN Base(b, h) /\ Base(b, h)[k] = <<Get(h, k)>> \o <<>>
  BY <1>2, <1>4, <1>5 DEF Add
<1>7. <<Get(h, k)>> \o <<>> = <<Get(h, k)>>
  BY <1>1
<1>8. Get(Base(b, h), k) = Get(h, k)
  BY <1>6, <1>7 DEF Get
<1>9. CASE /\ ResolveCredential(b.auth, h).value # NoValue
           /\ BackendHeaders(b, h) = Set(Base(b, h), One(Mapped(b, h).header, Mapped(b, h).value))
  <2>1. Mapped(b, h).header \in AuthNames
    BY <1>9, ResolveIsCredential, MappedCredential DEF Mapped, AuthNames
  <2>2. k # Mapped(b, h).header
    BY <2>1 DEF AuthNames, Propagated
  <2>3. k \in DOMAIN BackendHeaders(b, h) /\ BackendHeaders(b, h)[k] = Base(b, h)[k]
    BY <1>6, <1>9, <2>2 DEF Set, One
  <2> QED
    BY <1>6, <1>8, <2>3 DEF Get
<1> QED
  BY <1>8, <1>9, HeadersAreBaseAndCredential

LEMMA FirstStaysInAdd ==
    ASSUME NEW h, IsHeaderMap(h), NEW more, IsHeaderMap(more), NEW k \in DOMAIN h
    PROVE  k \in DOMAIN Add(h, more) /\ Get(Add(h, more), k) = Get(h, k)
<1> DEFINE b == IF k \in DOMAIN more THEN more[k] ELSE <<>>
<1>1. h[k] \in Seq(Seq(Tokens)) /\ h[k] # <<>> /\ b \in Seq(Seq(Tokens))
  BY DEF IsHeaderMap
<1>2. k \in DOMAIN Add(h, more) /\ Add(h, more)[k] = h[k] \o b
  BY DEF Add
<1> HIDE DEF b
<1>3. (h[k] \o b)[1] = h[k][1]
  BY <1>1
<1> QED
  BY <1>2, <1>3 DEF Get

(* The part of TraceSurvives that is about the answer, as an invariant.    *)
EchoInv ==
    phase # "arriving" =>
       \A k \in Propagated \cap DOMAIN client :
          k \in DOMAIN answer /\ Get(answer, k) = Get(client, k)

LEMMA EchoNext == TypeInv /\ EchoInv /\ [Next]_vars => EchoInv'
<1> SUFFICES ASSUME TypeInv, EchoInv, [Next]_vars PROVE EchoInv'
  OBVIOUS
<1>1. CASE Accept
  <2>1. client \in ClientHeaders /\ client' = client /\ answer' = Set(answer, Echoed(client))
    BY <1>1 DEF Accept, TypeInv, TypeOK
  <2>2. ASSUME NEW k \in Propagated \cap DOMAIN client
        PROVE  k \in DOMAIN Echoed(client) /\ Echoed(client)[k] = Get(client, k)
    <3>1. Get(client, k) # NoValue
      BY <2>1, KeysHaveForm
    <3> QED
      BY <3>1 DEF Echoed, One, NormalizeRequestID, Propagated
  <2> QED
    BY <2>1, <2>2 DEF EchoInv, Set, Get
<1>2. ASSUME NEW more, IsHeaderMap(more), answer' = Add(answer, more), client' = client,
             phase # "arriving"
      PROVE  EchoInv'
  <2>1. IsHeaderMap(answer)
    BY DEF TypeInv, TypeOK
  <2> QED
    BY <1>2, <2>1, FirstStaysInAdd DEF EchoInv
<1>3. CASE ReplyError
  <2>1. PICK reply \in ReplyHeaders :
           answer' = Add(answer, Add(IF passthrough THEN Del(reply, {"Content-Type"})
                                     ELSE NoHeaders, Json))
    BY <1>3 DEF ReplyError
  <2>2. IsHeaderMap(reply)
    BY ForwardingAssumption DEF ForwardingAssumption
  <2>3. IsHeaderMap(IF passthrough THEN Del(reply, {"Content-Type"}) ELSE NoHeaders)
    BY <2>2, EmptyIsMap, DelIsMap
  <2> QED
    BY <1>2, <1>3, <2>1, <2>3, JsonIsMap, AddIsMap DEF ReplyError
<1>4. CASE WriteOutboundResponse
  <2>1. IsHeaderMap(IF passthrough THEN headers
                    ELSE Add(Del(headers, {"Content-Type"}), Json))
    BY JsonIsMap, DelIsMap, AddIsMap DEF TypeInv, TypeOK
  <2> QED
    BY <1>2, <1>4, <2>1 DEF WriteOutboundResponse
<1>5. CASE RunHook \/ Send \/ ReplyOK \/ Answered \/ UNCHANGED vars
  <2>1. UNCHANGED <<client, answer>> /\ (phase' # "arriving" => phase # "arriving")
    BY <1>5 DEF RunHook, Send, ReplyOK, Answered, vars
  <2> QED
    BY <2>1 DEF EchoInv
<1> QED
  BY <1>1, <1>3, <1>4, <1>5 DEF Next

(* The part about the backend's request.                                   *)
TraceSent ==
    IsSent => \A k \in Propagated \cap DOMAIN client :
                 ~Touched(k) => Get(sent, k) = Get(client, k)

LEMMA SendKeepsTrace ==
    ASSUME TypeInv, RequestInv, Send PROVE TraceSent'
<1>1. /\ sent' = BackendHeaders(backend, headers) /\ IsHeaderMap(headers)
      /\ backend \in Backends /\ client \in ClientHeaders /\ UNCHANGED client
  BY DEF Send, TypeInv, TypeOK
<1>2. ASSUME NEW k \in Propagated \cap DOMAIN client, ~Touched(k)
      PROVE  Get(sent', k) = Get(client, k)
  <2>1. k \in DOMAIN Sanitized /\ k \in Names
    BY SanitizedIsClients DEF Propagated, Names, XNames
  <2>2. k \in DOMAIN headers /\ headers[k] = client[k]
    BY <1>2, <2>1 DEF Send, RequestInv
  <2>3. Get(headers, k) = Get(client, k) /\ Get(client, k) # NoValue
    BY <1>1, <2>2, KeysHaveForm DEF Get
  <2> QED
    BY <1>1, <2>3, PropagatedSurvives
<1>3. \A k : Touched(k)' = Touched(k)
  BY DEF Touched
<1> QED
  BY <1>1, <1>2, <1>3 DEF TraceSent

-----------------------------------------------------------------------------
(* A key in the form of the backend's protocol.                            *)

LEMMA OneWord ==
    ASSUME NEW s \in Seq(Tokens), Len(s) = 1 PROVE s = <<s[1]>>
<1> DEFINE t == <<s[1]>>
<1>1. s[1] \in Tokens
  OBVIOUS
<1>2. t \in Seq(Tokens) /\ Len(t) = 1 /\ t[1] = s[1]
  BY <1>1
<1> HIDE DEF t
<1>3. \A i \in 1..Len(s) : s[i] = t[i]
  BY <1>2
<1>4. s = t
  BY <1>2, <1>3, SeqEqual
<1> QED
  BY <1>4 DEF t

LEMMA TwoWords ==
    ASSUME NEW s \in Seq(Tokens), Len(s) = 2 PROVE s = <<s[1], s[2]>>
<1> DEFINE t == <<s[1], s[2]>>
<1>1. s[1] \in Tokens /\ s[2] \in Tokens
  OBVIOUS
<1>2. t \in Seq(Tokens) /\ Len(t) = 2 /\ t[1] = s[1] /\ t[2] = s[2]
  BY <1>1
<1> HIDE DEF t
<1>3. \A i \in 1..Len(s) : s[i] = t[i]
  BY <1>2
<1>4. s = t
  BY <1>2, <1>3, SeqEqual
<1> QED
  BY <1>4 DEF t

LEMMA KeyIsInForm ==
    ASSUME NEW b \in Backends, NEW h, NEW v \in Seq(Tokens), NEW key,
           ResolveCredential(b.auth, h).value = v,
           \/ IsBearer(v) /\ key = v[2]
           \/ Len(v) = 1 /\ key = v[1]
    PROVE  IF b.protocol = "openai"
           THEN Get(BackendHeaders(b, h), "Authorization") = <<"Bearer", key>>
           ELSE Get(BackendHeaders(b, h), "X-Api-Key") = <<key>>
<1> DEFINE cred == ResolveCredential(b.auth, h)
           bare == IF Len(cred.value) > 1 /\ cred.value[1] = "Bearer"
                   THEN Tail(cred.value) ELSE cred.value
           form == IF b.protocol = "openai"
                   THEN [header |-> "Authorization", value |-> <<"Bearer", key>>]
                   ELSE [header |-> "X-Api-Key", value |-> <<key>>]
<1>0. key \in Tokens /\ "Bearer" \in Tokens
  BY ForwardingAssumption DEF ForwardingAssumption, IsBearer
<1>1. v # NoValue
  BY DEF NoValue, IsBearer
<1>2. bare = <<key>>
  <2>1. CASE IsBearer(v) /\ key = v[2]
    <3>1. Len(v) = 2 /\ v[2] = key
      BY <2>1 DEF IsBearer
    <3>2. Tail(v) \in Seq(Tokens) /\ Len(Tail(v)) = 1 /\ Tail(v)[1] = key
      BY <3>1
    <3>3. Tail(v) = <<key>>
      BY <3>2, OneWord
    <3> QED
      BY <2>1, <3>3 DEF IsBearer
  <2>2. CASE Len(v) = 1 /\ key = v[1]
    <3>1. v = <<key>>
      BY <2>2, OneWord
    <3> QED
      BY <2>2, <3>1
  <2> QED
    BY <2>1, <2>2
<1>3. <<"Bearer">> \o bare = <<"Bearer", key>>
  <2>1. <<"Bearer">> \o <<key>> \in Seq(Tokens)
    BY <1>0
  <2>2. /\ Len(<<"Bearer">> \o <<key>>) = 2
        /\ (<<"Bearer">> \o <<key>>)[1] = "Bearer" /\ (<<"Bearer">> \o <<key>>)[2] = key
    BY <1>0
  <2>3. <<"Bearer">> \o <<key>> = <<"Bearer", key>>
    BY <2>1, <2>2, TwoWords
  <2> QED
    BY <1>2, <2>3
<1>4. Mapped(b, h) = form
  <2>1. CASE b.protocol = "openai"
    BY <1>1, <1>3, <2>1 DEF Mapped, MapCredentialToProtocol
  <2>2. CASE b.protocol # "openai"
    BY <1>1, <1>2, <2>2 DEF Mapped, MapCredentialToProtocol
  <2> QED
    BY <2>1, <2>2
<1>5. form.value # NoValue
  BY DEF NoValue
<1>6. BackendHeaders(b, h) = Set(Base(b, h), One(form.header, form.value))
  BY <1>4, <1>5 DEF BackendHeaders, Base, Mapped
<1> HIDE DEF form
<1>7. Get(BackendHeaders(b, h), form.header) = form.value
  BY <1>6 DEF Set, One, Get
<1> QED
  BY <1>7 DEF form

LEMMA SendKeepsForm ==
    ASSUME TypeInv, RequestInv, Send PROVE CredentialFits'
<1> DEFINE b == backend
           h == headers
<1>1. /\ sent' = BackendHeaders(b, h) /\ IsHeaderMap(h) /\ b \in Backends
      /\ client \in ClientHeaders /\ IsHeaderMap(client)
      /\ UNCHANGED <<backend, client>>
  BY ForwardingAssumption DEF Send, TypeInv, TypeOK, ForwardingAssumption
<1>2. ASSUME NEW k \in AuthNames
      PROVE  /\ k \in DOMAIN h => k \in DOMAIN client
             /\ k = "Authorization" /\ k \in DOMAIN client => k \in DOMAIN h /\ h[k] = client[k]
  <2>1. ~Touched(k)
    BY KeysHaveForm DEF Touched
  <2>2. k \in Names /\ (k = "Authorization" => k \notin XNames)
    BY DEF AuthNames, Names, XNames
  <2> QED
    BY <2>1, <2>2, SanitizedIsClients DEF Send, RequestInv
<1>3. ASSUME UsesClientKey PROVE (\E key \in ClientKeys : InForm(key))'
  <2>0. PICK v : v = Get(client, "Authorization")
    OBVIOUS
  <2>1. /\ "Authorization" \in DOMAIN client /\ b.auth.mode # "inject" /\ IsBearer(v)
    BY <1>1, <1>3, <2>0, KeysHaveForm DEF UsesClientKey
  <2>2. Get(h, "Authorization") = v /\ v \in Seq(Tokens)
    BY <1>1, <1>2, <2>0, <2>1, GetIsValue DEF Get, AuthNames
  <2>3. v # NoValue
    BY <2>1 DEF IsBearer, NoValue
  <2>4. PICK key : key = v[2]
    OBVIOUS
  <2>5. key \in Range(v) /\ key # "Bearer"
    BY <2>1, <2>2, <2>4 DEF IsBearer, Range
  <2>6. Range(v) \subseteq Words(client, "Authorization")
    BY <1>1, <2>0, <2>1, WordsOfGet
  <2>7. ExtractClientCredential(h) = [header |-> "Authorization", value |-> v]
    BY <2>2, <2>3 DEF ExtractClientCredential
  <2>8. ExtractClientCredential(h) # NoCredential
    <3>1. ExtractClientCredential(h).value = v /\ NoCredential.value = NoValue
      BY <2>7 DEF NoCredential
    <3> QED
      BY <2>3, <3>1
  <2>9. b.auth.mode \in {"passthrough", "prefer_client"}
    BY <1>1, <2>1, ForwardingAssumption DEF ForwardingAssumption, AuthModes
  <2>10. ResolveCredential(b.auth, h) = ExtractClientCredential(h)
    BY <2>8, <2>9 DEF ResolveCredential
  <2>11. ResolveCredential(b.auth, h).value = v
    BY <2>7, <2>10
  <2>12. IF b.protocol = "openai"
         THEN Get(BackendHeaders(b, h), "Authorization") = <<"Bearer", key>>
         ELSE Get(BackendHeaders(b, h), "X-Api-Key") = <<key>>
    BY <1>1, <2>1, <2>2, <2>4, <2>11, KeyIsInForm
  <2>13. InForm(key)'
    BY <1>1, <2>12 DEF InForm
  <2>14. key \in ClientKeys
    BY <2>1, <2>5, <2>6 DEF ClientKeys, KeyWords, AuthNames
  <2>15. ClientKeys' = ClientKeys
    BY <1>1 DEF ClientKeys
  <2> QED
    BY <2>13, <2>14, <2>15
<1>4. ASSUME UsesConfiguredKey PROVE (\E key \in KeysOf(backend.auth) : InForm(key))'
  <2>0. PICK v : v = b.auth.value
    OBVIOUS
  <2>1. v \in Seq(Tokens) /\ (IsBearer(v) \/ (Len(v) = 1 /\ v[1] # "Bearer"))
    BY <1>1, <2>0, ForwardingAssumption, KeysHaveForm DEF ForwardingAssumption
  <2>2. ASSUME b.auth.mode = "inject" PROVE ResolveCredential(b.auth, h).value = v
    BY <2>0, <2>2 DEF ResolveCredential
  <2>3. ASSUME b.auth.mode = "prefer_client", ClientKeys = {}
        PROVE  ResolveCredential(b.auth, h).value = v
    <3>1. DOMAIN client \cap AuthNames = {}
      <4>1. ASSUME NEW k \in DOMAIN client \cap AuthNames PROVE FALSE
        <5>1. PICK w \in Words(client, k) : w # "Bearer"
          BY <1>1, KeysHaveForm
        <5>2. w \in ClientKeys
          BY <4>1, <5>1 DEF ClientKeys, KeyWords
        <5> QED
          BY <2>3, <5>2
      <4> QED
        BY <4>1
    <3>2. Get(h, "Authorization") = NoValue /\ Get(h, "X-Api-Key") = NoValue
      BY <1>2, <3>1 DEF Get, AuthNames
    <3>3. ExtractClientCredential(h) = NoCredential
      BY <3>2 DEF ExtractClientCredential
    <3> QED
      BY <2>0, <2>3, <3>3 DEF ResolveCredential
  <2>4. ResolveCredential(b.auth, h).value = v
    BY <1>4, <2>2, <2>3 DEF UsesConfiguredKey
  <2>5. PICK key : \/ IsBearer(v) /\ key = v[2]
                   \/ Len(v) = 1 /\ v[1] # "Bearer" /\ key = v[1]
    BY <2>1
  <2>6. key \in KeysOf(b.auth)
    <3>1. key \in Range(v) /\ key # "Bearer"
      BY <2>1, <2>5 DEF IsBearer, Range
    <3> QED
      BY <2>0, <3>1 DEF KeysOf
  <2>7. IF b.protocol = "openai"
        THEN Get(BackendHeaders(b, h), "Authorization") = <<"Bearer", key>>
        ELSE Get(BackendHeaders(b, h), "X-Api-Key") = <<key>>
    BY <1>1, <2>1, <2>4, <2>5, KeyIsInForm
  <2>8. InForm(key)'
    BY <1>1, <2>7 DEF InForm
  <2>9. KeysOf(backend.auth)' = KeysOf(backend.auth)
    BY <1>1
  <2> QED
    BY <2>6, <2>8, <2>9
<1>5. UsesClientKey' = UsesClientKey /\ UsesConfiguredKey' = UsesConfiguredKey
  BY <1>1 DEF UsesClientKey, UsesConfiguredKey, ClientKeys
<1> QED
  BY <1>3, <1>4, <1>5 DEF CredentialFits

-----------------------------------------------------------------------------
(* Once the request is sent nothing the properties of it speak of changes. *)
SentInv == KeysStayApart /\ CredentialFits /\ TraceSent

LEMMA SentNext == TypeInv /\ RequestInv /\ SentInv /\ [Next]_vars => SentInv'
<1> SUFFICES ASSUME TypeInv, RequestInv, SentInv, [Next]_vars PROVE SentInv'
  OBVIOUS
<1>1. CASE Send
  BY <1>1, SendKeepsApart, SendKeepsForm, SendKeepsTrace DEF SentInv
<1>2. CASE ~Send
  <2>1. /\ UNCHANGED <<backend, client, sent>>
        /\ IsSent' => IsSent
    BY <1>2 DEF Next, Accept, RunHook, ReplyOK, ReplyError, WriteOutboundResponse,
                Answered, vars, IsSent
  <2>2. \A k : Touched(k)' = Touched(k)
    BY DEF Touched
  <2>3. SentWords' = SentWords /\ ClientKeys' = ClientKeys
    BY <2>1 DEF SentWords, ClientKeys, Words
  <2>4. \A key : InForm(key)' = InForm(key)
    BY <2>1 DEF InForm
  <2>5. UsesClientKey' = UsesClientKey /\ UsesConfiguredKey' = UsesConfiguredKey
    BY <2>1, <2>3 DEF UsesClientKey, UsesConfiguredKey
  <2>6. KeysStayApart' /\ TraceSent'
    BY <2>1, <2>2, <2>3 DEF SentInv, KeysStayApart, TraceSent
  <2>7. CredentialFits'
    BY <2>1, <2>3, <2>4, <2>5 DEF SentInv, CredentialFits
  <2> QED
    BY <2>6, <2>7 DEF SentInv
<1> QED
  BY <1>1, <1>2

LEMMA ForwardingInv == Spec => [](TypeInv /\ RequestInv /\ SentInv /\ EchoInv)
<1>1. Init => RequestInv /\ SentInv /\ EchoInv
  BY DEF Init, RequestInv, SentInv, EchoInv, KeysStayApart, CredentialFits, TraceSent, IsSent
<1> QED
  BY <1>1, TypeInit, TypeNext, RequestNext, SentNext, EchoNext, PTL DEF Spec

(* Every header map stays one, whatever hooks and backends add.            *)
THEOREM ForwardingTypeCorrect == Spec => []TypeOK
<1>1. TypeInv => TypeOK
  BY DEF TypeInv
<1> QED
  BY <1>1, ForwardingInv, PTL

(* In the modes inject and passthrough the key of the other side is in no  *)
(* header of the backend's request (buildRequest), for any hooks and any   *)
(* default headers, if keys can be told from everything else.              *)
THEOREM KeysAreApart == Spec => []KeysStayApart
<1>1. SentInv => KeysStayApart
  BY DEF SentInv
<1> QED
  BY <1>1, ForwardingInv, PTL

(* The key in use arrives in the form of the backend's protocol            *)
(* (mapCredentialToProtocol), if hooks leave credentials alone.            *)
THEOREM CredentialsFit == Spec => []CredentialFits
<1>1. SentInv => CredentialFits
  BY DEF SentInv
<1> QED
  BY <1>1, ForwardingInv, PTL

(* What a client sends to trace its request reaches the backend and comes  *)
(* back, unless a hook touches it.                                         *)
THEOREM TracesSurvive == Spec => []TraceSurvives
<1>1. TraceSent /\ EchoInv => TraceSurvives
  BY DEF TraceSent, EchoInv, TraceSurvives
<1> QED
  BY <1>1, ForwardingInv, PTL DEF SentInv

=============================================================================
