------------------------------ MODULE Headers ------------------------------
(***************************************************************************)
(* HTTP headers on their way from the client to the backend                *)
(* (internal/backend/backend.go): what is filtered, what is forwarded, and *)
(* which credential is put on the request.                                 *)
(*                                                                         *)
(* A header map is a function from names to sequences of values.  A value  *)
(* is the sequence of its words, so that "Bearer key" is                   *)
(* <<"Bearer", "key">>, and the empty value is <<>>.                       *)
(***************************************************************************)
EXTENDS Pipeline, Sequences, Functions

XNames == {"X-Request-Id", "X-Api-Key", "X-Team"}

Names == XNames \cup {"Authorization", "Traceparent", "Content-Type"}

NoValue == <<>>

NoHeaders == [k \in {} |-> <<>>]

Get(h, k) == IF k \in DOMAIN h THEN h[k][1] ELSE NoValue

(* Header.Set, for every pair of more.                                     *)
Set(h, more) ==
    [k \in DOMAIN h \cup DOMAIN more |->
        IF k \in DOMAIN more THEN <<more[k]>> ELSE h[k]]

(* Header.Add, for every value of more.                                    *)
Add(h, more) ==
    [k \in DOMAIN h \cup DOMAIN more |->
        (IF k \in DOMAIN h THEN h[k] ELSE <<>>)
          \o (IF k \in DOMAIN more THEN more[k] ELSE <<>>)]

(* Variant: a header is emptied, and its name kept.                        *)
DelValues(h, names) ==
    [k \in DOMAIN h |-> IF k \in names THEN <<>> ELSE h[k]]

(* Header.Del, for every name of names.                                    *)
Del(h, names) == Restrict(h, DOMAIN h \ names)

One(k, v) == [n \in {k} |-> v]

-----------------------------------------------------------------------------
Propagated == {"X-Request-Id", "Traceparent"}

(* Variant: the client's headers are taken as they are.                    *)
SanitizeNothing(h) == h

(* Before hooks run, a client's X- headers outside the list are dropped.   *)
SanitizeClientHeaders(h) == Del(h, (DOMAIN h \cap XNames) \ Propagated)

(* The list overrides dst; any other X- header yields to it.               *)
Overriding(src) == {k \in Propagated : Get(src, k) # NoValue}

(* Variant: the list is not walked, only the X- headers are.               *)
PropagateXOnly(src, dst) ==
    LET yielding == {k \in DOMAIN src \cap XNames : Get(dst, k) = NoValue}
    IN  Add(dst, Restrict(src, yielding))

PropagateHeaders(src, dst) ==
    LET listed == Set(dst, [k \in Overriding(src) |-> Get(src, k)])
        yielding == {k \in DOMAIN src \cap XNames : Get(listed, k) = NoValue}
    IN  Add(listed, Restrict(src, yielding))

-----------------------------------------------------------------------------
AuthModes == {"inject", "passthrough", "prefer_client"}

NoCredential == [header |-> "", value |-> NoValue]

ExtractClientCredential(h) ==
    CASE Get(h, "Authorization") # NoValue ->
            [header |-> "Authorization", value |-> Get(h, "Authorization")]
      [] /\ Get(h, "Authorization") = NoValue
         /\ Get(h, "X-Api-Key") # NoValue ->
            [header |-> "X-Api-Key", value |-> Get(h, "X-Api-Key")]
      [] OTHER -> NoCredential

(* auth is a backend's configuration: mode, header and value.              *)
ResolveCredential(auth, h) ==
    IF \/ auth.mode = "passthrough"
       \/ /\ auth.mode = "prefer_client"
          /\ ExtractClientCredential(h) # NoCredential
    THEN ExtractClientCredential(h)
    ELSE [header |-> auth.header, value |-> auth.value]

(* Variant: the credential's own form is kept.                             *)
MapNothing(cred, target) == cred

(* A value in Bearer form is stripped of it, and any value is then put in  *)
(* the target protocol's form.                                             *)
MapCredentialToProtocol(cred, target) ==
    LET key == IF Len(cred.value) > 1 /\ cred.value[1] = "Bearer"
               THEN Tail(cred.value) ELSE cred.value
    IN  CASE cred.value = NoValue -> cred
          [] cred.value # NoValue /\ target = "openai" ->
                [header |-> "Authorization", value |-> <<"Bearer">> \o key]
          [] OTHER -> [header |-> "X-Api-Key", value |-> key]

(* buildRequest and DoRawProxy: JSON, the backend's default headers, what  *)
(* is propagated, and the credential over everything else.                 *)
BackendHeaders(backend, h) ==
    LET json == One("Content-Type", <<"json">>)
        base == PropagateHeaders(h, Set(Set(NoHeaders, json), backend.defaults))
        cred == MapCredentialToProtocol(ResolveCredential(backend.auth, h),
                                        backend.protocol)
    IN  IF cred.value = NoValue THEN base
        ELSE Set(base, One(cred.header, cred.value))

=============================================================================
