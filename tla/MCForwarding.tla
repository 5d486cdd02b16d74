---------------------------- MODULE MCForwarding ----------------------------
(* Forwarding for TLC: every mode and protocol, with a client's key in     *)
(* every form a client may send it.                                        *)
EXTENDS Forwarding, TLC

MCTokens == STRING

Auth(mode, header, value) == [mode |-> mode, header |-> header, value |-> value]

MCAuths ==
    {Auth(mode, "Authorization", <<"Bearer", "gk">>) : mode \in AuthModes}
      \cup {Auth(mode, "X-Api-Key", <<"gk">>) : mode \in AuthModes}

MCBackends ==
    [protocol: Protocols, auth: MCAuths,
     defaults: {NoHeaders, "X-Team" :> <<"gateway">>,
                "X-Request-Id" :> <<"gateway">>}]

Keys == {NoHeaders, "Authorization" :> <<<<"Bearer", "ck">>>>,
         "Authorization" :> <<<<"Basic", "ck">>>>, "X-Api-Key" :> <<<<"ck">>>>,
         "X-Api-Key" :> <<<<"ck">>>> @@ "Authorization" :> <<<<"Bearer", "ck2">>>>}

Traces == {NoHeaders, "Traceparent" :> <<<<"trace">>>>,
           "X-Request-Id" :> <<<<"id">>>> @@ "X-Team" :> <<<<"client">>>>}

MCClientHeaders == {k @@ t : k \in Keys, t \in Traces}

MCReplyHeaders ==
    {"Content-Type" :> <<<<"json">>>>,
     "Content-Type" :> <<<<"json">>>> @@ "X-Request-Id" :> <<<<"theirs">>>>}

AddTeam == [add |-> "X-Team" :> <<"hook">>, remove |-> {}]
DropTeam == [add |-> NoHeaders, remove |-> {"X-Team"}]
DropTrace == [add |-> NoHeaders, remove |-> {"X-Request-Id"}]

MCRequestHooks == {<<>>, <<AddTeam>>, <<AddTeam, DropTeam>>}
MCResponseHooks == {<<>>, <<AddTeam, DropTrace>>}

=============================================================================
