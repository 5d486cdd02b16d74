------------------------------ MODULE Startup ------------------------------
(***************************************************************************)
(* From the configuration to a handler: expansion, defaults and validation *)
(* (internal/config/config.go), NewHandler (internal/app/handler.go) and   *)
(* BuildFromConfig (internal/hooks/registry.go).                           *)
(*                                                                         *)
(* backends, routes and hooks are sequences, in the order of the file.  A  *)
(* value is missing, plain, or refers to an environment variable that is   *)
(* set or not.  What is wrong with a configuration is only logged, so each *)
(* check is a conjunct.                                                    *)
(***************************************************************************)
EXTENDS Routes

CONSTANT Factories      \* for each registered hook type, the stage its
                        \* hooks have the Execute of, or "none"

BuiltIn == {"logging", "request_text_modifier", "response_text_modifier",
            "stream_text_modifier", "header_modifier"}

Stages == {"pre_request", "post_response", "stream_event", "error"}

Values == {"", "plain", "${SET}", "${UNSET}"}
Modes == {"inject", "passthrough", "prefer_client"}

(* What a file that can be parsed says of what is modelled; "other" stands *)
(* for every word that is not a mode.                                      *)
Configuration ==
    [backends: Seq([name: STRING, protocol: STRING, baseURL: Values,
                    mode: Modes \cup {"", "other"}, value: Values, header: Values]),
     routes: Seq([name: STRING, priority: Int, protocol: STRING, prefix: Seq(STRING),
                  kinds: SUBSET STRING, backend: STRING]),
     hooks: Seq([name: STRING, type: STRING, stage: STRING, enabled: BOOLEAN,
                 phase: STRING])]

-----------------------------------------------------------------------------
(* expandEnvVars leaves a variable that is not set as it is.               *)
Expand(value) == IF value = "${SET}" THEN "plain" ELSE value
IsUnresolved(value) == value = "${UNSET}"

(* setDefaults; those of the listener are left out.                        *)
LoadedBackend(b) ==
    [b EXCEPT !.baseURL = Expand(@), !.value = Expand(@), !.header = Expand(@),
              !.mode = IF @ = "" THEN "inject" ELSE @]

Loaded(config) ==
    [config EXCEPT !.backends = [n \in DOMAIN @ |-> LoadedBackend(@[n])]]

NamesIn(entries) == {entries[n].name : n \in DOMAIN entries}
NamesDiffer(entries) ==
    \A n, k \in DOMAIN entries : entries[n].name = entries[k].name => n = k

(* Variant: only the credential is looked at.                              *)
BackendIsValidByKey(b) ==
    /\ b.name # "" /\ b.protocol # "" /\ b.baseURL # ""
    /\ b.mode \in Modes
    /\ ~IsUnresolved(b.value)

BackendIsValid(b) ==
    /\ b.name # "" /\ b.protocol # "" /\ b.baseURL # ""
    /\ b.mode \in Modes
    /\ ~IsUnresolved(b.baseURL) /\ ~IsUnresolved(b.value) /\ ~IsUnresolved(b.header)

ValidKinds(protocol) ==
    CASE protocol = "anthropic" -> {"chat"}
      [] protocol = "openai"    -> EndpointKinds

RouteIsValid(r, backends) ==
    /\ r.name # ""
    /\ r.backend # "" /\ r.backend \in NamesIn(backends)
    /\ r.prefix # <<>>
    /\ r.protocol \in Protocols
    /\ r.kinds \subseteq ValidKinds(r.protocol)

IsValid(config) ==
    /\ \A n \in DOMAIN config.backends : BackendIsValid(config.backends[n])
    /\ NamesDiffer(config.backends)
    /\ \A n \in DOMAIN config.routes : RouteIsValid(config.routes[n], config.backends)
    /\ NamesDiffer(config.routes)
    /\ \A n \in DOMAIN config.hooks : config.hooks[n].name # "" /\ config.hooks[n].type # ""

-----------------------------------------------------------------------------
(* The hooks.  The interfaces of the four stages all name their method     *)
(* Execute and give it different parameters (pipeline/hooks.go), so a hook *)
(* has one stage at most; header_modifier has its own from its phase.      *)

StageOf(h) ==
    IF h.type = "header_modifier"
    THEN IF h.phase = "response" THEN "post_response" ELSE "pre_request"
    ELSE Factories[h.type]

CanBuild(h) ==
    /\ h.type \in DOMAIN Factories \cup {"header_modifier"}
    /\ h.stage # "" => h.stage \in Stages /\ h.stage = StageOf(h)
    /\ StageOf(h) \in Stages

IsEnabled(h) == h.enabled

RunsAt(h, stage) == h.stage \in {"", stage} /\ stage = StageOf(h)

(* Variant: a hook is put before those that the stage has.                 *)
AddedInFront(manager, h) ==
    [s \in Stages |-> IF RunsAt(h, s) THEN <<h>> \o manager[s] ELSE manager[s]]

Added(manager, h) ==
    [s \in Stages |-> IF RunsAt(h, s) THEN Append(manager[s], h) ELSE manager[s]]

NewManager == [s \in Stages |-> <<>>]

BuildFromConfig(hooks) ==
    LET built[n \in 0..Len(hooks)] ==
            IF n = 0 THEN NewManager
            ELSE IF IsEnabled(hooks[n]) THEN Added(built[n - 1], hooks[n])
            ELSE built[n - 1]
    IN  built[Len(hooks)]

-----------------------------------------------------------------------------
(* NewHandler, and the handler it returns.                                 *)

Entry(entries, name) ==
    entries[CHOOSE n \in DOMAIN entries : entries[n].name = name]

RoutesOf(config) ==
    [name \in NamesIn(config.routes) |->
        LET r == Entry(config.routes, name)
        IN  [priority |-> r.priority, protocol |-> r.protocol,
             prefix |-> r.prefix, kinds |-> r.kinds]]

CanHandle(config) ==
    /\ \A n \in DOMAIN config.backends : config.backends[n].protocol \in Protocols
    /\ ~IsAmbiguous(RoutesOf(config))
    /\ \A n \in DOMAIN config.hooks :
          IsEnabled(config.hooks[n]) => CanBuild(config.hooks[n])

NewHandler(config) ==
    [registry |-> [name \in NamesIn(config.backends) |-> Entry(config.backends, name)],
     routes |-> RoutesOf(config),
     backendOf |-> [name \in NamesIn(config.routes) |->
                       Entry(config.routes, name).backend],
     manager |-> BuildFromConfig(config.hooks)]

=============================================================================
