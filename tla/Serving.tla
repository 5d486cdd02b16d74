------------------------------ MODULE Serving ------------------------------
(***************************************************************************)
(* The process: main (cmd/insightlayer/main.go) and its server             *)
(* (internal/httpserver/server.go) from the configuration file to the exit *)
(* and, between, the goroutines of several clients' requests, which share  *)
(* the handler and whatever the hooks share.                               *)
(*                                                                         *)
(* net/http is modelled as main uses it: a goroutine for each connection,  *)
(* one request at a time on it, a panic of a handler closing it, and       *)
(* Shutdown, which closes the listener at once, connections as they fall   *)
(* idle, and gives up at its deadline.  What a handler does between its    *)
(* hooks and its answer is Gateway's and StreamProxy's; here it takes any  *)
(* time, and may never end.                                                *)
(***************************************************************************)
EXTENDS Startup

CONSTANTS
    Clients,        \* each has one connection
    MaxRequests,    \* requests of a client
    Configs,        \* files: [backends, routes, hooks]
    Paths,          \* that clients ask for
    HookErrors,     \* what the users' hooks return: "fresh", "statusless",
                    \* "plain", "stop" or "shared"
    SharedError,    \* the address of an error value a hook keeps
    NoOne

ASSUME ServingAssumption ==
    /\ MaxRequests \in Nat
    /\ HookErrors \subseteq {"fresh", "statusless", "plain", "stop", "shared"}
    /\ SharedError \notin Clients /\ NoOne \notin Clients \cup {SharedError}
    /\ Configs \subseteq Configuration

VARIABLES
    config,     \* the file
    main,       \* load, build, listen, notify, select, shutdown, exited
    exit,       \* "running", "0", "1", or "signal" for a death by it
    signalled,  \* SIGINT or SIGTERM was sent
    server,     \* the goroutine of ListenAndServe: off, starting, open,
                \* stopped or failed
    handler,    \* what NewHandler returned
    conn,       \* out, new, stale, active, idle or closed
    sent,       \* requests of the client
    path,       \* of the request on the connection
    step,       \* of its goroutine: none, mux, route, hooks, work, failed, noted
    raised,     \* what was returned to Handle as the error
    errors,     \* the PipelineErrors by address: who noted what on it
    told        \* what became of the client's last request

vars == <<config, main, exit, signalled, server, handler, conn, sent, path,
          step, raised, errors, told>>

process == <<config, main, exit, signalled, server, handler>>
requests == <<conn, sent, path, step, raised, errors, told>>

NoHandler == [registry |-> <<>>, routes |-> <<>>, backendOf |-> <<>>,
              manager |-> NewManager]
Told(what, note) == [what |-> what, note |-> note]
Nothing == Told("nothing", NoOne)

Init ==
    /\ config \in Configs
    /\ main = "load" /\ exit = "running"
    /\ signalled = FALSE
    /\ server = "off"
    /\ handler = NoHandler
    /\ conn = [c \in Clients |-> "out"]
    /\ sent = [c \in Clients |-> 0]
    /\ path = [c \in Clients |-> <<>>]
    /\ step = [c \in Clients |-> "none"]
    /\ raised = [c \in Clients |-> "none"]
    /\ errors = [a \in Clients \cup {SharedError} |-> NoOne]
    /\ told = [c \in Clients |-> Nothing]

-----------------------------------------------------------------------------
(* The goroutine main.  The end of the process ends every connection, and  *)
(* cuts the requests on them.                                              *)

IsServed(c) == conn[c] = "active"

Exit(code) ==
    /\ main' = "exited" /\ exit' = code
    /\ conn' = [c \in Clients |-> IF conn[c] = "out" THEN "out" ELSE "closed"]
    /\ told' = [c \in Clients |-> IF IsServed(c) THEN Told("cut", NoOne) ELSE told[c]]
    /\ step' = [c \in Clients |-> "none"]
    /\ UNCHANGED <<config, signalled, server, handler, sent, path, raised, errors>>

Load ==
    /\ main = "load"
    /\ IF IsValid(Loaded(config))
       THEN /\ main' = "build"
            /\ config' = Loaded(config)
            /\ UNCHANGED <<exit, signalled, server, handler, requests>>
       ELSE Exit("1")

Build ==
    /\ main = "build"
    /\ IF CanHandle(config)
       THEN /\ handler' = NewHandler(config)
            /\ main' = "listen"
            /\ UNCHANGED <<config, exit, signalled, server, requests>>
       ELSE Exit("1")

StartServer ==
    /\ main = "listen"
    /\ server' = "starting"
    /\ main' = "notify"
    /\ UNCHANGED <<config, exit, signalled, handler, requests>>

Notify ==
    /\ main = "notify"
    /\ main' = "select"
    /\ UNCHANGED <<config, exit, signalled, server, handler, requests>>

(* Shutdown begins: nothing is accepted any more.                          *)
TakeSignal ==
    /\ main = "select" /\ signalled
    /\ main' = "shutdown"
    /\ server' = IF server = "failed" THEN "failed" ELSE "stopped"
    /\ UNCHANGED <<config, exit, signalled, handler, requests>>

TakeFailure ==
    /\ main = "select" /\ server = "failed"
    /\ Exit("1")

(* Variant: every connection is closed.                                    *)
CloseAll ==
    /\ main = "shutdown"
    /\ conn' = [c \in Clients |-> IF conn[c] = "out" THEN "out" ELSE "closed"]
    /\ step' = [c \in Clients |-> "none"]
    /\ told' = [c \in Clients |-> IF IsServed(c) THEN Told("cut", NoOne) ELSE told[c]]
    /\ UNCHANGED <<process, sent, path, raised, errors>>

(* Each round of Shutdown closes the idle connections, and those on which  *)
(* nothing has come for five seconds.                                      *)
CloseIdle ==
    /\ main = "shutdown"
    /\ \E c \in Clients : conn[c] \in {"idle", "stale"}
    /\ conn' = [c \in Clients |->
                   IF conn[c] \in {"idle", "stale"} THEN "closed" ELSE conn[c]]
    /\ UNCHANGED <<process, sent, path, step, raised, errors, told>>

ShutDown ==
    /\ main = "shutdown"
    /\ \A c \in Clients : conn[c] \in {"out", "closed"}
    /\ Exit("0")

(* Variants: Shutdown has no deadline, or its error is not looked at.      *)
DeadlineNever == FALSE /\ UNCHANGED vars
DeadlineAsSuccess == main = "shutdown" /\ Exit("0")

(* The 15 seconds are over, perhaps just after the last connection closed. *)
Deadline == main = "shutdown" /\ Exit("1")

-----------------------------------------------------------------------------
(* What happens to the process.                                            *)

IsRunning == main \notin {"load", "build", "exited"}

(* Before Notify the signal has its default action; after it, it is kept   *)
(* for main, a second one is not.                                          *)
Signal ==
    /\ main # "exited" /\ ~signalled
    /\ IF main \in {"select", "shutdown"}
       THEN /\ signalled' = TRUE
            /\ UNCHANGED <<config, main, exit, server, handler, requests>>
       ELSE Exit("signal")

Listen ==
    /\ IsRunning /\ server = "starting"
    /\ server' \in {"open", "failed"}
    /\ UNCHANGED <<config, main, exit, signalled, handler, requests>>

(* Accept fails for good.                                                  *)
AcceptFails ==
    /\ IsRunning /\ server = "open"
    /\ server' = "failed"
    /\ UNCHANGED <<config, main, exit, signalled, handler, requests>>

-----------------------------------------------------------------------------
(* A client's connection.                                                  *)

Connect(c) ==
    /\ IsRunning /\ server = "open" /\ conn[c] = "out"
    /\ conn' = [conn EXCEPT ![c] = "new"]
    /\ UNCHANGED <<process, sent, path, step, raised, errors, told>>

Wait(c) ==
    /\ IsRunning /\ conn[c] = "new"
    /\ conn' = [conn EXCEPT ![c] = "stale"]
    /\ UNCHANGED <<process, sent, path, step, raised, errors, told>>

Request(c) ==
    /\ IsRunning /\ conn[c] \in {"new", "stale", "idle"}
    /\ sent[c] < MaxRequests
    /\ conn' = [conn EXCEPT ![c] = "active"]
    /\ sent' = [sent EXCEPT ![c] = @ + 1]
    /\ \E p \in Paths : path' = [path EXCEPT ![c] = p]
    /\ step' = [step EXCEPT ![c] = "mux"]
    /\ told' = [told EXCEPT ![c] = Nothing]
    /\ UNCHANGED <<process, raised, errors>>

Close(c) ==
    /\ IsRunning /\ conn[c] \in {"new", "stale", "idle"}
    /\ conn' = [conn EXCEPT ![c] = "closed"]
    /\ UNCHANGED <<process, sent, path, step, raised, errors, told>>

(* A server in Shutdown keeps no connection for another request.           *)
Answer(c, what, note) ==
    /\ told' = [told EXCEPT ![c] = Told(what, note)]
    /\ step' = [step EXCEPT ![c] = "none"]
    /\ conn' = [conn EXCEPT ![c] = IF main = "shutdown" THEN "closed" ELSE "idle"]

-----------------------------------------------------------------------------
(* The goroutine of a request.                                             *)

Goes(c, to) ==
    /\ step' = [step EXCEPT ![c] = to]
    /\ UNCHANGED <<process, conn, sent, path, told>>

(* The handler is registered for /v1/, and the health check beside it.     *)
IsHandled(p) == Len(p) > 1 /\ p[1] = "v1"

Mux(c) ==
    /\ step[c] = "mux"
    /\ IF IsHandled(path[c]) THEN Goes(c, "route") /\ UNCHANGED <<raised, errors>>
       ELSE /\ Answer(c, IF path[c] = <<"health">> THEN "health" ELSE "no page", NoOne)
            /\ UNCHANGED <<process, sent, path, raised, errors>>

(* A new PipelineError is nobody's yet.                                    *)
Raise(c, kind) ==
    /\ raised' = [raised EXCEPT ![c] = kind]
    /\ errors' = [errors EXCEPT ![c] = NoOne]
    /\ Goes(c, "failed")

(* The backend of the route that takes the path; the router's order is     *)
(* any that its sort may have given.                                       *)
RouteRequest(c) ==
    /\ step[c] = "route"
    /\ \E order \in Orders(handler.routes) :
          LET name == Resolve(handler.routes, order, path[c]).route
          IN  IF name = NoRoute \/ handler.backendOf[name] \notin DOMAIN handler.registry
              THEN Raise(c, "fresh")
              ELSE Goes(c, "hooks") /\ UNCHANGED <<raised, errors>>

(* The hooks pass, or one of the user's returns an error; the built-in     *)
(* ones never do.                                                          *)
Pass(c) ==
    /\ step[c] = "hooks"
    /\ Goes(c, "work") /\ UNCHANGED <<raised, errors>>

Veto(c) ==
    /\ step[c] = "hooks"
    /\ \E h \in Range(handler.manager["pre_request"]) : h.type \notin BuiltIn
    /\ \E kind \in HookErrors : Raise(c, kind)

Finish(c) ==
    /\ step[c] = "work"
    /\ Answer(c, "answer", NoOne)
    /\ UNCHANGED <<process, sent, path, raised, errors>>

BackendFails(c) ==
    /\ step[c] = "work"
    /\ Raise(c, "fresh")

(* Variant: ErrStopPipeline is itself a PipelineError.                     *)
AddressOfStop(c) == IF raised[c] \in {"shared", "stop"} THEN SharedError ELSE c

(* wrapHookError and HandleError: a PipelineError is passed on as it is,   *)
(* for every other error there is a new one.                               *)
AddressOf(c) == IF raised[c] = "shared" THEN SharedError ELSE c

(* RunError: the error hooks may change the error they are given.          *)
ErrorHooks(c) ==
    /\ step[c] = "failed"
    /\ errors' = IF handler.manager["error"] = <<>> THEN errors
                 ELSE [errors EXCEPT ![AddressOf(c)] = c]
    /\ raised' = raised
    /\ Goes(c, "noted")

(* Variant: the server does not notice the panic.                          *)
WriteErrorLeavingOpen(c) ==
    /\ step[c] = "noted"
    /\ IF raised[c] = "statusless" THEN step' = [step EXCEPT ![c] = "none"]
                                        /\ UNCHANGED <<conn, told>>
       ELSE Answer(c, "error", errors[AddressOf(c)])
    /\ UNCHANGED <<process, sent, path, raised, errors>>

(* WriteHeader panics on the status 0 of an error without one.             *)
WriteError(c) ==
    /\ step[c] = "noted"
    /\ IF raised[c] = "statusless"
       THEN /\ conn' = [conn EXCEPT ![c] = "closed"]
            /\ told' = [told EXCEPT ![c] = Told("panic", NoOne)]
            /\ step' = [step EXCEPT ![c] = "none"]
       ELSE Answer(c, "error", errors[AddressOf(c)])
    /\ UNCHANGED <<process, sent, path, raised, errors>>

-----------------------------------------------------------------------------
Terminated == main = "exited" /\ UNCHANGED vars

Main == Load \/ Build \/ StartServer \/ Notify \/ TakeSignal \/ TakeFailure
            \/ CloseIdle \/ ShutDown \/ Deadline

Client(c) == Connect(c) \/ Wait(c) \/ Request(c) \/ Close(c)

Goroutine(c) ==
    \/ Mux(c) \/ RouteRequest(c) \/ Pass(c) \/ Veto(c) \/ Finish(c)
    \/ BackendFails(c) \/ ErrorHooks(c) \/ WriteError(c)

Next ==
    \/ Main \/ Signal \/ Listen \/ AcceptFails
    \/ \E c \in Clients : Client(c) \/ Goroutine(c)
    \/ Terminated

(* main goes on, and the deadline comes; a goroutine need not.             *)
Spec == Init /\ [][Next]_vars /\ WF_vars(Main)

-----------------------------------------------------------------------------
(* A goroutine runs exactly while its connection has a request, and main's *)
(* stages and the exit code fit together.                                  *)
TypeOK ==
    /\ main \in {"load", "build", "listen", "notify", "select", "shutdown", "exited"}
    /\ exit \in {"running", "0", "1", "signal"} /\ (exit = "running") = (main # "exited")
    /\ server \in {"off", "starting", "open", "stopped", "failed"}
    /\ conn \in [Clients -> {"out", "new", "stale", "active", "idle", "closed"}]
    /\ sent \in [Clients -> 0..MaxRequests]
    /\ step \in [Clients -> {"none", "mux", "route", "hooks", "work", "failed", "noted"}]
    /\ \A c \in Clients : IsServed(c) = (step[c] # "none")

(* Whatever the file says, a gateway that serves leads each route to a     *)
(* backend whose protocol it speaks and whose address, key and headers     *)
(* have no variable left in them, and no two routes are ambiguous.         *)
RoutesLead ==
    IsRunning =>
        /\ ~IsAmbiguous(handler.routes)
        /\ \A name \in DOMAIN handler.routes :
              /\ handler.backendOf[name] \in DOMAIN handler.registry
              /\ LET b == handler.registry[handler.backendOf[name]]
                 IN  /\ b.protocol \in Protocols /\ b.mode \in Modes
                     /\ {b.baseURL, b.value, b.header} \subseteq {"", "plain"}
                     /\ b.baseURL # ""

(* "Hooks run in the order they appear in the config" (docs.md/hooks.md    *)
(* 213): what runs at a stage are the file's enabled hooks of that stage,  *)
(* each of them once and in its order.  None is left out in silence: one   *)
(* configured for a stage it is not of keeps the gateway from starting.    *)
HooksInOrder ==
    IsRunning => \A s \in Stages :
        LET running == handler.manager[s]
            listed == {n \in DOMAIN config.hooks :
                          config.hooks[n].enabled /\ StageOf(config.hooks[n]) = s}
        IN  \E at \in [DOMAIN running -> listed] :
               /\ \A n \in DOMAIN running : running[n] = config.hooks[at[n]]
               /\ \A n, k \in DOMAIN running : n < k => at[n] < at[k]
               /\ Range(at) = listed

(* What an error hook notes on one client's error is told to that client   *)
(* and no other, though their goroutines fail side by side; hooks that     *)
(* keep one PipelineError for all requests are left out.                   *)
ErrorsStayApart ==
    \A c \in Clients : told[c].what = "error" =>
        told[c].note = IF handler.manager["error"] = <<>> THEN NoOne ELSE c

(* A request whose headers the server has read is cut off only by the end  *)
(* of the process, and the process ends on requests only when the deadline *)
(* of Shutdown has passed, the listener has failed, or the signal came     *)
(* before main was listening for it.                                       *)
CutForCause ==
    \A c \in Clients : told[c].what = "cut" =>
        \/ exit = "1" /\ (signalled \/ server = "failed")
        \/ exit = "signal"

(* An exit with 0 has let every request come to its end.                   *)
CleanExit ==
    exit = "0" => \A c \in Clients : sent[c] > 0 => told[c].what \notin {"nothing", "cut"}

(* A signal that main takes ends the process, whatever the handlers do.    *)
SignalEnds == main \in {"select", "shutdown"} /\ signalled ~> main = "exited"

(* docs.md/routing.md:134: "Clients that hit /openai/v1/chat/completions   *)
(* go to OpenAI": a path under a route's prefix reaches the router.        *)
RoutesReached ==
    \A c \in Clients : told[c].what = "no page" =>
        \A name \in DOMAIN handler.routes : ~Takes(handler.routes[name], path[c])

=============================================================================
