--------------------------- MODULE ServingProofs ---------------------------
(***************************************************************************)
(* What holds of the process for any number of clients and requests, and   *)
(* for every configuration file: how it may end, whose error a client is   *)
(* told of, and where the routes of a gateway that serves lead.            *)
(***************************************************************************)
EXTENDS Serving, WellFoundedInduction, TLAPS

Whats == {"nothing", "health", "no page", "answer", "error", "panic", "cut"}

(* No client has been heard of.                                            *)
IsQuiet == \A c \in Clients : conn[c] = "out"

(* Before it is built the gateway has no connection; a connection not yet  *)
(* made has no history; after the exit nothing runs.                       *)
StageInv ==
    /\ TypeOK
    /\ told \in [Clients -> [what: Whats, note: Clients \cup {NoOne}]]
    /\ main \in {"load", "build"} => IsQuiet
    /\ \A c \in Clients : conn[c] = "out" => sent[c] = 0 /\ told[c].what = "nothing"
    /\ main = "exited" => \A c \in Clients : step[c] = "none"

(* Shutdown has its cause; a request that is not being served has come to  *)
(* an end; one that was cut was cut by the end of the process.             *)
EndInv ==
    /\ main = "shutdown" => signalled
    /\ \A c \in Clients : /\ step[c] = "none" /\ told[c].what = "nothing" => sent[c] = 0
                          /\ told[c].what = "cut" => main = "exited"
    /\ CutForCause
    /\ CleanExit

LEMMA StageInit == Init => StageInv /\ EndInv
BY ServingAssumption
   DEF Init, StageInv, EndInv, TypeOK, IsServed, IsQuiet, Told, Nothing, Whats,
       CutForCause, CleanExit, ServingAssumption

(* The end of the process, whatever its code.                              *)
LEMMA ExitIsFinal ==
    ASSUME StageInv, main # "exited", NEW code \in {"0", "1", "signal"}, Exit(code)
    PROVE  /\ StageInv'
           /\ \A c \in Clients : /\ step'[c] = "none"
                                 /\ told'[c].what = IF step[c] = "none" THEN told[c].what
                                                    ELSE "cut"
BY DEF Exit, StageInv, TypeOK, IsServed, IsQuiet, Told, Whats

LEMMA StageMain == ASSUME StageInv, Main PROVE StageInv'
<1> USE DEF StageInv, TypeOK, IsServed, IsQuiet, process, requests
<1>1. CASE Load
  BY <1>1, ExitIsFinal DEF Load
<1>2. CASE Build
  BY <1>2, ExitIsFinal DEF Build
<1>3. CASE StartServer
  BY <1>3 DEF StartServer
<1>4. CASE Notify
  BY <1>4 DEF Notify
<1>5. CASE TakeSignal
  BY <1>5 DEF TakeSignal
<1>6. CASE TakeFailure
  BY <1>6, ExitIsFinal DEF TakeFailure
<1>7. CASE CloseIdle
  BY <1>7 DEF CloseIdle
<1>8. CASE ShutDown
  BY <1>8, ExitIsFinal DEF ShutDown
<1>9. CASE Deadline
  BY <1>9, ExitIsFinal DEF Deadline
<1> QED
  BY <1>1, <1>2, <1>3, <1>4, <1>5, <1>6, <1>7, <1>8, <1>9 DEF Main

LEMMA StageClient ==
    ASSUME StageInv, NEW c \in Clients, Client(c) PROVE StageInv'
<1> USE DEF StageInv, TypeOK, IsServed, IsQuiet, process, requests, IsRunning
<1>1. CASE Connect(c)
  BY <1>1 DEF Connect
<1>2. CASE Wait(c)
  BY <1>2 DEF Wait
<1>3. CASE Request(c)
  <2>1. conn' \in [Clients -> {"out", "new", "stale", "active", "idle", "closed"}]
        /\ step' \in [Clients -> {"none", "mux", "route", "hooks", "work", "failed", "noted"}]
        /\ sent' \in [Clients -> 0..MaxRequests]
    BY <1>3, ServingAssumption DEF Request, ServingAssumption
  <2>2. told' \in [Clients -> [what: Whats, note: Clients \cup {NoOne}]]
    BY <1>3 DEF Request, Nothing, Told, Whats
  <2>3. \A d \in Clients : (conn'[d] = "active") = (step'[d] # "none")
    BY <1>3 DEF Request
  <2>4. \A d \in Clients : conn'[d] = "out" => sent'[d] = 0 /\ told'[d].what = "nothing"
    BY <1>3 DEF Request
  <2> QED
    BY <1>3, <2>1, <2>2, <2>3, <2>4 DEF Request
<1>4. CASE Close(c)
  BY <1>4 DEF Close
<1> QED
  BY <1>1, <1>2, <1>3, <1>4 DEF Client

(* What a goroutine does to the stages: it goes on, or its request ends.   *)
GoesOn(c) ==
    /\ UNCHANGED <<conn, told>>
    /\ \E to \in {"route", "hooks", "work", "failed", "noted"} :
          step' = [step EXCEPT ![c] = to]

Ends(c) ==
    /\ step' = [step EXCEPT ![c] = "none"]
    /\ \E s \in {"idle", "closed"} : conn' = [conn EXCEPT ![c] = s]
    /\ \E t \in [what: Whats \ {"nothing", "cut"}, note: Clients \cup {NoOne}] :
          told' = [told EXCEPT ![c] = t]

ErrorType == errors \in [Clients \cup {SharedError} -> Clients \cup {NoOne}]

LEMMA GoroutineGoesOrEnds ==
    ASSUME ErrorType, NEW c \in Clients, Goroutine(c)
    PROVE  /\ step[c] # "none"
           /\ UNCHANGED <<process, sent, path>>
           /\ GoesOn(c) \/ Ends(c)
<1> USE DEF GoesOn, Ends
<1>1. CASE Mux(c)
  BY <1>1 DEF Mux, Goes, Answer, Told, Whats
<1>2. CASE RouteRequest(c)
  BY <1>2 DEF RouteRequest, Goes, Raise
<1>3. CASE Pass(c) \/ Veto(c) \/ BackendFails(c) \/ ErrorHooks(c)
  BY <1>3 DEF Pass, Veto, BackendFails, ErrorHooks, Goes, Raise
<1>4. CASE Finish(c)
  BY <1>4 DEF Finish, Answer, Told, Whats
<1>5. CASE WriteError(c)
  <2>1. errors[AddressOf(c)] \in Clients \cup {NoOne}
    BY DEF AddressOf, ErrorType
  <2> QED
    BY <1>5, <2>1 DEF WriteError, Answer, Told, Whats
<1> QED
  BY <1>1, <1>2, <1>3, <1>4, <1>5 DEF Goroutine

LEMMA StageGoroutine ==
    ASSUME StageInv, ErrorType, NEW c \in Clients, Goroutine(c)
    PROVE  StageInv'
<1> USE DEF StageInv, TypeOK, IsServed, IsQuiet, process
<1>1. step[c] # "none" /\ UNCHANGED <<process, sent, path>>
  BY GoroutineGoesOrEnds
<1>2. main # "exited" /\ conn[c] = "active" /\ main \notin {"load", "build"}
  BY <1>1
<1>3. CASE GoesOn(c)
  BY <1>1, <1>2, <1>3 DEF GoesOn
<1>4. CASE Ends(c)
  <2>1. told' \in [Clients -> [what: Whats, note: Clients \cup {NoOne}]]
    BY <1>4 DEF Ends
  <2>2. /\ conn' \in [Clients -> {"out", "new", "stale", "active", "idle", "closed"}]
        /\ step' \in [Clients -> {"none", "mux", "route", "hooks", "work", "failed", "noted"}]
        /\ \A d \in Clients : (conn'[d] = "active") = (step'[d] # "none")
    BY <1>4 DEF Ends
  <2>3. \A d \in Clients : conn'[d] = "out" => sent'[d] = 0 /\ told'[d].what = "nothing"
    BY <1>1, <1>4 DEF Ends
  <2> QED
    BY <1>1, <1>2, <2>1, <2>2, <2>3
<1> QED
  BY <1>3, <1>4, GoroutineGoesOrEnds

(* Addresses of errors are those of clients and the shared one.            *)
LEMMA ErrorTypeNext == StageInv /\ ErrorType /\ [Next]_vars => ErrorType'
<1> SUFFICES ASSUME ErrorType, [Next]_vars PROVE ErrorType'
  OBVIOUS
<1> USE DEF ErrorType, requests
<1>1. ASSUME NEW code, Exit(code) PROVE ErrorType'
  BY <1>1 DEF Exit
<1>2. CASE Main \/ Signal
  BY <1>1, <1>2 DEF Main, Load, Build, StartServer, Notify, TakeSignal, TakeFailure,
                    CloseIdle, ShutDown, Deadline, Signal
<1>3. CASE Listen \/ AcceptFails \/ UNCHANGED vars
  BY <1>3 DEF Listen, AcceptFails, vars
<1>4. ASSUME NEW c \in Clients, Client(c) PROVE ErrorType'
  BY <1>4 DEF Client, Connect, Wait, Request, Close
<1>5. ASSUME NEW c \in Clients, Mux(c) \/ RouteRequest(c) \/ Pass(c) \/ Veto(c)
      PROVE  ErrorType'
  BY <1>5 DEF Mux, RouteRequest, Pass, Veto, Raise
<1>6. ASSUME NEW c \in Clients,
             Finish(c) \/ BackendFails(c) \/ ErrorHooks(c) \/ WriteError(c)
      PROVE  ErrorType'
  BY <1>6 DEF Finish, BackendFails, ErrorHooks, WriteError, Raise
<1> QED
  BY <1>2, <1>3, <1>4, <1>5, <1>6 DEF Next, Goroutine, Terminated

LEMMA StageNext == StageInv /\ ErrorType /\ [Next]_vars => StageInv'
<1> SUFFICES ASSUME StageInv, ErrorType, [Next]_vars PROVE StageInv'
  OBVIOUS
<1>1. CASE Signal
  BY <1>1, ExitIsFinal
     DEF Signal, StageInv, TypeOK, IsServed, IsQuiet, requests
<1>2. CASE Listen \/ AcceptFails
  BY <1>2 DEF Listen, AcceptFails, StageInv, TypeOK, IsServed, IsQuiet, requests
<1>3. CASE UNCHANGED vars
  BY <1>3 DEF vars, StageInv, TypeOK, IsServed, IsQuiet
<1> QED
  BY <1>1, <1>2, <1>3, StageMain, StageClient, StageGoroutine DEF Next, Terminated

-----------------------------------------------------------------------------
(* How it ends.                                                            *)

(* Whoever ends the process has a cause, and with 0 nothing left to cut.   *)
LEMMA ExitKeepsEnd ==
    ASSUME StageInv, EndInv, main # "exited", NEW code \in {"0", "1", "signal"}, Exit(code),
           code = "0" => \A c \in Clients : step[c] = "none",
           code = "1" => signalled \/ server = "failed" \/ IsQuiet
    PROVE  EndInv'
<1>1. \A c \in Clients : told'[c].what = IF step[c] = "none" THEN told[c].what ELSE "cut"
  BY ExitIsFinal
<1>2. main' = "exited" /\ exit' = code /\ UNCHANGED <<signalled, server, sent>>
  BY DEF Exit
<1>3. \A c \in Clients : step[c] = "none" /\ told[c].what = "nothing" => sent[c] = 0
  BY DEF EndInv
<1>4. \A c \in Clients : told[c].what # "cut"
  BY DEF EndInv
<1>5. IsQuiet => \A c \in Clients : told'[c].what # "cut"
  BY <1>1, <1>4 DEF IsQuiet, StageInv, TypeOK, IsServed
<1>6. CutForCause'
  BY <1>1, <1>2, <1>4, <1>5 DEF CutForCause
<1>7. CleanExit'
  <2>1. SUFFICES ASSUME code = "0", NEW c \in Clients, sent[c] > 0
                 PROVE  told'[c].what \notin {"nothing", "cut"}
    BY <1>2 DEF CleanExit
  <2>2. told'[c].what = told[c].what /\ sent[c] # 0
    BY <1>1, <2>1
  <2> QED
    BY <1>3, <1>4, <2>1, <2>2
<1> QED
  BY <1>1, <1>2, <1>3, <1>6, <1>7 DEF EndInv

LEMMA EndMain == ASSUME StageInv, EndInv, Main PROVE EndInv'
<1> DEFINE Kept == UNCHANGED <<sent, step, told, server, signalled, exit>>
<1>1. ASSUME Kept, main # "exited", main' = "shutdown" => signalled PROVE EndInv'
  BY <1>1 DEF EndInv, CutForCause, CleanExit
<1>2. CASE Load
  BY <1>1, <1>2, ExitKeepsEnd DEF Load, requests, StageInv
<1>3. CASE Build
  BY <1>1, <1>3, ExitKeepsEnd DEF Build, requests, StageInv
<1>4. CASE StartServer
  BY <1>4 DEF StartServer, requests, EndInv, CutForCause, CleanExit
<1>5. CASE Notify
  BY <1>1, <1>5 DEF Notify, requests
<1>6. CASE TakeSignal
  BY <1>6 DEF TakeSignal, requests, EndInv, CutForCause, CleanExit
<1>7. CASE TakeFailure
  BY <1>7, ExitKeepsEnd DEF TakeFailure
<1>8. CASE CloseIdle
  BY <1>1, <1>8 DEF CloseIdle, process, EndInv
<1>9. CASE ShutDown
  <2>1. \A c \in Clients : step[c] = "none"
    BY <1>9 DEF ShutDown, StageInv, TypeOK, IsServed
  <2> QED
    BY <1>9, <2>1, ExitKeepsEnd DEF ShutDown
<1>10. CASE Deadline
  BY <1>10, ExitKeepsEnd DEF Deadline, EndInv
<1> QED
  BY <1>2, <1>3, <1>4, <1>5, <1>6, <1>7, <1>8, <1>9, <1>10 DEF Main

LEMMA EndClient == ASSUME StageInv, EndInv, NEW c \in Clients, Client(c) PROVE EndInv'
<1> USE DEF EndInv, CutForCause, CleanExit, process
<1>1. CASE Connect(c)
  BY <1>1 DEF Connect
<1>2. CASE Wait(c)
  BY <1>2 DEF Wait
<1>3. CASE Close(c)
  BY <1>3 DEF Close
<1>4. CASE Request(c)
  <2>1. /\ UNCHANGED <<main, exit, signalled, server>> /\ main # "exited"
        /\ step' = [step EXCEPT ![c] = "mux"] /\ told' = [told EXCEPT ![c] = Nothing]
        /\ sent' = [sent EXCEPT ![c] = @ + 1]
    BY <1>4 DEF Request, IsRunning
  <2>2. exit # "0"
    BY <2>1 DEF StageInv, TypeOK
  <2>3. step'[c] = "mux" /\ told'[c].what = "nothing"
    BY <2>1 DEF StageInv, TypeOK, Nothing, Told
  <2>4. \A d \in Clients \ {c} : step'[d] = step[d] /\ told'[d] = told[d] /\ sent'[d] = sent[d]
    BY <2>1 DEF StageInv, TypeOK
  <2> QED
    BY <2>1, <2>2, <2>3, <2>4
<1> QED
  BY <1>1, <1>2, <1>3, <1>4 DEF Client

LEMMA EndGoroutine ==
    ASSUME StageInv, ErrorType, EndInv, NEW c \in Clients, Goroutine(c) PROVE EndInv'
<1>1. main # "exited" /\ exit # "0" /\ UNCHANGED <<process, sent>>
  BY GoroutineGoesOrEnds DEF StageInv, TypeOK
<1>2. CASE GoesOn(c)
  BY <1>1, <1>2 DEF GoesOn, EndInv, CutForCause, CleanExit, process, StageInv, TypeOK
<1>3. CASE Ends(c)
  <2>1. told'[c].what \notin {"nothing", "cut"}
    BY <1>3 DEF Ends, StageInv
  <2>2. \A d \in Clients \ {c} : step'[d] = step[d] /\ told'[d] = told[d]
    BY <1>3 DEF Ends, StageInv, TypeOK
  <2> QED
    BY <1>1, <2>1, <2>2 DEF EndInv, CutForCause, CleanExit, process
<1> QED
  BY <1>2, <1>3, GoroutineGoesOrEnds

LEMMA EndNext == StageInv /\ ErrorType /\ EndInv /\ [Next]_vars => EndInv'
<1> SUFFICES ASSUME StageInv, ErrorType, EndInv, [Next]_vars PROVE EndInv'
  OBVIOUS
<1>1. CASE Signal
  <2>1. CASE main \in {"select", "shutdown"}
    BY <1>1, <2>1 DEF Signal, requests, EndInv, CutForCause, CleanExit
  <2> QED
    BY <1>1, <2>1, ExitKeepsEnd DEF Signal
<1>2. CASE Listen \/ AcceptFails
  BY <1>2 DEF Listen, AcceptFails, IsRunning, requests, EndInv, CutForCause, CleanExit
<1>3. CASE UNCHANGED vars
  BY <1>3 DEF vars, EndInv, CutForCause, CleanExit
<1> QED
  BY <1>1, <1>2, <1>3, EndMain, EndClient, EndGoroutine DEF Next, Terminated

-----------------------------------------------------------------------------
(* Whose errors.                                                           *)

(* What a client is to be told by error hooks that note whose error it is. *)
Noted(c) == IF handler.manager["error"] = <<>> THEN NoOne ELSE c

(* A request's own error value, from Raise to WriteError, is changed only  *)
(* by its own goroutine.                                                   *)
ErrorInv ==
    /\ ErrorType
    /\ raised \in [Clients -> {"none", "fresh", "statusless", "plain", "stop"}]
    /\ \A c \in Clients :
          /\ step[c] = "failed" => errors[c] = NoOne
          /\ step[c] = "noted" => errors[c] = Noted(c)
          /\ told[c].what = "error" => told[c].note = Noted(c)

LEMMA ErrorInit == Init => ErrorInv
BY DEF Init, ErrorInv, ErrorType, Nothing, Told

(* Nothing but a goroutine touches the errors, and nothing but Build the   *)
(* hooks.                                                                  *)
LEMMA ErrorMain == ASSUME StageInv, ErrorInv, Main \/ Signal PROVE ErrorInv'
<1> USE DEF ErrorInv, ErrorType, Noted, process, requests
<1>1. ASSUME NEW code, Exit(code) PROVE ErrorInv'
  BY <1>1 DEF Exit, Told, StageInv, TypeOK
<1>2. CASE Build
  <2>1. ASSUME ~Exit("1")
        PROVE  /\ UNCHANGED <<step, told, errors, raised>>
               /\ \A c \in Clients : step[c] = "none" /\ told[c].what = "nothing"
    BY <1>2, <2>1 DEF Build, StageInv, TypeOK, IsServed, IsQuiet
  <2> QED
    BY <1>1, <2>1
<1>3. CASE Load \/ Signal
  BY <1>1, <1>3 DEF Load, Signal
<1>4. CASE StartServer \/ Notify \/ TakeSignal \/ CloseIdle
  BY <1>4 DEF StartServer, Notify, TakeSignal, CloseIdle
<1>5. CASE TakeFailure \/ ShutDown \/ Deadline
  BY <1>1, <1>5 DEF TakeFailure, ShutDown, Deadline
<1> QED
  BY <1>2, <1>3, <1>4, <1>5 DEF Main

LEMMA ErrorClient ==
    ASSUME StageInv, ErrorInv, NEW c \in Clients, Client(c) PROVE ErrorInv'
<1> USE DEF ErrorInv, ErrorType, Noted, process
<1>1. CASE Connect(c) \/ Wait(c) \/ Close(c)
  BY <1>1 DEF Connect, Wait, Close
<1>2. CASE Request(c)
  BY <1>2 DEF Request, Nothing, Told, StageInv, TypeOK
<1> QED
  BY <1>1, <1>2 DEF Client

LEMMA ErrorGoroutine ==
    ASSUME StageInv, ErrorInv, "shared" \notin HookErrors, NEW c \in Clients, Goroutine(c)
    PROVE  ErrorInv'
<1> USE DEF ErrorInv, ErrorType, Noted
<1>1. /\ UNCHANGED handler
      /\ step \in [Clients -> {"none", "mux", "route", "hooks", "work", "failed", "noted"}]
      /\ told \in [Clients -> [what: Whats, note: Clients \cup {NoOne}]]
      /\ SharedError \notin Clients
  BY GoroutineGoesOrEnds, ServingAssumption DEF process, StageInv, TypeOK, ServingAssumption
<1>2. AddressOf(c) = c
  BY DEF AddressOf
<1>3. ASSUME NEW to \in {"route", "hooks", "work"}, Goes(c, to), UNCHANGED <<raised, errors>>
      PROVE  ErrorInv'
  BY <1>1, <1>3 DEF Goes
<1>4. ASSUME NEW kind \in {"fresh"} \cup HookErrors, Raise(c, kind) PROVE ErrorInv'
  <2>1. kind \in {"fresh", "statusless", "plain", "stop"}
    BY <1>4, ServingAssumption DEF ServingAssumption
  <2> QED
    BY <1>1, <1>4, <2>1 DEF Raise, Goes
<1>5. ASSUME NEW what \in Whats \ {"error"}, Answer(c, what, NoOne), UNCHANGED <<raised, errors>>
      PROVE  ErrorInv'
  BY <1>1, <1>5 DEF Answer, Told
<1>6. CASE Mux(c)
  BY <1>3, <1>5, <1>6 DEF Mux, Whats
<1>7. CASE RouteRequest(c)
  BY <1>3, <1>4, <1>7 DEF RouteRequest
<1>8. CASE Pass(c) \/ Veto(c)
  BY <1>3, <1>4, <1>8 DEF Pass, Veto
<1>9. CASE Finish(c) \/ BackendFails(c)
  BY <1>4, <1>5, <1>9 DEF Finish, BackendFails, Whats
<1>10. CASE ErrorHooks(c)
  BY <1>1, <1>2, <1>10 DEF ErrorHooks, Goes
<1>11. CASE WriteError(c)
  <2>1. UNCHANGED <<errors, raised>> /\ step[c] = "noted" /\ step' = [step EXCEPT ![c] = "none"]
    BY <1>11 DEF WriteError, Answer
  <2>2. \/ told' = [told EXCEPT ![c] = Told("panic", NoOne)]
        \/ told' = [told EXCEPT ![c] = Told("error", errors[c])]
    BY <1>2, <1>11 DEF WriteError, Answer
  <2> QED
    BY <1>1, <2>1, <2>2 DEF Told
<1> QED
  BY <1>6, <1>7, <1>8, <1>9, <1>10, <1>11 DEF Goroutine

LEMMA ErrorNext ==
    ASSUME "shared" \notin HookErrors
    PROVE  StageInv /\ ErrorInv /\ [Next]_vars => ErrorInv'
<1> SUFFICES ASSUME StageInv, ErrorInv, [Next]_vars PROVE ErrorInv'
  OBVIOUS
<1>1. CASE Listen \/ AcceptFails \/ UNCHANGED vars
  BY <1>1 DEF Listen, AcceptFails, requests, vars, ErrorInv, ErrorType, Noted
<1> QED
  BY <1>1, ErrorMain, ErrorClient, ErrorGoroutine DEF Next, Terminated

-----------------------------------------------------------------------------
(* Where the routes lead.                                                  *)

(* A value in which what is set has been expanded.                         *)
IsExpanded(value) == value \in {"", "plain", "${UNSET}"}

Backend == [name: STRING, protocol: STRING, baseURL: Values,
            mode: Modes \cup {"", "other"}, value: Values, header: Values]

BackendIsExpanded(b) ==
    IsExpanded(b.baseURL) /\ IsExpanded(b.value) /\ IsExpanded(b.header)

(* From Load on the file is expanded and valid, from Build on the handler  *)
(* is the one NewHandler makes of it.                                      *)
ConfigInv ==
    /\ config \in Configuration
    /\ main \notin {"load", "exited"} =>
          /\ IsValid(config)
          /\ \A n \in DOMAIN config.backends : BackendIsExpanded(config.backends[n])
    /\ IsRunning => CanHandle(config) /\ handler = NewHandler(config)

LEMMA BackendIsLoaded ==
    ASSUME NEW b \in Backend
    PROVE  LoadedBackend(b) \in Backend /\ BackendIsExpanded(LoadedBackend(b))
<1>1. \A v \in Values : Expand(v) \in Values /\ IsExpanded(Expand(v))
  BY DEF Expand, Values, IsExpanded
<1>2. b.baseURL \in Values /\ b.value \in Values /\ b.header \in Values
  BY DEF Backend
<1> DEFINE l == LoadedBackend(b)
<1>3. /\ l.baseURL = Expand(b.baseURL) /\ l.value = Expand(b.value)
      /\ l.header = Expand(b.header)
  BY DEF LoadedBackend, Backend
<1>4. l \in Backend
  <2>1. ASSUME NEW u \in Values, NEW v \in Values, NEW w \in Values, NEW m \in Modes \cup {"", "other"}
        PROVE  [b EXCEPT !.baseURL = u, !.value = v, !.header = w, !.mode = m] \in Backend
    BY DEF Backend
  <2>2. (IF b.mode = "" THEN "inject" ELSE b.mode) \in Modes \cup {"", "other"}
    BY DEF Backend, Modes
  <2> QED
    BY <1>1, <1>2, <2>1, <2>2 DEF LoadedBackend
<1> QED
  BY <1>1, <1>2, <1>3, <1>4 DEF BackendIsExpanded

LEMMA LoadedIsExpanded ==
    ASSUME NEW cfg \in Configuration
    PROVE  /\ Loaded(cfg) \in Configuration
           /\ \A n \in DOMAIN Loaded(cfg).backends :
                 BackendIsExpanded(Loaded(cfg).backends[n])
<1> DEFINE all == [n \in DOMAIN cfg.backends |-> LoadedBackend(cfg.backends[n])]
<1>1. cfg.backends \in Seq(Backend)
  BY DEF Configuration, Backend
<1>2. all \in Seq(Backend) /\ DOMAIN all = DOMAIN cfg.backends
  <2>1. \A n \in 1..Len(cfg.backends) : LoadedBackend(cfg.backends[n]) \in Backend
    BY <1>1, BackendIsLoaded
  <2>2. all \in [1..Len(cfg.backends) -> Backend] /\ Len(cfg.backends) \in Nat
    BY <1>1, <2>1
  <2> QED
    BY <1>1, <2>2
<1>3. Loaded(cfg) = [cfg EXCEPT !.backends = all]
  BY DEF Loaded
<1>4. \A n \in DOMAIN all : BackendIsExpanded(all[n])
  BY <1>1, BackendIsLoaded
<1> HIDE DEF all
<1>5. Loaded(cfg).backends = all /\ Loaded(cfg) \in Configuration
  BY <1>2, <1>3 DEF Configuration, Backend
<1> QED
  BY <1>4, <1>5

LEMMA ConfigInit == Init => ConfigInv
BY ServingAssumption DEF Init, ConfigInv, ServingAssumption, IsRunning

LEMMA ConfigNext == ConfigInv /\ [Next]_vars => ConfigInv'
<1> SUFFICES ASSUME ConfigInv, [Next]_vars PROVE ConfigInv'
  OBVIOUS
<1> USE DEF ConfigInv, IsRunning
<1>1. ASSUME NEW code, Exit(code) PROVE ConfigInv'
  BY <1>1 DEF Exit
<1>2. CASE Load
  BY <1>1, <1>2, LoadedIsExpanded DEF Load
<1>3. CASE Build
  BY <1>1, <1>3 DEF Build
<1>4. CASE StartServer \/ Notify \/ TakeSignal \/ CloseIdle
  BY <1>4 DEF StartServer, Notify, TakeSignal, CloseIdle, process
<1>5. CASE TakeFailure \/ ShutDown \/ Deadline \/ Signal
  BY <1>1, <1>5 DEF TakeFailure, ShutDown, Deadline, Signal
<1>6. CASE Listen \/ AcceptFails \/ UNCHANGED vars
  BY <1>6 DEF Listen, AcceptFails, vars
<1>7. ASSUME NEW c \in Clients, Client(c) \/ Goroutine(c) PROVE UNCHANGED process
  BY <1>7 DEF Client, Connect, Wait, Request, Close, Goroutine, Mux, RouteRequest, Pass,
              Veto, Finish, BackendFails, ErrorHooks, WriteError, Goes, Raise
<1>8. CASE UNCHANGED process
  BY <1>8 DEF process
<1> QED
  BY <1>2, <1>3, <1>4, <1>5, <1>6, <1>7, <1>8 DEF Next, Main, Terminated

LEMMA EntryIsListed ==
    ASSUME NEW entries, NEW name \in NamesIn(entries)
    PROVE  \E n \in DOMAIN entries : Entry(entries, name) = entries[n]
                                    /\ entries[n].name = name
BY DEF NamesIn, Entry

LEMMA ValidRoutesLead == ConfigInv => RoutesLead
<1> SUFFICES ASSUME ConfigInv, IsRunning PROVE RoutesLead
  BY DEF RoutesLead
<1>1. IsValid(config) /\ CanHandle(config) /\ handler = NewHandler(config)
  BY DEF ConfigInv, IsRunning
<1>2. handler.routes = RoutesOf(config) /\ DOMAIN handler.routes = NamesIn(config.routes)
  BY <1>1 DEF NewHandler, RoutesOf
<1>3. ~IsAmbiguous(handler.routes)
  BY <1>1, <1>2 DEF CanHandle
<1>4. ASSUME NEW name \in DOMAIN handler.routes
      PROVE  /\ handler.backendOf[name] \in DOMAIN handler.registry
             /\ LET b == handler.registry[handler.backendOf[name]]
                IN  /\ b.protocol \in Protocols /\ b.mode \in Modes
                    /\ {b.baseURL, b.value, b.header} \subseteq {"", "plain"}
                    /\ b.baseURL # ""
  <2>1. PICK r \in DOMAIN config.routes : Entry(config.routes, name) = config.routes[r]
    BY <1>2, EntryIsListed
  <2>2. handler.backendOf[name] = config.routes[r].backend
    BY <1>1, <1>2, <2>1 DEF NewHandler
  <2>3. config.routes[r].backend \in NamesIn(config.backends)
    BY <1>1 DEF IsValid, RouteIsValid
  <2>4. PICK n \in DOMAIN config.backends :
           Entry(config.backends, config.routes[r].backend) = config.backends[n]
    BY <2>3, EntryIsListed
  <2>5. /\ DOMAIN handler.registry = NamesIn(config.backends)
        /\ handler.registry[config.routes[r].backend] = config.backends[n]
    BY <1>1, <2>3, <2>4 DEF NewHandler
  <2>6. BackendIsValid(config.backends[n]) /\ config.backends[n].protocol \in Protocols
    BY <1>1 DEF IsValid, CanHandle
  <2>7. BackendIsExpanded(config.backends[n])
    BY DEF ConfigInv, IsRunning
  <2>8. LET b == config.backends[n]
        IN  /\ b.mode \in Modes /\ b.baseURL # ""
            /\ {b.baseURL, b.value, b.header} \subseteq {"", "plain"}
    BY <2>6, <2>7 DEF BackendIsValid, BackendIsExpanded, IsExpanded, IsUnresolved
  <2> QED
    BY <2>2, <2>3, <2>5, <2>6, <2>8
<1> QED
  BY <1>3, <1>4 DEF RoutesLead

-----------------------------------------------------------------------------
(* The manager is built by a loop over the hooks of the file: an induction *)
(* over how many of them it has come by.                                   *)

(* Induction over the naturals, for a set of them.                         *)
LEMMA FromZeroOn ==
    ASSUME NEW T, 0 \in T, \A n \in Nat : n \in T => n + 1 \in T
    PROVE  \A n \in Nat : n \in T
<1> DEFINE R == OpToRel(<, Nat)
           Rest == Nat \ T
<1>1. IsWellFoundedOn(R, Nat)
  BY NatLessThanWellFounded
<1>2. \A y, z \in Nat : y < z => <<y, z>> \in R
  BY DEF OpToRel
<1> HIDE DEF R
<1> SUFFICES ASSUME Rest # {} PROVE FALSE
  OBVIOUS
<1>3. Rest \subseteq Nat
  OBVIOUS
<1> HIDE DEF Rest
<1>4. \E x \in Rest : \A y \in Rest : ~ (<<y, x>> \in R)
  BY <1>1, <1>3, WFMin
<1>5. PICK x \in Rest : \A y \in Rest : ~ (<<y, x>> \in R)
  BY <1>4
<1>6. x \in Nat /\ x \notin T
  BY DEF Rest
<1>7. x # 0
  BY <1>6
<1>8. x - 1 \in Nat /\ x - 1 < x /\ x = (x - 1) + 1
  BY <1>6, <1>7
<1>9. x - 1 \in T
  BY <1>2, <1>5, <1>6, <1>8 DEF Rest
<1> QED
  BY <1>6, <1>8, <1>9

(* The managers after the first n hooks, for n up to k.                    *)
Built(hooks, k, f) ==
    f = [n \in 0..k |->
            IF n = 0 THEN NewManager
            ELSE IF IsEnabled(hooks[n]) THEN Added(f[n - 1], hooks[n])
            ELSE f[n - 1]]

LEMMA BuiltStepwise ==
    ASSUME NEW hooks, NEW k \in Nat, NEW f, Built(hooks, k, f)
    PROVE  \E g : Built(hooks, k + 1, g)
<1> DEFINE Next1 == IF IsEnabled(hooks[k + 1]) THEN Added(f[k], hooks[k + 1]) ELSE f[k]
           g == [n \in 0..(k + 1) |-> IF n = k + 1 THEN Next1 ELSE f[n]]
           Of(n) == IF n = 0 THEN NewManager
                    ELSE IF IsEnabled(hooks[n]) THEN Added(g[n - 1], hooks[n])
                    ELSE g[n - 1]
<1>1. ASSUME NEW n \in 0..(k + 1)
      PROVE  g[n] = Of(n)
  <2>1. CASE n = k + 1
    <3>1. n # 0 /\ n - 1 = k /\ k \in 0..(k + 1) /\ k # k + 1
      BY <2>1
    <3>2. g[n - 1] = f[k]
      BY <3>1
    <3>3. g[n] = Next1
      BY <2>1
    <3> QED
      BY <2>1, <3>1, <3>2, <3>3
  <2>2. CASE n # k + 1
    <3>1. n \in 0..k /\ (n # 0 => n - 1 \in 0..(k + 1) /\ n - 1 # k + 1)
      BY <2>2
    <3>2. g[n] = f[n] /\ (n # 0 => g[n - 1] = f[n - 1])
      BY <2>2, <3>1
    <3>3. f[n] = IF n = 0 THEN NewManager
                 ELSE IF IsEnabled(hooks[n]) THEN Added(f[n - 1], hooks[n])
                 ELSE f[n - 1]
      BY <3>1 DEF Built
    <3> QED
      BY <3>2, <3>3
  <2> QED
    BY <2>1, <2>2
<1>2. g = [n \in 0..(k + 1) |-> g[n]]
  OBVIOUS
<1>3. g = [n \in 0..(k + 1) |-> Of(n)]
  <2> HIDE DEF g
  <2> QED
    BY <1>1, <1>2
<1>4. Built(hooks, k + 1, g)
  <2> HIDE DEF g
  <2> QED
    BY <1>3 DEF Built
<1> QED
  BY <1>4

LEMMA ManagerIsBuilt ==
    ASSUME NEW hooks, Len(hooks) \in Nat
    PROVE  \E f : Built(hooks, Len(hooks), f) /\ BuildFromConfig(hooks) = f[Len(hooks)]
<1> DEFINE T == {k \in Nat : \E f : Built(hooks, k, f)}
<1>1. 0 \in T
  <2> DEFINE f == [n \in 0..0 |-> NewManager]
  <2>1. f = [n \in 0..0 |->
               IF n = 0 THEN NewManager
               ELSE IF IsEnabled(hooks[n]) THEN Added(f[n - 1], hooks[n])
               ELSE f[n - 1]]
    OBVIOUS
  <2>2. Built(hooks, 0, f)
    BY <2>1 DEF Built
  <2> QED
    BY <2>2
<1>2. ASSUME NEW k \in Nat, k \in T PROVE k + 1 \in T
  BY <1>2, BuiltStepwise
<1>3. Len(hooks) \in T
  <2> HIDE DEF T
  <2> QED
    BY <1>1, <1>2, FromZeroOn
<1> DEFINE f == CHOOSE f : Built(hooks, Len(hooks), f)
<1>4. Built(hooks, Len(hooks), f)
  BY <1>3
<1>5. BuildFromConfig(hooks) = f[Len(hooks)]
  BY DEF BuildFromConfig, Built
<1> QED
  BY <1>4, <1>5

(* The positions, among the first k, of the hooks that run at the stage s. *)
Picked(hooks, k, s) == {n \in 1..k : IsEnabled(hooks[n]) /\ RunsAt(hooks[n], s)}

(* q is the hooks at these positions, each once and in their order.        *)
Aligned(q, hooks, at, positions) ==
    /\ at \in [1..Len(q) -> positions]
    /\ \A n \in 1..Len(q) : q[n] = hooks[at[n]]
    /\ \A n, m \in 1..Len(q) : n < m => at[n] < at[m]
    /\ \A i \in positions : \E n \in 1..Len(q) : at[n] = i

Lists(q, hooks, k, s) ==
    /\ q \in Seq({hooks[n] : n \in 1..k})
    /\ \E at : Aligned(q, hooks, at, Picked(hooks, k, s))

(* One more hook, which the stage does not have or has last.               *)
LEMMA ListsNext ==
    ASSUME NEW hooks, NEW k \in Nat, NEW s, NEW q, Lists(q, hooks, k, s)
    PROVE  Lists(IF IsEnabled(hooks[k + 1]) /\ RunsAt(hooks[k + 1], s)
                 THEN Append(q, hooks[k + 1]) ELSE q, hooks, k + 1, s)
<1> DEFINE h == hooks[k + 1]
           Upto(i) == {hooks[n] : n \in 1..i}
           Old == Picked(hooks, k, s)
           New == Picked(hooks, k + 1, s)
<1>1. Upto(k) \subseteq Upto(k + 1) /\ h \in Upto(k + 1)
  OBVIOUS
<1>2. q \in Seq(Upto(k)) /\ q \in Seq(Upto(k + 1))
  BY <1>1 DEF Lists
<1>len. Len(q) \in Nat
  BY <1>2
<1>pick. PICK at : Aligned(q, hooks, at, Old)
  BY DEF Lists
<1>3. /\ at \in [1..Len(q) -> Old]
      /\ \A n \in 1..Len(q) : q[n] = hooks[at[n]]
      /\ \A n, m \in 1..Len(q) : n < m => at[n] < at[m]
      /\ \A i \in Old : \E n \in 1..Len(q) : at[n] = i
  BY <1>pick DEF Aligned
<1>4. CASE ~(IsEnabled(h) /\ RunsAt(h, s))
  <2>1. New = Old
    BY <1>4 DEF Picked
  <2>2. Lists(q, hooks, k + 1, s)
    <3>1. \E f : Aligned(q, hooks, f, New)
      BY <1>pick, <2>1
    <3> QED
      BY <1>2, <3>1 DEF Lists
  <2> QED
    BY <1>4, <2>2
<1>5. CASE IsEnabled(h) /\ RunsAt(h, s)
  <2> DEFINE p == Append(q, h)
             new == [n \in 1..(Len(q) + 1) |-> IF n = Len(q) + 1 THEN k + 1 ELSE at[n]]
  <2>1. p \in Seq(Upto(k + 1))
    BY <1>1, <1>2
  <2>2. /\ Len(p) = Len(q) + 1
        /\ p[Len(q) + 1] = h /\ \A n \in 1..Len(q) : p[n] = q[n]
    BY <1>2
  <2> HIDE DEF p
  <2>3. New = Old \cup {k + 1} /\ \A i \in Old : i \in Nat /\ i < k + 1
    BY <1>5 DEF Picked
  <2>4. \A n \in 1..(Len(q) + 1) : n \in 1..Len(q) \/ n = Len(q) + 1
    BY <1>len
  <2>5. \A n \in 1..Len(q) : n \in 1..(Len(q) + 1) /\ n < Len(q) + 1 /\ n # Len(q) + 1
    BY <1>len
  <2>6. Len(q) + 1 \in 1..(Len(q) + 1)
    BY <1>len
  <2>7. /\ new[Len(q) + 1] = k + 1
        /\ \A n \in 1..Len(q) : new[n] = at[n] /\ at[n] \in Old
    BY <1>3, <2>5, <2>6
  <2>8. new \in [1..Len(p) -> New]
    BY <1>3, <2>2, <2>3, <2>4
  <2> HIDE DEF new, Old, New
  <2>9. \A n \in 1..Len(p) : p[n] = hooks[new[n]]
    BY <1>3, <2>2, <2>4, <2>7
  <2>10. ASSUME NEW n \in 1..Len(p), NEW m \in 1..Len(p), n < m
         PROVE  new[n] < new[m]
    <3>1. n \in 1..Len(q)
      BY <1>len, <2>2, <2>10
    <3>2. CASE m \in 1..Len(q)
      BY <1>3, <2>7, <2>10, <3>1, <3>2
    <3>3. CASE m = Len(q) + 1
      BY <2>3, <2>7, <3>1, <3>3
    <3> QED
      BY <2>2, <2>4, <3>2, <3>3
  <2>11. ASSUME NEW i \in New
         PROVE  \E n \in 1..Len(p) : new[n] = i
    <3>1. CASE i \in Old
      BY <1>3, <2>2, <2>5, <2>7, <3>1
    <3>2. CASE i = k + 1
      BY <2>2, <2>6, <2>7, <3>2
    <3> QED
      BY <2>3, <3>1, <3>2
  <2>12. Lists(p, hooks, k + 1, s)
    <3>1. Aligned(p, hooks, new, New)
      BY <2>8, <2>9, <2>10, <2>11 DEF Aligned
    <3> QED
      BY <2>1, <3>1 DEF Lists, New
  <2> QED
    BY <1>5, <2>12 DEF p
<1> QED
  BY <1>4, <1>5

LEMMA BuiltInOrder ==
    ASSUME NEW hooks, Len(hooks) \in Nat, NEW s \in Stages
    PROVE  Lists(BuildFromConfig(hooks)[s], hooks, Len(hooks), s)
<1>1. PICK f : Built(hooks, Len(hooks), f) /\ BuildFromConfig(hooks) = f[Len(hooks)]
  BY ManagerIsBuilt
<1> DEFINE T == {k \in Nat : k \in 0..Len(hooks) => Lists(f[k][s], hooks, k, s)}
<1>2. 0 \in T
  <2>1. f[0][s] = <<>>
    BY <1>1 DEF Built, NewManager
  <2>2. Lists(<<>>, hooks, 0, s)
    <3> DEFINE none == [n \in 1..0 |-> n]
    <3>1. Picked(hooks, 0, s) = {}
      BY DEF Picked
    <3>2. Aligned(<<>>, hooks, none, {})
      BY DEF Aligned
    <3> QED
      BY <3>1, <3>2 DEF Lists
  <2> QED
    BY <2>1, <2>2
<1>3. ASSUME NEW k \in Nat, k \in T PROVE k + 1 \in T
  <2> SUFFICES ASSUME k + 1 \in 0..Len(hooks)
               PROVE  Lists(f[k + 1][s], hooks, k + 1, s)
    OBVIOUS
  <2>1. Lists(f[k][s], hooks, k, s)
    BY <1>3
  <2>2. f[k + 1] = IF IsEnabled(hooks[k + 1]) THEN Added(f[k], hooks[k + 1]) ELSE f[k]
    <3>1. k + 1 # 0 /\ (k + 1) - 1 = k
      OBVIOUS
    <3> QED
      BY <1>1, <3>1 DEF Built
  <2>3. f[k + 1][s] = IF IsEnabled(hooks[k + 1]) /\ RunsAt(hooks[k + 1], s)
                      THEN Append(f[k][s], hooks[k + 1]) ELSE f[k][s]
    BY <2>2 DEF Added
  <2> QED
    BY <2>1, <2>3, ListsNext
<1>4. Len(hooks) \in T
  <2> HIDE DEF T
  <2> QED
    BY <1>2, <1>3, FromZeroOn
<1> QED
  BY <1>1, <1>4

LEMMA ConfigHasHooksInOrder == ConfigInv => HooksInOrder
<1> DEFINE Listed(s) == {n \in DOMAIN config.hooks :
                            config.hooks[n].enabled /\ StageOf(config.hooks[n]) = s}
<1> SUFFICES ASSUME ConfigInv, IsRunning, NEW s \in Stages
             PROVE  \E at \in [DOMAIN handler.manager[s] -> Listed(s)] :
                       /\ \A n \in DOMAIN handler.manager[s] :
                             handler.manager[s][n] = config.hooks[at[n]]
                       /\ \A n, k \in DOMAIN handler.manager[s] : n < k => at[n] < at[k]
                       /\ Range(at) = Listed(s)
  BY DEF HooksInOrder
<1> HIDE DEF Listed
<1> DEFINE q == handler.manager[s]
           hooks == config.hooks
<1>1. Len(hooks) \in Nat /\ DOMAIN hooks = 1..Len(hooks)
  <2>1. config \in Configuration
    BY DEF ConfigInv
  <2>2. config.hooks \in Seq([name: STRING, type: STRING, stage: STRING,
                              enabled: BOOLEAN, phase: STRING])
    BY <2>1, ZenonT(30) DEF Configuration
  <2> QED
    BY <2>2
<1>2. handler.manager = BuildFromConfig(hooks)
  BY DEF ConfigInv, IsRunning, NewHandler
<1>3. Lists(q, hooks, Len(hooks), s)
  BY <1>1, <1>2, BuiltInOrder
<1>4. Listed(s) = Picked(hooks, Len(hooks), s)
  <2>1. \A n \in DOMAIN hooks : IsEnabled(hooks[n]) => CanBuild(hooks[n])
    BY DEF ConfigInv, CanHandle
  <2>2. \A h : CanBuild(h) => (RunsAt(h, s) <=> StageOf(h) = s)
    BY Zenon DEF CanBuild, RunsAt
  <2>3. Listed(s) = {n \in DOMAIN hooks : IsEnabled(hooks[n]) /\ RunsAt(hooks[n], s)}
    <3> HIDE DEF hooks
    <3> QED
      BY <2>1, <2>2 DEF Listed, IsEnabled, hooks
  <2> QED
    BY <1>1, <2>3 DEF Picked
<1>5. DOMAIN q = 1..Len(q)
  BY <1>3 DEF Lists
<1> HIDE DEF q, hooks, Listed
<1>pick. PICK at : Aligned(q, hooks, at, Listed(s))
  BY <1>3, <1>4 DEF Lists
<1>6. /\ at \in [DOMAIN q -> Listed(s)]
      /\ \A n \in DOMAIN q : q[n] = hooks[at[n]]
      /\ \A n, m \in DOMAIN q : n < m => at[n] < at[m]
      /\ \A i \in Listed(s) : \E n \in DOMAIN q : at[n] = i
  BY <1>5, <1>pick DEF Aligned
<1>7. Range(at) = Listed(s)
  BY <1>6 DEF Range
<1> QED
  BY <1>6, <1>7 DEF q, hooks

-----------------------------------------------------------------------------
LEMMA EndsWell == Spec => [](StageInv /\ ErrorType /\ EndInv)
<1>1. Init => ErrorType
  BY DEF Init, ErrorType
<1> QED
  BY <1>1, StageInit, StageNext, ErrorTypeNext, EndNext, PTL DEF Spec

(* A goroutine runs exactly while its connection has a request, whatever   *)
(* main is doing (net/http as cmd/insightlayer/main.go uses it).           *)
THEOREM TypeCorrect == Spec => []TypeOK
<1>1. StageInv => TypeOK
  BY DEF StageInv
<1> QED
  BY <1>1, EndsWell, PTL

(* Only the end of the process cuts a request off, and only the deadline   *)
(* of Shutdown, the listener or an early signal ends it on one (main.go).  *)
THEOREM OnlyForCause == Spec => []CutForCause
<1>1. EndInv => CutForCause
  BY DEF EndInv
<1> QED
  BY <1>1, EndsWell, PTL

(* main returns with 0 only when every request has come to its end.        *)
THEOREM ZeroIsClean == Spec => []CleanExit
<1>1. EndInv => CleanExit
  BY DEF EndInv
<1> QED
  BY <1>1, EndsWell, PTL

(* Requests that fail side by side are told of their own errors, when no   *)
(* hook keeps one error value for all (Manager.RunError).                  *)
THEOREM ErrorsAreOwn ==
    ASSUME "shared" \notin HookErrors
    PROVE  Spec => []ErrorsStayApart
<1>1. ErrorInv => ErrorsStayApart
  BY DEF ErrorInv, ErrorsStayApart, Noted
<1>2. StageInv /\ ErrorInv /\ [Next]_vars => (StageInv /\ ErrorInv)'
  BY StageNext, ErrorNext DEF ErrorInv
<1> QED
  BY <1>1, <1>2, StageInit, ErrorInit, PTL DEF Spec

(* Validation and NewHandler let no file pass whose routes lead nowhere.   *)
THEOREM RoutesAlwaysLead == Spec => []RoutesLead
BY ConfigInit, ConfigNext, ValidRoutesLead, PTL DEF Spec

(* Whatever the file says, a stage runs exactly the file's enabled hooks   *)
(* of it, each once and in the order of the file (BuildFromConfig).        *)
THEOREM HooksAreInOrder == Spec => []HooksInOrder
BY ConfigInit, ConfigNext, ConfigHasHooksInOrder, PTL DEF Spec

=============================================================================
