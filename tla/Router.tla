------------------------------- MODULE Router -------------------------------
(***************************************************************************)
(* A router from its configuration to the requests it resolves             *)
(* (internal/router/router.go).  New sorts the configured routes and       *)
(* refuses an ambiguous set, and then the program exits; Resolve walks     *)
(* them for each request.  Nothing changes the routes afterwards, so       *)
(* concurrent requests cannot disturb one another.                         *)
(***************************************************************************)
EXTENDS Routes

CONSTANTS Configs,      \* sets of routes an operator may configure
          Paths         \* paths a client may request

ASSUME RouterAssumption ==
    /\ \A c \in Configs : \A r \in DOMAIN c : c[r] \in Route
    /\ \A c \in Configs : IsFiniteSet(DOMAIN c) /\ NoRoute \notin DOMAIN c
    /\ Paths \subseteq Seq(STRING)

VARIABLES
    config,     \* the configured routes, by name
    status,     \* loading, refused or serving
    order,      \* Router.routes: the names, sorted
    path,       \* the last request's path
    found       \* what Resolve made of it

vars == <<config, status, order, path, found>>

Init ==
    /\ config \in Configs
    /\ status = "loading"
    /\ order = <<>>
    /\ path = <<>>
    /\ found = NotFound

(* Variant: the slice is made with a length, not a capacity, so that an    *)
(* empty route precedes those appended.                                    *)
BuildPadded ==
    /\ status = "loading"
    /\ ~IsAmbiguous(config)
    /\ status' = "serving"
    /\ order' \in {<<NoRoute>> \o o : o \in Orders(config)}
    /\ UNCHANGED <<config, path, found>>

(* New succeeds.                                                           *)
Build ==
    /\ status = "loading"
    /\ ~IsAmbiguous(config)
    /\ status' = "serving"
    /\ order' \in Orders(config)
    /\ UNCHANGED <<config, path, found>>

(* New reports ambiguous routes.                                           *)
Refuse ==
    /\ status = "loading"
    /\ IsAmbiguous(config)
    /\ status' = "refused"
    /\ UNCHANGED <<config, order, path, found>>

Request ==
    /\ status = "serving"
    /\ path' \in Paths
    /\ found' = Resolve(config, order, path')
    /\ UNCHANGED <<config, status, order>>

Exited == status = "refused" /\ UNCHANGED vars

Next == Build \/ Refuse \/ Request \/ Exited

Spec == Init /\ [][Next]_vars

-----------------------------------------------------------------------------
Requested == path # <<>>
IsFound == found # NotFound

TypeOK ==
    /\ config \in Configs
    /\ status \in {"loading", "refused", "serving"}
    /\ order \in Seq(DOMAIN config)
    /\ path \in Paths \cup {<<>>}
    /\ found.route \in DOMAIN config \cup {NoRoute}
    /\ found.kind \in EndpointKinds \cup {NoKind}

(* The route that serves a request is the best that takes it: none that    *)
(* takes it has a higher priority, or the same and a longer prefix; and a  *)
(* request is not found only if no route takes it.  The walk and the sort  *)
(* must agree for that.                                                    *)
BestRouteServes ==
    /\ IsFound =>
          /\ Takes(config[found.route], path)
          /\ \A r \in DOMAIN config :
                Takes(config[r], path) =>
                   ~RanksBefore(config[r], config[found.route])
    /\ Requested /\ ~IsFound =>
          \A r \in DOMAIN config : ~Takes(config[r], path)

(* New leaves no choice to the sort ("rather than picking one silently",   *)
(* routing.md): when the routes that take a path agree on its protocol and *)
(* on its kind, every order the sort may produce resolves it alike.  The   *)
(* pairwise comparison of prefixes and kinds, made before there is a path, *)
(* must cover every path for that.                                         *)
IsClear ==
    LET taking == {r \in DOMAIN config : Takes(config[r], path)}
    IN  \A r, s \in taking :
           /\ config[r].protocol = config[s].protocol
           /\ KindFor(config[r], path) = KindFor(config[s], path)
           /\ KindFor(config[r], path) # NoKind

OrderIsIrrelevant ==
    Requested /\ IsClear =>
        \A o \in Orders(config) : Resolve(config, o, path) = found

=============================================================================
