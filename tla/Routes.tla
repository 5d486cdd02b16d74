------------------------------- MODULE Routes -------------------------------
(***************************************************************************)
(* Routes and the requests they take (internal/router/router.go).          *)
(*                                                                         *)
(* A path, and a route's prefix, is the sequence of its segments, with     *)
(* "chat/completions" for one and "/" for a trailing slash.  A prefix that *)
(* ends inside a segment is left out.  Two routes matter to each other     *)
(* only when one prefix begins the other, and then the longer string is    *)
(* the one with more segments.                                             *)
(***************************************************************************)
EXTENDS Pipeline, Integers, SequencesExt, FiniteSetsExt

CONSTANT NoRoute        \* the name of no route

NoKind == ""

Route == [priority: Int, protocol: Protocols, prefix: Seq(STRING),
          kinds: SUBSET EndpointKinds]

-----------------------------------------------------------------------------
(* What a path says of its kind, in the words of the route's protocol.     *)

DetectOpenAIEndpoint(path) ==
    LET Has(segment) == \E n \in DOMAIN path : path[n] = segment
    IN  IF Has("chat/completions") THEN "chat"
        ELSE IF path # <<>> /\ Last(path) = "completions" THEN "completion"
        ELSE IF Has("embeddings") THEN "embedding"
        ELSE IF Has("models") THEN "model_list"
        ELSE NoKind

DetectAnthropicEndpoint(path) ==
    IF \E n \in DOMAIN path : path[n] = "messages" THEN "chat" ELSE NoKind

Detect(protocol, path) ==
    IF protocol = "openai" THEN DetectOpenAIEndpoint(path)
    ELSE DetectAnthropicEndpoint(path)

IsSingle(route) == \E k \in route.kinds : route.kinds = {k}
OnlyKind(route) == CHOOSE k \in route.kinds : TRUE

(* Nothing, or a slash, follows the prefix.                                *)
IsBare(route, path) == path \in {route.prefix, Append(route.prefix, "/")}

(* A single-kind route lends its kind to a bare path and to a path that    *)
(* says nothing.                                                           *)
KindFor(route, path) ==
    IF IsSingle(route)
       /\ (IsBare(route, path) \/ Detect(route.protocol, path) = NoKind)
    THEN OnlyKind(route)
    ELSE Detect(route.protocol, path)

(* Resolve does not pass the route over.                                   *)
Takes(route, path) ==
    /\ IsPrefix(route.prefix, path)
    /\ KindFor(route, path) # NoKind => KindFor(route, path) \in route.kinds

-----------------------------------------------------------------------------
(* The order of New's sort, and the pairs it refuses.                      *)

RanksBefore(a, b) ==
    \/ a.priority > b.priority
    \/ a.priority = b.priority /\ Len(a.prefix) > Len(b.prefix)

PrefixesOverlap(a, b) ==
    IsPrefix(a.prefix, b.prefix) \/ IsPrefix(b.prefix, a.prefix)

(* Variant: routes are told apart by their whole sets of kinds.            *)
KindsOverlapEqual(a, b) == a.kinds = b.kinds

KindsOverlap(a, b) == a.kinds \cap b.kinds # {}

AreAmbiguous(a, b) ==
    /\ a.priority = b.priority
    /\ Len(a.prefix) = Len(b.prefix)
    /\ a.protocol = b.protocol
    /\ PrefixesOverlap(a, b)
    /\ KindsOverlap(a, b)

(* routes is a function from the names of the configured routes.           *)
IsAmbiguous(routes) ==
    \E a, b \in DOMAIN routes : a # b /\ AreAmbiguous(routes[a], routes[b])

(* Variant: the sort compares priorities only.                             *)
IsRankedByPriority(routes, order) ==
    \A i, j \in DOMAIN order :
       i < j => routes[order[i]].priority >= routes[order[j]].priority

(* sort.Slice promises an order without inversions, and nothing about      *)
(* routes that rank alike.                                                 *)
IsRanked(routes, order) ==
    \A i, j \in DOMAIN order :
       i < j => ~RanksBefore(routes[order[j]], routes[order[i]])

Orders(routes) ==
    {order \in SetToSeqs(DOMAIN routes) : IsRanked(routes, order)}

-----------------------------------------------------------------------------
NotFound == [route |-> NoRoute, kind |-> NoKind]

Taking(routes, order, path) ==
    {n \in DOMAIN order : Takes(routes[order[n]], path)}

(* The first route, in order, that takes the path.                         *)
Resolve(routes, order, path) ==
    LET taking == Taking(routes, order, path)
        name == order[Min(taking)]
    IN  IF taking = {} THEN NotFound
        ELSE [route |-> name, kind |-> KindFor(routes[name], path)]

=============================================================================
