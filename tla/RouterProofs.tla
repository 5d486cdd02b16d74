---------------------------- MODULE RouterProofs ----------------------------
(***************************************************************************)
(* For every configuration and every path: the router serves a request by  *)
(* the best route that takes it, and never leaves a clear request to the   *)
(* order of the sort.                                                      *)
(***************************************************************************)
EXTENDS Router, FiniteSetTheorems, SequenceTheorems, TLAPS

(* A nonempty set of natural numbers has a least element.                  *)
LEMMA LeastExists ==
    ASSUME NEW T \in SUBSET Nat, T # {}
    PROVE  Min(T) \in T /\ \A n \in T : Min(T) <= n
PROOF
<1> DEFINE R == OpToRel(<, Nat)
<1>1. PICK least \in T : \A n \in T : ~(<<n, least>> \in R)
  <2> HIDE DEF R
  <2>1. IsWellFoundedOn(R, Nat)
    BY NatLessThanWellFounded DEF R
  <2> QED BY <2>1, WFMin
<1>2. ASSUME NEW n \in T PROVE least <= n
  <2>1. ~(<<n, least>> \in R)
    BY <1>1
  <2>2. ~(n < least)
    BY <2>1 DEF OpToRel
  <2> QED BY <2>2
<1> QED BY <1>1, <1>2 DEF Min

(* The sort loses no route, and its result is a sequence of routes.        *)
LEMMA OrderIsComplete ==
    ASSUME NEW c \in Configs, NEW o \in Orders(c)
    PROVE  /\ DOMAIN o \subseteq Nat
           /\ \A n \in DOMAIN o : o[n] \in DOMAIN c
           /\ \A r \in DOMAIN c : \E n \in DOMAIN o : o[n] = r
           /\ IsRanked(c, o)
PROOF
<1> DEFINE S == DOMAIN c
           size == Cardinality(S)
           D == 1 .. size
<1>1. IsFiniteSet(S)
  BY RouterAssumption
<1>2. size \in Nat
  BY <1>1, FS_CardinalityType
<1>3. IsFiniteSet(D) /\ Cardinality(D) = size
  BY <1>2, FS_Interval
<1>4. o \in [D -> S] /\ (\A i, j \in D : i # j => o[i] # o[j])
  BY DEF Orders, SetToSeqs
<1>5. IsRanked(c, o)
  BY DEF Orders
<1> HIDE DEF D, S, size
<1>6. o \in Injection(D, S)
  BY <1>4 DEF Injection, IsInjective
<1>7. o \in Surjection(D, S)
  BY <1>1, <1>3, <1>6, FS_Injection DEF size
<1>8. \A r \in S : \E n \in D : o[n] = r
  BY <1>7 DEF Surjection
<1>9. D \subseteq Nat
  BY <1>2 DEF D
<1> QED BY <1>4, <1>5, <1>8, <1>9 DEF S

(* A sorted list is a sequence of the configured names.                    *)
LEMMA OrderType ==
    ASSUME NEW c \in Configs, NEW o \in Orders(c)
    PROVE  o \in Seq(DOMAIN c)
PROOF
<1>1. Cardinality(DOMAIN c) \in Nat
  BY RouterAssumption, FS_CardinalityType
<1>2. o \in [1 .. Cardinality(DOMAIN c) -> DOMAIN c]
  BY DEF Orders, SetToSeqs
<1> HIDE DEF Orders
<1> QED BY <1>1, <1>2, SeqDef

(* A route that takes a path gives it a kind, or none.                     *)
LEMMA KindType ==
    ASSUME NEW r \in Route, NEW p
    PROVE  KindFor(r, p) \in EndpointKinds \cup {NoKind}
PROOF
<1>1. Detect(r.protocol, p) \in EndpointKinds \cup {NoKind}
  BY DEF Detect, DetectOpenAIEndpoint, DetectAnthropicEndpoint, EndpointKinds,
         NoKind
<1>2. ASSUME IsSingle(r) PROVE OnlyKind(r) \in EndpointKinds
  <2>1. r.kinds \subseteq EndpointKinds
    BY DEF Route
  <2>2. OnlyKind(r) \in r.kinds
    BY <1>2 DEF IsSingle, OnlyKind
  <2> QED BY <2>1, <2>2
<1> QED BY <1>1, <1>2 DEF KindFor

(* What Resolve finds is the first route in order that takes the path.     *)
LEMMA ResolveFindsBest ==
    ASSUME NEW c \in Configs, NEW o \in Orders(c), NEW p
    PROVE  LET f == Resolve(c, o, p)
           IN  /\ f # NotFound =>
                     /\ f.route \in DOMAIN c
                     /\ f.kind = KindFor(c[f.route], p)
                     /\ Takes(c[f.route], p)
                     /\ \A r \in DOMAIN c :
                           Takes(c[r], p) => ~RanksBefore(c[r], c[f.route])
               /\ f = NotFound => \A r \in DOMAIN c : ~Takes(c[r], p)
PROOF
<1> DEFINE taking == Taking(c, o, p)
           first == Min(taking)
           f == Resolve(c, o, p)
<1>1. /\ DOMAIN o \subseteq Nat
      /\ \A n \in DOMAIN o : o[n] \in DOMAIN c
      /\ \A r \in DOMAIN c : \E n \in DOMAIN o : o[n] = r
      /\ IsRanked(c, o)
  BY OrderIsComplete
<1>2. CASE taking = {}
  <2>1. f = NotFound
    BY <1>2 DEF Resolve
  <2>2. \A r \in DOMAIN c : ~Takes(c[r], p)
    BY <1>1, <1>2 DEF Taking
  <2> QED BY <2>1, <2>2
<1>3. CASE taking # {}
  <2>1. taking \in SUBSET Nat
    BY <1>1 DEF Taking
  <2>2. first \in taking /\ \A n \in taking : first <= n
    BY <1>3, <2>1, LeastExists
  <2>3. f = [route |-> o[first], kind |-> KindFor(c[o[first]], p)]
    BY <1>3 DEF Resolve
  <2>4. o[first] \in DOMAIN c /\ first \in DOMAIN o /\ Takes(c[o[first]], p)
    BY <1>1, <2>2 DEF Taking
  <2>5. f # NotFound
    <3>1. o[first] # NoRoute
      BY <2>4, RouterAssumption
    <3> QED BY <2>3, <3>1 DEF NotFound
  <2>6. ASSUME NEW r \in DOMAIN c, Takes(c[r], p)
        PROVE  ~RanksBefore(c[r], c[o[first]])
    <3>1. PICK n \in DOMAIN o : o[n] = r
      BY <1>1
    <3>2. n \in taking
      BY <2>6, <3>1 DEF Taking
    <3>3. first <= n
      BY <2>2, <3>2
    <3>4. CASE first = n
      <4>1. c[r] \in Route
        BY RouterAssumption
      <4>2. c[r].priority \in Int
        BY <4>1 DEF Route
      <4>3. ~(Len(c[r].prefix) > Len(c[r].prefix))
        <5>1. c[r].prefix \in Seq(STRING)
          BY <4>1 DEF Route
        <5>2. Len(c[r].prefix) \in Nat
          BY <5>1, LenProperties
        <5> QED BY <5>2
      <4> QED BY <3>1, <3>4, <4>2, <4>3 DEF RanksBefore
    <3>5. CASE first # n
      <4>1. first < n
        BY <1>1, <2>4, <3>3, <3>5
      <4> QED BY <1>1, <2>4, <3>1, <4>1 DEF IsRanked
    <3> QED BY <3>4, <3>5
  <2> QED BY <2>3, <2>4, <2>5, <2>6
<1> QED BY <1>2, <1>3

(* Two routes that rank alike, take a path and agree on its protocol and   *)
(* kind are a pair New refuses.                                            *)
LEMMA EqualRanksAreAmbiguous ==
    ASSUME NEW a \in Route, NEW b \in Route, NEW p,
           Takes(a, p), Takes(b, p),
           ~RanksBefore(a, b), ~RanksBefore(b, a),
           a.protocol = b.protocol,
           KindFor(a, p) = KindFor(b, p), KindFor(a, p) # NoKind
    PROVE  AreAmbiguous(a, b)
PROOF
<1>1. a.priority \in Int /\ b.priority \in Int
  BY DEF Route
<1>2. Len(a.prefix) \in Nat
  <2>1. a.prefix \in Seq(STRING)
    BY DEF Route
  <2> QED BY <2>1, LenProperties
<1>3. Len(b.prefix) \in Nat
  <2>1. b.prefix \in Seq(STRING)
    BY DEF Route
  <2> QED BY <2>1, LenProperties
<1>4. a.priority = b.priority /\ Len(a.prefix) = Len(b.prefix)
  BY <1>1, <1>2, <1>3 DEF RanksBefore
<1>5. IsPrefix(a.prefix, b.prefix)
  <2>1. SubSeq(a.prefix, 1, Len(a.prefix)) = SubSeq(b.prefix, 1, Len(b.prefix))
    BY <1>4 DEF Takes, IsPrefix
  <2>2. Len(a.prefix) <= Len(b.prefix)
    BY <1>2, <1>3, <1>4
  <2> QED BY <1>4, <2>1, <2>2 DEF IsPrefix
<1>6. KindFor(a, p) \in a.kinds \cap b.kinds
  BY DEF Takes
<1> QED BY <1>4, <1>5, <1>6 DEF AreAmbiguous, PrefixesOverlap, KindsOverlap

-----------------------------------------------------------------------------
(* What holds between the configuration, the sorted routes and the last    *)
(* answer of Resolve.                                                      *)
RouterInv ==
    /\ config \in Configs
    /\ status \in {"loading", "refused", "serving"}
    /\ path \in Paths \cup {<<>>}
    /\ status # "serving" => order = <<>>
    /\ status = "serving" => order \in Orders(config) /\ ~IsAmbiguous(config)
    /\ \/ path = <<>> /\ found = NotFound
       \/ status = "serving" /\ found = Resolve(config, order, path)

(* The invariant holds before the routes are built.                        *)
LEMMA RouterInvInit == Init => RouterInv
PROOF BY DEF Init, RouterInv

(* Building, refusing and resolving keep the invariant.                    *)
LEMMA RouterInvNext == RouterInv /\ [Next]_vars => RouterInv'
PROOF
<1> SUFFICES ASSUME RouterInv, [Next]_vars PROVE RouterInv'
  OBVIOUS
<1>1. CASE Build
  BY <1>1 DEF Build, RouterInv
<1>2. CASE Refuse
  BY <1>2 DEF Refuse, RouterInv
<1>3. CASE Request
  BY <1>3 DEF Request, RouterInv
<1>4. CASE Exited
  BY <1>4 DEF Exited, vars, RouterInv
<1>5. CASE UNCHANGED vars
  BY <1>5 DEF vars, RouterInv
<1> QED BY <1>1, <1>2, <1>3, <1>4, <1>5 DEF Next

(* Every reachable state satisfies the invariant.                          *)
LEMMA RouterInvCorrect == Spec => []RouterInv
PROOF BY RouterInvInit, RouterInvNext, PTL DEF Spec

(* In a ranked order the first route that takes a path is a best one.      *)
LEMMA InvServesBest == RouterInv => BestRouteServes
PROOF
<1> SUFFICES ASSUME RouterInv PROVE BestRouteServes
  OBVIOUS
<1>1. CASE path = <<>> /\ found = NotFound
  BY <1>1 DEF BestRouteServes, IsFound, Requested
<1>2. CASE status = "serving" /\ found = Resolve(config, order, path)
  <2>1. config \in Configs /\ order \in Orders(config)
    BY <1>2 DEF RouterInv
  <2>2. /\ found # NotFound =>
              /\ Takes(config[found.route], path)
              /\ \A r \in DOMAIN config :
                    Takes(config[r], path) =>
                       ~RanksBefore(config[r], config[found.route])
        /\ found = NotFound => \A r \in DOMAIN config : ~Takes(config[r], path)
    BY <1>2, <2>1, ResolveFindsBest
  <2> QED BY <2>2 DEF BestRouteServes, IsFound
<1> QED BY <1>1, <1>2 DEF RouterInv

(* The invariant gives every variable its type.                            *)
LEMMA InvTyped == RouterInv => TypeOK
PROOF
<1> SUFFICES ASSUME RouterInv PROVE TypeOK
  OBVIOUS
<1>1. order \in Seq(DOMAIN config)
  <2>1. CASE status = "serving"
    BY <2>1, OrderType DEF RouterInv
  <2>2. CASE status # "serving"
    BY <2>2, EmptySeq DEF RouterInv
  <2> QED BY <2>1, <2>2
<1>2. /\ found.route \in DOMAIN config \cup {NoRoute}
      /\ found.kind \in EndpointKinds \cup {NoKind}
  <2>1. CASE found = NotFound
    BY <2>1 DEF NotFound
  <2>2. CASE status = "serving" /\ found # NotFound
    <3>1. config \in Configs /\ order \in Orders(config)
      BY <2>2 DEF RouterInv
    <3>2. found = Resolve(config, order, path)
      BY <2>2 DEF RouterInv
    <3>3. /\ found.route \in DOMAIN config
          /\ found.kind = KindFor(config[found.route], path)
      BY <2>2, <3>1, <3>2, ResolveFindsBest
    <3>4. config[found.route] \in Route
      BY <3>1, <3>3, RouterAssumption
    <3> QED BY <3>3, <3>4, KindType
  <2> QED BY <2>1, <2>2 DEF RouterInv
<1> QED BY <1>1, <1>2 DEF RouterInv, TypeOK

(* Two ranked orders agree on a path that is clear: their first takers are *)
(* of equal rank, and two such routes would have been refused.             *)
LEMMA InvIgnoresOrder == RouterInv => OrderIsIrrelevant
PROOF
<1> SUFFICES ASSUME RouterInv, Requested, IsClear, NEW o \in Orders(config)
             PROVE  Resolve(config, o, path) = found
  BY DEF OrderIsIrrelevant
<1> DEFINE g == Resolve(config, o, path)
<1>1. /\ config \in Configs /\ order \in Orders(config)
      /\ ~IsAmbiguous(config)
      /\ found = Resolve(config, order, path)
  BY DEF RouterInv, Requested
<1>2. /\ g # NotFound =>
            /\ g.route \in DOMAIN config
            /\ g.kind = KindFor(config[g.route], path)
            /\ Takes(config[g.route], path)
            /\ \A r \in DOMAIN config :
                  Takes(config[r], path) =>
                     ~RanksBefore(config[r], config[g.route])
      /\ g = NotFound => \A r \in DOMAIN config : ~Takes(config[r], path)
  BY <1>1, ResolveFindsBest
<1>3. /\ found # NotFound =>
            /\ found.route \in DOMAIN config
            /\ found.kind = KindFor(config[found.route], path)
            /\ Takes(config[found.route], path)
            /\ \A r \in DOMAIN config :
                  Takes(config[r], path) =>
                     ~RanksBefore(config[r], config[found.route])
      /\ found = NotFound => \A r \in DOMAIN config : ~Takes(config[r], path)
  BY <1>1, ResolveFindsBest
<1> HIDE DEF g
<1>4. CASE g = NotFound
  BY <1>2, <1>3, <1>4 DEF g
<1>5. CASE found = NotFound
  BY <1>2, <1>3, <1>5 DEF g
<1>6. CASE g # NotFound /\ found # NotFound
  <2> DEFINE a == config[g.route]
             b == config[found.route]
  <2>1. a \in Route /\ b \in Route
    BY <1>1, <1>2, <1>3, <1>6, RouterAssumption
  <2>2. Takes(a, path) /\ Takes(b, path)
    BY <1>2, <1>3, <1>6
  <2>3. ~RanksBefore(a, b) /\ ~RanksBefore(b, a)
    BY <1>2, <1>3, <1>6, <2>2
  <2>4. /\ a.protocol = b.protocol
        /\ KindFor(a, path) = KindFor(b, path)
        /\ KindFor(a, path) # NoKind
    BY <1>2, <1>3, <1>6, <2>2 DEF IsClear
  <2>5. AreAmbiguous(a, b)
    BY <2>1, <2>2, <2>3, <2>4, EqualRanksAreAmbiguous
  <2>6. g.route = found.route
    BY <1>1, <1>2, <1>3, <1>6, <2>5 DEF IsAmbiguous
  <2>7. g.kind = found.kind
    BY <1>2, <1>3, <1>6, <2>6
  <2>8. g = [route |-> g.route, kind |-> g.kind]
    BY <1>6 DEF g, Resolve, NotFound
  <2>9. found = [route |-> found.route, kind |-> found.kind]
    BY <1>1, <1>6 DEF Resolve, NotFound
  <2> QED BY <2>6, <2>7, <2>8, <2>9 DEF g
<1> QED BY <1>4, <1>5, <1>6

-----------------------------------------------------------------------------
(* New and Resolve keep every variable in its type: a sorted list of names *)
(* of routes, a found route that is configured, a kind that exists.        *)
THEOREM RouterTypeCorrect == Spec => []TypeOK
PROOF BY RouterInvCorrect, InvTyped, PTL

(* The best route that takes a request serves it.                          *)
THEOREM RouterServesBest == Spec => []BestRouteServes
PROOF BY RouterInvCorrect, InvServesBest, PTL

(* The sort's freedom is invisible to a request whose routes agree on its  *)
(* protocol and kind.                                                      *)
THEOREM RouterIgnoresOrder == Spec => []OrderIsIrrelevant
PROOF BY RouterInvCorrect, InvIgnoresOrder, PTL

=============================================================================
