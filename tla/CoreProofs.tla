------------------------------ MODULE CoreProofs ------------------------------
(***************************************************************************)
(* The machinery of benzene-core and its HTTP binding. For any routes and  *)
(* requests: a request on an advertised HTTP route is answered by that     *)
(* route's own handler. For any casts between any schemas: the chain found *)
(* is a shortest one. For any services, needs and scopes: a scope hands    *)
(* out what was registered, for as long as its lifetime says. For any      *)
(* handlers and applications: each message is answered by whom it should   *)
(* be. For any results and any relays: what arrives is what was answered.  *)
(***************************************************************************)
EXTENDS HttpRouting, Casting, Container, Dispatch, Replies, FiniteSetTheorems, SequenceTheorems, WellFoundedInduction, TLAPS

\* A set of numbers that is not empty has a least one.
LEMMA LeastExists ==
    ASSUME NEW S \in SUBSET Nat, S # {}
    PROVE  \E x \in S : \A y \in S : x <= y
<1>1. PICK x \in S : \A y \in S : ~(<<y, x>> \in OpToRel(<, Nat))
  BY WFMin, NatLessThanWellFounded
<1>2. \A y \in S : x <= y
  <2> SUFFICES ASSUME NEW y \in S PROVE x <= y
    OBVIOUS
  <2>1. ~(y < x)
    BY <1>1 DEF OpToRel
  <2> QED
    BY <2>1
<1> QED
  BY <1>2

(***************************************************************************)
(* HttpRouting.                                                            *)
(***************************************************************************)
EndpointOf(r) == [method |-> r.method, path |-> r.path, topic |-> r.topic, version |-> r.version]
DefinitionOf(r) == [handler |-> r.handler, default |-> r.default]
PairOf(r) == <<r.topic, r.version>>

\* Each route has its endpoint, in its place.
EndpointsMirror ==
    /\ routes \in Seq(Routes) /\ endpoints \in Seq({EndpointOf(r) : r \in Routes})
    /\ Len(endpoints) = Len(routes)
    /\ \A i \in DOMAIN routes : endpoints[i] = EndpointOf(routes[i])

\* The definition of a pair is that of the last route registered for it.
LastOneDefines ==
    /\ \A i \in DOMAIN routes : PairOf(routes[i]) \in DOMAIN definitions
    /\ \A p \in DOMAIN definitions :
           \E i \in DOMAIN routes :
               /\ PairOf(routes[i]) = p /\ definitions[p] = DefinitionOf(routes[i])
               /\ \A j \in DOMAIN routes : j > i => PairOf(routes[j]) # p

\* The answer is still what the tables say.
AnswerStands == httpPhase = "answered" => request \in Requests /\ response = ResponseTo(request)

RoutingInv == EndpointsMirror /\ LastOneDefines /\ AnswerStands

LEMMA RoutingStarts == RoutingInit => RoutingInv
<1> SUFFICES ASSUME RoutingInit PROVE RoutingInv
  OBVIOUS
<1>1. /\ routes = <<>> /\ endpoints = <<>> /\ httpPhase = "wiring" /\ DOMAIN definitions = {}
  BY DEF RoutingInit, RoutingStart
<1> QED
  BY <1>1 DEF RoutingInv, EndpointsMirror, LastOneDefines, AnswerStands

LEMMA RoutingHolds == RoutingInv /\ [RoutingNext]_routingVars => RoutingInv'
<1> SUFFICES ASSUME RoutingInv, [RoutingNext]_routingVars PROVE RoutingInv'
  OBVIOUS
<1>1. ASSUME NEW r \in Routes, RegisterRoute(r) PROVE RoutingInv'
  <2> DEFINE n == Len(routes) + 1
  <2>1. /\ routes \in Seq(Routes) /\ endpoints \in Seq({EndpointOf(x) : x \in Routes})
        /\ Len(endpoints) = Len(routes) /\ DOMAIN routes = 1..Len(routes) /\ Len(routes) \in Nat
    BY DEF RoutingInv, EndpointsMirror
  <2>2. /\ routes' = Append(routes, r) /\ endpoints' = Append(endpoints, EndpointOf(r))
    BY <1>1 DEF RegisterRoute, EndpointOf
  <2>3. /\ routes' \in Seq(Routes) /\ Len(routes') = n /\ DOMAIN routes' = 1..n
        /\ \A i \in 1..Len(routes) : routes'[i] = routes[i]
        /\ routes'[n] = r
    BY <2>1, <2>2
  <2>4. EndpointOf(r) \in {EndpointOf(x) : x \in Routes}
    OBVIOUS
  <2>5. /\ endpoints' \in Seq({EndpointOf(x) : x \in Routes}) /\ Len(endpoints') = n
        /\ \A i \in 1..Len(routes) : endpoints'[i] = endpoints[i]
        /\ endpoints'[n] = EndpointOf(r)
    <3> HIDE DEF EndpointOf
    <3> QED
      BY <2>1, <2>2, <2>4
  <2>6. EndpointsMirror'
    <3>1. ASSUME NEW i \in 1..n PROVE endpoints'[i] = EndpointOf(routes'[i])
      <4>1. CASE i = n
        BY <4>1, <2>3, <2>5
      <4>2. CASE i # n
        <5>1. i \in 1..Len(routes)
          BY <4>2, <2>1
        <5> QED
          BY <5>1, <2>1, <2>3, <2>5 DEF RoutingInv, EndpointsMirror
      <4> QED
        BY <4>1, <4>2
    <3> HIDE DEF n
    <3> QED
      BY <3>1, <2>3, <2>5 DEF EndpointsMirror, EndpointOf
  <2>7. /\ DOMAIN definitions' = DOMAIN definitions \cup {PairOf(r)}
        /\ definitions'[PairOf(r)] = DefinitionOf(r)
        /\ \A p \in DOMAIN definitions : p # PairOf(r) => definitions'[p] = definitions[p]
    BY <1>1 DEF RegisterRoute, PairOf, DefinitionOf
  <2>8. LastOneDefines'
    <3>1. ASSUME NEW i \in 1..n PROVE PairOf(routes'[i]) \in DOMAIN definitions'
      <4>1. CASE i = n
        BY <4>1, <2>3, <2>7
      <4>2. CASE i # n
        <5>1. i \in 1..Len(routes)
          BY <4>2, <2>1
        <5> QED
          BY <5>1, <2>1, <2>3, <2>7 DEF RoutingInv, LastOneDefines
      <4> QED
        BY <4>1, <4>2
    <3>2. ASSUME NEW p \in DOMAIN definitions'
          PROVE  \E i \in 1..n :
                    /\ PairOf(routes'[i]) = p /\ definitions'[p] = DefinitionOf(routes'[i])
                    /\ \A j \in 1..n : j > i => PairOf(routes'[j]) # p
      <4>1. CASE p = PairOf(r)
        <5>1. n \in 1..n /\ \A j \in 1..n : ~(j > n)
          BY <2>1
        <5> QED
          BY <4>1, <5>1, <2>3, <2>7
      <4>2. CASE p # PairOf(r)
        <5>1. p \in DOMAIN definitions /\ definitions'[p] = definitions[p]
          BY <4>2, <2>7
        <5>2. PICK i \in 1..Len(routes) :
                 /\ PairOf(routes[i]) = p /\ definitions[p] = DefinitionOf(routes[i])
                 /\ \A j \in 1..Len(routes) : j > i => PairOf(routes[j]) # p
          BY <5>1, <2>1 DEF RoutingInv, LastOneDefines
        <5>3. i \in 1..n /\ \A j \in 1..n : j \in 1..Len(routes) \/ j = n
          BY <2>1
        <5>4. \A j \in 1..n : j > i => PairOf(routes'[j]) # p
          BY <4>2, <5>2, <5>3, <2>3
        <5> QED
          BY <5>1, <5>2, <5>3, <5>4, <2>3
      <4> QED
        BY <4>1, <4>2
    <3> HIDE DEF n
    <3> QED
      BY <3>1, <3>2, <2>3 DEF LastOneDefines, PairOf, DefinitionOf
  <2>9. AnswerStands'
    BY <1>1 DEF RegisterRoute, AnswerStands
  <2> QED
    BY <2>6, <2>8, <2>9 DEF RoutingInv
<1>2. ASSUME UNCHANGED <<routes, endpoints, definitions>> PROVE EndpointsMirror' /\ LastOneDefines'
  BY <1>2 DEF RoutingInv, EndpointsMirror, LastOneDefines, EndpointOf, PairOf, DefinitionOf
<1>3. CASE BuildHttpApp
  BY <1>2, <1>3 DEF BuildHttpApp, RoutingInv, AnswerStands
<1>4. ASSUME NEW r \in Requests, HandleRequest(r) PROVE RoutingInv'
  <2>1. UNCHANGED <<routes, endpoints, definitions>>
    BY <1>4 DEF HandleRequest
  <2>2. ResponseTo(r)' = ResponseTo(r)
    BY <2>1 DEF ResponseTo, MatchOf, Chosen, Defaults
  <2> QED
    BY <1>2, <1>4, <2>1, <2>2 DEF HandleRequest, RoutingInv, AnswerStands
<1>5. CASE UNCHANGED routingVars
  <2>1. ResponseTo(request)' = ResponseTo(request)
    BY <1>5 DEF routingVars, ResponseTo, MatchOf, Chosen, Defaults
  <2> QED
    BY <1>2, <1>5, <2>1 DEF routingVars, RoutingInv, AnswerStands
<1> QED
  BY <1>1, <1>3, <1>4, <1>5 DEF RoutingNext

\* HttpRouter.match finds an endpoint when there is one, and it is one that matches.
LEMMA MatchFinds ==
    ASSUME NEW r, EndpointsMirror
    PROVE  /\ MatchOf(r) # 0 => MatchOf(r) \in DOMAIN endpoints /\ Matches(endpoints[MatchOf(r)], r)
           /\ \A i \in DOMAIN endpoints : Matches(endpoints[i], r) => MatchOf(r) # 0
<1> DEFINE matching == {i \in DOMAIN endpoints : Matches(endpoints[i], r)}
<1>1. DOMAIN endpoints = 1..Len(endpoints) /\ Len(endpoints) \in Nat
  BY DEF EndpointsMirror
<1>2. CASE matching = {}
  BY <1>2 DEF MatchOf
<1>3. CASE matching # {}
  <2>1. matching \in SUBSET Nat
    BY <1>1
  <2> HIDE DEF matching
  <2>2. \E i \in matching : \A j \in matching : i <= j
    BY <1>3, <2>1, LeastExists
  <2>3. MatchOf(r) = CHOOSE i \in matching : \A j \in matching : i <= j
    BY <1>3 DEF MatchOf, matching
  <2>4. MatchOf(r) \in matching
    BY <2>2, <2>3
  <2> QED
    BY <2>4, <1>1 DEF matching
<1> QED
  BY <1>2, <1>3

\* The topic's own definition of a version is the one that is chosen for it.
LEMMA ExactVersionChosen ==
    ASSUME NEW topic, NEW version, <<topic, version>> \in DOMAIN definitions
    PROVE  Chosen(topic, version) = definitions[<<topic, version>>].handler
<1>1. version # "" \/ <<topic, "">> \in DOMAIN definitions
  OBVIOUS
<1>2. {<<topic, version>>} \cap DOMAIN definitions = {<<topic, version>>}
  OBVIOUS
<1>3. (CHOOSE p \in {<<topic, version>>} : TRUE) = <<topic, version>>
  OBVIOUS
<1> QED
  BY <1>1, <1>2, <1>3 DEF Chosen

\* A path of segments captures the placeholders it has.
LEMMA CapturedDomain ==
    ASSUME NEW e, NEW r, NEW p \in Placeholders, e.path \in Seq(STRING)
    PROVE  p \in DOMAIN Captured(e, r) <=> Contains(e.path, p)
BY DEF Captured, Contains

LEMMA RouteServed == RoutingInv => AdvertisedRouteServed
<1> SUFFICES ASSUME RoutingInv, httpPhase = "answered", request.body # "broken",
                    NEW p \in DOMAIN definitions, Advertised(p[1], p[2])
             PROVE  /\ response.status = "ok"
                    /\ \E i \in DOMAIN routes :
                           /\ routes[i].topic = p[1] /\ routes[i].version = p[2]
                           /\ routes[i].handler = response.handler
                           /\ \A j \in DOMAIN routes : j > i => <<routes[j].topic, routes[j].version>> # p
  BY DEF AdvertisedRouteServed
<1>1. /\ EndpointsMirror /\ DOMAIN endpoints = DOMAIN routes
      /\ \A i \in DOMAIN routes : routes[i] \in Routes /\ endpoints[i] = EndpointOf(routes[i])
  BY DEF RoutingInv, EndpointsMirror
<1>2. PICK k \in DOMAIN routes :
         /\ PairOf(routes[k]) = p /\ definitions[p] = DefinitionOf(routes[k])
         /\ \A j \in DOMAIN routes : j > k => PairOf(routes[j]) # p
  BY DEF RoutingInv, LastOneDefines
<1>3. p = <<p[1], p[2]>> /\ routes[k].topic = p[1] /\ routes[k].version = p[2]
  BY <1>2 DEF PairOf
<1>4. definitions[p].handler = routes[k].handler /\ routes[k].handler # ""
  <2>1. routes[k] \in Routes
    BY <1>1
  <2>2. routes[k].handler # ""
    BY <2>1, RoutingAssumption
  <2>3. DefinitionOf(routes[k]).handler = routes[k].handler
    BY DEF DefinitionOf
  <2> QED
    BY <1>2, <2>2, <2>3
<1>5. MatchOf(request) # 0
  <2>1. PICK m \in http_mappings(p[1], p[2]) : m[1] = request.method /\ Fits(m[2], request.path)
    BY DEF Advertised
  <2>2. PICK e \in ToSet(endpoints) : m = <<e.method, e.path>>
    BY <2>1 DEF http_mappings
  <2>3. Matches(e, request)
    BY <2>1, <2>2 DEF Matches
  <2> QED
    BY <2>2, <2>3, <1>1, MatchFinds DEF ToSet
<1> DEFINE i == MatchOf(request)
           e == endpoints[i]
<1>6. i \in DOMAIN routes /\ e = EndpointOf(routes[i]) /\ Matches(e, request)
  BY <1>1, <1>5, MatchFinds
<1>7. e.topic = p[1] /\ e.version = p[2] /\ ~Contains(e.path, "{version}") /\ request.pin = ""
  <2>1. routes[i].method = request.method /\ Fits(routes[i].path, request.path)
    BY <1>6 DEF Matches, EndpointOf
  <2>2. /\ routes[i].topic = p[1] /\ routes[i].version = p[2] /\ request.pin = ""
        /\ ~Contains(routes[i].path, "{version}")
    BY <1>6, <2>1 DEF Advertised
  <2>3. e.topic = routes[i].topic /\ e.version = routes[i].version /\ e.path = routes[i].path
    BY <1>6 DEF EndpointOf
  <2> QED
    BY <2>2, <2>3
<1>8. e.path \in Seq(STRING)
  <2>1. routes[i] \in Routes /\ e.path = routes[i].path
    BY <1>1, <1>6 DEF EndpointOf
  <2>2. routes[i].path \in Seq(STRING)
    BY <2>1, RoutingAssumption
  <2> QED
    BY <2>1, <2>2
<1>9. VersionFor(e, request) = p[2]
  <2>1. "{version}" \notin DOMAIN Captured(e, request)
    BY <1>7, <1>8, CapturedDomain DEF Placeholders
  <2> QED
    BY <1>7, <2>1 DEF VersionFor
<1>10. Chosen(e.topic, VersionFor(e, request)) = routes[k].handler
  BY <1>3, <1>4, <1>7, <1>9, ExactVersionChosen
<1>11. response = [status |-> "ok", handler |-> routes[k].handler, data |-> RequestData(e, request)]
  <2>1. response = ResponseTo(request)
    BY DEF RoutingInv, AnswerStands
  <2> HIDE DEF e, i
  <2> QED
    BY <2>1, <1>4, <1>5, <1>10 DEF ResponseTo, e, i
<1> QED
  BY <1>2, <1>3, <1>11 DEF PairOf

LEMMA PathBelieved == RoutingInv => PathIsBelieved
<1> SUFFICES ASSUME RoutingInv, httpPhase = "answered", response.status = "ok"
             PROVE  /\ \A k \in {"version", "{version}"} \cap DOMAIN response.data : response.data[k] # "path"
                    /\ Contains(endpoints[MatchOf(request)].path, "{id}") =>
                           "id" \in DOMAIN response.data /\ response.data["id"] = "path"
                    /\ \A k \in request.query : response.data[k] \in {"query", "path"}
  BY DEF PathIsBelieved
<1> DEFINE e == endpoints[MatchOf(request)]
           path == IF "{id}" \in DOMAIN Captured(e, request) THEN {"id"} ELSE {}
           body == IF request.body = "object" THEN BodyMembers ELSE {}
<1>1. MatchOf(request) # 0 /\ response.data = RequestData(e, request)
  <2> DEFINE handler == Chosen(e.topic, VersionFor(e, request))
             given == [status |-> "ok", handler |-> handler, data |-> RequestData(e, request)]
  <2>1. response = ResponseTo(request)
    BY DEF RoutingInv, AnswerStands
  <2>2. \A s : [NoResponse EXCEPT !.status = s].status = s
    BY DEF NoResponse
  <2>3. /\ MatchOf(request) = 0 => ResponseTo(request) = [NoResponse EXCEPT !.status = "not-found"]
        /\ MatchOf(request) # 0 => \/ ResponseTo(request) = [NoResponse EXCEPT !.status = "bad-request"]
                                   \/ ResponseTo(request) = [NoResponse EXCEPT !.status = "not-found"]
                                   \/ ResponseTo(request) = given
    BY DEF ResponseTo
  <2> HIDE DEF handler
  <2>4. MatchOf(request) # 0 /\ response = given
    BY <2>1, <2>2, <2>3
  <2> QED
    BY <2>4
<1>2. e.path \in Seq(STRING)
  <2> DEFINE i == MatchOf(request)
  <2>1. i \in DOMAIN routes /\ routes[i] \in Routes /\ e = EndpointOf(routes[i])
    BY <1>1, MatchFinds DEF RoutingInv, EndpointsMirror
  <2>2. routes[i].path \in Seq(STRING)
    BY <2>1, RoutingAssumption
  <2> QED
    BY <2>1, <2>2 DEF EndpointOf
<1>3. Contains(e.path, "{id}") <=> path = {"id"}
  BY <1>2, CapturedDomain DEF Placeholders
<1>4. CASE request.query = {} /\ path = {} /\ request.body = "list"
  <2>1. response.data = [k \in {"list"} |-> "body"]
    BY <1>1, <1>4 DEF RequestData
  <2> QED
    BY <2>1, <1>3, <1>4
<1>5. CASE ~(request.query = {} /\ path = {} /\ request.body = "list")
  <2>1. response.data = Merge(body, request.query, path)
    BY <1>1, <1>5 DEF RequestData
  <2>2. path \subseteq {"id"}
    OBVIOUS
  <2> HIDE DEF path, body, e
  <2>3. /\ DOMAIN response.data = body \cup request.query \cup path
        /\ \A k \in DOMAIN response.data :
               response.data[k] = IF k \in path THEN "path" ELSE IF k \in request.query THEN "query" ELSE "body"
    BY <2>1 DEF Merge
  <2> QED
    BY <2>2, <2>3, <1>3 DEF e
<1> QED
  BY <1>4, <1>5

\* For any routes and requests: a request on a route that the Contract Document lists
\* under a topic and version is answered by the last handler registered for exactly
\* that pair, and the path's parameters reach it whatever query and body say
\* (HttpRouter.match, BenzeneHttpApp.handle).
THEOREM RoutesReached == RoutingSpec => []RequestsReachTheirRoute
<1>1. RoutingInv => RequestsReachTheirRoute
  BY RouteServed, PathBelieved DEF RequestsReachTheirRoute
<1> QED
  BY RoutingStarts, RoutingHolds, <1>1, PTL DEF RoutingSpec

-----------------------------------------------------------------------------
(***************************************************************************)
(* Casting.                                                                *)
(***************************************************************************)
Searches == [queue : Seq(Schemas \X Seq(Schemas)), seen : SUBSET Schemas, current : Schemas,
             taken : Seq(Schemas), left : Seq(Schemas)]

\* A chain p of casts that leads from one type to another.
LeadsTo(edges, from, p, v) ==
    /\ p \in Seq(Schemas)
    /\ p = <<>> => v = from
    /\ p # <<>> => <<from, p[1]>> \in edges /\ p[Len(p)] = v
    /\ \A i \in 1..(Len(p) - 1) : <<p[i], p[i + 1]>> \in edges

\* d is the distance at which the search s met each type: that of the queued ones is the
\* length of their chains, the queue is in its order, and nobody in it is nearer than the
\* type at hand or two steps farther.
Distances(edges, from, s, d) ==
    /\ d[from] = 0 /\ d[s.current] = Len(s.taken)
    /\ \A u \in s.seen : d[u] <= Len(s.taken) + 1
    /\ \A i \in DOMAIN s.queue : /\ s.queue[i][1] \in s.seen /\ d[s.queue[i][1]] = Len(s.queue[i][2])
                                 /\ LeadsTo(edges, from, s.queue[i][2], s.queue[i][1])
                                 /\ Len(s.taken) <= Len(s.queue[i][2])
    /\ \A i, j \in DOMAIN s.queue : i <= j => Len(s.queue[i][2]) <= Len(s.queue[j][2])

Queued(s, u) == \E i \in DOMAIN s.queue : s.queue[i][1] = u

\* Whoever has left the queue has had all its steps looked at, but for what is left of
\* the type at hand.
LookedAt(edges, s, d) ==
    \A u \in s.seen :
        \/ Queued(s, u)
        \/ \A v \in Schemas : <<u, v>> \in edges => \/ v \in s.seen /\ d[v] <= d[u] + 1
                                                    \/ u = s.current /\ v \in ToSet(s.left)

SearchInv(edges, from, to, s, d) ==
    /\ s \in Searches /\ d \in [s.seen -> Nat]
    /\ from \in s.seen /\ s.current \in s.seen /\ to \notin s.seen
    /\ LeadsTo(edges, from, s.taken, s.current)
    /\ \A i \in DOMAIN s.left : <<s.current, s.left[i]>> \in edges
    /\ Distances(edges, from, s, d) /\ LookedAt(edges, s, d)

CastPhases == {"search", "found", "none", "failed", "answered"}

CastInv ==
    /\ casts \subseteq Edges /\ fromType \in Schemas /\ toType \in Schemas /\ fromType # toType
    /\ castPhase \in CastPhases
    /\ castPhase = "search" => \E d \in [search.seen -> Nat] : SearchInv(casts, fromType, toType, search, d)
    /\ ChainIsShortest

\* SetToSeqs lists every member.
LEMMA SeqsListAll ==
    ASSUME NEW S, IsFiniteSet(S), NEW s \in SetToSeqs(S)
    PROVE  s \in Seq(S) /\ ToSet(s) = S
<1> DEFINE n == Cardinality(S)
<1>1. n \in Nat /\ IsFiniteSet(1..n) /\ Cardinality(1..n) = n
  BY FS_CardinalityType, FS_Interval
<1>2. s \in [1..n -> S] /\ \A i, j \in 1..n : i # j => s[i] # s[j]
  BY DEF SetToSeqs
<1> HIDE DEF n
<1>3. s \in Injection(1..n, S)
  BY <1>2 DEF Injection, IsInjective
<1>4. s \in Surjection(1..n, S)
  BY <1>1, <1>3, FS_Injection DEF n
<1>5. s \in Seq(S) /\ DOMAIN s = 1..n
  BY <1>1, <1>2
<1> QED
  BY <1>4, <1>5 DEF Surjection, ToSet

\* When the steps of all types nearer than n have been looked at and the target was not
\* among them, no chain of n casts leads to it.
LEMMA NoChainWithin ==
    ASSUME NEW d, SearchInv(casts, fromType, toType, search, d), NEW n \in Nat,
           \A u \in search.seen : d[u] < n =>
               \A v \in Schemas : <<u, v>> \in casts => v \in search.seen /\ d[v] <= d[u] + 1
    PROVE  Chains(n) = {}
<1> SUFFICES ASSUME NEW c \in Chains(n) PROVE FALSE
  OBVIOUS
<1>1. PICK k \in 1..n : c \in [1..k -> Schemas]
  BY DEF Chains
<1>2. Len(c) = k /\ c \in Seq(Schemas)
  BY <1>1
<1>3. /\ <<fromType, c[1]>> \in casts /\ c[k] = toType
      /\ \A i \in 1..(k - 1) : <<c[i], c[i + 1]>> \in casts
  BY <1>2 DEF Chains, Last
<1>4. d \in [search.seen -> Nat] /\ d[fromType] = 0 /\ fromType \in search.seen /\ toType \notin search.seen
  BY DEF SearchInv, Distances
<1> DEFINE B == {i \in 1..k : ~(c[i] \in search.seen /\ d[c[i]] <= i)}
<1>5. k \in B
  BY <1>1, <1>3, <1>4
<1>6. PICK i \in B : \A j \in B : i <= j
  <2>1. B \in SUBSET Nat /\ B # {}
    BY <1>5
  <2> HIDE DEF B
  <2> QED
    BY <2>1, LeastExists
<1>7. CASE i = 1
  <2>1. c[1] \in Schemas /\ <<fromType, c[1]>> \in casts
    BY <1>1, <1>3
  <2> QED
    BY <1>1, <1>4, <1>7, <2>1
<1>8. CASE i # 1
  <2>1. i - 1 \in 1..(k - 1) /\ i - 1 \in 1..k /\ (i - 1) + 1 = i /\ i - 1 \notin B
    BY <1>1, <1>6, <1>8
  <2>2. c[i - 1] \in search.seen /\ d[c[i - 1]] <= i - 1
    BY <2>1
  <2>3. c[i] \in Schemas /\ <<c[i - 1], c[i]>> \in casts
    BY <1>1, <1>3, <2>1
  <2>4. d[c[i - 1]] \in Nat /\ d[c[i - 1]] < n
    BY <1>1, <1>4, <2>1, <2>2
  <2>5. c[i] \in search.seen /\ d[c[i]] <= d[c[i - 1]] + 1 /\ d[c[i]] \in Nat
    BY <1>4, <2>2, <2>3, <2>4
  <2> QED
    BY <1>1, <2>1, <2>2, <2>4, <2>5
<1> QED
  BY <1>7, <1>8

\* A search that begins satisfies the invariant.
LEMMA SearchBegins ==
    ASSUME NEW edges, NEW from \in Schemas, NEW to \in Schemas, from # to, NEW s,
           s = [queue |-> <<<<from, <<>>>>>>, seen |-> {from}, current |-> from, taken |-> <<>>, left |-> <<>>]
    PROVE  \E d \in [s.seen -> Nat] : SearchInv(edges, from, to, s, d)
<1> DEFINE d == [u \in {from} |-> 0]
<1>1. /\ s.queue = <<<<from, <<>>>>>> /\ s.seen = {from} /\ s.current = from
      /\ s.taken = <<>> /\ s.left = <<>>
  OBVIOUS
<1>2. /\ DOMAIN s.queue = {1} /\ s.queue[1][1] = from /\ s.queue[1][2] = <<>>
      /\ DOMAIN s.left = {} /\ Len(s.taken) = 0
  BY <1>1
<1>3. s \in Searches
  <2>1. <<>> \in Seq(Schemas)
    OBVIOUS
  <2>2. <<from, <<>>>> \in Schemas \X Seq(Schemas)
    BY <2>1
  <2>3. <<<<from, <<>>>>>> \in Seq(Schemas \X Seq(Schemas))
    BY <2>2
  <2> QED
    BY <2>1, <2>3 DEF Searches
<1>4. d \in [s.seen -> Nat] /\ d[from] = 0
  BY <1>1
<1>5. LeadsTo(edges, from, <<>>, from)
  BY DEF LeadsTo
<1> HIDE DEF d
<1>6. Distances(edges, from, s, d)
  BY <1>1, <1>2, <1>4, <1>5 DEF Distances
<1>7. LookedAt(edges, s, d)
  BY <1>1, <1>2 DEF LookedAt, Queued
<1>8. SearchInv(edges, from, to, s, d)
  BY <1>1, <1>2, <1>3, <1>4, <1>5, <1>6, <1>7 DEF SearchInv
<1> QED
  BY <1>4, <1>8

LEMMA CastStarts == CastInit => CastInv
<1> SUFFICES ASSUME CastInit PROVE CastInv
  OBVIOUS
<1> DEFINE n == Cardinality(Schemas)
           top == CHOOSE t \in Schemas : \A u \in Schemas : u <= t
<1>1. n \in Nat /\ n > 1 /\ Schemas = 1..n
  BY SchemasAssumption, FS_CardinalityType
<1> HIDE DEF n
<1>2. n \in Schemas /\ \A u \in Schemas : u <= n
  BY <1>1
<1>3. top \in Schemas /\ \A u \in Schemas : u <= top
  BY <1>2
<1> HIDE DEF top
<1>4. 1 \in Schemas /\ 1 # top
  BY <1>1, <1>2, <1>3
<1>5. casts \subseteq Edges /\ fromType = 1 /\ toType = top /\ castPhase = "search"
  BY DEF CastInit, CastStart, top
<1>6. search = [queue |-> <<<<1, <<>>>>>>, seen |-> {1}, current |-> 1, taken |-> <<>>, left |-> <<>>]
  BY DEF CastInit, CastStart
<1>7. \E d \in [search.seen -> Nat] : SearchInv(casts, fromType, toType, search, d)
  BY <1>3, <1>4, <1>5, <1>6, SearchBegins
<1> QED
  BY <1>3, <1>4, <1>5, <1>7 DEF CastInv, CastPhases, ChainIsShortest

LEMMA PopHolds ==
    ASSUME CastInv, PopType PROVE CastInv'
<1>1. castPhase = "search" /\ search.left = <<>> /\ search.queue # <<>>
  BY DEF PopType
<1>2. PICK d \in [search.seen -> Nat] : SearchInv(casts, fromType, toType, search, d)
  BY <1>1 DEF CastInv
<1> DEFINE head == Head(search.queue)
<1>3. /\ search \in Searches /\ search.queue \in Seq(Schemas \X Seq(Schemas)) /\ search.seen \subseteq Schemas
      /\ search.taken \in Seq(Schemas) /\ Len(search.taken) \in Nat
  BY <1>2 DEF SearchInv, Searches
<1>4. /\ Len(search.queue) \in Nat /\ Len(search.queue) >= 1
      /\ head = search.queue[1] /\ head \in Schemas \X Seq(Schemas)
      /\ Tail(search.queue) \in Seq(Schemas \X Seq(Schemas))
      /\ DOMAIN search.queue = 1..Len(search.queue)
      /\ DOMAIN Tail(search.queue) = 1..(Len(search.queue) - 1)
      /\ \A i \in DOMAIN Tail(search.queue) :
             i + 1 \in DOMAIN search.queue /\ Tail(search.queue)[i] = search.queue[i + 1]
  BY <1>1, <1>3
<1>5. PICK steps \in SetToSeqs(StepsFrom(head[1])) :
         search' = [search EXCEPT !.queue = Tail(@), !.current = head[1], !.taken = head[2], !.left = steps]
  BY DEF PopType
<1>6. steps \in Seq(StepsFrom(head[1])) /\ ToSet(steps) = StepsFrom(head[1])
  <2>1. IsFiniteSet(StepsFrom(head[1]))
    BY SchemasAssumption, FS_Subset DEF StepsFrom
  <2> QED
    BY <2>1, SeqsListAll
<1>7. UNCHANGED <<casts, fromType, toType, chain, castPhase>>
  BY DEF PopType
<1> HIDE DEF head
<1>8. /\ search'.queue = Tail(search.queue) /\ search'.seen = search.seen
      /\ search'.current = head[1] /\ search'.taken = head[2] /\ search'.left = steps
  BY <1>3, <1>5 DEF Searches
<1>9. /\ head[1] \in search.seen /\ d[head[1]] = Len(head[2]) /\ LeadsTo(casts, fromType, head[2], head[1])
      /\ Len(search.taken) <= Len(head[2]) /\ head[1] \in Schemas /\ head[2] \in Seq(Schemas)
      /\ Len(head[2]) \in Nat
  <2>1. 1 \in DOMAIN search.queue
    BY <1>4
  <2>2. head[1] \in Schemas /\ head[2] \in Seq(Schemas)
    BY <1>4
  <2>3. Len(head[2]) \in Nat
    BY <2>2
  <2>4. /\ head[1] \in search.seen /\ d[head[1]] = Len(head[2]) /\ LeadsTo(casts, fromType, head[2], head[1])
        /\ Len(search.taken) <= Len(head[2])
    <3>1. Distances(casts, fromType, search, d) /\ head = search.queue[1]
      BY <1>2, <1>4 DEF SearchInv
    <3> QED
      BY <2>1, <3>1 DEF Distances
  <2> QED
    BY <2>2, <2>3, <2>4
<1>10. search' \in Searches
  <2>1. StepsFrom(head[1]) \subseteq Schemas
    BY DEF StepsFrom
  <2>2. steps \in Seq(Schemas)
    BY <2>1, <1>6
  <2> QED
    BY <2>2, <1>3, <1>4, <1>5, <1>9 DEF Searches
<1>11. Distances(casts, fromType, search', d)
  <2>1. d[fromType] = 0 /\ \A u \in search.seen : d[u] <= Len(search.taken) + 1 /\ d[u] \in Nat
    BY <1>2 DEF SearchInv, Distances
  <2>2. \A u \in search.seen : d[u] <= Len(head[2]) + 1
    BY <2>1, <1>3, <1>9
  <2>3. ASSUME NEW i \in DOMAIN Tail(search.queue)
        PROVE  /\ search.queue[i + 1][1] \in search.seen
               /\ d[search.queue[i + 1][1]] = Len(search.queue[i + 1][2])
               /\ LeadsTo(casts, fromType, search.queue[i + 1][2], search.queue[i + 1][1])
               /\ Len(head[2]) <= Len(search.queue[i + 1][2])
    <3>1. 1 \in DOMAIN search.queue /\ i + 1 \in DOMAIN search.queue /\ 1 <= i + 1
      BY <1>4
    <3> QED
      BY <3>1, <1>2, <1>4 DEF SearchInv, Distances
  <2>4. ASSUME NEW i \in DOMAIN Tail(search.queue), NEW j \in DOMAIN Tail(search.queue), i <= j
        PROVE  Len(search.queue[i + 1][2]) <= Len(search.queue[j + 1][2])
    <3>1. i + 1 \in DOMAIN search.queue /\ j + 1 \in DOMAIN search.queue /\ i + 1 <= j + 1
      BY <2>4, <1>4
    <3> QED
      BY <3>1, <1>2 DEF SearchInv, Distances
  <2>5. \A i \in DOMAIN search'.queue : i \in DOMAIN Tail(search.queue) /\ search'.queue[i] = search.queue[i + 1]
    BY <1>4, <1>8
  <2>6. d[fromType] = 0 /\ d[search'.current] = Len(search'.taken)
    BY <2>1, <1>8, <1>9
  <2>7. \A u \in search'.seen : d[u] <= Len(search'.taken) + 1
    BY <2>2, <1>8
  <2>8. \A i \in DOMAIN search'.queue :
           /\ search'.queue[i][1] \in search'.seen /\ d[search'.queue[i][1]] = Len(search'.queue[i][2])
           /\ LeadsTo(casts, fromType, search'.queue[i][2], search'.queue[i][1])
           /\ Len(search'.taken) <= Len(search'.queue[i][2])
    BY <2>3, <2>5, <1>8
  <2>9. \A i, j \in DOMAIN search'.queue : i <= j => Len(search'.queue[i][2]) <= Len(search'.queue[j][2])
    BY <2>4, <2>5
  <2> QED
    BY <2>6, <2>7, <2>8, <2>9 DEF Distances
<1>12. LookedAt(casts, search', d)
  <2> SUFFICES ASSUME NEW u \in search.seen, ~Queued(search', u)
               PROVE  \A v \in Schemas : <<u, v>> \in casts =>
                          \/ v \in search.seen /\ d[v] <= d[u] + 1
                          \/ u = head[1] /\ v \in ToSet(steps)
    BY <1>8 DEF LookedAt
  <2>1. CASE u = head[1]
    BY <2>1, <1>6 DEF StepsFrom
  <2>2. CASE u # head[1]
    <3>1. ~Queued(search, u)
      <4> SUFFICES ASSUME NEW i \in DOMAIN search.queue, search.queue[i][1] = u PROVE FALSE
        BY DEF Queued
      <4>1. i # 1
        BY <2>2, <1>4
      <4>2. i - 1 \in DOMAIN Tail(search.queue) /\ (i - 1) + 1 = i
        BY <4>1, <1>4
      <4>3. Tail(search.queue)[i - 1][1] = u
        BY <4>2, <1>4
      <4> QED
        BY <4>2, <4>3, <1>8 DEF Queued
    <3>2. ToSet(search.left) = {}
      BY <1>1 DEF ToSet
    <3> QED
      BY <3>1, <3>2, <1>2 DEF SearchInv, LookedAt
  <2> QED
    BY <2>1, <2>2
<1>13. SearchInv(casts, fromType, toType, search', d)
  <2>1. \A i \in DOMAIN steps : <<head[1], steps[i]>> \in casts
    BY <1>6 DEF StepsFrom
  <2> QED
    BY <2>1, <1>2, <1>8, <1>9, <1>10, <1>11, <1>12 DEF SearchInv
<1>14. ChainIsShortest'
  BY <1>1, <1>7 DEF ChainIsShortest
<1> QED
  BY <1>2, <1>7, <1>8, <1>13, <1>14 DEF CastInv

\* What the search makes of one step.
LEMMA LookHolds ==
    ASSUME CastInv, LookAt PROVE CastInv'
<1> DEFINE nxt == Head(search.left)
           taken == Append(search.taken, nxt)
<1>1. castPhase = "search" /\ search.left # <<>>
  BY DEF LookAt
<1>2. PICK d \in [search.seen -> Nat] : SearchInv(casts, fromType, toType, search, d)
  BY <1>1 DEF CastInv
<1>3. /\ search \in Searches /\ search.queue \in Seq(Schemas \X Seq(Schemas)) /\ search.seen \subseteq Schemas
      /\ search.taken \in Seq(Schemas) /\ search.left \in Seq(Schemas) /\ Len(search.taken) \in Nat
  BY <1>2 DEF SearchInv, Searches
<1>4. /\ nxt \in Schemas /\ <<search.current, nxt>> \in casts
      /\ ToSet(search.left) = {nxt} \cup ToSet(Tail(search.left))
      /\ Tail(search.left) \in Seq(Schemas)
      /\ \A i \in DOMAIN Tail(search.left) : <<search.current, Tail(search.left)[i]>> \in casts
  <2>1. /\ DOMAIN search.left = 1..Len(search.left) /\ Len(search.left) \in Nat /\ Len(search.left) >= 1
        /\ nxt = search.left[1] /\ Tail(search.left) \in Seq(Schemas)
        /\ DOMAIN Tail(search.left) = 1..(Len(search.left) - 1)
        /\ \A i \in 1..(Len(search.left) - 1) : Tail(search.left)[i] = search.left[i + 1] /\ i + 1 \in DOMAIN search.left
    BY <1>1, <1>3
  <2>2. \A i \in DOMAIN search.left : <<search.current, search.left[i]>> \in casts /\ search.left[i] \in Schemas
    <3>1. \A i \in DOMAIN search.left : search.left[i] \in Schemas
      BY <1>3
    <3>2. \A i \in DOMAIN search.left : <<search.current, search.left[i]>> \in casts
      BY <1>2 DEF SearchInv
    <3> QED
      BY <3>1, <3>2
  <2>3. \A i \in DOMAIN search.left : i = 1 \/ (i - 1 \in 1..(Len(search.left) - 1) /\ (i - 1) + 1 = i)
    BY <2>1
  <2>4. ToSet(search.left) = {nxt} \cup ToSet(Tail(search.left))
    BY <2>1, <2>3 DEF ToSet
  <2>5. 1 \in DOMAIN search.left
    BY <2>1
  <2> HIDE DEF nxt
  <2> QED
    BY <2>1, <2>2, <2>4, <2>5
<1> HIDE DEF nxt
<1>5. nxt \in Schemas /\ <<search.current, nxt>> \in casts
  BY <1>4
<1>6. LeadsTo(casts, fromType, taken, nxt)
  <2>1. LeadsTo(casts, fromType, search.taken, search.current)
    BY <1>2 DEF SearchInv
  <2>2. /\ taken \in Seq(Schemas) /\ Len(taken) = Len(search.taken) + 1 /\ taken # <<>>
        /\ \A i \in 1..Len(search.taken) : taken[i] = search.taken[i]
        /\ taken[Len(search.taken) + 1] = nxt
    <3>1. nxt \in Schemas /\ search.taken \in Seq(Schemas)
      BY <1>3, <1>5
    <3> QED
      BY <3>1
  <2> HIDE DEF taken
  <2>3. CASE search.taken = <<>>
    BY <2>1, <2>2, <2>3, <1>5 DEF LeadsTo
  <2>4. CASE search.taken # <<>>
    <3> DEFINE l == Len(search.taken)
    <3>1. l \in Nat /\ l >= 1
      BY <2>4, <1>3
    <3> HIDE DEF l
    <3>2. /\ <<fromType, search.taken[1]>> \in casts /\ search.taken[l] = search.current
          /\ \A i \in 1..(l - 1) : <<search.taken[i], search.taken[i + 1]>> \in casts
      BY <2>1, <2>4 DEF LeadsTo, l
    <3>3. \A i \in 1..l : taken[i] = search.taken[i]
      BY <2>2 DEF l
    <3>4. taken[l + 1] = nxt /\ Len(taken) = l + 1
      BY <2>2 DEF l
    <3>5. taken[1] = search.taken[1] /\ taken[l] = search.current
      BY <3>1, <3>2, <3>3
    <3>6. \A i \in 1..l : <<taken[i], taken[i + 1]>> \in casts
      <4> SUFFICES ASSUME NEW i \in 1..l PROVE <<taken[i], taken[i + 1]>> \in casts
        OBVIOUS
      <4>1. CASE i = l
        BY <4>1, <3>4, <3>5, <1>5
      <4>2. CASE i # l
        <5>1. i \in 1..(l - 1) /\ i + 1 \in 1..l
          BY <4>2, <3>1
        <5> QED
          BY <5>1, <3>2, <3>3
      <4> QED
        BY <4>1, <4>2
    <3>7. Len(taken) - 1 = l
      BY <3>1, <3>4
    <3> QED
      BY <2>2, <3>1, <3>2, <3>4, <3>5, <3>6, <3>7 DEF LeadsTo
  <2> QED
    BY <2>3, <2>4
<1>7. UNCHANGED <<casts, fromType, toType>>
  BY DEF LookAt
<1>8. CASE nxt = toType
  <2>1. chain' = taken /\ castPhase' = "found" /\ search' = search
    BY <1>8 DEF LookAt, nxt
  <2>2. taken \in Chains(Len(taken))
    <3>0. nxt \in Schemas /\ search.taken \in Seq(Schemas)
      BY <1>3, <1>5
    <3>1. taken \in Seq(Schemas) /\ Len(taken) \in Nat /\ Len(taken) >= 1 /\ taken # <<>>
      BY <3>0
    <3> HIDE DEF taken
    <3>2. taken \in [1..Len(taken) -> Schemas] /\ Len(taken) \in 1..Len(taken)
      BY <3>1
    <3> QED
      BY <3>1, <3>2, <1>6, <1>8 DEF LeadsTo, Chains, Last
  <2>3. Chains(Len(search.taken)) = {}
    <3> SUFFICES ASSUME NEW u \in search.seen, d[u] < Len(search.taken)
                 PROVE  \A v \in Schemas : <<u, v>> \in casts => v \in search.seen /\ d[v] <= d[u] + 1
      BY <1>2, <1>3, NoChainWithin
    <3>1. ~Queued(search, u)
      BY <1>2, <1>3 DEF SearchInv, Distances, Queued
    <3>2. u # search.current
      BY <1>2, <1>3 DEF SearchInv, Distances
    <3> QED
      BY <3>1, <3>2, <1>2 DEF SearchInv, LookedAt
  <2>4. Len(taken) - 1 = Len(search.taken)
    BY <1>3, <1>4
  <2>5. \A n : Chains(n)' = Chains(n)
    BY <1>7 DEF Chains
  <2> HIDE DEF taken
  <2>6. ChainIsShortest'
    BY <2>1, <2>2, <2>3, <2>4, <2>5 DEF ChainIsShortest
  <2> QED
    BY <2>1, <2>6, <1>7 DEF CastInv, CastPhases
<1>9. CASE nxt # toType
  <2> DEFINE longer == IF nxt \in search.seen THEN search.queue ELSE Append(search.queue, <<nxt, taken>>)
             far == Len(search.taken) + 1
             e == [u \in search.seen \cup {nxt} |-> IF u \in search.seen THEN d[u] ELSE far]
  <2>1. /\ search' = [search EXCEPT !.left = Tail(@), !.queue = longer, !.seen = @ \cup {nxt}]
        /\ UNCHANGED <<chain, castPhase>>
    BY <1>9 DEF LookAt, nxt
  <2>2. /\ taken \in Seq(Schemas) /\ Len(taken) = far /\ far \in Nat
    BY <1>3, <1>4
  <2>3. longer \in Seq(Schemas \X Seq(Schemas))
    <3>1. <<nxt, taken>> \in Schemas \X Seq(Schemas)
      BY <2>2, <1>5
    <3> HIDE DEF taken
    <3> QED
      BY <3>1, <1>3
  <2>4. /\ search'.queue = longer /\ search'.seen = search.seen \cup {nxt} /\ search'.left = Tail(search.left)
        /\ search'.current = search.current /\ search'.taken = search.taken
    BY <2>1, <1>3 DEF Searches
  <2>5. search' \in Searches
    BY <2>1, <2>3, <1>3, <1>4 DEF Searches
  <2>6. /\ e \in [search.seen \cup {nxt} -> Nat]
        /\ \A u \in search.seen : e[u] = d[u]
        /\ nxt \notin search.seen => e[nxt] = far
    BY <2>2, <1>2
  <2>7. \A i \in DOMAIN longer : \/ i \in DOMAIN search.queue /\ longer[i] = search.queue[i]
                                 \/ /\ nxt \notin search.seen /\ longer[i] = <<nxt, taken>>
                                    /\ \A j \in DOMAIN search.queue : j < i
    <3>1. CASE nxt \in search.seen
      BY <3>1
    <3>2. CASE nxt \notin search.seen
      <4>1. longer = Append(search.queue, <<nxt, taken>>)
        BY <3>2
      <4>2. <<nxt, taken>> \in Schemas \X Seq(Schemas)
        BY <2>2, <1>4
      <4> HIDE DEF longer, taken
      <4> QED
        BY <3>2, <4>1, <4>2, <1>3
    <3> QED
      BY <3>1, <3>2
  <2>8. \A i \in DOMAIN search.queue : i \in DOMAIN longer /\ longer[i] = search.queue[i]
    <3>1. <<nxt, taken>> \in Schemas \X Seq(Schemas)
      BY <2>2, <1>4
    <3> HIDE DEF taken
    <3> QED
      BY <3>1, <1>3
  <2>9. nxt \notin search.seen => \E i \in DOMAIN longer : longer[i][1] = nxt
    <3> SUFFICES ASSUME nxt \notin search.seen PROVE \E i \in DOMAIN longer : longer[i][1] = nxt
      OBVIOUS
    <3> DEFINE l == Len(search.queue) + 1
    <3>1. longer = Append(search.queue, <<nxt, taken>>)
      OBVIOUS
    <3>2. <<nxt, taken>> \in Schemas \X Seq(Schemas)
      BY <2>2, <1>4
    <3> HIDE DEF longer, taken
    <3>3. l \in DOMAIN longer /\ longer[l] = <<nxt, taken>>
      BY <3>1, <3>2, <1>3
    <3> QED
      BY <3>3
  <2> HIDE DEF longer, taken, e
  <2>10. /\ d[fromType] = 0 /\ d[search.current] = Len(search.taken)
         /\ fromType \in search.seen /\ search.current \in search.seen
         /\ \A u \in search.seen : d[u] <= far /\ d[u] \in Nat
         /\ \A i \in DOMAIN search.queue :
                /\ search.queue[i][1] \in search.seen /\ d[search.queue[i][1]] = Len(search.queue[i][2])
                /\ LeadsTo(casts, fromType, search.queue[i][2], search.queue[i][1])
                /\ Len(search.taken) <= Len(search.queue[i][2]) /\ Len(search.queue[i][2]) <= far
         /\ \A i, j \in DOMAIN search.queue : i <= j => Len(search.queue[i][2]) <= Len(search.queue[j][2])
    BY <1>2 DEF SearchInv, Distances
  <2>11. ASSUME NEW i \in DOMAIN longer
         PROVE  /\ longer[i][1] \in search.seen \cup {nxt} /\ e[longer[i][1]] = Len(longer[i][2])
                /\ LeadsTo(casts, fromType, longer[i][2], longer[i][1])
                /\ Len(search.taken) <= Len(longer[i][2]) /\ Len(longer[i][2]) <= far
    <3>1. CASE i \in DOMAIN search.queue /\ longer[i] = search.queue[i]
      BY <3>1, <2>6, <2>10
    <3>2. CASE nxt \notin search.seen /\ longer[i] = <<nxt, taken>>
      <4>1. longer[i][1] = nxt /\ longer[i][2] = taken
        BY <3>2
      <4>2. Len(search.taken) <= far
        BY <1>3
      <4> HIDE DEF far
      <4> QED
        BY <3>2, <4>1, <4>2, <2>2, <2>6, <1>6
    <3> QED
      BY <3>1, <3>2, <2>7
  <2>12. ASSUME NEW i \in DOMAIN longer, NEW j \in DOMAIN longer, i <= j
         PROVE  Len(longer[i][2]) <= Len(longer[j][2])
    <3>0. i \in Nat /\ j \in Nat
      BY <2>3
    <3>1. CASE j \in DOMAIN search.queue /\ longer[j] = search.queue[j]
      <4>1. i \in DOMAIN search.queue /\ longer[i] = search.queue[i]
        BY <3>0, <3>1, <2>7, <2>12
      <4> QED
        BY <4>1, <3>1, <2>10, <2>12
    <3>2. CASE longer[j] = <<nxt, taken>>
      <4>1. Len(longer[j][2]) = far
        BY <3>2, <2>2
      <4> QED
        BY <4>1, <2>11
    <3> QED
      BY <3>1, <3>2, <2>7
  <2>13. Distances(casts, fromType, search', e)
    <3>1. \A u \in search.seen \cup {nxt} : e[u] <= far
      BY <2>2, <2>6, <2>10
    <3> QED
      BY <3>1, <2>4, <2>6, <2>10, <2>11, <2>12 DEF Distances
  <2>14. LookedAt(casts, search', e)
    <3> SUFFICES ASSUME NEW u \in search.seen \cup {nxt}, ~Queued(search', u),
                        NEW v \in Schemas, <<u, v>> \in casts
                 PROVE  \/ v \in search.seen \cup {nxt} /\ e[v] <= e[u] + 1
                        \/ u = search.current /\ v \in ToSet(Tail(search.left))
      BY <2>4 DEF LookedAt
    <3>1. u \in search.seen /\ ~Queued(search, u)
      BY <2>4, <2>8, <2>9 DEF Queued
    <3>2. \/ v \in search.seen /\ d[v] <= d[u] + 1
          \/ u = search.current /\ v \in ToSet(search.left)
      BY <3>1, <1>2 DEF SearchInv, LookedAt
    <3>3. CASE v \in search.seen /\ d[v] <= d[u] + 1
      BY <3>1, <3>3, <2>6
    <3>4. CASE u = search.current /\ v \in ToSet(Tail(search.left))
      BY <3>4
    <3>5. CASE u = search.current /\ v = nxt
      <4>1. e[u] = Len(search.taken) /\ e[nxt] <= far
        BY <3>1, <3>5, <2>2, <2>6, <2>10
      <4> QED
        BY <4>1, <3>5
    <3> QED
      BY <3>2, <3>3, <3>4, <3>5, <1>4
  <2>15. SearchInv(casts, fromType, toType, search', e)
    <3>1. toType \notin search.seen \cup {nxt} /\ LeadsTo(casts, fromType, search.taken, search.current)
      BY <1>2, <1>9 DEF SearchInv
    <3> QED
      BY <3>1, <2>4, <2>5, <2>6, <2>10, <2>13, <2>14, <1>4 DEF SearchInv
  <2>16. ChainIsShortest'
    BY <1>1, <2>1 DEF ChainIsShortest
  <2> QED
    BY <2>1, <2>4, <2>6, <2>15, <2>16, <1>7 DEF CastInv
<1> QED
  BY <1>8, <1>9

LEMMA NoPathHolds == ASSUME CastInv, NoCastPath PROVE CastInv'
<1>1. /\ castPhase = "search" /\ search.left = <<>> /\ search.queue = <<>> /\ castPhase' = "none"
      /\ UNCHANGED <<casts, fromType, toType, search, chain>>
  BY DEF NoCastPath
<1>2. PICK d \in [search.seen -> Nat] : SearchInv(casts, fromType, toType, search, d)
  BY <1>1 DEF CastInv
<1> DEFINE n == Cardinality(Schemas) - 1
<1>3. n \in Nat
  BY SchemasAssumption, FS_CardinalityType
<1> HIDE DEF n
<1>4. Chains(n) = {}
  <2>1. ToSet(search.left) = {} /\ \A u : ~Queued(search, u)
    BY <1>1 DEF ToSet, Queued
  <2>2. \A u \in search.seen : \A v \in Schemas : <<u, v>> \in casts => v \in search.seen /\ d[v] <= d[u] + 1
    BY <2>1, <1>2 DEF SearchInv, LookedAt
  <2> QED
    BY <2>2, <1>2, <1>3, NoChainWithin
<1>5. Chains(n)' = Chains(n)
  BY <1>1 DEF Chains
<1>6. ChainIsShortest'
  BY <1>1, <1>4, <1>5 DEF ChainIsShortest, n
<1> QED
  BY <1>1, <1>6 DEF CastInv, CastPhases

LEMMA ForwardHolds == ASSUME CastInv, Forward PROVE CastInv'
<1>1. /\ casts \subseteq Edges /\ fromType \in Schemas /\ toType \in Schemas /\ fromType # toType
  BY DEF CastInv
<1>2. CASE castPhase' \in {"failed", "answered"} /\ UNCHANGED <<fromType, toType, casts>>
  <2>1. ChainIsShortest'
    BY <1>2 DEF ChainIsShortest
  <2> QED
    BY <1>1, <1>2, <2>1 DEF CastInv, CastPhases
<1>3. CASE /\ fromType' = toType /\ toType' = fromType /\ castPhase' = "search" /\ UNCHANGED casts
           /\ search' = [queue |-> <<<<toType, <<>>>>>>, seen |-> {toType}, current |-> toType,
                         taken |-> <<>>, left |-> <<>>]
  <2>1. \E d \in [search'.seen -> Nat] : SearchInv(casts, toType, fromType, search', d)
    BY <1>1, <1>3, SearchBegins
  <2>2. ChainIsShortest'
    BY <1>3 DEF ChainIsShortest
  <2> QED
    BY <1>1, <1>3, <2>1, <2>2 DEF CastInv, CastPhases
<1> QED
  BY <1>2, <1>3 DEF Forward

\* For any schemas and any casts between them, cycles included, in whatever order they
\* were registered: SchemaCasters._path finds a chain of casts when there is one, and
\* one than which none is shorter, on the way up and on the way down.
THEOREM CastsAreShortest == CastSpec => []ChainIsShortest
<1>1. CastInv /\ [CastNext]_castVars => CastInv'
  <2> SUFFICES ASSUME CastInv, [CastNext]_castVars PROVE CastInv'
    OBVIOUS
  <2>1. CASE Downcast
    <3>1. ChainIsShortest'
      BY <2>1 DEF Downcast, ChainIsShortest
    <3> QED
      BY <2>1, <3>1 DEF Downcast, CastInv, CastPhases
  <2>2. CASE UNCHANGED castVars
    <3>1. \A n : Chains(n)' = Chains(n)
      BY <2>2 DEF castVars, Chains
    <3>2. ChainIsShortest'
      BY <2>2, <3>1 DEF castVars, CastInv, ChainIsShortest
    <3> QED
      BY <2>2, <3>2 DEF castVars, CastInv
  <2> QED
    BY <2>1, <2>2, PopHolds, LookHolds, NoPathHolds, ForwardHolds DEF CastNext
<1>2. CastInv => ChainIsShortest
  BY DEF CastInv
<1> QED
  BY CastStarts, <1>1, <1>2, PTL DEF CastSpec

(***************************************************************************)
(* Container.                                                              *)
(***************************************************************************)
\* A list of whatever it holds.
IsList(s) == s \in Seq({s[i] : i \in 1 .. Len(s)})

\* Lists whatever they hold: what makes one, adding to one, changing one, and taking off
\* its end.
LEMMA ListIs ==
    ASSUME NEW S, NEW s \in Seq(S)
    PROVE  IsList(s) /\ Len(s) \in Nat /\ DOMAIN s = 1 .. Len(s)
<1>1. Len(s) \in Nat /\ DOMAIN s = 1 .. Len(s) /\ s \in [1 .. Len(s) -> S]
  BY LenProperties
<1>2. s \in [1 .. Len(s) -> {s[i] : i \in 1 .. Len(s)}]
  BY <1>1
<1> QED
  BY <1>1, <1>2, SeqDef DEF IsList

LEMMA ListFacts ==
    ASSUME NEW s, IsList(s)
    PROVE  Len(s) \in Nat /\ DOMAIN s = 1 .. Len(s) /\ (s # <<>> => Len(s) >= 1) /\ (s = <<>> => Len(s) = 0)
<1>1. Len(s) \in Nat /\ DOMAIN s = 1 .. Len(s)
  BY ListIs DEF IsList
<1>2. s # <<>> => Len(s) \in Nat \ {0}
  BY EmptySeq DEF IsList
<1>3. s = <<>> => Len(s) = 0
  BY EmptySeq
<1> QED
  BY <1>1, <1>2, <1>3

LEMMA ListAppend ==
    ASSUME NEW s, IsList(s), NEW x
    PROVE  /\ IsList(Append(s, x)) /\ Len(Append(s, x)) = Len(s) + 1
           /\ Append(s, x)[Len(s) + 1] = x /\ \A i \in 1 .. Len(s) : Append(s, x)[i] = s[i]
<1> DEFINE S == {s[i] : i \in 1 .. Len(s)} \cup {x}
<1>1. s \in Seq(S) /\ x \in S
  BY SeqMonotonic DEF IsList
<1> HIDE DEF S
<1>2. /\ Append(s, x) \in Seq(S) /\ Len(Append(s, x)) = Len(s) + 1
      /\ Append(s, x)[Len(s) + 1] = x /\ \A i \in 1 .. Len(s) : Append(s, x)[i] = s[i]
  BY <1>1, AppendProperties
<1> QED
  BY <1>2, ListIs

LEMMA ListFront ==
    ASSUME NEW s, IsList(s), s # <<>>
    PROVE  LET t == SubSeq(s, 1, Len(s) - 1) IN
           /\ IsList(t) /\ Len(t) = Len(s) - 1 /\ \A i \in 1 .. Len(s) - 1 : t[i] = s[i]
<1> DEFINE S == {s[i] : i \in 1 .. Len(s)}
           t == SubSeq(s, 1, Len(s) - 1)
<1>1. Len(s) \in Nat /\ Len(s) >= 1
  BY ListFacts
<1>2. \A i \in 1 .. Len(s) - 1 : s[i] \in S
  BY <1>1
<1>3. 1 \in Int /\ Len(s) - 1 \in Int
  BY <1>1
<1> HIDE DEF S
<1>4. /\ t \in Seq(S) /\ Len(t) = (IF 1 <= Len(s) - 1 THEN Len(s) - 1 - 1 + 1 ELSE 0)
      /\ \A i \in 1 .. Len(s) - 1 - 1 + 1 : t[i] = s[1 + i - 1]
  BY <1>2, <1>3, SubSeqProperties
<1> HIDE DEF t
<1>5. \A n \in Nat : n >= 1 => (IF 1 <= n - 1 THEN n - 1 - 1 + 1 ELSE 0) = n - 1 /\ n - 1 - 1 + 1 = n - 1
  OBVIOUS
<1>6. Len(t) = Len(s) - 1
  BY <1>1, <1>4, <1>5
<1>7. \A i \in 1 .. Len(s) - 1 : i \in 1 .. Len(s) - 1 - 1 + 1 /\ 1 + i - 1 = i
  BY <1>1
<1>8. \A i \in 1 .. Len(s) - 1 : t[i] = s[i]
  BY <1>4, <1>7
<1>9. IsList(t)
  BY <1>4, ListIs
<1> QED
  BY <1>6, <1>8, <1>9 DEF t

LEMMA ListChangeLast ==
    ASSUME NEW s, IsList(s), s # <<>>, NEW g
    PROVE  LET mid == [s EXCEPT ![Len(s)] = g] IN
           /\ IsList(mid) /\ Len(mid) = Len(s)
           /\ \A i \in 1 .. Len(s) : mid[i] = IF i = Len(s) THEN g ELSE s[i]
<1> DEFINE S == {s[i] : i \in 1 .. Len(s)} \cup {g}
           n == Len(s)
<1>1. s \in Seq(S) /\ g \in S
  BY SeqMonotonic DEF IsList
<1>2. n \in 1 .. n
  BY ListFacts
<1> HIDE DEF S
<1>3. /\ [s EXCEPT ![n] = g] \in Seq(S) /\ Len([s EXCEPT ![n] = g]) = n
      /\ \A i \in 1 .. n : [s EXCEPT ![n] = g][i] = IF i = n THEN g ELSE s[i]
  BY <1>1, <1>2, ExceptSeq
<1> QED
  BY <1>3, ListIs

Regs == [key : ServiceKeys, lifetime : Lifetimes, ready : BOOLEAN, phase : {"services", "overrides", "running"},
         nr : Nat]

\* The dict has the last registration of each key; what is ready-made is a singleton.
LastWins ==
    /\ buildPhase \in {"services", "overrides", "running"} /\ registered \in Seq(Regs)
    /\ \A k \in DOMAIN registrations :
         /\ registrations[k].key = k /\ (registrations[k].ready => registrations[k].lifetime = "singleton")
         /\ \E i \in DOMAIN registered :
              /\ registered[i] = registrations[k]
              /\ \A j \in DOMAIN registered : registered[j].key = k => j <= i

\* Nothing is resolved before the scopes are, and only instances are there.
NothingYet ==
    buildPhase # "running" =>
        /\ handed = {} /\ frames = <<>> /\ \A s \in Scopes : scoped[s] = NoMap
        /\ \A k \in DOMAIN instances : instances[k].from.ready /\ instances[k].parts = NoMap

\* A service for a key: of its registration, or an instance that outlived its own.
Known(k, service) ==
    /\ k \in DOMAIN registrations /\ service.from.key = k
    /\ \/ service.from = registrations[k]
       \/ service.from.ready /\ registrations[k].lifetime = "singleton" /\ ~registrations[k].ready

\* What a factory took in a scope, and what is scoped of it is the scope's own.
PartsKnown(parts) == \A k \in DOMAIN parts : Known(k, parts[k])
PartsOfScope(s, parts) ==
    \A k \in DOMAIN parts :
        parts[k].from.lifetime = "scoped" => k \in DOMAIN scoped[s] /\ parts[k] = scoped[s][k]

\* The caches.
CachesRight ==
    /\ \A k \in DOMAIN instances :
         /\ k \in DOMAIN registrations /\ instances[k].from.key = k /\ instances[k].from.lifetime = "singleton"
         /\ instances[k].from = registrations[k] \/ (instances[k].from.ready /\ ~registrations[k].ready)
         /\ PartsKnown(instances[k].parts)
    /\ scoped = [s \in Scopes |-> scoped[s]]
    /\ \A s \in Scopes : \A k \in DOMAIN scoped[s] :
         /\ k \in DOMAIN registrations /\ registrations[k].lifetime = "scoped"
         /\ scoped[s][k].from = registrations[k] /\ scoped[s][k].scope = s
         /\ PartsKnown(scoped[s][k].parts) /\ PartsOfScope(s, scoped[s][k].parts)

\* What try_get_service of a key returns in a scope from now on, if it is kept.
Provided(s, k, service) ==
    /\ registrations[k].lifetime = "singleton" => k \in DOMAIN instances /\ service = instances[k]
    /\ registrations[k].lifetime = "scoped" => k \in DOMAIN scoped[s] /\ service = scoped[s][k]
    /\ registrations[k].lifetime = "transient" => service.from = registrations[k]

HandedRight ==
    \A h \in handed :
        /\ h = [scope |-> h.scope, service |-> h.service] /\ h.scope \in Scopes
        /\ h.service.from.key \in DOMAIN registrations
        /\ Provided(h.scope, h.service.from.key, h.service)
        /\ PartsKnown(h.service.parts)
        /\ h.service.from.lifetime # "singleton" => PartsOfScope(h.scope, h.service.parts)

\* The running factories are of one scope and call each other; none of their services
\* is kept yet.  Should one need itself, it will not return: the need that leads back to
\* it is still to be taken, or being taken.
FrameRight(i) ==
    LET f == frames[i] IN
    /\ f = [scope |-> f.scope, reg |-> f.reg, wants |-> f.wants, parts |-> f.parts]
    /\ f.scope \in Scopes /\ f.scope = frames[1].scope
    /\ f.reg.key \in DOMAIN registrations /\ f.reg = registrations[f.reg.key]
    /\ ~Cached(f.scope, f.reg.key)
    /\ f.wants \subseteq NeedsOf(f.reg)
    /\ PartsKnown(f.parts) /\ PartsOfScope(f.scope, f.parts)
    /\ i < Len(frames) => frames[i + 1].reg.key \in NeedsOf(f.reg)
    /\ \A j \in 1 .. i - 1 : frames[j].reg.key = f.reg.key =>
         \/ frames[j + 1].reg.key \in f.wants
         \/ i < Len(frames) /\ frames[i + 1].reg.key = frames[j + 1].reg.key

FramesRight ==
    /\ IsList(frames)
    /\ \A i \in 1 .. Len(frames) : FrameRight(i)

ContainerInv == LastWins /\ NothingYet /\ CachesRight /\ HandedRight /\ FramesRight

LEMMA ContainerStarts == ContainerInit => ContainerInv
<1> SUFFICES ASSUME ContainerInit
             PROVE  ContainerInv
  OBVIOUS
<1> USE DEF ContainerInit
<1>1. IsList(<<>>) /\ Len(<<>>) = 0 /\ <<>> \in Seq(Regs)
  BY EmptySeq, ListIs
<1>2. DOMAIN NoMap = {}
  BY DEF NoMap
<1>3. LastWins /\ NothingYet
  BY <1>1, <1>2 DEF LastWins, NothingYet
<1>4. CachesRight
  BY <1>2 DEF CachesRight
<1>5. HandedRight
  BY DEF HandedRight
<1>6. FramesRight
  BY <1>1 DEF FramesRight
<1> QED
  BY <1>3, <1>4, <1>5, <1>6 DEF ContainerInv

\* Registrations: nothing has been resolved yet.
LEMMA Registers ==
    ASSUME ContainerInv, buildPhase # "running", NEW r \in Regs, r.ready => r.lifetime = "singleton",
           registrations' = Set(registrations, r.key, r), registered' = Append(registered, r),
           \/ r.ready /\ instances' = Set(instances, r.key, Ready(r))
           \/ ~r.ready /\ instances' = instances,
           UNCHANGED <<buildPhase, scoped, frames, handed>>
    PROVE  ContainerInv'
<1> USE DEF ContainerInv
<1>0. DOMAIN NoMap = {}
  BY DEF NoMap
<1>1. /\ DOMAIN registrations' = DOMAIN registrations \cup {r.key} /\ registrations'[r.key] = r
      /\ \A k \in DOMAIN registrations : k # r.key => registrations'[k] = registrations[k]
  BY DEF Set
<1>2. /\ registered' \in Seq(Regs) /\ Len(registered) \in Nat /\ DOMAIN registered = 1 .. Len(registered)
      /\ DOMAIN registered' = 1 .. Len(registered) + 1
      /\ registered'[Len(registered) + 1] = r /\ \A i \in 1 .. Len(registered) : registered'[i] = registered[i]
  BY AppendProperties, LenProperties DEF LastWins
<1>3. LastWins'
  <2>1. SUFFICES ASSUME NEW k \in DOMAIN registrations'
                 PROVE  /\ registrations'[k].key = k
                        /\ registrations'[k].ready => registrations'[k].lifetime = "singleton"
                        /\ \E i \in DOMAIN registered' :
                             /\ registered'[i] = registrations'[k]
                             /\ \A j \in DOMAIN registered' : registered'[j].key = k => j <= i
    BY <1>2 DEF LastWins
  <2>2. CASE k = r.key
    <3>1. Len(registered) + 1 \in DOMAIN registered'
      BY <1>2
    <3>2. \A j \in DOMAIN registered' : j <= Len(registered) + 1
      BY <1>2
    <3> QED
      BY <1>1, <1>2, <2>2, <3>1, <3>2
  <2>3. CASE k # r.key
    <3>1. k \in DOMAIN registrations /\ registrations'[k] = registrations[k]
      BY <1>1, <2>3
    <3>2. PICK i \in DOMAIN registered :
               registered[i] = registrations[k] /\ \A j \in DOMAIN registered : registered[j].key = k => j <= i
      BY <3>1 DEF LastWins
    <3>3. i \in DOMAIN registered' /\ registered'[i] = registrations'[k]
      BY <1>2, <3>1, <3>2
    <3>4. ASSUME NEW j \in DOMAIN registered', registered'[j].key = k
          PROVE  j <= i
      <4>1. j # Len(registered) + 1
        BY <1>2, <2>3, <3>4
      <4>2. j \in 1 .. Len(registered)
        BY <1>2, <4>1
      <4> QED
        BY <1>2, <3>2, <3>4, <4>2
    <3> QED
      BY <3>1, <3>3, <3>4 DEF LastWins
  <2> QED
    BY <2>2, <2>3
<1>4. \A k \in DOMAIN instances' :
         \/ k \in DOMAIN instances /\ instances'[k] = instances[k] /\ (k = r.key => ~r.ready)
         \/ k = r.key /\ r.ready /\ instances'[k] = Ready(r)
  BY DEF Set
<1>5. Ready(r).from = r /\ Ready(r).parts = NoMap
  BY DEF Ready
<1>6. NothingYet'
  BY <1>4, <1>5 DEF NothingYet
<1>7. CachesRight'
  <2>1. \A s \in Scopes : DOMAIN scoped'[s] = {}
    BY <1>0 DEF NothingYet
  <2>2. scoped' = [s \in Scopes |-> scoped'[s]]
    BY DEF CachesRight
  <2>3. ASSUME NEW k \in DOMAIN instances'
        PROVE  /\ k \in DOMAIN registrations' /\ instances'[k].from.key = k
               /\ instances'[k].from.lifetime = "singleton"
               /\ instances'[k].from = registrations'[k] \/ (instances'[k].from.ready /\ ~registrations'[k].ready)
               /\ instances'[k].parts = NoMap
    <3>1. CASE k = r.key /\ r.ready /\ instances'[k] = Ready(r)
      BY <1>1, <1>5, <3>1
    <3>2. CASE k \in DOMAIN instances /\ instances'[k] = instances[k] /\ (k = r.key => ~r.ready)
      <4>1. /\ k \in DOMAIN registrations /\ instances[k].from.key = k /\ instances[k].from.lifetime = "singleton"
            /\ instances[k].from = registrations[k] \/ (instances[k].from.ready /\ ~registrations[k].ready)
            /\ instances[k].from.ready /\ instances[k].parts = NoMap
        BY <3>2 DEF CachesRight, NothingYet
      <4> QED
        BY <1>1, <3>2, <4>1
    <3> QED
      BY <1>4, <3>1, <3>2
  <2>5. ASSUME NEW k \in DOMAIN instances'
        PROVE  PartsKnown(instances[k].parts)'
    BY <1>0, <2>3 DEF PartsKnown
  <2> QED
    BY <2>1, <2>2, <2>3, <2>5 DEF CachesRight
<1>8. HandedRight'
  BY DEF HandedRight, NothingYet
<1>9. FramesRight'
  <2>1. frames' = <<>> /\ IsList(frames)'
    BY DEF NothingYet, FramesRight, IsList
  <2>2. Len(frames') = 0
    BY <2>1, EmptySeq
  <2> QED
    BY <2>1, <2>2 DEF FramesRight
<1> QED
  BY <1>3, <1>6, <1>7, <1>8, <1>9

LEMMA PhaseStep == ContainerInv /\ NextPhase => ContainerInv'
<1> SUFFICES ASSUME ContainerInv, NextPhase
             PROVE  ContainerInv'
  OBVIOUS
<1> USE DEF ContainerInv, NextPhase
<1>1. LastWins' /\ NothingYet'
  BY DEF LastWins, NothingYet
<1>2. CachesRight'
  BY DEF CachesRight, PartsKnown, PartsOfScope, Known
<1>3. HandedRight'
  BY DEF HandedRight, NothingYet
<1>4. FramesRight'
  <2>1. frames' = <<>> /\ IsList(frames)'
    BY DEF NothingYet, FramesRight, IsList
  <2>2. Len(frames') = 0
    BY <2>1, EmptySeq
  <2> QED
    BY <2>1, <2>2 DEF FramesRight
<1> QED
  BY <1>1, <1>2, <1>3, <1>4

\* Resolution: the registrations stay, and what is cached stays and is not replaced.
Grown ==
    /\ UNCHANGED <<buildPhase, registrations, registered>>
    /\ \A k \in DOMAIN instances : k \in DOMAIN instances' /\ instances'[k] = instances[k]
    /\ \A s \in Scopes : \A k \in DOMAIN scoped[s] : k \in DOMAIN scoped'[s] /\ scoped'[s][k] = scoped[s][k]

LEMMA GrownKeeps ==
    ASSUME Grown, NEW s \in Scopes, NEW parts, NEW k, NEW v
    PROVE  /\ Known(k, v) => Known(k, v)'
           /\ PartsKnown(parts) => PartsKnown(parts)'
           /\ PartsOfScope(s, parts) => PartsOfScope(s, parts)'
           /\ Provided(s, k, v) => Provided(s, k, v)'
<1>1. (Known(k, v) => Known(k, v)') /\ (PartsKnown(parts) => PartsKnown(parts)')
  BY DEF Grown, Known, PartsKnown
<1>2. PartsOfScope(s, parts) => PartsOfScope(s, parts)'
  BY DEF Grown, PartsOfScope
<1>3. Provided(s, k, v) => Provided(s, k, v)'
  BY DEF Grown, Provided
<1> QED
  BY <1>1, <1>2, <1>3

LEMMA RegistrationKnown ==
    ASSUME LastWins, NEW k \in DOMAIN registrations
    PROVE  registrations[k] \in Regs /\ registrations[k].key = k /\ registrations[k].lifetime \in Lifetimes
<1>1. PICK i \in DOMAIN registered : registered[i] = registrations[k]
  BY DEF LastWins
<1>2. registered[i] \in Regs
  BY <1>1, ElementOfSeq, LenProperties DEF LastWins
<1> QED
  BY <1>1, <1>2 DEF LastWins, Regs

\* A service that may be handed out in a scope, and be a part of another.
Good(s, v) ==
    /\ v.from.key \in DOMAIN registrations /\ Provided(s, v.from.key, v) /\ Known(v.from.key, v)
    /\ PartsKnown(v.parts)
    /\ v.from.lifetime # "singleton" => PartsOfScope(s, v.parts)
    /\ v.from.lifetime = "scoped" => v.from.key \in DOMAIN scoped[s] /\ v = scoped[s][v.from.key]

LEMMA KeptRight ==
    ASSUME LastWins, CachesRight, NEW s \in Scopes, NEW k \in DOMAIN registrations, Cached(s, k)
    PROVE  Good(s, Kept(s, k)) /\ Kept(s, k).from.key = k
<1> DEFINE v == Kept(s, k)
<1>1. registrations[k].lifetime \in {"singleton", "scoped", "transient"} /\ registrations[k].key = k
  BY RegistrationKnown DEF Lifetimes
<1>2. registrations[k].lifetime # "transient"
  BY <1>1 DEF Cached, CacheOf, NoMap
<1>3. CASE registrations[k].lifetime = "singleton"
  <2>1. k \in DOMAIN instances /\ v = instances[k]
    BY <1>3 DEF Cached, CacheOf, Kept
  <2>2. /\ v.from.key = k /\ v.from.lifetime = "singleton" /\ PartsKnown(v.parts)
        /\ v.from = registrations[k] \/ (v.from.ready /\ ~registrations[k].ready)
    BY <2>1 DEF CachesRight
  <2> HIDE DEF v
  <2> QED
    BY <1>3, <2>1, <2>2 DEF Good, Provided, Known, v
<1>4. CASE registrations[k].lifetime = "scoped"
  <2>1. k \in DOMAIN scoped[s] /\ v = scoped[s][k]
    BY <1>4 DEF Cached, CacheOf, Kept
  <2>2. v.from = registrations[k] /\ PartsKnown(v.parts) /\ PartsOfScope(s, v.parts)
    BY <2>1 DEF CachesRight
  <2> HIDE DEF v
  <2> QED
    BY <1>1, <1>4, <2>1, <2>2 DEF Good, Provided, Known, v
<1> QED
  BY <1>1, <1>2, <1>3, <1>4

\* What handing out such a service keeps.
LEMMA HandsRight ==
    ASSUME HandedRight, Grown, NEW s \in Scopes, NEW v, Good(s, v)',
           handed' = handed \cup {[scope |-> s, service |-> v]}
    PROVE  HandedRight'
<1>1. ASSUME NEW h \in handed'
      PROVE  /\ h = [scope |-> h.scope, service |-> h.service] /\ h.scope \in Scopes
             /\ h.service.from.key \in DOMAIN registrations'
             /\ Provided(h.scope, h.service.from.key, h.service)'
             /\ PartsKnown(h.service.parts)'
             /\ h.service.from.lifetime # "singleton" => PartsOfScope(h.scope, h.service.parts)'
  <2>1. CASE h \in handed
    <3>1. /\ h = [scope |-> h.scope, service |-> h.service] /\ h.scope \in Scopes
          /\ h.service.from.key \in DOMAIN registrations
          /\ Provided(h.scope, h.service.from.key, h.service)
          /\ PartsKnown(h.service.parts)
          /\ h.service.from.lifetime # "singleton" => PartsOfScope(h.scope, h.service.parts)
      BY <2>1 DEF HandedRight
    <3>2. registrations' = registrations
      BY DEF Grown
    <3> QED
      BY <3>1, <3>2, GrownKeeps
  <2>2. CASE h = [scope |-> s, service |-> v]
    <3>1. h.scope = s /\ h.service = v
      BY <2>2
    <3> QED
      BY <2>2, <3>1 DEF Good
  <2> QED
    BY <2>1, <2>2
<1> QED
  BY <1>1 DEF HandedRight

LEMMA HandedStays == HandedRight /\ Grown /\ handed' = handed => HandedRight'
<1> SUFFICES ASSUME HandedRight, Grown, handed' = handed
             PROVE  HandedRight'
  OBVIOUS
<1>1. ASSUME NEW h \in handed
      PROVE  /\ h = [scope |-> h.scope, service |-> h.service] /\ h.scope \in Scopes
             /\ h.service.from.key \in DOMAIN registrations'
             /\ Provided(h.scope, h.service.from.key, h.service)'
             /\ PartsKnown(h.service.parts)'
             /\ h.service.from.lifetime # "singleton" => PartsOfScope(h.scope, h.service.parts)'
  <2>1. /\ h = [scope |-> h.scope, service |-> h.service] /\ h.scope \in Scopes
        /\ h.service.from.key \in DOMAIN registrations
        /\ Provided(h.scope, h.service.from.key, h.service)
        /\ PartsKnown(h.service.parts)
        /\ h.service.from.lifetime # "singleton" => PartsOfScope(h.scope, h.service.parts)
    BY DEF HandedRight
  <2>2. registrations' = registrations
    BY DEF Grown
  <2> QED
    BY <2>1, <2>2, GrownKeeps
<1> QED
  BY <1>1 DEF HandedRight

LEMMA ChangeInnermost ==
    ASSUME IsList(frames), frames # <<>>, NEW g
    PROVE  LET mid == [frames EXCEPT ![Len(frames)] = g] IN
           /\ IsList(mid) /\ Len(mid) = Len(frames)
           /\ \A i \in 1 .. Len(frames) : mid[i] = IF i = Len(frames) THEN g ELSE frames[i]
  BY ListChangeLast, ZenonT(30)

\* The frames, when the innermost factory has taken what is not being built, ...
LEMMA FramesTake ==
    ASSUME FramesRight, frames # <<>>, UNCHANGED <<registrations, instances, scoped>>,
           NEW key, \A i \in 1 .. Len(frames) : frames[i].reg.key # key,
           NEW parts, PartsKnown(parts), PartsOfScope(Innermost.scope, parts),
           NEW g, g = [scope |-> Innermost.scope, reg |-> Innermost.reg,
                       wants |-> Innermost.wants \ {key}, parts |-> parts],
           IsList(frames'), Len(frames') = Len(frames),
           \A i \in 1 .. Len(frames) : frames'[i] = IF i = Len(frames) THEN g ELSE frames[i]
    PROVE  FramesRight'
<1> DEFINE n == Len(frames)
<1>1. n \in Nat /\ n >= 1 /\ n \in 1 .. n /\ IsList(frames)
  BY ListFacts DEF FramesRight
<1>3. /\ g.scope = Innermost.scope /\ g.reg = Innermost.reg /\ g.parts = parts
      /\ g.wants = Innermost.wants \ {key}
      /\ g = [scope |-> g.scope, reg |-> g.reg, wants |-> g.wants, parts |-> g.parts]
  OBVIOUS
<1>4. Innermost = frames[n]
  BY DEF Innermost
<1>8. /\ IsList(frames') /\ Len(frames') = n
      /\ \A i \in 1 .. n : frames'[i] = IF i = n THEN g ELSE frames[i]
  OBVIOUS
<1>5. \A i \in 1 .. n : frames'[i].scope = frames[i].scope /\ frames'[i].reg = frames[i].reg
  BY <1>8, <1>3, <1>4
<1>6. ASSUME NEW i \in 1 .. n
      PROVE  FrameRight(i)'
  <2>1. FrameRight(i)
    BY DEF FramesRight
  <2>2. 1 \in 1 .. n /\ (i < n => i + 1 \in 1 .. n) /\ \A j \in 1 .. i - 1 : j \in 1 .. n /\ j + 1 \in 1 .. n
    BY <1>1
  <2>3. /\ frames'[i].scope \in Scopes /\ frames'[i].scope = frames'[1].scope
        /\ frames'[i].reg.key \in DOMAIN registrations' /\ frames'[i].reg = registrations'[frames'[i].reg.key]
        /\ ~Cached(frames[i].scope, frames[i].reg.key)'
        /\ i < Len(frames') => frames'[i + 1].reg.key \in NeedsOf(frames[i].reg)'
    BY <1>8, <1>5, <2>1, <2>2 DEF FrameRight, Cached, CacheOf, NeedsOf
  <2>4. /\ frames'[i] = [scope |-> frames'[i].scope, reg |-> frames'[i].reg,
                         wants |-> frames'[i].wants, parts |-> frames'[i].parts]
        /\ frames'[i].wants \subseteq NeedsOf(frames[i].reg)'
    <3>1. NeedsOf(frames[i].reg)' = NeedsOf(frames[i].reg)
      BY <1>5 DEF NeedsOf
    <3>2. CASE i = n
      BY <1>8, <1>3, <1>4, <2>1, <3>1, <3>2 DEF FrameRight
    <3>3. CASE i # n
      BY <1>8, <2>1, <3>1, <3>3 DEF FrameRight
    <3> QED
      BY <3>2, <3>3
  <2>5. PartsKnown(frames[i].parts)' /\ PartsOfScope(frames[i].scope, frames[i].parts)'
    <3>1. PartsKnown(frames'[i].parts) /\ PartsOfScope(frames[n].scope, frames'[i].parts)
      <4>1. CASE i = n
        BY <1>3, <1>4, <1>8, <4>1
      <4>2. CASE i # n
        <5>1. frames'[i].parts = frames[i].parts /\ frames[i].scope = frames[n].scope
          BY <1>1, <1>8, <4>2 DEF FramesRight, FrameRight
        <5>2. PartsKnown(frames[i].parts) /\ PartsOfScope(frames[i].scope, frames[i].parts)
          BY <2>1 DEF FrameRight
        <5> QED
          BY <5>1, <5>2
      <4> QED
        BY <4>1, <4>2
    <3>2. frames'[i].scope = frames[n].scope
      BY <1>1, <1>5 DEF FramesRight, FrameRight
    <3> QED
      BY <3>1, <3>2 DEF PartsKnown, PartsOfScope, Known
  <2>6. ASSUME NEW j \in 1 .. i - 1, frames'[j].reg.key = frames'[i].reg.key
        PROVE  \/ frames'[j + 1].reg.key \in frames'[i].wants
               \/ i < Len(frames') /\ frames'[i + 1].reg.key = frames'[j + 1].reg.key
    <3>1. \/ frames[j + 1].reg.key \in frames[i].wants
          \/ i < n /\ frames[i + 1].reg.key = frames[j + 1].reg.key
      BY <1>5, <2>1, <2>2, <2>6 DEF FrameRight
    <3>2. frames[j + 1].reg.key \in frames[i].wants => frames[j + 1].reg.key \in frames'[i].wants
      BY <1>8, <1>3, <1>4, <2>2
    <3> QED
      BY <1>8, <1>5, <2>2, <3>1, <3>2
  <2> QED
    BY <2>3, <2>4, <2>5, <2>6 DEF FrameRight
<1> QED
  BY <1>8, <1>6 DEF FramesRight

\* ... when it takes what has to be built, ...
LEMMA FramesPush ==
    ASSUME FramesRight, LastWins, frames # <<>>, UNCHANGED <<registrations, instances, scoped>>,
           NEW key \in DOMAIN registrations, key \in Innermost.wants, ~Cached(Innermost.scope, key),
           NEW g, g = [scope |-> Innermost.scope, reg |-> Innermost.reg,
                       wants |-> Innermost.wants \ {key}, parts |-> Innermost.parts],
           frames' = Append([frames EXCEPT ![Len(frames)] = g], Call(Innermost.scope, key))
    PROVE  FramesRight'
<1> DEFINE n == Len(frames)
           c == Call(Innermost.scope, key)
           mid == [frames EXCEPT ![n] = g]
<1>1. n \in Nat /\ n >= 1 /\ n \in 1 .. n /\ IsList(frames)
  BY ListFacts DEF FramesRight
<1>3. /\ g.scope = Innermost.scope /\ g.reg = Innermost.reg /\ g.parts = Innermost.parts
      /\ g.wants = Innermost.wants \ {key}
      /\ g = [scope |-> g.scope, reg |-> g.reg, wants |-> g.wants, parts |-> g.parts]
  OBVIOUS
<1>4. Innermost = frames[n]
  BY DEF Innermost
<1>5. /\ c.scope = Innermost.scope /\ c.reg = registrations[key] /\ c.parts = NoMap
      /\ c.wants = NeedsOf(registrations[key])
      /\ c = [scope |-> c.scope, reg |-> c.reg, wants |-> c.wants, parts |-> c.parts]
  BY DEF Call
<1>6. c.reg.key = key
  BY <1>5, RegistrationKnown
<1> HIDE DEF c
<1>2. IsList(mid) /\ Len(mid) = n /\ \A i \in 1 .. n : mid[i] = IF i = n THEN g ELSE frames[i]
  BY <1>1, ChangeInnermost, SMTT(30)
<1>7. frames' = Append(mid, c)
  BY DEF c
<1> HIDE DEF mid
<1>8. /\ IsList(frames') /\ Len(frames') = n + 1 /\ frames'[n + 1] = c
      /\ \A i \in 1 .. n : frames'[i] = IF i = n THEN g ELSE frames[i]
  <2>1. /\ IsList(Append(mid, c)) /\ Len(Append(mid, c)) = Len(mid) + 1
        /\ Append(mid, c)[Len(mid) + 1] = c /\ \A i \in 1 .. Len(mid) : Append(mid, c)[i] = mid[i]
    BY <1>2, ListAppend
  <2> QED
    BY <1>2, <1>7, <2>1
<1>9. \A i \in 1 .. n : frames'[i].scope = frames[i].scope /\ frames'[i].reg = frames[i].reg
                       /\ frames'[i].parts = frames[i].parts
  BY <1>3, <1>4, <1>8
<1>10. FrameRight(n) /\ FrameRight(1)
  BY <1>1 DEF FramesRight
<1>11. ASSUME NEW i \in 1 .. n
       PROVE  FrameRight(i)'
  <2>1. FrameRight(i)
    BY DEF FramesRight
  <2>2. 1 \in 1 .. n /\ (i < n => i + 1 \in 1 .. n) /\ i < n + 1 /\ (i >= n => i = n)
        /\ \A j \in 1 .. i - 1 : j \in 1 .. n /\ j + 1 \in 1 .. n
    BY <1>1
  <2>3. /\ frames'[i].scope \in Scopes /\ frames'[i].scope = frames'[1].scope
        /\ frames'[i].reg.key \in DOMAIN registrations' /\ frames'[i].reg = registrations'[frames'[i].reg.key]
        /\ ~Cached(frames[i].scope, frames[i].reg.key)'
    BY <1>9, <2>1, <2>2 DEF FrameRight, Cached, CacheOf
  <2>4. frames'[i + 1].reg.key \in NeedsOf(frames[i].reg)'
    <3>1. NeedsOf(frames[i].reg)' = NeedsOf(frames[i].reg)
      BY <1>9 DEF NeedsOf
    <3>2. CASE i < n
      BY <1>9, <2>1, <2>2, <3>1, <3>2 DEF FrameRight
    <3>3. CASE i = n
      BY <1>4, <1>6, <1>8, <1>10, <3>1, <3>3 DEF FrameRight
    <3> QED
      BY <1>1, <2>2, <3>2, <3>3
  <2>5. /\ frames'[i] = [scope |-> frames'[i].scope, reg |-> frames'[i].reg,
                         wants |-> frames'[i].wants, parts |-> frames'[i].parts]
        /\ frames'[i].wants \subseteq NeedsOf(frames[i].reg)'
    <3>1. NeedsOf(frames[i].reg)' = NeedsOf(frames[i].reg)
      BY <1>9 DEF NeedsOf
    <3>2. CASE i = n
      BY <1>3, <1>4, <1>8, <2>1, <3>1, <3>2, ZenonT(60) DEF FrameRight
    <3>3. CASE i # n
      BY <1>8, <2>1, <3>1, <3>3 DEF FrameRight
    <3> QED
      BY <3>2, <3>3
  <2>6. PartsKnown(frames[i].parts)' /\ PartsOfScope(frames[i].scope, frames[i].parts)'
    <3>1. PartsKnown(frames[i].parts)'
      BY <1>9, <2>1, SMTT(30) DEF FrameRight, PartsKnown, Known
    <3>2. PartsOfScope(frames[i].scope, frames[i].parts)'
      BY <1>9, <2>1, SMTT(30) DEF FrameRight, PartsOfScope
    <3> QED
      BY <3>1, <3>2
  <2>7. ASSUME NEW j \in 1 .. i - 1, frames'[j].reg.key = frames'[i].reg.key
        PROVE  \/ frames'[j + 1].reg.key \in frames'[i].wants
               \/ i < Len(frames') /\ frames'[i + 1].reg.key = frames'[j + 1].reg.key
    <3>1. \/ frames[j + 1].reg.key \in frames[i].wants
          \/ i < n /\ frames[i + 1].reg.key = frames[j + 1].reg.key
      BY <1>9, <2>1, <2>2, <2>7 DEF FrameRight
    <3>2. frames'[j + 1].reg.key = frames[j + 1].reg.key
      BY <1>9, <2>2
    <3>3. CASE i < n
      <4>1. frames'[i].wants = frames[i].wants /\ frames'[i + 1].reg.key = frames[i + 1].reg.key
        <5>1. frames'[i] = frames[i]
          BY <1>1, <1>8, <3>3
        <5>2. frames'[i + 1].reg = frames[i + 1].reg
          BY <1>9, <2>2, <3>3
        <5> QED
          BY <5>1, <5>2
      <4> QED
        BY <1>8, <2>2, <3>1, <3>2, <4>1
    <3>4. CASE i = n
      <4>1. frames[j + 1].reg.key \in frames[n].wants
        BY <1>1, <3>1, <3>4
      <4>2. CASE frames[j + 1].reg.key = key
        BY <1>6, <1>8, <2>2, <3>2, <3>4, <4>2
      <4>3. CASE frames[j + 1].reg.key # key
        BY <1>3, <1>4, <1>8, <3>2, <3>4, <4>1, <4>3
      <4> QED
        BY <4>2, <4>3
    <3>5. i < n \/ i = n
      BY <1>1
    <3> QED
      BY <3>3, <3>4, <3>5
  <2>8. i < Len(frames') => frames'[i + 1].reg.key \in NeedsOf(frames[i].reg)'
    BY <2>4
  <2> QED
    BY <2>3, <2>5, <2>6, <2>7, <2>8 DEF FrameRight
<1>12. ASSUME NEW i, i = n + 1
       PROVE  FrameRight(i)'
  <2>1. /\ frames'[i].scope \in Scopes /\ frames'[i].scope = frames'[1].scope
        /\ frames'[i].reg = registrations'[key] /\ frames'[i].reg.key = key
        /\ frames'[i].wants = NeedsOf(registrations[key]) /\ frames'[i].parts = NoMap
        /\ frames'[i] = [scope |-> frames'[i].scope, reg |-> frames'[i].reg,
                             wants |-> frames'[i].wants, parts |-> frames'[i].parts]
    <3>1. frames'[i] = c
      BY <1>8, <1>12
    <3>2. frames[n].scope \in Scopes /\ frames[n].scope = frames'[1].scope
      <4>1. 1 \in 1 .. n
        BY <1>1
      <4>2. frames'[1].scope = frames[1].scope
        BY <1>9, <4>1
      <4> QED
        BY <1>10, <4>2 DEF FrameRight
    <3> QED
      BY <1>4, <1>5, <1>6, <3>1, <3>2, ZenonT(60)
  <2>2. ~Cached(frames[i].scope, frames[i].reg.key)'
    BY <1>5, <1>8, <1>12, <2>1, ZenonT(60) DEF Cached, CacheOf
  <2>3. NeedsOf(frames[i].reg)' = NeedsOf(registrations[key])
    BY <2>1 DEF NeedsOf
  <2>4. PartsKnown(frames[i].parts)' /\ PartsOfScope(frames[i].scope, frames[i].parts)'
    BY <2>1 DEF PartsKnown, PartsOfScope, NoMap
  <2>5. ASSUME NEW j \in 1 .. n, frames'[j].reg.key = key
        PROVE  frames'[j + 1].reg.key \in frames'[i].wants
    <3>1. FrameRight(j) /\ frames[j].reg.key = key /\ frames[j].reg = registrations[key]
      <4>1. FrameRight(j)
        BY DEF FramesRight
      <4> QED
        BY <1>9, <2>5, <4>1 DEF FrameRight
    <3>2. CASE j < n
      <4>1. j + 1 \in 1 .. n
        BY <1>1, <3>2
      <4> QED
        BY <1>9, <1>12, <2>1, <3>1, <3>2, <4>1, SMTT(30) DEF FrameRight
    <3>3. CASE j = n
      BY <1>4, <1>12, <2>1, <3>1, <3>3 DEF FrameRight
    <3>4. j < n \/ j = n
      BY <1>1
    <3> QED
      BY <3>2, <3>3, <3>4
  <2>6. i - 1 = n /\ ~(i < Len(frames'))
    BY <1>1, <1>8, <1>12
  <2> QED
    BY <2>1, <2>2, <2>3, <2>4, <2>5, <2>6 DEF FrameRight
<1>13. \A i \in 1 .. n + 1 : i \in 1 .. n \/ i = n + 1
  BY <1>1
<1> QED
  BY <1>8, <1>11, <1>12, <1>13 DEF FramesRight

\* ... and when it returns: it is the only one for its key.
LEMMA InnermostAlone ==
    ASSUME FramesRight, frames # <<>>, Innermost.wants = {}, NEW j \in 1 .. Len(frames) - 1
    PROVE  frames[j].reg.key # Innermost.reg.key
<1>1. Len(frames) \in Nat /\ Len(frames) \in 1 .. Len(frames)
  BY ListFacts DEF FramesRight
<1>2. FrameRight(Len(frames))
  BY <1>1 DEF FramesRight
<1> QED
  BY <1>1, <1>2 DEF FrameRight, Innermost

NoOther(key) ==
    \A s \in Scopes, k \in DOMAIN registrations : k # key /\ ~Cached(s, k) => ~Cached(s, k)'

Popped(key, v) ==
    /\ IsList(frames') /\ Len(frames') = Len(frames) - 1
    /\ \A i \in 1 .. Len(frames) - 1 :
           frames'[i] = IF i = Len(frames) - 1
                        THEN [frames[i] EXCEPT !.parts = Set(@, key, v)] ELSE frames[i]

LEMMA FramesReturn ==
    ASSUME FramesRight, frames # <<>>, Innermost.wants = {}, Grown,
           NEW scope, scope = Innermost.scope, NEW key, key = Innermost.reg.key,
           NEW v, Good(scope, v)', v.from.key = key,
           NoOther(key), Popped(key, v)
    PROVE  FramesRight'
<1> USE DEF Popped, NoOther
<1> DEFINE n == Len(frames)
<1>1. n \in Nat /\ n >= 1 /\ n \in 1 .. n
  BY ListFacts DEF FramesRight
<1>2. \A i \in 1 .. n - 1 : FrameRight(i) /\ i \in 1 .. n
  BY <1>1 DEF FramesRight
<1>3. ASSUME NEW i \in 1 .. n - 1
      PROVE  /\ frames'[i].scope = frames[i].scope /\ frames'[i].reg = frames[i].reg
             /\ frames'[i].wants = frames[i].wants
             /\ frames'[i].parts = frames[i].parts \/ frames'[i].parts = Set(frames[i].parts, key, v)
             /\ frames'[i] = [scope |-> frames'[i].scope, reg |-> frames'[i].reg,
                              wants |-> frames'[i].wants, parts |-> frames'[i].parts]
  <2>1. frames[i] = [scope |-> frames[i].scope, reg |-> frames[i].reg,
                     wants |-> frames[i].wants, parts |-> frames[i].parts]
    BY <1>2 DEF FrameRight
  <2>2. CASE i = n - 1
    <3>1. frames'[i] = [frames[i] EXCEPT !.parts = Set(@, key, v)]
      BY <2>2
    <3>2. frames'[i] = [scope |-> frames[i].scope, reg |-> frames[i].reg,
                        wants |-> frames[i].wants, parts |-> Set(frames[i].parts, key, v)]
      BY <2>1, <3>1
    <3> QED
      BY <3>2
  <2>3. CASE i # n - 1
    BY <2>1, <2>3
  <2> QED
    BY <2>2, <2>3
<1>4. ASSUME NEW i \in 1 .. n - 1
      PROVE  FrameRight(i)'
  <2>1. FrameRight(i) /\ frames'[i].scope = frames[i].scope /\ frames'[i].reg = frames[i].reg
    BY <1>2, <1>3
  <2>2. 1 \in 1 .. n - 1 /\ (i < n - 1 => i + 1 \in 1 .. n - 1) /\ i < n
        /\ \A j \in 1 .. i - 1 : j \in 1 .. n - 1 /\ j + 1 \in 1 .. n - 1
    BY <1>1
  <2>3. /\ registrations' = registrations
        /\ frames[i].reg.key \in DOMAIN registrations /\ frames[i].reg.key # key /\ frames[i].scope \in Scopes
    BY <2>1, InnermostAlone DEF FrameRight, Grown
  <2>4. ~Cached(frames[i].scope, frames[i].reg.key)'
    <3>1. \A s, k : s = frames[i].scope /\ k = frames[i].reg.key => ~Cached(s, k)'
      BY <2>1, <2>3 DEF FrameRight
    <3> QED
      BY <2>1, <3>1 DEF Cached, CacheOf
  <2>5. /\ frames'[i].scope \in Scopes /\ frames'[i].scope = frames'[1].scope
        /\ frames'[i].reg.key \in DOMAIN registrations' /\ frames'[i].reg = registrations'[frames'[i].reg.key]
    BY <1>3, <2>1, <2>2, <2>3 DEF FrameRight
  <2>6. NeedsOf(frames[i].reg)' = NeedsOf(frames[i].reg)
    BY <2>1 DEF NeedsOf
  <2>7. /\ frames'[i].wants \subseteq NeedsOf(frames[i].reg)'
        /\ i < Len(frames') => frames'[i + 1].reg.key \in NeedsOf(frames[i].reg)'
    BY <1>1, <1>3, <2>1, <2>2, <2>6 DEF FrameRight
  <2>8. PartsKnown(frames[i].parts)' /\ PartsOfScope(frames[i].scope, frames[i].parts)'
    <3>0. PICK p, s : p = frames[i].parts /\ s = frames[i].scope
      OBVIOUS
    <3>1. PartsKnown(p)' /\ PartsOfScope(s, p)'
      BY <2>1, <2>3, <3>0, GrownKeeps DEF FrameRight
    <3>2. CASE frames'[i].parts = p
      BY <2>1, <3>0, <3>1, <3>2 DEF PartsKnown, PartsOfScope, Known
    <3>3. CASE frames'[i].parts = Set(p, key, v)
      <4>1. s = scope
        BY <1>1, <2>1, <3>0 DEF FramesRight, FrameRight, Innermost
      <4>2. /\ Known(key, v)'
            /\ v.from.lifetime = "scoped" => key \in DOMAIN scoped'[s] /\ v = scoped'[s][key]
        BY <4>1 DEF Good
      <4>3. \A k \in DOMAIN Set(p, key, v) :
               (k = key /\ Set(p, key, v)[k] = v) \/ (k \in DOMAIN p /\ Set(p, key, v)[k] = p[k])
        BY DEF Set
      <4>4. PartsKnown(frames[i].parts)'
        BY <3>1, <3>3, <4>2, <4>3 DEF PartsKnown, Known
      <4>5. PartsOfScope(frames[i].scope, frames[i].parts)'
        BY <2>1, <3>0, <3>1, <3>3, <4>2, <4>3 DEF PartsOfScope
      <4> QED
        BY <4>4, <4>5
    <3> QED
      BY <1>3, <3>0, <3>2, <3>3
  <2>9. ASSUME NEW j \in 1 .. i - 1, frames'[j].reg.key = frames'[i].reg.key
        PROVE  \/ frames'[j + 1].reg.key \in frames'[i].wants
               \/ i < Len(frames') /\ frames'[i + 1].reg.key = frames'[j + 1].reg.key
    <3>1. /\ frames'[j + 1].reg = frames[j + 1].reg /\ frames'[j].reg = frames[j].reg
          /\ frames[j + 1].reg.key # key
      BY <1>3, <2>2, InnermostAlone
    <3>2. \/ frames[j + 1].reg.key \in frames[i].wants
          \/ i < n /\ frames[i + 1].reg.key = frames[j + 1].reg.key
      BY <2>1, <2>9, <3>1 DEF FrameRight
    <3>3. CASE i < n - 1
      BY <1>3, <2>2, <3>1, <3>2, <3>3
    <3>4. CASE i = n - 1
      <4>1. i + 1 = n
        BY <1>1, <3>4
      <4>2. frames[i + 1].reg.key = key
        BY <4>1 DEF Innermost
      <4> QED
        BY <1>3, <3>1, <3>2, <4>2
    <3>5. i < n - 1 \/ i = n - 1
      BY <1>1
    <3> QED
      BY <3>3, <3>4, <3>5
  <2> QED
    BY <1>3, <2>4, <2>5, <2>7, <2>8, <2>9 DEF FrameRight
<1> QED
  BY <1>4 DEF FramesRight

\* What a step of a resolution leaves alone.
LEMMA Unkept ==
    ASSUME ContainerInv, buildPhase = "running",
           UNCHANGED <<buildPhase, registrations, instances, scoped, built, registered>>
    PROVE  LastWins' /\ NothingYet' /\ CachesRight' /\ Grown
<1> USE DEF ContainerInv
<1>1. LastWins' /\ NothingYet'
  BY DEF LastWins, NothingYet
<1>2. CachesRight'
  BY DEF CachesRight, PartsKnown, PartsOfScope, Known
<1>3. Grown
  BY DEF Grown
<1> QED
  BY <1>1, <1>2, <1>3

LEMMA NoFrames == frames' = <<>> => FramesRight'
<1> SUFFICES ASSUME frames' = <<>>
             PROVE  FramesRight'
  OBVIOUS
<1>1. IsList(<<>>) /\ Len(<<>>) = 0
  BY EmptySeq, ListIs
<1> QED
  BY <1>1 DEF FramesRight

LEMMA GoodStays == ASSUME UNCHANGED <<registrations, instances, scoped>>, NEW s, NEW v, Good(s, v)
                   PROVE  Good(s, v)'
  BY DEF Good, Provided, Known, PartsKnown, PartsOfScope

LEMMA GetServiceStep ==
    ASSUME ContainerInv, NEW scope \in Scopes, NEW key \in ServiceKeys, get_service(scope, key)
    PROVE  ContainerInv'
<1> USE DEF ContainerInv
<1>1. /\ buildPhase = "running" /\ frames = <<>> /\ key \in DOMAIN registrations
      /\ UNCHANGED <<buildPhase, registrations, instances, scoped, built, registered>>
  BY DEF get_service
<1>2. LastWins' /\ NothingYet' /\ CachesRight' /\ Grown
  BY <1>1, Unkept
<1>3. CASE Cached(scope, key)
  <2>1. frames' = <<>> /\ handed' = handed \cup {[scope |-> scope, service |-> Kept(scope, key)]}
    BY <1>1, <1>3 DEF get_service, Hand
  <2>2. PICK v : v = Kept(scope, key)
    OBVIOUS
  <2>3. Good(scope, v)'
    BY <1>1, <1>3, <2>2, KeptRight, GoodStays
  <2>4. HandedRight'
    BY <1>2, <2>1, <2>2, <2>3, HandsRight
  <2> QED
    BY <1>2, <2>1, <2>4, NoFrames
<1>4. CASE ~Cached(scope, key)
  <2>1. frames' = <<Call(scope, key)>> /\ handed' = handed
    BY <1>4 DEF get_service
  <2>2. HandedRight'
    BY <1>2, <2>1, HandedStays
  <2>3. FramesRight'
    <3> DEFINE c == Call(scope, key)
    <3>1. /\ c.scope = scope /\ c.reg = registrations[key] /\ c.parts = NoMap
          /\ c.wants = NeedsOf(registrations[key])
          /\ c = [scope |-> c.scope, reg |-> c.reg, wants |-> c.wants, parts |-> c.parts]
      BY DEF Call
    <3>2. c.reg.key = key
      BY <1>1, <3>1, RegistrationKnown
    <3> HIDE DEF c
    <3>3. frames' = <<c>>
      BY <2>1 DEF c
    <3>4. <<c>> \in Seq({c}) /\ Len(<<c>>) = 1 /\ <<c>>[1] = c
      OBVIOUS
    <3>5. IsList(frames') /\ Len(frames') = 1 /\ frames'[1] = c
      BY <3>3, <3>4, ListIs
    <3>6. FrameRight(1)'
      <4>1. ~Cached(frames[1].scope, frames[1].reg.key)'
        BY <1>1, <1>4, <3>1, <3>2, <3>5 DEF Cached, CacheOf
      <4>2. PartsKnown(frames[1].parts)' /\ PartsOfScope(frames[1].scope, frames[1].parts)'
        BY <3>1, <3>5 DEF PartsKnown, PartsOfScope, NoMap
      <4>3. /\ frames'[1] = [scope |-> frames'[1].scope, reg |-> frames'[1].reg,
                             wants |-> frames'[1].wants, parts |-> frames'[1].parts]
            /\ frames'[1].scope \in Scopes
            /\ frames'[1].reg.key \in DOMAIN registrations' /\ frames'[1].reg = registrations'[frames'[1].reg.key]
            /\ frames'[1].wants \subseteq NeedsOf(frames[1].reg)'
        BY <1>1, <3>1, <3>2, <3>5 DEF NeedsOf
      <4>4. ~(1 < Len(frames')) /\ 1 .. 1 - 1 = {}
        BY <3>5
      <4> QED
        BY <4>1, <4>2, <4>3, <4>4 DEF FrameRight
    <3>7. \A i \in 1 .. 1 : i = 1
      OBVIOUS
    <3> QED
      BY <3>5, <3>6, <3>7 DEF FramesRight
  <2> QED
    BY <1>2, <2>2, <2>3
<1> QED
  BY <1>3, <1>4

LEMMA RaiseStep == ContainerInv /\ Raise => ContainerInv'
<1> SUFFICES ASSUME ContainerInv, Raise
             PROVE  ContainerInv'
  OBVIOUS
<1>1. /\ buildPhase = "running" /\ handed' = handed /\ frames' = <<>>
      /\ UNCHANGED <<buildPhase, registrations, instances, scoped, built, registered>>
  BY DEF Raise, ContainerInv, NothingYet
<1> QED
  BY <1>1, Unkept, HandedStays, NoFrames DEF ContainerInv

LEMMA TakeStep ==
    ASSUME ContainerInv, NEW key \in ServiceKeys, Take(key)
    PROVE  ContainerInv'
<1> DEFINE f == Innermost
           taken == [f EXCEPT !.wants = @ \ {key}]
<1>1. /\ LastWins /\ CachesRight /\ HandedRight /\ FramesRight /\ frames # <<>> /\ buildPhase = "running"
      /\ UNCHANGED <<buildPhase, registrations, instances, scoped, built, registered>> /\ key \in f.wants
  BY DEF ContainerInv, NothingYet, Take
<1>2. LastWins' /\ NothingYet' /\ CachesRight' /\ Grown
  BY <1>1, Unkept
<1>3. /\ f = [scope |-> f.scope, reg |-> f.reg, wants |-> f.wants, parts |-> f.parts]
      /\ f.scope \in Scopes /\ PartsKnown(f.parts) /\ PartsOfScope(f.scope, f.parts)
      /\ IsList(frames)
  <2>1. Len(frames) \in 1 .. Len(frames)
    BY <1>1, ListFacts DEF FramesRight
  <2>2. FrameRight(Len(frames))
    BY <1>1, <2>1 DEF FramesRight
  <2> QED
    BY <1>1, <2>2 DEF FrameRight, Innermost, FramesRight
<1>4. taken = [scope |-> f.scope, reg |-> f.reg, wants |-> f.wants \ {key}, parts |-> f.parts]
  BY <1>3
<1>5. \A x : [taken EXCEPT !.parts = Set(@, key, x)] =
             [scope |-> f.scope, reg |-> f.reg, wants |-> f.wants \ {key}, parts |-> Set(f.parts, key, x)]
  <2> HIDE DEF taken
  <2> QED
    BY <1>4
<1>6. CASE key \notin DOMAIN registrations /\ frames' = [frames EXCEPT ![Len(frames)] = taken] /\ handed' = handed
  <2>1. PICK g, parts : g = taken /\ parts = f.parts
    OBVIOUS
  <2>2. \A i \in 1 .. Len(frames) : frames[i].reg.key # key
    BY <1>1, <1>6 DEF FramesRight, FrameRight
  <2>3. frames' = [frames EXCEPT ![Len(frames)] = g]
    BY <1>6, <2>1
  <2>4. g = [scope |-> f.scope, reg |-> f.reg, wants |-> f.wants \ {key}, parts |-> parts]
    BY <1>4, <2>1
  <2> HIDE DEF taken
  <2>5. /\ IsList(frames') /\ Len(frames') = Len(frames)
        /\ \A i \in 1 .. Len(frames) : frames'[i] = IF i = Len(frames) THEN g ELSE frames[i]
    BY <1>1, <1>3, <2>3, ListChangeLast
  <2>6. PartsKnown(parts) /\ PartsOfScope(Innermost.scope, parts)
    BY <1>3, <2>1
  <2>7. UNCHANGED <<registrations, instances, scoped>>
    BY <1>1
  <2>8. FramesRight'
    BY <1>1, <2>2, <2>4, <2>5, <2>6, <2>7, FramesTake, ZenonT(240)
  <2> QED
    BY <1>1, <1>2, <1>6, <2>8, HandedStays DEF ContainerInv
<1>7. CASE /\ key \in DOMAIN registrations /\ Cached(f.scope, key)
           /\ frames' = [frames EXCEPT ![Len(frames)] = [taken EXCEPT !.parts = Set(@, key, Kept(f.scope, key))]]
           /\ handed' = handed \cup {[scope |-> f.scope, service |-> Kept(f.scope, key)]}
  <2>1. PICK s, v : s = f.scope /\ v = Kept(f.scope, key)
    OBVIOUS
  <2>2. Good(s, v) /\ v.from.key = key
    BY <1>1, <1>3, <1>7, <2>1, KeptRight
  <2>3. HandedRight'
    BY <1>1, <1>2, <1>3, <1>7, <2>1, <2>2, HandsRight, GoodStays
  <2>4. PICK g, parts : /\ parts = Set(f.parts, key, v)
                        /\ g = [scope |-> f.scope, reg |-> f.reg, wants |-> f.wants \ {key}, parts |-> parts]
    OBVIOUS
  <2>5. frames' = [frames EXCEPT ![Len(frames)] = g]
    BY <1>5, <1>7, <2>1, <2>4
  <2>6. \A k \in DOMAIN parts : (k = key /\ parts[k] = v) \/ (k \in DOMAIN f.parts /\ parts[k] = f.parts[k])
    BY <2>4 DEF Set
  <2>7. PartsKnown(parts)
    BY <1>3, <2>2, <2>6 DEF PartsKnown, Good
  <2>8. PartsOfScope(s, parts)
    BY <1>3, <2>1, <2>2, <2>6 DEF PartsOfScope, Good
  <2>9. \A i \in 1 .. Len(frames) : frames[i].reg.key # key
    <3>1. 1 \in 1 .. Len(frames) /\ Len(frames) \in 1 .. Len(frames)
      BY <1>1, <1>3, ListFacts
    <3>2. \A i \in 1 .. Len(frames) : frames[i].scope = f.scope /\ ~Cached(frames[i].scope, frames[i].reg.key)
      BY <1>1, <3>1 DEF FramesRight, FrameRight, Innermost
    <3> QED
      BY <1>7, <3>2
  <2> HIDE DEF taken
  <2>10. /\ IsList(frames') /\ Len(frames') = Len(frames)
         /\ \A i \in 1 .. Len(frames) : frames'[i] = IF i = Len(frames) THEN g ELSE frames[i]
    BY <1>1, <1>3, <2>5, ListChangeLast
  <2>11. PartsOfScope(Innermost.scope, parts) /\ UNCHANGED <<registrations, instances, scoped>>
    BY <1>1, <2>1, <2>8
  <2>12. FramesRight'
    BY <1>1, <2>4, <2>7, <2>9, <2>10, <2>11, FramesTake, ZenonT(240)
  <2> QED
    BY <1>2, <2>3, <2>12 DEF ContainerInv
<1>8. CASE /\ key \in DOMAIN registrations /\ ~Cached(f.scope, key)
           /\ frames' = Append([frames EXCEPT ![Len(frames)] = taken], Call(f.scope, key)) /\ handed' = handed
  <2>1. PICK g : g = taken
    OBVIOUS
  <2>2. frames' = Append([frames EXCEPT ![Len(frames)] = g], Call(f.scope, key))
    BY <1>8, <2>1
  <2>3. FramesRight'
    BY <1>1, <1>4, <1>8, <2>1, <2>2, FramesPush
  <2> QED
    BY <1>1, <1>2, <1>8, <2>3, HandedStays DEF ContainerInv
<1> QED
  BY <1>6, <1>7, <1>8 DEF Take, Hand

LEMMA ReturnStep == ContainerInv /\ Return => ContainerInv'
<1> SUFFICES ASSUME ContainerInv, Return
             PROVE  ContainerInv'
  OBVIOUS
<1>1. /\ LastWins /\ CachesRight /\ HandedRight /\ FramesRight /\ frames # <<>> /\ buildPhase = "running"
      /\ UNCHANGED <<buildPhase, registrations, registered>> /\ Innermost.wants = {}
  BY DEF ContainerInv, NothingYet, Return
<1>2. PICK s, key, v, reg : s = Innermost.scope /\ key = Innermost.reg.key /\ v = Made /\ reg = Innermost.reg
  OBVIOUS
<1>3. v.from = reg /\ v.scope = s /\ v.parts = Innermost.parts
  BY <1>2 DEF Made
<1>4. /\ s \in Scopes /\ key \in DOMAIN registrations /\ reg = registrations[key] /\ reg.key = key
      /\ ~Cached(s, key) /\ PartsKnown(v.parts) /\ PartsOfScope(s, v.parts) /\ IsList(frames)
  <2>1. Len(frames) \in 1 .. Len(frames)
    BY <1>1, ListFacts DEF FramesRight
  <2>2. FrameRight(Len(frames))
    BY <1>1, <2>1 DEF FramesRight
  <2> QED
    BY <1>1, <1>2, <1>3, <2>2 DEF FrameRight, Innermost, FramesRight
<1>5. reg.lifetime \in {"singleton", "scoped", "transient"}
  BY <1>1, <1>4, RegistrationKnown DEF Lifetimes
<1>6. /\ instances' = IF reg.lifetime = "singleton" THEN Set(instances, key, v) ELSE instances
      /\ scoped' = IF reg.lifetime = "scoped" THEN [scoped EXCEPT ![s] = Set(@, key, v)] ELSE scoped
      /\ handed' = handed \cup {[scope |-> s, service |-> v]}
  BY <1>2 DEF Return, Hand
<1>7. /\ scoped = [t \in Scopes |-> scoped[t]]
      /\ scoped' = [t \in Scopes |-> IF t = s /\ reg.lifetime = "scoped" THEN Set(scoped[s], key, v) ELSE scoped[t]]
  <2>1. scoped = [t \in Scopes |-> scoped[t]]
    BY <1>1 DEF CachesRight
  <2> QED
    BY <1>4, <1>6, <2>1
<1>8. \A k : /\ k \in DOMAIN instances' <=> k \in DOMAIN instances \/ (k = key /\ reg.lifetime = "singleton")
             /\ k \in DOMAIN instances /\ ~(k = key /\ reg.lifetime = "singleton") => instances'[k] = instances[k]
             /\ k = key /\ reg.lifetime = "singleton" => instances'[k] = v
  BY <1>6 DEF Set
<1>9. \A t \in Scopes : \A k :
          LET new == t = s /\ k = key /\ reg.lifetime = "scoped" IN
          /\ k \in DOMAIN scoped'[t] <=> k \in DOMAIN scoped[t] \/ new
          /\ k \in DOMAIN scoped[t] /\ ~new => scoped'[t][k] = scoped[t][k]
          /\ new => scoped'[t][k] = v
  <2>1. ASSUME NEW t \in Scopes, t = s, reg.lifetime = "scoped"
        PROVE  scoped'[t] = Set(scoped[t], key, v)
    BY <1>7, <2>1
  <2>2. ASSUME NEW t \in Scopes, ~(t = s /\ reg.lifetime = "scoped")
        PROVE  scoped'[t] = scoped[t]
    BY <1>7, <2>2
  <2>4. ASSUME NEW t \in Scopes, NEW k
        PROVE  LET new == t = s /\ k = key /\ reg.lifetime = "scoped" IN
               /\ k \in DOMAIN scoped'[t] <=> k \in DOMAIN scoped[t] \/ new
               /\ k \in DOMAIN scoped[t] /\ ~new => scoped'[t][k] = scoped[t][k]
               /\ new => scoped'[t][k] = v
    <3>1. CASE t = s /\ reg.lifetime = "scoped"
      <4>1. scoped'[t] = Set(scoped[s], key, v) /\ scoped[t] = scoped[s]
        BY <2>1, <3>1
      <4> DEFINE d == scoped[s]
                 e == Set(d, key, v)
      <4>2. /\ k \in DOMAIN e <=> k \in DOMAIN d \/ k = key
            /\ k \in DOMAIN d /\ k # key => e[k] = d[k]
            /\ k = key => e[k] = v
        BY DEF Set
      <4> HIDE DEF e, d
      <4>3. scoped'[t] = e /\ scoped[t] = d
        BY <4>1 DEF e, d
      <4> QED
        BY <3>1, <4>2, <4>3
    <3>2. CASE ~(t = s /\ reg.lifetime = "scoped")
      BY <2>2, <3>2
    <3> QED
      BY <3>1, <3>2
  <2> QED
    BY <2>4
<1>10. /\ reg.lifetime = "singleton" => key \notin DOMAIN instances
       /\ reg.lifetime = "scoped" => key \notin DOMAIN scoped[s]
  BY <1>4 DEF Cached, CacheOf
<1>11. Grown
  <2>1. \A k \in DOMAIN instances : k \in DOMAIN instances' /\ instances'[k] = instances[k]
    BY <1>8, <1>10
  <2>2. \A t \in Scopes : \A k \in DOMAIN scoped[t] : k \in DOMAIN scoped'[t] /\ scoped'[t][k] = scoped[t][k]
    BY <1>9, <1>10
  <2> QED
    BY <1>1, <2>1, <2>2 DEF Grown
<1>12. PartsKnown(v.parts)' /\ PartsOfScope(s, v.parts)'
  BY <1>4, <1>11, GrownKeeps
<1>13. LastWins' /\ NothingYet'
  BY <1>1 DEF LastWins, NothingYet
<1>14. Good(s, v)'
  <2>1. Provided(s, key, v)' /\ Known(key, v)'
    BY <1>1, <1>3, <1>4, <1>8, <1>9 DEF Provided, Known
  <2> QED
    BY <1>1, <1>3, <1>4, <1>9, <1>12, <2>1 DEF Good
<1>15. CachesRight'
  <2>1. scoped' = [t \in Scopes |-> scoped'[t]]
    BY <1>7
  <2>2. ASSUME NEW k \in DOMAIN instances'
        PROVE  /\ k \in DOMAIN registrations' /\ instances'[k].from.key = k /\ instances'[k].from.lifetime = "singleton"
               /\ instances'[k].from = registrations'[k] \/ (instances'[k].from.ready /\ ~registrations'[k].ready)
               /\ PartsKnown(instances[k].parts)'
    <3>1. CASE k \in DOMAIN instances
      <4>1. PICK x : x = instances[k]
        OBVIOUS
      <4>2. /\ k \in DOMAIN registrations /\ x.from.key = k /\ x.from.lifetime = "singleton"
            /\ x.from = registrations[k] \/ (x.from.ready /\ ~registrations[k].ready)
            /\ PartsKnown(x.parts)
        BY <1>1, <3>1, <4>1 DEF CachesRight
      <4>3. PartsKnown(x.parts)' /\ instances'[k] = x
        BY <1>4, <1>11, <3>1, <4>1, <4>2, GrownKeeps DEF Grown
      <4>4. PartsKnown(instances[k].parts)'
        BY <4>3 DEF PartsKnown, Known
      <4> QED
        BY <1>1, <4>2, <4>3, <4>4
    <3>2. CASE k \notin DOMAIN instances
      <4>1. k = key /\ reg.lifetime = "singleton" /\ instances'[k] = v
        BY <1>8, <3>2
      <4>2. PartsKnown(instances[k].parts)'
        BY <1>12, <4>1 DEF PartsKnown, Known
      <4> QED
        BY <1>1, <1>3, <1>4, <4>1, <4>2
    <3> QED
      BY <3>1, <3>2
  <2>3. ASSUME NEW t \in Scopes, NEW k \in DOMAIN scoped'[t]
        PROVE  /\ k \in DOMAIN registrations' /\ registrations'[k].lifetime = "scoped"
               /\ scoped'[t][k].from = registrations'[k] /\ scoped'[t][k].scope = t
               /\ PartsKnown(scoped[t][k].parts)' /\ PartsOfScope(t, scoped[t][k].parts)'
    <3>1. CASE k \in DOMAIN scoped[t]
      <4>1. PICK x : x = scoped[t][k]
        OBVIOUS
      <4>2. /\ k \in DOMAIN registrations /\ registrations[k].lifetime = "scoped"
            /\ x.from = registrations[k] /\ x.scope = t /\ PartsKnown(x.parts) /\ PartsOfScope(t, x.parts)
        BY <1>1, <3>1, <4>1 DEF CachesRight
      <4>3. PartsKnown(x.parts)' /\ PartsOfScope(t, x.parts)' /\ scoped'[t][k] = x
        BY <1>11, <3>1, <4>1, <4>2, GrownKeeps DEF Grown
      <4>4. PartsKnown(scoped[t][k].parts)' /\ PartsOfScope(t, scoped[t][k].parts)'
        BY <4>3 DEF PartsKnown, PartsOfScope, Known
      <4> QED
        BY <1>1, <4>2, <4>3, <4>4
    <3>2. CASE k \notin DOMAIN scoped[t]
      <4>1. k = key /\ t = s /\ reg.lifetime = "scoped" /\ scoped'[t][k] = v
        BY <1>9, <3>2
      <4>2. PartsKnown(scoped[t][k].parts)' /\ PartsOfScope(t, scoped[t][k].parts)'
        BY <1>12, <4>1 DEF PartsKnown, PartsOfScope, Known
      <4> QED
        BY <1>1, <1>3, <1>4, <4>1, <4>2
    <3> QED
      BY <3>1, <3>2
  <2> QED
    BY <2>1, <2>2, <2>3 DEF CachesRight
<1>16. HandedRight'
  BY <1>1, <1>4, <1>6, <1>11, <1>14, HandsRight
<1>17. FramesRight'
  <2> DEFINE n == Len(frames)
             outer == SubSeq(frames, 1, n - 1)
  <2>1. n \in Nat /\ n >= 1
    BY <1>1, <1>4, ListFacts
  <2>2. IsList(outer) /\ Len(outer) = n - 1 /\ \A i \in 1 .. n - 1 : outer[i] = frames[i]
    BY <1>1, <1>4, ListFront
  <2>3. frames' = IF outer = <<>> THEN <<>> ELSE [outer EXCEPT ![Len(outer)].parts = Set(@, key, v)]
    BY <1>2 DEF Return
  <2> HIDE DEF outer
  <2>4. CASE outer = <<>>
    BY <2>3, <2>4, NoFrames
  <2>5. CASE outer # <<>>
    <3> DEFINE g == [outer[Len(outer)] EXCEPT !.parts = Set(@, key, v)]
    <3>1. frames' = [outer EXCEPT ![Len(outer)] = g]
      BY <2>3, <2>5
    <3> HIDE DEF g
    <3>2. /\ IsList(frames') /\ Len(frames') = Len(outer)
          /\ \A i \in 1 .. Len(outer) : frames'[i] = IF i = Len(outer) THEN g ELSE outer[i]
      BY <2>2, <2>5, <3>1, ListChangeLast, ZenonT(240)
    <3>3. \A i \in 1 .. n - 1 :
             frames'[i] = IF i = n - 1 THEN [frames[i] EXCEPT !.parts = Set(@, key, v)] ELSE frames[i]
      BY <2>2, <3>2 DEF g
    <3>4. Len(frames') = n - 1 /\ IsList(frames')
      BY <2>2, <3>2
    <3>5. \A t \in Scopes, k \in DOMAIN registrations : k # key /\ ~Cached(t, k) => ~Cached(t, k)'
      <4>1. ASSUME NEW t \in Scopes, NEW k \in DOMAIN registrations, k # key, ~Cached(t, k)
            PROVE  ~Cached(t, k)'
        <5>1. registrations[k].lifetime \in {"singleton", "scoped", "transient"}
          BY <1>1, RegistrationKnown DEF Lifetimes
        <5>2. k \in DOMAIN instances' <=> k \in DOMAIN instances
          BY <1>8, <4>1
        <5>3. k \in DOMAIN scoped'[t] <=> k \in DOMAIN scoped[t]
          BY <1>9, <4>1
        <5> QED
          BY <1>1, <4>1, <5>1, <5>2, <5>3 DEF Cached, CacheOf, NoMap
      <4> QED
        BY <4>1
    <3>6. v.from.key = key
      BY <1>3, <1>4
    <3>7. Popped(key, v) /\ NoOther(key)
      BY <3>3, <3>4, <3>5 DEF Popped, NoOther
    <3> QED
      BY <1>1, <1>2, <1>11, <1>14, <3>6, <3>7, FramesReturn
  <2> QED
    BY <2>4, <2>5
<1> QED
  BY <1>13, <1>15, <1>16, <1>17 DEF ContainerInv

LEMMA ContainerKeeps == ContainerInv /\ [ContainerNext]_containerVars => ContainerInv'
<1> SUFFICES ASSUME ContainerInv, [ContainerNext]_containerVars
             PROVE  ContainerInv'
  OBVIOUS
<1>1. ASSUME NEW key \in ServiceKeys, NEW lifetime \in Lifetimes, add(key, lifetime)
      PROVE  ContainerInv'
  <2>1. PICK r : r = Registration(key, lifetime, FALSE)
    OBVIOUS
  <2>2. r \in Regs /\ r.key = key /\ ~r.ready
    <3>1. Len(registered) + 1 \in Nat /\ buildPhase \in {"services", "overrides", "running"}
      BY LenProperties DEF ContainerInv, LastWins
    <3> QED
      BY <2>1, <3>1 DEF Registration, Regs
  <2>3. /\ buildPhase # "running" /\ registrations' = Set(registrations, r.key, r)
        /\ registered' = Append(registered, r) /\ instances' = instances
        /\ UNCHANGED <<buildPhase, scoped, frames, handed>>
    BY <1>1, <2>1, <2>2 DEF add, Registering
  <2> QED
    BY <2>2, <2>3, Registers
<1>2. ASSUME NEW key \in ServiceKeys, add_instance(key)
      PROVE  ContainerInv'
  <2>1. PICK r : r = Registration(key, "singleton", TRUE)
    OBVIOUS
  <2>2. r \in Regs /\ r.key = key /\ r.ready /\ r.lifetime = "singleton"
    <3>1. Len(registered) + 1 \in Nat /\ buildPhase \in {"services", "overrides", "running"}
      BY LenProperties DEF ContainerInv, LastWins
    <3> QED
      BY <2>1, <3>1 DEF Registration, Regs, Lifetimes
  <2>3. /\ buildPhase # "running" /\ registrations' = Set(registrations, r.key, r)
        /\ registered' = Append(registered, r) /\ instances' = Set(instances, r.key, Ready(r))
        /\ UNCHANGED <<buildPhase, scoped, frames, handed>>
    BY <1>2, <2>1, <2>2 DEF add_instance, Registering
  <2> QED
    BY <2>2, <2>3, Registers
<1>3. CASE UNCHANGED containerVars
  <2>1. /\ LastWins' /\ NothingYet' /\ CachesRight'
    BY <1>3 DEF ContainerInv, containerVars, LastWins, NothingYet, CachesRight, PartsKnown, PartsOfScope, Known
  <2>2. HandedRight'
    BY <1>3, HandedStays DEF ContainerInv, containerVars, Grown
  <2>3. FramesRight'
    <3>1. ASSUME NEW i, FrameRight(i)
          PROVE  FrameRight(i)'
      <4>1. (Cached(frames[i].scope, frames[i].reg.key)' <=> Cached(frames[i].scope, frames[i].reg.key))
            /\ NeedsOf(frames[i].reg)' = NeedsOf(frames[i].reg)
        BY <1>3 DEF containerVars, Cached, CacheOf, NeedsOf
      <4>2. /\ (PartsKnown(frames[i].parts) => PartsKnown(frames[i].parts)')
            /\ (PartsOfScope(frames[i].scope, frames[i].parts) => PartsOfScope(frames[i].scope, frames[i].parts)')
        BY <1>3 DEF containerVars, PartsKnown, PartsOfScope, Known
      <4> QED
        BY <1>3, <3>1, <4>1, <4>2 DEF containerVars, FrameRight
    <3> QED
      BY <1>3, <3>1 DEF ContainerInv, containerVars, FramesRight, IsList
  <2> QED
    BY <2>1, <2>2, <2>3 DEF ContainerInv
<1> QED
  BY <1>1, <1>2, <1>3, PhaseStep, GetServiceStep, TakeStep, ReturnStep, RaiseStep DEF ContainerNext, try_add

LEMMA LastIsRegistered == ASSUME LastWins, NEW k \in DOMAIN registrations PROVE LastFor(k) = registrations[k]
<1>1. PICK i \in DOMAIN registered :
           registered[i] = registrations[k] /\ \A j \in DOMAIN registered : registered[j].key = k => j <= i
  BY DEF LastWins
<1>2. registered[i].key = k /\ \A j \in DOMAIN registered : j \in Int
  BY <1>1, LenProperties DEF LastWins
<1> DEFINE P(m) == registered[m].key = k /\ \A j \in DOMAIN registered : registered[j].key = k => j <= m
<1>3. \A m \in DOMAIN registered : P(m) => m = i
  BY <1>1, <1>2
<1>4. P(i)
  BY <1>1, <1>2
<1>5. (CHOOSE m \in DOMAIN registered : P(m)) = i
  BY <1>3, <1>4
<1> QED
  BY <1>1, <1>5 DEF LastFor

LEMMA HandedKnown ==
    ASSUME LastWins, CachesRight, HandedRight, NEW h \in handed
    PROVE  LET service == h.service
               key == service.from.key IN
           /\ h = [scope |-> h.scope, service |-> service] /\ h.scope \in Scopes
           /\ Known(key, service) /\ PartsKnown(service.parts)
           /\ service.from.lifetime = registrations[key].lifetime
           /\ service.from.lifetime = "singleton" => service = instances[key]
           /\ service.from.lifetime = "scoped" => service = scoped[h.scope][key] /\ service.scope = h.scope
           /\ service.from.lifetime # "singleton" => PartsOfScope(h.scope, service.parts)
<1> DEFINE service == h.service
           key == service.from.key
<1>1. /\ h = [scope |-> h.scope, service |-> service] /\ h.scope \in Scopes /\ key \in DOMAIN registrations
      /\ Provided(h.scope, key, service) /\ PartsKnown(service.parts)
      /\ service.from.lifetime # "singleton" => PartsOfScope(h.scope, service.parts)
  BY DEF HandedRight
<1>2. registrations[key].lifetime \in {"singleton", "scoped", "transient"}
  BY <1>1, RegistrationKnown DEF Lifetimes
<1> HIDE DEF service
<1>3. CASE registrations[key].lifetime = "singleton"
  <2>1. key \in DOMAIN instances /\ service = instances[key]
    BY <1>1, <1>3 DEF Provided
  <2>2. /\ service.from.lifetime = "singleton"
        /\ service.from = registrations[key] \/ (service.from.ready /\ ~registrations[key].ready)
    BY <2>1 DEF CachesRight
  <2> QED
    BY <1>1, <1>3, <2>1, <2>2 DEF Known, service
<1>4. CASE registrations[key].lifetime = "scoped"
  <2>1. key \in DOMAIN scoped[h.scope] /\ service = scoped[h.scope][key]
    BY <1>1, <1>4 DEF Provided
  <2>2. service.from = registrations[key] /\ service.scope = h.scope
    BY <1>1, <2>1 DEF CachesRight
  <2> QED
    BY <1>1, <1>4, <2>1, <2>2 DEF Known, service
<1>5. CASE registrations[key].lifetime = "transient"
  <2>1. service.from = registrations[key]
    BY <1>1, <1>5 DEF Provided
  <2> QED
    BY <1>1, <1>5, <2>1 DEF Known, service
<1> QED
  BY <1>2, <1>3, <1>4, <1>5

LEMMA ContainerShows == ContainerInv => ServicesAsRegistered
<1> SUFFICES ASSUME ContainerInv
             PROVE  ServicesAsRegistered
  OBVIOUS
<1> USE DEF ContainerInv
<1>1. ASSUME NEW h \in handed, NEW k, NEW x, Known(k, x)
      PROVE  LET last == LastFor(x.from.key) IN
             x.from # last => x.from.ready /\ last.lifetime = "singleton" /\ ~last.ready
  BY <1>1, LastIsRegistered DEF Known
<1>2. OnlyInstancesOutlive
  <2>1. SUFFICES ASSUME NEW h \in handed,
                        NEW x \in {h.service} \cup {h.service.parts[k] : k \in DOMAIN h.service.parts}
                 PROVE  LET last == LastFor(x.from.key) IN
                        x.from # last => x.from.ready /\ last.lifetime = "singleton" /\ ~last.ready
    BY DEF OnlyInstancesOutlive
  <2>2. \E k : Known(k, x)
    BY HandedKnown DEF PartsKnown
  <2> QED
    BY <1>1, <2>2
<1>3. LifetimesHold
  <2>1. ASSUME NEW h \in handed, NEW g \in handed, h.service.from.lifetime = "scoped"
        PROVE  /\ h.service.scope = h.scope
               /\ h.scope = g.scope /\ g.service.from.key = h.service.from.key => g = h
    <3>1. h.service = scoped[h.scope][h.service.from.key] /\ h.service.scope = h.scope
      BY <2>1, HandedKnown
    <3>2. /\ h = [scope |-> h.scope, service |-> h.service] /\ g = [scope |-> g.scope, service |-> g.service]
      BY HandedKnown
    <3>3. ASSUME h.scope = g.scope, g.service.from.key = h.service.from.key
          PROVE  g.service = h.service
      BY <2>1, <3>1, <3>3, HandedKnown
    <3> QED
      BY <3>1, <3>2, <3>3
  <2>2. ASSUME NEW h \in handed, h.service.from.lifetime # "singleton"
        PROVE  \A k \in DOMAIN h.service.parts :
                   h.service.parts[k].from.lifetime = "scoped" => h.service.parts[k] = scoped[h.scope][k]
    BY <2>2, HandedKnown DEF PartsOfScope
  <2>3. ASSUME NEW h \in handed, NEW g \in handed,
               h.service.from.lifetime = "singleton", g.service.from.key = h.service.from.key
        PROVE  g.service = h.service
    BY <2>3, HandedKnown
  <2> QED
    BY <2>1, <2>2, <2>3 DEF LifetimesHold
<1> QED
  BY <1>2, <1>3 DEF ServicesAsRegistered

\* dependencies.py: a scope hands out what was registered, for as long as its lifetime
\* says, whatever the keys, the scopes, the factories' needs (cyclic ones included), and
\* the order in which startup and overrides registered and scopes resolved, though
\* factories raise.
THEOREM ServicesHold == ContainerSpec => []ServicesAsRegistered
<1>1. ContainerSpec => []ContainerInv
  BY ContainerStarts, ContainerKeeps, PTL DEF ContainerSpec
<1> QED
  BY <1>1, ContainerShows, PTL

(***************************************************************************)
(* Dispatch.                                                               *)
(***************************************************************************)
Keys == Seq(Nat \X Nat)

\* The natural order of versions is a strict one.
LEMMA NotLessThanItself == ASSUME NEW a \in Keys PROVE ~NaturalLess(a, a)
<1>1. \A i \in 1 .. Len(a) : a[i] \in Nat \X Nat
  BY ElementOfSeq DEF Keys
<1>2. Len(a) \in Nat
  BY LenProperties DEF Keys
<1>3. \A i \in 1 .. Len(a) : ~RunLess(a[i], a[i])
  BY <1>1 DEF RunLess
<1> QED
  BY <1>2, <1>3 DEF NaturalLess

LEMMA LessIsTransitive ==
    ASSUME NEW a \in Keys, NEW b \in Keys, NEW c \in Keys, NaturalLess(a, b), NaturalLess(b, c)
    PROVE  NaturalLess(a, c)
<1>1. /\ Len(a) \in Nat /\ Len(b) \in Nat /\ Len(c) \in Nat
      /\ \A i \in 1 .. Len(a) : a[i] \in Nat \X Nat
      /\ \A i \in 1 .. Len(b) : b[i] \in Nat \X Nat
      /\ \A i \in 1 .. Len(c) : c[i] \in Nat \X Nat
  BY ElementOfSeq, LenProperties DEF Keys
<1>2. PICK i \in 1 .. (Len(a) + 1) :
          /\ \A j \in 1 .. (i - 1) : j <= Len(b) /\ a[j] = b[j]
          /\ i <= Len(b) /\ (i > Len(a) \/ RunLess(a[i], b[i]))
  BY DEF NaturalLess
<1>3. PICK k \in 1 .. (Len(b) + 1) :
          /\ \A j \in 1 .. (k - 1) : j <= Len(c) /\ b[j] = c[j]
          /\ k <= Len(c) /\ (k > Len(b) \/ RunLess(b[k], c[k]))
  BY DEF NaturalLess
<1>4. \A x, y, z \in Nat \X Nat : RunLess(x, y) /\ RunLess(y, z) => RunLess(x, z)
  BY DEF RunLess
<1>5. CASE i < k
  <2>1. \A j \in 1 .. (i - 1) : j \in 1 .. (k - 1)
    BY <1>1, <1>5
  <2>2. i \in 1 .. (k - 1)
    BY <1>1, <1>5
  <2>3. \A j \in 1 .. (i - 1) : j <= Len(c) /\ a[j] = c[j]
    BY <1>2, <1>3, <2>1
  <2>4. i <= Len(c) /\ (i > Len(a) \/ RunLess(a[i], c[i]))
    BY <1>2, <1>3, <2>2
  <2> QED
    BY <2>3, <2>4 DEF NaturalLess
<1>6. CASE i = k
  <2>1. \A j \in 1 .. (i - 1) : j <= Len(c) /\ a[j] = c[j]
    BY <1>2, <1>3, <1>6
  <2>2. i <= Len(c) /\ RunLess(b[i], c[i])
    BY <1>1, <1>2, <1>3, <1>6
  <2>3. i > Len(a) \/ RunLess(a[i], c[i])
    <3>1. CASE i > Len(a)
      BY <3>1
    <3>2. CASE RunLess(a[i], b[i]) /\ ~(i > Len(a))
      <4>1. i \in 1 .. Len(a) /\ i \in 1 .. Len(b) /\ i \in 1 .. Len(c)
        BY <1>1, <1>2, <2>2, <3>2
      <4>2. a[i] \in Nat \X Nat /\ b[i] \in Nat \X Nat /\ c[i] \in Nat \X Nat
        BY <1>1, <4>1
      <4> QED
        BY <1>4, <2>2, <3>2, <4>2
    <3> QED
      BY <1>2, <3>1, <3>2
  <2> QED
    BY <2>1, <2>2, <2>3 DEF NaturalLess
<1>7. CASE k < i
  <2>1. k \in 1 .. (i - 1) /\ k \in 1 .. (Len(a) + 1) /\ \A j \in 1 .. (k - 1) : j \in 1 .. (i - 1)
    BY <1>1, <1>7
  <2>2. \A j \in 1 .. (k - 1) : j <= Len(c) /\ a[j] = c[j]
    BY <1>2, <1>3, <2>1
  <2>3. k <= Len(c) /\ RunLess(a[k], c[k])
    <3>1. k <= Len(b) /\ a[k] = b[k]
      BY <1>2, <2>1
    <3>2. ~(k > Len(b))
      BY <1>1, <3>1
    <3> QED
      BY <1>3, <3>1, <3>2
  <2> QED
    BY <2>1, <2>2, <2>3 DEF NaturalLess
<1> QED
  BY <1>1, <1>5, <1>6, <1>7

\* So of finitely many versions, one has none above it.
LEMMA HighestExists ==
    ASSUME NEW I, IsFiniteSet(I), I # {}, NEW key, \A i \in I : key[i] \in Keys
    PROVE  \E i \in I : \A j \in I : ~NaturalLess(key[i], key[j])
<1> DEFINE Above(i) == {j \in I : NaturalLess(key[i], key[j])}
           counts == {Cardinality(Above(i)) : i \in I}
<1>1. \A i \in I : IsFiniteSet(Above(i)) /\ Cardinality(Above(i)) \in Nat
  BY FS_Subset, FS_CardinalityType
<1>2. PICK n \in counts : \A m \in counts : n <= m
  <2>1. counts \in SUBSET Nat /\ counts # {}
    BY <1>1
  <2> HIDE DEF counts
  <2> QED
    BY <2>1, LeastExists
<1>3. PICK i \in I : n = Cardinality(Above(i))
  BY <1>2
<1>4. SUFFICES ASSUME NEW j \in I, NaturalLess(key[i], key[j])
               PROVE  FALSE
  OBVIOUS
<1>5. Above(j) \subseteq Above(i)
  BY <1>4, LessIsTransitive
<1>6. j \in Above(i) /\ j \notin Above(j)
  BY <1>4, NotLessThanItself
<1> HIDE DEF Above
<1>7. Cardinality(Above(j)) < Cardinality(Above(i))
  <2>1. Cardinality(Above(j)) <= Cardinality(Above(i))
        /\ (Cardinality(Above(j)) = Cardinality(Above(i)) => Above(j) = Above(i))
    BY <1>1, <1>5, FS_Subset
  <2> QED
    BY <1>1, <1>6, <2>1
<1>8. n <= Cardinality(Above(j)) /\ n \in Nat
  BY <1>1, <1>2, <1>3
<1> QED
  BY <1>1, <1>3, <1>7, <1>8

-----------------------------------------------------------------------------
\* The registry never breaks the law of its pairs and defaults, no message is answered
\* before the service runs, ...
RegistryRight ==
    /\ app \in Apps /\ handlers \in Seq(Definitions) /\ Lawful(handlers)
    /\ ~serving => position = 0 /\ answer = Unanswered

\* ... and a middleware that lets an untrusted message through is not authentication.
PassedBy ==
    /\ position \in Nat
    /\ answer = Unanswered /\ ~message.trusted =>
         \A q \in 1 .. position - 1 : q <= Len(app.middleware) => app.middleware[q] = "health"

DispatchInv == RegistryRight /\ PassedBy /\ AnsweredByTheRightOne

\* What a first one is.
LEMMA FirstIs ==
    ASSUME handlers \in Seq(Definitions), NEW I \in SUBSET DOMAIN handlers
    PROVE  /\ I = {} => FirstOf(I) = NoDefinition
           /\ I # {} => FirstOf(I) # NoDefinition /\ \E i \in I : FirstOf(I) = handlers[i]
<1>1. CASE I = {}
  BY <1>1 DEF FirstOf
<1>2. CASE I # {}
  <2>1. DOMAIN handlers = 1 .. Len(handlers) /\ Len(handlers) \in Nat
    BY LenProperties
  <2>2. I \in SUBSET Nat
    BY <2>1
  <2>3. \E i \in I : \A j \in I : i <= j
    BY <1>2, <2>2, LeastExists
  <2>4. PICK i \in I : FirstOf(I) = handlers[i]
    BY <1>2, <2>3 DEF FirstOf
  <2>5. handlers[i] \in Definitions
    BY <2>1, <2>4, ElementOfSeq
  <2> QED
    BY <1>2, <2>4, <2>5, DispatchAssumption
<1> QED
  BY <1>1, <1>2

\* Where exact_version should send a message, as places in the registry.
PlacesFor(t, v) ==
    IF v # "" THEN {i \in versions_of(t) : handlers[i].version = v}
    ELSE IF \E i \in versions_of(t) : handlers[i].version = "" THEN {i \in versions_of(t) : handlers[i].version = ""}
    ELSE {i \in versions_of(t) : handlers[i].default}

LEMMA ExactIs ==
    ASSUME RegistryRight, NEW t, NEW v
    PROVE  /\ PlacesFor(t, v) = {} => exact_version(t, v) = NoDefinition
           /\ PlacesFor(t, v) # {} => exact_version(t, v) # NoDefinition
                                      /\ {handlers[i] : i \in PlacesFor(t, v)} = {exact_version(t, v)}
<1> DEFINE I == PlacesFor(t, v)
           None == {i \in versions_of(t) : handlers[i].version = ""}
<1>1. I \in SUBSET DOMAIN handlers /\ None \in SUBSET DOMAIN handlers
  BY DEF PlacesFor, versions_of
<1>2. exact_version(t, v) = FirstOf(I)
  <2>1. CASE v # ""
    BY <2>1 DEF exact_version, PlacesFor, Find
  <2>2. CASE v = "" /\ None # {}
    <3>1. I = None /\ Find(t, "") = FirstOf(None)
      BY <2>2 DEF PlacesFor, Find
    <3>2. FirstOf(None) # NoDefinition
      BY <1>1, <2>2, FirstIs DEF RegistryRight
    <3> QED
      BY <2>2, <3>1, <3>2 DEF exact_version, default_for
  <2>3. CASE v = "" /\ None = {}
    <3>1. I = {i \in versions_of(t) : handlers[i].default}
      BY <2>3 DEF PlacesFor
    <3>2. Find(t, "") = NoDefinition
      BY <1>1, <2>3, FirstIs DEF RegistryRight, Find
    <3> QED
      BY <2>3, <3>1, <3>2 DEF exact_version, default_for
  <2> QED
    BY <2>1, <2>2, <2>3
<1>3. \A i, j \in I : i = j
  BY DEF RegistryRight, Lawful, PlacesFor, versions_of
<1>4. CASE I = {}
  BY <1>1, <1>2, <1>4, FirstIs DEF RegistryRight
<1>5. CASE I # {}
  <2>1. FirstOf(I) # NoDefinition /\ \E i \in I : FirstOf(I) = handlers[i]
    BY <1>1, <1>5, FirstIs DEF RegistryRight
  <2> QED
    BY <1>2, <1>3, <1>5, <2>1
<1> QED
  BY <1>4, <1>5

\* The handler that is selected is in its place; none is selected only when there is none.
RightFor(t, v, d) ==
    IF PlacesFor(t, v) # {} THEN {handlers[i] : i \in PlacesFor(t, v)} = {d}
    ELSE /\ app.selector # "exact"
         /\ \E i \in versions_of(t) :
                d = handlers[i] /\ \A j \in versions_of(t) : ~NaturalLess(handlers[i].key, handlers[j].key)

LEMMA SelectedRight ==
    ASSUME RegistryRight, NEW t, NEW v, Selected(t, v) # NoDefinition
    PROVE  RightFor(t, v, Selected(t, v))
<1> DEFINE d == Selected(t, v)
           all == versions_of(t)
           top == {i \in all : \A j \in all : ~NaturalLess(handlers[i].key, handlers[j].key)}
<1>1. CASE exact_version(t, v) # NoDefinition
  <2>1. d = exact_version(t, v)
    BY <1>1 DEF Selected, highest_version
  <2> QED
    BY <1>1, <2>1, ExactIs DEF RightFor
<1>2. CASE exact_version(t, v) = NoDefinition
  <2>1. PlacesFor(t, v) = {}
    BY <1>2, ExactIs
  <2>2. app.selector # "exact" /\ d = FirstOf(top)
    BY <1>2 DEF Selected, highest_version
  <2>3. top \in SUBSET DOMAIN handlers
    BY DEF versions_of
  <2>4. \E i \in top : d = handlers[i]
    BY <2>2, <2>3, FirstIs DEF RegistryRight
  <2> QED
    BY <2>1, <2>2, <2>4 DEF RightFor
<1> QED
  BY <1>1, <1>2

\* And with the selector that opts in, a topic that is served at all is answered.
LEMMA HighestFinds ==
    ASSUME RegistryRight, NEW t, NEW v, app.selector # "exact", versions_of(t) # {}
    PROVE  Selected(t, v) # NoDefinition
<1> DEFINE all == versions_of(t)
           key == [i \in DOMAIN handlers |-> handlers[i].key]
           top == {i \in all : \A j \in all : ~NaturalLess(handlers[i].key, handlers[j].key)}
<1>1. DOMAIN handlers = 1 .. Len(handlers) /\ Len(handlers) \in Nat /\ all \subseteq DOMAIN handlers
  BY LenProperties DEF RegistryRight, versions_of
<1>2. IsFiniteSet(all)
  <2>1. IsFiniteSet(DOMAIN handlers)
    BY <1>1, FS_Interval
  <2> HIDE DEF all
  <2> QED
    BY <1>1, <2>1, FS_Subset
<1>3. \A i \in all : key[i] = handlers[i].key /\ key[i] \in Keys
  BY <1>1, ElementOfSeq, DispatchAssumption DEF RegistryRight, Keys
<1> HIDE DEF key
<1>4. \E i \in all : \A j \in all : ~NaturalLess(key[i], key[j])
  <2>1. all # {} /\ \A i \in all : key[i] \in Keys
    BY <1>3
  <2> HIDE DEF all
  <2> QED
    BY <1>2, <2>1, HighestExists
<1>5. top # {} /\ top \in SUBSET DOMAIN handlers
  BY <1>1, <1>3, <1>4
<1>6. FirstOf(top) # NoDefinition
  BY <1>5, FirstIs DEF RegistryRight
<1> QED
  BY <1>6 DEF Selected, highest_version

\* The same, as handlers: what HandledByTheRightVersion speaks of.
SameTopic == {x \in Served : x.topic = message.topic}
Wanted ==
    IF message.version # "" THEN {x \in SameTopic : x.version = message.version}
    ELSE IF \E x \in SameTopic : x.version = "" THEN {x \in SameTopic : x.version = ""}
    ELSE {x \in SameTopic : x.default}

LEMMA PlacesAreHandlers ==
    /\ SameTopic = {handlers[i] : i \in versions_of(message.topic)}
    /\ Wanted = {handlers[i] : i \in PlacesFor(message.topic, message.version)}
<1>1. SameTopic = {handlers[i] : i \in versions_of(message.topic)}
  BY DEF SameTopic, Served, ToSet, versions_of
<1>2. Wanted = {handlers[i] : i \in PlacesFor(message.topic, message.version)}
  <2>1. CASE message.version # ""
    BY <1>1, <2>1 DEF Wanted, PlacesFor
  <2>2. CASE message.version = ""
    <3>1. (\E x \in SameTopic : x.version = "") <=> \E i \in versions_of(message.topic) : handlers[i].version = ""
      BY <1>1
    <3> QED
      BY <1>1, <2>2, <3>1 DEF Wanted, PlacesFor
  <2> QED
    BY <2>1, <2>2
<1> QED
  BY <1>1, <1>2

LEMMA NobodyIsNotServed == RegistryRight => NoDefinition \notin Served
<1> SUFFICES ASSUME RegistryRight, NEW i \in DOMAIN handlers, handlers[i] = NoDefinition
             PROVE  FALSE
  BY DEF Served, ToSet
<1>1. handlers[i] \in Definitions
  BY ElementOfSeq, LenProperties DEF RegistryRight
<1> QED
  BY <1>1, DispatchAssumption

LEMMA DispatchStarts == DispatchInit => DispatchInv
<1> SUFFICES ASSUME DispatchInit
             PROVE  DispatchInv
  OBVIOUS
<1>1. RegistryRight
  BY DispatchAssumption DEF DispatchInit, DispatchStart, RegistryRight
<1>2. PassedBy
  BY DEF DispatchInit, DispatchStart, PassedBy
<1>3. answer.status = "none" /\ answer.by = NoDefinition /\ answer.report = NoReport /\ answer = Unanswered
  BY DEF DispatchInit, DispatchStart, Unanswered, Answers
<1>4. AnsweredByTheRightOne
  BY <1>1, <1>3, NobodyIsNotServed DEF AnsweredByTheRightOne, HandledByTheRightVersion, IgnoredOnlyForeign,
     AuthenticationGuards, HealthReportHonest
<1> QED
  BY <1>1, <1>2, <1>4 DEF DispatchInv

\* A step that leaves the message unanswered.
LEMMA NotAnswered ==
    ASSUME RegistryRight', answer' = Unanswered
    PROVE  AnsweredByTheRightOne'
<1>1. NoDefinition \notin Served'
  <2> SUFFICES ASSUME NEW i \in DOMAIN handlers', handlers'[i] = NoDefinition
               PROVE  FALSE
    BY DEF Served, ToSet
  <2>1. handlers'[i] \in Definitions
    BY ElementOfSeq, LenProperties DEF RegistryRight
  <2> QED
    BY <2>1, DispatchAssumption
<1>2. answer'.status = "none" /\ answer'.by = NoDefinition /\ answer'.report = NoReport
  BY DEF Unanswered, Answers
<1> QED
  BY <1>1, <1>2 DEF AnsweredByTheRightOne, HandledByTheRightVersion, IgnoredOnlyForeign,
     AuthenticationGuards, HealthReportHonest

LEMMA AddStep ==
    ASSUME DispatchInv, NEW d \in Definitions, AddDefinition(d)
    PROVE  DispatchInv'
<1> USE DEF DispatchInv, AddDefinition
<1>1. /\ handlers' = Append(handlers, d) /\ handlers \in Seq(Definitions)
      /\ handlers' \in Seq(Definitions) /\ Len(handlers) \in Nat /\ DOMAIN handlers = 1 .. Len(handlers)
      /\ DOMAIN handlers' = 1 .. Len(handlers) + 1 /\ handlers'[Len(handlers) + 1] = d
      /\ \A i \in 1 .. Len(handlers) : handlers'[i] = handlers[i]
  BY AppendProperties, LenProperties DEF RegistryRight
<1>2. \A i \in DOMAIN handlers' : i = Len(handlers) + 1 \/ i \in DOMAIN handlers
  BY <1>1
<1>3. Lawful(handlers')
  <2>1. \A i \in DOMAIN handlers : handlers[i].topic = d.topic =>
            handlers[i].version # d.version /\ ~(handlers[i].default /\ d.default)
    BY DEF Accepted
  <2> QED
    BY <1>1, <1>2, <2>1 DEF Lawful, RegistryRight
<1>4. RegistryRight' /\ answer' = Unanswered
  BY <1>1, <1>3 DEF RegistryRight
<1>5. PassedBy'
  BY DEF PassedBy
<1> QED
  BY <1>4, <1>5, NotAnswered

LEMMA BuildStep == DispatchInv /\ BuildApp => DispatchInv'
<1> SUFFICES ASSUME DispatchInv, BuildApp
             PROVE  DispatchInv'
  OBVIOUS
<1>1. RegistryRight' /\ PassedBy' /\ answer' = Unanswered
  BY DEF DispatchInv, BuildApp, RegistryRight, PassedBy
<1> QED
  BY <1>1, NotAnswered DEF DispatchInv

LEMMA ReceiveStep == ASSUME DispatchInv, NEW m \in Inbound, Receive(m) PROVE DispatchInv'
<1>1. RegistryRight' /\ PassedBy' /\ answer' = Unanswered
  BY DEF DispatchInv, Receive, RegistryRight, PassedBy
<1> QED
  BY <1>1, NotAnswered DEF DispatchInv

\* The startup's own middleware comes first.
LEMMA PipelineStarts ==
    ASSUME RegistryRight, NEW q \in 1 .. Len(app.middleware)
    PROVE  Pipeline[q] = app.middleware[q] /\ app.middleware[q] \in {"auth", "health"}
<1> DEFINE Names == {"auth", "health", "spec", "router"}
           h == IF app.checks /\ ~Contains(app.middleware, "health") THEN <<"health">> ELSE <<>>
           s == IF app.contract THEN <<"spec">> ELSE <<>>
           r == <<"router">>
<1>1. h \in Seq(Names) /\ s \in Seq(Names) /\ r \in Seq(Names)
  <2>1. \A x \in Names : <<x>> \in Seq(Names)
    OBVIOUS
  <2>2. "health" \in Names /\ "spec" \in Names /\ "router" \in Names /\ <<>> \in Seq(Names)
    OBVIOUS
  <2> HIDE DEF Names
  <2> QED
    BY <2>1, <2>2
<1>2. app.middleware \in Seq({"auth", "health"})
  BY DispatchAssumption DEF RegistryRight
<1>3. app.middleware \in Seq(Names)
  BY <1>2, SeqMonotonic
<1> HIDE DEF h, s, r
<1>4. (h \o s) \o r \in Seq(Names)
  BY <1>1, ConcatProperties
<1>5. Pipeline = app.middleware \o ((h \o s) \o r)
  BY DEF Pipeline, h, s, r
<1>6. Pipeline[q] = app.middleware[q]
  <2> DEFINE m == app.middleware
             rest == (h \o s) \o r
  <2>1. m \in Seq(Names) /\ rest \in Seq(Names) /\ q \in 1 .. Len(m)
    BY <1>3, <1>4
  <2> HIDE DEF m, rest
  <2>2. Len(m) \in Nat /\ Len(rest) \in Nat /\ q \in 1 .. Len(m) + Len(rest) /\ q <= Len(m)
    BY <2>1, LenProperties
  <2>3. (m \o rest)[q] = m[q]
    BY <2>1, <2>2, ConcatProperties
  <2> QED
    BY <1>5, <2>3 DEF m, rest
<1> QED
  BY <1>2, <1>6, ElementOfSeq

\* Who comes by an untrusted message, with authentication in the startup's middleware.
LEMMA OnlyHealthBefore ==
    ASSUME DispatchInv, NEW name, name # "auth", Here(name), Contains(app.middleware, "auth"), ~message.trusted
    PROVE  name = "health" /\ app.middleware[1] = "health"
<1>1. /\ position \in Nat /\ position > 0 /\ Pipeline[position] = name
      /\ \A q \in 1 .. position - 1 : q <= Len(app.middleware) => app.middleware[q] = "health"
  BY DEF DispatchInv, PassedBy, Here
<1>2. Len(app.middleware) \in Nat
  BY LenProperties, DispatchAssumption DEF DispatchInv, RegistryRight
<1>3. PICK a \in 1 .. Len(app.middleware) : app.middleware[a] = "auth"
  BY DEF Contains
<1>4. position <= Len(app.middleware)
  BY <1>1, <1>2, <1>3
<1>5. app.middleware[position] = name /\ name \in {"auth", "health"}
  BY <1>1, <1>2, <1>4, PipelineStarts DEF DispatchInv
<1>6. name = "health"
  BY <1>5
<1>7. CASE position = 1
  BY <1>5, <1>6, <1>7
<1>8. CASE position # 1
  <2>1. 1 \in 1 .. position - 1 /\ 1 <= Len(app.middleware)
    BY <1>1, <1>2, <1>4, <1>8
  <2> QED
    BY <1>1, <1>6, <2>1
<1> QED
  BY <1>7, <1>8

\* An answer, and what makes it the right one.
LEMMA ReplyRight ==
    ASSUME DispatchInv, position > 0, answer = Unanswered, NEW status, NEW by, NEW report, Reply(status, by, report),
           by \in Served => RightFor(message.topic, message.version, by),
           status = "not-found" =>
               /\ PlacesFor(message.topic, message.version) = {}
               /\ app.selector = "highest" => versions_of(message.topic) = {},
           status = "ignored" => message.ignore /\ versions_of(message.topic) = {},
           Contains(app.middleware, "auth") /\ ~message.trusted =>
               status = "unauthorized" \/ (app.middleware[1] = "health" /\ message.topic = HEALTH_TOPIC),
           report = NoReport \/ \E outcome \in [HealthCheckNames -> CheckOutcomes] : report = Report(outcome)
    PROVE  DispatchInv'
<1>1. /\ answer' = Answers(status, by, report) /\ UNCHANGED <<handlers, app, serving, message, position>>
      /\ answer'.status = status /\ answer'.by = by /\ answer'.report = report
  BY DEF Reply, Answers
<1>2. serving /\ app.selector \in {"exact", "highest"}
  BY DispatchAssumption DEF DispatchInv, RegistryRight
<1>3. RegistryRight' /\ PassedBy'
  <2>1. RegistryRight'
    BY <1>1, <1>2 DEF DispatchInv, RegistryRight
  <2>2. PassedBy'
    BY <1>1 DEF DispatchInv, PassedBy
  <2> QED
    BY <2>1, <2>2
<1>4. HandledByTheRightVersion'
  <2>1. by \in Served => IF Wanted # {} THEN Wanted = {by}
                         ELSE /\ app.selector = "highest" /\ by \in SameTopic
                              /\ \A x \in SameTopic : ~NaturalLess(by.key, x.key)
    <3>1. Wanted # {} <=> PlacesFor(message.topic, message.version) # {}
      BY PlacesAreHandlers
    <3>2. CASE Wanted # {}
      BY <3>1, <3>2, PlacesAreHandlers DEF RightFor
    <3>3. CASE Wanted = {}
      BY <1>2, <3>1, <3>3, PlacesAreHandlers DEF RightFor
    <3> QED
      BY <3>2, <3>3
  <2>2. status = "not-found" => Wanted = {} /\ (app.selector = "highest" => SameTopic = {})
    BY PlacesAreHandlers
  <2>3. Served' = Served
    BY <1>1 DEF Served
  <2> QED
    BY <1>1, <2>1, <2>2, <2>3, ZenonT(60) DEF HandledByTheRightVersion, Wanted, SameTopic
<1>5. IgnoredOnlyForeign'
  BY <1>1, PlacesAreHandlers DEF IgnoredOnlyForeign, SameTopic, Served
<1>6. AuthenticationGuards'
  BY <1>1 DEF AuthenticationGuards, Contains
<1>7. HealthReportHonest'
  <2>1. CASE report = NoReport
    BY <1>1, <2>1 DEF HealthReportHonest
  <2>2. ASSUME NEW outcome \in [HealthCheckNames -> CheckOutcomes], report = Report(outcome)
        PROVE  HealthReportHonest'
    <3> DEFINE result == [c \in HealthCheckNames |->
                              CASE outcome[c] \in {"ok", "true"} -> "ok"
                                [] outcome[c] = "warning" -> "warning"
                                [] outcome[c] \in {"failed", "false", "raises"} -> "failed"]
    <3>1. \A c \in HealthCheckNames : result[c] \in {"ok", "warning", "failed"}
      BY DispatchAssumption
    <3>2. report.checks = result /\ report.healthy = (\A c \in HealthCheckNames : result[c] # "failed")
      BY <2>2 DEF Report
    <3>3. DOMAIN result = HealthCheckNames
      OBVIOUS
    <3> HIDE DEF result
    <3>4. (\A c \in HealthCheckNames : result[c] # "failed") = (\A c \in HealthCheckNames : result[c] \in {"ok", "warning"})
      BY <3>1
    <3> QED
      BY <1>1, <3>2, <3>3, <3>4 DEF HealthReportHonest
  <2> QED
    BY <2>1, <2>2
<1> QED
  BY <1>3, <1>4, <1>5, <1>6, <1>7 DEF DispatchInv, AnsweredByTheRightOne

\* A middleware that lets the message go on.
LEMMA PassRight ==
    ASSUME DispatchInv, NEW name, Here(name), name # "auth" \/ message.trusted, Pass
    PROVE  DispatchInv'
<1>1. /\ position \in Nat /\ position > 0 /\ answer = Unanswered /\ Pipeline[position] = name
      /\ position' = position + 1 /\ UNCHANGED <<handlers, app, serving, message, answer>>
  BY DEF DispatchInv, PassedBy, Here, Pass
<1>2. Len(app.middleware) \in Nat
  BY LenProperties, DispatchAssumption DEF DispatchInv, RegistryRight
<1>3. RegistryRight' /\ answer' = Unanswered
  <2>1. serving
    BY <1>1 DEF DispatchInv, RegistryRight
  <2> QED
    BY <1>1, <2>1 DEF DispatchInv, RegistryRight
<1>4. ASSUME ~message.trusted, NEW q \in 1 .. position, q <= Len(app.middleware)
      PROVE  app.middleware[q] = "health"
  <2>1. CASE q = position
    <3>1. app.middleware[q] = name /\ name \in {"auth", "health"}
      BY <1>1, <1>2, <1>4, <2>1, PipelineStarts DEF DispatchInv
    <3> QED
      BY <1>4, <3>1
  <2>2. CASE q # position
    <3>1. q \in 1 .. position - 1
      BY <1>1, <2>2
    <3> QED
      BY <1>1, <1>4, <3>1 DEF DispatchInv, PassedBy
  <2> QED
    BY <2>1, <2>2
<1>5. PassedBy'
  <2>1. position' \in Nat /\ position' - 1 = position
    BY <1>1
  <2> QED
    BY <1>1, <1>4, <2>1 DEF PassedBy
<1> QED
  BY <1>3, <1>5, NotAnswered DEF DispatchInv

LEMMA AuthenticateStep == DispatchInv /\ Authenticate => DispatchInv'
<1> SUFFICES ASSUME DispatchInv, Authenticate
             PROVE  DispatchInv'
  OBVIOUS
<1>1. Here("auth") /\ position > 0 /\ answer = Unanswered
  BY DEF Authenticate, Here
<1>2. CASE message.trusted
  BY <1>1, <1>2, PassRight DEF Authenticate
<1>3. CASE ~message.trusted
  <2>1. Reply("unauthorized", NoDefinition, NoReport)
    BY <1>3 DEF Authenticate
  <2>2. NoDefinition \notin Served
    BY NobodyIsNotServed DEF DispatchInv
  <2> QED
    BY <1>1, <2>1, <2>2, ReplyRight
<1> QED
  BY <1>2, <1>3

LEMMA HealthStep == DispatchInv /\ health_interception => DispatchInv'
<1> SUFFICES ASSUME DispatchInv, health_interception
             PROVE  DispatchInv'
  OBVIOUS
<1>1. Here("health") /\ position > 0 /\ answer = Unanswered
  BY DEF health_interception, Here
<1>2. CASE message.topic = HEALTH_TOPIC
  <2>1. PICK outcome \in [HealthCheckNames -> CheckOutcomes] : Reply("ok", NoDefinition, Report(outcome))
    BY <1>2 DEF health_interception
  <2>2. NoDefinition \notin Served
    BY NobodyIsNotServed DEF DispatchInv
  <2>3. Contains(app.middleware, "auth") /\ ~message.trusted => app.middleware[1] = "health"
    BY <1>1, OnlyHealthBefore
  <2> QED
    BY <1>1, <1>2, <2>1, <2>2, <2>3, ReplyRight
<1>3. CASE message.topic # HEALTH_TOPIC
  BY <1>1, <1>3, PassRight DEF health_interception
<1> QED
  BY <1>2, <1>3

LEMMA SpecStep == DispatchInv /\ spec_interception => DispatchInv'
<1> SUFFICES ASSUME DispatchInv, spec_interception
             PROVE  DispatchInv'
  OBVIOUS
<1>1. Here("spec") /\ position > 0 /\ answer = Unanswered
  BY DEF spec_interception, Here
<1>2. CASE message.topic = SPEC_TOPIC
  <2>1. Reply("ok", NoDefinition, NoReport)
    BY <1>2 DEF spec_interception
  <2>2. NoDefinition \notin Served
    BY NobodyIsNotServed DEF DispatchInv
  <2>3. ~(Contains(app.middleware, "auth") /\ ~message.trusted)
    BY <1>1, OnlyHealthBefore
  <2> QED
    BY <1>1, <2>1, <2>2, <2>3, ReplyRight
<1>3. CASE message.topic # SPEC_TOPIC
  BY <1>1, <1>3, PassRight DEF spec_interception
<1> QED
  BY <1>2, <1>3

LEMMA RouteStep == DispatchInv /\ (RouteAway \/ Handle) => DispatchInv'
<1> SUFFICES ASSUME DispatchInv, RouteAway \/ Handle
             PROVE  DispatchInv'
  OBVIOUS
<1>1. Here("router") /\ position > 0 /\ answer = Unanswered
  BY DEF RouteAway, Handle, Here
<1>2. NoDefinition \notin Served /\ RegistryRight
  BY NobodyIsNotServed DEF DispatchInv
<1>3. ~(Contains(app.middleware, "auth") /\ ~message.trusted)
  BY <1>1, OnlyHealthBefore
<1>4. ASSUME NEW status, status \notin {"not-found", "ignored"}, Reply(status, NoDefinition, NoReport)
      PROVE  DispatchInv'
  BY <1>1, <1>2, <1>3, <1>4, ReplyRight
<1>5. ASSUME Selected(message.topic, message.version) = NoDefinition, Reply(NoHandler, NoDefinition, NoReport)
      PROVE  DispatchInv'
  <2>1. PlacesFor(message.topic, message.version) = {}
    <3>1. Selected(message.topic, message.version) = exact_version(message.topic, message.version)
          \/ exact_version(message.topic, message.version) = NoDefinition
      BY DEF Selected, highest_version
    <3> QED
      BY <1>2, <1>5, <3>1, ExactIs
  <2>2. app.selector = "highest" => versions_of(message.topic) = {}
    BY <1>2, <1>5, HighestFinds
  <2>3. NoHandler = "ignored" => message.ignore /\ versions_of(message.topic) = {}
    BY DEF NoHandler
  <2> HIDE DEF NoHandler
  <2> QED
    BY <1>1, <1>2, <1>3, <1>5, <2>1, <2>2, <2>3, ReplyRight
<1>6. ASSUME NEW status \in {"bad-request", "service-unavailable", "ok"},
             Selected(message.topic, message.version) # NoDefinition,
             Reply(status, Selected(message.topic, message.version), NoReport)
      PROVE  DispatchInv'
  <2>1. PICK d : d = Selected(message.topic, message.version)
    OBVIOUS
  <2>2. RightFor(message.topic, message.version, d) /\ Reply(status, d, NoReport)
    BY <1>2, <1>6, <2>1, SelectedRight
  <2> QED
    BY <1>1, <1>3, <2>2, ReplyRight
<1> QED
  BY <1>4, <1>5, <1>6 DEF RouteAway, Handle

LEMMA DispatchKeeps == DispatchInv /\ [DispatchNext]_dispatchVars => DispatchInv'
<1> SUFFICES ASSUME DispatchInv, [DispatchNext]_dispatchVars
             PROVE  DispatchInv'
  OBVIOUS
<1>1. CASE UNCHANGED dispatchVars
  <2> USE <1>1 DEF dispatchVars
  <2>1. RegistryRight' /\ PassedBy'
    BY DEF DispatchInv, RegistryRight, PassedBy
  <2>2. HandledByTheRightVersion' /\ IgnoredOnlyForeign'
    BY DEF DispatchInv, AnsweredByTheRightOne, HandledByTheRightVersion, IgnoredOnlyForeign, Served
  <2>3. AuthenticationGuards' /\ HealthReportHonest'
    BY DEF DispatchInv, AnsweredByTheRightOne, AuthenticationGuards, HealthReportHonest, Contains
  <2> QED
    BY <2>1, <2>2, <2>3 DEF DispatchInv, AnsweredByTheRightOne
<1> QED
  BY <1>1, AddStep, BuildStep, ReceiveStep, AuthenticateStep, HealthStep, SpecStep, RouteStep DEF DispatchNext

\* registry.py, pipeline.py, router.py, health.py: whatever the handlers, applications,
\* messages and health checks, each message is answered by whom it should be: the handler
\* of the right version, middleware of the reserved topics behind authentication, an
\* honest health report, or the router for what is not this service's.
THEOREM MessagesAnswered == DispatchSpec => []AnsweredByTheRightOne
<1>1. DispatchSpec => []DispatchInv
  BY DispatchStarts, DispatchKeeps, PTL DEF DispatchSpec
<1>2. DispatchInv => AnsweredByTheRightOne
  BY DEF DispatchInv
<1> QED
  BY <1>1, <1>2, PTL

(***************************************************************************)
(* Replies.                                                                *)
(***************************************************************************)
\* The k-th of some numbers, counted from below, is there.
LEMMA NthExists ==
    ASSUME NEW n \in Nat, NEW S, S \cap (1 .. n) = S, NEW k \in 1 .. Cardinality(S)
    PROVE  \E i \in S : Cardinality(S \cap (1 .. i)) = k
<1> DEFINE Below(i) == 1 .. i
           Upto(i) == S \cap Below(i)
           c(i) == Cardinality(Upto(i))
<1>1. /\ IsFiniteSet(Below(n)) /\ Below(0) = {} /\ S \cap Below(n) = S
      /\ \A i \in 1 .. n : Below(i) = Below(i - 1) \cup {i} /\ i \notin Below(i - 1)
      /\ \A i \in Below(n) : i \in 1 .. n
      /\ \A i \in 1 .. n : i \in Below(n)
  <2>1. IsFiniteSet(1 .. n)
    BY FS_Interval
  <2>2. \A i \in 1 .. n : 1 .. i = (1 .. i - 1) \cup {i} /\ i \notin 1 .. i - 1
    OBVIOUS
  <2>3. 1 .. 0 = {}
    OBVIOUS
  <2> QED
    BY <2>1, <2>2, <2>3
<1> HIDE DEF Below
<1>2. IsFiniteSet(S) /\ Cardinality(S) \in Nat /\ S \subseteq Below(n)
  BY <1>1, FS_Subset, FS_CardinalityType
<1>3. \A i \in Nat : IsFiniteSet(Upto(i)) /\ c(i) \in Nat
  BY <1>2, FS_Subset, FS_CardinalityType
<1>4. \A i \in 1 .. n : c(i) = IF i \in S THEN c(i - 1) + 1 ELSE c(i - 1)
  <2> SUFFICES ASSUME NEW i \in 1 .. n PROVE c(i) = IF i \in S THEN c(i - 1) + 1 ELSE c(i - 1)
    OBVIOUS
  <2>1. i - 1 \in Nat /\ i \notin Upto(i - 1)
    BY <1>1
  <2>2. CASE i \in S
    <3>1. Upto(i) = Upto(i - 1) \cup {i}
      BY <1>1, <2>2
    <3> QED
      BY <3>1, <2>1, <2>2, <1>3, FS_AddElement
  <2>3. CASE i \notin S
    <3>1. Upto(i) = Upto(i - 1)
      BY <1>1, <2>3
    <3> QED
      BY <3>1, <2>3
  <2> QED
    BY <2>2, <2>3
<1>5. c(0) = 0 /\ c(n) = Cardinality(S)
  BY <1>1, FS_EmptySet
<1> HIDE DEF c, Upto
<1> DEFINE reach == {i \in 0 .. n : c(i) >= k}
<1>6. n \in reach /\ reach \in SUBSET Nat
  BY <1>2, <1>5
<1>7. PICK i \in reach : \A x \in reach : i <= x
  BY <1>6, LeastExists
<1>8. i \in 1 .. n
  BY <1>2, <1>5, <1>7
<1>9. i - 1 \in 0 .. n /\ ~(c(i - 1) >= k) /\ c(i - 1) \in Nat
  BY <1>3, <1>7, <1>8
<1>10. i \in S /\ c(i) = k
  BY <1>2, <1>4, <1>7, <1>8, <1>9
<1> QED
  BY <1>10 DEF c, Upto, Below

\* WithMessage keeps errors, and of errors with a message all of them.
LEMMA WithMessageKeeps ==
    ASSUME NEW errors \in Errors
    PROVE  /\ WithMessage(errors) \in Errors
           /\ \A k \in DOMAIN WithMessage(errors) : WithMessage(errors)[k].message # <<>>
           /\ WithMessage(errors) # <<>> => \E i \in DOMAIN errors : errors[i].message # <<>>
           /\ (\A i \in DOMAIN errors : errors[i].message # <<>>) => WithMessage(errors) = errors
<1> DEFINE n == Len(errors)
           E == [message : Texts, field : [kind : FieldKinds, path : Seq(Texts)], code : Words]
           said == {i \in DOMAIN errors : errors[i].message # <<>>}
           Nth(k) == CHOOSE i \in said : Cardinality(said \cap (1 .. i)) = k
           W == [k \in 1 .. Cardinality(said) |-> errors[Nth(k)]]
<1>1. /\ errors \in Seq(E) /\ n \in Nat /\ DOMAIN errors = 1 .. n
      /\ said \cap (1 .. n) = said /\ \A i \in 1 .. n : errors[i] \in E
  <2>1. errors \in Seq(E)
    BY DEF Errors
  <2> HIDE DEF E
  <2> QED
    BY <2>1
<1>2. IsFiniteSet(said) /\ Cardinality(said) \in Nat
  <2>1. IsFiniteSet(DOMAIN errors) /\ said \subseteq DOMAIN errors
    BY <1>1, FS_Interval
  <2> QED
    BY <2>1, FS_Subset, FS_CardinalityType
<1>3. WithMessage(errors) = W
  BY DEF WithMessage
<1>4. \A k \in 1 .. Cardinality(said) : Nth(k) \in said /\ Cardinality(said \cap (1 .. Nth(k))) = k
  <2> SUFFICES ASSUME NEW k \in 1 .. Cardinality(said)
               PROVE  Nth(k) \in said /\ Cardinality(said \cap (1 .. Nth(k))) = k
    OBVIOUS
  <2>1. \E i \in said : Cardinality(said \cap (1 .. i)) = k
    <3> HIDE DEF said
    <3> QED
      BY <1>1, NthExists
  <2> HIDE DEF said
  <2> QED
    BY <2>1
<1>5. \A k \in 1 .. Cardinality(said) : errors[Nth(k)].message # <<>> /\ errors[Nth(k)] \in E
  <2> HIDE DEF Nth, E
  <2> QED
    BY <1>1, <1>4
<1>6. W \in Seq(E) /\ DOMAIN W = 1 .. Cardinality(said) /\ \A k \in DOMAIN W : W[k].message # <<>>
  <2> HIDE DEF Nth, said, E
  <2> QED
    BY <1>2, <1>5
<1>7. W # <<>> => said # {}
  <2> SUFFICES ASSUME said = {} PROVE W = <<>>
    OBVIOUS
  <2>1. Cardinality(said) = 0
    BY FS_EmptySet
  <2> HIDE DEF Nth, said
  <2> QED
    BY <1>6, <2>1
<1>8. ASSUME \A i \in DOMAIN errors : errors[i].message # <<>> PROVE W = errors
  <2>1. said = DOMAIN errors
    BY <1>8
  <2> HIDE DEF said
  <2>2. Cardinality(said) = n /\ said = 1 .. n
    <3>1. said = 1 .. n
      BY <1>1, <2>1
    <3>2. Cardinality(1 .. n) = n
      <4>1. n \in Nat
        BY <1>1
      <4> HIDE DEF n
      <4>2. Cardinality(1 .. n) = IF 1 > n THEN 0 ELSE n - 1 + 1
        BY <4>1, FS_Interval
      <4> QED
        BY <4>1, <4>2
    <3> QED
      BY <3>1, <3>2
  <2>3. ASSUME NEW k \in 1 .. n PROVE Nth(k) = k
    <3>1. Nth(k) \in 1 .. n /\ Cardinality(said \cap (1 .. Nth(k))) = k
      BY <1>4, <2>2
    <3> HIDE DEF Nth
    <3>2. said \cap (1 .. Nth(k)) = 1 .. Nth(k)
      BY <2>2, <3>1
    <3>3. Cardinality(1 .. Nth(k)) = Nth(k)
      BY <3>1, FS_Interval
    <3> QED
      BY <3>1, <3>2, <3>3
  <2> HIDE DEF Nth, E
  <2>4. DOMAIN W = 1 .. n /\ \A k \in 1 .. n : W[k] = errors[k]
    BY <2>2, <2>3
  <2>5. errors = [k \in 1 .. n |-> errors[k]]
    BY <1>1
  <2> QED
    BY <2>2, <2>3, <2>5
<1>9. said # {} => \E i \in DOMAIN errors : errors[i].message # <<>>
  OBVIOUS
<1> HIDE DEF W, said
<1> QED
  BY <1>3, <1>6, <1>7, <1>8, <1>9 DEF Errors

\* f holds the joins of every beginning of s.
IsJoin(f, s, n) == f = [i \in 1 .. n |-> IF i = 1 THEN s[i] ELSE f[i - 1] \o s[i]]

LEMMA JoinExists ==
    ASSUME NEW T, NEW s \in Seq(Seq(T))
    PROVE  \E f : IsJoin(f, s, Len(s))
<1> DEFINE fails == {n \in 0 .. Len(s) : ~\E f : IsJoin(f, s, n)}
<1>0. Len(s) \in Nat
  OBVIOUS
<1>1. SUFFICES ASSUME fails # {} PROVE FALSE
  BY <1>0
<1>2. PICK n \in fails : \A m \in fails : n <= m
  <2>1. fails \in SUBSET Nat
    OBVIOUS
  <2> HIDE DEF fails
  <2> QED
    BY <1>1, <2>1, LeastExists
<1>3. n # 0
  <2>1. IsJoin([i \in {} |-> <<>>], s, 0)
    BY DEF IsJoin
  <2> QED
    BY <2>1
<1>4. n \in 1 .. Len(s) /\ n - 1 \in 0 .. Len(s) /\ n - 1 \notin fails
  <2>1. n \in 0 .. Len(s)
    OBVIOUS
  <2>2. n - 1 \in fails => n <= n - 1
    BY <1>2
  <2> HIDE DEF fails
  <2> QED
    BY <1>0, <1>3, <2>1, <2>2
<1>5. PICK f : IsJoin(f, s, n - 1)
  BY <1>4
<1>6. PICK last : last = IF n = 1 THEN s[n] ELSE f[n - 1] \o s[n]
  OBVIOUS
<1>7. PICK g : g = [i \in 1 .. n |-> IF i = n THEN last ELSE f[i]]
  OBVIOUS
<1>8. \A i \in 1 .. n : g[i] = IF i = 1 THEN s[i] ELSE g[i - 1] \o s[i]
  <2> SUFFICES ASSUME NEW i \in 1 .. n PROVE g[i] = IF i = 1 THEN s[i] ELSE g[i - 1] \o s[i]
    OBVIOUS
  <2>1. CASE i = n
    BY <2>1, <1>4, <1>6, <1>7
  <2>2. CASE i # n
    <3>1. i \in 1 .. n - 1 /\ g[i] = f[i]
      BY <2>2, <1>4, <1>7
    <3>2. f[i] = IF i = 1 THEN s[i] ELSE f[i - 1] \o s[i]
      BY <1>5, <3>1, Zenon DEF IsJoin
    <3>3. i # 1 => g[i - 1] = f[i - 1]
      BY <3>1, <1>4, <1>7
    <3> QED
      BY <3>1, <3>2, <3>3
  <2> QED
    BY <2>1, <2>2
<1>9. IsJoin(g, s, n)
  <2>1. g = [i \in 1 .. n |-> g[i]]
    BY <1>7
  <2>2. [i \in 1 .. n |-> g[i]] = [i \in 1 .. n |-> IF i = 1 THEN s[i] ELSE g[i - 1] \o s[i]]
    BY <1>8
  <2> QED
    BY <2>1, <2>2, Zenon DEF IsJoin
<1> QED
  BY <1>2, <1>9

LEMMA FlattenIsJoin ==
    ASSUME NEW T, NEW s \in Seq(Seq(T)), Len(s) # 0
    PROVE  \E f : IsJoin(f, s, Len(s)) /\ FlattenSeq(s) = f[Len(s)]
<1>1. PICK g : g = CHOOSE f : f = [i \in 1 .. Len(s) |-> IF i = 1 THEN s[i] ELSE f[i - 1] \o s[i]]
  OBVIOUS
<1>2. \E f : f = [i \in 1 .. Len(s) |-> IF i = 1 THEN s[i] ELSE f[i - 1] \o s[i]]
  BY JoinExists, Zenon DEF IsJoin
<1>3. g = [i \in 1 .. Len(s) |-> IF i = 1 THEN s[i] ELSE g[i - 1] \o s[i]]
  BY <1>1, <1>2, Zenon
<1>4. FlattenSeq(s) = g[Len(s)]
  BY <1>1, Zenon DEF FlattenSeq
<1> QED
  BY <1>3, <1>4, Zenon DEF IsJoin

\* FlattenSeq joins texts into a text, which is empty only if all of them are.
LEMMA FlattenIsText ==
    ASSUME NEW T, NEW s \in Seq(Seq(T))
    PROVE  /\ FlattenSeq(s) \in Seq(T)
           /\ s = <<>> => FlattenSeq(s) = <<>>
           /\ \A k \in DOMAIN s : s[k] # <<>> => FlattenSeq(s) # <<>>
<1>1. CASE Len(s) = 0
  <2>1. s = <<>> /\ FlattenSeq(s) = s
    BY <1>1 DEF FlattenSeq
  <2>2. <<>> \in Seq(T) /\ \A k \in DOMAIN s : FALSE
    BY <1>1
  <2> QED
    BY <2>1, <2>2
<1>2. CASE Len(s) # 0
  <2>1. PICK f : IsJoin(f, s, Len(s)) /\ FlattenSeq(s) = f[Len(s)]
    BY <1>2, FlattenIsJoin
  <2> DEFINE Joined(i) == f[i] \in Seq(T) /\ \A k \in 1 .. i : s[k] # <<>> => f[i] # <<>>
             bad == {i \in 1 .. Len(s) : ~Joined(i)}
  <2>2. bad = {}
    <3>1. SUFFICES ASSUME bad # {} PROVE FALSE
      OBVIOUS
    <3>2. bad \in SUBSET Nat
      OBVIOUS
    <3>3. PICK i \in bad : \A j \in bad : i <= j
      <4> HIDE DEF bad
      <4> QED
        BY <3>1, <3>2, LeastExists
    <3>4. i \in 1 .. Len(s) /\ ~Joined(i)
      OBVIOUS
    <3>5. f[i] = IF i = 1 THEN s[i] ELSE f[i - 1] \o s[i]
      BY <2>1, <3>4, Zenon DEF IsJoin
    <3>6. s[i] \in Seq(T)
      BY <3>4
    <3>7. CASE i = 1
      BY <3>4, <3>5, <3>6, <3>7
    <3>8. CASE i # 1
      <4>1. i - 1 \in 1 .. Len(s) /\ i - 1 \notin bad
        <5>1. i - 1 \in bad => i <= i - 1
          BY <3>3
        <5> HIDE DEF bad
        <5> QED
          BY <3>4, <3>8, <5>1
      <4>2. f[i - 1] \in Seq(T) /\ \A k \in 1 .. i - 1 : s[k] # <<>> => f[i - 1] # <<>>
        BY <4>1
      <4>3. f[i] = f[i - 1] \o s[i]
        BY <3>5, <3>8
      <4>4. f[i] \in Seq(T) /\ (f[i - 1] # <<>> \/ s[i] # <<>> => f[i] # <<>>)
        <5> HIDE DEF Joined, bad
        <5>1. f[i - 1] \in Seq(T)
          BY <4>2
        <5> QED
          BY <4>3, <3>6, <5>1
      <4>5. \A k \in 1 .. i : k = i \/ k \in 1 .. i - 1
        BY <3>4
      <4> QED
        BY <3>4, <4>2, <4>4, <4>5
    <3> QED
      BY <3>7, <3>8
  <2>3. Joined(Len(s))
    BY <1>2, <2>2
  <2> QED
    BY <1>2, <2>1, <2>3
<1> QED
  BY <1>1, <1>2

LEMMA FlattenOne == ASSUME NEW T, NEW x \in Seq(T) PROVE FlattenSeq(<<x>>) = x
<1>1. <<x>> \in Seq(Seq(T)) /\ Len(<<x>>) = 1 /\ <<x>>[1] = x
  OBVIOUS
<1>2. PICK s : s = <<x>>
  OBVIOUS
<1>3. PICK f : IsJoin(f, s, 1) /\ FlattenSeq(s) = f[1]
  <2>1. s \in Seq(Seq(T)) /\ Len(s) = 1
    BY <1>1, <1>2
  <2>2. Len(s) # 0
    BY <2>1
  <2>3. \E f : IsJoin(f, s, Len(s)) /\ FlattenSeq(s) = f[Len(s)]
    BY <2>1, <2>2, FlattenIsJoin, Zenon
  <2> QED
    BY <2>1, <2>3
<1>4. f[1] = s[1]
  BY <1>3 DEF IsJoin
<1> QED
  BY <1>1, <1>2, <1>3, <1>4

\* The elements of a sequence, each on its own, are joined into it.
LEMMA FlattenSingles ==
    ASSUME NEW T, NEW d \in Seq(T), d # <<>>
    PROVE  /\ [i \in DOMAIN d |-> <<d[i]>>] \in Seq(Seq(T))
           /\ FlattenSeq([i \in DOMAIN d |-> <<d[i]>>]) = d
<1>1. PICK s : s = [i \in DOMAIN d |-> <<d[i]>>]
  OBVIOUS
<1>2. Len(d) \in Nat \ {0} /\ DOMAIN d = 1 .. Len(d)
  OBVIOUS
<1>3. s \in Seq(Seq(T)) /\ Len(s) = Len(d) /\ \A i \in 1 .. Len(d) : s[i] = <<d[i]>>
  BY <1>1, <1>2
<1>4. PICK f : IsJoin(f, s, Len(s)) /\ FlattenSeq(s) = f[Len(s)]
  BY <1>2, <1>3, FlattenIsJoin
<1> DEFINE bad == {i \in 1 .. Len(d) : f[i] # SubSeq(d, 1, i)}
<1>5. bad = {}
  <2>1. SUFFICES ASSUME bad # {} PROVE FALSE
    OBVIOUS
  <2>2. bad \in SUBSET Nat
    OBVIOUS
  <2>3. PICK i \in bad : \A j \in bad : i <= j
    <3> HIDE DEF bad
    <3> QED
      BY <2>1, <2>2, LeastExists
  <2>4. i \in 1 .. Len(d) /\ f[i] # SubSeq(d, 1, i)
    OBVIOUS
  <2>5. f[i] = IF i = 1 THEN s[i] ELSE f[i - 1] \o s[i]
    BY <1>3, <1>4, <2>4, Zenon DEF IsJoin
  <2>6. CASE i = 1
    <3>1. f[i] = <<d[1]>> /\ d[1] \in T
      BY <2>4, <2>5, <2>6, <1>3
    <3> QED
      BY <3>1, <2>4, <2>6, <1>2
  <2>7. CASE i # 1
    <3>1. i - 1 \in 1 .. Len(d) /\ i - 1 \notin bad
      <4>1. i - 1 \in bad => i <= i - 1
        BY <2>3
      <4> HIDE DEF bad
      <4> QED
        BY <2>4, <2>7, <1>2, <4>1
    <3>2. f[i] = SubSeq(d, 1, i - 1) \o <<d[i]>>
      BY <1>3, <2>4, <2>5, <2>7, <3>1
    <3>3. SubSeq(d, 1, i) = SubSeq(d, 1, i - 1) \o <<d[i]>>
      <4> HIDE DEF bad
      <4> QED
        BY <2>4, <2>7, <1>2
    <3> QED
      BY <2>4, <3>2, <3>3
  <2> QED
    BY <2>6, <2>7
<1>6. f[Len(d)] = SubSeq(d, 1, Len(d))
  BY <1>2, <1>5
<1> QED
  BY <1>1, <1>2, <1>3, <1>4, <1>6

\* The errors a result's problem document gives its reader, and the text of its detail.
Told(r) == problem_errors(error_payload(r))
Detail(r) == error_payload(r).detail

\* A result a peer decoded has no document of its own, and its errors have messages.
Plain(r) == r.document = NoDocument /\ \A i \in DOMAIN r.errors : r.errors[i].message # <<>>

ErrorType == [message : Texts, field : [kind : FieldKinds, path : Seq(Texts)], code : Words]

\* A list of errors is never the list left out.
LEMMA ErrorsGiven == ASSUME NEW errors \in Errors PROVE errors # NoErrors
<1>1. errors \in Seq(ErrorType)
  BY DEF Errors, ErrorType
<1>2. SUFFICES ASSUME errors = NoErrors PROVE FALSE
  OBVIOUS
<1>3. errors[1] \in ErrorType
  <2>1. Len(errors) = 1
    BY <1>2 DEF NoErrors
  <2> HIDE DEF ErrorType
  <2> QED
    BY <1>1, <2>1
<1>4. errors[1].field.kind = "left out"
  BY <1>2 DEF NoErrors, Error
<1>5. errors[1].field.kind \in FieldKinds
  BY <1>3 DEF ErrorType
<1> QED
  BY <1>4, <1>5 DEF FieldKinds

\* The messages of errors are texts.
LEMMA MessagesAreTexts ==
    ASSUME NEW errors \in Errors
    PROVE  /\ Messages(errors) \in Seq(Texts) /\ DOMAIN Messages(errors) = DOMAIN errors
           /\ \A i \in DOMAIN errors : Messages(errors)[i] = errors[i].message
<1>1. errors \in Seq(ErrorType)
  BY DEF Errors, ErrorType
<1>2. \A i \in DOMAIN errors : errors[i] \in ErrorType
  <2> HIDE DEF ErrorType
  <2> QED
    BY <1>1
<1>3. \A i \in DOMAIN errors : errors[i].message \in Texts
  BY <1>2 DEF ErrorType
<1> HIDE DEF ErrorType
<1> QED
  BY <1>1, <1>3 DEF Messages

\* One error with a message is a list of errors.
LEMMA OneError ==
    ASSUME NEW text \in Texts
    PROVE  /\ <<Error(text, NoField, "")>> \in Errors
           /\ Messages(<<Error(text, NoField, "")>>) = <<text>>
           /\ <<Error(text, NoField, "")>> # <<>>
           /\ \A i \in DOMAIN <<Error(text, NoField, "")>> : <<Error(text, NoField, "")>>[i].message = text
<1>1. PICK e : e = Error(text, NoField, "")
  OBVIOUS
<1>2. NoField \in [kind : FieldKinds, path : Seq(Texts)]
  BY DEF NoField, FieldKinds
<1>3. e \in ErrorType /\ e.message = text
  <2> DEFINE F == [kind : FieldKinds, path : Seq(Texts)]
  <2>1. NoField \in F
    BY <1>2
  <2> HIDE DEF F
  <2>2. Error(text, NoField, "") \in [message : Texts, field : F, code : Words]
    <3>1. PICK m, f, c : m = text /\ f = NoField /\ c = "" /\ m \in Texts /\ f \in F /\ c \in Words
      BY <2>1, ReplyAssumption
    <3>2. [message |-> m, field |-> f, code |-> c] \in [message : Texts, field : F, code : Words]
      BY <3>1
    <3> QED
      BY <3>1, <3>2 DEF Error
  <2> QED
    BY <1>1, <2>2 DEF Error, ErrorType, F
<1>4. <<e>> \in Seq(ErrorType) /\ <<e>> # <<>>
  <2> HIDE DEF ErrorType
  <2> QED
    BY <1>3
<1>5. /\ [i \in DOMAIN <<e>> |-> <<e>>[i].message] = <<e.message>>
      /\ \A i \in DOMAIN <<e>> : <<e>>[i].message = e.message
  OBVIOUS
<1> QED
  BY <1>1, <1>3, <1>4, <1>5 DEF Errors, ErrorType, Messages

\* What a result's document tells: errors with messages; of a plain result, its own
\* errors; and where there is one of those, the detail says something.
LEMMA ToldErrors ==
    ASSUME NEW r, LawfulResult(r)
    PROVE  /\ Told(r) \in Errors /\ \A i \in DOMAIN Told(r) : Told(r)[i].message # <<>>
           /\ Detail(r) \in Texts
           /\ Plain(r) => Told(r) = r.errors
           /\ r.document = NoDocument =>
                /\ Detail(r) = FlattenSeq(Messages(r.errors))
                /\ Told(r) # <<>> => Detail(r) # <<>>
           /\ r.document # NoDocument => Detail(r) = r.document.detail
<1>1. r.errors \in Errors /\ r.document.detail \in Texts /\ r.document.errors \in Errors
  BY DEF LawfulResult
<1>2. PICK es, d :
        /\ es \in Errors /\ d \in Texts
        /\ es = IF r.document # NoDocument THEN r.document.errors ELSE r.errors
        /\ d = IF r.document # NoDocument THEN r.document.detail ELSE FlattenSeq(Messages(r.errors))
  <2>1. FlattenSeq(Messages(r.errors)) \in Texts
    BY <1>1, MessagesAreTexts, FlattenIsText, Zenon DEF Texts
  <2> QED
    BY <1>1, <2>1
<1>3. error_payload(r) = [detail |-> d, benzeneStatus |-> r.status, errors |-> IF es = <<>> THEN NoErrors ELSE es]
  BY <1>2 DEF error_payload
<1>4. es # NoErrors
  BY <1>2, ErrorsGiven
<1>5. NoErrors # <<>>
  BY DEF NoErrors
<1>6. Told(r) = IF es # <<>> THEN WithMessage(es) ELSE IF d # <<>> THEN <<Error(d, NoField, "")>> ELSE <<>>
  <2>1. PICK p : p = error_payload(r)
    OBVIOUS
  <2>2. p.detail = d /\ p.errors = IF es = <<>> THEN NoErrors ELSE es
    BY <1>3, <2>1
  <2>3. Told(r) = problem_errors(p)
    BY <2>1 DEF Told
  <2> QED
    BY <1>4, <1>5, <2>2, <2>3 DEF problem_errors
<1>7. Detail(r) = d
  BY <1>3 DEF Detail
<1>8. Told(r) \in Errors /\ \A i \in DOMAIN Told(r) : Told(r)[i].message # <<>>
  <2>1. CASE es # <<>>
    BY <1>2, <1>6, <2>1, WithMessageKeeps
  <2>2. CASE es = <<>> /\ d # <<>>
    <3>1. Told(r) = <<Error(d, NoField, "")>>
      BY <1>6, <2>2
    <3> QED
      BY <1>2, <2>2, <3>1, OneError
  <2>3. CASE es = <<>> /\ d = <<>>
    <3>1. <<>> \in Errors
      BY DEF Errors
    <3> QED
      BY <1>6, <2>3, <3>1
  <2> QED
    BY <2>1, <2>2, <2>3
<1>9. ASSUME r.document = NoDocument
      PROVE  /\ es = r.errors /\ d = FlattenSeq(Messages(r.errors))
             /\ es = <<>> => d = <<>>
             /\ \A k \in DOMAIN es : es[k].message # <<>> => d # <<>>
  <2>1. es = r.errors /\ d = FlattenSeq(Messages(r.errors))
    BY <1>2, <1>9
  <2>2. PICK s : s = Messages(es) /\ s \in Seq(Texts) /\ DOMAIN s = DOMAIN es /\ \A k \in DOMAIN es : s[k] = es[k].message
    BY <1>2, MessagesAreTexts
  <2>3. /\ s = <<>> => FlattenSeq(s) = <<>>
        /\ \A k \in DOMAIN s : s[k] # <<>> => FlattenSeq(s) # <<>>
    BY <2>2, FlattenIsText, Zenon DEF Texts
  <2>4. es = <<>> => s = <<>>
    BY <2>2
  <2> QED
    BY <2>1, <2>2, <2>3, <2>4
<1>10. Plain(r) => Told(r) = r.errors
  <2> SUFFICES ASSUME Plain(r) PROVE Told(r) = es
    BY <1>9 DEF Plain
  <2>1. r.document = NoDocument /\ \A i \in DOMAIN es : es[i].message # <<>>
    BY <1>9 DEF Plain
  <2>2. es # <<>> => WithMessage(es) = es
    BY <1>2, <2>1, WithMessageKeeps
  <2> QED
    BY <1>6, <1>9, <2>1, <2>2
<1>11. r.document = NoDocument /\ Told(r) # <<>> => d # <<>>
  <2> SUFFICES ASSUME r.document = NoDocument, Told(r) # <<>>, es # <<>> PROVE d # <<>>
    BY <1>6
  <2>1. WithMessage(es) # <<>>
    BY <1>6
  <2>2. PICK i \in DOMAIN es : es[i].message # <<>>
    BY <1>2, <2>1, WithMessageKeeps
  <2> QED
    BY <1>9, <2>2
<1> QED
  BY <1>2, <1>7, <1>8, <1>9, <1>10, <1>11

\* What a service makes of a reply, whichever the transport: an answer that still stands
\* for the one relayed, without a document, its errors with messages.
Relayed(r, q) ==
    /\ LawfulResult(q) /\ Plain(q)
    /\ is_successful(q) <=> is_successful(r)
    /\ ~is_successful(r) => q.status = r.status

LEMMA NoneTyped == "none" \in Words \ {"problem"} /\ <<>> \in Errors /\ <<"none">> \in Texts
<1>1. PICK w : w = "none"
  OBVIOUS
<1>2. w \in Words /\ w # "problem"
  BY <1>1, ReplyAssumption
<1>3. <<w>> \in Seq(Words)
  BY <1>2
<1>4. \A T : <<>> \in Seq(T)
  OBVIOUS
<1> QED
  BY <1>1, <1>2, <1>3, <1>4, Zenon DEF Texts, Errors

\* A result taken off a reply: a lawful one, plain, that says what was read.
Decoded(q, status, payload, errors, stated) ==
    /\ LawfulResult(q) /\ Plain(q)
    /\ q.status = status /\ q.payload = payload /\ q.errors = errors
    /\ is_successful(q) <=> IF stated = "derived" THEN status \in SUCCESS_STATUSES ELSE stated = "yes"
HasMessages(errors) == \A i \in DOMAIN errors : errors[i].message # <<>>

LEMMA DecodedIsLawful ==
    ASSUME NEW status \in Words \ {""}, NEW payload \in Words \ {"problem"}, NEW errors \in Errors,
           NEW stated \in {"yes", "no", "derived"},
           HasMessages(errors),
           stated # "derived" /\ status \in KNOWN_STATUSES => (stated = "yes" <=> status \in SUCCESS_STATUSES)
    PROVE  Decoded(Result(status, payload, errors, stated), status, payload, errors, stated)
<1>1. PICK q : q = Result(status, payload, errors, stated)
  OBVIOUS
<1>2. /\ q.status = status /\ q.payload = payload /\ q.errors = errors /\ q.stated = stated
      /\ q.document = NoDocument
      /\ q = [status |-> status, payload |-> payload, errors |-> errors, stated |-> stated, document |-> NoDocument]
  BY <1>1 DEF Result
<1>3. is_successful(q) <=> IF stated = "derived" THEN status \in SUCCESS_STATUSES ELSE stated = "yes"
  BY <1>2 DEF is_successful
<1>4. NoDocument \in [detail : Texts, errors : Errors]
  <2>1. PICK d, es : d = <<"none">> /\ es = <<>> /\ d \in Texts /\ es \in Errors
    BY NoneTyped
  <2>2. [detail |-> d, errors |-> es] \in [detail : Texts, errors : Errors]
    BY <2>1
  <2> QED
    BY <2>1, <2>2 DEF NoDocument
<1>5. q \in [status : Words \ {""}, payload : Words \ {"problem"}, errors : Errors,
             stated : {"yes", "no", "derived"}, document : [detail : Texts, errors : Errors]]
  <2> DEFINE D == [detail : Texts, errors : Errors]
             S == Words \ {""}
             P == Words \ {"problem"}
  <2>1. NoDocument \in D /\ status \in S /\ payload \in P
    BY <1>4
  <2> HIDE DEF D, S, P
  <2>2. q \in [status : S, payload : P, errors : Errors, stated : {"yes", "no", "derived"}, document : D]
    BY <1>2, <2>1
  <2> QED
    BY <2>2 DEF D, S, P
<1>6. LawfulResult(q)
  BY <1>2, <1>3, <1>5 DEF LawfulResult
<1>7. Plain(q)
  BY <1>2 DEF Plain, HasMessages
<1> QED
  BY <1>1, <1>2, <1>3, <1>6, <1>7 DEF Decoded

\* An envelope keeps an answer.
LEMMA EnvelopeKeeps ==
    ASSUME NEW r, LawfulResult(r), NEW q, q = decode_response(encode_response(r))
    PROVE  /\ Relayed(r, q)
           /\ q.status = r.status
           /\ IF is_successful(r) THEN q.payload = r.payload ELSE q.errors = Told(r)
<1>1. /\ r.status \in Words \ {""} /\ r.payload \in Words \ {"problem"} /\ r.payload # "problem"
      /\ r.status \in KNOWN_STATUSES => (is_successful(r) <=> r.status \in SUCCESS_STATUSES)
  BY DEF LawfulResult
<1>2. PICK stated : stated = Stated(r.status, is_successful(r))
  OBVIOUS
<1>3. /\ stated \in {"yes", "no", "derived"}
      /\ is_successful(r) <=> IF stated = "derived" THEN r.status \in SUCCESS_STATUSES ELSE stated = "yes"
      /\ stated # "derived" /\ r.status \in KNOWN_STATUSES => (stated = "yes" <=> r.status \in SUCCESS_STATUSES)
  BY <1>1, <1>2 DEF Stated, is_successful
<1>4. HasMessages(<<>>) /\ HasMessages(Told(r)) /\ Told(r) \in Errors
  BY ToldErrors DEF HasMessages
<1>5. CASE is_successful(r)
  <2>1. q = Result(r.status, r.payload, <<>>, stated)
    BY <1>1, <1>2, <1>5 DEF decode_response, encode_response
  <2>2. Decoded(q, r.status, r.payload, <<>>, stated)
    BY <1>1, <1>3, <1>4, <2>1, NoneTyped, DecodedIsLawful
  <2> QED
    BY <1>3, <1>5, <2>2 DEF Relayed, Decoded
<1>6. CASE ~is_successful(r)
  <2>1. q = Result(r.status, "none", Told(r), stated)
    BY <1>1, <1>2, <1>6 DEF decode_response, encode_response, Told
  <2>2. Decoded(q, r.status, "none", Told(r), stated)
    BY <1>1, <1>3, <1>4, <2>1, NoneTyped, DecodedIsLawful
  <2>3. is_successful(q) <=> is_successful(r)
    BY <1>3, <2>2, Zenon DEF Decoded
  <2> QED
    BY <1>6, <2>2, <2>3 DEF Relayed, Decoded
<1> QED
  BY <1>5, <1>6

\* The status an HTTP code gives back for a success's, which no body then restores.
OverHttp(status) == CASE status = "updated" -> "deleted" [] status \in {"ok", "created", "accepted", "deleted"} -> status
                      [] OTHER -> "ok"

\* The code of a success reads as one, 204 for the two without a body; a failure's does not.
LEMMA HttpCodes ==
    ASSUME NEW status, NEW successful,
           status \in KNOWN_STATUSES => (successful <=> status \in SUCCESS_STATUSES)
    PROVE  LET code == to_http(status, successful)
           IN  /\ successful => /\ from_http(code) = OverHttp(status) /\ from_http(code) \in SUCCESS_STATUSES
                                /\ code = 204 <=> status \in {"updated", "deleted"}
               /\ ~successful => /\ from_http(code) \in FAILURE_STATUSES /\ from_http(code) \notin SUCCESS_STATUSES
                                 /\ code # 204
<1>1. PICK code : code = to_http(status, successful)
  OBVIOUS
<1>2. CASE status \notin KNOWN_STATUSES
  <2>1. code = IF successful THEN 200 ELSE 500
    BY <1>1, <1>2 DEF to_http
  <2>2. status \notin SUCCESS_STATUSES
    BY <1>2 DEF KNOWN_STATUSES
  <2> QED
    BY <1>1, <2>1, <2>2 DEF from_http, OverHttp, SUCCESS_STATUSES, FAILURE_STATUSES
<1>3. CASE status \in KNOWN_STATUSES /\ successful
  <2>1. status \in SUCCESS_STATUSES /\ code = _BENZENE_TO_HTTP[status]
    BY <1>1, <1>3 DEF to_http
  <2>2. code = CASE status \in {"ok", "ignored"} -> 200 [] status = "created" -> 201 [] status = "accepted" -> 202
                 [] status \in {"updated", "deleted"} -> 204
    BY <1>3, <2>1 DEF _BENZENE_TO_HTTP, SUCCESS_STATUSES
  <2>3. \/ status \in {"ok", "ignored"} /\ code = 200
        \/ status = "created" /\ code = 201
        \/ status = "accepted" /\ code = 202
        \/ status \in {"updated", "deleted"} /\ code = 204
    BY <2>1, <2>2 DEF SUCCESS_STATUSES
  <2>4. from_http(code) = OverHttp(status)
    BY <2>3 DEF from_http, OverHttp
  <2>5. OverHttp(status) \in SUCCESS_STATUSES /\ (code = 204 <=> status \in {"updated", "deleted"})
    BY <2>3 DEF OverHttp, SUCCESS_STATUSES
  <2> QED
    BY <1>1, <1>3, <2>4, <2>5
<1>4. CASE status \in KNOWN_STATUSES /\ ~successful
  <2>1. status \in FAILURE_STATUSES /\ code = _BENZENE_TO_HTTP[status]
    BY <1>1, <1>4 DEF to_http, KNOWN_STATUSES
  <2>2. code \in {400, 401, 403, 404, 409, 422, 429, 500, 501, 503, 504}
    BY <1>4, <2>1 DEF _BENZENE_TO_HTTP, FAILURE_STATUSES
  <2> QED
    BY <1>1, <1>4, <2>2 DEF from_http, SUCCESS_STATUSES, FAILURE_STATUSES
<1> QED
  BY <1>2, <1>3, <1>4

\* HTTP keeps an answer, but for what its codes do not tell of a success.
LEMMA HttpKeeps ==
    ASSUME NEW r, LawfulResult(r), NEW q, q = reply_to_result(ToHttpResponse(encode_response(r)))
    PROVE  /\ Relayed(r, q)
           /\ IF is_successful(r)
              THEN /\ q.status = OverHttp(r.status)
                   /\ r.status \notin {"updated", "deleted"} => q.payload = r.payload
              ELSE q.errors = Told(r)
<1>1. /\ r.status \in Words \ {""} /\ r.payload \in Words \ {"problem"} /\ r.payload # "problem"
      /\ r.status \in KNOWN_STATUSES => (is_successful(r) <=> r.status \in SUCCESS_STATUSES)
  BY DEF LawfulResult
<1>2. PICK code : code = to_http(r.status, is_successful(r))
  OBVIOUS
<1>3. PICK status : status = from_http(code)
  OBVIOUS
<1>4. PICK done : done = is_successful(r)
  OBVIOUS
<1>5. /\ is_successful(r) => /\ status = OverHttp(r.status) /\ status \in SUCCESS_STATUSES
                             /\ code = 204 <=> r.status \in {"updated", "deleted"}
      /\ ~is_successful(r) => status \notin SUCCESS_STATUSES /\ code # 204
  <2>1. r.status \in KNOWN_STATUSES => (done <=> r.status \in SUCCESS_STATUSES)
    BY <1>1, <1>4
  <2>2. /\ done => /\ status = OverHttp(r.status) /\ status \in SUCCESS_STATUSES
                   /\ code = 204 <=> r.status \in {"updated", "deleted"}
        /\ ~done => status \notin SUCCESS_STATUSES /\ code # 204
    BY <1>2, <1>3, <1>4, <2>1, HttpCodes
  <2> QED
    BY <1>4, <2>2
<1>6. HasMessages(<<>>) /\ HasMessages(Told(r)) /\ Told(r) \in Errors
  BY ToldErrors DEF HasMessages
<1>7. CASE is_successful(r)
  <2>1. PICK payload : payload = IF code = 204 THEN "none" ELSE r.payload
    OBVIOUS
  <2>2. q = Result(status, payload, <<>>, "derived")
    BY <1>2, <1>3, <1>5, <1>7, <2>1 DEF reply_to_result, ToHttpResponse, encode_response
  <2>3. status \in Words \ {""} /\ payload \in Words \ {"problem"}
    BY <1>1, <1>5, <1>7, <2>1, NoneTyped, ReplyAssumption DEF KNOWN_STATUSES, SUCCESS_STATUSES
  <2>4. Decoded(q, status, payload, <<>>, "derived")
    BY <1>6, <2>2, <2>3, NoneTyped, DecodedIsLawful
  <2>5. is_successful(q)
    BY <1>5, <1>7, <2>4 DEF Decoded
  <2> QED
    BY <1>4, <1>5, <1>7, <2>1, <2>4, <2>5 DEF Relayed, Decoded
<1>8. CASE ~is_successful(r)
  <2>1. r.status # "" /\ r.status \notin SUCCESS_STATUSES
    BY <1>1, <1>8 DEF KNOWN_STATUSES
  <2>2. PICK arrived : arrived = ToHttpResponse(encode_response(r))
    OBVIOUS
  <2>3. arrived.code = code /\ arrived.body = "problem" /\ arrived.problem = error_payload(r)
    BY <1>2, <1>5, <1>8, <2>2 DEF ToHttpResponse, encode_response
  <2>4. error_payload(r).benzeneStatus = r.status
    BY DEF error_payload
  <2>5. problem_status(arrived.problem, status) = r.status
    BY <2>1, <2>3, <2>4 DEF problem_status
  <2>6. q = Failure(r.status, Told(r))
    BY <1>3, <1>5, <1>8, <2>2, <2>3, <2>5 DEF reply_to_result, Told
  <2>7. Decoded(q, r.status, "none", Told(r), "derived")
    BY <1>1, <1>6, <2>6, NoneTyped, DecodedIsLawful DEF Failure
  <2>8. ~is_successful(q)
    BY <2>1, <2>7 DEF Decoded
  <2> QED
    BY <1>4, <1>8, <2>7, <2>8 DEF Relayed, Decoded
<1> QED
  BY <1>7, <1>8

\* A field as gRPC's dotted path gives it back.
Dotted(field) == dotted_to_pointer(pointer_to_dotted(field))
FieldType == [kind : FieldKinds, path : Seq(Texts)]

\* A field that crossed gRPC is a field, and crosses it again unchanged.
LEMMA DottedOnce ==
    ASSUME NEW field \in FieldType
    PROVE  Dotted(field) \in FieldType /\ Dotted(Dotted(field)) = Dotted(field)
<1>1. PICK path : path = field.path /\ path \in Seq(Texts)
  BY DEF FieldType
<1>2. PICK d : d = FlattenSeq(path) /\ d \in Texts
  BY <1>1, FlattenIsText, Zenon DEF Texts
<1>3. Dotted(field) = dotted_to_pointer(d)
  BY <1>1, <1>2 DEF Dotted, pointer_to_dotted
<1>4. CASE d = <<>>
  <2>1. Dotted(field) = NoField
    BY <1>3, <1>4 DEF dotted_to_pointer
  <2>2. NoField.path = <<>> /\ FlattenSeq(<<>>) = <<>>
    <3>1. <<>> \in Seq(Seq(Words))
      OBVIOUS
    <3>2. FlattenSeq(<<>>) = <<>>
      BY <3>1, FlattenIsText, Zenon
    <3> QED
      BY <3>2 DEF NoField
  <2>3. Dotted(NoField) = NoField
    BY <2>2 DEF Dotted, pointer_to_dotted, dotted_to_pointer
  <2>4. NoField \in FieldType
    BY DEF NoField, FieldKinds, FieldType
  <2> QED
    BY <2>1, <2>3, <2>4
<1>5. CASE d # <<>>
  <2>1. PICK s : s = [i \in DOMAIN d |-> <<d[i]>>]
    OBVIOUS
  <2>2. s \in Seq(Texts) /\ FlattenSeq(s) = d
    BY <1>2, <1>5, <2>1, FlattenSingles, Zenon DEF Texts
  <2>3. Dotted(field) = [kind |-> "pointer", path |-> s]
    BY <1>3, <1>5, <2>1 DEF dotted_to_pointer
  <2>4. Dotted(field).path = s
    BY <2>3
  <2>5. Dotted(Dotted(field)) = Dotted(field)
    BY <1>3, <2>2, <2>4 DEF Dotted, pointer_to_dotted
  <2>6. Dotted(field) \in FieldType
    BY <2>2, <2>3 DEF FieldKinds, FieldType
  <2> QED
    BY <2>5, <2>6
<1> QED
  BY <1>4, <1>5

\* The errors a trailer gives back: none without the protos, else one for each, with its
\* message, its field dotted, and its code where reasons are carried.
Trailed(errors, through, with) ==
    IF with = "none" THEN through = <<>>
    ELSE /\ DOMAIN through = DOMAIN errors
         /\ \A i \in DOMAIN errors : /\ through[i].message = errors[i].message
                                     /\ through[i].field = Dotted(errors[i].field)
                                     /\ with = "full" => through[i].code = errors[i].code

LEMMA TrailerKeeps ==
    ASSUME NEW errors \in Errors
    PROVE  ThroughTrailer(errors) \in Errors /\ Trailed(errors, ThroughTrailer(errors), protos)
<1>1. errors \in Seq(ErrorType)
  BY DEF Errors, ErrorType
<1>2. \A i \in DOMAIN errors : errors[i] \in ErrorType
  <2> HIDE DEF ErrorType
  <2> QED
    BY <1>1
<1>3. PICK via : via = protos
  OBVIOUS
<1>4. PICK t : t = [i \in DOMAIN errors |->
                        Error(errors[i].message, Dotted(errors[i].field), IF via = "full" THEN errors[i].code ELSE "")]
  OBVIOUS
<1>5. ThroughTrailer(errors) = IF via = "none" THEN <<>> ELSE t
  BY <1>3, <1>4 DEF ThroughTrailer, Dotted
<1>6. \A i \in DOMAIN errors :
        /\ t[i] \in ErrorType /\ t[i].message = errors[i].message /\ t[i].field = Dotted(errors[i].field)
        /\ via = "full" => t[i].code = errors[i].code
  <2> SUFFICES ASSUME NEW i \in DOMAIN errors
               PROVE  /\ t[i] \in ErrorType /\ t[i].message = errors[i].message /\ t[i].field = Dotted(errors[i].field)
                      /\ via = "full" => t[i].code = errors[i].code
    OBVIOUS
  <2>1. PICK m, f, c : /\ m = errors[i].message /\ f = Dotted(errors[i].field)
                       /\ c = IF via = "full" THEN errors[i].code ELSE ""
    OBVIOUS
  <2>2. t[i] = [message |-> m, field |-> f, code |-> c]
    BY <1>4, <2>1 DEF Error
  <2>3. errors[i].message \in Texts /\ errors[i].field \in FieldType /\ errors[i].code \in Words
    BY <1>2 DEF ErrorType, FieldType
  <2>4. m \in Texts /\ f \in FieldType /\ c \in Words
    BY <2>1, <2>3, DottedOnce, ReplyAssumption
  <2>5. [message |-> m, field |-> f, code |-> c] \in [message : Texts, field : FieldType, code : Words]
    BY <2>4
  <2>6. t[i] \in ErrorType
    BY <2>2, <2>5 DEF ErrorType, FieldType
  <2>7. t[i].message = m /\ t[i].field = f /\ t[i].code = c
    BY <2>2
  <2> QED
    BY <2>1, <2>6, <2>7
<1>7. t \in Seq(ErrorType) /\ DOMAIN t = DOMAIN errors
  <2> HIDE DEF ErrorType
  <2>1. PICK n \in Nat : DOMAIN errors = 1 .. n
    BY <1>1
  <2>2. \A i \in 1 .. n : t[i] \in ErrorType
    BY <1>6, <2>1
  <2>3. t = [i \in 1 .. n |-> t[i]]
    BY <1>4, <2>1
  <2> QED
    BY <2>1, <2>2, <2>3
<1>8. <<>> \in Seq(ErrorType)
  <2> HIDE DEF ErrorType
  <2> QED
    OBVIOUS
<1> QED
  BY <1>3, <1>5, <1>6, <1>7, <1>8 DEF Errors, ErrorType, Trailed

\* The codes of gRPC tell a success from a failure.
LEMMA GrpcCodes ==
    ASSUME NEW status, NEW successful,
           status \in KNOWN_STATUSES => (successful <=> status \in SUCCESS_STATUSES)
    PROVE  to_grpc(status, successful) = "OK" <=> successful
<1>0. /\ status \in SUCCESS_STATUSES => status \notin FAILURE_STATUSES
      /\ {"bad-request", "validation-error"} \subseteq FAILURE_STATUSES
  BY DEF SUCCESS_STATUSES, FAILURE_STATUSES
<1>1. CASE status \in SUCCESS_STATUSES
  <2>1. to_grpc(status, successful) = "OK"
    BY <1>0, <1>1 DEF to_grpc
  <2> QED
    BY <1>1, <2>1 DEF KNOWN_STATUSES
<1>2. CASE status \in FAILURE_STATUSES /\ status \notin SUCCESS_STATUSES
  BY <1>2 DEF to_grpc, KNOWN_STATUSES
<1>3. CASE status \notin KNOWN_STATUSES
  BY <1>0, <1>3 DEF to_grpc, KNOWN_STATUSES
<1> QED
  BY <1>1, <1>2, <1>3 DEF KNOWN_STATUSES

\* gRPC keeps an answer: a failure's errors as its trailer has them, or else one text.
LEMMA GrpcKeeps ==
    ASSUME NEW r, LawfulResult(r), NEW q, q = ThroughGrpc(encode_response(r))
    PROVE  /\ Relayed(r, q)
           /\ q.status = r.status
           /\ IF is_successful(r) THEN q.payload = r.payload
              ELSE IF ThroughTrailer(Told(r)) # <<>> THEN q.errors = ThroughTrailer(Told(r))
              ELSE q.errors = <<Error(IF Detail(r) # <<>> THEN Detail(r) ELSE <<r.status>>, NoField, "")>>
<1>1. /\ r.status \in Words \ {""} /\ r.payload \in Words \ {"problem"} /\ r.payload # "problem"
      /\ r.status \in KNOWN_STATUSES => (is_successful(r) <=> r.status \in SUCCESS_STATUSES)
  BY DEF LawfulResult
<1>2. PICK code : code = to_grpc(r.status, is_successful(r))
  OBVIOUS
<1>3. code = "OK" <=> is_successful(r)
  <2>1. PICK done : done = is_successful(r)
    OBVIOUS
  <2>2. r.status \in KNOWN_STATUSES => (done <=> r.status \in SUCCESS_STATUSES)
    BY <1>1, <2>1
  <2>3. to_grpc(r.status, done) = "OK" <=> done
    BY <2>2, GrpcCodes
  <2> QED
    BY <1>2, <2>1, <2>3
<1>4. PICK envelope : envelope = encode_response(r)
  OBVIOUS
<1>5. /\ envelope.statusCode = r.status
      /\ envelope.isSuccessful = is_successful(r)
      /\ is_successful(r) => envelope.body = r.payload
      /\ ~is_successful(r) => envelope.problem = error_payload(r)
  BY <1>4 DEF encode_response
<1>6. to_grpc(envelope.statusCode, envelope.isSuccessful) = code
  BY <1>2, <1>5
<1>7. CASE is_successful(r)
  <2>1. PICK stated : stated = IF r.status \in KNOWN_STATUSES THEN "derived" ELSE "yes"
    OBVIOUS
  <2>2. q = Result(r.status, r.payload, <<>>, stated)
    BY <1>3, <1>4, <1>5, <1>6, <1>7, <2>1 DEF ThroughGrpc, from_grpc
  <2>3. HasMessages(<<>>)
    BY DEF HasMessages
  <2>4. Decoded(q, r.status, r.payload, <<>>, stated)
    BY <1>1, <2>1, <2>2, <2>3, NoneTyped, DecodedIsLawful
  <2>5. is_successful(q)
    BY <1>1, <1>7, <2>1, <2>4 DEF Decoded
  <2> QED
    BY <1>7, <2>4, <2>5 DEF Relayed, Decoded
<1>8. CASE ~is_successful(r)
  <2>1. PICK detail : detail = IF Detail(r) # <<>> THEN Detail(r) ELSE <<r.status>>
    OBVIOUS
  <2>2. PICK through : through = ThroughTrailer(Told(r))
    OBVIOUS
  <2>3. PICK errors : errors = IF through # <<>> THEN through ELSE <<Error(detail, NoField, "")>>
    OBVIOUS
  <2>4. q = Failure(r.status, errors)
    BY <1>3, <1>4, <1>5, <1>6, <1>8, <2>1, <2>2, <2>3 DEF ThroughGrpc, from_grpc, Told, Detail
  <2>5. detail \in Texts /\ detail # <<>>
    <3>1. Detail(r) \in Texts
      BY ToldErrors
    <3>2. <<r.status>> \in Texts /\ <<r.status>> # <<>>
      <4>1. PICK s \in Words : s = r.status
        BY <1>1
      <4>2. <<s>> \in Seq(Words) /\ <<s>> # <<>>
        OBVIOUS
      <4> QED
        BY <4>1, <4>2 DEF Texts
    <3> QED
      BY <2>1, <3>1, <3>2
  <2>6. through \in Errors /\ HasMessages(through)
    <3>1. Told(r) \in Errors /\ HasMessages(Told(r))
      BY ToldErrors DEF HasMessages
    <3>2. through \in Errors /\ Trailed(Told(r), through, protos)
      BY <2>2, <3>1, TrailerKeeps
    <3> QED
      BY <3>1, <3>2 DEF Trailed, HasMessages
  <2>7. errors \in Errors /\ HasMessages(errors)
    <3>1. <<Error(detail, NoField, "")>> \in Errors /\ HasMessages(<<Error(detail, NoField, "")>>)
      BY <2>5, OneError DEF HasMessages
    <3> QED
      BY <2>3, <2>6, <3>1
  <2>8. Decoded(q, r.status, "none", errors, "derived")
    BY <1>1, <2>4, <2>7, NoneTyped, DecodedIsLawful DEF Failure
  <2>9. ~is_successful(q)
    BY <1>1, <1>8, <2>8 DEF Decoded, KNOWN_STATUSES
  <2> QED
    BY <1>8, <2>1, <2>2, <2>3, <2>8, <2>9 DEF Relayed, Decoded
<1> QED
  BY <1>7, <1>8

LEMMA ErrorsOneForOne ==
    ASSUME NEW es \in Errors, NEW through \in Errors, DOMAIN es = DOMAIN through
    PROVE  (es = <<>> <=> through = <<>>) /\ Len(es) = Len(through)
<1> DEFINE E == [message : Texts, field : [kind : FieldKinds, path : Seq(Texts)], code : Words]
<1>1. es \in Seq(E) /\ through \in Seq(E)
  BY DEF Errors
<1> HIDE DEF E
<1> QED
  BY <1>1

\* ErrorsSurvive, of one result relayed as another: nothing told, told whole, told as a text.
FlatOf(f) == IF f.document = NoDocument THEN FlattenSeq(Messages(f.errors))
             ELSE IF f.document.detail = <<>> THEN <<f.status>> ELSE f.document.detail
Whole(told, got, via, with) ==
    /\ Messages(got) = Messages(told)
    /\ \A i \in DOMAIN told : /\ "grpc" \notin via => got[i] = told[i]
                              /\ with = "full" => got[i].code = told[i].code
                              /\ got[i].field \in {told[i].field, Dotted(told[i].field)}
ErrorsTold(f, got, via, with) ==
    /\ Told(f) = <<>> => got = <<>> \/ ("grpc" \in via /\ Len(got) = 1)
    /\ Told(f) # <<>> /\ ("grpc" \notin via \/ with # "none") => Whole(Told(f), got, via, with)
    /\ Told(f) # <<>> /\ "grpc" \in via /\ with = "none" =>
         Messages(got) \in {<<FlatOf(f)>>, <<FlattenSeq(Messages(Told(f)))>>}

\* What the errors of a failure become at a hop.
Carried(r, got, t) ==
    IF t # "grpc" THEN got = Told(r)
    ELSE IF ThroughTrailer(Told(r)) # <<>> THEN got = ThroughTrailer(Told(r))
    ELSE got = <<Error(IF Detail(r) # <<>> THEN Detail(r) ELSE <<r.status>>, NoField, "")>>

LEMMA FirstHopTells ==
    ASSUME NEW f, LawfulResult(f), NEW t \in {"envelope", "http", "grpc"}, NEW got, Carried(f, got, t)
    PROVE  ErrorsTold(f, got, {t}, protos)
<1>1. PICK told : told = Told(f) /\ told \in Errors
  BY ToldErrors
<1>2. PICK with : with = protos
  OBVIOUS
<1>3. CASE t # "grpc"
  <2>1. got = told /\ "grpc" \notin {t}
    BY <1>1, <1>3 DEF Carried
  <2> QED
    BY <1>1, <1>2, <2>1 DEF ErrorsTold, Whole
<1>4. CASE t = "grpc"
  <2>1. PICK through : through = ThroughTrailer(told) /\ through \in Errors /\ Trailed(told, through, with)
    BY <1>1, <1>2, TrailerKeeps
  <2>2. PICK text : text = IF Detail(f) # <<>> THEN Detail(f) ELSE <<f.status>>
    OBVIOUS
  <2>3. text \in Texts
    <3>1. PICK s \in Words : s = f.status
      BY DEF LawfulResult
    <3>2. <<s>> \in Seq(Words)
      OBVIOUS
    <3> QED
      BY <2>2, <3>1, <3>2, ToldErrors DEF Texts
  <2>4. got = IF through # <<>> THEN through ELSE <<Error(text, NoField, "")>>
    BY <1>1, <1>4, <2>1, <2>2 DEF Carried
  <2>5. Len(<<Error(text, NoField, "")>>) = 1 /\ Messages(<<Error(text, NoField, "")>>) = <<text>>
    BY <2>3, OneError
  <2>6. CASE with = "none"
    <3>1. got = <<Error(text, NoField, "")>>
      BY <2>1, <2>4, <2>6 DEF Trailed
    <3>2. told # <<>> => text = FlatOf(f)
      BY <1>1, <2>2, ToldErrors DEF FlatOf
    <3> QED
      BY <1>1, <1>2, <1>4, <2>5, <2>6, <3>1, <3>2 DEF ErrorsTold
  <2>7. CASE with # "none"
    <3>1. /\ DOMAIN through = DOMAIN told
          /\ \A i \in DOMAIN told : /\ through[i].message = told[i].message
                                    /\ through[i].field = Dotted(told[i].field)
                                    /\ with = "full" => through[i].code = told[i].code
      BY <2>1, <2>7 DEF Trailed
    <3>2. CASE told = <<>>
      <4>1. through = <<>>
        BY <1>1, <2>1, <3>1, <3>2, ErrorsOneForOne
      <4> QED
        BY <1>1, <1>4, <2>4, <2>5, <3>2, <4>1 DEF ErrorsTold
    <3>3. CASE told # <<>>
      <4>1. got = through
        BY <1>1, <2>1, <2>4, <3>1, <3>3, ErrorsOneForOne
      <4>2. Messages(through) = Messages(told)
        BY <3>1 DEF Messages
      <4>3. Whole(told, got, {t}, with)
        BY <1>4, <3>1, <4>1, <4>2 DEF Whole
      <4> QED
        BY <1>1, <1>2, <2>7, <3>3, <4>3 DEF ErrorsTold
    <3> QED
      BY <3>2, <3>3
  <2> QED
    BY <2>6, <2>7
<1> QED
  BY <1>3, <1>4

LEMMA NextHopTells ==
    ASSUME NEW f, LawfulResult(f), NEW r, LawfulResult(r), Plain(r),
           NEW via, ErrorsTold(f, r.errors, via, protos),
           NEW t \in {"envelope", "http", "grpc"}, NEW got, Carried(r, got, t)
    PROVE  ErrorsTold(f, got, via \cup {t}, protos)
<1>1. PICK told : told = Told(f) /\ told \in Errors
  BY ToldErrors
<1>2. PICK with : with = protos
  OBVIOUS
<1>3. PICK es : es = r.errors /\ es = Told(r) /\ es \in Errors
  BY ToldErrors
<1>4. CASE t # "grpc"
  <2>1. got = es /\ ("grpc" \in via \cup {t} <=> "grpc" \in via)
    BY <1>3, <1>4 DEF Carried
  <2> QED
    BY <1>1, <1>2, <1>3, <2>1 DEF ErrorsTold, Whole
<1>5. CASE t = "grpc"
  <2>1. PICK through : through = ThroughTrailer(es) /\ through \in Errors /\ Trailed(es, through, with)
    BY <1>2, <1>3, TrailerKeeps
  <2>2. PICK text : text = IF Detail(r) # <<>> THEN Detail(r) ELSE <<r.status>>
    OBVIOUS
  <2>3. text \in Texts
    <3>1. PICK s \in Words : s = r.status
      BY DEF LawfulResult
    <3>2. <<s>> \in Seq(Words)
      OBVIOUS
    <3> QED
      BY <2>2, <3>1, <3>2, ToldErrors DEF Texts
  <2>4. got = IF through # <<>> THEN through ELSE <<Error(text, NoField, "")>>
    BY <1>3, <1>5, <2>1, <2>2 DEF Carried
  <2>5. Len(<<Error(text, NoField, "")>>) = 1 /\ Messages(<<Error(text, NoField, "")>>) = <<text>>
    BY <2>3, OneError
  <2>6. DOMAIN Messages(es) = DOMAIN es /\ Messages(es) \in Seq(Texts) /\ DOMAIN Messages(told) = DOMAIN told
    BY <1>1, <1>3, MessagesAreTexts
  <2>7. CASE with = "none"
    <3>1. got = <<Error(text, NoField, "")>>
      BY <2>1, <2>4, <2>7 DEF Trailed
    <3>2. es # <<>> => text = FlattenSeq(Messages(es))
      BY <1>3, <2>2, ToldErrors DEF Plain
    <3>3. ASSUME told # <<>> PROVE text \in {FlatOf(f), FlattenSeq(Messages(told))}
      <4>1. CASE "grpc" \notin via
        <5>1. Messages(es) = Messages(told)
          BY <1>1, <1>3, <3>3, <4>1 DEF ErrorsTold, Whole
        <5>2. es # <<>>
          BY <1>1, <1>3, <2>6, <3>3, <5>1, ErrorsOneForOne
        <5> QED
          BY <3>2, <5>1, <5>2
      <4>2. CASE "grpc" \in via
        <5>1. PICK x : x \in {FlatOf(f), FlattenSeq(Messages(told))} /\ Messages(es) = <<x>>
          BY <1>1, <1>2, <1>3, <2>7, <3>3, <4>2 DEF ErrorsTold
        <5>2. x \in Texts /\ es # <<>>
          <6>1. <<x>> \in Seq(Texts) /\ 1 \in DOMAIN <<x>> /\ <<x>>[1] = x
            BY <2>6, <5>1
          <6>2. 1 \in DOMAIN es
            BY <2>6, <5>1, <6>1
          <6> QED
            BY <6>1, <6>2
        <5>3. FlattenSeq(<<x>>) = x
          BY <5>2, FlattenOne, Zenon DEF Texts
        <5> QED
          BY <3>2, <5>1, <5>2, <5>3
      <4> QED
        BY <4>1, <4>2
    <3> QED
      BY <1>1, <1>2, <1>5, <2>5, <2>7, <3>1, <3>3 DEF ErrorsTold
  <2>8. CASE with # "none"
    <3>1. /\ DOMAIN through = DOMAIN es
          /\ \A i \in DOMAIN es : /\ through[i].message = es[i].message
                                  /\ through[i].field = Dotted(es[i].field)
                                  /\ with = "full" => through[i].code = es[i].code
      BY <2>1, <2>8 DEF Trailed
    <3>2. /\ es = <<>> => through = <<>>
          /\ es # <<>> => through # <<>>
          /\ Len(through) = Len(es)
      BY <1>3, <2>1, <3>1, ErrorsOneForOne
    <3>3. CASE told = <<>>
      <4>1. es = <<>> \/ Len(es) = 1
        BY <1>1, <1>2, <1>3, <3>3 DEF ErrorsTold
      <4>2. Len(got) = 1
        BY <2>4, <2>5, <3>2, <4>1
      <4> QED
        BY <1>1, <1>5, <3>3, <4>2 DEF ErrorsTold
    <3>4. CASE told # <<>>
      <4>1. Whole(told, es, via, with)
        BY <1>1, <1>2, <1>3, <2>8, <3>4 DEF ErrorsTold
      <4>2. Messages(es) = Messages(told) /\ DOMAIN es = DOMAIN told
        BY <2>6, <4>1 DEF Whole
      <4>3. got = through
        BY <1>1, <1>3, <2>4, <3>2, <3>4, <4>2, ErrorsOneForOne
      <4>4. Messages(through) = Messages(told)
        BY <3>1, <4>2 DEF Messages
      <4>5. ASSUME NEW i \in DOMAIN told
            PROVE  /\ with = "full" => through[i].code = told[i].code
                   /\ through[i].field = Dotted(told[i].field)
        <5>1. /\ with = "full" => es[i].code = told[i].code
              /\ es[i].field \in {told[i].field, Dotted(told[i].field)}
          BY <4>1, <4>5 DEF Whole
        <5>2. told[i].field \in FieldType
          <6>1. told[i] \in ErrorType
            <7>1. told \in Seq(ErrorType)
              BY <1>1 DEF Errors, ErrorType
            <7> HIDE DEF ErrorType
            <7> QED
              BY <4>5, <7>1
          <6> QED
            BY <6>1 DEF ErrorType, FieldType
        <5>3. Dotted(es[i].field) = Dotted(told[i].field)
          BY <5>1, <5>2, DottedOnce
        <5> QED
          BY <3>1, <4>2, <4>5, <5>1, <5>3
      <4>6. Whole(told, got, via \cup {t}, with)
        BY <1>5, <4>3, <4>4, <4>5 DEF Whole
      <4> QED
        BY <1>1, <1>2, <2>8, <3>4, <4>6 DEF ErrorsTold
    <3> QED
      BY <3>3, <3>4
  <2> QED
    BY <2>7, <2>8
<1> QED
  BY <1>4, <1>5

\* What stands of an answer after n hops over some transports.  (A status is kept, or its
\* name is one that HTTP does not tell from another.)
Stands(f, r, n, via, with) ==
    /\ LawfulResult(r)
    /\ is_successful(r) <=> is_successful(f)
    /\ \/ r.status = f.status
       \/ /\ is_successful(f) /\ "http" \in via
          /\ \/ r.status = "deleted" /\ f.status = "updated"
             \/ r.status = "ok" /\ f.status \notin KNOWN_STATUSES \ {"ignored"}
    /\ is_successful(f) /\ f.status \notin {"updated", "deleted"} => r.payload = f.payload
    /\ n > 0 => Plain(r) /\ (~is_successful(f) => ErrorsTold(f, r.errors, via, with))

\* Before the answer is lost, it stands.
RelayInv ==
    /\ LawfulResult(first) /\ hops \in Nat
    /\ hops = 0 => current = first /\ route = {}
    /\ Arrived => Stands(first, current, hops, route, protos)

LEMMA HopStands ==
    ASSUME NEW f, LawfulResult(f), NEW r, NEW n \in Nat, NEW via, Stands(f, r, n, via, protos),
           n = 0 => r = f /\ via = {}, NEW t \in {"envelope", "http", "grpc"}, NEW q,
           q = CASE t = "envelope" -> decode_response(encode_response(r))
                 [] t = "http" -> reply_to_result(ToHttpResponse(encode_response(r)))
                 [] t = "grpc" -> ThroughGrpc(encode_response(r))
    PROVE  Stands(f, q, n + 1, via \cup {t}, protos)
<1>1. LawfulResult(r) /\ (is_successful(r) <=> is_successful(f))
  BY DEF Stands
<1>2. /\ Relayed(r, q)
      /\ t # "http" => q.status = r.status
      /\ is_successful(r) => /\ q.status \in {r.status, OverHttp(r.status)}
                             /\ r.status \notin {"updated", "deleted"} => q.payload = r.payload
      /\ ~is_successful(r) => Carried(r, q.errors, t)
  <2>1. CASE t = "envelope"
    BY <1>1, <2>1, EnvelopeKeeps DEF Carried
  <2>2. CASE t = "http"
    BY <1>1, <2>2, HttpKeeps DEF Carried
  <2>3. CASE t = "grpc"
    BY <1>1, <2>3, GrpcKeeps DEF Carried
  <2> QED
    BY <2>1, <2>2, <2>3
<1>3. LawfulResult(q) /\ Plain(q) /\ (is_successful(q) <=> is_successful(f))
  BY <1>1, <1>2 DEF Relayed
<1>4. \/ q.status = f.status
      \/ /\ is_successful(f) /\ "http" \in via \cup {t}
         /\ \/ q.status = "deleted" /\ f.status = "updated"
            \/ q.status = "ok" /\ f.status \notin KNOWN_STATUSES \ {"ignored"}
  <2>1. CASE ~is_successful(f)
    BY <1>1, <1>2, <2>1 DEF Relayed, Stands
  <2>2. CASE is_successful(f) /\ q.status = r.status
    BY <2>2 DEF Stands
  <2>3. CASE is_successful(f) /\ q.status # r.status
    <3>1. t = "http" /\ q.status = OverHttp(r.status)
      BY <1>1, <1>2, <2>3
    <3>2. CASE r.status = f.status
      <4>1. CASE f.status = "updated"
        BY <2>3, <3>1, <3>2, <4>1 DEF OverHttp
      <4>2. CASE f.status # "updated"
        <5>1. q.status = "ok" /\ f.status \notin {"ok", "created", "accepted", "deleted", "updated"}
          BY <2>3, <3>1, <3>2, <4>2 DEF OverHttp
        <5>2. f.status \in KNOWN_STATUSES => f.status \in SUCCESS_STATUSES
          BY <2>3 DEF LawfulResult
        <5>3. f.status \notin KNOWN_STATUSES \ {"ignored"}
          BY <5>1, <5>2 DEF SUCCESS_STATUSES
        <5> QED
          BY <2>3, <3>1, <5>1, <5>3
      <4> QED
        BY <4>1, <4>2
    <3>3. CASE r.status # f.status
      <4>1. r.status \in {"deleted", "ok"}
        BY <3>3 DEF Stands
      <4> QED
        BY <2>3, <3>1, <4>1 DEF OverHttp
    <3> QED
      BY <3>2, <3>3
  <2> QED
    BY <2>1, <2>2, <2>3
<1>5. is_successful(f) /\ f.status \notin {"updated", "deleted"} => q.payload = f.payload
  <2> SUFFICES ASSUME is_successful(f), f.status \notin {"updated", "deleted"} PROVE q.payload = f.payload
    OBVIOUS
  <2>1. r.payload = f.payload
    BY DEF Stands
  <2>2. r.status \notin {"updated", "deleted"}
    BY DEF Stands
  <2> QED
    BY <1>1, <1>2, <2>1, <2>2
<1>6. ~is_successful(f) => ErrorsTold(f, q.errors, via \cup {t}, protos)
  <2> SUFFICES ASSUME ~is_successful(f) PROVE ErrorsTold(f, q.errors, via \cup {t}, protos)
    OBVIOUS
  <2>1. Carried(r, q.errors, t)
    BY <1>1, <1>2
  <2>2. CASE n = 0
    <3>1. r = f /\ via \cup {t} = {t}
      BY <2>2
    <3> QED
      BY <2>1, <3>1, FirstHopTells
  <2>3. CASE n > 0
    <3>1. Plain(r) /\ ErrorsTold(f, r.errors, via, protos)
      BY <2>3 DEF Stands
    <3> QED
      BY <1>1, <2>1, <3>1, NextHopTells
  <2> QED
    BY <2>2, <2>3
<1> QED
  BY <1>3, <1>4, <1>5, <1>6 DEF Stands

\* What a peer that is not Benzene's replies is read as a plain failure.
LEMMA ForeignIsPlain ==
    ASSUME NEW foreign \in Foreign, NEW q, q = reply_to_result(foreign)
    PROVE  LawfulResult(q) /\ Plain(q) /\ ~is_successful(q)
<1>0. {"service-unavailable", "not-found", "unexpected-error"} \cap SUCCESS_STATUSES = {}
  BY DEF SUCCESS_STATUSES
<1>1. /\ NoProblem.detail = <<>> /\ NoProblem.benzeneStatus = "" /\ NoProblem.errors = NoErrors
      /\ <<"gone">> # <<>>
  BY DEF NoProblem, Unlisted
<1>2. PICK gone : gone = <<Error(<<"gone">>, NoField, "")>> /\ gone \in Errors /\ HasMessages(gone)
  <2>1. <<"gone">> \in Texts
    <3>1. PICK w \in Words : w = "gone"
      BY ReplyAssumption
    <3>2. <<w>> \in Seq(Words)
      OBVIOUS
    <3> QED
      BY <3>1, <3>2 DEF Texts
  <2>2. PICK g : g = <<Error(<<"gone">>, NoField, "")>>
    OBVIOUS
  <2>3. g \in Errors /\ \A i \in DOMAIN g : g[i].message = <<"gone">>
    BY <2>1, <2>2, OneError
  <2> QED
    BY <1>1, <2>2, <2>3 DEF HasMessages
<1>3. \/ q = Failure("service-unavailable", <<>>)
      \/ q = Failure("not-found", gone)
      \/ q = Failure("unexpected-error", <<>>)
  <2>1. CASE foreign = [code |-> 502, body |-> "page", problem |-> NoProblem]
    <3>1. foreign.code = 502 /\ foreign.body = "page" /\ from_http(502) = "service-unavailable"
      BY <2>1 DEF from_http
    <3> QED
      BY <3>1 DEF reply_to_result, SUCCESS_STATUSES
  <2>2. CASE foreign = [code |-> 404, body |-> "problem", problem |-> Unlisted(<<"gone">>, "")]
    <3>1. foreign.code = 404 /\ foreign.body = "problem" /\ foreign.problem = Unlisted(<<"gone">>, "")
      BY <2>2
    <3>2. /\ foreign.problem.benzeneStatus = "" /\ foreign.problem.errors = NoErrors
          /\ foreign.problem.detail = <<"gone">>
      <4>1. PICK text, empty : text = <<"gone">> /\ empty = ""
        OBVIOUS
      <4>2. foreign.problem = Unlisted(text, empty)
        BY <3>1, <4>1
      <4>3. /\ foreign.problem.detail = text
            /\ foreign.problem.benzeneStatus = empty
            /\ foreign.problem.errors = NoErrors
        BY <4>2 DEF Unlisted
      <4> QED
        BY <4>1, <4>3
    <3>3. problem_status(foreign.problem, "not-found") = "not-found" /\ problem_errors(foreign.problem) = gone
      BY <1>1, <1>2, <3>2 DEF problem_status, problem_errors
    <3>4. from_http(foreign.code) = "not-found"
      <4>1. from_http(404) = "not-found"
        BY DEF from_http
      <4> QED
        BY <3>1, <4>1
    <3> QED
      BY <1>0, <3>1, <3>3, <3>4, ZenonT(60) DEF reply_to_result
  <2>3. CASE foreign = [code |-> 418, body |-> "problem", problem |-> Unlisted(<<>>, "ok")]
    <3>1. foreign.code = 418 /\ foreign.body = "problem" /\ foreign.problem = Unlisted(<<>>, "ok")
      BY <2>3
    <3>2. foreign.problem.benzeneStatus = "ok" /\ foreign.problem.errors = NoErrors /\ foreign.problem.detail = <<>>
      BY <3>1 DEF Unlisted
    <3>3. /\ problem_status(foreign.problem, "unexpected-error") = "unexpected-error"
          /\ problem_errors(foreign.problem) = <<>>
      BY <3>2 DEF problem_status, problem_errors, SUCCESS_STATUSES
    <3>4. from_http(foreign.code) = "unexpected-error"
      <4>1. from_http(418) = "unexpected-error"
        BY DEF from_http
      <4> QED
        BY <3>1, <4>1
    <3> QED
      BY <1>0, <3>1, <3>3, <3>4 DEF reply_to_result
  <2> QED
    BY <2>1, <2>2, <2>3, ZenonT(60) DEF Foreign
<1>4. PICK status \in {"service-unavailable", "not-found", "unexpected-error"}, errors \in {<<>>, gone} :
        q = Result(status, "none", errors, "derived")
  BY <1>3 DEF Failure
<1>5. status \in Words \ {""} /\ status \notin SUCCESS_STATUSES
  BY ReplyAssumption DEF KNOWN_STATUSES, FAILURE_STATUSES, SUCCESS_STATUSES
<1>6. errors \in Errors /\ HasMessages(errors)
  <2>1. HasMessages(<<>>)
    BY DEF HasMessages
  <2> QED
    BY <1>2, <2>1, NoneTyped
<1>7. Decoded(q, status, "none", errors, "derived")
  BY <1>4, <1>5, <1>6, NoneTyped, DecodedIsLawful
<1> QED
  BY <1>5, <1>7 DEF Decoded

\* At the start, and after any hop, what arrived stands.
LEMMA RelayStart == ReplyInit => RelayInv
<1> SUFFICES ASSUME ReplyInit PROVE RelayInv
  OBVIOUS
<1>1. LawfulResult(first) /\ current = first /\ hops = 0 /\ route = {}
  BY ReplyAssumption DEF ReplyInit
<1>2. Stands(first, current, hops, route, protos)
  BY <1>1 DEF Stands
<1> QED
  BY <1>1, <1>2 DEF RelayInv

LEMMA RelayStep == RelayInv /\ [ReplyNext]_replyVars => RelayInv'
<1> SUFFICES ASSUME RelayInv, [ReplyNext]_replyVars PROVE RelayInv'
  OBVIOUS
<1>1. LawfulResult(first) /\ hops \in Nat
  BY DEF RelayInv
<1>2. ASSUME NEW t \in {"envelope", "http", "grpc"}, Hop(t) PROVE RelayInv'
  <2>1. "lost" \notin route /\ hops' = hops + 1 /\ route' = route \cup {t} /\ first' = first /\ protos' = protos
    BY <1>2 DEF Hop
  <2>2. PICK f, r, n, via : f = first /\ r = current /\ n = hops /\ via = route
    OBVIOUS
  <2>3. LawfulResult(f) /\ n \in Nat /\ (n = 0 => r = f /\ via = {}) /\ Stands(f, r, n, via, protos)
    BY <2>1, <2>2 DEF RelayInv, Arrived
  <2>4. PICK q : q = current'
    OBVIOUS
  <2>5. q = CASE t = "envelope" -> decode_response(encode_response(r))
              [] t = "http" -> reply_to_result(ToHttpResponse(encode_response(r)))
              [] t = "grpc" -> ThroughGrpc(encode_response(r))
    BY <1>2, <2>2, <2>4 DEF Hop
  <2>6. Stands(f, q, n + 1, via \cup {t}, protos)
    BY <2>3, <2>5, HopStands
  <2>7. Stands(first', current', hops', route', protos')
    BY <2>1, <2>2, <2>4, <2>6
  <2>8. LawfulResult(first') /\ hops' \in Nat /\ hops' # 0
    BY <1>1, <2>1
  <2> QED
    BY <2>7, <2>8 DEF RelayInv
<1>3. ASSUME NEW status, CallFails(status) PROVE RelayInv'
  <2>1. hops' = hops + 1 /\ ~Arrived' /\ first' = first
    BY <1>3 DEF CallFails, Arrived
  <2>2. LawfulResult(first') /\ hops' \in Nat /\ hops' # 0
    BY <1>1, <2>1
  <2> QED
    BY <2>1, <2>2 DEF RelayInv
<1>4. ASSUME NEW foreign \in Foreign, ForeignReply(foreign) PROVE RelayInv'
  <2>1. PICK q : q = current' /\ q = first' /\ q = reply_to_result(foreign)
    BY <1>4 DEF ForeignReply
  <2>2. hops' = 1 /\ route' = {} /\ protos' = protos
    BY <1>4 DEF ForeignReply, RelayInv
  <2>3. LawfulResult(q) /\ Plain(q) /\ ~is_successful(q)
    BY <2>1, ForeignIsPlain
  <2>4. ErrorsTold(q, q.errors, {}, protos)
    <3>1. Told(q) = q.errors
      BY <2>3, ToldErrors
    <3> QED
      BY <3>1 DEF ErrorsTold, Whole
  <2>5. Stands(q, q, 1, {}, protos)
    BY <2>3, <2>4 DEF Stands
  <2>6. Stands(first', current', hops', route', protos')
    BY <2>1, <2>2, <2>5
  <2>7. LawfulResult(first') /\ hops' \in Nat /\ hops' # 0
    BY <2>1, <2>2, <2>3
  <2> QED
    BY <2>6, <2>7 DEF RelayInv
<1>5. CASE UNCHANGED replyVars
  BY <1>5 DEF replyVars, RelayInv, Arrived
<1> QED
  BY <1>2, <1>3, <1>4, <1>5 DEF ReplyNext

\* What stands is what ResultSurvives says.
LEMMA StandingSurvives == RelayInv => ResultSurvives
<1> SUFFICES ASSUME RelayInv, Arrived PROVE ResultSurvives
  BY DEF ResultSurvives, OutcomeSurvives, StatusSurvives, PayloadSurvives, ErrorsSurvive
<1>1. hops \in Nat /\ Stands(first, current, hops, route, protos)
  BY DEF RelayInv
<1>2. OutcomeSurvives /\ PayloadSurvives
  BY <1>1 DEF Stands, OutcomeSurvives, PayloadSurvives
<1>3. StatusSurvives
  <2>1. "updated" \notin KNOWN_STATUSES \ {"updated", "ignored"}
    OBVIOUS
  <2> QED
    BY <1>1, <2>1 DEF Stands, StatusSurvives
<1>4. ErrorsSurvive
  <2> SUFFICES ASSUME ~is_successful(first), hops > 0
               PROVE  CASE Reported = <<>> -> current.errors = <<>> \/ ("grpc" \in route /\ Len(current.errors) = 1)
                        [] Reported # <<>> /\ ("grpc" \notin route \/ protos # "none") ->
                              /\ Messages(current.errors) = Messages(Reported)
                              /\ \A i \in DOMAIN Reported :
                                     /\ "grpc" \notin route => current.errors[i] = Reported[i]
                                     /\ protos = "full" => current.errors[i].code = Reported[i].code
                                     /\ current.errors[i].field \in
                                            {Reported[i].field, dotted_to_pointer(pointer_to_dotted(Reported[i].field))}
                        [] OTHER -> Messages(current.errors) \in {<<Flat>>, <<FlattenSeq(Messages(Reported))>>}
    BY DEF ErrorsSurvive
  <2>1. ErrorsTold(first, current.errors, route, protos)
    BY <1>1 DEF Stands
  <2>2. Reported = Told(first) /\ Flat = FlatOf(first)
    BY DEF Reported, Told, Flat, FlatOf
  <2>3. CASE Reported = <<>>
    BY <2>1, <2>2, <2>3 DEF ErrorsTold
  <2>4. CASE Reported # <<>> /\ ("grpc" \notin route \/ protos # "none")
    <3>1. Whole(Reported, current.errors, route, protos)
      BY <2>1, <2>2, <2>4 DEF ErrorsTold
    <3> QED
      BY <2>4, <3>1 DEF Whole, Dotted
  <2>5. CASE Reported # <<>> /\ "grpc" \in route /\ protos = "none"
    <3>1. Messages(current.errors) \in {<<Flat>>, <<FlattenSeq(Messages(Reported))>>}
      BY <2>1, <2>2, <2>5 DEF ErrorsTold
    <3> QED
      BY <2>5, <3>1
  <2> QED
    BY <2>3, <2>4, <2>5
<1> QED
  BY <1>2, <1>3, <1>4 DEF ResultSurvives

\* Whatever lawful results services answer, and over however many hops, a Result that
\* arrives is the one answered (clients.py, envelope.py, http and grpc status tables).
THEOREM AnswersSurvive == ReplySpec => []ResultSurvives
<1> QED
  BY RelayStart, RelayStep, StandingSurvives, PTL DEF ReplySpec
=============================================================================
