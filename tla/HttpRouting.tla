------------------------------ MODULE HttpRouting ------------------------------
(***************************************************************************)
(* benzene-http: routes registered on an HttpRouter (routing.py), the      *)
(* application built on it, and one request (app.py, BenzeneHttpApp.handle *)
(* past the standard paths).                                               *)
(*                                                                         *)
(* A path is a sequence of segments, in a route some of them placeholders. *)
(* What a handler is given is, for each member, the source it is from.     *)
(***************************************************************************)
EXTENDS Naturals, Sequences, SequencesExt, FiniteSets

CONSTANTS Routes,           \* candidates: [method, path, topic, version, default, handler]
          MaxRoutes,
          Requests          \* [method, path, pin, query, body], pin the version header

ASSUME RoutingAssumption ==
    /\ \A r \in Routes : r.path \in Seq(STRING) /\ r.handler # ""
    /\ \A r \in Requests : r.path \in Seq(STRING)

VARIABLES routes,           \* what was registered, in order
          endpoints,        \* _endpoints
          definitions,      \* _definitions: (topic, version) -> the registration
          httpPhase,        \* "wiring", "refused", "serving" or "answered"
          request,
          response          \* [status, handler, data]

routingVars == <<routes, endpoints, definitions, httpPhase, request, response>>

Placeholders == {"{id}", "{version}"}
BodyMembers == {"id", "note"}
NoData == [k \in {} |-> ""]
NoResponse == [status |-> "none", handler |-> "", data |-> NoData]

RoutingStart ==
    /\ routes = <<>> /\ endpoints = <<>> /\ definitions = [p \in {} |-> ""]
    /\ httpPhase = "wiring" /\ response = NoResponse

RoutingInit == RoutingStart /\ request = CHOOSE r \in Requests : TRUE

\* _register, by add or register: the endpoint is appended, the definition of its pair
\* replaced.
RegisterRoute(r) ==
    /\ httpPhase = "wiring" /\ Len(routes) < MaxRoutes
    /\ routes' = Append(routes, r)
    /\ endpoints' = Append(endpoints, [method |-> r.method, path |-> r.path, topic |-> r.topic, version |-> r.version])
    /\ definitions' = [p \in DOMAIN definitions \cup {<<r.topic, r.version>>} |->
                          IF p = <<r.topic, r.version>> THEN [handler |-> r.handler, default |-> r.default]
                          ELSE definitions[p]]
    /\ UNCHANGED <<httpPhase, request, response>>

Defaults(topic) == {p \in DOMAIN definitions : p[1] = topic /\ definitions[p].default}

\* Registry.from_definitions refuses two defaults of a topic.
BuildHttpApp ==
    /\ httpPhase = "wiring"
    /\ httpPhase' = IF \E p \in DOMAIN definitions : Cardinality(Defaults(p[1])) > 1 THEN "refused" ELSE "serving"
    /\ UNCHANGED <<routes, endpoints, definitions, request, response>>

-----------------------------------------------------------------------------
Fits(path, segments) ==
    /\ Len(path) = Len(segments)
    /\ \A i \in DOMAIN path : path[i] \in Placeholders \/ path[i] = segments[i]

Matches(e, r) == e.method = r.method /\ Fits(e.path, r.path)

Captured(e, r) ==
    [p \in {e.path[i] : i \in {j \in DOMAIN e.path : e.path[j] \in Placeholders}} |->
        r.path[CHOOSE i \in DOMAIN e.path : e.path[i] = p]]

\* HttpRouter.match: the first endpoint that matches, 0 for none.
MatchOf(r) ==
    LET matching == {i \in DOMAIN endpoints : Matches(endpoints[i], r)}
    IN  IF matching = {} THEN 0 ELSE CHOOSE i \in matching : \A j \in matching : i <= j

\* Fault: a route's own version is left to the caller.
VersionOfCaller(e, r) ==
    IF "{version}" \in DOMAIN Captured(e, r) THEN Captured(e, r)["{version}"] ELSE r.pin

\* The version segment wins, then the caller's header, then the route's own version.
VersionFor(e, r) ==
    CASE "{version}" \in DOMAIN Captured(e, r) -> Captured(e, r)["{version}"]
      [] "{version}" \notin DOMAIN Captured(e, r) /\ r.pin # "" -> r.pin
      [] OTHER -> e.version

\* Fault: what the body says stands.
MergeBodyFirst(body, query, path) ==
    [k \in body \cup query \cup path |-> IF k \in body THEN "body" ELSE IF k \in query THEN "query" ELSE "path"]

Merge(body, query, path) ==
    [k \in body \cup query \cup path |-> IF k \in path THEN "path" ELSE IF k \in query THEN "query" ELSE "body"]

\* request_data; a body that is no object passes only where there is nothing to merge.
RequestData(e, r) ==
    LET path == IF "{id}" \in DOMAIN Captured(e, r) THEN {"id"} ELSE {}
        body == IF r.body = "object" THEN BodyMembers ELSE {}
    IN  IF r.query = {} /\ path = {} /\ r.body = "list" THEN [k \in {"list"} |-> "body"]
        ELSE Merge(body, r.query, path)

\* exact_version over the router's own definitions
Chosen(topic, version) ==
    LET pairs == IF version # "" \/ <<topic, "">> \in DOMAIN definitions
                 THEN {<<topic, version>>} \cap DOMAIN definitions ELSE Defaults(topic)
    IN  IF pairs = {} THEN "" ELSE definitions[CHOOSE p \in pairs : TRUE].handler

ResponseTo(r) ==
    LET e == endpoints[MatchOf(r)]
        handler == Chosen(e.topic, VersionFor(e, r))
    IN  CASE MatchOf(r) = 0 -> [NoResponse EXCEPT !.status = "not-found"]
          [] MatchOf(r) # 0 /\ r.body = "broken" -> [NoResponse EXCEPT !.status = "bad-request"]
          [] MatchOf(r) # 0 /\ r.body # "broken" /\ handler = "" -> [NoResponse EXCEPT !.status = "not-found"]
          [] OTHER -> [status |-> "ok", handler |-> handler, data |-> RequestData(e, r)]

HandleRequest(r) ==
    /\ httpPhase = "serving"
    /\ httpPhase' = "answered" /\ request' = r /\ response' = ResponseTo(r)
    /\ UNCHANGED <<routes, endpoints, definitions>>

RoutingNext == \/ \E r \in Routes : RegisterRoute(r)
               \/ BuildHttpApp
               \/ \E r \in Requests : HandleRequest(r)

RoutingSpec == RoutingInit /\ [][RoutingNext]_routingVars

-----------------------------------------------------------------------------
\* http_mappings: what the Contract Document says of a topic and version.
http_mappings(topic, version) ==
    {<<e.method, e.path>> : e \in {x \in ToSet(endpoints) : x.topic = topic /\ x.version = version}}

\* The route a caller means who asks for what the document says: without a version of
\* its own, on a path that neither another pair's route nor one that reads a version
\* from it could take.
Advertised(topic, version) ==
    /\ request.pin = ""
    /\ \E m \in http_mappings(topic, version) :
           m[1] = request.method /\ Fits(m[2], request.path)
    /\ \A i \in DOMAIN routes :
           routes[i].method = request.method /\ Fits(routes[i].path, request.path) =>
               /\ routes[i].topic = topic /\ routes[i].version = version
               /\ ~Contains(routes[i].path, "{version}")

\* A request on a route the document lists under a topic and version is answered by the
\* last handler that was registered for exactly that pair, whatever else the topic
\* serves and whichever of its versions is the default.
AdvertisedRouteServed ==
    httpPhase = "answered" /\ request.body # "broken" =>
        \A p \in DOMAIN definitions :
            Advertised(p[1], p[2]) =>
                /\ response.status = "ok"
                /\ \E i \in DOMAIN routes :
                       /\ routes[i].topic = p[1] /\ routes[i].version = p[2] /\ routes[i].handler = response.handler
                       /\ \A j \in DOMAIN routes : j > i => <<routes[j].topic, routes[j].version>> # p

\* What the path says of the resource is what the handler is given, whatever the query
\* and the body say; the version in a path never reaches it as data.
PathIsBelieved ==
    httpPhase = "answered" /\ response.status = "ok" =>
        /\ \A k \in {"version", "{version}"} \cap DOMAIN response.data : response.data[k] # "path"
        /\ Contains(endpoints[MatchOf(request)].path, "{id}") =>
               "id" \in DOMAIN response.data /\ response.data["id"] = "path"
        /\ \A k \in request.query : response.data[k] \in {"query", "path"}

\* A request that follows an advertised route reaches that route's handler, with the
\* parameters of its path.
RequestsReachTheirRoute == AdvertisedRouteServed /\ PathIsBelieved
=============================================================================
