-------------------------------- MODULE MCCore --------------------------------
(***************************************************************************)
(* The single-message machinery of benzene-core and its neighbours, one    *)
(* subject followed at a time while the others stay as they start.         *)
(***************************************************************************)
EXTENDS Saga, CacheAside, Container, Casting, Dispatch, Replies, Contract, HttpRouting

VARIABLE subject

MCTtls == {1, 3, Forever}
MCNeeds == [A |-> {"B", "C"}, B |-> {"C"}, C |-> {}]

-----------------------------------------------------------------------------
(* Dispatch: v2 sorts before v10, and the topic t may have any of five handlers. *)
Runs(v) == CASE v = "" -> <<>> [] v = "1" -> <<<<1, 1>>, <<0, 1>>>> [] v = "2" -> <<<<1, 1>>, <<0, 2>>>>
             [] v = "10" -> <<<<1, 1>>, <<0, 10>>>>
MCDefinition(topic, version, default) == [topic |-> topic, version |-> version, key |-> Runs(version), default |-> default]
MCDefinitions == {MCDefinition("t", "", FALSE), MCDefinition("t", "1", TRUE), MCDefinition("t", "2", FALSE),
                  MCDefinition("t", "2", TRUE), MCDefinition("t", "10", FALSE)}
OpenApp(selector) == [open |-> TRUE, handlers |-> <<>>, middleware |-> <<>>, selector |-> selector,
                      checks |-> FALSE, contract |-> FALSE]
FixedApp(middleware, checks, contract) ==
    [open |-> FALSE, handlers |-> <<MCDefinition("t", "", FALSE)>>, middleware |-> middleware,
     selector |-> "exact", checks |-> checks, contract |-> contract]
MCApps ==
    {OpenApp(s) : s \in {"exact", "highest"}} \cup
    {FixedApp(m, c, d) : m \in {<<>>, <<"auth">>, <<"health">>, <<"auth", "health">>, <<"health", "auth">>},
                         c \in BOOLEAN, d \in BOOLEAN}
MCInbound ==
    [topic : {"t", "u", "", HEALTH_TOPIC, SPEC_TOPIC, PING_TOPIC}, version : {"", "2", "3"},
     ignore : BOOLEAN, trusted : BOOLEAN]

-----------------------------------------------------------------------------
(* Replies *)
MCWords == STRING
Field(path) == [kind |-> "pointer", path |-> path]
MCErrors ==
    {<<>>,
     <<Error(<<"a">>, NoField, "")>>,
     <<Error(<<>>, NoField, "c1")>>,
     <<Error(<<>>, NoField, ""), Error(<<"a">>, NoField, "c1"), Error(<<"b">>, NoField, "c2")>>,
     <<Error(<<"a">>, Field(<<<<"items">>, <<"0">>>>), "c1"), Error(<<"b">>, NoField, "c2")>>,
     <<Error(<<"a">>, Field(<<<<"x", "y">>>>), ""), Error(<<"b">>, [kind |-> "bare", path |-> <<<<"z">>>>], "c1")>>}
MCResults ==
    {Result(s, p, <<>>, "derived") : s \in SUCCESS_STATUSES, p \in {"none", "p"}}
    \cup {Result("cache-warm", "p", <<>>, "yes")}
    \cup {Failure(s, e) : s \in FAILURE_STATUSES \cup {"out-of-stock"}, e \in MCErrors}
    \cup {Problem("conflict", d, e) : d \in {<<>>, <<"d">>}, e \in MCErrors}

-----------------------------------------------------------------------------
(* Contract: two requests and a send, of types that may refer to each other, *)
(* be optional or listed there, and share their names.                       *)
MCTypeOrder == <<"A", "B", "C">>
MCFields == [shape : {"date", "str"}, of : {"A"}] \cup [shape : {"ref", "optional", "list"}, of : {"A", "B", "C"}]
MCWorlds ==
    {("A" :> a) @@ ("B" :> b) @@ ("C" :> c) :
        a \in [kind : {"record", "model", "root"}, name : {"N"}, field : MCFields],
        b \in [kind : {"record", "model", "root"}, name : {"N", "M"}, field : MCFields],
        c \in [kind : {"record", "model", "enum"}, name : {"M"},
               field : [shape : {"str", "ref", "optional"}, of : {"A"}]]}
MCTopicsOf == [t1 |-> [member |-> "requests", type |-> "A"], t2 |-> [member |-> "requests", type |-> "B"],
               t3 |-> [member |-> "sends", type |-> "C"]]

-----------------------------------------------------------------------------
(* HttpRouting: a plain route, one with its version in the path, two versions of one *)
(* topic on their own paths, a second handler of a pair, another topic's route, and  *)
(* one that reads a version from paths that are another route's of its pair.         *)
Route(path, topic, version, default, handler) ==
    [method |-> "GET", path |-> path, topic |-> topic, version |-> version, default |-> default, handler |-> handler]
MCRoutes ==
    {Route(<<"orders", "{id}">>, "o", "", FALSE, "h0"), Route(<<"{version}", "orders", "{id}">>, "o", "1", FALSE, "h1"),
     Route(<<"old", "{id}">>, "o", "1", TRUE, "h1"), Route(<<"new", "{id}">>, "o", "2", TRUE, "h2"),
     Route(<<"newer", "{id}">>, "o", "2", FALSE, "h3"), Route(<<"orders", "all">>, "a", "", FALSE, "h4"),
     Route(<<"{version}", "{id}">>, "o", "2", TRUE, "h2")}
MCRequests ==
    [method : {"GET", "PUT"},
     path : {<<"orders", "7">>, <<"orders", "all">>, <<"2", "orders", "7">>, <<"3", "orders", "7">>, <<"old", "7">>, <<"new", "7">>},
     pin : {"", "1"}, query : {{}, {"id"}, {"page", "version"}}, body : {"none", "object", "list", "broken"}]

-----------------------------------------------------------------------------
SagaQuiet == undoable = {} /\ SagaStart
CacheQuiet == backend = "memory" /\ ttl = 1 /\ CacheStart
CastQuiet == casts = {} /\ CastStart(1, 1)
DispatchQuiet == app = OpenApp("exact") /\ handlers = <<>> /\ DispatchStart
ReplyQuiet == first = Failure("timeout", <<>>) /\ ReplyStart
ContractQuiet ==
    /\ world = [t \in {"A", "B", "C"} |-> [kind |-> "record", name |-> "N", field |-> [shape |-> "str", of |-> "A"]]]
    /\ ContractStart

Subjects == {"saga", "cache", "container", "casting", "dispatch", "replies", "contract", "routing"}

MCInit ==
    /\ subject \in Subjects
    /\ IF subject = "saga" THEN SagaInit ELSE SagaQuiet
    /\ IF subject = "cache" THEN CacheInit ELSE CacheQuiet
    /\ ContainerInit
    /\ IF subject = "casting" THEN CastInit ELSE CastQuiet
    /\ IF subject = "dispatch" THEN DispatchInit ELSE DispatchQuiet
    /\ IF subject = "replies" THEN ReplyInit ELSE ReplyQuiet
    /\ IF subject = "contract" THEN ContractInit ELSE ContractQuiet
    /\ RoutingInit

MCNext ==
    /\ \/ subject = "saga" /\ SagaNext
          /\ UNCHANGED <<cacheVars, containerVars, castVars, dispatchVars, replyVars, contractVars, routingVars>>
       \/ subject = "cache" /\ CacheNext
          /\ UNCHANGED <<sagaVars, containerVars, castVars, dispatchVars, replyVars, contractVars, routingVars>>
       \/ subject = "container" /\ ContainerNext
          /\ UNCHANGED <<sagaVars, cacheVars, castVars, dispatchVars, replyVars, contractVars, routingVars>>
       \/ subject = "casting" /\ CastNext
          /\ UNCHANGED <<sagaVars, cacheVars, containerVars, dispatchVars, replyVars, contractVars, routingVars>>
       \/ subject = "dispatch" /\ DispatchNext
          /\ UNCHANGED <<sagaVars, cacheVars, containerVars, castVars, replyVars, contractVars, routingVars>>
       \/ subject = "replies" /\ ReplyNext
          /\ UNCHANGED <<sagaVars, cacheVars, containerVars, castVars, dispatchVars, contractVars, routingVars>>
       \/ subject = "contract" /\ ContractNext
          /\ UNCHANGED <<sagaVars, cacheVars, containerVars, castVars, dispatchVars, replyVars, routingVars>>
       \/ subject = "routing" /\ RoutingNext
          /\ UNCHANGED <<sagaVars, cacheVars, containerVars, castVars, dispatchVars, replyVars, contractVars>>
    /\ UNCHANGED subject
vars == <<subject, sagaVars, cacheVars, containerVars, castVars, dispatchVars, replyVars, contractVars, routingVars>>
MCSpec == MCInit /\ [][MCNext]_vars
=============================================================================
