----------------------------- MODULE MeshReadModel -----------------------------
(***************************************************************************)
(* benzene-mesh: what the collector answers to its queries (collector.py)  *)
(* and what the aggregator publishes for the mesh UI (artifacts.py), as    *)
(* operators on a catalog.                                                 *)
(***************************************************************************)
EXTENDS MeshCatalog, FiniteSetsExt

CONSTANT ChannelKey(_)   \* _channel_key: topic.replace(":", "_"), the same for "a:b" and "a_b"

Successful == {"ok", "created", "accepted", "updated", "deleted", "ignored"}
Failing(e) == e.status \notin Successful

Where(events, Test(_)) == {i \in DOMAIN events : Test(events[i])}

ProvidersOf(cat, topic) == {s \in DOMAIN cat.services : topic \in cat.services[s].produced}
ConsumersOf(cat, topic) == {s \in DOMAIN cat.services : topic \in cat.services[s].consumed}

InvocationsOn(cat, topic) == Cardinality(Where(cat.events, LAMBDA e : e.topic = topic))
InvocationsBy(cat, service) == Cardinality(Where(cat.events, LAMBDA e : e.service = service))

\* The latest time, in which 0 is no time at all.
Latest(times) == Max(times \cup {0})

\* _observed_handlers, _note_observed: who was traced handling a topic, and when last.
ObservedHandlers(cat, topic) ==
    LET on == Where(cat.events, LAMBDA e : e.topic = topic) IN
    [s \in {cat.events[i].service : i \in on} |->
        Latest({cat.events[i].at : i \in {j \in on : cat.events[j].service = s}})]

\* _observed_callers: whose span a call to the topic by another service was made in,
\* looked up among all the events the collector has now.
CallerOf(cat, e) ==
    IF e.parent # "" /\ e.parent \in DOMAIN cat.owner /\ cat.owner[e.parent] # e.service
    THEN cat.owner[e.parent] ELSE ""
ObservedCallers(cat, topic) ==
    LET on == Where(cat.events, LAMBDA e : e.topic = topic /\ CallerOf(cat, e) # "") IN
    [s \in {CallerOf(cat, cat.events[i]) : i \in on} |->
        Latest({cat.events[i].at : i \in {j \in on : CallerOf(cat, cat.events[j]) = s}})]

\* _edge_activity: the declared edges, with the last time each was observed.
EdgeActivity(observed, declared) ==
    [s \in declared |-> IF s \in DOMAIN observed THEN observed[s] ELSE 0]

query_topic(cat, topic) ==
    LET on == Where(cat.events, LAMBDA e : e.topic = topic) IN
    [providers |-> ProvidersOf(cat, topic), consumers |-> ConsumersOf(cat, topic),
     invocations |-> Cardinality(on),
     errors |-> Cardinality({i \in on : Failing(cat.events[i])}),
     providerActivity |-> EdgeActivity(ObservedCallers(cat, topic), ProvidersOf(cat, topic)),
     consumerActivity |-> EdgeActivity(ObservedHandlers(cat, topic), ConsumersOf(cat, topic))]

-----------------------------------------------------------------------------
(* Flows. *)

\* Fault: the events of a flow are taken in the order they came in.
StartsBeforeReceipt(events, i, j) == i < j

\* _start_order: by start time, an event without one last, ties in receipt order.
StartsBefore(events, i, j) ==
    \/ events[i].at # 0 /\ (events[j].at = 0 \/ events[i].at < events[j].at)
    \/ events[i].at = events[j].at /\ i < j
First(events, on) == events[CHOOSE i \in on : \A j \in on \ {i} : StartsBefore(events, i, j)]

\* _flow_duration_ms, of the events at some places.
FlowDuration(events, on) ==
    LET timed == {i \in on : events[i].at # 0}
        longest == Max({events[i].ms : i \in on})
        start == Min({events[i].at : i \in timed})
        end == Max({events[i].at + events[i].ms : i \in timed})
    IN  IF timed = {} \/ end - start < longest THEN longest ELSE end - start

\* _trace_summaries: one flow.
TraceSummary(cat, trace) ==
    LET flow == Where(cat.events, LAMBDA e : e.trace = trace)
        failing == {i \in flow : Failing(cat.events[i])}
    IN  [events |-> Cardinality(flow),
         services |-> {cat.events[i].service : i \in flow},
         failed |-> failing # {},
         startedAt |-> First(cat.events, flow).at,
         durationMs |-> FlowDuration(cat.events, flow),
         status |-> First(cat.events, IF failing # {} THEN failing ELSE flow).status]

-----------------------------------------------------------------------------
(* Services. *)

\* _health.
Health(record) ==
    LET healths == {record.instances[i].healthy : i \in DOMAIN record.instances} IN
    CASE healths = {} -> "unknown"
      [] healths = {TRUE} -> "healthy"
      [] healths = {FALSE} -> "unhealthy"
      [] healths = {TRUE, FALSE} -> "degraded"

\* _missing_feeds: issues are missed only where a failure needs explaining.
MissingFeeds(cat, s) ==
    LET record == cat.services[s]
        failures == Where(cat.events, LAMBDA e : e.service = s /\ Failing(e))
    IN  {feed \in {"descriptor", "health", "traces", "issues"} :
            CASE feed = "descriptor" -> ~record.registered
              [] feed = "health" -> record.instances = EmptyMap
              [] feed = "traces" -> InvocationsBy(cat, s) = 0
              [] feed = "issues" -> ~record.reported /\ failures # {}}

\* hashMatches of query_service, and _drifted of the artifacts.
HashMatches(record, i) == record.instances[i].hash = record.hash
Drifted(record) == \E i \in DOMAIN record.instances : ~HashMatches(record, i)

-----------------------------------------------------------------------------
(* The artifacts. *)

\* Fault: a service without heartbeats is taken to be healthy.
ManifestOptimistic(cat) ==
    [s \in DOMAIN cat.services |->
        [status |-> IF Health(cat.services[s]) \in {"unhealthy", "degraded"} THEN "unhealthy" ELSE "healthy",
         contractDrift |-> Drifted(cat.services[s])]]

Manifest(cat) ==
    [s \in DOMAIN cat.services |->
        [status |-> CASE Health(cat.services[s]) = "healthy" -> "healthy"
                      [] Health(cat.services[s]) \in {"unhealthy", "degraded"} -> "unhealthy"
                      [] Health(cat.services[s]) = "unknown" -> "unreachable",
         contractDrift |-> Drifted(cat.services[s])]]

\* _topology: a provider is a client of each consumer of the topic.
Shared(cat, client, server) ==
    {t \in cat.topics : client \in ProvidersOf(cat, t) /\ server \in ConsumersOf(cat, t)}
Topology(cat) ==
    LET Pairs == {p \in (DOMAIN cat.services) \X (DOMAIN cat.services) :
                    p[1] # p[2] /\ Shared(cat, p[1], p[2]) # {}} IN
    [p \in Pairs |->
        [errors |-> SumFunction([t \in Shared(cat, p[1], p[2]) |-> query_topic(cat, t).errors]),
         invocations |-> SumFunction([t \in Shared(cat, p[1], p[2]) |-> InvocationsOn(cat, t)])]]

Removed(cat) == cat.everConsumed \ UNION {cat.services[s].consumed : s \in DOMAIN cat.services}

\* _topic_changes: a consumer's schema differs from the one it registered before.
Changed(cat, topic) ==
    {s \in ConsumersOf(cat, topic) :
        LET record == cat.services[s] IN
        /\ topic \in DOMAIN record.specs \cap DOMAIN record.previousSpecs
        /\ record.specs[topic] # record.previousSpecs[topic]}

\* _topics: consumers that declare different schemas; 0 is a spec without any.
TopicsArtifact(cat) ==
    [t \in cat.topics \ Removed(cat) |->
        LET specs == {cat.services[s].specs[t] : s \in {c \in ConsumersOf(cat, t) : t \in DOMAIN cat.services[c].specs}}
        IN  [consumers |-> ConsumersOf(cat, t), producers |-> ProvidersOf(cat, t),
             schemas |-> specs \ {0}, schemaMismatch |-> Cardinality(specs \ {0}) > 1,
             changes |-> Changed(cat, t)]]

\* _usage: events counted by topic, service and status.
Usage(cat) ==
    LET Key(e) == <<e.topic, e.service, e.status>> IN
    [k \in {Key(cat.events[i]) : i \in DOMAIN cat.events} |->
        Cardinality(Where(cat.events, LAMBDA e : Key(e) = k))]

\* _asyncapi: the channels of the domain's topics and the roles taken on them.  Topics
\* with the same key share a channel, its operations and its message; whose address and
\* payload it has, the last one's in the listing, is left out.
AsyncApi(cat) ==
    LET domain == cat.topics \ Reserved
        On(key) == {t \in domain : ChannelKey(t) = key}
    IN  [key \in {ChannelKey(t) : t \in domain} |->
            {"receive" : t \in {u \in On(key) : ConsumersOf(cat, u) # {}}} \cup
            {"send" : t \in {u \in On(key) : ProvidersOf(cat, u) # {}}}]

=============================================================================
