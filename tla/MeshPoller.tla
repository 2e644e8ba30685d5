------------------------------ MODULE MeshPoller ------------------------------
(***************************************************************************)
(* benzene-mesh, poller.py: sweeps over a fleet.  poll_once polls all      *)
(* sources concurrently; each poll awaits the spec and then the health     *)
(* document and folds both into the collector, without an await between    *)
(* the two ingests.  The artifacts are published after each sweep.         *)
(*                                                                         *)
(* A document is read whatever the status of the answer, so the JSON body  *)
(* of an error is taken for the document of a service that has none.       *)
(* Meanwhile services are redeployed, and may announce the new release     *)
(* themselves: a pushed registration arrives whenever it arrives.          *)
(***************************************************************************)
EXTENDS MeshReadModel

CONSTANTS ServiceSources,  \* the fleet, a source named for its service
          Releases,        \* releases of a service, numbered from 1
          MaxPollTrouble   \* bound on what the sources that are not down get wrong

VARIABLES deployed,   \* the release of each service that is running
          down,       \* the sources that cannot be reached, or whose every answer is an error
          pushing,    \* the services also push their registrations
          mail,       \* pushed registrations on their way: <<service, release>>
          catalog,    \* the collector's catalog
          poll,       \* where each source's poll is
          fetched,    \* the release whose spec each poll has read, 0 for an error's body
          published,  \* the topics document the UI reads
          pollTrouble

pollVars == <<deployed, down, pushing, mail, catalog, poll, fetched, published, pollTrouble>>

\* Every release serves one topic, under a schema of its own.
ReleaseHash(r) == <<"h1", "h2", "h3">>[r]
ReleaseDoc(s, r) ==
    [service |-> s, hash |-> ReleaseHash(r), present |-> Members, degraded |-> {},
     topics |-> [requests |-> {s}, events |-> {}, sends |-> {}], spec |-> [t \in {s} |-> r]]

\* The body of an error: no topics, no hash, and the service takes the source's name.
ErrorDoc(s) ==
    [service |-> s, hash |-> "", present |-> {}, degraded |-> {}, topics |-> EmptyMap, spec |-> EmptyMap]

NoTopics == EmptyMap

PollStart == /\ deployed = [s \in ServiceSources |-> 1] /\ mail = {}
             /\ catalog = EmptyCatalog
             /\ poll = [s \in ServiceSources |-> "idle"] /\ fetched = [s \in ServiceSources |-> 0]
             /\ published = NoTopics /\ pollTrouble = 0

PollInit == down \in SUBSET ServiceSources /\ pushing \in BOOLEAN /\ PollStart

-----------------------------------------------------------------------------
Redeploy(s) ==
    /\ deployed[s] + 1 \in Releases
    /\ deployed' = [deployed EXCEPT ![s] = @ + 1]
    /\ mail' = IF pushing THEN mail \cup {<<s, deployed[s] + 1>>} ELSE mail
    /\ UNCHANGED <<down, pushing, catalog, poll, fetched, published, pollTrouble>>

\* A pushed registration (MeshFeedSender.register) reaches the collector.
PushArrives(m) ==
    /\ m \in mail
    /\ mail' = mail \ {m}
    /\ catalog' = ingest_register(catalog, ReleaseDoc(m[1], m[2]))
    /\ UNCHANGED <<deployed, down, pushing, poll, fetched, published, pollTrouble>>

\* poll_once: a poll of every source begins.
StartSweep ==
    /\ \A s \in ServiceSources : poll[s] = "idle"
    /\ poll' = [s \in ServiceSources |-> "asking"]
    /\ UNCHANGED <<deployed, down, pushing, mail, catalog, fetched, published, pollTrouble>>

\* fetch_spec reads the document.
FetchSpec(s) ==
    /\ poll[s] = "asking" /\ s \notin down
    /\ poll' = [poll EXCEPT ![s] = "described"]
    /\ fetched' = [fetched EXCEPT ![s] = deployed[s]]
    /\ UNCHANGED <<deployed, down, pushing, mail, catalog, published, pollTrouble>>

Troubled(s) == IF s \in down THEN UNCHANGED pollTrouble
               ELSE pollTrouble < MaxPollTrouble /\ pollTrouble' = pollTrouble + 1

\* _get_json does not look at the status: the JSON object of a 404, or of a gateway's
\* 503, is taken for the document.
FetchError(s) ==
    /\ poll[s] = "asking" /\ Troubled(s)
    /\ poll' = [poll EXCEPT ![s] = "described"]
    /\ fetched' = [fetched EXCEPT ![s] = 0]
    /\ UNCHANGED <<deployed, down, pushing, mail, catalog, published>>

\* fetch_spec or fetch_health raises: the poll is over, the sweep goes on, and nothing
\* is folded.
FetchRaises(s) ==
    /\ poll[s] \in {"asking", "described"} /\ Troubled(s)
    /\ poll' = [poll EXCEPT ![s] = "done"]
    /\ fetched' = [fetched EXCEPT ![s] = 0]
    /\ UNCHANGED <<deployed, down, pushing, mail, catalog, published>>

DocRead(s) == IF fetched[s] = 0 THEN ErrorDoc(s) ELSE ReleaseDoc(s, fetched[s])

\* Fault: the heartbeat carries the hash of whatever runs by now.
FoldNewest(s) ==
    /\ poll[s] = "described"
    /\ catalog' = ingest_heartbeat(ingest_register(catalog, DocRead(s)),
                      [service |-> s, instance |-> s, healthy |-> TRUE, hash |-> ReleaseHash(deployed[s])])
    /\ poll' = [poll EXCEPT ![s] = "done"]
    /\ fetched' = [fetched EXCEPT ![s] = 0]
    /\ UNCHANGED <<deployed, down, pushing, mail, published, pollTrouble>>

\* fetch_health answers, with an error's body for an unhealthy one, then both ingests;
\* the hash of the heartbeat is read off the spec.
Fold(s) ==
    /\ poll[s] = "described"
    /\ \E healthy \in BOOLEAN :
         catalog' = ingest_heartbeat(ingest_register(catalog, DocRead(s)),
                        [service |-> s, instance |-> s, healthy |-> healthy, hash |-> DocRead(s).hash])
    /\ poll' = [poll EXCEPT ![s] = "done"]
    /\ fetched' = [fetched EXCEPT ![s] = 0]
    /\ UNCHANGED <<deployed, down, pushing, mail, published, pollTrouble>>

\* Fault: a sweep with a failed source is not published.
PublishSweepIfAll ==
    /\ \A s \in ServiceSources : poll[s] = "done" /\ s \notin down
    /\ poll' = [s \in ServiceSources |-> "idle"]
    /\ published' = TopicsArtifact(catalog)
    /\ UNCHANGED <<deployed, down, pushing, mail, catalog, fetched, pollTrouble>>

\* The sweep is over and its artifacts are written.
PublishSweep ==
    /\ \A s \in ServiceSources : poll[s] = "done"
    /\ poll' = [s \in ServiceSources |-> "idle"]
    /\ published' = TopicsArtifact(catalog)
    /\ UNCHANGED <<deployed, down, pushing, mail, catalog, fetched, pollTrouble>>

PollStep == \/ StartSweep \/ PublishSweep
            \/ \E s \in ServiceSources : FetchSpec(s) \/ FetchError(s) \/ FetchRaises(s) \/ Fold(s)

MailArrives == \E m \in mail : PushArrives(m)

PollNext == PollStep \/ (\E s \in ServiceSources : Redeploy(s)) \/ MailArrives

PollSpec == PollInit /\ [][PollNext]_pollVars

-----------------------------------------------------------------------------
\* A fleet that is only pulled never shows contract drift, though a service may be
\* redeployed between the two fetches of its poll, and may answer with errors: the
\* registration and the heartbeat are of one document.
PullNeverDrifts == ~pushing => \A s \in DOMAIN catalog.services : ~Drifted(catalog.services[s])

\* When two publications in a row differ in a topic's schema, the second one marks the
\* change; and a topic is gone from a publication only where the collector has taken an
\* error's body for the registration of its service.  (After that the schema before it
\* is forgotten, so a change across such a gap is not marked.  Nor is it when the service
\* pushed its registration as well: the poll that follows registers the same document
\* again.)
ChangePublished ==
    [][~pushing /\ PublishSweep =>
        /\ \A t \in DOMAIN published \cap DOMAIN published' :
             published'[t].schemas # published[t].schemas => published'[t].changes # {}
        /\ \A t \in DOMAIN published \ DOMAIN published' : catalog.services[t].hash = ""]_pollVars

\* Once the deployments are over, the collector and the published topics show the
\* running release of every service that can be reached, whatever else is down and
\* however late an old registration arrives.
PollConverges ==
    <>[](\A s \in ServiceSources \ down :
            /\ s \in DOMAIN catalog.services /\ catalog.services[s].hash = ReleaseHash(deployed[s])
            /\ s \in DOMAIN published /\ published[s].schemas = {deployed[s]})

\* What the poller makes of a fleet that it alone feeds is what the fleet answered: no
\* drift where there is none, every change between two publications shown, and no topic
\* gone whose service answered with its document.
PollShowsReleases == []PullNeverDrifts /\ ChangePublished
=============================================================================
