------------------------------- MODULE MeshHost -------------------------------
(***************************************************************************)
(* benzene-mesh: a long-lived collector behind an envelope transport, its  *)
(* catalog kept in a JsonFileCollectorStore (store.py).  An ingest is one  *)
(* handler call without an await, so ingests do not interleave with each   *)
(* other; the process can die at any point of one, the disk can fill up,   *)
(* and a feed that is not answered, or whose answer is lost, comes again.  *)
(***************************************************************************)
EXTENDS MeshReadModel

CONSTANTS Feeds,          \* names of the feeds a fleet may send
          FeedOf(_),      \* what each one holds
          Fleets,         \* the sets of feeds that are sent together
          MaxDeliveries,  \* bound on the deliveries of all feeds together
          MaxHostTrouble  \* bound on crashes and failing saves

VARIABLES fleet,      \* the feeds that are sent
          cat,        \* the catalog in memory
          file,       \* the snapshot on disk
          temp,       \* the temporary file of a save
          pc,         \* down, idle, or how far the ingest at hand is
          feed,       \* the feed at hand
          deliveries, \* how often each feed reached the collector
          acked,      \* the feeds answered ok
          unsaved,    \* history: a save failed since the last one that did not
          hostTrouble

meshHostVars == <<fleet, cat, file, temp, pc, feed, deliveries, acked, unsaved, hostTrouble>>

NoFile == [version |-> 0]          \* no file, or one that is no JSON object
OldFile == [version |-> 3]         \* a snapshot of an earlier release

HostLoad == IF file = NoFile THEN EmptyCatalog ELSE restore(file)

MeshHostStart == /\ cat = EmptyCatalog /\ temp = NoFile /\ pc = "down" /\ feed = "none"
                 /\ deliveries = [f \in Feeds |-> 0]
                 /\ acked = {} /\ unsaved = FALSE /\ hostTrouble = 0

MeshHostInit == fleet \in Fleets /\ file \in {NoFile, OldFile} /\ MeshHostStart

-----------------------------------------------------------------------------
\* MeshCollector.__init__.
StartCollector ==
    /\ pc = "down"
    /\ cat' = HostLoad
    /\ pc' = "idle"
    /\ unsaved' = FALSE
    /\ UNCHANGED <<fleet, file, temp, feed, deliveries, acked, hostTrouble>>

\* A feed arrives for the first time or again.
Arrives(f) == f \in fleet /\ SumFunctionOnSet(deliveries, Feeds) < MaxDeliveries

\* Fault: what is refused is answered ok.
RefuseAnswersOk(f) ==
    /\ pc = "idle" /\ Arrives(f)
    /\ ~Accepts(FeedOf(f))
    /\ deliveries' = [deliveries EXCEPT ![f] = @ + 1]
    /\ acked' = acked \cup {f}
    /\ UNCHANGED <<fleet, cat, file, temp, pc, feed, unsaved, hostTrouble>>

\* A feed without the name it needs is answered bad-request, and changes nothing.
Refuse(f) ==
    /\ pc = "idle" /\ Arrives(f)
    /\ ~Accepts(FeedOf(f))
    /\ deliveries' = [deliveries EXCEPT ![f] = @ + 1]
    /\ UNCHANGED <<fleet, cat, file, temp, pc, feed, acked, unsaved, hostTrouble>>

Deliver(f) ==
    /\ pc = "idle" /\ Arrives(f)
    /\ Accepts(FeedOf(f))
    /\ deliveries' = [deliveries EXCEPT ![f] = @ + 1]
    /\ cat' = Ingest(cat, FeedOf(f))
    /\ feed' = f
    /\ pc' = "saving"
    /\ UNCHANGED <<fleet, file, temp, acked, unsaved, hostTrouble>>

\* Fault: the file itself is opened for writing.
WriteInPlace ==
    /\ pc = "saving"
    /\ file' = NoFile
    /\ temp' = snapshot(cat)
    /\ pc' = "replacing"
    /\ UNCHANGED <<fleet, cat, feed, deliveries, acked, unsaved, hostTrouble>>

\* save: the temporary file is written and flushed.
WriteTemp ==
    /\ pc = "saving"
    /\ temp' = snapshot(cat)
    /\ pc' = "replacing"
    /\ UNCHANGED <<fleet, cat, file, feed, deliveries, acked, unsaved, hostTrouble>>

\* save raises: the temporary file is removed and the handler fails, but the catalog
\* in memory has the feed.
SaveFails ==
    /\ pc \in {"saving", "replacing"}
    /\ hostTrouble < MaxHostTrouble
    /\ hostTrouble' = hostTrouble + 1
    /\ temp' = NoFile
    /\ unsaved' = TRUE
    /\ feed' = "none"
    /\ pc' = "idle"
    /\ UNCHANGED <<fleet, cat, file, deliveries, acked>>

\* os.replace.
Replace ==
    /\ pc = "replacing"
    /\ file' = temp
    /\ temp' = NoFile
    /\ unsaved' = FALSE
    /\ pc' = "answering"
    /\ UNCHANGED <<fleet, cat, feed, deliveries, acked, hostTrouble>>

Answer ==
    /\ pc = "answering"
    /\ acked' = acked \cup {feed}
    /\ feed' = "none"
    /\ pc' = "idle"
    /\ UNCHANGED <<fleet, cat, file, temp, deliveries, unsaved, hostTrouble>>

KillCollector ==
    /\ pc # "down"
    /\ hostTrouble < MaxHostTrouble
    /\ hostTrouble' = hostTrouble + 1
    /\ pc' = "down"
    /\ cat' = EmptyCatalog
    /\ feed' = "none"
    /\ UNCHANGED <<fleet, file, temp, deliveries, acked, unsaved>>

CollectorStep == StartCollector \/ WriteTemp \/ Replace \/ Answer

MeshHostNext == \/ CollectorStep \/ SaveFails \/ KillCollector
                \/ \E f \in Feeds : Deliver(f) \/ Refuse(f)

MeshHostSpec == MeshHostInit /\ [][MeshHostNext]_meshHostVars

-----------------------------------------------------------------------------
TracesIn(Fs) == {f \in Fs : FeedOf(f).topic = "benzene:mesh:traces"}
IssuesIn(Fs) == {f \in Fs : FeedOf(f).topic = "benzene:mesh:issues" /\ Accepts(FeedOf(f))}
EventsOf(f) == FeedOf(f).body.events
ReportsOf(f) == Identified(FeedOf(f).body.issues)

\* The feeds are those of the four topics, traces and issues as lists; what an issue
\* counts is what an IssueAggregator has counted, whose classify knows no drift; fields
\* and codes are numbers that stand for strings in their order, 0 for an absent one.  A
\* document names finitely many topics, a heartbeat says yes or no, times are numbers.
Traced == UNION {ToSet(EventsOf(f)) : f \in TracesIn(Feeds)}
Filed == UNION {ToSet(ReportsOf(f)) : f \in IssuesIn(Feeds)}
ASSUME MeshHostAssumption ==
    /\ IsFiniteSet(Feeds) /\ "none" \notin Feeds /\ Fleets \subseteq SUBSET Feeds
    /\ MaxDeliveries \in Nat /\ MaxHostTrouble \in Nat
    /\ \A f \in Feeds : FeedOf(f).topic \in {"benzene:mesh:register", "benzene:mesh:heartbeat",
                                            "benzene:mesh:traces", "benzene:mesh:issues"}
    /\ \A f \in TracesIn(Feeds) : EventsOf(f) \in Seq(Traced)
    /\ \A f \in IssuesIn(Feeds) : ReportsOf(f) \in Seq(Filed)
    /\ \A issue \in Filed : /\ issue.count \in Nat /\ issue.fp[3] # "contract-drift"
                           /\ issue.errors \in Seq([field : Nat, code : Nat, count : Nat])
    /\ MaxErrors \in Nat
    /\ \A f \in Feeds : /\ FeedOf(f).topic = "benzene:mesh:register" =>
                            \A m \in Members \cap FeedOf(f).body.present :
                                IsFiniteSet(FeedOf(f).body.topics[m])
                        /\ FeedOf(f).topic = "benzene:mesh:heartbeat" => FeedOf(f).body.healthy \in BOOLEAN
    /\ \A e \in Traced : e.at \in Nat /\ e.ms \in Nat

MeshHostTypeOK ==
    /\ pc \in {"down", "idle", "saving", "replacing", "answering"}
    /\ feed \in Feeds \cup {"none"} /\ (feed = "none" <=> pc \in {"down", "idle"})
    /\ deliveries \in [Feeds -> 0 .. MaxDeliveries]
    /\ acked \subseteq {f \in Feeds : deliveries[f] > 0 /\ Accepts(FeedOf(f))}
    /\ DOMAIN cat.owner = {cat.events[i].span : i \in DOMAIN cat.events}
    /\ hostTrouble \in 0 .. MaxHostTrouble

\* A restart changes nothing a query sees: as long as no save has failed since, what
\* a new process would load is the catalog at hand, the rebuilt span index included.
RestartChangesNothing == pc = "idle" /\ ~unsaved => HostLoad = cat

\* What was answered ok outlives any crash: its events and its issue counts are in
\* the file, and its service is known, whichever step of whichever later save the
\* process dies in.
Delta(f, fp) == SumFunctionOnSet([k \in DOMAIN ReportsOf(f) |-> ReportsOf(f)[k].count],
                                 {k \in DOMAIN ReportsOf(f) : ReportsOf(f)[k].fp = fp})
Deltas(fp) == [f \in IssuesIn(Feeds) |-> Delta(f, fp)]
Fingerprints(Fs) == UNION {{ReportsOf(f)[k].fp : k \in DOMAIN ReportsOf(f)} : f \in IssuesIn(Fs)}
CountOf(c, fp) == IF fp \in DOMAIN c.issues THEN c.issues[fp].count ELSE 0
AckedSurvives ==
    /\ \A f \in TracesIn(acked) :
         \A k \in DOMAIN EventsOf(f) : Contains(HostLoad.events, EventsOf(f)[k])
    /\ \A fp \in Fingerprints(acked) :
         CountOf(HostLoad, fp) >= SumFunctionOnSet(Deltas(fp), IssuesIn(acked))
    /\ \A f \in acked \ TracesIn(acked) : FeedOf(f).body.service \in DOMAIN HostLoad.services

\* An issue is never counted more often than its feed came in, and exactly once for
\* each delivery if no save failed and the process has not died.
Due(fp) == SumFunction([f \in IssuesIn(Feeds) |-> deliveries[f] * Delta(f, fp)])
CountsMatchDeliveries ==
    \A fp \in Fingerprints({f \in Feeds : deliveries[f] > 0}) :
        /\ CountOf(cat, fp) <= Due(fp)
        /\ pc # "down" /\ hostTrouble = 0 => CountOf(cat, fp) = Due(fp)

\* The error detail of an issue is ordered and bounded, never claims a pair more often
\* than it was reported, and is complete while the bound leaves room.
Detail(f, fp, p) == SumFunctionOnSet([k \in DOMAIN ReportsOf(f) |-> Claims(ReportsOf(f)[k].errors, p)],
                                     {k \in DOMAIN ReportsOf(f) : ReportsOf(f)[k].fp = fp})
Reported(fp, p) == SumFunction([f \in IssuesIn(Feeds) |-> deliveries[f] * Detail(f, fp, p)])
PairsReported == UNION {PairsOf(issue.errors) : issue \in Filed}
ErrorDetailHonest == pc = "saving" =>
    \A fp \in DOMAIN cat.issues :
        LET kept == cat.issues[fp].errors IN
        /\ Len(kept) <= MaxErrors
        /\ \A j, k \in DOMAIN kept : j < k => Precedes(kept[j], kept[k])
        /\ \A k \in DOMAIN kept : kept[k].count <= Reported(fp, <<kept[k].field, kept[k].code>>)
        /\ Len(kept) < MaxErrors /\ hostTrouble = 0 =>
             \A p \in PairsOf(kept) \cup PairsReported : Claims(kept, p) = Reported(fp, p)

\* A call seen in the span of a service that declares both its events and its sends,
\* and not that topic, is filed as drift when the caller's own event came in before,
\* in this life of the process or an earlier one; and no trace makes anybody a
\* provider or a consumer.  (When the call comes in before the span it was made in,
\* nothing is filed, though the queries show the caller from then on.)
Undeclared(c, j) ==
    {s \in DOMAIN c.services \ {c.events[j].service} :
        /\ c.events[j].parent # ""
        /\ \E i \in 1 .. j : /\ c.events[i].span = c.events[j].parent
                             /\ \A k \in i .. j : c.events[k].span = c.events[i].span =>
                                    c.events[k].service = s
        /\ c.services[s].registered
        /\ {"events", "sends"} \subseteq c.services[s].known
        /\ c.events[j].topic \notin c.services[s].produced \cup Reserved}
FilesUndeclared ==
    pc = "idle" /\ pc' = "saving" /\ TracesIn({feed'}) # {} =>
        /\ \A j \in Len(cat.events) + 1 .. Len(cat'.events) : \A s \in Undeclared(cat', j) :
             LET fp == issue_fingerprint(s, cat'.events[j].topic, "contract-drift", "undeclared-edge")
             IN  CountOf(cat', fp) > CountOf(cat, fp)
        /\ \A t \in cat'.topics : /\ ProvidersOf(cat', t) = ProvidersOf(cat, t)
                                  /\ ConsumersOf(cat', t) = ConsumersOf(cat, t)
UndeclaredCallFiled == [][FilesUndeclared]_meshHostVars

\* The documents of the mesh UI, each derived on its own, tell the same story: every
\* event is counted once and on a listed topic, a topic is listed or removed and never
\* both, the ends of an edge are services of the manifest, the export has under its key
\* every role the topic list names and none but those of topics with that key, and a
\* service is unreachable exactly if its heartbeats are missed.  (Topics that differ in
\* ":" and "_" only are one channel of the export, with the roles of both.)
\* (Checked where the catalog has just changed.)
ArtifactsAgree == pc = "saving" =>
    LET usage == Usage(cat)  topics == TopicsArtifact(cat)  manifest == Manifest(cat)  edges == Topology(cat)
        api == AsyncApi(cat)
    IN
    /\ SumFunction(usage) = Len(cat.events)
    /\ SumFunction([t \in cat.topics |-> InvocationsOn(cat, t)]) = Len(cat.events)
    /\ \A t \in cat.topics : t \in DOMAIN topics <=> t \notin Removed(cat)
    /\ \A t \in Removed(cat) : ConsumersOf(cat, t) = {} /\ t \in cat.topics
    /\ \A p \in DOMAIN edges : /\ {p[1], p[2]} \subseteq DOMAIN manifest
                               /\ edges[p].errors <= edges[p].invocations
                               /\ \E t \in DOMAIN topics : p[1] \in topics[t].producers
    /\ \A t \in DOMAIN topics \ Reserved :
         /\ topics[t].consumers # {} => "receive" \in api[ChannelKey(t)]
         /\ topics[t].producers # {} => "send" \in api[ChannelKey(t)]
    /\ \A key \in DOMAIN api :
         /\ "receive" \in api[key] =>
              \E t \in DOMAIN topics \ Reserved : ChannelKey(t) = key /\ topics[t].consumers # {}
         /\ "send" \in api[key] =>
              \E t \in cat.topics \ Reserved : ChannelKey(t) = key /\ ProvidersOf(cat, t) # {}
    /\ \A s \in DOMAIN manifest :
         manifest[s].status = "unreachable" <=> "health" \in MissingFeeds(cat, s)

\* A flow has the status of the earliest of its failing events, or of its earliest
\* event, in whatever order the collector heard of them, and lasts as long as any.
TellsFlow(c, trace) ==
    LET flow == {e \in ToSet(c.events) : e.trace = trace}
        failing == {e \in flow : Failing(e)}
        deciding == IF failing = {} THEN flow ELSE failing
        summary == TraceSummary(c, trace)
    IN  /\ summary.failed <=> failing # {}
        /\ \E e \in deciding :
             /\ e.status = summary.status
             /\ \A o \in deciding : o.at # 0 => e.at # 0 /\ e.at <= o.at
        /\ \A e \in flow : /\ e.ms <= summary.durationMs
                           /\ e.at # 0 => summary.startedAt # 0 /\ summary.startedAt <= e.at
FlowsByStartTime == pc = "saving" => \A i \in DOMAIN cat.events : TellsFlow(cat, cat.events[i].trace)

\* Neither a crash at any point of a save nor a failing one takes back what a query
\* has shown after a saved feed or what a sender was told was ingested, and nothing is
\* counted that did not come in.
CatalogSurvives == MeshHostTypeOK /\ RestartChangesNothing /\ AckedSurvives /\ CountsMatchDeliveries

\* What the queries and the documents tell is what the feeds said, in whatever order
\* and however often they came: error detail, flows and topology.
CatalogTellsTruly == ErrorDetailHonest /\ ArtifactsAgree /\ FlowsByStartTime
=============================================================================
