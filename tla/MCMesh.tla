-------------------------------- MODULE MCMesh --------------------------------
EXTENDS MeshHost, MeshPoller, MeshInbox, MeshAudit

VARIABLE subject

\* topic.replace(":", "_") on the topics of the feeds.
MCChannelKey(topic) == IF topic = "order:ship" THEN "order_ship" ELSE topic

Doc(service, hash, present, degraded, requests, sends, v) ==
    [service |-> service, hash |-> hash, present |-> present, degraded |-> degraded,
     topics |-> [requests |-> requests, events |-> {}, sends |-> sends],
     spec |-> [t \in requests |-> v]]

Span(span, parent, service, topic, status, at, ms) ==
    [trace |-> "flow", span |-> span, parent |-> parent, service |-> service, topic |-> topic,
     status |-> status, at |-> at, ms |-> ms]

Failure(status, exc, trace, at, error) ==
    [topic |-> "pay", status |-> status, exc |-> exc, trace |-> trace, at |-> at, error |-> error]

Register(doc) == [topic |-> "benzene:mesh:register", body |-> doc]
Traces(events) == [topic |-> "benzene:mesh:traces", body |-> [events |-> events]]
Issues(service, issues) ==
    [topic |-> "benzene:mesh:issues", body |-> [service |-> service, issues |-> issues]]

Anonymous == [fp |-> NoFingerprint, count |-> 1, exemplars |-> <<>>, first |-> 1, last |-> 1, errors |-> <<>>]

\* web calls pay without declaring it and drops a topic in its second release, which
\* until then shares its channel of the export with the one that web sends to pay; pay
\* leaves out its sends.  The call is traced before or after the span it was made in.
MCFeedOf(f) ==
    CASE f = "web1" -> Register(Doc("web", "h1", Members, {}, {"home", "order:ship"}, {"order_ship"}, 1))
      [] f = "web2" -> Register(Doc("web", "h2", Members, {}, {"home"}, {"order_ship"}, 2))
      [] f = "pay" -> Register(Doc("pay", "p1", {"requests", "sends"}, {"sends"}, {"pay", "order_ship", "benzene:spec"}, {}, 1))
      [] f = "beat" -> [topic |-> "benzene:mesh:heartbeat",
              body |-> [service |-> "web", instance |-> "i1", hash |-> "h1", healthy |-> TRUE]]
      [] f = "caller" -> Traces(<<Span("s1", "", "web", "home", "timeout", 1, 5)>>)
      [] f = "callee" -> Traces(<<Span("s2", "s1", "pay", "pay", "not-found", 2, 1),
                        Span("s3", "s1", "pay", "order_ship", "ok", 0, 2)>>)
      [] f = "fails1" -> Issues("pay", Flush("pay", <<Failure("bad-request", "E", "flow", 2, <<1, 1>>),
                                            Failure("validation-error", "E", "flow", 3, <<2, 0>>),
                                            Failure("bad-request", "E", "", 4, <<2, 0>>)>>))
      [] f = "fails2" -> Issues("pay", <<Anonymous>> \o Flush("pay", <<Failure("bad-request", "E", "f2", 1, <<0, 3>>)>>))
      [] f = "nobody" -> Issues("", <<>>)

MCFeeds == {"web1", "web2", "pay", "beat", "caller", "callee", "fails1", "fails2", "nobody"}

MCFleets == {{"web1", "web2", "beat", "caller", "callee"}, {"web1", "pay", "fails1", "fails2", "callee", "nobody"}}

Collector == MeshHostInit /\ PollStart /\ down = {} /\ pushing = FALSE /\ InboxInit /\ AuditStart
Poller == MeshHostStart /\ fleet = {} /\ file = NoFile /\ PollInit /\ InboxInit /\ AuditStart
Inbox == MeshHostStart /\ fleet = {} /\ file = NoFile /\ PollStart /\ down = {} /\ pushing = FALSE
         /\ InboxInit /\ AuditStart
Audit == MeshHostStart /\ fleet = {} /\ file = NoFile /\ PollStart /\ down = {} /\ pushing = FALSE
         /\ InboxInit /\ AuditInit

\* One component is followed, the others stay where they start.
MCInit == \/ subject = "collector" /\ Collector
          \/ subject = "poller" /\ Poller
          \/ subject = "inbox" /\ Inbox
          \/ subject = "audit" /\ Audit
MCNext ==
    /\ \/ subject = "collector" /\ MeshHostNext /\ UNCHANGED <<pollVars, inboxVars, auditVars>>
       \/ subject = "poller" /\ PollNext /\ UNCHANGED <<meshHostVars, inboxVars, auditVars>>
       \/ subject = "inbox" /\ InboxNext /\ UNCHANGED <<meshHostVars, pollVars, auditVars>>
       \/ subject = "audit" /\ AuditNext /\ UNCHANGED <<meshHostVars, pollVars, inboxVars>>
    /\ UNCHANGED subject
vars == <<subject, meshHostVars, pollVars, inboxVars, auditVars>>
\* The sweeps go on and what was mailed arrives; passes are scheduled again and again.
PollGoesOn == subject = "poller" /\ PollStep /\ UNCHANGED <<subject, meshHostVars, inboxVars, auditVars>>
MailGoesOn == subject = "poller" /\ MailArrives /\ UNCHANGED <<subject, meshHostVars, inboxVars, auditVars>>
PassGoesOn == subject = "inbox" /\ PassStep /\ UNCHANGED <<subject, meshHostVars, pollVars, auditVars>>
MCSpec == MCInit /\ [][MCNext]_vars /\ WF_vars(PollGoesOn) /\ WF_vars(MailGoesOn) /\ WF_vars(PassGoesOn)

\* The liveness properties of the two, of the runs that follow them.
PollConvergesHere == subject = "poller" => PollConverges
PushedGetsIngestedHere == subject = "inbox" => PushedGetsIngested
\* The mesh catches up with its fleet: polls converge on what is deployed and pushed
\* traces get into the catalog, however often passes die and services are down.
MeshCatchesUp == PollConvergesHere /\ PushedGetsIngestedHere

MCArtifacts == <<"manifest.json", "topology.json">>
=============================================================================
