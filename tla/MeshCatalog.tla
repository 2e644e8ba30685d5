------------------------------ MODULE MeshCatalog ------------------------------
(***************************************************************************)
(* benzene-mesh: the catalog of the collector (collector.py, issues.py,    *)
(* specdoc.py).  Each ingest is an operator from a catalog and a feed to   *)
(* the next catalog; MeshHost, MeshPoller and MeshInbox drive them.        *)
(*                                                                         *)
(* A Contract Document is reduced to the topics it names in each member,   *)
(* a version of each topic's schemas, and its registration hash.  Lists    *)
(* whose order nothing depends on are sets; dicts are functions; "" and 0  *)
(* stand for an absent name and an absent time.                            *)
(***************************************************************************)
EXTENDS Integers, Sequences, SequencesExt, FiniteSets

CONSTANTS MaxExemplars,     \* _MAX_EXEMPLARS of the collector (3) and
          MaxWindowTraces,  \* of the aggregator (5)
          MaxErrors,        \* MAX_ISSUE_ERRORS (10)
          MaxPending        \* _MAX_PENDING_ISSUE_ERRORS (100)

Members == {"requests", "events", "sends"}
Reserved == {"benzene:spec"}
EmptyMap == [x \in {} |-> x]

\* d[key] = value, for a dict.
With(d, key, value) == [k \in DOMAIN d \cup {key} |-> IF k = key THEN value ELSE d[k]]

-----------------------------------------------------------------------------
(* Contract Documents. *)

\* The members a document asserts: present and not degraded.
known_members(doc) == doc.present \ doc.degraded

\* A degraded member that is present is read like any other.
spec_topic_ids(doc, Ms) == (UNION {doc.topics[m] : m \in Ms \cap doc.present}) \ Reserved

\* _topic_spec, resolve_schema: the version stands for the dereferenced schemas.
TopicSpecs(doc) == [t \in spec_topic_ids(doc, {"requests"}) |-> doc.spec[t]]

-----------------------------------------------------------------------------
(* Issues. *)

\* Fault: an exception decides before the status is looked at.
ClassifyExceptionFirst(status, exc) ==
    IF exc # "" THEN "exception"
    ELSE IF status \in {"bad-request", "validation-error"} THEN "validation" ELSE "unclassified"

classify(status, exc) ==
    CASE status \in {"bad-request", "validation-error"} -> "validation"
      [] status \notin {"bad-request", "validation-error"} /\ exc # "" -> "exception"
      [] exc = "" /\ status \in {"not-found", "unauthorized", "forbidden", "not-implemented", ""} ->
            "config-wiring"
      [] exc = "" /\ status \in {"service-unavailable", "timeout", "too-many-requests"} -> "dependency"
      [] exc = "" /\ status = "unexpected-error" -> "exception"
      [] OTHER -> "unclassified"

\* The hash of its five parts; SHA-256 is taken to be injective.
issue_fingerprint(service, topic, class, discriminator) == <<service, topic, class, discriminator>>

Newest(s, n) == SubSeq(s, IF Len(s) > n THEN Len(s) - n + 1 ELSE 1, Len(s))

\* An error is a <<field, code>> pair and a count; 0 is an absent member.
Precedes(a, b) ==
    \/ a.count > b.count
    \/ a.count = b.count /\ a.field < b.field
    \/ a.count = b.count /\ a.field = b.field /\ a.code < b.code

\* The pairs a list of errors names, and how often it claims one.
PairsOf(errors) == {<<errors[i].field, errors[i].code>> : i \in DOMAIN errors} \ {<<0, 0>>}
Claims(errors, p) == SumFunctionOnSet([i \in DOMAIN errors |-> errors[i].count],
                                      {i \in DOMAIN errors : <<errors[i].field, errors[i].code>> = p})

Sorted(entries) == CHOOSE s \in [1 .. Cardinality(entries) -> entries] :
                       \A j, k \in DOMAIN s : j < k => Precedes(s[j], s[k])

\* Fault: the pairs are bounded before they are added up.
MergeBoundsFirst(existing, delta) ==
    IF Len(existing) >= MaxErrors THEN existing ELSE existing \o SetToSeq({delta[i] : i \in DOMAIN delta})

\* merge_issue_errors: added up by identity, ordered, and bounded.
merge_issue_errors(existing, delta) ==
    LET entries == {[field |-> p[1], code |-> p[2], count |-> Claims(existing, p) + Claims(delta, p)] :
                       p \in PairsOf(existing) \cup PairsOf(delta)}
        many == Cardinality(entries)
    IN  SubSeq(Sorted(entries), 1, IF many < MaxErrors THEN many ELSE MaxErrors)

\* decode_issue_errors: an entry without a field and a code, or without a positive
\* count, is skipped.  The others keep their places, on which nothing depends.
decode_issue_errors(raw) ==
    [i \in {k \in DOMAIN raw : raw[k].count > 0 /\ <<raw[k].field, raw[k].code>> # <<0, 0>>} |-> raw[i]]

\* IssueAggregator.record; the window maps a fingerprint to its running issue, whose
\* pending errors are bounded by the number of pairs only.
Record(service, window, f) ==
    LET fp == issue_fingerprint(service, f.topic, classify(f.status, f.exc),
                                IF f.exc # "" THEN f.exc ELSE f.status)
        issue == IF fp \in DOMAIN window THEN window[fp]
                 ELSE [fp |-> fp, count |-> 0, exemplars |-> <<>>, first |-> f.at, last |-> f.at,
                       pending |-> EmptyMap]
        counted == f.error # <<0, 0>> /\ (f.error \in DOMAIN issue.pending
                                          \/ Cardinality(DOMAIN issue.pending) < MaxPending)
    IN  With(window, fp,
             [issue EXCEPT !.count = @ + 1, !.last = f.at,
                           !.exemplars = IF f.trace # "" /\ Len(@) < MaxWindowTraces
                                         THEN Append(@, f.trace) ELSE @,
                           !.pending = IF ~counted THEN @
                                       ELSE With(@, f.error, IF f.error \in DOMAIN @ THEN @[f.error] + 1 ELSE 1)])

\* IssueAggregator.flush: what a window of failures becomes on the wire.
Flush(service, failures) ==
    LET window == FoldLeft(LAMBDA w, f : Record(service, w, f), EmptyMap, failures)
        Entry(p, issue) == [field |-> p[1], code |-> p[2], count |-> issue.pending[p]]
        Wire(issue) ==
            [fp |-> issue.fp, count |-> issue.count, exemplars |-> issue.exemplars,
             first |-> issue.first, last |-> issue.last,
             errors |-> merge_issue_errors(<<>>, [p \in DOMAIN issue.pending |-> Entry(p, issue)])]
    IN  SetToSeq({Wire(window[fp]) : fp \in DOMAIN window})

\* Fault: the count is taken as a total, the latest wins.
MergeIssueLatest(issues, issue) == With(issues, issue.fp, issue)

\* MeshCollector._merge_issue: the count is a delta, the times span, the newest
\* exemplars are kept.  A fingerprint that is not there yet has nothing to add to.
MergeIssue(issues, issue) ==
    LET old == IF issue.fp \in DOMAIN issues THEN issues[issue.fp]
               ELSE [count |-> 0, exemplars |-> <<>>, first |-> 0, last |-> 0, errors |-> <<>>]
        unseen == SelectSeq(issue.exemplars, LAMBDA x : x \notin ToSet(old.exemplars))
    IN  With(issues, issue.fp,
             [fp |-> issue.fp, count |-> old.count + issue.count,
              exemplars |-> Newest(old.exemplars \o unseen, MaxExemplars),
              first |-> IF issue.first = 0 \/ (old.first # 0 /\ old.first < issue.first)
                        THEN old.first ELSE issue.first,
              last |-> IF issue.last > old.last THEN issue.last ELSE old.last,
              errors |-> merge_issue_errors(old.errors, decode_issue_errors(issue.errors))])

-----------------------------------------------------------------------------
(* The catalog. *)

NewService == [registered |-> FALSE, hash |-> "", previousHash |-> "", consumed |-> {}, produced |-> {},
               known |-> {}, specs |-> EmptyMap, previousSpecs |-> EmptyMap, instances |-> EmptyMap,
               reported |-> FALSE]

EmptyCatalog == [services |-> EmptyMap, topics |-> {}, everConsumed |-> {}, events |-> <<>>,
                 owner |-> EmptyMap, issues |-> EmptyMap]

\* _service: looked up, or made.
WithService(services, name) ==
    IF name \in DOMAIN services THEN services ELSE With(services, name, NewService)

\* Fault: the old schemas are put aside after they were replaced.
RegisterForgets(cat, doc) ==
    LET known == WithService(cat.services, doc.service)
        consumed == spec_topic_ids(doc, {"requests"})
        produced == spec_topic_ids(doc, {"events", "sends"})
    IN  [cat EXCEPT
          !.services = [known EXCEPT ![doc.service] =
            [@ EXCEPT !.known = known_members(doc), !.consumed = consumed, !.produced = produced,
                      !.specs = TopicSpecs(doc), !.previousSpecs = TopicSpecs(doc),
                      !.registered = TRUE, !.hash = doc.hash]],
          !.topics = @ \cup consumed \cup produced,
          !.everConsumed = @ \cup consumed]

\* ingest_register: the registration is replaced wholesale, what it replaced kept as
\* the previous one.
ingest_register(cat, doc) ==
    LET known == WithService(cat.services, doc.service)
        consumed == spec_topic_ids(doc, {"requests"})
        produced == spec_topic_ids(doc, {"events", "sends"})
        old == known[doc.service]
    IN  [cat EXCEPT
          !.services = [known EXCEPT ![doc.service] =
            [registered |-> TRUE, hash |-> doc.hash,
             previousHash |-> IF old.registered /\ old.hash # "" /\ doc.hash # old.hash
                              THEN old.hash ELSE old.previousHash,
             consumed |-> consumed, produced |-> produced, known |-> known_members(doc),
             specs |-> TopicSpecs(doc), previousSpecs |-> old.specs,
             instances |-> old.instances, reported |-> old.reported]],
          !.topics = @ \cup consumed \cup produced,
          !.everConsumed = @ \cup consumed]

ingest_heartbeat(cat, beat) ==
    LET known == WithService(cat.services, beat.service)
        heard == With(known[beat.service].instances, beat.instance, [healthy |-> beat.healthy, hash |-> beat.hash])
    IN  [cat EXCEPT !.services = [known EXCEPT ![beat.service].instances = heard]]

\* _flag_drift_if_undeclared.
FlagDrift(cat, service, topic, declared, trace) ==
    IF ~cat.services[service].registered \/ topic \in declared \cup Reserved THEN cat
    ELSE [cat EXCEPT !.issues = MergeIssue(@,
            [fp |-> issue_fingerprint(service, topic, "contract-drift", "undeclared-edge"),
             count |-> 1, exemplars |-> IF trace = "" THEN <<>> ELSE <<trace>>,
             first |-> 0, last |-> 0, errors |-> <<>>])]

\* ingest_traces, event by event: it is kept, and its service known from now on.
Observed(cat, e) ==
    [cat EXCEPT !.events = Append(@, e), !.owner = With(@, e.span, e.service),
                !.topics = @ \cup {e.topic}, !.services = WithService(@, e.service)]

\* The callee diverges from its requests.
CalleeChecked(cat, e) ==
    LET callee == cat.services[e.service]
    IN  IF "requests" \in callee.known THEN FlagDrift(cat, e.service, e.topic, callee.consumed, e.trace) ELSE cat

\* The caller, if the span it is in has been seen, diverges from its events and sends.
CallerChecked(cat, e) ==
    LET callers == {s \in DOMAIN cat.services \ {e.service} :
                      /\ e.parent # "" /\ e.parent \in DOMAIN cat.owner /\ cat.owner[e.parent] = s
                      /\ {"events", "sends"} \subseteq cat.services[s].known}
        caller == CHOOSE s \in callers : TRUE
    IN  IF callers = {} THEN cat ELSE FlagDrift(cat, caller, e.topic, cat.services[caller].produced, e.trace)

\* Fault: only the callee's side is looked at.
TraceIgnoresParent(cat, e) == CalleeChecked(Observed(cat, e), e)

TraceEvent(cat, e) == CallerChecked(CalleeChecked(Observed(cat, e), e), e)

ingest_traces(cat, events) == FoldLeft(TraceEvent, cat, events)

\* An entry without a fingerprint is skipped.
NoFingerprint == <<>>
Identified(issues) == SelectSeq(issues, LAMBDA issue : issue.fp # NoFingerprint)

ingest_issues(cat, batch) ==
    LET known == WithService(cat.services, batch.service)
    IN  [cat EXCEPT !.services = [known EXCEPT ![batch.service].reported = TRUE],
                    !.issues = FoldLeft(MergeIssue, cat.issues, Identified(batch.issues))]

\* collector_registry: the handler a feed's topic names.
Ingest(cat, feed) ==
    CASE feed.topic = "benzene:mesh:register" -> ingest_register(cat, feed.body)
      [] feed.topic = "benzene:mesh:heartbeat" -> ingest_heartbeat(cat, feed.body)
      [] feed.topic = "benzene:mesh:traces" -> ingest_traces(cat, feed.body.events)
      [] feed.topic = "benzene:mesh:issues" -> ingest_issues(cat, feed.body)

\* _require: a traces batch names no service, the others must.
Accepts(feed) == feed.topic # "benzene:mesh:traces" => feed.body.service # ""

-----------------------------------------------------------------------------
(* Persistence. *)

SnapshotVersion == 4

\* The span index is not part of it.
snapshot(cat) == [version |-> SnapshotVersion, services |-> cat.services, topics |-> cat.topics,
                  everConsumed |-> cat.everConsumed, events |-> cat.events, issues |-> cat.issues]

\* Fault: the span index is not rebuilt.
RestoreNoIndex(saved) ==
    IF saved.version # SnapshotVersion THEN EmptyCatalog
    ELSE [services |-> saved.services, topics |-> saved.topics, everConsumed |-> saved.everConsumed,
          events |-> saved.events, issues |-> saved.issues, owner |-> EmptyMap]

\* The span index: a span belongs to the service of the last event it is in.
OwnerOf(events) ==
    [span \in {events[i].span : i \in DOMAIN events} |->
        events[Max({i \in DOMAIN events : events[i].span = span})].service]

\* restore, into an empty collector: a snapshot of another version is ignored.
restore(saved) ==
    IF saved.version # SnapshotVersion THEN EmptyCatalog
    ELSE [services |-> saved.services, topics |-> saved.topics, everConsumed |-> saved.everConsumed,
          events |-> saved.events, issues |-> saved.issues,
          owner |-> OwnerOf(saved.events)]
=============================================================================
