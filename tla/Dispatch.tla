------------------------------- MODULE Dispatch -------------------------------
(***************************************************************************)
(* benzene-core: the registry, the version selectors, the pipeline an      *)
(* AppDefinition becomes, and one message going through it (registry.py,   *)
(* handler.py, startup.py, pipeline.py, health.py, contract.py, router.py).*)
(*                                                                         *)
(* A version is a name and its natural key, the runs of digits and others; *)
(* a run is <<0, number>> or <<1, place of the text in the alphabet>>.     *)
(***************************************************************************)
EXTENDS Naturals, Sequences, SequencesExt, FiniteSets

CONSTANTS Definitions,      \* candidates for registration: [topic, version, key, default]
          Apps,             \* application definitions
          Inbound,          \* messages: [topic, version, ignore, trusted]
          HealthCheckNames, CheckOutcomes

VARIABLES handlers,         \* Registry._by_key, in registration order
          app,
          serving,
          message,
          position,         \* of the pipeline: the next middleware
          answer            \* context.result: [status, by, report]

dispatchVars == <<handlers, app, serving, message, position, answer>>

HEALTH_TOPIC == "benzene:healthcheck"
SPEC_TOPIC == "benzene:spec"
PING_TOPIC == "benzene:ping"

NoDefinition == [topic |-> "", version |-> "", key |-> <<>>, default |-> FALSE]

\* A registry as add_definition lets it become
Lawful(hs) ==
    \A i, j \in DOMAIN hs :
        i # j /\ hs[i].topic = hs[j].topic => hs[i].version # hs[j].version /\ ~(hs[i].default /\ hs[j].default)

ASSUME DispatchAssumption ==
    /\ \A d \in Definitions : d.key \in Seq(Nat \X Nat) /\ d # NoDefinition
    /\ \A a \in Apps :
          /\ a.handlers \in Seq(Definitions) /\ Lawful(a.handlers)
          /\ a.middleware \in Seq({"auth", "health"}) /\ a.selector \in {"exact", "highest"}
    /\ CheckOutcomes \subseteq {"ok", "true", "warning", "failed", "false", "raises"}

NoReport == [healthy |-> TRUE, checks |-> [c \in {} |-> ""]]
Answers(status, by, report) == [status |-> status, by |-> by, report |-> report]
Unanswered == Answers("none", NoDefinition, NoReport)

-----------------------------------------------------------------------------
(* The registry. *)

\* Of some places in the registry, the handler at the first: next((d for d in ...), None).
FirstOf(places) ==
    IF places = {} THEN NoDefinition ELSE handlers[CHOOSE i \in places : \A j \in places : i <= j]

versions_of(topic) == {i \in DOMAIN handlers : handlers[i].topic = topic}

Find(topic, version) == FirstOf({i \in versions_of(topic) : handlers[i].version = version})

\* Fault: a second default of a topic is let in.
AcceptsPairOnly(d) == \A i \in DOMAIN handlers : <<handlers[i].topic, handlers[i].version>> # <<d.topic, d.version>>

\* add_definition refuses a second handler of a pair and a second default of a topic.
Accepted(d) ==
    /\ \A i \in DOMAIN handlers : <<handlers[i].topic, handlers[i].version>> # <<d.topic, d.version>>
    /\ d.default => \A i \in DOMAIN handlers : handlers[i].topic = d.topic => ~handlers[i].default

default_for(topic) ==
    IF Find(topic, "") # NoDefinition THEN Find(topic, "")
    ELSE FirstOf({i \in versions_of(topic) : handlers[i].default})

\* Fault: a version without a handler falls back to the default.
ExactFallsBack(topic, version) ==
    IF version = "" \/ Find(topic, version) = NoDefinition THEN default_for(topic) ELSE Find(topic, version)

exact_version(topic, version) ==
    IF version = "" THEN default_for(topic) ELSE Find(topic, version)

RunLess(a, b) == a[1] < b[1] \/ (a[1] = b[1] /\ a[2] < b[2])

\* _natural_key: tuples compare run by run, a shorter one first.
NaturalLess(a, b) ==
    \E i \in 1..(Len(a) + 1) :
        /\ \A j \in 1..(i - 1) : j <= Len(b) /\ a[j] = b[j]
        /\ i <= Len(b) /\ (i > Len(a) \/ RunLess(a[i], b[i]))

\* max(): the first of the highest
highest_version(topic, version) ==
    IF exact_version(topic, version) # NoDefinition THEN exact_version(topic, version)
    ELSE FirstOf({i \in versions_of(topic) :
                    \A j \in versions_of(topic) : ~NaturalLess(handlers[i].key, handlers[j].key)})

Selected(topic, version) ==
    IF app.selector = "exact" THEN exact_version(topic, version) ELSE highest_version(topic, version)

\* HandlerDefinition through Registry.register, Registry.add of a tagged function or
\* from_definitions; a refused one fails the start-up.
AddDefinition(d) ==
    /\ ~serving /\ app.open /\ Accepted(d)
    /\ handlers' = Append(handlers, d)
    /\ UNCHANGED <<app, serving, message, position, answer>>

-----------------------------------------------------------------------------
(* The application. *)

\* Fault: the document is answered ahead of the startup's own middleware.
PipelineSpecFirst ==
    (IF app.contract THEN <<"spec">> ELSE <<>>) \o app.middleware \o <<"router">>

\* application_from, and BenzeneMessageApplication: the startup's own middleware comes
\* first, then the health the standard paths declare, unless it has its own, then the
\* document, then the router.
Pipeline ==
    app.middleware
        \o ((IF app.checks /\ ~Contains(app.middleware, "health") THEN <<"health">> ELSE <<>>)
            \o (IF app.contract THEN <<"spec">> ELSE <<>>)
            \o <<"router">>)

DispatchStart == serving = FALSE /\ message = [topic |-> "none", version |-> "", ignore |-> FALSE, trusted |-> TRUE]
                 /\ position = 0 /\ answer = Unanswered

\* An app whose registry is not open serves a fixed one.
DispatchInit == app \in Apps /\ handlers = app.handlers /\ DispatchStart

BuildApp == ~serving /\ serving' = TRUE /\ UNCHANGED <<handlers, app, message, position, answer>>

Receive(m) ==
    /\ serving /\ position = 0 /\ answer = Unanswered
    /\ message' = m /\ position' = 1
    /\ UNCHANGED <<handlers, app, serving, answer>>

Here(name) == position > 0 /\ answer = Unanswered /\ Pipeline[position] = name

Pass == position' = position + 1 /\ UNCHANGED <<handlers, app, serving, message, answer>>
Reply(status, by, report) ==
    answer' = Answers(status, by, report) /\ UNCHANGED <<handlers, app, serving, message, position>>

\* A middleware of the startup that answers for itself: authentication.
Authenticate ==
    /\ Here("auth")
    /\ IF message.trusted THEN Pass ELSE Reply("unauthorized", NoDefinition, NoReport)

\* Fault: a check that raises is left out of the report.
ReportLeavesOut(outcome) ==
    [healthy |-> \A c \in HealthCheckNames : outcome[c] \notin {"failed", "false"},
     checks |-> [c \in {x \in HealthCheckNames : outcome[x] # "raises"} |-> "ok"]]

\* HealthChecks.run: a check returns a status or a bool, or raises.
Report(outcome) ==
    LET result == [c \in HealthCheckNames |->
                       CASE outcome[c] \in {"ok", "true"} -> "ok"
                         [] outcome[c] = "warning" -> "warning"
                         [] outcome[c] \in {"failed", "false", "raises"} -> "failed"]
    IN  [healthy |-> \A c \in HealthCheckNames : result[c] # "failed", checks |-> result]

health_interception ==
    /\ Here("health")
    /\ IF message.topic = HEALTH_TOPIC
       THEN \E outcome \in [HealthCheckNames -> CheckOutcomes] :
                Reply("ok", NoDefinition, Report(outcome))
       ELSE Pass

spec_interception ==
    /\ Here("spec")
    /\ IF message.topic = SPEC_TOPIC THEN Reply("ok", NoDefinition, NoReport) ELSE Pass

\* Fault: any message that finds no handler is ignored where the host asked for it.
NoHandlerIgnores == IF message.ignore THEN "ignored" ELSE "not-found"

\* What the router says when the selector finds nothing.
NoHandler == IF message.ignore /\ versions_of(message.topic) = {} THEN "ignored" ELSE "not-found"

\* message_router up to the call of the handler.
RouteAway ==
    /\ Here("router")
    /\ \/ message.topic = "" /\ Reply("validation-error", NoDefinition, NoReport)
       \/ message.topic = PING_TOPIC /\ Reply("ok", NoDefinition, NoReport)
       \/ /\ message.topic \notin {"", PING_TOPIC}
          /\ Selected(message.topic, message.version) = NoDefinition
          /\ Reply(NoHandler, NoDefinition, NoReport)

\* The payload does not map onto the handler's type; the handler raises; it returns.
Handle ==
    /\ Here("router") /\ message.topic \notin {"", PING_TOPIC}
    /\ LET d == Selected(message.topic, message.version) IN
       /\ d # NoDefinition
       /\ \E status \in {"bad-request", "service-unavailable", "ok"} : Reply(status, d, NoReport)

DispatchNext ==
    \/ \E d \in Definitions : AddDefinition(d)
    \/ BuildApp
    \/ \E m \in Inbound : Receive(m)
    \/ Authenticate \/ health_interception \/ spec_interception \/ RouteAway \/ Handle

DispatchSpec == DispatchInit /\ [][DispatchNext]_dispatchVars

-----------------------------------------------------------------------------
Served == ToSet(handlers)

\* Where a message goes depends on what is registered and not on the order: its own
\* version; with none named, the unversioned handler or the one declared default; with
\* the selector that opts in, else a version no other is naturally above (v2 < v10).
\* Under the default selector no caller that names a version gets another one, and none
\* is told there is no handler when there is one to go to.
HandledByTheRightVersion ==
    LET d == answer.by
        Same == {x \in Served : x.topic = message.topic}
        Own == {x \in Same : x.version = message.version}
        Default == IF \E x \in Same : x.version = "" THEN {x \in Same : x.version = ""}
                   ELSE {x \in Same : x.default}
        Wanted == IF message.version = "" THEN Default ELSE Own
    IN  /\ d \in Served =>
               IF Wanted # {} THEN Wanted = {d}
               ELSE app.selector = "highest" /\ d \in Same /\ \A x \in Same : ~NaturalLess(d.key, x.key)
        /\ answer.status = "not-found" =>
               Wanted = {} /\ (app.selector = "highest" => Same = {})

\* A message is acknowledged as another service's only if no version of its topic is
\* served here; one that names a version nobody serves fails, and is delivered again.
IgnoredOnlyForeign ==
    answer.status = "ignored" =>
        message.ignore /\ \A d \in Served : d.topic # message.topic

\* With authentication in the startup's middleware, nothing but a health check that the
\* startup itself put ahead of it answers an untrusted message: not the router, not the
\* Contract Document, not the health of the standard paths.
AuthenticationGuards ==
    Contains(app.middleware, "auth") /\ ~message.trusted /\ answer # Unanswered =>
        \/ answer.status = "unauthorized"
        \/ app.middleware[1] = "health" /\ message.topic = HEALTH_TOPIC

\* A report counts every check that is registered, and is healthy just when none failed,
\* by saying so or by raising.
HealthReportHonest ==
    answer.report # NoReport =>
        /\ DOMAIN answer.report.checks = HealthCheckNames
        /\ answer.report.healthy = (\A c \in HealthCheckNames : answer.report.checks[c] \in {"ok", "warning"})

\* Each message is answered by whom it should be: the handler of the right version, the
\* reserved topics' middleware after authentication, a health report of every check, or
\* the router itself for a topic that is not this service's.
AnsweredByTheRightOne ==
    HandledByTheRightVersion /\ IgnoredOnlyForeign /\ AuthenticationGuards /\ HealthReportHonest
=============================================================================
