------------------------------- MODULE MeshAudit -------------------------------
(***************************************************************************)
(* benzene-mesh: a service assesses itself against the Cloud Service       *)
(* Profile from its wiring (profile.py); an auditor probes it over HTTP    *)
(* with four requests, any of which may get lost (probe.py).  In between   *)
(* lies what the wiring becomes: application_from (benzene-core,           *)
(* startup.py) and the standard paths of the HTTP host (benzene-http,      *)
(* app.py).                                                                *)
(***************************************************************************)
EXTENDS Integers, Sequences

VARIABLES wiring,     \* the AppDefinition
          probePrefix,
          answers     \* what the auditor's requests got, in the order they are made

auditVars == <<wiring, probePrefix, answers>>

REQUIREMENT_IDS == {"R1", "R2", "R3", "R4", "R5", "R7"}
DEFAULT_PREFIX == "/benzene"
MountPoints == {DEFAULT_PREFIX, "/ops"}

\* gate: middleware of the startup that rejects an anonymous caller, or invoke_topics
\* without the reserved topics.
Wirings ==
    {w \in [registry : BOOLEAN, router : BOOLEAN, appTopics : BOOLEAN, contract : BOOLEAN,
            interception : BOOLEAN, gate : {"open", "auth", "restricted"},
            paths : BOOLEAN, prefix : MountPoints, invoke : BOOLEAN, health : BOOLEAN, spec : BOOLEAN] :
        /\ w.registry \/ w.router
        /\ ~w.paths => w.prefix = DEFAULT_PREFIX /\ ~w.invoke /\ ~w.health /\ ~w.spec /\ w.router
        /\ w.gate = "restricted" => w.invoke}

-----------------------------------------------------------------------------
(* The self-check. *)

\* What is not satisfied.  A message-only service has no HTTP surface to answer for.
evaluate_cloud_service_profile(w) ==
    LET surface == w.paths \/ w.router IN
    {r \in REQUIREMENT_IDS :
        \/ r = "R1" /\ ~(w.registry \/ w.router)
        \/ r = "R2" /\ ~w.appTopics
        \/ r = "R3" /\ ~((w.health \/ w.interception) /\ (surface => w.health))
        \/ r = "R4" /\ ~((w.registry \/ w.router) /\ (w.paths => w.invoke))
        \/ r = "R5" /\ ~(w.contract /\ (surface => w.spec))
        \/ r = "R7" /\ surface /\ ~(w.paths /\ w.prefix = DEFAULT_PREFIX)}

-----------------------------------------------------------------------------
(* The service. *)

\* application_from and the pipeline: the startup's middleware comes first, then the
\* health and spec interceptions; nothing else answers a reserved topic.
Reply(w, topic) ==
    IF w.gate = "auth" THEN "problem"
    ELSE CASE topic = "benzene:healthcheck" -> IF w.health \/ w.interception THEN "report" ELSE "problem"
           [] topic = "benzene:spec" -> IF w.contract THEN "contract" ELSE "problem"

\* _handle_standard: the outcome of a request under a prefix as the auditor unwraps it.
Unserved(w) == [reached |-> TRUE, missing |-> w.router, document |-> "none", envelope |-> FALSE]
InvokeAnswer(w, prefix, topic) ==
    IF w.paths /\ w.invoke /\ w.prefix = prefix
    THEN [reached |-> TRUE, missing |-> FALSE, envelope |-> TRUE,
          document |-> IF w.gate = "restricted" THEN "problem" ELSE Reply(w, topic)]
    ELSE Unserved(w)
HealthAnswer(w, prefix) ==
    IF w.paths /\ w.health /\ w.prefix = prefix
    THEN [reached |-> TRUE, missing |-> FALSE, document |-> "report", envelope |-> FALSE]
    ELSE Unserved(w)
\* A spec request no handler matches is a 404 of its own.
SpecAnswer(w, prefix) ==
    IF w.paths /\ w.spec /\ w.prefix = prefix
    THEN LET reply == Reply(w, "benzene:spec") IN
         [reached |-> TRUE, missing |-> ~w.contract /\ w.gate # "auth", envelope |-> FALSE,
          document |-> IF reply = "contract" THEN reply ELSE "none"]
    ELSE Unserved(w)

Lost == [reached |-> FALSE, missing |-> FALSE, document |-> "none", envelope |-> FALSE]

-----------------------------------------------------------------------------
(* The auditor. *)

\* Fault: whatever is not the expected document counts as unmet.
SurfaceVerdictStrict(fetched, expected) ==
    IF fetched.document = expected THEN "satisfied" ELSE "not-satisfied"

\* _surface_verdict.
SurfaceVerdict(fetched, expected) ==
    CASE ~fetched.reached -> "inconclusive"
      [] fetched.reached /\ fetched.document = expected -> "satisfied"
      [] OTHER -> "not-satisfied"

\* The topic half of _health_verdict and _spec_verdict.
TopicVerdict(fetched, expected) ==
    CASE fetched.envelope /\ fetched.document = expected -> "satisfied"
      [] fetched.envelope /\ fetched.document # expected -> "not-satisfied"
      [] OTHER -> "inconclusive"

\* Fault: one half is enough.
CombineAny(a, b) == IF "satisfied" \in {a, b} THEN "satisfied" ELSE a

\* _combine.
Combine(a, b) ==
    CASE "not-satisfied" \in {a, b} -> "not-satisfied"
      [] {a, b} = {"satisfied"} -> "satisfied"
      [] OTHER -> "inconclusive"

\* probe_cloud_service, once the four answers are in.
Verdicts(w) ==
    LET spec == answers[1]  health == answers[2]  described == answers[3]  checked == answers[4]
        reachable == spec.reached \/ health.reached \/ described.reached
        answered == spec.document # "none" \/ health.document # "none" \/ described.envelope
    IN  [R1 |-> IF reachable THEN "satisfied" ELSE "inconclusive",
         R2 |-> IF ~spec.reached THEN "inconclusive"
                ELSE IF spec.document # "none" /\ w.appTopics THEN "satisfied" ELSE "not-satisfied",
         R3 |-> Combine(SurfaceVerdict(health, "report"), TopicVerdict(checked, "report")),
         R4 |-> IF described.envelope THEN "satisfied"
                ELSE IF described.missing THEN "not-satisfied" ELSE "inconclusive",
         R5 |-> Combine(SurfaceVerdict(spec, "contract"), TopicVerdict(described, "contract")),
         R7 |-> IF probePrefix # DEFAULT_PREFIX \/ ~reachable THEN "inconclusive"
                ELSE IF answered THEN "satisfied" ELSE "not-satisfied"]

-----------------------------------------------------------------------------
AuditStart == wiring = [registry |-> TRUE, router |-> TRUE, appTopics |-> TRUE, contract |-> TRUE,
                        interception |-> FALSE, gate |-> "open", paths |-> TRUE,
                        prefix |-> DEFAULT_PREFIX, invoke |-> TRUE, health |-> TRUE, spec |-> TRUE]
              /\ probePrefix = DEFAULT_PREFIX /\ answers = <<>>
AuditInit == wiring \in Wirings /\ probePrefix \in MountPoints /\ answers = <<>>

AnswerTo(n) == CASE n = 1 -> SpecAnswer(wiring, probePrefix)
                 [] n = 2 -> HealthAnswer(wiring, probePrefix)
                 [] n = 3 -> InvokeAnswer(wiring, probePrefix, "benzene:spec")
                 [] n = 4 -> InvokeAnswer(wiring, probePrefix, "benzene:healthcheck")

\* _get_json, _invoke: the next request is answered, or does not get through.
Ask == /\ Len(answers) < 4
       /\ answers' = Append(answers, AnswerTo(Len(answers) + 1))
       /\ UNCHANGED <<wiring, probePrefix>>
AskInVain == /\ Len(answers) < 4
             /\ answers' = Append(answers, Lost)
             /\ UNCHANGED <<wiring, probePrefix>>

AuditNext == Ask \/ AskInVain

-----------------------------------------------------------------------------
\* The probe never vouches for a requirement that the service itself denies, whichever
\* of its requests got lost.
AuditGrantsLess == Len(answers) = 4 =>
    \A r \in REQUIREMENT_IDS : Verdicts(wiring)[r] = "satisfied" =>
        r \notin evaluate_cloud_service_profile(wiring)

\* What the probe finds unmet at the prefix the service uses, the service denies too,
\* but for what the self-check cannot or does not see: callers kept out (the gate), the
\* application topics without a spec to list them, R4 for a router without standard
\* paths, which the self-check grants though there is no envelope endpoint, and R7 when
\* the only surfaces that would have answered are off or their requests got lost.
AuditBlamesLess == Len(answers) = 4 /\ probePrefix = wiring.prefix =>
    \A r \in REQUIREMENT_IDS : Verdicts(wiring)[r] = "not-satisfied" =>
        \/ r \in evaluate_cloud_service_profile(wiring)
        \/ wiring.gate = "auth" /\ r \in {"R2", "R3", "R5"}
        \/ wiring.gate = "restricted" /\ r \in {"R3", "R5"}
        \/ r = "R2" /\ "R5" \in evaluate_cloud_service_profile(wiring)
        \/ r = "R4" /\ ~wiring.paths
        \/ r = "R7" /\ ~(wiring.invoke /\ answers[3] # Lost) /\ ~(wiring.health /\ answers[2] # Lost)

\* The probe and the service's own evaluate_cloud_service_profile tell the same story
\* in both directions, but for the differences that AuditBlamesLess names.
AuditAgrees == AuditGrantsLess /\ AuditBlamesLess
=============================================================================
