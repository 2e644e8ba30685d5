---------------------------- MODULE OneWayDispatch ----------------------------
(***************************************************************************)
(* benzene-core, settlement.py, envelope.py, router.py: what one delivery  *)
(* of a message to a one-way binding can come to, and whether the binding  *)
(* acknowledges it.  Kafka, SQS and RabbitMQ share this code.              *)
(***************************************************************************)
EXTENDS Naturals

CONSTANTS Content,           \* Content[m]: the [topic, body] classes of message m
          AtMostOnce,        \* Settlement.at_most_once
          IgnoreUnmatched,   \* Settlement.ignore_unmatched_topics
          FlakyPipeline      \* whether a middleware, or encoding a payload, may raise

Topics == {"served", "other_version", "unserved", "missing", "ping"}
Bodies == {"fits", "misfit", "not_json", "not_utf8"}

ASSUME ContentAssumption ==
    \A m \in DOMAIN Content : Content[m] \in [topic : Topics, body : Bodies]
ASSUME SettlementAssumption ==
    AtMostOnce \in BOOLEAN /\ IgnoreUnmatched \in BOOLEAN /\ FlakyPipeline \in BOOLEAN

Outcomes == {"ok", "ignored", "failed", "raised"}
Successes == {"ok", "ignored"}

\* message_router.  A handler's exception is a service-unavailable result and a
\* missing result becomes an unexpected-error when it is encoded: both failures.
Route(m) ==
    CASE Content[m].topic = "ping" -> {"ok"}
      [] Content[m].topic = "missing" -> {"failed"}
      [] Content[m].topic = "other_version" -> {"failed"}
      [] Content[m].topic = "unserved" -> {IF IgnoreUnmatched THEN "ignored" ELSE "failed"}
      [] Content[m].topic = "served" ->
            IF Content[m].body = "misfit" THEN {"failed"} ELSE {"ok", "failed"}

\* BenzeneMessageApplication.handle: a body that is not JSON is a bad-request
\* before the pipeline runs.
Handle(m) == IF Content[m].body = "not_json" THEN {"failed"}
             ELSE Route(m) \cup (IF FlakyPipeline THEN {"raised"} ELSE {})

\* dispatch_one_way: decode, then handle.  An exception of either propagates,
\* unless at_most_once turns it into an unexpected-error result.
Dispatch(m) ==
    LET outcomes == IF Content[m].body = "not_utf8" THEN {"raised"} ELSE Handle(m)
    IN  IF AtMostOnce /\ "raised" \in outcomes
        THEN (outcomes \ {"raised"}) \cup {"failed"} ELSE outcomes

\* Fault: every result is acknowledged, a failure too.
AcknowledgesAnything(outcome) == outcome # "raised"

\* Settlement.acknowledges.
Acknowledges(outcome) == AtMostOnce \/ outcome \in Successes
=============================================================================
