------------------------------- MODULE Outbound -------------------------------
(***************************************************************************)
(* The outbound clients and the event mappings that read what they wrote:  *)
(* aws, azure and gcp senders, the Kafka and RabbitMQ producers, the       *)
(* in-process sender, with the retry and correlation-id decorators of      *)
(* core/outbound.py around them.  One message is sent on one transport;    *)
(* every copy the transport took is decoded by the binding that receives   *)
(* it, and normalised by BenzeneMessageApplication.handle.                 *)
(*                                                                         *)
(* A Python dict is a sequence of <<key, value>> pairs.  A payload is a    *)
(* JSON object, a plain text, None, or something json cannot write.        *)
(***************************************************************************)
EXTENDS Naturals, Sequences, SequencesExt

CONSTANTS HeaderNames,    \* the names the caller's headers are drawn from
          Lower(_),       \* str.lower
          MaxHeaders,     \* bound on the number of headers
          Attempts        \* RetryingMessageSender(attempts=...)

VARIABLES transport,
          order,       \* which decorator is outside: "correlation" or "retry"
          headers,     \* the caller's headers
          payload,     \* the caller's message
          attempt,     \* how often the transport's sender was called
          result,      \* what send_message answered, or "none"
          stored,      \* the copies the transport took
          unconfirmed  \* the sender answered ok with no word from the transport that it took it

outVars == <<transport, order, headers, payload, attempt, result, stored, unconfirmed>>

Topic == "orders"
Physical == "physical"        \* the Kafka topic, the AMQP routing key, a fixed detail_type
CorrelationHeader == "x-correlation-id"

AttributeTransports == {"sns", "sqs", "sqs-consumer", "pubsub", "servicebus", "eventhub",
                        "kafka", "kafka-lambda", "rabbitmq"}
Transports == AttributeTransports \cup
    {"eventbridge", "eventbridge-fixed", "kinesis", "queue", "queue-base64", "eventgrid",
     "cloudevents", "invoke", "invoke-event", "inprocess", "fanout"}

CloudEventAttributes == {"type", "data", "id", "source", "subject", "time"}
DetailType == "eventbridge-detail-type"

\* Names are lower-cased for good, and what the transports add is lower-case.
ASSUME OutboundAssumption ==
    /\ HeaderNames \subseteq STRING /\ MaxHeaders \in Nat /\ Attempts \in Nat \ {0}
    /\ \A name \in HeaderNames : Lower(name) \in STRING /\ Lower(Lower(name)) = Lower(name)
    /\ \A name \in CloudEventAttributes \cup {"topic", CorrelationHeader, DetailType} : Lower(name) = name

-----------------------------------------------------------------------------
(* Dictionaries. *)

Has(d, key) == \E i \in DOMAIN d : d[i][1] = key
Value(d, key) == d[CHOOSE i \in DOMAIN d : d[i][1] = key][2]
Put(d, key, value) ==
    IF Has(d, key) THEN [i \in DOMAIN d |-> IF d[i][1] = key THEN <<key, value>> ELSE d[i]]
    ELSE Append(d, <<key, value>>)

\* A dict as it is built item by item, save for items of some keys.
Fill(d, pairs, Keys) ==
    FoldLeft(LAMBDA acc, pair : IF pair[1] \in Keys THEN acc ELSE Put(acc, pair[1], pair[2]), d, pairs)
Update(d, pairs) == Fill(d, pairs, {})
LowerKeys(d) == Update(<<>>, [i \in DOMAIN d |-> <<Lower(d[i][1]), d[i][2]>>])
Without(d, Keys) == Fill(<<>>, d, Keys)

-----------------------------------------------------------------------------
(* Encoding. *)

\* encode_body; embedded are the headers a transport without metadata carries in it.
Text(value) == [value |-> value, embedded |-> <<>>]
EmptyText == Text("empty")

\* The wire form: metadata, the native topic or type, and the body.
Wire(attrs, type, body) == [attrs |-> attrs, type |-> type, body |-> body]

\* _string_attributes: one attribute per header, then the topic (SNS, SQS).
StringAttributes(hs) == Put(hs, "topic", Topic)

\* ServiceBusMessageSender._make_message, EventHubMessageSender._send_sync.
ApplicationProperties(hs) == Put(hs, "topic", Topic)

\* PubSubMessageSender, RabbitMqMessageSender.
PubSubAttributes(hs) == Put(hs, "topic", Topic)
AmqpHeaders(hs) == Put(hs, "topic", Topic)

\* KafkaMessageSender: a list, so the topic is always its last entry.
KafkaHeaders(hs) == Append(hs, <<"topic", Topic>>)

\* _embed_headers: only a JSON object takes the headers.
EmbedHeaders(value, hs) ==
    IF hs = <<>> \/ value # "object" THEN Text(value) ELSE [value |-> value, embedded |-> hs]

\* EventGridMessageSender._make_event with cloud_events: the headers are written
\* over the context attributes.
CloudEvent(value, hs) == Update(<< <<"type", Topic>>, <<"data", value>> >>, LowerKeys(hs))

\* EventGridMessageSender._make_event with the native schema.
GridEvent(value, hs) == Wire(hs, Topic, Text(value))

\* QueueStorageMessageSender._make_message: an envelope, base64 on request.
QueueText(value, hs, base64) ==
    Wire(hs, Topic, IF base64 THEN [base64 |-> Text(value)] ELSE Text(value))

\* LambdaMessageSender's Payload; _dispatch hands the same envelope to a pipeline.
InvokePayload(value, hs) == Wire(hs, Topic, Text(value))
DispatchEnvelope(value, hs) == Wire(hs, Topic, Text(value))

Encode(t, hs, value) ==
    CASE t \in {"sns", "sqs", "sqs-consumer"} -> Wire(StringAttributes(hs), "", Text(value))
      [] t \in {"servicebus", "eventhub"} -> Wire(ApplicationProperties(hs), "", Text(value))
      [] t = "pubsub" -> Wire(PubSubAttributes(hs), "", Text(value))
      [] t = "rabbitmq" -> Wire(AmqpHeaders(hs), Physical, Text(value))
      [] t \in {"kafka", "kafka-lambda"} -> Wire(KafkaHeaders(hs), Physical, Text(value))
      [] t \in {"eventbridge", "kinesis"} -> Wire(<<>>, Topic, EmbedHeaders(value, hs))
      [] t = "eventbridge-fixed" -> Wire(<<>>, Physical, EmbedHeaders(value, hs))
      [] t = "queue" -> QueueText(value, hs, FALSE)
      [] t = "queue-base64" -> QueueText(value, hs, TRUE)
      [] t = "eventgrid" -> GridEvent(value, hs)
      [] t = "cloudevents" -> Wire(CloudEvent(value, hs), "", EmptyText)
      [] t \in {"invoke", "invoke-event"} -> InvokePayload(value, hs)
      [] t \in {"inprocess", "fanout"} -> DispatchEnvelope(value, hs)

-----------------------------------------------------------------------------
(* Decoding. *)

Envelope(topic, hs, body) == [topic |-> topic, headers |-> hs, body |-> body]

\* Fault: the reserved key is looked for before the names are lower-cased.
ReadMetadataAsWritten(attrs) ==
    Envelope(IF Has(attrs, "topic") THEN Value(attrs, "topic") ELSE "",
             LowerKeys(Without(attrs, {"topic"})), EmptyText)

\* read_message_metadata.
ReadMetadata(attrs) ==
    LET lowered == LowerKeys(attrs) IN
    Envelope(IF Has(lowered, "topic") THEN Value(lowered, "topic") ELSE "",
             Without(lowered, {"topic"}), EmptyText)

\* Metadata and body; native is where the topic is looked for if no metadata names it.
FromMetadata(w, native) ==
    LET meta == ReadMetadata(w.attrs) IN
    Envelope(IF meta.topic = "" THEN native ELSE meta.topic, meta.headers, w.body)

\* sqs_record_envelope, sns_record_envelope.
FromRecord(w) == FromMetadata(w, "")

\* decode_sqs_message of the self-hosted consumer.
FromReceived(w) == FromMetadata(w, "")

\* decode_pubsub_message.
FromPubSub(w) == FromMetadata(w, "")

\* decode_service_bus, decode_event_hub_event.
FromProperties(w) == FromMetadata(w, "")

\* decode_rabbitmq_message: the routing key stands in for the header.
FromDelivery(w) == FromMetadata(w, w.type)

\* _decode_headers makes a dict of the list; the Kafka topic stands in for the header.
FromKafka(w) == FromMetadata([w EXCEPT !.attrs = Update(<<>>, w.attrs)], w.type)

\* _decode_kafka_headers and kafka_record_envelope, for MSK behind Lambda.
FromKafkaLambda(w) == FromMetadata([w EXCEPT !.attrs = Update(<<>>, w.attrs)], w.type)

\* eventbridge_envelope: the embedded headers over the event's own.
FromEventBridge(w) ==
    Envelope(w.type, Update(<< <<DetailType, w.type>> >>, w.body.embedded), w.body)

\* kinesis_record_envelope: the host's topic for every record, and no headers.
FromKinesis(w) == Envelope("kinesis:record", <<>>, w.body)

\* decode_queue_storage: the base64 text is recognised, the envelope lifted out.
FromQueue(w) ==
    LET text == IF "base64" \in DOMAIN w.body THEN w.body.base64 ELSE w.body IN
    Envelope(w.type, LowerKeys(w.attrs), text)

\* _body_text: None is no body at all.
BodyText(value) == IF value = "null" THEN EmptyText ELSE Text(value)

FromEventGrid(w) == Envelope(w.type, LowerKeys(w.attrs), BodyText(w.body.value))

\* decode_event_grid of a CloudEvent: what is not a context attribute is a header.
FromCloudEvent(w) ==
    Envelope(Value(w.attrs, "type"), Without(w.attrs, CloudEventAttributes),
             BodyText(Value(w.attrs, "data")))

\* invoke_envelope; an in-process pipeline is handed the envelope itself.
FromEnvelope(w) == Envelope(w.type, w.attrs, w.body)

Decode(t, w) ==
    CASE t \in {"sns", "sqs"} -> FromRecord(w)
      [] t = "sqs-consumer" -> FromReceived(w)
      [] t = "pubsub" -> FromPubSub(w)
      [] t \in {"servicebus", "eventhub"} -> FromProperties(w)
      [] t = "rabbitmq" -> FromDelivery(w)
      [] t = "kafka" -> FromKafka(w)
      [] t = "kafka-lambda" -> FromKafkaLambda(w)
      [] t \in {"eventbridge", "eventbridge-fixed"} -> FromEventBridge(w)
      [] t = "kinesis" -> FromKinesis(w)
      [] t \in {"queue", "queue-base64"} -> FromQueue(w)
      [] t = "eventgrid" -> FromEventGrid(w)
      [] t = "cloudevents" -> FromCloudEvent(w)
      [] t \in {"invoke", "invoke-event", "inprocess", "fanout"} -> FromEnvelope(w)

\* BenzeneMessageApplication.handle: names are lower-cased, no body is an object.
Received(e) ==
    [topic |-> e.topic, headers |-> LowerKeys(e.headers),
     payload |-> IF e.body.value = "empty" THEN "object" ELSE e.body.value]

-----------------------------------------------------------------------------
(* Sending. *)

\* CorrelationIdMessageSender: an id only where the caller set none.
Correlated(hs, id) ==
    IF \E i \in DOMAIN hs : Lower(hs[i][1]) = CorrelationHeader THEN hs
    ELSE Put(hs, CorrelationHeader, id)

\* Fault: every attempt makes its own id.
SentAnew(n) == Correlated(headers, IF n = 1 THEN "id1" ELSE "id2")

\* The id is made once when the correlation decorator is outside the retry, and
\* at every attempt when it is inside.
Sent(n) == Correlated(headers, IF order = "correlation" \/ n = 1 THEN "id1" ELSE "id2")

OutStart == attempt = 0 /\ result = "none" /\ stored = <<>> /\ unconfirmed = FALSE

OutInit == /\ transport \in Transports
           /\ order \in {"correlation", "retry"}
           /\ headers \in {hs \in UNION {[1 .. n -> HeaderNames \X {"v1", "v2"}] : n \in 0 .. MaxHeaders} :
                             \A i, j \in DOMAIN hs : hs[i][1] = hs[j][1] => i = j}
           /\ payload \in {"object", "text", "null", "unwritable"}
           /\ OutStart

\* The senders that serialize the message before their try block.
SerializesOutside == {"kafka", "kafka-lambda", "rabbitmq", "pubsub", "invoke", "invoke-event",
                      "inprocess"}
\* What a call that raised is answered as; a peer may also answer that it is busy.
CallFailures == {"service-unavailable", "timeout"}
Retryable == CallFailures \cup {"too-many-requests"}

\* Fault: the loop stops one attempt early.
CallingOnce == result = "none" \/ (result \in Retryable /\ attempt + 1 < Attempts)

Calling == result = "none" \/ (result \in Retryable /\ attempt < Attempts)

Attempt(answer, takes) ==
    /\ Calling
    /\ attempt' = attempt + 1
    /\ result' = answer
    /\ stored' = IF takes THEN Append(stored, Encode(transport, Sent(attempt + 1), payload)) ELSE stored
    /\ UNCHANGED <<transport, order, headers, payload>>

\* Nothing to send: the serializer raises, inside the try block or before it.
SendUnwritable ==
    /\ payload = "unwritable"
    /\ Attempt(IF transport = "fanout" THEN "ok"
               ELSE IF transport \in SerializesOutside THEN "raised" ELSE "service-unavailable", FALSE)
    /\ UNCHANGED unconfirmed

\* The transport, or the peer, takes the message and says so.  A peer answers with
\* its own result; a pipeline in process may also raise.
SendAccepted ==
    /\ payload # "unwritable"
    /\ \E answer \in CASE transport = "invoke-event" -> {"accepted"}
                       [] transport = "invoke" -> {"ok", "not-found"} \cup Retryable
                       [] transport = "inprocess" -> {"ok", "not-found", "raised"} \cup Retryable
                       [] OTHER -> {"ok"} : Attempt(answer, TRUE)
    /\ UNCHANGED unconfirmed

\* failed_call_result: the call raised.  The transport may have taken the message all
\* the same: the reply was lost, the deadline passed, the peer failed after working.
\* Nothing is called across a network in process.
SendFailed ==
    /\ payload # "unwritable" /\ transport \notin {"inprocess", "fanout"}
    /\ \E answer \in CallFailures, takes \in BOOLEAN : Attempt(answer, takes)
    /\ UNCHANGED unconfirmed

\* The transports whose senders may answer ok without the transport's word.
\* KafkaMessageSender's flush gives up after flush_timeout with the message still in the
\* producer's buffer and no delivery error reported; EventBridgeMessageSender discards
\* the answer of put_events, which counts a refused entry in FailedEntryCount and does
\* not raise; RabbitMqMessageSender publishes with neither confirms nor the mandatory flag,
\* so a message without a queue, or lost on the way, is not heard of.
Unconfirming == {"kafka", "eventbridge", "eventbridge-fixed", "rabbitmq"}

SendUnconfirmed ==
    /\ payload # "unwritable" /\ transport \in Unconfirming
    /\ Attempt("ok", FALSE)
    /\ unconfirmed' = TRUE

OutNext == SendUnwritable \/ SendAccepted \/ SendFailed \/ SendUnconfirmed

OutSpec == OutInit /\ [][OutNext]_outVars

-----------------------------------------------------------------------------
\* A name the transport writes itself, which the caller spells in one way only.
Apart(hs, name) == Has(hs, name) => \A i \in DOMAIN hs : Lower(hs[i][1]) = name => hs[i][1] = name

\* What a transport cannot carry: Kinesis has neither topic nor headers, a fixed
\* detail_type replaces the topic, a CloudEvent's attributes and the reserved topic
\* key are no header names, and EventBridge embeds headers in objects only, over its
\* own metadata.
CarriesTopic == /\ transport \notin {"kinesis", "eventbridge-fixed"}
                /\ transport = "cloudevents" => ~Has(LowerKeys(headers), "type")
                /\ transport \in AttributeTransports => Apart(headers, "topic")
CarriesHeaders == /\ transport # "kinesis"
                  /\ transport \in {"eventbridge", "eventbridge-fixed"} =>
                       payload = "object" /\ Apart(headers, DetailType)
CarriesPayload == transport = "cloudevents" => ~Has(LowerKeys(headers), "data")
Reserved == IF transport \in AttributeTransports THEN {"topic"}
            ELSE IF transport = "cloudevents" THEN CloudEventAttributes ELSE {}

\* Every copy reaches the handler as it was sent, whatever transport took it: the
\* topic, each header under its lower-case name and no other, and the payload.
ArrivesAsSent ==
    \A i \in DOMAIN stored :
        LET got == Received(Decode(transport, stored[i]))
            want == Without(LowerKeys(headers), Reserved)
            own == {CorrelationHeader, DetailType}
        IN  /\ CarriesTopic => got.topic = Topic
            /\ CarriesHeaders => ToSet(want) = ToSet(Without(got.headers, own \ ToSet([j \in DOMAIN want |-> want[j][1]])))
            /\ CarriesPayload => got.payload = payload \/ (payload = "null" /\ transport \in {"eventgrid", "cloudevents"})

\* Wrapped outside the retry, the correlation id is the same on every copy that an
\* uncertain attempt left behind, and is the caller's own if it set one.
OneCorrelationId ==
    LET idOf(i) == Value(Received(Decode(transport, stored[i])).headers, CorrelationHeader) IN
    order = "correlation" /\ CarriesHeaders =>
        \A i, j \in DOMAIN stored :
            /\ Has(Received(Decode(transport, stored[i])).headers, CorrelationHeader)
            /\ idOf(i) = idOf(j)
            /\ Has(LowerKeys(headers), CorrelationHeader) =>
                 idOf(i) = Value(LowerKeys(headers), CorrelationHeader)

\* A sender whose transport confirms says that all went well only if the transport has
\* the message, whatever attempts failed before; the four others say so at times of a
\* message the transport does not have, always as the last answer.  A transient failure,
\* also a peer's too-many-requests, is reported only after the last attempt.
AnswerIsHonest ==
    /\ result \in {"ok", "accepted"} /\ payload # "unwritable" => stored # <<>> \/ unconfirmed
    /\ unconfirmed => transport \in Unconfirming /\ result = "ok"
    /\ ~Calling /\ result \in Retryable => attempt = Attempts
    /\ Len(stored) <= attempt /\ attempt <= Attempts

\* Retries neither hide what happened nor make one message into several: the answer is
\* what the transport came to, and the copies can be recognised as one.
RetriesHonestly == OneCorrelationId /\ AnswerIsHonest
=============================================================================
