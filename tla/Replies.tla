-------------------------------- MODULE Replies --------------------------------
(***************************************************************************)
(* benzene-results, benzene-core, benzene-http, benzene-grpc: a Result on  *)
(* its way back through services that pass on what their own call came to. *)
(* Each hop encodes it on one side of a transport and decodes it on the    *)
(* other: as a response envelope (envelope.py), as an HTTP response        *)
(* (http/status.py, app.py, client.py) or as a gRPC status with trailers   *)
(* (grpc/status.py, codes.py, details.py, server.py, client.py); or the    *)
(* call gets no reply (clients.py).                                        *)
(*                                                                         *)
(* A text is a sequence of the messages it was joined from, <<>> the empty *)
(* one.  A JSON Pointer is a sequence of segments, a segment the parts     *)
(* between its dots.                                                       *)
(***************************************************************************)
EXTENDS Naturals, Sequences, SequencesExt, FiniteSets

CONSTANTS Words,        \* the strings
          Results,      \* what the first service answers
          MaxHops

VARIABLES first, current, hops,
          route,        \* the transports crossed so far
          protos        \* of this deployment's gRPC: "full", "noReason" or "none"

replyVars == <<first, current, hops, route, protos>>

SUCCESS_STATUSES == {"ok", "created", "accepted", "updated", "deleted", "ignored"}
FAILURE_STATUSES == {"bad-request", "validation-error", "unauthorized", "forbidden", "not-found", "conflict",
                     "too-many-requests", "timeout", "not-implemented", "service-unavailable", "unexpected-error"}
KNOWN_STATUSES == SUCCESS_STATUSES \cup FAILURE_STATUSES

\* A field is a JSON Pointer, a name of the application's own, or none.
FieldKinds == {"absent", "pointer", "bare"}
NoField == [kind |-> "absent", path |-> <<>>]
Error(message, field, code) == [message |-> message, field |-> field, code |-> code]
NoDocument == [detail |-> <<"none">>, errors |-> <<>>]

\* stated is Result.successful: "yes", "no", or "derived" for None.
Result(status, payload, errors, stated) ==
    [status |-> status, payload |-> payload, errors |-> errors, stated |-> stated, document |-> NoDocument]

\* Result.problem: a document of the application's own
Problem(status, detail, errors) ==
    [Result(status, "none", errors, "no") EXCEPT !.document = [detail |-> detail, errors |-> errors]]

Failure(status, errors) == Result(status, "none", errors, "derived")

is_successful(result) ==
    IF result.stated = "derived" THEN result.status \in SUCCESS_STATUSES ELSE result.stated = "yes"

\* What a handler can answer: Result.set states no success of a known status that is not
\* the status's own, and no result is without a status.  ("problem" marks a body that is
\* a problem document.)
Texts == Seq(Words)
Errors == Seq([message : Texts, field : [kind : FieldKinds, path : Seq(Texts)], code : Words])
LawfulResult(r) ==
    /\ r \in [status : Words \ {""}, payload : Words \ {"problem"}, errors : Errors,
             stated : {"yes", "no", "derived"}, document : [detail : Texts, errors : Errors]]
    /\ r.status \in KNOWN_STATUSES => (is_successful(r) <=> r.status \in SUCCESS_STATUSES)

ASSUME ReplyAssumption ==
    /\ KNOWN_STATUSES \cup {"", "none", "page", "gone"} \subseteq Words
    /\ \A r \in Results : LawfulResult(r)

\* What is stated only where it differs from what the status says.
Stated(status, successful) ==
    IF successful = (status \in SUCCESS_STATUSES) THEN "derived" ELSE IF successful THEN "yes" ELSE "no"

-----------------------------------------------------------------------------
(* Problem documents. *)

\* the list is left out
NoErrors == <<Error(<<>>, [kind |-> "left out", path |-> <<>>], "")>>
Messages(errors) == [i \in DOMAIN errors |-> errors[i].message]

\* error_payload: the application's document as it is, or one made of the status; an
\* empty list of errors is left out.
error_payload(result) ==
    LET doc == IF result.document # NoDocument THEN result.document
               ELSE [detail |-> FlattenSeq(Messages(result.errors)), errors |-> result.errors]
    IN  [detail |-> doc.detail, benzeneStatus |-> result.status,
         errors |-> IF doc.errors = <<>> THEN NoErrors ELSE doc.errors]

\* The errors that say something, in order.
WithMessage(errors) ==
    LET said == {i \in DOMAIN errors : errors[i].message # <<>>}
        Nth(k) == CHOOSE i \in said : Cardinality(said \cap (1 .. i)) = k
    IN  [k \in 1 .. Cardinality(said) |-> errors[Nth(k)]]

\* Fault: the text is read, and the list only where there is none.
ProblemErrorsDetail(problem) ==
    IF problem.detail # <<>> THEN <<Error(problem.detail, NoField, "")>>
    ELSE IF problem.errors = NoErrors THEN <<>> ELSE problem.errors

\* problem_errors: the list is authoritative; the detail stands in for an absent one.
problem_errors(problem) ==
    CASE problem.errors # NoErrors -> WithMessage(problem.errors)
      [] problem.errors = NoErrors /\ problem.detail # <<>> -> <<Error(problem.detail, NoField, "")>>
      [] OTHER -> <<>>

\* problem_status: the status a document states, if it is a failure's.
problem_status(problem, otherwise) ==
    IF problem.benzeneStatus = "" \/ problem.benzeneStatus \in SUCCESS_STATUSES
    THEN otherwise ELSE problem.benzeneStatus

-----------------------------------------------------------------------------
(* The envelope. *)

\* a document without a list of errors
Unlisted(detail, benzeneStatus) == [detail |-> detail, benzeneStatus |-> benzeneStatus, errors |-> NoErrors]
NoProblem == Unlisted(<<>>, "")

\* Fault: the body is written for ok and created only.
EncodeOkOnly(result) ==
    [statusCode |-> result.status, isSuccessful |-> is_successful(result),
     body |-> IF ~is_successful(result) THEN "problem"
              ELSE IF result.status \in {"ok", "created"} THEN result.payload ELSE "none",
     problem |-> IF is_successful(result) THEN NoProblem ELSE error_payload(result)]

encode_response(result) ==
    [statusCode |-> result.status, isSuccessful |-> is_successful(result),
     body |-> IF is_successful(result) THEN result.payload ELSE "problem",
     problem |-> IF is_successful(result) THEN NoProblem ELSE error_payload(result)]

\* decode_response, of an envelope that has its required members
decode_response(envelope) ==
    LET stated == Stated(envelope.statusCode, envelope.isSuccessful) IN
    IF envelope.body = "problem"
    THEN Result(envelope.statusCode, "none", problem_errors(envelope.problem), stated)
    ELSE Result(envelope.statusCode, envelope.body, <<>>, stated)

-----------------------------------------------------------------------------
(* HTTP. *)

_BENZENE_TO_HTTP ==
    [s \in KNOWN_STATUSES |->
        CASE s \in {"ok", "ignored"} -> 200 [] s = "created" -> 201 [] s = "accepted" -> 202
          [] s \in {"updated", "deleted"} -> 204 [] s = "bad-request" -> 400 [] s = "unauthorized" -> 401
          [] s = "forbidden" -> 403 [] s = "not-found" -> 404 [] s = "conflict" -> 409
          [] s = "validation-error" -> 422 [] s = "too-many-requests" -> 429 [] s = "unexpected-error" -> 500
          [] s = "not-implemented" -> 501 [] s = "service-unavailable" -> 503 [] s = "timeout" -> 504]

\* Fault: an unknown status is a server error, whatever its result says.
ToHttpByText(status, successful) == IF status \in KNOWN_STATUSES THEN _BENZENE_TO_HTTP[status] ELSE 500

to_http(status, successful) ==
    IF status \in KNOWN_STATUSES THEN _BENZENE_TO_HTTP[status] ELSE IF successful THEN 200 ELSE 500

from_http(code) ==
    CASE code = 200 -> "ok" [] code = 201 -> "created" [] code = 202 -> "accepted" [] code = 204 -> "deleted"
      [] code = 400 -> "bad-request" [] code = 401 -> "unauthorized" [] code = 403 -> "forbidden"
      [] code = 404 -> "not-found" [] code \in {408, 504} -> "timeout" [] code = 409 -> "conflict"
      [] code = 422 -> "validation-error" [] code = 429 -> "too-many-requests" [] code = 501 -> "not-implemented"
      [] code \in {502, 503} -> "service-unavailable" [] OTHER -> "unexpected-error"

\* _to_http_response: the status line; the body stays, with the code added to a problem.
\* A 204 reaches the client without its body.
ToHttpResponse(envelope) ==
    LET code == to_http(envelope.statusCode, envelope.isSuccessful)
    IN  [code |-> code, body |-> IF code = 204 THEN "none" ELSE envelope.body, problem |-> envelope.problem]

\* Fault: the status is read off the status line only.
ReplyByTable(reply) ==
    LET status == from_http(reply.code) IN
    CASE status \in SUCCESS_STATUSES -> Result(status, reply.body, <<>>, "derived")
      [] OTHER -> Failure(status, IF reply.body = "problem" THEN problem_errors(reply.problem) ELSE <<>>)

\* _reply_to_result: a failure's document states the status; the table is the fallback,
\* and all there is for a body that is no JSON object.
reply_to_result(reply) ==
    LET status == from_http(reply.code) IN
    CASE status \in SUCCESS_STATUSES -> Result(status, reply.body, <<>>, "derived")
      [] status \notin SUCCESS_STATUSES /\ reply.body = "problem" ->
            Failure(problem_status(reply.problem, status), problem_errors(reply.problem))
      [] OTHER -> Failure(status, <<>>)

-----------------------------------------------------------------------------
(* gRPC. *)

to_grpc(status, successful) ==
    CASE status \in SUCCESS_STATUSES -> "OK"
      [] status \in {"bad-request", "validation-error"} -> "InvalidArgument"
      [] status \in FAILURE_STATUSES \ {"bad-request", "validation-error"} -> "own code"
      [] OTHER -> IF successful THEN "OK" ELSE "Internal"

\* pointer_to_dotted: the segments joined by dots; a field that is no pointer passes as
\* it is, dots included.
pointer_to_dotted(field) == FlattenSeq(field.path)
\* dotted_to_pointer; an empty path is no field.
dotted_to_pointer(dotted) ==
    IF dotted = <<>> THEN NoField ELSE [kind |-> "pointer", path |-> [i \in DOMAIN dotted |-> <<dotted[i]>>]]

\* details_trailer, errors_from_trailers: one violation for each error, in order.
ThroughTrailer(errors) ==
    IF protos = "none" THEN <<>>
    ELSE [i \in DOMAIN errors |->
             Error(errors[i].message, dotted_to_pointer(pointer_to_dotted(errors[i].field)),
                   IF protos = "full" THEN errors[i].code ELSE "")]

\* Fault: the trailer wins only over a code that names no status.
FromGrpcCodeFirst(code, trailer) == IF code = "InvalidArgument" THEN "bad-request" ELSE trailer

\* from_grpc: the trailer wins verbatim.
from_grpc(code, trailer) == trailer

\* BenzeneGrpcHandler._invoke, and GrpcMessageSender.send_message on its answer: a call
\* that is not OK has no body, and with no errors the status stands in for a detail.
ThroughGrpc(envelope) ==
    LET code == to_grpc(envelope.statusCode, envelope.isSuccessful)
        status == from_grpc(code, envelope.statusCode)
        detail == IF envelope.problem.detail # <<>> THEN envelope.problem.detail ELSE <<envelope.statusCode>>
        errors == ThroughTrailer(problem_errors(envelope.problem))
    IN  IF code = "OK"
        THEN Result(status, envelope.body, <<>>, IF status \in KNOWN_STATUSES THEN "derived" ELSE "yes")
        ELSE Failure(status, IF errors # <<>> THEN errors ELSE <<Error(detail, NoField, "")>>)

-----------------------------------------------------------------------------
ReplyStart == current = first /\ hops = 0 /\ route = {} /\ protos = "full"
ReplyInit == first \in Results /\ current = first /\ hops = 0 /\ route = {} /\ protos \in {"full", "noReason", "none"}

\* The next service's handler returns what its own call came to.
Hop(transport) ==
    /\ hops < MaxHops /\ "lost" \notin route
    /\ hops' = hops + 1 /\ route' = route \cup {transport}
    /\ current' = CASE transport = "envelope" -> decode_response(encode_response(current))
                    [] transport = "http" -> reply_to_result(ToHttpResponse(encode_response(current)))
                    [] transport = "grpc" -> ThroughGrpc(encode_response(current))
    /\ UNCHANGED <<first, protos>>

\* failed_call_result: no reply within the deadline, or none at all.
CallFails(status) ==
    /\ hops < MaxHops /\ "lost" \notin route
    /\ hops' = hops + 1 /\ route' = route \cup {"lost"}
    /\ current' = Failure(status, <<Error(<<"no reply">>, NoField, "")>>)
    /\ UNCHANGED <<first, protos>>

\* A reply of a peer that is not Benzene's: a proxy's page, a plain problem document, a
\* document that states a success.
Foreign ==
    {[code |-> 502, body |-> "page", problem |-> NoProblem],
     [code |-> 404, body |-> "problem", problem |-> Unlisted(<<"gone">>, "")],
     [code |-> 418, body |-> "problem", problem |-> Unlisted(<<>>, "ok")]}

ForeignReply(reply) ==
    /\ hops = 0
    /\ hops' = 1
    /\ current' = reply_to_result(reply) /\ first' = current'
    /\ UNCHANGED <<route, protos>>

ReplyNext == \/ \E transport \in {"envelope", "http", "grpc"} : Hop(transport)
             \/ \E status \in {"timeout", "service-unavailable"} : CallFails(status)
             \/ \E reply \in Foreign : ForeignReply(reply)

ReplySpec == ReplyInit /\ [][ReplyNext]_replyVars

-----------------------------------------------------------------------------
Arrived == "lost" \notin route

\* However many services pass it on, over whichever transports, a success stays a
\* success and a failure a failure, a status of the application's own included.
OutcomeSurvives == Arrived => (is_successful(current) <=> is_successful(first))

\* A failure keeps its status whatever it crosses; a success keeps it unless it goes
\* over HTTP, whose codes do not tell updated from deleted, ignored and the
\* application's own from ok.
StatusSurvives ==
    Arrived => \/ current.status = first.status
               \/ /\ is_successful(first) /\ "http" \in route
                  /\ current.status \in {"ok", "deleted"} /\ first.status \notin KNOWN_STATUSES \ {"updated", "ignored"}

\* A success that does not go over HTTP as 204 keeps its payload.
PayloadSurvives ==
    Arrived /\ is_successful(first) /\ first.status \notin {"updated", "deleted"} => current.payload = first.payload

\* The errors of a failure, as the caller of the first service would read them.
Reported == problem_errors(error_payload(first))

\* All a gRPC without its protos lets through: one text, the detail of the application's
\* own document (the status if that has none) or else the messages joined.
Flat == IF first.document = NoDocument THEN FlattenSeq(Messages(first.errors))
        ELSE IF first.document.detail = <<>> THEN <<first.status>> ELSE first.document.detail

\* Every error arrives, in order and whole: fields unless they crossed gRPC, codes
\* unless they crossed a gRPC without reasons.  Only where there are no errors at all
\* does gRPC add one, and only without its protos does it make them one text.
ErrorsSurvive ==
    Arrived /\ ~is_successful(first) /\ hops > 0 =>
        CASE Reported = <<>> -> current.errors = <<>> \/ ("grpc" \in route /\ Len(current.errors) = 1)
          [] Reported # <<>> /\ ("grpc" \notin route \/ protos # "none") ->
                /\ Messages(current.errors) = Messages(Reported)
                /\ \A i \in DOMAIN Reported :
                       /\ "grpc" \notin route => current.errors[i] = Reported[i]
                       /\ protos = "full" => current.errors[i].code = Reported[i].code
                       /\ current.errors[i].field \in
                              {Reported[i].field, dotted_to_pointer(pointer_to_dotted(Reported[i].field))}
          [] OTHER -> Messages(current.errors) \in {<<Flat>>, <<FlattenSeq(Messages(Reported))>>}

\* A Result relayed through services on any transports arrives as the same answer, but
\* for what each part names as the transports' limits.
ResultSurvives == OutcomeSurvives /\ StatusSurvives /\ PayloadSurvives /\ ErrorsSurvive
=============================================================================
