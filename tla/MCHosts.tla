------------------------------- MODULE MCHosts -------------------------------
(* Both ends of the hosted transports: a function host behind each of its    *)
(* event sources, or one message on its way through a sender and its         *)
(* transport.  The two share no state, so each behaviour follows one of them.*)
EXTENDS BatchHost, Outbound

VARIABLE subject

MCMessages == 1 .. 3

\* The first and the last message may succeed or fail, nobody serves the second.
MCContent == [m \in MCMessages |->
    [topic |-> IF m = 2 THEN "unserved" ELSE "served", body |-> "fits"]]

MCLower(name) == CASE name = "Topic" -> "topic"
                   [] name = "Trace" -> "trace"
                   [] name = "X-Correlation-Id" -> "x-correlation-id"
                   [] name = "Eventbridge-Detail-Type" -> "eventbridge-detail-type"
                   [] OTHER -> name

MCInit == \/ /\ subject = "host"
             /\ HostInit
             /\ transport = "sqs" /\ order = "retry" /\ headers = <<>> /\ payload = "object"
             /\ OutStart
          \/ /\ subject = "sender"
             /\ source = "sqs" /\ HostStart
             /\ OutInit

MCNext == \/ subject = "host" /\ HostNext /\ UNCHANGED <<subject, outVars>>
          \/ subject = "sender" /\ OutNext /\ UNCHANGED <<subject, hostVars>>

MCSpec == MCInit /\ [][MCNext]_<<subject, hostVars, outVars>> /\ HostFairness

\* A host settles every message, or the platform gives it up, also those behind a
\* failing one (HostSettlesAll of BatchHost, in the behaviours that follow a host).
EveryMessageSettled == subject = "host" => HostSettlesAll
=============================================================================
