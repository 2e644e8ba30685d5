------------------------------- MODULE BatchHost -------------------------------
(***************************************************************************)
(* benzene-aws, azure and gcp: the function hosts.  The platform invokes   *)
(* the host with an event holding one or more messages of one source; the  *)
(* host recognises the source by the event's shape, dispatches the         *)
(* messages one after the other, and settles them in the way that source   *)
(* understands: by naming the failed items, or by raising.                 *)
(*                                                                         *)
(* The platform is external: it hands out what is ready, takes the answer, *)
(* brings back what was not acknowledged, and gives up on a message after  *)
(* MaxTries deliveries.  A stream's messages are numbered in its order,    *)
(* and it resumes from the lowest item that was reported.                  *)
(***************************************************************************)
EXTENDS OneWayDispatch, FiniteSetsExt, Sequences

CONSTANTS Instances,     \* concurrent instances of the function
          Messages,      \* numbered in stream order
          BatchSize,
          MaxTries,      \* deliveries before the platform gives a message up
          MaxCrashes     \* bound on function timeouts and crashes

ASSUME HostMessagesAssumption == Messages \subseteq Nat /\ DOMAIN Content = Messages
ASSUME HostBoundsAssumption ==
    BatchSize \in Nat \ {0} /\ MaxTries \in Nat /\ MaxCrashes \in Nat

VARIABLES source,    \* the event source the function is deployed behind
          batch,     \* what each instance was invoked with
          pos,       \* how many messages of it were dispatched
          failed,    \* the items not acknowledged so far: failures
          where,     \* each message: ready, out, settled or dead
          tries,     \* how often each message was delivered
          done,      \* history: the messages some delivery of which succeeded
          broken,    \* history: the messages of an invocation that raised or died
          crashes

hostVars == <<source, batch, pos, failed, where, tries, done, broken, crashes>>

-----------------------------------------------------------------------------
(* Event shapes: the top-level markers of a Lambda event, and the source its *)
(* first record names.                                                       *)

LambdaSources == {"sqs", "sns", "s3", "eventbridge", "kafka", "dynamodb", "kinesis", "invoke"}
AzureSources == {"servicebus", "queue-storage", "eventhub", "cosmosdb", "event-grid",
                 "blob-storage", "timer"}
Sources == LambdaSources \cup AzureSources \cup {"pubsub"}

NoRecords == "none"

RecordsEvent(name) == [keys |-> {"Records"}, record |-> name]

TopLevelEvent(keys) == [keys |-> keys, record |-> NoRecords]

Event(s) ==
    CASE s = "sqs" -> RecordsEvent("aws:sqs")
      [] s = "sns" -> RecordsEvent("aws:sns")
      [] s = "s3" -> RecordsEvent("aws:s3")
      [] s = "dynamodb" -> RecordsEvent("aws:dynamodb")
      [] s = "kinesis" -> RecordsEvent("aws:kinesis")
      [] s = "eventbridge" -> TopLevelEvent({"detail-type", "source", "detail"})
      [] s = "kafka" -> TopLevelEvent({"eventSource=aws:kafka", "records"})
      [] s = "invoke" -> TopLevelEvent({"topic", "headers", "body"})

event_source(e) ==
    CASE e.keys \cap {"httpMethod", "requestContext.http"} # {} -> "apigateway"
      [] "detail-type" \in e.keys -> "eventbridge"
      [] e.keys \cap {"eventSource=aws:kafka", "records"} # {} -> "kafka"
      [] e.record = "aws:sqs" -> "sqs"
      [] e.record = "aws:s3" -> "s3"
      [] e.record = "aws:dynamodb" -> "dynamodb"
      [] e.record = "aws:kinesis" -> "kinesis"
      [] e.record = "aws:sns" -> "sns"
      [] "topic" \in e.keys -> "invoke"
      [] OTHER -> "none"

-----------------------------------------------------------------------------
\* AwsLambdaApp.handle, for a function deployed with invocation_type="Event".
AwsLambdaHandle(s) ==
    LET recognised == event_source(Event(s)) IN
    CASE recognised = "sqs" -> "items"
      [] recognised \in {"dynamodb", "kinesis"} -> "sequence numbers"
      [] recognised \in {"sns", "s3", "eventbridge", "kafka", "invoke"} -> "raise"

\* AzureFunctionsApp.handle_*: every trigger goes through _settle_or_raise.
AzureHandle(s) == "raise"

\* GcpFunctionsApp.handle_pubsub.
PubSubHandle == "raise"

\* How the messages of a source are settled.
Settling(s) == CASE s \in LambdaSources -> AwsLambdaHandle(s)
                 [] s \in AzureSources -> AzureHandle(s)
                 [] s = "pubsub" -> PubSubHandle

\* The sources the platform keeps in order, and those whose events hold several messages.
Streams == {"kafka", "dynamodb", "kinesis", "eventhub", "cosmosdb"}
Batched == Streams \cup {"sqs", "sns", "s3", "event-grid"}

HostStart == /\ batch = [i \in Instances |-> <<>>]
             /\ pos = [i \in Instances |-> 0]
             /\ failed = [i \in Instances |-> {}]
             /\ where = [m \in Messages |-> "ready"]
             /\ tries = [m \in Messages |-> 0]
             /\ done = {}
             /\ broken = {}
             /\ crashes = 0

HostInit == source \in Sources /\ HostStart

Idle(i) == batch[i] = <<>>
Items(i) == {batch[i][k] : k \in DOMAIN batch[i]}
Ready == {m \in Messages : where[m] = "ready" /\ tries[m] < MaxTries}
InOrder(s) == \A j, k \in DOMAIN s : j < k => s[j] < s[k]

\* The platform invokes an instance.  A stream hands out the records from the
\* lowest one on, and only when none of its records is being processed.
Invoke(i) ==
    /\ Idle(i)
    /\ \E n \in 1 .. (IF source \in Batched THEN BatchSize ELSE 1) :
         \E got \in [1 .. n -> Ready] :
            LET Got == {got[k] : k \in 1 .. n} IN
            /\ InOrder(got)
            /\ source \in Streams =>
                 \A m \in Messages : m \notin Got /\ m < Max(Got) => where[m] \in {"settled", "dead"}
            /\ source \in Streams => \A j \in Instances : Idle(j)
            /\ batch' = [batch EXCEPT ![i] = got]
            /\ where' = [m \in Messages |-> IF m \in Got THEN "out" ELSE where[m]]
            /\ tries' = [m \in Messages |-> IF m \in Got THEN tries[m] + 1 ELSE tries[m]]
    /\ UNCHANGED <<source, pos, failed, done, broken, crashes>>

\* Fault: the failures of one invocation are still there in the next.
OverKeepsFailures(i, Kept) ==
    /\ where' = [m \in Messages |-> CASE m \in Items(i) \cap Kept -> "settled"
                                       [] m \in Items(i) \ Kept -> "ready"
                                       [] OTHER -> where[m]]
    /\ batch' = [batch EXCEPT ![i] = <<>>]
    /\ pos' = [pos EXCEPT ![i] = 0]
    /\ UNCHANGED <<source, failed, tries>>

\* The invocation is over: Kept is settled, the rest of its messages come back.  A
\* timer tick has no message to bring back.
Over(i, Kept) ==
    /\ where' = [m \in Messages |->
                    CASE m \in Items(i) \cap Kept -> "settled"
                      [] m \in Items(i) \ Kept -> IF source = "timer" THEN "dead" ELSE "ready"
                      [] OTHER -> where[m]]
    /\ batch' = [batch EXCEPT ![i] = <<>>]
    /\ pos' = [pos EXCEPT ![i] = 0]
    /\ failed' = [failed EXCEPT ![i] = {}]
    /\ UNCHANGED <<source, tries>>

\* Fault: a failing item is noted and the loop goes on, whatever the source.
DispatchGoesOn(i, outcome) ==
    LET m == batch[i][pos[i] + 1] IN
    /\ ~Idle(i) /\ pos[i] < Len(batch[i])
    /\ outcome \in Dispatch(m)
    /\ done' = IF outcome \in Successes THEN done \cup {m} ELSE done
    /\ pos' = [pos EXCEPT ![i] = @ + 1]
    /\ failed' = [failed EXCEPT ![i] = IF outcome \in Successes THEN @ ELSE @ \cup {m}]
    /\ UNCHANGED <<source, batch, where, tries, broken, crashes>>

\* Fault: a failing item is dispatched again and again in the same invocation.
DispatchAgain(i, outcome) ==
    LET m == batch[i][pos[i] + 1] IN
    /\ ~Idle(i) /\ pos[i] < Len(batch[i])
    /\ outcome \in Dispatch(m) \cap Successes
    /\ done' = done \cup {m}
    /\ pos' = [pos EXCEPT ![i] = @ + 1]
    /\ UNCHANGED <<source, batch, failed, where, tries, broken, crashes>>

\* One message is dispatched: dispatch_one_way for a source that reports items,
\* _settle_or_raise for the others.  An exception ends the invocation either way,
\* and with it the list of failures.
DispatchOne(i, outcome) ==
    LET m == batch[i][pos[i] + 1]
        raises == \/ outcome = "raised"
                  \/ ~Acknowledges(outcome) /\ Settling(source) = "raise" IN
    /\ ~Idle(i) /\ pos[i] < Len(batch[i])
    /\ outcome \in Dispatch(m)
    /\ done' = IF outcome \in Successes THEN done \cup {m} ELSE done
    /\ \/ /\ raises
          /\ Over(i, {})
          /\ broken' = broken \cup Items(i)
       \/ /\ ~raises
          /\ pos' = [pos EXCEPT ![i] = @ + 1]
          /\ failed' = [failed EXCEPT ![i] = IF Acknowledges(outcome) THEN @ ELSE @ \cup {m}]
          /\ UNCHANGED <<source, batch, where, tries, broken>>
    /\ UNCHANGED crashes

\* Fault: the last failure of a batch is the only one reported.
ReportsLast(i) == IF failed[i] = {} THEN {} ELSE {Max(failed[i])}

\* batchItemFailures; nothing is reported by a source that raises.
Reports(i) == failed[i]

\* Fault: a queue is resumed from the first failure, like a stream.
ReturnResumes(i) ==
    /\ ~Idle(i) /\ pos[i] = Len(batch[i])
    /\ Over(i, {m \in Items(i) : \A f \in Reports(i) : m < f})
    /\ UNCHANGED <<done, broken, crashes>>

\* The invocation returns.  A queue keeps every item that was not reported, a
\* stream those before the lowest reported sequence number.
Return(i) ==
    /\ ~Idle(i) /\ pos[i] = Len(batch[i])
    /\ Over(i, IF Settling(source) = "sequence numbers" /\ Reports(i) # {}
               THEN {m \in Items(i) : m < Min(Reports(i))} ELSE Items(i) \ Reports(i))
    /\ UNCHANGED <<done, broken, crashes>>

\* The function times out or its process dies: the platform hears no answer.
Crash(i) ==
    /\ ~Idle(i)
    /\ crashes < MaxCrashes
    /\ crashes' = crashes + 1
    /\ Over(i, {})
    /\ broken' = broken \cup Items(i)
    /\ UNCHANGED done

\* The platform gives a message up: a dead-letter queue, a poison queue, an
\* on-failure destination.
GiveUp(m) ==
    /\ where[m] = "ready" /\ tries[m] >= MaxTries
    /\ where' = [where EXCEPT ![m] = "dead"]
    /\ UNCHANGED <<source, batch, pos, failed, tries, done, broken, crashes>>

InstanceStep(i) == \/ Invoke(i) \/ Return(i)
                   \/ \E outcome \in Outcomes : DispatchOne(i, outcome)

HostNext == \/ \E i \in Instances : InstanceStep(i) \/ Crash(i)
            \/ \E m \in Messages : GiveUp(m)

HostSpec == HostInit /\ [][HostNext]_hostVars

\* The platform keeps invoking while messages are ready, and the code in a
\* function runs.
HostFairness == /\ \A i \in Instances : WF_hostVars(InstanceStep(i))
                /\ \A m \in Messages : WF_hostVars(GiveUp(m))

-----------------------------------------------------------------------------
HostTypeOK == /\ source \in Sources
              /\ \A i \in Instances : /\ batch[i] \in Seq(Messages)
                                      /\ pos[i] \in 0 .. Len(batch[i])
                                      /\ failed[i] \subseteq Items(i)
                                      /\ \A m \in Items(i) : where[m] = "out"
              /\ where \in [Messages -> {"ready", "out", "settled", "dead"}]
              /\ tries \in [Messages -> 0 .. MaxTries]
              /\ done \subseteq Messages /\ broken \subseteq Messages
              /\ crashes \in 0 .. MaxCrashes

\* Whatever the source, the platform forgets a message only after a delivery of it
\* succeeded: no failed item is missing from the answer, and none is covered by a
\* checkpoint behind it.
HostSettled == {m \in Messages : where[m] = "settled"}
HostPromise == INSTANCE AtLeastOnce WITH handled <- done, settled <- HostSettled
HostAtLeastOnce == HostPromise!Spec

\* Behind SQS, where the items are settled one by one, a message that succeeded
\* comes back only if its invocation raised or died: another item's failure does
\* not make it run again.
OnlyBrokenBatchRerun ==
    source = "sqs" => \A m \in done : where[m] \in {"ready", "dead"} => m \in broken

\* The records of a stream whose host raises succeed in the stream's order: none
\* runs behind a failed one, over any number of redeliveries.
RaisingStreamInOrder ==
    source \in Streams /\ Settling(source) = "raise" =>
        \A m \in done : \A k \in Messages : k < m => k \in done \/ where[k] = "dead"

\* Every message is settled or given up in the end, also those behind a failing one.
HostSettlesAll == <>(\A m \in Messages : where[m] \in {"settled", "dead"})

\* The host's answer makes the platform run again no more than it has to: behind SQS
\* only what failed or whose invocation broke, and the records of a stream whose host
\* raises in their order.
RerunWithCause == HostTypeOK /\ OnlyBrokenBatchRerun /\ RaisingStreamInOrder
=============================================================================
