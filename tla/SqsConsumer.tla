----------------------------- MODULE SqsConsumer -----------------------------
(***************************************************************************)
(* benzene-aws, sqs_consumer.py: run_sqs_consumer_loop (delete=True) of    *)
(* several workers on one queue.  Each long-polls a batch, hands the       *)
(* messages to the application one by one and deletes the acknowledged     *)
(* ones; there is an await at each of these, so the other workers and the  *)
(* queue's clock move in between.                                          *)
(*                                                                         *)
(* The queue is external: a received message is hidden until its           *)
(* visibility timeout passes, which may be while it is still being         *)
(* handled; a message received MaxReceives times goes to the dead-letter   *)
(* queue; deleting with a receipt that a later receive has replaced may or *)
(* may not take effect.  A poll that returns nothing changes no state.     *)
(***************************************************************************)
EXTENDS OneWayDispatch, FiniteSets, Sequences

CONSTANTS Consumers, Messages,
          MaxBatch,      \* max_number_of_messages
          MaxReceives,   \* the redrive policy's maxReceiveCount
          MaxTrouble     \* bound on crashes and stops

ASSUME MessagesAssumption == DOMAIN Content = Messages
ASSUME BoundsAssumption == MaxBatch \in Nat \ {0} /\ MaxReceives \in Nat /\ MaxTrouble \in Nat

VARIABLES pc,        \* where each worker's loop is, or how it ended
          batch,     \* what is left of each worker's batch, the current message first
          where,     \* each message: in the queue, hidden, deleted or dead-lettered
          receives,  \* how often each message was received: its latest receipt
          done,      \* history: the messages some delivery of which succeeded
          late,      \* history: the messages whose holder was too slow, or died
          trouble

vars == <<pc, batch, where, receives, done, late, trouble>>

Down == {"stopped", "raised", "crashed"}
Busy == {"handling", "deleting"}

Init == /\ pc = [c \in Consumers |-> "stopped"]
        /\ batch = [c \in Consumers |-> <<>>]
        /\ where = [m \in Messages |-> "queue"]
        /\ receives = [m \in Messages |-> 0]
        /\ done = {}
        /\ late = {}
        /\ trouble = 0

Current(c) == Head(batch[c])
Held(c) == {batch[c][i].msg : i \in DOMAIN batch[c]}

-----------------------------------------------------------------------------
Start(c) ==
    /\ pc[c] \in Down
    /\ pc' = [pc EXCEPT ![c] = "polling"]
    /\ UNCHANGED <<batch, where, receives, done, late, trouble>>

\* receive_message returns between one and MaxBatch messages, in any order.
Receive(c) ==
    /\ pc[c] = "polling"
    /\ \E n \in 1 .. MaxBatch :
         \E got \in [1 .. n -> {m \in Messages : where[m] = "queue" /\ receives[m] < MaxReceives}] :
            /\ \A i, j \in 1 .. n : got[i] = got[j] => i = j
            /\ LET Got == {got[i] : i \in 1 .. n} IN
               /\ receives' = [m \in Messages |-> IF m \in Got THEN receives[m] + 1 ELSE receives[m]]
               /\ where' = [m \in Messages |-> IF m \in Got THEN "hidden" ELSE where[m]]
            /\ batch' = [batch EXCEPT ![c] =
                            [i \in 1 .. n |-> [msg |-> got[i], receipt |-> receives[got[i]] + 1]]]
    /\ pc' = [pc EXCEPT ![c] = "handling"]
    /\ UNCHANGED <<done, late, trouble>>

\* The loop looks at should_continue between batches only.
Stop(c) ==
    /\ pc[c] = "polling"
    /\ trouble < MaxTrouble
    /\ trouble' = trouble + 1
    /\ pc' = [pc EXCEPT ![c] = "stopped"]
    /\ UNCHANGED <<batch, where, receives, done, late>>

\* Fault: the end of the batch is noticed one message too late.
AdvanceTooFar(c) ==
    /\ batch' = [batch EXCEPT ![c] = Tail(@)]
    /\ pc' = [pc EXCEPT ![c] = "handling"]

\* The for loop goes on to the next message, or back to polling.
Advance(c) ==
    /\ batch' = [batch EXCEPT ![c] = Tail(@)]
    /\ pc' = [pc EXCEPT ![c] = IF Len(batch[c]) = 1 THEN "polling" ELSE "handling"]

\* Fault: the loop retries a failed message instead of going on.
HandledStalls(c, outcome) ==
    /\ pc[c] = "handling"
    /\ outcome \in Dispatch(Current(c).msg)
    /\ IF outcome # "raised" /\ Acknowledges(outcome)
       THEN pc' = [pc EXCEPT ![c] = "deleting"] ELSE UNCHANGED pc
    /\ done' = IF outcome \in Successes THEN done \cup {Current(c).msg} ELSE done
    /\ UNCHANGED <<batch, where, receives, late, trouble>>

\* handle_message comes back.  A failure leaves the message on the queue and the
\* loop goes on; an exception abandons the rest of the batch with it.
Handled(c, outcome) ==
    /\ pc[c] = "handling"
    /\ outcome \in Dispatch(Current(c).msg)
    /\ \/ /\ outcome = "raised"
          /\ pc' = [pc EXCEPT ![c] = "raised"]
          /\ batch' = [batch EXCEPT ![c] = <<>>]
       \/ /\ outcome # "raised" /\ Acknowledges(outcome)
          /\ pc' = [pc EXCEPT ![c] = "deleting"]
          /\ UNCHANGED batch
       \/ /\ outcome # "raised" /\ ~Acknowledges(outcome)
          /\ Advance(c)
    /\ done' = IF outcome \in Successes THEN done \cup {Current(c).msg} ELSE done
    /\ UNCHANGED <<where, receives, late, trouble>>

\* Fault: an acknowledged message is not deleted.
DeleteForgets(c) ==
    /\ pc[c] = "deleting"
    /\ Advance(c)
    /\ UNCHANGED <<where, receives, done, late, trouble>>

\* Fault: the message after the acknowledged one is deleted.
DeleteNext(c) ==
    /\ pc[c] = "deleting"
    /\ LET got == batch[c][Len(batch[c])] IN
       where' = IF where[got.msg] = "dead" THEN where ELSE [where EXCEPT ![got.msg] = "deleted"]
    /\ Advance(c)
    /\ UNCHANGED <<receives, done, late, trouble>>

\* delete_message with the receipt of this delivery.
Delete(c) ==
    /\ pc[c] = "deleting"
    /\ LET got == Current(c) IN
       \/ /\ where[got.msg] # "dead"
          /\ where' = [where EXCEPT ![got.msg] = "deleted"]
       \/ /\ where[got.msg] = "dead" \/ got.receipt # receives[got.msg]
          /\ UNCHANGED where
    /\ Advance(c)
    /\ UNCHANGED <<receives, done, late, trouble>>

\* The process dies, or receive_message or delete_message raises.
Crash(c) ==
    /\ pc[c] \notin Down
    /\ trouble < MaxTrouble
    /\ trouble' = trouble + 1
    /\ pc' = [pc EXCEPT ![c] = "crashed"]
    /\ late' = late \cup Held(c)
    /\ batch' = [batch EXCEPT ![c] = <<>>]
    /\ UNCHANGED <<where, receives, done>>

\* The visibility timeout of a message passes.
Expire(m) ==
    /\ where[m] = "hidden"
    /\ where' = [where EXCEPT ![m] = "queue"]
    /\ late' = late \cup {x \in {m} : \E c \in Consumers : x \in Held(c)}
    /\ UNCHANGED <<pc, batch, receives, done, trouble>>

\* The redrive policy: a message received too often goes to the dead-letter queue.
Redrive(m) ==
    /\ where[m] = "queue"
    /\ receives[m] >= MaxReceives
    /\ where' = [where EXCEPT ![m] = "dead"]
    /\ UNCHANGED <<pc, batch, receives, done, late, trouble>>

Next == \/ \E c \in Consumers :
              \/ Start(c) \/ Receive(c) \/ Stop(c) \/ Delete(c) \/ Crash(c)
              \/ \E outcome \in Outcomes : Handled(c, outcome)
        \/ \E m \in Messages : Expire(m) \/ Redrive(m)

Spec == Init /\ [][Next]_vars

\* The loops run, dead workers are restarted, and the queue's clock moves.
LoopStep(c) == \/ Start(c) \/ Receive(c) \/ Delete(c)
               \/ \E outcome \in Outcomes : Handled(c, outcome)

FairSpec == /\ Spec
            /\ \A c \in Consumers : WF_vars(LoopStep(c))
            /\ \A m \in Messages : WF_vars(Expire(m)) /\ WF_vars(Redrive(m))

-----------------------------------------------------------------------------
TypeOK == /\ pc \in [Consumers -> Down \cup Busy \cup {"polling"}]
          /\ batch \in [Consumers -> Seq([msg : Messages, receipt : Nat])]
          /\ \A c \in Consumers : batch[c] # <<>> <=> pc[c] \in Busy
          /\ where \in [Messages -> {"queue", "hidden", "deleted", "dead"}]
          /\ receives \in [Messages -> Nat]
          /\ done \subseteq Messages
          /\ late \subseteq Messages

\* A message is deleted only after a delivery of it succeeded, whoever deletes it
\* and however many workers hold it, and a deleted message stays deleted.
Deleted == {m \in Messages : where[m] = "deleted"}
Promise == INSTANCE AtLeastOnce WITH handled <- done, settled <- Deleted
AtLeastOnceSpec == Promise!Spec

\* A message that has succeeded is back in the queue, or dead-lettered, only if a
\* holder of it was slower than the visibility timeout or died: a failure or an
\* exception of another message of its batch never makes it run again.
OnlyLateRedelivered == \A m \in done : where[m] \in {"queue", "dead"} => m \in late

\* Every message is deleted or dead-lettered in the end, also the rest of a batch
\* that an exception abandoned.
EverySettled == <>(\A m \in Messages : where[m] \in {"deleted", "dead"})

\* A success runs again only with a cause of its own, and the loop never holds a batch
\* it is not working on.
RedeliveredWithCause == TypeOK /\ OnlyLateRedelivered
=============================================================================
