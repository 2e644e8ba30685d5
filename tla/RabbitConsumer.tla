---------------------------- MODULE RabbitConsumer ----------------------------
(***************************************************************************)
(* benzene-rabbitmq, consumer.py: run_consumer_loop (ack=True) of several  *)
(* workers, each with its channel, on one queue.  A worker pulls one       *)
(* delivery, hands it to the application and acks or nacks it; each of     *)
(* these is awaited, so the other workers move in between.                 *)
(*                                                                         *)
(* The broker is external: a delivery is held by the channel that pulled   *)
(* it until that channel acks, nacks or closes; what comes back takes its  *)
(* old place, and the queue serves the first message that is ready.        *)
(* Messages are numbered in queue order.  A pull that finds the queue      *)
(* empty changes no state.                                                 *)
(***************************************************************************)
EXTENDS OneWayDispatch, FiniteSetsExt

CONSTANTS Consumers, Messages,
          MaxTrouble     \* bound on crashes and stops

ASSUME MessagesAssumption == Messages \subseteq Nat \ {0} /\ DOMAIN Content = Messages
ASSUME BoundsAssumption == MaxTrouble \in Nat

VARIABLES requeue,   \* the loop's requeue argument
          pc,        \* where each worker's loop is, or how it ended
          held,      \* the delivery each channel has neither acked nor nacked
          where,     \* each message: ready, out on a channel, acked or dead-lettered
          done,      \* history: the messages some delivery of which succeeded
          lost,      \* history: the messages whose ack a dying worker never sent
          trouble

vars == <<requeue, pc, held, where, done, lost, trouble>>

None == 0
Busy == {"handling", "acking", "nacking"}
Ended == {"raised", "crashed"}

Init == /\ requeue \in BOOLEAN
        /\ pc = [c \in Consumers |-> "stopped"]
        /\ held = [c \in Consumers |-> None]
        /\ where = [m \in Messages |-> "ready"]
        /\ done = {}
        /\ lost = {}
        /\ trouble = 0

-----------------------------------------------------------------------------
Start(c) ==
    /\ pc[c] = "stopped"
    /\ pc' = [pc EXCEPT ![c] = "polling"]
    /\ UNCHANGED <<requeue, held, where, done, lost, trouble>>

\* basic_get.
Get(c) ==
    /\ pc[c] = "polling"
    /\ LET ready == {m \in Messages : where[m] = "ready"} IN
       /\ ready # {}
       /\ held' = [held EXCEPT ![c] = Min(ready)]
       /\ where' = [where EXCEPT ![Min(ready)] = "out"]
    /\ pc' = [pc EXCEPT ![c] = "handling"]
    /\ UNCHANGED <<requeue, done, lost, trouble>>

\* handle_message comes back.  An exception leaves the loop with the delivery
\* neither acked nor nacked.
Handled(c, outcome) ==
    /\ pc[c] = "handling"
    /\ outcome \in Dispatch(held[c])
    /\ pc' = [pc EXCEPT ![c] = CASE outcome = "raised" -> "raised"
                                 [] outcome # "raised" /\ Acknowledges(outcome) -> "acking"
                                 [] outcome # "raised" /\ ~Acknowledges(outcome) -> "nacking"]
    /\ done' = IF outcome \in Successes THEN done \cup {held[c]} ELSE done
    /\ UNCHANGED <<requeue, held, where, lost, trouble>>

\* Fault: the loop goes on with the delivery it has settled.
SettleForgetsChannel(c, fate) ==
    /\ where' = [where EXCEPT ![held[c]] = fate]
    /\ pc' = [pc EXCEPT ![c] = "polling"]
    /\ UNCHANGED <<requeue, held, done, lost, trouble>>

\* The broker learns what becomes of the delivery, and the loop pulls again.
Settle(c, fate) ==
    /\ where' = [where EXCEPT ![held[c]] = fate]
    /\ held' = [held EXCEPT ![c] = None]
    /\ pc' = [pc EXCEPT ![c] = "polling"]
    /\ UNCHANGED <<requeue, done, lost, trouble>>

\* Fault: an acknowledged delivery is nacked.
AckNacks(c) == pc[c] = "acking" /\ Settle(c, "ready")

Ack(c) == pc[c] = "acking" /\ Settle(c, "acked")

\* basic_nack: back to the queue, or to the dead-letter exchange.
Nack(c) == pc[c] = "nacking" /\ Settle(c, IF requeue THEN "ready" ELSE "dead")

\* should_continue is looked at between deliveries only.
Stop(c) ==
    /\ pc[c] = "polling"
    /\ trouble < MaxTrouble
    /\ trouble' = trouble + 1
    /\ pc' = [pc EXCEPT ![c] = "stopped"]
    /\ UNCHANGED <<requeue, held, where, done, lost>>

\* The process dies, or a call to the broker raises.
Crash(c) ==
    /\ pc[c] \in Busy \cup {"polling"}
    /\ trouble < MaxTrouble
    /\ trouble' = trouble + 1
    /\ pc' = [pc EXCEPT ![c] = "crashed"]
    /\ lost' = IF pc[c] = "acking" THEN lost \cup {held[c]} ELSE lost
    /\ UNCHANGED <<requeue, held, where, done>>

\* Fault: the channel of a worker that ended stays open.
CloseNever(c) == pc[c] \in Ended /\ UNCHANGED vars

\* The channel of a worker that ended closes, and the broker takes the delivery back.
Close(c) ==
    /\ pc[c] \in Ended
    /\ where' = IF held[c] = None THEN where ELSE [where EXCEPT ![held[c]] = "ready"]
    /\ held' = [held EXCEPT ![c] = None]
    /\ pc' = [pc EXCEPT ![c] = "stopped"]
    /\ UNCHANGED <<requeue, done, lost, trouble>>

LoopStep(c) == \/ Start(c) \/ Get(c) \/ Ack(c) \/ Nack(c) \/ Close(c)
               \/ \E outcome \in Outcomes : Handled(c, outcome)

Next == \E c \in Consumers : LoopStep(c) \/ Stop(c) \/ Crash(c)

Spec == Init /\ [][Next]_vars

\* The loops run, and a worker that ended has its channel closed and is restarted.
FairSpec == Spec /\ \A c \in Consumers : WF_vars(LoopStep(c))

-----------------------------------------------------------------------------
TypeOK == /\ requeue \in BOOLEAN
          /\ pc \in [Consumers -> Busy \cup Ended \cup {"stopped", "polling"}]
          /\ held \in [Consumers -> Messages \cup {None}]
          /\ \A c \in Consumers : pc[c] \in {"stopped", "polling"} => held[c] = None
          /\ where \in [Messages -> {"ready", "out", "acked", "dead"}]
          /\ done \subseteq Messages
          /\ lost \subseteq Messages
          /\ trouble \in 0 .. MaxTrouble

\* The broker forgets a message only after a delivery of it succeeded, whichever
\* worker acks it, and a forgotten message stays forgotten.
Acked == {m \in Messages : where[m] = "acked"}
Promise == INSTANCE AtLeastOnce WITH handled <- done, settled <- Acked
AtLeastOnceSpec == Promise!Spec

\* A message that succeeded runs again, or is dead-lettered, only if the worker
\* that was to ack it died first: no failure or exception of another delivery
\* brings it back.
OnlyLostAckRedelivered == \A m \in done : where[m] \in {"ready", "dead"} => m \in lost

\* A message that is never settled waits behind, or is, one that the loops keep
\* retrying: neither an exception nor a crash, which leave a delivery unsettled
\* on a channel, wedges the queue.
SettledOrBehindRetries ==
    \A m \in Messages :
        \/ <>(where[m] \in {"acked", "dead"})
        \/ \E k \in Messages : k <= m /\ []<>(where[k] = "out") /\ []<>(where[k] = "ready")

\* A success runs again only with a cause of its own, and a loop between deliveries
\* holds none.
RedeliveredWithCause == TypeOK /\ OnlyLostAckRedelivered
=============================================================================
