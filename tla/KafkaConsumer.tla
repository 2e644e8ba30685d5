---------------------------- MODULE KafkaConsumer ----------------------------
(***************************************************************************)
(* benzene-kafka, consumer.py: run_consumer_loop (commit=True) inside      *)
(* kafka_consumer_worker, as a group of consumers over the partitions of a *)
(* topic.  poll, handle_message and commit are separated by awaits, so the *)
(* rebalances, crashes and commits of others happen between them.          *)
(*                                                                         *)
(* The broker and confluent-kafka are external: offsets committed without  *)
(* waiting (commit is asynchronous by default), so a commit is applied     *)
(* later or lost; a partition moves to another member at any time and      *)
(* resumes at its committed offset; a commit by a member that has lost the *)
(* partition is rejected.  A poll that returns nothing, or a broker error, *)
(* changes no state.                                                       *)
(***************************************************************************)
EXTENDS OneWayDispatch, FiniteSets

CONSTANTS Consumers, Partitions,
          LogEnd,          \* the records of a partition are 0 .. LogEnd - 1
          MaxTrouble       \* bound on rebalances, crashes, stops and lost commits

Offsets == 0 .. LogEnd - 1
Records == Partitions \X Offsets

ASSUME LogAssumption == LogEnd \in Nat /\ DOMAIN Content = Records
ASSUME TroubleAssumption == MaxTrouble \in Nat

Nobody == "nobody"
NoRecord == <<>>
ASSUME NobodyAssumption == Nobody \notin Consumers /\ NoRecord \notin Records

VARIABLES stop_on_failure,   \* the option the group's loops are run with
          pc,         \* where each consumer's loop is, or how it ended
          record,     \* the record each consumer has in hand
          owner,      \* the member each partition is assigned to
          position,   \* the next offset the owner will poll
          committed,  \* the group's committed offset: where a new owner resumes
          inflight,   \* the offsets the owner has asked to commit, not yet applied
          done,      \* history: the records some delivery of which succeeded
          trouble     \* how often something went wrong, for the bound

vars == <<stop_on_failure, pc, record, owner, position, committed, inflight, done, trouble>>

Running == {"polling", "handling", "committing"}
Down == {"stopped", "gave_up", "raised", "crashed"}

Init == /\ stop_on_failure \in BOOLEAN
        /\ pc = [c \in Consumers |-> "stopped"]
        /\ record = [c \in Consumers |-> NoRecord]
        /\ owner = [p \in Partitions |-> Nobody]
        /\ position = [p \in Partitions |-> 0]
        /\ committed = [p \in Partitions |-> 0]
        /\ inflight = [p \in Partitions |-> {}]
        /\ done = {}
        /\ trouble = 0

-----------------------------------------------------------------------------
\* The loop ends: close() in the worker's finally, or the death of the process,
\* gives the consumer's partitions back and with them what it had asked to commit.
Leave(c, how) ==
    /\ pc' = [pc EXCEPT ![c] = how]
    /\ record' = [record EXCEPT ![c] = NoRecord]
    /\ owner' = [p \in Partitions |-> IF owner[p] = c THEN Nobody ELSE owner[p]]
    /\ inflight' = [p \in Partitions |-> IF owner[p] = c THEN {} ELSE inflight[p]]
    /\ UNCHANGED <<position, committed>>

\* The worker is started, or started again after it went down.
Start(c) ==
    /\ pc[c] \in Down
    /\ pc' = [pc EXCEPT ![c] = "polling"]
    /\ UNCHANGED <<record, owner, position, committed, inflight, done, trouble, stop_on_failure>>

\* A rebalance, taken up by the new owner inside poll: it resumes at the
\* committed offset.  The old owner may be in the middle of a record.
Assign(c, p) ==
    /\ pc[c] = "polling"
    /\ owner[p] # c
    /\ \/ owner[p] = Nobody /\ UNCHANGED trouble
       \/ owner[p] # Nobody /\ trouble < MaxTrouble /\ trouble' = trouble + 1
    /\ owner' = [owner EXCEPT ![p] = c]
    /\ position' = [position EXCEPT ![p] = committed[p]]
    /\ inflight' = [inflight EXCEPT ![p] = {}]
    /\ UNCHANGED <<pc, record, committed, done, stop_on_failure>>

\* consumer.poll returns a record.
Poll(c, p) ==
    /\ pc[c] = "polling"
    /\ owner[p] = c
    /\ position[p] < LogEnd
    /\ record' = [record EXCEPT ![c] = <<p, position[p]>>]
    /\ position' = [position EXCEPT ![p] = @ + 1]
    /\ pc' = [pc EXCEPT ![c] = "handling"]
    /\ UNCHANGED <<owner, committed, inflight, done, trouble, stop_on_failure>>

\* should_continue is false when the loop looks at it.
Stop(c) ==
    /\ pc[c] = "polling"
    /\ trouble < MaxTrouble
    /\ trouble' = trouble + 1
    /\ Leave(c, "stopped")
    /\ UNCHANGED <<done, stop_on_failure>>

\* Fault: a record that was not acknowledged is passed over in every mode.
HandledPassesOver(c, outcome) ==
    /\ pc[c] = "handling"
    /\ outcome \in Dispatch(record[c])
    /\ IF outcome = "raised" THEN Leave(c, "raised")
       ELSE /\ pc' = [pc EXCEPT ![c] = IF Acknowledges(outcome) THEN "committing" ELSE "polling"]
            /\ record' = [record EXCEPT ![c] = IF Acknowledges(outcome) THEN @ ELSE NoRecord]
            /\ UNCHANGED <<owner, position, committed, inflight>>
    /\ done' = IF outcome \in Successes THEN done \cup {record[c]} ELSE done
    /\ UNCHANGED <<trouble, stop_on_failure>>

\* handle_message comes back.  An exception ends the loop in every mode; an
\* unacknowledged record ends it with stop_on_failure and is passed over without.
Handled(c, outcome) ==
    /\ pc[c] = "handling"
    /\ outcome \in Dispatch(record[c])
    /\ \/ /\ outcome = "raised"
          /\ Leave(c, "raised")
       \/ /\ outcome # "raised" /\ Acknowledges(outcome)
          /\ pc' = [pc EXCEPT ![c] = "committing"]
          /\ UNCHANGED <<record, owner, position, committed, inflight>>
       \/ /\ outcome # "raised" /\ ~Acknowledges(outcome) /\ stop_on_failure
          /\ Leave(c, "gave_up")
       \/ /\ outcome # "raised" /\ ~Acknowledges(outcome) /\ ~stop_on_failure
          /\ pc' = [pc EXCEPT ![c] = "polling"]
          /\ record' = [record EXCEPT ![c] = NoRecord]
          /\ UNCHANGED <<owner, position, committed, inflight>>
    /\ done' = IF outcome \in Successes THEN done \cup {record[c]} ELSE done
    /\ UNCHANGED <<trouble, stop_on_failure>>

\* Fault: the offset committed is one too far.
CommitTooFar(c) ==
    /\ pc[c] = "committing"
    /\ LET p == record[c][1] IN
       inflight' = IF owner[p] = c
                   THEN [inflight EXCEPT ![p] = @ \cup {record[c][2] + 2}] ELSE inflight
    /\ pc' = [pc EXCEPT ![c] = "polling"]
    /\ record' = [record EXCEPT ![c] = NoRecord]
    /\ UNCHANGED <<owner, position, committed, done, trouble, stop_on_failure>>

\* consumer.commit(message=...): the offset after the record, if the partition
\* is still this consumer's.
Commit(c) ==
    /\ pc[c] = "committing"
    /\ LET p == record[c][1] IN
       inflight' = IF owner[p] = c
                   THEN [inflight EXCEPT ![p] = @ \cup {record[c][2] + 1}] ELSE inflight
    /\ pc' = [pc EXCEPT ![c] = "polling"]
    /\ record' = [record EXCEPT ![c] = NoRecord]
    /\ UNCHANGED <<owner, position, committed, done, trouble, stop_on_failure>>

\* The process dies, or consumer.poll or consumer.commit raises.
Crash(c) ==
    /\ pc[c] \in Running
    /\ trouble < MaxTrouble
    /\ trouble' = trouble + 1
    /\ Leave(c, "crashed")
    /\ UNCHANGED <<done, stop_on_failure>>

\* The broker applies commits in the order they were sent, which within one
\* ownership is the order of their offsets.
ApplyCommit(p) ==
    \E o \in inflight[p] :
        /\ \A q \in inflight[p] : o <= q
        /\ committed' = [committed EXCEPT ![p] = o]
        /\ inflight' = [inflight EXCEPT ![p] = @ \ {o}]
        /\ UNCHANGED <<pc, record, owner, position, done, trouble, stop_on_failure>>

\* An asynchronous commit fails; nobody is told.
LoseCommit(p) ==
    /\ trouble < MaxTrouble
    /\ trouble' = trouble + 1
    /\ \E o \in inflight[p] : inflight' = [inflight EXCEPT ![p] = @ \ {o}]
    /\ UNCHANGED <<pc, record, owner, position, committed, done, stop_on_failure>>

Next == \/ \E c \in Consumers :
              \/ Start(c) \/ Stop(c) \/ Commit(c) \/ Crash(c)
              \/ \E outcome \in Outcomes : Handled(c, outcome)
              \/ \E p \in Partitions : Assign(c, p) \/ Poll(c, p)
        \/ \E p \in Partitions : ApplyCommit(p) \/ LoseCommit(p)

Spec == Init /\ [][Next]_vars

\* The loops run, a dead worker is restarted by its supervisor, the coordinator
\* assigns a free partition, and a handler that keeps being given a record
\* succeeds in the end.
LoopStep(c) == \/ Start(c) \/ Commit(c)
               \/ \E outcome \in Outcomes : Handled(c, outcome)
               \/ \E p \in Partitions : Poll(c, p)
FreeAssign(c, p) == owner[p] = Nobody /\ Assign(c, p)
Succeeds(r) == \E c \in Consumers : record[c] = r /\ Handled(c, "ok")

Fairness == /\ \A c \in Consumers : WF_vars(LoopStep(c))
            /\ \A p \in Partitions : WF_vars(\E c \in Consumers : FreeAssign(c, p))
            /\ \A r \in Records : SF_vars(Succeeds(r))
            /\ \A p \in Partitions : WF_vars(ApplyCommit(p))

FairSpec == Spec /\ Fairness

-----------------------------------------------------------------------------
TypeOK == /\ stop_on_failure \in BOOLEAN
          /\ pc \in [Consumers -> Running \cup Down]
          /\ record \in [Consumers -> Records \cup {NoRecord}]
          /\ \A c \in Consumers : record[c] # NoRecord <=> pc[c] \in {"handling", "committing"}
          /\ owner \in [Partitions -> Consumers \cup {Nobody}]
          /\ position \in [Partitions -> 0 .. LogEnd]
          /\ committed \in [Partitions -> 0 .. LogEnd]
          /\ inflight \in [Partitions -> SUBSET (0 .. LogEnd)]
          /\ done \subseteq Records
          /\ trouble \in 0 .. MaxTrouble

AtLeastOnceMode == stop_on_failure /\ ~AtMostOnce

\* The at-least-once mode: no rebalance, crash, lost or late commit makes the
\* group resume behind a record that never succeeded.
NoLoss == AtLeastOnceMode =>
    \A p \in Partitions : \A o \in 0 .. committed[p] - 1 : <<p, o>> \in done

\* The at-least-once mode keeps the partition's order: a record is handled
\* successfully only after every record before it has been.
HandledInOrder == AtLeastOnceMode =>
    \A p \in Partitions, o \in Offsets :
        <<p, o>> \in done => \A q \in 0 .. o - 1 : <<p, q>> \in done

\* Skip-and-continue: a failed record is passed over only by the commit of one
\* behind it that succeeded, so the last record committed is always a success.
PassedOverBySuccess == ~AtMostOnce =>
    \A p \in Partitions : committed[p] > 0 => <<p, committed[p] - 1>> \in done

\* stop_on_failure implements the abstract at-least-once consumer: committed
\* offsets only grow and only over records handled successfully.
Settled == IF AtLeastOnceMode THEN {r \in Records : r[2] < committed[r[1]]} ELSE {}
Promise == INSTANCE AtLeastOnce WITH Messages <- Records, handled <- done, settled <- Settled
AtLeastOnceSpec == Promise!Spec

\* With stop_on_failure every record is handled successfully in the end, whatever
\* rewinds its partition.
EveryRecordHandled == stop_on_failure ~> done = Records

\* What a commit says is true in both modes, through rebalances, crashes and lost
\* commits: nothing is lost and order is kept with stop_on_failure, and without it
\* failures are passed over only by a success.
CommitsSafely == TypeOK /\ NoLoss /\ HandledInOrder /\ PassedOverBySuccess
=============================================================================
