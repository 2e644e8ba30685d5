------------------------- MODULE RabbitConsumerProofs -------------------------
(***************************************************************************)
(* For any workers, queue and content, with and without requeue, through   *)
(* any exceptions, stops and crashes: a success is delivered again only if *)
(* its ack was lost, and without at_most_once the workers implement        *)
(* AtLeastOnce.                                                            *)
(***************************************************************************)
EXTENDS RabbitConsumer, WellFoundedInduction, TLAPS

\* What is on a channel is out, and on one channel only.
HeldIsOut ==
    /\ \A c \in Consumers : held[c] # None => where[held[c]] = "out"
    /\ \A c, d \in Consumers : held[c] # None /\ held[c] = held[d] => c = d
    /\ \A c \in Consumers : pc[c] \in Busy => held[c] # None

\* A channel holds a success whose ack was not lost only in order to ack it.
SuccessIsAcked == \A c \in Consumers : held[c] \in done \ lost => pc[c] = "acking"

\* Without at_most_once, what is acked or about to be has succeeded.
AckedSucceeded ==
    ~AtMostOnce => /\ \A c \in Consumers : pc[c] = "acking" => held[c] \in done
                   /\ Acked \subseteq done

Inv == TypeOK /\ HeldIsOut /\ SuccessIsAcked /\ OnlyLostAckRedelivered /\ AckedSucceeded

-----------------------------------------------------------------------------
\* A set of numbers that is not empty has a least one, which is what Min picks.
LEMMA MinIsLeast ==
    ASSUME NEW S \in SUBSET Nat, S # {}
    PROVE  Min(S) \in S /\ \A y \in S : Min(S) <= y
<1>1. PICK x \in S : \A y \in S : ~(<<y, x>> \in OpToRel(<, Nat))
  BY WFMin, NatLessThanWellFounded
<1>2. \A y \in S : x <= y
  <2> SUFFICES ASSUME NEW y \in S PROVE x <= y
    OBVIOUS
  <2>1. ~(y < x)
    BY <1>1 DEF OpToRel
  <2> QED
    BY <2>1
<1> QED
  BY <1>2 DEF Min

\* The workers start in the invariant.
LEMMA InitInv == Init => Inv
BY BoundsAssumption
   DEF Init, Inv, TypeOK, HeldIsOut, SuccessIsAcked, OnlyLostAckRedelivered, AckedSucceeded, Acked, Busy, Ended

\* basic_get takes a message that is on no channel.
LEMMA GetInv == ASSUME Inv, NEW c \in Consumers, Get(c) PROVE Inv'
<1> DEFINE ready == {m \in Messages : where[m] = "ready"}
           m == Min(ready)
<1>0. /\ pc[c] = "polling" /\ ready # {}
      /\ held' = [held EXCEPT ![c] = m] /\ where' = [where EXCEPT ![m] = "out"]
      /\ pc' = [pc EXCEPT ![c] = "handling"]
      /\ UNCHANGED <<requeue, done, lost, trouble>>
  BY DEF Get
<1>1. m \in Messages /\ where[m] = "ready" /\ m # None
  <2>1. ready \in SUBSET Nat
    BY MessagesAssumption
  <2>2. m \in ready
    BY <2>1, <1>0, MinIsLeast
  <2> QED
    BY <2>2, MessagesAssumption DEF None
<1> HIDE DEF m, ready
<1>2. TypeOK'
  BY <1>0, <1>1 DEF Inv, TypeOK, Busy
<1>3. \A d \in Consumers : held[d] # m
  BY <1>1 DEF Inv, HeldIsOut
<1>4. HeldIsOut'
  BY <1>0, <1>1, <1>3 DEF Inv, TypeOK, HeldIsOut, Busy
<1>5. m \in done => m \in lost
  BY <1>1 DEF Inv, OnlyLostAckRedelivered
<1>6. SuccessIsAcked'
  BY <1>0, <1>5 DEF Inv, TypeOK, SuccessIsAcked
<1>7. OnlyLostAckRedelivered'
  BY <1>0 DEF Inv, TypeOK, OnlyLostAckRedelivered
<1>8. AckedSucceeded'
  BY <1>0 DEF Inv, TypeOK, AckedSucceeded, Acked
<1> QED
  BY <1>2, <1>4, <1>6, <1>7, <1>8 DEF Inv

\* What handle_message comes to decides what becomes of the delivery in hand.
LEMMA HandledInv ==
    ASSUME Inv, NEW c \in Consumers, NEW outcome \in Outcomes, Handled(c, outcome)
    PROVE  Inv'
<1> DEFINE m == held[c]
<1>0. /\ pc[c] = "handling"
      /\ done' = IF outcome \in Successes THEN done \cup {m} ELSE done
      /\ UNCHANGED <<requeue, held, where, lost, trouble>>
  BY DEF Handled
<1>1. /\ m \in Messages /\ m # None /\ where[m] = "out"
      /\ m \in done => m \in lost
  BY <1>0 DEF Inv, TypeOK, HeldIsOut, SuccessIsAcked, Busy
<1>2. PICK k \in {"raised", "acking", "nacking"} :
        /\ pc' = [pc EXCEPT ![c] = k]
        /\ outcome \in Successes => k = "acking"
        /\ k = "acking" => AtMostOnce \/ outcome \in Successes
  BY SettlementAssumption DEF Handled, Acknowledges, Outcomes, Successes
<1> HIDE DEF m
<1>3. TypeOK'
  BY <1>0, <1>1, <1>2 DEF Inv, TypeOK, Busy, Ended
<1>4. HeldIsOut'
  BY <1>0, <1>1, <1>2 DEF Inv, TypeOK, HeldIsOut, Busy, m
<1>5. SuccessIsAcked'
  <2> SUFFICES ASSUME NEW d \in Consumers, held'[d] \in done' \ lost' PROVE pc'[d] = "acking"
    BY DEF SuccessIsAcked
  <2>1. CASE d = c
    <3>1. outcome \in Successes
      BY <2>1, <1>0, <1>1 DEF m
    <3> QED
      BY <3>1, <2>1, <1>2 DEF Inv, TypeOK
  <2>2. CASE d # c
    <3>1. held[d] # m
      BY <2>2, <1>1 DEF Inv, HeldIsOut, m
    <3>2. held[d] \in done \ lost
      BY <3>1, <1>0
    <3> QED
      BY <3>2, <2>2, <1>2 DEF Inv, TypeOK, SuccessIsAcked
  <2> QED
    BY <2>1, <2>2
<1>6. OnlyLostAckRedelivered'
  BY <1>0, <1>1 DEF Inv, OnlyLostAckRedelivered
<1>7. AckedSucceeded'
  <2>1. Acked' = Acked /\ done \subseteq done'
    BY <1>0 DEF Acked
  <2>2. ~AtMostOnce /\ pc'[c] = "acking" => held'[c] \in done'
    BY <1>0, <1>2 DEF Inv, TypeOK, m
  <2>3. \A d \in Consumers : d # c => pc'[d] = pc[d] /\ held'[d] = held[d]
    BY <1>0, <1>2 DEF Inv, TypeOK
  <2> QED
    BY <2>1, <2>2, <2>3 DEF Inv, AckedSucceeded
<1> QED
  BY <1>3, <1>4, <1>5, <1>6, <1>7 DEF Inv

\* A success is never given back by the worker that is to ack it; the broker gets
\* rid of a delivery on that channel, by ack, nack or close.
LEMMA FreeInv ==
    ASSUME Inv, NEW c \in Consumers, NEW fate \in {"ready", "acked", "dead"},
           NEW k \in {"polling", "stopped"},
           held[c] # None,
           fate = "acked" => pc[c] = "acking",
           fate # "acked" => pc[c] # "acking",
           where' = [where EXCEPT ![held[c]] = fate],
           held' = [held EXCEPT ![c] = None],
           pc' = [pc EXCEPT ![c] = k],
           UNCHANGED <<requeue, done, lost, trouble>>
    PROVE  Inv'
<1> DEFINE m == held[c]
<1>1. m \in Messages /\ m # None /\ where' = [where EXCEPT ![m] = fate]
  BY DEF Inv, TypeOK
<1>2. \A d \in Consumers : d # c => held[d] # m
  BY DEF Inv, HeldIsOut
<1>3. fate # "acked" /\ m \in done => m \in lost
  BY DEF Inv, SuccessIsAcked
<1>4. ~AtMostOnce /\ fate = "acked" => m \in done
  BY DEF Inv, AckedSucceeded
<1>5. None \notin done
  BY MessagesAssumption DEF Inv, TypeOK, None
<1> HIDE DEF m
<1>6. TypeOK'
  BY <1>1 DEF Inv, TypeOK, Busy
<1>7. HeldIsOut'
  BY <1>1, <1>2 DEF Inv, TypeOK, HeldIsOut, Busy
<1>8. SuccessIsAcked'
  BY <1>5 DEF Inv, TypeOK, SuccessIsAcked
<1>9. OnlyLostAckRedelivered'
  BY <1>1, <1>3 DEF Inv, TypeOK, OnlyLostAckRedelivered
<1>10. AckedSucceeded'
  BY <1>1, <1>4 DEF Inv, TypeOK, AckedSucceeded, Acked
<1> QED
  BY <1>6, <1>7, <1>8, <1>9, <1>10 DEF Inv

\* ack and nack settle the delivery in hand.
LEMMA SettleInv == ASSUME Inv, NEW c \in Consumers, Ack(c) \/ Nack(c) PROVE Inv'
<1>1. held[c] # None
  BY DEF Inv, HeldIsOut, Ack, Nack, Busy
<1>2. CASE Ack(c)
  BY <1>1, <1>2, FreeInv DEF Ack, Settle
<1>3. CASE Nack(c)
  <2> DEFINE fate == IF requeue THEN "ready" ELSE "dead"
  <2>1. fate \in {"ready", "dead"}
    OBVIOUS
  <2>2. pc[c] = "nacking" /\ Settle(c, fate)
    BY <1>3 DEF Nack
  <2> HIDE DEF fate
  <2> QED
    BY <1>1, <2>1, <2>2, FreeInv DEF Settle
<1> QED
  BY <1>2, <1>3

\* A channel that closes gives its delivery back, if it has one.
LEMMA CloseInv == ASSUME Inv, NEW c \in Consumers, Close(c) PROVE Inv'
<1>1. CASE held[c] # None
  BY <1>1, FreeInv DEF Close, Ended
<1>2. CASE held[c] = None
  <2>1. /\ held' = held /\ where' = where /\ pc' = [pc EXCEPT ![c] = "stopped"]
        /\ UNCHANGED <<requeue, done, lost, trouble>>
    BY <1>2 DEF Close, Inv, TypeOK
  <2>2. TypeOK'
    BY <2>1, <1>2 DEF Inv, TypeOK
  <2>3. HeldIsOut'
    BY <2>1 DEF Inv, TypeOK, HeldIsOut, Busy
  <2>4. None \notin done
    BY MessagesAssumption DEF Inv, TypeOK, None
  <2>5. SuccessIsAcked' /\ OnlyLostAckRedelivered' /\ AckedSucceeded'
    BY <2>1, <2>4, <1>2
       DEF Inv, TypeOK, SuccessIsAcked, OnlyLostAckRedelivered, AckedSucceeded, Acked
  <2> QED
    BY <2>2, <2>3, <2>5 DEF Inv
<1> QED
  BY <1>1, <1>2

\* Starting and stopping happen between deliveries.
LEMMA StartStopInv == ASSUME Inv, NEW c \in Consumers, Start(c) \/ Stop(c) PROVE Inv'
<1>0. PICK k \in {"polling", "stopped"} :
        /\ pc' = [pc EXCEPT ![c] = k] /\ UNCHANGED <<requeue, held, where, done, lost>>
        /\ trouble' \in 0 .. MaxTrouble /\ held[c] = None
  BY BoundsAssumption DEF Start, Stop, Inv, TypeOK
<1>1. TypeOK'
  BY <1>0 DEF Inv, TypeOK
<1>2. HeldIsOut'
  BY <1>0 DEF Inv, TypeOK, HeldIsOut, Busy
<1>3. None \notin done
  BY MessagesAssumption DEF Inv, TypeOK, None
<1>4. SuccessIsAcked' /\ OnlyLostAckRedelivered' /\ AckedSucceeded'
  BY <1>0, <1>3 DEF Inv, TypeOK, SuccessIsAcked, OnlyLostAckRedelivered, AckedSucceeded, Acked
<1> QED
  BY <1>1, <1>2, <1>4 DEF Inv

\* A crash leaves the delivery on the channel, and loses the ack it was about to send.
LEMMA CrashInv == ASSUME Inv, NEW c \in Consumers, Crash(c) PROVE Inv'
<1>0. /\ pc[c] \in Busy \cup {"polling"} /\ pc' = [pc EXCEPT ![c] = "crashed"]
      /\ lost' = IF pc[c] = "acking" THEN lost \cup {held[c]} ELSE lost
      /\ UNCHANGED <<requeue, held, where, done>>
      /\ trouble' \in 0 .. MaxTrouble
  BY BoundsAssumption DEF Crash, Inv, TypeOK
<1>1. pc[c] = "acking" => held[c] \in Messages
  BY DEF Inv, TypeOK, HeldIsOut, Busy
<1>2. TypeOK'
  BY <1>0, <1>1 DEF Inv, TypeOK, Ended
<1>3. HeldIsOut'
  BY <1>0 DEF Inv, TypeOK, HeldIsOut, Busy
<1>4. SuccessIsAcked'
  BY <1>0 DEF Inv, TypeOK, SuccessIsAcked
<1>5. OnlyLostAckRedelivered' /\ AckedSucceeded'
  BY <1>0 DEF Inv, TypeOK, OnlyLostAckRedelivered, AckedSucceeded, Acked
<1> QED
  BY <1>2, <1>3, <1>4, <1>5 DEF Inv

\* The invariant is inductive.
LEMMA NextInv == Inv /\ [Next]_vars => Inv'
<1> SUFFICES ASSUME Inv, [Next]_vars PROVE Inv'
  OBVIOUS
<1>1. CASE UNCHANGED vars
  BY <1>1 DEF vars, Inv, TypeOK, HeldIsOut, SuccessIsAcked, OnlyLostAckRedelivered, AckedSucceeded, Acked
<1> QED
  BY <1>1, GetInv, HandledInv, SettleInv, CloseInv, StartStopInv, CrashInv DEF Next, LoopStep

\* For any workers and queue: a message that run_consumer_loop handled successfully
\* is ready again, or dead-lettered, only if the worker that was to ack it died, and a
\* loop between deliveries holds none.
THEOREM OnlyLostAckReturns == Spec => []RedeliveredWithCause
<1>1. Inv => RedeliveredWithCause
  BY DEF Inv, RedeliveredWithCause
<1> QED
  BY <1>1, InitInv, NextInv, PTL DEF Spec

\* For any workers and queue: without at_most_once the broker forgets a message only
\* after a delivery of it succeeded, and for good.
THEOREM RabbitImplementsAtLeastOnce == ASSUME ~AtMostOnce PROVE Spec => AtLeastOnceSpec
<1>1. Init => Promise!Init
  BY DEF Init, Promise!Init, Acked
<1>2. Inv /\ Inv' /\ [Next]_vars => [Promise!Next]_Promise!vars
  <2> SUFFICES ASSUME Inv, Inv', [Next]_vars
               PROVE  Promise!Next \/ (done' = done /\ Acked' = Acked)
    BY DEF Promise!vars
  <2>1. ASSUME NEW c \in Consumers, NEW outcome \in Outcomes, Handled(c, outcome)
        PROVE  Promise!Next \/ (done' = done /\ Acked' = Acked)
    <3>1. held[c] \in Messages
      BY <2>1 DEF Handled, Inv, TypeOK, HeldIsOut, Busy
    <3>2. Acked' = Acked /\ (done' = done \/ done' = done \cup {held[c]})
      BY <2>1 DEF Handled, Acked
    <3> QED
      BY <3>1, <3>2 DEF Promise!Next, Promise!HandleOne
  <2>2. ASSUME NEW c \in Consumers, Ack(c) \/ Nack(c) \/ Close(c)
        PROVE  Promise!Next
    <3>1. done' = done
      BY <2>2 DEF Ack, Nack, Settle, Close
    <3>2. held[c] # None => where[held[c]] = "out" /\ held[c] \in Messages
      BY DEF Inv, HeldIsOut, TypeOK
    <3>3. pc[c] \in Busy => held[c] # None
      BY DEF Inv, HeldIsOut
    <3>4. where' = where \/ \E f \in {"ready", "acked", "dead"} : where' = [where EXCEPT ![held[c]] = f]
      BY <2>2 DEF Ack, Nack, Settle, Close
    <3>5. where' = where \/ held[c] # None
      BY <2>2, <3>3 DEF Ack, Nack, Settle, Close, Busy
    <3>6. Acked \subseteq Acked'
      BY <3>2, <3>4, <3>5 DEF Acked, Inv, TypeOK
    <3>7. Acked' \subseteq done
      BY <3>1 DEF Inv, AckedSucceeded
    <3> QED
      BY <3>1, <3>6, <3>7 DEF Promise!Next, Promise!Settle
  <2>3. ASSUME NEW c \in Consumers, Get(c) PROVE done' = done /\ Acked' = Acked
    <3> DEFINE m == Min({x \in Messages : where[x] = "ready"})
    <3>1. done' = done /\ where' = [where EXCEPT ![m] = "out"]
      BY <2>3 DEF Get
    <3>2. m \in Messages => where[m] = "ready"
      <4>1. {x \in Messages : where[x] = "ready"} \in SUBSET Nat /\ {x \in Messages : where[x] = "ready"} # {}
        BY <2>3, MessagesAssumption DEF Get
      <4> QED
        BY <4>1, MinIsLeast
    <3> HIDE DEF m
    <3> QED
      BY <3>1, <3>2 DEF Acked, Inv, TypeOK
  <2>4. CASE UNCHANGED <<done, where>>
    BY <2>4 DEF Acked
  <2> QED
    BY <2>1, <2>2, <2>3, <2>4 DEF Next, LoopStep, vars, Start, Stop, Crash
<1> QED
  BY <1>1, <1>2, InitInv, NextInv, PTL DEF Spec, AtLeastOnceSpec, Promise!Spec
=============================================================================
