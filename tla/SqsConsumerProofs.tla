-------------------------- MODULE SqsConsumerProofs --------------------------
(***************************************************************************)
(* For any workers, messages and content, batch size and redrive policy:   *)
(* without at_most_once the workers implement AtLeastOnce, and in either   *)
(* mode a success is delivered again only if its holder was late.          *)
(***************************************************************************)
EXTENDS SqsConsumer, SequenceTheorems, TLAPS

\* Whatever is being deleted, or was, has succeeded.
Inv == /\ TypeOK
       /\ ~AtMostOnce => /\ \A c \in Consumers : pc[c] = "deleting" => Current(c).msg \in done
                         /\ Deleted \subseteq done

\* The workers start in the invariant.
LEMMA InitInv == Init => Inv
BY DEF Init, Inv, TypeOK, Deleted, Down, Busy

\* An abandoned batch is a batch.
LEMMA EmptyBatch == <<>> \in Seq([msg : Messages, receipt : Nat])
BY EmptySeq

\* The current message of a busy worker, and what is behind it.
LEMMA BatchFacts ==
    ASSUME TypeOK, NEW c \in Consumers, pc[c] \in Busy
    PROVE  /\ Current(c) \in [msg : Messages, receipt : Nat]
           /\ Tail(batch[c]) \in Seq([msg : Messages, receipt : Nat])
           /\ Tail(batch[c]) # <<>> <=> Len(batch[c]) # 1
<1> DEFINE S == [msg : Messages, receipt : Nat]
<1>1. batch[c] \in Seq(S) /\ batch[c] # <<>>
  BY DEF TypeOK
<1> HIDE DEF S
<1>2. /\ Head(batch[c]) \in S /\ Tail(batch[c]) \in Seq(S)
      /\ Len(Tail(batch[c])) = Len(batch[c]) - 1
  BY <1>1, HeadTailProperties
<1>3. Tail(batch[c]) = <<>> <=> Len(Tail(batch[c])) = 0
  BY <1>2, EmptySeq
<1>4. Len(batch[c]) \in Nat
  BY <1>1, LenProperties
<1> QED
  BY <1>2, <1>3, <1>4 DEF Current, S

\* The loop's step to the next message.
LEMMA AdvanceFacts ==
    ASSUME TypeOK, NEW c \in Consumers, pc[c] \in Busy, Advance(c)
    PROVE  /\ pc' \in [Consumers -> Down \cup Busy \cup {"polling"}]
           /\ batch' \in [Consumers -> Seq([msg : Messages, receipt : Nat])]
           /\ \A d \in Consumers : batch'[d] # <<>> <=> pc'[d] \in Busy
           /\ \A d \in Consumers : pc'[d] = "deleting" => d # c
           /\ \A d \in Consumers : d # c => pc'[d] = pc[d] /\ batch'[d] = batch[d]
<1>1. pc'[c] = IF Len(batch[c]) = 1 THEN "polling" ELSE "handling"
  BY DEF TypeOK, Advance
<1>2. batch'[c] = Tail(batch[c])
  BY DEF TypeOK, Advance
<1>3. batch' \in [Consumers -> Seq([msg : Messages, receipt : Nat])]
  BY BatchFacts DEF TypeOK, Advance
<1>4. \A d \in Consumers : d # c => pc'[d] = pc[d] /\ batch'[d] = batch[d]
  BY DEF TypeOK, Advance
<1>5. batch'[c] # <<>> <=> pc'[c] \in Busy
  BY <1>1, <1>2, BatchFacts DEF Busy
<1>6. \A d \in Consumers : batch'[d] # <<>> <=> pc'[d] \in Busy
  BY <1>4, <1>5 DEF TypeOK
<1>7. pc' \in [Consumers -> Down \cup Busy \cup {"polling"}]
  BY DEF TypeOK, Advance, Busy
<1> QED
  BY <1>1, <1>3, <1>4, <1>6, <1>7

\* What is received is a batch of at least one message.
LEMMA ReceiveInv == ASSUME Inv, NEW c \in Consumers, Receive(c) PROVE Inv'
<1> DEFINE S == [msg : Messages, receipt : Nat]
<1>0. TypeOK /\ pc[c] = "polling" /\ UNCHANGED <<done, late, trouble>>
      /\ pc' = [pc EXCEPT ![c] = "handling"]
  BY DEF Inv, Receive
<1>1. PICK n \in 1 .. MaxBatch :
        \E got \in [1 .. n -> {m \in Messages : where[m] = "queue" /\ receives[m] < MaxReceives}] :
          /\ LET Got == {got[i] : i \in 1 .. n} IN
             /\ receives' = [m \in Messages |-> IF m \in Got THEN receives[m] + 1 ELSE receives[m]]
             /\ where' = [m \in Messages |-> IF m \in Got THEN "hidden" ELSE where[m]]
          /\ batch' = [batch EXCEPT ![c] =
                          [i \in 1 .. n |-> [msg |-> got[i], receipt |-> receives[got[i]] + 1]]]
  BY DEF Receive
<1>2. PICK got \in [1 .. n -> {m \in Messages : where[m] = "queue" /\ receives[m] < MaxReceives}] :
          /\ LET Got == {got[i] : i \in 1 .. n} IN
             /\ receives' = [m \in Messages |-> IF m \in Got THEN receives[m] + 1 ELSE receives[m]]
             /\ where' = [m \in Messages |-> IF m \in Got THEN "hidden" ELSE where[m]]
          /\ batch' = [batch EXCEPT ![c] =
                          [i \in 1 .. n |-> [msg |-> got[i], receipt |-> receives[got[i]] + 1]]]
  BY <1>1
<1> DEFINE new == [i \in 1 .. n |-> [msg |-> got[i], receipt |-> receives[got[i]] + 1]]
<1>3. n \in Nat \ {0}
  BY BoundsAssumption
<1>4. \A i \in 1 .. n : [msg |-> got[i], receipt |-> receives[got[i]] + 1] \in S
  BY <1>0 DEF TypeOK
<1>5. new \in Seq(S) /\ new # <<>>
  <2>1. new \in [1 .. n -> S]
    BY <1>4
  <2>2. new \in Seq(S)
    BY <2>1, <1>3
  <2>3. DOMAIN new = 1 .. n /\ 1 \in 1 .. n
    BY <1>3
  <2>4. DOMAIN <<>> = {}
    OBVIOUS
  <2> QED
    BY <2>2, <2>3, <2>4
<1>6. TypeOK'
  <2> HIDE DEF new, S
  <2>1. batch' = [batch EXCEPT ![c] = new]
    BY <1>2 DEF new
  <2>2. batch' \in [Consumers -> Seq(S)]
    BY <2>1, <1>5, <1>0 DEF TypeOK, S
  <2>3. pc' \in [Consumers -> Down \cup Busy \cup {"polling"}]
    BY <1>0 DEF TypeOK, Busy
  <2>4. \A d \in Consumers : batch'[d] # <<>> <=> pc'[d] \in Busy
    BY <2>1, <1>5, <1>0 DEF TypeOK, Busy
  <2>5. where' \in [Messages -> {"queue", "hidden", "deleted", "dead"}] /\ receives' \in [Messages -> Nat]
    BY <1>2, <1>0 DEF TypeOK
  <2> QED
    BY <2>2, <2>3, <2>4, <2>5, <1>0 DEF TypeOK, S
<1>7. \A d \in Consumers : pc'[d] = "deleting" => pc[d] = "deleting" /\ batch'[d] = batch[d]
  BY <1>0, <1>2 DEF TypeOK
<1>8. Deleted' \subseteq Deleted
  BY <1>2 DEF Deleted
<1> QED
  BY <1>0, <1>6, <1>7, <1>8 DEF Inv, Current

\* A message goes on to be deleted only with a success.
LEMMA HandledInv ==
    ASSUME Inv, NEW c \in Consumers, NEW outcome \in Outcomes, Handled(c, outcome)
    PROVE  Inv'
<1> DEFINE m == Current(c).msg
<1>0. /\ TypeOK /\ pc[c] = "handling" /\ pc[c] \in Busy /\ UNCHANGED <<where, receives, late, trouble>>
      /\ done' = IF outcome \in Successes THEN done \cup {m} ELSE done
  BY DEF Inv, Handled, Busy
<1>1. m \in Messages
  BY <1>0, BatchFacts
<1> HIDE DEF m
<1>2. done \subseteq done' /\ done' \subseteq Messages
  BY <1>0, <1>1 DEF TypeOK
<1>3. Deleted' = Deleted
  BY <1>0 DEF Deleted
<1>4. CASE outcome = "raised"
  <2>1. pc' = [pc EXCEPT ![c] = "raised"] /\ batch' = [batch EXCEPT ![c] = <<>>]
    BY <1>4 DEF Handled
  <2>2. batch' \in [Consumers -> Seq([msg : Messages, receipt : Nat])]
    BY <2>1, <1>0, EmptyBatch DEF TypeOK
  <2>3. \A d \in Consumers : batch'[d] # <<>> <=> pc'[d] \in Busy
    BY <2>1, <1>0 DEF TypeOK, Busy
  <2>4. pc' \in [Consumers -> Down \cup Busy \cup {"polling"}]
    BY <2>1, <1>0 DEF TypeOK, Down
  <2>5. TypeOK'
    BY <2>2, <2>3, <2>4, <1>0, <1>2 DEF TypeOK
  <2>6. \A d \in Consumers : pc'[d] = "deleting" => pc[d] = "deleting" /\ batch'[d] = batch[d]
    BY <2>1, <1>0 DEF TypeOK
  <2> QED
    BY <2>5, <2>6, <1>2, <1>3 DEF Inv, Current
<1>5. CASE outcome # "raised" /\ Acknowledges(outcome)
  <2>1. pc' = [pc EXCEPT ![c] = "deleting"] /\ batch' = batch
    BY <1>5 DEF Handled
  <2>2. \A d \in Consumers : batch'[d] # <<>> <=> pc'[d] \in Busy
    BY <2>1, <1>0 DEF TypeOK, Busy
  <2>3. pc' \in [Consumers -> Down \cup Busy \cup {"polling"}]
    BY <2>1, <1>0 DEF TypeOK, Busy
  <2>4. TypeOK'
    BY <2>1, <2>2, <2>3, <1>0, <1>2 DEF TypeOK
  <2>5. ~AtMostOnce => m \in done'
    BY <1>0, <1>5 DEF Acknowledges
  <2>6. ~AtMostOnce => \A d \in Consumers : pc'[d] = "deleting" => Head(batch'[d]).msg \in done'
    <3> SUFFICES ASSUME ~AtMostOnce, NEW d \in Consumers, pc'[d] = "deleting"
                 PROVE  Head(batch'[d]).msg \in done'
      OBVIOUS
    <3>1. CASE d = c
      BY <3>1, <2>1, <2>5 DEF m, Current
    <3>2. CASE d # c
      <4>1. pc[d] = "deleting"
        BY <3>2, <2>1, <1>0 DEF TypeOK
      <4> QED
        BY <4>1, <2>1, <1>2 DEF Inv, Current
    <3> QED
      BY <3>1, <3>2
  <2> QED
    BY <2>4, <2>6, <1>2, <1>3 DEF Inv, Current
<1>6. CASE outcome # "raised" /\ ~Acknowledges(outcome)
  <2>1. Advance(c)
    BY <1>6 DEF Handled
  <2>2. TypeOK'
    BY <2>1, <1>0, <1>2, AdvanceFacts DEF TypeOK
  <2>3. \A d \in Consumers : pc'[d] = "deleting" => pc[d] = "deleting" /\ batch'[d] = batch[d]
    BY <2>1, <1>0, AdvanceFacts
  <2> QED
    BY <2>2, <2>3, <1>2, <1>3 DEF Inv, Current
<1> QED
  BY <1>4, <1>5, <1>6

\* delete_message removes the worker's current message and no other.
LEMMA DeleteInv == ASSUME Inv, NEW c \in Consumers, Delete(c) PROVE Inv'
<1> DEFINE m == Current(c).msg
<1>0. /\ TypeOK /\ pc[c] = "deleting" /\ pc[c] \in Busy /\ Advance(c)
      /\ UNCHANGED <<receives, done, late, trouble>>
      /\ where' = where \/ where' = [where EXCEPT ![m] = "deleted"]
  BY DEF Inv, Delete, Busy
<1>1. m \in Messages
  BY <1>0, BatchFacts
<1>2. ~AtMostOnce => m \in done
  BY <1>0 DEF Inv
<1> HIDE DEF m
<1>3. where' \in [Messages -> {"queue", "hidden", "deleted", "dead"}]
  BY <1>0, <1>1 DEF TypeOK
<1>4. TypeOK'
  BY <1>0, <1>3, AdvanceFacts DEF TypeOK
<1>5. Deleted' \subseteq Deleted \cup {m}
  BY <1>0, <1>1 DEF Deleted, TypeOK
<1>6. \A d \in Consumers : pc'[d] = "deleting" => pc[d] = "deleting" /\ batch'[d] = batch[d]
  BY <1>0, AdvanceFacts
<1> QED
  BY <1>0, <1>2, <1>4, <1>5, <1>6 DEF Inv, Current

\* The other steps of a worker delete nothing.
LEMMA WorkerInv ==
    ASSUME Inv, NEW c \in Consumers, Start(c) \/ Stop(c) \/ Crash(c) PROVE Inv'
<1>0. /\ TypeOK /\ UNCHANGED <<where, receives, done>>
      /\ \E k \in Down \cup {"polling"} : pc' = [pc EXCEPT ![c] = k]
      /\ (batch' = batch /\ pc[c] \notin Busy) \/ batch' = [batch EXCEPT ![c] = <<>>]
  BY DEF Inv, Start, Stop, Crash, Down, Busy
<1>1. Held(c) \subseteq Messages
  <2>1. batch[c] \in Seq([msg : Messages, receipt : Nat])
    BY <1>0 DEF TypeOK
  <2>2. \A i \in DOMAIN batch[c] : batch[c][i] \in [msg : Messages, receipt : Nat]
    BY <2>1, LenProperties, ElementOfSeq, Zenon
  <2> QED
    BY <2>2 DEF Held
<1>2. late' \subseteq Messages
  BY <1>0, <1>1 DEF TypeOK, Start, Stop, Crash
<1>3. pc' \in [Consumers -> Down \cup Busy \cup {"polling"}]
  BY <1>0 DEF TypeOK
<1>4. batch' \in [Consumers -> Seq([msg : Messages, receipt : Nat])]
  BY <1>0, EmptyBatch DEF TypeOK
<1>5. \A d \in Consumers : batch'[d] # <<>> <=> pc'[d] \in Busy
  <2>1. pc'[c] \notin Busy /\ batch'[c] = <<>>
    BY <1>0 DEF TypeOK, Down, Busy
  <2>2. \A d \in Consumers : d # c => pc'[d] = pc[d] /\ batch'[d] = batch[d]
    BY <1>0 DEF TypeOK
  <2> QED
    BY <2>1, <2>2, <1>0 DEF TypeOK
<1>6. TypeOK'
  BY <1>0, <1>2, <1>3, <1>4, <1>5 DEF TypeOK
<1>7. \A d \in Consumers : pc'[d] = "deleting" => pc[d] = "deleting" /\ batch'[d] = batch[d]
  BY <1>0 DEF TypeOK, Down
<1> QED
  BY <1>0, <1>6, <1>7 DEF Inv, Current, Deleted

\* Neither the visibility timeout nor the redrive policy deletes anything.
LEMMA QueueInv == ASSUME Inv, NEW m \in Messages, Expire(m) \/ Redrive(m) PROVE Inv'
<1>1. /\ TypeOK /\ UNCHANGED <<pc, batch, receives, done>>
      /\ where' = [where EXCEPT ![m] = "queue"] \/ where' = [where EXCEPT ![m] = "dead"]
      /\ late' \subseteq late \cup {m}
  BY DEF Inv, Expire, Redrive
<1>2. TypeOK'
  BY <1>1 DEF TypeOK
<1>3. Deleted' \subseteq Deleted
  BY <1>1 DEF Deleted, TypeOK
<1> QED
  BY <1>1, <1>2, <1>3 DEF Inv, Current

\* The invariant is inductive.
LEMMA NextInv == Inv /\ [Next]_vars => Inv'
<1> SUFFICES ASSUME Inv, [Next]_vars PROVE Inv'
  OBVIOUS
<1>1. CASE UNCHANGED vars
  BY <1>1 DEF vars, Inv, TypeOK, Deleted, Current
<1> QED
  BY <1>1, ReceiveInv, HandledInv, DeleteInv, WorkerInv, QueueInv DEF Next

\* For any workers and queue, through crashes, expired receipts and redrives: only
\* messages that have succeeded are deleted, and they stay deleted.
THEOREM SqsImplementsAtLeastOnce == ASSUME ~AtMostOnce PROVE Spec => AtLeastOnceSpec
<1>1. Init => Promise!Init
  BY DEF Init, Promise!Init, Deleted
<1>2. Inv /\ Inv' /\ [Next]_vars => [Promise!Next]_Promise!vars
  <2> SUFFICES ASSUME Inv, Inv', [Next]_vars
               PROVE  Promise!Next \/ (done' = done /\ Deleted' = Deleted)
    BY DEF Promise!vars
  <2>1. ASSUME NEW c \in Consumers, NEW outcome \in Outcomes, Handled(c, outcome)
        PROVE  Promise!Next \/ (done' = done /\ Deleted' = Deleted)
    <3>1. Current(c).msg \in Messages
      BY <2>1, BatchFacts DEF Handled, Inv, Busy
    <3>2. Deleted' = Deleted
      BY <2>1 DEF Handled, Deleted
    <3>3. done' = done \/ done' = done \cup {Current(c).msg}
      BY <2>1 DEF Handled
    <3> QED
      BY <3>1, <3>2, <3>3 DEF Promise!Next, Promise!HandleOne
  <2>2. ASSUME NEW c \in Consumers, Delete(c) PROVE Promise!Next
    <3>1. done' = done /\ Deleted' \subseteq done
      BY <2>2 DEF Delete, Inv
    <3>2. Deleted \subseteq Deleted'
      BY <2>2 DEF Delete, Deleted, Inv, TypeOK
    <3> QED
      BY <3>1, <3>2 DEF Promise!Next, Promise!Settle
  <2>3. ASSUME NEW c \in Consumers, Receive(c) PROVE done' = done /\ Deleted' = Deleted
    BY <2>3 DEF Receive, Deleted
  <2>4. ASSUME NEW m \in Messages, Expire(m) \/ Redrive(m) PROVE done' = done /\ Deleted' = Deleted
    BY <2>4 DEF Expire, Redrive, Deleted, Inv, TypeOK
  <2>5. CASE UNCHANGED <<done, where>>
    BY <2>5 DEF Deleted
  <2> QED
    BY <2>1, <2>2, <2>3, <2>4, <2>5 DEF Next, vars, Start, Stop, Crash
<1> QED
  BY <1>1, <1>2, InitInv, NextInv, PTL DEF Spec, AtLeastOnceSpec, Promise!Spec

-----------------------------------------------------------------------------
(* Redelivery.                                                               *)

\* Until somebody is late with it, a message in a batch is hidden from the others,
\* and the receipt in the batch is its latest.
Fresh ==
    \A c \in Consumers : \A i \in DOMAIN batch[c] :
        batch[c][i].msg \notin late => /\ where[batch[c][i].msg] = "hidden"
                                       /\ batch[c][i].receipt = receives[batch[c][i].msg]

\* Until then it is in one batch only, once.
HeldOnce ==
    \A c, d \in Consumers : \A i \in DOMAIN batch[c], j \in DOMAIN batch[d] :
        batch[c][i].msg = batch[d][j].msg /\ batch[c][i].msg \notin late => c = d /\ i = j

\* A success is deleted, or its worker is about to delete it, unless somebody was late.
SuccessIsDeleted ==
    \A m \in done : m \in late \/ where[m] = "deleted"
                    \/ \E c \in Consumers : pc[c] = "deleting" /\ Current(c).msg = m

CauseInv == Inv /\ Fresh /\ HeldOnce /\ SuccessIsDeleted

\* The places of a batch hold messages, and a busy worker's first one is its current.
LEMMA PlaceFacts ==
    ASSUME TypeOK, NEW c \in Consumers
    PROVE  /\ DOMAIN batch[c] \subseteq Nat
           /\ \A i \in DOMAIN batch[c] : batch[c][i] \in [msg : Messages, receipt : Nat]
           /\ pc[c] \in Busy => 1 \in DOMAIN batch[c] /\ Current(c) = batch[c][1]
<1> DEFINE S == [msg : Messages, receipt : Nat]
<1>1. batch[c] \in Seq(S)
  BY DEF TypeOK
<1> HIDE DEF S
<1>2. /\ Len(batch[c]) \in Nat /\ DOMAIN batch[c] = 1 .. Len(batch[c])
      /\ \A i \in 1 .. Len(batch[c]) : batch[c][i] \in S
  BY <1>1, LenProperties
<1>3. pc[c] \in Busy => batch[c] # <<>>
  BY DEF TypeOK
<1>4. batch[c] # <<>> => Len(batch[c]) # 0
  BY <1>1, EmptySeq
<1>5. Head(batch[c]) = batch[c][1]
  BY <1>1
<1> QED
  BY <1>2, <1>3, <1>4, <1>5 DEF Current, S

\* A message that is done, and with which nobody was late, is not back.
LEMMA CauseImplies == CauseInv => RedeliveredWithCause
<1> SUFFICES ASSUME CauseInv, NEW m \in done, m \notin late
             PROVE  where[m] \notin {"queue", "dead"}
  BY DEF CauseInv, Inv, RedeliveredWithCause, OnlyLateRedelivered
<1>1. CASE where[m] = "deleted"
  BY <1>1
<1>2. ASSUME NEW c \in Consumers, pc[c] = "deleting", Current(c).msg = m
      PROVE  where[m] = "hidden"
  <2>1. 1 \in DOMAIN batch[c] /\ Current(c) = batch[c][1]
    BY <1>2, PlaceFacts DEF CauseInv, Inv, Busy
  <2> QED
    BY <2>1, <1>2 DEF CauseInv, Fresh
<1> QED
  BY <1>1, <1>2 DEF CauseInv, SuccessIsDeleted

\* Steps that take messages out of batches, at the front or all of them.
LEMMA ShrinkKeeps ==
    ASSUME TypeOK, Fresh, HeldOnce, late \subseteq late', receives' = receives,
           \A d \in Consumers : \E k \in {0, 1} : \A i \in DOMAIN batch'[d] :
               i + k \in DOMAIN batch[d] /\ i \in Nat /\ batch'[d][i] = batch[d][i + k],
           \A d \in Consumers : \A i \in DOMAIN batch'[d] :
               batch'[d][i].msg \notin late' /\ where[batch'[d][i].msg] = "hidden"
               => where'[batch'[d][i].msg] = "hidden"
    PROVE  Fresh' /\ HeldOnce'
<1>1. Fresh'
  <2> SUFFICES ASSUME NEW c \in Consumers, NEW i \in DOMAIN batch'[c], batch'[c][i].msg \notin late'
               PROVE  /\ where'[batch'[c][i].msg] = "hidden"
                      /\ batch'[c][i].receipt = receives'[batch'[c][i].msg]
    BY DEF Fresh
  <2>1. PICK j \in DOMAIN batch[c] : batch'[c][i] = batch[c][j]
    OBVIOUS
  <2> QED
    BY <2>1 DEF Fresh
<1>2. HeldOnce'
  <2> SUFFICES ASSUME NEW c \in Consumers, NEW d \in Consumers,
                      NEW i \in DOMAIN batch'[c], NEW j \in DOMAIN batch'[d],
                      batch'[c][i].msg = batch'[d][j].msg, batch'[c][i].msg \notin late'
               PROVE  c = d /\ i = j
    BY DEF HeldOnce
  <2>1. PICK k \in {0, 1} : \A x \in DOMAIN batch'[c] :
          x + k \in DOMAIN batch[c] /\ x \in Nat /\ batch'[c][x] = batch[c][x + k]
    OBVIOUS
  <2>2. PICK l \in {0, 1} : \A x \in DOMAIN batch'[d] :
          x + l \in DOMAIN batch[d] /\ x \in Nat /\ batch'[d][x] = batch[d][x + l]
    OBVIOUS
  <2>3. c = d /\ i + k = j + l
    BY <2>1, <2>2 DEF HeldOnce
  <2>4. batch'[c][j] = batch[c][j + k] /\ j + k \in DOMAIN batch[c] /\ i \in Nat /\ j \in Nat
    BY <2>1, <2>2, <2>3
  <2>5. i + k = j + k
    BY <2>1, <2>3, <2>4 DEF HeldOnce
  <2> QED
    BY <2>3, <2>4, <2>5
<1> QED
  BY <1>1, <1>2

\* What becomes of the batches when a worker goes on, gives up or dies.
LEMMA ShrinkShape ==
    ASSUME TypeOK, NEW c \in Consumers,
           batch' = batch \/ batch' = [batch EXCEPT ![c] = <<>>]
           \/ (pc[c] \in Busy /\ batch' = [batch EXCEPT ![c] = Tail(@)])
    PROVE  /\ \A d \in Consumers : \E k \in {0, 1} : \A i \in DOMAIN batch'[d] :
                 i + k \in DOMAIN batch[d] /\ i \in Nat /\ batch'[d][i] = batch[d][i + k]
           /\ pc[c] \in Busy /\ batch' = [batch EXCEPT ![c] = Tail(@)] =>
                 \A i \in DOMAIN batch'[c] :
                     i + 1 \in DOMAIN batch[c] /\ i + 1 # 1 /\ batch'[c][i] = batch[c][i + 1]
<1>1. \A d \in Consumers : batch'[d] = batch[d] => \A i \in DOMAIN batch'[d] :
        i + 0 \in DOMAIN batch[d] /\ i \in Nat /\ batch'[d][i] = batch[d][i + 0]
  <2> SUFFICES ASSUME NEW d \in Consumers, batch'[d] = batch[d], NEW i \in DOMAIN batch[d]
               PROVE  i + 0 \in DOMAIN batch[d] /\ i \in Nat /\ batch'[d][i] = batch[d][i + 0]
    OBVIOUS
  <2>1. i \in Nat
    BY PlaceFacts
  <2>2. i + 0 = i
    BY <2>1
  <2> QED
    BY <2>1, <2>2
<1>2. ASSUME pc[c] \in Busy, batch'[c] = Tail(batch[c]), NEW i \in DOMAIN batch'[c]
      PROVE  i + 1 \in DOMAIN batch[c] /\ i \in Nat /\ i + 1 # 1 /\ batch'[c][i] = batch[c][i + 1]
  <2> DEFINE S == [msg : Messages, receipt : Nat]
  <2>1. batch[c] \in Seq(S) /\ batch[c] # <<>>
    BY <1>2 DEF TypeOK
  <2> HIDE DEF S
  <2>2. /\ Tail(batch[c]) \in Seq(S) /\ Len(Tail(batch[c])) = Len(batch[c]) - 1
        /\ \A x \in 1 .. Len(Tail(batch[c])) : Tail(batch[c])[x] = batch[c][x + 1]
    BY <2>1, HeadTailProperties
  <2>3. Len(batch[c]) \in Nat /\ DOMAIN batch[c] = 1 .. Len(batch[c])
        /\ DOMAIN Tail(batch[c]) = 1 .. Len(Tail(batch[c]))
    BY <2>1, <2>2, LenProperties
  <2> QED
    BY <2>2, <2>3, <1>2
<1>3. batch'[c] = <<>> => DOMAIN batch'[c] = {}
  OBVIOUS
<1>4. \A d \in Consumers : d # c => batch'[d] = batch[d]
  BY DEF TypeOK
<1>5. batch'[c] = batch[c] \/ batch'[c] = <<>> \/ (pc[c] \in Busy /\ batch'[c] = Tail(batch[c]))
  BY DEF TypeOK
<1>6. \A d \in Consumers : \E k \in {0, 1} : \A i \in DOMAIN batch'[d] :
                 i + k \in DOMAIN batch[d] /\ i \in Nat /\ batch'[d][i] = batch[d][i + k]
  <2> SUFFICES ASSUME NEW d \in Consumers
               PROVE  \E k \in {0, 1} : \A i \in DOMAIN batch'[d] :
                        i + k \in DOMAIN batch[d] /\ i \in Nat /\ batch'[d][i] = batch[d][i + k]
    OBVIOUS
  <2>1. CASE batch'[d] = batch[d]
    BY <2>1, <1>1
  <2>2. CASE d = c /\ batch'[d] = <<>>
    BY <2>2, <1>3
  <2>3. CASE d = c /\ pc[c] \in Busy /\ batch'[c] = Tail(batch[c])
    BY <2>3, <1>2
  <2> QED
    BY <2>1, <2>2, <2>3, <1>4, <1>5
<1>7. batch' = [batch EXCEPT ![c] = Tail(@)] => batch'[c] = Tail(batch[c])
  BY DEF TypeOK
<1> QED
  BY <1>2, <1>6, <1>7

\* The workers start with empty batches.
LEMMA InitCause == Init => CauseInv
BY InitInv DEF Init, CauseInv, Fresh, HeldOnce, SuccessIsDeleted

\* A received message is new to everybody, or somebody was late with it before.
LEMMA ReceiveCause == ASSUME CauseInv, NEW c \in Consumers, Receive(c) PROVE CauseInv'
<1>0. /\ TypeOK /\ Inv' /\ pc[c] = "polling" /\ UNCHANGED <<done, late, trouble>>
      /\ pc' = [pc EXCEPT ![c] = "handling"]
  BY ReceiveInv DEF CauseInv, Inv, Receive
<1>1. PICK n \in 1 .. MaxBatch :
        \E got \in [1 .. n -> {m \in Messages : where[m] = "queue" /\ receives[m] < MaxReceives}] :
          /\ \A i, j \in 1 .. n : got[i] = got[j] => i = j
          /\ LET Got == {got[i] : i \in 1 .. n} IN
             /\ receives' = [m \in Messages |-> IF m \in Got THEN receives[m] + 1 ELSE receives[m]]
             /\ where' = [m \in Messages |-> IF m \in Got THEN "hidden" ELSE where[m]]
          /\ batch' = [batch EXCEPT ![c] =
                          [i \in 1 .. n |-> [msg |-> got[i], receipt |-> receives[got[i]] + 1]]]
  BY DEF Receive
<1>2. PICK got \in [1 .. n -> {m \in Messages : where[m] = "queue" /\ receives[m] < MaxReceives}] :
          /\ \A i, j \in 1 .. n : got[i] = got[j] => i = j
          /\ LET Got == {got[i] : i \in 1 .. n} IN
             /\ receives' = [m \in Messages |-> IF m \in Got THEN receives[m] + 1 ELSE receives[m]]
             /\ where' = [m \in Messages |-> IF m \in Got THEN "hidden" ELSE where[m]]
          /\ batch' = [batch EXCEPT ![c] =
                          [i \in 1 .. n |-> [msg |-> got[i], receipt |-> receives[got[i]] + 1]]]
  BY <1>1
<1> DEFINE Got == {got[i] : i \in 1 .. n}
<1>3. /\ \A m \in Messages : where'[m] = (IF m \in Got THEN "hidden" ELSE where[m])
      /\ \A m \in Messages : receives'[m] = (IF m \in Got THEN receives[m] + 1 ELSE receives[m])
  BY <1>2
<1>4. \A m \in Got : m \in Messages /\ where[m] = "queue"
  OBVIOUS
<1>5. /\ DOMAIN batch'[c] = 1 .. n
      /\ \A i \in 1 .. n : /\ batch'[c][i].msg = got[i] /\ got[i] \in Got
                           /\ batch'[c][i].receipt = receives[got[i]] + 1
  BY <1>2, <1>0 DEF TypeOK
<1>6. \A d \in Consumers : d # c => batch'[d] = batch[d] /\ pc'[d] = pc[d]
  BY <1>2, <1>0 DEF TypeOK
<1>7. \A d \in Consumers : \A i \in DOMAIN batch[d] :
         batch[d][i].msg \in Messages /\ (batch[d][i].msg \notin late => batch[d][i].msg \notin Got)
  BY <1>0, <1>4, PlaceFacts DEF CauseInv, Fresh
<1> HIDE DEF Got
<1>8. Fresh'
  <2> SUFFICES ASSUME NEW d \in Consumers, NEW i \in DOMAIN batch'[d], batch'[d][i].msg \notin late
               PROVE  /\ where'[batch'[d][i].msg] = "hidden"
                      /\ batch'[d][i].receipt = receives'[batch'[d][i].msg]
    BY <1>0 DEF Fresh
  <2>1. CASE d = c
    BY <2>1, <1>3, <1>4, <1>5
  <2>2. CASE d # c
    BY <2>2, <1>3, <1>6, <1>7 DEF CauseInv, Fresh
  <2> QED
    BY <2>1, <2>2
<1>9. HeldOnce'
  <2> SUFFICES ASSUME NEW a \in Consumers, NEW b \in Consumers,
                      NEW i \in DOMAIN batch'[a], NEW j \in DOMAIN batch'[b],
                      batch'[a][i].msg = batch'[b][j].msg, batch'[a][i].msg \notin late
               PROVE  a = b /\ i = j
    BY <1>0 DEF HeldOnce
  <2>1. CASE a = c /\ b = c
    <3>1. i \in 1 .. n /\ j \in 1 .. n /\ got[i] = got[j]
      BY <2>1, <1>5
    <3> QED
      BY <2>1, <3>1, <1>2
  <2>2. CASE a = c /\ b # c
    BY <2>2, <1>5, <1>6, <1>7
  <2>3. CASE a # c /\ b = c
    BY <2>3, <1>5, <1>6, <1>7
  <2>4. CASE a # c /\ b # c
    BY <2>4, <1>6 DEF CauseInv, HeldOnce
  <2> QED
    BY <2>1, <2>2, <2>3, <2>4
<1>10. SuccessIsDeleted'
  <2> SUFFICES ASSUME NEW m \in done, m \notin late
               PROVE  where'[m] = "deleted"
                      \/ \E d \in Consumers : pc'[d] = "deleting" /\ Head(batch'[d]).msg = m
    BY <1>0 DEF SuccessIsDeleted, Current
  <2>1. CASE where[m] = "deleted"
    BY <2>1, <1>0, <1>3, <1>4 DEF TypeOK
  <2>2. ASSUME NEW d \in Consumers, pc[d] = "deleting", Head(batch[d]).msg = m
        PROVE  pc'[d] = "deleting" /\ Head(batch'[d]).msg = m
    BY <2>2, <1>0, <1>6
  <2> QED
    BY <2>1, <2>2 DEF CauseInv, SuccessIsDeleted, Current
<1> QED
  BY <1>0, <1>8, <1>9, <1>10 DEF CauseInv

\* A step that moves no message and shrinks batches keeps Fresh and HeldOnce.
LEMMA StillKeeps ==
    ASSUME CauseInv, NEW c \in Consumers, late \subseteq late', receives' = receives, where' = where,
           batch' = batch \/ batch' = [batch EXCEPT ![c] = <<>>]
           \/ (pc[c] \in Busy /\ batch' = [batch EXCEPT ![c] = Tail(@)])
    PROVE  Fresh' /\ HeldOnce'
<1>0. TypeOK /\ Fresh /\ HeldOnce
  BY DEF CauseInv, Inv
<1> QED
  BY <1>0, ShrinkKeeps, ShrinkShape

\* A success goes on to be deleted; whatever else happens, nothing that has succeeded
\* is dropped.
LEMMA HandledCause ==
    ASSUME CauseInv, NEW c \in Consumers, NEW outcome \in Outcomes, Handled(c, outcome)
    PROVE  CauseInv'
<1>0. /\ TypeOK /\ Inv' /\ pc[c] = "handling" /\ pc[c] \in Busy
      /\ UNCHANGED <<where, receives, late, trouble>>
      /\ done' = IF outcome \in Successes THEN done \cup {Current(c).msg} ELSE done
  BY HandledInv DEF CauseInv, Inv, Handled, Busy
<1>1. batch' = batch \/ batch' = [batch EXCEPT ![c] = <<>>] \/ batch' = [batch EXCEPT ![c] = Tail(@)]
  BY DEF Handled, Advance
<1>2. Fresh' /\ HeldOnce'
  BY <1>0, <1>1, StillKeeps
<1>3. \A d \in Consumers : d # c => batch'[d] = batch[d] /\ pc'[d] = pc[d]
  BY <1>0, <1>1 DEF TypeOK, Handled, Advance
<1>4. outcome \in Successes => pc'[c] = "deleting" /\ batch' = batch
  BY <1>0 DEF Handled, Acknowledges, Successes, TypeOK
<1>5. SuccessIsDeleted'
  <2> SUFFICES ASSUME NEW m \in done', m \notin late
               PROVE  where[m] = "deleted"
                      \/ \E d \in Consumers : pc'[d] = "deleting" /\ Head(batch'[d]).msg = m
    BY <1>0 DEF SuccessIsDeleted, Current
  <2>1. CASE m \in done
    <3>1. ASSUME NEW d \in Consumers, pc[d] = "deleting", Head(batch[d]).msg = m
          PROVE  pc'[d] = "deleting" /\ Head(batch'[d]).msg = m
      BY <3>1, <1>0, <1>3
    <3> QED
      BY <2>1, <3>1 DEF CauseInv, SuccessIsDeleted, Current
  <2>2. CASE outcome \in Successes /\ m = Head(batch[c]).msg
    BY <2>2, <1>4
  <2> QED
    BY <2>1, <2>2, <1>0 DEF Current
<1> QED
  BY <1>0, <1>2, <1>5 DEF CauseInv

\* While nobody is late, a delete takes effect, and on this worker's message only.
LEMMA DeleteCause == ASSUME CauseInv, NEW c \in Consumers, Delete(c) PROVE CauseInv'
<1> DEFINE m == Current(c).msg
<1>0. /\ TypeOK /\ Fresh /\ HeldOnce /\ Inv' /\ pc[c] = "deleting" /\ pc[c] \in Busy /\ Advance(c)
      /\ UNCHANGED <<receives, done, late, trouble>>
      /\ \/ where' = [where EXCEPT ![m] = "deleted"]
         \/ where' = where /\ (where[m] = "dead" \/ Current(c).receipt # receives[m])
  BY DeleteInv DEF CauseInv, Inv, Delete, Busy
<1>1. 1 \in DOMAIN batch[c] /\ Current(c) = batch[c][1] /\ m \in Messages
  BY <1>0, PlaceFacts
<1>2. batch' = [batch EXCEPT ![c] = Tail(@)] /\ \A d \in Consumers : d # c => batch'[d] = batch[d] /\ pc'[d] = pc[d]
  BY <1>0 DEF Advance, TypeOK
<1>3. /\ \A d \in Consumers : \E k \in {0, 1} : \A i \in DOMAIN batch'[d] :
           i + k \in DOMAIN batch[d] /\ i \in Nat /\ batch'[d][i] = batch[d][i + k]
      /\ \A i \in DOMAIN batch'[c] :
           i + 1 \in DOMAIN batch[c] /\ i + 1 # 1 /\ batch'[c][i] = batch[c][i + 1]
  BY <1>0, <1>2, ShrinkShape
<1>4. m \notin late => where' = [where EXCEPT ![m] = "deleted"]
  BY <1>0, <1>1 DEF Fresh
<1>5. \A x \in Messages : x # m => where'[x] = where[x]
  BY <1>0 DEF TypeOK
<1>6. \A d \in Consumers : \A i \in DOMAIN batch'[d] :
        batch'[d][i].msg \notin late => batch'[d][i].msg # m /\ batch'[d][i].msg \in Messages
  <2> SUFFICES ASSUME NEW d \in Consumers, NEW i \in DOMAIN batch'[d], batch'[d][i].msg \notin late
               PROVE  batch'[d][i].msg # m /\ batch'[d][i].msg \in Messages
    OBVIOUS
  <2>1. CASE d = c
    <3>1. i + 1 \in DOMAIN batch[c] /\ i + 1 # 1 /\ batch'[c][i] = batch[c][i + 1]
      BY <2>1, <1>3
    <3> QED
      BY <2>1, <3>1, <1>0, <1>1, PlaceFacts DEF HeldOnce
  <2>2. CASE d # c
    BY <2>2, <1>0, <1>1, <1>2, PlaceFacts DEF HeldOnce
  <2> QED
    BY <2>1, <2>2
<1> HIDE DEF m
<1>7. \A d \in Consumers : \A i \in DOMAIN batch'[d] :
         batch'[d][i].msg \notin late' /\ where[batch'[d][i].msg] = "hidden"
         => where'[batch'[d][i].msg] = "hidden"
  BY <1>0, <1>5, <1>6
<1>8. Fresh' /\ HeldOnce'
  BY <1>0, <1>3, <1>7, ShrinkKeeps
<1>9. SuccessIsDeleted'
  <2> SUFFICES ASSUME NEW x \in done, x \notin late
               PROVE  where'[x] = "deleted"
                      \/ \E d \in Consumers : pc'[d] = "deleting" /\ Head(batch'[d]).msg = x
    BY <1>0 DEF SuccessIsDeleted, Current
  <2>1. CASE x = m
    BY <2>1, <1>1, <1>4, <1>0 DEF TypeOK
  <2>2. CASE where[x] = "deleted"
    BY <2>2, <2>1, <1>5, <1>0 DEF TypeOK
  <2>3. ASSUME NEW d \in Consumers, pc[d] = "deleting", Head(batch[d]).msg = x, x # m
        PROVE  pc'[d] = "deleting" /\ Head(batch'[d]).msg = x
    BY <2>3, <1>2 DEF m, Current
  <2> QED
    BY <2>1, <2>2, <2>3 DEF CauseInv, SuccessIsDeleted, Current
<1> QED
  BY <1>0, <1>8, <1>9 DEF CauseInv

\* A worker that dies is late with all it holds.
LEMMA WorkerCause ==
    ASSUME CauseInv, NEW c \in Consumers, Start(c) \/ Stop(c) \/ Crash(c) PROVE CauseInv'
<1>0. /\ TypeOK /\ Inv' /\ UNCHANGED <<where, receives, done>>
      /\ late \subseteq late'
      /\ batch' = batch \/ batch' = [batch EXCEPT ![c] = <<>>]
  BY WorkerInv DEF CauseInv, Inv, Start, Stop, Crash
<1>1. Fresh' /\ HeldOnce'
  BY <1>0, StillKeeps
<1>2. pc[c] = "deleting" => Current(c).msg \in late'
  <2> SUFFICES ASSUME pc[c] = "deleting" PROVE Current(c).msg \in late'
    OBVIOUS
  <2>1. late' = late \cup Held(c)
    BY DEF Start, Stop, Crash, Down
  <2>2. 1 \in DOMAIN batch[c] /\ Current(c) = batch[c][1]
    BY <1>0, PlaceFacts DEF Busy
  <2> QED
    BY <2>1, <2>2 DEF Held
<1>3. \A d \in Consumers : d # c => batch'[d] = batch[d] /\ pc'[d] = pc[d]
  BY <1>0 DEF TypeOK, Start, Stop, Crash
<1>4. SuccessIsDeleted'
  <2> SUFFICES ASSUME NEW x \in done, x \notin late'
               PROVE  where[x] = "deleted"
                      \/ \E d \in Consumers : pc'[d] = "deleting" /\ Head(batch'[d]).msg = x
    BY <1>0 DEF SuccessIsDeleted, Current
  <2>1. ASSUME NEW d \in Consumers, pc[d] = "deleting", Head(batch[d]).msg = x
        PROVE  pc'[d] = "deleting" /\ Head(batch'[d]).msg = x
    BY <2>1, <1>2, <1>3 DEF Current
  <2> QED
    BY <1>0, <2>1 DEF CauseInv, SuccessIsDeleted, Current
<1> QED
  BY <1>0, <1>1, <1>4 DEF CauseInv

\* The visibility timeout of a held message makes its holder late; the redrive policy
\* takes only messages that are in the queue.
LEMMA QueueCause == ASSUME CauseInv, NEW m \in Messages, Expire(m) \/ Redrive(m) PROVE CauseInv'
<1>0. /\ TypeOK /\ Fresh /\ HeldOnce /\ Inv' /\ UNCHANGED <<pc, batch, receives, done>>
      /\ late \subseteq late'
      /\ \A x \in Messages : x # m => where'[x] = where[x]
  BY QueueInv DEF CauseInv, Inv, Expire, Redrive, TypeOK
<1>1. \A d \in Consumers : \A i \in DOMAIN batch[d] : batch[d][i].msg = m => m \in late'
  <2> SUFFICES ASSUME NEW d \in Consumers, NEW i \in DOMAIN batch[d], batch[d][i].msg = m
               PROVE  m \in late'
    OBVIOUS
  <2>1. CASE Expire(m)
    BY <2>1 DEF Expire, Held
  <2>2. CASE Redrive(m)
    BY <2>2, <1>0 DEF Redrive, Fresh
  <2> QED
    BY <2>1, <2>2
<1>2. \A d \in Consumers : \A i \in DOMAIN batch[d] : batch[d][i].msg \in Messages
  BY <1>0, PlaceFacts
<1>3. Fresh'
  BY <1>0, <1>1, <1>2 DEF Fresh
<1>4. HeldOnce'
  BY <1>0 DEF HeldOnce
<1>5. SuccessIsDeleted'
  <2> SUFFICES ASSUME NEW x \in done, x \notin late'
               PROVE  where'[x] = "deleted"
                      \/ \E d \in Consumers : pc[d] = "deleting" /\ Head(batch[d]).msg = x
    BY <1>0 DEF SuccessIsDeleted, Current
  <2>1. CASE where[x] = "deleted"
    BY <2>1, <1>0 DEF Expire, Redrive, TypeOK
  <2> QED
    BY <2>1, <1>0 DEF CauseInv, SuccessIsDeleted, Current
<1> QED
  BY <1>0, <1>3, <1>4, <1>5 DEF CauseInv

\* For any workers and queue: a message that has succeeded is back in the queue, or
\* dead-lettered, only if a holder of it outlived the visibility timeout or died.
THEOREM OnlyLateReturns == Spec => []RedeliveredWithCause
<1>1. CauseInv /\ [Next]_vars => CauseInv'
  <2> SUFFICES ASSUME CauseInv, [Next]_vars PROVE CauseInv'
    OBVIOUS
  <2>1. CASE UNCHANGED vars
    BY <2>1, NextInv DEF vars, CauseInv, Fresh, HeldOnce, SuccessIsDeleted, Current
  <2> QED
    BY <2>1, ReceiveCause, HandledCause, DeleteCause, WorkerCause, QueueCause DEF Next
<1> QED
  BY <1>1, InitCause, CauseImplies, PTL DEF Spec
=============================================================================
