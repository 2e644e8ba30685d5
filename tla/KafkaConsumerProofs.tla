------------------------- MODULE KafkaConsumerProofs -------------------------
(***************************************************************************)
(* For any consumers, partitions, log and content: with stop_on_failure    *)
(* and without at_most_once the group loses no record, keeps each          *)
(* partition's order and implements AtLeastOnce.                           *)
(***************************************************************************)
EXTENDS KafkaConsumer, TLAPS

Holding(c) == pc[c] \in {"handling", "committing"}
DoneBelow(p, n) == \A q \in 0 .. n - 1 : <<p, q>> \in done

\* Within one ownership commits are sent in the order of their offsets, between
\* the committed offset and the position.
CommitsOrdered ==
    \A p \in Partitions :
        /\ committed[p] <= position[p]
        /\ \A o \in inflight[p] : committed[p] <= o /\ o <= position[p]

\* The record an owner has in hand is the last one polled from its partition.
HandIsLast ==
    \A c \in Consumers, p \in Partitions, o \in Offsets :
        Holding(c) /\ record[c] = <<p, o>> /\ owner[p] = c => position[p] = o + 1

\* Whatever is committed, or about to be, ends with a success.
EndsWithSuccess ==
    /\ \A c \in Consumers : pc[c] = "committing" => record[c] \in done
    /\ \A p \in Partitions :
          /\ committed[p] > 0 => <<p, committed[p] - 1>> \in done
          /\ \A o \in inflight[p] : o > 0 /\ <<p, o - 1>> \in done

\* Behind everything that is committed, about to be committed, in hand or polled,
\* each record has succeeded, but for the one the owner is still handling.
PrefixDone ==
    /\ \A p \in Partitions : DoneBelow(p, committed[p])
    /\ \A p \in Partitions : \A o \in inflight[p] : DoneBelow(p, o)
    /\ \A c \in Consumers, p \in Partitions, o \in Offsets :
          Holding(c) /\ record[c] = <<p, o>> => DoneBelow(p, o)
    /\ \A c \in Consumers, p \in Partitions : owner[p] = c =>
          \A q \in 0 .. position[p] - 1 :
              <<p, q>> \in done \/ (pc[c] = "handling" /\ record[c] = <<p, q>>)
    /\ \A p \in Partitions, o \in Offsets : <<p, o>> \in done => DoneBelow(p, o)

Inv == /\ TypeOK
       /\ CommitsOrdered
       /\ HandIsLast
       /\ ~AtMostOnce => EndsWithSuccess
       /\ AtLeastOnceMode => PrefixDone

-----------------------------------------------------------------------------
\* The group starts in the invariant.
LEMMA InitInv == Init => Inv
<1> SUFFICES ASSUME Init PROVE Inv
  OBVIOUS
<1> USE DEF Init
<1>1. TypeOK
  BY LogAssumption, TroubleAssumption DEF TypeOK, Running, Down
<1>2. CommitsOrdered
  BY DEF CommitsOrdered
<1>3. HandIsLast
  BY DEF HandIsLast, Holding
<1>4. EndsWithSuccess
  BY DEF EndsWithSuccess
<1>5. PrefixDone
  BY NobodyAssumption DEF PrefixDone, DoneBelow, Holding
<1> QED
  BY <1>1, <1>2, <1>3, <1>4, <1>5 DEF Inv

\* A consumer that leaves the group takes only its own claims with it.
LEMMA LeaveInv ==
    ASSUME Inv, NEW c \in Consumers, NEW how \in Down, Leave(c, how),
           UNCHANGED <<done, stop_on_failure>>, trouble' \in 0 .. MaxTrouble
    PROVE  Inv'
<1> USE DEF Leave, Inv
<1>1. TypeOK'
  <2>1. stop_on_failure' \in BOOLEAN
    BY DEF TypeOK
  <2>2. pc' \in [Consumers -> Running \cup Down] /\ record' \in [Consumers -> Records \cup {NoRecord}]
    BY DEF TypeOK
  <2>3. \A d \in Consumers : record'[d] # NoRecord <=> pc'[d] \in {"handling", "committing"}
    BY DEF TypeOK, Down
  <2>4. /\ owner' \in [Partitions -> Consumers \cup {Nobody}]
        /\ inflight' \in [Partitions -> SUBSET (0 .. LogEnd)]
    BY DEF TypeOK
  <2> QED
    BY <2>1, <2>2, <2>3, <2>4 DEF TypeOK
<1>2. CommitsOrdered'
  BY DEF CommitsOrdered, TypeOK
<1>3. \A d \in Consumers : Holding(d)' => d # c /\ Holding(d) /\ record'[d] = record[d] /\ pc'[d] = pc[d]
  BY DEF Holding, TypeOK, Down
<1>4. \A p \in Partitions, d \in Consumers : owner'[p] = d => owner[p] = d /\ d # c
  BY NobodyAssumption DEF TypeOK
<1>5. HandIsLast'
  BY <1>3, <1>4 DEF HandIsLast
<1>6. EndsWithSuccess => EndsWithSuccess'
  BY <1>3 DEF EndsWithSuccess, TypeOK, Holding
<1>7. PrefixDone => PrefixDone'
  <2> SUFFICES ASSUME PrefixDone PROVE PrefixDone'
    OBVIOUS
  <2>1. \A p, n : DoneBelow(p, n)' <=> DoneBelow(p, n)
    BY DEF DoneBelow
  <2>2. \A p \in Partitions : DoneBelow(p, committed[p])'
    BY <2>1 DEF PrefixDone
  <2>3. \A p \in Partitions : \A o \in inflight'[p] : DoneBelow(p, o)'
    BY <2>1 DEF PrefixDone, TypeOK
  <2>4. \A d \in Consumers, p \in Partitions, o \in Offsets :
           Holding(d)' /\ record'[d] = <<p, o>> => DoneBelow(p, o)'
    BY <2>1, <1>3 DEF PrefixDone
  <2>5. \A d \in Consumers, p \in Partitions : owner'[p] = d =>
          \A q \in 0 .. position'[p] - 1 :
              <<p, q>> \in done' \/ (pc'[d] = "handling" /\ record'[d] = <<p, q>>)
    BY <1>4 DEF PrefixDone, TypeOK
  <2>6. \A p \in Partitions, o \in Offsets : <<p, o>> \in done' => DoneBelow(p, o)'
    BY <2>1 DEF PrefixDone
  <2> QED
    BY <2>2, <2>3, <2>4, <2>5, <2>6 DEF PrefixDone
<1> QED
  BY <1>1, <1>2, <1>5, <1>6, <1>7 DEF AtLeastOnceMode

\* A worker that starts has nothing in hand and owns nothing.
LEMMA StartInv == ASSUME Inv, NEW c \in Consumers, Start(c) PROVE Inv'
<1> USE DEF Start, Inv
<1>1. TypeOK'
  <2>1. stop_on_failure' \in BOOLEAN
    BY DEF TypeOK
  <2>2. pc' \in [Consumers -> Running \cup Down]
    BY DEF TypeOK, Running
  <2>3. \A d \in Consumers : record'[d] # NoRecord <=> pc'[d] \in {"handling", "committing"}
    BY DEF TypeOK, Down
  <2> QED
    BY <2>1, <2>2, <2>3 DEF TypeOK
<1>2. CommitsOrdered'
  BY DEF CommitsOrdered
<1>3. \A d \in Consumers : Holding(d)' => Holding(d) /\ pc'[d] = pc[d]
  BY DEF Holding, TypeOK
<1>4. \A d \in Consumers : pc[d] = "handling" => pc'[d] = "handling"
  BY DEF TypeOK, Down
<1>5. HandIsLast'
  BY <1>3 DEF HandIsLast
<1>6. EndsWithSuccess => EndsWithSuccess'
  BY <1>3 DEF EndsWithSuccess, Holding
<1>7. PrefixDone => PrefixDone'
  <2>1. \A p, n : DoneBelow(p, n)' <=> DoneBelow(p, n)
    BY DEF DoneBelow
  <2> QED
    BY <1>3, <1>4, <2>1 DEF PrefixDone
<1> QED
  BY <1>1, <1>2, <1>5, <1>6, <1>7 DEF AtLeastOnceMode

\* A rebalance resumes at the committed offset, behind which all is done.
LEMMA AssignInv ==
    ASSUME Inv, NEW c \in Consumers, NEW p \in Partitions, Assign(c, p) PROVE Inv'
<1> USE DEF Assign, Inv
<1>1. TypeOK'
  <2>1. stop_on_failure' \in BOOLEAN
    BY DEF TypeOK
  <2>2. trouble' \in 0 .. MaxTrouble
    BY TroubleAssumption DEF TypeOK
  <2>3. /\ owner' \in [Partitions -> Consumers \cup {Nobody}]
        /\ inflight' \in [Partitions -> SUBSET (0 .. LogEnd)]
        /\ position' \in [Partitions -> 0 .. LogEnd]
    BY DEF TypeOK
  <2> QED
    BY <2>1, <2>2, <2>3 DEF TypeOK
<1>2. CommitsOrdered'
  BY LogAssumption DEF CommitsOrdered, TypeOK
<1>3. ~Holding(c)
  BY DEF Holding
<1>4. \A d \in Consumers : Holding(d)' <=> Holding(d)
  BY DEF Holding
<1>5. \A r \in Partitions, d \in Consumers : d # c /\ owner'[r] = d => r # p /\ owner[r] = d
  BY DEF TypeOK
<1>6. HandIsLast'
  BY <1>3, <1>4, <1>5 DEF HandIsLast, TypeOK
<1>7. EndsWithSuccess => EndsWithSuccess'
  BY DEF EndsWithSuccess, TypeOK
<1>8. PrefixDone => PrefixDone'
  <2> SUFFICES ASSUME PrefixDone PROVE PrefixDone'
    OBVIOUS
  <2>1. \A r, n : DoneBelow(r, n)' <=> DoneBelow(r, n)
    BY DEF DoneBelow
  <2>2. \A r \in Partitions : DoneBelow(r, committed[r])'
    BY <2>1 DEF PrefixDone
  <2>3. \A r \in Partitions : \A o \in inflight'[r] : DoneBelow(r, o)'
    BY <2>1 DEF PrefixDone, TypeOK
  <2>4. \A d \in Consumers, r \in Partitions, o \in Offsets :
           Holding(d)' /\ record'[d] = <<r, o>> => DoneBelow(r, o)'
    BY <2>1, <1>4 DEF PrefixDone
  <2>5. ASSUME NEW d \in Consumers, NEW r \in Partitions, owner'[r] = d,
               NEW q \in 0 .. position'[r] - 1
        PROVE  <<r, q>> \in done' \/ (pc'[d] = "handling" /\ record'[d] = <<r, q>>)
    <3>1. CASE r = p
      <4>1. position'[r] = committed[p]
        BY <3>1 DEF TypeOK
      <4> QED
        BY <3>1, <4>1, <2>5 DEF PrefixDone, DoneBelow
    <3>2. CASE r # p
      <4>1. owner[r] = d /\ position'[r] = position[r]
        BY <3>2, <2>5 DEF TypeOK
      <4> QED
        BY <4>1, <2>5 DEF PrefixDone
    <3> QED
      BY <3>1, <3>2
  <2>6. \A r \in Partitions, o \in Offsets : <<r, o>> \in done' => DoneBelow(r, o)'
    BY <2>1 DEF PrefixDone
  <2> QED
    BY <2>2, <2>3, <2>4, <2>5, <2>6 DEF PrefixDone
<1> QED
  BY <1>1, <1>2, <1>6, <1>7, <1>8 DEF AtLeastOnceMode

\* Everything behind a polled record is done: its consumer has nothing else in hand.
LEMMA PollInv ==
    ASSUME Inv, NEW c \in Consumers, NEW p \in Partitions, Poll(c, p) PROVE Inv'
<1> USE DEF Poll, Inv
<1>0. position[p] \in 0 .. LogEnd /\ LogEnd \in Nat
  BY LogAssumption DEF TypeOK
<1>a. position[p] \in Offsets /\ <<p, position[p]>> \in Records
  BY <1>0 DEF Offsets, Records
<1>1. TypeOK'
  <2>1. stop_on_failure' \in BOOLEAN
    BY DEF TypeOK
  <2>2. pc' \in [Consumers -> Running \cup Down] /\ record' \in [Consumers -> Records \cup {NoRecord}]
    BY <1>a DEF TypeOK, Running
  <2>3. \A d \in Consumers : record'[d] # NoRecord <=> pc'[d] \in {"handling", "committing"}
    BY <1>a, NobodyAssumption DEF TypeOK
  <2>4. position' \in [Partitions -> 0 .. LogEnd]
    BY <1>0 DEF TypeOK
  <2> QED
    BY <2>1, <2>2, <2>3, <2>4 DEF TypeOK
<1>2. CommitsOrdered'
  <2>1. \A r \in Partitions : /\ position[r] \in Nat /\ committed[r] \in Nat
                              /\ inflight[r] \subseteq Nat
                              /\ position'[r] = position[r] \/ position'[r] = position[r] + 1
    BY LogAssumption DEF TypeOK
  <2> QED
    BY <2>1 DEF CommitsOrdered
<1>3. \A d \in Consumers : d # c => (Holding(d)' <=> Holding(d)) /\ record'[d] = record[d]
                                   /\ pc'[d] = pc[d]
  BY DEF Holding, TypeOK
<1>4. record'[c] = <<p, position[p]>> /\ pc'[c] = "handling" /\ pc[c] # "handling"
  BY DEF TypeOK
<1>5. HandIsLast'
  <2> SUFFICES ASSUME NEW d \in Consumers, NEW r \in Partitions, NEW o \in Offsets,
                      Holding(d)', record'[d] = <<r, o>>, owner'[r] = d
               PROVE  position'[r] = o + 1
    BY DEF HandIsLast
  <2>1. CASE d = c
    BY <2>1, <1>4, <1>0 DEF TypeOK
  <2>2. CASE d # c
    <3>1. r # p /\ position'[r] = position[r] /\ owner[r] = d
      BY <2>2 DEF TypeOK
    <3> QED
      BY <3>1, <2>2, <1>3 DEF HandIsLast
  <2> QED
    BY <2>1, <2>2
<1>6. EndsWithSuccess => EndsWithSuccess'
  BY <1>3, <1>4 DEF EndsWithSuccess
<1>7. PrefixDone => PrefixDone'
  <2> SUFFICES ASSUME PrefixDone PROVE PrefixDone'
    OBVIOUS
  <2>1. \A r, n : DoneBelow(r, n)' <=> DoneBelow(r, n)
    BY DEF DoneBelow
  <2>2. \A r \in Partitions : DoneBelow(r, committed[r])'
    BY <2>1 DEF PrefixDone
  <2>3. \A r \in Partitions : \A o \in inflight'[r] : DoneBelow(r, o)'
    BY <2>1 DEF PrefixDone
  <2>a. DoneBelow(p, position[p])
    BY <1>4, <1>0 DEF PrefixDone, DoneBelow
  <2>4. ASSUME NEW d \in Consumers, NEW r \in Partitions, NEW o \in Offsets,
               Holding(d)', record'[d] = <<r, o>>
        PROVE  DoneBelow(r, o)'
    <3>1. CASE d = c
      BY <3>1, <2>a, <2>1, <2>4, <1>4
    <3>2. CASE d # c
      BY <3>2, <2>4, <2>1, <1>3 DEF PrefixDone
    <3> QED
      BY <3>1, <3>2
  <2>5. ASSUME NEW d \in Consumers, NEW r \in Partitions, owner'[r] = d,
               NEW q \in 0 .. position'[r] - 1
        PROVE  <<r, q>> \in done' \/ (pc'[d] = "handling" /\ record'[d] = <<r, q>>)
    <3>1. CASE r = p
      <4>1. d = c /\ position'[r] = position[p] + 1
        BY <3>1, <2>5 DEF TypeOK
      <4>2. q = position[p] \/ q \in 0 .. position[p] - 1
        BY <4>1, <2>5, <1>0
      <4> QED
        BY <3>1, <4>1, <4>2, <2>a, <1>4 DEF DoneBelow
    <3>2. CASE r # p
      <4>1. position'[r] = position[r] /\ owner[r] = d
        BY <3>2, <2>5 DEF TypeOK
      <4>2. <<r, q>> \in done \/ (pc[d] = "handling" /\ record[d] = <<r, q>>)
        BY <4>1, <2>5 DEF PrefixDone
      <4> QED
        BY <4>2, <1>3, <1>4
    <3> QED
      BY <3>1, <3>2
  <2>6. \A r \in Partitions, o \in Offsets : <<r, o>> \in done' => DoneBelow(r, o)'
    BY <2>1 DEF PrefixDone
  <2> QED
    BY <2>2, <2>3, <2>4, <2>5, <2>6 DEF PrefixDone
<1> QED
  BY <1>1, <1>2, <1>5, <1>6, <1>7 DEF AtLeastOnceMode

\* A success recorded for the record in hand keeps the partition's order, and
\* only a success is ever acknowledged.
LEMMA HandledInv ==
    ASSUME Inv, NEW c \in Consumers, NEW outcome \in Outcomes, Handled(c, outcome)
    PROVE  Inv'
<1> USE DEF Inv
<1>0. /\ pc[c] = "handling" /\ record[c] \in Records
      /\ done' = IF outcome \in Successes THEN done \cup {record[c]} ELSE done
      /\ UNCHANGED <<trouble, stop_on_failure>>
  BY DEF Handled, TypeOK
<1>a. PICK p \in Partitions, o \in Offsets : record[c] = <<p, o>>
  BY <1>0 DEF Records
<1>b. Holding(c)
  BY <1>0 DEF Holding
<1>1. CASE outcome # "raised" /\ Acknowledges(outcome)
  <2>0. /\ pc' = [pc EXCEPT ![c] = "committing"]
        /\ UNCHANGED <<record, owner, position, committed, inflight>>
    BY <1>1 DEF Handled
  <2>1. TypeOK'
    <3>1. stop_on_failure' \in BOOLEAN
      BY <1>0 DEF TypeOK
    <3>2. pc' \in [Consumers -> Running \cup Down] /\ done' \subseteq Records
      BY <2>0, <1>0 DEF TypeOK, Running
    <3>3. \A d \in Consumers : record'[d] # NoRecord <=> pc'[d] \in {"handling", "committing"}
      BY <2>0, <1>0 DEF TypeOK
    <3> QED
      BY <3>1, <3>2, <3>3, <2>0, <1>0 DEF TypeOK
  <2>2. CommitsOrdered'
    BY <2>0 DEF CommitsOrdered
  <2>3. \A d \in Consumers : Holding(d)' => Holding(d)
    BY <2>0, <1>b DEF Holding, TypeOK
  <2>4. HandIsLast'
    BY <2>0, <2>3 DEF HandIsLast
  <2>5. ~AtMostOnce => record[c] \in done' /\ done \subseteq done'
    BY <1>0, <1>1 DEF Acknowledges
  <2>6. ~AtMostOnce => EndsWithSuccess'
    BY <2>0, <2>5 DEF EndsWithSuccess, TypeOK
  <2>7. AtLeastOnceMode => PrefixDone'
    <3> SUFFICES ASSUME AtLeastOnceMode PROVE PrefixDone'
      OBVIOUS
    <3>0. PrefixDone /\ done' = done \cup {<<p, o>>}
      BY <1>0, <1>a, <1>1 DEF AtLeastOnceMode, Acknowledges
    <3>1. \A r, n : DoneBelow(r, n) => DoneBelow(r, n)'
      BY <3>0 DEF DoneBelow
    <3>2. \A r \in Partitions : DoneBelow(r, committed[r])'
      BY <3>0, <3>1, <2>0 DEF PrefixDone
    <3>3. \A r \in Partitions : \A k \in inflight'[r] : DoneBelow(r, k)'
      BY <3>0, <3>1, <2>0 DEF PrefixDone
    <3>4. \A d \in Consumers, r \in Partitions, k \in Offsets :
             Holding(d)' /\ record'[d] = <<r, k>> => DoneBelow(r, k)'
      BY <3>0, <3>1, <2>0, <2>3 DEF PrefixDone
    <3>5. ASSUME NEW d \in Consumers, NEW r \in Partitions, owner'[r] = d,
                 NEW q \in 0 .. position'[r] - 1
          PROVE  <<r, q>> \in done' \/ (pc'[d] = "handling" /\ record'[d] = <<r, q>>)
      <4>1. <<r, q>> \in done \/ (pc[d] = "handling" /\ record[d] = <<r, q>>)
        BY <3>0, <3>5, <2>0 DEF PrefixDone
      <4> QED
        BY <4>1, <3>0, <2>0, <1>a DEF TypeOK
    <3>6. ASSUME NEW r \in Partitions, NEW k \in Offsets, <<r, k>> \in done'
          PROVE  DoneBelow(r, k)'
      <4>1. CASE <<r, k>> \in done
        BY <4>1, <3>0, <3>1 DEF PrefixDone
      <4>2. CASE <<r, k>> = <<p, o>>
        BY <4>2, <3>0, <3>1, <1>a, <1>b DEF PrefixDone
      <4> QED
        BY <4>1, <4>2, <3>0, <3>6
    <3> QED
      BY <3>2, <3>3, <3>4, <3>5, <3>6 DEF PrefixDone
  <2> QED
    BY <2>1, <2>2, <2>4, <2>6, <2>7, <1>0 DEF AtLeastOnceMode
<1>2. CASE outcome = "raised" \/ ~Acknowledges(outcome)
  <2>1. done' = done
    BY <1>0, <1>2 DEF Acknowledges, Successes
  <2>2. CASE \E how \in Down : Leave(c, how)
    BY <2>1, <2>2, <1>0, LeaveInv DEF TypeOK
  <2>3. CASE ~stop_on_failure /\ pc' = [pc EXCEPT ![c] = "polling"]
             /\ record' = [record EXCEPT ![c] = NoRecord]
             /\ UNCHANGED <<owner, position, committed, inflight>>
    <3>1. TypeOK'
      <4>1. stop_on_failure' \in BOOLEAN
        BY <1>0 DEF TypeOK
      <4>2. pc' \in [Consumers -> Running \cup Down] /\ record' \in [Consumers -> Records \cup {NoRecord}]
        BY <2>3 DEF TypeOK, Running
      <4>3. \A d \in Consumers : record'[d] # NoRecord <=> pc'[d] \in {"handling", "committing"}
        BY <2>3 DEF TypeOK
      <4> QED
        BY <4>1, <4>2, <4>3, <2>3, <2>1, <1>0 DEF TypeOK
    <3>2. CommitsOrdered'
      BY <2>3 DEF CommitsOrdered
    <3>3. \A d \in Consumers : Holding(d)' => Holding(d) /\ record'[d] = record[d] /\ pc'[d] = pc[d]
      BY <2>3 DEF Holding, TypeOK
    <3>4. HandIsLast'
      BY <2>3, <3>3 DEF HandIsLast
    <3>5. EndsWithSuccess => EndsWithSuccess'
      BY <2>3, <2>1, <3>3 DEF EndsWithSuccess, Holding
    <3> QED
      BY <3>1, <3>2, <3>4, <3>5, <2>3, <1>0 DEF AtLeastOnceMode
  <2> QED
    BY <1>2, <2>2, <2>3 DEF Handled, Down
<1> QED
  BY <1>1, <1>2

\* What consumer.commit asks for lies behind a success and not behind the position.
LEMMA CommitInv == ASSUME Inv, NEW c \in Consumers, Commit(c) PROVE Inv'
<1> USE DEF Commit, Inv
<1>0. record[c] \in Records /\ Holding(c)
  BY DEF TypeOK, Holding
<1>a. PICK p \in Partitions, o \in Offsets : record[c] = <<p, o>>
  BY <1>0 DEF Records
<1>b. /\ owner[p] # c => inflight' = inflight
      /\ owner[p] = c => inflight' = [inflight EXCEPT ![p] = @ \cup {o + 1}]
  BY <1>a
<1>c. o \in Nat /\ o + 1 \in 0 .. LogEnd /\ o + 1 - 1 = o
  BY LogAssumption DEF Offsets
<1>d. owner[p] = c => position[p] = o + 1
  BY <1>0, <1>a DEF HandIsLast
<1>e. \A r \in Partitions : \A k \in inflight'[r] : k \in inflight[r] \/ (owner[p] = c /\ r = p /\ k = o + 1)
  BY <1>b DEF TypeOK
<1>1. TypeOK'
  <2>1. stop_on_failure' \in BOOLEAN
    BY DEF TypeOK
  <2>2. pc' \in [Consumers -> Running \cup Down] /\ record' \in [Consumers -> Records \cup {NoRecord}]
    BY DEF TypeOK, Running
  <2>3. \A d \in Consumers : record'[d] # NoRecord <=> pc'[d] \in {"handling", "committing"}
    BY DEF TypeOK
  <2>4. inflight' \in [Partitions -> SUBSET (0 .. LogEnd)]
    <3>1. inflight[p] \cup {o + 1} \in SUBSET (0 .. LogEnd)
      BY <1>c DEF TypeOK
    <3>2. CASE owner[p] = c
      BY <3>1, <3>2, <1>b, ZenonT(60) DEF TypeOK
    <3>3. CASE owner[p] # c
      BY <3>3, <1>b DEF TypeOK
    <3> QED
      BY <3>2, <3>3
  <2> QED
    BY <2>1, <2>2, <2>3, <2>4 DEF TypeOK
<1>2. CommitsOrdered'
  <2>1. \A r \in Partitions : committed'[r] = committed[r] /\ position'[r] = position[r]
                              /\ committed[r] <= position[r] /\ position[r] \in Nat
    BY LogAssumption DEF CommitsOrdered, TypeOK
  <2>2. ASSUME NEW r \in Partitions, NEW k \in inflight'[r]
        PROVE  committed[r] <= k /\ k <= position[r]
    <3>1. CASE k \in inflight[r]
      BY <3>1 DEF CommitsOrdered
    <3>2. CASE owner[p] = c /\ r = p /\ k = o + 1
      <4>1. k = position[r]
        BY <3>2, <1>d
      <4> QED
        BY <4>1, <2>1
    <3> QED
      BY <3>1, <3>2, <1>e
  <2> QED
    BY <2>1, <2>2 DEF CommitsOrdered
<1>3. \A d \in Consumers : Holding(d)' => Holding(d) /\ record'[d] = record[d] /\ pc'[d] = pc[d]
  BY DEF Holding, TypeOK
<1>4. HandIsLast'
  BY <1>3 DEF HandIsLast
<1>5. EndsWithSuccess => EndsWithSuccess'
  BY <1>3, <1>e, <1>c, <1>a DEF EndsWithSuccess, Holding
<1>6. PrefixDone /\ EndsWithSuccess => PrefixDone'
  <2> SUFFICES ASSUME PrefixDone, EndsWithSuccess PROVE PrefixDone'
    OBVIOUS
  <2>1. \A r, n : DoneBelow(r, n)' <=> DoneBelow(r, n)
    BY DEF DoneBelow
  <2>2. \A r \in Partitions : DoneBelow(r, committed[r])'
    BY <2>1 DEF PrefixDone
  <2>a. DoneBelow(p, o + 1)
    <3>1. DoneBelow(p, o) /\ <<p, o>> \in done
      BY <1>0, <1>a DEF PrefixDone, EndsWithSuccess
    <3> QED
      BY <3>1, <1>c DEF DoneBelow
  <2>3. \A r \in Partitions : \A k \in inflight'[r] : DoneBelow(r, k)'
    BY <2>1, <2>a, <1>e DEF PrefixDone
  <2>4. \A d \in Consumers, r \in Partitions, k \in Offsets :
           Holding(d)' /\ record'[d] = <<r, k>> => DoneBelow(r, k)'
    BY <2>1, <1>3 DEF PrefixDone
  <2>5. \A d \in Consumers : pc[d] = "handling" => pc'[d] = "handling" /\ record'[d] = record[d]
    BY DEF TypeOK
  <2>6. \A d \in Consumers, r \in Partitions : owner'[r] = d =>
          \A q \in 0 .. position'[r] - 1 :
              <<r, q>> \in done' \/ (pc'[d] = "handling" /\ record'[d] = <<r, q>>)
    BY <2>5 DEF PrefixDone
  <2>7. \A r \in Partitions, k \in Offsets : <<r, k>> \in done' => DoneBelow(r, k)'
    BY <2>1 DEF PrefixDone
  <2> QED
    BY <2>2, <2>3, <2>4, <2>6, <2>7 DEF PrefixDone
<1> QED
  BY <1>1, <1>2, <1>4, <1>5, <1>6 DEF AtLeastOnceMode

\* What the broker does with a commit: the next one is applied, or one is lost.
LEMMA BrokerInv ==
    ASSUME Inv, NEW p \in Partitions, ApplyCommit(p) \/ LoseCommit(p) PROVE Inv'
<1> USE DEF Inv
<1>0. PICK o \in inflight[p] :
         /\ \/ committed' = [committed EXCEPT ![p] = o] /\ \A q \in inflight[p] : o <= q
            \/ committed' = committed
         /\ inflight' = [inflight EXCEPT ![p] = @ \ {o}]
         /\ trouble' = trouble \/ (trouble < MaxTrouble /\ trouble' = trouble + 1)
         /\ UNCHANGED <<pc, record, owner, position, done, stop_on_failure>>
  BY DEF ApplyCommit, LoseCommit
<1>a. o \in 0 .. LogEnd
  BY <1>0 DEF TypeOK
<1>b. \A r \in Partitions : committed'[r] = committed[r] \/
         (r = p /\ committed'[r] = o /\ \A q \in inflight[p] : o <= q)
  BY <1>0 DEF TypeOK
<1>c. \A r \in Partitions : inflight'[r] \subseteq inflight[r]
  BY <1>0 DEF TypeOK
<1>1. TypeOK'
  <2>1. stop_on_failure' \in BOOLEAN
    BY <1>0 DEF TypeOK
  <2>2. trouble' \in 0 .. MaxTrouble
    BY <1>0, TroubleAssumption DEF TypeOK
  <2>3. /\ committed' \in [Partitions -> 0 .. LogEnd]
        /\ inflight' \in [Partitions -> SUBSET (0 .. LogEnd)]
    BY <1>0, <1>a DEF TypeOK
  <2> QED
    BY <2>1, <2>2, <2>3, <1>0 DEF TypeOK
<1>2. CommitsOrdered'
  BY <1>0, <1>b, <1>c DEF CommitsOrdered
<1>3. HandIsLast'
  BY <1>0 DEF HandIsLast, Holding
<1>4. EndsWithSuccess => EndsWithSuccess'
  BY <1>0, <1>b, <1>c DEF EndsWithSuccess
<1>5. PrefixDone => PrefixDone'
  <2> SUFFICES ASSUME PrefixDone PROVE PrefixDone'
    OBVIOUS
  <2>1. \A r, n : DoneBelow(r, n)' <=> DoneBelow(r, n)
    BY <1>0 DEF DoneBelow
  <2>2. \A r \in Partitions : DoneBelow(r, committed[r])'
    BY <2>1, <1>0, <1>b DEF PrefixDone
  <2>3. \A r \in Partitions : \A k \in inflight'[r] : DoneBelow(r, k)'
    BY <2>1, <1>c DEF PrefixDone
  <2>4. \A d \in Consumers : Holding(d)' <=> Holding(d)
    BY <1>0 DEF Holding
  <2> QED
    BY <2>1, <2>2, <2>3, <2>4, <1>0 DEF PrefixDone
<1> QED
  BY <1>1, <1>2, <1>3, <1>4, <1>5, <1>0 DEF AtLeastOnceMode

\* The invariant is inductive.
LEMMA NextInv == Inv /\ [Next]_vars => Inv'
<1> SUFFICES ASSUME Inv, [Next]_vars PROVE Inv'
  OBVIOUS
<1>1. ASSUME NEW c \in Consumers, Stop(c) \/ Crash(c) PROVE Inv'
  <2>1. trouble' \in 0 .. MaxTrouble
    BY <1>1, TroubleAssumption DEF Stop, Crash, Inv, TypeOK
  <2>2. PICK how \in Down : Leave(c, how) /\ UNCHANGED <<done, stop_on_failure>>
    BY <1>1 DEF Stop, Crash, Down
  <2> QED
    BY <2>1, <2>2, LeaveInv
<1>2. CASE UNCHANGED vars
  BY <1>2 DEF vars, Inv, TypeOK, CommitsOrdered, HandIsLast, EndsWithSuccess, PrefixDone,
              DoneBelow, Holding, AtLeastOnceMode
<1> QED
  BY <1>1, <1>2, StartInv, AssignInv, PollInv, HandledInv, CommitInv, BrokerInv DEF Next

\* For any group, log and content: committed offsets never pass a record that has
\* not succeeded and each partition is handled in order in the at-least-once mode;
\* in skip-and-continue mode a failure is passed over only by a later success.
THEOREM ConsumerSafe ==
    Spec => []CommitsSafely
<1>1. Inv => CommitsSafely
  BY DEF Inv, CommitsSafely, NoLoss, HandledInOrder, PassedOverBySuccess, PrefixDone, DoneBelow,
         EndsWithSuccess
<1> QED
  BY <1>1, InitInv, NextInv, PTL DEF Spec

\* For any group, log and content: the consumer with stop_on_failure implements
\* AtLeastOnce, so committed offsets also never go back.
THEOREM ImplementsAtLeastOnce == Spec => AtLeastOnceSpec
<1>1. Init => Promise!Init
  <2> SUFFICES ASSUME Init PROVE done = {} /\ Settled = {}
    BY DEF Promise!Init
  <2>1. \A r \in Records : r[1] \in Partitions /\ r[2] \in Nat
    BY LogAssumption DEF Records, Offsets
  <2> QED
    BY <2>1 DEF Init, Settled
<1>2. Inv /\ Inv' /\ [Next]_vars => [Promise!Next]_Promise!vars
  <2> SUFFICES ASSUME Inv, Inv', [Next]_vars
               PROVE  Promise!Next \/ (done' = done /\ Settled' = Settled)
    BY DEF Promise!vars
  <2>0. \A r \in Records : r[1] \in Partitions /\ r[2] \in Nat /\ r = <<r[1], r[2]>>
    BY LogAssumption DEF Records, Offsets
  <2>1. CASE \E c \in Consumers, outcome \in Outcomes : Handled(c, outcome)
    <3>1. PICK c \in Consumers, outcome \in Outcomes : Handled(c, outcome)
      BY <2>1
    <3>2. Settled' = Settled
      BY <3>1 DEF Handled, Leave, Settled, AtLeastOnceMode
    <3>3. record[c] \in Records
      BY <3>1 DEF Handled, Inv, TypeOK
    <3>4. done' = done \/ done' = done \cup {record[c]}
      BY <3>1 DEF Handled
    <3> QED
      BY <3>2, <3>3, <3>4 DEF Promise!Next, Promise!HandleOne
  <2>2. CASE \E p \in Partitions : ApplyCommit(p)
    <3>1. PICK p \in Partitions : ApplyCommit(p)
      BY <2>2
    <3>2. PICK o \in inflight[p] : committed' = [committed EXCEPT ![p] = o]
      BY <3>1 DEF ApplyCommit
    <3>3. done' = done /\ stop_on_failure' = stop_on_failure
      BY <3>1 DEF ApplyCommit
    <3>4. \A r \in Partitions : /\ committed[r] \in Nat /\ committed'[r] \in Nat
                                /\ committed[r] <= committed'[r]
      BY <3>2, LogAssumption DEF Inv, TypeOK, CommitsOrdered
    <3>5. Settled \subseteq Settled'
      BY <3>3, <3>4, <2>0 DEF Settled, AtLeastOnceMode
    <3>6. Settled' \subseteq done
      <4> SUFFICES ASSUME NEW r \in Settled' PROVE r \in done
        OBVIOUS
      <4>1. AtLeastOnceMode' /\ r \in Records /\ r[2] < committed'[r[1]]
        BY DEF Settled
      <4>2. r[2] \in 0 .. committed'[r[1]] - 1
        BY <4>1, <3>4, <2>0
      <4>3. <<r[1], r[2]>> \in done'
        BY <4>1, <4>2, <2>0 DEF Inv, PrefixDone, DoneBelow
      <4> QED
        BY <4>1, <4>3, <3>3, <2>0
    <3> QED
      BY <3>3, <3>5, <3>6 DEF Promise!Next, Promise!Settle
  <2>3. CASE UNCHANGED <<done, committed, stop_on_failure>>
    BY <2>3 DEF Settled, AtLeastOnceMode
  <2> QED
    BY <2>1, <2>2, <2>3 DEF Next, vars, Start, Stop, Commit, Crash, Leave, Assign, Poll, LoseCommit
<1> QED
  BY <1>1, <1>2, InitInv, NextInv, PTL DEF Spec, AtLeastOnceSpec, Promise!Spec
=============================================================================
