---------------------------- MODULE BulkheadProofs ----------------------------
(***************************************************************************)
(* For any number of calls and any limits, the bulkhead keeps its          *)
(* concurrency limit and its in_flight count is exact.  Neither is         *)
(* inductive alone: the limit follows from the conservation of slots,      *)
(* which needs in turn that only a waiting call can be cancelled (IInv).   *)
(* Waiting calls are woken in the order they arrived.                      *)
(***************************************************************************)
EXTENDS Bulkhead, FiniteSetTheorems, SequenceTheorems, TLAPS

PcStates == Idle \cup Admitted
Holding == {"granted", "running"}

\* A cancellation is pending only for a call that waits for its slot.
CancelledWaits == \A c \in Calls : cancelled[c] => pc[c] \in {"queued", "granted"}

\* The inductive invariant.
IInv == TypeOK /\ SlotsConserved /\ InFlightExact /\ CancelledWaits

One(b, states) == IF b \in states THEN 1 ELSE 0

\* A count of calls is a natural number.
LEMMA CountType ==
  ASSUME NEW p, NEW states
  PROVE  Count(p, states) \in Nat
<1>1. IsFiniteSet(At(p, states))
  BY CallsAssumption, FS_Subset DEF At
<1> QED BY <1>1, FS_CardinalityType DEF Count

\* Moving one call to another place changes a count by that call alone.
LEMMA CountMove ==
  ASSUME NEW p \in [Calls -> PcStates], NEW c \in Calls, NEW b \in PcStates,
         NEW states
  PROVE  Count([p EXCEPT ![c] = b], states)
           = Count(p, states) + One(b, states) - One(p[c], states)
<1> DEFINE q == [p EXCEPT ![c] = b]
<1>1. IsFiniteSet(At(p, states)) /\ IsFiniteSet(At(q, states))
  BY CallsAssumption, FS_Subset DEF At
<1>2. Cardinality(At(p, states)) \in Nat /\ Cardinality(At(q, states)) \in Nat
  BY <1>1, FS_CardinalityType
<1>3. CASE b \in states /\ p[c] \notin states
  <2>1. At(q, states) = At(p, states) \cup {c} /\ c \notin At(p, states)
    BY <1>3 DEF At
  <2>2. Cardinality(At(q, states)) = Cardinality(At(p, states)) + 1
    BY <2>1, <1>1, FS_AddElement
  <2>3. One(b, states) = 1 /\ One(p[c], states) = 0
    BY <1>3 DEF One
  <2> QED BY <2>2, <2>3, <1>2 DEF Count
<1>4. CASE b \notin states /\ p[c] \in states
  <2>1. At(q, states) = At(p, states) \ {c} /\ c \in At(p, states)
    BY <1>4 DEF At
  <2>2. Cardinality(At(q, states)) = Cardinality(At(p, states)) - 1
    BY <2>1, <1>1, FS_RemoveElement
  <2>3. One(b, states) = 0 /\ One(p[c], states) = 1
    BY <1>4 DEF One
  <2> QED BY <2>2, <2>3, <1>2 DEF Count
<1>5. CASE (b \in states) <=> (p[c] \in states)
  <2>1. At(q, states) = At(p, states)
    BY <1>5 DEF At
  <2>2. One(b, states) = One(p[c], states) /\ One(b, states) \in Nat
    BY <1>5 DEF One
  <2> HIDE DEF q
  <2> QED BY <2>1, <2>2, <1>2 DEF Count, q
<1> QED BY <1>3, <1>4, <1>5

\* Removing a waiter keeps the queue a sequence of calls.
LEMMA WithoutType ==
  ASSUME NEW ws \in Seq(Calls), NEW c \in Calls
  PROVE  Without(ws, c) \in Seq(Calls)
<1>1. CASE \E i \in DOMAIN ws : ws[i] = c
  <2> DEFINE place == CHOOSE i \in DOMAIN ws : ws[i] = c
  <2>1. place \in 1 .. Len(ws)
    BY <1>1
  <2> HIDE DEF place
  <2>2. RemoveAt(ws, place) \in Seq(Calls)
    BY <2>1 DEF RemoveAt
  <2> QED BY <1>1, <2>2 DEF Without, place
<1>2. CASE ~\E i \in DOMAIN ws : ws[i] = c
  BY <1>2 DEF Without
<1> QED BY <1>1, <1>2

\* Giving a free slot to the next waiter changes neither the number of slots
\* in use or free nor the number of admitted calls.
LEMMA WakeUp ==
  ASSUME TypeOK,
         NEW ws \in Seq(Calls), NEW p \in [Calls -> PcStates],
         NEW v \in Nat \ {0},
         \A c \in Calls : Live(c) => p[c] = "queued",
         WakeUpNext(ws, p, v)
  PROVE  /\ pc' \in [Calls -> PcStates]
         /\ value' \in Nat
         /\ value' + Count(pc', Holding) = v + Count(p, Holding)
         /\ Count(pc', Admitted) = Count(p, Admitted)
         /\ \A c \in Calls : pc'[c] = p[c] \/ (p[c] = "queued" /\ pc'[c] = "granted")
<1>1. CASE Candidates(ws) = {}
  BY <1>1, CountType DEF WakeUpNext
<1>2. ASSUME NEW i \in Candidates(ws),
             pc' = [p EXCEPT ![ws[i]] = "granted"], value' = v - 1
      PROVE  /\ pc' \in [Calls -> PcStates]
             /\ value' \in Nat
             /\ value' + Count(pc', Holding) = v + Count(p, Holding)
             /\ Count(pc', Admitted) = Count(p, Admitted)
             /\ \A c \in Calls : pc'[c] = p[c] \/ (p[c] = "queued" /\ pc'[c] = "granted")
  <2> DEFINE w == ws[i]
  <2>1. w \in Calls /\ Live(w)
    BY DEF Candidates
  <2>2. p[w] = "queued"
    BY <2>1
  <2>3. pc' = [p EXCEPT ![w] = "granted"] /\ value' = v - 1
    BY <1>2
  <2>4. "granted" \in PcStates
    BY DEF PcStates, Admitted
  <2> HIDE DEF w
  <2>5. Count(pc', Holding) = Count(p, Holding) + 1
    <3>1. One("granted", Holding) = 1 /\ One("queued", Holding) = 0
      BY DEF One, Holding
    <3>2. Count([p EXCEPT ![w] = "granted"], Holding)
            = Count(p, Holding) + One("granted", Holding) - One(p[w], Holding)
      BY <2>1, <2>4, CountMove
    <3>3. Count(p, Holding) \in Nat
      BY CountType
    <3> QED BY <2>2, <2>3, <3>1, <3>2, <3>3
  <2>6. Count(pc', Admitted) = Count(p, Admitted)
    <3>1. One("granted", Admitted) = 1 /\ One("queued", Admitted) = 1
      BY DEF One, Admitted
    <3>2. Count([p EXCEPT ![w] = "granted"], Admitted)
            = Count(p, Admitted) + One("granted", Admitted) - One(p[w], Admitted)
      BY <2>1, <2>4, CountMove
    <3>3. Count(p, Admitted) \in Nat
      BY CountType
    <3> QED BY <2>2, <2>3, <3>1, <3>2, <3>3
  <2>7. \A c \in Calls : pc'[c] = p[c] \/ (p[c] = "queued" /\ pc'[c] = "granted")
    BY <2>1, <2>2, <2>3
  <2>8. pc' \in [Calls -> PcStates]
    BY <2>3, <2>4
  <2> QED BY <2>3, <2>5, <2>6, <2>7, <2>8, CountType
<1> QED BY <1>1, <1>2 DEF WakeUpNext

\* The counts after one call moves from place a to place b.
LEMMA Move ==
  ASSUME NEW p \in [Calls -> PcStates], NEW c \in Calls, NEW b \in PcStates
  PROVE  LET q == [p EXCEPT ![c] = b]
         IN  /\ q \in [Calls -> PcStates]
             /\ Count(q, Holding) = Count(p, Holding) + One(b, Holding) - One(p[c], Holding)
             /\ Count(q, Admitted) = Count(p, Admitted) + One(b, Admitted) - One(p[c], Admitted)
             /\ Count(p, Holding) \in Nat /\ Count(p, Admitted) \in Nat
             /\ Count(q, Holding) \in Nat /\ Count(q, Admitted) \in Nat
BY CountMove, CountType

\* The initial state satisfies the inductive invariant.
LEMMA InitIInv == Init => IInv
<1> SUFFICES ASSUME Init PROVE IInv
  OBVIOUS
<1> USE MaxConcurrencyAssumption, MaxQueueAssumption DEF Init
<1>1. TypeOK /\ CancelledWaits
  BY DEF TypeOK, CancelledWaits, Idle
<1>2. At(pc, Holding) = {} /\ At(pc, Admitted) = {}
  BY DEF At, Holding, Admitted
<1>3. Count(pc, Holding) = 0 /\ Count(pc, Admitted) = 0
  BY <1>2, FS_EmptySet DEF Count
<1>4. SlotsConserved /\ InFlightExact
  BY <1>3 DEF SlotsConserved, InFlightExact, Holding, Capacity
<1> QED BY <1>1, <1>4 DEF IInv

\* Every step of the bulkhead preserves the inductive invariant.
LEMMA NextIInv == IInv /\ [Next]_vars => IInv'
<1> SUFFICES ASSUME IInv, [Next]_vars PROVE IInv'
  OBVIOUS
<1> USE MaxConcurrencyAssumption, MaxQueueAssumption
<1> DEFINE H == Count(pc, Holding)
           A == Count(pc, Admitted)
<1>0. /\ pc \in [Calls -> PcStates] /\ cancelled \in [Calls -> BOOLEAN]
      /\ in_flight \in Nat /\ value \in Nat /\ value <= MaxConcurrency
      /\ waiters \in Seq(Calls)
      /\ value + H = MaxConcurrency /\ in_flight = A /\ in_flight <= Capacity
      /\ \A c \in Calls : cancelled[c] => pc[c] \in {"queued", "granted"}
      /\ H \in Nat /\ A \in Nat /\ Capacity \in Nat
  BY CountType DEF IInv, TypeOK, PcStates, SlotsConserved, InFlightExact,
                   CancelledWaits, Holding, Capacity
\* It is enough to show the parts of the invariant in terms of the counts.
<1>a. ASSUME /\ pc' \in [Calls -> PcStates] /\ cancelled' \in [Calls -> BOOLEAN]
             /\ waiters' \in Seq(Calls)
             /\ value' \in Nat
             /\ value' + Count(pc', Holding) = MaxConcurrency
             /\ in_flight' = Count(pc', Admitted) /\ in_flight' <= Capacity
             /\ \A c \in Calls : cancelled'[c] => pc'[c] \in {"queued", "granted"}
      PROVE  IInv'
  <2>1. Count(pc', Holding) \in Nat /\ Count(pc', Admitted) \in Nat
    BY CountType
  <2>2. value' \in 0 .. MaxConcurrency /\ in_flight' \in Nat
    BY <1>a, <2>1
  <2>3. TypeOK' /\ CancelledWaits'
    BY <1>a, <2>2 DEF TypeOK, PcStates, CancelledWaits
  <2>4. SlotsConserved' /\ InFlightExact'
    BY <1>a DEF SlotsConserved, InFlightExact, Holding, Count, At, Capacity
  <2> QED BY <2>3, <2>4 DEF IInv
<1>m. ASSUME NEW c \in Calls, NEW b \in PcStates, NEW q, q = [pc EXCEPT ![c] = b]
      PROVE  /\ q \in [Calls -> PcStates] /\ Count(q, Admitted) \in Nat
             /\ Count(q, Holding) = H + One(b, Holding) - One(pc[c], Holding)
             /\ Count(q, Admitted) = A + One(b, Admitted) - One(pc[c], Admitted)
  <2>1. pc \in [Calls -> PcStates]
    BY <1>0
  <2> QED
    BY <1>m, <2>1, Move
<1> HIDE DEF H, A
<1>1. ASSUME NEW c \in Calls, Shed(c) PROVE IInv'
  <2>1. pc[c] \in Idle /\ "shed" \in PcStates /\ pc' = [pc EXCEPT ![c] = "shed"]
        /\ UNCHANGED <<cancelled, in_flight, value, waiters>>
    BY <1>1 DEF Shed, PcStates, Idle
  <2>2. One("shed", Holding) = 0 /\ One("shed", Admitted) = 0
        /\ One(pc[c], Holding) = 0 /\ One(pc[c], Admitted) = 0
    BY <2>1 DEF One, Holding, Admitted, Idle
  <2>3. Count(pc', Holding) = H /\ Count(pc', Admitted) = A
        /\ pc' \in [Calls -> PcStates]
    <3>1. /\ pc' \in [Calls -> PcStates] /\ Count(pc', Admitted) \in Nat
          /\ Count(pc', Holding) = H + One("shed", Holding) - One(pc[c], Holding)
          /\ Count(pc', Admitted) = A + One("shed", Admitted) - One(pc[c], Admitted)
      BY <2>1, <1>m
    <3> QED BY <3>1, <2>1, <2>2, <1>0
  <2>4. \A d \in Calls : cancelled'[d] => pc'[d] \in {"queued", "granted"}
    BY <2>1, <1>0 DEF Idle
  <2> QED BY <2>1, <2>3, <2>4, <1>0, <1>a
<1>2. ASSUME NEW c \in Calls, Enter(c) PROVE IInv'
  <2>1. /\ pc[c] \in Idle /\ "running" \in PcStates /\ pc' = [pc EXCEPT ![c] = "running"]
        /\ in_flight' = in_flight + 1 /\ in_flight < Capacity
        /\ value # 0 /\ value' = value - 1
        /\ UNCHANGED <<cancelled, waiters>>
    BY <1>2 DEF Enter, Locked, PcStates, Admitted
  <2>2. One("running", Holding) = 1 /\ One("running", Admitted) = 1
        /\ One(pc[c], Holding) = 0 /\ One(pc[c], Admitted) = 0
    BY <2>1 DEF One, Holding, Admitted, Idle
  <2>3. Count(pc', Holding) = H + 1 /\ Count(pc', Admitted) = A + 1
        /\ pc' \in [Calls -> PcStates]
    <3>1. /\ pc' \in [Calls -> PcStates] /\ Count(pc', Admitted) \in Nat
          /\ Count(pc', Holding) = H + One("running", Holding) - One(pc[c], Holding)
          /\ Count(pc', Admitted) = A + One("running", Admitted) - One(pc[c], Admitted)
      BY <2>1, <1>m
    <3> QED BY <3>1, <2>1, <2>2, <1>0
  <2>4. \A d \in Calls : cancelled'[d] => pc'[d] \in {"queued", "granted"}
    BY <2>1, <1>0 DEF Idle
  <2> QED BY <2>1, <2>3, <2>4, <1>0, <1>a
<1>3. ASSUME NEW c \in Calls, Enqueue(c) PROVE IInv'
  <2>1. /\ pc[c] \in Idle /\ "queued" \in PcStates /\ pc' = [pc EXCEPT ![c] = "queued"]
        /\ in_flight' = in_flight + 1 /\ in_flight < Capacity
        /\ waiters' \in Seq(Calls)
        /\ UNCHANGED <<cancelled, value>>
    BY <1>3, <1>0 DEF Enqueue, PcStates, Admitted
  <2>2. One("queued", Holding) = 0 /\ One("queued", Admitted) = 1
        /\ One(pc[c], Holding) = 0 /\ One(pc[c], Admitted) = 0
    BY <2>1 DEF One, Holding, Admitted, Idle
  <2>3. Count(pc', Holding) = H /\ Count(pc', Admitted) = A + 1
        /\ pc' \in [Calls -> PcStates]
    <3>1. /\ pc' \in [Calls -> PcStates] /\ Count(pc', Admitted) \in Nat
          /\ Count(pc', Holding) = H + One("queued", Holding) - One(pc[c], Holding)
          /\ Count(pc', Admitted) = A + One("queued", Admitted) - One(pc[c], Admitted)
      BY <2>1, <1>m
    <3> QED BY <3>1, <2>1, <2>2, <1>0
  <2>4. \A d \in Calls : cancelled'[d] => pc'[d] \in {"queued", "granted"}
    BY <2>1, <1>0 DEF Idle
  <2> QED BY <2>1, <2>3, <2>4, <1>0, <1>a
<1>4. ASSUME NEW c \in Calls, Resume(c) PROVE IInv'
  <2> DEFINE p == [pc EXCEPT ![c] = "running"]
  <2>1. /\ pc[c] = "granted" /\ "running" \in PcStates /\ ~cancelled[c]
        /\ waiters' = Without(waiters, c)
        /\ UNCHANGED <<cancelled, in_flight>>
    BY <1>4 DEF Resume, PcStates, Admitted
  <2>2. One("running", Holding) = 1 /\ One("running", Admitted) = 1
        /\ One(pc[c], Holding) = 1 /\ One(pc[c], Admitted) = 1
    BY <2>1 DEF One, Holding, Admitted
  <2>3. Count(p, Holding) = H /\ Count(p, Admitted) = A /\ p \in [Calls -> PcStates]
    <3>1. /\ p \in [Calls -> PcStates] /\ Count(p, Admitted) \in Nat
          /\ Count(p, Holding) = H + One("running", Holding) - One(pc[c], Holding)
          /\ Count(p, Admitted) = A + One("running", Admitted) - One(pc[c], Admitted)
      BY <2>1, <1>m
    <3> QED BY <3>1, <2>1, <2>2, <1>0
  <2>4. waiters' \in Seq(Calls)
    BY <2>1, <1>0, WithoutType
  <2>5. \A d \in Calls : Live(d) => p[d] = "queued"
    BY <2>1, <1>0 DEF Live
  <2>6. /\ pc' \in [Calls -> PcStates] /\ value' \in Nat
        /\ value' + Count(pc', Holding) = value + Count(p, Holding)
        /\ Count(pc', Admitted) = Count(p, Admitted)
        /\ \A d \in Calls : pc'[d] = p[d] \/ (p[d] = "queued" /\ pc'[d] = "granted")
    <3>1. CASE value > 0
      <4>1. WakeUpNext(waiters', p, value)
        BY <1>4, <3>1 DEF Resume
      <4>2. TypeOK /\ value \in Nat \ {0}
        BY <1>0, <3>1 DEF IInv
      <4> HIDE DEF p
      <4> QED BY <4>1, <4>2, <2>3, <2>4, <2>5, WakeUp
    <3>2. CASE ~(value > 0)
      <4>1. pc' = p /\ value' = value
        BY <1>4, <3>2 DEF Resume
      <4> QED BY <4>1, <2>3, <1>0
    <3> QED BY <3>1, <3>2
  <2>7. \A d \in Calls : cancelled'[d] => pc'[d] \in {"queued", "granted"}
    BY <2>1, <2>6, <1>0
  <2> QED BY <2>1, <2>3, <2>4, <2>6, <2>7, <1>0, <1>a
<1>5. ASSUME NEW c \in Calls, Cancel(c) PROVE IInv'
  <2>1. /\ pc[c] \in {"queued", "granted"}
        /\ cancelled' = [cancelled EXCEPT ![c] = TRUE]
        /\ UNCHANGED <<pc, in_flight, value, waiters>>
    BY <1>5 DEF Cancel
  <2> QED BY <2>1, <1>0, <1>a DEF H, A
<1>6. ASSUME NEW c \in Calls, Unwind(c) PROVE IInv'
  <2> DEFINE p == [pc EXCEPT ![c] = "finished"]
  <2>1. /\ cancelled[c] /\ "finished" \in PcStates /\ in_flight' = in_flight - 1
        /\ cancelled' = [cancelled EXCEPT ![c] = FALSE]
        /\ waiters' = Without(waiters, c)
    BY <1>6 DEF Unwind, PcStates, Idle
  <2>2. pc[c] \in {"queued", "granted"}
    BY <2>1, <1>0
  <2>3. /\ One("finished", Holding) = 0 /\ One("finished", Admitted) = 0
        /\ One(pc[c], Holding) = (IF pc[c] = "granted" THEN 1 ELSE 0)
        /\ One(pc[c], Admitted) = 1
    BY <2>2 DEF One, Holding, Admitted
  <2>4. /\ Count(p, Holding) = H - (IF pc[c] = "granted" THEN 1 ELSE 0)
        /\ Count(p, Admitted) = A - 1 /\ p \in [Calls -> PcStates]
        /\ Count(p, Admitted) \in Nat
    <3>1. /\ p \in [Calls -> PcStates] /\ Count(p, Admitted) \in Nat
          /\ Count(p, Holding) = H + One("finished", Holding) - One(pc[c], Holding)
          /\ Count(p, Admitted) = A + One("finished", Admitted) - One(pc[c], Admitted)
      BY <2>1, <1>m
    <3> QED BY <3>1, <2>1, <2>3, <1>0
  <2>5. waiters' \in Seq(Calls)
    BY <2>1, <1>0, WithoutType
  <2>6. \A d \in Calls : Live(d) => p[d] = "queued"
    BY <2>1, <1>0 DEF Live
  <2>7. /\ pc' \in [Calls -> PcStates] /\ value' \in Nat
        /\ value' + Count(pc', Holding) = MaxConcurrency
        /\ Count(pc', Admitted) = Count(p, Admitted)
        /\ \A d \in Calls : pc'[d] = p[d] \/ (p[d] = "queued" /\ pc'[d] = "granted")
    <3>1. CASE pc[c] = "granted"
      <4>1. WakeUpNext(waiters', p, value + 1)
        BY <1>6, <3>1 DEF Unwind
      <4>2. TypeOK /\ value + 1 \in Nat \ {0}
        BY <1>0 DEF IInv
      <4>3. Count(p, Holding) = H - 1
        BY <2>4, <3>1
      <4> HIDE DEF p
      <4>4. /\ pc' \in [Calls -> PcStates] /\ value' \in Nat
            /\ value' + Count(pc', Holding) = value + 1 + Count(p, Holding)
            /\ Count(pc', Admitted) = Count(p, Admitted)
            /\ \A d \in Calls : pc'[d] = p[d] \/ (p[d] = "queued" /\ pc'[d] = "granted")
        BY <4>1, <4>2, <2>4, <2>5, <2>6, WakeUp
      <4> QED BY <4>3, <4>4, <1>0
    <3>2. CASE pc[c] # "granted"
      <4>1. pc' = p /\ value' = value
        BY <1>6, <3>2 DEF Unwind
      <4>2. Count(p, Holding) = H
        BY <2>4, <3>2, <1>0
      <4> QED BY <4>1, <4>2, <2>4, <1>0
    <3> QED BY <3>1, <3>2
  <2>8. \A d \in Calls : cancelled'[d] => pc'[d] \in {"queued", "granted"}
    BY <2>1, <2>7, <1>0
  <2>9. cancelled' \in [Calls -> BOOLEAN]
    BY <2>1, <1>0
  <2> HIDE DEF p
  <2> QED BY <2>1, <2>4, <2>5, <2>7, <2>8, <2>9, <1>0, <1>a
<1>7. ASSUME NEW c \in Calls, Finish(c) PROVE IInv'
  <2> DEFINE p == [pc EXCEPT ![c] = "finished"]
  <2>1. /\ pc[c] = "running" /\ "finished" \in PcStates /\ in_flight' = in_flight - 1
        /\ WakeUpNext(waiters, p, value + 1)
        /\ UNCHANGED <<cancelled, waiters>>
    BY <1>7 DEF Finish, PcStates, Idle
  <2>2. /\ One("finished", Holding) = 0 /\ One("finished", Admitted) = 0
        /\ One(pc[c], Holding) = 1 /\ One(pc[c], Admitted) = 1
    BY <2>1 DEF One, Holding, Admitted
  <2>3. /\ Count(p, Holding) = H - 1 /\ Count(p, Admitted) = A - 1
        /\ p \in [Calls -> PcStates] /\ Count(p, Admitted) \in Nat
    <3>1. /\ p \in [Calls -> PcStates] /\ Count(p, Admitted) \in Nat
          /\ Count(p, Holding) = H + One("finished", Holding) - One(pc[c], Holding)
          /\ Count(p, Admitted) = A + One("finished", Admitted) - One(pc[c], Admitted)
      BY <2>1, <1>m
    <3> QED BY <3>1, <2>1, <2>2, <1>0
  <2>4. \A d \in Calls : Live(d) => p[d] = "queued"
    BY <2>1, <1>0 DEF Live
  <2>5. TypeOK /\ value + 1 \in Nat \ {0}
    BY <1>0 DEF IInv
  <2>6. \A d \in Calls : cancelled[d] => p[d] \in {"queued", "granted"}
    BY <2>1, <1>0
  <2> HIDE DEF p
  <2>7. /\ pc' \in [Calls -> PcStates] /\ value' \in Nat
        /\ value' + Count(pc', Holding) = value + 1 + Count(p, Holding)
        /\ Count(pc', Admitted) = Count(p, Admitted)
        /\ \A d \in Calls : pc'[d] = p[d] \/ (p[d] = "queued" /\ pc'[d] = "granted")
    BY <2>1, <2>3, <2>4, <2>5, <1>0, WakeUp
  <2>8. \A d \in Calls : cancelled'[d] => pc'[d] \in {"queued", "granted"}
    BY <2>1, <2>6, <2>7
  <2> QED BY <2>1, <2>3, <2>7, <2>8, <1>0, <1>a
<1>8. CASE UNCHANGED vars
  BY <1>8, <1>0, <1>a DEF vars, H, A
<1> QED BY <1>1, <1>2, <1>3, <1>4, <1>5, <1>6, <1>7, <1>8 DEF Next

\* The conserved slots bound the running calls.
LEMMA LimitFollows == IInv => ConcurrencyLimit
<1> SUFFICES ASSUME IInv PROVE ConcurrencyLimit
  OBVIOUS
<1>1. At(pc, {"running"}) \subseteq At(pc, Holding) /\ IsFiniteSet(At(pc, Holding))
  BY CallsAssumption, FS_Subset DEF At, Holding
<1>2. /\ Count(pc, {"running"}) <= Count(pc, Holding)
      /\ Count(pc, {"running"}) \in Nat /\ Count(pc, Holding) \in Nat
  BY <1>1, FS_Subset, CountType DEF Count
<1>3. value \in Nat /\ value + Count(pc, Holding) = MaxConcurrency
  BY MaxConcurrencyAssumption DEF IInv, TypeOK, SlotsConserved, Holding
<1> QED BY <1>2, <1>3, MaxConcurrencyAssumption DEF ConcurrencyLimit

\* Bulkhead.execute never runs more than max_concurrency calls at once, loses
\* or invents no slot when waiters are cancelled, and its in_flight is exactly
\* the number of calls inside it, for every number of calls and every limit.
THEOREM BulkheadSafe ==
  Spec => []SlotsAccounted
<1>1. IInv => SlotsAccounted
  BY LimitFollows DEF IInv, SlotsAccounted
<1> QED BY InitIInv, NextIInv, <1>1, PTL DEF Spec

-----------------------------------------------------------------------------
(* The order of the waiters.                                                 *)

Waiting == {"queued", "granted"}

\* The semaphore's queue holds the calls that wait for a slot, each of them once.
QueueExact ==
    /\ \A i \in DOMAIN waiters : pc[waiters[i]] \in Waiting
    /\ \A i, j \in DOMAIN waiters : waiters[i] = waiters[j] => i = j
    /\ \A c \in Calls : pc[c] \in Waiting => \E i \in DOMAIN waiters : waiters[i] = c

OrderInv == IInv /\ QueueExact /\ NoLostWakeup

\* What FifoGrant says of one step.
FifoStep == \A i, j \in DOMAIN waiters :
               i < j /\ Live(waiters[i]) /\ Live(waiters[j])
                     /\ pc'[waiters[j]] \in {"granted", "running"}
                  => pc'[waiters[i]] = "granted"

\* The queue ts is ws without c, whose place, if it had one, is r.
Skip(r, x) == IF x < r THEN x ELSE x + 1
IsThinned(ts, ws, c, r) ==
    /\ \A x \in DOMAIN ts : /\ x \in Nat /\ Skip(r, x) \in DOMAIN ws
                            /\ ts[x] = ws[Skip(r, x)] /\ ts[x] # c
    /\ \A i \in DOMAIN ws : ws[i] # c => \E x \in DOMAIN ts : Skip(r, x) = i

\* RemoveAt moves what is behind place r one place forward.
LEMMA RemoveAtPlaces ==
  ASSUME NEW ws \in Seq(Calls), NEW r \in 1 .. Len(ws)
  PROVE  /\ DOMAIN RemoveAt(ws, r) = 1 .. Len(ws) - 1
         /\ \A x \in 1 .. Len(ws) - 1 : RemoveAt(ws, r)[x] = ws[Skip(r, x)]
<1> DEFINE n == Len(ws)
           front == SubSeq(ws, 1, r - 1)
           back == SubSeq(ws, r + 1, n)
<1>1. n \in Nat /\ DOMAIN ws = 1 .. n /\ \A i \in 1 .. n : ws[i] \in Calls
  BY LenProperties
<1>2. RemoveAt(ws, r) = front \o back
  BY DEF RemoveAt
<1> HIDE DEF n
<1>3. r \in 1 .. n
  BY DEF n
<1>4. /\ front \in Seq(Calls) /\ Len(front) = IF 1 <= r - 1 THEN r - 1 - 1 + 1 ELSE 0
      /\ \A x \in 1 .. r - 1 - 1 + 1 : front[x] = ws[1 + x - 1]
  <2>1. \A i \in 1 .. r - 1 : ws[i] \in Calls
    BY <1>1, <1>3
  <2> QED BY <2>1, <1>1, <1>3, SubSeqProperties
<1>5. /\ back \in Seq(Calls) /\ Len(back) = IF r + 1 <= n THEN n - (r + 1) + 1 ELSE 0
      /\ \A x \in 1 .. n - (r + 1) + 1 : back[x] = ws[(r + 1) + x - 1]
  <2>1. \A i \in r + 1 .. n : ws[i] \in Calls
    BY <1>1, <1>3
  <2> QED BY <2>1, <1>1, <1>3, SubSeqProperties
<1> HIDE DEF front, back
<1>6. Len(front) = r - 1 /\ \A x \in 1 .. r - 1 : front[x] = ws[x]
  BY <1>1, <1>3, <1>4
<1>7. Len(back) = n - r /\ \A x \in 1 .. n - r : back[x] = ws[r + x]
  BY <1>1, <1>3, <1>5
<1>8. /\ Len(front \o back) = Len(front) + Len(back)
      /\ \A x \in 1 .. Len(front) + Len(back) :
           (front \o back)[x] = IF x <= Len(front) THEN front[x] ELSE back[x - Len(front)]
      /\ front \o back \in Seq(Calls)
  BY <1>4, <1>5, ConcatProperties
<1>9. DOMAIN (front \o back) = 1 .. n - 1
  <2>1. DOMAIN (front \o back) = 1 .. Len(front \o back)
    BY <1>8, LenProperties
  <2> QED BY <2>1, <1>1, <1>3, <1>6, <1>7, <1>8
<1>10. ASSUME NEW x \in 1 .. n - 1 PROVE (front \o back)[x] = ws[Skip(r, x)]
  <2>1. (front \o back)[x] = IF x <= r - 1 THEN front[x] ELSE back[x - (r - 1)]
    BY <1>1, <1>3, <1>6, <1>7, <1>8
  <2>2. CASE x < r
    BY <2>1, <2>2, <1>1, <1>3, <1>6 DEF Skip
  <2>3. CASE ~(x < r)
    <3>1. x - (r - 1) \in 1 .. n - r /\ r + (x - (r - 1)) = x + 1 /\ ~(x <= r - 1)
      BY <2>3, <1>1, <1>3
    <3> QED BY <3>1, <2>1, <2>3, <1>7 DEF Skip
  <2> QED BY <2>2, <2>3
<1> QED BY <1>2, <1>9, <1>10 DEF n

\* deque.remove leaves the others in their order.
LEMMA WithoutThins ==
  ASSUME NEW ws \in Seq(Calls), NEW c \in Calls,
         \A i, j \in DOMAIN ws : ws[i] = ws[j] => i = j
  PROVE  \E r \in Nat : IsThinned(Without(ws, c), ws, c, r)
<1>0. Len(ws) \in Nat /\ DOMAIN ws = 1 .. Len(ws)
  OBVIOUS
<1>1. CASE \E i \in DOMAIN ws : ws[i] = c
  <2> DEFINE r == CHOOSE i \in DOMAIN ws : ws[i] = c
             ts == RemoveAt(ws, r)
  <2>1. r \in 1 .. Len(ws) /\ ws[r] = c
    BY <1>1, <1>0
  <2> HIDE DEF r
  <2>2. /\ DOMAIN ts = 1 .. Len(ws) - 1
        /\ \A x \in 1 .. Len(ws) - 1 : ts[x] = ws[Skip(r, x)]
    BY <2>1, <1>0, RemoveAtPlaces
  <2> HIDE DEF ts
  <2>3. \A x \in DOMAIN ts : x \in Nat /\ Skip(r, x) \in DOMAIN ws /\ Skip(r, x) # r
    BY <2>1, <2>2, <1>0 DEF Skip
  <2>4. \A i \in DOMAIN ws : i # r => \E x \in DOMAIN ts : Skip(r, x) = i
    <3> SUFFICES ASSUME NEW i \in DOMAIN ws, i # r PROVE \E x \in DOMAIN ts : Skip(r, x) = i
      OBVIOUS
    <3>1. CASE i < r
      <4>1. i \in DOMAIN ts /\ Skip(r, i) = i
        BY <3>1, <2>1, <2>2, <1>0 DEF Skip
      <4> QED BY <4>1
    <3>2. CASE i > r
      <4>1. i - 1 \in DOMAIN ts /\ Skip(r, i - 1) = i
        BY <3>2, <2>1, <2>2, <1>0 DEF Skip
      <4> QED BY <4>1
    <3> QED BY <3>1, <3>2, <2>1, <1>0
  <2>5. IsThinned(ts, ws, c, r)
    BY <2>1, <2>2, <2>3, <2>4 DEF IsThinned
  <2>6. Without(ws, c) = ts
    BY <1>1 DEF Without, ts, r
  <2> QED BY <2>1, <2>5, <2>6
<1>2. CASE ~\E i \in DOMAIN ws : ws[i] = c
  <2>1. Without(ws, c) = ws
    BY <1>2 DEF Without
  <2>2. \A x \in DOMAIN ws : x \in Nat /\ Skip(Len(ws) + 1, x) = x
    BY <1>0 DEF Skip
  <2>3. IsThinned(ws, ws, c, Len(ws) + 1)
    BY <2>2, <1>2 DEF IsThinned
  <2> QED BY <2>1, <2>3, <1>0
<1> QED BY <1>1, <1>2

\* A call that stops waiting leaves the queue, and the others stay in it.
LEMMA ThinKeepsQueue ==
  ASSUME QueueExact, NEW c \in Calls, NEW r \in Nat, waiters \in Seq(Calls),
         IsThinned(waiters', waiters, c, r), pc'[c] \notin Waiting,
         \A d \in Calls : d # c => pc'[d] = pc[d] \/ (pc[d] = "queued" /\ pc'[d] = "granted")
  PROVE  QueueExact'
<1>1. \A d \in Calls : d # c => (pc'[d] \in Waiting <=> pc[d] \in Waiting)
  BY DEF Waiting
<1>2. \A i \in DOMAIN waiters : waiters[i] \in Calls
  OBVIOUS
<1>3. \A x \in DOMAIN waiters' : pc'[waiters'[x]] \in Waiting
  BY <1>1, <1>2 DEF IsThinned, QueueExact
<1>4. \A x, y \in DOMAIN waiters' : waiters'[x] = waiters'[y] => x = y
  <2> SUFFICES ASSUME NEW x \in DOMAIN waiters', NEW y \in DOMAIN waiters', waiters'[x] = waiters'[y]
               PROVE  x = y
    OBVIOUS
  <2>1. Skip(r, x) = Skip(r, y) /\ x \in Nat /\ y \in Nat
    BY DEF IsThinned, QueueExact
  <2> QED BY <2>1 DEF Skip
<1>5. \A d \in Calls : pc'[d] \in Waiting => \E x \in DOMAIN waiters' : waiters'[x] = d
  <2> SUFFICES ASSUME NEW d \in Calls, pc'[d] \in Waiting
               PROVE  \E x \in DOMAIN waiters' : waiters'[x] = d
    OBVIOUS
  <2>1. PICK i \in DOMAIN waiters : waiters[i] = d
    BY <1>1 DEF QueueExact
  <2> QED BY <2>1 DEF IsThinned
<1> QED BY <1>3, <1>4, <1>5 DEF QueueExact

\* A slot that is passed on goes to the waiter that came first.
LEMMA WakeOrder ==
  ASSUME OrderInv, NEW c \in Calls, NEW b \in {"running", "finished"},
         pc[c] \in {"granted", "running"},
         NEW r \in Nat, IsThinned(waiters', waiters, c, r), NEW v,
         WakeUpNext(waiters', [pc EXCEPT ![c] = b], v),
         cancelled' = cancelled \/ cancelled' = [cancelled EXCEPT ![c] = FALSE]
  PROVE  QueueExact' /\ NoLostWakeup' /\ FifoStep
<1>0. /\ pc \in [Calls -> PcStates] /\ cancelled \in [Calls -> BOOLEAN] /\ waiters \in Seq(Calls)
      /\ QueueExact /\ NoLostWakeup
  BY DEF OrderInv, IInv, TypeOK, PcStates
<1>1. \A i \in DOMAIN waiters : waiters[i] \in Calls
  BY <1>0
<1>2. \A x \in DOMAIN waiters' : /\ x \in Nat /\ Skip(r, x) \in DOMAIN waiters
                                 /\ waiters'[x] = waiters[Skip(r, x)]
                                 /\ waiters'[x] # c /\ waiters'[x] \in Calls
  BY <1>1 DEF IsThinned
<1>3. \A d \in Calls : Live(d) => d # c /\ \E x \in DOMAIN waiters' : waiters'[x] = d
  BY <1>0 DEF Live, QueueExact, Waiting, IsThinned
<1>4. \A d \in Calls : Live(d)' => d # c /\ pc[d] = pc'[d] /\ Live(d)
  <2> SUFFICES ASSUME NEW d \in Calls, pc'[d] = "queued", ~cancelled'[d]
               PROVE  d # c /\ pc[d] = pc'[d] /\ Live(d)
    BY DEF Live
  <2>1. pc'[c] = b /\ (d # c => pc'[d] = pc[d] \/ pc'[d] = "granted")
    BY <1>0, <1>2 DEF WakeUpNext, Candidates
  <2> QED BY <2>1, <1>0 DEF Live
<1>5. CASE Candidates(waiters') = {} /\ pc' = [pc EXCEPT ![c] = b]
  <2>1. \A d \in Calls : ~Live(d)
    BY <1>3, <1>5 DEF Candidates
  <2>2. NoLostWakeup'
    BY <2>1, <1>4 DEF NoLostWakeup
  <2>3. FifoStep
    BY <2>1, <1>1 DEF FifoStep
  <2>4. pc'[c] \notin Waiting /\ \A d \in Calls : d # c => pc'[d] = pc[d]
    BY <1>5, <1>0 DEF Waiting
  <2> QED BY <2>2, <2>3, <2>4, <1>0, ThinKeepsQueue
<1>6. ASSUME NEW k \in Candidates(waiters'), IsFirst(k, Candidates(waiters')),
             pc' = [[pc EXCEPT ![c] = b] EXCEPT ![waiters'[k]] = "granted"]
      PROVE  QueueExact' /\ NoLostWakeup' /\ FifoStep
  <2> DEFINE w == waiters'[k]
  <2>1. k \in DOMAIN waiters' /\ w \in Calls /\ Live(w) /\ w # c
    BY <1>2 DEF Candidates
  <2>2. pc'[w] = "granted" /\ \A d \in Calls : d # c /\ d # w => pc'[d] = pc[d]
    BY <2>1, <1>6, <1>0
  <2>3. pc'[c] = b
    BY <2>1, <1>6, <1>0
  <2>4. NoLostWakeup'
    BY <2>1, <2>2 DEF NoLostWakeup, At
  <2>5. QueueExact'
    BY <2>1, <2>2, <2>3, <1>0, ThinKeepsQueue DEF Waiting, Live
  <2>6. FifoStep
    <3> SUFFICES ASSUME NEW i \in DOMAIN waiters, NEW j \in DOMAIN waiters, i < j,
                        Live(waiters[i]), Live(waiters[j]),
                        pc'[waiters[j]] \in {"granted", "running"}
                 PROVE  pc'[waiters[i]] = "granted"
      BY DEF FifoStep
    <3>1. waiters[i] \in Calls /\ waiters[j] \in Calls /\ waiters[i] # c /\ waiters[j] # c
      BY <1>1, <1>3
    <3>2. waiters[j] = w
      BY <3>1, <2>2, <1>0 DEF Live
    <3>3. PICK x \in DOMAIN waiters' : Skip(r, x) = i
      BY <3>1 DEF IsThinned
    <3>4. x \in Candidates(waiters')
      BY <3>3, <1>2 DEF Candidates
    <3>5. k <= x /\ k \in Nat /\ x \in Nat
      BY <3>4, <2>1, <1>2, <1>6 DEF IsFirst
    <3>6. Skip(r, k) <= i
      BY <3>3, <3>5 DEF Skip
    <3>7. Skip(r, k) = j
      BY <3>2, <2>1, <1>0, <1>2 DEF QueueExact
    <3>8. i \in Nat /\ j \in Nat
      BY <1>0
    <3> QED BY <3>6, <3>7, <3>8
  <2> QED BY <2>4, <2>5, <2>6
<1> QED BY <1>5, <1>6 DEF WakeUpNext

\* A step that grants nothing and lets c go cannot break the order.
LEMMA PlainOrder ==
  ASSUME OrderInv, NEW c \in Calls, NEW b \in PcStates, pc' = [pc EXCEPT ![c] = b],
         ~Live(c)
  PROVE  FifoStep
<1>1. \A i \in DOMAIN waiters : waiters[i] \in Calls
  BY DEF OrderInv, IInv, TypeOK
<1> QED BY <1>1 DEF FifoStep, Live, OrderInv, IInv, TypeOK

\* Every step keeps the queue exact, strands no waiter and grants in order.
LEMMA NextOrder == ASSUME OrderInv, Next PROVE QueueExact' /\ NoLostWakeup' /\ FifoStep
<1>0. /\ pc \in [Calls -> PcStates] /\ cancelled \in [Calls -> BOOLEAN] /\ waiters \in Seq(Calls)
      /\ value \in Nat /\ QueueExact /\ NoLostWakeup
      /\ \A c \in Calls : cancelled[c] => pc[c] \in Waiting
  BY MaxConcurrencyAssumption DEF OrderInv, IInv, TypeOK, PcStates, CancelledWaits, Waiting
<1>1. ASSUME NEW c \in Calls, Shed(c) PROVE QueueExact' /\ NoLostWakeup' /\ FifoStep
  <2>1. /\ pc' = [pc EXCEPT ![c] = "shed"] /\ pc[c] \notin Waiting
        /\ UNCHANGED <<cancelled, in_flight, value, waiters>>
    BY <1>1 DEF Shed, Idle, Waiting
  <2>2. QueueExact'
    BY <2>1, <1>0 DEF QueueExact, Waiting
  <2>3. NoLostWakeup'
    BY <2>1, <1>0 DEF NoLostWakeup, At, Live, Waiting
  <2>4. FifoStep
    BY <2>1, PlainOrder DEF PcStates, Idle, Live, Waiting
  <2> QED BY <2>2, <2>3, <2>4
<1>2. ASSUME NEW c \in Calls, Enter(c) PROVE QueueExact' /\ NoLostWakeup' /\ FifoStep
  <2>1. /\ pc' = [pc EXCEPT ![c] = "running"] /\ pc[c] \notin Waiting /\ ~Locked
        /\ UNCHANGED <<cancelled, waiters>>
    BY <1>2 DEF Enter, Idle, Waiting
  <2>2. QueueExact'
    BY <2>1, <1>0 DEF QueueExact, Waiting
  <2>3. \A d \in Calls : ~Live(d)
    BY <2>1, <1>0 DEF Locked, QueueExact, Live, Waiting
  <2>4. NoLostWakeup'
    BY <2>1, <2>3, <1>0 DEF NoLostWakeup, Live
  <2>5. FifoStep
    BY <2>1, PlainOrder DEF PcStates, Admitted, Live, Waiting
  <2> QED BY <2>2, <2>4, <2>5
<1>3. ASSUME NEW c \in Calls, Enqueue(c) PROVE QueueExact' /\ NoLostWakeup' /\ FifoStep
  <2>1. /\ pc' = [pc EXCEPT ![c] = "queued"] /\ pc[c] \notin Waiting /\ Locked
        /\ waiters' = Append(waiters, c)
        /\ UNCHANGED <<cancelled, value>>
    BY <1>3 DEF Enqueue, Idle, Waiting
  <2>2. /\ Len(waiters) \in Nat /\ DOMAIN waiters = 1 .. Len(waiters)
        /\ DOMAIN waiters' = 1 .. Len(waiters) + 1
        /\ waiters'[Len(waiters) + 1] = c
        /\ \A i \in 1 .. Len(waiters) : waiters'[i] = waiters[i]
    BY <2>1, <1>0
  <2>3. QueueExact'
    <3>1. \A i \in DOMAIN waiters : waiters[i] # c /\ waiters[i] \in Calls
      BY <2>1, <1>0 DEF QueueExact
    <3>2. \A i \in DOMAIN waiters' : pc'[waiters'[i]] \in Waiting
      BY <2>1, <2>2, <3>1, <1>0 DEF QueueExact, Waiting
    <3>3. \A i, j \in DOMAIN waiters' : waiters'[i] = waiters'[j] => i = j
      BY <2>2, <3>1, <1>0 DEF QueueExact
    <3>4. \A d \in Calls : pc'[d] \in Waiting => \E i \in DOMAIN waiters' : waiters'[i] = d
      <4> SUFFICES ASSUME NEW d \in Calls, pc'[d] \in Waiting
                   PROVE  \E i \in DOMAIN waiters' : waiters'[i] = d
        OBVIOUS
      <4>1. CASE d = c
        BY <4>1, <2>2
      <4>2. CASE d # c
        <5>1. PICK i \in DOMAIN waiters : waiters[i] = d
          BY <4>2, <2>1, <1>0 DEF QueueExact
        <5> QED BY <5>1, <2>2
      <4> QED BY <4>1, <4>2
    <3> QED BY <3>2, <3>3, <3>4 DEF QueueExact
  <2>4. NoLostWakeup'
    <3> SUFFICES ASSUME value > 0 PROVE \E d \in Calls : pc'[d] = "granted"
      BY <2>1 DEF NoLostWakeup, At
    <3>1. \A i \in DOMAIN waiters : waiters[i] \in Calls
      BY <1>0
    <3>2. \E d \in Calls : pc[d] = "granted"
      BY <2>1, <3>1, <1>0 DEF Locked, NoLostWakeup, At
    <3> QED BY <3>2, <2>1, <1>0 DEF Waiting
  <2>5. FifoStep
    BY <2>1, PlainOrder DEF PcStates, Admitted, Live, Waiting
  <2> QED BY <2>3, <2>4, <2>5
<1>4. ASSUME NEW c \in Calls, Resume(c) PROVE QueueExact' /\ NoLostWakeup' /\ FifoStep
  <2>1. /\ pc[c] = "granted" /\ waiters' = Without(waiters, c) /\ cancelled' = cancelled
        /\ IF value > 0 THEN WakeUpNext(waiters', [pc EXCEPT ![c] = "running"], value)
                        ELSE pc' = [pc EXCEPT ![c] = "running"] /\ value' = value
    BY <1>4 DEF Resume
  <2>2. PICK r \in Nat : IsThinned(waiters', waiters, c, r)
    BY <2>1, <1>0, WithoutThins DEF QueueExact
  <2>3. CASE value > 0
    BY <2>1, <2>2, <2>3, WakeOrder
  <2>4. CASE ~(value > 0)
    <3>1. pc' = [pc EXCEPT ![c] = "running"] /\ ~(value' > 0)
      BY <2>1, <2>4
    <3>2. QueueExact'
      BY <3>1, <2>2, <1>0, ThinKeepsQueue DEF Waiting
    <3>3. FifoStep
      BY <3>1, <2>1, PlainOrder DEF PcStates, Admitted, Live
    <3> QED BY <3>1, <3>2, <3>3 DEF NoLostWakeup
  <2> QED BY <2>3, <2>4
<1>5. ASSUME NEW c \in Calls, Cancel(c) PROVE QueueExact' /\ NoLostWakeup' /\ FifoStep
  <2>1. /\ cancelled' = [cancelled EXCEPT ![c] = TRUE] /\ UNCHANGED <<pc, in_flight, value, waiters>>
    BY <1>5 DEF Cancel
  <2>2. QueueExact' /\ FifoStep
    BY <2>1, <1>0 DEF QueueExact, FifoStep, Live
  <2>3. \A d \in Calls : Live(d)' => Live(d)
    BY <2>1, <1>0 DEF Live
  <2> QED BY <2>1, <2>2, <2>3, <1>0 DEF NoLostWakeup, At
<1>6. ASSUME NEW c \in Calls, Unwind(c) PROVE QueueExact' /\ NoLostWakeup' /\ FifoStep
  <2>1. /\ cancelled[c] /\ cancelled' = [cancelled EXCEPT ![c] = FALSE]
        /\ waiters' = Without(waiters, c)
        /\ IF pc[c] = "granted" THEN WakeUpNext(waiters', [pc EXCEPT ![c] = "finished"], value + 1)
                                ELSE pc' = [pc EXCEPT ![c] = "finished"] /\ value' = value
    BY <1>6 DEF Unwind
  <2>2. PICK r \in Nat : IsThinned(waiters', waiters, c, r)
    BY <2>1, <1>0, WithoutThins DEF QueueExact
  <2>3. CASE pc[c] = "granted"
    BY <2>1, <2>2, <2>3, WakeOrder
  <2>4. CASE pc[c] # "granted"
    <3>1. pc' = [pc EXCEPT ![c] = "finished"] /\ value' = value
      BY <2>1, <2>4
    <3>2. QueueExact'
      BY <3>1, <2>2, <1>0, ThinKeepsQueue DEF Waiting
    <3>3. FifoStep
      BY <3>1, <2>1, PlainOrder DEF PcStates, Idle, Live
    <3>4. \A d \in Calls : (Live(d)' => Live(d)) /\ (pc[d] = "granted" => pc'[d] = "granted")
      BY <3>1, <2>1, <2>4, <1>0 DEF Live
    <3>5. NoLostWakeup'
      BY <3>1, <3>4, <1>0 DEF NoLostWakeup, At
    <3> QED BY <3>2, <3>3, <3>5
  <2> QED BY <2>3, <2>4
<1>7. ASSUME NEW c \in Calls, Finish(c) PROVE QueueExact' /\ NoLostWakeup' /\ FifoStep
  <2>1. /\ pc[c] = "running" /\ WakeUpNext(waiters, [pc EXCEPT ![c] = "finished"], value + 1)
        /\ UNCHANGED <<cancelled, waiters>>
    BY <1>7 DEF Finish
  <2>2. Len(waiters) + 1 \in Nat /\ \A x \in DOMAIN waiters : x \in Nat /\ Skip(Len(waiters) + 1, x) = x
    BY <1>0 DEF Skip
  <2>3. \A x \in DOMAIN waiters : waiters[x] # c
    BY <2>1, <1>0 DEF QueueExact, Waiting
  <2>4. IsThinned(waiters', waiters, c, Len(waiters) + 1)
    BY <2>1, <2>2, <2>3 DEF IsThinned
  <2>5. WakeUpNext(waiters', [pc EXCEPT ![c] = "finished"], value + 1)
    BY <2>1
  <2> QED BY <2>1, <2>2, <2>4, <2>5, WakeOrder
<1> QED BY <1>1, <1>2, <1>3, <1>4, <1>5, <1>6, <1>7 DEF Next

\* For any calls and limits, a free slot is never left beside a waiter that nobody is
\* going to wake, and slots go to the waiters in the order they came, whoever is
\* cancelled in between.
THEOREM BulkheadWakesInOrder == Spec => WakesInOrder
<1>1. Init => OrderInv
  <2> SUFFICES ASSUME Init PROVE QueueExact /\ NoLostWakeup
    BY InitIInv DEF OrderInv
  <2> QED BY DEF Init, QueueExact, NoLostWakeup, Waiting, Live
<1>2. OrderInv /\ [Next]_vars => OrderInv' /\ [FifoStep]_vars
  <2> SUFFICES ASSUME OrderInv, [Next]_vars PROVE OrderInv' /\ [FifoStep]_vars
    OBVIOUS
  <2>1. IInv'
    BY NextIInv DEF OrderInv
  <2>2. CASE Next
    BY <2>1, <2>2, NextOrder DEF OrderInv
  <2>3. CASE UNCHANGED vars
    BY <2>1, <2>3 DEF vars, OrderInv, QueueExact, NoLostWakeup, Live, At
  <2> QED BY <2>2, <2>3
<1>3. OrderInv => NoLostWakeup
  BY DEF OrderInv
<1>4. [][FifoStep]_vars <=> FifoGrant
  BY DEF FifoGrant, FifoStep
<1> QED BY <1>1, <1>2, <1>3, <1>4, PTL DEF Spec, WakesInOrder
=============================================================================
