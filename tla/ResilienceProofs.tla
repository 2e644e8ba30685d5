--------------------------- MODULE ResilienceProofs ---------------------------
(***************************************************************************)
(* The idempotency middleware, the saga, the cache-aside and the senders   *)
(* with their retries, each on its own: for any deliveries, headers and    *)
(* ttl, any number of steps, any callers and bounds, any headers sent in   *)
(* any number of attempts.                                                 *)
(***************************************************************************)
EXTENDS Idempotency, Saga, CacheAside, Outbound,
        SequenceTheorems, FiniteSetTheorems, WellFoundedInduction, TLAPS

-----------------------------------------------------------------------------
(* Idempotency.                                                              *)

\* What is stored under a key is a success for that key, until its ttl has passed.
StoredSuccess ==
    \A k \in DOMAIN entries :
        /\ entries[k].by \in Effects(k)
        /\ entries[k].expires = IF HasTtl THEN done_at[entries[k].by] + Ttl ELSE Never

\* A success is in the store, or a later one for its key is, or its ttl has passed.
Remembered ==
    \A e \in Deliveries :
        pc[e] = "succeeded" =>
            /\ done_at[e] <= now
            /\ \/ KeyOf(e) = Absent
               \/ HasTtl /\ now >= done_at[e] + Ttl
               \/ /\ KeyOf(e) \in DOMAIN entries
                  /\ HasTtl => entries[KeyOf(e)].expires >= done_at[e] + Ttl

IdemInv == TypeOK /\ StoredSuccess /\ Remembered /\ ReplaysSuccess

\* What DedupWhileRemembered and NoStaleReplay say of one step.
DedupStep ==
    \A d, e \in Deliveries :
          /\ pc[d] = "new" /\ pc'[d] = "handling"
          /\ pc[e] = "succeeded" /\ KeyOf(e) = KeyOf(d) /\ KeyOf(d) # Absent
          => HasTtl /\ now >= done_at[e] + Ttl
FreshStep ==
    \A d \in Deliveries :
          pc[d] = "new" /\ pc'[d] = "replayed"
          => ~HasTtl \/ now < done_at[source'[d]] + Ttl

\* The facts of the invariant that the steps below use.
LEMMA IdemFacts ==
    ASSUME IdemInv
    PROVE  /\ now \in Nat /\ now <= MaxTime /\ Ttl \in Nat /\ MaxTime \in Nat /\ Never \in Nat
           /\ now < Never /\ now + Ttl < Never
           /\ \A d \in Deliveries : done_at[d] \in Nat /\ KeyOf(d) \in Keys \cup {Absent}
           /\ \A k \in DOMAIN entries : /\ k \in Keys /\ k # Absent
                                        /\ entries[k].by \in Deliveries /\ entries[k].expires \in Nat
BY TtlAssumption DEF IdemInv, TypeOK, Never, Keys

\* Nothing is stored and nothing has run at first.
LEMMA InitIdem == Init => IdemInv
BY TtlAssumption DEF Init, IdemInv, TypeOK, StoredSuccess, Remembered, ReplaysSuccess, Never, Nobody

\* A replay hands out what is stored.
LEMMA ReplayIdem ==
    ASSUME IdemInv, NEW d \in Deliveries, Replay(d)
    PROVE  IdemInv' /\ DedupStep /\ FreshStep
<1> DEFINE by == entries[KeyOf(d)].by
<1>0. /\ pc[d] = "new" /\ KeyOf(d) \in DOMAIN entries /\ now < entries[KeyOf(d)].expires
      /\ pc' = [pc EXCEPT ![d] = "replayed"]
      /\ source' = [source EXCEPT ![d] = by]
      /\ UNCHANGED <<entries, now, done_at>>
      /\ TypeOK /\ StoredSuccess /\ Remembered /\ ReplaysSuccess
  BY DEF Replay, Remembers, IdemInv
<1>1. by \in Effects(KeyOf(d)) /\ by \in Deliveries /\ by # d
  BY <1>0, IdemFacts DEF StoredSuccess, Effects
<1>2. \A k : Effects(k)' = Effects(k)
  BY <1>0 DEF Effects, TypeOK
<1> HIDE DEF by
<1>3. TypeOK'
  BY <1>0, <1>1 DEF TypeOK, Never, Keys
<1>4. StoredSuccess'
  BY <1>0, <1>2 DEF StoredSuccess
<1>5. Remembered'
  BY <1>0 DEF Remembered, TypeOK
<1>6. ReplaysSuccess'
  BY <1>0, <1>1, <1>2 DEF ReplaysSuccess, TypeOK
<1>7. DedupStep
  BY <1>0 DEF DedupStep, TypeOK
<1>8. FreshStep
  <2>1. HasTtl => now < done_at[by] + Ttl
    BY <1>0, TtlAssumption DEF StoredSuccess, by
  <2> QED
    BY <2>1, <1>0 DEF FreshStep, TypeOK
<1> QED
  BY <1>3, <1>4, <1>5, <1>6, <1>7, <1>8 DEF IdemInv

\* The handler starts only once the store has forgotten every success for the key.
LEMMA BeginIdem ==
    ASSUME IdemInv, NEW d \in Deliveries, Begin(d)
    PROVE  IdemInv' /\ DedupStep /\ FreshStep
<1>0. /\ pc[d] = "new" /\ pc' = [pc EXCEPT ![d] = "handling"]
      /\ entries' = [k \in DOMAIN entries \ {KeyOf(d)} |-> entries[k]]
      /\ UNCHANGED <<now, source, done_at>>
      /\ TypeOK /\ StoredSuccess /\ Remembered /\ ReplaysSuccess
  BY DEF Begin, IdemInv
<1>1. KeyOf(d) = Absent \/ KeyOf(d) \notin DOMAIN entries \/ now >= entries[KeyOf(d)].expires
  BY IdemFacts DEF Begin, Remembers
<1>2. \A k : Effects(k)' = Effects(k)
  BY <1>0 DEF Effects, TypeOK
<1>3. ASSUME NEW e \in Deliveries, pc[e] = "succeeded", KeyOf(e) = KeyOf(d), KeyOf(d) # Absent
      PROVE  HasTtl /\ now >= done_at[e] + Ttl
  <2> SUFFICES ASSUME KeyOf(d) \in DOMAIN entries, HasTtl => entries[KeyOf(d)].expires >= done_at[e] + Ttl
               PROVE  HasTtl /\ now >= done_at[e] + Ttl
    BY <1>0, <1>1, <1>3 DEF Remembered
  <2>1. now >= entries[KeyOf(d)].expires
    BY <1>1, <1>3
  <2>2. HasTtl
    BY <2>1, <1>0, IdemFacts, TtlAssumption DEF StoredSuccess
  <2> QED
    BY <2>1, <2>2, IdemFacts
<1>4. TypeOK'
  BY <1>0 DEF TypeOK, Never, Keys
<1>5. StoredSuccess'
  BY <1>0, <1>2 DEF StoredSuccess
<1>6. Remembered'
  <2> SUFFICES ASSUME NEW e \in Deliveries, pc'[e] = "succeeded"
               PROVE  /\ done_at[e] <= now
                      /\ \/ KeyOf(e) = Absent
                         \/ HasTtl /\ now >= done_at[e] + Ttl
                         \/ /\ KeyOf(e) \in DOMAIN entries'
                            /\ HasTtl => entries'[KeyOf(e)].expires >= done_at[e] + Ttl
    BY <1>0 DEF Remembered
  <2>1. pc[e] = "succeeded"
    BY <1>0 DEF TypeOK
  <2> QED
    BY <2>1, <1>0, <1>3 DEF Remembered
<1>7. ReplaysSuccess'
  BY <1>0, <1>2 DEF ReplaysSuccess, TypeOK
<1>8. DedupStep /\ FreshStep
  BY <1>0, <1>3 DEF DedupStep, FreshStep, TypeOK
<1> QED
  BY <1>4, <1>5, <1>6, <1>7, <1>8 DEF IdemInv

\* A success replaces what the store has for its key, and nothing else is stored.
LEMMA EndIdem ==
    ASSUME IdemInv, NEW d \in Deliveries, NEW outcome \in Outcomes, End(d, outcome)
    PROVE  IdemInv' /\ DedupStep /\ FreshStep
<1> DEFINE saved == [by |-> d, expires |-> IF HasTtl THEN now + Ttl ELSE Never]
<1>0. /\ pc[d] = "handling" /\ pc' = [pc EXCEPT ![d] = IF outcome = "ok" THEN "succeeded" ELSE "failed"]
      /\ source' = [source EXCEPT ![d] = IF outcome \in {"raised", "none"} THEN Nobody ELSE d]
      /\ done_at' = [done_at EXCEPT ![d] = IF outcome = "ok" THEN now ELSE Never]
      /\ now' = now
      /\ TypeOK /\ StoredSuccess /\ Remembered /\ ReplaysSuccess
  BY DEF End, IdemInv
<1>1. \/ /\ KeyOf(d) # Absent /\ outcome = "ok"
         /\ entries' = [k \in DOMAIN entries \cup {KeyOf(d)} |-> IF k # KeyOf(d) THEN entries[k] ELSE saved]
      \/ /\ KeyOf(d) = Absent \/ outcome # "ok"
         /\ entries' = entries
  BY DEF End, PutWhenSuccessful
<1>2. \A k : Effects(k) \subseteq Effects(k)' /\ d \notin Effects(k)
  BY <1>0 DEF Effects, TypeOK
<1>3. outcome = "ok" => d \in Effects(KeyOf(d))' /\ done_at'[d] = now
  BY <1>0 DEF Effects, TypeOK
<1>4. \A e \in Deliveries : e # d => pc'[e] = pc[e] /\ done_at'[e] = done_at[e] /\ source'[e] = source[e]
  BY <1>0 DEF TypeOK
<1>5. \A k \in DOMAIN entries : entries[k].by # d
  BY <1>0, <1>2 DEF StoredSuccess
<1>6. saved.by = d /\ saved.expires = (IF HasTtl THEN now + Ttl ELSE Never) /\ saved.expires \in 0 .. Never
  BY IdemFacts, TtlAssumption
<1> HIDE DEF saved
<1>7. KeyOf(d) # Absent => KeyOf(d) \in Keys
  BY DEF Keys
<1>8. TypeOK'
  <2>1. /\ DOMAIN entries' \subseteq Keys
        /\ \A k \in DOMAIN entries' : entries'[k].by \in Deliveries /\ entries'[k].expires \in 0 .. Never
    BY <1>0, <1>1, <1>6, <1>7 DEF TypeOK
  <2>2. now \in 0 .. Never /\ Never \in 0 .. Never
    BY IdemFacts
  <2>3. done_at' \in [Deliveries -> 0 .. Never]
    BY <2>2, <1>0 DEF TypeOK
  <2>4. source' \in [Deliveries -> Deliveries \cup {Nobody}]
    BY <1>0 DEF TypeOK
  <2> QED
    BY <2>1, <2>3, <2>4, <1>0 DEF TypeOK, Never, Keys
<1>9. StoredSuccess'
  <2> SUFFICES ASSUME NEW k \in DOMAIN entries'
               PROVE  /\ entries'[k].by \in Effects(k)'
                      /\ entries'[k].expires = IF HasTtl THEN done_at'[entries'[k].by] + Ttl ELSE Never
    BY DEF StoredSuccess, Never
  <2>1. CASE k \in DOMAIN entries /\ entries'[k] = entries[k]
    BY <2>1, <1>0, <1>2, <1>4, <1>5, IdemFacts DEF StoredSuccess
  <2>2. CASE k = KeyOf(d) /\ outcome = "ok" /\ entries'[k] = saved
    BY <2>2, <1>3, <1>6
  <2> QED
    BY <2>1, <2>2, <1>1
<1>10. Remembered'
  <2> SUFFICES ASSUME NEW e \in Deliveries, pc'[e] = "succeeded"
               PROVE  /\ done_at'[e] <= now
                      /\ \/ KeyOf(e) = Absent
                         \/ HasTtl /\ now >= done_at'[e] + Ttl
                         \/ /\ KeyOf(e) \in DOMAIN entries'
                            /\ HasTtl => entries'[KeyOf(e)].expires >= done_at'[e] + Ttl
    BY <1>0 DEF Remembered
  <2>1. CASE e = d
    <3>1. outcome = "ok"
      BY <2>1, <1>0 DEF TypeOK
    <3> QED
      BY <3>1, <2>1, <1>1, <1>3, <1>6, IdemFacts
  <2>2. CASE e # d
    <3>1. pc[e] = "succeeded" /\ done_at'[e] = done_at[e] /\ done_at[e] <= now
      BY <2>2, <1>0, <1>4 DEF Remembered
    <3>2. KeyOf(e) \in DOMAIN entries =>
            KeyOf(e) \in DOMAIN entries' /\ (entries'[KeyOf(e)] = entries[KeyOf(e)] \/ entries'[KeyOf(e)] = saved)
      BY <1>1
    <3>3. HasTtl => saved.expires >= done_at[e] + Ttl
      BY <3>1, <1>6, IdemFacts
    <3> QED
      BY <3>1, <3>2, <3>3, <1>0 DEF Remembered
  <2> QED
    BY <2>1, <2>2
<1>11. ReplaysSuccess'
  <2> SUFFICES ASSUME NEW e \in Deliveries, pc'[e] = "replayed" PROVE source'[e] \in Effects(KeyOf(e))'
    BY DEF ReplaysSuccess, KeyOf
  <2>1. e # d
    BY <1>0 DEF TypeOK
  <2> QED
    BY <2>1, <1>0, <1>2, <1>4 DEF ReplaysSuccess
<1>12. DedupStep /\ FreshStep
  BY <1>0 DEF DedupStep, FreshStep, TypeOK
<1> QED
  BY <1>8, <1>9, <1>10, <1>11, <1>12 DEF IdemInv

\* Time passes; nothing else changes.
LEMMA TickIdem == ASSUME IdemInv, Tick PROVE IdemInv' /\ DedupStep /\ FreshStep
<1>0. /\ now' = now + 1 /\ now < MaxTime /\ UNCHANGED <<pc, entries, source, done_at>>
      /\ TypeOK /\ StoredSuccess /\ Remembered /\ ReplaysSuccess
  BY DEF Tick, IdemInv
<1>1. TypeOK'
  BY <1>0, TtlAssumption DEF TypeOK, Never, Keys
<1>2. StoredSuccess' /\ ReplaysSuccess'
  BY <1>0 DEF StoredSuccess, ReplaysSuccess, Effects, Never
<1>3. Remembered'
  BY <1>0, IdemFacts DEF Remembered
<1>4. DedupStep /\ FreshStep
  BY <1>0 DEF DedupStep, FreshStep
<1> QED
  BY <1>1, <1>2, <1>3, <1>4 DEF IdemInv

\* Every step keeps the invariant, and is neither a repetition nor a stale replay.
LEMMA NextIdem == IdemInv /\ [Next]_vars => IdemInv' /\ [DedupStep]_vars /\ [FreshStep]_vars
<1> SUFFICES ASSUME IdemInv, [Next]_vars PROVE IdemInv' /\ [DedupStep]_vars /\ [FreshStep]_vars
  OBVIOUS
<1>1. CASE UNCHANGED vars
  <2>1. TypeOK'
    BY <1>1 DEF vars, IdemInv, TypeOK, Never, Keys
  <2>2. StoredSuccess' /\ Remembered' /\ ReplaysSuccess'
    BY <1>1 DEF vars, IdemInv, StoredSuccess, Remembered, ReplaysSuccess, Effects, Never
  <2> QED
    BY <2>1, <2>2, <1>1 DEF IdemInv
<1> QED
  BY <1>1, ReplayIdem, BeginIdem, EndIdem, TickIdem DEF Next

\* For any messages, headers and ttl: while a success is remembered, the handler does
\* not start again for its key, however deliveries overlap.
THEOREM IdempotencyDedups == Spec => DedupWhileRemembered
<1>1. [][DedupStep]_vars <=> DedupWhileRemembered
  BY DEF DedupStep, DedupWhileRemembered
<1> QED
  BY <1>1, InitIdem, NextIdem, PTL DEF Spec

\* For any messages, headers and ttl: what is replayed is a success for the same key
\* whose ttl has not passed.
THEOREM IdempotencyReplaysHonestly == Spec => ReplaysHonestly
<1>1. [][FreshStep]_vars <=> NoStaleReplay
  BY DEF FreshStep, NoStaleReplay
<1>2. IdemInv => TypeOK /\ ReplaysSuccess
  BY DEF IdemInv
<1> QED
  BY <1>1, <1>2, InitIdem, NextIdem, PTL DEF Spec, ReplaysHonestly

-----------------------------------------------------------------------------
(* Saga.                                                                     *)

\* The steps the report names so far.
Named == ToSet(compensated) \cup ToSet(compensationFailures)

SagaType ==
    /\ undoable \subseteq 1..SagaSteps
    /\ sagaPhase \in {"ahead", "back", "reported", "cancelled"}
    /\ completed \in Seq(Nat) /\ toUndo \in Seq(Nat)
    /\ compensated \in Seq(Nat) /\ compensationFailures \in Seq(Nat)
    /\ failedStep \in Nat
    /\ Len(completed) <= SagaSteps /\ \A i \in 1..Len(completed) : completed[i] = i

\* Before a step has failed, the effects are those of the completed steps; only a
\* cancelled action leaves that open.
Ahead ==
    /\ sagaPhase # "back"
    /\ compensated = <<>> /\ compensationFailures = <<>>
    /\ sagaPhase \in {"ahead", "reported"} => effects = 1..Len(completed)
    /\ sagaPhase = "reported" => Len(completed) = SagaSteps

\* Afterwards toUndo counts down to the first step; every step above it that can be
\* undone has been named, and named once; of the effects, those the report owes an
\* explanation for are left.
Rollback ==
    /\ sagaPhase # "ahead"
    /\ failedStep = Len(completed) + 1
    /\ Len(toUndo) <= Len(completed)
    /\ \A i \in 1..Len(toUndo) : toUndo[i] = Len(toUndo) + 1 - i
    /\ sagaPhase = "reported" => Len(toUndo) = 0
    /\ Named = undoable \cap ((Len(toUndo) + 1)..Len(completed))
    /\ Len(compensated) + Len(compensationFailures) = Cardinality(Named)
    /\ effects \subseteq {failedStep} \cup 1..Len(toUndo) \cup ((1..Len(completed)) \ undoable)
                         \cup ToSet(compensationFailures)

SagaInv == SagaType /\ IF failedStep = 0 THEN Ahead ELSE Rollback

\* What a list has once something was appended to it.
LEMMA AppendFacts ==
    ASSUME NEW s \in Seq(Nat), NEW x \in Nat
    PROVE  /\ Append(s, x) \in Seq(Nat) /\ Len(Append(s, x)) = Len(s) + 1 /\ Len(s) \in Nat
           /\ ToSet(Append(s, x)) = ToSet(s) \cup {x}
           /\ \A i \in 1..Len(s) : Append(s, x)[i] = s[i]
           /\ Append(s, x)[Len(s) + 1] = x
<1>1. /\ Append(s, x) \in Seq(Nat) /\ Len(Append(s, x)) = Len(s) + 1 /\ Len(s) \in Nat
      /\ \A i \in 1..Len(s) : Append(s, x)[i] = s[i]
      /\ Append(s, x)[Len(s) + 1] = x
  BY AppendProperties, LenProperties
<1>2. DOMAIN s = 1..Len(s) /\ DOMAIN Append(s, x) = 1..(Len(s) + 1)
  BY <1>1, LenProperties
<1>3. ToSet(Append(s, x)) = ToSet(s) \cup {x}
  <2>1. \A i \in 1..(Len(s) + 1) : i \in 1..Len(s) \/ i = Len(s) + 1
    BY <1>1
  <2>2. 1..Len(s) \subseteq 1..(Len(s) + 1) /\ Len(s) + 1 \in 1..(Len(s) + 1)
    BY <1>1
  <2> QED
    BY <2>1, <2>2, <1>1, <1>2 DEF ToSet
<1> QED
  BY <1>1, <1>3

\* The saga starts in the invariant.
LEMMA InitSaga == SagaInit => SagaInv
<1> SUFFICES ASSUME SagaInit PROVE SagaInv
  OBVIOUS
<1>1. <<>> \in Seq(Nat) /\ Len(<<>>) = 0
  BY EmptySeq
<1> QED
  BY <1>1, SagaStepsAssumption DEF SagaInit, SagaStart, SagaInv, SagaType, Ahead

\* While the steps run.
LEMMA AheadSaga ==
    ASSUME SagaInv, StepSucceeds \/ StepFails \/ AllSucceeded PROVE SagaInv'
<1>0. /\ SagaType /\ sagaPhase = "ahead" /\ failedStep = 0 /\ Ahead
      /\ Len(completed) \in Nat /\ SagaSteps \in Nat /\ undoable' = undoable
  BY LenProperties, SagaStepsAssumption
     DEF SagaInv, SagaType, Rollback, StepSucceeds, StepFails, AllSucceeded
<1>1. CASE StepSucceeds
  <2>1. /\ completed' = Append(completed, Len(completed) + 1) /\ Len(completed) + 1 <= SagaSteps
        /\ effects' = effects \cup {Len(completed) + 1}
        /\ UNCHANGED <<sagaPhase, toUndo, compensated, compensationFailures, failedStep>>
    BY <1>1 DEF StepSucceeds, NextStep
  <2>2. /\ completed' \in Seq(Nat) /\ Len(completed') = Len(completed) + 1
        /\ \A i \in 1..Len(completed) : completed'[i] = completed[i]
        /\ completed'[Len(completed) + 1] = Len(completed) + 1
    BY <2>1, <1>0, AppendFacts DEF SagaType
  <2>3. SagaType'
    BY <2>1, <2>2, <1>0 DEF SagaType
  <2>4. effects' = 1..Len(completed')
    BY <2>1, <2>2, <1>0 DEF Ahead
  <2> QED
    BY <2>1, <2>3, <2>4, <1>0 DEF SagaInv, Ahead
<1>2. CASE StepFails
  <2>1. /\ Len(completed) + 1 <= SagaSteps /\ sagaPhase' = "back" /\ failedStep' = Len(completed) + 1
        /\ toUndo' = Reverse(completed)
        /\ effects' \subseteq effects \cup {Len(completed) + 1}
        /\ UNCHANGED <<completed, compensated, compensationFailures>>
    BY <1>2 DEF StepFails, NextStep
  <2>2. /\ toUndo' \in Seq(Nat) /\ Len(toUndo') = Len(completed)
        /\ \A i \in 1..Len(completed) : toUndo'[i] = Len(completed) + 1 - i
    <3>1. completed \in Seq(Nat) /\ DOMAIN completed = 1..Len(completed)
          /\ \A i \in 1..Len(completed) : completed[i] = i
      BY <1>0, LenProperties DEF SagaType
    <3>2. toUndo' = [i \in 1..Len(completed) |-> completed[Len(completed) - i + 1]]
      BY <2>1 DEF Reverse
    <3>3. \A i \in 1..Len(completed) : /\ Len(completed) - i + 1 \in 1..Len(completed)
                                       /\ toUndo'[i] = Len(completed) + 1 - i
                                       /\ toUndo'[i] \in Nat
      BY <1>0, <3>1, <3>2
    <3>4. toUndo' \in [1..Len(completed) -> Nat]
      BY <3>2, <3>3
    <3>5. toUndo' \in Seq(Nat) /\ Len(toUndo') = Len(completed)
      BY <1>0, <3>4
    <3> QED
      BY <3>3, <3>5
  <2>3. SagaType'
    BY <2>1, <2>2, <1>0 DEF SagaType
  <2>4. ToSet(compensated') = {} /\ ToSet(compensationFailures') = {}
        /\ Len(compensated') = 0 /\ Len(compensationFailures') = 0
    BY <2>1, <1>0 DEF Ahead, ToSet
  <2>5. Named' = {} /\ Cardinality(Named') = 0
    BY <2>4, FS_EmptySet DEF Named
  <2>6. Rollback'
    BY <2>1, <2>2, <2>4, <2>5, <1>0 DEF Rollback, Ahead
  <2> QED
    BY <2>1, <2>3, <2>6, <1>0 DEF SagaInv
<1>3. CASE AllSucceeded
  BY <1>3, <1>0 DEF AllSucceeded, NextStep, SagaInv, SagaType, Ahead
<1> QED
  BY <1>1, <1>2, <1>3

\* One step of the way back, after which m steps are left to visit.
LEMMA CountdownFacts ==
    ASSUME SagaType, Rollback, toUndo # <<>>
    PROVE  LET m == Len(toUndo) - 1 IN
           /\ m \in Nat /\ m + 1 <= Len(completed) /\ Len(completed) \in Nat
           /\ Head(toUndo) = m + 1 /\ Head(toUndo) \in Nat /\ Head(toUndo) \notin Named
           /\ Tail(toUndo) \in Seq(Nat) /\ Len(Tail(toUndo)) = m
           /\ \A i \in 1..m : Tail(toUndo)[i] = m + 1 - i
           /\ IsFiniteSet(Named) /\ Cardinality(Named) \in Nat
<1>1. /\ Tail(toUndo) \in Seq(Nat) /\ Len(Tail(toUndo)) = Len(toUndo) - 1
      /\ \A i \in 1..Len(Tail(toUndo)) : Tail(toUndo)[i] = toUndo[i + 1]
      /\ Len(toUndo) \in Nat /\ Len(completed) \in Nat
  BY HeadTailProperties, LenProperties DEF SagaType
<1>2. Len(toUndo) # 0 /\ Head(toUndo) = toUndo[1]
  BY EmptySeq DEF SagaType
<1>3. Head(toUndo) = Len(toUndo)
  BY <1>1, <1>2 DEF Rollback
<1>4. \A i \in 1..(Len(toUndo) - 1) : Tail(toUndo)[i] = Len(toUndo) - 1 + 1 - i
  <2> SUFFICES ASSUME NEW i \in 1..(Len(toUndo) - 1) PROVE Tail(toUndo)[i] = Len(toUndo) - i
    BY <1>1
  <2>1. i + 1 \in 1..Len(toUndo) /\ Tail(toUndo)[i] = toUndo[i + 1]
    BY <1>1
  <2> QED
    BY <2>1, <1>1 DEF Rollback
<1>5. IsFiniteSet(Named) /\ Cardinality(Named) \in Nat
  <2>1. IsFiniteSet(1..SagaSteps)
    BY SagaStepsAssumption, FS_Interval
  <2>2. Named \in SUBSET (1..SagaSteps)
    BY DEF Rollback, SagaType
  <2> QED
    BY <2>1, <2>2, FS_Subset, FS_CardinalityType
<1>6. Head(toUndo) \notin Named
  BY <1>1, <1>3 DEF Rollback
<1> QED
  BY <1>1, <1>2, <1>3, <1>4, <1>5, <1>6 DEF Rollback

\* On the way back.
LEMMA BackSaga ==
    ASSUME SagaInv, PassOver \/ Compensate \/ CompensationRaises \/ RolledBack PROVE SagaInv'
<1>0. /\ SagaType /\ sagaPhase = "back" /\ failedStep # 0 /\ Rollback
      /\ UNCHANGED <<undoable, completed, failedStep>>
  BY DEF SagaInv, Ahead, PassOver, Compensate, CompensationRaises, RolledBack
<1> DEFINE x == Head(toUndo)
           m == Len(toUndo) - 1
<1>1. CASE toUndo # <<>> /\ toUndo' = Tail(toUndo) /\ sagaPhase' = sagaPhase
  <2>1. /\ m \in Nat /\ m + 1 <= Len(completed) /\ Len(completed) \in Nat
        /\ x = m + 1 /\ x \in Nat /\ x \notin Named
        /\ toUndo' \in Seq(Nat) /\ Len(toUndo') = m
        /\ \A i \in 1..m : toUndo'[i] = m + 1 - i
        /\ IsFiniteSet(Named) /\ Cardinality(Named) \in Nat
    BY <1>0, <1>1, CountdownFacts
  <2>2. Len(toUndo) = m + 1
    BY <1>0, <1>1 DEF SagaType
  <2> HIDE DEF x, m
  <2>3. /\ Named = undoable \cap ((m + 2)..Len(completed))
        /\ effects \subseteq {failedStep} \cup 1..(m + 1) \cup ((1..Len(completed)) \ undoable)
                             \cup ToSet(compensationFailures)
    BY <1>0, <2>1, <2>2 DEF Rollback
  <2>4. CASE /\ x \notin undoable /\ UNCHANGED <<compensated, compensationFailures, effects>>
    <3>1. SagaType'
      BY <1>0, <1>1, <2>1, <2>4 DEF SagaType
    <3>2. Named' = Named /\ Named = undoable \cap ((m + 1)..Len(completed))
      BY <2>1, <2>3, <2>4 DEF Named
    <3>3. effects \subseteq {failedStep} \cup 1..m \cup ((1..Len(completed)) \ undoable)
                            \cup ToSet(compensationFailures)
      BY <2>1, <2>3, <2>4
    <3>4. /\ sagaPhase' # "ahead" /\ sagaPhase' # "reported" /\ failedStep' = Len(completed') + 1
          /\ Len(compensated') + Len(compensationFailures') = Cardinality(Named')
      BY <1>0, <1>1, <2>4, <3>2 DEF Rollback
    <3>5. Len(toUndo') <= Len(completed') /\ \A i \in 1..Len(toUndo') : toUndo'[i] = Len(toUndo') + 1 - i
      BY <1>0, <2>1
    <3>6. Rollback'
      BY <1>0, <2>1, <2>4, <3>2, <3>3, <3>4, <3>5 DEF Rollback
    <3> QED
      BY <3>1, <3>6, <1>0 DEF SagaInv
  <2>5. CASE /\ x \in undoable
             /\ \/ /\ compensated' = Append(compensated, x) /\ UNCHANGED compensationFailures
                   /\ effects' = effects \ {x}
                \/ /\ compensationFailures' = Append(compensationFailures, x) /\ UNCHANGED compensated
                   /\ effects' \subseteq effects
    <3>1. /\ compensated \in Seq(Nat) /\ compensationFailures \in Seq(Nat)
          /\ Len(compensated) \in Nat /\ Len(compensationFailures) \in Nat
      BY <1>0, LenProperties DEF SagaType
    <3>2. /\ compensated' \in Seq(Nat) /\ compensationFailures' \in Seq(Nat)
          /\ Len(compensated') + Len(compensationFailures')
                = Len(compensated) + Len(compensationFailures) + 1
          /\ Named' = Named \cup {x}
          /\ ToSet(compensationFailures) \subseteq ToSet(compensationFailures')
          /\ x \notin effects' \/ x \in ToSet(compensationFailures')
      <4>1. CASE /\ compensated' = Append(compensated, x) /\ UNCHANGED compensationFailures
                 /\ effects' = effects \ {x}
        <5>1. /\ compensated' \in Seq(Nat) /\ Len(compensated') = Len(compensated) + 1
              /\ ToSet(compensated') = ToSet(compensated) \cup {x}
          BY <4>1, <2>1, <3>1, AppendFacts
        <5> QED
          BY <5>1, <4>1, <3>1 DEF Named
      <4>2. CASE /\ compensationFailures' = Append(compensationFailures, x) /\ UNCHANGED compensated
        <5>1. /\ compensationFailures' \in Seq(Nat)
              /\ Len(compensationFailures') = Len(compensationFailures) + 1
              /\ ToSet(compensationFailures') = ToSet(compensationFailures) \cup {x}
          BY <4>2, <2>1, <3>1, AppendFacts
        <5> QED
          BY <5>1, <4>2, <3>1 DEF Named
      <4> QED
        BY <4>1, <4>2, <2>5
    <3>3. SagaType'
      BY <1>0, <1>1, <2>1, <3>2 DEF SagaType
    <3>4. Cardinality(Named') = Cardinality(Named) + 1
      BY <2>1, <3>2, FS_AddElement
    <3>5. Named' = undoable \cap ((m + 1)..Len(completed))
      BY <2>1, <2>3, <2>5, <3>2
    <3>6. effects' \subseteq {failedStep} \cup 1..m \cup ((1..Len(completed)) \ undoable)
                             \cup ToSet(compensationFailures')
      <4>1. effects' \subseteq effects
        BY <2>5
      <4>2. 1..(m + 1) = 1..m \cup {x}
        BY <2>1
      <4> QED
        BY <4>1, <4>2, <2>3, <3>2
    <3>7. Rollback'
      <4>1. Len(compensated') + Len(compensationFailures') = Cardinality(Named')
        BY <1>0, <3>1, <3>2, <3>4 DEF Rollback
      <4>2. sagaPhase' # "ahead" /\ sagaPhase' # "reported" /\ failedStep' = Len(completed') + 1
        BY <1>0, <1>1 DEF Rollback
      <4> QED
        BY <4>1, <4>2, <1>0, <2>1, <3>5, <3>6 DEF Rollback
    <3> QED
      BY <3>3, <3>7, <1>0 DEF SagaInv
  <2> QED
    BY <2>4, <2>5, <1>1 DEF PassOver, Compensate, CompensationRaises, RolledBack, x
<1>2. CASE RolledBack
  <2>1. /\ toUndo = <<>> /\ sagaPhase' = "reported"
        /\ UNCHANGED <<toUndo, compensated, compensationFailures, effects>>
    BY <1>2 DEF RolledBack
  <2>2. Len(toUndo) = 0
    BY <2>1, EmptySeq
  <2>3. Rollback'
    BY <1>0, <2>1, <2>2 DEF Rollback, Named
  <2> QED
    BY <1>0, <2>1, <2>3 DEF SagaInv, SagaType
<1> QED
  BY <1>1, <1>2 DEF PassOver, Compensate, CompensationRaises

\* A cancelled saga stays as it is.
LEMMA CancelKeepsSaga == ASSUME SagaInv, CancelSaga PROVE SagaInv'
<1>0. /\ SagaType /\ sagaPhase' = "cancelled"
      /\ UNCHANGED <<undoable, completed, toUndo, compensated, compensationFailures, failedStep>>
  BY DEF SagaInv, CancelSaga
<1>1. SagaType'
  BY <1>0 DEF SagaType
<1>2. CASE failedStep = 0
  BY <1>0, <1>1, <1>2 DEF SagaInv, Ahead
<1>3. CASE failedStep # 0
  <2>1. effects' \subseteq effects
    BY <1>3 DEF SagaInv, Rollback, CancelSaga
  <2>2. Rollback'
    BY <2>1, <1>0, <1>3 DEF SagaInv, Rollback, Named
  <2> QED
    BY <2>2, <1>0, <1>1, <1>3 DEF SagaInv
<1> QED
  BY <1>2, <1>3

\* The invariant says what the report has to.
LEMMA SagaImplies == SagaInv => SagaAccountsForEffects
<1> SUFFICES ASSUME SagaInv PROVE SagaAccountsForEffects
  OBVIOUS
<1> DEFINE n == Len(completed)
<1>0. /\ SagaType /\ n \in Nat /\ SagaSteps \in Nat /\ Len(toUndo) \in Nat
      /\ Len(compensated) \in Nat /\ Len(compensationFailures) \in Nat
  <2>1. SagaType
    BY DEF SagaInv
  <2> QED
    BY <2>1, LenProperties, SagaStepsAssumption DEF SagaType
<1>1. ToSet(completed) = 1..n
  <2>1. DOMAIN completed = 1..n /\ \A i \in 1..n : completed[i] = i
    BY <1>0, LenProperties DEF SagaType
  <2> HIDE DEF n
  <2> QED
    BY <2>1 DEF ToSet
<1> HIDE DEF n
<1>2. CASE failedStep = 0
  <2>1. Ahead
    BY <1>2 DEF SagaInv
  <2>2. ToSet(compensated) = {} /\ ToSet(compensationFailures) = {}
    BY <2>1 DEF Ahead, ToSet
  <2> QED
    BY <1>2, <2>1, <2>2 DEF SagaAccountsForEffects, ReportAccountsForEffects, UndoneNewestFirst,
                            ReportNamesEachOnce, Ahead
<1>3. CASE failedStep # 0
  <2>1. Rollback
    BY <1>3 DEF SagaInv
  <2>2. ReportAccountsForEffects
    BY <1>0, <1>1, <1>3, <2>1 DEF Rollback, ReportAccountsForEffects, n
  <2>3. UndoneNewestFirst
    BY <1>0, <1>1, <2>1 DEF Rollback, UndoneNewestFirst, Named, n
  <2>4. ReportNamesEachOnce
    <3> SUFFICES ASSUME sagaPhase = "reported"
                 PROVE  /\ ToSet(compensated \o compensationFailures) = (1..(failedStep - 1)) \cap undoable
                        /\ Len(compensated \o compensationFailures)
                              = Cardinality(ToSet(compensated \o compensationFailures))
      BY DEF ReportNamesEachOnce
    <3> DEFINE both == compensated \o compensationFailures
               a == Len(compensated)
               b == Len(compensationFailures)
    <3>1. /\ both \in Seq(Nat) /\ Len(both) = a + b
          /\ \A i \in 1..(a + b) : both[i] = IF i <= a THEN compensated[i] ELSE compensationFailures[i - a]
      BY <1>0, ConcatProperties DEF SagaType
    <3>2. /\ DOMAIN both = 1..(a + b) /\ DOMAIN compensated = 1..a /\ DOMAIN compensationFailures = 1..b
      BY <3>1, <1>0, LenProperties DEF SagaType
    <3>3. a \in Nat /\ b \in Nat
      BY <1>0
    <3> HIDE DEF both, a, b
    <3>4. ToSet(both) = Named
      <4>1. ASSUME NEW y \in ToSet(both) PROVE y \in Named
        <5>1. PICK i \in 1..(a + b) : y = both[i]
          BY <3>2 DEF ToSet
        <5>2. CASE i <= a
          <6>1. i \in 1..a /\ y = compensated[i]
            BY <5>1, <5>2, <3>1, <3>3
          <6> QED
            BY <6>1, <3>2 DEF Named, ToSet
        <5>3. CASE ~(i <= a)
          <6>1. i - a \in 1..b /\ y = compensationFailures[i - a]
            BY <5>1, <5>3, <3>1, <3>3
          <6> QED
            BY <6>1, <3>2 DEF Named, ToSet
        <5> QED
          BY <5>2, <5>3
      <4>2. ASSUME NEW i \in 1..a PROVE compensated[i] \in ToSet(both)
        <5>1. i \in 1..(a + b) /\ both[i] = compensated[i]
          BY <3>1, <3>3
        <5> QED
          BY <5>1, <3>2 DEF ToSet
      <4>3. ASSUME NEW i \in 1..b PROVE compensationFailures[i] \in ToSet(both)
        <5>1. i + a \in 1..(a + b) /\ ~(i + a <= a) /\ (i + a) - a = i
          BY <3>3
        <5>2. both[i + a] = compensationFailures[i]
          BY <5>1, <3>1
        <5> QED
          BY <5>1, <5>2, <3>2 DEF ToSet
      <4>4. Named \subseteq ToSet(both)
        BY <4>2, <4>3, <3>2 DEF Named, ToSet
      <4> QED
        BY <4>1, <4>4
    <3>5. Named = (1..(failedStep - 1)) \cap undoable
      BY <1>0, <2>1 DEF Rollback, n
    <3>6. Len(both) = Cardinality(Named)
      BY <2>1, <3>1 DEF Rollback, a, b
    <3> QED
      BY <3>4, <3>5, <3>6 DEF both
  <2> QED
    BY <2>2, <2>3, <2>4 DEF SagaAccountsForEffects
<1> QED
  BY <1>2, <1>3

\* For any number of steps and any of them with a compensation: a reported saga has left
\* behind what its report owns up to, later steps are undone first, and each step that
\* can be undone is named once.
THEOREM SagaReportsTruly == SagaSpec => []SagaAccountsForEffects
<1>1. SagaInv /\ [SagaNext]_sagaVars => SagaInv'
  <2> SUFFICES ASSUME SagaInv, [SagaNext]_sagaVars PROVE SagaInv'
    OBVIOUS
  <2>1. CASE UNCHANGED sagaVars
    BY <2>1 DEF sagaVars, SagaInv, SagaType, Ahead, Rollback, Named
  <2> QED
    BY <2>1, AheadSaga, BackSaga, CancelKeepsSaga DEF SagaNext
<1> QED
  BY <1>1, InitSaga, SagaImplies, PTL DEF SagaSpec

-----------------------------------------------------------------------------
(* Cache-aside.                                                              *)

CacheType ==
    /\ ttl \in Nat \ {0}
    /\ latest \in Nat /\ latest <= MaxVersion
    /\ \A v \in 0..(latest - 1) : superseded[v] \in Nat /\ superseded[v] <= cacheClock
    /\ entry \in [value : Nat, expires : Nat]
    /\ cacheClock \in Nat /\ cacheClock <= MaxClock
    /\ reader \in [CacheReaders -> [at : {"idle", "loading", "writing", "hit", "loaded"}, value : Nat, since : Nat]]
    /\ floor \in Nat /\ floor <= latest

\* An entry that is no longer current was written at most MaxLoad after it had been,
\* and expires a ttl after that.
EntryFresh ==
    entry # NoEntry =>
        /\ entry.value >= floor /\ entry.value <= latest
        /\ ttl # Forever =>
               /\ entry.expires <= cacheClock + ttl
               /\ entry.value # latest => entry.expires <= superseded[entry.value] + ttl + MaxLoad

\* A loaded value was current when it was read, at most MaxLoad ago.
LoadFresh(c) ==
    reader[c].at \in {"writing", "loaded"} =>
        /\ reader[c].value >= floor /\ reader[c].value <= latest
        /\ cacheClock <= reader[c].since + MaxLoad
        /\ reader[c].value # latest => superseded[reader[c].value] >= reader[c].since
        /\ reader[c].since <= cacheClock

HitFresh(c) ==
    reader[c].at = "hit" =>
        /\ reader[c].value >= floor /\ reader[c].value <= latest
        /\ ttl # Forever /\ reader[c].value # latest =>
               cacheClock < superseded[reader[c].value] + ttl + MaxLoad

CacheInv == CacheType /\ EntryFresh /\ \A c \in CacheReaders : LoadFresh(c) /\ HitFresh(c)

\* Redis rounds a ttl down.
LEMMA ExpiresInTime ==
    ASSUME CacheType
    PROVE  ExpiresAt \in Nat /\ (ttl # Forever => ExpiresAt <= cacheClock + ttl)
<1>1. (ttl \div 2) * 2 \in Nat /\ (ttl \div 2) * 2 <= ttl
  BY DEF CacheType
<1> DEFINE even == (ttl \div 2) * 2
<1> HIDE DEF even
<1>2. even \in Nat /\ even <= ttl /\ ttl \in Nat /\ cacheClock \in Nat /\ MaxClock \in Nat
  BY <1>1, CacheAssumption DEF even, CacheType
<1>3. ExpiresAt = IF ttl = Forever THEN Forever
                  ELSE IF backend = "memory" \/ ttl < 2 THEN cacheClock + ttl
                  ELSE cacheClock + even
  BY DEF ExpiresAt, even
<1> QED
  BY <1>2, <1>3 DEF Forever

\* The cache starts empty.
LEMMA InitCache == CacheInit => CacheInv
BY CacheAssumption DEF CacheInit, CacheStart, CacheInv, CacheType, EntryFresh, LoadFresh, HitFresh,
                       NoEntry, IdleReader, Forever

\* Steps of one caller that leave the entry alone.
LEMMA CallerCache ==
    ASSUME CacheInv, NEW c \in CacheReaders,
           GetHit(c) \/ LoaderReads(c) \/ LoadRaises(c) \/ CallerDone(c)
    PROVE  CacheInv'
<1>0. /\ UNCHANGED <<backend, ttl, latest, superseded, entry, cacheClock, floor>>
      /\ CacheType /\ EntryFresh /\ Forever = MaxClock + 1 /\ MaxClock \in Nat /\ MaxLoad \in Nat
  BY CacheAssumption DEF CacheInv, GetHit, LoaderReads, LoadRaises, CallerDone, Forever
<1> DEFINE Callers == [at : {"idle", "loading", "writing", "hit", "loaded"}, value : Nat, since : Nat]
           r == reader'[c]
<1>1. /\ reader' = [reader EXCEPT ![c] = r] /\ r \in Callers
      /\ \/ r.at = "idle"
         \/ r.at = "writing" /\ r.value = latest /\ r.since = cacheClock
         \/ r.at = "hit" /\ r.value = entry.value /\ Hit
  <2>1. CASE GetHit(c)
    <3> DEFINE new == [at |-> "hit", value |-> entry.value, since |-> cacheClock]
    <3>1. reader' = [reader EXCEPT ![c] = new] /\ new \in Callers /\ Hit
      BY <2>1, <1>0 DEF GetHit, CacheType
    <3>2. r = new
      BY <3>1, <1>0 DEF CacheType
    <3>3. new.at = "hit" /\ new.value = entry.value
      OBVIOUS
    <3> HIDE DEF new, r, Callers
    <3> QED
      BY <3>1, <3>2, <3>3
  <2>2. CASE LoaderReads(c)
    <3> DEFINE new == [at |-> "writing", value |-> latest, since |-> cacheClock]
    <3>1. reader' = [reader EXCEPT ![c] = new] /\ new \in Callers
      BY <2>2, <1>0 DEF LoaderReads, CacheType
    <3>2. r = new
      BY <3>1, <1>0 DEF CacheType
    <3>3. new.at = "writing" /\ new.value = latest /\ new.since = cacheClock
      OBVIOUS
    <3> HIDE DEF new, r, Callers
    <3> QED
      BY <3>1, <3>2, <3>3
  <2>3. CASE LoadRaises(c) \/ CallerDone(c)
    <3>1. reader' = [reader EXCEPT ![c] = IdleReader] /\ IdleReader \in Callers /\ IdleReader.at = "idle"
      BY <2>3 DEF LoadRaises, CallerDone, IdleReader
    <3>2. r = IdleReader
      BY <3>1, <1>0 DEF CacheType
    <3> QED
      BY <3>1, <3>2
  <2> QED
    BY <2>1, <2>2, <2>3
<1> HIDE DEF r
<1>2. CacheType'
  BY <1>0, <1>1 DEF CacheType
<1>3. EntryFresh'
  BY <1>0 DEF EntryFresh, NoEntry, Forever
<1>4. reader'[c] = r /\ \A d \in CacheReaders : d # c => reader'[d] = reader[d]
  BY <1>0, <1>1 DEF CacheType, r
<1>5. \A d \in CacheReaders : d # c => LoadFresh(d)' /\ HitFresh(d)'
  BY <1>0, <1>4 DEF CacheInv, LoadFresh, HitFresh, Forever
<1>6. LoadFresh(c)'
  BY <1>0, <1>1, <1>4 DEF LoadFresh, CacheType
<1>7. HitFresh(c)'
  <2> SUFFICES ASSUME r.at = "hit", r.value = entry.value, Hit
               PROVE  /\ entry.value >= floor /\ entry.value <= latest
                      /\ ttl # Forever /\ entry.value # latest =>
                             cacheClock < superseded[entry.value] + ttl + MaxLoad
    BY <1>0, <1>1, <1>4 DEF HitFresh, Forever
  <2>1. entry # NoEntry /\ cacheClock < entry.expires
    BY <1>0 DEF Hit, HasExpired, CacheType
  <2>2. entry.value >= floor /\ entry.value <= latest
    BY <2>1, <1>0 DEF EntryFresh
  <2>3. entry.value # latest => superseded[entry.value] \in Nat
    BY <2>2, <1>0 DEF CacheType
  <2> QED
    BY <2>1, <2>2, <2>3, <1>0 DEF EntryFresh, CacheType
<1> QED
  BY <1>2, <1>3, <1>5, <1>6, <1>7 DEF CacheInv

\* A miss drops what has expired; the write back stores what was loaded.
LEMMA EntryCache ==
    ASSUME CacheInv, NEW c \in CacheReaders, GetMiss(c) \/ WriteBack(c) PROVE CacheInv'
<1>0. /\ UNCHANGED <<backend, ttl, latest, superseded, cacheClock, floor>>
      /\ CacheType /\ EntryFresh /\ Forever = MaxClock + 1 /\ MaxClock \in Nat /\ MaxLoad \in Nat
      /\ MaxVersion \in Nat
  BY CacheAssumption DEF CacheInv, GetMiss, WriteBack, Forever
<1>1. NoEntry \in [value : Nat, expires : Nat]
  BY <1>0 DEF NoEntry
<1>2. CASE GetMiss(c)
  <2>1. /\ reader' = [reader EXCEPT ![c].at = "loading"]
        /\ entry' = entry \/ entry' = NoEntry
    BY <1>2 DEF GetMiss
  <2>2. /\ reader'[c].at = "loading" /\ \A d \in CacheReaders : d # c => reader'[d] = reader[d]
        /\ reader' \in [CacheReaders -> [at : {"idle", "loading", "writing", "hit", "loaded"}, value : Nat, since : Nat]]
    BY <2>1, <1>0 DEF CacheType
  <2>3. CacheType'
    BY <2>1, <2>2, <1>0, <1>1 DEF CacheType
  <2>4. EntryFresh'
    BY <2>1, <1>0 DEF EntryFresh, NoEntry, Forever
  <2>5. \A d \in CacheReaders : LoadFresh(d)' /\ HitFresh(d)'
    BY <2>2, <1>0 DEF CacheInv, LoadFresh, HitFresh, Forever
  <2> QED
    BY <2>3, <2>4, <2>5 DEF CacheInv
<1>3. CASE WriteBack(c)
  <2>1. /\ reader[c].at = "writing" /\ reader' = [reader EXCEPT ![c].at = "loaded"]
        /\ entry' = [value |-> reader[c].value, expires |-> ExpiresAt]
    BY <1>3 DEF WriteBack
  <2>2. /\ reader'[c].at = "loaded" /\ reader'[c].value = reader[c].value /\ reader'[c].since = reader[c].since
        /\ \A d \in CacheReaders : d # c => reader'[d] = reader[d]
        /\ reader' \in [CacheReaders -> [at : {"idle", "loading", "writing", "hit", "loaded"}, value : Nat, since : Nat]]
    BY <2>1, <1>0 DEF CacheType
  <2>3. ExpiresAt \in Nat /\ (ttl # Forever => ExpiresAt <= cacheClock + ttl)
    BY <1>0, ExpiresInTime
  <2>4. reader[c].value \in Nat /\ reader[c].since \in Nat
    BY <1>0 DEF CacheType
  <2>5. entry' \in [value : Nat, expires : Nat] /\ entry'.value = reader[c].value /\ entry'.expires = ExpiresAt
    BY <2>1, <2>3, <2>4
  <2>6. CacheType'
    BY <2>2, <2>5, <1>0 DEF CacheType
  <2>7. /\ reader[c].value >= floor /\ reader[c].value <= latest
        /\ cacheClock <= reader[c].since + MaxLoad
        /\ reader[c].value # latest => superseded[reader[c].value] >= reader[c].since
        /\ reader[c].since <= cacheClock
    BY <2>1 DEF CacheInv, LoadFresh
  <2>8. reader[c].value # latest => superseded[reader[c].value] \in Nat
    BY <2>4, <2>7, <1>0 DEF CacheType
  <2>9. EntryFresh'
    <3>1. ttl # Forever => ExpiresAt <= cacheClock + ttl
      BY <2>3
    <3>2. ttl # Forever /\ reader[c].value # latest => ExpiresAt <= superseded[reader[c].value] + ttl + MaxLoad
      BY <2>3, <2>4, <2>7, <2>8, <1>0 DEF CacheType
    <3> QED
      BY <3>1, <3>2, <2>5, <2>7, <1>0 DEF EntryFresh, Forever
  <2>10. LoadFresh(c)' /\ HitFresh(c)'
    BY <2>2, <2>7, <1>0 DEF LoadFresh, HitFresh
  <2>11. \A d \in CacheReaders : d # c => LoadFresh(d)' /\ HitFresh(d)'
    BY <2>2, <1>0 DEF CacheInv, LoadFresh, HitFresh, Forever
  <2> QED
    BY <2>6, <2>9, <2>10, <2>11 DEF CacheInv
<1> QED
  BY <1>2, <1>3

\* The value changes: what is held or on its way is superseded now.
LEMMA SourceCache == ASSUME CacheInv, SourceChanges PROVE CacheInv'
<1>0. /\ UNCHANGED <<backend, ttl, entry, cacheClock, reader, floor>>
      /\ latest < MaxVersion /\ latest' = latest + 1 /\ MaxVersion \in Nat /\ MaxLoad \in Nat
      /\ CacheType /\ EntryFresh
  BY CacheAssumption DEF CacheInv, SourceChanges
<1>1. \A v \in 0..latest : superseded'[v] = IF v = latest THEN cacheClock ELSE superseded[v]
  BY DEF SourceChanges
<1>2. CacheType'
  <2>1. \A v \in 0..(latest' - 1) : superseded'[v] \in Nat /\ superseded'[v] <= cacheClock'
    BY <1>0, <1>1 DEF CacheType
  <2> QED
    BY <2>1, <1>0 DEF CacheType
<1>3. EntryFresh'
  <2> SUFFICES ASSUME entry # NoEntry
               PROVE  /\ entry.value >= floor /\ entry.value <= latest + 1
                      /\ ttl # Forever =>
                           /\ entry.expires <= cacheClock + ttl
                           /\ entry.value # latest + 1 => entry.expires <= superseded'[entry.value] + ttl + MaxLoad
    BY <1>0 DEF EntryFresh, NoEntry, Forever
  <2>1. /\ entry.value >= floor /\ entry.value <= latest /\ entry.value \in Nat /\ entry.expires \in Nat
        /\ ttl # Forever => entry.expires <= cacheClock + ttl
        /\ ttl # Forever /\ entry.value # latest => entry.expires <= superseded[entry.value] + ttl + MaxLoad
    BY <1>0 DEF EntryFresh, CacheType
  <2>2. superseded'[entry.value] = IF entry.value = latest THEN cacheClock ELSE superseded[entry.value]
    BY <2>1, <1>0, <1>1 DEF CacheType
  <2> QED
    BY <2>1, <2>2, <1>0 DEF CacheType
<1>4. ASSUME NEW c \in CacheReaders PROVE LoadFresh(c)' /\ HitFresh(c)'
  <2>1. reader[c].value \in Nat /\ reader[c].since \in Nat /\ latest \in Nat /\ cacheClock \in Nat /\ ttl \in Nat \ {0}
    BY <1>0 DEF CacheType
  <2>2. reader[c].value <= latest =>
          superseded'[reader[c].value] = IF reader[c].value = latest THEN cacheClock ELSE superseded[reader[c].value]
    BY <2>1, <1>1
  <2>3. LoadFresh(c)'
    BY <2>1, <2>2, <1>0 DEF CacheInv, LoadFresh
  <2>4. HitFresh(c)'
    <3>1. LoadFresh(c) /\ HitFresh(c)
      BY DEF CacheInv
    <3> QED
      BY <3>1, <2>1, <2>2, <1>0 DEF HitFresh, Forever
  <2> QED
    BY <2>3, <2>4
<1> QED
  BY <1>2, <1>3, <1>4 DEF CacheInv

\* A delete empties the cache; a quiet one also raises the floor.
LEMMA DeleteCache == ASSUME CacheInv, DeleteKey PROVE CacheInv'
<1>0. /\ UNCHANGED <<backend, ttl, latest, superseded, cacheClock, reader>> /\ entry' = NoEntry
      /\ CacheType /\ MaxClock \in Nat /\ MaxVersion \in Nat
      /\ \/ floor' = floor
         \/ floor' = latest /\ \A c \in CacheReaders : reader[c].at \in {"idle", "loading"}
  BY CacheAssumption DEF CacheInv, DeleteKey
<1>1. NoEntry \in [value : Nat, expires : Nat]
  BY <1>0 DEF NoEntry, Forever
<1>2. CacheType'
  BY <1>0, <1>1 DEF CacheType
<1>3. EntryFresh'
  BY <1>0 DEF EntryFresh, NoEntry, Forever
<1>4. \A c \in CacheReaders : LoadFresh(c)' /\ HitFresh(c)'
  BY <1>0 DEF CacheInv, LoadFresh, HitFresh, Forever
<1> QED
  BY <1>2, <1>3, <1>4 DEF CacheInv

\* Time passes while nobody is being answered and no loader is too slow.
LEMMA TickCache == ASSUME CacheInv, CacheTick PROVE CacheInv'
<1>0. /\ UNCHANGED <<backend, ttl, latest, superseded, entry, reader, floor>>
      /\ cacheClock < MaxClock /\ cacheClock' = cacheClock + 1 /\ MaxClock \in Nat /\ MaxLoad \in Nat
      /\ CacheType /\ EntryFresh
      /\ \A c \in CacheReaders :
           /\ reader[c].at \notin {"hit", "loaded"}
           /\ reader[c].at = "writing" => cacheClock - reader[c].since < MaxLoad
  BY CacheAssumption DEF CacheInv, CacheTick
<1>1. CacheType'
  BY <1>0 DEF CacheType
<1>2. EntryFresh'
  BY <1>0 DEF EntryFresh, NoEntry, Forever, CacheType
<1>3. ASSUME NEW c \in CacheReaders PROVE LoadFresh(c)' /\ HitFresh(c)'
  <2>1. LoadFresh(c) /\ reader[c].value \in Nat /\ reader[c].since \in Nat
    BY <1>0 DEF CacheInv, CacheType
  <2> QED
    BY <2>1, <1>0 DEF LoadFresh, HitFresh, CacheType
<1> QED
  BY <1>1, <1>2, <1>3 DEF CacheInv

\* What is answered is fresh enough, from the cache or from the loader.
LEMMA CacheImplies == CacheInv => ServesFreshEnough
<1> SUFFICES ASSUME CacheInv, NEW c \in CacheReaders, Answered(c)
             PROVE  /\ ttl # Forever /\ reader[c].value # latest =>
                          cacheClock - superseded[reader[c].value] < ttl + MaxLoad
                    /\ reader[c].value >= floor
  BY DEF ServesFreshEnough, StaleBounded, QuietDeleteIsFinal
<1>1. /\ CacheType /\ LoadFresh(c) /\ HitFresh(c) /\ MaxLoad \in Nat
      /\ reader[c].value \in Nat /\ reader[c].since \in Nat
      /\ cacheClock \in Nat /\ ttl \in Nat \ {0} /\ latest \in Nat
  BY CacheAssumption DEF CacheInv, CacheType
<1>2. reader[c].value <= latest /\ reader[c].value >= floor
  BY <1>1 DEF LoadFresh, HitFresh, Answered
<1>3. reader[c].value # latest => superseded[reader[c].value] \in Nat
  BY <1>1, <1>2 DEF CacheType
<1> QED
  BY <1>1, <1>2, <1>3 DEF LoadFresh, HitFresh, Answered

\* For any callers, ttl and loader time: no caller is given a value that stopped being
\* current ttl + MaxLoad ago or earlier, or one older than the last quiet delete.
THEOREM CacheServesFresh == CacheSpec => []ServesFreshEnough
<1>1. CacheInv /\ [CacheNext]_cacheVars => CacheInv'
  <2> SUFFICES ASSUME CacheInv, [CacheNext]_cacheVars PROVE CacheInv'
    OBVIOUS
  <2>1. CASE UNCHANGED cacheVars
    BY <2>1 DEF cacheVars, CacheInv, CacheType, EntryFresh, LoadFresh, HitFresh, NoEntry, Forever
  <2> QED
    BY <2>1, CallerCache, EntryCache, SourceCache, DeleteCache, TickCache DEF CacheNext
<1> QED
  BY <1>1, InitCache, CacheImplies, PTL DEF CacheSpec

-----------------------------------------------------------------------------
(* Outbound senders.  A dict is filled with FoldLeft, whose recursion needs  *)
(* an argument of its own: the values it goes through form a sequence, and   *)
(* what holds of each is shown for the least that would break it.            *)

\* A set of numbers that is not empty has a least one.
LEMMA LeastExists ==
    ASSUME NEW S \in SUBSET Nat, S # {}
    PROVE  \E x \in S : \A y \in S : x <= y
<1>1. PICK x \in S : \A y \in S : ~(<<y, x>> \in OpToRel(<, Nat))
  BY WFMin, NatLessThanWellFounded
<1>2. \A y \in S : x <= y
  <2> SUFFICES ASSUME NEW y \in S PROVE x <= y
    OBVIOUS
  <2>1. ~(y < x)
    BY <1>1 DEF OpToRel
  <2> QED
    BY <2>1
<1> QED
  BY <1>2

\* How an item of a dict is taken in.
TakenIn(Dropped, acc, pair) == IF pair[1] \in Dropped THEN acc ELSE Put(acc, pair[1], pair[2])
IsFill(h, Dropped, before, items) ==
    h = [s \in SUBSET (DOMAIN items) |->
            IF s = {} THEN before ELSE TakenIn(Dropped, h[s \ {Max(s)}], items[Max(s)])]

\* The greatest of some numbers up to n.
LEMMA MaxIs ==
    ASSUME NEW n \in Nat, NEW s \in SUBSET (1 .. n), s # {}
    PROVE  Max(s) \in s /\ \A i \in s : i <= Max(s)
<1> DEFINE back == {n - i : i \in s}
<1>1. PICK b \in back : \A c \in back : b <= c
  <2>1. \A i \in s : n - i \in Nat
    OBVIOUS
  <2>2. back \in SUBSET Nat
    BY <2>1
  <2>3. back # {}
    OBVIOUS
  <2> HIDE DEF back
  <2> QED
    BY <2>2, <2>3, LeastExists
<1>2. PICK m \in s : b = n - m
  BY <1>1
<1>3. \A i \in s : m >= i
  <2> SUFFICES ASSUME NEW i \in s PROVE m >= i
    OBVIOUS
  <2>1. n - m <= n - i
    BY <1>1, <1>2
  <2> HIDE DEF back
  <2>2. n \in Int /\ m \in Int /\ i \in Int
    OBVIOUS
  <2> QED
    BY <2>1, <2>2
<1>4. Max(s) \in s /\ \A i \in s : Max(s) >= i
  <2> HIDE DEF back
  <2> QED
    BY <1>3, Zenon DEF Max
<1>5. \A i \in s : i \in Int
  OBVIOUS
<1> HIDE DEF back
<1> QED
  BY <1>4, <1>5

\* The function FoldLeft recurses with exists: for the least m where none does, the one
\* for m - 1 could be extended.
LEMMA FillExists ==
    ASSUME NEW Dropped, NEW before, NEW items, NEW n \in Nat, DOMAIN items = 1 .. n
    PROVE  \E h : IsFill(h, Dropped, before, items)
<1> DEFINE Made(h, s) == IF s = {} THEN before ELSE TakenIn(Dropped, h[s \ {Max(s)}], items[Max(s)])
           UpTo(h, m) == h = [s \in SUBSET (1 .. n) |-> h[s]] /\ \A s \in SUBSET (1 .. m) : h[s] = Made(h, s)
           bad == {m \in 0 .. n : ~\E h : UpTo(h, m)}
<1>1. bad = {}
  <2>1. SUFFICES ASSUME bad # {} PROVE FALSE
    OBVIOUS
  <2>2. PICK m \in bad : \A k \in bad : m <= k
    <3>1. bad \in SUBSET Nat
      OBVIOUS
    <3> HIDE DEF bad
    <3> QED
      BY <2>1, <3>1, LeastExists
  <2>3. m \in 0 .. n /\ ~\E h : UpTo(h, m)
    OBVIOUS
  <2>4. CASE m = 0
    <3> DEFINE h == [s \in SUBSET (1 .. n) |-> before]
    <3>1. \A s \in SUBSET (1 .. 0) : s = {}
      OBVIOUS
    <3>2. UpTo(h, 0)
      BY <3>1
    <3> QED
      BY <2>3, <2>4, <3>2
  <2>5. CASE m # 0
    <3>1. m - 1 \in 0 .. n /\ m - 1 \notin bad
      <4>1. m - 1 \in bad => m <= m - 1
        BY <2>2
      <4> HIDE DEF bad
      <4> QED
        BY <2>3, <2>5, <4>1
    <3>2. PICK h : UpTo(h, m - 1)
      BY <3>1
    <3> DEFINE more == [s \in SUBSET (1 .. n) |-> Made(h, s)]
    <3>3. \A s \in SUBSET (1 .. m - 1) : more[s] = h[s]
      <4>1. \A s \in SUBSET (1 .. m - 1) : s \in SUBSET (1 .. n)
        BY <2>3
      <4>2. \A s \in SUBSET (1 .. n) : more[s] = Made(h, s)
        OBVIOUS
      <4>3. \A s \in SUBSET (1 .. m - 1) : h[s] = Made(h, s)
        BY <3>2
      <4> HIDE DEF more, Made, bad, UpTo
      <4> QED
        BY <4>1, <4>2, <4>3
    <3>4. \A s \in SUBSET (1 .. m) : more[s] = Made(more, s)
      <4> SUFFICES ASSUME NEW s \in SUBSET (1 .. m) PROVE more[s] = Made(more, s)
        OBVIOUS
      <4>1. more[s] = Made(h, s)
        BY <2>3
      <4>2. s # {} => more[s \ {Max(s)}] = h[s \ {Max(s)}]
        <5> HAVE s # {}
        <5>1. Max(s) \in s /\ \A i \in s : i <= Max(s)
          BY <2>3, MaxIs
        <5>2. s \ {Max(s)} \in SUBSET (1 .. m - 1)
          <6>1. \A i \in s \ {Max(s)} : i <= Max(s) /\ i # Max(s) /\ Max(s) \in 1 .. m /\ i \in 1 .. m
            BY <5>1
          <6>2. \A i \in s \ {Max(s)} : i \in 1 .. m - 1
            BY <2>3, <6>1
          <6> QED
            BY <6>2
        <5> HIDE DEF more
        <5> QED
          BY <3>3, <5>2
      <4> HIDE DEF more
      <4> QED
        BY <4>1, <4>2
    <3>5. more = [s \in SUBSET (1 .. n) |-> more[s]]
      OBVIOUS
    <3> HIDE DEF more, Made
    <3>6. UpTo(more, m)
      BY <3>4, <3>5
    <3> HIDE DEF UpTo, bad
    <3> QED
      BY <2>3, <3>6
  <2> QED
    BY <2>4, <2>5
<1>2. PICK h : UpTo(h, n)
  <2>1. n \in 0 .. n
    OBVIOUS
  <2> HIDE DEF UpTo
  <2> QED
    BY <1>1, <2>1
<1>3. h = [s \in SUBSET (1 .. n) |-> h[s]] /\ \A s \in SUBSET (1 .. n) : h[s] = Made(h, s)
  BY <1>2
<1>4. h = [s \in SUBSET (1 .. n) |-> Made(h, s)]
  <2> HIDE DEF Made
  <2> QED
    BY <1>3, Zenon
<1> QED
  BY <1>4 DEF IsFill

\* A dict is filled item by item.
Steps(a, Dropped, before, items, n) ==
    /\ a[0] = before /\ Fill(before, items, Dropped) = a[n]
    /\ \A i \in 1 .. n : a[i] = TakenIn(Dropped, a[i - 1], items[i])

LEMMA FillSteps ==
    ASSUME NEW Dropped, NEW before, NEW items, NEW n \in Nat, DOMAIN items = 1 .. n
    PROVE  \E a : Steps(a, Dropped, before, items, n)
<1>1. PICK h : IsFill(h, Dropped, before, items) /\ Fill(before, items, Dropped) = h[DOMAIN items]
  <2>1. \E h : IsFill(h, Dropped, before, items)
    BY FillExists
  <2>2. Fill(before, items, Dropped) = (CHOOSE h : IsFill(h, Dropped, before, items))[DOMAIN items]
    BY Zenon DEF Fill, FoldLeft, MapThenFoldSet, IsFill, TakenIn
  <2> QED
    BY <2>1, <2>2, Zenon
<1>2. \A s \in SUBSET (1 .. n) : h[s] = IF s = {} THEN before ELSE TakenIn(Dropped, h[s \ {Max(s)}], items[Max(s)])
  BY <1>1, Zenon DEF IsFill
<1> DEFINE a == [i \in 0 .. n |-> h[1 .. i]]
<1>3. a[0] = before
  <2>1. 1 .. 0 = {} /\ 0 \in 0 .. n
    OBVIOUS
  <2> QED
    BY <1>2, <2>1
<1>4. ASSUME NEW i \in 1 .. n PROVE a[i] = TakenIn(Dropped, a[i - 1], items[i])
  <2>1. 1 .. i \in SUBSET (1 .. n) /\ 1 .. i # {}
    OBVIOUS
  <2>2. Max(1 .. i) = i
    <3>1. i \in Nat /\ i \in 1 .. i
      OBVIOUS
    <3>2. Max(1 .. i) \in 1 .. i /\ \A j \in 1 .. i : j <= Max(1 .. i)
      BY <2>1, <3>1, MaxIs
    <3> QED
      BY <3>1, <3>2
  <2>3. (1 .. i) \ {i} = 1 .. i - 1
    OBVIOUS
  <2>4. h[1 .. i] = TakenIn(Dropped, h[1 .. i - 1], items[i])
    BY <1>2, <2>1, <2>2, <2>3
  <2>5. a[i] = h[1 .. i] /\ a[i - 1] = h[1 .. i - 1]
    <3>1. i \in 0 .. n /\ i - 1 \in 0 .. n
      OBVIOUS
    <3> QED
      BY <3>1
  <2> HIDE DEF a
  <2> QED
    BY <2>4, <2>5
<1>5. a[n] = h[1 .. n]
  OBVIOUS
<1> HIDE DEF a
<1>6. Steps(a, Dropped, before, items, n)
  BY <1>1, <1>3, <1>4, <1>5 DEF Steps
<1> QED
  BY <1>6

-----------------------------------------------------------------------------
(* Dictionaries. *)
Payloads == {"object", "text", "null", "unwritable"}

\* The strings a dict holds: the provers do not know that a literal is a STRING.
Str == STRING \cup CloudEventAttributes \cup Payloads
        \cup {"topic", CorrelationHeader, DetailType, Topic, Physical, "id1", "id2", "v1", "v2"}
Pair == Str \X Str
Unique(d) == \A i, j \in DOMAIN d : d[i][1] = d[j][1] => i = j
IsDict(d) == d \in Seq(Pair) /\ Unique(d)

\* The items of a dict are pairs, at the places 1 .. n.
LEMMA DictDomain ==
    ASSUME NEW d \in Seq(Pair)
    PROVE  \E n \in Nat : /\ DOMAIN d = 1 .. n /\ Len(d) = n
                          /\ \A i \in 1 .. n : d[i] \in Pair /\ d[i][1] \in Str /\ d[i][2] \in Str
                                               /\ d[i] = <<d[i][1], d[i][2]>>
<1>1. PICK n \in Nat : DOMAIN d = 1 .. n /\ Len(d) = n /\ \A i \in 1 .. n : d[i] \in Pair
  BY LenProperties, ElementOfSeq
<1>2. \A x \in Pair : x[1] \in Str /\ x[2] \in Str /\ x = <<x[1], x[2]>>
  BY DEF Pair
<1> QED
  BY <1>1, <1>2

\* One item is put in place of the item of its name, or added.
LEMMA PutIs ==
    ASSUME NEW d, IsDict(d), NEW k \in Str, NEW v \in Str, NEW r, r = Put(d, k, v)
    PROVE  IsDict(r) /\ ToSet(r) = {x \in ToSet(d) : x[1] # k} \cup {<<k, v>>}
<1>1. PICK n \in Nat : /\ DOMAIN d = 1 .. n /\ Len(d) = n
                       /\ \A i \in 1 .. n : d[i] \in Pair /\ d[i][1] \in Str /\ d[i][2] \in Str
                                            /\ d[i] = <<d[i][1], d[i][2]>>
  BY DictDomain DEF IsDict
<1>2. PICK x : x = <<k, v>>
  OBVIOUS
<1>3. x \in Pair /\ x[1] = k
  BY <1>2 DEF Pair
<1>4. CASE Has(d, k)
  <2>1. r = [i \in 1 .. n |-> IF d[i][1] = k THEN x ELSE d[i]]
    BY <1>1, <1>2, <1>4, Zenon DEF Put
  <2>2. /\ DOMAIN r = 1 .. n
        /\ \A i \in 1 .. n : r[i] = IF d[i][1] = k THEN x ELSE d[i]
    BY <2>1
  <2>3. r \in Seq(Pair)
    <3>1. \A i \in 1 .. n : r[i] \in Pair
      BY <1>1, <1>3, <2>2
    <3>2. r \in [1 .. n -> Pair]
      BY <2>1, <2>2, <3>1
    <3> QED
      BY <3>2, SeqDef
  <2>4. \A i \in 1 .. n : r[i][1] = d[i][1]
    BY <1>3, <2>2
  <2>5. Unique(r)
    BY <1>1, <2>2, <2>4 DEF Unique, IsDict
  <2>6. PICK m \in 1 .. n : d[m][1] = k
    BY <1>1, <1>4 DEF Has
  <2>7. ToSet(r) = {y \in ToSet(d) : y[1] # k} \cup {x}
    <3>1. ToSet(r) = {r[i] : i \in 1 .. n} /\ ToSet(d) = {d[i] : i \in 1 .. n}
      BY <1>1, <2>2 DEF ToSet
    <3>2. x = r[m]
      BY <2>2, <2>6
    <3>3. ASSUME NEW y PROVE y \in ToSet(r) <=> (y \in ToSet(d) /\ y[1] # k) \/ y = x
      <4>1. ASSUME NEW i \in 1 .. n, y = r[i] PROVE (y \in ToSet(d) /\ y[1] # k) \/ y = x
        <5>1. CASE d[i][1] = k
          BY <2>2, <4>1, <5>1
        <5>2. CASE d[i][1] # k
          <6>1. y = d[i]
            BY <2>2, <4>1, <5>2
          <6> QED
            BY <3>1, <5>2, <6>1
        <5> QED
          BY <5>1, <5>2
      <4>2. ASSUME NEW i \in 1 .. n, y = d[i], y[1] # k PROVE y \in ToSet(r)
        BY <2>2, <3>1, <4>2
      <4>3. y = x => y \in ToSet(r)
        BY <3>1, <3>2
      <4> QED
        BY <3>1, <4>1, <4>2, <4>3
    <3> QED
      BY <3>3
  <2> QED
    BY <1>2, <2>3, <2>5, <2>7 DEF IsDict
<1>5. CASE ~Has(d, k)
  <2>1. r = Append(d, x)
    BY <1>2, <1>5, Zenon DEF Put
  <2>2. d \in Seq(Pair)
    BY DEF IsDict
  <2>3. /\ r \in Seq(Pair) /\ Len(r) = n + 1 /\ r[n + 1] = x
        /\ \A i \in 1 .. n : r[i] = d[i]
    BY <1>1, <1>3, <2>1, <2>2, AppendProperties
  <2>4. DOMAIN r = 1 .. n + 1
    BY <2>3, LenProperties
  <2>5. \A i \in 1 .. n : d[i][1] # k
    BY <1>1, <1>5 DEF Has
  <2>6. \A i \in 1 .. n + 1 : i \in 1 .. n \/ i = n + 1
    OBVIOUS
  <2>7. Unique(r)
    <3>1. \A i, j \in 1 .. n : d[i][1] = d[j][1] => i = j
      BY <1>1 DEF Unique, IsDict
    <3>2. \A i \in 1 .. n : r[i][1] # k /\ r[i][1] = d[i][1]
      BY <2>3, <2>5
    <3>3. r[n + 1][1] = k
      BY <1>3, <2>3
    <3>4. ASSUME NEW i \in 1 .. n + 1, NEW j \in 1 .. n + 1, r[i][1] = r[j][1] PROVE i = j
      <4>1. CASE i \in 1 .. n /\ j \in 1 .. n
        BY <3>1, <3>2, <3>4, <4>1
      <4>2. CASE i = n + 1 \/ j = n + 1
        BY <2>6, <3>2, <3>3, <3>4, <4>2
      <4> QED
        BY <2>6, <4>1, <4>2
    <3> QED
      BY <2>4, <3>4 DEF Unique
  <2>8. ToSet(r) = {y \in ToSet(d) : y[1] # k} \cup {x}
    <3>1. ToSet(r) = {r[i] : i \in 1 .. n + 1} /\ ToSet(d) = {d[i] : i \in 1 .. n}
      BY <1>1, <2>4 DEF ToSet
    <3>2. n + 1 \in 1 .. n + 1 /\ \A i \in 1 .. n : i \in 1 .. n + 1
      OBVIOUS
    <3>3. ASSUME NEW y PROVE y \in ToSet(r) <=> (y \in ToSet(d) /\ y[1] # k) \/ y = x
      <4>1. ASSUME NEW i \in 1 .. n, y = r[i] PROVE y \in ToSet(d) /\ y[1] # k
        BY <2>3, <2>5, <3>1, <4>1
      <4>2. ASSUME NEW i \in 1 .. n, y = d[i] PROVE y \in ToSet(r)
        BY <2>3, <3>1, <3>2, <4>2
      <4>3. y = x => y \in ToSet(r)
        BY <2>3, <3>1, <3>2
      <4> QED
        BY <2>3, <2>6, <3>1, <4>1, <4>2, <4>3
    <3> QED
      BY <3>3
  <2> QED
    BY <1>2, <2>3, <2>7, <2>8 DEF IsDict
<1> QED
  BY <1>4, <1>5

\* What is in a dict once the first i items were taken in.
Comes(d, items, Dropped, i, x) ==
    \/ x[1] \notin Dropped /\ \E k \in 1 .. i : items[k] = x /\ \A j \in k + 1 .. i : items[j][1] # x[1]
    \/ x \in ToSet(d) /\ (x[1] \in Dropped \/ \A j \in 1 .. i : items[j][1] # x[1])

\* One item more, and what comes of a dict is what FillIs says.
LEMMA FillStep ==
    ASSUME NEW d, NEW items, NEW Dropped, NEW i \in Nat \ {0}, items[i] \in Pair,
           NEW b, IsDict(b), \A x \in Pair : x \in ToSet(b) <=> Comes(d, items, Dropped, i - 1, x),
           NEW r, r = TakenIn(Dropped, b, items[i])
    PROVE  IsDict(r) /\ \A x \in Pair : x \in ToSet(r) <=> Comes(d, items, Dropped, i, x)
<1>1. PICK y : y = items[i]
  OBVIOUS
<1>2. y[1] \in Str /\ y[2] \in Str /\ y = <<y[1], y[2]>> /\ y \in Pair
  BY <1>1 DEF Pair
<1>3. \A j \in 1 .. i : j \in 1 .. i - 1 \/ j = i
  OBVIOUS
<1>4. i \in 1 .. i /\ \A j \in 1 .. i - 1 : j \in 1 .. i
  OBVIOUS
<1>5. CASE y[1] \in Dropped
  <2>1. r = b
    BY <1>1, <1>5 DEF TakenIn
  <2>2. ASSUME NEW x \in Pair PROVE Comes(d, items, Dropped, i, x) <=> Comes(d, items, Dropped, i - 1, x)
    <3>1. CASE x[1] \in Dropped
      BY <3>1 DEF Comes
    <3>2. CASE x[1] \notin Dropped
      <4>1. x # y /\ y[1] # x[1]
        BY <1>5, <3>2
      <4>2. (\A j \in 1 .. i : items[j][1] # x[1]) <=> \A j \in 1 .. i - 1 : items[j][1] # x[1]
        BY <1>1, <1>3, <1>4, <4>1
      <4>3. \A k \in 1 .. i - 1 : (\A j \in k + 1 .. i : items[j][1] # x[1])
                                  <=> \A j \in k + 1 .. i - 1 : items[j][1] # x[1]
        <5>1. \A k \in 1 .. i - 1 : \A j \in k + 1 .. i : j \in k + 1 .. i - 1 \/ j = i
          OBVIOUS
        <5>2. \A k \in 1 .. i - 1 : \A j \in k + 1 .. i - 1 : j \in k + 1 .. i
          OBVIOUS
        <5> QED
          BY <1>1, <4>1, <5>1, <5>2
      <4> QED
        BY <1>1, <1>3, <1>4, <3>2, <4>1, <4>2, <4>3 DEF Comes
    <3> QED
      BY <3>1, <3>2
  <2> QED
    BY <2>1, <2>2
<1>6. CASE y[1] \notin Dropped
  <2>1. r = Put(b, y[1], y[2])
    BY <1>1, <1>6 DEF TakenIn
  <2>2. IsDict(r) /\ ToSet(r) = {x \in ToSet(b) : x[1] # y[1]} \cup {y}
    BY <1>2, <2>1, PutIs
  <2>3. ASSUME NEW x \in Pair PROVE x \in ToSet(r) <=> Comes(d, items, Dropped, i, x)
    <3>1. CASE x = y
      <4>1. \A j \in i + 1 .. i : FALSE
        OBVIOUS
      <4>2. Comes(d, items, Dropped, i, y)
        BY <1>1, <1>4, <1>6, <4>1 DEF Comes
      <4> QED
        BY <2>2, <3>1, <4>2
    <3>2. CASE x # y /\ x[1] = y[1]
      <4>1. \A k \in 1 .. i - 1 : i \in k + 1 .. i
        OBVIOUS
      <4>2. ~Comes(d, items, Dropped, i, x)
        BY <1>1, <1>3, <1>4, <1>6, <3>2, <4>1 DEF Comes
      <4> QED
        BY <2>2, <3>2, <4>2
    <3>3. CASE x[1] # y[1]
      <4>1. (\A j \in 1 .. i : items[j][1] # x[1]) <=> \A j \in 1 .. i - 1 : items[j][1] # x[1]
        BY <1>1, <1>3, <1>4, <3>3
      <4>2. \A k \in 1 .. i - 1 : (\A j \in k + 1 .. i : items[j][1] # x[1])
                                  <=> \A j \in k + 1 .. i - 1 : items[j][1] # x[1]
        <5>1. \A k \in 1 .. i - 1 : \A j \in k + 1 .. i : j \in k + 1 .. i - 1 \/ j = i
          OBVIOUS
        <5>2. \A k \in 1 .. i - 1 : \A j \in k + 1 .. i - 1 : j \in k + 1 .. i
          OBVIOUS
        <5> QED
          BY <1>1, <3>3, <5>1, <5>2
      <4>3. Comes(d, items, Dropped, i, x) <=> Comes(d, items, Dropped, i - 1, x)
        BY <1>1, <1>3, <1>4, <3>3, <4>1, <4>2 DEF Comes
      <4>4. x \in ToSet(r) <=> x \in ToSet(b)
        BY <2>2, <3>3
      <4> QED
        BY <4>3, <4>4
    <3> QED
      BY <3>1, <3>2, <3>3
  <2> QED
    BY <2>2, <2>3
<1> QED
  BY <1>5, <1>6

\* A filled dict holds the last item of each name, and what it held under other names.
LEMMA FillIs ==
    ASSUME NEW d, IsDict(d), NEW items \in Seq(Pair), NEW Dropped, NEW r, r = Fill(d, items, Dropped)
    PROVE  IsDict(r) /\ \A x \in Pair : x \in ToSet(r) <=> Comes(d, items, Dropped, Len(items), x)
<1>1. PICK n \in Nat : DOMAIN items = 1 .. n /\ Len(items) = n /\ \A i \in 1 .. n : items[i] \in Pair
  BY LenProperties, ElementOfSeq
<1>2. PICK a : Steps(a, Dropped, d, items, n)
  BY <1>1, FillSteps
<1> DEFINE Right(i) == IsDict(a[i]) /\ \A x \in Pair : x \in ToSet(a[i]) <=> Comes(d, items, Dropped, i, x)
           bad == {i \in 0 .. n : ~Right(i)}
<1>3. bad = {}
  <2>1. SUFFICES ASSUME bad # {} PROVE FALSE
    OBVIOUS
  <2>2. PICK i \in bad : \A j \in bad : i <= j
    <3>1. bad \in SUBSET Nat
      OBVIOUS
    <3> HIDE DEF bad
    <3> QED
      BY <2>1, <3>1, LeastExists
  <2>3. i \in 0 .. n /\ ~Right(i)
    OBVIOUS
  <2>4. CASE i = 0
    <3>1. a[0] = d
      BY <1>2 DEF Steps
    <3>2. \A j \in 1 .. 0 : FALSE
      OBVIOUS
    <3>3. \A x \in Pair : x \in ToSet(d) <=> Comes(d, items, Dropped, 0, x)
      BY <3>2 DEF Comes
    <3>4. Right(0)
      BY <3>1, <3>3
    <3> HIDE DEF Right, bad
    <3> QED
      BY <2>3, <2>4, <3>4
  <2>5. CASE i # 0
    <3>1. i - 1 \in bad => i <= i - 1
      BY <2>2
    <3>2. i - 1 \in 0 .. n /\ i \in 1 .. n /\ i - 1 \notin bad
      <4> HIDE DEF bad
      <4> QED
        BY <2>3, <2>5, <3>1
    <3>3. Right(i - 1)
      BY <3>2
    <3>4. a[i] = TakenIn(Dropped, a[i - 1], items[i]) /\ items[i] \in Pair
      BY <1>1, <1>2, <3>2 DEF Steps
    <3>5. PICK b, c : b = a[i - 1] /\ c = a[i]
      OBVIOUS
    <3>6. IsDict(b) /\ \A x \in Pair : x \in ToSet(b) <=> Comes(d, items, Dropped, i - 1, x)
      BY <3>3, <3>5
    <3>7. i \in Nat \ {0} /\ c = TakenIn(Dropped, b, items[i])
      BY <3>2, <3>4, <3>5
    <3>8. IsDict(c) /\ \A x \in Pair : x \in ToSet(c) <=> Comes(d, items, Dropped, i, x)
      <4> HIDE DEF Right, bad
      <4> QED
        BY <3>4, <3>6, <3>7, FillStep
    <3>9. Right(i)
      BY <3>5, <3>8
    <3> HIDE DEF Right, bad
    <3> QED
      BY <2>3, <3>9
  <2> QED
    BY <2>4, <2>5
<1>4. Right(n)
  <2>1. n \in 0 .. n
    OBVIOUS
  <2> HIDE DEF Right
  <2> QED
    BY <1>3, <2>1
<1> QED
  BY <1>1, <1>2, <1>4 DEF Steps
\* Two dicts that were one up to some item are one after it too.
LEMMA FillAppend ==
    ASSUME NEW d, NEW items \in Seq(Pair), NEW p \in Pair, NEW Dropped
    PROVE  Fill(d, Append(items, p), Dropped) = TakenIn(Dropped, Fill(d, items, Dropped), p)
<1>1. PICK n \in Nat : DOMAIN items = 1 .. n /\ Len(items) = n
  BY LenProperties
<1>2. PICK more : more = Append(items, p)
  OBVIOUS
<1>3. more \in Seq(Pair) /\ Len(more) = n + 1 /\ more[n + 1] = p /\ \A i \in 1 .. n : more[i] = items[i]
  BY <1>1, <1>2, AppendProperties
<1>4. DOMAIN more = 1 .. n + 1
  BY <1>3, LenProperties
<1>5. PICK a : Steps(a, Dropped, d, items, n)
  BY <1>1, FillSteps
<1>6. PICK b : Steps(b, Dropped, d, more, n + 1)
  <2>1. n + 1 \in Nat
    OBVIOUS
  <2> QED
    BY <1>4, <2>1, FillSteps
<1> DEFINE bad == {i \in 0 .. n : a[i] # b[i]}
<1>7. bad = {}
  <2>1. SUFFICES ASSUME bad # {} PROVE FALSE
    OBVIOUS
  <2>2. PICK i \in bad : \A j \in bad : i <= j
    <3>1. bad \in SUBSET Nat
      OBVIOUS
    <3> HIDE DEF bad
    <3> QED
      BY <2>1, <3>1, LeastExists
  <2>3. i \in 0 .. n /\ a[i] # b[i]
    OBVIOUS
  <2>4. i # 0
    BY <1>5, <1>6, <2>3 DEF Steps
  <2>5. i - 1 \in bad => i <= i - 1
    BY <2>2
  <2>6. i - 1 \in 0 .. n /\ i \in 1 .. n /\ i \in 1 .. n + 1 /\ i - 1 \notin bad
    <3> HIDE DEF bad
    <3> QED
      BY <2>3, <2>4, <2>5
  <2>7. a[i - 1] = b[i - 1]
    BY <2>6
  <2>8. a[i] = TakenIn(Dropped, a[i - 1], items[i]) /\ b[i] = TakenIn(Dropped, b[i - 1], more[i])
    BY <1>5, <1>6, <2>6 DEF Steps
  <2> HIDE DEF bad
  <2> QED
    BY <1>3, <2>3, <2>6, <2>7, <2>8
<1>8. n \in 0 .. n /\ n \notin bad
  <2> HIDE DEF bad
  <2> QED
    BY <1>7
<1>9. a[n] = b[n]
  BY <1>8
<1>10. n + 1 \in 1 .. n + 1 /\ (n + 1) - 1 = n
  OBVIOUS
<1>11. b[n + 1] = TakenIn(Dropped, b[n], p)
  BY <1>3, <1>6, <1>10 DEF Steps
<1> QED
  BY <1>2, <1>5, <1>6, <1>9, <1>11 DEF Steps

\* Items with other names go to the end of a dict in their order.
LEMMA UpdateAppends ==
    ASSUME NEW d, IsDict(d), NEW e, IsDict(e),
           \A i \in DOMAIN d, j \in DOMAIN e : d[i][1] # e[j][1]
    PROVE  Update(d, e) = d \o e
<1>1. PICK m \in Nat : DOMAIN d = 1 .. m /\ Len(d) = m
  BY LenProperties DEF IsDict
<1>2. PICK n \in Nat : /\ DOMAIN e = 1 .. n /\ Len(e) = n
                       /\ \A i \in 1 .. n : e[i] \in Pair /\ e[i] = <<e[i][1], e[i][2]>>
  BY DictDomain DEF IsDict
<1>3. PICK a : Steps(a, {}, d, e, n)
  BY <1>2, FillSteps
<1> DEFINE Upto(i) == [k \in 1 .. m + i |-> IF k \in 1 .. m THEN d[k] ELSE e[k - m]]
           bad == {i \in 0 .. n : a[i] # Upto(i)}
<1>4. d \in Seq(Pair) /\ e \in Seq(Pair)
  BY DEF IsDict
<1>5. \A i \in 0 .. n : Upto(i) \in Seq(Pair) /\ Len(Upto(i)) = m + i /\ DOMAIN Upto(i) = 1 .. m + i
  <2> SUFFICES ASSUME NEW i \in 0 .. n
               PROVE  Upto(i) \in Seq(Pair) /\ Len(Upto(i)) = m + i /\ DOMAIN Upto(i) = 1 .. m + i
    OBVIOUS
  <2>1. \A k \in 1 .. m : d[k] \in Pair
    BY <1>1, <1>4, ElementOfSeq
  <2>2. \A k \in 1 .. m + i : k \in 1 .. m \/ k - m \in 1 .. n
    OBVIOUS
  <2>3. m + i \in Nat
    OBVIOUS
  <2>4. Upto(i) \in [1 .. m + i -> Pair]
    BY <1>2, <2>1, <2>2
  <2>5. Upto(i) \in Seq(Pair)
    BY <2>3, <2>4, SeqDef
  <2>6. DOMAIN Upto(i) = 1 .. m + i
    OBVIOUS
  <2> HIDE DEF Upto
  <2> QED
    BY <2>3, <2>5, <2>6, LenProperties
<1>6. Upto(0) = d
  <2>1. m + 0 = m
    OBVIOUS
  <2>2. d = [k \in 1 .. m |-> d[k]]
    BY <1>1, <1>4
  <2>3. Upto(0) = [k \in 1 .. m |-> d[k]]
    BY <2>1
  <2> QED
    BY <2>2, <2>3
<1>7. ASSUME NEW i \in 1 .. n PROVE Upto(i) = Append(Upto(i - 1), e[i]) /\ ~Has(Upto(i - 1), e[i][1])
  <2>1. i - 1 \in 0 .. n /\ i \in 0 .. n /\ m + (i - 1) + 1 = m + i /\ (m + i) - m = i /\ m + i \notin 1 .. m
    OBVIOUS
  <2>2. PICK u : u = Upto(i - 1)
    OBVIOUS
  <2>3. u \in Seq(Pair) /\ Len(u) = m + (i - 1) /\ DOMAIN u = 1 .. m + (i - 1)
    BY <1>5, <2>1, <2>2
  <2>4. PICK w : w = Append(u, e[i])
    OBVIOUS
  <2>5. /\ w \in Seq(Pair) /\ Len(w) = m + i /\ w[m + i] = e[i]
        /\ \A k \in 1 .. m + (i - 1) : w[k] = u[k]
    BY <1>2, <2>1, <2>3, <2>4, AppendProperties
  <2>6. \A k \in 1 .. m + (i - 1) : u[k] = IF k \in 1 .. m THEN d[k] ELSE e[k - m]
    BY <2>2
  <2>7. \A k \in 1 .. m + i : k \in 1 .. m + (i - 1) \/ k = m + i
    OBVIOUS
  <2>8. \A k \in 1 .. m + i : w[k] = IF k \in 1 .. m THEN d[k] ELSE e[k - m]
    BY <2>1, <2>5, <2>6, <2>7
  <2>9. DOMAIN w = 1 .. m + i
    BY <2>5, LenProperties
  <2>10. w = [k \in 1 .. m + i |-> w[k]]
    BY <2>5, <2>9
  <2>11. w = Upto(i)
    BY <2>8, <2>10
  <2>12. ASSUME NEW k \in 1 .. m + (i - 1) PROVE u[k][1] # e[i][1]
    <3>1. CASE k \in 1 .. m
      BY <1>1, <1>2, <2>6, <3>1
    <3>2. CASE k \notin 1 .. m
      <4>1. k - m \in 1 .. n /\ k - m # i
        BY <3>2
      <4>2. u[k] = e[k - m]
        BY <2>6, <3>2
      <4> QED
        BY <1>2, <4>1, <4>2 DEF IsDict, Unique
    <3> QED
      BY <3>1, <3>2
  <2>13. ~Has(u, e[i][1])
    BY <2>3, <2>12 DEF Has
  <2> HIDE DEF Upto
  <2> QED
    BY <2>2, <2>4, <2>11, <2>13
<1>8. bad = {}
  <2>1. SUFFICES ASSUME bad # {} PROVE FALSE
    OBVIOUS
  <2>2. PICK i \in bad : \A j \in bad : i <= j
    <3>1. bad \in SUBSET Nat
      OBVIOUS
    <3> HIDE DEF bad
    <3> QED
      BY <2>1, <3>1, LeastExists
  <2>3. i \in 0 .. n /\ a[i] # Upto(i)
    OBVIOUS
  <2>4. i # 0
    <3>1. a[0] = d
      BY <1>3 DEF Steps
    <3> HIDE DEF Upto, bad
    <3> QED
      BY <1>6, <2>3, <3>1
  <2>5. i - 1 \in bad => i <= i - 1
    BY <2>2
  <2>6. i - 1 \in 0 .. n /\ i \in 1 .. n /\ i - 1 \notin bad
    <3> HIDE DEF bad
    <3> QED
      BY <2>3, <2>4, <2>5
  <2>7. a[i - 1] = Upto(i - 1)
    BY <2>6
  <2>8. a[i] = TakenIn({}, a[i - 1], e[i])
    BY <1>3, <2>6 DEF Steps
  <2> HIDE DEF Upto, bad
  <2>9. a[i] = Put(Upto(i - 1), e[i][1], e[i][2])
    BY <2>7, <2>8 DEF TakenIn
  <2>10. a[i] = Append(Upto(i - 1), <<e[i][1], e[i][2]>>)
    BY <1>7, <2>6, <2>9, Zenon DEF Put
  <2> QED
    BY <1>2, <1>7, <2>3, <2>6, <2>10
<1>9. a[n] = Upto(n)
  <2>1. n \in 0 .. n /\ n \notin bad
    <3> HIDE DEF bad
    <3> QED
      BY <1>8
  <2> QED
    BY <2>1
<1>10. d \o e = Upto(n)
  <2>1. PICK w : w = d \o e
    OBVIOUS
  <2>2. /\ w \in Seq(Pair) /\ Len(w) = m + n
        /\ \A k \in 1 .. m + n : w[k] = IF k <= m THEN d[k] ELSE e[k - m]
    <3>1. /\ w \in Seq(Pair) /\ Len(w) = Len(d) + Len(e)
          /\ \A k \in 1 .. Len(d) + Len(e) : w[k] = IF k <= Len(d) THEN d[k] ELSE e[k - Len(d)]
      BY <1>4, <2>1, ConcatProperties
    <3>2. Len(d) = m /\ Len(e) = n
      BY <1>1, <1>2
    <3> QED
      BY <3>1, <3>2, Zenon
  <2>3. DOMAIN w = 1 .. m + n
    BY <2>2, LenProperties
  <2>4. \A k \in 1 .. m + n : k <= m <=> k \in 1 .. m
    OBVIOUS
  <2>5. w = [k \in 1 .. m + n |-> w[k]]
    BY <2>2, <2>3
  <2> QED
    BY <2>1, <2>2, <2>4, <2>5
<1> HIDE DEF Upto, bad
<1> QED
  BY <1>3, <1>9, <1>10 DEF Steps, Update
\* The dict without items.
LEMMA EmptyDict == IsDict(<<>>) /\ DOMAIN <<>> = {} /\ ToSet(<<>>) = {} /\ Len(<<>>) = 0
<1>1. <<>> \in Seq(Pair) /\ DOMAIN <<>> = {} /\ Len(<<>>) = 0
  OBVIOUS
<1> QED
  BY <1>1 DEF IsDict, Unique, ToSet

\* Has and Value say what is in a dict, under each name once.
LEMMA InDict ==
    ASSUME NEW d, IsDict(d)
    PROVE  /\ \A x \in ToSet(d) : x \in Pair /\ x = <<x[1], x[2]>> /\ Has(d, x[1]) /\ Value(d, x[1]) = x[2]
           /\ \A x, y \in ToSet(d) : x[1] = y[1] => x = y
           /\ \A key : Has(d, key) <=> \E x \in ToSet(d) : x[1] = key
<1>1. PICK n \in Nat : /\ DOMAIN d = 1 .. n /\ Len(d) = n
                       /\ \A i \in 1 .. n : d[i] \in Pair /\ d[i] = <<d[i][1], d[i][2]>>
  BY DictDomain DEF IsDict
<1>2. ToSet(d) = {d[i] : i \in 1 .. n}
  BY <1>1 DEF ToSet
<1>3. \A i, j \in 1 .. n : d[i][1] = d[j][1] => i = j
  BY <1>1 DEF IsDict, Unique
<1>4. \A key : Has(d, key) <=> \E x \in ToSet(d) : x[1] = key
  BY <1>1, <1>2 DEF Has
<1>5. ASSUME NEW i \in 1 .. n PROVE Value(d, d[i][1]) = d[i][2]
  <2>1. PICK j : j = CHOOSE k \in DOMAIN d : d[k][1] = d[i][1]
    OBVIOUS
  <2>2. j \in 1 .. n /\ d[j][1] = d[i][1]
    BY <1>1, <2>1, Zenon
  <2>3. j = i
    BY <1>3, <2>2
  <2> QED
    BY <2>1, <2>3, Zenon DEF Value
<1>6. ASSUME NEW x \in ToSet(d) PROVE x \in Pair /\ x = <<x[1], x[2]>> /\ Has(d, x[1]) /\ Value(d, x[1]) = x[2]
  <2>1. PICK i \in 1 .. n : x = d[i]
    BY <1>2
  <2> QED
    BY <1>1, <1>4, <1>5, <2>1
<1>7. ASSUME NEW x \in ToSet(d), NEW y \in ToSet(d), x[1] = y[1] PROVE x = y
  <2>1. PICK i \in 1 .. n, j \in 1 .. n : x = d[i] /\ y = d[j]
    BY <1>2
  <2> QED
    BY <1>3, <1>7, <2>1
<1> QED
  BY <1>4, <1>6, <1>7

\* What a dict holds, without the items of some names.
LEMMA WithoutIs ==
    ASSUME NEW d, IsDict(d), NEW Dropped, NEW r, r = Without(d, Dropped)
    PROVE  IsDict(r) /\ \A x : x \in ToSet(r) <=> x \in ToSet(d) /\ x[1] \notin Dropped
<1>1. IsDict(<<>>) /\ r = Fill(<<>>, d, Dropped) /\ d \in Seq(Pair)
  BY EmptyDict DEF Without, IsDict
<1>2. IsDict(r) /\ \A x \in Pair : x \in ToSet(r) <=> Comes(<<>>, d, Dropped, Len(d), x)
  BY <1>1, FillIs
<1>3. PICK n \in Nat : DOMAIN d = 1 .. n /\ Len(d) = n
  BY <1>1, LenProperties
<1>4. ASSUME NEW x \in Pair
      PROVE  Comes(<<>>, d, Dropped, n, x) <=> x \in ToSet(d) /\ x[1] \notin Dropped
  <2>1. x \notin ToSet(<<>>)
    BY EmptyDict
  <2>2. \A k \in 1 .. n : d[k] = x => \A j \in k + 1 .. n : d[j][1] # x[1]
    <3> SUFFICES ASSUME NEW k \in 1 .. n, d[k] = x, NEW j \in k + 1 .. n PROVE d[j][1] # x[1]
      OBVIOUS
    <3>1. j \in 1 .. n /\ j # k
      OBVIOUS
    <3> QED
      BY <1>3, <3>1 DEF IsDict, Unique
  <2>3. x \in ToSet(d) <=> \E k \in 1 .. n : d[k] = x
    BY <1>3 DEF ToSet
  <2> QED
    BY <2>1, <2>2, <2>3 DEF Comes
<1>5. \A x : x \in ToSet(r) \/ x \in ToSet(d) => x \in Pair
  BY <1>2, InDict
<1> QED
  BY <1>2, <1>3, <1>4, <1>5

\* What a dict holds once another was written over it.
LEMMA UpdateIs ==
    ASSUME NEW d, IsDict(d), NEW e, IsDict(e), NEW r, r = Update(d, e)
    PROVE  /\ IsDict(r)
           /\ \A x : x \in ToSet(r) <=> x \in ToSet(e) \/ (x \in ToSet(d) /\ ~Has(e, x[1]))
<1>1. r = Fill(d, e, {}) /\ e \in Seq(Pair)
  BY DEF Update, IsDict
<1>2. IsDict(r) /\ \A x \in Pair : x \in ToSet(r) <=> Comes(d, e, {}, Len(e), x)
  BY <1>1, FillIs
<1>3. PICK n \in Nat : DOMAIN e = 1 .. n /\ Len(e) = n
  BY <1>1, LenProperties
<1>4. ASSUME NEW x \in Pair
      PROVE  Comes(d, e, {}, n, x) <=> x \in ToSet(e) \/ (x \in ToSet(d) /\ ~Has(e, x[1]))
  <2>1. \A k \in 1 .. n : e[k] = x => \A j \in k + 1 .. n : e[j][1] # x[1]
    <3> SUFFICES ASSUME NEW k \in 1 .. n, e[k] = x, NEW j \in k + 1 .. n PROVE e[j][1] # x[1]
      OBVIOUS
    <3>1. j \in 1 .. n /\ j # k
      OBVIOUS
    <3> QED
      BY <1>3, <3>1 DEF IsDict, Unique
  <2>2. x \in ToSet(e) <=> \E k \in 1 .. n : e[k] = x
    BY <1>3 DEF ToSet
  <2>3. Has(e, x[1]) <=> ~\A k \in 1 .. n : e[k][1] # x[1]
    BY <1>3 DEF Has
  <2> QED
    BY <2>1, <2>2, <2>3 DEF Comes
<1>5. \A x : x \in ToSet(r) \/ x \in ToSet(d) \/ x \in ToSet(e) => x \in Pair
  BY <1>2, InDict
<1> QED
  BY <1>2, <1>3, <1>4, <1>5

-----------------------------------------------------------------------------
(* Lower-casing. *)
Lowerable(d) == \A i \in DOMAIN d : Lower(d[i][1]) \in Str /\ Lower(Lower(d[i][1])) = Lower(d[i][1])
Headers(d) == IsDict(d) /\ Lowerable(d)

\* The last item of each lower-case name is what is left.
IsLast(d, k, x) == /\ x = <<Lower(d[k][1]), d[k][2]>>
                   /\ \A j \in DOMAIN d : j > k => Lower(d[j][1]) # x[1]

\* What an item becomes has that item's name.
LEMMA OtherName ==
    ASSUME NEW d, NEW k, NEW x, Lower(d[k][1]) # x[1]
    PROVE  ~IsLast(d, k, x)
<1>1. PICK y : y = <<Lower(d[k][1]), d[k][2]>>
  OBVIOUS
<1>2. y[1] = Lower(d[k][1])
  BY <1>1
<1>3. x # y
  BY <1>2
<1> QED
  BY <1>1, <1>3 DEF IsLast

\* LowerKeys keeps, for each lower-case name, the last item whose name becomes it.
LEMMA LoweredIs ==
    ASSUME NEW d, Headers(d), NEW r, r = LowerKeys(d)
    PROVE  /\ Headers(r)
           /\ \A x : x \in ToSet(r) => x \in Pair /\ Lower(x[1]) = x[1]
           /\ \A x : x \in ToSet(r) <=> \E k \in DOMAIN d : IsLast(d, k, x)
<1>1. PICK n \in Nat : /\ DOMAIN d = 1 .. n /\ Len(d) = n
                       /\ \A i \in 1 .. n : d[i] \in Pair /\ d[i][1] \in Str /\ d[i][2] \in Str
                                            /\ d[i] = <<d[i][1], d[i][2]>>
  BY DictDomain DEF IsDict, Headers
<1>2. PICK items : items = [i \in DOMAIN d |-> <<Lower(d[i][1]), d[i][2]>>]
  OBVIOUS
<1>3. \A i \in 1 .. n : Lower(d[i][1]) \in Str /\ Lower(Lower(d[i][1])) = Lower(d[i][1])
  BY <1>1 DEF Headers, Lowerable
<1>4. \A i \in 1 .. n : items[i] = <<Lower(d[i][1]), d[i][2]>> /\ items[i][1] = Lower(d[i][1]) /\ items[i] \in Pair
  BY <1>1, <1>2, <1>3 DEF Pair
<1>5. DOMAIN items = 1 .. n /\ items \in Seq(Pair) /\ Len(items) = n
  <2>1. items \in [1 .. n -> Pair]
    BY <1>1, <1>2, <1>4
  <2>2. items \in Seq(Pair)
    BY <2>1, SeqDef
  <2>3. DOMAIN items = 1 .. n
    BY <2>1
  <2> QED
    BY <2>2, <2>3, LenProperties
<1>6. r = Fill(<<>>, items, {})
  BY <1>2, Zenon DEF LowerKeys, Update
<1>7. IsDict(r) /\ \A x \in Pair : x \in ToSet(r) <=> Comes(<<>>, items, {}, n, x)
  <2>1. IsDict(<<>>)
    BY EmptyDict
  <2> QED
    BY <1>5, <1>6, <2>1, FillIs
<1>8. \A x : x \in ToSet(r) => x \in Pair
  BY <1>7, InDict
<1>9. ASSUME NEW x PROVE x \in ToSet(r) <=> \E k \in DOMAIN d : IsLast(d, k, x)
  <2>1. ASSUME x \in Pair PROVE Comes(<<>>, items, {}, n, x) <=> \E k \in DOMAIN d : IsLast(d, k, x)
    <3>1. x \notin ToSet(<<>>)
      BY EmptyDict
    <3>2. \A k \in 1 .. n : \A j : j \in k + 1 .. n <=> j \in 1 .. n /\ j > k
      OBVIOUS
    <3>3. ASSUME NEW k \in 1 .. n
          PROVE  IsLast(d, k, x) <=> items[k] = x /\ \A j \in k + 1 .. n : items[j][1] # x[1]
      <4>1. x = <<Lower(d[k][1]), d[k][2]>> <=> items[k] = x
        BY <1>4
      <4>2. (\A j \in DOMAIN d : j > k => Lower(d[j][1]) # x[1]) <=> \A j \in k + 1 .. n : items[j][1] # x[1]
        <5>1. \A j \in 1 .. n : Lower(d[j][1]) = items[j][1]
          BY <1>4
        <5> QED
          BY <1>1, <3>2, <5>1
      <4> QED
        BY <4>1, <4>2, Zenon DEF IsLast
    <3> QED
      BY <1>1, <3>1, <3>3 DEF Comes
  <2>2. \A k \in DOMAIN d : IsLast(d, k, x) => x \in Pair
    BY <1>1, <1>4 DEF IsLast
  <2> QED
    BY <1>7, <1>8, <2>1, <2>2
<1>10. \A x : x \in ToSet(r) => Lower(x[1]) = x[1] /\ x[1] \in Str
  <2> SUFFICES ASSUME NEW x, x \in ToSet(r) PROVE Lower(x[1]) = x[1] /\ x[1] \in Str
    OBVIOUS
  <2>1. PICK k \in 1 .. n : x = <<Lower(d[k][1]), d[k][2]>>
    BY <1>1, <1>9 DEF IsLast
  <2>2. x[1] = Lower(d[k][1])
    BY <2>1
  <2> QED
    BY <1>3, <2>2
<1>11. Lowerable(r)
  <2>1. \A i \in DOMAIN r : r[i] \in ToSet(r)
    BY DEF ToSet
  <2> QED
    BY <1>10, <2>1 DEF Lowerable
<1> QED
  BY <1>7, <1>8, <1>9, <1>10, <1>11 DEF Headers
\* A name is in the lowered dict if some name lower-cases to it.
LEMMA HasLowered ==
    ASSUME NEW d, Headers(d), NEW r, r = LowerKeys(d), NEW k
    PROVE  Has(r, k) <=> \E i \in DOMAIN d : Lower(d[i][1]) = k
<1>1. PICK n \in Nat : DOMAIN d = 1 .. n
  BY DictDomain DEF IsDict, Headers
<1>2. IsDict(r) /\ \A x : x \in ToSet(r) <=> \E i \in DOMAIN d : IsLast(d, i, x)
  BY LoweredIs DEF Headers
<1>3. ASSUME Has(r, k) PROVE \E i \in DOMAIN d : Lower(d[i][1]) = k
  <2>1. PICK x \in ToSet(r) : x[1] = k
    BY <1>2, <1>3, InDict
  <2>2. PICK i \in DOMAIN d : x = <<Lower(d[i][1]), d[i][2]>>
    BY <1>2 DEF IsLast
  <2>3. x[1] = Lower(d[i][1])
    BY <2>2
  <2> QED
    BY <2>1, <2>3
<1>4. ASSUME NEW m \in 1 .. n, Lower(d[m][1]) = k PROVE Has(r, k)
  <2> DEFINE fits == {i \in 1 .. n : Lower(d[i][1]) = k}
             last == {n - i : i \in fits}
  <2>1. PICK b \in last : \A c \in last : b <= c
    <3>1. \A i \in fits : n - i \in Nat
      OBVIOUS
    <3>2. last \in SUBSET Nat
      <4> HIDE DEF fits
      <4> QED
        BY <3>1
    <3>3. n - m \in last
      BY <1>4
    <3> HIDE DEF last
    <3> QED
      BY <3>2, <3>3, LeastExists
  <2>2. PICK i \in fits : b = n - i
    OBVIOUS
  <2>3. i \in 1 .. n /\ Lower(d[i][1]) = k
    OBVIOUS
  <2>4. \A j \in 1 .. n : Lower(d[j][1]) = k => n - i <= n - j
    <3> SUFFICES ASSUME NEW j \in 1 .. n, Lower(d[j][1]) = k PROVE n - i <= n - j
      OBVIOUS
    <3>1. n - j \in last
      OBVIOUS
    <3> HIDE DEF last
    <3> QED
      BY <2>1, <2>2, <3>1
  <2> HIDE DEF last, fits
  <2>5. \A j \in 1 .. n : j > i => Lower(d[j][1]) # k
    <3> SUFFICES ASSUME NEW j \in 1 .. n, j > i, Lower(d[j][1]) = k PROVE FALSE
      OBVIOUS
    <3>1. n - i <= n - j
      BY <2>4
    <3> QED
      BY <2>3, <3>1
  <2>6. PICK x : x = <<k, d[i][2]>>
    OBVIOUS
  <2>7. x[1] = k
    BY <2>6
  <2>8. IsLast(d, i, x)
    BY <1>1, <2>3, <2>5, <2>6, <2>7, Zenon DEF IsLast
  <2>9. x \in ToSet(r)
    BY <1>1, <1>2, <2>3, <2>8
  <2> QED
    BY <1>2, <2>7, <2>9, InDict
<1> QED
  BY <1>1, <1>3, <1>4

\* A dict of lower-case names is not changed by LowerKeys.
LEMMA LoweredSame ==
    ASSUME NEW d, IsDict(d), \A x \in ToSet(d) : Lower(x[1]) = x[1], NEW r, r = LowerKeys(d)
    PROVE  IsDict(r) /\ ToSet(r) = ToSet(d)
<1>1. \A i \in DOMAIN d : d[i] \in ToSet(d) /\ d[i] = <<d[i][1], d[i][2]>> /\ d[i][1] \in Str
  <2>1. \A i \in DOMAIN d : d[i] \in ToSet(d)
    BY DEF ToSet
  <2>2. \A x \in ToSet(d) : x = <<x[1], x[2]>> /\ x \in Pair
    BY InDict
  <2>3. \A x \in Pair : x[1] \in Str
    BY DEF Pair
  <2> QED
    BY <2>1, <2>2, <2>3
<1>2. \A i \in DOMAIN d : Lower(d[i][1]) = d[i][1]
  BY <1>1
<1>3. Headers(d)
  BY <1>1, <1>2 DEF Headers, Lowerable
<1>4. Headers(r) /\ \A x : x \in ToSet(r) <=> \E k \in DOMAIN d : IsLast(d, k, x)
  BY <1>3, LoweredIs
<1>5. PICK n \in Nat : DOMAIN d = 1 .. n
  BY DictDomain DEF IsDict
<1>6. \A k \in DOMAIN d : \A x : IsLast(d, k, x) <=> x = d[k]
  <2> SUFFICES ASSUME NEW k \in DOMAIN d, NEW x PROVE IsLast(d, k, x) <=> x = d[k]
    OBVIOUS
  <2>1. \A j \in DOMAIN d : j > k => d[j][1] # d[k][1]
    BY <1>5 DEF IsDict, Unique
  <2> QED
    BY <1>1, <1>2, <2>1 DEF IsLast
<1>7. \A x : x \in ToSet(r) <=> x \in ToSet(d)
  BY <1>4, <1>6 DEF ToSet
<1> QED
  BY <1>4, <1>7 DEF Headers

\* One more item, or one replaced, changes nothing under the other names; and it is
\* what its own name stands for, unless another name lower-cases to it.
LEMMA LoweredPut ==
    ASSUME NEW d, Headers(d), NEW k \in Str, Lower(k) = k, NEW v \in Str,
           NEW e, e = Put(d, k, v)
    PROVE  /\ Headers(e) /\ Has(LowerKeys(e), k)
           /\ \A x : x[1] # k => (x \in ToSet(LowerKeys(e)) <=> x \in ToSet(LowerKeys(d)))
           /\ ((\A i \in DOMAIN d : Lower(d[i][1]) = k => d[i][1] = k) \/ ~Has(d, k)) => <<k, v>> \in ToSet(LowerKeys(e))
<1>0. PICK r, q : r = LowerKeys(d) /\ q = LowerKeys(e)
  OBVIOUS
<1>1. PICK n \in Nat : /\ DOMAIN d = 1 .. n /\ Len(d) = n
                       /\ \A i \in 1 .. n : d[i] \in Pair /\ d[i][1] \in Str /\ d[i] = <<d[i][1], d[i][2]>>
  BY DictDomain DEF IsDict, Headers
<1>2. PICK p : p = <<k, v>>
  OBVIOUS
<1>3. p[1] = k /\ p[2] = v
  BY <1>2
<1>4. IsDict(d) /\ IsDict(e)
  BY PutIs DEF Headers
<1>5. \A i \in 1 .. n : Lower(d[i][1]) \in Str /\ Lower(Lower(d[i][1])) = Lower(d[i][1])
  BY <1>1 DEF Headers, Lowerable
<1>6. \A x : x \in ToSet(r) <=> \E i \in DOMAIN d : IsLast(d, i, x)
  BY <1>0, LoweredIs
<1>7. CASE Has(d, k)
  <2>1. e = [i \in 1 .. n |-> IF d[i][1] = k THEN p ELSE d[i]]
    BY <1>1, <1>2, <1>7, Zenon DEF Put
  <2>2. DOMAIN e = 1 .. n /\ \A i \in 1 .. n : e[i] = IF d[i][1] = k THEN p ELSE d[i]
    BY <2>1
  <2>3. \A i \in 1 .. n : e[i][1] = d[i][1]
    BY <1>3, <2>2
  <2>4. Headers(e)
    BY <1>4, <1>5, <2>2, <2>3 DEF Headers, Lowerable
  <2>5. \A x : x \in ToSet(q) <=> \E i \in 1 .. n : IsLast(e, i, x)
    BY <1>0, <2>2, <2>4, LoweredIs
  <2>6. PICK m \in 1 .. n : d[m][1] = k
    BY <1>1, <1>7 DEF Has
  <2>7. ASSUME NEW x, x[1] # k PROVE x \in ToSet(q) <=> x \in ToSet(r)
    <3>1. ASSUME NEW i \in 1 .. n PROVE IsLast(e, i, x) <=> IsLast(d, i, x)
      <4>1. CASE d[i][1] = k
        <5>1. Lower(d[i][1]) # x[1] /\ Lower(e[i][1]) # x[1]
          BY <2>3, <2>7, <4>1
        <5> QED
          BY <5>1, OtherName
      <4>2. CASE d[i][1] # k
        <5>1. e[i] = d[i]
          BY <2>2, <4>2
        <5> QED
          BY <1>1, <2>2, <2>3, <5>1 DEF IsLast
      <4> QED
        BY <4>1, <4>2
    <3> QED
      BY <1>1, <1>6, <2>5, <3>1
  <2>8. Has(q, k)
    <3>1. Lower(e[m][1]) = k
      BY <2>3, <2>6
    <3> QED
      BY <1>0, <2>2, <2>4, <3>1, HasLowered
  <2>9. ASSUME \A i \in DOMAIN d : Lower(d[i][1]) = k => d[i][1] = k PROVE p \in ToSet(q)
    <3>1. \A j \in 1 .. n : j > m => Lower(d[j][1]) # k
      <4> SUFFICES ASSUME NEW j \in 1 .. n, j > m, Lower(d[j][1]) = k PROVE FALSE
        OBVIOUS
      <4>1. d[j][1] = k
        BY <1>1, <2>9
      <4> QED
        <5>1. \A i, l \in 1 .. n : d[i][1] = d[l][1] => i = l
          BY <1>1, <1>4 DEF IsDict, Unique
        <5>2. j = m
          BY <2>6, <4>1, <5>1
        <5> QED
          BY <5>2
    <3>2. IsLast(e, m, p)
      BY <1>2, <1>3, <2>2, <2>3, <2>6, <3>1 DEF IsLast
    <3> QED
      BY <2>5, <3>2
  <2> QED
    BY <1>0, <1>1, <1>2, <1>7, <2>4, <2>7, <2>8, <2>9
<1>8. CASE ~Has(d, k)
  <2>1. e = Append(d, p)
    BY <1>2, <1>8, Zenon DEF Put
  <2>2. e \in Seq(Pair) /\ Len(e) = n + 1 /\ e[n + 1] = p /\ \A i \in 1 .. n : e[i] = d[i]
    <3>1. p \in Pair /\ d \in Seq(Pair)
      BY <1>2 DEF Pair, Headers, IsDict
    <3> QED
      BY <1>1, <2>1, <3>1, AppendProperties
  <2>3. DOMAIN e = 1 .. n + 1
    BY <2>2, LenProperties
  <2>4. \A i \in 1 .. n + 1 : i \in 1 .. n \/ i = n + 1
    OBVIOUS
  <2>5. Lower(e[n + 1][1]) = k
    BY <1>3, <2>2
  <2>6. Headers(e)
    BY <1>4, <1>5, <2>2, <2>3, <2>4, <2>5 DEF Headers, Lowerable
  <2>7. \A x : x \in ToSet(q) <=> \E i \in DOMAIN e : IsLast(e, i, x)
    BY <1>0, <2>6, LoweredIs
  <2>8. n + 1 \in 1 .. n + 1 /\ \A i \in 1 .. n : i \in 1 .. n + 1 /\ n + 1 > i
    OBVIOUS
  <2>9. ASSUME NEW x, x[1] # k PROVE x \in ToSet(q) <=> x \in ToSet(r)
    <3>1. ~IsLast(e, n + 1, x)
      <4>1. Lower(e[n + 1][1]) # x[1]
        BY <2>5, <2>9
      <4> QED
        BY <4>1, OtherName
    <3>2. ASSUME NEW i \in 1 .. n PROVE IsLast(e, i, x) <=> IsLast(d, i, x)
      <4>1. (\A j \in DOMAIN e : j > i => Lower(e[j][1]) # x[1])
            <=> \A j \in DOMAIN d : j > i => Lower(d[j][1]) # x[1]
        BY <1>1, <2>2, <2>3, <2>4, <2>5, <2>8, <2>9
      <4> QED
        BY <2>2, <4>1 DEF IsLast
    <3> QED
      BY <1>1, <1>6, <2>3, <2>4, <2>7, <2>8, <3>1, <3>2
  <2>10. p \in ToSet(q)
    <3>1. \A j \in 1 .. n + 1 : ~(j > n + 1)
      OBVIOUS
    <3>2. IsLast(e, n + 1, p)
      BY <1>2, <1>3, <2>2, <2>3, <2>5, <3>1 DEF IsLast
    <3> QED
      BY <2>3, <2>7, <2>8, <3>2
  <2>11. Has(q, k)
    <3>1. IsDict(q)
      BY <1>0, <2>6, LoweredIs DEF Headers
    <3> QED
      BY <1>3, <2>10, <3>1, InDict
  <2> QED
    BY <1>0, <1>2, <1>8, <2>6, <2>9, <2>10, <2>11
<1> QED
  BY <1>7, <1>8

\* A dict that was started with the name k: the items of other names are some of the
\* first m, in their order.
Ordered(b, hs, k, m) ==
    /\ IsDict(b) /\ 1 \in DOMAIN b /\ b[1][1] = k
    /\ \A i \in DOMAIN b : b[i][1] # k => \E g \in 1 .. m : hs[g] = b[i]
    /\ \A i, j \in DOMAIN b : i < j /\ b[i][1] # k /\ b[j][1] # k =>
          \E g, h \in 1 .. m : g < h /\ hs[g] = b[i] /\ hs[h] = b[j]

\* One item more keeps the order: it is put in the place of k or at the end.
LEMMA OrderStep ==
    ASSUME NEW hs, IsDict(hs), NEW m \in Nat, m + 1 \in DOMAIN hs, NEW x, x = hs[m + 1],
           NEW b, NEW k, Ordered(b, hs, k, m), NEW c, c = Put(b, x[1], x[2])
    PROVE  Ordered(c, hs, k, m + 1)
<1>1. PICK n \in Nat : /\ DOMAIN hs = 1 .. n
                       /\ \A i \in 1 .. n : hs[i] \in Pair /\ hs[i][1] \in Str /\ hs[i][2] \in Str
                                            /\ hs[i] = <<hs[i][1], hs[i][2]>>
  BY DictDomain DEF IsDict
<1>2. x[1] \in Str /\ x[2] \in Str /\ x = <<x[1], x[2]>> /\ x \in Pair
  BY <1>1
<1>3. IsDict(b) /\ IsDict(c)
  BY <1>2, PutIs DEF Ordered
<1>4. PICK l \in Nat : DOMAIN b = 1 .. l /\ Len(b) = l /\ b \in Seq(Pair)
  BY <1>3, LenProperties DEF IsDict
<1>5. 1 .. m \subseteq 1 .. m + 1 /\ m + 1 \in 1 .. m + 1 /\ \A g \in 1 .. m : g < m + 1
  OBVIOUS
<1>6. \A i \in DOMAIN b : b[i][1] # k => \E g \in 1 .. m + 1 : hs[g] = b[i]
  BY <1>5 DEF Ordered
<1>7. \A i, j \in DOMAIN b : i < j /\ b[i][1] # k /\ b[j][1] # k =>
        \E g, h \in 1 .. m + 1 : g < h /\ hs[g] = b[i] /\ hs[h] = b[j]
  <2> TAKE i, j \in DOMAIN b
  <2> HAVE i < j /\ b[i][1] # k /\ b[j][1] # k
  <2>1. PICK g, h \in 1 .. m : g < h /\ hs[g] = b[i] /\ hs[h] = b[j]
    BY DEF Ordered
  <2> QED
    BY <1>5, <2>1
<1>8. CASE Has(b, x[1])
  <2>1. x[1] = k
    <3>1. PICK i \in DOMAIN b : b[i][1] = x[1]
      BY <1>8 DEF Has
    <3>2. SUFFICES ASSUME x[1] # k PROVE FALSE
      OBVIOUS
    <3>3. PICK g \in 1 .. m : hs[g] = b[i]
      BY <3>1, <3>2 DEF Ordered
    <3>4. g \in 1 .. n /\ g # m + 1 /\ hs[g][1] = hs[m + 1][1]
      BY <1>1, <3>1, <3>3
    <3> QED
      BY <1>1, <3>4 DEF IsDict, Unique
  <2>2. c = [i \in DOMAIN b |-> IF b[i][1] = k THEN x ELSE b[i]]
    BY <1>2, <1>8, <2>1, Zenon DEF Put
  <2>3. DOMAIN c = DOMAIN b /\ \A i \in DOMAIN b : c[i] = IF b[i][1] = k THEN x ELSE b[i]
    BY <2>2
  <2>4. \A i \in DOMAIN b : c[i][1] = b[i][1] /\ (c[i][1] # k => c[i] = b[i])
    <3> TAKE i \in DOMAIN b
    <3>1. CASE b[i][1] = k
      <4>1. c[i] = x
        BY <2>3, <3>1
      <4> QED
        BY <2>1, <3>1, <4>1
    <3>2. CASE b[i][1] # k
      <4>1. c[i] = b[i]
        BY <2>3, <3>2
      <4> QED
        BY <4>1
    <3> QED
      BY <3>1, <3>2
  <2>5. 1 \in DOMAIN c /\ c[1][1] = k
    BY <2>3, <2>4 DEF Ordered
  <2>6. \A i \in DOMAIN c : c[i][1] # k => \E g \in 1 .. m + 1 : hs[g] = c[i]
    <3> TAKE i \in DOMAIN c
    <3> HAVE c[i][1] # k
    <3>1. i \in DOMAIN b /\ c[i] = b[i]
      BY <2>3, <2>4
    <3> QED
      BY <1>6, <3>1
  <2>7. \A i, j \in DOMAIN c : i < j /\ c[i][1] # k /\ c[j][1] # k =>
          \E g, h \in 1 .. m + 1 : g < h /\ hs[g] = c[i] /\ hs[h] = c[j]
    <3> TAKE i, j \in DOMAIN c
    <3> HAVE i < j /\ c[i][1] # k /\ c[j][1] # k
    <3>1. c[i] = b[i] /\ c[j] = b[j]
      BY <2>3, <2>4
    <3> QED
      BY <1>7, <2>3, <3>1
  <2> QED
    BY <1>3, <2>5, <2>6, <2>7, Zenon DEF Ordered
<1>9. CASE ~Has(b, x[1])
  <2>1. c = Append(b, x)
    BY <1>2, <1>9, Zenon DEF Put
  <2>2. Len(c) = l + 1 /\ c[l + 1] = x /\ (\A i \in 1 .. l : c[i] = b[i]) /\ c \in Seq(Pair)
    BY <1>2, <1>4, <2>1, AppendProperties
  <2>3. DOMAIN c = 1 .. l + 1
    BY <2>2, LenProperties
  <2>4. /\ \A i \in 1 .. l + 1 : i \in 1 .. l \/ i = l + 1
        /\ \A i \in 1 .. l : i \in 1 .. l + 1 /\ ~(l + 1 < i)
        /\ ~(l + 1 < l + 1)
    OBVIOUS
  <2>5. 1 \in DOMAIN c /\ c[1][1] = k
    <3>1. 1 \in 1 .. l /\ b[1][1] = k
      BY <1>4 DEF Ordered
    <3> QED
      BY <2>2, <2>3, <2>4, <3>1
  <2>6. \A i \in DOMAIN c : c[i][1] # k => \E g \in 1 .. m + 1 : hs[g] = c[i]
    BY <1>4, <1>5, <1>6, <2>2, <2>3, <2>4
  <2>7. \A i, j \in DOMAIN c : i < j /\ c[i][1] # k /\ c[j][1] # k =>
          \E g, h \in 1 .. m + 1 : g < h /\ hs[g] = c[i] /\ hs[h] = c[j]
    <3> TAKE i, j \in DOMAIN c
    <3> HAVE i < j /\ c[i][1] # k /\ c[j][1] # k
    <3>1. i \in 1 .. l /\ c[i] = b[i]
      BY <2>2, <2>3, <2>4
    <3>2. CASE j \in 1 .. l
      <4>1. i \in DOMAIN b /\ j \in DOMAIN b /\ c[j] = b[j]
        BY <1>4, <2>2, <3>1, <3>2
      <4> QED
        BY <1>7, <3>1, <4>1
    <3>3. CASE j = l + 1
      <4>1. PICK g \in 1 .. m : hs[g] = b[i]
        BY <1>4, <3>1 DEF Ordered
      <4> QED
        BY <1>5, <2>2, <3>1, <3>3, <4>1
    <3> QED
      BY <2>3, <2>4, <3>2, <3>3
  <2> QED
    BY <1>3, <2>5, <2>6, <2>7, Zenon DEF Ordered
<1> QED
  BY <1>8, <1>9

\* What is written over a dict of one item keeps its order.
LEMMA OrderKept ==
    ASSUME NEW hs, IsDict(hs), NEW p \in Pair, NEW n \in Nat, DOMAIN hs = 1 .. n
    PROVE  Ordered(Update(<<p>>, hs), hs, p[1], n)
<1>1. PICK f : f = <<p>>
  OBVIOUS
<1>2. f \in Seq(Pair) /\ Len(f) = 1 /\ f[1] = p
  BY <1>1
<1>3. DOMAIN f = 1 .. 1 /\ \A i \in 1 .. 1 : i = 1
  BY <1>2, LenProperties
<1>4. IsDict(f)
  BY <1>2, <1>3 DEF IsDict, Unique
<1>5. PICK a : Steps(a, {}, f, hs, n)
  BY FillSteps
<1> DEFINE bad == {i \in 0 .. n : ~Ordered(a[i], hs, p[1], i)}
<1>6. Ordered(f, hs, p[1], 0)
  <2>1. \A i \in DOMAIN f : f[i][1] = p[1]
    BY <1>2, <1>3
  <2>2. 1 \in DOMAIN f
    BY <1>3
  <2> QED
    BY <1>4, <2>1, <2>2, Zenon DEF Ordered
<1>7. bad = {}
  <2>1. SUFFICES ASSUME bad # {} PROVE FALSE
    OBVIOUS
  <2>2. PICK i \in bad : \A j \in bad : i <= j
    <3>1. bad \in SUBSET Nat
      OBVIOUS
    <3> HIDE DEF bad
    <3> QED
      BY <2>1, <3>1, LeastExists
  <2>3. i \in 0 .. n /\ ~Ordered(a[i], hs, p[1], i)
    OBVIOUS
  <2>4. i # 0
    BY <1>5, <1>6, <2>3 DEF Steps
  <2>5. i - 1 \in bad => i <= i - 1
    BY <2>2
  <2>6. i - 1 \in 0 .. n /\ i \in 1 .. n /\ i - 1 \notin bad /\ i - 1 \in Nat /\ (i - 1) + 1 = i
    <3> HIDE DEF bad
    <3> QED
      BY <2>3, <2>4, <2>5
  <2>7. Ordered(a[i - 1], hs, p[1], i - 1)
    BY <2>6
  <2> HIDE DEF bad
  <2>8. PICK m \in Nat : i = m + 1 /\ m = i - 1
    BY <2>6
  <2>9. a[m + 1] = Put(a[m], hs[m + 1][1], hs[m + 1][2])
    BY <1>5, <2>6, <2>8 DEF Steps, TakenIn
  <2>10. Ordered(a[m + 1], hs, p[1], m + 1)
    BY <2>6, <2>7, <2>8, <2>9, OrderStep
  <2> QED
    BY <2>3, <2>8, <2>10
<1>8. Ordered(a[n], hs, p[1], n)
  <2>1. n \in 0 .. n
    OBVIOUS
  <2> QED
    BY <1>7, <2>1
<1> QED
  BY <1>1, <1>5, <1>8 DEF Steps, Update

\* Headers written over an item of a transport's own: all of them stay, and what was
\* there before is there at most under its own name.
LEMMA LoweredOver ==
    ASSUME NEW d, Headers(d), NEW p \in Pair, Lower(p[1]) = p[1], Apart(d, p[1]),
           NEW e, e = Update(<<p>>, d)
    PROVE  /\ Headers(e)
           /\ \A x : x \in ToSet(LowerKeys(d)) => x \in ToSet(LowerKeys(e))
           /\ \A x : x \in ToSet(LowerKeys(e)) => x \in ToSet(LowerKeys(d)) \/ x[1] = p[1]
<1>1. PICK n \in Nat : /\ DOMAIN d = 1 .. n
                       /\ \A i \in 1 .. n : d[i] \in Pair /\ d[i] = <<d[i][1], d[i][2]>>
  BY DictDomain DEF IsDict, Headers
<1>2. PICK k : k = p[1]
  OBVIOUS
<1>3. Ordered(e, d, k, n)
  BY <1>1, <1>2, OrderKept DEF Headers
<1>4. PICK l \in Nat : DOMAIN e = 1 .. l
  BY <1>3, LenProperties DEF Ordered, IsDict
<1>5. Lower(k) = k /\ k \in Str
  BY <1>2 DEF Pair
<1>6. /\ \A i, j \in 1 .. n : d[i][1] = d[j][1] => i = j
      /\ \A i, j \in 1 .. l : e[i][1] = e[j][1] => i = j
  BY <1>1, <1>3, <1>4 DEF Headers, Ordered, IsDict, Unique
<1>7. \A i \in 1 .. n : \E j \in 1 .. l : e[j] = d[i]
  <2>1. PICK f : f = <<p>>
    OBVIOUS
  <2>2. f \in Seq(Pair) /\ Len(f) = 1
    BY <2>1
  <2>3. IsDict(f)
    <3>1. DOMAIN f = 1 .. 1
      BY <2>2, LenProperties
    <3> QED
      BY <2>2, <3>1 DEF IsDict, Unique
  <2>4. \A x : x \in ToSet(d) => x \in ToSet(e)
    BY <2>1, <2>3, UpdateIs DEF Headers
  <2> TAKE i \in 1 .. n
  <2>5. d[i] \in ToSet(d)
    BY <1>1 DEF ToSet
  <2>6. d[i] \in ToSet(e)
    BY <2>4, <2>5
  <2> QED
    BY <1>4, <2>6 DEF ToSet
<1>8. /\ \A i \in 1 .. l : e[i][1] # k => \E g \in 1 .. n : d[g] = e[i]
      /\ \A i, j \in 1 .. l : i < j /\ e[i][1] # k /\ e[j][1] # k =>
            \E g, h \in 1 .. n : g < h /\ d[g] = e[i] /\ d[h] = e[j]
      /\ 1 \in 1 .. l /\ e[1][1] = k
  BY <1>3, <1>4 DEF Ordered
<1>9. Headers(e)
  <2>1. \A i \in 1 .. n : Lower(d[i][1]) \in Str /\ Lower(Lower(d[i][1])) = Lower(d[i][1])
    BY <1>1 DEF Headers, Lowerable
  <2>2. ASSUME NEW i \in 1 .. l PROVE Lower(e[i][1]) \in Str /\ Lower(Lower(e[i][1])) = Lower(e[i][1])
    <3>1. CASE e[i][1] = k
      BY <1>5, <3>1
    <3>2. CASE e[i][1] # k
      BY <1>8, <2>1, <3>2
    <3> QED
      BY <3>1, <3>2
  <2> QED
    BY <1>3, <1>4, <2>2 DEF Headers, Lowerable, Ordered
<1>10. /\ \A x : x \in ToSet(LowerKeys(d)) <=> \E i \in 1 .. n : IsLast(d, i, x)
       /\ \A x : x \in ToSet(LowerKeys(e)) <=> \E i \in 1 .. l : IsLast(e, i, x)
  BY <1>1, <1>4, <1>9, LoweredIs
\* An item of another name is followed by the same names as before.
<1>11. ASSUME NEW g \in 1 .. n, NEW i \in 1 .. l, e[i] = d[g], d[g][1] # k,
              NEW h \in 1 .. n, NEW j \in 1 .. l, e[j] = d[h], d[h][1] # k
       PROVE  j > i => h > g
  <2> HAVE j > i
  <2>1. PICK u, v \in 1 .. n : u < v /\ d[u] = e[i] /\ d[v] = e[j]
    <3>1. i < j /\ e[i][1] # k /\ e[j][1] # k
      BY <1>11
    <3> QED
      BY <1>8, <3>1
  <2>2. u = g /\ v = h
    BY <1>6, <1>11, <2>1
  <2> QED
    BY <2>1, <2>2
<1>12. ASSUME NEW g \in 1 .. n, NEW x, IsLast(d, g, x) PROVE \E i \in 1 .. l : IsLast(e, i, x)
  <2>1. PICK i \in 1 .. l : e[i] = d[g]
    BY <1>7
  <2>2. x = <<Lower(e[i][1]), e[i][2]>> /\ \A j \in 1 .. n : j > g => Lower(d[j][1]) # x[1]
    BY <1>1, <1>12, <2>1 DEF IsLast
  <2>3. ASSUME NEW j \in 1 .. l, j > i, Lower(e[j][1]) = x[1] PROVE FALSE
    <3>1. e[j][1] # k
      BY <1>6, <1>8, <2>3
    <3>2. PICK h \in 1 .. n : d[h] = e[j]
      BY <1>8, <3>1
    <3>3. CASE d[g][1] # k
      <4>1. h > g
        BY <1>11, <2>1, <2>3, <3>1, <3>2, <3>3
      <4> QED
        BY <2>2, <2>3, <3>2, <4>1
    <3>4. CASE d[g][1] = k
      <4>1. x[1] = k
        BY <1>5, <2>1, <2>2, <3>4
      <4>2. Lower(d[h][1]) = k /\ d[h][1] # k /\ Has(d, k)
        BY <1>1, <2>3, <3>1, <3>2, <3>4, <4>1 DEF Has
      <4> QED
        BY <1>1, <1>2, <4>2 DEF Apart
    <3> QED
      BY <3>3, <3>4
  <2> QED
    BY <1>4, <2>2, <2>3 DEF IsLast
<1>13. ASSUME NEW i \in 1 .. l, NEW x, IsLast(e, i, x), x[1] # k PROVE \E g \in 1 .. n : IsLast(d, g, x)
  <2>1. x[1] = Lower(e[i][1]) /\ \A j \in 1 .. l : j > i => Lower(e[j][1]) # x[1]
    <3>1. PICK y : y = <<Lower(e[i][1]), e[i][2]>>
      OBVIOUS
    <3>2. y[1] = Lower(e[i][1])
      BY <3>1
    <3> QED
      BY <1>4, <1>13, <3>1, <3>2 DEF IsLast
  <2>2. e[i][1] # k
    BY <1>5, <1>13, <2>1
  <2>3. PICK g \in 1 .. n : d[g] = e[i]
    BY <1>8, <2>2
  <2>4. ASSUME NEW h \in 1 .. n, h > g, Lower(d[h][1]) = x[1] PROVE FALSE
    <3>1. d[h][1] # k
      BY <1>5, <1>13, <2>4
    <3>2. PICK j \in 1 .. l : e[j] = d[h]
      BY <1>7
    <3>3. j # i
      <4>1. SUFFICES ASSUME j = i PROVE FALSE
        OBVIOUS
      <4>2. d[h][1] = d[g][1]
        BY <2>3, <3>2, <4>1
      <4>3. h = g
        BY <1>6, <4>2
      <4> QED
        BY <2>4, <4>3
    <3>4. i > j
      BY <2>1, <2>4, <3>2, <3>3
    <3>5. g > h
      BY <1>11, <2>2, <2>3, <3>1, <3>2, <3>4
    <3> QED
      BY <2>4, <3>5
  <2>5. x = <<Lower(d[g][1]), d[g][2]>>
    BY <1>13, <2>3 DEF IsLast
  <2>6. \A h \in 1 .. n : h > g => Lower(d[h][1]) # x[1]
    BY <2>4
  <2> QED
    BY <1>1, <2>5, <2>6, Zenon DEF IsLast
<1> QED
  BY <1>2, <1>9, <1>10, <1>12, <1>13
-----------------------------------------------------------------------------
(* What one transport does to a message. *)

\* The names that the transports and the decorator add are lower-case and differ.
LEMMA AddedNames ==
    /\ Lower("topic") = "topic" /\ Lower(CorrelationHeader) = CorrelationHeader
    /\ Lower(DetailType) = DetailType
    /\ \A name \in CloudEventAttributes : Lower(name) = name
    /\ CorrelationHeader \in Str /\ DetailType \in Str /\ Topic \in Str /\ "topic" \in Str
    /\ CorrelationHeader \notin CloudEventAttributes \cup {"topic", DetailType}
    /\ DetailType \notin CloudEventAttributes \cup {"topic"}
<1>1. /\ Lower("topic") = "topic" /\ Lower(CorrelationHeader) = CorrelationHeader
      /\ Lower(DetailType) = DetailType
      /\ \A name \in CloudEventAttributes : Lower(name) = name
  BY OutboundAssumption
<1>2. /\ CorrelationHeader \in Str /\ DetailType \in Str /\ Topic \in Str /\ "topic" \in Str
      /\ CorrelationHeader \notin CloudEventAttributes \cup {"topic", DetailType}
      /\ DetailType \notin CloudEventAttributes \cup {"topic"}
  <2>1. CorrelationHeader \in Str /\ DetailType \in Str /\ Topic \in Str /\ "topic" \in Str
    BY DEF Str
  <2>2. CorrelationHeader # "topic" /\ CorrelationHeader # DetailType /\ DetailType # "topic"
    BY DEF CorrelationHeader, DetailType
  <2>3. CorrelationHeader \notin CloudEventAttributes
    BY DEF CorrelationHeader, CloudEventAttributes
  <2>4. DetailType \notin CloudEventAttributes
    BY DEF DetailType, CloudEventAttributes
  <2> QED
    BY <2>1, <2>2, <2>3, <2>4
<1> QED
  BY <1>1, <1>2

\* The correlation decorator adds its header and touches no other.
LEMMA CorrelatedIs ==
    ASSUME NEW d, Headers(d), NEW id \in Str, NEW hs, hs = Correlated(d, id)
    PROVE  /\ Headers(hs) /\ Has(LowerKeys(hs), CorrelationHeader)
           /\ Has(LowerKeys(d), CorrelationHeader) => hs = d
           /\ \A x : x[1] # CorrelationHeader => (x \in ToSet(LowerKeys(hs)) <=> x \in ToSet(LowerKeys(d)))
           /\ \A name \in {"topic", DetailType} : Apart(d, name) => Apart(hs, name)
<1>1. Has(LowerKeys(d), CorrelationHeader) <=> \E i \in DOMAIN d : Lower(d[i][1]) = CorrelationHeader
  BY HasLowered
<1>2. CASE \E i \in DOMAIN d : Lower(d[i][1]) = CorrelationHeader
  <2>1. hs = d
    BY <1>2, Zenon DEF Correlated
  <2> QED
    BY <1>1, <1>2, <2>1
<1>3. CASE ~\E i \in DOMAIN d : Lower(d[i][1]) = CorrelationHeader
  <2>1. hs = Put(d, CorrelationHeader, id)
    BY <1>3, Zenon DEF Correlated
  <2>2. Lower(CorrelationHeader) = CorrelationHeader /\ CorrelationHeader \in Str /\ CorrelationHeader # "topic"
    BY AddedNames
  <2>3. /\ Headers(hs) /\ Has(LowerKeys(hs), CorrelationHeader)
        /\ \A x : x[1] # CorrelationHeader => (x \in ToSet(LowerKeys(hs)) <=> x \in ToSet(LowerKeys(d)))
    <3>1. PICK k, r, q : k = CorrelationHeader /\ r = LowerKeys(d) /\ q = LowerKeys(hs)
      OBVIOUS
    <3>2. k \in Str /\ Lower(k) = k /\ hs = Put(d, k, id)
      BY <2>1, <2>2, <3>1
    <3>3. r = LowerKeys(d) /\ q = LowerKeys(hs)
      BY <3>1
    <3>4. /\ Headers(hs) /\ \A x : x[1] # k => (x \in ToSet(q) <=> x \in ToSet(r))
          /\ Has(q, k)
      BY <3>2, <3>3, LoweredPut
    <3> QED
      BY <3>1, <3>4
  <2>4. ToSet(hs) = {x \in ToSet(d) : x[1] # CorrelationHeader} \cup {<<CorrelationHeader, id>>}
    BY <2>1, <2>2, PutIs DEF Headers
  <2>5. ASSUME NEW name, name # CorrelationHeader, Apart(d, name), Has(hs, name),
               NEW i \in DOMAIN hs, Lower(hs[i][1]) = name
        PROVE  hs[i][1] = name
    <3>1. \A x \in ToSet(hs) : x \in ToSet(d) \/ x[1] = CorrelationHeader
      <4>1. PICK y : y = <<CorrelationHeader, id>>
        OBVIOUS
      <4>2. y[1] = CorrelationHeader
        BY <4>1
      <4> QED
        BY <2>4, <4>1, <4>2
    <3>2. Has(d, name)
      <4>1. PICK x \in ToSet(hs) : x[1] = name
        BY <2>3, <2>5, InDict DEF Headers
      <4>2. x \in ToSet(d)
        BY <2>5, <3>1, <4>1
      <4> QED
        BY <4>1, <4>2, InDict DEF Headers
    <3>3. hs[i] \in ToSet(hs) /\ hs[i][1] # CorrelationHeader
      BY <2>2, <2>5 DEF ToSet
    <3>4. PICK j \in DOMAIN d : hs[i] = d[j]
      BY <3>1, <3>3 DEF ToSet
    <3> QED
      BY <2>5, <3>2, <3>4 DEF Apart
  <2>6. \A name \in {"topic", DetailType} : Apart(d, name) => Apart(hs, name)
    <3> TAKE name \in {"topic", DetailType}
    <3>1. name # CorrelationHeader
      BY AddedNames
    <3> QED
      BY <2>5, <3>1 DEF Apart
  <2> QED
    BY <1>1, <1>3, <2>3, <2>6
<1> QED
  BY <1>2, <1>3

\* A list of pairs with the topic last is, as a dict, what the others write.
LEMMA KafkaDict ==
    ASSUME NEW hs, IsDict(hs)
    PROVE  Update(<<>>, KafkaHeaders(hs)) = Put(hs, "topic", Topic)
<1>1. PICK p : p = <<"topic", Topic>>
  OBVIOUS
<1>2. p \in Pair /\ p[1] = "topic" /\ p[2] = Topic
  BY <1>1, AddedNames DEF Pair
<1>3. Update(<<>>, hs) = hs
  <2>1. Update(<<>>, hs) = <<>> \o hs
    BY EmptyDict, UpdateAppends
  <2>2. <<>> \o hs = hs
    BY ConcatEmptySeq DEF IsDict
  <2> QED
    BY <2>1, <2>2
<1>4. Fill(<<>>, Append(hs, p), {}) = TakenIn({}, Fill(<<>>, hs, {}), p)
  BY <1>2, FillAppend DEF IsDict
<1>5. Fill(<<>>, hs, {}) = hs /\ Update(<<>>, Append(hs, p)) = Fill(<<>>, Append(hs, p), {})
  BY <1>3 DEF Update
<1> QED
  BY <1>1, <1>2, <1>4, <1>5 DEF KafkaHeaders, TakenIn

\* What is read out of the attributes a sender wrote.
LEMMA MetadataIs ==
    ASSUME NEW hs, Headers(hs), NEW meta, meta = ReadMetadata(Put(hs, "topic", Topic)),
           NEW r, r = LowerKeys(meta.headers)
    PROVE  /\ IsDict(r) /\ \A x : x \in ToSet(r) <=> x \in ToSet(LowerKeys(hs)) /\ x[1] # "topic"
           /\ Apart(hs, "topic") => meta.topic = Topic
<1>1. PICK l, w : l = LowerKeys(Put(hs, "topic", Topic)) /\ w = Without(l, {"topic"})
  OBVIOUS
<1>2. meta.headers = w /\ meta.topic = IF Has(l, "topic") THEN Value(l, "topic") ELSE ""
  BY <1>1 DEF ReadMetadata, Envelope
<1>3. /\ Headers(Put(hs, "topic", Topic)) /\ Has(l, "topic")
      /\ \A x : x[1] # "topic" => (x \in ToSet(l) <=> x \in ToSet(LowerKeys(hs)))
      /\ ((\A i \in DOMAIN hs : Lower(hs[i][1]) = "topic" => hs[i][1] = "topic") \/ ~Has(hs, "topic"))
           => <<"topic", Topic>> \in ToSet(l)
  <2>1. PICK k, e, h : k = "topic" /\ e = Put(hs, k, Topic) /\ h = LowerKeys(hs)
    OBVIOUS
  <2>2. k \in Str /\ Topic \in Str /\ Lower(k) = k /\ l = LowerKeys(e)
    BY <1>1, <2>1, AddedNames
  <2>3. /\ Headers(e) /\ Has(l, k) /\ \A x : x[1] # k => (x \in ToSet(l) <=> x \in ToSet(h))
        /\ ((\A i \in DOMAIN hs : Lower(hs[i][1]) = k => hs[i][1] = k) \/ ~Has(hs, k)) => <<k, Topic>> \in ToSet(l)
    BY <2>1, <2>2, LoweredPut
  <2>4. Headers(Put(hs, "topic", Topic)) /\ Has(l, "topic")
    BY <2>1, <2>3
  <2>5. \A x : x[1] # "topic" => (x \in ToSet(l) <=> x \in ToSet(LowerKeys(hs)))
    BY <2>1, <2>3
  <2>6. ((\A i \in DOMAIN hs : Lower(hs[i][1]) = "topic" => hs[i][1] = "topic") \/ ~Has(hs, "topic"))
          => <<"topic", Topic>> \in ToSet(l)
    BY <2>1, <2>3, Zenon
  <2> QED
    BY <2>4, <2>5, <2>6
<1>4. Headers(l) /\ \A x : x \in ToSet(l) => Lower(x[1]) = x[1]
  BY <1>1, <1>3, LoweredIs
<1>5. IsDict(w) /\ \A x : x \in ToSet(w) <=> x \in ToSet(l) /\ x[1] \notin {"topic"}
  BY <1>1, <1>4, WithoutIs DEF Headers
<1>6. IsDict(r) /\ ToSet(r) = ToSet(w)
  BY <1>2, <1>4, <1>5, LoweredSame
<1>7. Apart(hs, "topic") => Value(l, "topic") = Topic
  <2> HAVE Apart(hs, "topic")
  <2>1. PICK p : p = <<"topic", Topic>>
    OBVIOUS
  <2>2. p \in ToSet(l) /\ p[1] = "topic" /\ p[2] = Topic
    BY <1>3, <2>1 DEF Apart
  <2>3. Value(l, p[1]) = p[2]
    BY <1>4, <2>2, InDict DEF Headers
  <2> QED
    BY <2>2, <2>3
<1> QED
  BY <1>2, <1>3, <1>5, <1>6, <1>7

\* A message that reached the handler: the headers as the handler sees them.
Kept(hs, reserved, e) ==
    /\ IsDict(LowerKeys(e.headers))
    /\ \A x \in ToSet(LowerKeys(hs)) : x[1] \notin reserved => x \in ToSet(LowerKeys(e.headers))
    /\ \A x \in ToSet(LowerKeys(e.headers)) :
          (x \in ToSet(LowerKeys(hs)) /\ x[1] \notin reserved) \/ x[1] = DetailType
\* Transports with metadata of their own.
LEMMA ByMetadata ==
    ASSUME NEW t \in AttributeTransports, NEW hs, Headers(hs), NEW v,
           NEW e, e = Decode(t, Encode(t, hs, v))
    PROVE  Kept(hs, {"topic"}, e) /\ (Apart(hs, "topic") => e.topic = Topic) /\ e.body.value = v
<1>1. PICK attrs, meta : attrs = Put(hs, "topic", Topic) /\ meta = ReadMetadata(attrs)
  OBVIOUS
<1>2. ASSUME NEW w, w.attrs = attrs, w.body = Text(v), NEW native, e = FromMetadata(w, native)
      PROVE  /\ e.topic = IF meta.topic = "" THEN native ELSE meta.topic
             /\ e.headers = meta.headers /\ e.body.value = v
  <2>1. PICK topic : topic = IF meta.topic = "" THEN native ELSE meta.topic
    OBVIOUS
  <2>2. e = Envelope(topic, meta.headers, Text(v))
    BY <1>1, <1>2, <2>1, Zenon DEF FromMetadata
  <2>3. e.topic = topic /\ e.headers = meta.headers /\ e.body.value = v
    BY <2>2 DEF Envelope, Text
  <2> QED
    BY <2>1, <2>3, Zenon
<1>3. PICK native : /\ e.topic = IF meta.topic = "" THEN native ELSE meta.topic
                    /\ e.headers = meta.headers /\ e.body.value = v
  <2>1. PICK w, k : w = Encode(t, hs, v) /\ k = [w EXCEPT !.attrs = Update(<<>>, w.attrs)]
    OBVIOUS
  <2>2. CASE t \in {"sns", "sqs", "sqs-consumer"}
    <3>1. w = Wire(attrs, "", Text(v))
      BY <1>1, <2>1, <2>2 DEF Encode, StringAttributes
    <3>2. e = FromMetadata(w, "")
      BY <2>1, <2>2 DEF Decode, FromRecord, FromReceived
    <3>3. w.attrs = attrs /\ w.body = Text(v)
      BY <3>1 DEF Wire
    <3> QED
      BY <1>2, <3>2, <3>3
  <2>3. CASE t \in {"servicebus", "eventhub", "pubsub"}
    <3>1. w = Wire(attrs, "", Text(v))
      BY <1>1, <2>1, <2>3 DEF Encode, ApplicationProperties, PubSubAttributes
    <3>2. e = FromMetadata(w, "")
      BY <2>1, <2>3 DEF Decode, FromProperties, FromPubSub
    <3>3. w.attrs = attrs /\ w.body = Text(v)
      BY <3>1 DEF Wire
    <3> QED
      BY <1>2, <3>2, <3>3
  <2>4. CASE t = "rabbitmq"
    <3>1. w = Wire(attrs, Physical, Text(v))
      BY <1>1, <2>1, <2>4 DEF Encode, AmqpHeaders
    <3>2. e = FromMetadata(w, w.type)
      BY <2>1, <2>4 DEF Decode, FromDelivery
    <3>3. w.attrs = attrs /\ w.body = Text(v)
      BY <3>1 DEF Wire
    <3> QED
      BY <1>2, <3>2, <3>3
  <2>5. CASE t \in {"kafka", "kafka-lambda"}
    <3>1. w = Wire(KafkaHeaders(hs), Physical, Text(v))
      BY <2>1, <2>5 DEF Encode
    <3>2. e = FromMetadata(k, w.type)
      BY <2>1, <2>5 DEF Decode, FromKafka, FromKafkaLambda
    <3>3. Update(<<>>, KafkaHeaders(hs)) = attrs
      BY <1>1, KafkaDict DEF Headers
    <3>4. k.attrs = attrs /\ k.body = Text(v)
      BY <2>1, <3>1, <3>3 DEF Wire
    <3> QED
      BY <1>2, <3>2, <3>4
  <2> QED
    BY <2>2, <2>3, <2>4, <2>5 DEF AttributeTransports
<1>4. PICK r : r = LowerKeys(meta.headers)
  OBVIOUS
<1>5. /\ IsDict(r) /\ \A x : x \in ToSet(r) <=> x \in ToSet(LowerKeys(hs)) /\ x[1] # "topic"
      /\ Apart(hs, "topic") => meta.topic = Topic
  BY <1>1, <1>4, MetadataIs
<1>6. Kept(hs, {"topic"}, e)
  BY <1>3, <1>4, <1>5 DEF Kept
<1>7. Topic # ""
  BY DEF Topic
<1> QED
  BY <1>3, <1>5, <1>6, <1>7

\* EventBridge: one object holds the payload and the headers.
LEMMA ByEventBridge ==
    ASSUME NEW t \in {"eventbridge", "eventbridge-fixed"}, NEW hs, Headers(hs), NEW v,
           NEW e, e = Decode(t, Encode(t, hs, v))
    PROVE  /\ v = "object" /\ Apart(hs, DetailType) => Kept(hs, {}, e)
           /\ t = "eventbridge" => e.topic = Topic
           /\ e.body.value = v
<1>1. PICK w, body, type : /\ w = Encode(t, hs, v) /\ body = EmbedHeaders(v, hs)
                           /\ type = IF t = "eventbridge" THEN Topic ELSE Physical
  OBVIOUS
<1>2. w = Wire(<<>>, type, body)
  BY <1>1 DEF Encode
<1>3. w.type = type /\ w.body = body
  BY <1>2 DEF Wire
<1>4. e = FromEventBridge(w)
  BY <1>1 DEF Decode
<1>5. e.topic = type /\ e.body = body /\ e.headers = Update(<< <<DetailType, type>> >>, body.embedded)
  <2>1. PICK all : all = Update(<< <<DetailType, w.type>> >>, w.body.embedded)
    OBVIOUS
  <2>2. e = Envelope(w.type, all, w.body)
    BY <1>4, <2>1, Zenon DEF FromEventBridge
  <2>3. e.topic = w.type /\ e.body = w.body /\ e.headers = all
    BY <2>2 DEF Envelope
  <2> QED
    BY <1>3, <2>1, <2>3, Zenon
<1>6. body.value = v /\ (v = "object" => body.embedded = hs)
  BY <1>1 DEF EmbedHeaders, Text
<1>7. ASSUME v = "object", Apart(hs, DetailType) PROVE Kept(hs, {}, e)
  <2>1. PICK p, d : p = <<DetailType, type>> /\ d = e.headers
    OBVIOUS
  <2>2. p \in Pair /\ p[1] = DetailType
    <3>1. type \in Str
      BY <1>1 DEF Str
    <3> QED
      BY <2>1, <3>1, AddedNames DEF Pair
  <2>3. d = Update(<<p>>, hs) /\ Lower(p[1]) = p[1] /\ Apart(hs, p[1])
    BY <1>5, <1>6, <1>7, <2>1, <2>2, AddedNames
  <2>4. /\ Headers(d)
        /\ \A x : x \in ToSet(LowerKeys(hs)) => x \in ToSet(LowerKeys(d))
        /\ \A x : x \in ToSet(LowerKeys(d)) => x \in ToSet(LowerKeys(hs)) \/ x[1] = p[1]
    BY <2>2, <2>3, LoweredOver
  <2>5. IsDict(LowerKeys(d))
    BY <2>4, LoweredIs DEF Headers
  <2> QED
    BY <2>1, <2>2, <2>4, <2>5 DEF Kept
<1> QED
  BY <1>1, <1>5, <1>6, <1>7

\* An envelope is handed over: directly, in a queue's text or in an event.
LEMMA ByEnvelope ==
    ASSUME NEW t \in {"queue", "queue-base64", "eventgrid", "invoke", "invoke-event", "inprocess", "fanout"},
           NEW hs, Headers(hs), NEW v, NEW e, e = Decode(t, Encode(t, hs, v))
    PROVE  /\ Kept(hs, {}, e) /\ e.topic = Topic
           /\ e.body.value = v \/ (t = "eventgrid" /\ v = "null" /\ e.body.value = "empty")
<1>1. PICK w, r : w = Encode(t, hs, v) /\ r = LowerKeys(hs)
  OBVIOUS
<1>2. PICK body : w = Wire(hs, Topic, body) /\ (body = Text(v) \/ (t = "queue-base64" /\ body = [base64 |-> Text(v)]))
  BY <1>1 DEF Encode, QueueText, GridEvent, InvokePayload, DispatchEnvelope
<1>3. w.attrs = hs /\ w.type = Topic /\ w.body = body
  BY <1>2 DEF Wire
<1>4. e.topic = Topic /\ e.headers \in {hs, r}
  BY <1>1, <1>3 DEF Decode, FromQueue, FromEventGrid, FromEnvelope, Envelope
<1>5. e.body.value = v \/ (t = "eventgrid" /\ v = "null" /\ e.body.value = "empty")
  <2>1. CASE t \in {"queue", "queue-base64"}
    <3>1. e.body = IF "base64" \in DOMAIN body THEN body.base64 ELSE body
      BY <1>1, <1>3, <2>1 DEF Decode, FromQueue, Envelope
    <3>2. Text(v).value = v /\ DOMAIN Text(v) = {"value", "embedded"}
      BY DEF Text
    <3>3. body = [base64 |-> Text(v)] => "base64" \in DOMAIN body /\ body.base64 = Text(v)
      OBVIOUS
    <3> QED
      BY <1>2, <3>1, <3>2, <3>3
  <2>2. CASE t = "eventgrid"
    <3>1. body.value = v
      BY <1>2, <2>2 DEF Text
    <3>2. e.body = BodyText(body.value)
      BY <1>1, <1>3, <2>2 DEF Decode, FromEventGrid, Envelope
    <3> QED
      BY <2>2, <3>1, <3>2 DEF BodyText, EmptyText, Text
  <2>3. CASE t \in {"invoke", "invoke-event", "inprocess", "fanout"}
    <3>1. e.body = body /\ body = Text(v)
      BY <1>1, <1>2, <1>3, <2>3 DEF Decode, FromEnvelope, Envelope
    <3>2. Text(v).value = v
      BY DEF Text
    <3> QED
      BY <3>1, <3>2
  <2> QED
    BY <2>1, <2>2, <2>3
<1>6. Headers(r) /\ \A x : x \in ToSet(r) => Lower(x[1]) = x[1]
  BY <1>1, LoweredIs
<1>7. IsDict(LowerKeys(r)) /\ ToSet(LowerKeys(r)) = ToSet(r)
  BY <1>6, LoweredSame DEF Headers
<1>8. Kept(hs, {}, e)
  BY <1>1, <1>4, <1>6, <1>7 DEF Kept, Headers
<1> QED
  BY <1>4, <1>5, <1>8

\* A CloudEvent: the headers among its attributes.
LEMMA ByCloudEvent ==
    ASSUME NEW hs, Headers(hs), NEW v \in Payloads,
           NEW e, e = Decode("cloudevents", Encode("cloudevents", hs, v))
    PROVE  /\ Kept(hs, CloudEventAttributes, e)
           /\ ~Has(LowerKeys(hs), "type") => e.topic = Topic
           /\ ~Has(LowerKeys(hs), "data") => e.body.value = v \/ (v = "null" /\ e.body.value = "empty")
<1>1. PICK r, own, attrs, w : /\ r = LowerKeys(hs) /\ own = << <<"type", Topic>>, <<"data", v>> >>
                              /\ attrs = Update(own, r) /\ w = Without(attrs, CloudEventAttributes)
  OBVIOUS
<1>2. e = Envelope(Value(attrs, "type"), w, BodyText(Value(attrs, "data")))
  <2>1. PICK wire : wire = Encode("cloudevents", hs, v)
    OBVIOUS
  <2>2. wire = Wire(attrs, "", EmptyText)
    BY <1>1, <2>1 DEF Encode, CloudEvent
  <2>3. wire.attrs = attrs
    BY <2>2 DEF Wire
  <2>4. e = FromCloudEvent(wire)
    BY <2>1 DEF Decode
  <2> QED
    BY <1>1, <2>3, <2>4 DEF FromCloudEvent
<1>3. PICK p, q : p = <<"type", Topic>> /\ q = <<"data", v>>
  OBVIOUS
<1>4. p[1] = "type" /\ p[2] = Topic /\ q[1] = "data" /\ q[2] = v /\ p \in Pair /\ q \in Pair
  <2>1. "type" \in Str /\ "data" \in Str /\ v \in Str
    BY DEF Str, CloudEventAttributes
  <2> QED
    BY <1>3, <2>1, AddedNames DEF Pair
<1>5. IsDict(own) /\ ToSet(own) = {p, q}
  <2>1. own = <<p, q>>
    BY <1>1, <1>3
  <2>2. own \in Seq(Pair) /\ DOMAIN own = {1, 2} /\ own[1] = p /\ own[2] = q
    BY <1>4, <2>1
  <2> QED
    BY <1>4, <2>2 DEF IsDict, Unique, ToSet
<1>6. Headers(r) /\ \A x : x \in ToSet(r) => Lower(x[1]) = x[1]
  BY <1>1, LoweredIs
<1>7. /\ IsDict(attrs)
      /\ \A x : x \in ToSet(attrs) <=> x \in ToSet(r) \/ (x \in ToSet(own) /\ ~Has(r, x[1]))
  BY <1>1, <1>5, <1>6, UpdateIs DEF Headers
<1>8. IsDict(w) /\ \A x : x \in ToSet(w) <=> x \in ToSet(attrs) /\ x[1] \notin CloudEventAttributes
  BY <1>1, <1>7, WithoutIs
<1>9. p[1] \in CloudEventAttributes /\ q[1] \in CloudEventAttributes
  BY <1>4 DEF CloudEventAttributes
<1>10. \A x : x \in ToSet(w) <=> x \in ToSet(r) /\ x[1] \notin CloudEventAttributes
  BY <1>5, <1>7, <1>8, <1>9
<1>11. IsDict(LowerKeys(w)) /\ ToSet(LowerKeys(w)) = ToSet(w)
  BY <1>6, <1>8, <1>10, LoweredSame
<1>12. e.headers = w /\ e.topic = Value(attrs, "type") /\ e.body = BodyText(Value(attrs, "data"))
  BY <1>2 DEF Envelope
<1>13. Kept(hs, CloudEventAttributes, e)
  BY <1>1, <1>10, <1>11, <1>12 DEF Kept
<1>14. ~Has(r, "type") => Value(attrs, "type") = Topic
  <2>1. ~Has(r, "type") => p \in ToSet(attrs)
    BY <1>4, <1>5, <1>7
  <2> QED
    BY <1>4, <1>7, <2>1, InDict
<1>15. ~Has(r, "data") => Value(attrs, "data") = v
  <2>1. ~Has(r, "data") => q \in ToSet(attrs)
    BY <1>4, <1>5, <1>7
  <2> QED
    BY <1>4, <1>7, <2>1, InDict
<1>16. BodyText(v).value = v \/ (v = "null" /\ BodyText(v).value = "empty")
  BY DEF BodyText, EmptyText, Text
<1> QED
  BY <1>1, <1>12, <1>13, <1>14, <1>15, <1>16
\* What each transport carries, of whatever headers it was given.
Carried(hs, e) ==
    /\ /\ transport # "kinesis"
       /\ transport \in {"eventbridge", "eventbridge-fixed"} =>
            payload = "object" /\ Apart(hs, DetailType)
       => Kept(hs, Reserved, e)
    /\ /\ transport \notin {"kinesis", "eventbridge-fixed"}
       /\ transport = "cloudevents" => ~Has(LowerKeys(hs), "type")
       /\ transport \in AttributeTransports => Apart(hs, "topic")
       => e.topic = Topic
    /\ (transport = "cloudevents" => ~Has(LowerKeys(hs), "data")) =>
         \/ e.body.value = payload
         \/ payload = "null" /\ transport \in {"eventgrid", "cloudevents"} /\ e.body.value = "empty"

\* Every transport carries what Carried says.
LEMMA CarriedByAll ==
    ASSUME transport \in Transports, payload \in Payloads, NEW hs, Headers(hs),
           NEW e, e = Decode(transport, Encode(transport, hs, payload))
    PROVE  Carried(hs, e)
<1> DEFINE Enveloped == {"queue", "queue-base64", "eventgrid", "invoke", "invoke-event", "inprocess", "fanout"}
           Bridged == {"eventbridge", "eventbridge-fixed"}
<1>1. transport \in AttributeTransports \cup Bridged \cup Enveloped \cup {"cloudevents", "kinesis"}
  BY DEF Transports
<1>2. CASE transport \in AttributeTransports
  <2>1. Reserved = {"topic"} /\ transport \notin Bridged \cup {"cloudevents", "kinesis"}
    BY <1>2 DEF Reserved, AttributeTransports
  <2>2. Kept(hs, {"topic"}, e) /\ (Apart(hs, "topic") => e.topic = Topic) /\ e.body.value = payload
    BY <1>2, ByMetadata
  <2> QED
    BY <1>2, <2>1, <2>2 DEF Carried
<1>3. CASE transport \in Bridged
  <2>1. Reserved = {} /\ transport \notin AttributeTransports \cup {"cloudevents", "kinesis"}
    BY <1>3 DEF Reserved, AttributeTransports
  <2>2. /\ payload = "object" /\ Apart(hs, DetailType) => Kept(hs, {}, e)
        /\ transport = "eventbridge" => e.topic = Topic
        /\ e.body.value = payload
    BY <1>3, ByEventBridge
  <2> QED
    BY <1>3, <2>1, <2>2 DEF Carried
<1>4. CASE transport \in Enveloped
  <2>1. Reserved = {} /\ transport \notin AttributeTransports \cup Bridged \cup {"cloudevents", "kinesis"}
    BY <1>4 DEF Reserved, AttributeTransports
  <2>2. /\ Kept(hs, {}, e) /\ e.topic = Topic
        /\ e.body.value = payload \/ (transport = "eventgrid" /\ payload = "null" /\ e.body.value = "empty")
    BY <1>4, ByEnvelope
  <2> QED
    BY <1>4, <2>1, <2>2 DEF Carried
<1>5. CASE transport = "cloudevents"
  <2>1. Reserved = CloudEventAttributes /\ transport \notin AttributeTransports \cup Bridged \cup {"kinesis"}
    BY <1>5 DEF Reserved, AttributeTransports
  <2>2. /\ Kept(hs, CloudEventAttributes, e)
        /\ ~Has(LowerKeys(hs), "type") => e.topic = Topic
        /\ ~Has(LowerKeys(hs), "data") => e.body.value = payload \/ (payload = "null" /\ e.body.value = "empty")
    BY <1>5, ByCloudEvent
  <2> QED
    BY <1>5, <2>1, <2>2 DEF Carried
<1>6. CASE transport = "kinesis"
  <2>1. PICK w : w = Encode(transport, hs, payload)
    OBVIOUS
  <2>2. w = Wire(<<>>, Topic, EmbedHeaders(payload, hs)) /\ e = FromKinesis(w)
    BY <1>6, <2>1 DEF Encode, Decode
  <2>3. w.body = EmbedHeaders(payload, hs)
    BY <2>2 DEF Wire
  <2>4. e.body = w.body
    BY <2>2 DEF FromKinesis, Envelope
  <2>5. e.body.value = payload
    BY <2>3, <2>4 DEF EmbedHeaders, Text
  <2> QED
    BY <1>6, <2>5 DEF Carried
<1> QED
  BY <1>1, <1>2, <1>3, <1>4, <1>5, <1>6

-----------------------------------------------------------------------------
(* The invariant of a sender. *)
Copies == {Encode(transport, Sent(n), payload) : n \in Nat \ {0}}

OutInv ==
    /\ transport \in Transports /\ payload \in Payloads /\ Headers(headers)
    /\ attempt \in 0 .. Attempts /\ stored \in Seq(Copies) /\ Len(stored) <= attempt
    /\ result = "none" => attempt = 0
    /\ result \in {"ok", "accepted"} /\ payload # "unwritable" => stored # <<>> \/ unconfirmed
    /\ unconfirmed => transport \in Unconfirming /\ result = "ok"

\* It holds before the first attempt.
LEMMA OutStarts == OutInit => OutInv
<1> SUFFICES ASSUME OutInit PROVE OutInv
  OBVIOUS
<1>1. transport \in Transports /\ payload \in Payloads /\ attempt = 0 /\ result = "none" /\ stored = <<>> /\ ~unconfirmed
  BY DEF OutInit, OutStart, Payloads
<1>2. PICK n \in 0 .. MaxHeaders : headers \in [1 .. n -> HeaderNames \X {"v1", "v2"}]
  BY DEF OutInit
<1>3. \A i, j \in DOMAIN headers : headers[i][1] = headers[j][1] => i = j
  BY DEF OutInit
<1>4. /\ HeaderNames \subseteq STRING /\ MaxHeaders \in Nat /\ Attempts \in Nat \ {0}
      /\ \A name \in HeaderNames : Lower(name) \in STRING /\ Lower(Lower(name)) = Lower(name)
  BY OutboundAssumption
<1>5. HeaderNames \subseteq Str /\ {"v1", "v2"} \subseteq Str /\ STRING \subseteq Str
  BY <1>4 DEF Str
<1>6. \A i \in 1 .. n : headers[i] \in Pair /\ headers[i][1] \in HeaderNames
  <2>1. \A x \in HeaderNames \X {"v1", "v2"} : x \in Pair /\ x[1] \in HeaderNames
    BY <1>5 DEF Pair
  <2> QED
    BY <1>2, <2>1
<1>7. headers \in Seq(Pair)
  <2>1. headers \in [1 .. n -> Pair] /\ n \in Nat
    BY <1>2, <1>4, <1>6
  <2> QED
    BY <2>1, SeqDef
<1>8. DOMAIN headers = 1 .. n
  BY <1>2
<1>9. Headers(headers)
  BY <1>3, <1>4, <1>5, <1>6, <1>7, <1>8 DEF Headers, IsDict, Unique, Lowerable
<1> QED
  BY <1>1, <1>4, <1>9 DEF OutInv

\* An attempt keeps it, whatever came of the attempt.
LEMMA AttemptKeeps ==
    ASSUME OutInv, NEW answer, NEW takes \in BOOLEAN, Attempt(answer, takes), answer # "none",
           answer \in {"ok", "accepted"} /\ payload # "unwritable" => takes \/ unconfirmed',
           unconfirmed' => transport \in Unconfirming /\ answer = "ok"
    PROVE  OutInv'
<1>1. /\ attempt' = attempt + 1 /\ result' = answer
      /\ stored' = IF takes THEN Append(stored, Encode(transport, Sent(attempt + 1), payload)) ELSE stored
      /\ UNCHANGED <<transport, order, headers, payload>>
  BY DEF Attempt
<1>2. Attempts \in Nat \ {0} /\ attempt \in 0 .. Attempts
  BY OutboundAssumption DEF OutInv
<1>3. attempt < Attempts
  BY <1>2 DEF Attempt, Calling, OutInv
<1>4. Copies' = Copies
  BY <1>1 DEF Copies, Sent
<1>5. attempt' \in 0 .. Attempts
  BY <1>1, <1>2, <1>3
<1>6. stored' \in Seq(Copies) /\ Len(stored') <= attempt' /\ (takes => stored' # <<>>)
  <2>1. stored \in Seq(Copies) /\ Len(stored) \in Nat /\ Len(stored) <= attempt
    BY LenProperties DEF OutInv
  <2>2. CASE takes
    <3>1. PICK c : c = Encode(transport, Sent(attempt + 1), payload)
      OBVIOUS
    <3>2. attempt + 1 \in Nat \ {0}
      BY <1>2
    <3>3. c \in Copies
      BY <3>1, <3>2 DEF Copies
    <3>4. stored' = Append(stored, c)
      BY <1>1, <2>2, <3>1
    <3>5. stored' \in Seq(Copies) /\ Len(stored') = Len(stored) + 1
      BY <2>1, <3>3, <3>4, AppendProperties
    <3>6. stored' # <<>>
      BY <2>1, <3>5
    <3> QED
      BY <1>1, <1>2, <2>1, <3>5, <3>6
  <2>3. CASE ~takes
    BY <1>1, <1>2, <2>1, <2>3
  <2> QED
    BY <2>2, <2>3
<1>7. result' # "none" /\ (result' \in {"ok", "accepted"} /\ payload' # "unwritable" => stored' # <<>> \/ unconfirmed')
  BY <1>1, <1>6
<1>9. unconfirmed' => transport' \in Unconfirming /\ result' = "ok"
  BY <1>1
<1>8. transport' \in Transports /\ payload' \in Payloads /\ Headers(headers)'
  BY <1>1 DEF OutInv, Headers, IsDict, Unique, Lowerable
<1> QED
  BY <1>4, <1>5, <1>6, <1>7, <1>8, <1>9 DEF OutInv

\* Every step keeps it.
LEMMA OutStep == OutInv /\ [OutNext]_outVars => OutInv'
<1> SUFFICES ASSUME OutInv, [OutNext]_outVars PROVE OutInv'
  OBVIOUS
\* While the loop goes on, the last answer was no ok, so none was unconfirmed.
<1>6. Calling => ~unconfirmed
  BY DEF Calling, Retryable, CallFailures, OutInv
<1>1. CASE SendUnwritable
  <2>1. PICK answer : /\ Attempt(answer, FALSE) /\ payload = "unwritable"
                      /\ answer \in {"ok", "raised", "service-unavailable"}
    BY <1>1 DEF SendUnwritable
  <2>2. ~unconfirmed'
    BY <1>1, <1>6, <2>1 DEF SendUnwritable, Attempt
  <2> QED
    BY <2>1, <2>2, AttemptKeeps
<1>2. CASE SendAccepted
  <2>1. PICK answer : Attempt(answer, TRUE) /\ answer # "none"
    BY <1>2 DEF SendAccepted, Retryable, CallFailures
  <2>2. ~unconfirmed'
    BY <1>2, <1>6, <2>1 DEF SendAccepted, Attempt
  <2> QED
    BY <2>1, <2>2, AttemptKeeps
<1>3. CASE SendFailed
  <2>1. PICK answer \in CallFailures, takes \in BOOLEAN : Attempt(answer, takes)
    BY <1>3 DEF SendFailed
  <2>2. answer \notin {"ok", "accepted", "none"}
    BY DEF CallFailures
  <2>3. ~unconfirmed'
    BY <1>3, <1>6, <2>1 DEF SendFailed, Attempt
  <2> QED
    BY <2>1, <2>2, <2>3, AttemptKeeps
<1>4. CASE SendUnconfirmed
  <2>1. Attempt("ok", FALSE) /\ unconfirmed' /\ transport \in Unconfirming
    BY <1>4 DEF SendUnconfirmed
  <2> QED
    BY <2>1, AttemptKeeps
<1>5. CASE UNCHANGED outVars
  BY <1>5 DEF OutInv, outVars, Copies, Sent, Headers, IsDict, Unique, Lowerable
<1> QED
  BY <1>1, <1>2, <1>3, <1>4, <1>5 DEF OutNext

\* It always holds.
LEMMA OutInvHolds == OutSpec => []OutInv
  BY OutStarts, OutStep, PTL DEF OutSpec
-----------------------------------------------------------------------------
(* What a copy is to its handler. *)
\* What is sent differs from the caller's headers in the correlation id alone.
LEMMA SentIs ==
    ASSUME Headers(headers), NEW n \in Nat \ {0}, NEW hs, hs = Sent(n)
    PROVE  /\ Headers(hs) /\ Has(LowerKeys(hs), CorrelationHeader)
           /\ Has(LowerKeys(headers), CorrelationHeader) => hs = headers
           /\ \A x : x[1] # CorrelationHeader => (x \in ToSet(LowerKeys(hs)) <=> x \in ToSet(LowerKeys(headers)))
           /\ \A key : key # CorrelationHeader => (Has(LowerKeys(hs), key) <=> Has(LowerKeys(headers), key))
           /\ \A name \in {"topic", DetailType} : Apart(headers, name) => Apart(hs, name)
<1>1. PICK id : id \in {"id1", "id2"} /\ hs = Correlated(headers, id)
  BY DEF Sent
<1>2. id \in Str
  BY <1>1 DEF Str
<1>3. /\ Headers(hs) /\ Has(LowerKeys(hs), CorrelationHeader)
      /\ Has(LowerKeys(headers), CorrelationHeader) => hs = headers
      /\ \A x : x[1] # CorrelationHeader => (x \in ToSet(LowerKeys(hs)) <=> x \in ToSet(LowerKeys(headers)))
      /\ \A name \in {"topic", DetailType} : Apart(headers, name) => Apart(hs, name)
  BY <1>1, <1>2, CorrelatedIs
<1>4. IsDict(LowerKeys(hs)) /\ IsDict(LowerKeys(headers))
  BY <1>3, LoweredIs DEF Headers
<1>5. ASSUME NEW key, key # CorrelationHeader
      PROVE  Has(LowerKeys(hs), key) <=> Has(LowerKeys(headers), key)
  <2>1. Has(LowerKeys(hs), key) <=> \E x \in ToSet(LowerKeys(hs)) : x[1] = key
    BY <1>4, InDict
  <2>2. Has(LowerKeys(headers), key) <=> \E x \in ToSet(LowerKeys(headers)) : x[1] = key
    BY <1>4, InDict
  <2> QED
    BY <1>3, <1>5, <2>1, <2>2
<1> QED
  BY <1>3, <1>5

\* The wanted headers are those that came, but for what the way added.
LEMMA KeptMeansSame ==
    ASSUME Headers(headers), NEW n \in Nat \ {0}, NEW hs, hs = Sent(n),
           NEW reserved, NEW e, Kept(hs, reserved, e),
           NEW want, want = Without(LowerKeys(headers), reserved),
           NEW own, own = {CorrelationHeader, DetailType}
    PROVE  ToSet(want) = ToSet(Without(LowerKeys(e.headers), own \ ToSet([j \in DOMAIN want |-> want[j][1]])))
<1>1. PICK L, H, G, K : /\ L = LowerKeys(headers) /\ H = LowerKeys(hs) /\ G = LowerKeys(e.headers)
                        /\ K = own \ ToSet([j \in DOMAIN want |-> want[j][1]])
  OBVIOUS
<1>2. /\ Headers(hs)
      /\ Has(L, CorrelationHeader) => hs = headers
      /\ \A x : x[1] # CorrelationHeader => (x \in ToSet(H) <=> x \in ToSet(L))
  BY <1>1, SentIs
<1>3. IsDict(L)
  BY <1>1, LoweredIs DEF Headers
<1>4. /\ IsDict(G) /\ \A x \in ToSet(H) : x[1] \notin reserved => x \in ToSet(G)
      /\ \A x \in ToSet(G) : (x \in ToSet(H) /\ x[1] \notin reserved) \/ x[1] = DetailType
  BY <1>1 DEF Kept
<1>5. IsDict(want) /\ \A x : x \in ToSet(want) <=> x \in ToSet(L) /\ x[1] \notin reserved
  BY <1>1, <1>3, WithoutIs
<1>6. \A x : x \in ToSet(Without(G, K)) <=> x \in ToSet(G) /\ x[1] \notin K
  BY <1>4, WithoutIs
<1>7. \A key : key \in K <=> key \in own /\ ~\E x \in ToSet(want) : x[1] = key
  BY <1>1 DEF ToSet
<1>8. \A x \in ToSet(L) : x[1] = CorrelationHeader => hs = headers
  BY <1>2, <1>3, InDict
<1>9. ASSUME NEW x \in ToSet(want) PROVE x \in ToSet(G) /\ x[1] \notin K
  <2>1. x \in ToSet(L) /\ x[1] \notin reserved
    BY <1>5
  <2>2. x \in ToSet(H)
    BY <1>1, <1>2, <1>8, <2>1
  <2> QED
    BY <1>4, <1>7, <2>1, <2>2
<1>10. ASSUME NEW x \in ToSet(G), x[1] \notin K PROVE x \in ToSet(want)
  <2>1. x[1] \in own => \E y \in ToSet(want) : y[1] = x[1]
    BY <1>7, <1>10
  <2>2. CASE x[1] \in own
    <3>1. PICK y \in ToSet(want) : y[1] = x[1]
      BY <2>1, <2>2
    <3>2. y \in ToSet(G)
      BY <1>9
    <3>3. x = y
      BY <1>4, <3>1, <3>2, InDict
    <3> QED
      BY <3>3
  <2>3. CASE x[1] \notin own
    BY <1>2, <1>4, <1>5, <2>3
  <2> QED
    BY <2>2, <2>3
<1>11. \A x : x \in ToSet(want) <=> x \in ToSet(Without(G, K))
  BY <1>6, <1>9, <1>10
<1> QED
  BY <1>1, <1>11

\* A copy is the encoding of what some attempt sent.
LEMMA CopyIs ==
    ASSUME OutInv, NEW i \in DOMAIN stored
    PROVE  \E n \in Nat \ {0} : stored[i] = Encode(transport, Sent(n), payload)
<1>1. stored[i] \in Copies
  <2>1. stored \in Seq(Copies)
    BY DEF OutInv
  <2> QED
    BY <2>1, LenProperties, ElementOfSeq
<1> QED
  BY <1>1 DEF Copies

\* What the transports carry is what ArrivesAsSent asks for.
LEMMA InvArrives == OutInv => ArrivesAsSent
<1> SUFFICES ASSUME OutInv, NEW i \in DOMAIN stored,
                    NEW got, got = Received(Decode(transport, stored[i])),
                    NEW want, want = Without(LowerKeys(headers), Reserved),
                    NEW own, own = {CorrelationHeader, DetailType}
             PROVE  /\ CarriesTopic => got.topic = Topic
                    /\ CarriesHeaders =>
                         ToSet(want) = ToSet(Without(got.headers, own \ ToSet([j \in DOMAIN want |-> want[j][1]])))
                    /\ CarriesPayload => got.payload = payload \/ (payload = "null" /\ transport \in {"eventgrid", "cloudevents"})
  BY Zenon DEF ArrivesAsSent
<1>1. PICK n \in Nat \ {0} : stored[i] = Encode(transport, Sent(n), payload)
  BY CopyIs
<1>2. PICK hs, e : hs = Sent(n) /\ e = Decode(transport, Encode(transport, hs, payload))
  OBVIOUS
<1>3. transport \in Transports /\ payload \in Payloads /\ Headers(headers)
  BY DEF OutInv
<1>4. /\ Headers(hs)
      /\ \A key : key # CorrelationHeader => (Has(LowerKeys(hs), key) <=> Has(LowerKeys(headers), key))
      /\ \A name \in {"topic", DetailType} : Apart(headers, name) => Apart(hs, name)
  BY <1>2, <1>3, SentIs
<1>5. Carried(hs, e)
  BY <1>2, <1>3, <1>4, CarriedByAll
<1>6. /\ got.topic = e.topic /\ got.headers = LowerKeys(e.headers)
      /\ got.payload = IF e.body.value = "empty" THEN "object" ELSE e.body.value
  <2>1. got = Received(e)
    BY <1>1, <1>2
  <2> QED
    BY <2>1 DEF Received
<1>7. "type" # CorrelationHeader /\ "data" # CorrelationHeader /\ DetailType # CorrelationHeader
  BY DEF CorrelationHeader, DetailType
<1>8. CarriesTopic => got.topic = Topic
  <2> HAVE CarriesTopic
  <2>1. /\ transport \notin {"kinesis", "eventbridge-fixed"}
        /\ transport = "cloudevents" => ~Has(LowerKeys(headers), "type")
        /\ transport \in AttributeTransports => Apart(headers, "topic")
    BY DEF CarriesTopic
  <2> QED
    BY <1>4, <1>5, <1>6, <1>7, <2>1 DEF Carried
<1>9. CarriesHeaders =>
        ToSet(want) = ToSet(Without(got.headers, own \ ToSet([j \in DOMAIN want |-> want[j][1]])))
  <2> HAVE CarriesHeaders
  <2>1. Kept(hs, Reserved, e)
    BY <1>4, <1>5, <1>7 DEF CarriesHeaders, Carried
  <2> QED
    <3>1. PICK reserved : reserved = Reserved
      OBVIOUS
    <3>2. hs = Sent(n) /\ Kept(hs, reserved, e) /\ want = Without(LowerKeys(headers), reserved)
      BY <1>2, <2>1, <3>1
    <3>3. ToSet(want) = ToSet(Without(LowerKeys(e.headers), own \ ToSet([j \in DOMAIN want |-> want[j][1]])))
      BY <1>3, <3>2, KeptMeansSame, SMTT(30)
    <3> QED
      BY <1>6, <3>3
<1>10. CarriesPayload => got.payload = payload \/ (payload = "null" /\ transport \in {"eventgrid", "cloudevents"})
  <2> HAVE CarriesPayload
  <2>1. \/ e.body.value = payload
        \/ payload = "null" /\ transport \in {"eventgrid", "cloudevents"} /\ e.body.value = "empty"
    BY <1>4, <1>5, <1>7 DEF CarriesPayload, Carried
  <2>2. payload # "empty"
    BY <1>3 DEF Payloads
  <2> QED
    BY <1>6, <2>1, <2>2
<1> QED
  BY <1>8, <1>9, <1>10

\* Every copy a sender left on a transport reaches its handler with the topic, the
\* headers and the payload the caller gave, as far as the transport carries them:
\* encoding and decoding are inverse for every number of attempts and of headers.
THEOREM CopiesArrive == OutSpec => []ArrivesAsSent
  BY OutInvHolds, InvArrives, PTL

\* With the correlation decorator outside, all copies are of one message.
LEMMA InvOneId == OutInv => OneCorrelationId
<1> SUFFICES ASSUME OutInv, order = "correlation", CarriesHeaders,
                    NEW i \in DOMAIN stored, NEW j \in DOMAIN stored,
                    NEW g, g = Received(Decode(transport, stored[i])).headers,
                    NEW f, f = Received(Decode(transport, stored[j])).headers
             PROVE  /\ Has(g, CorrelationHeader)
                    /\ Value(g, CorrelationHeader) = Value(f, CorrelationHeader)
                    /\ Has(LowerKeys(headers), CorrelationHeader) =>
                         Value(g, CorrelationHeader) = Value(LowerKeys(headers), CorrelationHeader)
  BY Zenon DEF OneCorrelationId
<1>1. PICK n \in Nat \ {0}, m \in Nat \ {0} : /\ stored[i] = Encode(transport, Sent(n), payload)
                                             /\ stored[j] = Encode(transport, Sent(m), payload)
  BY CopyIs
<1>2. Sent(n) = Sent(m)
  BY DEF Sent
<1>3. PICK hs, e : hs = Sent(n) /\ e = Decode(transport, Encode(transport, hs, payload))
  OBVIOUS
<1>4. transport \in Transports /\ payload \in Payloads /\ Headers(headers)
  BY DEF OutInv
<1>5. /\ Headers(hs) /\ Has(LowerKeys(hs), CorrelationHeader)
      /\ Apart(headers, DetailType) => Apart(hs, DetailType)
      /\ Has(LowerKeys(headers), CorrelationHeader) => hs = headers
      /\ \A key : key # CorrelationHeader => (Has(LowerKeys(hs), key) <=> Has(LowerKeys(headers), key))
  BY <1>3, <1>4, SentIs
<1>6. g = LowerKeys(e.headers) /\ f = g
  BY <1>1, <1>2, <1>3 DEF Received
<1>7. Kept(hs, Reserved, e)
  <2>1. Carried(hs, e)
    BY <1>3, <1>4, <1>5, CarriedByAll
  <2>2. DetailType # CorrelationHeader
    BY AddedNames
  <2> QED
    BY <1>5, <2>1, <2>2 DEF CarriesHeaders, Carried
<1>8. CorrelationHeader \notin Reserved
  BY AddedNames DEF Reserved
<1>9. PICK x \in ToSet(LowerKeys(hs)) : x[1] = CorrelationHeader
  <2>1. IsDict(LowerKeys(hs))
    BY <1>5, LoweredIs DEF Headers
  <2> QED
    BY <1>5, <2>1, InDict
<1>10. x \in ToSet(g) /\ IsDict(g)
  BY <1>6, <1>7, <1>8, <1>9 DEF Kept
<1>11. Has(g, CorrelationHeader) /\ Value(g, CorrelationHeader) = x[2]
  BY <1>9, <1>10, InDict
<1>12. Value(LowerKeys(hs), CorrelationHeader) = x[2]
  <2>1. IsDict(LowerKeys(hs))
    BY <1>5, LoweredIs DEF Headers
  <2> QED
    BY <1>9, <2>1, InDict
<1> QED
  BY <1>5, <1>6, <1>11, <1>12

\* An answer of success follows a copy, or comes from a sender that does not ask.
LEMMA InvHonest == OutInv => AnswerIsHonest
<1> SUFFICES ASSUME OutInv PROVE AnswerIsHonest
  OBVIOUS
<1>1. Attempts \in Nat \ {0} /\ attempt \in 0 .. Attempts
  BY OutboundAssumption DEF OutInv
<1>2. ~Calling /\ result \in Retryable => attempt = Attempts
  BY <1>1 DEF Calling
<1> QED
  BY <1>1, <1>2 DEF OutInv, AnswerIsHonest

\* A sender with retries says that all went well only if the transport has the message,
\* unless it is one of the four that do not learn what the transport did; it reports a
\* transient failure only after its last attempt, leaves no more copies than attempts,
\* and, when the correlation decorator is outside, one id on all of them.
THEOREM RetriesAreHonest == OutSpec => []RetriesHonestly
<1>1. OutInv => RetriesHonestly
  BY InvOneId, InvHonest DEF RetriesHonestly
<1> QED
  BY <1>1, OutInvHolds, PTL
=============================================================================
