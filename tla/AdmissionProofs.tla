---------------------------- MODULE AdmissionProofs ----------------------------
(***************************************************************************)
(* What admits calls: the circuit breaker and the rate limiter.            *)
(*                                                                         *)
(* For any number of concurrent calls, any threshold and any timeout, with *)
(* outcomes recorded in any order and calls cancelled at any time, the     *)
(* breaker's state is a function of the outcomes recorded.  The invariant  *)
(* ties the code's own counter to the history: while closed the counter is *)
(* the streak, and once the circuit has left closed it never falls below   *)
(* the threshold, so a late failure cannot move an open circuit elsewhere. *)
(*                                                                         *)
(* For every rate, burst and clock, the lazily refilled limiter implements *)
(* the steady bucket of TokenBucket, and no window of time admits more     *)
(* than its bound.  The bound alone is not inductive: LimiterInv adds the  *)
(* tokens still in the bucket, which pay for the admissions to come.       *)
(***************************************************************************)
EXTENDS CircuitBreaker, RateLimiter, FiniteSetTheorems, TLAPS

(***************************************************************************)
(* CircuitBreaker.                                                         *)
(***************************************************************************)
CountsAgree ==
    IF state = CLOSED THEN failures = streak /\ streak < FailureThreshold
    ELSE failures >= FailureThreshold /\ streak = FailureThreshold

\* The inductive invariant.
IInv == TypeOK /\ CountsAgree /\ ProbingIffHalfOpen

\* The initial state satisfies it.
LEMMA InitIInv == Init => IInv
<1> SUFFICES ASSUME Init PROVE IInv
  OBVIOUS
<1> USE ThresholdAssumption, TimeoutAssumption DEF Init, CLOSED, OPEN, HALF_OPEN
<1>0. probing \in BOOLEAN
  OBVIOUS
<1>1. TypeOK
  BY <1>0 DEF TypeOK, Idle
<1>2. CountsAgree
  BY DEF CountsAgree
<1>3. ProbingIffHalfOpen
  BY DEF ProbingIffHalfOpen
<1> QED BY <1>1, <1>2, <1>3 DEF IInv

\* Recording an outcome keeps it, in whatever state the outcome finds the breaker.
LEMMA CompleteIInv ==
  ASSUME IInv, NEW c \in Calls, NEW outcome \in Outcomes, Complete(c, outcome)
  PROVE  IInv'
<1> USE ThresholdAssumption, TimeoutAssumption DEF CLOSED, OPEN, HALF_OPEN
<1>1. pc' \in [Calls -> Idle \cup InRun]
  BY DEF IInv, TypeOK, Complete, Idle
<1>2. CASE Trips(outcome)
  <2>1. OnFailure /\ streak' = Min(streak + 1, FailureThreshold)
    BY <1>2 DEF Complete
  <2>2. CASE state = HALF_OPEN
    <3>1. probing' = FALSE /\ failures' = failures /\ state' = OPEN /\ open_for' = 0
      BY <2>1, <2>2 DEF OnFailure
    <3>0. probing' \in BOOLEAN
      BY <3>1
    <3>2. TypeOK' /\ CountsAgree'
      BY <1>1, <2>1, <2>2, <3>0, <3>1 DEF Min, IInv, TypeOK, CountsAgree
    <3>3. ProbingIffHalfOpen'
      BY <3>1 DEF ProbingIffHalfOpen
    <3> QED BY <3>2, <3>3 DEF IInv
  <2>3. CASE state # HALF_OPEN
    <3>1. /\ probing' = FALSE /\ failures' = failures + 1
          /\ state' = (IF failures' >= FailureThreshold THEN OPEN ELSE state)
          /\ open_for' = (IF failures' >= FailureThreshold THEN 0 ELSE open_for)
      BY <2>1, <2>3 DEF OnFailure
    <3>0. probing' \in BOOLEAN
      BY <3>1
    <3>2. TypeOK' /\ CountsAgree'
      BY <1>1, <2>1, <2>3, <3>0, <3>1 DEF Min, IInv, TypeOK, CountsAgree
    <3>3. state' # HALF_OPEN
      BY <2>3, <3>1
    <3>4. ProbingIffHalfOpen'
      BY <3>1, <3>3 DEF ProbingIffHalfOpen
    <3> QED BY <3>2, <3>4 DEF IInv
  <2> QED BY <2>2, <2>3
<1>3. CASE ~Trips(outcome)
  <2>1. /\ failures' = 0 /\ probing' = FALSE /\ state' = CLOSED
        /\ open_for' = open_for /\ streak' = 0
    BY <1>3 DEF Complete, OnSuccess
  <2>0. probing' \in BOOLEAN
    BY <2>1
  <2>2. TypeOK' /\ CountsAgree'
    BY <1>1, <2>0, <2>1 DEF IInv, TypeOK, CountsAgree
  <2>3. ProbingIffHalfOpen'
    BY <2>1 DEF ProbingIffHalfOpen
  <2> QED BY <2>2, <2>3 DEF IInv
<1> QED BY <1>2, <1>3

\* Every step keeps it.
LEMMA NextIInv == IInv /\ [Next]_vars => IInv'
<1> SUFFICES ASSUME IInv, [Next]_vars PROVE IInv'
  OBVIOUS
<1> USE ThresholdAssumption, TimeoutAssumption
        DEF IInv, TypeOK, CountsAgree, ProbingIffHalfOpen, Idle, InRun, CLOSED, OPEN, HALF_OPEN
<1>1. ASSUME NEW c \in Calls, AdmitCall(c) PROVE IInv'
  BY <1>1 DEF AdmitCall
<1>2. ASSUME NEW c \in Calls, AdmitProbe(c) PROVE IInv'
  BY <1>2 DEF AdmitProbe, ProbeDue
<1>3. ASSUME NEW c \in Calls, Reject(c) PROVE IInv'
  BY <1>3 DEF Reject
<1>4. ASSUME NEW c \in Calls, NEW outcome \in Outcomes, Complete(c, outcome) PROVE IInv'
  BY <1>4, CompleteIInv
<1>5. ASSUME NEW c \in Calls, Cancel(c) PROVE IInv'
  BY <1>5 DEF Cancel
<1>6. ASSUME Tick PROVE IInv'
  BY <1>6 DEF Tick, ResetElapsed
<1>7. CASE UNCHANGED vars
  BY <1>7 DEF vars
<1> QED BY <1>1, <1>2, <1>3, <1>4, <1>5, <1>6, <1>7 DEF Next

\* The calls in run(), and the one among them that half-open is about: a tripping
\* outcome recorded while half-open is the only one that is not counted.
Inside == {c \in Calls : pc[c] \in InRun}
Awaited == IF state = HALF_OPEN /\ InFlight("probe") # {} THEN 1 ELSE 0

\* Every failure still to be counted has a call of its own in flight.
CountPaid == failures + Cardinality(Inside) - Awaited <= FailureThreshold - 1 + Cardinality(Calls)

\* How the number of calls in run() changes when one call moves.
LEMMA InsideMoves ==
  ASSUME TypeOK, TypeOK', NEW c \in Calls, NEW to, pc' = [pc EXCEPT ![c] = to]
  PROVE  /\ Cardinality(Inside) \in Nat /\ Cardinality(Inside') \in Nat /\ Cardinality(Calls) \in Nat
         /\ Cardinality(Inside') <= Cardinality(Calls)
         /\ pc[c] \in InRun /\ to \notin InRun => Cardinality(Inside') = Cardinality(Inside) - 1
         /\ pc[c] \notin InRun /\ to \in InRun => Cardinality(Inside') = Cardinality(Inside) + 1
         /\ pc[c] \notin InRun /\ to \notin InRun => Inside' = Inside
<1>1. IsFiniteSet(Inside) /\ IsFiniteSet(Inside')
  BY CallsAssumption, FS_Subset DEF Inside
<1>2. Cardinality(Inside') <= Cardinality(Calls)
  BY CallsAssumption, FS_Subset DEF Inside
<1>3. /\ Cardinality(Inside) \in Nat /\ Cardinality(Inside') \in Nat /\ Cardinality(Calls) \in Nat
  BY <1>1, CallsAssumption, FS_CardinalityType
<1>4. ASSUME pc[c] \in InRun, to \notin InRun PROVE Cardinality(Inside') = Cardinality(Inside) - 1
  <2>1. Inside' = Inside \ {c} /\ c \in Inside
    BY <1>4 DEF Inside, TypeOK
  <2> QED BY <2>1, <1>1, FS_RemoveElement
<1>5. ASSUME pc[c] \notin InRun, to \in InRun PROVE Cardinality(Inside') = Cardinality(Inside) + 1
  <2>1. Inside' = Inside \cup {c} /\ c \notin Inside
    BY <1>5 DEF Inside, TypeOK
  <2> QED BY <2>1, <1>1, FS_AddElement
<1>6. ASSUME pc[c] \notin InRun, to \notin InRun PROVE Inside' = Inside
  BY <1>6 DEF Inside, TypeOK
<1> QED BY <1>2, <1>3, <1>4, <1>5, <1>6

\* At the start nobody is in run().
LEMMA InitPaid == Init => CountPaid
<1> SUFFICES ASSUME Init PROVE CountPaid
  OBVIOUS
<1>1. Inside = {} /\ failures = 0 /\ Awaited = 0
  BY DEF Init, Inside, InRun, Awaited, CLOSED, HALF_OPEN
<1>2. Cardinality(Inside) = 0 /\ Cardinality(Calls) \in Nat
  BY <1>1, CallsAssumption, FS_EmptySet, FS_CardinalityType
<1> QED BY <1>1, <1>2, ThresholdAssumption DEF CountPaid

\* Every step keeps the account.
LEMMA NextPaid == IInv /\ IInv' /\ CountPaid /\ [Next]_vars => CountPaid'
<1> SUFFICES ASSUME IInv, IInv', CountPaid, [Next]_vars PROVE CountPaid'
  OBVIOUS
<1>0. /\ TypeOK /\ TypeOK' /\ Awaited \in {0, 1} /\ Awaited' \in {0, 1}
      /\ failures \in Nat /\ failures' \in Nat
      /\ Cardinality(Inside) \in Nat /\ Cardinality(Calls) \in Nat
      /\ FailureThreshold \in Nat \ {0}
  <2>1. IsFiniteSet(Inside)
    BY CallsAssumption, FS_Subset DEF Inside
  <2> QED BY <2>1, CallsAssumption, ThresholdAssumption, FS_CardinalityType DEF IInv, TypeOK, Awaited
<1>1. ASSUME NEW c \in Calls, AdmitCall(c) PROVE CountPaid'
  <2>1. pc' = [pc EXCEPT ![c] = "call"] /\ failures' = failures /\ failures < FailureThreshold
    BY <1>0, <1>1 DEF AdmitCall, IInv, CountsAgree
  <2>2. Cardinality(Inside') \in Nat /\ Cardinality(Inside') <= Cardinality(Calls)
    BY <1>0, <2>1, InsideMoves
  <2> QED BY <1>0, <2>1, <2>2 DEF CountPaid
<1>2. ASSUME NEW c \in Calls, AdmitProbe(c) PROVE CountPaid'
  <2>1. /\ pc' = [pc EXCEPT ![c] = "probe"] /\ pc[c] \notin InRun /\ "probe" \in InRun
        /\ failures' = failures /\ state' = HALF_OPEN
    BY <1>2 DEF AdmitProbe, Idle, InRun
  <2>2. state # HALF_OPEN
    BY <1>2 DEF AdmitProbe, ProbeDue, IInv, ProbingIffHalfOpen, OPEN, HALF_OPEN
  <2>3. c \in InFlight("probe")'
    BY <1>0, <2>1 DEF InFlight, TypeOK
  <2>4. Awaited = 0 /\ Awaited' = 1
    BY <2>1, <2>2, <2>3 DEF Awaited
  <2>5. Cardinality(Inside') = Cardinality(Inside) + 1
    BY <1>0, <2>1, InsideMoves
  <2> QED BY <1>0, <2>1, <2>4, <2>5 DEF CountPaid
<1>3. ASSUME NEW c \in Calls, Reject(c) PROVE CountPaid'
  <2>1. /\ pc' = [pc EXCEPT ![c] = "rejected"] /\ pc[c] \notin InRun /\ "rejected" \notin InRun
        /\ UNCHANGED <<state, failures>>
    BY <1>3 DEF Reject, Idle, InRun
  <2>2. InFlight("probe")' = InFlight("probe")
    BY <1>0, <2>1 DEF InFlight, TypeOK, InRun
  <2>3. Inside' = Inside
    BY <1>0, <2>1, InsideMoves
  <2> QED BY <2>1, <2>2, <2>3 DEF CountPaid, Awaited
<1>4. ASSUME NEW c \in Calls, NEW outcome \in Outcomes, Complete(c, outcome) PROVE CountPaid'
  <2>1. pc' = [pc EXCEPT ![c] = "returned"] /\ pc[c] \in InRun /\ "returned" \notin InRun
    BY <1>4 DEF Complete, InRun
  <2>2. /\ Cardinality(Inside') \in Nat /\ Cardinality(Inside') <= Cardinality(Calls)
        /\ Cardinality(Inside') = Cardinality(Inside) - 1
    BY <1>0, <2>1, InsideMoves
  <2>3. CASE ~Trips(outcome)
    <3>1. failures' = 0
      BY <1>4, <2>3 DEF Complete, OnSuccess
    <3> QED BY <1>0, <2>2, <3>1 DEF CountPaid
  <2>4. CASE Trips(outcome) /\ state = HALF_OPEN
    <3>1. failures' = failures
      BY <1>4, <2>4 DEF Complete, OnFailure
    <3> QED BY <1>0, <2>2, <3>1 DEF CountPaid
  <2>5. CASE Trips(outcome) /\ state # HALF_OPEN
    <3>1. failures' = failures + 1 /\ Awaited = 0
      BY <1>0, <1>4, <2>5 DEF Complete, OnFailure, Awaited
    <3> QED BY <1>0, <2>2, <3>1 DEF CountPaid
  <2> QED BY <2>3, <2>4, <2>5
<1>5. ASSUME NEW c \in Calls, Cancel(c) PROVE CountPaid'
  <2>1. /\ pc' = [pc EXCEPT ![c] = "cancelled"] /\ pc[c] \in InRun /\ "cancelled" \notin InRun
        /\ failures' = failures
    BY <1>5 DEF Cancel, InRun
  <2>2. Cardinality(Inside') = Cardinality(Inside) - 1
    BY <1>0, <2>1, InsideMoves
  <2> QED BY <1>0, <2>1, <2>2 DEF CountPaid
<1>6. CASE Tick \/ UNCHANGED vars
  BY <1>6 DEF Tick, vars, CountPaid, Inside, Awaited, InFlight
<1> QED BY <1>1, <1>2, <1>3, <1>4, <1>5, <1>6 DEF Next

\* The account bounds the counter: the probe that is awaited is no call.
LEMMA PaidBounds == IInv /\ CountPaid => FailuresBounded
<1> SUFFICES ASSUME IInv, CountPaid PROVE FailuresBounded
  OBVIOUS
<1>1. /\ IsFiniteSet(Inside) /\ InFlight("call") \subseteq Inside
      /\ IsFiniteSet(InFlight("call"))
  BY CallsAssumption, FS_Subset DEF Inside, InFlight, InRun
<1>2. /\ Cardinality(Inside) \in Nat /\ Cardinality(InFlight("call")) \in Nat
      /\ Cardinality(InFlight("call")) <= Cardinality(Inside)
      /\ Cardinality(Calls) \in Nat
  BY <1>1, CallsAssumption, FS_CardinalityType, FS_Subset
<1>3. failures \in Nat /\ FailureThreshold \in Nat \ {0}
  BY ThresholdAssumption DEF IInv, TypeOK
<1>4. CASE Awaited = 0
  BY <1>2, <1>3, <1>4 DEF CountPaid, FailuresBounded
<1>5. CASE Awaited # 0
  <2>1. PICK p \in InFlight("probe") : TRUE
    BY <1>5 DEF Awaited
  <2>2. p \in Inside /\ InFlight("call") \subseteq Inside \ {p}
    BY <2>1 DEF InFlight, Inside, InRun
  <2>3. IsFiniteSet(Inside \ {p}) /\ Cardinality(Inside \ {p}) = Cardinality(Inside) - 1
    BY <1>1, <2>2, FS_RemoveElement
  <2>4. Cardinality(InFlight("call")) <= Cardinality(Inside) - 1
    BY <2>2, <2>3, FS_Subset
  <2> QED BY <1>2, <1>3, <1>5, <2>4 DEF CountPaid, FailuresBounded, Awaited
<1> QED BY <1>4, <1>5

\* The breaker is closed exactly while fewer than failure_threshold tripping
\* outcomes were recorded in a row, and _probing is set exactly while it is
\* half-open, so the second branch of _admit's half-open case is unreachable; and
\* _consecutive_failures stays within what the calls in flight can still add.
THEOREM BreakerFollowsOutcomes == Spec => []StateFollowsOutcomes
<1>1. IInv /\ CountPaid => StateFollowsOutcomes
  BY ThresholdAssumption, PaidBounds DEF IInv, CountsAgree, ClosedIffShortStreak, StateFollowsOutcomes
<1> QED BY InitIInv, NextIInv, InitPaid, NextPaid, <1>1, PTL DEF Spec

-----------------------------------------------------------------------------
(***************************************************************************)
(* RateLimiter.                                                            *)
(***************************************************************************)
\* Admissions so far and tokens at hand are paid by the burst and the rate.
Paid == admitted * Unit + Refilled <= Size + (now - since) * Rate

\* The inductive invariant.
LimiterInv == LimiterTypeOK /\ Paid

\* The size of the bucket is a number.
LEMMA SizeType == Size \in Nat /\ Unit <= Size
<1>1. \A u, b \in Nat \ {0} : b * u \in Nat /\ u <= b * u
  OBVIOUS
<1> QED BY <1>1, UnitAssumption, BurstAssumption DEF Size

\* What a look at the bucket finds is between empty and full.
LEMMA RefilledType ==
  ASSUME LimiterTypeOK
  PROVE  Refilled \in 0 .. Size
<1>1. now - updated_at \in Nat /\ tokens \in Nat /\ tokens <= Size
  BY SizeType, MaxTimeAssumption DEF LimiterTypeOK
<1>2. (now - updated_at) * Rate \in Nat
  BY <1>1, RateAssumption
<1> DEFINE gain == (now - updated_at) * Rate
<1> HIDE DEF gain
<1>3. Refilled = IF now - updated_at > 0 THEN Smaller(Size, tokens + gain) ELSE tokens
  BY DEF Refilled, gain
<1>4. gain \in Nat
  BY <1>2 DEF gain
<1> QED BY <1>1, <1>3, <1>4, SizeType DEF Smaller

\* Storing the refill and its time changes nothing that a look would find.
LEMMA RefilledStored ==
  ASSUME LimiterTypeOK, now' = now, updated_at' = now
  PROVE  Refilled' = tokens'
<1>1. ~(now' - updated_at' > 0)
  BY MaxTimeAssumption DEF LimiterTypeOK
<1> QED BY <1>1 DEF Refilled

\* One tick adds Rate units, up to the size, however long ago the refill was.
LEMMA RefilledTick ==
  ASSUME LimiterTypeOK, LimiterTick
  PROVE  Refilled' = Smaller(Size, Refilled + Rate)
<1> DEFINE e == now - updated_at
<1>1. e \in Nat /\ now \in Nat /\ updated_at \in Nat /\ tokens \in Nat /\ tokens <= Size
  BY SizeType, MaxTimeAssumption DEF LimiterTypeOK
<1>2. now' - updated_at' = e + 1 /\ tokens' = tokens
  BY <1>1 DEF LimiterTick
<1> HIDE DEF e
<1>3. Refilled' = Smaller(Size, tokens + (e + 1) * Rate)
  BY <1>1, <1>2 DEF Refilled
<1>4. Refilled = IF e > 0 THEN Smaller(Size, tokens + e * Rate) ELSE tokens
  BY DEF Refilled, e
<1>5. (e + 1) * Rate = e * Rate + Rate /\ e * Rate \in Nat /\ (e = 0 => e * Rate = 0)
  BY <1>1, RateAssumption
<1> DEFINE gain == e * Rate
<1>6. gain \in Nat /\ Refilled' = Smaller(Size, tokens + (gain + Rate))
      /\ Refilled = (IF e > 0 THEN Smaller(Size, tokens + gain) ELSE tokens)
      /\ (e = 0 => gain = 0)
  BY <1>3, <1>4, <1>5
<1> HIDE DEF gain
<1> QED BY <1>1, <1>6, SizeType, RateAssumption DEF Smaller

\* The initial state satisfies the invariant.
LEMMA LimiterStarts == LimiterInit => LimiterInv
<1> SUFFICES ASSUME LimiterInit PROVE LimiterInv
  OBVIOUS
<1>1. LimiterTypeOK
  BY SizeType, MaxTimeAssumption DEF LimiterInit, LimiterTypeOK
<1>2. Refilled = Size
  BY DEF LimiterInit, Refilled
<1>3. admitted * Unit = 0 /\ (now - since) * Rate = 0
  BY UnitAssumption, RateAssumption DEF LimiterInit
<1> QED BY <1>1, <1>2, <1>3, SizeType DEF LimiterInv, Paid

\* Every step preserves it.
LEMMA LimiterHolds == LimiterInv /\ [LimiterNext]_limiterVars => LimiterInv'
<1> SUFFICES ASSUME LimiterInv, [LimiterNext]_limiterVars PROVE LimiterInv'
  OBVIOUS
<1> USE UnitAssumption, RateAssumption, MaxTimeAssumption, SizeType
<1>1. /\ LimiterTypeOK /\ Refilled \in 0 .. Size /\ Refilled \in Nat
      /\ now \in Nat /\ since \in Nat /\ since <= now /\ admitted \in Nat
      /\ updated_at \in Nat /\ updated_at <= now
  BY RefilledType DEF LimiterInv, LimiterTypeOK
<1> DEFINE spent == admitted * Unit
           earned == (now - since) * Rate
<1>2. spent \in Nat /\ earned \in Nat /\ spent + Refilled <= Size + earned
  BY <1>1 DEF LimiterInv, Paid
<1>3. CASE Admit
  <2>1. LimiterTypeOK'
    BY <1>1, <1>3 DEF Admit, LimiterTypeOK
  <2>2. Refilled' = Refilled - Unit
    BY <1>1, <1>3, RefilledStored DEF Admit
  <2>3. admitted' * Unit = spent + Unit /\ (now' - since') * Rate = earned
    BY <1>1, <1>3 DEF Admit
  <2> HIDE DEF spent, earned
  <2> QED BY <1>1, <1>2, <2>1, <2>2, <2>3 DEF LimiterInv, Paid, Size
<1>4. CASE Refuse \/ Available
  <2>1. /\ tokens' = Refilled /\ updated_at' = now
        /\ UNCHANGED <<now, since, admitted>>
        /\ verdict' \in {verdict, "refused"}
    BY <1>4 DEF Refuse, Available
  <2>2. LimiterTypeOK'
    BY <1>1, <2>1 DEF LimiterTypeOK
  <2>3. Refilled' = Refilled
    BY <1>1, <2>1, RefilledStored
  <2> QED BY <1>1, <1>2, <2>1, <2>2, <2>3 DEF LimiterInv, Paid, Size
<1>5. CASE LimiterTick
  <2>1. LimiterTypeOK'
    BY <1>1, <1>5 DEF LimiterTick, LimiterTypeOK
  <2>2. Refilled' <= Refilled + Rate /\ Refilled' \in Nat
    BY <1>1, <1>5, RefilledTick DEF Smaller
  <2>3. (now' - since') * Rate = earned + Rate /\ admitted' * Unit = spent
    BY <1>1, <1>5 DEF LimiterTick
  <2> HIDE DEF spent, earned
  <2> QED BY <1>1, <1>2, <2>1, <2>2, <2>3 DEF LimiterInv, Paid, Size
<1>6. CASE StartWindow
  <2>1. LimiterTypeOK' /\ Refilled' = Refilled
    BY <1>1, <1>6 DEF StartWindow, LimiterTypeOK, Refilled
  <2>2. admitted' * Unit = 0 /\ (now' - since') * Rate = 0
    BY <1>1, <1>6 DEF StartWindow
  <2> QED BY <1>1, <2>1, <2>2 DEF LimiterInv, Paid, Size
<1>7. CASE UNCHANGED limiterVars
  BY <1>7 DEF limiterVars, LimiterInv, LimiterTypeOK, Paid, Refilled
<1> QED BY <1>3, <1>4, <1>5, <1>6, <1>7 DEF LimiterNext

\* rate_limit.py never admits more than burst calls plus refill_rate calls per
\* second in any window of time, for every rate and burst.
THEOREM RateIsBounded == LimiterSpec => []RateKept
<1>1. LimiterInv => RateKept
  <2> SUFFICES ASSUME LimiterInv PROVE WindowBound
    BY DEF LimiterInv, RateKept
  <2>1. Refilled \in Nat /\ admitted \in Nat /\ now - since \in Nat
    BY RefilledType, SizeType, MaxTimeAssumption DEF LimiterInv, LimiterTypeOK
  <2> DEFINE spent == admitted * Unit
             earned == (now - since) * Rate
  <2>2. spent \in Nat /\ earned \in Nat /\ spent + Refilled <= Size + earned
    BY <2>1, UnitAssumption, RateAssumption DEF LimiterInv, Paid
  <2>3. spent <= Size + earned
    <3> HIDE DEF spent, earned
    <3> QED BY <2>1, <2>2, SizeType
  <2> QED BY <2>3 DEF WindowBound
<1> QED BY LimiterStarts, LimiterHolds, <1>1, PTL DEF LimiterSpec

\* The lazy refill of rate_limit.py implements the steady bucket: each step of
\* the limiter is a step of the bucket or leaves the bucket as it is.
THEOREM LazyRefillIsSteady == LimiterSpec => SteadyBucket
<1>1. LimiterInit => Bucket!Init
  BY DEF LimiterInit, Bucket!Init, Refilled, Bucket!Size, Size
<1>2. LimiterInv /\ [LimiterNext]_limiterVars => [Bucket!Next]_<<Refilled, verdict>>
  <2> SUFFICES ASSUME LimiterInv, [LimiterNext]_limiterVars
               PROVE  [Bucket!Next]_<<Refilled, verdict>>
    OBVIOUS
  <2>1. LimiterTypeOK
    BY DEF LimiterInv
  <2>2. CASE Admit
    <3>1. Refilled' = Refilled - Unit
      BY <2>1, <2>2, RefilledStored DEF Admit
    <3> QED BY <2>2, <3>1 DEF Admit, Bucket!Next, Bucket!Admit
  <2>3. CASE Refuse
    <3>1. Refilled' = Refilled
      BY <2>1, <2>3, RefilledStored DEF Refuse
    <3> QED BY <2>3, <3>1 DEF Refuse, Bucket!Next, Bucket!Refuse
  <2>4. CASE Available
    <3>1. Refilled' = Refilled
      BY <2>1, <2>4, RefilledStored DEF Available
    <3> QED BY <2>4, <3>1 DEF Available
  <2>5. CASE LimiterTick
    <3>1. Refilled' = Smaller(Size, Refilled + Rate)
      BY <2>1, <2>5, RefilledTick
    <3> QED BY <2>5, <3>1 DEF LimiterTick, Bucket!Next, Bucket!Fill, Bucket!Smaller, Smaller,
                              Bucket!Size, Size
  <2>6. CASE StartWindow \/ UNCHANGED limiterVars
    BY <2>6 DEF StartWindow, limiterVars, Refilled
  <2> QED BY <2>2, <2>3, <2>4, <2>5, <2>6 DEF LimiterNext
<1> QED BY <1>1, <1>2, LimiterStarts, LimiterHolds, PTL DEF LimiterSpec, SteadyBucket, Bucket!Spec
=============================================================================
