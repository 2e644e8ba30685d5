---------------------------- MODULE CircuitBreaker ----------------------------
(***************************************************************************)
(* benzene-resilience, circuit_breaker.py: one breaker shared by           *)
(* concurrent calls.  The object has no lock: a step is the code before    *)
(* `await run()` (the admission) or after it (the recording), so the       *)
(* outcome of a call is recorded in whatever state the breaker has reached *)
(* by then.  A call whose task is cancelled leaves through CancelledError, *)
(* which `except Exception` does not catch.                                *)
(***************************************************************************)
EXTENDS Naturals, FiniteSets

CONSTANTS Calls,            \* the tasks that share the breaker
          FailureThreshold, \* max(1, failure_threshold)
          ResetTimeout,     \* reset_timeout in ticks of the clock
          MayCancel         \* whether tasks inside run() can be cancelled

ASSUME CallsAssumption == IsFiniteSet(Calls)
ASSUME ThresholdAssumption == FailureThreshold \in Nat \ {0}
ASSUME TimeoutAssumption == ResetTimeout \in Nat
ASSUME MayCancelAssumption == MayCancel \in BOOLEAN

VARIABLES pc,           \* where each call is
          state,        \* CircuitBreaker._state
          failures,     \* CircuitBreaker._consecutive_failures
          probing,      \* CircuitBreaker._probing
          open_for,     \* clock() - _opened_at, which only matters up to ResetTimeout
          streak        \* history: tripping outcomes recorded since the last other one

vars == <<pc, state, failures, probing, open_for, streak>>

CLOSED == "closed"
OPEN == "open"
HALF_OPEN == "half-open"

-----------------------------------------------------------------------------
\* What run() can end in, as far as the breaker tells outcomes apart: success,
\* a failure whose status is in trip_on, another failure, an exception, and no
\* result at all (a middleware below ended the pipeline without one).
Outcomes == {"ok", "tripping", "handled", "raised", "none"}

\* circuit_breaker_interception.run: a missing result becomes Result.ok().
Reduced(outcome) == IF outcome = "none" THEN "ok" ELSE outcome

\* _record and the except branch of execute: what counts against the dependency.
Trips(outcome) == Reduced(outcome) \in {"tripping", "raised"}

Idle     == {"new", "rejected", "returned", "cancelled"}   \* outside execute
InRun    == {"call", "probe"}   \* inside run(), admitted as a normal call or as a probe

Min(a, b) == IF a <= b THEN a ELSE b

ResetElapsed == open_for >= ResetTimeout

Init == /\ pc = [c \in Calls |-> "new"]
        /\ state = CLOSED
        /\ failures = 0
        /\ probing = FALSE
        /\ open_for = 0
        /\ streak = 0

-----------------------------------------------------------------------------
\* _admit with a closed circuit.
AdmitCall(c) ==
    /\ pc[c] \in Idle
    /\ state = CLOSED
    /\ pc' = [pc EXCEPT ![c] = "call"]
    /\ UNCHANGED <<state, failures, probing, open_for, streak>>

\* Fault: an elapsed open window is not noticed.
ProbeDueHalfOpenOnly == state = HALF_OPEN /\ ~probing

\* _admit lets a probe through: the open window has elapsed, or the circuit is
\* half-open with no probe in flight.
ProbeDue == \/ state = OPEN /\ ResetElapsed
            \/ state = HALF_OPEN /\ ~probing

AdmitProbe(c) ==
    /\ pc[c] \in Idle
    /\ ProbeDue
    /\ state' = HALF_OPEN
    /\ probing' = TRUE
    /\ pc' = [pc EXCEPT ![c] = "probe"]
    /\ UNCHANGED <<failures, open_for, streak>>

\* _admit refuses: service-unavailable without calling run().
Reject(c) ==
    /\ pc[c] \in Idle
    /\ state # CLOSED
    /\ ~ProbeDue
    /\ pc' = [pc EXCEPT ![c] = "rejected"]
    /\ UNCHANGED <<state, failures, probing, open_for, streak>>

\* Fault: a success takes one failure back instead of resetting the count.
OnSuccessDecrements == /\ failures' = failures - 1
                       /\ probing' = FALSE
                       /\ state' = CLOSED
                       /\ UNCHANGED open_for

\* Fault: a success closes the circuit without resetting the count.
OnSuccessKeepsCount == /\ probing' = FALSE
                       /\ state' = CLOSED
                       /\ UNCHANGED <<failures, open_for>>

\* _on_success, whatever state the breaker is in by now.
OnSuccess == /\ failures' = 0
             /\ probing' = FALSE
             /\ state' = CLOSED
             /\ UNCHANGED open_for

\* Fault: the circuit opens one failure late.
OnFailureLate ==
    LET count == IF state = HALF_OPEN THEN failures ELSE failures + 1
        trip  == state = HALF_OPEN \/ count > FailureThreshold
    IN  /\ probing' = FALSE
        /\ failures' = count
        /\ state' = IF trip THEN OPEN ELSE state
        /\ open_for' = IF trip THEN 0 ELSE open_for

\* Fault: the half-open branch returns without calling _trip.
OnFailureForgetsTrip ==
    LET count == IF state = HALF_OPEN THEN failures ELSE failures + 1
        trip  == state # HALF_OPEN /\ count >= FailureThreshold
    IN  /\ probing' = FALSE
        /\ failures' = count
        /\ state' = IF trip THEN OPEN ELSE state
        /\ open_for' = IF trip THEN 0 ELSE open_for

\* _on_failure and _trip.
OnFailure ==
    LET count == IF state = HALF_OPEN THEN failures ELSE failures + 1
        trip  == state = HALF_OPEN \/ count >= FailureThreshold
    IN  /\ probing' = FALSE
        /\ failures' = count
        /\ state' = IF trip THEN OPEN ELSE state
        /\ open_for' = IF trip THEN 0 ELSE open_for

\* run() ended: execute records the outcome, then returns it or re-raises.
Complete(c, outcome) ==
    /\ pc[c] \in InRun
    /\ pc' = [pc EXCEPT ![c] = "returned"]
    /\ IF Trips(outcome)
       THEN OnFailure /\ streak' = Min(streak + 1, FailureThreshold)
       ELSE OnSuccess /\ streak' = 0

\* The task is cancelled inside run(): CancelledError passes through execute
\* and nothing is recorded.
Cancel(c) ==
    /\ MayCancel
    /\ pc[c] \in InRun
    /\ pc' = [pc EXCEPT ![c] = "cancelled"]
    /\ UNCHANGED <<state, failures, probing, open_for, streak>>

\* The monotonic clock.
Tick == /\ ~ResetElapsed
        /\ open_for' = open_for + 1
        /\ UNCHANGED <<pc, state, failures, probing, streak>>

\* Each message through circuit_breaker_interception, and each send_message of a
\* CircuitBreakingMessageSender, is one execute of the shared breaker.
Next == \/ \E c \in Calls : \/ AdmitCall(c) \/ AdmitProbe(c) \/ Reject(c)
                            \/ \E outcome \in Outcomes : Complete(c, outcome)
                            \/ Cancel(c)
        \/ Tick

\* Time passes and the guarded work ends; callers keep calling.
Fairness == /\ WF_vars(Tick)
            /\ \A c \in Calls : /\ WF_vars(\E outcome \in Outcomes : Complete(c, outcome))
                                /\ WF_vars(AdmitProbe(c))

Spec == Init /\ [][Next]_vars
FairSpec == Spec /\ Fairness

-----------------------------------------------------------------------------
InFlight(kind) == {c \in Calls : pc[c] = kind}

TypeOK == /\ pc \in [Calls -> Idle \cup InRun]
          /\ state \in {CLOSED, OPEN, HALF_OPEN}
          /\ failures \in Nat
          /\ probing \in BOOLEAN
          /\ open_for \in 0 .. ResetTimeout
          /\ streak \in 0 .. FailureThreshold

\* The circuit is closed exactly while fewer than failure_threshold tripping
\* outcomes have been recorded in a row: it never opens on less evidence, never
\* closes on a failure, and a half-open failure cannot reset the count.
ClosedIffShortStreak == (state = CLOSED) <=> (streak < FailureThreshold)

\* _admit's "half-open with no probe" branch is never needed: _probing is set
\* exactly while the circuit is half-open.
ProbingIffHalfOpen == probing <=> state = HALF_OPEN

\* Late failures of calls admitted before the circuit opened still count, but
\* only once each: _consecutive_failures is bounded by the calls in flight.
FailuresBounded ==
    failures + Cardinality(InFlight("call")) <= FailureThreshold - 1 + Cardinality(Calls)

\* An open circuit does not stay open for ever: once reset_timeout has passed
\* without another failure, a probe is admitted or a late outcome closes it.
OpenIsTemporary == state = OPEN ~> state # OPEN

\* The comment in _admit, "A probe is already in flight - keep rejecting until
\* it resolves": it does resolve, so half-open rejects only for a while.
HalfOpenResolves == state = HALF_OPEN ~> state # HALF_OPEN

\* The breaker's state is a function of the outcomes recorded, in whatever order and
\* however late _record got them: closed exactly after a short streak, _probing
\* exactly while half-open, and a counter that late failures cannot drive away.
StateFollowsOutcomes == TypeOK /\ ClosedIffShortStreak /\ ProbingIffHalfOpen /\ FailuresBounded
=============================================================================
