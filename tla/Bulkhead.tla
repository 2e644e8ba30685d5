------------------------------- MODULE Bulkhead -------------------------------
(***************************************************************************)
(* benzene-resilience, bulkhead.py: a concurrency limiter with a bounded   *)
(* wait queue, shared by every invocation of a pipeline or every send of a *)
(* client.  Each member of Calls is a task that calls Bulkhead.execute,    *)
(* and may call it again once it has returned.                             *)
(*                                                                         *)
(* asyncio runs one task at a time, so a step is the code between two      *)
(* awaits: up to the semaphore, from the grant of a slot to run(), and     *)
(* from run() to the return.  asyncio.Semaphore is external; it is         *)
(* modelled down to its waiter queue because the limit rests on how a slot *)
(* passes from a finished call to a waiter that may be cancelled meanwhile.*)
(***************************************************************************)
EXTENDS Naturals, FiniteSets, SequencesExt

CONSTANTS Calls,            \* the tasks that share the bulkhead
          MaxConcurrency,   \* max(1, max_concurrency)
          MaxQueue          \* max(0, max_queue)

ASSUME CallsAssumption == IsFiniteSet(Calls)
ASSUME MaxConcurrencyAssumption == MaxConcurrency \in Nat \ {0}
ASSUME MaxQueueAssumption == MaxQueue \in Nat

VARIABLES pc,          \* where each call is
          cancelled,   \* task.cancel() was called on a call waiting for a slot
          in_flight,   \* Bulkhead._in_flight
          value,       \* Semaphore._value
          waiters      \* Semaphore._waiters: one future per waiting call

vars == <<pc, cancelled, in_flight, value, waiters>>

-----------------------------------------------------------------------------
Idle     == {"new", "shed", "finished"}   \* outside execute
Admitted == {"queued", "granted", "running"}

At(p, states) == {c \in Calls : p[c] \in states}
Count(p, states) == Cardinality(At(p, states))

\* A queued call whose future is neither granted nor cancelled.
Live(c) == pc[c] = "queued" /\ ~cancelled[c]

Capacity == MaxConcurrency + MaxQueue

\* Semaphore.locked: no value left, or somebody whose future is not cancelled
\* is ahead in the queue (a granted call stays there until its task resumes).
Locked == \/ value = 0
          \/ \E i \in DOMAIN waiters :
                LET c == waiters[i] IN pc[c] = "granted" \/ Live(c)

\* deque.remove, for a queue that holds each call at most once.
Without(ws, c) == IF \E i \in DOMAIN ws : ws[i] = c
                  THEN RemoveAt(ws, CHOOSE i \in DOMAIN ws : ws[i] = c)
                  ELSE ws

\* The places of the queue _wake_up_next may give the slot to.
Candidates(ws) == {i \in DOMAIN ws : Live(ws[i])}

\* Fault: the newest waiter is woken first.
IsLast(i, S) == i \in S /\ \A j \in S : j <= i

IsFirst(i, S) == i \in S /\ \A j \in S : i <= j

\* Semaphore._wake_up_next over the queue ws with v slots free: the first
\* waiter whose future is not done gets one.  p is pc as the caller left it.
WakeUpNext(ws, p, v) ==
    \/ /\ Candidates(ws) = {}
       /\ pc' = p /\ value' = v
    \/ \E i \in Candidates(ws) :
          /\ IsFirst(i, Candidates(ws))
          /\ pc' = [p EXCEPT ![ws[i]] = "granted"]
          /\ value' = v - 1

-----------------------------------------------------------------------------
Init == /\ pc = [c \in Calls |-> "new"]
        /\ cancelled = [c \in Calls |-> FALSE]
        /\ in_flight = 0
        /\ value = MaxConcurrency
        /\ waiters = <<>>

\* execute: the bulkhead is full and the call gets too-many-requests.
Shed(c) ==
    /\ pc[c] \in Idle
    /\ in_flight >= Capacity
    /\ pc' = [pc EXCEPT ![c] = "shed"]
    /\ UNCHANGED <<cancelled, in_flight, value, waiters>>

\* execute: admitted, and the semaphore has a slot: run() starts at once.
Enter(c) ==
    /\ pc[c] \in Idle
    /\ in_flight < Capacity
    /\ ~Locked
    /\ in_flight' = in_flight + 1
    /\ value' = value - 1
    /\ pc' = [pc EXCEPT ![c] = "running"]
    /\ UNCHANGED <<cancelled, waiters>>

\* execute: admitted, and the call waits for a slot.
Enqueue(c) ==
    /\ pc[c] \in Idle
    /\ in_flight < Capacity
    /\ Locked
    /\ in_flight' = in_flight + 1
    /\ waiters' = Append(waiters, c)
    /\ pc' = [pc EXCEPT ![c] = "queued"]
    /\ UNCHANGED <<cancelled, value>>

\* A granted waiter's task resumes in Semaphore.acquire, passes a slot that
\* is still free to the next waiter, and starts run().
Resume(c) ==
    /\ pc[c] = "granted"
    /\ ~cancelled[c]
    /\ waiters' = Without(waiters, c)
    /\ LET p == [pc EXCEPT ![c] = "running"]
       IN  IF value > 0 THEN WakeUpNext(waiters', p, value)
                        ELSE pc' = p /\ value' = value
    /\ UNCHANGED <<cancelled, in_flight>>

\* Somebody cancels a task that waits for its slot, granted or not.
Cancel(c) ==
    /\ pc[c] \in {"queued", "granted"}
    /\ ~cancelled[c]
    /\ cancelled' = [cancelled EXCEPT ![c] = TRUE]
    /\ UNCHANGED <<pc, in_flight, value, waiters>>

\* Fault: a slot granted to a waiter that is then cancelled is not given back.
UnwindLeaksSlot(c) ==
    /\ cancelled[c]
    /\ cancelled' = [cancelled EXCEPT ![c] = FALSE]
    /\ waiters' = Without(waiters, c)
    /\ in_flight' = in_flight - 1
    /\ pc' = [pc EXCEPT ![c] = "finished"]
    /\ value' = value

\* Fault: the slot is given back without waking the next waiter.
UnwindWakesNobody(c) ==
    /\ cancelled[c]
    /\ cancelled' = [cancelled EXCEPT ![c] = FALSE]
    /\ waiters' = Without(waiters, c)
    /\ in_flight' = in_flight - 1
    /\ pc' = [pc EXCEPT ![c] = "finished"]
    /\ value' = IF pc[c] = "granted" THEN value + 1 ELSE value

\* Fault: a cancelled waiter releases a slot it never held.
UnwindAlwaysReleases(c) ==
    /\ cancelled[c]
    /\ cancelled' = [cancelled EXCEPT ![c] = FALSE]
    /\ waiters' = Without(waiters, c)
    /\ in_flight' = in_flight - 1
    /\ WakeUpNext(waiters', [pc EXCEPT ![c] = "finished"], value + 1)

\* Fault: in_flight is decremented after the semaphore block instead of in
\* finally, so a cancelled waiter keeps its place.
UnwindLeaksPlace(c) ==
    /\ cancelled[c]
    /\ cancelled' = [cancelled EXCEPT ![c] = FALSE]
    /\ waiters' = Without(waiters, c)
    /\ LET p == [pc EXCEPT ![c] = "finished"]
       IN  IF pc[c] = "granted" THEN WakeUpNext(waiters', p, value + 1)
                                ELSE pc' = p /\ value' = value
    /\ UNCHANGED in_flight

\* A cancelled waiter's task unwinds through acquire and execute's finally.
\* A slot it was granted meanwhile goes to the next waiter.
Unwind(c) ==
    /\ cancelled[c]
    /\ cancelled' = [cancelled EXCEPT ![c] = FALSE]
    /\ waiters' = Without(waiters, c)
    /\ in_flight' = in_flight - 1
    /\ LET p == [pc EXCEPT ![c] = "finished"]
       IN  IF pc[c] = "granted" THEN WakeUpNext(waiters', p, value + 1)
                                ELSE pc' = p /\ value' = value

\* run() returned, raised or was cancelled: the semaphore is released on the
\* way out, then in_flight goes down.
Finish(c) ==
    /\ pc[c] = "running"
    /\ in_flight' = in_flight - 1
    /\ WakeUpNext(waiters, [pc EXCEPT ![c] = "finished"], value + 1)
    /\ UNCHANGED <<cancelled, waiters>>

\* Each message through bulkhead_interception, and each send_message of a
\* BulkheadMessageSender, is one execute of the shared bulkhead.
Next == \E c \in Calls : \/ Shed(c) \/ Enter(c) \/ Enqueue(c) \/ Resume(c)
                         \/ Cancel(c) \/ Unwind(c) \/ Finish(c)

\* The event loop runs every ready task, and the guarded work ends.
Fairness == \A c \in Calls : WF_vars(Resume(c)) /\ WF_vars(Unwind(c))
                             /\ WF_vars(Finish(c))

Spec == Init /\ [][Next]_vars
FairSpec == Spec /\ Fairness

-----------------------------------------------------------------------------
\* Types of the state of Bulkhead and of the semaphore.
TypeOK == /\ pc \in [Calls -> Idle \cup Admitted]
          /\ cancelled \in [Calls -> BOOLEAN]
          /\ in_flight \in Nat
          /\ value \in 0 .. MaxConcurrency
          /\ waiters \in Seq(Calls)

\* execute: at most max_concurrency calls run at once, whatever slots are
\* handed over or given back by cancelled waiters.
ConcurrencyLimit == Count(pc, {"running"}) <= MaxConcurrency

\* in_flight counts exactly the calls inside execute, so a cancelled waiter
\* never leaks a place of the queue and the shed decision stays right.
InFlightExact == /\ in_flight = Count(pc, Admitted)
                 /\ in_flight <= Capacity

\* No slot is lost or duplicated: each is free, held by a running call, or on
\* its way to a granted waiter, cancelled or not.
SlotsConserved ==
    value + Count(pc, {"granted", "running"}) = MaxConcurrency

\* A free slot is never left beside a waiter nobody is going to wake: the
\* granted call that still has to resume passes the slot on.
NoLostWakeup ==
    value > 0 /\ (\E c \in Calls : Live(c)) => At(pc, {"granted"}) # {}

\* Slots are granted in the order of arrival: no call starts while a waiter
\* that arrived earlier is left without a grant.
FifoGrant ==
    [][\A i, j \in DOMAIN waiters :
          i < j /\ Live(waiters[i]) /\ Live(waiters[j])
                /\ pc'[waiters[j]] \in {"granted", "running"}
             => pc'[waiters[i]] = "granted"]_vars

\* A call that waits for a slot gets out of the queue: it runs, or it was
\* cancelled and returns.
WaitersServed ==
    \A c \in Calls : pc[c] = "queued" ~> pc[c] \in {"running", "finished"}

\* execute's limit and its books are exact at every moment: no more calls run than
\* may, in_flight is the number of calls inside, and no slot is lost or invented,
\* cancelled waiters included.
SlotsAccounted == TypeOK /\ ConcurrencyLimit /\ InFlightExact /\ SlotsConserved

\* The semaphore's slots reach the waiters of execute in the order they came, and
\* none stays free beside a waiter that nobody is going to wake.
WakesInOrder == []NoLostWakeup /\ FifoGrant
=============================================================================
