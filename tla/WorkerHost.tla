------------------------------ MODULE WorkerHost ------------------------------
(***************************************************************************)
(* benzene-core, worker.py: N long-lived workers on one event loop, wound  *)
(* down together.  A worker is a task; run() waits for the first to end,   *)
(* gives the others shutdown_timeout to follow, cancels the stragglers and *)
(* re-raises the first failure.  Between two awaits asyncio runs one task, *)
(* so each step below is one task's code from one await to the next; that  *)
(* run() resumes only some time after a worker ended is part of the model. *)
(*                                                                         *)
(* Workers come in three kinds: one that polls the stop signal, a          *)
(* background_worker around a coroutine that has to be cancelled, and one  *)
(* that never looks at the signal.                                         *)
(***************************************************************************)
EXTENDS Naturals, Sequences, FiniteSets

CONSTANTS Names,        \* worker names
          Kind,         \* Kind[n]: "polling", "background" or "deaf"
          HasTimeout    \* shutdown_timeout is not None

ASSUME KindAssumption == Kind \in [Names -> {"polling", "background", "deaf"}]
ASSUME TimeoutAssumption == HasTimeout \in BOOLEAN

VARIABLES order,     \* WorkerHost._workers: the names, as they were added
          stop,      \* StopSignal: the event is set
          task,      \* the state of each worker's task
          inner,     \* background_worker: the state of the coroutine's task
          host,      \* where run() is
          awaited,   \* the tasks the current asyncio.wait of run() waits for
          culprit    \* the worker whose exception run() re-raised

vars == <<order, stop, task, inner, host, awaited, culprit>>

Nobody == "nobody"
Registered == {order[i] : i \in DOMAIN order}
Done == {"returned", "raised", "cancelled"}
Ended == {"ok", "failed", "cancelled"}
Finished == {"refused", "returned", "raised", "cancelled"}

IsDone(n) == task[n] \in Done

Init == /\ order = <<>>
        /\ stop = FALSE
        /\ task = [n \in Names |-> "none"]
        /\ inner = [n \in Names |-> "none"]
        /\ host = "wiring"
        /\ awaited = {}
        /\ culprit = Nobody

-----------------------------------------------------------------------------
(* Wiring and the start of run().                                          *)

\* Fault: add does not look for the name.
AddUnchecked(n) ==
    /\ host = "wiring"
    /\ order' = Append(order, n)
    /\ UNCHANGED <<stop, task, inner, host, awaited, culprit>>

\* add: a name that is taken raises DuplicateWorkerError and adds nothing.
Add(n) ==
    /\ host = "wiring"
    /\ n \notin Registered
    /\ order' = Append(order, n)
    /\ UNCHANGED <<stop, task, inner, host, awaited, culprit>>

\* run with nothing to run raises NoWorkersError.
RunEmpty ==
    /\ host = "wiring"
    /\ order = <<>>
    /\ host' = "refused"
    /\ UNCHANGED <<order, stop, task, inner, awaited, culprit>>

\* run creates every task and waits for the first one to end.
Run ==
    /\ host = "wiring"
    /\ order # <<>>
    /\ task' = [n \in Names |-> IF n \in Registered THEN "running" ELSE "none"]
    /\ inner' = [n \in Names |-> IF n \in Registered /\ Kind[n] = "background"
                                 THEN "running" ELSE "none"]
    /\ host' = "first"
    /\ UNCHANGED <<order, stop, awaited, culprit>>

-----------------------------------------------------------------------------
(* The workers.                                                            *)

\* _supervise: whatever ends the worker, its finally sets the stop signal.
Supervise(n, outcome) ==
    /\ task' = [task EXCEPT ![n] = outcome]
    /\ stop' = TRUE
    /\ UNCHANGED <<order, inner, host, awaited, culprit>>

\* A worker that is not a background_worker returns or fails by itself.
End(n, outcome) ==
    /\ task[n] = "running"
    /\ Kind[n] # "background"
    /\ outcome \in {"returned", "raised"}
    /\ Supervise(n, outcome)

\* A polling worker sees should_continue() turn false.
Notice(n) ==
    /\ task[n] = "running"
    /\ Kind[n] = "polling"
    /\ stop
    /\ Supervise(n, "returned")

\* A cancelled worker unwinds; its clean-up may raise, and it may swallow the
\* cancellation and return.
Unwind(n, outcome) ==
    /\ task[n] = "cancelling"
    /\ Kind[n] # "background"
    /\ outcome \in Done
    /\ Supervise(n, outcome)

\* background_worker: the coroutine ends by itself, or unwinds when cancelled.
InnerEnd(n, outcome) ==
    /\ \/ inner[n] = "running" /\ outcome \in {"ok", "failed"}
       \/ inner[n] = "cancelling" /\ outcome \in Ended
    /\ inner' = [inner EXCEPT ![n] = outcome]
    /\ UNCHANGED <<order, stop, task, host, awaited, culprit>>

\* background_worker: the stop signal won the wait; finally cancels the
\* coroutine and waits for it.
LegStops(n) ==
    /\ task[n] = "running"
    /\ stop
    /\ inner[n] = "running"
    /\ task' = [task EXCEPT ![n] = "stopping"]
    /\ inner' = [inner EXCEPT ![n] = "cancelling"]
    /\ UNCHANGED <<order, stop, host, awaited, culprit>>

\* background_worker: the leg itself was cancelled while it waited; finally does
\* the same, with the CancelledError on its way out.
LegCancelled(n) ==
    /\ task[n] = "cancelling"
    /\ inner[n] = "running"
    /\ task' = [task EXCEPT ![n] = "unwinding"]
    /\ inner' = [inner EXCEPT ![n] = "cancelling"]
    /\ UNCHANGED <<order, stop, host, awaited, culprit>>

\* Fault: finally cancels the coroutine and does not wait for it.
LegEndsEarly(n) ==
    /\ \/ task[n] = "running" /\ inner[n] \in {"ok", "failed"}
       \/ task[n] \in {"stopping", "unwinding"}
    /\ Supervise(n, IF inner[n] = "failed" THEN "raised" ELSE "returned")

\* background_worker ends once the coroutine has: a failure is the leg's own, a
\* cancellation is suppressed unless the leg itself is being cancelled.  A leg
\* cancelled before it resumed from its wait is cancelled whatever the coroutine
\* came to, and one cancelled in that last moment of the wait in its finally loses a
\* failure to the suppressed CancelledError.
LegEnds(n) ==
    /\ inner[n] \in Ended
    /\ \/ /\ task[n] \in {"running", "stopping"}
          /\ Supervise(n, IF inner[n] = "failed" THEN "raised" ELSE "returned")
       \/ /\ task[n] = "unwinding"
          /\ Supervise(n, IF inner[n] = "failed" THEN "raised" ELSE "cancelled")
       \/ /\ task[n] = "cancelling"
          /\ Supervise(n, "cancelled")
       \/ /\ task[n] = "silenced"
          /\ Supervise(n, "returned")

-----------------------------------------------------------------------------
(* run().                                                                  *)

\* task.cancel() on each task of S.  A leg that is already waiting for its
\* cancelled coroutine only passes the cancellation on to it; if the coroutine has
\* ended and the leg not resumed, the leg takes the cancellation itself.
Cancelled(S) ==
    [n \in Names |->
        CASE n \in S /\ task[n] = "running" -> "cancelling"
          [] n \in S /\ task[n] = "stopping" /\ inner[n] \in Ended -> "silenced"
          [] n \in S /\ task[n] = "unwinding" /\ inner[n] \in Ended -> "cancelling"
          [] OTHER -> task[n]]

\* Fault: only the worker registered last is looked at.
ConcludeLast ==
    LET failed == {i \in DOMAIN order : task[order[i]] = "raised"}
    IN  IF Len(order) \in failed
        THEN host' = "raised" /\ culprit' = order[Len(order)]
        ELSE host' = "returned" /\ culprit' = culprit

\* The end of run: the first failure in registration order is re-raised.
Conclude ==
    LET failed == {i \in DOMAIN order : task[order[i]] = "raised"}
    IN  IF failed = {}
        THEN host' = "returned" /\ culprit' = culprit
        ELSE /\ host' = "raised"
             /\ culprit' = order[CHOOSE i \in failed : \A j \in failed : i <= j]

\* _gather_then_wind_down resumes from its first wait.
FirstDone ==
    /\ host = "first"
    /\ \E n \in Registered : IsDone(n)
    /\ awaited' = {n \in Registered : ~IsDone(n)}
    /\ IF awaited' = {} THEN Conclude
                        ELSE host' = "grace" /\ culprit' = culprit
    /\ UNCHANGED <<order, stop, task, inner>>

\* Fault: stragglers are waited for without being cancelled.
TimeoutForgetsCancel ==
    /\ host = "grace"
    /\ HasTimeout
    /\ awaited' = {n \in awaited : ~IsDone(n)}
    /\ awaited' # {}
    /\ host' = "reaping"
    /\ UNCHANGED <<order, stop, task, inner, culprit>>

\* shutdown_timeout passes: the stragglers are cancelled and waited for.
Timeout ==
    /\ host = "grace"
    /\ HasTimeout
    /\ awaited' = {n \in awaited : ~IsDone(n)}
    /\ awaited' # {}
    /\ task' = Cancelled(awaited')
    /\ host' = "reaping"
    /\ UNCHANGED <<order, stop, inner, culprit>>

\* The second or the third wait is over: everybody is down.
AllDown ==
    /\ host \in {"grace", "reaping"}
    /\ \A n \in awaited : IsDone(n)
    /\ Conclude
    /\ UNCHANGED <<order, stop, task, inner, awaited>>

\* run()'s own task is cancelled: stop everybody, cancel every task, and wait.
Abort ==
    /\ host \in {"first", "grace", "reaping"}
    /\ stop' = TRUE
    /\ task' = Cancelled(Registered)
    /\ host' = "aborting"
    /\ UNCHANGED <<order, inner, awaited, culprit>>

AbortDone ==
    /\ host = "aborting"
    /\ \A n \in Registered : IsDone(n)
    /\ host' = "cancelled"
    /\ UNCHANGED <<order, stop, task, inner, awaited, culprit>>

\* Somebody outside sets host.stop.
ExternalStop ==
    /\ host = "first"
    /\ ~stop
    /\ stop' = TRUE
    /\ UNCHANGED <<order, task, inner, host, awaited, culprit>>

-----------------------------------------------------------------------------
HostStep == FirstDone \/ Timeout \/ AllDown \/ AbortDone

WorkerStep(n) == \/ Notice(n) \/ LegStops(n) \/ LegCancelled(n) \/ LegEnds(n)
                 \/ \E outcome \in Done : Unwind(n, outcome)
                 \/ \E outcome \in Ended : inner[n] = "cancelling" /\ InnerEnd(n, outcome)

Next == \/ RunEmpty \/ Run \/ Abort \/ ExternalStop
        \/ FirstDone \/ Timeout \/ AllDown \/ AbortDone
        \/ \E n \in Names : \/ Add(n) \/ Notice(n) \/ LegStops(n) \/ LegCancelled(n)
                            \/ LegEnds(n)
                            \/ \E outcome \in Done : End(n, outcome) \/ Unwind(n, outcome)
                            \/ \E outcome \in Ended : InnerEnd(n, outcome)

\* The event loop resumes every task that can go on, time passes, a polling
\* worker reaches its next look at the signal, and a cancelled task ends.
Fairness == WF_vars(HostStep) /\ \A n \in Names : WF_vars(WorkerStep(n))

Spec == Init /\ [][Next]_vars
FairSpec == Spec /\ Fairness

-----------------------------------------------------------------------------
TypeOK == /\ Registered \subseteq Names
          /\ Cardinality(Registered) = Len(order)
          /\ stop \in BOOLEAN
          /\ task \in [Names -> Done \cup {"none", "running", "stopping", "silenced", "cancelling", "unwinding"}]
          /\ inner \in [Names -> Ended \cup {"none", "running", "cancelling"}]
          /\ host \in Finished \cup {"wiring", "first", "grace", "reaping", "aborting"}
          /\ awaited \subseteq Registered
          /\ culprit \in Names \cup {Nobody}

\* When run() is over, by any exit, every worker has actually finished, and so
\* has the coroutine behind every background worker: nothing is abandoned.
NothingLeftRunning ==
    host \in Finished => \A n \in Registered : /\ IsDone(n)
                                               /\ inner[n] \in Ended \cup {"none"}

\* A crash is never hidden by the wind-down: run() returns normally only when no
\* worker raised, and otherwise raises what the earliest registered one raised.
CrashSurfaces ==
    /\ host = "returned" => \A n \in Registered : task[n] # "raised"
    /\ host = "raised" =>
          \E i \in DOMAIN order : /\ order[i] = culprit
                                  /\ task[culprit] = "raised"
                                  /\ \A j \in 1 .. i - 1 : task[order[j]] # "raised"

\* Whoever ends first takes the others down: once a worker has ended, run() ends,
\* even if another one never looks at the stop signal.
WindsDown == (\E n \in Registered : IsDone(n)) ~> host \in Finished

\* However run() ends, it ends for all: nothing is left running behind it, and what
\* it raises or returns is what the workers came to.
EndsCleanly == TypeOK /\ NothingLeftRunning /\ CrashSurfaces
=============================================================================
