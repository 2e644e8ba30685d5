------------------------------ MODULE HostProofs ------------------------------
(***************************************************************************)
(* The hosts. For any workers of any kinds, with and without a shutdown    *)
(* timeout: however run() ends, nothing is left running behind it and no   *)
(* crash is hidden. For any instances, messages, batches and event         *)
(* sources, through any failures and crashes: a function host without      *)
(* at_most_once implements AtLeastOnce, and its answer makes the platform  *)
(* run again no more than it has to. For any instances, keys and bounds of *)
(* the trace inbox, whatever call fails: no event is counted twice that a  *)
(* delete did not leave behind, and what a refused delete named stays. For *)
(* any fleet that is only polled, whatever is redeployed, down, raising or *)
(* answering with errors meanwhile: no drift is shown, no change of a      *)
(* schema is published unmarked, and no topic is gone whose service        *)
(* answered with its document. For any feeds of the collector, in any      *)
(* order, through crashes and failing saves: what was answered ok          *)
(* survives, and what is shown is counted and sorted truly.                *)
(***************************************************************************)
EXTENDS WorkerHost, BatchHost, MeshInbox, MeshPoller, MeshHost,
        FiniteSetTheorems, SequenceTheorems, WellFoundedInduction, TLAPS

(***************************************************************************)
(* WorkerHost.                                                             *)
(***************************************************************************)
Quiet == Ended \cup {"none"}
TaskStates == Done \cup {"none", "running", "stopping", "silenced", "cancelling", "unwinding"}
InnerStates == Ended \cup {"none", "running", "cancelling"}

\* Before run() there is no task, and run() refuses only an empty host.
NotStarted ==
    /\ host \in {"wiring", "refused"} => \A n \in Names : task[n] = "none" /\ inner[n] = "none"
    /\ host = "refused" => order = <<>>

\* Only a background worker has a coroutine, and the worker outlives it.
LegOutlivesInner ==
    \A n \in Names : /\ Kind[n] # "background" => inner[n] = "none"
                     /\ IsDone(n) => inner[n] \in Quiet

\* During the wind-down, whoever is not waited for is down.
AwaitsTheRest == host \in {"grace", "reaping"} => \A n \in Registered \ awaited : IsDone(n)

HostInv == /\ TypeOK /\ order \in Seq(Names) /\ IsFiniteSet(Registered)
           /\ NotStarted /\ LegOutlivesInner /\ AwaitsTheRest
           /\ NothingLeftRunning /\ CrashSurfaces

-----------------------------------------------------------------------------
\* A set of numbers that is not empty has a least one.
LEMMA LeastExists ==
    ASSUME NEW S \in SUBSET Nat, S # {}
    PROVE  \E x \in S : \A y \in S : x <= y
<1>1. PICK x \in S : \A y \in S : ~(<<y, x>> \in OpToRel(<, Nat))
  BY WFMin, NatLessThanWellFounded
<1>2. \A y \in S : x <= y
  <2> SUFFICES ASSUME NEW y \in S PROVE x <= y
    OBVIOUS
  <2>1. ~(y < x)
    BY <1>1 DEF OpToRel
  <2> QED
    BY <2>1
<1> QED
  BY <1>2

\* An empty host satisfies the invariant.
LEMMA WorkersInit == Init => HostInv
<1> SUFFICES ASSUME Init PROVE HostInv
  OBVIOUS
<1>1. order = <<>> /\ Registered = {}
  BY DEF Init, Registered
<1>2. IsFiniteSet(Registered) /\ Cardinality(Registered) = Len(order)
  BY <1>1, FS_EmptySet
<1>3. order \in Seq(Names)
  BY <1>1
<1>4. TypeOK
  BY <1>1, <1>2 DEF Init, TypeOK, Done, Ended, Finished, Nobody
<1> QED
  BY <1>1, <1>2, <1>3, <1>4
  DEF Init, HostInv, NotStarted, LegOutlivesInner, AwaitsTheRest, NothingLeftRunning,
      CrashSurfaces, IsDone, Done, Finished

\* add registers a name that was free.
LEMMA AddHolds == ASSUME HostInv, NEW n \in Names, Add(n) PROVE HostInv'
<1>1. /\ host = "wiring" /\ n \notin Registered /\ order' = Append(order, n)
      /\ UNCHANGED <<stop, task, inner, host, awaited, culprit>>
  BY DEF Add
<1>2. order' \in Seq(Names) /\ Len(order') = Len(order) + 1
  BY <1>1, AppendProperties DEF HostInv
<1>3. Registered' = Registered \cup {n}
  BY <1>1, AppendProperties DEF HostInv, Registered
<1>4. IsFiniteSet(Registered') /\ Cardinality(Registered') = Cardinality(Registered) + 1
  BY <1>1, <1>3, FS_AddElement DEF HostInv
<1>5. TypeOK'
  BY <1>1, <1>2, <1>3, <1>4 DEF HostInv, TypeOK
<1> QED
  BY <1>1, <1>2, <1>4, <1>5
  DEF HostInv, NotStarted, LegOutlivesInner, AwaitsTheRest, NothingLeftRunning, CrashSurfaces,
      IsDone, Finished

\* run starts every task, and refuses an empty host.
LEMMA RunHolds == ASSUME HostInv, Run \/ RunEmpty PROVE HostInv'
<1>1. Registered' = Registered /\ order' = order
  BY DEF Run, RunEmpty, Registered
<1>2. CASE Run
  BY <1>1, <1>2
  DEF Run, HostInv, TypeOK, NotStarted, LegOutlivesInner, AwaitsTheRest, NothingLeftRunning,
      CrashSurfaces, IsDone, Done, Ended, Quiet, Finished
<1>3. CASE RunEmpty
  <2>1. Registered = {}
    BY <1>3 DEF RunEmpty, Registered
  <2> QED
    BY <1>1, <1>3, <2>1
    DEF RunEmpty, HostInv, TypeOK, NotStarted, LegOutlivesInner, AwaitsTheRest,
        NothingLeftRunning, CrashSurfaces, IsDone, Done, Ended, Quiet, Finished
<1> QED
  BY <1>2, <1>3

\* A step of one worker: it touches no task that is down and no coroutine of one.
LEMMA WorkerHolds ==
    ASSUME HostInv,
           UNCHANGED <<order, host, awaited, culprit>>,
           stop' \in BOOLEAN, task' \in [Names -> TaskStates], inner' \in [Names -> InnerStates],
           host \notin {"wiring", "refused"},
           \A m \in Names : IsDone(m) => task'[m] = task[m] /\ inner'[m] = inner[m],
           LegOutlivesInner'
    PROVE  HostInv'
<1>1. Registered' = Registered
  BY DEF Registered
<1>2. Registered \subseteq Names
  BY DEF HostInv, TypeOK
<1>3. \A i \in DOMAIN order : order[i] \in Registered
  BY DEF Registered
<1>4. TypeOK'
  BY <1>1 DEF HostInv, TypeOK, TaskStates, InnerStates
<1>5. AwaitsTheRest' /\ NothingLeftRunning'
  BY <1>1, <1>2 DEF HostInv, AwaitsTheRest, NothingLeftRunning, IsDone
<1>6. CrashSurfaces'
  <2>1. host \in Finished => \A n \in Registered : task'[n] = task[n]
    BY <1>2 DEF HostInv, NothingLeftRunning
  <2>2. host = "returned" => \A n \in Registered : task'[n] # "raised"
    BY <2>1 DEF HostInv, CrashSurfaces, Finished
  <2>3. ASSUME host = "raised"
        PROVE  \E i \in DOMAIN order : /\ order[i] = culprit
                                       /\ task'[culprit] = "raised"
                                       /\ \A j \in 1 .. i - 1 : task'[order[j]] # "raised"
    <3>1. PICK i \in DOMAIN order : /\ order[i] = culprit
                                    /\ task[culprit] = "raised"
                                    /\ \A j \in 1 .. i - 1 : task[order[j]] # "raised"
      BY <2>3 DEF HostInv, CrashSurfaces
    <3>2. \A j \in 1 .. i - 1 : j \in DOMAIN order
      BY <3>1 DEF HostInv
    <3> QED
      BY <1>3, <2>1, <2>3, <3>1, <3>2 DEF Finished
  <2> QED
    BY <1>1, <2>2, <2>3 DEF CrashSurfaces
<1> QED
  BY <1>1, <1>4, <1>5, <1>6 DEF HostInv, NotStarted

\* What a worker's task or its coroutine does by itself.
LEMMA StepHolds ==
    ASSUME HostInv, NEW n \in Names,
           \/ Notice(n) \/ LegStops(n) \/ LegCancelled(n) \/ LegEnds(n)
           \/ \E outcome \in Done : End(n, outcome) \/ Unwind(n, outcome)
           \/ \E outcome \in Ended : InnerEnd(n, outcome)
    PROVE  HostInv'
<1> USE DEF Done, Ended, Quiet, TaskStates, InnerStates, IsDone
<1>0. /\ task \in [Names -> TaskStates] /\ inner \in [Names -> InnerStates] /\ stop \in BOOLEAN
      /\ Kind[n] # "background" => inner[n] = "none"
      /\ IsDone(n) => inner[n] \in Quiet
      /\ LegOutlivesInner
      /\ host \in {"wiring", "refused"} => task[n] = "none" /\ inner[n] = "none"
  BY DEF HostInv, TypeOK, LegOutlivesInner, NotStarted
<1>1. ASSUME NEW outcome \in Done, Supervise(n, outcome), ~IsDone(n), task[n] # "none",
             inner[n] \in Quiet
      PROVE  HostInv'
  <2>1. /\ task' = [task EXCEPT ![n] = outcome] /\ stop' = TRUE
        /\ UNCHANGED <<order, inner, host, awaited, culprit>>
    BY <1>1 DEF Supervise
  <2>2. LegOutlivesInner'
    BY <1>0, <1>1, <2>1 DEF LegOutlivesInner
  <2>3. \A m \in Names : IsDone(m) => task'[m] = task[m] /\ inner'[m] = inner[m]
    BY <1>0, <1>1, <2>1
  <2>4. task' \in [Names -> TaskStates] /\ inner' \in [Names -> InnerStates] /\ stop' \in BOOLEAN
    BY <1>0, <2>1
  <2>5. host \notin {"wiring", "refused"}
    BY <1>0, <1>1
  <2> QED
    BY <2>1, <2>2, <2>3, <2>4, <2>5, WorkerHolds
<1>2. CASE \/ Notice(n)
           \/ \E outcome \in Done : End(n, outcome) \/ Unwind(n, outcome)
  <2>1. PICK outcome \in Done : Supervise(n, outcome)
    BY <1>2 DEF Notice, End, Unwind
  <2>2. ~IsDone(n) /\ task[n] # "none" /\ Kind[n] # "background"
    BY <1>2 DEF Notice, End, Unwind
  <2> QED
    BY <1>0, <1>1, <2>1, <2>2
<1>3. CASE LegEnds(n)
  <2>1. PICK outcome \in Done : Supervise(n, outcome)
    BY <1>3 DEF LegEnds
  <2>2. ~IsDone(n) /\ task[n] # "none" /\ inner[n] \in Ended
    BY <1>3 DEF LegEnds
  <2> QED
    BY <1>1, <2>1, <2>2
<1>4. CASE LegStops(n) \/ LegCancelled(n)
  <2>1. PICK t \in {"stopping", "unwinding"} :
            /\ task' = [task EXCEPT ![n] = t] /\ inner' = [inner EXCEPT ![n] = "cancelling"]
            /\ inner[n] = "running" /\ ~IsDone(n)
            /\ UNCHANGED <<order, stop, host, awaited, culprit>>
    BY <1>4 DEF LegStops, LegCancelled
  <2>2. LegOutlivesInner'
    BY <1>0, <2>1 DEF LegOutlivesInner
  <2>3. \A m \in Names : IsDone(m) => task'[m] = task[m] /\ inner'[m] = inner[m]
    BY <1>0, <2>1
  <2>4. task' \in [Names -> TaskStates] /\ inner' \in [Names -> InnerStates] /\ stop' \in BOOLEAN
    BY <1>0, <2>1
  <2>5. host \notin {"wiring", "refused"}
    BY <1>0, <2>1
  <2> QED
    BY <2>1, <2>2, <2>3, <2>4, <2>5, WorkerHolds
<1>5. CASE \E outcome \in Ended : InnerEnd(n, outcome)
  <2>1. PICK outcome \in Ended :
            /\ inner[n] \in {"running", "cancelling"} /\ inner' = [inner EXCEPT ![n] = outcome]
            /\ UNCHANGED <<order, stop, task, host, awaited, culprit>>
    BY <1>5 DEF InnerEnd
  <2>2. LegOutlivesInner'
    BY <1>0, <2>1 DEF LegOutlivesInner
  <2>3. \A m \in Names : IsDone(m) => task'[m] = task[m] /\ inner'[m] = inner[m]
    BY <1>0, <2>1
  <2>4. task' \in [Names -> TaskStates] /\ inner' \in [Names -> InnerStates] /\ stop' \in BOOLEAN
    BY <1>0, <2>1
  <2>5. host \notin {"wiring", "refused"}
    BY <1>0, <2>1
  <2> QED
    BY <2>1, <2>2, <2>3, <2>4, <2>5, WorkerHolds
<1> QED
  BY <1>2, <1>3, <1>4, <1>5

\* The end of run(): with everybody down, what it raises is the earliest failure.
LEMMA ConcludeHolds ==
    ASSUME HostInv, Conclude, UNCHANGED <<order, stop, task, inner>>,
           \A n \in Registered : IsDone(n), awaited' \subseteq Registered,
           host \notin {"wiring", "refused"}
    PROVE  HostInv'
<1> DEFINE fallen == {i \in DOMAIN order : task[order[i]] = "raised"}
           first == CHOOSE i \in fallen : \A j \in fallen : i <= j
<1>1. Registered' = Registered /\ Registered \subseteq Names
  BY DEF Registered, HostInv, TypeOK
<1>2. \A i \in DOMAIN order : order[i] \in Registered
  BY DEF Registered
<1>3. DOMAIN order = 1 .. Len(order) /\ Len(order) \in Nat
  BY DEF HostInv
<1>4. CASE fallen = {}
  <2>1. host' = "returned" /\ culprit' = culprit
    BY <1>4 DEF Conclude
  <2>2. \A n \in Registered : task[n] # "raised"
    BY <1>4 DEF Registered
  <2> QED
    BY <1>1, <2>1, <2>2
    DEF HostInv, TypeOK, NotStarted, LegOutlivesInner, AwaitsTheRest, NothingLeftRunning,
        CrashSurfaces, IsDone, Quiet, Finished
<1>5. CASE fallen # {}
  <2>1. host' = "raised" /\ culprit' = order[first]
    BY <1>5 DEF Conclude
  <2>2. fallen \in SUBSET Nat
    BY <1>3
  <2>3. first \in fallen /\ \A j \in fallen : first <= j
    <3> HIDE DEF fallen
    <3> QED
      BY <1>5, <2>2, LeastExists
  <2>4. /\ first \in DOMAIN order /\ task[order[first]] = "raised"
        /\ \A j \in 1 .. first - 1 : task[order[j]] # "raised"
    <3>1. first \in DOMAIN order /\ task[order[first]] = "raised"
      BY <2>3
    <3>2. ASSUME NEW j \in 1 .. first - 1 PROVE j \notin fallen /\ j \in DOMAIN order
      <4> HIDE DEF first
      <4>1. first \in 1 .. Len(order)
        BY <3>1, <1>3
      <4> HIDE DEF fallen
      <4> QED
        BY <1>3, <2>3, <4>1
    <3> QED
      BY <3>1, <3>2
  <2> HIDE DEF first, fallen
  <2>5. culprit' \in Names
    BY <1>1, <1>2, <2>1, <2>4
  <2>6. CrashSurfaces'
    BY <2>1, <2>4 DEF CrashSurfaces
  <2> QED
    BY <1>1, <2>1, <2>5, <2>6
    DEF HostInv, TypeOK, NotStarted, LegOutlivesInner, AwaitsTheRest, NothingLeftRunning,
        IsDone, Quiet, Finished
<1> QED
  BY <1>4, <1>5

\* task.cancel() moves no task that is down, and puts none down.
LEMMA CancelKeeps ==
    ASSUME TypeOK, NEW S \in SUBSET Names, task' = Cancelled(S)
    PROVE  /\ task' \in [Names -> TaskStates]
           /\ \A n \in Names : IsDone(n) <=> IsDone(n)'
           /\ \A n \in Names : IsDone(n) => task'[n] = task[n]
BY DEF TypeOK, Cancelled, IsDone, Done, TaskStates

\* run() itself: the three waits, the cancellations and the ends.
LEMMA HostHolds ==
    ASSUME HostInv, HostStep \/ Abort \/ ExternalStop
    PROVE  HostInv'
<1>0. Registered \subseteq Names /\ TypeOK /\ LegOutlivesInner
  BY DEF HostInv, TypeOK
<1>1. CASE FirstDone
  <2>0. /\ host = "first" /\ awaited' = {n \in Registered : ~IsDone(n)}
        /\ UNCHANGED <<order, stop, task, inner>>
    BY <1>1 DEF FirstDone
  <2>1. CASE awaited' = {}
    <3>1. Conclude
      BY <1>1, <2>1 DEF FirstDone
    <3>2. \A n \in Registered : IsDone(n)
      BY <2>0, <2>1
    <3> QED
      BY <2>0, <2>1, <3>1, <3>2, ConcludeHolds
  <2>2. CASE awaited' # {}
    <3>1. host' = "grace" /\ culprit' = culprit
      BY <1>1, <2>2 DEF FirstDone
    <3>2. Registered' = Registered
      BY <2>0 DEF Registered
    <3> QED
      BY <2>0, <3>1, <3>2
      DEF HostInv, TypeOK, NotStarted, LegOutlivesInner, AwaitsTheRest, NothingLeftRunning,
          CrashSurfaces, IsDone, Finished
  <2> QED
    BY <2>1, <2>2
<1>2. CASE Timeout
  <2>0. /\ host = "grace" /\ awaited' = {n \in awaited : ~IsDone(n)} /\ host' = "reaping"
        /\ task' = Cancelled(awaited') /\ UNCHANGED <<order, stop, inner, culprit>>
    BY <1>2 DEF Timeout
  <2>1. awaited' \in SUBSET Names
    BY <1>0, <2>0 DEF TypeOK
  <2>2. /\ task' \in [Names -> TaskStates]
        /\ \A n \in Names : IsDone(n) <=> IsDone(n)'
    BY <1>0, <2>0, <2>1, CancelKeeps
  <2>3. Registered' = Registered
    BY <2>0 DEF Registered
  <2>4. TypeOK'
    BY <1>0, <2>0, <2>2, <2>3 DEF TypeOK, TaskStates, Finished
  <2>5. LegOutlivesInner' /\ AwaitsTheRest'
    BY <1>0, <2>0, <2>2, <2>3 DEF HostInv, LegOutlivesInner, AwaitsTheRest
  <2> QED
    BY <2>0, <2>3, <2>4, <2>5 DEF HostInv, NotStarted, NothingLeftRunning, CrashSurfaces, Finished
<1>3. CASE AllDown
  <2>1. \A n \in Registered : IsDone(n)
    BY <1>3 DEF AllDown, HostInv, AwaitsTheRest
  <2>2. awaited' \subseteq Registered /\ host \notin {"wiring", "refused"}
    BY <1>3 DEF AllDown, HostInv, TypeOK
  <2> QED
    BY <1>3, <2>1, <2>2, ConcludeHolds DEF AllDown
<1>4. CASE Abort
  <2>0. /\ host' = "aborting" /\ task' = Cancelled(Registered) /\ stop' = TRUE
        /\ UNCHANGED <<order, inner, awaited, culprit>>
    BY <1>4 DEF Abort
  <2>2. /\ task' \in [Names -> TaskStates]
        /\ \A n \in Names : IsDone(n) <=> IsDone(n)'
    BY <1>0, <2>0, CancelKeeps
  <2>3. Registered' = Registered
    BY <2>0 DEF Registered
  <2>4. TypeOK'
    BY <1>0, <2>0, <2>2, <2>3 DEF TypeOK, TaskStates, Finished
  <2>5. LegOutlivesInner' /\ AwaitsTheRest'
    BY <1>0, <2>0, <2>2, <2>3 DEF LegOutlivesInner, AwaitsTheRest
  <2> QED
    BY <2>0, <2>3, <2>4, <2>5 DEF HostInv, NotStarted, NothingLeftRunning, CrashSurfaces, Finished
<1>5. CASE AbortDone
  <2>1. Registered' = Registered
    BY <1>5 DEF AbortDone, Registered
  <2> QED
    BY <1>0, <1>5, <2>1
    DEF AbortDone, HostInv, TypeOK, NotStarted, LegOutlivesInner, AwaitsTheRest,
        NothingLeftRunning, CrashSurfaces, IsDone, Quiet, Finished
<1>6. CASE ExternalStop
  <2>1. Registered' = Registered
    BY <1>6 DEF ExternalStop, Registered
  <2> QED
    BY <1>6, <2>1
    DEF ExternalStop, HostInv, TypeOK, NotStarted, LegOutlivesInner, AwaitsTheRest,
        NothingLeftRunning, CrashSurfaces, IsDone, Finished
<1> QED
  BY <1>1, <1>2, <1>3, <1>4, <1>5, <1>6 DEF HostStep

\* However run() comes to its end (the first worker down, the timeout, a
\* cancellation of run() itself), every worker and every coroutine behind one has
\* ended, run() returns only if nobody raised, and raises the earliest registered
\* failure otherwise.
THEOREM HostEndsCleanly == Spec => []EndsCleanly
<1>1. HostInv /\ [Next]_vars => HostInv'
  <2> SUFFICES ASSUME HostInv, [Next]_vars PROVE HostInv'
    OBVIOUS
  <2>1. CASE UNCHANGED vars
    <3>1. Registered' = Registered
      BY <2>1 DEF vars, Registered
    <3> QED
      BY <2>1, <3>1
      DEF vars, HostInv, TypeOK, NotStarted, LegOutlivesInner, AwaitsTheRest,
          NothingLeftRunning, CrashSurfaces, IsDone
  <2>2. CASE Next
    BY <2>2, AddHolds, RunHolds, StepHolds, HostHolds DEF Next, HostStep
  <2> QED
    BY <2>1, <2>2
<1>2. HostInv => EndsCleanly
  BY DEF HostInv, EndsCleanly
<1> QED
  BY WorkersInit, <1>1, <1>2, PTL DEF Spec

(***************************************************************************)
(* BatchHost.                                                              *)
(***************************************************************************)
HostShape == /\ batch \in [Instances -> Seq(Messages)]
             /\ pos \in [Instances -> Nat]
             /\ failed \in [Instances -> SUBSET Messages]

\* No message is in two places of a batch, nor in two batches.
BatchesApart == \A i \in Instances : /\ InOrder(batch[i])
                                     /\ \A j \in Instances \ {i} : Items(i) \cap Items(j) = {}

\* What an invocation holds as failed it has dispatched.
FailedWasTried == \A i \in Instances : \A k \in DOMAIN batch[i] : batch[i][k] \in failed[i] => k <= pos[i]

\* Without at_most_once, what was dispatched has succeeded or is held as failed, and
\* what the platform settled has succeeded.
Accounted ==
    ~AtMostOnce =>
        /\ \A i \in Instances : \A k \in DOMAIN batch[i] : k <= pos[i] => batch[i][k] \in done \cup failed[i]
        /\ HostSettled \subseteq done

\* Behind SQS, a success whose invocations all answered was dispatched in this one, and
\* is not among its failures.
CleanUntilTried ==
    source = "sqs" =>
        \A i \in Instances : \A k \in DOMAIN batch[i] :
            batch[i][k] \in done \ broken => k <= pos[i] /\ batch[i][k] \notin failed[i]

\* What a stream holds before an item of a batch is in the batch, or behind it for good.
StreamBehind ==
    source \in Streams =>
        \A i \in Instances : \A k \in DOMAIN batch[i] : \A m \in Messages \ Items(i) :
            m < batch[i][k] => where[m] \in {"settled", "dead"}

\* A source that raises goes on only past successes.
RaiseHoldsNone ==
    ~AtMostOnce /\ Settling(source) = "raise" => \A i \in Instances : failed[i] = {}

InOrderUnlessLost == ~AtMostOnce => RaisingStreamInOrder

BatchInv == /\ HostTypeOK /\ HostShape /\ BatchesApart /\ FailedWasTried /\ Accounted
            /\ CleanUntilTried /\ StreamBehind /\ RaiseHoldsNone
            /\ OnlyBrokenBatchRerun /\ InOrderUnlessLost

-----------------------------------------------------------------------------
\* Before the first invocation.
LEMMA BatchStarts == HostInit => BatchInv
<1> SUFFICES ASSUME HostInit PROVE BatchInv
  OBVIOUS
<1>0. HostStart /\ source \in Sources
  BY DEF HostInit
<1>1. \A i \in Instances : batch[i] = <<>> /\ batch[i] \in Seq(Messages) /\ Len(batch[i]) = 0 /\ DOMAIN batch[i] = {}
  BY <1>0 DEF HostStart
<1>2. \A i \in Instances : Items(i) = {}
  BY <1>1 DEF Items
<1>3. HostShape
  BY <1>0 DEF HostStart, HostShape
<1>4. HostTypeOK
  BY <1>0, <1>1, <1>2, HostBoundsAssumption DEF HostStart, HostTypeOK
<1> QED
  BY <1>0, <1>1, <1>2, <1>3, <1>4
  DEF HostStart, BatchInv, BatchesApart, InOrder, FailedWasTried, Accounted, HostSettled,
      CleanUntilTried, StreamBehind, RaiseHoldsNone, OnlyBrokenBatchRerun, InOrderUnlessLost,
      RaisingStreamInOrder

\* The end of an invocation, whatever ends it: what is settled has succeeded, and a
\* success comes back only from a broken invocation.
LEMMA OverHolds ==
    ASSUME BatchInv, NEW i \in Instances, NEW Kept \in SUBSET Items(i), Over(i, Kept),
           done' = done, broken' \in SUBSET Messages, broken \subseteq broken',
           crashes' \in 0 .. MaxCrashes,
           ~AtMostOnce => Kept \subseteq done,
           source = "sqs" => (Items(i) \ Kept) \cap done \subseteq broken'
    PROVE  BatchInv'
<1>0. /\ where' = [m \in Messages |->
                    CASE m \in Items(i) \cap Kept -> "settled"
                      [] m \in Items(i) \ Kept -> IF source = "timer" THEN "dead" ELSE "ready"
                      [] OTHER -> where[m]]
      /\ batch' = [batch EXCEPT ![i] = <<>>]
      /\ pos' = [pos EXCEPT ![i] = 0]
      /\ failed' = [failed EXCEPT ![i] = {}]
      /\ UNCHANGED <<source, tries>>
  BY DEF Over
<1>1. HostShape /\ HostTypeOK
  BY DEF BatchInv
<1>2. /\ batch'[i] = <<>> /\ Len(batch'[i]) = 0 /\ DOMAIN batch'[i] = {} /\ Items(i)' = {}
      /\ pos'[i] = 0 /\ failed'[i] = {}
  BY <1>0, <1>1 DEF HostShape, Items
<1>3. \A j \in Instances \ {i} : /\ batch'[j] = batch[j] /\ pos'[j] = pos[j]
                                 /\ failed'[j] = failed[j] /\ Items(j)' = Items(j)
  BY <1>0, <1>1 DEF HostShape, Items
<1>4. \A m \in Messages : /\ m \in Kept => where'[m] = "settled"
                          /\ m \in Items(i) \ Kept => where'[m] \in {"ready", "dead"}
                          /\ m \notin Items(i) => where'[m] = where[m]
  BY <1>0
<1>5. \A m \in Messages : where[m] \in {"settled", "dead"} => where'[m] = where[m]
  BY <1>1, <1>4 DEF HostTypeOK
<1>6. HostShape'
  BY <1>0, <1>1, EmptySeq DEF HostShape
<1>7. HostTypeOK'
  <2>1. where' \in [Messages -> {"ready", "out", "settled", "dead"}]
    BY <1>0, <1>1, <1>4 DEF HostTypeOK
  <2>2. \A j \in Instances : \A m \in Items(j)' : where'[m] = "out"
    <3> SUFFICES ASSUME NEW j \in Instances, NEW m \in Items(j)' PROVE where'[m] = "out"
      OBVIOUS
    <3>1. j # i
      BY <1>2 DEF Items
    <3>2. m \in Items(j) /\ m \notin Items(i)
      BY <1>3, <3>1 DEF BatchInv, BatchesApart
    <3>3. m \in Messages /\ where[m] = "out"
      BY <1>1, <3>2 DEF HostTypeOK, Items
    <3> QED
      BY <1>4, <3>2, <3>3
  <2>3. ASSUME NEW j \in Instances
        PROVE  /\ batch'[j] \in Seq(Messages) /\ pos'[j] \in 0 .. Len(batch'[j])
               /\ failed'[j] \subseteq Items(j)'
    <3>1. CASE j = i
      <4>1. batch'[j] \in Seq(Messages) /\ failed'[j] \subseteq Items(j)'
        BY <1>2, <1>6, <3>1 DEF HostShape
      <4>2. 0 \in 0 .. 0
        OBVIOUS
      <4> QED
        BY <1>2, <3>1, <4>1, <4>2
    <3>2. CASE j # i
      BY <1>1, <1>3, <3>2 DEF HostTypeOK
    <3> QED
      BY <3>1, <3>2
  <2>4. \A j \in Instances : /\ batch'[j] \in Seq(Messages) /\ pos'[j] \in 0 .. Len(batch'[j])
                             /\ failed'[j] \subseteq Items(j)'
                             /\ \A m \in Items(j)' : where'[m] = "out"
    BY <2>2, <2>3
  <2>5. /\ source' \in Sources /\ tries' \in [Messages -> 0 .. MaxTries]
        /\ done' \subseteq Messages /\ broken' \subseteq Messages
        /\ crashes' \in 0 .. MaxCrashes
    BY <1>0, <1>1 DEF HostTypeOK
  <2> QED
    BY <2>1, <2>4, <2>5 DEF HostTypeOK
<1>8. BatchesApart'
  BY <1>2, <1>3 DEF BatchInv, BatchesApart, InOrder
<1>9. FailedWasTried' /\ RaiseHoldsNone'
  BY <1>0, <1>2, <1>3 DEF BatchInv, FailedWasTried, RaiseHoldsNone, Settling
<1>10. Accounted'
  <2>1. ~AtMostOnce => HostSettled' \subseteq done
    BY <1>1, <1>4 DEF BatchInv, Accounted, HostSettled, HostTypeOK
  <2> QED
    BY <1>2, <1>3, <2>1 DEF BatchInv, Accounted
<1>11. CleanUntilTried'
  BY <1>0, <1>2, <1>3 DEF BatchInv, CleanUntilTried
<1>12. StreamBehind'
  BY <1>0, <1>2, <1>3, <1>5 DEF BatchInv, StreamBehind
<1>13. OnlyBrokenBatchRerun'
  <2> SUFFICES ASSUME source = "sqs", NEW m \in done, where'[m] \in {"ready", "dead"}
               PROVE  m \in broken'
    BY <1>0 DEF OnlyBrokenBatchRerun
  <2>1. m \in Messages
    BY <1>1 DEF HostTypeOK
  <2>2. CASE m \in Items(i)
    BY <1>4, <2>1, <2>2
  <2>3. CASE m \notin Items(i)
    BY <1>4, <2>1, <2>3 DEF BatchInv, OnlyBrokenBatchRerun
  <2> QED
    BY <2>2, <2>3
<1>14. InOrderUnlessLost'
  BY <1>0, <1>5 DEF BatchInv, InOrderUnlessLost, RaisingStreamInOrder, Settling
<1> QED
  BY <1>6, <1>7, <1>8, <1>9, <1>10, <1>11, <1>12, <1>13, <1>14 DEF BatchInv

\* The platform invokes an instance with messages that are in no other batch.
LEMMA InvokeHolds == ASSUME BatchInv, NEW i \in Instances, Invoke(i) PROVE BatchInv'
<1>0. HostShape /\ HostTypeOK /\ Idle(i)
  BY DEF BatchInv, Invoke
<1>a. PICK n \in 1 .. (IF source \in Batched THEN BatchSize ELSE 1) : \E got \in [1 .. n -> Ready] :
        LET Got == {got[k] : k \in 1 .. n} IN
            /\ InOrder(got)
            /\ source \in Streams =>
                 \A m \in Messages : m \notin Got /\ m < Max(Got) => where[m] \in {"settled", "dead"}
            /\ source \in Streams => \A j \in Instances : Idle(j)
            /\ batch' = [batch EXCEPT ![i] = got]
            /\ where' = [m \in Messages |-> IF m \in Got THEN "out" ELSE where[m]]
            /\ tries' = [m \in Messages |-> IF m \in Got THEN tries[m] + 1 ELSE tries[m]]
  BY DEF Invoke
<1>1. PICK got \in [1 .. n -> Ready] :
        LET Got == {got[k] : k \in 1 .. n} IN
            /\ InOrder(got)
            /\ source \in Streams =>
                 \A m \in Messages : m \notin Got /\ m < Max(Got) => where[m] \in {"settled", "dead"}
            /\ source \in Streams => \A j \in Instances : Idle(j)
            /\ batch' = [batch EXCEPT ![i] = got]
            /\ where' = [m \in Messages |-> IF m \in Got THEN "out" ELSE where[m]]
            /\ tries' = [m \in Messages |-> IF m \in Got THEN tries[m] + 1 ELSE tries[m]]
  BY <1>a
<1> DEFINE Got == {got[k] : k \in 1 .. n}
<1>2. UNCHANGED <<source, pos, failed, done, broken, crashes>>
  BY DEF Invoke
<1>3. Ready \subseteq Messages /\ \A m \in Ready : where[m] = "ready" /\ tries[m] < MaxTries
  BY DEF Ready
<1>4. got \in Seq(Messages) /\ DOMAIN got = 1 .. n /\ Len(got) = n
  <2>1. got \in [1 .. n -> Messages]
    BY <1>3
  <2>2. got \in Seq(Messages)
    BY <2>1, SeqDef
  <2> QED
    BY <2>1, <2>2, LenProperties
<1>5. /\ batch'[i] = got /\ Items(i)' = Got
      /\ \A j \in Instances \ {i} : batch'[j] = batch[j] /\ Items(j)' = Items(j)
  BY <1>0, <1>1, <1>4 DEF HostShape, Items
<1>6. Got \subseteq Messages /\ \A m \in Got : where[m] = "ready" /\ tries[m] < MaxTries /\ where'[m] = "out"
  BY <1>1, <1>3
<1>7. \A m \in Messages \ Got : where'[m] = where[m] /\ tries'[m] = tries[m]
  BY <1>1
<1>8. /\ Items(i) = {} /\ DOMAIN batch[i] = {} /\ pos[i] = 0 /\ failed[i] = {}
      /\ \A k \in 1 .. n : ~(k <= pos[i])
  BY <1>0 DEF Idle, Items, HostTypeOK
<1>9. \A j \in Instances : Items(j) \cap Got = {}
  BY <1>0, <1>6 DEF HostTypeOK
<1> HIDE DEF Got
<1>10. HostShape'
  BY <1>0, <1>1, <1>2, <1>4 DEF HostShape
<1>11. HostTypeOK'
  <2>1. where' \in [Messages -> {"ready", "out", "settled", "dead"}]
    BY <1>0, <1>1 DEF HostTypeOK
  <2>2. tries' \in [Messages -> 0 .. MaxTries]
    <3>1. \A m \in Messages : tries'[m] \in 0 .. MaxTries
      <4> SUFFICES ASSUME NEW m \in Messages PROVE tries'[m] \in 0 .. MaxTries
        OBVIOUS
      <4>1. tries[m] \in 0 .. MaxTries /\ MaxTries \in Nat
        BY <1>0, HostBoundsAssumption DEF HostTypeOK
      <4>2. CASE m \in Got
        <5>1. tries'[m] = tries[m] + 1
          BY <1>1, <4>2 DEF Got
        <5> QED
          BY <1>6, <4>1, <4>2, <5>1
      <4>3. CASE m \notin Got
        BY <1>7, <4>1, <4>3
      <4> QED
        BY <4>2, <4>3
    <3> QED
      BY <1>1, <3>1
  <2>3. ASSUME NEW j \in Instances
        PROVE  /\ batch'[j] \in Seq(Messages) /\ pos'[j] \in 0 .. Len(batch'[j])
               /\ failed'[j] \subseteq Items(j)'
               /\ \A m \in Items(j)' : where'[m] = "out"
    <3>1. CASE j = i
      <4>1. batch'[j] = got /\ pos'[j] = 0 /\ failed'[j] = {}
        BY <1>2, <1>5, <1>8, <3>1
      <4>2. 0 \in 0 .. n
        OBVIOUS
      <4>3. \A m \in Items(i)' : where'[m] = "out"
        BY <1>5, <1>6
      <4> QED
        BY <1>4, <3>1, <4>1, <4>2, <4>3
    <3>2. CASE j # i
      <4>1. \A m \in Items(j)' : m \in Messages \ Got /\ where[m] = "out"
        BY <1>0, <1>5, <1>9, <3>2 DEF HostTypeOK, Items
      <4> QED
        BY <1>0, <1>2, <1>5, <1>7, <3>2, <4>1 DEF HostTypeOK
    <3> QED
      BY <3>1, <3>2
  <2> QED
    BY <1>0, <1>2, <2>1, <2>2, <2>3 DEF HostTypeOK
<1>12. BatchesApart'
  <2>1. ASSUME NEW j \in Instances PROVE InOrder(batch'[j])
    BY <1>1, <1>5 DEF BatchInv, BatchesApart
  <2>2. ASSUME NEW j \in Instances, NEW l \in Instances \ {j} PROVE Items(j)' \cap Items(l)' = {}
    <3>1. CASE j = i
      <4>1. Items(j)' = Got
        BY <1>5, <3>1 DEF Items
      <4> QED
        BY <1>5, <1>9, <3>1, <4>1
    <3>2. CASE l = i
      <4>1. Items(l)' = Got
        BY <1>5, <3>2 DEF Items
      <4> QED
        BY <1>5, <1>9, <3>2, <4>1
    <3>3. CASE j # i /\ l # i
      BY <1>5, <3>3 DEF BatchInv, BatchesApart
    <3> QED
      BY <3>1, <3>2, <3>3
  <2> QED
    BY <2>1, <2>2 DEF BatchesApart, InOrder
<1>13. FailedWasTried' /\ RaiseHoldsNone'
  BY <1>2, <1>5, <1>8 DEF BatchInv, FailedWasTried, RaiseHoldsNone, Settling
<1>14. Accounted'
  <2>1. HostSettled' = HostSettled
    BY <1>6, <1>7 DEF HostSettled
  <2> QED
    BY <1>2, <1>4, <1>5, <1>8, <2>1 DEF BatchInv, Accounted
<1>15. CleanUntilTried'
  <2> SUFFICES ASSUME source = "sqs", NEW j \in Instances, NEW k \in DOMAIN batch'[j],
                      batch'[j][k] \in done \ broken
               PROVE  k <= pos[j] /\ batch'[j][k] \notin failed[j]
    BY <1>2 DEF CleanUntilTried
  <2>1. CASE j = i
    <3>1. batch'[j][k] \in Got
      BY <1>4, <1>5, <2>1 DEF Got
    <3> QED
      BY <1>6, <3>1 DEF BatchInv, OnlyBrokenBatchRerun
  <2>2. CASE j # i
    BY <1>5, <2>2 DEF BatchInv, CleanUntilTried
  <2> QED
    BY <2>1, <2>2
<1>16. \A m \in Messages : where[m] \in {"settled", "dead"} => where'[m] = where[m]
  BY <1>6, <1>7
<1>17. StreamBehind'
  <2> SUFFICES ASSUME source \in Streams, NEW j \in Instances, NEW k \in DOMAIN batch'[j],
                      NEW m \in Messages \ Items(j)', m < batch'[j][k]
               PROVE  where'[m] \in {"settled", "dead"}
    BY <1>2 DEF StreamBehind
  <2>1. CASE j = i
    <3>1. k \in 1 .. n /\ batch'[j][k] = got[k] /\ m \notin Got
      BY <1>4, <1>5, <2>1 DEF Items, Got
    <3>2. \A l \in 1 .. n : got[l] \in Messages /\ got[l] \in Nat
      BY <1>3, HostMessagesAssumption
    <3>3. n \in 1 .. n /\ \A l \in 1 .. n : l = n \/ l < n
      OBVIOUS
    <3>4. \A l \in 1 .. n : got[n] >= got[l]
      <4> SUFFICES ASSUME NEW l \in 1 .. n PROVE got[n] >= got[l]
        OBVIOUS
      <4>1. l < n => got[l] < got[n]
        BY <1>1, <1>4, <3>3 DEF InOrder
      <4>2. got[l] \in Nat /\ got[n] \in Nat
        BY <3>2, <3>3
      <4>3. CASE l = n
        BY <4>2, <4>3
      <4>4. CASE l < n
        BY <4>1, <4>2, <4>4
      <4> QED
        BY <3>3, <4>3, <4>4
    <3>5. got[n] \in Got /\ \A y \in Got : got[n] >= y
      BY <3>3, <3>4 DEF Got
    <3>6. Max(Got) \in Got /\ \A y \in Got : Max(Got) >= y
      BY <3>5 DEF Max
    <3>7. got[k] \in Got /\ Max(Got) \in Nat /\ got[k] \in Nat /\ m \in Nat
      BY <1>6, <3>1, <3>2, <3>6, HostMessagesAssumption DEF Got
    <3>8. m < Max(Got)
      BY <2>1, <3>1, <3>6, <3>7
    <3>9. where[m] \in {"settled", "dead"}
      BY <1>1, <3>1, <3>8 DEF Got
    <3> QED
      BY <1>16, <3>9
  <2>2. CASE j # i
    <3>1. batch'[j] = batch[j] /\ m \notin Items(j)
      BY <1>5, <2>2
    <3> QED
      BY <1>16, <3>1 DEF BatchInv, StreamBehind
  <2> QED
    BY <2>1, <2>2
<1>18. OnlyBrokenBatchRerun'
  BY <1>0, <1>2, <1>6, <1>7 DEF BatchInv, OnlyBrokenBatchRerun, HostTypeOK
<1>19. InOrderUnlessLost'
  BY <1>2, <1>16 DEF BatchInv, InOrderUnlessLost, RaisingStreamInOrder, Settling
<1> QED
  BY <1>10, <1>11, <1>12, <1>13, <1>14, <1>15, <1>17, <1>18, <1>19 DEF BatchInv

\* A dispatch that ends the invocation breaks it.
LEMMA RaiseHolds ==
    ASSUME BatchInv, NEW i \in Instances, Over(i, {}), broken' = broken \cup Items(i),
           done' = done, crashes' \in 0 .. MaxCrashes
    PROVE  BatchInv'
<1>1. Items(i) \subseteq Messages /\ broken \subseteq Messages
  BY DEF BatchInv, HostShape, HostTypeOK, Items
<1> QED
  BY <1>1, OverHolds

\* A dispatch after which the invocation goes on: only the message at hand changes.
LEMMA GoesOnHolds ==
    ASSUME BatchInv, NEW i \in Instances, NEW outcome \in Outcomes,
           pos[i] < Len(batch[i]),
           outcome # "raised",
           Settling(source) = "raise" => Acknowledges(outcome),
           done' = IF outcome \in Successes THEN done \cup {batch[i][pos[i] + 1]} ELSE done,
           pos' = [pos EXCEPT ![i] = @ + 1],
           failed' = [failed EXCEPT ![i] = IF Acknowledges(outcome) THEN @
                                           ELSE @ \cup {batch[i][pos[i] + 1]}],
           UNCHANGED <<source, batch, where, tries, broken, crashes>>
    PROVE  BatchInv'
<1> DEFINE p == pos[i] + 1
           m == batch[i][p]
<1>0. HostShape /\ HostTypeOK
  BY DEF BatchInv
<1>1. pos[i] \in Nat /\ batch[i] \in Seq(Messages) /\ Len(batch[i]) \in Nat /\ DOMAIN batch[i] = 1 .. Len(batch[i])
  BY <1>0, LenProperties DEF HostShape
<1>2. p \in DOMAIN batch[i] /\ p \in 1 .. Len(batch[i]) /\ \A k \in DOMAIN batch[i] : k <= p <=> k <= pos[i] \/ k = p
  BY <1>1
<1>3. m \in Messages /\ m \in Items(i) /\ where[m] = "out"
  BY <1>0, <1>1, <1>2 DEF HostTypeOK, Items
<1>4. ~(p <= pos[i])
  BY <1>1
<1>5. \A k \in DOMAIN batch[i] : batch[i][k] = m => k = p
  <2> SUFFICES ASSUME NEW k \in DOMAIN batch[i], batch[i][k] = m, k # p PROVE FALSE
    OBVIOUS
  <2>1. k < p \/ p < k
    BY <1>1, <1>2
  <2>2. m < m
    BY <1>2, <2>1 DEF BatchInv, BatchesApart, InOrder
  <2> QED
    BY <1>3, <2>2, HostMessagesAssumption
<1>6. \A j \in Instances \ {i} : \A k \in DOMAIN batch[j] : batch[j][k] # m
  BY <1>3 DEF BatchInv, BatchesApart, Items
<1>7. /\ pos'[i] = p /\ failed'[i] = IF Acknowledges(outcome) THEN failed[i] ELSE failed[i] \cup {m}
      /\ \A j \in Instances \ {i} : pos'[j] = pos[j] /\ failed'[j] = failed[j]
  BY <1>0 DEF HostShape
<1>8. done' = (IF outcome \in Successes THEN done \cup {m} ELSE done)
  OBVIOUS
<1>9. outcome \in Successes => Acknowledges(outcome)
  BY DEF Acknowledges
<1>10. HostShape'
  <2>1. failed' \in [Instances -> SUBSET Messages]
    BY <1>0, <1>3 DEF HostShape
  <2>2. pos' \in [Instances -> Nat]
    BY <1>0 DEF HostShape
  <2> QED
    BY <1>0, <2>1, <2>2 DEF HostShape
<1>11. m \notin failed[i]
  BY <1>2, <1>4 DEF BatchInv, FailedWasTried
<1>12. p \in 0 .. Len(batch[i])
  BY <1>2
<1> HIDE DEF m, p
<1>13. HostTypeOK'
  <2>1. ASSUME NEW j \in Instances
        PROVE  /\ batch'[j] \in Seq(Messages) /\ pos'[j] \in 0 .. Len(batch'[j])
               /\ failed'[j] \subseteq Items(j)'
               /\ \A q \in Items(j)' : where'[q] = "out"
    <3>1. Items(j)' = Items(j)
      BY DEF Items
    <3>2. CASE j = i
      <4>1. pos'[j] \in 0 .. Len(batch'[j])
        BY <1>7, <1>12, <3>2
      <4>2. failed'[j] \subseteq failed[i] \cup {m} /\ failed[i] \subseteq Items(i)
        BY <1>0, <1>7, <3>2 DEF HostTypeOK
      <4>3. failed'[j] \subseteq Items(j)'
        BY <1>3, <3>1, <3>2, <4>2
      <4>4. batch'[j] \in Seq(Messages) /\ \A q \in Items(j)' : where'[q] = "out"
        BY <1>0, <3>1 DEF HostTypeOK
      <4> QED
        BY <4>1, <4>3, <4>4
    <3>3. CASE j # i
      BY <1>0, <1>7, <3>1, <3>3 DEF HostTypeOK
    <3> QED
      BY <3>2, <3>3
  <2> QED
    BY <1>0, <1>3, <1>8, <2>1 DEF HostTypeOK
<1>14. BatchesApart' /\ StreamBehind'
  <2>1. BatchesApart /\ StreamBehind
    BY DEF BatchInv
  <2>2. \A j \in Instances : Items(j)' = Items(j) /\ (InOrder(batch[j]) <=> InOrder(batch'[j]))
    BY DEF Items
  <2>3. BatchesApart'
    BY <2>1, <2>2 DEF BatchesApart
  <2>4. StreamBehind'
    BY <2>1, <2>2 DEF StreamBehind
  <2> QED
    BY <2>3, <2>4
<1>15. FailedWasTried'
  <2> SUFFICES ASSUME NEW j \in Instances, NEW k \in DOMAIN batch[j], batch[j][k] \in failed'[j]
               PROVE  k <= pos'[j]
    BY DEF FailedWasTried
  <2>1. CASE j = i
    BY <1>2, <1>5, <1>7, <2>1 DEF BatchInv, FailedWasTried
  <2>2. CASE j # i
    BY <1>7, <2>2 DEF BatchInv, FailedWasTried
  <2> QED
    BY <2>1, <2>2
<1>16. Accounted'
  <2> SUFFICES ASSUME ~AtMostOnce
               PROVE  /\ \A j \in Instances : \A k \in DOMAIN batch[j] :
                             k <= pos'[j] => batch[j][k] \in done' \cup failed'[j]
                      /\ HostSettled \subseteq done'
    BY DEF Accounted, HostSettled
  <2>1. HostSettled \subseteq done'
    BY <1>8 DEF BatchInv, Accounted
  <2>2. ASSUME NEW j \in Instances, NEW k \in DOMAIN batch[j], k <= pos'[j]
        PROVE  batch[j][k] \in done' \cup failed'[j]
    <3>1. CASE j = i /\ k = p
      BY <1>7, <1>8, <3>1 DEF Acknowledges, m
    <3>2. CASE j = i /\ k # p
      BY <1>2, <1>7, <1>8, <2>2, <3>2 DEF BatchInv, Accounted
    <3>3. CASE j # i
      BY <1>7, <1>8, <2>2, <3>3 DEF BatchInv, Accounted
    <3> QED
      BY <3>1, <3>2, <3>3
  <2> QED
    BY <2>1, <2>2
<1>17. CleanUntilTried'
  <2> SUFFICES ASSUME source = "sqs", NEW j \in Instances, NEW k \in DOMAIN batch[j],
                      batch[j][k] \in done' \ broken
               PROVE  k <= pos'[j] /\ batch[j][k] \notin failed'[j]
    BY DEF CleanUntilTried
  <2>1. CASE j = i /\ k = p
    <3>1. p <= pos'[i]
      BY <1>2, <1>7
    <3>2. m \notin done \ broken
      BY <1>2, <1>4 DEF BatchInv, CleanUntilTried, m
    <3>3. m \notin failed'[i]
      BY <1>7, <1>8, <1>9, <1>11, <2>1, <3>2 DEF m
    <3> QED
      BY <2>1, <3>1, <3>3 DEF m
  <2>2. CASE j = i /\ k # p
    <3>1. batch[j][k] # m
      BY <1>5, <2>2
    <3>2. k <= pos[i] /\ batch[i][k] \notin failed[i]
      BY <1>8, <2>2, <3>1 DEF BatchInv, CleanUntilTried
    <3> QED
      BY <1>2, <1>7, <2>2, <3>1, <3>2
  <2>3. CASE j # i
    <3>1. batch[j][k] # m
      BY <1>6, <2>3
    <3> QED
      BY <1>7, <1>8, <2>3, <3>1 DEF BatchInv, CleanUntilTried
  <2> QED
    BY <2>1, <2>2, <2>3
<1>18. RaiseHoldsNone'
  <2>1. Settling(source') = Settling(source)
    OBVIOUS
  <2> QED
    BY <1>7, <2>1 DEF BatchInv, RaiseHoldsNone, Settling
<1>19. OnlyBrokenBatchRerun'
  BY <1>3, <1>8 DEF BatchInv, OnlyBrokenBatchRerun
<1>20. InOrderUnlessLost'
  <2> SUFFICES ASSUME ~AtMostOnce, source \in Streams, Settling(source) = "raise",
                      NEW d \in done', NEW q \in Messages, q < d
               PROVE  q \in done' \/ where[q] = "dead"
    BY DEF InOrderUnlessLost, RaisingStreamInOrder, Settling
  <2>1. CASE d \in done
    BY <1>8, <2>1 DEF BatchInv, InOrderUnlessLost, RaisingStreamInOrder
  <2>2. CASE d = m
    <3>1. CASE q \in Items(i)
      <4>1. PICK k \in DOMAIN batch[i] : q = batch[i][k]
        BY <3>1 DEF Items
      <4>2. ~(p < k)
        <5> SUFFICES ASSUME p < k PROVE FALSE
          OBVIOUS
        <5>1. m < q
          BY <1>2, <4>1 DEF BatchInv, BatchesApart, InOrder, m
        <5> QED
          BY <1>3, <2>2, <5>1, HostMessagesAssumption
      <4>3. k # p
        <5> SUFFICES ASSUME k = p PROVE FALSE
          OBVIOUS
        <5>1. q = m
          BY <4>1 DEF m
        <5> QED
          BY <1>3, <2>2, <5>1, HostMessagesAssumption
      <4>4. k <= pos[i]
        BY <1>1, <1>2, <4>2, <4>3
      <4>5. failed[i] = {}
        BY DEF BatchInv, RaiseHoldsNone
      <4> QED
        BY <1>8, <4>1, <4>4, <4>5 DEF BatchInv, Accounted
    <3>2. CASE q \notin Items(i)
      <4>1. where[q] \in {"settled", "dead"}
        BY <1>2, <2>2, <3>2 DEF BatchInv, StreamBehind, m
      <4> QED
        BY <1>8, <4>1 DEF BatchInv, Accounted, HostSettled
    <3> QED
      BY <3>1, <3>2
  <2> QED
    BY <1>8, <2>1, <2>2
<1> QED
  BY <1>10, <1>13, <1>14, <1>15, <1>16, <1>17, <1>18, <1>19, <1>20 DEF BatchInv

\* One dispatch, whether the invocation goes on or not.
LEMMA DispatchHolds ==
    ASSUME BatchInv, NEW i \in Instances, NEW outcome \in Outcomes, DispatchOne(i, outcome)
    PROVE  BatchInv'
<1>0. pos[i] < Len(batch[i]) /\ crashes' = crashes
  BY DEF DispatchOne
<1>1. CASE \/ outcome = "raised"
           \/ ~Acknowledges(outcome) /\ Settling(source) = "raise"
  <2>1. outcome \notin Successes
    BY <1>1 DEF Successes, Acknowledges
  <2>2. done' = done /\ Over(i, {}) /\ broken' = broken \cup Items(i)
    BY <1>1, <2>1 DEF DispatchOne
  <2>3. crashes' \in 0 .. MaxCrashes
    BY <1>0 DEF BatchInv, HostTypeOK
  <2> QED
    BY <2>2, <2>3, RaiseHolds
<1>2. CASE ~(\/ outcome = "raised"
             \/ ~Acknowledges(outcome) /\ Settling(source) = "raise")
  <2>1. /\ done' = IF outcome \in Successes THEN done \cup {batch[i][pos[i] + 1]} ELSE done
        /\ pos' = [pos EXCEPT ![i] = @ + 1]
        /\ failed' = [failed EXCEPT ![i] = IF Acknowledges(outcome) THEN @
                                            ELSE @ \cup {batch[i][pos[i] + 1]}]
        /\ UNCHANGED <<source, batch, where, tries, broken>>
    BY <1>2 DEF DispatchOne
  <2>2. outcome # "raised" /\ (Settling(source) = "raise" => Acknowledges(outcome))
    BY <1>2
  <2> QED
    BY <1>0, <2>1, <2>2, GoesOnHolds
<1> QED
  BY <1>1, <1>2

\* What an answer settles is in the batch and not among its failures.
LEMMA ReturnKeeps ==
    ASSUME BatchInv, NEW i \in Instances, Return(i)
    PROVE  \E Kept \in SUBSET (Items(i) \ failed[i]) :
              /\ Over(i, Kept)
              /\ source = "sqs" => Kept = Items(i) \ failed[i]
              /\ ~AtMostOnce => Kept \subseteq done
<1> DEFINE Kept == IF Settling(source) = "sequence numbers" /\ Reports(i) # {}
                   THEN {m \in Items(i) : m < Min(Reports(i))} ELSE Items(i) \ Reports(i)
<1>0. HostShape /\ HostTypeOK /\ pos[i] = Len(batch[i]) /\ Over(i, Kept)
  BY DEF BatchInv, Return
<1>1. Items(i) \subseteq Nat /\ Items(i) \subseteq Messages /\ failed[i] \subseteq Items(i)
  <2>1. failed[i] \subseteq Items(i)
    BY <1>0 DEF HostTypeOK
  <2>2. Items(i) \subseteq Messages
    <3>1. batch[i] \in Seq(Messages)
      BY <1>0 DEF HostShape
    <3> QED
      BY <3>1, LenProperties DEF Items
  <2> QED
    BY <2>1, <2>2, HostMessagesAssumption
<1>2. Kept \subseteq Items(i) \ failed[i]
  <2>1. CASE Settling(source) = "sequence numbers" /\ Reports(i) # {}
    <3>1. failed[i] \in SUBSET Nat /\ failed[i] # {}
      BY <1>1, <2>1 DEF Reports
    <3>2. PICK x \in failed[i] : \A y \in failed[i] : x <= y
      BY <3>1, LeastExists
    <3>3. Min(failed[i]) \in failed[i] /\ \A y \in failed[i] : Min(failed[i]) <= y
      BY <3>2 DEF Min
    <3>4. \A y \in failed[i] : ~(y < Min(failed[i]))
      BY <3>1, <3>3
    <3> QED
      BY <2>1, <3>4 DEF Reports
  <2>2. CASE ~(Settling(source) = "sequence numbers" /\ Reports(i) # {})
    BY <2>2 DEF Reports
  <2> QED
    BY <2>1, <2>2
<1>3. source = "sqs" => Kept = Items(i) \ failed[i]
  <2>1. source = "sqs" => Settling(source) = "items"
    <3> SUFFICES ASSUME source = "sqs" PROVE Settling("sqs") = "items"
      OBVIOUS
    <3>1. Event("sqs") = RecordsEvent("aws:sqs")
      BY DEF Event
    <3>2. Event("sqs").keys = {"Records"} /\ Event("sqs").record = "aws:sqs"
      BY <3>1 DEF RecordsEvent
    <3>3. event_source(Event("sqs")) = "sqs"
      BY <3>2 DEF event_source
    <3>4. AwsLambdaHandle("sqs") = "items"
      BY <3>3 DEF AwsLambdaHandle
    <3> QED
      BY <3>4 DEF Settling, LambdaSources, AzureSources
  <2> QED
    BY <2>1 DEF Reports
<1> HIDE DEF Kept
<1>4. ASSUME ~AtMostOnce PROVE Kept \subseteq done
  <2> SUFFICES ASSUME NEW m \in Kept PROVE m \in done
    OBVIOUS
  <2>1. PICK k \in DOMAIN batch[i] : m = batch[i][k]
    BY <1>2 DEF Items
  <2>2. k <= pos[i]
    BY <1>0, <2>1, LenProperties DEF HostShape
  <2> QED
    BY <1>2, <1>4, <2>1, <2>2 DEF BatchInv, Accounted
<1> QED
  BY <1>0, <1>2, <1>3, <1>4

\* The other ends of an invocation, and the platform giving a message up.
LEMMA EndHolds ==
    ASSUME BatchInv,
           \/ \E i \in Instances : Return(i) \/ Crash(i)
           \/ \E m \in Messages : GiveUp(m)
    PROVE  BatchInv'
<1>0. HostShape /\ HostTypeOK
  BY DEF BatchInv
<1>1. ASSUME NEW i \in Instances, Return(i) PROVE BatchInv'
  <2>1. PICK Kept \in SUBSET (Items(i) \ failed[i]) :
              /\ Over(i, Kept)
              /\ source = "sqs" => Kept = Items(i) \ failed[i]
              /\ ~AtMostOnce => Kept \subseteq done
    BY <1>1, ReturnKeeps
  <2>2. source = "sqs" => (Items(i) \ Kept) \cap done \subseteq broken
    <3> SUFFICES ASSUME source = "sqs", NEW m \in Items(i), m \in failed[i], m \in done
                 PROVE  m \in broken
      BY <2>1
    <3>1. PICK k \in DOMAIN batch[i] : m = batch[i][k]
      BY DEF Items
    <3> QED
      BY <3>1 DEF BatchInv, CleanUntilTried
  <2>3. UNCHANGED <<done, broken, crashes>>
    BY <1>1 DEF Return
  <2>4. broken' \in SUBSET Messages /\ crashes' \in 0 .. MaxCrashes
    BY <1>0, <2>3 DEF HostTypeOK
  <2> QED
    BY <2>1, <2>2, <2>3, <2>4, OverHolds
<1>2. ASSUME NEW i \in Instances, Crash(i) PROVE BatchInv'
  <2>1. crashes' \in 0 .. MaxCrashes
    BY <1>0, <1>2, HostBoundsAssumption DEF Crash, HostTypeOK
  <2> QED
    BY <1>2, <2>1, RaiseHolds DEF Crash
<1>3. ASSUME NEW m \in Messages, GiveUp(m) PROVE BatchInv'
  <2>0. /\ where[m] = "ready" /\ where' = [where EXCEPT ![m] = "dead"]
        /\ UNCHANGED <<source, batch, pos, failed, tries, done, broken, crashes>>
    BY <1>3 DEF GiveUp
  <2>1. where'[m] = "dead" /\ \A q \in Messages \ {m} : where'[q] = where[q]
    BY <1>0, <2>0 DEF HostTypeOK
  <2>2. \A j \in Instances : Items(j)' = Items(j) /\ Items(j) \subseteq Messages /\ m \notin Items(j)
    BY <1>0, <2>0 DEF HostTypeOK, Items
  <2>3. HostTypeOK' /\ HostShape'
    <3>1. \A j \in Instances : \A q \in Items(j)' : where'[q] = "out"
      BY <1>0, <2>1, <2>2 DEF HostTypeOK
    <3>2. where' \in [Messages -> {"ready", "out", "settled", "dead"}]
      BY <1>0, <2>0 DEF HostTypeOK
    <3> QED
      BY <1>0, <2>0, <2>2, <3>1, <3>2 DEF HostTypeOK, HostShape
  <2>4. BatchesApart' /\ FailedWasTried' /\ CleanUntilTried' /\ RaiseHoldsNone'
    BY <2>0, <2>2 DEF BatchInv, BatchesApart, FailedWasTried, CleanUntilTried, RaiseHoldsNone, Settling, InOrder
  <2>5. Accounted'
    <3>1. HostSettled' = HostSettled
      BY <2>0, <2>1 DEF HostSettled
    <3> QED
      BY <2>0, <3>1 DEF BatchInv, Accounted
  <2>6. StreamBehind'
    BY <2>0, <2>1, <2>2 DEF BatchInv, StreamBehind
  <2>7. OnlyBrokenBatchRerun'
    BY <1>0, <2>0, <2>1 DEF BatchInv, OnlyBrokenBatchRerun, HostTypeOK
  <2>8. InOrderUnlessLost'
    BY <2>0, <2>1 DEF BatchInv, InOrderUnlessLost, RaisingStreamInOrder, Settling
  <2> QED
    BY <2>3, <2>4, <2>5, <2>6, <2>7, <2>8 DEF BatchInv
<1> QED
  BY <1>1, <1>2, <1>3

\* The invariant is inductive.
LEMMA HostNextHolds == BatchInv /\ [HostNext]_hostVars => BatchInv'
<1> SUFFICES ASSUME BatchInv, [HostNext]_hostVars PROVE BatchInv'
  OBVIOUS
<1>1. CASE UNCHANGED hostVars
  <2>1. \A j \in Instances : Items(j)' = Items(j)
    BY <1>1 DEF hostVars, Items
  <2>2. HostSettled' = HostSettled
    BY <1>1 DEF hostVars, HostSettled
  <2>3. HostTypeOK' /\ HostShape' /\ BatchesApart' /\ FailedWasTried'
    BY <1>1, <2>1 DEF hostVars, BatchInv, HostTypeOK, HostShape, BatchesApart, FailedWasTried
  <2>4. Accounted' /\ CleanUntilTried' /\ StreamBehind' /\ OnlyBrokenBatchRerun'
    BY <1>1, <2>1, <2>2
    DEF hostVars, BatchInv, Accounted, CleanUntilTried, StreamBehind, OnlyBrokenBatchRerun
  <2>5. RaiseHoldsNone' /\ InOrderUnlessLost'
    BY <1>1 DEF hostVars, BatchInv, RaiseHoldsNone, InOrderUnlessLost, RaisingStreamInOrder, Settling
  <2> QED
    BY <2>3, <2>4, <2>5 DEF BatchInv
<1> QED
  BY <1>1, InvokeHolds, DispatchHolds, EndHolds DEF HostNext, InstanceStep

\* For any instances, messages, batch size and event source, without at_most_once:
\* behind SQS a message that succeeded comes back only after an invocation with it
\* raised or died, and the records of a stream whose host raises succeed in their
\* order, through any number of redeliveries.
THEOREM HostRerunsWithCause == ASSUME ~AtMostOnce PROVE HostSpec => []RerunWithCause
<1>1. BatchInv => RerunWithCause
  BY DEF BatchInv, RerunWithCause, InOrderUnlessLost
<1> QED
  BY <1>1, BatchStarts, HostNextHolds, PTL DEF HostSpec

\* For any instances, messages, batch size and event source, without at_most_once:
\* whatever the host answers, the platform settles a message only after a delivery of
\* it succeeded, and for good.
THEOREM HostImplementsAtLeastOnce == ASSUME ~AtMostOnce PROVE HostSpec => HostAtLeastOnce
<1>1. HostInit => HostPromise!Init
  BY DEF HostInit, HostStart, HostPromise!Init, HostSettled
<1>2. BatchInv /\ BatchInv' /\ [HostNext]_hostVars => [HostPromise!Next]_HostPromise!vars
  <2> SUFFICES ASSUME BatchInv, BatchInv', [HostNext]_hostVars
               PROVE  HostPromise!Next \/ (done' = done /\ HostSettled' = HostSettled)
    BY DEF HostPromise!vars
  <2>0. HostTypeOK /\ HostShape /\ HostSettled' \subseteq done'
    BY DEF BatchInv, Accounted
  <2>1. ASSUME NEW i \in Instances, NEW Kept, Over(i, Kept), done' = done
        PROVE  HostPromise!Next
    <3>1. HostSettled \subseteq HostSettled'
      BY <2>0, <2>1 DEF Over, HostSettled, HostTypeOK
    <3> QED
      BY <2>0, <2>1, <3>1 DEF HostPromise!Next, HostPromise!Settle
  <2>2. ASSUME NEW i \in Instances, NEW outcome \in Outcomes, DispatchOne(i, outcome)
        PROVE  HostPromise!Next \/ (done' = done /\ HostSettled' = HostSettled)
    <3>1. CASE \/ outcome = "raised"
               \/ ~Acknowledges(outcome) /\ Settling(source) = "raise"
      <4>1. outcome \notin Successes
        BY <3>1 DEF Successes, Acknowledges
      <4>2. done' = done /\ Over(i, {})
        BY <2>2, <3>1, <4>1 DEF DispatchOne
      <4> QED
        BY <2>1, <4>2
    <3>2. CASE ~(\/ outcome = "raised"
                 \/ ~Acknowledges(outcome) /\ Settling(source) = "raise")
      <4> DEFINE m == batch[i][pos[i] + 1]
      <4>1. where' = where /\ (done' = done \/ done' = done \cup {m})
        BY <2>2, <3>2 DEF DispatchOne
      <4>2. m \in Messages
        <5>1. pos[i] \in Nat /\ batch[i] \in Seq(Messages) /\ pos[i] < Len(batch[i])
          BY <2>0, <2>2 DEF HostShape, DispatchOne
        <5>2. pos[i] + 1 \in 1 .. Len(batch[i])
          BY <5>1, LenProperties
        <5> QED
          BY <5>1, <5>2, LenProperties
      <4>3. HostSettled' = HostSettled
        BY <4>1 DEF HostSettled
      <4> HIDE DEF m
      <4> QED
        BY <4>1, <4>2, <4>3 DEF HostPromise!Next, HostPromise!HandleOne
    <3> QED
      BY <3>1, <3>2
  <2>3. ASSUME NEW i \in Instances, Invoke(i) PROVE done' = done /\ HostSettled' = HostSettled
    <3>1. done' = done
      BY <2>3 DEF Invoke
    <3>2. PICK n \in 1 .. (IF source \in Batched THEN BatchSize ELSE 1) :
            \E got \in [1 .. n -> Ready] :
              where' = [m \in Messages |-> IF m \in {got[k] : k \in 1 .. n} THEN "out" ELSE where[m]]
      BY <2>3 DEF Invoke
    <3>3. PICK got \in [1 .. n -> Ready] :
              where' = [m \in Messages |-> IF m \in {got[k] : k \in 1 .. n} THEN "out" ELSE where[m]]
      BY <3>2
    <3>4. \A k \in 1 .. n : where[got[k]] = "ready"
      BY DEF Ready
    <3> QED
      BY <3>1, <3>3, <3>4 DEF HostSettled
  <2>4. ASSUME NEW m \in Messages, GiveUp(m) PROVE done' = done /\ HostSettled' = HostSettled
    BY <2>0, <2>4 DEF GiveUp, HostSettled, HostTypeOK
  <2>5. ASSUME NEW i \in Instances, Return(i) \/ Crash(i) PROVE HostPromise!Next
    BY <2>1, <2>5 DEF Return, Crash
  <2>6. CASE UNCHANGED hostVars
    BY <2>6 DEF hostVars, HostSettled
  <2> QED
    BY <2>2, <2>3, <2>4, <2>5, <2>6 DEF HostNext, InstanceStep
<1> QED
  BY <1>1, <1>2, BatchStarts, HostNextHolds, PTL DEF HostSpec, HostAtLeastOnce, HostPromise!Spec

-----------------------------------------------------------------------------
(***************************************************************************)
(* MeshInbox.                                                              *)
(***************************************************************************)
Drain == {"listing", "reading", "deleting"}
Passes == Drain \cup {"idle", "ingesting", "publishing"}

\* The exporters' queues: nothing in them, and nothing they lost, is yet to be made.
QueueInv ==
    /\ made \in Nat /\ queue \in [Writers -> Seq(Nat)] /\ dropped \in [Writers -> SUBSET Nat]
    /\ QueueKeepsNewest
    /\ \A w \in Writers : /\ \A e \in ToSet(queue[w]) : e <= made
                          /\ \A d \in dropped[w] : d <= made

\* The site: no document is of a generation to come.
SiteInv ==
    /\ generation \in Nat /\ inboxTrouble \in Nat /\ site \in [DOMAIN Artifacts -> Nat]
    /\ \A n \in DOMAIN Artifacts : site[n] <= generation
    /\ SiteInOrder
    /\ pass # "publishing" /\ inboxTrouble = 0 => \A n \in DOMAIN Artifacts : site[n] = generation

InboxShape ==
    /\ usedKeys \subseteq Keys /\ DOMAIN objects \subseteq usedKeys
    /\ \A k \in DOMAIN objects : objects[k] \in Seq(Nat)
    /\ pass \in Passes /\ token \in Nat /\ page \in Seq(Nat) /\ read \subseteq Nat
    /\ bodies \in Seq(Nat) /\ saved \in Seq(Nat)

\* Up to its delete a pass holds the events of the objects it read, all of them and no
\* others, which are still in the bucket; what it has yet to read of a page is none of
\* them.
DrainExact ==
    /\ pass \in Drain =>
         /\ \A k \in read : k \in DOMAIN objects /\ k <= token /\ ToSet(objects[k]) \subseteq ToSet(bodies)
         /\ \A e \in ToSet(bodies) : \E k \in read : e \in ToSet(objects[k])
    /\ pass \in {"idle", "publishing"} => bodies = <<>>
    /\ pass = "reading" =>
         /\ page # <<>>
         /\ \A i \in DOMAIN page : page[i] \in DOMAIN objects \ read /\ page[i] <= token
         /\ IsInjective(page)

\* Every event is in one queue, or was pushed in one object.
EventsApart ==
    /\ \A k \in DOMAIN objects : /\ IsInjective(objects[k])
                                 /\ \A e \in ToSet(objects[k]) : e <= made
                                 /\ \A l \in DOMAIN objects \ {k} : ToSet(objects[k]) \cap ToSet(objects[l]) = {}
    /\ IsInjective(bodies)
    /\ \A e \in ToSet(bodies) \cup ToSet(saved) : e <= made
    /\ \A w \in Writers :
         /\ \A v \in Writers \ {w} : ToSet(queue[w]) \cap ToSet(queue[v]) = {}
         /\ \A k \in DOMAIN objects : ToSet(queue[w]) \cap ToSet(objects[k]) = {}
         /\ ToSet(queue[w]) \cap (ToSet(bodies) \cup ToSet(saved)) = {}

\* If every delete deleted, what is saved is in the bucket no more, nor is what a pass
\* is about to save.
SavedIsGone ==
    kept = {} =>
        /\ IsInjective(saved)
        /\ ToSet(bodies) \cap ToSet(saved) = {}
        /\ \A k \in DOMAIN objects : ToSet(objects[k]) \cap ToSet(saved) = {}
        /\ pass = "ingesting" => \A k \in DOMAIN objects : ToSet(objects[k]) \cap ToSet(bodies) = {}

\* PushedIsSomewhere, by membership.
PushedKept ==
    \A e \in pushed : \/ \E k \in DOMAIN objects : e \in ToSet(objects[k])
                      \/ e \in ToSet(bodies) \/ e \in ToSet(saved) \/ e \in lost

FlowInv == InboxShape /\ DrainExact /\ EventsApart /\ SavedIsGone /\ PushedKept

\* A refused delete named more keys than a call takes, and they are all still there: each
\* drain behind it has read such a key, has it on its page or has yet to list it.
RefusedInv ==
    /\ RefusedStays /\ IsFiniteSet(read)
    /\ refused # {} => IsFiniteSet(refused) /\ Cardinality(refused) > PageSize
    /\ \A k \in refused :
         /\ pass = "listing" => k \in read \/ k > token
         /\ pass = "reading" => k \in read \/ (truncated /\ k > token) \/ \E i \in DOMAIN page : page[i] = k
         /\ pass = "deleting" => k \in read

-----------------------------------------------------------------------------
\* A place in a list is the last one or has one after it.
LEMMA LastOrBefore ==
    ASSUME NEW n \in Nat, NEW i \in 1 .. n
    PROVE  i = n \/ (i \in 1 .. n - 1 /\ i + 1 \in 1 .. n /\ i < n)
OBVIOUS

\* A place in a list with one more element is the new one or an old one.
LEMMA NewOrOld == ASSUME NEW n \in Nat, NEW i \in 1 .. n + 1 PROVE i = n + 1 \/ i \in 1 .. n
OBVIOUS

\* The events of a sequence that grows or shrinks.
LEMMA EmptyEvents == ToSet(<<>>) = {} /\ IsInjective(<<>>) /\ <<>> \in Seq(Nat)
BY DEF ToSet, IsInjective

LEMMA AppendEvents ==
    ASSUME NEW s \in Seq(Nat), NEW e \in Nat
    PROVE  Append(s, e) \in Seq(Nat) /\ ToSet(Append(s, e)) = ToSet(s) \cup {e}
BY AppendProperties DEF ToSet

LEMMA TailEvents ==
    ASSUME NEW s \in Seq(Nat), s # <<>>
    PROVE  /\ Tail(s) \in Seq(Nat) /\ Head(s) \in ToSet(s) /\ ToSet(Tail(s)) \subseteq ToSet(s)
           /\ ToSet(s) = ToSet(Tail(s)) \cup {Head(s)}
           /\ IsInjective(s) => IsInjective(Tail(s)) /\ Head(s) \notin ToSet(Tail(s))
<1>1. /\ Len(s) \in Nat \ {0} /\ DOMAIN s = 1 .. Len(s)
      /\ Tail(s) \in Seq(Nat) /\ Len(Tail(s)) = Len(s) - 1 /\ DOMAIN Tail(s) = 1 .. Len(s) - 1
      /\ Head(s) = s[1]
      /\ \A i \in 1 .. Len(s) - 1 : Tail(s)[i] = s[i + 1]
  BY HeadTailProperties, EmptySeq, LenProperties
<1>2. \A i \in DOMAIN Tail(s) : i + 1 \in DOMAIN s /\ Tail(s)[i] = s[i + 1]
  BY <1>1
<1>3. \A i \in DOMAIN s : i = 1 \/ (i - 1 \in DOMAIN Tail(s) /\ Tail(s)[i - 1] = s[i])
  BY <1>1
<1>4. Head(s) \in ToSet(s) /\ ToSet(Tail(s)) \subseteq ToSet(s)
  BY <1>1, <1>2 DEF ToSet
<1>5. ToSet(s) \subseteq ToSet(Tail(s)) \cup {Head(s)}
  <2> SUFFICES ASSUME NEW i \in DOMAIN s PROVE s[i] \in ToSet(Tail(s)) \cup {Head(s)}
    BY DEF ToSet
  <2>1. CASE i = 1
    BY <1>1, <2>1
  <2>2. CASE i - 1 \in DOMAIN Tail(s) /\ Tail(s)[i - 1] = s[i]
    BY <2>2 DEF ToSet
  <2> QED
    BY <1>3, <2>1, <2>2
<1>6. ASSUME IsInjective(s) PROVE IsInjective(Tail(s)) /\ Head(s) \notin ToSet(Tail(s))
  <2>1. ASSUME NEW a \in DOMAIN Tail(s), NEW b \in DOMAIN Tail(s), Tail(s)[a] = Tail(s)[b] PROVE a = b
    <3>1. a + 1 = b + 1
      BY <1>2, <1>6, <2>1 DEF IsInjective
    <3> QED
      BY <1>1, <3>1
  <2>2. ASSUME NEW a \in DOMAIN Tail(s), Tail(s)[a] = Head(s) PROVE FALSE
    <3>1. a + 1 = 1
      BY <1>1, <1>2, <1>6, <2>2 DEF IsInjective
    <3> QED
      BY <1>1, <3>1
  <2> QED
    BY <2>1, <2>2 DEF IsInjective, ToSet
<1> QED
  BY <1>1, <1>4, <1>5, <1>6

LEMMA ConcatEvents ==
    ASSUME NEW s \in Seq(Nat), NEW t \in Seq(Nat)
    PROVE  /\ s \o t \in Seq(Nat) /\ ToSet(s \o t) = ToSet(s) \cup ToSet(t)
           /\ IsInjective(s) /\ IsInjective(t) /\ ToSet(s) \cap ToSet(t) = {} => IsInjective(s \o t)
<1>1. /\ s \o t \in Seq(Nat) /\ Len(s \o t) = Len(s) + Len(t)
      /\ \A i \in 1 .. Len(s) + Len(t) : (s \o t)[i] = IF i <= Len(s) THEN s[i] ELSE t[i - Len(s)]
  BY ConcatProperties
<1>2. /\ Len(s) \in Nat /\ Len(t) \in Nat /\ DOMAIN s = 1 .. Len(s) /\ DOMAIN t = 1 .. Len(t)
      /\ DOMAIN (s \o t) = 1 .. Len(s) + Len(t)
  BY <1>1, LenProperties
<1>3. \A i \in DOMAIN (s \o t) : \/ i \in DOMAIN s /\ (s \o t)[i] = s[i]
                                 \/ i - Len(s) \in DOMAIN t /\ (s \o t)[i] = t[i - Len(s)]
  BY <1>1, <1>2
<1>4. /\ \A i \in DOMAIN s : i \in DOMAIN (s \o t) /\ (s \o t)[i] = s[i]
      /\ \A i \in DOMAIN t : i + Len(s) \in DOMAIN (s \o t) /\ (s \o t)[i + Len(s)] = t[i]
  BY <1>1, <1>2
<1>5. ToSet(s \o t) = ToSet(s) \cup ToSet(t)
  <2>1. \A i \in DOMAIN (s \o t) : (s \o t)[i] \in ToSet(s) \cup ToSet(t)
    BY <1>3 DEF ToSet
  <2>2. \A i \in DOMAIN s : s[i] \in ToSet(s \o t)
    BY <1>4 DEF ToSet
  <2>3. \A i \in DOMAIN t : t[i] \in ToSet(s \o t)
    BY <1>4 DEF ToSet
  <2> QED
    BY <2>1, <2>2, <2>3 DEF ToSet
<1>6. ASSUME IsInjective(s), IsInjective(t), ToSet(s) \cap ToSet(t) = {},
             NEW a \in DOMAIN (s \o t), NEW b \in DOMAIN (s \o t), (s \o t)[a] = (s \o t)[b]
      PROVE  a = b
  <2>1. \A i \in DOMAIN s, j \in DOMAIN t : s[i] # t[j]
    BY <1>6 DEF ToSet
  <2>2. CASE a \in DOMAIN s /\ (s \o t)[a] = s[a] /\ b \in DOMAIN s /\ (s \o t)[b] = s[b]
    BY <1>6, <2>2 DEF IsInjective
  <2>3. CASE /\ a - Len(s) \in DOMAIN t /\ (s \o t)[a] = t[a - Len(s)]
             /\ b - Len(s) \in DOMAIN t /\ (s \o t)[b] = t[b - Len(s)]
    <3>1. a - Len(s) = b - Len(s)
      BY <1>6, <2>3 DEF IsInjective
    <3> QED
      BY <1>2, <3>1
  <2> QED
    BY <1>3, <1>6, <2>1, <2>2, <2>3
<1> QED
  BY <1>1, <1>5, <1>6 DEF IsInjective

-----------------------------------------------------------------------------
\* The bucket is empty, and so are the queues.
LEMMA InboxStarts == InboxInit => QueueInv /\ SiteInv /\ FlowInv /\ RefusedInv
<1> SUFFICES ASSUME InboxInit PROVE QueueInv /\ SiteInv /\ FlowInv /\ RefusedInv
  OBVIOUS
<1>1. QueueInv
  BY InboxAssumption, EmptyEvents DEF InboxInit, QueueInv, QueueKeepsNewest
<1>2. SiteInv
  BY InboxAssumption DEF InboxInit, SiteInv, SiteInOrder
<1>3. InboxShape
  BY EmptyEvents DEF InboxInit, InboxShape, Passes, Drain
<1>4. DrainExact
  BY DEF InboxInit, DrainExact, Drain
<1>5. EventsApart /\ SavedIsGone /\ PushedKept
  BY EmptyEvents DEF InboxInit, EventsApart, SavedIsGone, PushedKept
<1>6. RefusedInv
  BY FS_EmptySet DEF InboxInit, RefusedInv, RefusedStays
<1> QED
  BY <1>1, <1>2, <1>3, <1>4, <1>5, <1>6 DEF FlowInv

\* trace_middleware: a full queue loses its oldest event to the newest.
LEMMA ExportQueues == ASSUME QueueInv, NEW w \in Writers, Export(w) PROVE QueueInv'
<1>0. /\ made' = made + 1 /\ made \in Nat /\ queue[w] \in Seq(Nat) /\ QueueSize \in Nat \ {0}
      /\ Len(queue[w]) \in Nat /\ DOMAIN queue[w] = 1 .. Len(queue[w]) /\ Len(queue[w]) <= QueueSize
  BY InboxAssumption, LenProperties DEF Export, QueueInv, QueueKeepsNewest
<1>1. /\ \A i \in DOMAIN queue[w] : queue[w][i] \in Nat /\ queue[w][i] <= made
      /\ \A d \in dropped[w] : d \in Nat /\ d <= made
      /\ \A i, j \in DOMAIN queue[w] : i < j => queue[w][i] < queue[w][j]
      /\ \A d \in dropped[w], i \in DOMAIN queue[w] : d < queue[w][i]
  <2>1. \A i \in DOMAIN queue[w] : queue[w][i] \in ToSet(queue[w]) /\ queue[w][i] \in Nat
    BY <1>0, ElementOfSeq DEF ToSet
  <2>2. \A d \in dropped[w] : d \in Nat /\ d <= made
    BY DEF QueueInv
  <2>3. \A e \in ToSet(queue[w]) : e <= made
    BY DEF QueueInv
  <2> QED
    BY <2>1, <2>2, <2>3 DEF QueueInv, QueueKeepsNewest
<1>2. PICK q \in Seq(Nat), lostNow \in SUBSET Nat :
          /\ queue' = [queue EXCEPT ![w] = q]
          /\ dropped' = [dropped EXCEPT ![w] = @ \cup lostNow]
          /\ Len(q) <= QueueSize
          /\ \A i, j \in DOMAIN q : i < j => q[i] < q[j]
          /\ \A d \in dropped[w] \cup lostNow, i \in DOMAIN q : d < q[i]
          /\ \A e \in ToSet(q) : e <= made + 1
          /\ \A d \in lostNow : d <= made + 1
  <2>1. CASE Len(queue[w]) = QueueSize
    <3> DEFINE s == queue[w]
               q == Append(Tail(s), made + 1)
    <3>1. queue' = [queue EXCEPT ![w] = q] /\ dropped' = [dropped EXCEPT ![w] = @ \cup {Head(s)}]
      BY <2>1 DEF Export
    <3>2. s # <<>>
      BY <1>0, <2>1
    <3>3. /\ Tail(s) \in Seq(Nat) /\ Len(Tail(s)) = Len(s) - 1 /\ Head(s) = s[1]
          /\ \A i \in 1 .. Len(s) - 1 : Tail(s)[i] = s[i + 1]
      BY <1>0, <3>2, HeadTailProperties
    <3>4. /\ q \in Seq(Nat) /\ Len(q) = Len(s) /\ q[Len(s)] = made + 1
          /\ \A i \in 1 .. Len(s) - 1 : q[i] = s[i + 1]
      BY <1>0, <3>3, AppendProperties
    <3>5. DOMAIN q = 1 .. Len(s)
      BY <3>4, LenProperties
    <3> HIDE DEF q
    <3>6. \A i \in DOMAIN q : \/ i = Len(s) /\ q[i] = made + 1
                              \/ i + 1 \in DOMAIN s /\ q[i] = s[i + 1] /\ i < Len(s)
      <4> SUFFICES ASSUME NEW i \in 1 .. Len(s)
                   PROVE  \/ i = Len(s) /\ q[i] = made + 1
                          \/ i + 1 \in DOMAIN s /\ q[i] = s[i + 1] /\ i < Len(s)
        BY <3>5
      <4>1. Len(s) \in Nat /\ DOMAIN s = 1 .. Len(s)
        BY <1>0
      <4>2. i = Len(s) \/ (i \in 1 .. Len(s) - 1 /\ i + 1 \in 1 .. Len(s) /\ i < Len(s))
        BY <4>1, LastOrBefore
      <4> QED
        BY <3>4, <4>1, <4>2
    <3>7. 1 \in DOMAIN s /\ s[1] \in Nat /\ s[1] <= made
      BY <1>0, <1>1, <2>1
    <3>8. \A i, j \in DOMAIN q : i < j => q[i] < q[j]
      <4> SUFFICES ASSUME NEW i \in DOMAIN q, NEW j \in DOMAIN q, i < j PROVE q[i] < q[j]
        OBVIOUS
      <4>1. i \in Nat /\ j \in Nat /\ j <= Len(s) /\ i < Len(s)
        BY <1>0, <3>5
      <4>2. i + 1 \in DOMAIN s /\ q[i] = s[i + 1]
        BY <1>0, <3>6, <4>1
      <4>3. CASE q[j] = made + 1
        BY <1>0, <1>1, <4>2, <4>3
      <4>4. CASE j + 1 \in DOMAIN s /\ q[j] = s[j + 1]
        BY <1>1, <4>1, <4>2, <4>4
      <4> QED
        BY <3>6, <4>3, <4>4
    <3>9. \A d \in dropped[w] \cup {Head(s)}, i \in DOMAIN q : d < q[i]
      <4> SUFFICES ASSUME NEW d \in dropped[w] \cup {s[1]}, NEW i \in DOMAIN q PROVE d < q[i]
        BY <3>3
      <4>1. d \in Nat /\ d <= made
        BY <1>1, <3>7
      <4>2. CASE q[i] = made + 1
        BY <1>0, <4>1, <4>2
      <4>3. CASE i + 1 \in DOMAIN s /\ q[i] = s[i + 1]
        <5>1. i + 1 > 1
          BY <3>5
        <5> QED
          BY <1>1, <3>7, <4>3, <5>1
      <4> QED
        BY <3>6, <4>2, <4>3
    <3>10. \A e \in ToSet(q) : e <= made + 1
      <4>1. \A i \in DOMAIN q : q[i] <= made + 1
        BY <1>0, <1>1, <3>6
      <4> QED
        BY <4>1 DEF ToSet
    <3>11. \A d \in {Head(s)} : d <= made + 1 /\ d \in Nat
      BY <1>0, <3>3, <3>7
    <3>12. Len(q) <= QueueSize
      BY <2>1, <3>4, <1>0
    <3> q \in Seq(Nat) /\ {Head(s)} \in SUBSET Nat
      BY <3>4, <3>11
    <3> WITNESS q \in Seq(Nat), {Head(s)} \in SUBSET Nat
    <3> QED
      BY <3>1, <3>8, <3>9, <3>10, <3>11, <3>12
  <2>2. CASE Len(queue[w]) # QueueSize
    <3> DEFINE s == queue[w]
               q == Append(s, made + 1)
    <3>1. queue' = [queue EXCEPT ![w] = q] /\ dropped' = dropped
      BY <2>2 DEF Export
    <3>2. dropped' = [dropped EXCEPT ![w] = @ \cup {}]
      BY <3>1 DEF QueueInv
    <3>3. /\ q \in Seq(Nat) /\ Len(q) = Len(s) + 1 /\ q[Len(s) + 1] = made + 1
          /\ \A i \in 1 .. Len(s) : q[i] = s[i]
      BY <1>0, AppendProperties
    <3>4. DOMAIN q = 1 .. Len(s) + 1
      BY <3>3, LenProperties
    <3> HIDE DEF q
    <3>5. \A i \in DOMAIN q : \/ i = Len(s) + 1 /\ q[i] = made + 1
                              \/ i \in DOMAIN s /\ q[i] = s[i]
      <4> SUFFICES ASSUME NEW i \in 1 .. Len(s) + 1
                   PROVE  (i = Len(s) + 1 /\ q[i] = made + 1) \/ (i \in DOMAIN s /\ q[i] = s[i])
        BY <3>4
      <4>1. Len(s) \in Nat /\ DOMAIN s = 1 .. Len(s)
        BY <1>0
      <4>2. i = Len(s) + 1 \/ i \in 1 .. Len(s)
        BY <4>1, NewOrOld
      <4> QED
        BY <3>3, <4>1, <4>2
    <3>6. Len(q) <= QueueSize
      BY <1>0, <2>2, <3>3
    <3>7. \A i, j \in DOMAIN q : i < j => q[i] < q[j]
      <4> SUFFICES ASSUME NEW i \in DOMAIN q, NEW j \in DOMAIN q, i < j PROVE q[i] < q[j]
        OBVIOUS
      <4>1. i \in DOMAIN s /\ q[i] = s[i]
        BY <1>0, <3>4, <3>5
      <4>2. CASE q[j] = made + 1
        BY <1>0, <1>1, <4>1, <4>2
      <4>3. CASE j \in DOMAIN s /\ q[j] = s[j]
        BY <1>1, <4>1, <4>3
      <4> QED
        BY <3>5, <4>2, <4>3
    <3>8. \A d \in dropped[w] \cup {}, i \in DOMAIN q : d < q[i]
      BY <1>0, <1>1, <3>5
    <3>9. \A e \in ToSet(q) : e <= made + 1
      <4>1. \A i \in DOMAIN q : q[i] <= made + 1
        BY <1>0, <1>1, <3>5
      <4> QED
        BY <4>1 DEF ToSet
    <3> q \in Seq(Nat) /\ {} \in SUBSET Nat
      BY <3>3
    <3> WITNESS q \in Seq(Nat), {} \in SUBSET Nat
    <3> QED
      BY <3>1, <3>2, <3>6, <3>7, <3>8, <3>9
  <2> QED
    BY <2>1, <2>2
<1>3. queue' \in [Writers -> Seq(Nat)] /\ dropped' \in [Writers -> SUBSET Nat]
  BY <1>2 DEF QueueInv
<1>4. /\ queue'[w] = q /\ dropped'[w] = dropped[w] \cup lostNow
      /\ \A v \in Writers \ {w} : queue'[v] = queue[v] /\ dropped'[v] = dropped[v]
  BY <1>2 DEF QueueInv
<1>5. \A v \in Writers : /\ \A e \in ToSet(queue[v]) : e \in Nat /\ e <= made
                         /\ \A d \in dropped[v] : d \in Nat /\ d <= made
  <2>1. \A v \in Writers : \A e \in ToSet(queue[v]) : e \in Nat
    <3> SUFFICES ASSUME NEW v \in Writers PROVE \A e \in ToSet(queue[v]) : e \in Nat
      OBVIOUS
    <3>1. queue[v] \in Seq(Nat)
      BY DEF QueueInv
    <3> QED
      BY <3>1, LenProperties DEF ToSet
  <2> QED
    BY <2>1 DEF QueueInv
<1>6. \A v \in Writers : /\ \A e \in ToSet(queue'[v]) : e <= made'
                         /\ \A d \in dropped'[v] : d <= made'
  <2>1. \A x \in Nat : x <= made => x <= made + 1
    BY <1>0
  <2> QED
    BY <1>0, <1>2, <1>4, <1>5, <2>1
<1>7. QueueKeepsNewest'
  <2> SUFFICES ASSUME NEW v \in Writers
               PROVE  /\ Len(queue'[v]) <= QueueSize
                      /\ \A i, j \in DOMAIN queue'[v] : i < j => queue'[v][i] < queue'[v][j]
                      /\ \A d \in dropped'[v], i \in DOMAIN queue'[v] : d < queue'[v][i]
    BY DEF QueueKeepsNewest
  <2>1. CASE v = w
    BY <1>2, <1>4, <2>1
  <2>2. CASE v # w
    BY <1>4, <2>2 DEF QueueInv, QueueKeepsNewest
  <2> QED
    BY <2>1, <2>2
<1> QED
  BY <1>0, <1>3, <1>6, <1>7 DEF QueueInv

\* The events of a sequence are numbers.
LEMMA EventsAreNumbers == ASSUME NEW s \in Seq(Nat) PROVE ToSet(s) \subseteq Nat
BY LenProperties, ElementOfSeq DEF ToSet

\* A drained queue is empty, whether its push was answered or failed.
LEMMA DrainedQueues ==
    ASSUME QueueInv, NEW w \in Writers, queue' = [queue EXCEPT ![w] = <<>>], made' = made,
           NEW D \in SUBSET ToSet(queue[w]), dropped' = [dropped EXCEPT ![w] = @ \cup D]
    PROVE  QueueInv'
<1>1. D \subseteq Nat /\ \A d \in D : d <= made
  BY EventsAreNumbers DEF QueueInv
<1>2. queue' \in [Writers -> Seq(Nat)] /\ dropped' \in [Writers -> SUBSET Nat]
  BY <1>1, EmptySeq DEF QueueInv
<1>3. /\ queue'[w] = <<>> /\ dropped'[w] = dropped[w] \cup D
      /\ \A v \in Writers \ {w} : queue'[v] = queue[v] /\ dropped'[v] = dropped[v]
  BY DEF QueueInv
<1>4. /\ Len(queue'[w]) <= QueueSize /\ DOMAIN queue'[w] = {} /\ ToSet(queue'[w]) = {}
  BY <1>3, InboxAssumption, EmptyEvents
<1>5. QueueKeepsNewest'
  BY <1>3, <1>4 DEF QueueInv, QueueKeepsNewest
<1>6. \A v \in Writers : /\ \A e \in ToSet(queue'[v]) : e <= made'
                         /\ \A d \in dropped'[v] : d <= made'
  BY <1>1, <1>3, <1>4 DEF QueueInv
<1> QED
  BY <1>2, <1>5, <1>6 DEF QueueInv

\* The queues stay in order, whatever the pass does.
LEMMA QueueHolds == QueueInv /\ [InboxNext]_inboxVars => QueueInv'
<1> SUFFICES ASSUME QueueInv, [InboxNext]_inboxVars PROVE QueueInv'
  OBVIOUS
<1>1. CASE UNCHANGED <<made, queue, dropped>>
  BY <1>1 DEF QueueInv, QueueKeepsNewest
<1>2. ASSUME NEW w \in Writers, Push(w) \/ PushFails(w) PROVE QueueInv'
  <2>1. queue' = [queue EXCEPT ![w] = <<>>] /\ made' = made
    BY <1>2 DEF Push, PushFails
  <2>2. CASE Push(w)
    <3>1. dropped' = [dropped EXCEPT ![w] = @ \cup {}]
      BY <2>2 DEF Push, QueueInv
    <3>2. {} \in SUBSET ToSet(queue[w])
      OBVIOUS
    <3> QED
      BY <2>1, <3>1, <3>2, DrainedQueues
  <2>3. CASE PushFails(w)
    BY <2>1, <2>3, DrainedQueues DEF PushFails
  <2> QED
    BY <1>2, <2>2, <2>3
<1> QED
  BY <1>1, <1>2, ExportQueues
  DEF InboxNext, PassStep, Begin, List, ReadOne, Delete, DeleteRefused, IngestDrained, PublishOne, DeleteSome,
      KillPass, inboxVars

\* Each pass writes the documents in their order.
LEMMA SiteHolds == SiteInv /\ [InboxNext]_inboxVars => SiteInv'
<1> SUFFICES ASSUME SiteInv, [InboxNext]_inboxVars PROVE SiteInv'
  OBVIOUS
<1>0. DOMAIN Artifacts = 1 .. Len(Artifacts) /\ Len(Artifacts) \in Nat
  BY InboxAssumption, LenProperties
<1>1. CASE /\ UNCHANGED <<site, generation>> /\ inboxTrouble' \in Nat
           /\ inboxTrouble' = 0 => inboxTrouble = 0
           /\ pass' # "publishing" => pass # "publishing"
  BY <1>1 DEF SiteInv, SiteInOrder
<1>2. CASE IngestDrained
  BY <1>0, <1>2 DEF IngestDrained, SiteInv, SiteInOrder
<1>3. CASE KillPass
  BY <1>0, <1>3 DEF KillPass, Trouble, SiteInv, SiteInOrder
<1>4. CASE PublishOne
  <2>1. CASE UNCHANGED site
    BY <1>4, <2>1 DEF PublishOne, SiteInv, SiteInOrder
  <2>2. ASSUME NEW n \in DOMAIN Artifacts, \A m \in 1 .. n - 1 : site[m] = generation,
               site' = [site EXCEPT ![n] = generation], pass' = pass
        PROVE  SiteInv'
    <3>1. UNCHANGED <<generation, inboxTrouble>> /\ pass = "publishing"
      BY <1>4 DEF PublishOne
    <3>2. site' \in [DOMAIN Artifacts -> Nat] /\ \A m \in DOMAIN Artifacts : site'[m] <= generation'
      BY <2>2, <3>1 DEF SiteInv
    <3>3. \A a, b \in DOMAIN Artifacts : a < b => site'[a] >= site'[b]
      <4> SUFFICES ASSUME NEW a \in DOMAIN Artifacts, NEW b \in DOMAIN Artifacts, a < b
                   PROVE  site'[a] >= site'[b]
        OBVIOUS
      <4>1. CASE a = n
        BY <2>2, <3>1, <3>2, <4>1 DEF SiteInv
      <4>2. CASE b = n
        <5>1. a \in 1 .. n - 1
          BY <1>0, <4>2
        <5> QED
          BY <2>2, <3>1, <3>2, <5>1 DEF SiteInv
      <4>3. CASE a # n /\ b # n
        BY <2>2, <4>3 DEF SiteInv, SiteInOrder
      <4> QED
        BY <4>1, <4>2, <4>3
    <3> QED
      BY <2>2, <3>1, <3>2, <3>3 DEF SiteInv, SiteInOrder
  <2> QED
    BY <1>4, <2>1, <2>2 DEF PublishOne
<1>5. ASSUME NEW w \in Writers, Export(w) \/ Push(w) \/ PushFails(w) PROVE SiteInv'
  BY <1>1, <1>5 DEF Export, Push, PushFails, Trouble, SiteInv
<1>6. CASE Begin \/ List \/ ReadOne \/ Delete \/ DeleteRefused \/ DeleteSome
  <2>1. UNCHANGED <<site, generation>>
    BY <1>6 DEF Begin, List, ReadOne, Delete, DeleteRefused, DeleteSome
  <2>2. inboxTrouble' = inboxTrouble \/ inboxTrouble' = inboxTrouble + 1
    BY <1>6 DEF Begin, List, ReadOne, Delete, DeleteRefused, DeleteSome, Trouble
  <2>3. pass # "publishing"
    BY <1>6 DEF Begin, List, ReadOne, Delete, DeleteRefused, DeleteSome
  <2> QED
    BY <1>1, <2>1, <2>2, <2>3 DEF SiteInv
<1>7. CASE UNCHANGED inboxVars
  BY <1>1, <1>7 DEF inboxVars, SiteInv
<1> QED
  BY <1>2, <1>3, <1>4, <1>5, <1>6, <1>7 DEF InboxNext, PassStep

\* A queue gains at most the event just made, or is emptied.
LEMMA QueuesFlow ==
    ASSUME QueueInv, FlowInv, NEW w \in Writers, made' \in Nat, made <= made',
           \A v \in Writers \ {w} : queue'[v] = queue[v],
           \A e \in ToSet(queue'[w]) : e \in ToSet(queue[w]) \/ e = made + 1,
           UNCHANGED <<objects, usedKeys, pass, token, page, read, bodies, saved, pushed, lost, kept>>
    PROVE  FlowInv'
<1>1. InboxShape' /\ DrainExact' /\ SavedIsGone' /\ PushedKept'
  BY DEF FlowInv, InboxShape, DrainExact, SavedIsGone, PushedKept
<1>2. /\ ToSet(bodies) \cup ToSet(saved) \subseteq Nat
      /\ \A k \in DOMAIN objects : ToSet(objects[k]) \subseteq Nat
      /\ \A v \in Writers : ToSet(queue[v]) \subseteq Nat
  BY EventsAreNumbers DEF FlowInv, InboxShape, QueueInv
<1>3. \A x \in Nat : x <= made => x <= made' /\ x # made + 1
  BY DEF QueueInv
<1>4. /\ \A e \in ToSet(bodies) \cup ToSet(saved) : e <= made' /\ e # made + 1
      /\ \A k \in DOMAIN objects : \A e \in ToSet(objects[k]) : e <= made' /\ e # made + 1
      /\ \A v \in Writers : \A e \in ToSet(queue[v]) : e # made + 1
  BY <1>2, <1>3 DEF FlowInv, EventsApart, QueueInv
<1>5. \A v \in Writers \ {w} : ToSet(queue'[w]) \cap ToSet(queue'[v]) = {}
  BY <1>4 DEF FlowInv, EventsApart
<1>6. \A k \in DOMAIN objects : ToSet(queue'[w]) \cap ToSet(objects[k]) = {}
  BY <1>4 DEF FlowInv, EventsApart
<1>7. ToSet(queue'[w]) \cap (ToSet(bodies) \cup ToSet(saved)) = {}
  BY <1>4 DEF FlowInv, EventsApart
<1>8. \A v \in Writers :
         /\ \A u \in Writers \ {v} : ToSet(queue'[v]) \cap ToSet(queue'[u]) = {}
         /\ \A k \in DOMAIN objects : ToSet(queue'[v]) \cap ToSet(objects[k]) = {}
         /\ ToSet(queue'[v]) \cap (ToSet(bodies) \cup ToSet(saved)) = {}
  BY <1>5, <1>6, <1>7 DEF FlowInv, EventsApart
<1>9. EventsApart'
  BY <1>4, <1>8 DEF FlowInv, EventsApart
<1> QED
  BY <1>1, <1>9 DEF FlowInv

LEMMA ExportFlows ==
    ASSUME QueueInv, FlowInv, NEW w \in Writers, Export(w) \/ PushFails(w)
    PROVE  FlowInv'
<1>1. UNCHANGED <<objects, usedKeys, pass, token, page, read, bodies, saved, pushed, lost, kept>>
  BY DEF Export, PushFails
<1>2. made' \in Nat /\ made <= made' /\ made + 1 \in Nat /\ queue[w] \in Seq(Nat)
  BY DEF Export, PushFails, QueueInv
<1>3. \A v \in Writers \ {w} : queue'[v] = queue[v]
  BY DEF Export, PushFails, QueueInv
<1>4. \A e \in ToSet(queue'[w]) : e \in ToSet(queue[w]) \/ e = made + 1
  <2>1. CASE PushFails(w)
    BY <2>1, EmptyEvents DEF PushFails, QueueInv
  <2>2. CASE Export(w) /\ Len(queue[w]) = QueueSize
    <3>1. queue'[w] = Append(Tail(queue[w]), made + 1)
      BY <2>2 DEF Export, QueueInv
    <3>2. queue[w] # <<>>
      BY <2>2, InboxAssumption
    <3>3. Tail(queue[w]) \in Seq(Nat) /\ ToSet(Tail(queue[w])) \subseteq ToSet(queue[w])
      BY <1>2, <3>2, TailEvents
    <3>4. ToSet(Append(Tail(queue[w]), made + 1)) = ToSet(Tail(queue[w])) \cup {made + 1}
      BY <1>2, <3>3, AppendEvents
    <3> QED
      BY <3>1, <3>3, <3>4
  <2>3. CASE Export(w) /\ Len(queue[w]) # QueueSize
    <3>1. queue'[w] = Append(queue[w], made + 1)
      BY <2>3 DEF Export, QueueInv
    <3> QED
      BY <1>2, <3>1, AppendEvents
  <2> QED
    BY <2>1, <2>2, <2>3
<1> QED
  BY <1>1, <1>2, <1>3, <1>4, QueuesFlow

\* A push lands under a fresh key, wherever a drain is.
LEMMA PushFlows == ASSUME QueueInv, FlowInv, NEW w \in Writers, Push(w) PROVE FlowInv'
<1>0. /\ UNCHANGED <<made, pass, token, page, read, bodies, saved, lost, kept>>
      /\ pushed' = pushed \cup ToSet(queue[w]) /\ queue' = [queue EXCEPT ![w] = <<>>]
  BY DEF Push
<1>1. PICK k \in Keys \ usedKeys :
         /\ objects' = [x \in DOMAIN objects \cup {k} |-> IF x = k THEN queue[w] ELSE objects[x]]
         /\ usedKeys' = usedKeys \cup {k}
  BY DEF Push
<1>2. /\ k \notin DOMAIN objects /\ DOMAIN objects' = DOMAIN objects \cup {k}
      /\ objects'[k] = queue[w] /\ \A x \in DOMAIN objects : objects'[x] = objects[x]
  BY <1>1 DEF FlowInv, InboxShape
<1>3. /\ queue[w] \in Seq(Nat) /\ queue'[w] = <<>> /\ ToSet(queue'[w]) = {}
      /\ \A v \in Writers \ {w} : queue'[v] = queue[v]
  BY <1>0, EmptyEvents DEF QueueInv
<1>4. IsInjective(queue[w])
  <2> SUFFICES ASSUME NEW a \in DOMAIN queue[w], NEW b \in DOMAIN queue[w], a # b, queue[w][a] = queue[w][b]
               PROVE  FALSE
    BY DEF IsInjective
  <2>1. a \in Nat /\ b \in Nat /\ queue[w][a] \in Nat
    BY <1>3, LenProperties, ElementOfSeq
  <2>2. a < b \/ b < a
    BY <2>1
  <2>3. queue[w][a] < queue[w][b] \/ queue[w][b] < queue[w][a]
    BY <2>2 DEF QueueInv, QueueKeepsNewest
  <2> QED
    BY <2>1, <2>3
<1>5. InboxShape'
  BY <1>0, <1>1, <1>2, <1>3 DEF FlowInv, InboxShape
<1>6. DrainExact'
  <2>1. DrainExact
    BY DEF FlowInv
  <2>2. pass \in Drain =>
          /\ \A x \in read : x \in DOMAIN objects' /\ x <= token /\ ToSet(objects'[x]) \subseteq ToSet(bodies)
          /\ \A e \in ToSet(bodies) : \E x \in read : e \in ToSet(objects'[x])
    BY <1>2, <2>1 DEF DrainExact
  <2>3. pass = "reading" => \A i \in DOMAIN page : page[i] \in DOMAIN objects' \ read /\ page[i] <= token
    BY <1>2, <2>1 DEF DrainExact
  <2> QED
    BY <1>0, <2>1, <2>2, <2>3 DEF DrainExact
<1>7. EventsApart'
  <2>0. EventsApart
    BY DEF FlowInv
  <2>1. \A x \in DOMAIN objects' : /\ IsInjective(objects'[x])
                                   /\ \A e \in ToSet(objects'[x]) : e <= made
    BY <1>2, <1>4, <2>0 DEF EventsApart, QueueInv
  <2>2. \A x \in DOMAIN objects' : \A l \in DOMAIN objects' \ {x} : ToSet(objects'[x]) \cap ToSet(objects'[l]) = {}
    BY <1>2, <2>0 DEF EventsApart
  <2>3. \A v \in Writers : \A u \in Writers \ {v} : ToSet(queue'[v]) \cap ToSet(queue'[u]) = {}
    BY <1>3, <2>0 DEF EventsApart
  <2>4. \A v \in Writers : \A x \in DOMAIN objects' : ToSet(queue'[v]) \cap ToSet(objects'[x]) = {}
    <3> SUFFICES ASSUME NEW v \in Writers \ {w}, NEW x \in DOMAIN objects'
                 PROVE  ToSet(queue[v]) \cap ToSet(objects'[x]) = {}
      BY <1>3
    <3>1. CASE x = k
      <4>1. ToSet(queue[v]) \cap ToSet(queue[w]) = {}
        BY <2>0 DEF EventsApart
      <4> QED
        BY <1>2, <3>1, <4>1
    <3>2. CASE x # k
      <4>1. x \in DOMAIN objects /\ objects'[x] = objects[x]
        BY <1>2, <3>2
      <4> QED
        BY <2>0, <4>1 DEF EventsApart
    <3> QED
      BY <3>1, <3>2
  <2>5. \A v \in Writers : ToSet(queue'[v]) \cap (ToSet(bodies) \cup ToSet(saved)) = {}
    BY <1>3, <2>0 DEF EventsApart
  <2> QED
    BY <1>0, <2>0, <2>1, <2>2, <2>3, <2>4, <2>5 DEF EventsApart
<1>8. SavedIsGone'
  <2>1. ToSet(queue[w]) \cap ToSet(saved) = {} /\ ToSet(queue[w]) \cap ToSet(bodies) = {}
    BY DEF FlowInv, EventsApart
  <2> QED
    BY <1>0, <1>2, <2>1 DEF FlowInv, SavedIsGone
<1>9. PushedKept'
  BY <1>0, <1>2 DEF FlowInv, PushedKept
<1> QED
  BY <1>5, <1>6, <1>7, <1>8, <1>9 DEF FlowInv

-----------------------------------------------------------------------------
\* The pass begins with empty hands.
LEMMA BeginFlows == ASSUME FlowInv, Begin PROVE FlowInv'
<1>0. /\ pass = "idle" /\ pass' = "listing" /\ token' = 0 /\ page' = <<>> /\ read' = {} /\ bodies' = <<>>
      /\ bodies = <<>>
      /\ UNCHANGED <<made, queue, objects, usedKeys, saved, pushed, lost, kept>>
  BY DEF Begin, FlowInv, DrainExact
<1>1. InboxShape'
  BY <1>0, EmptyEvents DEF FlowInv, InboxShape, Passes, Drain
<1>2. DrainExact'
  BY <1>0, EmptyEvents DEF DrainExact, Drain
<1>3. EventsApart' /\ SavedIsGone' /\ PushedKept'
  BY <1>0 DEF FlowInv, EventsApart, SavedIsGone, PushedKept
<1> QED
  BY <1>1, <1>2, <1>3 DEF FlowInv

\* The keys of a page are behind every key that was read.
LEMMA ListFlows == ASSUME FlowInv, List PROVE FlowInv'
<1>0. /\ pass = "listing" /\ pass' = "reading"
      /\ UNCHANGED <<made, queue, objects, usedKeys, read, bodies, saved, pushed, lost, kept>>
  BY DEF List
<1> DEFINE behind == {k \in DOMAIN objects : k > token}
<1>1. PICK n \in 1 .. PageSize : \E got \in [1 .. n -> behind] :
         /\ \A i, j \in 1 .. n : i < j => got[i] < got[j]
         /\ page' = got /\ token' = got[n]
  BY DEF List
<1>2. PICK got \in [1 .. n -> behind] :
         /\ \A i, j \in 1 .. n : i < j => got[i] < got[j]
         /\ page' = got /\ token' = got[n]
  BY <1>1
<1>3. n \in Nat \ {0} /\ n \in 1 .. n
  BY <1>1, InboxAssumption
<1>4. \A i \in 1 .. n : got[i] \in DOMAIN objects /\ got[i] > token /\ got[i] \in Nat
  BY InboxAssumption DEF FlowInv, InboxShape
<1>5. got \in Seq(Nat) /\ DOMAIN got = 1 .. n /\ got # <<>>
  <2>1. got \in [1 .. n -> Nat]
    BY <1>4
  <2>2. got \in Seq(Nat)
    BY <1>3, <2>1, SeqDef
  <2>3. DOMAIN got # {}
    BY <1>3
  <2> QED
    BY <2>2, <2>3
<1> HIDE DEF behind
<1>6. \A i \in 1 .. n : got[i] <= got[n]
  <2> SUFFICES ASSUME NEW i \in 1 .. n PROVE got[i] <= got[n]
    OBVIOUS
  <2>1. i = n \/ i < n
    BY <1>3
  <2> QED
    BY <1>2, <1>3, <1>4, <2>1
<1>7. IsInjective(got)
  <2> SUFFICES ASSUME NEW a \in 1 .. n, NEW b \in 1 .. n, a # b, got[a] = got[b] PROVE FALSE
    BY <1>5 DEF IsInjective
  <2>1. a < b \/ b < a
    OBVIOUS
  <2>2. got[a] < got[b] \/ got[b] < got[a]
    BY <1>2, <2>1
  <2> QED
    BY <1>4, <2>2
<1>8. /\ token \in Nat /\ token' \in Nat /\ token < token' /\ read \subseteq Nat
      /\ \A k \in read : k <= token
  BY <1>0, <1>2, <1>3, <1>4 DEF FlowInv, InboxShape, DrainExact, Drain
<1>9. \A k \in read : k <= token' /\ \A i \in 1 .. n : got[i] # k
  BY <1>4, <1>8
<1>10. InboxShape'
  BY <1>0, <1>2, <1>5, <1>8 DEF FlowInv, InboxShape, Passes, Drain
<1>11. DrainExact'
  <2>1. /\ \A k \in read : k \in DOMAIN objects /\ ToSet(objects[k]) \subseteq ToSet(bodies)
        /\ \A e \in ToSet(bodies) : \E k \in read : e \in ToSet(objects[k])
    BY <1>0 DEF FlowInv, DrainExact, Drain
  <2>2. \A i \in DOMAIN got : got[i] \in DOMAIN objects \ read /\ got[i] <= token'
    BY <1>2, <1>4, <1>5, <1>6, <1>9
  <2> QED
    BY <1>0, <1>2, <1>5, <1>7, <1>9, <2>1, <2>2 DEF DrainExact, Drain
<1>12. EventsApart' /\ SavedIsGone' /\ PushedKept'
  BY <1>0 DEF FlowInv, EventsApart, SavedIsGone, PushedKept
<1> QED
  BY <1>10, <1>11, <1>12 DEF FlowInv

\* An object is read once: its events are not among those at hand.
LEMMA ReadFlows == ASSUME FlowInv, ReadOne PROVE FlowInv'
<1> DEFINE k == Head(page)
<1>0. /\ pass = "reading" /\ read' = read \cup {k} /\ bodies' = bodies \o objects[k] /\ page' = Tail(page)
      /\ pass' = (IF page' # <<>> THEN "reading" ELSE IF truncated THEN "listing" ELSE "deleting")
      /\ UNCHANGED <<made, queue, objects, usedKeys, token, saved, pushed, lost, kept>>
  BY DEF ReadOne
<1>1. /\ page \in Seq(Nat) /\ page # <<>> /\ IsInjective(page)
      /\ \A e \in ToSet(page) : e \in DOMAIN objects \ read /\ e <= token
  BY <1>0 DEF FlowInv, InboxShape, DrainExact, ToSet
<1>2. /\ Tail(page) \in Seq(Nat) /\ k \in ToSet(page) /\ ToSet(Tail(page)) \subseteq ToSet(page)
      /\ IsInjective(Tail(page)) /\ k \notin ToSet(Tail(page))
  BY <1>1, TailEvents
<1>3. k \in DOMAIN objects \ read /\ k <= token /\ k \in Nat
  BY <1>1, <1>2, EventsAreNumbers
<1>4. /\ \A x \in read : x \in DOMAIN objects /\ x <= token /\ ToSet(objects[x]) \subseteq ToSet(bodies)
      /\ \A e \in ToSet(bodies) : \E x \in read : e \in ToSet(objects[x])
  BY <1>0 DEF FlowInv, DrainExact, Drain
<1>5. bodies \in Seq(Nat) /\ objects[k] \in Seq(Nat) /\ IsInjective(bodies) /\ IsInjective(objects[k])
  BY <1>3 DEF FlowInv, InboxShape, EventsApart
<1>6. ToSet(bodies) \cap ToSet(objects[k]) = {}
  BY <1>3, <1>4 DEF FlowInv, EventsApart
<1>7. /\ bodies' \in Seq(Nat) /\ ToSet(bodies') = ToSet(bodies) \cup ToSet(objects[k])
      /\ IsInjective(bodies')
  BY <1>0, <1>5, <1>6, ConcatEvents
<1> HIDE DEF k
<1>8. pass' \in Drain
  BY <1>0 DEF Drain
<1>9. InboxShape'
  BY <1>0, <1>2, <1>3, <1>7, <1>8 DEF FlowInv, InboxShape, Passes
<1>10. DrainExact'
  <2>1. /\ \A x \in read' : x \in DOMAIN objects /\ x <= token /\ ToSet(objects[x]) \subseteq ToSet(bodies')
        /\ \A e \in ToSet(bodies') : \E x \in read' : e \in ToSet(objects[x])
    BY <1>0, <1>3, <1>4, <1>7
  <2>2. \A i \in DOMAIN page' : page'[i] \in ToSet(Tail(page))
    BY <1>0 DEF ToSet
  <2>3. \A i \in DOMAIN page' : page'[i] \in DOMAIN objects \ read' /\ page'[i] <= token
    BY <1>0, <1>1, <1>2, <2>2
  <2>4. pass' = "reading" => page' # <<>>
    BY <1>0
  <2>5. pass' \notin {"idle", "publishing"}
    BY <1>8 DEF Drain
  <2> QED
    BY <1>0, <1>2, <2>1, <2>3, <2>4, <2>5 DEF DrainExact
<1>11. EventsApart'
  <2>0. EventsApart
    BY DEF FlowInv
  <2>1. \A e \in ToSet(bodies') \cup ToSet(saved) : e <= made
    BY <1>3, <1>7, <2>0 DEF EventsApart
  <2>2. \A w \in Writers : ToSet(queue[w]) \cap (ToSet(bodies') \cup ToSet(saved)) = {}
    BY <1>3, <1>7, <2>0 DEF EventsApart
  <2> QED
    BY <1>0, <1>7, <2>0, <2>1, <2>2 DEF EventsApart
<1>12. SavedIsGone'
  <2>1. pass' # "ingesting"
    BY <1>8 DEF Drain
  <2> QED
    BY <1>0, <1>3, <1>7, <2>1 DEF FlowInv, SavedIsGone
<1>13. PushedKept'
  BY <1>0, <1>7 DEF FlowInv, PushedKept
<1> QED
  BY <1>9, <1>10, <1>11, <1>12, <1>13 DEF FlowInv

\* What is deleted has been read, whatever was pushed meanwhile.
LEMMA DeleteFlows == ASSUME FlowInv, Delete \/ DeleteSome PROVE FlowInv'
<1>0. /\ pass = "deleting" /\ pass' = "ingesting"
      /\ UNCHANGED <<made, queue, usedKeys, token, page, read, bodies, saved, pushed, lost>>
  BY DEF Delete, DeleteSome
<1>1. PICK D \in SUBSET read : objects' = Left(D) /\ (kept' = {} => kept = {} /\ D = read)
  <2>1. CASE Delete
    BY <2>1 DEF Delete
  <2>2. CASE DeleteSome
    <3>1. PICK k \in read : objects' = Left(read \ {k}) /\ kept' = kept \cup {k}
      BY <2>2 DEF DeleteSome
    <3> QED
      BY <3>1
  <2> QED
    BY <2>1, <2>2
<1>2. DOMAIN objects' = DOMAIN objects \ D /\ \A k \in DOMAIN objects' : objects'[k] = objects[k]
  BY <1>1 DEF Left
<1>3. /\ \A k \in read : k \in DOMAIN objects /\ ToSet(objects[k]) \subseteq ToSet(bodies)
      /\ \A e \in ToSet(bodies) : \E k \in read : e \in ToSet(objects[k])
  BY <1>0 DEF FlowInv, DrainExact, Drain
<1>4. InboxShape' /\ DrainExact'
  BY <1>0, <1>2 DEF FlowInv, InboxShape, DrainExact, Passes, Drain
<1>5. EventsApart'
  BY <1>0, <1>2 DEF FlowInv, EventsApart
<1>6. SavedIsGone'
  <2> SUFFICES ASSUME kept' = {}
               PROVE  /\ IsInjective(saved) /\ ToSet(bodies) \cap ToSet(saved) = {}
                      /\ \A k \in DOMAIN objects' : ToSet(objects'[k]) \cap ToSet(saved) = {}
                      /\ \A k \in DOMAIN objects' : ToSet(objects'[k]) \cap ToSet(bodies) = {}
    BY <1>0 DEF SavedIsGone
  <2>1. kept = {} /\ D = read
    BY <1>1
  <2>2. \A k \in DOMAIN objects' : ToSet(objects'[k]) \cap ToSet(bodies) = {}
    BY <1>2, <1>3, <2>1 DEF FlowInv, EventsApart
  <2> QED
    BY <1>2, <2>1, <2>2 DEF FlowInv, SavedIsGone
<1>7. PushedKept'
  BY <1>0, <1>2, <1>3 DEF FlowInv, PushedKept
<1> QED
  BY <1>4, <1>5, <1>6, <1>7 DEF FlowInv

\* The save adds what the bucket no longer holds.
LEMMA IngestFlows == ASSUME FlowInv, IngestDrained PROVE FlowInv'
<1>0. /\ pass = "ingesting" /\ pass' = "publishing" /\ saved' = saved \o bodies /\ bodies' = <<>>
      /\ UNCHANGED <<made, queue, objects, usedKeys, token, page, read, pushed, lost, kept>>
  BY DEF IngestDrained
<1>1. saved \in Seq(Nat) /\ bodies \in Seq(Nat)
  BY DEF FlowInv, InboxShape
<1>2. /\ saved' \in Seq(Nat) /\ ToSet(saved') = ToSet(saved) \cup ToSet(bodies)
      /\ IsInjective(saved) /\ IsInjective(bodies) /\ ToSet(saved) \cap ToSet(bodies) = {} => IsInjective(saved')
  BY <1>0, <1>1, ConcatEvents
<1>3. ToSet(bodies') = {} /\ IsInjective(bodies') /\ bodies' \in Seq(Nat)
  BY <1>0, EmptyEvents
<1>4. InboxShape' /\ DrainExact'
  BY <1>0, <1>2, <1>3 DEF FlowInv, InboxShape, DrainExact, Passes, Drain
<1>5. EventsApart'
  BY <1>0, <1>2, <1>3 DEF FlowInv, EventsApart
<1>6. SavedIsGone'
  <2> SUFFICES ASSUME kept = {}
               PROVE  /\ IsInjective(saved')
                      /\ \A k \in DOMAIN objects : ToSet(objects[k]) \cap ToSet(saved') = {}
    BY <1>0, <1>3 DEF SavedIsGone
  <2>1. /\ IsInjective(saved) /\ ToSet(bodies) \cap ToSet(saved) = {}
        /\ \A k \in DOMAIN objects : ToSet(objects[k]) \cap ToSet(saved) = {}
        /\ \A k \in DOMAIN objects : ToSet(objects[k]) \cap ToSet(bodies) = {}
    BY <1>0 DEF FlowInv, SavedIsGone
  <2>2. IsInjective(bodies)
    BY DEF FlowInv, EventsApart
  <2> QED
    BY <1>2, <2>1, <2>2
<1>7. PushedKept'
  BY <1>0, <1>2 DEF FlowInv, PushedKept
<1> QED
  BY <1>4, <1>5, <1>6, <1>7 DEF FlowInv

\* A publication leaves the events alone; a pass that dies or is refused its delete loses
\* what it had deleted only.
LEMMA PassEndFlows == ASSUME FlowInv, PublishOne \/ KillPass \/ DeleteRefused PROVE FlowInv'
<1>1. CASE PublishOne
  <2>0. /\ pass = "publishing" /\ pass' \in {"publishing", "idle"}
        /\ UNCHANGED <<made, queue, objects, usedKeys, token, page, read, bodies, saved, pushed, lost, kept>>
    BY <1>1 DEF PublishOne
  <2>1. InboxShape' /\ DrainExact'
    BY <2>0 DEF FlowInv, InboxShape, DrainExact, Passes, Drain
  <2>2. EventsApart' /\ SavedIsGone' /\ PushedKept'
    BY <2>0 DEF FlowInv, EventsApart, SavedIsGone, PushedKept
  <2> QED
    BY <2>1, <2>2 DEF FlowInv
<1>2. CASE KillPass \/ DeleteRefused
  <2>0. /\ pass # "idle" /\ pass' = "idle" /\ page' = <<>> /\ read' = {} /\ bodies' = <<>> /\ token' = 0
        /\ lost' = (IF pass = "ingesting" THEN lost \cup ToSet(bodies) ELSE lost)
        /\ UNCHANGED <<made, queue, objects, usedKeys, saved, pushed, kept>>
    BY <1>2 DEF KillPass, DeleteRefused, Abandon
  <2>1. InboxShape' /\ DrainExact'
    BY <2>0, EmptyEvents DEF FlowInv, InboxShape, DrainExact, Passes, Drain
  <2>2. EventsApart' /\ SavedIsGone'
    BY <2>0, EmptyEvents DEF FlowInv, EventsApart, SavedIsGone
  <2>3. PushedKept'
    <3>1. \A e \in ToSet(bodies) : \/ \E k \in DOMAIN objects : e \in ToSet(objects[k])
                                   \/ e \in lost'
      BY <2>0, EmptyEvents DEF FlowInv, InboxShape, DrainExact, Passes, Drain
    <3> QED
      BY <2>0, <3>1 DEF FlowInv, PushedKept
  <2> QED
    BY <2>1, <2>2, <2>3 DEF FlowInv
<1> QED
  BY <1>1, <1>2

\* What a refused delete named is there for good: a later pass comes to each of its keys,
\* however the pages fall, and deletes none of them.
LEMMA RefusedHolds == FlowInv /\ RefusedInv /\ [InboxNext]_inboxVars => RefusedInv'
<1> SUFFICES ASSUME FlowInv, RefusedInv, [InboxNext]_inboxVars PROVE RefusedInv'
  OBVIOUS
<1>0. /\ refused \subseteq DOMAIN objects /\ IsFiniteSet(read) /\ PageSize \in Nat
      /\ \A k \in refused : k \in Nat \ {0}
  BY InboxAssumption DEF RefusedInv, RefusedStays, FlowInv, InboxShape
<1>1. CASE UNCHANGED <<objects, pass, token, page, truncated, read, refused>>
  BY <1>1 DEF RefusedInv, RefusedStays
<1>2. ASSUME NEW w \in Writers, Push(w) PROVE RefusedInv'
  BY <1>2 DEF Push, RefusedInv, RefusedStays
<1>3. CASE Begin
  BY <1>0, <1>3, FS_EmptySet DEF Begin, RefusedInv, RefusedStays
<1>4. CASE List
  <2>1. PICK got : /\ page' = got /\ truncated' = (\E k \in DOMAIN objects : k > token /\ k > token')
                   /\ \A k \in DOMAIN objects : k > token => (\E i \in DOMAIN got : got[i] = k) \/ k > token'
    <3> DEFINE behind == {k \in DOMAIN objects : k > token}
    <3>1. PICK n \in 1 .. PageSize : \E got \in [1 .. n -> behind] :
             /\ \A k \in behind : (\E i \in 1 .. n : got[i] = k) \/ k > got[n]
             /\ page' = got /\ truncated' = (\E k \in behind : k > got[n]) /\ token' = got[n]
      BY <1>4 DEF List
    <3>2. PICK got \in [1 .. n -> behind] :
             /\ \A k \in behind : (\E i \in 1 .. n : got[i] = k) \/ k > got[n]
             /\ page' = got /\ truncated' = (\E k \in behind : k > got[n]) /\ token' = got[n]
      BY <3>1
    <3>3. DOMAIN got = 1 .. n /\ n \in Nat
      BY <1>0, <3>2
    <3> QED
      BY <3>2, <3>3
  <2>2. /\ pass = "listing" /\ pass' = "reading" /\ UNCHANGED <<objects, read, refused>>
    BY <1>4 DEF List
  <2>3. \A k \in refused : k \in read \/ (truncated' /\ k > token') \/ \E i \in DOMAIN page' : page'[i] = k
    BY <1>0, <2>1, <2>2 DEF RefusedInv
  <2> QED
    BY <2>2, <2>3 DEF RefusedInv, RefusedStays
<1>5. CASE ReadOne
  <2>1. /\ pass = "reading" /\ read' = read \cup {Head(page)} /\ page' = Tail(page)
        /\ pass' = (IF page' # <<>> THEN "reading" ELSE IF truncated THEN "listing" ELSE "deleting")
        /\ UNCHANGED <<objects, token, truncated, refused>>
    BY <1>5 DEF ReadOne
  <2>2. page \in Seq(Nat) /\ page # <<>>
    BY <2>1 DEF FlowInv, InboxShape, DrainExact
  <2>3. \A k \in ToSet(page) : k = Head(page) \/ k \in ToSet(page')
    BY <2>1, <2>2, TailEvents
  <2>4. \A k \in refused : k \in read' \/ (truncated /\ k > token) \/ k \in ToSet(page')
    BY <2>1, <2>3 DEF RefusedInv, ToSet
  <2>5. page' = <<>> => ToSet(page') = {}
    BY EmptyEvents
  <2>6. IsFiniteSet(read')
    BY <1>0, <2>1, FS_AddElement
  <2> QED
    BY <2>1, <2>4, <2>5, <2>6 DEF RefusedInv, RefusedStays, ToSet
<1>6. CASE Delete \/ DeleteSome
  <2>1. /\ pass = "deleting" /\ Cardinality(read) <= PageSize /\ pass' = "ingesting" /\ UNCHANGED <<read, refused>>
    BY <1>6 DEF Delete, DeleteSome
  <2>2. refused = {}
    <3> SUFFICES ASSUME refused # {} PROVE FALSE
      OBVIOUS
    <3>1. refused \subseteq read /\ IsFiniteSet(refused) /\ Cardinality(refused) > PageSize
      BY <2>1 DEF RefusedInv
    <3>2. Cardinality(refused) \in Nat /\ Cardinality(read) \in Nat /\ Cardinality(refused) <= Cardinality(read)
      BY <1>0, <3>1, FS_Subset, FS_CardinalityType
    <3> QED
      BY <1>0, <2>1, <3>1, <3>2
  <2> QED
    BY <1>0, <2>1, <2>2 DEF RefusedInv, RefusedStays
<1>7. CASE DeleteRefused
  <2>1. /\ pass = "deleting" /\ Cardinality(read) > PageSize /\ refused' = read /\ read' = {} /\ pass' = "idle"
        /\ objects' = objects
    BY <1>7 DEF DeleteRefused, Abandon
  <2>2. read \subseteq DOMAIN objects
    BY <2>1 DEF FlowInv, DrainExact, Drain
  <2> QED
    BY <1>0, <2>1, <2>2, FS_EmptySet DEF RefusedInv, RefusedStays
<1>8. CASE KillPass
  <2>1. pass' = "idle" /\ read' = {} /\ UNCHANGED <<objects, refused>>
    BY <1>8 DEF KillPass, Abandon
  <2> QED
    BY <2>1, FS_EmptySet DEF RefusedInv, RefusedStays
<1>9. CASE IngestDrained \/ PublishOne
  <2>1. pass' \in {"publishing", "idle"} /\ UNCHANGED <<objects, read, refused>>
    BY <1>9 DEF IngestDrained, PublishOne
  <2> QED
    BY <2>1 DEF RefusedInv, RefusedStays
<1>10. ASSUME NEW w \in Writers, Export(w) \/ PushFails(w) PROVE RefusedInv'
  BY <1>1, <1>10 DEF Export, PushFails
<1>11. CASE UNCHANGED inboxVars
  BY <1>1, <1>11 DEF inboxVars
<1> QED
  BY <1>2, <1>3, <1>4, <1>5, <1>6, <1>7, <1>8, <1>9, <1>10, <1>11 DEF InboxNext, PassStep

\* For any writers, bucket, page and queue size, through failing pushes, partial and
\* refused deletes and passes that die anywhere: an event S3TraceInbox.send_message
\* accepted is in the bucket, with the pass or in the catalog unless a pass died between
\* its delete and its save; the catalog counts it once unless a delete left it behind; a
\* full QueueTraceExporter loses its oldest events; the site is never newer behind than
\* in front; and the objects of a delete with too many keys stay in the bucket for good.
THEOREM InboxCountsOnce == InboxSpec => []TracesCountedOnce
<1>1. QueueInv /\ FlowInv /\ [InboxNext]_inboxVars => FlowInv'
  <2> SUFFICES ASSUME QueueInv, FlowInv, [InboxNext]_inboxVars PROVE FlowInv'
    OBVIOUS
  <2>1. CASE UNCHANGED inboxVars
    BY <2>1 DEF inboxVars, FlowInv, InboxShape, DrainExact, EventsApart, SavedIsGone, PushedKept
  <2> QED
    BY <2>1, ExportFlows, PushFlows, BeginFlows, ListFlows, ReadFlows, DeleteFlows, IngestFlows, PassEndFlows
    DEF InboxNext, PassStep
<1>2. QueueInv /\ SiteInv /\ FlowInv /\ RefusedInv => TracesCountedOnce
  <2> SUFFICES ASSUME QueueInv, SiteInv, FlowInv, RefusedInv PROVE TracesCountedOnce
    OBVIOUS
  <2>1. PushedIsSomewhere
    BY DEF FlowInv, PushedKept, PushedIsSomewhere, Held
  <2>2. CountedOnce
    BY DEF FlowInv, SavedIsGone, CountedOnce
  <2> QED
    BY <2>1, <2>2 DEF QueueInv, SiteInv, RefusedInv, TracesCountedOnce
<1> QED
  BY InboxStarts, QueueHolds, SiteHolds, RefusedHolds, <1>1, <1>2, PTL DEF InboxSpec

(***************************************************************************)
(* MeshPoller.                                                             *)
(***************************************************************************)
\* The fields of the collector's records.
IsCatalog(c) == c = [services |-> c.services, topics |-> c.topics, everConsumed |-> c.everConsumed,
                     events |-> c.events, owner |-> c.owner, issues |-> c.issues]
IsService(r) == r = [registered |-> r.registered, hash |-> r.hash, previousHash |-> r.previousHash,
                     consumed |-> r.consumed, produced |-> r.produced, known |-> r.known,
                     specs |-> r.specs, previousSpecs |-> r.previousSpecs,
                     instances |-> r.instances, reported |-> r.reported]

\* What the collector keeps of a service before it hears of it again.
Kept(c, s) == IF s \in DOMAIN c.services THEN c.services[s] ELSE NewService

\* What the collector reads off a document: hash, topics it serves and their schemas.
ReadAs(d, s, h, T, sp) ==
    /\ d.service = s /\ d.hash = h /\ TopicSpecs(d) = sp
    /\ spec_topic_ids(d, {"requests"}) = T /\ spec_topic_ids(d, {"events", "sends"}) = {}

\* A document is of a release, or the body of an error.
Answered(s, h, T, sp) ==
    \/ T = {s} \ Reserved /\ \E r \in Nat \ {0} : sp = [t \in {s} \ Reserved |-> r]
    \/ h = "" /\ T = {} /\ sp = EmptyMap

LEMMA ReleaseRead ==
    ASSUME NEW s, NEW r \in Nat \ {0}, NEW d, d = ReleaseDoc(s, r)
    PROVE  \E h, T, sp : ReadAs(d, s, h, T, sp) /\ Answered(s, h, T, sp)
<1>1. /\ d.service = s /\ d.present = {"requests", "events", "sends"}
      /\ d.topics = [requests |-> {s}, events |-> {}, sends |-> {}] /\ d.spec = [t \in {s} |-> r]
  BY DEF ReleaseDoc, Members
<1>2. /\ d.topics["requests"] = {s} /\ d.topics["events"] = {} /\ d.topics["sends"] = {}
  BY <1>1
<1>3. spec_topic_ids(d, {"requests"}) = {s} \ Reserved
  BY <1>1, <1>2 DEF spec_topic_ids
<1>4. spec_topic_ids(d, {"events", "sends"}) = {}
  BY <1>1, <1>2 DEF spec_topic_ids
<1>5. TopicSpecs(d) = [t \in {s} \ Reserved |-> r]
  BY <1>1, <1>3 DEF TopicSpecs
<1>6. ReadAs(d, s, d.hash, {s} \ Reserved, [t \in {s} \ Reserved |-> r])
  BY <1>1, <1>3, <1>4, <1>5, Zenon DEF ReadAs
<1>7. Answered(s, d.hash, {s} \ Reserved, [t \in {s} \ Reserved |-> r])
  BY Zenon DEF Answered
<1> QED
  BY <1>6, <1>7, Zenon

LEMMA ErrorRead ==
    ASSUME NEW s, NEW d, d = ErrorDoc(s)
    PROVE  \E h, T, sp : ReadAs(d, s, h, T, sp) /\ Answered(s, h, T, sp)
<1>1. d.service = s /\ d.hash = "" /\ d.present = {}
  BY DEF ErrorDoc
<1>2. spec_topic_ids(d, {"requests"}) = {} /\ spec_topic_ids(d, {"events", "sends"}) = {}
  BY <1>1 DEF spec_topic_ids
<1>3. TopicSpecs(d) = EmptyMap
  BY <1>2 DEF TopicSpecs, EmptyMap
<1>4. ReadAs(d, s, "", {}, EmptyMap)
  BY <1>1, <1>2, <1>3, Zenon DEF ReadAs
<1>5. Answered(s, "", {}, EmptyMap)
  BY Zenon DEF Answered
<1> QED
  BY <1>4, <1>5, Zenon

\* How a catalog differs once it has ingested a registration, or a heartbeat.
RegisteredIn(c, c2, s, h, T, sp) ==
    /\ IsCatalog(c2)
    /\ DOMAIN c2.services = DOMAIN c.services \cup {s}
    /\ \A x \in DOMAIN c.services \ {s} : c2.services[x] = c.services[x]
    /\ c2.topics = c.topics \cup T /\ c2.everConsumed = c.everConsumed \cup T
    /\ IsService(c2.services[s])
    /\ c2.services[s].hash = h
    /\ c2.services[s].consumed = T
    /\ c2.services[s].specs = sp
    /\ c2.services[s].previousSpecs = Kept(c, s).specs
    /\ c2.services[s].instances = Kept(c, s).instances

LEMMA DocumentRegistered ==
    ASSUME NEW c, IsCatalog(c), NEW s, NEW h, NEW T, NEW sp, NEW d, ReadAs(d, s, h, T, sp),
           NEW c2, c2 = ingest_register(c, d)
    PROVE  RegisteredIn(c, c2, s, h, T, sp)
<1> DEFINE known == WithService(c.services, s)
<1>1. /\ DOMAIN known = DOMAIN c.services \cup {s} /\ known[s] = Kept(c, s)
      /\ \A x \in DOMAIN c.services \ {s} : known[x] = c.services[x]
  BY DEF WithService, With, Kept
<1>2. /\ d.service = s /\ d.hash = h /\ TopicSpecs(d) = sp
      /\ spec_topic_ids(d, {"requests"}) = T
      /\ spec_topic_ids(d, {"events", "sends"}) = {}
  BY Zenon DEF ReadAs
<1>3. PICK k, old : k = known /\ old = known[s]
  OBVIOUS
<1> HIDE DEF known
<1>4. PICK ph : ph = IF old.registered /\ old.hash # "" /\ d.hash # old.hash THEN old.hash ELSE old.previousHash
  OBVIOUS
<1>5. PICK rec : rec = [registered |-> TRUE, hash |-> d.hash, previousHash |-> ph,
                 consumed |-> spec_topic_ids(d, {"requests"}), produced |-> spec_topic_ids(d, {"events", "sends"}),
                 known |-> known_members(d), specs |-> TopicSpecs(d), previousSpecs |-> old.specs,
                 instances |-> old.instances, reported |-> old.reported]
  OBVIOUS
<1>6. c2 = [c EXCEPT !.services = [k EXCEPT ![s] = rec],
                     !.topics = @ \cup T \cup {}, !.everConsumed = @ \cup T]
  BY <1>2, <1>3, <1>4, <1>5, ZenonT(60) DEF ingest_register, known
<1>7. /\ c2.services = [k EXCEPT ![s] = rec] /\ c2.topics = c.topics \cup T
      /\ c2.everConsumed = c.everConsumed \cup T
  BY <1>6 DEF IsCatalog
<1>8. IsCatalog(c2)
  BY <1>6 DEF IsCatalog
<1>9. /\ DOMAIN c2.services = DOMAIN c.services \cup {s} /\ c2.services[s] = rec
      /\ \A x \in DOMAIN c.services \ {s} : c2.services[x] = c.services[x]
  BY <1>7, <1>1, <1>3
<1>10. IsService(rec)
  BY <1>5 DEF IsService
<1>11. /\ rec.hash = h /\ rec.consumed = T /\ rec.specs = sp
       /\ rec.previousSpecs = Kept(c, s).specs /\ rec.instances = Kept(c, s).instances
  BY <1>5, <1>2, <1>3, <1>1
<1> QED
  BY <1>7, <1>8, <1>9, <1>10, <1>11 DEF RegisteredIn

HeardIn(c, c2, s, healthy, hash) ==
    /\ IsCatalog(c2)
    /\ DOMAIN c2.services = DOMAIN c.services
    /\ \A x \in DOMAIN c.services \ {s} : c2.services[x] = c.services[x]
    /\ c2.topics = c.topics /\ c2.everConsumed = c.everConsumed
    /\ IsService(c2.services[s])
    /\ c2.services[s].hash = c.services[s].hash
    /\ c2.services[s].consumed = c.services[s].consumed
    /\ c2.services[s].specs = c.services[s].specs
    /\ c2.services[s].previousSpecs = c.services[s].previousSpecs
    /\ c2.services[s].instances = With(c.services[s].instances, s, [healthy |-> healthy, hash |-> hash])

LEMMA HeartbeatHeard ==
    ASSUME NEW c, IsCatalog(c), NEW s \in DOMAIN c.services, IsService(c.services[s]), NEW healthy, NEW hash,
           NEW c2, c2 = ingest_heartbeat(c, [service |-> s, instance |-> s, healthy |-> healthy, hash |-> hash])
    PROVE  HeardIn(c, c2, s, healthy, hash)
<1>1. PICK b : b = [service |-> s, instance |-> s, healthy |-> healthy, hash |-> hash]
  OBVIOUS
<1>2. b.service = s /\ b.instance = s /\ b.healthy = healthy /\ b.hash = hash
  BY <1>1
<1>3. WithService(c.services, s) = c.services
  BY DEF WithService
<1>4. PICK old, heard : /\ old = c.services[s]
                        /\ heard = With(old.instances, s, [healthy |-> healthy, hash |-> hash])
  OBVIOUS
<1>5. c2 = [c EXCEPT !.services = [c.services EXCEPT ![s].instances = heard]]
  BY <1>1, <1>2, <1>3, <1>4, Zenon DEF ingest_heartbeat
<1>6. PICK rec : rec = [old EXCEPT !.instances = heard]
  OBVIOUS
<1>7. /\ IsService(rec) /\ rec.hash = old.hash /\ rec.consumed = old.consumed /\ rec.specs = old.specs
      /\ rec.previousSpecs = old.previousSpecs /\ rec.instances = heard
  BY <1>4, <1>6 DEF IsService
<1>8. /\ c2.services = [c.services EXCEPT ![s] = rec] /\ c2.topics = c.topics
      /\ c2.everConsumed = c.everConsumed /\ IsCatalog(c2)
  BY <1>4, <1>5, <1>6 DEF IsCatalog
<1>9. /\ DOMAIN c2.services = DOMAIN c.services /\ c2.services[s] = rec
      /\ \A x \in DOMAIN c.services \ {s} : c2.services[x] = c.services[x]
  BY <1>8
<1> QED
  BY <1>4, <1>7, <1>8, <1>9 DEF HeardIn

\* What one poll makes of the catalog.
Folded(s, d, healthy) ==
    ingest_heartbeat(ingest_register(catalog, d),
                     [service |-> s, instance |-> s, healthy |-> healthy, hash |-> d.hash])

-----------------------------------------------------------------------------
\* A fleet that is only pulled registers its documents one at a time: a service is known
\* by the last one that was read, and all it is heard to run is that.
Recorded(s, rec) ==
    /\ IsService(rec)
    /\ Answered(s, rec.hash, rec.consumed, rec.specs)
    /\ DOMAIN rec.instances \subseteq {s}
    /\ \A i \in DOMAIN rec.instances : rec.instances[i].hash = rec.hash

PolledCatalog ==
    /\ IsCatalog(catalog)
    /\ DOMAIN catalog.services \subseteq ServiceSources
    /\ catalog.topics \subseteq DOMAIN catalog.services \ Reserved /\ catalog.topics \subseteq catalog.everConsumed
    /\ \A s \in DOMAIN catalog.services : Recorded(s, catalog.services[s])

\* A topic the UI shows is a service's own, under the schema that service registered
\* before this sweep: it is still the one it is registered with, or, once its poll is
\* done, the one before that.
ShownSchema(t) ==
    /\ t \in DOMAIN catalog.services /\ t \in catalog.topics
    /\ \E r \in Nat \ {0} :
         /\ published[t].schemas = {r}
         /\ \/ t \in DOMAIN catalog.services[t].specs /\ catalog.services[t].specs[t] = r
            \/ /\ poll[t] = "done"
               /\ t \in DOMAIN catalog.services[t].previousSpecs
               /\ catalog.services[t].previousSpecs[t] = r

PollType ==
    /\ deployed \in [ServiceSources -> Nat \ {0}]
    /\ poll \in [ServiceSources -> {"idle", "asking", "described", "done"}]
    /\ fetched \in [ServiceSources -> Nat]

PollInv ==
    ~pushing => /\ mail = {} /\ PollType /\ PolledCatalog
                /\ \A t \in DOMAIN published : ShownSchema(t)

LEMMA PollStarts == PollInit => PollInv
<1> SUFFICES ASSUME PollInit, ~pushing PROVE mail = {} /\ PollType /\ PolledCatalog /\ \A t \in DOMAIN published : ShownSchema(t)
  BY DEF PollInv
<1>1. PollStart
  BY DEF PollInit
<1>2. PollType
  BY <1>1 DEF PollStart, PollType
<1>3. IsCatalog(catalog) /\ DOMAIN catalog.services = {} /\ catalog.topics = {}
  BY <1>1 DEF PollStart, EmptyCatalog, EmptyMap, IsCatalog
<1>4. DOMAIN published = {}
  BY <1>1 DEF PollStart, NoTopics, EmptyMap
<1> QED
  BY <1>1, <1>2, <1>3, <1>4 DEF PollStart, PolledCatalog

LEMMA Folds ==
    ASSUME PolledCatalog, NEW s \in ServiceSources, NEW d, NEW h, NEW T, NEW sp, ReadAs(d, s, h, T, sp),
           Answered(s, h, T, sp), NEW healthy, catalog' = Folded(s, d, healthy)
    PROVE  /\ PolledCatalog'
           /\ DOMAIN catalog'.services = DOMAIN catalog.services \cup {s}
           /\ catalog.topics \subseteq catalog'.topics
           /\ \A x \in DOMAIN catalog.services \ {s} : catalog'.services[x] = catalog.services[x]
           /\ s \in DOMAIN catalog.services => catalog'.services[s].previousSpecs = catalog.services[s].specs
<1>1. PICK c, c1, c2 : /\ c = catalog /\ c1 = ingest_register(c, d) /\ c2 = catalog'
                       /\ c2 = ingest_heartbeat(c1, [service |-> s, instance |-> s, healthy |-> healthy,
                                                     hash |-> h])
  <2>1. d.hash = h
    BY Zenon DEF ReadAs
  <2> QED
    BY <2>1, Zenon DEF Folded
<1>2. /\ IsCatalog(c) /\ DOMAIN c.services \subseteq ServiceSources /\ c.topics \subseteq DOMAIN c.services \ Reserved
      /\ c.topics \subseteq c.everConsumed
      /\ \A x \in DOMAIN c.services : Recorded(x, c.services[x])
  BY <1>1, Zenon DEF PolledCatalog
<1>3. /\ IsCatalog(c1)
      /\ DOMAIN c1.services = DOMAIN c.services \cup {s}
      /\ \A x \in DOMAIN c.services \ {s} : c1.services[x] = c.services[x]
      /\ c1.topics = c.topics \cup T /\ c1.everConsumed = c.everConsumed \cup T
      /\ IsService(c1.services[s])
      /\ c1.services[s].hash = h
      /\ c1.services[s].consumed = T
      /\ c1.services[s].specs = sp
      /\ c1.services[s].previousSpecs = Kept(c, s).specs
      /\ c1.services[s].instances = Kept(c, s).instances
  <2>1. RegisteredIn(c, c1, s, h, T, sp)
    BY <1>1, <1>2, DocumentRegistered, Zenon
  <2> QED
    BY <2>1 DEF RegisteredIn
<1>4. s \in DOMAIN c1.services
  BY <1>3
<1>5. /\ IsCatalog(c2)
      /\ DOMAIN c2.services = DOMAIN c1.services
      /\ \A x \in DOMAIN c1.services \ {s} : c2.services[x] = c1.services[x]
      /\ c2.topics = c1.topics /\ c2.everConsumed = c1.everConsumed
      /\ IsService(c2.services[s])
      /\ c2.services[s].hash = c1.services[s].hash
      /\ c2.services[s].consumed = c1.services[s].consumed
      /\ c2.services[s].specs = c1.services[s].specs
      /\ c2.services[s].previousSpecs = c1.services[s].previousSpecs
      /\ c2.services[s].instances = With(c1.services[s].instances, s, [healthy |-> healthy, hash |-> h])
  <2>1. HeardIn(c1, c2, s, healthy, h)
    BY <1>1, <1>3, <1>4, HeartbeatHeard, Zenon
  <2> QED
    BY <2>1 DEF HeardIn
<1>6. PICK rec, before : rec = c2.services[s] /\ before = Kept(c, s).instances
  OBVIOUS
<1>7. DOMAIN rec.instances \subseteq {s} /\ \A i \in DOMAIN rec.instances : rec.instances[i].hash = rec.hash
  <2>1. rec.hash = h /\ rec.instances = With(before, s, [healthy |-> healthy, hash |-> h])
    BY <1>3, <1>5, <1>6
  <2>2. DOMAIN before \subseteq {s}
    <3>1. CASE s \in DOMAIN c.services
      BY <3>1, <1>2, <1>6 DEF Kept, Recorded
    <3>2. CASE s \notin DOMAIN c.services
      BY <3>2, <1>6 DEF Kept, NewService, EmptyMap
    <3> QED
      BY <3>1, <3>2
  <2> QED
    BY <2>1, <2>2 DEF With
<1>8. Recorded(s, rec)
  <2>1. rec.hash = h /\ rec.consumed = T /\ rec.specs = sp /\ IsService(rec)
    BY <1>3, <1>5, <1>6
  <2> QED
    BY <1>7, <2>1, Zenon DEF Recorded
<1>9. \A x \in DOMAIN c2.services : Recorded(x, c2.services[x])
  <2> SUFFICES ASSUME NEW x \in DOMAIN c2.services PROVE Recorded(x, c2.services[x])
    OBVIOUS
  <2>1. CASE x = s
    BY <2>1, <1>6, <1>8
  <2>2. CASE x # s
    BY <2>2, <1>2, <1>3, <1>5
  <2> QED
    BY <2>1, <2>2
<1>10. /\ DOMAIN c2.services \subseteq ServiceSources /\ c2.topics \subseteq DOMAIN c2.services \ Reserved
       /\ c2.topics \subseteq c2.everConsumed /\ c.topics \subseteq c2.topics
  <2>1. T \subseteq {s} \ Reserved
    BY DEF Answered
  <2> QED
    BY <2>1, <1>2, <1>3, <1>5
<1>11. PolledCatalog'
  BY <1>1, <1>5, <1>9, <1>10 DEF PolledCatalog
<1>12. s \in DOMAIN c.services => c2.services[s].previousSpecs = c.services[s].specs
  BY <1>3, <1>5 DEF Kept
<1>13. /\ DOMAIN c2.services = DOMAIN c.services \cup {s}
       /\ \A x \in DOMAIN c.services \ {s} : c2.services[x] = c.services[x]
  BY <1>3, <1>5
<1> QED
  BY <1>1, <1>10, <1>11, <1>12, <1>13

\* A poll that ends keeps what the UI shows within a registration of the catalog's.
LEMMA FoldShows ==
    ASSUME PollType, PolledCatalog, \A t \in DOMAIN published : ShownSchema(t), NEW s \in ServiceSources, Fold(s)
    PROVE  PolledCatalog' /\ \A t \in DOMAIN published' : ShownSchema(t)'
<1>1. /\ poll[s] = "described" /\ poll' = [poll EXCEPT ![s] = "done"] /\ published' = published
      /\ fetched[s] \in Nat /\ DOMAIN poll = ServiceSources
  BY DEF Fold, PollType
<1>2. PICK healthy \in BOOLEAN : catalog' = Folded(s, DocRead(s), healthy)
  BY DEF Fold, Folded
<1>3. PICK d, h, T, sp : d = DocRead(s) /\ ReadAs(d, s, h, T, sp) /\ Answered(s, h, T, sp)
  <2>1. CASE fetched[s] = 0
    BY <2>1, ErrorRead, Zenon DEF DocRead
  <2>2. CASE fetched[s] # 0
    <3>1. fetched[s] \in Nat \ {0} /\ DocRead(s) = ReleaseDoc(s, fetched[s])
      BY <1>1, <2>2 DEF DocRead
    <3> QED
      BY <3>1, ReleaseRead, Zenon
  <2> QED
    BY <2>1, <2>2
<1>4. /\ PolledCatalog'
      /\ DOMAIN catalog'.services = DOMAIN catalog.services \cup {s}
      /\ catalog.topics \subseteq catalog'.topics
      /\ \A x \in DOMAIN catalog.services \ {s} : catalog'.services[x] = catalog.services[x]
      /\ s \in DOMAIN catalog.services => catalog'.services[s].previousSpecs = catalog.services[s].specs
  <2>1. catalog' = Folded(s, d, healthy)
    BY <1>2, <1>3, Zenon
  <2> QED
    BY <1>3, <2>1, Folds, Zenon
<1>5. ASSUME NEW t \in DOMAIN published PROVE ShownSchema(t)'
  <2>1. PICK r \in Nat \ {0} :
           /\ t \in DOMAIN catalog.services /\ t \in catalog.topics /\ published[t].schemas = {r}
           /\ \/ t \in DOMAIN catalog.services[t].specs /\ catalog.services[t].specs[t] = r
              \/ /\ poll[t] = "done"
                 /\ t \in DOMAIN catalog.services[t].previousSpecs
                 /\ catalog.services[t].previousSpecs[t] = r
    BY DEF ShownSchema
  <2>2. CASE t = s
    <3>1. s \in DOMAIN catalog.services[s].specs /\ catalog.services[s].specs[s] = r
      BY <2>1, <2>2, <1>1
    <3> QED
      BY <2>1, <2>2, <3>1, <1>1, <1>4 DEF ShownSchema
  <2>3. CASE t # s
    BY <2>1, <2>3, <1>1, <1>4 DEF ShownSchema
  <2> QED
    BY <2>2, <2>3
<1> QED
  BY <1>1, <1>4, <1>5

\* What is published of a polled catalog: the one schema of each topic whose service
\* answered with its document, and the change where its last registration changed it.
LEMMA TopicsShown ==
    ASSUME PolledCatalog, NEW t \in DOMAIN TopicsArtifact(catalog)
    PROVE  /\ t \in DOMAIN catalog.services /\ t \in catalog.topics
           /\ t \in DOMAIN catalog.services[t].specs /\ catalog.services[t].specs[t] \in Nat \ {0}
           /\ TopicsArtifact(catalog)[t].schemas = {catalog.services[t].specs[t]}
           /\ t \in DOMAIN catalog.services[t].previousSpecs
              /\ catalog.services[t].specs[t] # catalog.services[t].previousSpecs[t]
              => TopicsArtifact(catalog)[t].changes # {}
<1>1. t \in catalog.topics /\ t \notin Removed(catalog)
  BY DEF TopicsArtifact
<1>2. t \in DOMAIN catalog.services /\ t \notin Reserved
  BY <1>1 DEF PolledCatalog
<1>3. PICK rec : rec = catalog.services[t]
  OBVIOUS
<1>4. \A s \in DOMAIN catalog.services : catalog.services[s].consumed \subseteq {s}
  BY DEF PolledCatalog, Recorded, Answered
<1>5. t \in rec.consumed
  <2>1. t \in catalog.everConsumed
    BY <1>1 DEF PolledCatalog
  <2>2. PICK s \in DOMAIN catalog.services : t \in catalog.services[s].consumed
    BY <1>1, <2>1 DEF Removed
  <2> QED
    BY <1>3, <1>4, <2>2
<1>6. rec.consumed = {t} /\ DOMAIN rec.specs = {t} /\ rec.specs[t] \in Nat \ {0}
  <2>1. Answered(t, rec.hash, rec.consumed, rec.specs)
    BY <1>2, <1>3, Zenon DEF PolledCatalog, Recorded
  <2>2. PICK q \in Nat \ {0} : rec.consumed = {t} \ Reserved /\ rec.specs = [x \in {t} \ Reserved |-> q]
    BY <1>5, <2>1, Zenon DEF Answered
  <2>3. {t} \ Reserved = {t}
    BY <1>2
  <2>4. rec.specs = [x \in {t} |-> q]
    BY <2>2, <2>3
  <2> QED
    BY <2>2, <2>3, <2>4
<1>7. ConsumersOf(catalog, t) = {t}
  BY <1>2, <1>3, <1>4, <1>6 DEF ConsumersOf
<1> DEFINE specs == {catalog.services[s].specs[t] : s \in {c \in ConsumersOf(catalog, t) : t \in DOMAIN catalog.services[c].specs}}
<1>8. specs = {rec.specs[t]}
  BY <1>3, <1>6, <1>7
<1>9. TopicsArtifact(catalog)[t].schemas = specs \ {0} /\ TopicsArtifact(catalog)[t].changes = Changed(catalog, t)
  BY DEF TopicsArtifact
<1>10. t \in DOMAIN rec.previousSpecs /\ rec.specs[t] # rec.previousSpecs[t] => t \in Changed(catalog, t)
  BY <1>3, <1>6, <1>7 DEF Changed
<1> QED
  BY <1>1, <1>2, <1>3, <1>6, <1>8, <1>9, <1>10

LEMMA PollHolds == PollInv /\ [PollNext]_pollVars => PollInv'
<1> SUFFICES ASSUME PollInv, [PollNext]_pollVars, ~pushing' PROVE mail' = {} /\ PollType' /\ PolledCatalog' /\ \A t \in DOMAIN published' : ShownSchema(t)'
  BY DEF PollInv
<1>1. pushing' = pushing
  BY DEF PollNext, PollStep, StartSweep, PublishSweep, FetchSpec, FetchError, FetchRaises, Fold, Redeploy,
         MailArrives, PushArrives, pollVars
<1>2. mail = {} /\ PollType /\ PolledCatalog /\ \A t \in DOMAIN published : ShownSchema(t)
  BY <1>1 DEF PollInv
<1>3. CASE UNCHANGED pollVars
  BY <1>2, <1>3 DEF pollVars, PollType, PolledCatalog, ShownSchema
<1>4. CASE StartSweep
  <2>1. \A t \in DOMAIN catalog.services : poll[t] # "done"
    BY <1>2, <1>4 DEF StartSweep, PolledCatalog
  <2>2. PollType' /\ PolledCatalog' /\ mail' = {}
    BY <1>2, <1>4 DEF StartSweep, PollType, PolledCatalog
  <2> QED
    BY <1>2, <1>4, <2>1, <2>2 DEF StartSweep, ShownSchema
<1>5. CASE PublishSweep
  <2>1. PollType' /\ PolledCatalog' /\ mail' = {} /\ catalog' = catalog /\ published' = TopicsArtifact(catalog)
    BY <1>2, <1>5 DEF PublishSweep, PollType, PolledCatalog
  <2>2. ASSUME NEW t \in DOMAIN published' PROVE ShownSchema(t)'
    <3>1. /\ t \in DOMAIN catalog.services /\ t \in catalog.topics
          /\ t \in DOMAIN catalog.services[t].specs /\ catalog.services[t].specs[t] \in Nat \ {0}
          /\ TopicsArtifact(catalog)[t].schemas = {catalog.services[t].specs[t]}
      BY <1>2, <2>1, TopicsShown
    <3> QED
      BY <2>1, <3>1 DEF ShownSchema
  <2> QED
    BY <2>1, <2>2
<1>6. ASSUME NEW s \in ServiceSources, FetchSpec(s) \/ FetchError(s) \/ FetchRaises(s) PROVE mail' = {} /\ PollType' /\ PolledCatalog' /\ \A t \in DOMAIN published' : ShownSchema(t)'
  <2>1. PollType' /\ PolledCatalog' /\ mail' = {}
    BY <1>2, <1>6 DEF FetchSpec, FetchError, FetchRaises, PollType, PolledCatalog
  <2>2. \A t \in DOMAIN catalog.services : poll[t] = "done" => poll'[t] = "done"
    <3>1. DOMAIN catalog.services \subseteq ServiceSources /\ DOMAIN poll = ServiceSources
      BY <1>2 DEF PollType, PolledCatalog
    <3>2. PICK state \in {"described", "done"} : poll' = [poll EXCEPT ![s] = state] /\ poll[s] # "done"
      BY <1>6 DEF FetchSpec, FetchError, FetchRaises
    <3> QED
      BY <3>1, <3>2
  <2>3. catalog' = catalog /\ published' = published
    BY <1>6 DEF FetchSpec, FetchError, FetchRaises
  <2> QED
    BY <1>2, <2>1, <2>2, <2>3 DEF ShownSchema
<1>7. ASSUME NEW s \in ServiceSources, Fold(s) PROVE mail' = {} /\ PollType' /\ PolledCatalog' /\ \A t \in DOMAIN published' : ShownSchema(t)'
  <2>1. PollType' /\ mail' = {}
    BY <1>2, <1>7 DEF Fold, PollType
  <2> QED
    BY <1>2, <1>7, <2>1, FoldShows
<1>8. ASSUME NEW s \in ServiceSources, Redeploy(s) PROVE mail' = {} /\ PollType' /\ PolledCatalog' /\ \A t \in DOMAIN published' : ShownSchema(t)'
  BY <1>1, <1>2, <1>8 DEF Redeploy, PollType, PolledCatalog, ShownSchema
<1>9. ~MailArrives
  BY <1>2 DEF MailArrives
<1> QED
  BY <1>3, <1>4, <1>5, <1>6, <1>7, <1>8, <1>9 DEF PollNext, PollStep

\* A polled catalog shows no drift.
LEMMA NoDrift == PollInv => PullNeverDrifts
  BY DEF PollInv, PullNeverDrifts, PolledCatalog, Recorded, Drifted, HashMatches

\* A publication whose schema of a topic is not the one before marks the change.
LEMMA ChangesShown ==
    ASSUME PollInv, ~pushing, PublishSweep, NEW t \in DOMAIN published \cap DOMAIN published',
           published'[t].schemas # published[t].schemas
    PROVE  published'[t].changes # {}
<1>1. PolledCatalog /\ ShownSchema(t) /\ published' = TopicsArtifact(catalog)
  BY DEF PollInv, PublishSweep
<1>2. /\ TopicsArtifact(catalog)[t].schemas = {catalog.services[t].specs[t]}
      /\ t \in DOMAIN catalog.services[t].previousSpecs
         /\ catalog.services[t].specs[t] # catalog.services[t].previousSpecs[t]
         => TopicsArtifact(catalog)[t].changes # {}
  BY <1>1, TopicsShown
<1> QED
  BY <1>1, <1>2 DEF ShownSchema

\* A topic that is gone is one whose service is registered by the body of an error.
LEMMA GoneByError ==
    ASSUME PollInv, ~pushing, PublishSweep, NEW t \in DOMAIN published \ DOMAIN published'
    PROVE  catalog.services[t].hash = ""
<1>1. PolledCatalog /\ ShownSchema(t) /\ DOMAIN published' = catalog.topics \ Removed(catalog)
  BY DEF PollInv, PublishSweep, TopicsArtifact
<1>2. t \in DOMAIN catalog.services /\ t \notin Reserved /\ t \in Removed(catalog)
  BY <1>1 DEF ShownSchema, PolledCatalog
<1>3. t \notin catalog.services[t].consumed
  BY <1>2 DEF Removed
<1>4. Answered(t, catalog.services[t].hash, catalog.services[t].consumed, catalog.services[t].specs)
  BY <1>1, <1>2, Zenon DEF PolledCatalog, Recorded
<1> QED
  BY <1>2, <1>3, <1>4 DEF Answered

\* A fleet of any services and releases, whatever is redeployed while it is polled,
\* whatever is down, fails or answers with an error that poller.py takes for a document:
\* where nothing is pushed the collector shows no drift, two publications that differ in
\* a schema never hide the change, and a topic goes only where its service is registered
\* by the body of an error.
THEOREM PollsShowReleases == PollSpec => PollShowsReleases
<1>1. PollSpec => []PollInv
  BY PollStarts, PollHolds, PTL DEF PollSpec
<1>2. PollInv /\ [PollNext]_pollVars =>
          [~pushing /\ PublishSweep =>
              /\ \A t \in DOMAIN published \cap DOMAIN published' :
                   published'[t].schemas # published[t].schemas => published'[t].changes # {}
              /\ \A t \in DOMAIN published \ DOMAIN published' : catalog.services[t].hash = ""]_pollVars
  BY ChangesShown, GoneByError
<1> QED
  BY <1>1, <1>2, NoDrift, PTL DEF PollSpec, PollShowsReleases, ChangePublished

(***************************************************************************)
(* MeshHost.                                                               *)
(***************************************************************************)
\* What SumFunctionOnSet(g, S) is S's value of.
IsSum(h, g, S) == h = [s \in SUBSET S |-> IF s = {} THEN 0
                                          ELSE g[CHOOSE x \in s : TRUE] + h[s \ {CHOOSE x \in s : TRUE}]]

\* Sums are defined: the sums up to a size give those of the next size.
LEMMA SumExists ==
    ASSUME NEW g, NEW S, IsFiniteSet(S)
    PROVE  \E h : IsSum(h, g, S)
<1> DEFINE Value(h, s) == IF s = {} THEN 0 ELSE g[CHOOSE x \in s : TRUE] + h[s \ {CHOOSE x \in s : TRUE}]
           UpTo(h, n) == /\ h = [s \in SUBSET S |-> h[s]]
                         /\ \A s \in SUBSET S : Cardinality(s) <= n => h[s] = Value(h, s)
           bad == {n \in Nat : ~\E h : UpTo(h, n)}
<1>1. \A s \in SUBSET S : IsFiniteSet(s) /\ Cardinality(s) \in Nat /\ Cardinality(s) <= Cardinality(S)
  BY FS_Subset, FS_CardinalityType
<1>2. \A s \in SUBSET S : s # {} => /\ (CHOOSE x \in s : TRUE) \in s
                                    /\ Cardinality(s \ {CHOOSE x \in s : TRUE}) = Cardinality(s) - 1
  BY <1>1, FS_RemoveElement
<1>3. bad = {}
  <2>1. SUFFICES ASSUME bad # {} PROVE FALSE
    OBVIOUS
  <2>2. PICK n \in bad : \A m \in bad : n <= m
    <3> HIDE DEF bad
    <3>1. bad \in SUBSET Nat
      BY DEF bad
    <3> QED
      BY <2>1, <3>1, LeastExists
  <2>3. n \in Nat /\ ~\E h : UpTo(h, n)
    OBVIOUS
  <2>4. CASE n = 0
    <3> DEFINE h == [s \in SUBSET S |-> 0]
    <3>1. \A s \in SUBSET S : Cardinality(s) <= 0 => s = {}
      BY <1>1, FS_EmptySet
    <3>2. UpTo(h, 0)
      BY <3>1
    <3> QED
      BY <2>3, <2>4, <3>2
  <2>5. CASE n # 0
    <3>1. n - 1 \in Nat /\ n - 1 \notin bad
      <4>1. n - 1 \in bad => n <= n - 1
        BY <2>2
      <4> HIDE DEF bad
      <4> QED
        BY <2>3, <2>5, <4>1
    <3>2. PICK h : UpTo(h, n - 1)
      BY <3>1
    <3> DEFINE more == [s \in SUBSET S |-> Value(h, s)]
    <3>3. \A s \in SUBSET S : Cardinality(s) <= n - 1 => more[s] = h[s]
      BY <3>2
    <3>4. \A s \in SUBSET S : Cardinality(s) <= n => Value(more, s) = Value(h, s)
      <4> SUFFICES ASSUME NEW s \in SUBSET S, Cardinality(s) <= n, s # {}
                   PROVE  Value(more, s) = Value(h, s)
        OBVIOUS
      <4> DEFINE rest == s \ {CHOOSE x \in s : TRUE}
      <4>1. rest \in SUBSET S /\ Cardinality(rest) <= n - 1
        BY <1>1, <1>2, <2>3
      <4>2. more[rest] = h[rest]
        <5> HIDE DEF rest, more
        <5> QED
          BY <3>3, <4>1
      <4> HIDE DEF more
      <4> QED
        BY <4>2
    <3>5. UpTo(more, n)
      <4>1. \A s \in SUBSET S : Cardinality(s) <= n => more[s] = Value(more, s)
        <5>1. \A s \in SUBSET S : more[s] = Value(h, s)
          OBVIOUS
        <5> HIDE DEF more, Value
        <5> QED
          BY <3>4, <5>1
      <4>2. more = [s \in SUBSET S |-> more[s]]
        OBVIOUS
      <4> QED
        BY <4>1, <4>2
    <3> HIDE DEF more, UpTo
    <3> QED
      BY <2>3, <3>5
  <2> QED
    BY <2>4, <2>5
<1>4. PICK h : UpTo(h, Cardinality(S))
  <2>1. Cardinality(S) \in Nat /\ Cardinality(S) \notin bad
    BY <1>3, FS_CardinalityType
  <2> HIDE DEF UpTo
  <2> QED
    BY <2>1
<1>5. h = [s \in SUBSET S |-> h[s]] /\ \A s \in SUBSET S : h[s] = Value(h, s)
  <2>1. \A s \in SUBSET S : Cardinality(s) <= Cardinality(S)
    BY <1>1
  <2> HIDE DEF Value
  <2> QED
    BY <1>4, <2>1
<1>6. h = [s \in SUBSET S |-> Value(h, s)]
  <2> HIDE DEF Value
  <2> QED
    BY <1>5, Zenon
<1> QED
  BY <1>6 DEF IsSum

\* A sum over a subset of what is added up is one of the same sums.
LEMMA SumIs ==
    ASSUME NEW g, NEW S, IsFiniteSet(S)
    PROVE  \E h : IsSum(h, g, S) /\ SumFunctionOnSet(g, S) = h[S]
<1>1. SumFunctionOnSet(g, S) = (CHOOSE h : IsSum(h, g, S))[S]
  BY Zenon DEF SumFunctionOnSet, FoldFunctionOnSet, MapThenFoldSet, IsSum
<1> QED
  BY <1>1, SumExists

LEMMA SumsAgree ==
    ASSUME NEW g, NEW S, IsFiniteSet(S), NEW T \in SUBSET S,
           NEW h, IsSum(h, g, S), NEW k, IsSum(k, g, T), NEW u \in SUBSET T
    PROVE  h[u] = k[u]
<1> DEFINE bad == {Cardinality(s) : s \in {t \in SUBSET T : h[t] # k[t]}}
<1>1. \A s \in SUBSET T : IsFiniteSet(s) /\ Cardinality(s) \in Nat /\ s \in SUBSET S
  BY FS_Subset, FS_CardinalityType
<1>2. SUFFICES ASSUME bad # {} PROVE FALSE
  BY <1>1
<1>3. PICK n \in bad : \A m \in bad : n <= m
  <2>1. bad \in SUBSET Nat
    BY <1>1
  <2> HIDE DEF bad
  <2> QED
    BY <1>2, <2>1, LeastExists
<1>4. PICK s \in SUBSET T : h[s] # k[s] /\ n = Cardinality(s)
  BY <1>3
<1>5. /\ h[s] = IF s = {} THEN 0 ELSE g[CHOOSE x \in s : TRUE] + h[s \ {CHOOSE x \in s : TRUE}]
      /\ k[s] = IF s = {} THEN 0 ELSE g[CHOOSE x \in s : TRUE] + k[s \ {CHOOSE x \in s : TRUE}]
  BY <1>1, Zenon DEF IsSum
<1>6. s # {}
  BY <1>4, <1>5
<1>7. PICK x : x = (CHOOSE y \in s : TRUE)
  OBVIOUS
<1>8. x \in s /\ Cardinality(s \ {x}) = n - 1 /\ n \in Nat
  BY <1>1, <1>4, <1>6, <1>7, FS_RemoveElement
<1>9. h[s \ {x}] = k[s \ {x}]
  <2>1. s \ {x} \in SUBSET T /\ (h[s \ {x}] # k[s \ {x}] => n - 1 \in bad)
    BY <1>8
  <2>2. n - 1 \notin bad
    <3>1. n - 1 \in bad => n <= n - 1
      BY <1>3
    <3> HIDE DEF bad
    <3> QED
      BY <1>8, <3>1
  <2> QED
    BY <2>1, <2>2
<1> QED
  BY <1>4, <1>5, <1>6, <1>7, <1>9

\* A sum splits at any of its members.
LEMMA SumSplits ==
    ASSUME NEW g, NEW S, IsFiniteSet(S), \A x \in S : g[x] \in Nat
    PROVE  /\ SumFunctionOnSet(g, S) \in Nat
           /\ S = {} => SumFunctionOnSet(g, S) = 0
           /\ \A x \in S : SumFunctionOnSet(g, S) = g[x] + SumFunctionOnSet(g, S \ {x})
<1>1. PICK h : IsSum(h, g, S) /\ SumFunctionOnSet(g, S) = h[S]
  BY SumIs
<1>2. \A s \in SUBSET S : h[s] = IF s = {} THEN 0 ELSE g[CHOOSE x \in s : TRUE] + h[s \ {CHOOSE x \in s : TRUE}]
  BY <1>1, Zenon DEF IsSum
<1> DEFINE Splits(s) == h[s] \in Nat /\ \A x \in s : h[s] = g[x] + h[s \ {x}]
           bad == {Cardinality(s) : s \in {t \in SUBSET S : ~Splits(t)}}
<1>3. \A s \in SUBSET S : IsFiniteSet(s) /\ Cardinality(s) \in Nat
  BY FS_Subset, FS_CardinalityType
<1>4. bad = {}
  <2>1. SUFFICES ASSUME bad # {} PROVE FALSE
    OBVIOUS
  <2>2. PICK n \in bad : \A m \in bad : n <= m
    <3>1. bad \in SUBSET Nat
      BY <1>3
    <3> HIDE DEF bad
    <3> QED
      BY <2>1, <3>1, LeastExists
  <2>3. PICK s \in SUBSET S : ~Splits(s) /\ n = Cardinality(s)
    BY <2>2
  <2>4. \A t \in SUBSET S : Cardinality(t) < n => Splits(t)
    <3> SUFFICES ASSUME NEW t \in SUBSET S, Cardinality(t) < n, ~Splits(t) PROVE FALSE
      OBVIOUS
    <3>1. Cardinality(t) \in bad
      OBVIOUS
    <3>2. n <= Cardinality(t)
      <4> HIDE DEF bad
      <4> QED
        BY <2>2, <3>1
    <3> QED
      BY <1>3, <2>3, <3>2
  <2>5. CASE s = {}
    BY <1>2, <2>3, <2>5
  <2>6. CASE s # {}
    <3>1. PICK y : y = (CHOOSE x \in s : TRUE)
      OBVIOUS
    <3>2. y \in s /\ Cardinality(s \ {y}) < n /\ s \ {y} \in SUBSET S
      <4>1. y \in s
        BY <2>6, <3>1
      <4>2. IsFiniteSet(s) /\ Cardinality(s) \in Nat
        BY <1>3
      <4>3. Cardinality(s \ {y}) = Cardinality(s) - 1
        BY <4>1, <4>2, FS_RemoveElement
      <4> QED
        BY <2>3, <4>1, <4>2, <4>3
    <3>3. h[s] = g[y] + h[s \ {y}] /\ h[s \ {y}] \in Nat /\ g[y] \in Nat
      BY <1>2, <2>4, <2>6, <3>1, <3>2
    <3>4. \A x \in s : h[s] = g[x] + h[s \ {x}]
      <4> SUFFICES ASSUME NEW x \in s, x # y PROVE h[s] = g[x] + h[s \ {x}]
        BY <3>3
      <4>1. Cardinality(s \ {x}) < n /\ s \ {x} \in SUBSET S
        BY <1>3, <2>3, FS_RemoveElement
      <4>2. h[s \ {y}] = g[x] + h[(s \ {y}) \ {x}] /\ h[s \ {x}] = g[y] + h[(s \ {x}) \ {y}]
        <5>1. x \in s \ {y} /\ y \in s \ {x}
          BY <3>2
        <5> QED
          BY <2>4, <3>2, <4>1, <5>1
      <4>3. (s \ {y}) \ {x} = (s \ {x}) \ {y}
        OBVIOUS
      <4>4. h[(s \ {x}) \ {y}] \in Nat
        <5>1. Cardinality((s \ {x}) \ {y}) < n
          <6>1. IsFiniteSet(s \ {x}) /\ y \in s \ {x}
            BY <1>3, <3>2, <4>1
          <6>2. Cardinality((s \ {x}) \ {y}) = Cardinality(s \ {x}) - 1 /\ Cardinality(s \ {x}) \in Nat
            BY <1>3, <4>1, <6>1, FS_RemoveElement
          <6> QED
            BY <1>3, <2>3, <4>1, <6>2
        <5> QED
          BY <2>4, <5>1
      <4>5. g[x] \in Nat
        OBVIOUS
      <4> HIDE DEF Splits, bad
      <4> QED
        BY <3>3, <4>2, <4>3, <4>4, <4>5
    <3>5. h[s] \in Nat
      BY <3>3
    <3> QED
      BY <2>3, <3>4, <3>5
  <2> QED
    BY <2>5, <2>6
<1>5. h[S] \in Nat /\ (S = {} => h[S] = 0) /\ \A x \in S : h[S] = g[x] + h[S \ {x}]
  <2>1. Splits(S)
    BY <1>4
  <2> QED
    BY <1>2, <2>1
<1>6. \A x \in S : SumFunctionOnSet(g, S \ {x}) = h[S \ {x}]
  <2> SUFFICES ASSUME NEW x \in S PROVE SumFunctionOnSet(g, S \ {x}) = h[S \ {x}]
    OBVIOUS
  <2>1. IsFiniteSet(S \ {x}) /\ S \ {x} \in SUBSET S
    BY FS_Subset
  <2>2. PICK k : IsSum(k, g, S \ {x}) /\ SumFunctionOnSet(g, S \ {x}) = k[S \ {x}]
    BY <2>1, SumIs
  <2>3. PICK T : T = S \ {x}
    OBVIOUS
  <2>4. T \in SUBSET S /\ IsSum(k, g, T) /\ T \in SUBSET T
    BY <2>2, <2>3
  <2>5. h[T] = k[T]
    <3> HIDE DEF Splits, bad
    <3> QED
      BY <1>1, <2>4, SumsAgree
  <2> QED
    BY <2>2, <2>3, <2>5
<1> QED
  BY <1>1, <1>5, <1>6

\* What is zero adds nothing to a sum.
LEMMA ZerosDrop ==
    ASSUME NEW S, IsFiniteSet(S), NEW T \in SUBSET S, NEW g, \A x \in S : g[x] \in Nat, \A x \in S \ T : g[x] = 0
    PROVE  SumFunctionOnSet(g, S) = SumFunctionOnSet(g, T)
<1> DEFINE Drops(R) == SumFunctionOnSet(g, R \cup T) = SumFunctionOnSet(g, T)
           bad == {Cardinality(R) : R \in {U \in SUBSET (S \ T) : ~Drops(U)}}
<1>1. \A R \in SUBSET S : IsFiniteSet(R) /\ Cardinality(R) \in Nat
  BY FS_Subset, FS_CardinalityType
<1>2. bad = {}
  <2>1. SUFFICES ASSUME bad # {} PROVE FALSE
    OBVIOUS
  <2>2. PICK n \in bad : \A m \in bad : n <= m
    <3>1. bad \in SUBSET Nat
      BY <1>1
    <3> HIDE DEF bad
    <3> QED
      BY <2>1, <3>1, LeastExists
  <2>3. PICK R \in SUBSET (S \ T) : ~Drops(R) /\ n = Cardinality(R)
    BY <2>2
  <2>4. R # {}
    <3>1. {} \cup T = T
      OBVIOUS
    <3> QED
      BY <2>3, <3>1
  <2>5. PICK x \in R : TRUE
    BY <2>4
  <2>6. PICK Q, all, others : Q = R \ {x} /\ all = R \cup T /\ others = Q \cup T
    OBVIOUS
  <2>7. Q \in SUBSET (S \ T) /\ Cardinality(Q) = n - 1 /\ n \in Nat
    BY <2>3, <2>5, <2>6, <1>1, FS_RemoveElement
  <2>8. Drops(Q)
    <3>1. ~Drops(Q) => n - 1 \in bad
      BY <2>7
    <3>2. n - 1 \in bad => n <= n - 1
      BY <2>2
    <3> HIDE DEF bad, Drops
    <3> QED
      BY <3>1, <3>2, <2>7
  <2>9. all \in SUBSET S /\ x \in all /\ others = all \ {x} /\ g[x] = 0 /\ others \in SUBSET S
    BY <2>3, <2>5, <2>6
  <2>10. IsFiniteSet(all) /\ IsFiniteSet(others) /\ \A y \in all : g[y] \in Nat
    BY <1>1, <2>9
  <2>11. SumFunctionOnSet(g, all) = g[x] + SumFunctionOnSet(g, all \ {x})
    BY <2>9, <2>10, SumSplits
  <2>12. SumFunctionOnSet(g, others) \in Nat
    BY <2>9, <2>10, SumSplits
  <2>13. SumFunctionOnSet(g, all) = SumFunctionOnSet(g, others)
    BY <2>9, <2>11, <2>12
  <2> QED
    BY <2>3, <2>6, <2>8, <2>13
<1>3. Drops(S \ T)
  <2>1. S \ T \in SUBSET (S \ T)
    OBVIOUS
  <2> HIDE DEF Drops
  <2> QED
    BY <1>2, <2>1
<1>4. (S \ T) \cup T = S
  OBVIOUS
<1> QED
  BY <1>3, <1>4


\* What the collector holds between two calls: the span index is that of the events.
Counted(issues) == \A fp \in DOMAIN issues : issues[fp].count \in Nat
Sound(c) == /\ IsCatalog(c) /\ c.owner = OwnerOf(c.events)
            /\ c.events \in Seq(Traced) /\ Counted(c.issues)

\* What no ingest takes back.
Grows(c, d) ==
    /\ \A e : Contains(c.events, e) => Contains(d.events, e)
    /\ \A fp : CountOf(d, fp) >= CountOf(c, fp)
    /\ DOMAIN c.services \subseteq DOMAIN d.services

\* ... and the counts no trace changes.
SameCounts(c, d) == \A fp : fp[3] # "contract-drift" => CountOf(d, fp) = CountOf(c, fp)

\* What a call seen in a service's span is filed under, and when it is.
DriftOf(s, e) == issue_fingerprint(s, e.topic, "contract-drift", "undeclared-edge")
Undeclares(c, s, e) ==
    /\ s # e.service /\ e.parent # "" /\ e.parent \in DOMAIN c.owner /\ c.owner[e.parent] = s
    /\ s \in DOMAIN c.services /\ c.services[s].registered /\ {"events", "sends"} \subseteq c.services[s].known
    /\ e.topic \notin c.services[s].produced \cup Reserved

LEMMA GrowsOn ==
    ASSUME NEW c, Counted(c.issues), NEW d, Counted(d.issues), NEW x, Counted(x.issues), Grows(c, d), Grows(d, x)
    PROVE  Grows(c, x)
<1>1. \A fp : CountOf(c, fp) \in Nat /\ CountOf(d, fp) \in Nat /\ CountOf(x, fp) \in Nat
  BY DEF Counted, CountOf
<1>2. \A fp : CountOf(x, fp) >= CountOf(c, fp)
  BY <1>1 DEF Grows
<1> QED
  BY <1>2 DEF Grows

LEMMA GrowsSelf == ASSUME NEW c, Counted(c.issues) PROVE Grows(c, c)
<1>1. \A fp : CountOf(c, fp) \in Nat
  BY DEF Counted, CountOf
<1> QED
  BY <1>1 DEF Grows

\* An issue adds its count to that of its fingerprint.
NumberOf(issues, fp) == IF fp \in DOMAIN issues THEN issues[fp].count ELSE 0

LEMMA MergeCounts ==
    ASSUME NEW issues, Counted(issues), NEW issue, issue.count \in Nat
    PROVE  /\ Counted(MergeIssue(issues, issue))
           /\ \A fp : NumberOf(MergeIssue(issues, issue), fp)
                      = NumberOf(issues, fp) + (IF fp = issue.fp THEN issue.count ELSE 0)
<1>1. PICK total : total = NumberOf(issues, issue.fp) + issue.count
  OBVIOUS
<1>2. NumberOf(issues, issue.fp) \in Nat /\ total \in Nat
  BY <1>1 DEF NumberOf, Counted
<1>3. PICK merged : merged.count = total /\ MergeIssue(issues, issue) = With(issues, issue.fp, merged)
  <2>1. PICK old : /\ old = IF issue.fp \in DOMAIN issues THEN issues[issue.fp]
                            ELSE [count |-> 0, exemplars |-> <<>>, first |-> 0, last |-> 0, errors |-> <<>>]
                   /\ old.count = NumberOf(issues, issue.fp)
    <3>1. PICK none : none = [count |-> 0, exemplars |-> <<>>, first |-> 0, last |-> 0, errors |-> <<>>]
      OBVIOUS
    <3>2. none.count = 0
      BY <3>1
    <3>3. (IF issue.fp \in DOMAIN issues THEN issues[issue.fp] ELSE none).count = NumberOf(issues, issue.fp)
      BY <3>2 DEF NumberOf
    <3> QED
      BY <3>1, <3>3
  <2>2. \E ex, f, l, er : MergeIssue(issues, issue) =
            With(issues, issue.fp, [fp |-> issue.fp, count |-> old.count + issue.count,
                                    exemplars |-> ex, first |-> f, last |-> l, errors |-> er])
    BY <2>1, ZenonT(60) DEF MergeIssue
  <2>3. PICK ex, f, l, er : MergeIssue(issues, issue) =
            With(issues, issue.fp, [fp |-> issue.fp, count |-> total,
                                    exemplars |-> ex, first |-> f, last |-> l, errors |-> er])
    BY <1>1, <2>1, <2>2
  <2>4. [fp |-> issue.fp, count |-> total, exemplars |-> ex, first |-> f, last |-> l, errors |-> er].count = total
    OBVIOUS
  <2> QED
    BY <2>3, <2>4
<1>4. \A fp : fp \in DOMAIN MergeIssue(issues, issue) <=> fp \in DOMAIN issues \/ fp = issue.fp
  BY <1>3 DEF With
<1>5. \A fp \in DOMAIN MergeIssue(issues, issue) :
          MergeIssue(issues, issue)[fp] = IF fp = issue.fp THEN merged ELSE issues[fp]
  BY <1>3 DEF With
<1>6. Counted(MergeIssue(issues, issue))
  BY <1>2, <1>3, <1>4, <1>5 DEF Counted
<1>7. \A fp : NumberOf(MergeIssue(issues, issue), fp)
              = NumberOf(issues, fp) + (IF fp = issue.fp THEN issue.count ELSE 0)
  <2> SUFFICES ASSUME NEW fp PROVE NumberOf(MergeIssue(issues, issue), fp)
                                   = NumberOf(issues, fp) + (IF fp = issue.fp THEN issue.count ELSE 0)
    OBVIOUS
  <2>1. CASE fp = issue.fp
    BY <2>1, <1>1, <1>3, <1>4, <1>5 DEF NumberOf
  <2>2. CASE fp # issue.fp
    <3>1. NumberOf(MergeIssue(issues, issue), fp) = NumberOf(issues, fp) /\ NumberOf(issues, fp) \in Nat
      BY <2>2, <1>4, <1>5 DEF NumberOf, Counted
    <3> QED
      BY <2>2, <3>1
  <2> QED
    BY <2>1, <2>2
<1> QED
  BY <1>6, <1>7

\* The index of one more event.
LEMMA OwnerOfMore ==
    ASSUME NEW events \in Seq(Traced), NEW e \in Traced
    PROVE  OwnerOf(Append(events, e)) = With(OwnerOf(events), e.span, e.service)
<1>1. PICK more, n : more = Append(events, e) /\ n = Len(events) + 1
  OBVIOUS
<1>2. /\ n \in Nat /\ n >= 1 /\ DOMAIN events = 1 .. n - 1 /\ DOMAIN more = 1 .. n /\ more[n] = e
      /\ \A i \in 1 .. n - 1 : more[i] = events[i]
  BY <1>1
<1> DEFINE At(s, span) == {i \in DOMAIN s : s[i].span = span}
<1>3. {more[i].span : i \in DOMAIN more} = {events[i].span : i \in DOMAIN events} \cup {e.span}
  <2>1. \A i \in DOMAIN more : i = n \/ i \in DOMAIN events
    BY <1>2
  <2>2. n \in DOMAIN more /\ DOMAIN events \subseteq DOMAIN more
    BY <1>2
  <2> QED
    BY <1>2, <2>1, <2>2
<1>4. Max(At(more, e.span)) = n
  <2>1. n \in At(more, e.span) /\ \A i \in At(more, e.span) : i \in Nat /\ i <= n
    <3>1. n \in DOMAIN more /\ more[n].span = e.span
      BY <1>2
    <3> QED
      BY <1>2, <3>1
  <2> HIDE DEF At
  <2>2. PICK S : S = At(more, e.span)
    OBVIOUS
  <2>3. Max(S) \in S /\ \A i \in S : Max(S) >= i
    <3>1. \E m \in S : \A i \in S : m >= i
      BY <1>2, <2>1, <2>2
    <3> QED
      BY <3>1, Zenon DEF Max
  <2>4. Max(S) <= n /\ n <= Max(S) /\ Max(S) \in Nat
    BY <1>2, <2>1, <2>2, <2>3
  <2> QED
    BY <1>2, <2>2, <2>4
<1>5. \A span : span # e.span => At(more, span) = At(events, span)
  <2> SUFFICES ASSUME NEW span, span # e.span PROVE At(more, span) = At(events, span)
    OBVIOUS
  <2>1. \A i \in At(more, span) : i \in 1 .. n - 1
    <3>1. n \notin At(more, span)
      BY <1>2
    <3> QED
      BY <1>2, <3>1
  <2> QED
    BY <1>2, <2>1
<1>6. \A span \in {events[i].span : i \in DOMAIN events} :
          span # e.span => more[Max(At(events, span))] = events[Max(At(events, span))]
  <2> SUFFICES ASSUME NEW span \in {events[i].span : i \in DOMAIN events}
               PROVE  Max(At(events, span)) \in 1 .. n - 1
    BY <1>2
  <2> DEFINE S == At(events, span)
             back == {n - i : i \in S}
  <2>1. S # {} /\ \A i \in S : i \in 1 .. n - 1
    BY <1>2
  <2>2. PICK b \in back : \A c \in back : b <= c
    <3>1. back \in SUBSET Nat /\ back # {}
      BY <2>1, <1>2
    <3> HIDE DEF back
    <3> QED
      BY <3>1, LeastExists
  <2>3. PICK i \in S : b = n - i
    BY <2>2
  <2>4. \A j \in S : i >= j
    <3> SUFFICES ASSUME NEW j \in S PROVE i >= j
      OBVIOUS
    <3>1. n - i <= n - j
      BY <2>2, <2>3
    <3> HIDE DEF S
    <3> QED
      BY <1>2, <2>1, <3>1
  <2>5. Max(S) \in S
    <3> HIDE DEF S
    <3> QED
      BY <2>4, Zenon DEF Max
  <2> QED
    BY <2>1, <2>5
<1> HIDE DEF At
<1>7. OwnerOf(more) = [span \in {events[i].span : i \in DOMAIN events} \cup {e.span} |->
                           more[Max(At(more, span))].service]
  BY <1>3, Zenon DEF OwnerOf, At
<1>8. OwnerOf(events) = [span \in {events[i].span : i \in DOMAIN events} |-> events[Max(At(events, span))].service]
  BY Zenon DEF OwnerOf, At
<1>9. \A span \in {events[i].span : i \in DOMAIN events} \cup {e.span} :
          more[Max(At(more, span))].service
          = IF span = e.span THEN e.service ELSE events[Max(At(events, span))].service
  BY <1>2, <1>4, <1>5, <1>6
<1>10. DOMAIN OwnerOf(events) = {events[i].span : i \in DOMAIN events}
       /\ \A span \in DOMAIN OwnerOf(events) : OwnerOf(events)[span] = events[Max(At(events, span))].service
  BY <1>8
<1>11. PICK D, own : D = {events[i].span : i \in DOMAIN events} /\ own = OwnerOf(events)
  OBVIOUS
<1>12. With(own, e.span, e.service) = [span \in D \cup {e.span} |->
                                         IF span = e.span THEN e.service ELSE own[span]]
  BY <1>10, <1>11 DEF With
<1>13. \A span \in D \cup {e.span} : more[Max(At(more, span))].service
                                    = IF span = e.span THEN e.service ELSE own[span]
  BY <1>9, <1>10, <1>11
<1>14. OwnerOf(more) = [span \in D \cup {e.span} |-> more[Max(At(more, span))].service]
  BY <1>7, <1>11
<1> QED
  BY <1>1, <1>11, <1>12, <1>13, <1>14, Zenon


LEMMA FlagKeeps ==
    ASSUME NEW c, Sound(c), NEW s, NEW t, NEW declared, NEW trace,
           NEW d, d = FlagDrift(c, s, t, declared, trace)
    PROVE  /\ Sound(d) /\ Grows(c, d) /\ SameCounts(c, d)
           /\ d.events = c.events /\ d.owner = c.owner /\ d.services = c.services
           /\ c.services[s].registered /\ t \notin declared \cup Reserved =>
                LET fp == issue_fingerprint(s, t, "contract-drift", "undeclared-edge")
                IN  CountOf(d, fp) > CountOf(c, fp)
<1> DEFINE said == c.services[s].registered /\ t \notin declared \cup Reserved
<1>1. CASE ~said
  <2>1. d = c
    BY <1>1 DEF FlagDrift
  <2> QED
    BY <1>1, <2>1, GrowsSelf DEF Sound, SameCounts
<1>2. CASE said
  <2>1. PICK issue : /\ issue.count = 1 /\ issue.fp = issue_fingerprint(s, t, "contract-drift", "undeclared-edge")
                     /\ d = [c EXCEPT !.issues = MergeIssue(c.issues, issue)]
    <3>1. PICK ex, fp : /\ d = [c EXCEPT !.issues = MergeIssue(c.issues,
                               [fp |-> fp, count |-> 1, exemplars |-> ex, first |-> 0, last |-> 0, errors |-> <<>>])]
                        /\ fp = issue_fingerprint(s, t, "contract-drift", "undeclared-edge")
      BY <1>2, Zenon DEF FlagDrift
    <3>2. PICK issue : issue = [fp |-> fp, count |-> 1, exemplars |-> ex, first |-> 0, last |-> 0, errors |-> <<>>]
      OBVIOUS
    <3>3. issue.count = 1 /\ issue.fp = fp
      BY <3>2
    <3> QED
      BY <3>1, <3>2, <3>3
  <2>2. PICK merged : merged = MergeIssue(c.issues, issue)
    OBVIOUS
  <2>3. Counted(merged) /\ \A fp : NumberOf(merged, fp) = NumberOf(c.issues, fp) + (IF fp = issue.fp THEN 1 ELSE 0)
    BY <2>1, <2>2, MergeCounts DEF Sound
  <2>4. /\ d.issues = merged /\ d.events = c.events /\ d.owner = c.owner /\ d.services = c.services
        /\ IsCatalog(d)
    BY <2>1, <2>2 DEF Sound, IsCatalog
  <2>5. /\ \A fp : CountOf(d, fp) >= CountOf(c, fp) /\ (fp # issue.fp => CountOf(d, fp) = CountOf(c, fp))
        /\ CountOf(d, issue.fp) > CountOf(c, issue.fp)
    <3>1. \A fp : NumberOf(c.issues, fp) \in Nat
      BY DEF NumberOf, Sound, Counted
    <3>2. /\ \A fp : /\ NumberOf(merged, fp) >= NumberOf(c.issues, fp)
                     /\ fp # issue.fp => NumberOf(merged, fp) = NumberOf(c.issues, fp)
          /\ NumberOf(merged, issue.fp) > NumberOf(c.issues, issue.fp)
      BY <2>3, <3>1
    <3>3. \A fp : CountOf(d, fp) = NumberOf(merged, fp) /\ CountOf(c, fp) = NumberOf(c.issues, fp)
      BY <2>4 DEF CountOf, NumberOf
    <3> QED
      BY <3>2, <3>3
  <2>6. issue.fp[3] = "contract-drift"
    BY <2>1 DEF issue_fingerprint
  <2>7. SameCounts(c, d)
    BY <2>5, <2>6 DEF SameCounts
  <2> QED
    BY <2>1, <2>3, <2>4, <2>5, <2>7 DEF Sound, Grows
<1> QED
  BY <1>1, <1>2

LEMMA TraceKeeps ==
    ASSUME NEW c, Sound(c), NEW e \in Traced, NEW d, d = TraceEvent(c, e)
    PROVE  /\ Sound(d) /\ Grows(c, d) /\ Contains(d.events, e) /\ SameCounts(c, d)
           /\ d.events = Append(c.events, e) /\ d.services = WithService(c.services, e.service)
           /\ \A s : Undeclares(d, s, e) => CountOf(d, DriftOf(s, e)) > CountOf(c, DriftOf(s, e))
<1>1. PICK ev, ow, tp, sv : /\ ev = Append(c.events, e)
                            /\ ow = With(c.owner, e.span, e.service)
                            /\ tp = c.topics \cup {e.topic}
                            /\ sv = WithService(c.services, e.service)
  OBVIOUS
<1>2. PICK seen : seen = Observed(c, e)
  OBVIOUS
<1>3. /\ seen.events = ev /\ seen.owner = ow /\ seen.services = sv /\ seen.issues = c.issues
      /\ IsCatalog(seen)
  <2>1. seen = [c EXCEPT !.events = ev, !.owner = ow, !.topics = tp, !.services = sv]
    BY <1>1, <1>2 DEF Observed
  <2> QED
    BY <2>1 DEF Sound, IsCatalog
<1>4. Sound(seen)
  <2>1. ow = OwnerOf(ev)
    BY <1>1, OwnerOfMore, Zenon DEF Sound
  <2>2. ev \in Seq(Traced)
    BY <1>1 DEF Sound
  <2> QED
    BY <1>3, <2>1, <2>2 DEF Sound
<1>5. Grows(c, seen) /\ Contains(seen.events, e)
  <2>1. /\ Len(ev) = Len(c.events) + 1 /\ Len(c.events) \in Nat /\ ev[Len(ev)] = e
        /\ \A i \in 1 .. Len(c.events) : ev[i] = c.events[i]
    BY <1>1 DEF Sound
  <2>2. Contains(ev, e) /\ \A x : Contains(c.events, x) => Contains(ev, x)
    BY <2>1 DEF Contains
  <2>3. \A fp : CountOf(seen, fp) = CountOf(c, fp) /\ CountOf(c, fp) \in Nat
    BY <1>3 DEF CountOf, Sound, Counted
  <2>4. DOMAIN c.services \subseteq DOMAIN sv
    BY <1>1 DEF WithService, With
  <2> QED
    BY <1>3, <2>2, <2>3, <2>4 DEF Grows
<1>6. PICK flagged : flagged = CalleeChecked(seen, e) /\ d = CallerChecked(flagged, e)
  BY <1>2 DEF TraceEvent
<1>7. /\ Sound(flagged) /\ Grows(seen, flagged) /\ SameCounts(seen, flagged)
      /\ flagged.events = seen.events /\ flagged.owner = seen.owner /\ flagged.services = seen.services
  <2>1. flagged = seen \/ \E s, declared : flagged = FlagDrift(seen, s, e.topic, declared, e.trace)
    BY <1>6, Zenon DEF CalleeChecked
  <2>2. SameCounts(seen, seen)
    BY DEF SameCounts
  <2> QED
    BY <1>4, <2>1, <2>2, FlagKeeps, GrowsSelf DEF Sound
<1>8. /\ Sound(d) /\ Grows(flagged, d) /\ SameCounts(flagged, d)
      /\ d.events = flagged.events /\ d.owner = flagged.owner /\ d.services = flagged.services
  <2>1. d = flagged \/ \E s, declared : d = FlagDrift(flagged, s, e.topic, declared, e.trace)
    BY <1>6, Zenon DEF CallerChecked
  <2>2. SameCounts(flagged, flagged)
    BY DEF SameCounts
  <2> QED
    BY <1>7, <2>1, <2>2, FlagKeeps, GrowsSelf DEF Sound
<1>9. Grows(c, flagged)
  BY <1>4, <1>5, <1>7, GrowsOn DEF Sound
<1>10. Grows(c, d)
  BY <1>7, <1>8, <1>9, GrowsOn DEF Sound
<1>11. SameCounts(c, d)
  <2>1. \A fp : CountOf(seen, fp) = CountOf(c, fp)
    BY <1>3 DEF CountOf
  <2> QED
    BY <1>7, <1>8, <2>1 DEF SameCounts
<1>12. ASSUME NEW s, Undeclares(d, s, e)
       PROVE  CountOf(d, DriftOf(s, e)) > CountOf(c, DriftOf(s, e))
  <2>1. Undeclares(flagged, s, e)
    BY <1>8, <1>12 DEF Undeclares
  <2>2. PICK callers, caller :
          /\ callers = {x \in DOMAIN flagged.services \ {e.service} :
                          /\ e.parent # "" /\ e.parent \in DOMAIN flagged.owner /\ flagged.owner[e.parent] = x
                          /\ {"events", "sends"} \subseteq flagged.services[x].known}
          /\ caller = CHOOSE x \in callers : TRUE
          /\ d = IF callers = {} THEN flagged
                 ELSE FlagDrift(flagged, caller, e.topic, flagged.services[caller].produced, e.trace)
    BY <1>6, Zenon DEF CallerChecked
  <2>3. d = FlagDrift(flagged, s, e.topic, flagged.services[s].produced, e.trace)
    <3>1. callers = {s}
      BY <2>1, <2>2 DEF Undeclares
    <3>2. caller = s
      BY <2>2, <3>1
    <3>3. callers # {}
      BY <3>1
    <3>4. d = FlagDrift(flagged, caller, e.topic, flagged.services[caller].produced, e.trace)
      BY <2>2, <3>3
    <3> QED
      BY <3>2, <3>4, Zenon
  <2>4. CountOf(d, DriftOf(s, e)) > CountOf(flagged, DriftOf(s, e))
    <3>1. PICK t, declared, trace : /\ t = e.topic /\ declared = flagged.services[s].produced /\ trace = e.trace
                                    /\ d = FlagDrift(flagged, s, t, declared, trace)
      BY <2>3, Zenon
    <3>2. flagged.services[s].registered /\ t \notin declared \cup Reserved
      BY <2>1, <3>1 DEF Undeclares
    <3>3. CountOf(d, issue_fingerprint(s, t, "contract-drift", "undeclared-edge"))
            > CountOf(flagged, issue_fingerprint(s, t, "contract-drift", "undeclared-edge"))
      BY <1>7, <3>1, <3>2, FlagKeeps
    <3> QED
      BY <3>1, <3>3 DEF DriftOf
  <2>5. /\ CountOf(c, DriftOf(s, e)) \in Nat /\ CountOf(flagged, DriftOf(s, e)) \in Nat
        /\ CountOf(d, DriftOf(s, e)) \in Nat
    BY <1>7, <1>8 DEF Sound, Counted, CountOf
  <2>6. CountOf(flagged, DriftOf(s, e)) >= CountOf(c, DriftOf(s, e))
    BY <1>9 DEF Grows
  <2> QED
    BY <2>4, <2>5, <2>6
<1> QED
  BY <1>1, <1>3, <1>5, <1>7, <1>8, <1>10, <1>11, <1>12

\* The two kinds of lists a feed holds, and how an item of each is taken in.
TakenIn(kind, before, item) == IF kind = "events" THEN TraceEvent(before, item) ELSE MergeIssue(before, item)
IsFold(h, kind, before, items) ==
    h = [s \in SUBSET (DOMAIN items) |->
            IF s = {} THEN before ELSE TakenIn(kind, h[s \ {Max(s)}], items[Max(s)])]

LEMMA MaxIs ==
    ASSUME NEW n \in Nat, NEW s \in SUBSET (1 .. n), s # {}
    PROVE  Max(s) \in s /\ \A i \in s : i <= Max(s)
<1> DEFINE back == {n - i : i \in s}
<1>1. PICK b \in back : \A c \in back : b <= c
  <2>1. \A i \in s : n - i \in Nat
    OBVIOUS
  <2>2. back \in SUBSET Nat
    BY <2>1
  <2>3. back # {}
    OBVIOUS
  <2> HIDE DEF back
  <2> QED
    BY <2>2, <2>3, LeastExists
<1>2. PICK m \in s : b = n - m
  BY <1>1
<1>3. \A i \in s : m >= i
  <2> SUFFICES ASSUME NEW i \in s PROVE m >= i
    OBVIOUS
  <2>1. n - m <= n - i
    BY <1>1, <1>2
  <2> HIDE DEF back
  <2>2. n \in Int /\ m \in Int /\ i \in Int
    OBVIOUS
  <2> QED
    BY <2>1, <2>2
<1>4. Max(s) \in s /\ \A i \in s : Max(s) >= i
  <2> HIDE DEF back
  <2> QED
    BY <1>3, Zenon DEF Max
<1>5. \A i \in s : i \in Int
  OBVIOUS
<1> HIDE DEF back
<1> QED
  BY <1>4, <1>5

LEMMA FoldExists ==
    ASSUME NEW kind, NEW before, NEW items, NEW n \in Nat, DOMAIN items = 1 .. n
    PROVE  \E h : IsFold(h, kind, before, items)
<1> DEFINE Value(h, s) == IF s = {} THEN before ELSE TakenIn(kind, h[s \ {Max(s)}], items[Max(s)])
           UpTo(h, m) == h = [s \in SUBSET (1 .. n) |-> h[s]] /\ \A s \in SUBSET (1 .. m) : h[s] = Value(h, s)
           bad == {m \in 0 .. n : ~\E h : UpTo(h, m)}
<1>1. bad = {}
  <2>1. SUFFICES ASSUME bad # {} PROVE FALSE
    OBVIOUS
  <2>2. PICK m \in bad : \A k \in bad : m <= k
    <3>1. bad \in SUBSET Nat
      OBVIOUS
    <3> HIDE DEF bad
    <3> QED
      BY <2>1, <3>1, LeastExists
  <2>3. m \in 0 .. n /\ ~\E h : UpTo(h, m)
    OBVIOUS
  <2>4. CASE m = 0
    <3> DEFINE h == [s \in SUBSET (1 .. n) |-> before]
    <3>1. \A s \in SUBSET (1 .. 0) : s = {}
      OBVIOUS
    <3>2. UpTo(h, 0)
      BY <3>1
    <3> QED
      BY <2>3, <2>4, <3>2
  <2>5. CASE m # 0
    <3>1. m - 1 \in 0 .. n /\ m - 1 \notin bad
      <4>1. m - 1 \in bad => m <= m - 1
        BY <2>2
      <4> HIDE DEF bad
      <4> QED
        BY <2>3, <2>5, <4>1
    <3>2. PICK h : UpTo(h, m - 1)
      BY <3>1
    <3> DEFINE more == [s \in SUBSET (1 .. n) |-> Value(h, s)]
    <3>3. \A s \in SUBSET (1 .. m - 1) : more[s] = h[s]
      <4>1. \A s \in SUBSET (1 .. m - 1) : s \in SUBSET (1 .. n)
        BY <2>3
      <4>2. \A s \in SUBSET (1 .. n) : more[s] = Value(h, s)
        OBVIOUS
      <4>3. \A s \in SUBSET (1 .. m - 1) : h[s] = Value(h, s)
        BY <3>2
      <4> HIDE DEF more, Value, bad, UpTo
      <4> QED
        BY <4>1, <4>2, <4>3
    <3>4. \A s \in SUBSET (1 .. m) : more[s] = Value(more, s)
      <4> SUFFICES ASSUME NEW s \in SUBSET (1 .. m) PROVE more[s] = Value(more, s)
        OBVIOUS
      <4>1. more[s] = Value(h, s)
        BY <2>3
      <4>2. s # {} => more[s \ {Max(s)}] = h[s \ {Max(s)}]
        <5> HAVE s # {}
        <5>1. Max(s) \in s /\ \A i \in s : i <= Max(s)
          BY <2>3, MaxIs
        <5>2. s \ {Max(s)} \in SUBSET (1 .. m - 1)
          <6>1. \A i \in s \ {Max(s)} : i <= Max(s) /\ i # Max(s) /\ Max(s) \in 1 .. m /\ i \in 1 .. m
            BY <5>1
          <6>2. \A i \in s \ {Max(s)} : i \in 1 .. m - 1
            BY <2>3, <6>1
          <6> QED
            BY <6>2
        <5> HIDE DEF more
        <5> QED
          BY <3>3, <5>2
      <4> HIDE DEF more
      <4> QED
        BY <4>1, <4>2
    <3>5. more = [s \in SUBSET (1 .. n) |-> more[s]]
      OBVIOUS
    <3> HIDE DEF more, Value
    <3>6. UpTo(more, m)
      BY <3>4, <3>5
    <3> HIDE DEF UpTo, bad
    <3> QED
      BY <2>3, <3>6
  <2> QED
    BY <2>4, <2>5
<1>2. PICK h : UpTo(h, n)
  <2>1. n \in 0 .. n
    OBVIOUS
  <2> HIDE DEF UpTo
  <2> QED
    BY <1>1, <2>1
<1>3. h = [s \in SUBSET (1 .. n) |-> h[s]] /\ \A s \in SUBSET (1 .. n) : h[s] = Value(h, s)
  BY <1>2
<1>4. h = [s \in SUBSET (1 .. n) |-> Value(h, s)]
  <2> HIDE DEF Value
  <2> QED
    BY <1>3, Zenon
<1> QED
  BY <1>4 DEF IsFold


AllTakenIn(kind, before, items) ==
    IF kind = "events" THEN FoldLeft(TraceEvent, before, items) ELSE FoldLeft(MergeIssue, before, items)

\* A list is taken in item by item.
Steps(a, kind, before, items, n) ==
    /\ a[0] = before /\ AllTakenIn(kind, before, items) = a[n]
    /\ \A i \in 1 .. n : a[i] = TakenIn(kind, a[i - 1], items[i])

LEMMA FoldSteps ==
    ASSUME NEW kind, NEW before, NEW items, NEW n \in Nat, DOMAIN items = 1 .. n
    PROVE  \E a : Steps(a, kind, before, items, n)
<1>1. PICK h : IsFold(h, kind, before, items) /\ AllTakenIn(kind, before, items) = h[DOMAIN items]
  <2> DEFINE Traces(h) == h = [s \in SUBSET (DOMAIN items) |->
                 IF s = {} THEN before ELSE TraceEvent(h[s \ {Max(s)}], items[Max(s)])]
             Issues(h) == h = [s \in SUBSET (DOMAIN items) |->
                 IF s = {} THEN before ELSE MergeIssue(h[s \ {Max(s)}], items[Max(s)])]
  <2>1. \E h : IsFold(h, kind, before, items)
    BY FoldExists
  <2>2. CASE kind = "events"
    <3>1. \A h : IsFold(h, kind, before, items) <=> Traces(h)
      BY <2>2 DEF IsFold, TakenIn
    <3>2. FoldLeft(TraceEvent, before, items) = (CHOOSE h : Traces(h))[DOMAIN items]
      BY Zenon DEF FoldLeft, MapThenFoldSet
    <3> HIDE DEF Traces
    <3>3. Traces(CHOOSE h : Traces(h))
      BY <2>1, <3>1, Zenon
    <3> QED
      BY <2>2, <3>1, <3>2, <3>3, Zenon DEF AllTakenIn
  <2>3. CASE kind # "events"
    <3>1. \A h : IsFold(h, kind, before, items) <=> Issues(h)
      BY <2>3 DEF IsFold, TakenIn
    <3>2. FoldLeft(MergeIssue, before, items) = (CHOOSE h : Issues(h))[DOMAIN items]
      BY Zenon DEF FoldLeft, MapThenFoldSet
    <3> HIDE DEF Issues
    <3>3. Issues(CHOOSE h : Issues(h))
      BY <2>1, <3>1, Zenon
    <3> QED
      BY <2>3, <3>1, <3>2, <3>3, Zenon DEF AllTakenIn
  <2> QED
    BY <2>2, <2>3
<1>2. \A s \in SUBSET (1 .. n) : h[s] = IF s = {} THEN before ELSE TakenIn(kind, h[s \ {Max(s)}], items[Max(s)])
  BY <1>1, Zenon DEF IsFold
<1> DEFINE a == [i \in 0 .. n |-> h[1 .. i]]
<1>3. a[0] = before
  <2>1. 1 .. 0 = {} /\ 0 \in 0 .. n
    OBVIOUS
  <2> QED
    BY <1>2, <2>1
<1>4. ASSUME NEW i \in 1 .. n PROVE a[i] = TakenIn(kind, a[i - 1], items[i])
  <2>1. 1 .. i \in SUBSET (1 .. n) /\ 1 .. i # {}
    OBVIOUS
  <2>2. Max(1 .. i) = i
    <3>1. i \in Nat /\ i \in 1 .. i
      OBVIOUS
    <3>2. Max(1 .. i) \in 1 .. i /\ \A j \in 1 .. i : j <= Max(1 .. i)
      BY <2>1, <3>1, MaxIs
    <3> QED
      BY <3>1, <3>2
  <2>3. (1 .. i) \ {i} = 1 .. i - 1
    OBVIOUS
  <2>4. h[1 .. i] = TakenIn(kind, h[1 .. i - 1], items[i])
    BY <1>2, <2>1, <2>2, <2>3
  <2>5. a[i] = h[1 .. i] /\ a[i - 1] = h[1 .. i - 1]
    <3>1. i \in 0 .. n /\ i - 1 \in 0 .. n
      OBVIOUS
    <3> QED
      BY <3>1
  <2> HIDE DEF a
  <2> QED
    BY <2>4, <2>5
<1>5. a[n] = h[1 .. n]
  OBVIOUS
<1> HIDE DEF a
<1>6. Steps(a, kind, before, items, n)
  BY <1>1, <1>3, <1>4, <1>5 DEF Steps
<1> QED
  BY <1>6

LEMMA TraceSteps ==
    ASSUME NEW c, NEW items, NEW n \in Nat, DOMAIN items = 1 .. n
    PROVE  \E a : /\ a[0] = c /\ ingest_traces(c, items) = a[n]
                  /\ \A i \in 1 .. n : a[i] = TraceEvent(a[i - 1], items[i])
<1>1. PICK kind : kind = "events"
  OBVIOUS
<1>2. PICK a : Steps(a, kind, c, items, n)
  BY FoldSteps
<1>3. AllTakenIn(kind, c, items) = ingest_traces(c, items)
  BY <1>1, Zenon DEF AllTakenIn, ingest_traces
<1>4. \A i \in 1 .. n : TakenIn(kind, a[i - 1], items[i]) = TraceEvent(a[i - 1], items[i])
  BY <1>1, Zenon DEF TakenIn
<1>5. \A i \in 1 .. n : a[i] = TraceEvent(a[i - 1], items[i])
  BY <1>2, <1>4, Zenon DEF Steps
<1> QED
  BY <1>2, <1>3, <1>5, Zenon DEF Steps

LEMMA TracesKeep ==
    ASSUME NEW c, Sound(c), NEW items \in Seq(Traced), NEW d, d = ingest_traces(c, items)
    PROVE  Sound(d) /\ Grows(c, d) /\ SameCounts(c, d) /\ \A k \in DOMAIN items : Contains(d.events, items[k])
<1>1. PICK n \in Nat : DOMAIN items = 1 .. n /\ \A i \in 1 .. n : items[i] \in Traced
  BY LenProperties, ElementOfSeq
<1>2. PICK a : /\ a[0] = c /\ d = a[n]
               /\ \A i \in 1 .. n : a[i] = TraceEvent(a[i - 1], items[i])
  <2>1. \E a : /\ a[0] = c /\ ingest_traces(c, items) = a[n]
               /\ \A i \in 1 .. n : a[i] = TraceEvent(a[i - 1], items[i])
    BY <1>1, TraceSteps
  <2> QED
    BY <2>1, Zenon
<1> DEFINE Right(i) == /\ Sound(a[i]) /\ Grows(c, a[i]) /\ SameCounts(c, a[i])
                       /\ \A k \in 1 .. i : Contains(a[i].events, items[k])
           bad == {i \in 0 .. n : ~Right(i)}
<1>3. bad = {}
  <2>1. SUFFICES ASSUME bad # {} PROVE FALSE
    OBVIOUS
  <2>2. PICK i \in bad : \A j \in bad : i <= j
    <3>1. bad \in SUBSET Nat
      OBVIOUS
    <3> HIDE DEF bad
    <3> QED
      BY <2>1, <3>1, LeastExists
  <2>3. i \in 0 .. n /\ ~Right(i)
    OBVIOUS
  <2>4. CASE i = 0
    BY <1>2, <2>3, <2>4, GrowsSelf DEF Sound, SameCounts
  <2>5. CASE i # 0
    <3>1. i - 1 \in 0 .. n /\ i - 1 \notin bad /\ i \in 1 .. n
      <4>1. i - 1 \in bad => i <= i - 1
        BY <2>2
      <4> HIDE DEF bad
      <4> QED
        BY <2>3, <2>5, <4>1
    <3>2. /\ Sound(a[i - 1]) /\ Grows(c, a[i - 1]) /\ SameCounts(c, a[i - 1])
          /\ \A k \in 1 .. i - 1 : Contains(a[i - 1].events, items[k])
      BY <3>1
    <3>3. Sound(a[i]) /\ Grows(a[i - 1], a[i]) /\ SameCounts(a[i - 1], a[i]) /\ Contains(a[i].events, items[i])
      <4>1. items[i] \in Traced /\ a[i] = TraceEvent(a[i - 1], items[i])
        BY <1>1, <1>2, <3>1
      <4> QED
        BY <3>2, <4>1, TraceKeeps
    <3>4. Grows(c, a[i])
      BY <3>2, <3>3, GrowsOn DEF Sound
    <3>7. SameCounts(c, a[i])
      BY <3>2, <3>3 DEF SameCounts
    <3>5. \A k \in 1 .. i : k = i \/ k \in 1 .. i - 1
      OBVIOUS
    <3>6. \A k \in 1 .. i : Contains(a[i].events, items[k])
      BY <3>2, <3>3, <3>5, Zenon DEF Grows
    <3> QED
      BY <2>3, <3>3, <3>4, <3>6, <3>7
  <2> QED
    BY <2>4, <2>5
<1>4. Right(n)
  <2>1. n \in 0 .. n
    OBVIOUS
  <2> HIDE DEF Right
  <2> QED
    BY <1>3, <2>1
<1> QED
  BY <1>1, <1>2, <1>4

\* What the traces up to the i-th leave as it was, and where they are kept.
SameServices(old, new) ==
    /\ DOMAIN old \subseteq DOMAIN new
    /\ \A s \in DOMAIN old : new[s] = old[s]
    /\ \A s \in DOMAIN new \ DOMAIN old : new[s] = NewService
Followed(c, whole, a, i) ==
    /\ Sound(a[i]) /\ \A m \in 0 .. i : Sound(a[m]) /\ Grows(a[m], a[i])
    /\ Len(a[i].events) = Len(c.events) + i
    /\ \A k \in 1 .. Len(c.events) + i : a[i].events[k] = whole[k]
    /\ SameServices(c.services, a[i].services)

LEMMA TraceFollows ==
    ASSUME NEW c, Sound(c), NEW n \in Nat, NEW items \in Seq(Traced), Len(items) = n,
           NEW whole, whole = c.events \o items, NEW a, a[0] = c, NEW i \in 1 .. n,
           a[i] = TraceEvent(a[i - 1], items[i]), Followed(c, whole, a, i - 1)
    PROVE  Followed(c, whole, a, i)
<1>1. PICK b, d, e : b = a[i - 1] /\ d = a[i] /\ e = items[i]
  OBVIOUS
<1>2. /\ Sound(b) /\ Len(b.events) = Len(c.events) + (i - 1) /\ SameServices(c.services, b.services)
      /\ \A k \in 1 .. Len(c.events) + (i - 1) : b.events[k] = whole[k]
      /\ \A m \in 0 .. i - 1 : Sound(a[m]) /\ Grows(a[m], b)
  BY <1>1 DEF Followed
<1>3. e \in Traced /\ d = TraceEvent(b, e)
  BY <1>1, LenProperties, ElementOfSeq
<1>4. /\ Sound(d) /\ Grows(b, d) /\ d.events = Append(b.events, e)
      /\ d.services = WithService(b.services, e.service)
  BY <1>2, <1>3, TraceKeeps
<1>5. \A m \in 0 .. i : Sound(a[m]) /\ Grows(a[m], d)
  <2>1. ASSUME NEW m \in 0 .. i - 1 PROVE Sound(a[m]) /\ Grows(a[m], d)
    <3>1. PICK earlier : earlier = a[m]
      OBVIOUS
    <3>2. Sound(earlier) /\ Grows(earlier, b)
      BY <1>2, <3>1
    <3> QED
      BY <1>2, <1>4, <3>1, <3>2, GrowsOn DEF Sound
  <2>2. Sound(d) /\ Grows(d, d)
    BY <1>4, GrowsSelf DEF Sound
  <2>3. \A m \in 0 .. i : m \in 0 .. i - 1 \/ m = i
    OBVIOUS
  <2> QED
    BY <1>1, <2>1, <2>2, <2>3
<1>6. PICK L \in Nat : L = Len(c.events) /\ c.events \in Seq(Traced)
  BY DEF Sound
<1>7. /\ Len(d.events) = L + i
      /\ \A k \in 1 .. L + i : d.events[k] = whole[k]
  <2>1. PICK ofB, ofC, ofD : ofB = b.events /\ ofC = c.events /\ ofD = d.events
    OBVIOUS
  <2>2. /\ Len(ofD) = L + i /\ ofD[L + i] = e
        /\ \A k \in 1 .. L + (i - 1) : ofD[k] = ofB[k]
    <3>1. ofB \in Seq(Traced) /\ Len(ofB) = L + (i - 1) /\ ofD = Append(ofB, e)
      <4>1. ofB \in Seq(Traced)
        BY <1>2, <2>1 DEF Sound
      <4>2. Len(ofB) = L + (i - 1)
        BY <1>2, <1>6, <2>1
      <4>3. ofD = Append(ofB, e)
        BY <1>4, <2>1, Zenon
      <4> QED
        BY <4>1, <4>2, <4>3
    <3>2. PICK len : len = L + (i - 1) /\ len + 1 = L + i /\ len \in Nat
      <4>1. L + (i - 1) \in Nat /\ (L + (i - 1)) + 1 = L + i
        OBVIOUS
      <4> QED
        BY <4>1, Zenon
    <3>3. /\ Len(Append(ofB, e)) = len + 1 /\ Append(ofB, e)[len + 1] = e
          /\ \A k \in 1 .. len : Append(ofB, e)[k] = ofB[k]
      BY <1>3, <3>1, <3>2, AppendProperties
    <3> QED
      BY <3>1, <3>2, <3>3
  <2>3. whole[L + i] = e
    <3>1. ofC \in Seq(Traced) /\ Len(ofC) = L /\ whole = ofC \o items
      BY <1>6, <2>1
    <3>2. PICK k : k = L + i
      OBVIOUS
    <3>3. k \in 1 .. L + n /\ ~(k <= L) /\ k - L = i
      BY <1>6, <3>2
    <3>4. whole[k] = items[k - L]
      <4>1. \A m \in 1 .. Len(ofC) + Len(items) :
              (ofC \o items)[m] = IF m <= Len(ofC) THEN ofC[m] ELSE items[m - Len(ofC)]
        BY <3>1, ConcatProperties, Zenon
      <4>2. k \in 1 .. Len(ofC) + Len(items) /\ ~(k <= Len(ofC)) /\ Len(ofC) = L
        BY <3>1, <3>3
      <4>3. (ofC \o items)[k] = items[k - Len(ofC)]
        BY <4>1, <4>2, Zenon
      <4> QED
        BY <3>1, <4>2, <4>3, Zenon
    <3> QED
      BY <1>1, <3>2, <3>3, <3>4
  <2>4. \A k \in 1 .. L + i : k \in 1 .. L + (i - 1) \/ k = L + i
    OBVIOUS
  <2>5. \A k \in 1 .. L + (i - 1) : ofB[k] = whole[k]
    BY <1>2, <1>6, <2>1
  <2>6. \A k \in 1 .. L + i : ofD[k] = whole[k]
    BY <2>2, <2>3, <2>4, <2>5
  <2> QED
    BY <2>1, <2>2, <2>6
<1>8. SameServices(c.services, d.services)
  BY <1>2, <1>4 DEF SameServices, WithService, With
<1> QED
  BY <1>1, <1>4, <1>5, <1>6, <1>7, <1>8 DEF Followed

LEMMA TracesFollow ==
    ASSUME NEW c, Sound(c), NEW n \in Nat, NEW items \in Seq(Traced), Len(items) = n,
           NEW whole, whole = c.events \o items, NEW a, a[0] = c,
           \A i \in 1 .. n : a[i] = TraceEvent(a[i - 1], items[i])
    PROVE  \A i \in 0 .. n : Followed(c, whole, a, i)
<1> DEFINE bad == {i \in 0 .. n : ~Followed(c, whole, a, i)}
<1>1. SUFFICES ASSUME bad # {} PROVE FALSE
  OBVIOUS
<1>2. PICK i \in bad : \A j \in bad : i <= j
  <2>1. bad \in SUBSET Nat
    OBVIOUS
  <2> HIDE DEF bad
  <2> QED
    BY <1>1, <2>1, LeastExists
<1>3. i \in 0 .. n /\ ~Followed(c, whole, a, i)
  OBVIOUS
<1>4. CASE i = 0
  <2>1. \A m \in 0 .. 0 : Grows(a[m], a[0])
    BY GrowsSelf DEF Sound
  <2>2. PICK ev \in Seq(Traced) : ev = c.events
    BY DEF Sound
  <2>3. Len(ev) \in Nat /\ \A k \in 1 .. Len(ev) : whole[k] = ev[k]
    BY <2>2
  <2>4. SameServices(c.services, c.services)
    BY DEF SameServices
  <2> QED
    BY <1>3, <1>4, <2>1, <2>2, <2>3, <2>4 DEF Followed
<1>5. CASE i # 0
  <2>1. i - 1 \in bad => i <= i - 1
    BY <1>2
  <2>2. i - 1 \in 0 .. n /\ i \in 1 .. n /\ i - 1 \notin bad
    <3> HIDE DEF bad
    <3> QED
      BY <1>3, <1>5, <2>1
  <2>3. Followed(c, whole, a, i - 1)
    BY <2>2
  <2>4. a[i] = TraceEvent(a[i - 1], items[i])
    BY <2>2
  <2> HIDE DEF bad
  <2> QED
    BY <1>3, <2>2, <2>3, <2>4, TraceFollows
<1> QED
  BY <1>4, <1>5

\* A call undeclared when all is in was so when it came in: its caller is registered, so
\* no trace has made it, and the span it is in was last its own.
LEMMA UndeclaredThen ==
    ASSUME NEW c, NEW b, NEW d, Sound(b), NEW j \in Nat, Len(b.events) = j,
           SameServices(c.services, b.services), SameServices(c.services, d.services),
           \A k \in 1 .. j : b.events[k] = d.events[k], j # 0, NEW s \in Undeclared(d, j)
    PROVE  Undeclares(b, s, d.events[j])
<1>1. PICK e : e = d.events[j]
  OBVIOUS
<1>2. /\ s \in DOMAIN d.services /\ s # e.service /\ e.parent # ""
      /\ d.services[s].registered /\ {"events", "sends"} \subseteq d.services[s].known
      /\ e.topic \notin d.services[s].produced \cup Reserved
  BY <1>1 DEF Undeclared
<1>3. s \in DOMAIN c.services
  <2>1. ~NewService.registered
    BY DEF NewService
  <2> QED
    BY <1>2, <2>1 DEF SameServices
<1>4. s \in DOMAIN b.services /\ b.services[s] = d.services[s]
  BY <1>3 DEF SameServices
<1>5. PICK i \in 1 .. j : /\ d.events[i].span = e.parent
                          /\ \A k \in i .. j : d.events[k].span = d.events[i].span => d.events[k].service = s
  BY <1>1, Zenon DEF Undeclared
<1>6. PICK ev : ev = b.events
  OBVIOUS
<1>7. DOMAIN ev = 1 .. j /\ b.owner = OwnerOf(ev)
  BY <1>6 DEF Sound
<1>8. PICK S : S = {k \in DOMAIN ev : ev[k].span = e.parent}
  OBVIOUS
<1>9. S \in SUBSET (1 .. j) /\ i \in S
  BY <1>5, <1>6, <1>7, <1>8
<1>10. Max(S) \in S /\ i <= Max(S)
  BY <1>9, MaxIs
<1>11. ev[Max(S)].service = s
  <2>1. PICK m : m = Max(S)
    OBVIOUS
  <2>2. m \in i .. j /\ ev[m].span = e.parent /\ m \in 1 .. j
    BY <1>8, <1>9, <1>10, <2>1
  <2> QED
    BY <1>5, <1>6, <2>1, <2>2
<1>12. e.parent \in DOMAIN b.owner /\ b.owner[e.parent] = s
  <2>1. e.parent \in {ev[k].span : k \in DOMAIN ev}
    BY <1>8, <1>9
  <2>2. b.owner = [span \in {ev[k].span : k \in DOMAIN ev} |->
                     ev[Max({k \in DOMAIN ev : ev[k].span = span})].service]
    BY <1>7, Zenon DEF OwnerOf
  <2> QED
    BY <1>8, <1>11, <2>1, <2>2
<1> QED
  BY <1>1, <1>2, <1>4, <1>12 DEF Undeclares

\* ... so each of them is filed, and no later trace takes that back.
LEMMA DriftFiled ==
    ASSUME NEW c, Sound(c), NEW items \in Seq(Traced), NEW d, d = ingest_traces(c, items)
    PROVE  /\ \A j \in Len(c.events) + 1 .. Len(d.events) : \A s \in Undeclared(d, j) :
                CountOf(d, DriftOf(s, d.events[j])) > CountOf(c, DriftOf(s, d.events[j]))
           /\ \A t : ProvidersOf(d, t) = ProvidersOf(c, t) /\ ConsumersOf(d, t) = ConsumersOf(c, t)
<1>1. PICK n \in Nat : DOMAIN items = 1 .. n /\ \A i \in 1 .. n : items[i] \in Traced
  BY LenProperties, ElementOfSeq
<1>2. PICK a : /\ a[0] = c /\ d = a[n]
               /\ \A i \in 1 .. n : a[i] = TraceEvent(a[i - 1], items[i])
  <2>1. \E a : /\ a[0] = c /\ ingest_traces(c, items) = a[n]
               /\ \A i \in 1 .. n : a[i] = TraceEvent(a[i - 1], items[i])
    BY <1>1, TraceSteps
  <2> QED
    BY <2>1, Zenon
<1>3. PICK whole : whole = c.events \o items
  OBVIOUS
<1>4. \A i \in 0 .. n : Followed(c, whole, a, i)
  <2>1. Len(items) = n
    BY <1>1, LenProperties
  <2> QED
    BY <1>2, <1>3, <2>1, TracesFollow
<1>5. PICK L \in Nat : L = Len(c.events)
  BY DEF Sound
<1>6. /\ Sound(d) /\ Len(d.events) = L + n /\ SameServices(c.services, d.services)
      /\ \A k \in 1 .. L + n : d.events[k] = whole[k]
      /\ \A m \in 0 .. n : Grows(a[m], d)
  <2>1. Followed(c, whole, a, n)
    BY <1>4
  <2> QED
    BY <1>2, <1>5, <2>1 DEF Followed
<1>7. ASSUME NEW j \in L + 1 .. L + n, NEW s \in Undeclared(d, j)
      PROVE  CountOf(d, DriftOf(s, d.events[j])) > CountOf(c, DriftOf(s, d.events[j]))
  <2>1. PICK i \in 1 .. n : j = L + i
    <3>1. j - L \in 1 .. n /\ j = L + (j - L)
      OBVIOUS
    <3> QED
      BY <3>1
  <2>2. PICK b, before, e : b = a[i] /\ before = a[i - 1] /\ e = items[i]
    OBVIOUS
  <2>3. /\ Sound(b) /\ Len(b.events) = j /\ SameServices(c.services, b.services)
        /\ \A k \in 1 .. j : b.events[k] = whole[k]
    <3>1. Followed(c, whole, a, i)
      BY <1>4
    <3> QED
      BY <1>5, <2>1, <2>2, <3>1 DEF Followed
  <2>4. Sound(before) /\ Grows(c, before)
    <3>1. i - 1 \in 0 .. n /\ 0 \in 0 .. i - 1
      OBVIOUS
    <3>2. Followed(c, whole, a, i - 1)
      BY <1>4, <3>1
    <3> QED
      BY <1>2, <2>2, <3>1, <3>2 DEF Followed
  <2>5. e \in Traced /\ b = TraceEvent(before, e)
    BY <1>1, <1>2, <2>2
  <2>6. d.events[j] = e
    <3>1. PICK prior \in Seq(Traced) : prior = c.events
      BY DEF Sound
    <3>2. whole = prior \o items /\ Len(prior) = L /\ Len(items) = n
      BY <1>1, <1>3, <1>5, <3>1, LenProperties
    <3>3. whole[L + i] = items[i]
      BY <3>2
    <3> QED
      BY <1>6, <2>1, <2>2, <3>3
  <2>7. Undeclares(b, s, e)
    <3>1. j \in Nat /\ j # 0 /\ \A k \in 1 .. j : b.events[k] = d.events[k]
      BY <1>6, <2>1, <2>3
    <3>2. Undeclares(b, s, d.events[j])
      BY <1>6, <2>3, <3>1, UndeclaredThen
    <3> QED
      BY <2>6, <3>2
  <2>8. CountOf(b, DriftOf(s, e)) > CountOf(before, DriftOf(s, e))
    BY <2>4, <2>5, <2>7, TraceKeeps
  <2>9. Grows(b, d)
    BY <1>6, <2>2
  <2>10. PICK u, v, w, z : /\ u = CountOf(c, DriftOf(s, e)) /\ v = CountOf(before, DriftOf(s, e))
                           /\ w = CountOf(b, DriftOf(s, e)) /\ z = CountOf(d, DriftOf(s, e))
    OBVIOUS
  <2>11. u \in Nat /\ v \in Nat /\ w \in Nat /\ z \in Nat
    BY <1>6, <2>3, <2>4, <2>10 DEF Sound, Counted, CountOf
  <2>12. v >= u /\ w > v /\ z >= w
    BY <2>4, <2>8, <2>9, <2>10 DEF Grows
  <2> QED
    BY <2>6, <2>10, <2>11, <2>12
<1>8. ASSUME NEW t PROVE ProvidersOf(d, t) = ProvidersOf(c, t) /\ ConsumersOf(d, t) = ConsumersOf(c, t)
  <2>1. NewService.produced = {} /\ NewService.consumed = {}
    BY DEF NewService
  <2> QED
    BY <1>6, <2>1 DEF ProvidersOf, ConsumersOf, SameServices
<1> QED
  BY <1>5, <1>6, <1>7, <1>8

\* What a list of issues adds to the count of a fingerprint.
Counts(items) == [k \in DOMAIN items |-> items[k].count]
Places(items, fp) == {k \in DOMAIN items : items[k].fp = fp}

LEMMA IssuesAdd ==
    ASSUME NEW before, Counted(before), NEW items \in Seq(Filed), NEW fp
    PROVE  /\ Counted(FoldLeft(MergeIssue, before, items))
           /\ NumberOf(FoldLeft(MergeIssue, before, items), fp)
              = NumberOf(before, fp) + SumFunctionOnSet(Counts(items), Places(items, fp))
<1>1. PICK n \in Nat : DOMAIN items = 1 .. n /\ \A i \in 1 .. n : items[i] \in Filed /\ items[i].count \in Nat
  BY MeshHostAssumption, LenProperties, ElementOfSeq
<1>2. PICK a : /\ a[0] = before /\ FoldLeft(MergeIssue, before, items) = a[n]
               /\ \A i \in 1 .. n : a[i] = MergeIssue(a[i - 1], items[i])
  <2>1. PICK kind : kind # "events"
    OBVIOUS
  <2>2. PICK a : Steps(a, kind, before, items, n)
    BY <1>1, FoldSteps
  <2>3. AllTakenIn(kind, before, items) = FoldLeft(MergeIssue, before, items)
    BY <2>1, Zenon DEF AllTakenIn
  <2>4. \A i \in 1 .. n : TakenIn(kind, a[i - 1], items[i]) = MergeIssue(a[i - 1], items[i])
    BY <2>1, Zenon DEF TakenIn
  <2>5. \A i \in 1 .. n : a[i] = MergeIssue(a[i - 1], items[i])
    BY <2>2, <2>4, Zenon DEF Steps
  <2> QED
    BY <2>2, <2>3, <2>5, Zenon DEF Steps
<1>3. PICK g : g = Counts(items) /\ \A k \in 1 .. n : g[k] = items[k].count /\ g[k] \in Nat
  <2>1. \A k \in 1 .. n : Counts(items)[k] = items[k].count
    BY <1>1 DEF Counts
  <2> QED
    BY <1>1, <2>1
<1> DEFINE At(i) == {k \in 1 .. i : items[k].fp = fp}
           Right(i) == Counted(a[i]) /\ NumberOf(a[i], fp) = NumberOf(before, fp) + SumFunctionOnSet(g, At(i))
           bad == {i \in 0 .. n : ~Right(i)}
<1>4. NumberOf(before, fp) \in Nat
  BY DEF NumberOf, Counted
<1>5. ASSUME NEW i \in 0 .. n
      PROVE  /\ IsFiniteSet(At(i)) /\ \A k \in At(i) : g[k] \in Nat
             /\ SumFunctionOnSet(g, At(i)) \in Nat
  <2>1. IsFiniteSet(1 .. i) /\ At(i) \in SUBSET (1 .. i)
    BY FS_Interval
  <2>2. IsFiniteSet(At(i)) /\ \A k \in At(i) : g[k] \in Nat
    BY <1>3, <2>1, FS_Subset
  <2> HIDE DEF At
  <2> QED
    BY <2>2, SumSplits
<1>6. bad = {}
  <2>1. SUFFICES ASSUME bad # {} PROVE FALSE
    OBVIOUS
  <2>2. PICK i \in bad : \A j \in bad : i <= j
    <3>1. bad \in SUBSET Nat
      OBVIOUS
    <3> HIDE DEF bad
    <3> QED
      BY <2>1, <3>1, LeastExists
  <2>3. i \in 0 .. n /\ ~Right(i)
    OBVIOUS
  <2>4. CASE i = 0
    <3>1. At(0) = {}
      OBVIOUS
    <3>2. SumFunctionOnSet(g, {}) = 0
      BY FS_EmptySet, SumSplits
    <3> HIDE DEF At
    <3>3. SumFunctionOnSet(g, At(0)) = 0
      BY <3>1, <3>2
    <3>4. NumberOf(a[0], fp) = NumberOf(before, fp) + 0 /\ Counted(a[0])
      BY <1>2, <1>4
    <3>5. Right(0)
      BY <3>3, <3>4
    <3> QED
      BY <2>3, <2>4, <3>5
  <2>5. CASE i # 0
    <3>1. i - 1 \in 0 .. n /\ i - 1 \notin bad /\ i \in 1 .. n
      <4>1. i - 1 \in bad => i <= i - 1
        BY <2>2
      <4> HIDE DEF bad
      <4> QED
        BY <2>3, <2>5, <4>1
    <3>2. Counted(a[i - 1]) /\ NumberOf(a[i - 1], fp) = NumberOf(before, fp) + SumFunctionOnSet(g, At(i - 1))
      BY <3>1
    <3>3. PICK issue : issue = items[i] /\ issue.count \in Nat /\ a[i] = MergeIssue(a[i - 1], issue) /\ g[i] = issue.count
      BY <1>1, <1>2, <1>3, <3>1
    <3>4. /\ Counted(a[i])
          /\ NumberOf(a[i], fp) = NumberOf(a[i - 1], fp) + (IF fp = issue.fp THEN issue.count ELSE 0)
      BY <3>2, <3>3, MergeCounts
    <3>5. SumFunctionOnSet(g, At(i)) = SumFunctionOnSet(g, At(i - 1)) + (IF fp = issue.fp THEN issue.count ELSE 0)
      <4>1. CASE fp = issue.fp
        <5>1. i \in At(i) /\ At(i) \ {i} = At(i - 1)
          BY <3>1, <3>3, <4>1
        <5>2. IsFiniteSet(At(i)) /\ (\A k \in At(i) : g[k] \in Nat) /\ SumFunctionOnSet(g, At(i - 1)) \in Nat
          BY <1>5, <2>3, <3>1
        <5> HIDE DEF At
        <5>3. PICK all, others : all = At(i) /\ others = At(i - 1)
          OBVIOUS
        <5>4. SumFunctionOnSet(g, all) = g[i] + SumFunctionOnSet(g, others)
          BY <5>1, <5>2, <5>3, SumSplits
        <5> QED
          BY <3>3, <4>1, <5>2, <5>3, <5>4
      <4>2. CASE fp # issue.fp
        <5>1. At(i) = At(i - 1)
          BY <3>1, <3>3, <4>2
        <5>2. SumFunctionOnSet(g, At(i - 1)) \in Nat
          BY <1>5, <3>1
        <5> HIDE DEF At
        <5> QED
          BY <4>2, <5>1, <5>2
      <4> QED
        BY <4>1, <4>2
    <3>6. SumFunctionOnSet(g, At(i - 1)) \in Nat
      BY <1>5, <3>1
    <3>7. Right(i)
      <4> HIDE DEF At
      <4> QED
        BY <1>4, <3>2, <3>3, <3>4, <3>5, <3>6
    <3> QED
      BY <2>3, <3>7
  <2> QED
    BY <2>4, <2>5
<1>7. Right(n)
  <2>1. n \in 0 .. n
    OBVIOUS
  <2> HIDE DEF Right
  <2> QED
    BY <1>6, <2>1
<1>8. At(n) = Places(items, fp)
  BY <1>1 DEF Places
<1> HIDE DEF At
<1> QED
  BY <1>2, <1>3, <1>7, <1>8


\* What a feed has left in a catalog that has ingested it.
Took(c, d, f) ==
    /\ f \in TracesIn(Feeds) => \A k \in DOMAIN EventsOf(f) : Contains(d.events, EventsOf(f)[k])
    /\ f \in IssuesIn(Feeds) => \A fp : CountOf(d, fp) = CountOf(c, fp) + Delta(f, fp)
    /\ f \notin IssuesIn(Feeds) => SameCounts(c, d)
    /\ f \notin TracesIn(Feeds) => FeedOf(f).body.service \in DOMAIN d.services

\* A catalog with more services, and other topics.
LEMMA ServicesKeep ==
    ASSUME NEW c, Sound(c), NEW d, IsCatalog(d), d.events = c.events, d.owner = c.owner, d.issues = c.issues,
           DOMAIN c.services \subseteq DOMAIN d.services
    PROVE  Sound(d) /\ Grows(c, d) /\ SameCounts(c, d)
<1>1. \A fp : CountOf(d, fp) = CountOf(c, fp) /\ CountOf(c, fp) \in Nat
  BY DEF CountOf, Sound, Counted
<1> QED
  BY <1>1 DEF Sound, Grows, SameCounts

LEMMA KnownServices ==
    ASSUME NEW services, NEW s
    PROVE  DOMAIN WithService(services, s) = DOMAIN services \cup {s}
BY DEF WithService, With

LEMMA RegisterKeeps ==
    ASSUME NEW c, Sound(c), NEW doc, NEW d, d = ingest_register(c, doc)
    PROVE  Sound(d) /\ Grows(c, d) /\ SameCounts(c, d) /\ doc.service \in DOMAIN d.services
<1>1. PICK known, consumed, produced : /\ known = WithService(c.services, doc.service)
                                       /\ consumed = spec_topic_ids(doc, {"requests"})
                                       /\ produced = spec_topic_ids(doc, {"events", "sends"})
  OBVIOUS
<1>2. PICK rec : d = [c EXCEPT !.services = [known EXCEPT ![doc.service] = rec],
                               !.topics = @ \cup consumed \cup produced, !.everConsumed = @ \cup consumed]
  BY <1>1, Zenon DEF ingest_register
<1>3. PICK sv : sv = [known EXCEPT ![doc.service] = rec]
  OBVIOUS
<1>4. /\ d.services = sv /\ d.events = c.events /\ d.owner = c.owner /\ d.issues = c.issues
      /\ IsCatalog(d)
  BY <1>2, <1>3 DEF Sound, IsCatalog
<1>5. DOMAIN sv = DOMAIN c.services \cup {doc.service}
  BY <1>1, <1>3, KnownServices
<1> QED
  BY <1>4, <1>5, ServicesKeep

LEMMA HeartbeatKeeps ==
    ASSUME NEW c, Sound(c), NEW beat, NEW d, d = ingest_heartbeat(c, beat)
    PROVE  Sound(d) /\ Grows(c, d) /\ SameCounts(c, d) /\ beat.service \in DOMAIN d.services
<1>1. PICK known, heard :
         /\ known = WithService(c.services, beat.service)
         /\ heard = With(known[beat.service].instances, beat.instance, [healthy |-> beat.healthy, hash |-> beat.hash])
  OBVIOUS
<1>2. PICK sv : sv = [known EXCEPT ![beat.service].instances = heard]
  OBVIOUS
<1>3. d = [c EXCEPT !.services = sv]
  BY <1>1, <1>2, Zenon DEF ingest_heartbeat
<1>4. /\ d.services = sv /\ d.events = c.events /\ d.owner = c.owner /\ d.issues = c.issues
      /\ IsCatalog(d)
  BY <1>3 DEF Sound, IsCatalog
<1>5. DOMAIN sv = DOMAIN c.services \cup {beat.service}
  BY <1>1, <1>2, KnownServices
<1> QED
  BY <1>4, <1>5, ServicesKeep

\* A catalog has taken a list of reports.
Filing(c, d, service, items) ==
    /\ Sound(d) /\ Grows(c, d) /\ service \in DOMAIN d.services
    /\ \A fp : CountOf(d, fp) = CountOf(c, fp) + SumFunctionOnSet(Counts(items), Places(items, fp))

LEMMA IssuesKeep ==
    ASSUME NEW c, Sound(c), NEW filing, NEW d, d = ingest_issues(c, filing), NEW items,
           items \in Seq(Filed), items = Identified(filing.issues)
    PROVE  Filing(c, d, filing.service, items)
<1>1. PICK known, merged : /\ known = WithService(c.services, filing.service)
                           /\ merged = FoldLeft(MergeIssue, c.issues, items)
  OBVIOUS
<1>2. PICK sv : sv = [known EXCEPT ![filing.service].reported = TRUE]
  OBVIOUS
<1>3. d = [c EXCEPT !.services = sv, !.issues = merged]
  BY <1>1, <1>2, Zenon DEF ingest_issues
<1>4. DOMAIN sv = DOMAIN c.services \cup {filing.service}
  BY <1>1, <1>2, KnownServices
<1>5. /\ d.services = sv /\ d.events = c.events /\ d.owner = c.owner /\ d.issues = merged
      /\ IsCatalog(d)
  BY <1>3 DEF Sound, IsCatalog
<1>6. \A fp : /\ Counted(merged)
              /\ NumberOf(merged, fp) = NumberOf(c.issues, fp)
                                        + SumFunctionOnSet(Counts(items), Places(items, fp))
  BY <1>1, IssuesAdd DEF Sound
<1>7. \A fp : CountOf(d, fp) = NumberOf(merged, fp) /\ CountOf(c, fp) = NumberOf(c.issues, fp)
  BY <1>5 DEF CountOf, NumberOf
<1>8. \A fp : CountOf(d, fp) \in Nat /\ CountOf(c, fp) \in Nat
  BY <1>5, <1>6 DEF CountOf, Sound, Counted
<1>9. \A fp : SumFunctionOnSet(Counts(items), Places(items, fp)) \in Nat
  <2> SUFFICES ASSUME NEW fp PROVE SumFunctionOnSet(Counts(items), Places(items, fp)) \in Nat
    OBVIOUS
  <2>2. PICK n \in Nat : DOMAIN items = 1 .. n /\ \A i \in 1 .. n : items[i] \in Filed /\ items[i].count \in Nat
    BY MeshHostAssumption, LenProperties, ElementOfSeq
  <2>3. Places(items, fp) \in SUBSET (1 .. n)
    BY <2>2 DEF Places
  <2>4. IsFiniteSet(Places(items, fp))
    <3>1. IsFiniteSet(1 .. n)
      BY FS_Interval
    <3> QED
      BY <2>3, <3>1, FS_Subset
  <2>5. \A k \in Places(items, fp) : Counts(items)[k] \in Nat
    BY <2>2, <2>3 DEF Counts
  <2> QED
    BY <2>4, <2>5, SumSplits
<1>10. \A fp : CountOf(d, fp) >= CountOf(c, fp)
  BY <1>6, <1>7, <1>8, <1>9
<1> QED
  BY <1>4, <1>5, <1>6, <1>7, <1>10 DEF Sound, Grows, Filing

LEMMA IngestKeeps ==
    ASSUME NEW c, Sound(c), NEW f \in Feeds, Accepts(FeedOf(f)), NEW d, d = Ingest(c, FeedOf(f))
    PROVE  Sound(d) /\ Grows(c, d) /\ Took(c, d, f)
<1>1. PICK topic, body : topic = FeedOf(f).topic /\ body = FeedOf(f).body
  OBVIOUS
<1>2. topic \in {"benzene:mesh:register", "benzene:mesh:heartbeat", "benzene:mesh:traces", "benzene:mesh:issues"}
  BY <1>1, MeshHostAssumption
<1>3. /\ f \in TracesIn(Feeds) <=> topic = "benzene:mesh:traces"
      /\ f \in IssuesIn(Feeds) <=> topic = "benzene:mesh:issues"
  BY <1>1 DEF TracesIn, IssuesIn
<1>4. CASE topic = "benzene:mesh:register"
  <2>1. d = ingest_register(c, body)
    BY <1>1, <1>4 DEF Ingest
  <2> QED
    BY <1>1, <1>3, <1>4, <2>1, RegisterKeeps DEF Took
<1>5. CASE topic = "benzene:mesh:heartbeat"
  <2>1. d = ingest_heartbeat(c, body)
    BY <1>1, <1>5 DEF Ingest
  <2> QED
    BY <1>1, <1>3, <1>5, <2>1, HeartbeatKeeps DEF Took
<1>6. CASE topic = "benzene:mesh:traces"
  <2>1. d = ingest_traces(c, EventsOf(f)) /\ EventsOf(f) \in Seq(Traced)
    <3>1. d = ingest_traces(c, EventsOf(f))
      BY <1>1, <1>6 DEF Ingest, EventsOf
    <3>2. EventsOf(f) \in Seq(Traced)
      BY <1>3, <1>6, MeshHostAssumption
    <3> QED
      BY <3>1, <3>2
  <2> QED
    BY <1>3, <1>6, <2>1, TracesKeep DEF Took
<1>7. CASE topic = "benzene:mesh:issues"
  <2>1. PICK items : d = ingest_issues(c, body) /\ items = Identified(body.issues) /\ items = ReportsOf(f)
    <3>1. d = ingest_issues(c, body)
      BY <1>1, <1>7 DEF Ingest
    <3>2. ReportsOf(f) = Identified(body.issues)
      BY <1>1, Zenon DEF ReportsOf
    <3> QED
      BY <3>1, <3>2, Zenon
  <2>2. items \in Seq(Filed)
    BY <1>3, <1>7, <2>1, MeshHostAssumption
  <2>3. Filing(c, d, body.service, items)
    BY <2>1, <2>2, IssuesKeep, Zenon
  <2>4. \A fp : Delta(f, fp) = SumFunctionOnSet(Counts(items), Places(items, fp))
    BY <2>1 DEF Delta, Counts, Places
  <2> QED
    BY <1>1, <1>3, <1>7, <2>3, <2>4 DEF Took, Filing
<1> QED
  BY <1>2, <1>4, <1>5, <1>6, <1>7


\* What has been answered ok is in a catalog.
AckedIn(c, Fs) ==
    /\ \A f \in TracesIn(Fs) : \A k \in DOMAIN EventsOf(f) : Contains(c.events, EventsOf(f)[k])
    /\ \A fp \in Fingerprints(Feeds) : CountOf(c, fp) >= SumFunctionOnSet(Deltas(fp), IssuesIn(Fs))
    /\ \A f \in Fs \ TracesIn(Fs) : FeedOf(f).body.service \in DOMAIN c.services

\* What the file holds is sound, and has everything answered ok; the catalog in memory
\* has it too, and from its ingest on the feed at hand.
MeshHostInv ==
    /\ MeshHostTypeOK
    /\ acked \subseteq Feeds /\ fleet \subseteq Feeds
    /\ feed # "none" => deliveries[feed] > 0 /\ Accepts(FeedOf(feed))
    /\ Sound(HostLoad) /\ AckedIn(HostLoad, acked)
    /\ Sound(cat) /\ (pc # "down" => AckedIn(cat, acked))
    /\ pc \in {"saving", "replacing", "answering"} => AckedIn(cat, acked \cup {feed})
    /\ pc = "replacing" => temp = snapshot(cat)
    /\ pc = "answering" => HostLoad = cat
    /\ RestartChangesNothing

LEMMA EmptyIsSound == Sound(EmptyCatalog) /\ AckedIn(EmptyCatalog, {})
<1>1. PICK c : c = EmptyCatalog
  OBVIOUS
<1>2. /\ c.services = EmptyMap /\ c.events = <<>> /\ c.owner = EmptyMap /\ c.issues = EmptyMap
      /\ IsCatalog(c)
  BY <1>1 DEF EmptyCatalog, IsCatalog
<1>3. OwnerOf(<<>>) = EmptyMap
  <2>1. {<<>>[i].span : i \in DOMAIN <<>>} = {}
    OBVIOUS
  <2> QED
    BY <2>1 DEF OwnerOf, EmptyMap
<1>4. Sound(c)
  BY <1>2, <1>3 DEF Sound, Counted, EmptyMap
<1>5. TracesIn({}) = {} /\ IssuesIn({}) = {}
  BY DEF TracesIn, IssuesIn
<1>6. \A fp : CountOf(c, fp) = 0
  BY <1>2 DEF CountOf, EmptyMap
<1>7. \A fp : SumFunctionOnSet(Deltas(fp), {}) = 0
  BY FS_EmptySet, SumSplits
<1>8. AckedIn(c, {})
  BY <1>5, <1>6, <1>7 DEF AckedIn
<1> QED
  BY <1>1, <1>4, <1>8

\* Nothing of it is lost by another ingest, and the feed ingested is there.
LEMMA DeltaNat == ASSUME NEW f \in IssuesIn(Feeds), NEW fp PROVE Delta(f, fp) \in Nat
<1>1. PICK items \in Seq(Filed) : items = ReportsOf(f)
  BY MeshHostAssumption
<1>2. PICK n \in Nat : DOMAIN items = 1 .. n /\ \A i \in 1 .. n : items[i] \in Filed /\ items[i].count \in Nat
  BY MeshHostAssumption, LenProperties, ElementOfSeq
<1>3. IsFiniteSet(1 .. n) /\ Places(items, fp) \in SUBSET (1 .. n)
  BY <1>2, FS_Interval DEF Places
<1>4. IsFiniteSet(Places(items, fp)) /\ \A k \in Places(items, fp) : Counts(items)[k] \in Nat
  BY <1>2, <1>3, FS_Subset DEF Counts
<1>5. SumFunctionOnSet(Counts(items), Places(items, fp)) \in Nat
  BY <1>4, SumSplits
<1> QED
  BY <1>1, <1>5 DEF Delta, Counts, Places

LEMMA DeltasSum ==
    ASSUME NEW fp, NEW S \in SUBSET IssuesIn(Feeds)
    PROVE  /\ SumFunctionOnSet(Deltas(fp), S) \in Nat
           /\ \A f \in S : SumFunctionOnSet(Deltas(fp), S) = Delta(f, fp) + SumFunctionOnSet(Deltas(fp), S \ {f})
<1>1. IsFiniteSet(IssuesIn(Feeds))
  BY MeshHostAssumption, FS_Subset DEF IssuesIn
<1>2. IsFiniteSet(S) /\ \A f \in S : Deltas(fp)[f] = Delta(f, fp) /\ Deltas(fp)[f] \in Nat
  BY <1>1, FS_Subset, DeltaNat DEF Deltas
<1>3. PICK g : g = Deltas(fp)
  OBVIOUS
<1>4. /\ SumFunctionOnSet(g, S) \in Nat
      /\ \A f \in S : SumFunctionOnSet(g, S) = g[f] + SumFunctionOnSet(g, S \ {f})
  BY <1>2, <1>3, SumSplits
<1> QED
  BY <1>2, <1>3, <1>4

\* One more delivery is one more of what its feed reports that is due.
LEMMA SumsEqual ==
    ASSUME NEW g, NEW k, NEW S, IsFiniteSet(S), \A x \in S : g[x] = k[x]
    PROVE  SumFunctionOnSet(g, S) = SumFunctionOnSet(k, S)
<1>1. PICK h : IsSum(h, g, S) /\ SumFunctionOnSet(g, S) = h[S]
  BY SumIs
<1>2. PICK r : IsSum(r, k, S) /\ SumFunctionOnSet(k, S) = r[S]
  BY SumIs
<1>3. \A s \in SUBSET S : (IF s = {} THEN 0 ELSE g[CHOOSE x \in s : TRUE] + r[s \ {CHOOSE x \in s : TRUE}])
                         = (IF s = {} THEN 0 ELSE k[CHOOSE x \in s : TRUE] + r[s \ {CHOOSE x \in s : TRUE}])
  OBVIOUS
<1>4. IsSum(r, g, S)
  BY <1>2, <1>3 DEF IsSum
<1> QED
  BY <1>1, <1>2, <1>4, SumsAgree

LEMMA SumsDiffer ==
    ASSUME NEW g, NEW k, NEW S, IsFiniteSet(S), NEW f \in S, \A x \in S : g[x] \in Nat /\ k[x] \in Nat,
           \A x \in S : x # f => k[x] = g[x], NEW more \in Nat, k[f] = g[f] + more
    PROVE  SumFunctionOnSet(k, S) = SumFunctionOnSet(g, S) + more
<1>1. SumFunctionOnSet(g, S) = g[f] + SumFunctionOnSet(g, S \ {f})
  BY SumSplits
<1>2. SumFunctionOnSet(k, S) = k[f] + SumFunctionOnSet(k, S \ {f})
  BY SumSplits
<1>3. IsFiniteSet(S \ {f})
  BY FS_Subset
<1>4. SumFunctionOnSet(k, S \ {f}) = SumFunctionOnSet(g, S \ {f})
  BY <1>3, SumsEqual
<1>5. SumFunctionOnSet(g, S \ {f}) \in Nat
  BY <1>3, SumSplits
<1> QED
  BY <1>1, <1>2, <1>4, <1>5

LEMMA FilersFinite == IsFiniteSet(IssuesIn(Feeds)) /\ IssuesIn(Feeds) \subseteq Feeds
BY MeshHostAssumption, FS_Subset DEF IssuesIn

\* What each delivery of a feed adds, over all deliveries.
Weighted(many, w) == SumFunction([f \in IssuesIn(Feeds) |-> many[f] * w[f]])

LEMMA WeightedParts ==
    ASSUME NEW many \in [Feeds -> Nat], NEW w, \A x \in IssuesIn(Feeds) : w[x] \in Nat,
           NEW g, g = [x \in IssuesIn(Feeds) |-> many[x] * w[x]]
    PROVE  /\ Weighted(many, w) = SumFunctionOnSet(g, IssuesIn(Feeds))
           /\ \A x \in IssuesIn(Feeds) : g[x] = many[x] * w[x] /\ g[x] \in Nat
<1>1. \A x \in IssuesIn(Feeds) : g[x] = many[x] * w[x]
  OBVIOUS
<1>2. \A x \in IssuesIn(Feeds) : many[x] \in Nat
  BY FilersFinite
<1>3. \A m, n \in Nat : m * n \in Nat
  OBVIOUS
<1>4. \A x \in IssuesIn(Feeds) : g[x] \in Nat
  BY <1>1, <1>2, <1>3
<1>5. DOMAIN g = IssuesIn(Feeds)
  OBVIOUS
<1> QED
  BY <1>1, <1>4, <1>5, Zenon DEF Weighted, SumFunction

LEMMA WeightedGrows ==
    ASSUME NEW many \in [Feeds -> Nat], NEW f \in Feeds, NEW more,
           \A x \in Feeds : more[x] = IF x = f THEN many[x] + 1 ELSE many[x],
           NEW w, \A x \in IssuesIn(Feeds) : w[x] \in Nat
    PROVE  Weighted(more, w) = Weighted(many, w) + (IF f \in IssuesIn(Feeds) THEN w[f] ELSE 0)
<1> SUFFICES ASSUME NEW g, g = [x \in IssuesIn(Feeds) |-> many[x] * w[x]],
                    NEW k, k = [x \in IssuesIn(Feeds) |-> more[x] * w[x]]
             PROVE  SumFunction(k) = SumFunction(g) + (IF f \in IssuesIn(Feeds) THEN w[f] ELSE 0)
  BY DEF Weighted
<1>1. PICK S : S = IssuesIn(Feeds)
  OBVIOUS
<1>2. IsFiniteSet(S) /\ S \subseteq Feeds
  BY <1>1, FilersFinite
<1>3. ASSUME NEW x \in S PROVE g[x] \in Nat /\ k[x] \in Nat /\ (x # f => k[x] = g[x])
                              /\ (x = f => k[x] = g[x] + w[f])
  <2>1. PICK m, n, b : m = many[x] /\ n = more[x] /\ b = w[x]
    OBVIOUS
  <2>2. m \in Nat /\ n \in Nat /\ b \in Nat /\ (x # f => n = m) /\ (x = f => n = m + 1)
    BY <1>1, <1>2, <2>1
  <2>3. g[x] = m * b /\ k[x] = n * b
    BY <1>1, <2>1
  <2>4. m * b \in Nat /\ n * b \in Nat /\ (m + 1) * b = m * b + b
    BY <2>2
  <2> QED
    BY <2>1, <2>2, <2>3, <2>4
<1>4. SumFunction(g) = SumFunctionOnSet(g, S) /\ SumFunction(k) = SumFunctionOnSet(k, S)
  BY <1>1, Zenon DEF SumFunction
<1>5. SumFunctionOnSet(g, S) \in Nat
  BY <1>2, <1>3, SumSplits
<1>6. CASE f \in S
  <2>1. \A x \in S : g[x] \in Nat /\ k[x] \in Nat /\ (x # f => k[x] = g[x])
    BY <1>3
  <2>2. k[f] = g[f] + w[f] /\ w[f] \in Nat
    BY <1>1, <1>3, <1>6
  <2>3. PICK u, v, added : u = g /\ v = k /\ added = w[f]
    OBVIOUS
  <2>4. /\ \A x \in S : u[x] \in Nat /\ v[x] \in Nat
        /\ \A x \in S : x # f => v[x] = u[x]
        /\ added \in Nat /\ v[f] = u[f] + added
    BY <2>1, <2>2, <2>3, Zenon
  <2>5. SumFunctionOnSet(v, S) = SumFunctionOnSet(u, S) + added
    BY <1>2, <1>6, <2>4, SumsDiffer
  <2> QED
    BY <1>1, <1>4, <1>6, <2>3, <2>5
<1>7. CASE f \notin S
  <2>1. SumFunctionOnSet(k, S) = SumFunctionOnSet(g, S)
    BY <1>2, <1>3, <1>7, SumsEqual
  <2> QED
    BY <1>1, <1>4, <1>5, <1>7, <2>1
<1> QED
  BY <1>6, <1>7

LEMMA WeightedNat ==
    ASSUME NEW many \in [Feeds -> Nat], NEW w, \A x \in IssuesIn(Feeds) : w[x] \in Nat
    PROVE  Weighted(many, w) \in Nat
<1>1. PICK g : g = [x \in IssuesIn(Feeds) |-> many[x] * w[x]]
  OBVIOUS
<1>2. Weighted(many, w) = SumFunctionOnSet(g, IssuesIn(Feeds)) /\ \A x \in IssuesIn(Feeds) : g[x] \in Nat
  BY <1>1, WeightedParts
<1> QED
  BY <1>2, FilersFinite, SumSplits

LEMMA NothingWeighs ==
    ASSUME NEW many, many = [f \in Feeds |-> 0], NEW w, \A x \in IssuesIn(Feeds) : w[x] \in Nat
    PROVE  Weighted(many, w) = 0
<1>1. PICK g, S : g = [x \in IssuesIn(Feeds) |-> many[x] * w[x]] /\ S = IssuesIn(Feeds)
  OBVIOUS
<1>2. many \in [Feeds -> Nat] /\ \A x \in S : many[x] = 0
  BY <1>1, FilersFinite
<1>3. Weighted(many, w) = SumFunctionOnSet(g, S) /\ \A x \in S : g[x] = many[x] * w[x] /\ g[x] \in Nat
  BY <1>1, <1>2, WeightedParts
<1>4. \A x \in S : g[x] = 0
  <2>1. \A n \in Nat : 0 * n = 0
    OBVIOUS
  <2>2. \A x \in S : w[x] \in Nat
    BY <1>1
  <2> QED
    BY <1>2, <1>3, <2>1, <2>2
<1>5. SumFunctionOnSet(g, S) = SumFunctionOnSet(g, {})
  BY <1>1, <1>3, <1>4, FilersFinite, ZerosDrop
<1>6. SumFunctionOnSet(g, {}) = 0
  BY FS_EmptySet, SumSplits
<1> QED
  BY <1>3, <1>5, <1>6

\* The deltas of an issue's count weigh what is due.
DeltaOf(fp) == [x \in IssuesIn(Feeds) |-> Delta(x, fp)]
LEMMA DueWeighs ==
    ASSUME NEW many, NEW fp
    PROVE  /\ SumFunction([f \in IssuesIn(Feeds) |-> many[f] * Delta(f, fp)]) = Weighted(many, DeltaOf(fp))
           /\ \A x \in IssuesIn(Feeds) : DeltaOf(fp)[x] \in Nat
<1>1. \A x \in IssuesIn(Feeds) : DeltaOf(fp)[x] = Delta(x, fp)
  BY DEF DeltaOf
<1>2. \A x \in IssuesIn(Feeds) : DeltaOf(fp)[x] \in Nat
  BY <1>1, DeltaNat
<1>3. [f \in IssuesIn(Feeds) |-> many[f] * Delta(f, fp)] = [f \in IssuesIn(Feeds) |-> many[f] * DeltaOf(fp)[f]]
  BY <1>1
<1> QED
  BY <1>2, <1>3, Zenon DEF Weighted

LEMMA AckedStays ==
    ASSUME NEW c, Sound(c), NEW d, Sound(d), Grows(c, d), NEW Fs \in SUBSET Feeds, AckedIn(c, Fs)
    PROVE  AckedIn(d, Fs)
<1>1. \A fp : CountOf(d, fp) \in Nat /\ CountOf(c, fp) \in Nat /\ SumFunctionOnSet(Deltas(fp), IssuesIn(Fs)) \in Nat
  <2>1. IssuesIn(Fs) \in SUBSET IssuesIn(Feeds)
    BY DEF IssuesIn
  <2> QED
    BY <2>1, DeltasSum DEF CountOf, Sound, Counted
<1>2. \A fp \in Fingerprints(Feeds) : CountOf(d, fp) >= SumFunctionOnSet(Deltas(fp), IssuesIn(Fs))
  BY <1>1 DEF AckedIn, Grows
<1>3. \A f \in TracesIn(Fs) : \A k \in DOMAIN EventsOf(f) : Contains(d.events, EventsOf(f)[k])
  BY Zenon DEF AckedIn, Grows
<1>4. \A f \in Fs \ TracesIn(Fs) : FeedOf(f).body.service \in DOMAIN d.services
  BY DEF AckedIn, Grows
<1> QED
  BY <1>2, <1>3, <1>4 DEF AckedIn

LEMMA AckedMore ==
    ASSUME NEW c, Sound(c), NEW d, Sound(d), Grows(c, d), NEW Fs \in SUBSET Feeds, AckedIn(c, Fs),
           NEW f \in Feeds, Accepts(FeedOf(f)), Took(c, d, f)
    PROVE  AckedIn(d, Fs \cup {f})
<1>1. AckedIn(d, Fs)
  BY AckedStays
<1>2. CASE f \in Fs
  <2>1. Fs \cup {f} = Fs
    BY <1>2
  <2> QED
    BY <1>1, <2>1
<1>3. CASE f \notin Fs
  <2>1. PICK all : all = Fs \cup {f}
    OBVIOUS
  <2>2. \A x \in TracesIn(all) : \A k \in DOMAIN EventsOf(x) : Contains(d.events, EventsOf(x)[k])
    <3>1. \A x \in TracesIn(all) : x \in TracesIn(Fs) \/ (x = f /\ f \in TracesIn(Feeds))
      BY <2>1 DEF TracesIn
    <3> QED
      BY <1>1, <3>1 DEF AckedIn, Took
  <2>3. \A x \in all \ TracesIn(all) : FeedOf(x).body.service \in DOMAIN d.services
    <3>1. \A x \in all \ TracesIn(all) : x \in Fs \ TracesIn(Fs) \/ (x = f /\ f \notin TracesIn(Feeds))
      BY <2>1 DEF TracesIn
    <3> QED
      BY <1>1, <3>1 DEF AckedIn, Took
  <2>4. ASSUME NEW fp \in Fingerprints(Feeds)
        PROVE  CountOf(d, fp) >= SumFunctionOnSet(Deltas(fp), IssuesIn(all))
    <3>1. CASE f \in IssuesIn(Feeds)
      <4>1. /\ IssuesIn(all) \in SUBSET IssuesIn(Feeds) /\ f \in IssuesIn(all)
            /\ IssuesIn(all) \ {f} = IssuesIn(Fs)
        BY <1>3, <2>1, <3>1 DEF IssuesIn
      <4>2. /\ SumFunctionOnSet(Deltas(fp), IssuesIn(all))
               = Delta(f, fp) + SumFunctionOnSet(Deltas(fp), IssuesIn(Fs))
            /\ SumFunctionOnSet(Deltas(fp), IssuesIn(Fs)) \in Nat
        <5>1. IssuesIn(Fs) \in SUBSET IssuesIn(Feeds)
          BY <4>1
        <5> QED
          BY <4>1, <5>1, DeltasSum
      <4>3. CountOf(d, fp) = CountOf(c, fp) + Delta(f, fp)
        BY <3>1 DEF Took
      <4>4. CountOf(c, fp) >= SumFunctionOnSet(Deltas(fp), IssuesIn(Fs))
        BY DEF AckedIn
      <4>5. CountOf(c, fp) \in Nat /\ Delta(f, fp) \in Nat
        BY <3>1, DeltaNat DEF CountOf, Sound, Counted
      <4> QED
        BY <4>2, <4>3, <4>4, <4>5
    <3>2. CASE f \notin IssuesIn(Feeds)
      <4>1. IssuesIn(all) = IssuesIn(Fs)
        BY <2>1, <3>2 DEF IssuesIn
      <4> QED
        BY <1>1, <4>1 DEF AckedIn
    <3> QED
      BY <3>1, <3>2
  <2> QED
    BY <2>1, <2>2, <2>3, <2>4 DEF AckedIn
<1> QED
  BY <1>2, <1>3

\* A snapshot loads as the catalog it was taken of.
LEMMA SnapshotLoads ==
    ASSUME NEW c, Sound(c)
    PROVE  snapshot(c) # NoFile /\ restore(snapshot(c)) = c
<1>1. PICK s : s = snapshot(c)
  OBVIOUS
<1>2. /\ s.version = 4 /\ s.services = c.services /\ s.topics = c.topics /\ s.everConsumed = c.everConsumed
      /\ s.events = c.events /\ s.issues = c.issues
  BY <1>1 DEF snapshot, SnapshotVersion
<1>3. s # NoFile
  <2>1. NoFile.version = 0
    BY DEF NoFile
  <2> QED
    BY <1>2, <2>1
<1>4. restore(s) = [services |-> c.services, topics |-> c.topics, everConsumed |-> c.everConsumed,
                    events |-> c.events, issues |-> c.issues, owner |-> OwnerOf(c.events)]
  BY <1>2 DEF restore, SnapshotVersion
<1>5. c = [services |-> c.services, topics |-> c.topics, everConsumed |-> c.everConsumed,
           events |-> c.events, issues |-> c.issues, owner |-> OwnerOf(c.events)]
  BY DEF Sound, IsCatalog
<1> QED
  BY <1>1, <1>3, <1>4, <1>5


LEMMA StartsEmpty == MeshHostInit => HostLoad = EmptyCatalog
<1> SUFFICES ASSUME MeshHostInit PROVE HostLoad = EmptyCatalog
  OBVIOUS
<1>1. CASE file = NoFile
  BY <1>1 DEF HostLoad
<1>2. CASE file # NoFile
  <2>1. PICK s : s = OldFile /\ s = file
    BY <1>2 DEF MeshHostInit
  <2>2. s.version = 3
    BY <2>1 DEF OldFile
  <2>3. restore(s) = EmptyCatalog
    BY <2>2 DEF restore, SnapshotVersion
  <2> QED
    BY <1>2, <2>1, <2>3 DEF HostLoad
<1> QED
  BY <1>1, <1>2

LEMMA CollectorStarts == MeshHostInit => MeshHostInv
<1> SUFFICES ASSUME MeshHostInit PROVE MeshHostInv
  OBVIOUS
<1>1. HostLoad = EmptyCatalog
  BY StartsEmpty
<1> USE DEF MeshHostInit, MeshHostStart
<1>2. DOMAIN cat.owner = {cat.events[i].span : i \in DOMAIN cat.events}
  BY EmptyIsSound DEF Sound, OwnerOf
<1>3. MeshHostTypeOK
  BY <1>2, MeshHostAssumption DEF MeshHostTypeOK
<1>4. fleet \subseteq Feeds
  BY MeshHostAssumption
<1> QED
  BY <1>1, <1>3, <1>4, EmptyIsSound DEF MeshHostInv, RestartChangesNothing

LEMMA OwnersAreSpans ==
    ASSUME NEW c, Sound(c) PROVE DOMAIN c.owner = {c.events[i].span : i \in DOMAIN c.events}
BY DEF Sound, OwnerOf

\* Another delivery is within the bound on all of them.
LEMMA DeliveryCounted ==
    ASSUME deliveries \in [Feeds -> 0 .. MaxDeliveries], NEW f \in Feeds, Arrives(f)
    PROVE  [deliveries EXCEPT ![f] = @ + 1] \in [Feeds -> 0 .. MaxDeliveries]
<1>1. IsFiniteSet(Feeds) /\ MaxDeliveries \in Nat /\ \A g \in Feeds : deliveries[g] \in Nat
  BY MeshHostAssumption
<1>2. /\ SumFunctionOnSet(deliveries, Feeds) = deliveries[f] + SumFunctionOnSet(deliveries, Feeds \ {f})
      /\ SumFunctionOnSet(deliveries, Feeds) \in Nat
  BY <1>1, SumSplits
<1>3. SumFunctionOnSet(deliveries, Feeds \ {f}) \in Nat
  <2>1. IsFiniteSet(Feeds \ {f}) /\ \A g \in Feeds \ {f} : deliveries[g] \in Nat
    BY <1>1, FS_Subset
  <2> QED
    BY <2>1, SumSplits
<1>4. SumFunctionOnSet(deliveries, Feeds) < MaxDeliveries
  BY DEF Arrives
<1>5. deliveries[f] + 1 \in 0 .. MaxDeliveries
  <2>1. PICK total, others : /\ total = SumFunctionOnSet(deliveries, Feeds)
                             /\ others = SumFunctionOnSet(deliveries, Feeds \ {f})
    OBVIOUS
  <2>2. total = deliveries[f] + others /\ total \in Nat /\ others \in Nat /\ total < MaxDeliveries
    BY <1>2, <1>3, <1>4, <2>1
  <2> QED
    BY <1>1, <2>2
<1> QED
  BY <1>5

LEMMA StartStep == MeshHostInv /\ StartCollector => MeshHostInv'
<1> SUFFICES ASSUME MeshHostInv, StartCollector PROVE MeshHostInv'
  OBVIOUS
<1>1. cat' = HostLoad /\ HostLoad' = HostLoad /\ pc' = "idle" /\ acked' = acked /\ feed' = feed
  BY DEF StartCollector, HostLoad
<1>2. Sound(cat') /\ AckedIn(cat', acked')
  BY <1>1 DEF MeshHostInv
<1>3. MeshHostTypeOK'
  <2>1. DOMAIN cat'.owner = {cat'.events[i].span : i \in DOMAIN cat'.events}
    BY <1>2, OwnersAreSpans
  <2> QED
    BY <2>1 DEF MeshHostInv, MeshHostTypeOK, StartCollector
<1>4. RestartChangesNothing'
  BY <1>1 DEF RestartChangesNothing
<1> QED
  BY <1>1, <1>2, <1>3, <1>4 DEF MeshHostInv, StartCollector, MeshHostTypeOK

LEMMA RefuseStep == ASSUME MeshHostInv, NEW f \in Feeds, Refuse(f) PROVE MeshHostInv'
<1>1. /\ cat' = cat /\ HostLoad' = HostLoad /\ pc' = pc /\ pc = "idle" /\ acked' = acked /\ feed' = feed
      /\ unsaved' = unsaved /\ fleet' = fleet
  BY DEF Refuse, HostLoad
<1>2. deliveries' = [deliveries EXCEPT ![f] = @ + 1] /\ Arrives(f) /\ hostTrouble' = hostTrouble
  BY DEF Refuse
<1>3. deliveries' \in [Feeds -> 0 .. MaxDeliveries]
  BY <1>2, DeliveryCounted DEF MeshHostInv, MeshHostTypeOK
<1>4. \A g \in Feeds : deliveries[g] > 0 => deliveries'[g] > 0
  BY <1>2, MeshHostAssumption DEF MeshHostInv, MeshHostTypeOK
<1>5. MeshHostTypeOK'
  BY <1>1, <1>2, <1>3, <1>4 DEF MeshHostInv, MeshHostTypeOK
<1>6. RestartChangesNothing'
  BY <1>1 DEF RestartChangesNothing, MeshHostInv
<1>7. feed' = "none"
  BY <1>1 DEF MeshHostInv, MeshHostTypeOK
<1> QED
  BY <1>1, <1>5, <1>6, <1>7 DEF MeshHostInv

LEMMA DeliverStep == ASSUME MeshHostInv, NEW f \in Feeds, Deliver(f) PROVE MeshHostInv'
<1>1. /\ HostLoad' = HostLoad /\ pc' = "saving" /\ pc = "idle" /\ acked' = acked /\ feed' = f
      /\ unsaved' = unsaved /\ fleet' = fleet
  BY DEF Deliver, HostLoad
<1>2. /\ deliveries' = [deliveries EXCEPT ![f] = @ + 1] /\ Arrives(f) /\ hostTrouble' = hostTrouble
      /\ cat' = Ingest(cat, FeedOf(f)) /\ Accepts(FeedOf(f))
  BY DEF Deliver
<1>3. deliveries' \in [Feeds -> 0 .. MaxDeliveries]
  BY <1>2, DeliveryCounted DEF MeshHostInv, MeshHostTypeOK
<1>4. deliveries'[f] > 0 /\ \A g \in Feeds : deliveries[g] > 0 => deliveries'[g] > 0
  BY <1>2, MeshHostAssumption DEF MeshHostInv, MeshHostTypeOK
<1>5. PICK c, d : c = cat /\ d = cat'
  OBVIOUS
<1>6. Sound(c) /\ AckedIn(c, acked) /\ acked \in SUBSET Feeds
  BY <1>1, <1>5 DEF MeshHostInv
<1>7. Sound(d) /\ Grows(c, d) /\ Took(c, d, f)
  BY <1>2, <1>5, <1>6, IngestKeeps
<1>8. AckedIn(d, acked) /\ AckedIn(d, acked \cup {f})
  BY <1>2, <1>6, <1>7, AckedStays, AckedMore
<1>9. f # "none"
  BY MeshHostAssumption
<1>10. MeshHostTypeOK'
  <2>1. DOMAIN cat'.owner = {cat'.events[i].span : i \in DOMAIN cat'.events}
    BY <1>5, <1>7, OwnersAreSpans
  <2> QED
    BY <1>1, <1>2, <1>3, <1>4, <1>9, <2>1 DEF MeshHostInv, MeshHostTypeOK
<1>11. RestartChangesNothing'
  BY <1>1 DEF RestartChangesNothing
<1>12. Sound(cat') /\ AckedIn(cat', acked') /\ AckedIn(cat', acked' \cup {feed'})
  BY <1>1, <1>5, <1>7, <1>8
<1> QED
  BY <1>1, <1>2, <1>4, <1>10, <1>11, <1>12 DEF MeshHostInv

LEMMA WriteStep == MeshHostInv /\ WriteTemp => MeshHostInv'
<1> SUFFICES ASSUME MeshHostInv, WriteTemp PROVE MeshHostInv'
  OBVIOUS
<1>1. /\ HostLoad' = HostLoad /\ pc' = "replacing" /\ pc = "saving" /\ cat' = cat /\ acked' = acked
      /\ feed' = feed /\ unsaved' = unsaved /\ fleet' = fleet /\ deliveries' = deliveries
      /\ hostTrouble' = hostTrouble
  BY DEF WriteTemp, HostLoad
<1>2. temp' = snapshot(cat)'
  BY <1>1 DEF WriteTemp, snapshot
<1>3. MeshHostTypeOK'
  BY <1>1 DEF MeshHostInv, MeshHostTypeOK
<1> QED
  BY <1>1, <1>2, <1>3 DEF MeshHostInv, RestartChangesNothing

LEMMA FailStep == MeshHostInv /\ SaveFails => MeshHostInv'
<1> SUFFICES ASSUME MeshHostInv, SaveFails PROVE MeshHostInv'
  OBVIOUS
<1>1. /\ HostLoad' = HostLoad /\ pc' = "idle" /\ pc # "down" /\ cat' = cat /\ acked' = acked
      /\ feed' = "none" /\ unsaved' = TRUE /\ fleet' = fleet /\ deliveries' = deliveries
      /\ hostTrouble' = hostTrouble + 1 /\ hostTrouble < MaxHostTrouble
  BY DEF SaveFails, HostLoad
<1>2. MeshHostTypeOK'
  BY <1>1, MeshHostAssumption DEF MeshHostInv, MeshHostTypeOK
<1> QED
  BY <1>1, <1>2 DEF MeshHostInv, RestartChangesNothing

LEMMA ReplacedLoads == MeshHostInv /\ Replace => HostLoad' = cat
<1> SUFFICES ASSUME MeshHostInv, Replace PROVE HostLoad' = cat
  OBVIOUS
<1>1. temp = snapshot(cat) /\ Sound(cat) /\ file' = temp
  BY DEF MeshHostInv, Replace
<1>2. snapshot(cat) # NoFile /\ restore(snapshot(cat)) = cat
  BY <1>1, SnapshotLoads
<1> QED
  BY <1>1, <1>2 DEF HostLoad

LEMMA ReplaceStep == MeshHostInv /\ Replace => MeshHostInv'
<1> SUFFICES ASSUME MeshHostInv, Replace PROVE MeshHostInv'
  OBVIOUS
<1>1. /\ file' = temp /\ pc' = "answering" /\ pc = "replacing" /\ cat' = cat /\ acked' = acked
      /\ feed' = feed /\ fleet' = fleet /\ deliveries' = deliveries
      /\ hostTrouble' = hostTrouble
  BY DEF Replace
<1>2. HostLoad' = cat
  BY ReplacedLoads
<1>3. MeshHostTypeOK'
  BY <1>1 DEF MeshHostInv, MeshHostTypeOK
<1>4. Sound(HostLoad') /\ AckedIn(HostLoad', acked')
  BY <1>1, <1>2 DEF MeshHostInv
<1>5. Sound(HostLoad)' /\ AckedIn(HostLoad, acked)'
  BY <1>4
<1> QED
  BY <1>1, <1>2, <1>3, <1>5 DEF MeshHostInv, RestartChangesNothing

LEMMA AnswerStep == MeshHostInv /\ Answer => MeshHostInv'
<1> SUFFICES ASSUME MeshHostInv, Answer PROVE MeshHostInv'
  OBVIOUS
<1>1. /\ HostLoad' = HostLoad /\ pc' = "idle" /\ pc = "answering" /\ cat' = cat /\ acked' = acked \cup {feed}
      /\ feed' = "none" /\ unsaved' = unsaved /\ fleet' = fleet /\ deliveries' = deliveries
      /\ hostTrouble' = hostTrouble
  BY DEF Answer, HostLoad
<1>2. feed \in Feeds /\ deliveries[feed] > 0 /\ Accepts(FeedOf(feed))
  BY <1>1 DEF MeshHostInv, MeshHostTypeOK
<1>3. MeshHostTypeOK'
  BY <1>1, <1>2 DEF MeshHostInv, MeshHostTypeOK
<1>4. AckedIn(cat, acked') /\ AckedIn(HostLoad, acked') /\ HostLoad = cat
  BY <1>1 DEF MeshHostInv
<1>5. AckedIn(cat, acked)' /\ AckedIn(HostLoad, acked)' /\ RestartChangesNothing'
  BY <1>1, <1>4 DEF RestartChangesNothing
<1>6. Sound(cat)' /\ Sound(HostLoad)'
  BY <1>1 DEF MeshHostInv
<1>7. (acked \subseteq Feeds /\ fleet \subseteq Feeds)'
  BY <1>1, <1>2 DEF MeshHostInv
<1> QED
  BY <1>1, <1>3, <1>5, <1>6, <1>7 DEF MeshHostInv

LEMMA KillStep == MeshHostInv /\ KillCollector => MeshHostInv'
<1> SUFFICES ASSUME MeshHostInv, KillCollector PROVE MeshHostInv'
  OBVIOUS
<1>1. /\ HostLoad' = HostLoad /\ pc' = "down" /\ cat' = EmptyCatalog /\ acked' = acked
      /\ feed' = "none" /\ fleet' = fleet /\ deliveries' = deliveries
      /\ hostTrouble' = hostTrouble + 1 /\ hostTrouble < MaxHostTrouble
  BY DEF KillCollector, HostLoad
<1>2. Sound(cat')
  BY <1>1, EmptyIsSound
<1>3. MeshHostTypeOK'
  <2>1. DOMAIN cat'.owner = {cat'.events[i].span : i \in DOMAIN cat'.events}
    BY <1>2, OwnersAreSpans
  <2> QED
    BY <1>1, <2>1, MeshHostAssumption DEF MeshHostInv, MeshHostTypeOK
<1> QED
  BY <1>1, <1>2, <1>3 DEF MeshHostInv, RestartChangesNothing

LEMMA CollectorHolds == MeshHostInv /\ [MeshHostNext]_meshHostVars => MeshHostInv'
<1> SUFFICES ASSUME MeshHostInv, [MeshHostNext]_meshHostVars PROVE MeshHostInv'
  OBVIOUS
<1>1. CASE UNCHANGED meshHostVars
  <2>1. /\ fleet' = fleet /\ cat' = cat /\ file' = file /\ temp' = temp /\ pc' = pc /\ feed' = feed
        /\ deliveries' = deliveries /\ acked' = acked /\ unsaved' = unsaved /\ hostTrouble' = hostTrouble
    BY <1>1 DEF meshHostVars
  <2>2. HostLoad' = HostLoad
    BY <2>1 DEF HostLoad
  <2>3. MeshHostTypeOK' /\ RestartChangesNothing' /\ snapshot(cat)' = snapshot(cat)
    BY <2>1, <2>2 DEF MeshHostInv, MeshHostTypeOK, RestartChangesNothing, snapshot
  <2> QED
    BY <2>1, <2>2, <2>3 DEF MeshHostInv
<1>2. CASE CollectorStep
  BY <1>2, StartStep, WriteStep, ReplaceStep, AnswerStep DEF CollectorStep
<1>3. CASE SaveFails \/ KillCollector
  BY <1>3, FailStep, KillStep
<1>4. ASSUME NEW f \in Feeds, Deliver(f) \/ Refuse(f) PROVE MeshHostInv'
  BY <1>4, DeliverStep, RefuseStep
<1> QED
  BY <1>1, <1>2, <1>3, <1>4 DEF MeshHostNext

LEMMA AckedShown == MeshHostInv => AckedSurvives
<1> SUFFICES ASSUME MeshHostInv PROVE AckedSurvives
  OBVIOUS
<1>1. AckedIn(HostLoad, acked) /\ acked \subseteq Feeds
  BY DEF MeshHostInv
<1>2. Fingerprints(acked) \subseteq Fingerprints(Feeds)
  BY <1>1 DEF Fingerprints, IssuesIn
<1> QED
  BY <1>1, <1>2, Zenon DEF AckedIn, AckedSurvives

\* No catalog counts more than is due, and the one to go on with no less either, as long
\* as nothing failed.
CountsRight ==
    \A fp \in Fingerprints(Feeds) :
        /\ CountOf(cat, fp) <= Due(fp) /\ CountOf(HostLoad, fp) <= Due(fp)
        /\ hostTrouble = 0 => Due(fp) = IF pc = "down" THEN CountOf(HostLoad, fp) ELSE CountOf(cat, fp)

LEMMA DueNat == ASSUME deliveries \in [Feeds -> Nat], NEW fp PROVE Due(fp) \in Nat
<1>1. Due(fp) = Weighted(deliveries, DeltaOf(fp)) /\ \A x \in IssuesIn(Feeds) : DeltaOf(fp)[x] \in Nat
  BY DueWeighs DEF Due
<1> QED
  BY <1>1, WeightedNat

LEMMA DueStays ==
    ASSUME deliveries' = deliveries, NEW fp PROVE Due(fp)' = Due(fp)
BY DEF Due

\* Nothing is due before anything came in.
LEMMA NothingDue == ASSUME deliveries = [f \in Feeds |-> 0], NEW fp PROVE Due(fp) = 0
<1>1. Due(fp) = Weighted(deliveries, DeltaOf(fp)) /\ \A x \in IssuesIn(Feeds) : DeltaOf(fp)[x] \in Nat
  BY DueWeighs DEF Due
<1>2. PICK many : many = deliveries
  OBVIOUS
<1> QED
  BY <1>1, <1>2, NothingWeighs

LEMMA CountIsNat == ASSUME NEW c, Sound(c), NEW fp PROVE CountOf(c, fp) \in Nat
BY DEF CountOf, Sound, Counted

LEMMA NothingCounted == ASSUME NEW fp PROVE CountOf(EmptyCatalog, fp) = 0
<1>1. EmptyCatalog.issues = EmptyMap
  BY DEF EmptyCatalog
<1> QED
  BY <1>1 DEF CountOf, EmptyMap

\* What an issue counts by is no drift.
LEMMA NoDriftFiled == ASSUME NEW fp \in Fingerprints(Feeds) PROVE fp[3] # "contract-drift"
<1>1. PICK f \in IssuesIn(Feeds) : \E k \in DOMAIN ReportsOf(f) : fp = ReportsOf(f)[k].fp
  BY DEF Fingerprints
<1>2. PICK items \in Seq(Filed) : items = ReportsOf(f)
  BY MeshHostAssumption
<1>3. \A k \in DOMAIN items : items[k] \in Filed
  BY <1>2, LenProperties, ElementOfSeq
<1> QED
  BY <1>1, <1>2, <1>3, MeshHostAssumption

LEMMA CountsStart == MeshHostInit => CountsRight
<1> SUFFICES ASSUME MeshHostInit PROVE CountsRight
  OBVIOUS
<1>1. cat = EmptyCatalog /\ HostLoad = EmptyCatalog /\ deliveries = [f \in Feeds |-> 0]
  BY StartsEmpty DEF MeshHostInit, MeshHostStart
<1>2. ASSUME NEW fp PROVE CountOf(cat, fp) = 0 /\ CountOf(HostLoad, fp) = 0 /\ Due(fp) = 0
  BY <1>1, NothingCounted, NothingDue
<1> QED
  BY <1>2 DEF CountsRight

\* One more delivery: what the ingest adds to the count is what has become due.
LEMMA DeliveryDue ==
    ASSUME MeshHostInv, NEW f \in Feeds, deliveries' = [deliveries EXCEPT ![f] = @ + 1], NEW fp
    PROVE  /\ Due(fp)' = Due(fp) + (IF f \in IssuesIn(Feeds) THEN Delta(f, fp) ELSE 0)
           /\ Due(fp) \in Nat
<1>1. deliveries \in [Feeds -> Nat]
  BY DEF MeshHostInv, MeshHostTypeOK
<1>2. PICK many, more : many = deliveries /\ more = deliveries'
  OBVIOUS
<1>3. many \in [Feeds -> Nat] /\ \A x \in Feeds : more[x] = IF x = f THEN many[x] + 1 ELSE many[x]
  BY <1>1, <1>2
<1>4. PICK w : w = DeltaOf(fp)
  OBVIOUS
<1>5. \A x \in IssuesIn(Feeds) : w[x] \in Nat /\ w[x] = Delta(x, fp)
  BY <1>4, DueWeighs DEF DeltaOf
<1>6. Weighted(more, w) = Weighted(many, w) + (IF f \in IssuesIn(Feeds) THEN w[f] ELSE 0)
  BY <1>3, <1>5, WeightedGrows
<1>7. Due(fp) = Weighted(many, w) /\ Due(fp)' = Weighted(more, w)
  <2>1. /\ Due(fp) = SumFunction([x \in IssuesIn(Feeds) |-> many[x] * Delta(x, fp)])
        /\ Due(fp)' = SumFunction([x \in IssuesIn(Feeds) |-> more[x] * Delta(x, fp)])
    BY <1>2 DEF Due
  <2> QED
    BY <1>4, <2>1, DueWeighs
<1> QED
  BY <1>1, <1>5, <1>6, <1>7, DueNat

LEMMA DeliverCounts == ASSUME MeshHostInv, CountsRight, NEW f \in Feeds, Deliver(f) PROVE CountsRight'
<1>1. /\ HostLoad' = HostLoad /\ pc' = "saving" /\ pc = "idle" /\ hostTrouble' = hostTrouble
      /\ deliveries' = [deliveries EXCEPT ![f] = @ + 1]
      /\ cat' = Ingest(cat, FeedOf(f)) /\ Accepts(FeedOf(f))
  BY DEF Deliver, HostLoad
<1>2. PICK c, d : c = cat /\ d = cat'
  OBVIOUS
<1>3. Sound(c) /\ Sound(d) /\ Took(c, d, f)
  <2>1. Sound(c)
    BY <1>2 DEF MeshHostInv
  <2> QED
    BY <1>1, <1>2, <2>1, IngestKeeps
<1>4. ASSUME NEW fp \in Fingerprints(Feeds)
      PROVE  /\ CountOf(d, fp) <= Due(fp)' /\ CountOf(HostLoad, fp) <= Due(fp)'
             /\ hostTrouble = 0 => Due(fp)' = CountOf(d, fp)
  <2>1. CountOf(d, fp) = CountOf(c, fp) + (IF f \in IssuesIn(Feeds) THEN Delta(f, fp) ELSE 0)
    <3>1. CountOf(c, fp) \in Nat
      BY <1>3, CountIsNat
    <3> QED
      BY <1>3, <3>1, NoDriftFiled DEF Took, SameCounts
  <2>2. PICK due, added : due = Due(fp) /\ added = IF f \in IssuesIn(Feeds) THEN Delta(f, fp) ELSE 0
    OBVIOUS
  <2>3. Due(fp)' = due + added /\ due \in Nat /\ added \in Nat
    BY <1>1, <2>2, DeliveryDue, DeltaNat
  <2>4. /\ CountOf(c, fp) <= due /\ CountOf(HostLoad, fp) <= due
        /\ hostTrouble = 0 => due = CountOf(c, fp)
    BY <1>1, <1>2, <2>2 DEF CountsRight
  <2>5. CountOf(c, fp) \in Nat /\ CountOf(HostLoad, fp) \in Nat
    BY <1>3, CountIsNat DEF MeshHostInv
  <2> QED
    BY <2>1, <2>2, <2>3, <2>4, <2>5
<1>5. \A fp : CountOf(cat, fp)' = CountOf(d, fp) /\ CountOf(HostLoad, fp)' = CountOf(HostLoad, fp)
  BY <1>1, <1>2 DEF CountOf
<1> QED
  BY <1>1, <1>4, <1>5 DEF CountsRight

LEMMA RefuseCounts == ASSUME MeshHostInv, CountsRight, NEW f \in Feeds, Refuse(f) PROVE CountsRight'
<1>1. /\ HostLoad' = HostLoad /\ cat' = cat /\ pc' = pc /\ hostTrouble' = hostTrouble
      /\ deliveries' = [deliveries EXCEPT ![f] = @ + 1] /\ f \notin IssuesIn(Feeds)
  BY DEF Refuse, HostLoad, IssuesIn
<1>2. ASSUME NEW fp PROVE Due(fp)' = Due(fp)
  <2>1. /\ Due(fp)' = Due(fp) + (IF f \in IssuesIn(Feeds) THEN Delta(f, fp) ELSE 0)
        /\ Due(fp) \in Nat
    BY <1>1, DeliveryDue
  <2> QED
    BY <1>1, <2>1
<1>3. \A fp : CountOf(cat, fp)' = CountOf(cat, fp) /\ CountOf(HostLoad, fp)' = CountOf(HostLoad, fp)
  BY <1>1 DEF CountOf
<1> QED
  BY <1>1, <1>2, <1>3 DEF CountsRight

\* The steps of a save, a restart and a crash deliver nothing.
LEMMA SaveCounts ==
    ASSUME MeshHostInv, CountsRight, CollectorStep \/ SaveFails \/ KillCollector \/ UNCHANGED meshHostVars
    PROVE  CountsRight'
<1>1. \A fp : Due(fp)' = Due(fp)
  <2>1. deliveries' = deliveries
    BY DEF CollectorStep, StartCollector, WriteTemp, Replace, Answer, SaveFails, KillCollector, meshHostVars
  <2> QED
    BY <2>1, DueStays
<1>2. \A fp \in Fingerprints(Feeds) : Due(fp) \in Nat
  BY DueNat DEF MeshHostInv, MeshHostTypeOK
<1>3. hostTrouble \in Nat
  BY DEF MeshHostInv, MeshHostTypeOK
<1>4. ASSUME HostLoad' = HostLoad, cat' = cat, hostTrouble' = hostTrouble, pc' = "down" <=> pc = "down"
      PROVE  CountsRight'
  <2>1. \A fp : CountOf(cat, fp)' = CountOf(cat, fp) /\ CountOf(HostLoad, fp)' = CountOf(HostLoad, fp)
    BY <1>4 DEF CountOf
  <2> QED
    BY <1>1, <1>4, <2>1 DEF CountsRight
<1>5. CASE StartCollector
  <2>1. /\ HostLoad' = HostLoad /\ cat' = HostLoad /\ hostTrouble' = hostTrouble
        /\ pc' = "idle" /\ pc = "down"
    BY <1>5 DEF StartCollector, HostLoad
  <2>2. \A fp : CountOf(cat, fp)' = CountOf(HostLoad, fp) /\ CountOf(HostLoad, fp)' = CountOf(HostLoad, fp)
    BY <2>1 DEF CountOf
  <2> QED
    BY <1>1, <2>1, <2>2 DEF CountsRight
<1>6. CASE WriteTemp \/ Answer \/ UNCHANGED meshHostVars
  <2>1. /\ HostLoad' = HostLoad /\ cat' = cat /\ hostTrouble' = hostTrouble
        /\ pc' = "down" <=> pc = "down"
    BY <1>6 DEF WriteTemp, Answer, meshHostVars, HostLoad
  <2> QED
    BY <1>4, <2>1
<1>7. CASE Replace
  <2>1. /\ cat' = cat /\ hostTrouble' = hostTrouble /\ pc' = "answering" /\ pc = "replacing"
    BY <1>7 DEF Replace
  <2>2. HostLoad' = cat
    BY <1>7, ReplacedLoads
  <2>3. \A fp : CountOf(cat, fp)' = CountOf(cat, fp) /\ CountOf(HostLoad, fp)' = CountOf(cat, fp)
    BY <2>1, <2>2 DEF CountOf
  <2> QED
    BY <1>1, <2>1, <2>3 DEF CountsRight
<1>8. CASE SaveFails
  <2>1. HostLoad' = HostLoad /\ cat' = cat /\ hostTrouble' = hostTrouble + 1
    BY <1>8 DEF SaveFails, HostLoad
  <2>2. \A fp : CountOf(cat, fp)' = CountOf(cat, fp) /\ CountOf(HostLoad, fp)' = CountOf(HostLoad, fp)
    BY <2>1 DEF CountOf
  <2>3. hostTrouble' # 0
    BY <1>3, <2>1
  <2> QED
    BY <1>1, <2>2, <2>3 DEF CountsRight
<1>9. CASE KillCollector
  <2>1. HostLoad' = HostLoad /\ cat' = EmptyCatalog /\ hostTrouble' = hostTrouble + 1
    BY <1>9 DEF KillCollector, HostLoad
  <2>2. \A fp : CountOf(cat, fp)' = 0 /\ CountOf(HostLoad, fp)' = CountOf(HostLoad, fp)
    <3>1. \A fp : CountOf(cat, fp)' = CountOf(EmptyCatalog, fp) /\ CountOf(HostLoad, fp)' = CountOf(HostLoad, fp)
      BY <2>1 DEF CountOf
    <3> QED
      BY <3>1, NothingCounted
  <2>3. hostTrouble' # 0
    BY <1>3, <2>1
  <2> QED
    BY <1>1, <1>2, <2>2, <2>3 DEF CountsRight
<1> QED
  BY <1>5, <1>6, <1>7, <1>8, <1>9 DEF CollectorStep

LEMMA CountsHold == MeshHostInv /\ CountsRight /\ [MeshHostNext]_meshHostVars => CountsRight'
<1> SUFFICES ASSUME MeshHostInv, CountsRight, [MeshHostNext]_meshHostVars PROVE CountsRight'
  OBVIOUS
<1>1. CASE CollectorStep \/ SaveFails \/ KillCollector \/ UNCHANGED meshHostVars
  BY <1>1, SaveCounts
<1>2. ASSUME NEW f \in Feeds, Deliver(f) \/ Refuse(f) PROVE CountsRight'
  BY <1>2, DeliverCounts, RefuseCounts
<1> QED
  BY <1>1, <1>2 DEF MeshHostNext

LEMMA CountsShown == CountsRight => CountsMatchDeliveries
<1>1. Fingerprints({f \in Feeds : deliveries[f] > 0}) \subseteq Fingerprints(Feeds)
  BY DEF Fingerprints, IssuesIn
<1> QED
  BY <1>1 DEF CountsRight, CountsMatchDeliveries

\* For any feeds a fleet may send, in any order and again and again, whatever crash or
\* failing save interrupts an ingest: what was answered ok is in the file, its events,
\* issue counts and services, what a restart loads is what the queries showed, and no
\* issue is counted more often than its feeds came in, and exactly as often until a
\* save fails or the process dies.
THEOREM CatalogOutlives == MeshHostSpec => []CatalogSurvives
<1>1. MeshHostInv /\ CountsRight => CatalogSurvives
  BY AckedShown, CountsShown DEF MeshHostInv, CatalogSurvives
<1> QED
  BY CollectorStarts, CollectorHolds, CountsStart, CountsHold, <1>1, PTL DEF MeshHostSpec

\* Whatever traces come in, in whatever order with documents, heartbeats and issues and
\* whatever crash or failing save there was: a call seen in the span of a service that
\* declares both its events and its sends, and not that topic, is filed as drift of that
\* service if the caller's own event came in before, and no trace makes anybody a
\* provider or a consumer.
THEOREM UndeclaredFiled == MeshHostSpec => UndeclaredCallFiled
<1>1. MeshHostInv /\ [MeshHostNext]_meshHostVars => [FilesUndeclared]_meshHostVars
  <2> SUFFICES ASSUME MeshHostInv, MeshHostNext, pc = "idle", pc' = "saving", TracesIn({feed'}) # {}
               PROVE  FilesUndeclared
    BY DEF FilesUndeclared
  <2>1. PICK f \in Feeds : Deliver(f)
    BY DEF MeshHostNext, CollectorStep, StartCollector, WriteTemp, Replace, Answer, SaveFails, KillCollector, Refuse
  <2>2. feed' = f /\ cat' = Ingest(cat, FeedOf(f))
    BY <2>1 DEF Deliver
  <2>3. f \in TracesIn(Feeds) /\ FeedOf(f).topic = "benzene:mesh:traces"
    BY <2>2 DEF TracesIn
  <2>4. PICK c, d, items : c = cat /\ d = cat' /\ items = EventsOf(f)
    OBVIOUS
  <2>5. d = ingest_traces(c, items)
    BY <2>2, <2>3, <2>4 DEF Ingest, EventsOf
  <2>6. Sound(c) /\ items \in Seq(Traced)
    BY <2>3, <2>4, MeshHostAssumption DEF MeshHostInv
  <2>7. /\ \A j \in Len(c.events) + 1 .. Len(d.events) : \A s \in Undeclared(d, j) :
             CountOf(d, DriftOf(s, d.events[j])) > CountOf(c, DriftOf(s, d.events[j]))
        /\ \A t : ProvidersOf(d, t) = ProvidersOf(c, t) /\ ConsumersOf(d, t) = ConsumersOf(c, t)
    BY <2>5, <2>6, DriftFiled
  <2> QED
    BY <2>4, <2>7 DEF FilesUndeclared, DriftOf
<1> QED
  BY CollectorStarts, CollectorHolds, <1>1, PTL DEF MeshHostSpec, UndeclaredCallFiled

\* Every topic an event, a service or the history names is listed, the list is finite,
\* and heartbeats said yes or no.
Heard(h) == h = [x \in DOMAIN h |-> h[x]] /\ \A x \in DOMAIN h : h[x].healthy \in BOOLEAN
Described(r, topics) == IsService(r) /\ r.consumed \cup r.produced \subseteq topics /\ Heard(r.instances)
Listed(c) ==
    /\ IsFiniteSet(c.topics) /\ c.everConsumed \subseteq c.topics
    /\ \A i \in DOMAIN c.events : c.events[i].topic \in c.topics
    /\ \A s \in DOMAIN c.services : Described(c.services[s], c.topics)

\* A service that is heard of for the first time names nothing.
LEMMA NewDescribed == ASSUME NEW topics PROVE Described(NewService, topics)
<1>1. IsService(NewService)
  BY DEF NewService, IsService
<1>2. NewService.consumed = {} /\ NewService.produced = {} /\ NewService.instances = EmptyMap
  BY DEF NewService
<1>3. Heard(EmptyMap)
  BY DEF Heard, EmptyMap
<1> QED
  BY <1>1, <1>2, <1>3 DEF Described

\* A longer list lists no less.
LEMMA DescribedMore ==
    ASSUME NEW r, NEW topics, NEW more, Described(r, topics), topics \subseteq more
    PROVE  Described(r, more)
BY DEF Described

\* The service at hand is described, and the others stay as they were.
LEMMA KnownDescribed ==
    ASSUME NEW services, NEW topics, \A s \in DOMAIN services : Described(services[s], topics),
           NEW name, NEW known, known = WithService(services, name)
    PROVE  name \in DOMAIN known /\ \A s \in DOMAIN known : Described(known[s], topics)
<1>1. CASE name \in DOMAIN services
  BY <1>1 DEF WithService
<1>2. CASE name \notin DOMAIN services
  <2>1. known = [k \in DOMAIN services \cup {name} |-> IF k = name THEN NewService ELSE services[k]]
    BY <1>2, Zenon DEF WithService, With
  <2>2. DOMAIN known = DOMAIN services \cup {name}
    BY <2>1
  <2>3. ASSUME NEW s \in DOMAIN known PROVE Described(known[s], topics)
    <3>1. CASE s = name
      <4>1. known[s] = NewService
        BY <2>1, <2>2, <3>1
      <4> QED
        BY <4>1, NewDescribed
    <3>2. CASE s # name
      <4>1. s \in DOMAIN services /\ known[s] = services[s]
        BY <2>1, <2>2, <3>2
      <4> QED
        BY <4>1
    <3> QED
      BY <3>1, <3>2
  <2> QED
    BY <2>2, <2>3
<1> QED
  BY <1>1, <1>2

\* Each ingest lists what it names.
LEMMA RegisterLists ==
    ASSUME NEW c, Sound(c), Listed(c), NEW doc, NEW d, d = ingest_register(c, doc),
           \A m \in Members \cap doc.present : IsFiniteSet(doc.topics[m])
    PROVE  Listed(d)
<1>1. PICK known, consumed, produced : /\ known = WithService(c.services, doc.service)
                                       /\ consumed = spec_topic_ids(doc, {"requests"})
                                       /\ produced = spec_topic_ids(doc, {"events", "sends"})
  OBVIOUS
<1>2. PICK rec, old, hash :
        /\ old = known[doc.service]
        /\ rec = [registered |-> TRUE, hash |-> doc.hash, previousHash |-> hash,
                  consumed |-> consumed, produced |-> produced, known |-> known_members(doc),
                  specs |-> TopicSpecs(doc), previousSpecs |-> old.specs,
                  instances |-> old.instances, reported |-> old.reported]
        /\ d = [c EXCEPT !.services = [known EXCEPT ![doc.service] = rec],
                         !.topics = @ \cup consumed \cup produced, !.everConsumed = @ \cup consumed]
  BY <1>1, Zenon DEF ingest_register
<1>3. PICK sv, tp : sv = [known EXCEPT ![doc.service] = rec] /\ tp = c.topics \cup consumed \cup produced
  OBVIOUS
<1>4. d.services = sv /\ d.events = c.events /\ d.topics = tp /\ d.everConsumed = c.everConsumed \cup consumed
  BY <1>2, <1>3 DEF Sound, IsCatalog
<1>5. IsFiniteSet(consumed) /\ IsFiniteSet(produced)
  <2>1. ASSUME NEW Ms, Ms \subseteq Members PROVE IsFiniteSet(spec_topic_ids(doc, Ms))
    <3>1. PICK sets : sets = {doc.topics[m] : m \in Ms \cap doc.present}
      OBVIOUS
    <3>2. IsFiniteSet(Members)
      <4>1. IsFiniteSet({"requests"}) /\ IsFiniteSet({"events"}) /\ IsFiniteSet({"sends"})
        BY FS_Singleton
      <4>2. IsFiniteSet({"requests"} \cup {"events"} \cup {"sends"})
        BY <4>1, FS_Union
      <4> QED
        BY <4>2, Zenon DEF Members
    <3>3. IsFiniteSet(Ms \cap doc.present)
      BY <2>1, <3>2, FS_Subset
    <3>4. IsFiniteSet(sets)
      <4>1. PICK S, g : S = Ms \cap doc.present /\ g = [m \in S |-> doc.topics[m]]
        OBVIOUS
      <4>2. g \in Surjection(S, sets)
        BY <3>1, <4>1 DEF Surjection
      <4> QED
        BY <3>3, <4>1, <4>2, FS_Surjection
    <3>5. IsFiniteSet(UNION sets)
      BY <2>1, <3>1, <3>4, FS_UNION
    <3>6. spec_topic_ids(doc, Ms) \in SUBSET (UNION sets)
      BY <3>1 DEF spec_topic_ids
    <3> QED
      BY <3>5, <3>6, FS_Subset
  <2> QED
    BY <1>1, <2>1 DEF Members
<1>6. IsFiniteSet(tp)
  BY <1>3, <1>5, FS_Union DEF Listed
<1>7. doc.service \in DOMAIN known /\ \A s \in DOMAIN known : Described(known[s], c.topics)
  BY <1>1, KnownDescribed DEF Listed
<1>8. Described(rec, tp)
  <2>1. Described(old, c.topics)
    BY <1>2, <1>7
  <2>2. IsService(rec) /\ rec.consumed = consumed /\ rec.produced = produced /\ rec.instances = old.instances
    BY <1>2 DEF IsService
  <2> QED
    BY <1>3, <2>1, <2>2 DEF Described
<1>9. ASSUME NEW s \in DOMAIN sv PROVE Described(sv[s], tp)
  <2>1. CASE s = doc.service
    BY <1>3, <1>7, <1>8, <2>1
  <2>2. CASE s # doc.service
    <3>1. s \in DOMAIN known /\ sv[s] = known[s]
      BY <1>3, <2>2
    <3>2. Described(known[s], c.topics) /\ c.topics \subseteq tp
      BY <1>3, <1>7, <3>1
    <3> QED
      BY <3>1, <3>2, DescribedMore
  <2> QED
    BY <2>1, <2>2
<1> QED
  BY <1>3, <1>4, <1>6, <1>9 DEF Listed

LEMMA HeartbeatLists ==
    ASSUME NEW c, Sound(c), Listed(c), NEW beat, NEW d, d = ingest_heartbeat(c, beat), beat.healthy \in BOOLEAN
    PROVE  Listed(d)
<1>1. PICK known, said, heard :
         /\ known = WithService(c.services, beat.service)
         /\ said = [healthy |-> beat.healthy, hash |-> beat.hash]
         /\ heard = With(known[beat.service].instances, beat.instance, said)
  OBVIOUS
<1>2. PICK sv : sv = [known EXCEPT ![beat.service].instances = heard]
  OBVIOUS
<1>3. d = [c EXCEPT !.services = sv]
  BY <1>1, <1>2, Zenon DEF ingest_heartbeat
<1>4. d.services = sv /\ d.events = c.events /\ d.topics = c.topics /\ d.everConsumed = c.everConsumed
  BY <1>3 DEF Sound, IsCatalog
<1>5. beat.service \in DOMAIN known /\ \A s \in DOMAIN known : Described(known[s], c.topics)
  <2>1. known = WithService(c.services, beat.service)
    BY <1>1
  <2> QED
    BY <2>1, KnownDescribed DEF Listed
<1>6. PICK old, rec : old = known[beat.service] /\ rec = [old EXCEPT !.instances = heard]
  OBVIOUS
<1>7. Described(rec, c.topics)
  <2>1. Described(old, c.topics)
    BY <1>5, <1>6
  <2>2. IsService(rec) /\ rec.consumed = old.consumed /\ rec.produced = old.produced /\ rec.instances = heard
    BY <1>6, <2>1 DEF Described, IsService
  <2>3. Heard(heard)
    <3>1. PICK h : h = old.instances /\ Heard(h)
      BY <2>1 DEF Described
    <3>2. heard = [k \in DOMAIN h \cup {beat.instance} |-> IF k = beat.instance THEN said ELSE h[k]]
      BY <1>1, <1>6, <3>1, Zenon DEF With
    <3>3. said.healthy \in BOOLEAN
      BY <1>1
    <3>4. DOMAIN heard = DOMAIN h \cup {beat.instance}
      BY <3>2
    <3>5. heard = [k \in DOMAIN heard |-> heard[k]]
      BY <3>2
    <3>6. ASSUME NEW k \in DOMAIN heard PROVE heard[k].healthy \in BOOLEAN
      <4>1. heard[k] = said \/ (k \in DOMAIN h /\ heard[k] = h[k])
        BY <3>2, <3>4
      <4> QED
        BY <3>1, <3>3, <4>1 DEF Heard
    <3> QED
      BY <3>5, <3>6 DEF Heard
  <2> QED
    BY <2>1, <2>2, <2>3 DEF Described
<1>8. ASSUME NEW s \in DOMAIN sv PROVE Described(sv[s], c.topics)
  <2>1. sv = [known EXCEPT ![beat.service] = rec]
    BY <1>2, <1>6
  <2>2. s \in DOMAIN known /\ sv[s] = IF s = beat.service THEN rec ELSE known[s]
    BY <2>1
  <2> QED
    BY <1>5, <1>7, <2>2
<1> QED
  BY <1>4, <1>8 DEF Listed

LEMMA IssuesList ==
    ASSUME NEW c, Sound(c), Listed(c), NEW filing, NEW d, d = ingest_issues(c, filing)
    PROVE  Listed(d)
<1>1. PICK known, merged : /\ known = WithService(c.services, filing.service)
                           /\ merged = FoldLeft(MergeIssue, c.issues, Identified(filing.issues))
  OBVIOUS
<1>2. PICK sv : sv = [known EXCEPT ![filing.service].reported = TRUE]
  OBVIOUS
<1>3. d = [c EXCEPT !.services = sv, !.issues = merged]
  BY <1>1, <1>2, Zenon DEF ingest_issues
<1>4. d.services = sv /\ d.events = c.events /\ d.topics = c.topics /\ d.everConsumed = c.everConsumed
  BY <1>3 DEF Sound, IsCatalog
<1>5. filing.service \in DOMAIN known /\ \A s \in DOMAIN known : Described(known[s], c.topics)
  BY <1>1, KnownDescribed DEF Listed
<1>6. PICK old, rec : old = known[filing.service] /\ rec = [old EXCEPT !.reported = TRUE]
  OBVIOUS
<1>7. Described(rec, c.topics)
  <2>1. Described(old, c.topics)
    BY <1>5, <1>6
  <2>2. IsService(rec) /\ rec.consumed = old.consumed /\ rec.produced = old.produced /\ rec.instances = old.instances
    BY <1>6, <2>1 DEF Described, IsService
  <2> QED
    BY <2>1, <2>2 DEF Described
<1>8. ASSUME NEW s \in DOMAIN sv PROVE Described(sv[s], c.topics)
  <2>1. sv = [known EXCEPT ![filing.service] = rec]
    BY <1>2, <1>6
  <2>2. s \in DOMAIN known /\ sv[s] = IF s = filing.service THEN rec ELSE known[s]
    BY <2>1
  <2> QED
    BY <1>5, <1>7, <2>2
<1> QED
  BY <1>4, <1>8 DEF Listed

\* Filing drift lists nothing new.
SameListing(c, d) == d.topics = c.topics /\ d.everConsumed = c.everConsumed
LEMMA FlagLists ==
    ASSUME NEW c, IsCatalog(c), NEW s, NEW topic, NEW declared, NEW trace,
           NEW d, d = FlagDrift(c, s, topic, declared, trace)
    PROVE  SameListing(c, d) /\ IsCatalog(d)
<1>1. CASE d = c
  BY <1>1 DEF SameListing
<1>2. ASSUME NEW issues, d = [c EXCEPT !.issues = issues] PROVE SameListing(c, d) /\ IsCatalog(d)
  BY <1>2 DEF SameListing, IsCatalog
<1> QED
  BY <1>1, <1>2, Zenon DEF FlagDrift

\* A span lists its topic, and its service is known.
LEMMA TraceLists ==
    ASSUME NEW c, Sound(c), Listed(c), NEW e \in Traced, NEW d, d = TraceEvent(c, e)
    PROVE  Listed(d)
<1>1. d.events = Append(c.events, e) /\ d.services = WithService(c.services, e.service)
  BY TraceKeeps
<1>2. PICK seen, flagged : seen = Observed(c, e) /\ flagged = CalleeChecked(seen, e) /\ d = CallerChecked(flagged, e)
  BY DEF TraceEvent
<1>3. seen.topics = c.topics \cup {e.topic} /\ seen.everConsumed = c.everConsumed /\ IsCatalog(seen)
  <2>1. PICK ev, ow, tp, sv : /\ seen = [c EXCEPT !.events = ev, !.owner = ow, !.topics = tp, !.services = sv]
                              /\ tp = c.topics \cup {e.topic}
    BY <1>2 DEF Observed
  <2> QED
    BY <2>1 DEF Sound, IsCatalog
<1>4. SameListing(seen, flagged) /\ IsCatalog(flagged)
  <2>1. flagged = seen \/ \E s, declared : flagged = FlagDrift(seen, s, e.topic, declared, e.trace)
    BY <1>2, Zenon DEF CalleeChecked
  <2>2. SameListing(seen, seen)
    BY DEF SameListing
  <2> QED
    BY <1>3, <2>1, <2>2, FlagLists
<1>5. SameListing(flagged, d)
  <2>1. d = flagged \/ \E s, declared : d = FlagDrift(flagged, s, e.topic, declared, e.trace)
    BY <1>2, Zenon DEF CallerChecked
  <2>2. SameListing(flagged, flagged)
    BY DEF SameListing
  <2> QED
    BY <1>4, <2>1, <2>2, FlagLists
<1>6. d.topics = c.topics \cup {e.topic} /\ d.everConsumed = c.everConsumed
  BY <1>3, <1>4, <1>5 DEF SameListing
<1>7. IsFiniteSet(d.topics)
  BY <1>6, FS_AddElement DEF Listed
<1>8. \A i \in DOMAIN d.events : d.events[i].topic \in d.topics
  <2>1. PICK ev \in Seq(Traced) : ev = c.events
    BY DEF Sound
  <2>2. d.events = Append(ev, e) /\ \A i \in 1 .. Len(ev) : ev[i].topic \in c.topics
    BY <1>1, <2>1 DEF Listed
  <2> QED
    BY <1>6, <2>2
<1>9. \A s \in DOMAIN d.services : Described(d.services[s], d.topics)
  <2>1. \A s \in DOMAIN d.services : Described(d.services[s], c.topics)
    BY <1>1, KnownDescribed DEF Listed
  <2> QED
    BY <1>6, <2>1, DescribedMore
<1> QED
  BY <1>6, <1>7, <1>8, <1>9 DEF Listed

LEMMA TracesList ==
    ASSUME NEW c, Sound(c), Listed(c), NEW items \in Seq(Traced), NEW d, d = ingest_traces(c, items)
    PROVE  Listed(d)
<1>1. PICK n \in Nat : DOMAIN items = 1 .. n /\ \A i \in 1 .. n : items[i] \in Traced
  BY LenProperties, ElementOfSeq
<1>2. PICK a : /\ a[0] = c /\ d = a[n]
               /\ \A i \in 1 .. n : a[i] = TraceEvent(a[i - 1], items[i])
  <2>1. \E a : /\ a[0] = c /\ ingest_traces(c, items) = a[n]
               /\ \A i \in 1 .. n : a[i] = TraceEvent(a[i - 1], items[i])
    BY <1>1, TraceSteps
  <2> QED
    BY <2>1, Zenon
<1> DEFINE bad == {i \in 0 .. n : ~(Sound(a[i]) /\ Listed(a[i]))}
<1>3. bad = {}
  <2>1. SUFFICES ASSUME bad # {} PROVE FALSE
    OBVIOUS
  <2>2. PICK i \in bad : \A j \in bad : i <= j
    <3>1. bad \in SUBSET Nat
      OBVIOUS
    <3> HIDE DEF bad
    <3> QED
      BY <2>1, <3>1, LeastExists
  <2>3. i \in 0 .. n /\ ~(Sound(a[i]) /\ Listed(a[i]))
    OBVIOUS
  <2>4. i # 0
    BY <1>2, <2>3
  <2>5. i - 1 \in bad => i <= i - 1
    BY <2>2
  <2>6. i - 1 \in 0 .. n /\ i \in 1 .. n /\ i - 1 \notin bad
    <3> HIDE DEF bad
    <3> QED
      BY <2>3, <2>4, <2>5
  <2>7. Sound(a[i - 1]) /\ Listed(a[i - 1])
    BY <2>6
  <2>8. a[i] = TraceEvent(a[i - 1], items[i]) /\ items[i] \in Traced
    BY <1>1, <1>2, <2>6
  <2> HIDE DEF bad
  <2> QED
    BY <2>3, <2>7, <2>8, TraceKeeps, TraceLists
<1>4. n \in 0 .. n
  OBVIOUS
<1> QED
  BY <1>2, <1>3, <1>4

\* An ingest lists what its feed names.
LEMMA IngestLists ==
    ASSUME NEW c, Sound(c), Listed(c), NEW f \in Feeds, NEW d, d = Ingest(c, FeedOf(f))
    PROVE  Listed(d)
<1>1. PICK topic, body : topic = FeedOf(f).topic /\ body = FeedOf(f).body
  OBVIOUS
<1>2. topic \in {"benzene:mesh:register", "benzene:mesh:heartbeat", "benzene:mesh:traces", "benzene:mesh:issues"}
  BY <1>1, MeshHostAssumption
<1>3. CASE topic = "benzene:mesh:register"
  <2>1. d = ingest_register(c, body) /\ \A m \in Members \cap body.present : IsFiniteSet(body.topics[m])
    BY <1>1, <1>3, MeshHostAssumption DEF Ingest
  <2> QED
    BY <2>1, RegisterLists
<1>4. CASE topic = "benzene:mesh:heartbeat"
  <2>1. d = ingest_heartbeat(c, body) /\ body.healthy \in BOOLEAN
    BY <1>1, <1>4, MeshHostAssumption DEF Ingest
  <2> QED
    BY <2>1, HeartbeatLists
<1>5. CASE topic = "benzene:mesh:traces"
  <2>1. d = ingest_traces(c, body.events)
    BY <1>1, <1>5 DEF Ingest
  <2>2. body.events \in Seq(Traced)
    BY <1>1, <1>5, MeshHostAssumption DEF TracesIn, EventsOf
  <2> QED
    BY <2>1, <2>2, TracesList
<1>6. CASE topic = "benzene:mesh:issues"
  <2>1. d = ingest_issues(c, body)
    BY <1>1, <1>6 DEF Ingest
  <2> QED
    BY <2>1, IssuesList
<1> QED
  BY <1>2, <1>3, <1>4, <1>5, <1>6

\* What the file and the collector hold is listed.
AllListed == Listed(HostLoad) /\ Listed(cat)

LEMMA EmptyListed == Listed(EmptyCatalog)
<1>1. PICK c : c = EmptyCatalog
  OBVIOUS
<1>2. c.topics = {} /\ c.everConsumed = {} /\ c.events = <<>> /\ c.services = EmptyMap
  BY <1>1 DEF EmptyCatalog
<1> QED
  BY <1>1, <1>2, FS_EmptySet DEF Listed, EmptyMap

\* No step of the collector breaks it.
LEMMA ListedHolds == MeshHostInv /\ AllListed /\ [MeshHostNext]_meshHostVars => AllListed'
<1> SUFFICES ASSUME MeshHostInv, AllListed, [MeshHostNext]_meshHostVars PROVE AllListed'
  OBVIOUS
<1>1. ASSUME HostLoad' \in {HostLoad, cat}, cat' \in {HostLoad, cat, EmptyCatalog} PROVE AllListed'
  BY <1>1, EmptyListed DEF AllListed
<1>2. CASE StartCollector \/ WriteTemp \/ Answer \/ SaveFails \/ KillCollector \/ UNCHANGED meshHostVars
  <2>1. HostLoad' = HostLoad
    BY <1>2 DEF StartCollector, WriteTemp, Answer, SaveFails, KillCollector, meshHostVars, HostLoad
  <2>2. cat' \in {HostLoad, cat, EmptyCatalog}
    BY <1>2 DEF StartCollector, WriteTemp, Answer, SaveFails, KillCollector, meshHostVars
  <2> QED
    BY <1>1, <2>1, <2>2
<1>3. CASE Replace
  BY <1>1, <1>3, ReplacedLoads DEF Replace
<1>4. ASSUME NEW f \in Feeds, Refuse(f) PROVE AllListed'
  BY <1>1, <1>4 DEF Refuse, HostLoad
<1>5. ASSUME NEW f \in Feeds, Deliver(f) PROVE AllListed'
  <2>1. HostLoad' = HostLoad /\ cat' = Ingest(cat, FeedOf(f))
    BY <1>5 DEF Deliver, HostLoad
  <2>2. PICK c, d : c = cat /\ d = cat'
    OBVIOUS
  <2>3. Listed(d)
    BY <2>1, <2>2, IngestLists DEF AllListed, MeshHostInv
  <2> QED
    BY <2>1, <2>2, <2>3 DEF AllListed
<1> QED
  BY <1>2, <1>3, <1>4, <1>5 DEF MeshHostNext, CollectorStep

\* A set is counted by any of its fibres.
Fibre(g, D, t) == {i \in D : g[i] = t}
LEMMA FibresSum ==
    ASSUME NEW T, IsFiniteSet(T), NEW D, IsFiniteSet(D), NEW g, \A i \in D : g[i] \in T,
           NEW f, \A t \in T : f[t] = Cardinality(Fibre(g, D, t))
    PROVE  SumFunctionOnSet(f, T) = Cardinality(D)
<1> DEFINE Above(S) == {i \in D : g[i] \in S}
           Fits(S) == SumFunctionOnSet(f, S) = Cardinality(Above(S))
           bad == {Cardinality(S) : S \in {U \in SUBSET T : ~Fits(U)}}
<1>1. \A S \in SUBSET T : IsFiniteSet(S) /\ Cardinality(S) \in Nat
  BY FS_Subset, FS_CardinalityType
<1>2. \A S : IsFiniteSet(Above(S)) /\ Cardinality(Above(S)) \in Nat
  <2> SUFFICES ASSUME NEW S PROVE IsFiniteSet(Above(S)) /\ Cardinality(Above(S)) \in Nat
    OBVIOUS
  <2>1. Above(S) \in SUBSET D
    OBVIOUS
  <2> HIDE DEF Above
  <2> QED
    BY <2>1, FS_Subset, FS_CardinalityType
<1>3. \A t \in T : f[t] \in Nat /\ f[t] = Cardinality(Above({t}))
  <2> SUFFICES ASSUME NEW t \in T PROVE f[t] \in Nat /\ f[t] = Cardinality(Above({t}))
    OBVIOUS
  <2>1. Above({t}) = {i \in D : g[i] = t}
    OBVIOUS
  <2>2. f[t] = Cardinality({i \in D : g[i] = t})
    BY DEF Fibre
  <2> HIDE DEF Above
  <2> QED
    BY <2>1, <2>2, <1>2
<1>4. bad = {}
  <2>1. SUFFICES ASSUME bad # {} PROVE FALSE
    OBVIOUS
  <2>2. PICK n \in bad : \A m \in bad : n <= m
    <3>1. bad \in SUBSET Nat
      BY <1>1
    <3> HIDE DEF bad
    <3> QED
      BY <2>1, <3>1, LeastExists
  <2>3. PICK S \in SUBSET T : ~Fits(S) /\ n = Cardinality(S)
    BY <2>2
  <2>4. /\ IsFiniteSet(S) /\ n \in Nat
        /\ SumFunctionOnSet(f, S) \in Nat
        /\ S = {} => SumFunctionOnSet(f, S) = 0
        /\ \A x \in S : SumFunctionOnSet(f, S) = f[x] + SumFunctionOnSet(f, S \ {x})
    <3>1. IsFiniteSet(S) /\ n \in Nat /\ \A x \in S : f[x] \in Nat
      BY <1>1, <1>3, <2>3
    <3> QED
      BY <3>1, SumSplits
  <2>5. S # {}
    <3>1. SUFFICES ASSUME S = {} PROVE Fits(S)
      BY <2>3
    <3>2. Above(S) = {}
      BY <3>1
    <3> HIDE DEF Above
    <3> QED
      BY <2>4, <3>1, <3>2, FS_EmptySet
  <2>6. PICK x \in S : TRUE
    BY <2>5
  <2>7. PICK R : R = S \ {x}
    OBVIOUS
  <2>8. R \in SUBSET T /\ Cardinality(R) = n - 1 /\ IsFiniteSet(R)
    BY <2>3, <2>4, <2>6, <2>7, <1>1, FS_RemoveElement
  <2>9. Fits(R)
    <3>1. ~Fits(R) => n - 1 \in bad
      BY <2>8
    <3>2. n - 1 \in bad => n <= n - 1
      BY <2>2
    <3> HIDE DEF bad
    <3> QED
      BY <3>1, <3>2, <2>4
  <2>10. Above(S) = Above({x}) \cup Above(R) /\ Above({x}) \cap Above(R) = {}
    BY <2>6, <2>7
  <2>11. Cardinality(Above(S)) = Cardinality(Above({x})) + Cardinality(Above(R))
    <3> HIDE DEF Above
    <3>1. Cardinality(Above({x}) \cap Above(R)) = 0
      BY <2>10, FS_EmptySet
    <3>2. Cardinality(Above({x}) \cup Above(R))
            = Cardinality(Above({x})) + Cardinality(Above(R)) - Cardinality(Above({x}) \cap Above(R))
      BY <1>2, FS_Union
    <3> QED
      BY <1>2, <2>10, <3>1, <3>2
  <2>12. SumFunctionOnSet(f, S) = f[x] + SumFunctionOnSet(f, R)
    BY <2>4, <2>6, <2>7
  <2>13. f[x] = Cardinality(Above({x}))
    BY <1>3, <2>3, <2>6
  <2> HIDE DEF Above
  <2> QED
    BY <2>3, <2>9, <2>11, <2>12, <2>13
<1>5. Fits(T)
  <2> HIDE DEF Fits
  <2> QED
    BY <1>4
<1>6. Above(T) = D
  OBVIOUS
<1> HIDE DEF Above
<1> QED
  BY <1>5, <1>6

\* A sum of numbers that are not larger is not larger.
LEMMA SumLess ==
    ASSUME NEW T, IsFiniteSet(T), NEW f, NEW k, \A t \in T : f[t] \in Nat /\ k[t] \in Nat /\ f[t] <= k[t]
    PROVE  SumFunctionOnSet(f, T) <= SumFunctionOnSet(k, T)
<1> DEFINE Fits(S) == SumFunctionOnSet(f, S) <= SumFunctionOnSet(k, S)
           bad == {Cardinality(S) : S \in {U \in SUBSET T : ~Fits(U)}}
<1>1. \A S \in SUBSET T : IsFiniteSet(S) /\ Cardinality(S) \in Nat
  BY FS_Subset, FS_CardinalityType
<1>4. bad = {}
  <2>1. SUFFICES ASSUME bad # {} PROVE FALSE
    OBVIOUS
  <2>2. PICK n \in bad : \A m \in bad : n <= m
    <3>1. bad \in SUBSET Nat
      BY <1>1
    <3> HIDE DEF bad
    <3> QED
      BY <2>1, <3>1, LeastExists
  <2>3. PICK S \in SUBSET T : ~Fits(S) /\ n = Cardinality(S)
    BY <2>2
  <2>4. IsFiniteSet(S) /\ n \in Nat /\ \A x \in S : f[x] \in Nat /\ k[x] \in Nat /\ f[x] <= k[x]
    BY <1>1, <2>3
  <2>5. /\ S = {} => SumFunctionOnSet(f, S) = 0
        /\ \A x \in S : SumFunctionOnSet(f, S) = f[x] + SumFunctionOnSet(f, S \ {x})
    BY <2>4, SumSplits
  <2>6. /\ S = {} => SumFunctionOnSet(k, S) = 0
        /\ \A x \in S : SumFunctionOnSet(k, S) = k[x] + SumFunctionOnSet(k, S \ {x})
    BY <2>4, SumSplits
  <2>7. PICK x \in S : TRUE
    BY <2>3, <2>5, <2>6
  <2>8. PICK R : R = S \ {x}
    OBVIOUS
  <2>9. R \in SUBSET T /\ Cardinality(R) = n - 1 /\ IsFiniteSet(R)
    BY <2>3, <2>4, <2>7, <2>8, <1>1, FS_RemoveElement
  <2>10. Fits(R)
    <3>1. ~Fits(R) => n - 1 \in bad
      BY <2>9
    <3>2. n - 1 \in bad => n <= n - 1
      BY <2>2
    <3> HIDE DEF bad
    <3> QED
      BY <3>1, <3>2, <2>4
  <2>11. SumFunctionOnSet(f, R) \in Nat
    BY <2>9, SumSplits
  <2>12. SumFunctionOnSet(k, R) \in Nat
    BY <2>9, SumSplits
  <2> QED
    BY <2>3, <2>4, <2>5, <2>6, <2>7, <2>8, <2>10, <2>11, <2>12
<1> QED
  <2> HIDE DEF Fits
  <2>1. Fits(T)
    BY <1>4
  <2> QED
    BY <2>1 DEF Fits

\* What a finite set is mapped to is finite.
LEMMA ImageFinite == ASSUME NEW S, IsFiniteSet(S), NEW g PROVE IsFiniteSet({g[x] : x \in S})
<1>1. PICK h, T : h = [x \in S |-> g[x]] /\ T = {g[x] : x \in S}
  OBVIOUS
<1>2. h \in Surjection(S, T)
  BY <1>1 DEF Surjection
<1> QED
  BY <1>1, <1>2, FS_Surjection

\* The events are finitely many, and every selection of them is counted.
LEMMA EventsCounted ==
    ASSUME NEW c, Sound(c)
    PROVE  /\ IsFiniteSet(DOMAIN c.events) /\ Cardinality(DOMAIN c.events) = Len(c.events)
           /\ DOMAIN c.events = 1 .. Len(c.events) /\ Len(c.events) \in Nat
           /\ \A i \in DOMAIN c.events : c.events[i] \in Traced
<1>1. PICK ev \in Seq(Traced) : ev = c.events
  BY DEF Sound
<1>2. Len(ev) \in Nat /\ DOMAIN ev = 1 .. Len(ev) /\ \A i \in DOMAIN ev : ev[i] \in Traced
  BY <1>1, LenProperties, ElementOfSeq
<1>3. IsFiniteSet(1 .. Len(ev)) /\ Cardinality(1 .. Len(ev)) = Len(ev)
  <2>1. PICK m : m = Len(ev)
    OBVIOUS
  <2>2. m \in Nat
    BY <1>2, <2>1
  <2>3. IsFiniteSet(1 .. m) /\ Cardinality(1 .. m) = m
    BY <2>2, FS_Interval
  <2> QED
    BY <2>1, <2>3
<1> QED
  BY <1>1, <1>2, <1>3

\* The keys of the usage document and the topics each count every event once.
LEMMA UsageSums == ASSUME NEW c, Sound(c) PROVE SumFunction(Usage(c)) = Len(c.events)
<1>0. PICK ev, D : ev = c.events /\ D = DOMAIN ev
  OBVIOUS
<1>1. ev = c.events /\ D = DOMAIN ev /\ IsFiniteSet(D) /\ Cardinality(D) = Len(ev)
  BY <1>0, EventsCounted
<1>2. PICK g : g = [i \in D |-> <<ev[i].topic, ev[i].service, ev[i].status>>]
  OBVIOUS
<1>3. PICK T : T = {g[i] : i \in D}
  OBVIOUS
<1>4. IsFiniteSet(T)
  BY <1>1, <1>3, ImageFinite
<1>5. PICK u : u = Usage(c)
  OBVIOUS
<1>6. u = [k \in T |-> Cardinality({i \in D : g[i] = k})]
  <2>1. u = [k \in {<<ev[i].topic, ev[i].service, ev[i].status>> : i \in D} |->
                Cardinality({i \in D : <<ev[i].topic, ev[i].service, ev[i].status>> = k})]
    BY <1>1, <1>5, Zenon DEF Usage, Where
  <2>2. T = {<<ev[i].topic, ev[i].service, ev[i].status>> : i \in D}
    BY <1>2, <1>3
  <2>3. \A k : {i \in D : <<ev[i].topic, ev[i].service, ev[i].status>> = k} = {i \in D : g[i] = k}
    BY <1>2
  <2> QED
    BY <2>1, <2>2, <2>3, Zenon
<1>7. SumFunctionOnSet(u, T) = Cardinality(D)
  <2>1. \A t \in T : u[t] = Cardinality(Fibre(g, D, t))
    BY <1>6 DEF Fibre
  <2>2. \A i \in D : g[i] \in T
    BY <1>3
  <2> QED
    BY <1>1, <1>4, <2>1, <2>2, FibresSum
<1>8. DOMAIN u = T
  BY <1>6
<1> QED
  BY <1>1, <1>5, <1>7, <1>8 DEF SumFunction

LEMMA TopicSums ==
    ASSUME NEW c, Sound(c), Listed(c)
    PROVE  SumFunction([t \in c.topics |-> InvocationsOn(c, t)]) = Len(c.events)
<1>0. PICK ev, D : ev = c.events /\ D = DOMAIN ev
  OBVIOUS
<1>1. ev = c.events /\ D = DOMAIN ev /\ IsFiniteSet(D) /\ Cardinality(D) = Len(ev)
  BY <1>0, EventsCounted
<1>2. PICK g, T : g = [i \in D |-> ev[i].topic] /\ T = c.topics
  OBVIOUS
<1>3. PICK u : u = [t \in T |-> InvocationsOn(c, t)]
  OBVIOUS
<1>4. ASSUME NEW t \in T PROVE u[t] = Cardinality(Fibre(g, D, t))
  <2>1. u[t] = Cardinality({i \in D : ev[i].topic = t})
    BY <1>1, <1>3 DEF InvocationsOn, Where
  <2>2. {i \in D : ev[i].topic = t} = Fibre(g, D, t)
    BY <1>2 DEF Fibre
  <2> QED
    BY <2>1, <2>2
<1>5. IsFiniteSet(T) /\ \A i \in D : g[i] \in T
  BY <1>1, <1>2 DEF Listed
<1>6. SumFunctionOnSet(u, T) = Cardinality(D)
  BY <1>1, <1>4, <1>5, FibresSum
<1>7. DOMAIN u = T
  BY <1>3
<1> QED
  BY <1>1, <1>2, <1>3, <1>6, <1>7 DEF SumFunction

\* What an edge of the topology says.
EdgeTrue(c, p, edge) ==
    /\ {p[1], p[2]} \subseteq DOMAIN Manifest(c)
    /\ edge.errors <= edge.invocations
    /\ \E t \in DOMAIN TopicsArtifact(c) : p[1] \in TopicsArtifact(c)[t].producers

\* On a topic no more calls fail than there are.
LEMMA FewerErrors ==
    ASSUME NEW c, Sound(c), NEW t
    PROVE  /\ query_topic(c, t).errors \in Nat /\ InvocationsOn(c, t) \in Nat
           /\ query_topic(c, t).errors <= InvocationsOn(c, t)
<1>1. PICK ev, D : ev = c.events /\ D = DOMAIN ev
  OBVIOUS
<1>2. PICK on, bad : on = {i \in D : ev[i].topic = t} /\ bad = {i \in on : Failing(ev[i])}
  OBVIOUS
<1>3. InvocationsOn(c, t) = Cardinality(on)
  BY <1>1, <1>2, Zenon DEF InvocationsOn, Where
<1>4. query_topic(c, t).errors = Cardinality(bad)
  BY <1>1, <1>2 DEF query_topic, Where
<1>5. IsFiniteSet(D) /\ on \in SUBSET D /\ bad \in SUBSET on
  BY <1>1, <1>2, EventsCounted
<1>6. IsFiniteSet(on) /\ IsFiniteSet(bad) /\ Cardinality(bad) <= Cardinality(on)
  BY <1>5, FS_Subset
<1> QED
  BY <1>3, <1>4, <1>6, FS_CardinalityType

LEMMA EdgesTrue ==
    ASSUME NEW c, Sound(c), Listed(c), NEW p \in DOMAIN Topology(c)
    PROVE  EdgeTrue(c, p, Topology(c)[p])
<1>1. PICK edges, shared : edges = Topology(c) /\ shared = Shared(c, p[1], p[2])
  OBVIOUS
<1>2. PICK errors, calls : /\ errors = [t \in shared |-> query_topic(c, t).errors]
                           /\ calls = [t \in shared |-> InvocationsOn(c, t)]
  OBVIOUS
<1>3. /\ p \in (DOMAIN c.services) \X (DOMAIN c.services) /\ shared # {}
      /\ edges[p] = [errors |-> SumFunction(errors), invocations |-> SumFunction(calls)]
  <2>1. PICK P : P = {q \in (DOMAIN c.services) \X (DOMAIN c.services) : q[1] # q[2] /\ Shared(c, q[1], q[2]) # {}}
    OBVIOUS
  <2>2. edges = [q \in P |-> [errors |-> SumFunction([t \in Shared(c, q[1], q[2]) |-> query_topic(c, t).errors]),
                              invocations |-> SumFunction([t \in Shared(c, q[1], q[2]) |-> InvocationsOn(c, t)])]]
    BY <1>1, <2>1, Zenon DEF Topology
  <2>3. p \in P
    BY <1>1, <2>2
  <2>4. edges[p] = [errors |-> SumFunction([t \in Shared(c, p[1], p[2]) |-> query_topic(c, t).errors]),
                    invocations |-> SumFunction([t \in Shared(c, p[1], p[2]) |-> InvocationsOn(c, t)])]
    BY <2>2, <2>3, Zenon
  <2>5. edges[p] = [errors |-> SumFunction(errors), invocations |-> SumFunction(calls)]
    BY <1>1, <1>2, <2>4, Zenon
  <2> QED
    BY <1>1, <2>1, <2>3, <2>5
<1>4. PICK t \in c.topics : p[1] \in ProvidersOf(c, t) /\ p[2] \in ConsumersOf(c, t)
  BY <1>1, <1>3 DEF Shared
<1>5. t \in DOMAIN TopicsArtifact(c) /\ TopicsArtifact(c)[t].producers = ProvidersOf(c, t)
  <2>1. t \notin Removed(c)
    BY <1>4 DEF Removed, ConsumersOf
  <2> QED
    BY <1>4, <2>1 DEF TopicsArtifact
<1>6. DOMAIN Manifest(c) = DOMAIN c.services
  BY DEF Manifest
<1>7. {p[1], p[2]} \subseteq DOMAIN c.services
  BY <1>3
<1>8. SumFunction(errors) <= SumFunction(calls)
  <2>1. IsFiniteSet(shared)
    <3>1. shared \in SUBSET c.topics
      BY <1>1 DEF Shared
    <3> QED
      BY <3>1, FS_Subset DEF Listed
  <2>2. \A x \in shared : errors[x] \in Nat /\ calls[x] \in Nat /\ errors[x] <= calls[x]
    BY <1>2, FewerErrors
  <2>3. SumFunctionOnSet(errors, shared) <= SumFunctionOnSet(calls, shared)
    BY <2>1, <2>2, SumLess
  <2>4. DOMAIN errors = shared /\ DOMAIN calls = shared
    BY <1>2
  <2> QED
    BY <2>3, <2>4 DEF SumFunction
<1>9. edges[p].errors <= edges[p].invocations
  BY <1>3, <1>8
<1> QED
  BY <1>1, <1>4, <1>5, <1>6, <1>7, <1>9 DEF EdgeTrue

\* The export and the topic list read the same services: a key has the roles of the
\* topics it stands for.
Exported(c, topics, api) ==
    /\ \A t \in DOMAIN topics \ Reserved :
         /\ topics[t].consumers # {} => "receive" \in api[ChannelKey(t)]
         /\ topics[t].producers # {} => "send" \in api[ChannelKey(t)]
    /\ \A key \in DOMAIN api :
         /\ "receive" \in api[key] =>
              \E t \in DOMAIN topics \ Reserved : ChannelKey(t) = key /\ topics[t].consumers # {}
         /\ "send" \in api[key] =>
              \E t \in c.topics \ Reserved : ChannelKey(t) = key /\ ProvidersOf(c, t) # {}

LEMMA RolesExported == ASSUME NEW c PROVE Exported(c, TopicsArtifact(c), AsyncApi(c))
<1>1. \A t \in DOMAIN TopicsArtifact(c) :
         /\ t \in c.topics
         /\ TopicsArtifact(c)[t].consumers = ConsumersOf(c, t) /\ TopicsArtifact(c)[t].producers = ProvidersOf(c, t)
  BY DEF TopicsArtifact
<1>2. DOMAIN AsyncApi(c) = {ChannelKey(t) : t \in c.topics \ Reserved}
  BY DEF AsyncApi
<1>3. ASSUME NEW key \in DOMAIN AsyncApi(c)
      PROVE  /\ "receive" \in AsyncApi(c)[key] <=>
                   \E t \in c.topics \ Reserved : ChannelKey(t) = key /\ ConsumersOf(c, t) # {}
             /\ "send" \in AsyncApi(c)[key] <=>
                   \E t \in c.topics \ Reserved : ChannelKey(t) = key /\ ProvidersOf(c, t) # {}
  <2> DEFINE On == {t \in c.topics \ Reserved : ChannelKey(t) = key}
  <2>1. AsyncApi(c)[key] = {"receive" : t \in {u \in On : ConsumersOf(c, u) # {}}} \cup
                           {"send" : t \in {u \in On : ProvidersOf(c, u) # {}}}
    BY <1>2, <1>3 DEF AsyncApi
  <2> QED
    BY <2>1
<1>4. \A t \in c.topics \ Reserved : ConsumersOf(c, t) # {} => t \in DOMAIN TopicsArtifact(c)
  BY DEF TopicsArtifact, Removed, ConsumersOf
<1> QED
  BY <1>1, <1>2, <1>3, <1>4 DEF Exported

\* A service without a heartbeat is unreachable, and one with any is not.
LEMMA UnreachableIsMissed ==
    ASSUME NEW c, Listed(c), NEW s \in DOMAIN Manifest(c)
    PROVE  Manifest(c)[s].status = "unreachable" <=> "health" \in MissingFeeds(c, s)
<1>1. PICK record, h, healths : /\ record = c.services[s] /\ h = record.instances
                                /\ healths = {h[i].healthy : i \in DOMAIN h}
  OBVIOUS
<1>2. s \in DOMAIN c.services
  BY DEF Manifest
<1>3. Heard(h)
  BY <1>1, <1>2 DEF Listed, Described
<1>4. "health" \in MissingFeeds(c, s) <=> h = EmptyMap
  BY <1>1 DEF MissingFeeds
<1>5. h = EmptyMap <=> healths = {}
  <2>1. h = [x \in DOMAIN h |-> h[x]]
    BY <1>3 DEF Heard
  <2>2. healths = {} <=> DOMAIN h = {}
    BY <1>1
  <2> QED
    BY <2>1, <2>2 DEF EmptyMap
<1>6. healths \subseteq {TRUE, FALSE}
  BY <1>1, <1>3 DEF Heard
<1>7. healths = {} \/ healths = {TRUE} \/ healths = {FALSE} \/ healths = {TRUE, FALSE}
  BY <1>6
<1>8. Health(record) = CASE healths = {} -> "unknown"
                         [] healths = {TRUE} -> "healthy"
                         [] healths = {FALSE} -> "unhealthy"
                         [] healths = {TRUE, FALSE} -> "degraded"
  <2>1. {record.instances[i].healthy : i \in DOMAIN record.instances} = healths
    BY <1>1, Zenon
  <2> QED
    BY <2>1 DEF Health
<1>9. /\ Health(record) \in {"unknown", "healthy", "unhealthy", "degraded"}
      /\ Health(record) = "unknown" <=> healths = {}
  BY <1>7, <1>8
<1>10. Manifest(c)[s].status = CASE Health(record) = "healthy" -> "healthy"
                                [] Health(record) \in {"unhealthy", "degraded"} -> "unhealthy"
                                [] Health(record) = "unknown" -> "unreachable"
  BY <1>1, <1>2 DEF Manifest
<1>11. Manifest(c)[s].status = "unreachable" <=> Health(record) = "unknown"
  BY <1>9, <1>10
<1> QED
  BY <1>4, <1>5, <1>9, <1>11

\* What one catalog is published as.
LEMMA DocumentsTrue ==
    ASSUME NEW c, Sound(c), Listed(c)
    PROVE  /\ SumFunction(Usage(c)) = Len(c.events)
           /\ SumFunction([t \in c.topics |-> InvocationsOn(c, t)]) = Len(c.events)
           /\ \A t \in c.topics : t \in DOMAIN TopicsArtifact(c) <=> t \notin Removed(c)
           /\ \A t \in Removed(c) : ConsumersOf(c, t) = {} /\ t \in c.topics
           /\ \A p \in DOMAIN Topology(c) : EdgeTrue(c, p, Topology(c)[p])
           /\ Exported(c, TopicsArtifact(c), AsyncApi(c))
           /\ \A s \in DOMAIN Manifest(c) :
                Manifest(c)[s].status = "unreachable" <=> "health" \in MissingFeeds(c, s)
<1>1. \A t \in c.topics : t \in DOMAIN TopicsArtifact(c) <=> t \notin Removed(c)
  BY DEF TopicsArtifact
<1>2. \A t \in Removed(c) : ConsumersOf(c, t) = {} /\ t \in c.topics
  BY DEF Removed, ConsumersOf, Listed
<1>3. \A p \in DOMAIN Topology(c) : EdgeTrue(c, p, Topology(c)[p])
  BY EdgesTrue
<1>4. \A s \in DOMAIN Manifest(c) :
         Manifest(c)[s].status = "unreachable" <=> "health" \in MissingFeeds(c, s)
  BY UnreachableIsMissed
<1> QED
  BY UsageSums, TopicSums, RolesExported, <1>1, <1>2, <1>3, <1>4

\* So whatever the collector holds is published without contradiction.
LEMMA DocumentsShown == MeshHostInv /\ AllListed => ArtifactsAgree
<1> SUFFICES ASSUME MeshHostInv, AllListed PROVE ArtifactsAgree
  OBVIOUS
<1>1. Sound(cat) /\ Listed(cat)
  BY DEF MeshHostInv, AllListed
<1>2. /\ SumFunction(Usage(cat)) = Len(cat.events)
      /\ SumFunction([t \in cat.topics |-> InvocationsOn(cat, t)]) = Len(cat.events)
      /\ \A t \in cat.topics : t \in DOMAIN TopicsArtifact(cat) <=> t \notin Removed(cat)
      /\ \A t \in Removed(cat) : ConsumersOf(cat, t) = {} /\ t \in cat.topics
      /\ \A p \in DOMAIN Topology(cat) : EdgeTrue(cat, p, Topology(cat)[p])
      /\ Exported(cat, TopicsArtifact(cat), AsyncApi(cat))
      /\ \A s \in DOMAIN Manifest(cat) :
           Manifest(cat)[s].status = "unreachable" <=> "health" \in MissingFeeds(cat, s)
  BY <1>1, DocumentsTrue, Zenon
<1> QED
  BY <1>2, Zenon DEF ArtifactsAgree, EdgeTrue, Exported

\* A finite set of numbers that is not empty has a greatest and a least one.
LEMMA GreatestExists ==
    ASSUME NEW S \in SUBSET Nat, IsFiniteSet(S), S # {}
    PROVE  Max(S) \in S /\ \A y \in S : y <= Max(S)
<1> DEFINE Tops(R) == R # {} => \E x \in R : \A y \in R : x >= y
           bad == {Cardinality(R) : R \in {U \in SUBSET S : ~Tops(U)}}
<1>1. \A R \in SUBSET S : IsFiniteSet(R) /\ Cardinality(R) \in Nat
  BY FS_Subset, FS_CardinalityType
<1>2. bad = {}
  <2>1. SUFFICES ASSUME bad # {} PROVE FALSE
    OBVIOUS
  <2>2. PICK n \in bad : \A m \in bad : n <= m
    <3>1. bad \in SUBSET Nat
      BY <1>1
    <3> HIDE DEF bad
    <3> QED
      BY <2>1, <3>1, LeastExists
  <2>3. PICK R \in SUBSET S : ~Tops(R) /\ n = Cardinality(R)
    BY <2>2
  <2>4. PICK x \in R : TRUE
    BY <2>3
  <2>5. PICK Q : Q = R \ {x}
    OBVIOUS
  <2>6. Q \in SUBSET S /\ Cardinality(Q) = n - 1 /\ n \in Nat
    BY <2>3, <2>4, <2>5, <1>1, FS_RemoveElement
  <2>7. Tops(Q)
    <3>1. ~Tops(Q) => n - 1 \in bad
      BY <2>6
    <3>2. n - 1 \in bad => n <= n - 1
      BY <2>2
    <3> HIDE DEF bad
    <3> QED
      BY <3>1, <3>2, <2>6
  <2>8. x \in Nat /\ Q \subseteq Nat
    BY <2>4, <2>6
  <2>9. CASE Q = {}
    BY <2>3, <2>4, <2>5, <2>8, <2>9
  <2>10. CASE Q # {}
    <3>1. PICK y \in Q : \A z \in Q : y >= z
      BY <2>7, <2>10
    <3>2. y \in R /\ y \in Nat
      BY <2>5, <2>8, <3>1
    <3>3. \A z \in R : z = x \/ z \in Q
      BY <2>5
    <3>4. CASE x >= y
      <4>1. \A z \in R : x >= z
        BY <2>8, <3>1, <3>2, <3>3, <3>4
      <4> QED
        BY <2>3, <2>4, <4>1
    <3>5. CASE y >= x
      <4>1. \A z \in R : y >= z
        BY <2>8, <3>1, <3>2, <3>3, <3>5
      <4> QED
        BY <2>3, <3>2, <4>1
    <3> QED
      BY <2>8, <3>2, <3>4, <3>5
  <2> QED
    BY <2>9, <2>10
<1>3. Tops(S)
  <2> HIDE DEF Tops
  <2> QED
    BY <1>2
<1>4. Max(S) \in S /\ \A y \in S : Max(S) >= y
  BY <1>3, Zenon DEF Max
<1> QED
  BY <1>4

LEMMA LeastIs ==
    ASSUME NEW S \in SUBSET Nat, S # {}
    PROVE  Min(S) \in S /\ \A y \in S : Min(S) <= y
<1>1. \E x \in S : \A y \in S : x <= y
  BY LeastExists
<1> QED
  BY <1>1, Zenon DEF Min

\* Of some of the events one comes first, and none of them starts before it.
Timed(events) == \A i \in DOMAIN events : events[i].at \in Nat /\ events[i].ms \in Nat
StartsFirst(events, on, e) ==
    \E i \in on : e = events[i] /\ \A j \in on : events[j].at # 0 => e.at # 0 /\ e.at <= events[j].at

LEMMA FirstIs ==
    ASSUME NEW n \in Nat, NEW events, DOMAIN events = 1 .. n, Timed(events),
           NEW on \in SUBSET (1 .. n), on # {}
    PROVE  StartsFirst(events, on, First(events, on))
<1> DEFINE IsFirst(i) == \A j \in on \ {i} : StartsBefore(events, i, j)
<1>1. \A i \in on : i \in Nat /\ events[i].at \in Nat
  BY DEF Timed
<1>2. \E i \in on : IsFirst(i)
  <2>1. PICK timed : timed = {i \in on : events[i].at # 0}
    OBVIOUS
  <2>2. CASE timed = {}
    <3>1. PICK m \in on : \A j \in on : m <= j
      <4>1. on \in SUBSET Nat
        BY <1>1
      <4> QED
        BY <4>1, LeastExists
    <3>2. \A j \in on \ {m} : events[m].at = events[j].at /\ m < j
      BY <1>1, <2>1, <2>2, <3>1
    <3>3. IsFirst(m)
      BY <3>2 DEF StartsBefore
    <3> QED
      BY <3>1, <3>3
  <2>3. CASE timed # {}
    <3>1. PICK x : /\ \E i \in timed : x = events[i].at
                   /\ \A i \in timed : x <= events[i].at
      <4>1. PICK times : times = {events[i].at : i \in timed}
        OBVIOUS
      <4>2. times \in SUBSET Nat /\ times # {}
        BY <1>1, <2>1, <2>3, <4>1
      <4>3. PICK x \in times : \A y \in times : x <= y
        BY <4>2, LeastExists
      <4> QED
        BY <4>1, <4>3
    <3>2. PICK ties : ties = {i \in timed : events[i].at = x}
      OBVIOUS
    <3>3. PICK m \in ties : \A j \in ties : m <= j
      <4>1. ties \in SUBSET Nat /\ ties # {}
        BY <1>1, <2>1, <3>1, <3>2
      <4> QED
        BY <4>1, LeastExists
    <3>4. ASSUME NEW j \in on \ {m} PROVE StartsBefore(events, m, j)
      <4>1. m \in on /\ events[m].at = x /\ x # 0 /\ x \in Nat
        BY <1>1, <2>1, <3>2, <3>3
      <4>2. CASE j \in ties
        BY <1>1, <3>2, <3>3, <3>4, <4>1, <4>2 DEF StartsBefore
      <4>3. CASE j \in timed \ ties
        <5>1. x <= events[j].at /\ events[j].at # x
          BY <3>1, <3>2, <4>3
        <5>2. events[m].at < events[j].at
          BY <1>1, <3>4, <4>1, <5>1
        <5> QED
          BY <4>1, <5>2 DEF StartsBefore
      <4>4. CASE j \notin timed
        BY <2>1, <4>1, <4>4 DEF StartsBefore
      <4> QED
        BY <4>2, <4>3, <4>4
    <3>5. m \in on
      BY <2>1, <3>2, <3>3
    <3> QED
      BY <3>4, <3>5
  <2> QED
    BY <2>2, <2>3
<1>3. PICK m : m = (CHOOSE i \in on : IsFirst(i))
  OBVIOUS
<1>4. m \in on /\ IsFirst(m)
  <2> HIDE DEF IsFirst
  <2> QED
    BY <1>2, <1>3, Zenon
<1>5. First(events, on) = events[m]
  BY <1>3, Zenon DEF First
<1>6. ASSUME NEW j \in on, events[j].at # 0 PROVE events[m].at # 0 /\ events[m].at <= events[j].at
  <2>1. CASE j = m
    <3>1. events[m].at # 0 /\ events[m].at \in Nat
      BY <1>1, <1>6, <2>1
    <3> QED
      BY <2>1, <3>1
  <2>2. CASE j # m
    <3>1. StartsBefore(events, m, j)
      BY <1>4, <2>2
    <3> QED
      BY <1>1, <1>4, <1>6, <3>1 DEF StartsBefore
  <2> QED
    BY <2>1, <2>2
<1> QED
  BY <1>4, <1>5, <1>6 DEF StartsFirst

\* A flow lasts as long as any of its events.
LEMMA LastsLongest ==
    ASSUME NEW n \in Nat, NEW events, DOMAIN events = 1 .. n, Timed(events),
           NEW on \in SUBSET (1 .. n), NEW i \in on
    PROVE  events[i].ms <= FlowDuration(events, on)
<1>1. \A j \in on : events[j].at \in Nat /\ events[j].ms \in Nat
  BY DEF Timed
<1>2. PICK timed, longs, starts, ends : /\ timed = {j \in on : events[j].at # 0}
                                        /\ longs = {events[j].ms : j \in on}
                                        /\ starts = {events[j].at : j \in timed}
                                        /\ ends = {events[j].at + events[j].ms : j \in timed}
  OBVIOUS
<1>3. IsFiniteSet(on) /\ IsFiniteSet(timed)
  <2>1. IsFiniteSet(1 .. n)
    BY FS_Interval
  <2>2. timed \in SUBSET (1 .. n)
    BY <1>2
  <2> QED
    BY <2>1, <2>2, FS_Subset
<1>4. IsFiniteSet(longs)
  <2>1. PICK g : g = [j \in on |-> events[j].ms]
    OBVIOUS
  <2>2. longs = {g[j] : j \in on}
    BY <1>2, <2>1
  <2> QED
    BY <1>3, <2>2, ImageFinite
<1>5. IsFiniteSet(ends)
  <2>1. PICK g : g = [j \in timed |-> events[j].at + events[j].ms]
    OBVIOUS
  <2>2. ends = {g[j] : j \in timed}
    BY <1>2, <2>1
  <2> QED
    BY <1>3, <2>2, ImageFinite
<1>6. Max(longs) \in Nat /\ events[i].ms <= Max(longs)
  <2>1. longs \in SUBSET Nat /\ events[i].ms \in longs
    BY <1>1, <1>2
  <2> QED
    BY <1>4, <2>1, GreatestExists
<1>7. timed # {} => Min(starts) \in Nat /\ Max(ends) \in Nat
  <2> SUFFICES ASSUME timed # {} PROVE Min(starts) \in Nat /\ Max(ends) \in Nat
    OBVIOUS
  <2>3. \A j \in timed : events[j].at \in Nat /\ events[j].at + events[j].ms \in Nat
    BY <1>1, <1>2
  <2>1. starts \in SUBSET Nat /\ ends \in SUBSET Nat /\ starts # {} /\ ends # {}
    BY <1>2, <2>3
  <2>2. Min(starts) \in starts /\ Max(ends) \in ends
    BY <1>5, <2>1, GreatestExists, LeastIs
  <2> QED
    BY <2>1, <2>2
<1>8. FlowDuration(events, on) = IF timed = {} \/ Max(ends) - Min(starts) < Max(longs)
                                 THEN Max(longs) ELSE Max(ends) - Min(starts)
  BY <1>2, Zenon DEF FlowDuration
<1>9. events[i].ms \in Nat
  BY <1>1
<1> QED
  BY <1>6, <1>7, <1>8, <1>9

\* A flow is told as it was.
LEMMA FlowTold ==
    ASSUME NEW c, Sound(c), NEW x \in DOMAIN c.events, NEW trace, trace = c.events[x].trace
    PROVE  TellsFlow(c, trace)
<1>1. PICK ev, n : ev = c.events /\ n = Len(c.events)
  OBVIOUS
<1>2. n \in Nat /\ DOMAIN ev = 1 .. n /\ Timed(ev)
  BY <1>1, EventsCounted, MeshHostAssumption DEF Timed
<1>3. PICK on, bad, by : /\ on = {i \in 1 .. n : ev[i].trace = trace}
                         /\ bad = {i \in on : Failing(ev[i])}
                         /\ by = IF bad # {} THEN bad ELSE on
  OBVIOUS
<1>4. PICK flow, failing, deciding : /\ flow = {e \in ToSet(ev) : e.trace = trace}
                                     /\ failing = {e \in flow : Failing(e)}
                                     /\ deciding = IF failing = {} THEN flow ELSE failing
  OBVIOUS
<1>5. PICK summary : summary = TraceSummary(c, trace)
  OBVIOUS
<1>6. flow = {ev[i] : i \in on}
  BY <1>2, <1>3, <1>4 DEF ToSet
<1>7. failing = {ev[i] : i \in bad}
  <2>1. ASSUME NEW e \in failing PROVE e \in {ev[i] : i \in bad}
    <3>1. PICK i \in on : e = ev[i] /\ Failing(ev[i])
      BY <1>4, <1>6
    <3> QED
      BY <1>3, <3>1
  <2>2. ASSUME NEW i \in bad PROVE ev[i] \in failing
    BY <1>3, <1>4, <1>6
  <2> QED
    BY <2>1, <2>2
<1>8. deciding = {ev[i] : i \in by} /\ (failing = {} <=> bad = {})
  BY <1>3, <1>4, <1>6, <1>7
<1>9. /\ summary.failed = (bad # {}) /\ summary.startedAt = First(ev, on).at
      /\ summary.durationMs = FlowDuration(ev, on) /\ summary.status = First(ev, by).status
  <2>1. {i \in DOMAIN ev : ev[i].trace = trace} = on
    BY <1>2, <1>3, Zenon
  <2>2. PICK svc, num : summary = [events |-> num, services |-> svc, failed |-> bad # {},
                                   startedAt |-> First(ev, on).at, durationMs |-> FlowDuration(ev, on),
                                   status |-> First(ev, by).status]
    BY <1>1, <1>3, <1>5, <2>1, Zenon DEF TraceSummary, Where
  <2> QED
    BY <2>2
<1>10. on \in SUBSET (1 .. n) /\ on # {} /\ by \in SUBSET (1 .. n) /\ by # {}
  BY <1>1, <1>2, <1>3
<1>11. StartsFirst(ev, on, First(ev, on)) /\ StartsFirst(ev, by, First(ev, by))
  BY <1>2, <1>10, FirstIs
<1>12. \E e \in deciding :
          /\ e.status = summary.status
          /\ \A o \in deciding : o.at # 0 => e.at # 0 /\ e.at <= o.at
  <2>1. PICK i \in by : First(ev, by) = ev[i] /\ \A j \in by : ev[j].at # 0 => ev[i].at # 0 /\ ev[i].at <= ev[j].at
    BY <1>11 DEF StartsFirst
  <2>2. ev[i] \in deciding /\ ev[i].status = summary.status
    BY <1>8, <1>9, <2>1
  <2>3. \A o \in deciding : o.at # 0 => ev[i].at # 0 /\ ev[i].at <= o.at
    BY <1>8, <2>1
  <2> QED
    BY <2>2, <2>3
<1>13. \A e \in flow : /\ e.ms <= summary.durationMs
                       /\ e.at # 0 => summary.startedAt # 0 /\ summary.startedAt <= e.at
  <2> SUFFICES ASSUME NEW e \in flow
               PROVE  /\ e.ms <= summary.durationMs
                      /\ e.at # 0 => summary.startedAt # 0 /\ summary.startedAt <= e.at
    OBVIOUS
  <2>1. PICK i \in on : e = ev[i]
    BY <1>6
  <2>2. ev[i].ms <= FlowDuration(ev, on)
    BY <1>2, <1>10, <2>1, LastsLongest
  <2> QED
    BY <1>9, <1>11, <2>1, <2>2 DEF StartsFirst
<1>14. summary.failed <=> failing # {}
  BY <1>8, <1>9
<1> DEFINE all == {e \in ToSet(c.events) : e.trace = trace}
           wrong == {e \in all : Failing(e)}
           decide == IF wrong = {} THEN all ELSE wrong
           told == TraceSummary(c, trace)
<1>15. all = flow /\ wrong = failing /\ decide = deciding /\ told = summary
  <2>1. all = flow
    BY <1>1, <1>4, Zenon
  <2>2. wrong = failing
    <3> HIDE DEF all
    <3> QED
      BY <1>4, <2>1, Zenon
  <2> HIDE DEF all, wrong
  <2> QED
    BY <1>4, <1>5, <2>1, <2>2
<1>16. /\ told.failed <=> wrong # {}
       /\ \E e \in decide :
            /\ e.status = told.status
            /\ \A o \in decide : o.at # 0 => e.at # 0 /\ e.at <= o.at
       /\ \A e \in all : /\ e.ms <= told.durationMs
                         /\ e.at # 0 => told.startedAt # 0 /\ told.startedAt <= e.at
  <2> HIDE DEF all, wrong, decide, told
  <2>1. told.failed <=> wrong # {}
    BY <1>14, <1>15, Zenon
  <2>2. \E e \in decide : /\ e.status = told.status
                          /\ \A o \in decide : o.at # 0 => e.at # 0 /\ e.at <= o.at
    BY <1>12, <1>15
  <2>3. \A e \in all : /\ e.ms <= told.durationMs
                       /\ e.at # 0 => told.startedAt # 0 /\ told.startedAt <= e.at
    BY <1>13, <1>15
  <2> QED
    BY <2>1, <2>2, <2>3, Zenon
<1> QED
  BY <1>16, Zenon DEF TellsFlow

LEMMA FlowsShown == MeshHostInv => FlowsByStartTime
<1> SUFFICES ASSUME MeshHostInv, NEW i \in DOMAIN cat.events PROVE TellsFlow(cat, cat.events[i].trace)
  BY Zenon DEF FlowsByStartTime
<1>1. PICK c, trace : c = cat /\ trace = cat.events[i].trace
  OBVIOUS
<1>2. Sound(c) /\ i \in DOMAIN c.events /\ trace = c.events[i].trace
  BY <1>1 DEF MeshHostInv
<1>3. TellsFlow(c, trace)
  BY <1>2, FlowTold
<1> QED
  BY <1>1, <1>3, Zenon

\* One pair of an issue's error detail with its count, and the order of a detail.
ErrorCount == [field : Nat, code : Nat, count : Nat]
PairIn(e) == <<e.field, e.code>>
InOrderOfErrors(s) == \A j, k \in DOMAIN s : j < k => Precedes(s[j], s[k])

\* The order is strict and total.
LEMMA ErrorsOrdered ==
    ASSUME NEW a \in ErrorCount, NEW b \in ErrorCount, NEW c \in ErrorCount
    PROVE  /\ ~Precedes(a, a)
           /\ a = b \/ Precedes(a, b) \/ Precedes(b, a)
           /\ Precedes(a, b) /\ Precedes(b, c) => Precedes(a, c)
<1>1. /\ a = [field |-> a.field, code |-> a.code, count |-> a.count]
      /\ b = [field |-> b.field, code |-> b.code, count |-> b.count]
  BY DEF ErrorCount
<1>2. /\ a.field \in Nat /\ a.code \in Nat /\ a.count \in Nat
      /\ b.field \in Nat /\ b.code \in Nat /\ b.count \in Nat
      /\ c.field \in Nat /\ c.code \in Nat /\ c.count \in Nat
  BY DEF ErrorCount
<1>3. a.field = b.field /\ a.code = b.code /\ a.count = b.count => a = b
  BY <1>1
<1> QED
  BY <1>2, <1>3 DEF Precedes

\* Of finitely many one comes last.
LEMMA LastError ==
    ASSUME NEW S \in SUBSET ErrorCount, IsFiniteSet(S), S # {}
    PROVE  \E m \in S : \A x \in S : x = m \/ Precedes(x, m)
<1> DEFINE Ends(R) == R # {} => \E m \in R : \A x \in R : x = m \/ Precedes(x, m)
           bad == {Cardinality(R) : R \in {U \in SUBSET S : ~Ends(U)}}
<1>1. \A R \in SUBSET S : IsFiniteSet(R) /\ Cardinality(R) \in Nat
  BY FS_Subset, FS_CardinalityType
<1>2. bad = {}
  <2>1. SUFFICES ASSUME bad # {} PROVE FALSE
    OBVIOUS
  <2>2. PICK n \in bad : \A m \in bad : n <= m
    <3>1. bad \in SUBSET Nat
      BY <1>1
    <3> HIDE DEF bad
    <3> QED
      BY <2>1, <3>1, LeastExists
  <2>3. PICK R \in SUBSET S : ~Ends(R) /\ n = Cardinality(R)
    BY <2>2
  <2>4. PICK x \in R : TRUE
    BY <2>3
  <2>5. PICK Q : Q = R \ {x}
    OBVIOUS
  <2>6. Q \in SUBSET S /\ Cardinality(Q) = n - 1 /\ n \in Nat
    BY <2>3, <2>4, <2>5, <1>1, FS_RemoveElement
  <2>7. Ends(Q)
    <3>1. ~Ends(Q) => n - 1 \in bad
      BY <2>6
    <3>2. n - 1 \in bad => n <= n - 1
      BY <2>2
    <3> HIDE DEF bad
    <3> QED
      BY <3>1, <3>2, <2>6
  <2>8. CASE Q = {}
    BY <2>3, <2>4, <2>5, <2>8
  <2>9. CASE Q # {}
    <3>1. PICK y \in Q : \A z \in Q : z = y \/ Precedes(z, y)
      BY <2>7, <2>9
    <3>2. y \in R /\ y # x /\ x \in ErrorCount /\ y \in ErrorCount /\ \A z \in R : z \in ErrorCount
      BY <2>5, <3>1
    <3>3. \A z \in R : z = x \/ z \in Q
      BY <2>5
    <3>4. CASE Precedes(x, y)
      <4>1. \A z \in R : z = y \/ Precedes(z, y)
        BY <3>1, <3>3, <3>4
      <4> QED
        BY <2>3, <3>2, <4>1
    <3>5. CASE Precedes(y, x)
      <4>1. \A z \in R : z = x \/ Precedes(z, x)
        BY <3>1, <3>2, <3>3, <3>5, ErrorsOrdered
      <4> QED
        BY <2>3, <4>1
    <3> QED
      BY <3>2, <3>4, <3>5, ErrorsOrdered
  <2> QED
    BY <2>8, <2>9
<1> QED
  <2>1. Ends(S)
    <3> HIDE DEF Ends
    <3> QED
      BY <1>2
  <2> QED
    BY <2>1

\* Finitely many can be put in order.
LEMMA OrderExists ==
    ASSUME NEW S \in SUBSET ErrorCount, IsFiniteSet(S)
    PROVE  \E s \in [1 .. Cardinality(S) -> S] : InOrderOfErrors(s)
<1> DEFINE Orders(R) == \E s \in [1 .. Cardinality(R) -> R] : InOrderOfErrors(s)
           bad == {Cardinality(R) : R \in {U \in SUBSET S : ~Orders(U)}}
<1>1. \A R \in SUBSET S : IsFiniteSet(R) /\ Cardinality(R) \in Nat
  BY FS_Subset, FS_CardinalityType
<1>2. bad = {}
  <2>1. SUFFICES ASSUME bad # {} PROVE FALSE
    OBVIOUS
  <2>2. PICK n \in bad : \A m \in bad : n <= m
    <3>1. bad \in SUBSET Nat
      BY <1>1
    <3> HIDE DEF bad
    <3> QED
      BY <2>1, <3>1, LeastExists
  <2>3. PICK R \in SUBSET S : ~Orders(R) /\ n = Cardinality(R)
    BY <2>2
  <2>4. CASE R = {}
    <3>1. Cardinality(R) = 0 /\ 1 .. 0 = {}
      BY <2>4, FS_EmptySet
    <3>2. PICK s : s = [i \in 1 .. 0 |-> 0]
      OBVIOUS
    <3>3. s \in [1 .. Cardinality(R) -> R] /\ InOrderOfErrors(s)
      BY <3>1, <3>2 DEF InOrderOfErrors
    <3> QED
      BY <2>3, <3>3
  <2>5. CASE R # {}
    <3>1. R \in SUBSET ErrorCount /\ IsFiniteSet(R)
      BY <1>1
    <3>2. PICK m \in R : \A x \in R : x = m \/ Precedes(x, m)
      BY <2>5, <3>1, LastError
    <3>3. PICK Q : Q = R \ {m}
      OBVIOUS
    <3>4. Q \in SUBSET S /\ Cardinality(Q) = n - 1 /\ n \in Nat /\ n - 1 \in Nat
      BY <2>3, <3>2, <3>3, <1>1, FS_RemoveElement
    <3>5. Orders(Q)
      <4>1. ~Orders(Q) => n - 1 \in bad
        BY <3>4
      <4>2. n - 1 \in bad => n <= n - 1
        BY <2>2
      <4> HIDE DEF bad
      <4> QED
        BY <3>4, <4>1, <4>2
    <3>6. PICK s \in [1 .. n - 1 -> Q] : InOrderOfErrors(s)
      BY <3>4, <3>5
    <3>7. PICK r : r = [i \in 1 .. n |-> IF i = n THEN m ELSE s[i]]
      OBVIOUS
    <3>8. /\ DOMAIN r = 1 .. n /\ \A i \in 1 .. n : i # n => i \in 1 .. n - 1 /\ r[i] = s[i] /\ s[i] \in Q
          /\ n \in 1 .. n => r[n] = m
      BY <3>4, <3>6, <3>7
    <3>9. r \in [1 .. n -> R]
      <4>1. \A i \in 1 .. n : r[i] \in R
        BY <3>2, <3>3, <3>8
      <4> QED
        BY <3>7, <4>1
    <3>10. InOrderOfErrors(r)
      <4> SUFFICES ASSUME NEW j \in 1 .. n, NEW k \in 1 .. n, j < k PROVE Precedes(r[j], r[k])
        BY <3>8 DEF InOrderOfErrors
      <4>1. j # n /\ j \in 1 .. n - 1 /\ r[j] = s[j] /\ s[j] \in Q
        BY <3>4, <3>8
      <4>2. CASE k = n
        <5>1. r[k] = m /\ r[j] \in R /\ r[j] # m
          BY <3>3, <3>8, <4>1, <4>2
        <5> QED
          BY <3>2, <5>1
      <4>3. CASE k # n
        BY <3>6, <3>8, <4>1, <4>3 DEF InOrderOfErrors
      <4> QED
        BY <4>2, <4>3
    <3> QED
      BY <2>3, <3>9, <3>10
  <2> QED
    BY <2>4, <2>5
<1> QED
  <2>1. Orders(S)
    <3> HIDE DEF Orders
    <3> QED
      BY <1>2
  <2> QED
    BY <2>1

\* What Sorted picks has each of them in one place.
LEMMA SortedIs ==
    ASSUME NEW S \in SUBSET ErrorCount, IsFiniteSet(S), NEW n, n = Cardinality(S), NEW s, s = Sorted(S)
    PROVE  /\ n \in Nat /\ s \in [1 .. n -> S] /\ InOrderOfErrors(s)
           /\ \A j, k \in 1 .. n : s[j] = s[k] => j = k
           /\ \A x \in S : \E k \in 1 .. n : s[k] = x
<1>1. n \in Nat
  BY FS_CardinalityType
<1>2. s \in [1 .. n -> S] /\ InOrderOfErrors(s)
  <2>1. Sorted(S) = CHOOSE r \in [1 .. Cardinality(S) -> S] : InOrderOfErrors(r)
    BY Zenon DEF Sorted, InOrderOfErrors
  <2> QED
    BY <2>1, OrderExists, Zenon
<1>3. \A j, k \in 1 .. n : s[j] = s[k] => j = k
  <2> SUFFICES ASSUME NEW j \in 1 .. n, NEW k \in 1 .. n, s[j] = s[k], j # k PROVE FALSE
    OBVIOUS
  <2>1. s[j] \in ErrorCount /\ (Precedes(s[j], s[k]) \/ Precedes(s[k], s[j]))
    BY <1>1, <1>2 DEF InOrderOfErrors
  <2> QED
    BY <2>1, ErrorsOrdered
<1>4. s \in Injection(1 .. n, S)
  BY <1>2, <1>3 DEF Injection, IsInjective
<1>5. Cardinality(1 .. n) = n
  BY <1>1, FS_Interval
<1>6. s \in Surjection(1 .. n, S)
  BY <1>4, <1>5, FS_Injection
<1>7. \A x \in S : \E k \in 1 .. n : s[k] = x
  BY <1>6, Zenon DEF Surjection
<1> QED
  BY <1>1, <1>2, <1>3, <1>7

\* A list of errors as it comes or is kept.
Listing(errors) == IsFiniteSet(DOMAIN errors) /\ \A i \in DOMAIN errors : errors[i] \in ErrorCount
ClaimPlaces(errors, p) == {i \in DOMAIN errors : PairIn(errors[i]) = p}
ClaimCounts(errors) == [i \in DOMAIN errors |-> errors[i].count]

LEMMA ClaimsSum ==
    ASSUME NEW errors, NEW p PROVE Claims(errors, p) = SumFunctionOnSet(ClaimCounts(errors), ClaimPlaces(errors, p))
BY Zenon DEF Claims, ClaimCounts, ClaimPlaces, PairIn

LEMMA CountsNat ==
    ASSUME NEW errors, Listing(errors)
    PROVE  \A i \in DOMAIN errors : ClaimCounts(errors)[i] = errors[i].count /\ ClaimCounts(errors)[i] \in Nat
<1>1. \A i \in DOMAIN errors : ClaimCounts(errors)[i] = errors[i].count
  BY DEF ClaimCounts
<1>2. \A e \in ErrorCount : e.count \in Nat
  BY DEF ErrorCount
<1> QED
  BY <1>1, <1>2 DEF Listing

\* A pair is claimed as often as the one entry says that names it, or not at all.
LEMMA ClaimsAre ==
    ASSUME NEW errors, Listing(errors), NEW p
    PROVE  /\ Claims(errors, p) \in Nat
           /\ (\A i \in DOMAIN errors : PairIn(errors[i]) # p) => Claims(errors, p) = 0
           /\ \A i \in DOMAIN errors :
                PairIn(errors[i]) = p /\ (\A j \in DOMAIN errors : PairIn(errors[j]) = p => j = i)
                  => Claims(errors, p) = errors[i].count
<1>1. PICK g, S : g = ClaimCounts(errors) /\ S = ClaimPlaces(errors, p)
  OBVIOUS
<1>2. S \in SUBSET (DOMAIN errors)
  BY <1>1 DEF ClaimPlaces
<1>3. IsFiniteSet(S)
  BY <1>2, FS_Subset DEF Listing
<1>4. \A x \in S : g[x] = errors[x].count /\ g[x] \in Nat
  BY <1>1, <1>2, CountsNat
<1>5. /\ SumFunctionOnSet(g, S) \in Nat
      /\ S = {} => SumFunctionOnSet(g, S) = 0
      /\ \A x \in S : SumFunctionOnSet(g, S) = g[x] + SumFunctionOnSet(g, S \ {x})
  BY <1>3, <1>4, SumSplits
<1>6. Claims(errors, p) = SumFunctionOnSet(g, S)
  BY <1>1, ClaimsSum
<1>7. ASSUME \A i \in DOMAIN errors : PairIn(errors[i]) # p PROVE Claims(errors, p) = 0
  <2>1. S = {}
    BY <1>1, <1>7 DEF ClaimPlaces
  <2> QED
    BY <1>5, <1>6, <2>1
<1>8. ASSUME NEW i \in DOMAIN errors, PairIn(errors[i]) = p, \A j \in DOMAIN errors : PairIn(errors[j]) = p => j = i
      PROVE  Claims(errors, p) = errors[i].count
  <2>1. i \in S /\ S \ {i} = {}
    BY <1>1, <1>8 DEF ClaimPlaces
  <2>2. SumFunctionOnSet(g, {}) = 0
    BY FS_EmptySet, SumSplits
  <2>3. PICK n : n = g[i]
    OBVIOUS
  <2>4. n \in Nat /\ n = errors[i].count
    BY <1>4, <2>1, <2>3
  <2>5. SumFunctionOnSet(g, S) = n + 0
    BY <1>5, <2>1, <2>2, <2>3
  <2> QED
    BY <1>6, <2>4, <2>5
<1> QED
  BY <1>5, <1>6, <1>7, <1>8

\* What is skipped had nothing to say.
LEMMA DecodedClaims ==
    ASSUME NEW raw, Listing(raw), NEW told, told = decode_issue_errors(raw)
    PROVE  /\ Listing(told)
           /\ \A p : p # <<0, 0>> => Claims(told, p) = Claims(raw, p)
<1>1. /\ DOMAIN told = {k \in DOMAIN raw : raw[k].count > 0 /\ PairIn(raw[k]) # <<0, 0>>}
      /\ \A i \in DOMAIN told : told[i] = raw[i]
  BY DEF decode_issue_errors, PairIn
<1>2. Listing(told)
  <2>1. IsFiniteSet(DOMAIN told)
    BY <1>1, FS_Subset DEF Listing
  <2> QED
    BY <1>1, <2>1 DEF Listing
<1>3. ASSUME NEW p, p # <<0, 0>> PROVE Claims(told, p) = Claims(raw, p)
  <2>1. PICK g, k, S, T : /\ g = ClaimCounts(raw) /\ S = ClaimPlaces(raw, p)
                          /\ k = ClaimCounts(told) /\ T = ClaimPlaces(told, p)
    OBVIOUS
  <2>2. S \in SUBSET (DOMAIN raw) /\ T \in SUBSET (DOMAIN told) /\ T \in SUBSET S
    BY <1>1, <2>1 DEF ClaimPlaces
  <2>3. IsFiniteSet(S) /\ IsFiniteSet(T)
    BY <1>2, <2>2, FS_Subset DEF Listing
  <2>4. \A x \in S : g[x] \in Nat /\ g[x] = raw[x].count
    BY <2>1, <2>2, CountsNat
  <2>5. \A x \in T : k[x] = g[x]
    BY <1>1, <1>2, <2>1, <2>2, <2>4, CountsNat
  <2>6. \A x \in S \ T : g[x] = 0
    <3> SUFFICES ASSUME NEW x \in S \ T PROVE g[x] = 0
      OBVIOUS
    <3>1. x \in DOMAIN raw /\ PairIn(raw[x]) = p /\ x \notin DOMAIN told
      BY <1>1, <2>1, <2>2 DEF ClaimPlaces
    <3>2. ~(raw[x].count > 0)
      BY <1>1, <1>3, <3>1
    <3> QED
      BY <2>4, <3>2
  <2>7. SumFunctionOnSet(g, S) = SumFunctionOnSet(g, T)
    BY <2>2, <2>3, <2>4, <2>6, ZerosDrop
  <2>8. SumFunctionOnSet(k, T) = SumFunctionOnSet(g, T)
    BY <2>3, <2>5, SumsEqual
  <2> QED
    BY <2>1, <2>7, <2>8, ClaimsSum
<1> QED
  BY <1>2, <1>3

\* The pairs of a list are finitely many.
LEMMA PairsAre ==
    ASSUME NEW errors, Listing(errors), NEW P, P = PairsOf(errors)
    PROVE  /\ IsFiniteSet(P) /\ P \subseteq (Nat \X Nat) \ {<<0, 0>>}
           /\ \A p : p \in P <=> p # <<0, 0>> /\ \E i \in DOMAIN errors : PairIn(errors[i]) = p
<1>1. PICK g : g = [i \in DOMAIN errors |-> PairIn(errors[i])]
  OBVIOUS
<1>2. PICK I : I = {g[i] : i \in DOMAIN errors}
  OBVIOUS
<1>3. IsFiniteSet(I)
  BY <1>2, ImageFinite DEF Listing
<1>4. P = I \ {<<0, 0>>}
  BY <1>1, <1>2 DEF PairsOf, PairIn
<1>5. \A p : p \in P <=> p # <<0, 0>> /\ \E i \in DOMAIN errors : PairIn(errors[i]) = p
  BY <1>1, <1>2, <1>4
<1>6. \A e \in ErrorCount : PairIn(e) \in Nat \X Nat
  BY DEF ErrorCount, PairIn
<1>7. P \subseteq (Nat \X Nat) \ {<<0, 0>>}
  BY <1>5, <1>6 DEF Listing
<1>8. IsFiniteSet(P)
  BY <1>3, <1>4, FS_Subset
<1> QED
  BY <1>5, <1>7, <1>8

\* What is added up: one entry for each pair.
Entries(errors, told) ==
    {[field |-> p[1], code |-> p[2], count |-> Claims(errors, p) + Claims(told, p)] :
        p \in PairsOf(errors) \cup PairsOf(told)}

PairsAdd(S, P, errors, told) ==
    /\ S \subseteq ErrorCount /\ IsFiniteSet(S)
    /\ \A e \in S : PairIn(e) \in P /\ e.count = Claims(errors, PairIn(e)) + Claims(told, PairIn(e))
    /\ \A p \in P : \E e \in S : PairIn(e) = p
    /\ \A a, b \in S : PairIn(a) = PairIn(b) => a = b

LEMMA EntriesAre ==
    ASSUME NEW errors, Listing(errors), NEW told, Listing(told)
    PROVE  PairsAdd(Entries(errors, told), PairsOf(errors) \cup PairsOf(told), errors, told)
<1> SUFFICES ASSUME NEW P, P = PairsOf(errors) \cup PairsOf(told), NEW S, S = Entries(errors, told)
             PROVE  PairsAdd(S, P, errors, told)
  OBVIOUS
<1>1. IsFiniteSet(P) /\ P \subseteq Nat \X Nat
  <2>1. PICK U, V : U = PairsOf(errors) /\ V = PairsOf(told)
    OBVIOUS
  <2>2. IsFiniteSet(U) /\ IsFiniteSet(V) /\ U \subseteq Nat \X Nat /\ V \subseteq Nat \X Nat
    BY <2>1, PairsAre
  <2>3. IsFiniteSet(U \cup V)
    BY <2>2, FS_Union
  <2> QED
    BY <2>1, <2>2, <2>3
<1>2. PICK g : g = [p \in P |-> [field |-> p[1], code |-> p[2], count |-> Claims(errors, p) + Claims(told, p)]]
  OBVIOUS
<1>3. S = {g[p] : p \in P}
  BY <1>2 DEF Entries
<1>4. ASSUME NEW p \in P
      PROVE  g[p] \in ErrorCount /\ PairIn(g[p]) = p /\ g[p].count = Claims(errors, p) + Claims(told, p)
  <2>1. PICK n : n = Claims(errors, p) + Claims(told, p)
    OBVIOUS
  <2>2. n \in Nat
    <3>1. PICK u, v : u = Claims(errors, p) /\ v = Claims(told, p)
      OBVIOUS
    <3>2. u \in Nat /\ v \in Nat
      BY <3>1, ClaimsAre
    <3> QED
      BY <2>1, <3>1, <3>2
  <2>3. g[p] = [field |-> p[1], code |-> p[2], count |-> n]
    BY <1>2, <2>1
  <2>4. p \in Nat \X Nat
    BY <1>1
  <2> HIDE <1>2
  <2>5. p[1] \in Nat /\ p[2] \in Nat /\ p = <<p[1], p[2]>>
    BY <2>4
  <2> QED
    BY <2>1, <2>2, <2>3, <2>5 DEF ErrorCount, PairIn
<1>5. IsFiniteSet(S)
  BY <1>1, <1>3, ImageFinite
<1>6. \A e \in S : PairIn(e) \in P /\ e = g[PairIn(e)]
  BY <1>3, <1>4
<1>7. \A a, b \in S : PairIn(a) = PairIn(b) => a = b
  BY <1>6, Zenon
<1>8. \A e \in S : e \in ErrorCount /\ e.count = Claims(errors, PairIn(e)) + Claims(told, PairIn(e))
  BY <1>4, <1>6
<1>9. \A p \in P : \E e \in S : PairIn(e) = p
  BY <1>3, <1>4
<1> QED
  BY <1>5, <1>6, <1>7, <1>8, <1>9 DEF PairsAdd

\* What merge_issue_errors makes of two lists.
MergedFrom(merged, P, errors, told) ==
    /\ merged \in Seq(ErrorCount) /\ Len(merged) <= MaxErrors /\ InOrderOfErrors(merged)
    /\ \A j, k \in DOMAIN merged : PairIn(merged[j]) = PairIn(merged[k]) => j = k
    /\ \A k \in DOMAIN merged :
         /\ PairIn(merged[k]) \in P
         /\ merged[k].count = Claims(errors, PairIn(merged[k])) + Claims(told, PairIn(merged[k]))
    /\ Len(merged) < MaxErrors => \A p \in P : \E k \in DOMAIN merged : PairIn(merged[k]) = p

LEMMA MergedAre ==
    ASSUME NEW errors, Listing(errors), NEW told, Listing(told)
    PROVE  MergedFrom(merge_issue_errors(errors, told), PairsOf(errors) \cup PairsOf(told), errors, told)
<1> SUFFICES ASSUME NEW P, P = PairsOf(errors) \cup PairsOf(told),
                    NEW merged, merged = merge_issue_errors(errors, told)
             PROVE  MergedFrom(merged, P, errors, told)
  OBVIOUS
<1>1. PICK S, n, s : S = Entries(errors, told) /\ n = Cardinality(S) /\ s = Sorted(S)
  OBVIOUS
<1>2. PICK m : m = IF n < MaxErrors THEN n ELSE MaxErrors
  OBVIOUS
<1>3. merged = SubSeq(s, 1, m)
  BY <1>1, <1>2, Zenon DEF merge_issue_errors, Entries
<1>4. PairsAdd(S, P, errors, told)
  BY <1>1, EntriesAre
<1>5. /\ S \in SUBSET ErrorCount /\ IsFiniteSet(S)
      /\ \A e \in S : PairIn(e) \in P /\ e.count = Claims(errors, PairIn(e)) + Claims(told, PairIn(e))
      /\ \A p \in P : \E e \in S : PairIn(e) = p
      /\ \A a, b \in S : PairIn(a) = PairIn(b) => a = b
  BY <1>4 DEF PairsAdd
<1>6. /\ n \in Nat /\ s \in [1 .. n -> S] /\ InOrderOfErrors(s)
      /\ \A j, k \in 1 .. n : s[j] = s[k] => j = k
      /\ \A x \in S : \E k \in 1 .. n : s[k] = x
  BY <1>1, <1>5, SortedIs
<1>7. m \in Nat /\ m <= n /\ m <= MaxErrors /\ (m < MaxErrors => m = n)
  BY <1>2, <1>6, MeshHostAssumption
<1>8. /\ merged \in Seq(ErrorCount) /\ DOMAIN merged = 1 .. m /\ Len(merged) = m
      /\ \A k \in 1 .. m : merged[k] = s[k] /\ s[k] \in S /\ k \in 1 .. n
  <2>1. \A k \in 1 .. m : s[k] \in S /\ s[k] \in ErrorCount /\ k \in 1 .. n
    BY <1>5, <1>6, <1>7
  <2>2. /\ merged \in Seq(ErrorCount) /\ Len(merged) = (IF 1 <= m THEN m - 1 + 1 ELSE 0)
        /\ \A k \in 1 .. m - 1 + 1 : merged[k] = s[1 + k - 1]
    BY <1>3, <1>7, <2>1, SubSeqProperties
  <2>3. Len(merged) = m /\ \A k \in 1 .. m : merged[k] = s[k]
    BY <1>7, <2>2
  <2>4. DOMAIN merged = 1 .. m
    BY <2>2, <2>3, LenProperties
  <2> QED
    BY <2>1, <2>2, <2>3, <2>4
<1>9. InOrderOfErrors(merged)
  <2> SUFFICES ASSUME NEW j \in 1 .. m, NEW k \in 1 .. m, j < k PROVE Precedes(merged[j], merged[k])
    BY <1>8 DEF InOrderOfErrors
  <2>1. Precedes(s[j], s[k])
    BY <1>6, <1>8 DEF InOrderOfErrors
  <2> QED
    BY <1>8, <2>1
<1>10. \A j, k \in 1 .. m : PairIn(merged[j]) = PairIn(merged[k]) => j = k
  BY <1>5, <1>6, <1>8
<1>11. \A k \in 1 .. m : /\ PairIn(merged[k]) \in P
                         /\ merged[k].count = Claims(errors, PairIn(merged[k])) + Claims(told, PairIn(merged[k]))
  BY <1>5, <1>8
<1>12. m < MaxErrors => \A p \in P : \E k \in 1 .. m : PairIn(merged[k]) = p
  BY <1>5, <1>6, <1>7, <1>8
<1> QED
  BY <1>7, <1>8, <1>9, <1>10, <1>11, <1>12 DEF MergedFrom

\* A detail is honest about what was reported, and may have to be complete as well while
\* the bound leaves room.
Reporteds == [Nat \X Nat -> Nat]
Honest(errors, said) ==
    /\ errors \in Seq(ErrorCount) /\ Len(errors) <= MaxErrors /\ InOrderOfErrors(errors)
    /\ \A j, k \in DOMAIN errors : PairIn(errors[j]) = PairIn(errors[k]) => j = k
    /\ \A k \in DOMAIN errors : PairIn(errors[k]) # <<0, 0>> /\ errors[k].count <= said[PairIn(errors[k])]
Tells(errors, said, fully) ==
    /\ Honest(errors, said)
    /\ fully /\ Len(errors) < MaxErrors => \A p \in Nat \X Nat : p # <<0, 0>> => Claims(errors, p) = said[p]

LEMMA ListReports == ASSUME NEW errors \in Seq(ErrorCount) PROVE Listing(errors) /\ DOMAIN errors = 1 .. Len(errors)
<1>1. DOMAIN errors = 1 .. Len(errors) /\ Len(errors) \in Nat /\ \A i \in 1 .. Len(errors) : errors[i] \in ErrorCount
  BY LenProperties, ElementOfSeq
<1> QED
  BY <1>1, FS_Interval DEF Listing

\* Where room is left, there was room before.
LEMMA RoomBefore ==
    ASSUME NEW errors, NEW said, Honest(errors, said), NEW told, Listing(told),
           NEW merged, merged = merge_issue_errors(errors, told), Len(merged) < MaxErrors
    PROVE  Len(errors) < MaxErrors
<1>1. Listing(errors) /\ errors \in Seq(ErrorCount) /\ DOMAIN errors = 1 .. Len(errors)
  BY ListReports DEF Honest
<1>2. PICK P : P = PairsOf(errors) \cup PairsOf(told)
  OBVIOUS
<1>3. merged \in Seq(ErrorCount) /\ \A p \in P : \E k \in DOMAIN merged : PairIn(merged[k]) = p
  <2>1. MergedFrom(merged, P, errors, told)
    BY <1>1, <1>2, MergedAre
  <2> QED
    BY <2>1 DEF MergedFrom
<1>4. DOMAIN merged = 1 .. Len(merged) /\ Len(merged) \in Nat /\ Len(errors) \in Nat
  BY <1>1, <1>3, LenProperties
<1>5. \A k \in DOMAIN errors : PairIn(errors[k]) \in P
  BY <1>1, <1>2, PairsAre DEF Honest
<1>6. PICK h : h = [k \in 1 .. Len(errors) |-> CHOOSE i \in 1 .. Len(merged) : PairIn(merged[i]) = PairIn(errors[k])]
  OBVIOUS
<1>7. \A k \in 1 .. Len(errors) : h[k] \in 1 .. Len(merged) /\ PairIn(merged[h[k]]) = PairIn(errors[k])
  <2> SUFFICES ASSUME NEW k \in 1 .. Len(errors)
               PROVE  h[k] \in 1 .. Len(merged) /\ PairIn(merged[h[k]]) = PairIn(errors[k])
    OBVIOUS
  <2>1. \E i \in 1 .. Len(merged) : PairIn(merged[i]) = PairIn(errors[k])
    BY <1>1, <1>3, <1>4, <1>5
  <2>2. h[k] = CHOOSE i \in 1 .. Len(merged) : PairIn(merged[i]) = PairIn(errors[k])
    BY <1>6
  <2> QED
    BY <2>1, <2>2, Zenon
<1>8. \A j, k \in 1 .. Len(errors) : h[j] = h[k] => j = k
  BY <1>1, <1>7, Zenon DEF Honest
<1>9. h \in [1 .. Len(errors) -> 1 .. Len(merged)]
  BY <1>6, <1>7, Zenon
<1>10. h \in Injection(1 .. Len(errors), 1 .. Len(merged))
  BY <1>8, <1>9 DEF Injection, IsInjective
<1>11. \A m \in Nat : IsFiniteSet(1 .. m) /\ Cardinality(1 .. m) = m
  <2> SUFFICES ASSUME NEW m \in Nat PROVE IsFiniteSet(1 .. m) /\ Cardinality(1 .. m) = m
    OBVIOUS
  <2> QED
    BY FS_Interval
<1>12. Len(errors) <= Len(merged)
  BY <1>4, <1>10, <1>11, FS_Injection
<1> QED
  BY <1>4, <1>12, MeshHostAssumption

\* What was honest, and complete, stays so when a report is merged into it.
LEMMA MergeTells ==
    ASSUME NEW errors, NEW said \in Reporteds, NEW fully, Tells(errors, said, fully),
           NEW raw, Listing(raw), NEW more, \A p \in Nat \X Nat : more[p] = said[p] + Claims(raw, p),
           NEW merged, merged = merge_issue_errors(errors, decode_issue_errors(raw))
    PROVE  Tells(merged, more, fully)
<1>1. PICK told : told = decode_issue_errors(raw)
  OBVIOUS
<1>2. Listing(told) /\ \A p : p # <<0, 0>> => Claims(told, p) = Claims(raw, p)
  BY <1>1, DecodedClaims
<1>3. Listing(errors) /\ Honest(errors, said)
  BY ListReports DEF Tells, Honest
<1>4. PICK P : P = PairsOf(errors) \cup PairsOf(told)
  OBVIOUS
<1>5. /\ merged \in Seq(ErrorCount) /\ Len(merged) <= MaxErrors /\ InOrderOfErrors(merged)
      /\ \A j, k \in DOMAIN merged : PairIn(merged[j]) = PairIn(merged[k]) => j = k
      /\ \A k \in DOMAIN merged :
           /\ PairIn(merged[k]) \in P
           /\ merged[k].count = Claims(errors, PairIn(merged[k])) + Claims(told, PairIn(merged[k]))
      /\ Len(merged) < MaxErrors => \A p \in P : \E k \in DOMAIN merged : PairIn(merged[k]) = p
  <2>1. MergedFrom(merged, P, errors, told)
    BY <1>1, <1>2, <1>3, <1>4, MergedAre
  <2> QED
    BY <2>1 DEF MergedFrom
<1>6. \A p \in P : p \in Nat \X Nat /\ p # <<0, 0>>
  <2>1. /\ PairsOf(errors) \subseteq (Nat \X Nat) \ {<<0, 0>>}
        /\ PairsOf(told) \subseteq (Nat \X Nat) \ {<<0, 0>>}
    BY <1>2, <1>3, PairsAre
  <2> QED
    BY <1>4, <2>1
<1>7. \A p \in Nat \X Nat : /\ said[p] \in Nat /\ Claims(errors, p) \in Nat /\ Claims(raw, p) \in Nat
                            /\ Claims(told, p) \in Nat
  BY <1>2, <1>3, ClaimsAre DEF Reporteds
<1>8. \A p \in Nat \X Nat : Claims(errors, p) <= said[p]
  <2> SUFFICES ASSUME NEW p \in Nat \X Nat PROVE Claims(errors, p) <= said[p]
    OBVIOUS
  <2>1. CASE \E k \in DOMAIN errors : PairIn(errors[k]) = p
    <3>1. PICK k \in DOMAIN errors : PairIn(errors[k]) = p
      BY <2>1
    <3>2. \A j \in DOMAIN errors : PairIn(errors[j]) = p => j = k
      BY <1>3, <3>1 DEF Honest
    <3>3. Claims(errors, p) = errors[k].count
      BY <1>3, <3>1, <3>2, ClaimsAre
    <3>4. errors[k].count <= said[PairIn(errors[k])]
      BY <1>3 DEF Honest
    <3> QED
      BY <3>1, <3>3, <3>4
  <2>2. CASE ~\E k \in DOMAIN errors : PairIn(errors[k]) = p
    <3>1. Claims(errors, p) = 0
      BY <1>3, <2>2, ClaimsAre
    <3> QED
      BY <1>7, <3>1
  <2> QED
    BY <2>1, <2>2
<1>9. Honest(merged, more)
  <2>1. ASSUME NEW k \in DOMAIN merged
        PROVE  PairIn(merged[k]) # <<0, 0>> /\ merged[k].count <= more[PairIn(merged[k])]
    <3>1. PICK p, n : p = PairIn(merged[k]) /\ n = merged[k].count
      OBVIOUS
    <3>2. p \in Nat \X Nat /\ p # <<0, 0>> /\ n = Claims(errors, p) + Claims(told, p)
      BY <1>5, <1>6, <3>1
    <3>3. Claims(told, p) = Claims(raw, p) /\ more[p] = said[p] + Claims(raw, p)
      BY <1>2, <3>2
    <3>4. PICK u, v, w : u = Claims(errors, p) /\ v = Claims(raw, p) /\ w = said[p]
      OBVIOUS
    <3>5. u \in Nat /\ v \in Nat /\ w \in Nat /\ u <= w
      BY <1>7, <1>8, <3>2, <3>4
    <3>6. n = u + v /\ more[p] = w + v
      BY <3>2, <3>3, <3>4
    <3> QED
      BY <3>1, <3>2, <3>5, <3>6
  <2> QED
    BY <1>5, <2>1 DEF Honest
<1>10. ASSUME fully, Len(merged) < MaxErrors, NEW p \in Nat \X Nat, p # <<0, 0>>
       PROVE  Claims(merged, p) = more[p]
  <2>1. Len(errors) < MaxErrors
    BY <1>1, <1>2, <1>3, <1>10, RoomBefore
  <2>2. Claims(errors, p) = said[p]
    BY <1>10, <2>1 DEF Tells
  <2>3. more[p] = Claims(errors, p) + Claims(told, p)
    BY <1>2, <1>10, <2>2
  <2>4. Listing(merged)
    BY <1>5, ListReports
  <2>5. CASE p \in P
    <3>1. PICK k \in DOMAIN merged : PairIn(merged[k]) = p
      BY <1>5, <1>10, <2>5
    <3>2. \A j \in DOMAIN merged : PairIn(merged[j]) = p => j = k
      BY <1>5, <3>1
    <3>3. Claims(merged, p) = merged[k].count
      BY <2>4, <3>1, <3>2, ClaimsAre
    <3>4. merged[k].count = Claims(errors, p) + Claims(told, p)
      BY <1>5, <3>1
    <3> QED
      BY <2>3, <3>3, <3>4
  <2>6. CASE p \notin P
    <3>1. \A k \in DOMAIN merged : PairIn(merged[k]) # p
      BY <1>5, <2>6
    <3>2. /\ \A k \in DOMAIN errors : PairIn(errors[k]) # p
          /\ \A k \in DOMAIN told : PairIn(told[k]) # p
      BY <1>2, <1>3, <1>4, <1>10, <2>6, PairsAre
    <3>3. Claims(merged, p) = 0 /\ Claims(errors, p) = 0 /\ Claims(told, p) = 0
      BY <1>2, <1>3, <2>4, <3>1, <3>2, ClaimsAre
    <3> QED
      BY <2>3, <3>3
  <2> QED
    BY <2>5, <2>6
<1> QED
  BY <1>9, <1>10 DEF Tells

\* The detail of a fingerprint, and what an issue makes of it.
DetailIn(issues, fp) == IF fp \in DOMAIN issues THEN issues[fp].errors ELSE <<>>

LEMMA TellsMore ==
    ASSUME NEW errors, NEW said, NEW fully, Tells(errors, said, fully), NEW more,
           \A p \in Nat \X Nat : more[p] = said[p]
    PROVE  Tells(errors, more, fully)
<1>1. \A k \in DOMAIN errors : PairIn(errors[k]) \in Nat \X Nat
  <2>1. errors \in Seq(ErrorCount)
    BY DEF Tells, Honest
  <2>2. \A k \in DOMAIN errors : errors[k] \in ErrorCount
    BY <2>1, ListReports DEF Listing
  <2> QED
    BY <2>2 DEF ErrorCount, PairIn
<1>2. Honest(errors, more)
  BY <1>1 DEF Tells, Honest
<1> QED
  BY <1>2 DEF Tells

LEMMA HonestMore ==
    ASSUME NEW errors, NEW said \in Reporteds, Tells(errors, said, FALSE), NEW more \in Reporteds,
           \A p \in Nat \X Nat : said[p] <= more[p]
    PROVE  Tells(errors, more, FALSE)
<1>1. \A k \in DOMAIN errors : PairIn(errors[k]) \in Nat \X Nat /\ errors[k].count \in Nat
  <2>1. errors \in Seq(ErrorCount)
    BY DEF Tells, Honest
  <2>2. \A k \in DOMAIN errors : errors[k] \in ErrorCount
    BY <2>1, ListReports DEF Listing
  <2> QED
    BY <2>2 DEF ErrorCount, PairIn
<1>2. ASSUME NEW k \in DOMAIN errors PROVE errors[k].count <= more[PairIn(errors[k])]
  <2>1. PICK p, n : p = PairIn(errors[k]) /\ n = errors[k].count
    OBVIOUS
  <2>2. n <= said[p] /\ p \in Nat \X Nat /\ n \in Nat
    BY <1>1, <2>1 DEF Tells, Honest
  <2>3. said[p] \in Nat /\ more[p] \in Nat /\ said[p] <= more[p]
    BY <2>2 DEF Reporteds
  <2> QED
    BY <2>1, <2>2, <2>3
<1> QED
  BY <1>2 DEF Tells, Honest

LEMMA MergeDetail ==
    ASSUME NEW issues, NEW issue, NEW fp
    PROVE  DetailIn(MergeIssue(issues, issue), fp)
           = IF fp = issue.fp THEN merge_issue_errors(DetailIn(issues, fp), decode_issue_errors(issue.errors))
             ELSE DetailIn(issues, fp)
<1>1. PICK all : all = merge_issue_errors(DetailIn(issues, issue.fp), decode_issue_errors(issue.errors))
  OBVIOUS
<1>2. PICK merged : merged.errors = all /\ MergeIssue(issues, issue) = With(issues, issue.fp, merged)
  <2>1. PICK old : /\ old = IF issue.fp \in DOMAIN issues THEN issues[issue.fp]
                            ELSE [count |-> 0, exemplars |-> <<>>, first |-> 0, last |-> 0, errors |-> <<>>]
                   /\ old.errors = DetailIn(issues, issue.fp)
    <3>1. PICK none : none = [count |-> 0, exemplars |-> <<>>, first |-> 0, last |-> 0, errors |-> <<>>]
      OBVIOUS
    <3>2. none.errors = <<>>
      BY <3>1
    <3>3. (IF issue.fp \in DOMAIN issues THEN issues[issue.fp] ELSE none).errors = DetailIn(issues, issue.fp)
      BY <3>2 DEF DetailIn
    <3> QED
      BY <3>1, <3>3
  <2>2. \E n, ex, f, l : MergeIssue(issues, issue) =
            With(issues, issue.fp, [fp |-> issue.fp, count |-> n, exemplars |-> ex, first |-> f, last |-> l,
                                    errors |-> merge_issue_errors(old.errors, decode_issue_errors(issue.errors))])
    BY <2>1, ZenonT(60) DEF MergeIssue
  <2>3. PICK n, ex, f, l : MergeIssue(issues, issue) =
            With(issues, issue.fp, [fp |-> issue.fp, count |-> n,
                                    exemplars |-> ex, first |-> f, last |-> l, errors |-> all])
    BY <1>1, <2>1, <2>2
  <2>4. [fp |-> issue.fp, count |-> n, exemplars |-> ex, first |-> f, last |-> l, errors |-> all].errors = all
    OBVIOUS
  <2> QED
    BY <2>3, <2>4
<1>3. \A x : x \in DOMAIN MergeIssue(issues, issue) <=> x \in DOMAIN issues \/ x = issue.fp
  BY <1>2 DEF With
<1>4. \A x \in DOMAIN MergeIssue(issues, issue) :
          MergeIssue(issues, issue)[x] = IF x = issue.fp THEN merged ELSE issues[x]
  BY <1>2 DEF With
<1>5. CASE fp = issue.fp
  BY <1>1, <1>2, <1>3, <1>4, <1>5 DEF DetailIn
<1>6. CASE fp # issue.fp
  BY <1>3, <1>4, <1>6 DEF DetailIn
<1> QED
  BY <1>5, <1>6

LEMMA MergeIssueTells ==
    ASSUME NEW issues, NEW fp, NEW said \in Reporteds, NEW fully, Tells(DetailIn(issues, fp), said, fully),
           NEW issue, Listing(issue.errors),
           NEW more, \A p \in Nat \X Nat : more[p] = said[p] + (IF fp = issue.fp THEN Claims(issue.errors, p) ELSE 0)
    PROVE  Tells(DetailIn(MergeIssue(issues, issue), fp), more, fully)
<1>1. PICK old, next : old = DetailIn(issues, fp) /\ next = DetailIn(MergeIssue(issues, issue), fp)
  OBVIOUS
<1>2. CASE fp = issue.fp
  <2>1. next = merge_issue_errors(old, decode_issue_errors(issue.errors))
    BY <1>1, <1>2, MergeDetail
  <2>2. \A p \in Nat \X Nat : more[p] = said[p] + Claims(issue.errors, p)
    BY <1>2
  <2>3. PICK raw : raw = issue.errors
    OBVIOUS
  <2> QED
    BY <1>1, <2>1, <2>2, <2>3, MergeTells
<1>3. CASE fp # issue.fp
  <2>1. next = old
    BY <1>1, <1>3, MergeDetail
  <2>2. \A p \in Nat \X Nat : more[p] = said[p]
    BY <1>3 DEF Reporteds
  <2> QED
    BY <1>1, <2>1, <2>2, TellsMore
<1> QED
  BY <1>2, <1>3

LEMMA FiledReports == ASSUME NEW issue \in Filed PROVE Listing(issue.errors)
<1>1. issue.errors \in Seq(ErrorCount)
  BY MeshHostAssumption DEF ErrorCount
<1> QED
  BY <1>1, ListReports

\* A list of issues tells what all of its entries with the fingerprint report.
Told(items, p) == [k \in DOMAIN items |-> Claims(items[k].errors, p)]
LEMMA IssuesTell ==
    ASSUME NEW before, NEW items \in Seq(Filed), NEW fp, NEW said \in Reporteds, NEW fully,
           Tells(DetailIn(before, fp), said, fully),
           NEW more, \A p \in Nat \X Nat :
                         more[p] = said[p] + SumFunctionOnSet(Told(items, p), Places(items, fp))
    PROVE  Tells(DetailIn(FoldLeft(MergeIssue, before, items), fp), more, fully)
<1>1. PICK n \in Nat : DOMAIN items = 1 .. n /\ \A i \in 1 .. n : items[i] \in Filed /\ Listing(items[i].errors)
  BY LenProperties, ElementOfSeq, FiledReports
<1>2. PICK a : /\ a[0] = before /\ FoldLeft(MergeIssue, before, items) = a[n]
               /\ \A i \in 1 .. n : a[i] = MergeIssue(a[i - 1], items[i])
  <2>1. PICK kind : kind # "events"
    OBVIOUS
  <2>2. PICK a : Steps(a, kind, before, items, n)
    BY <1>1, FoldSteps
  <2>3. AllTakenIn(kind, before, items) = FoldLeft(MergeIssue, before, items)
    BY <2>1, Zenon DEF AllTakenIn
  <2>4. \A i \in 1 .. n : TakenIn(kind, a[i - 1], items[i]) = MergeIssue(a[i - 1], items[i])
    BY <2>1, Zenon DEF TakenIn
  <2>5. \A i \in 1 .. n : a[i] = MergeIssue(a[i - 1], items[i])
    BY <2>2, <2>4, Zenon DEF Steps
  <2> QED
    BY <2>2, <2>3, <2>5, Zenon DEF Steps
<1> DEFINE At(i) == {k \in 1 .. i : items[k].fp = fp}
           Sum(i, p) == SumFunctionOnSet(Told(items, p), At(i))
<1>3. ASSUME NEW p \in Nat \X Nat, NEW i \in 0 .. n
      PROVE  /\ Sum(i, p) \in Nat /\ (i = 0 => Sum(i, p) = 0)
             /\ i # 0 => Sum(i, p) = Sum(i - 1, p) + (IF fp = items[i].fp THEN Claims(items[i].errors, p) ELSE 0)
  <2>1. PICK g : g = Told(items, p)
    OBVIOUS
  <2>2. \A k \in 1 .. n : g[k] = Claims(items[k].errors, p) /\ g[k] \in Nat
    BY <1>1, <2>1, ClaimsAre DEF Told
  <2>3. PICK S, T : S = At(i) /\ T = At(i - 1)
    OBVIOUS
  <2>4. S \in SUBSET (1 .. n) /\ T \in SUBSET (1 .. n)
    BY <2>3
  <2>5. IsFiniteSet(1 .. n)
    BY <1>1, FS_Interval
  <2>6. IsFiniteSet(S) /\ IsFiniteSet(T) /\ \A k \in 1 .. n : g[k] \in Nat
    BY <2>2, <2>4, <2>5, FS_Subset
  <2>7. /\ SumFunctionOnSet(g, S) \in Nat /\ SumFunctionOnSet(g, T) \in Nat
        /\ S = {} => SumFunctionOnSet(g, S) = 0
        /\ \A x \in S : SumFunctionOnSet(g, S) = g[x] + SumFunctionOnSet(g, S \ {x})
    <3>1. (\A x \in S : g[x] \in Nat) /\ \A x \in T : g[x] \in Nat
      BY <2>4, <2>6
    <3>2. SumFunctionOnSet(g, T) \in Nat
      BY <2>6, <3>1, SumSplits
    <3>3. SumFunctionOnSet(g, S) \in Nat
      BY <2>6, <3>1, SumSplits
    <3>4. S = {} => SumFunctionOnSet(g, S) = 0
      BY <2>6, <3>1, SumSplits
    <3>5. \A x \in S : SumFunctionOnSet(g, S) = g[x] + SumFunctionOnSet(g, S \ {x})
      BY <2>6, <3>1, SumSplits
    <3> QED
      BY <3>2, <3>3, <3>4, <3>5
  <2>8. i = 0 => S = {}
    BY <2>3
  <2>9. i # 0 /\ fp = items[i].fp => i \in S /\ S \ {i} = T
    BY <2>3
  <2>10. i # 0 /\ fp # items[i].fp => S = T
    BY <2>3
  <2>11. i # 0 => i \in 1 .. n
    OBVIOUS
  <2>12. CASE i = 0
    BY <2>1, <2>3, <2>7, <2>8, <2>12
  <2>13. CASE i # 0 /\ fp = items[i].fp
    <3>1. SumFunctionOnSet(g, S) = g[i] + SumFunctionOnSet(g, T)
      BY <2>7, <2>9, <2>13
    <3>2. PICK u, v : u = g[i] /\ v = SumFunctionOnSet(g, T)
      OBVIOUS
    <3>3. u \in Nat /\ v \in Nat /\ u = Claims(items[i].errors, p)
      BY <2>2, <2>7, <2>11, <2>13, <3>2
    <3>4. SumFunctionOnSet(g, S) = v + u
      BY <3>1, <3>2, <3>3
    <3> QED
      BY <2>1, <2>3, <2>7, <2>13, <3>2, <3>3, <3>4
  <2>14. CASE i # 0 /\ fp # items[i].fp
    <3>1. PICK v : v = SumFunctionOnSet(g, T)
      OBVIOUS
    <3>2. v \in Nat /\ SumFunctionOnSet(g, S) = v + 0
      BY <2>7, <2>10, <2>14, <3>1
    <3> QED
      BY <2>1, <2>3, <2>14, <3>1, <3>2
  <2> QED
    BY <2>12, <2>13, <2>14
<1> HIDE DEF Sum
<1>4. PICK saidAt : saidAt = [i \in 0 .. n |-> [p \in Nat \X Nat |-> said[p] + Sum(i, p)]]
  OBVIOUS
<1>5. \A p \in Nat \X Nat : said[p] \in Nat
  BY DEF Reporteds
<1>6. \A i \in 0 .. n : /\ saidAt[i] = [p \in Nat \X Nat |-> said[p] + Sum(i, p)]
                        /\ \A p \in Nat \X Nat : saidAt[i][p] = said[p] + Sum(i, p)
                        /\ saidAt[i] \in Reporteds
  <2> SUFFICES ASSUME NEW i \in 0 .. n
               PROVE  /\ saidAt[i] = [p \in Nat \X Nat |-> said[p] + Sum(i, p)]
                      /\ \A p \in Nat \X Nat : saidAt[i][p] = said[p] + Sum(i, p)
                      /\ saidAt[i] \in Reporteds
    OBVIOUS
  <2>1. saidAt[i] = [p \in Nat \X Nat |-> said[p] + Sum(i, p)]
    BY <1>4
  <2>2. \A p \in Nat \X Nat : said[p] + Sum(i, p) \in Nat
    BY <1>3, <1>5
  <2>3. \A p \in Nat \X Nat : saidAt[i][p] = said[p] + Sum(i, p)
    BY <2>1
  <2>4. saidAt[i] \in Reporteds
    BY <2>1, <2>2 DEF Reporteds
  <2> QED
    BY <2>1, <2>3, <2>4
<1> DEFINE Right(i) == Tells(DetailIn(a[i], fp), saidAt[i], fully)
           bad == {i \in 0 .. n : ~Right(i)}
<1>7. bad = {}
  <2>1. SUFFICES ASSUME bad # {} PROVE FALSE
    OBVIOUS
  <2>2. PICK i \in bad : \A j \in bad : i <= j
    <3>1. bad \in SUBSET Nat
      OBVIOUS
    <3> HIDE DEF bad
    <3> QED
      BY <2>1, <3>1, LeastExists
  <2>3. i \in 0 .. n /\ ~Right(i)
    OBVIOUS
  <2>4. CASE i = 0
    <3>1. \A p \in Nat \X Nat : saidAt[0][p] = said[p]
      <4>1. 0 \in 0 .. n
        OBVIOUS
      <4>2. \A p \in Nat \X Nat : Sum(0, p) = 0 /\ saidAt[0][p] = said[p] + Sum(0, p)
        BY <1>3, <1>6, <4>1
      <4> QED
        BY <1>5, <4>2
    <3>2. PICK start : start = saidAt[0]
      OBVIOUS
    <3>3. Tells(DetailIn(before, fp), start, fully)
      BY <3>1, <3>2, TellsMore
    <3> QED
      BY <1>2, <2>3, <2>4, <3>2, <3>3
  <2>5. CASE i # 0
    <3>1. i - 1 \in 0 .. n /\ i - 1 \notin bad /\ i \in 1 .. n
      <4>1. i - 1 \in bad => i <= i - 1
        BY <2>2
      <4> HIDE DEF bad
      <4> QED
        BY <2>3, <2>5, <4>1
    <3>2. Right(i - 1)
      BY <3>1
    <3>3. PICK issue, u, v, b : /\ issue = items[i] /\ u = saidAt[i - 1] /\ v = saidAt[i] /\ b = a[i - 1]
      OBVIOUS
    <3>4. a[i] = MergeIssue(b, issue) /\ Listing(issue.errors) /\ u \in Reporteds
      BY <1>1, <1>2, <1>6, <3>1, <3>3
    <3>5. ASSUME NEW p \in Nat \X Nat
          PROVE  v[p] = u[p] + (IF fp = issue.fp THEN Claims(issue.errors, p) ELSE 0)
      <4>1. PICK x, y, z : /\ x = Sum(i - 1, p) /\ y = said[p]
                           /\ z = IF fp = issue.fp THEN Claims(issue.errors, p) ELSE 0
        OBVIOUS
      <4>2. x \in Nat /\ y \in Nat /\ z \in Nat
        BY <1>3, <1>5, <3>1, <3>4, <4>1, ClaimsAre
      <4>3. Sum(i, p) = x + z
        BY <1>3, <2>5, <3>1, <3>3, <4>1
      <4>4. v[p] = y + (x + z) /\ u[p] = y + x
        <5>1. saidAt[i][p] = said[p] + Sum(i, p)
          BY <1>6, <3>1
        <5>2. saidAt[i - 1][p] = said[p] + Sum(i - 1, p)
          BY <1>6, <3>1
        <5> QED
          BY <3>3, <4>1, <4>3, <5>1, <5>2
      <4>5. v[p] = u[p] + z
        BY <4>2, <4>4
      <4> QED
        BY <4>1, <4>5
    <3>6. Tells(DetailIn(b, fp), u, fully)
      BY <3>2, <3>3
    <3>7. Tells(DetailIn(MergeIssue(b, issue), fp), v, fully)
      BY <3>4, <3>5, <3>6, MergeIssueTells
    <3> QED
      BY <2>3, <3>3, <3>4, <3>7
  <2> QED
    BY <2>4, <2>5
<1>8. Right(n)
  <2>1. n \in 0 .. n
    OBVIOUS
  <2> HIDE DEF Right
  <2> QED
    BY <1>7, <2>1
<1>9. PICK last : last = saidAt[n]
  OBVIOUS
<1>10. \A p \in Nat \X Nat : more[p] = last[p]
  <2>1. At(n) = Places(items, fp)
    BY <1>1 DEF Places
  <2>2. \A p \in Nat \X Nat : Sum(n, p) = SumFunctionOnSet(Told(items, p), Places(items, fp))
    BY <2>1 DEF Sum
  <2>3. n \in 0 .. n
    OBVIOUS
  <2>4. \A p \in Nat \X Nat : last[p] = said[p] + Sum(n, p)
    BY <1>6, <1>9, <2>3
  <2> QED
    BY <2>2, <2>4
<1> QED
  BY <1>2, <1>8, <1>9, <1>10, TellsMore

\* Drift has no error detail.
LEMMA FlagTells ==
    ASSUME NEW c, IsCatalog(c), NEW fp, NEW said \in Reporteds, NEW fully,
           Tells(DetailIn(c.issues, fp), said, fully),
           NEW s, NEW topic, NEW declared, NEW trace, NEW d, d = FlagDrift(c, s, topic, declared, trace)
    PROVE  IsCatalog(d) /\ Tells(DetailIn(d.issues, fp), said, fully)
<1>1. CASE d = c
  BY <1>1
<1>2. ASSUME NEW issue, issue.errors = <<>>, d = [c EXCEPT !.issues = MergeIssue(c.issues, issue)]
      PROVE  IsCatalog(d) /\ Tells(DetailIn(d.issues, fp), said, fully)
  <2>1. PICK merged : merged = MergeIssue(c.issues, issue)
    OBVIOUS
  <2>2. d.issues = merged /\ IsCatalog(d)
    BY <1>2, <2>1 DEF IsCatalog
  <2>3. Listing(<<>>)
    BY FS_EmptySet DEF Listing
  <2>4. \A p : Claims(issue.errors, p) = 0
    <3> SUFFICES ASSUME NEW p PROVE Claims(<<>>, p) = 0
      BY <1>2
    <3>1. \A i \in DOMAIN <<>> : PairIn(<<>>[i]) # p
      OBVIOUS
    <3> QED
      BY <2>3, <3>1, ClaimsAre
  <2>5. \A p \in Nat \X Nat : said[p] = said[p] + (IF fp = issue.fp THEN Claims(issue.errors, p) ELSE 0)
    BY <2>4 DEF Reporteds
  <2>6. Tells(DetailIn(MergeIssue(c.issues, issue), fp), said, fully)
    BY <1>2, <2>3, <2>5, MergeIssueTells
  <2> QED
    BY <2>1, <2>2, <2>6
<1>3. ASSUME d # c
      PROVE  \E issue : issue.errors = <<>> /\ d = [c EXCEPT !.issues = MergeIssue(c.issues, issue)]
  <2>1. PICK ex, f : d = [c EXCEPT !.issues = MergeIssue(c.issues,
                       [fp |-> f, count |-> 1, exemplars |-> ex, first |-> 0, last |-> 0, errors |-> <<>>])]
    BY <1>3, Zenon DEF FlagDrift
  <2>2. PICK issue : issue = [fp |-> f, count |-> 1, exemplars |-> ex, first |-> 0, last |-> 0, errors |-> <<>>]
    OBVIOUS
  <2>3. issue.errors = <<>>
    BY <2>2
  <2> QED
    BY <2>1, <2>2, <2>3
<1> QED
  BY <1>1, <1>2, <1>3

\* Nor has a trace.
LEMMA TraceTells ==
    ASSUME NEW c, Sound(c), NEW fp, NEW said \in Reporteds, NEW fully, Tells(DetailIn(c.issues, fp), said, fully),
           NEW e \in Traced, NEW d, d = TraceEvent(c, e)
    PROVE  Tells(DetailIn(d.issues, fp), said, fully)
<1>1. PICK seen, flagged : seen = Observed(c, e) /\ flagged = CalleeChecked(seen, e) /\ d = CallerChecked(flagged, e)
  BY DEF TraceEvent
<1>2. seen.issues = c.issues /\ IsCatalog(seen)
  <2>1. PICK ev, ow, tp, sv : seen = [c EXCEPT !.events = ev, !.owner = ow, !.topics = tp, !.services = sv]
    BY <1>1 DEF Observed
  <2> QED
    BY <2>1 DEF Sound, IsCatalog
<1>3. IsCatalog(flagged) /\ Tells(DetailIn(flagged.issues, fp), said, fully)
  <2>1. flagged = seen \/ \E s, declared : flagged = FlagDrift(seen, s, e.topic, declared, e.trace)
    BY <1>1, Zenon DEF CalleeChecked
  <2> QED
    BY <1>2, <2>1, FlagTells
<1>4. d = flagged \/ \E s, declared : d = FlagDrift(flagged, s, e.topic, declared, e.trace)
  BY <1>1, Zenon DEF CallerChecked
<1> QED
  BY <1>3, <1>4, FlagTells

LEMMA TracesTell ==
    ASSUME NEW c, Sound(c), NEW fp, NEW said \in Reporteds, NEW fully, Tells(DetailIn(c.issues, fp), said, fully),
           NEW items \in Seq(Traced), NEW d, d = ingest_traces(c, items)
    PROVE  Tells(DetailIn(d.issues, fp), said, fully)
<1>1. PICK n \in Nat : DOMAIN items = 1 .. n /\ \A i \in 1 .. n : items[i] \in Traced
  BY LenProperties, ElementOfSeq
<1>2. PICK a : /\ a[0] = c /\ d = a[n]
               /\ \A i \in 1 .. n : a[i] = TraceEvent(a[i - 1], items[i])
  <2>1. \E a : /\ a[0] = c /\ ingest_traces(c, items) = a[n]
               /\ \A i \in 1 .. n : a[i] = TraceEvent(a[i - 1], items[i])
    BY <1>1, TraceSteps
  <2> QED
    BY <2>1, Zenon
<1> DEFINE Right(x) == Sound(x) /\ Tells(DetailIn(x.issues, fp), said, fully)
           bad == {i \in 0 .. n : ~Right(a[i])}
<1>3. bad = {}
  <2>1. SUFFICES ASSUME bad # {} PROVE FALSE
    OBVIOUS
  <2>2. PICK i \in bad : \A j \in bad : i <= j
    <3>1. bad \in SUBSET Nat
      OBVIOUS
    <3> HIDE DEF bad
    <3> QED
      BY <2>1, <3>1, LeastExists
  <2>3. i \in 0 .. n /\ ~Right(a[i])
    OBVIOUS
  <2>4. i # 0
    BY <1>2, <2>3
  <2>5. i - 1 \in bad => i <= i - 1
    BY <2>2
  <2>6. i - 1 \in 0 .. n /\ i \in 1 .. n /\ i - 1 \notin bad
    <3> HIDE DEF bad
    <3> QED
      BY <2>3, <2>4, <2>5
  <2>7. Right(a[i - 1])
    BY <2>6
  <2>8. PICK before, after, e : before = a[i - 1] /\ after = a[i] /\ e = items[i]
    OBVIOUS
  <2>9. after = TraceEvent(before, e) /\ e \in Traced
    BY <1>1, <1>2, <2>6, <2>8
  <2>10. Right(after)
    BY <2>7, <2>8, <2>9, TraceKeeps, TraceTells
  <2> QED
    BY <2>3, <2>8, <2>10
<1>4. n \in 0 .. n
  OBVIOUS
<1> QED
  BY <1>2, <1>3, <1>4

\* What a feed reports of a pair.
Adds(f, fp, p) == IF f \in IssuesIn(Feeds) THEN Detail(f, fp, p) ELSE 0

LEMMA ToldNat ==
    ASSUME NEW items \in Seq(Filed), NEW fp, NEW p PROVE SumFunctionOnSet(Told(items, p), Places(items, fp)) \in Nat
<1>1. PICK n \in Nat : DOMAIN items = 1 .. n /\ \A i \in 1 .. n : items[i] \in Filed
  BY LenProperties, ElementOfSeq
<1>2. PICK g, S : g = Told(items, p) /\ S = Places(items, fp)
  OBVIOUS
<1>3. S \in SUBSET (1 .. n) /\ IsFiniteSet(1 .. n)
  BY <1>1, <1>2, FS_Interval DEF Places
<1>4. \A k \in 1 .. n : Claims(items[k].errors, p) \in Nat
  BY <1>1, FiledReports, ClaimsAre
<1>5. \A k \in 1 .. n : g[k] = Claims(items[k].errors, p)
  BY <1>1, <1>2 DEF Told
<1>6. IsFiniteSet(S) /\ \A k \in S : g[k] \in Nat
  BY <1>3, <1>4, <1>5, FS_Subset
<1> QED
  BY <1>2, <1>6, SumSplits

LEMMA DetailSum ==
    ASSUME NEW f, NEW fp, NEW p
    PROVE  Detail(f, fp, p) = SumFunctionOnSet(Told(ReportsOf(f), p), Places(ReportsOf(f), fp))
BY Zenon DEF Detail, Told, Places

LEMMA AddsNat == ASSUME NEW f, NEW fp, NEW p PROVE Adds(f, fp, p) \in Nat
<1>1. f \in IssuesIn(Feeds) => ReportsOf(f) \in Seq(Filed)
  BY MeshHostAssumption
<1> QED
  BY <1>1, ToldNat, DetailSum DEF Adds

LEMMA IngestTells ==
    ASSUME NEW c, Sound(c), NEW fp, NEW said \in Reporteds, NEW fully, Tells(DetailIn(c.issues, fp), said, fully),
           NEW f \in Feeds, Accepts(FeedOf(f)), NEW d, d = Ingest(c, FeedOf(f)),
           NEW more, \A p \in Nat \X Nat : more[p] = said[p] + Adds(f, fp, p)
    PROVE  Tells(DetailIn(d.issues, fp), more, fully)
<1>1. PICK topic, body : topic = FeedOf(f).topic /\ body = FeedOf(f).body
  OBVIOUS
<1>2. topic \in {"benzene:mesh:register", "benzene:mesh:heartbeat", "benzene:mesh:traces", "benzene:mesh:issues"}
  BY <1>1, MeshHostAssumption
<1>3. /\ f \in TracesIn(Feeds) <=> topic = "benzene:mesh:traces"
      /\ f \in IssuesIn(Feeds) <=> topic = "benzene:mesh:issues"
  BY <1>1 DEF TracesIn, IssuesIn
<1>4. ASSUME topic # "benzene:mesh:issues", Tells(DetailIn(d.issues, fp), said, fully)
      PROVE  Tells(DetailIn(d.issues, fp), more, fully)
  <2>1. \A p \in Nat \X Nat : more[p] = said[p]
    BY <1>3, <1>4 DEF Adds, Reporteds
  <2>2. PICK errors : errors = DetailIn(d.issues, fp)
    OBVIOUS
  <2> QED
    BY <1>4, <2>1, <2>2, TellsMore
<1>5. CASE topic = "benzene:mesh:register"
  <2>1. PICK sv, t, ever : d = [c EXCEPT !.services = sv, !.topics = t, !.everConsumed = ever]
    BY <1>1, <1>5 DEF Ingest, ingest_register
  <2>2. d.issues = c.issues
    BY <2>1 DEF Sound, IsCatalog
  <2> QED
    BY <1>4, <1>5, <2>2
<1>6. CASE topic = "benzene:mesh:heartbeat"
  <2>1. PICK sv : d = [c EXCEPT !.services = sv]
    BY <1>1, <1>6 DEF Ingest, ingest_heartbeat
  <2>2. d.issues = c.issues
    BY <2>1 DEF Sound, IsCatalog
  <2> QED
    BY <1>4, <1>6, <2>2
<1>7. CASE topic = "benzene:mesh:traces"
  <2>1. d = ingest_traces(c, EventsOf(f))
    BY <1>1, <1>7 DEF Ingest, EventsOf
  <2>2. EventsOf(f) \in Seq(Traced)
    BY <1>3, <1>7, MeshHostAssumption
  <2> QED
    BY <1>4, <1>7, <2>1, <2>2, TracesTell
<1>8. CASE topic = "benzene:mesh:issues"
  <2>1. PICK items : items = ReportsOf(f)
    OBVIOUS
  <2>2. items \in Seq(Filed)
    BY <1>3, <1>8, <2>1, MeshHostAssumption
  <2>3. PICK sv : d = [c EXCEPT !.services = sv, !.issues = FoldLeft(MergeIssue, c.issues, items)]
    BY <1>1, <1>8, <2>1 DEF Ingest, ingest_issues, ReportsOf
  <2>4. PICK merged : merged = FoldLeft(MergeIssue, c.issues, items)
    OBVIOUS
  <2>5. d.issues = merged
    BY <2>3, <2>4 DEF Sound, IsCatalog
  <2>6. \A p \in Nat \X Nat : more[p] = said[p] + SumFunctionOnSet(Told(items, p), Places(items, fp))
    BY <1>3, <1>8, <2>1, DetailSum DEF Adds
  <2>7. PICK issues : issues = c.issues
    OBVIOUS
  <2>8. Tells(DetailIn(FoldLeft(MergeIssue, issues, items), fp), more, fully)
    BY <2>2, <2>6, <2>7, IssuesTell
  <2> QED
    BY <2>4, <2>5, <2>7, <2>8
<1> QED
  BY <1>2, <1>5, <1>6, <1>7, <1>8

\* And the claims of a pair what was reported of it.
AddsOf(fp, p) == [x \in IssuesIn(Feeds) |-> Detail(x, fp, p)]
LEMMA ReportedWeighs ==
    ASSUME NEW many, NEW fp, NEW p
    PROVE  /\ SumFunction([f \in IssuesIn(Feeds) |-> many[f] * Detail(f, fp, p)]) = Weighted(many, AddsOf(fp, p))
           /\ \A x \in IssuesIn(Feeds) : AddsOf(fp, p)[x] \in Nat /\ AddsOf(fp, p)[x] = Adds(x, fp, p)
<1>1. \A x \in IssuesIn(Feeds) : AddsOf(fp, p)[x] = Detail(x, fp, p)
  BY DEF AddsOf
<1>2. \A x \in IssuesIn(Feeds) : AddsOf(fp, p)[x] \in Nat /\ AddsOf(fp, p)[x] = Adds(x, fp, p)
  <2>1. \A x \in IssuesIn(Feeds) : Adds(x, fp, p) = Detail(x, fp, p)
    BY DEF Adds
  <2> QED
    BY <1>1, <2>1, AddsNat
<1>3. [f \in IssuesIn(Feeds) |-> many[f] * Detail(f, fp, p)] = [f \in IssuesIn(Feeds) |-> many[f] * AddsOf(fp, p)[f]]
  BY <1>1
<1> QED
  BY <1>2, <1>3, Zenon DEF Weighted

\* What was reported under a fingerprint.
SaidOf(fp) == [p \in Nat \X Nat |-> Reported(fp, p)]

LEMMA SaidNat ==
    ASSUME deliveries \in [Feeds -> Nat], NEW fp
    PROVE  SaidOf(fp) \in Reporteds /\ \A p \in Nat \X Nat : SaidOf(fp)[p] = Reported(fp, p)
<1>1. \A p : Reported(fp, p) \in Nat
  <2> SUFFICES ASSUME NEW p PROVE Reported(fp, p) \in Nat
    OBVIOUS
  <2>1. Reported(fp, p) = Weighted(deliveries, AddsOf(fp, p)) /\ \A x \in IssuesIn(Feeds) : AddsOf(fp, p)[x] \in Nat
    BY ReportedWeighs DEF Reported
  <2> QED
    BY <2>1, WeightedNat
<1> QED
  BY <1>1 DEF SaidOf, Reporteds

\* One more delivery: what it adds is what its feed reports.
LEMMA DeliverySaid ==
    ASSUME MeshHostInv, NEW f \in Feeds, deliveries' = [deliveries EXCEPT ![f] = @ + 1], NEW fp
    PROVE  \E said, more \in Reporteds : /\ said = SaidOf(fp) /\ more = SaidOf(fp)'
                                         /\ \A p \in Nat \X Nat : more[p] = said[p] + Adds(f, fp, p)
<1>1. deliveries \in [Feeds -> Nat]
  BY DEF MeshHostInv, MeshHostTypeOK
<1>2. PICK many, next : many = deliveries /\ next = deliveries'
  OBVIOUS
<1>3. /\ many \in [Feeds -> Nat] /\ \A x \in Feeds : next[x] = IF x = f THEN many[x] + 1 ELSE many[x]
      /\ next \in [Feeds -> Nat]
  BY <1>1, <1>2
<1>4. PICK said, more : /\ said = [p \in Nat \X Nat |-> Weighted(many, AddsOf(fp, p))]
                        /\ more = [p \in Nat \X Nat |-> Weighted(next, AddsOf(fp, p))]
  OBVIOUS
<1>5. said = SaidOf(fp) /\ more = SaidOf(fp)'
  <2>1. \A p : Reported(fp, p) = Weighted(many, AddsOf(fp, p)) /\ Reported(fp, p)' = Weighted(next, AddsOf(fp, p))
    <3> SUFFICES ASSUME NEW p
                 PROVE  Reported(fp, p) = Weighted(many, AddsOf(fp, p)) /\ Reported(fp, p)' = Weighted(next, AddsOf(fp, p))
      OBVIOUS
    <3>1. /\ Reported(fp, p) = SumFunction([x \in IssuesIn(Feeds) |-> many[x] * Detail(x, fp, p)])
          /\ Reported(fp, p)' = SumFunction([x \in IssuesIn(Feeds) |-> next[x] * Detail(x, fp, p)])
      BY <1>2 DEF Reported
    <3> QED
      BY <3>1, ReportedWeighs
  <2> QED
    BY <1>4, <2>1 DEF SaidOf
<1>6. ASSUME NEW p \in Nat \X Nat
      PROVE  said[p] \in Nat /\ more[p] \in Nat /\ more[p] = said[p] + Adds(f, fp, p)
  <2>1. PICK w : w = AddsOf(fp, p)
    OBVIOUS
  <2>2. \A x \in IssuesIn(Feeds) : w[x] \in Nat /\ w[x] = Adds(x, fp, p)
    BY <2>1, ReportedWeighs
  <2>3. Weighted(next, w) = Weighted(many, w) + (IF f \in IssuesIn(Feeds) THEN w[f] ELSE 0)
    BY <1>3, <2>2, WeightedGrows
  <2>4. Weighted(many, w) \in Nat /\ Weighted(next, w) \in Nat
    BY <1>3, <2>2, WeightedNat
  <2>5. Adds(f, fp, p) = IF f \in IssuesIn(Feeds) THEN w[f] ELSE 0
    BY <2>2 DEF Adds
  <2> QED
    BY <1>4, <2>1, <2>3, <2>4, <2>5
<1>7. said \in Reporteds /\ more \in Reporteds
  BY <1>4, <1>6 DEF Reporteds
<1> QED
  BY <1>5, <1>6, <1>7

\* No catalog's detail claims more than was reported, and the one to go on with claims
\* no less either where there is room, as long as nothing failed.
DetailsRight ==
    \A fp : /\ Tells(DetailIn(cat.issues, fp), SaidOf(fp), FALSE)
            /\ Tells(DetailIn(HostLoad.issues, fp), SaidOf(fp), FALSE)
            /\ hostTrouble = 0 => Tells(DetailIn(IF pc = "down" THEN HostLoad.issues ELSE cat.issues, fp),
                                        SaidOf(fp), TRUE)

LEMMA NothingTells ==
    ASSUME NEW fp, NEW said \in Reporteds
    PROVE  /\ Tells(DetailIn(EmptyCatalog.issues, fp), said, FALSE)
           /\ (\A p \in Nat \X Nat : said[p] = 0) => Tells(DetailIn(EmptyCatalog.issues, fp), said, TRUE)
<1>1. DetailIn(EmptyCatalog.issues, fp) = <<>>
  <2>1. EmptyCatalog.issues = EmptyMap
    BY DEF EmptyCatalog
  <2> QED
    BY <2>1 DEF DetailIn, EmptyMap
<1>2. <<>> \in Seq(ErrorCount) /\ Len(<<>>) = 0 /\ DOMAIN <<>> = {}
  OBVIOUS
<1>3. Honest(<<>>, said)
  BY <1>2, MeshHostAssumption DEF Honest, InOrderOfErrors
<1>4. \A p : Claims(<<>>, p) = 0
  <2>1. Listing(<<>>)
    BY <1>2, ListReports
  <2> QED
    BY <1>2, <2>1, ClaimsAre
<1> QED
  BY <1>1, <1>3, <1>4 DEF Tells

LEMMA DetailsStart == MeshHostInit => DetailsRight
<1> SUFFICES ASSUME MeshHostInit, NEW fp
             PROVE  /\ Tells(DetailIn(cat.issues, fp), SaidOf(fp), FALSE)
                    /\ Tells(DetailIn(HostLoad.issues, fp), SaidOf(fp), FALSE)
                    /\ Tells(DetailIn(IF pc = "down" THEN HostLoad.issues ELSE cat.issues, fp), SaidOf(fp), TRUE)
  BY DEF DetailsRight
<1>1. cat = EmptyCatalog /\ HostLoad = EmptyCatalog /\ deliveries = [f \in Feeds |-> 0]
  BY StartsEmpty DEF MeshHostInit, MeshHostStart
<1>2. deliveries \in [Feeds -> Nat]
  BY <1>1
<1>3. \A p \in Nat \X Nat : SaidOf(fp)[p] = 0
  <2> SUFFICES ASSUME NEW p \in Nat \X Nat PROVE Reported(fp, p) = 0
    BY <1>2, SaidNat
  <2>1. Reported(fp, p) = Weighted(deliveries, AddsOf(fp, p)) /\ \A x \in IssuesIn(Feeds) : AddsOf(fp, p)[x] \in Nat
    BY ReportedWeighs DEF Reported
  <2>2. PICK many : many = deliveries
    OBVIOUS
  <2> QED
    BY <1>1, <2>1, <2>2, NothingWeighs
<1>4. PICK said : said = SaidOf(fp)
  OBVIOUS
<1>5. said \in Reporteds
  BY <1>2, <1>4, SaidNat
<1> QED
  BY <1>1, <1>3, <1>4, <1>5, NothingTells

LEMMA DeliverTells == ASSUME MeshHostInv, DetailsRight, NEW f \in Feeds, Deliver(f) PROVE DetailsRight'
<1>1. /\ HostLoad' = HostLoad /\ pc' = "saving" /\ pc = "idle" /\ hostTrouble' = hostTrouble
      /\ deliveries' = [deliveries EXCEPT ![f] = @ + 1]
      /\ cat' = Ingest(cat, FeedOf(f)) /\ Accepts(FeedOf(f))
  BY DEF Deliver, HostLoad
<1>2. PICK c, d, older : c = cat /\ d = cat' /\ older = HostLoad
  OBVIOUS
<1>3. Sound(c) /\ d = Ingest(c, FeedOf(f))
  BY <1>1, <1>2 DEF MeshHostInv
<1>4. ASSUME NEW fp
      PROVE  /\ Tells(DetailIn(d.issues, fp), SaidOf(fp)', FALSE)
             /\ Tells(DetailIn(older.issues, fp), SaidOf(fp)', FALSE)
             /\ hostTrouble = 0 => Tells(DetailIn(d.issues, fp), SaidOf(fp)', TRUE)
  <2>1. PICK said, more \in Reporteds : /\ said = SaidOf(fp) /\ more = SaidOf(fp)'
                                        /\ \A p \in Nat \X Nat : more[p] = said[p] + Adds(f, fp, p)
    BY <1>1, DeliverySaid
  <2>2. /\ Tells(DetailIn(c.issues, fp), said, FALSE) /\ Tells(DetailIn(older.issues, fp), said, FALSE)
        /\ hostTrouble = 0 => Tells(DetailIn(c.issues, fp), said, TRUE)
    BY <1>1, <1>2, <2>1 DEF DetailsRight
  <2>3. \A fully : Tells(DetailIn(c.issues, fp), said, fully) => Tells(DetailIn(d.issues, fp), more, fully)
    BY <1>1, <1>3, <2>1, IngestTells
  <2>4. Tells(DetailIn(older.issues, fp), more, FALSE)
    <3>1. PICK errors : errors = DetailIn(older.issues, fp)
      OBVIOUS
    <3>2. \A p \in Nat \X Nat : said[p] <= more[p]
      BY <2>1, AddsNat DEF Reporteds
    <3> QED
      BY <2>1, <2>2, <3>1, <3>2, HonestMore
  <2> QED
    BY <2>1, <2>2, <2>3, <2>4
<1> QED
  BY <1>1, <1>2, <1>4 DEF DetailsRight

LEMMA RefuseTells == ASSUME MeshHostInv, DetailsRight, NEW f \in Feeds, Refuse(f) PROVE DetailsRight'
<1>1. /\ HostLoad' = HostLoad /\ cat' = cat /\ pc' = pc /\ hostTrouble' = hostTrouble
      /\ deliveries' = [deliveries EXCEPT ![f] = @ + 1] /\ f \notin IssuesIn(Feeds)
  BY DEF Refuse, HostLoad, IssuesIn
<1>2. ASSUME NEW fp PROVE SaidOf(fp)' = SaidOf(fp)
  <2>1. PICK said, more \in Reporteds : /\ said = SaidOf(fp) /\ more = SaidOf(fp)'
                                        /\ \A p \in Nat \X Nat : more[p] = said[p] + Adds(f, fp, p)
    BY <1>1, DeliverySaid
  <2>2. \A p \in Nat \X Nat : more[p] = said[p]
    BY <1>1, <2>1 DEF Adds, Reporteds
  <2>3. more = said
    BY <2>1, <2>2 DEF Reporteds
  <2> QED
    BY <2>1, <2>3
<1> QED
  BY <1>1, <1>2 DEF DetailsRight

LEMMA SaveTells ==
    ASSUME MeshHostInv, DetailsRight, CollectorStep \/ SaveFails \/ KillCollector \/ UNCHANGED meshHostVars
    PROVE  DetailsRight'
<1>1. \A fp : SaidOf(fp)' = SaidOf(fp)
  <2>1. deliveries' = deliveries
    BY DEF CollectorStep, StartCollector, WriteTemp, Replace, Answer, SaveFails, KillCollector, meshHostVars
  <2> QED
    BY <2>1 DEF SaidOf, Reported
<1>2. \A fp : SaidOf(fp) \in Reporteds
  BY SaidNat DEF MeshHostInv, MeshHostTypeOK
<1>3. hostTrouble \in Nat
  BY DEF MeshHostInv, MeshHostTypeOK
<1>4. CASE StartCollector
  <2>1. HostLoad' = HostLoad /\ cat' = HostLoad /\ hostTrouble' = hostTrouble /\ pc' = "idle" /\ pc = "down"
    BY <1>4 DEF StartCollector, HostLoad
  <2> QED
    BY <1>1, <2>1 DEF DetailsRight
<1>5. CASE WriteTemp \/ Answer \/ UNCHANGED meshHostVars
  <2>1. /\ HostLoad' = HostLoad /\ cat' = cat /\ hostTrouble' = hostTrouble
        /\ pc' = "down" <=> pc = "down"
    BY <1>5 DEF WriteTemp, Answer, meshHostVars, HostLoad
  <2> QED
    BY <1>1, <2>1 DEF DetailsRight
<1>6. CASE Replace
  <2>1. cat' = cat /\ hostTrouble' = hostTrouble /\ pc' = "answering" /\ pc = "replacing"
    BY <1>6 DEF Replace
  <2>2. HostLoad' = cat
    BY <1>6, ReplacedLoads
  <2> QED
    BY <1>1, <2>1, <2>2 DEF DetailsRight
<1>7. CASE SaveFails \/ KillCollector
  <2>1. HostLoad' = HostLoad /\ cat' \in {cat, EmptyCatalog} /\ hostTrouble' = hostTrouble + 1
    BY <1>7 DEF SaveFails, KillCollector, HostLoad
  <2>2. hostTrouble' # 0
    BY <1>3, <2>1
  <2>3. \A fp : Tells(DetailIn(EmptyCatalog.issues, fp), SaidOf(fp), FALSE)
    BY <1>2, NothingTells
  <2> QED
    BY <1>1, <2>1, <2>2, <2>3 DEF DetailsRight
<1> QED
  BY <1>4, <1>5, <1>6, <1>7 DEF CollectorStep

LEMMA DetailsHold == MeshHostInv /\ DetailsRight /\ [MeshHostNext]_meshHostVars => DetailsRight'
<1> SUFFICES ASSUME MeshHostInv, DetailsRight, [MeshHostNext]_meshHostVars PROVE DetailsRight'
  OBVIOUS
<1>1. CASE CollectorStep \/ SaveFails \/ KillCollector \/ UNCHANGED meshHostVars
  BY <1>1, SaveTells
<1>2. ASSUME NEW f \in Feeds, Deliver(f) \/ Refuse(f) PROVE DetailsRight'
  BY <1>2, DeliverTells, RefuseTells
<1> QED
  BY <1>1, <1>2 DEF MeshHostNext

LEMMA DetailsShown == MeshHostInv /\ DetailsRight => ErrorDetailHonest
<1> SUFFICES ASSUME MeshHostInv, DetailsRight, pc = "saving", NEW fp \in DOMAIN cat.issues,
                    NEW errors, errors = cat.issues[fp].errors
             PROVE  /\ Len(errors) <= MaxErrors
                    /\ \A j, k \in DOMAIN errors : j < k => Precedes(errors[j], errors[k])
                    /\ \A k \in DOMAIN errors :
                         errors[k].count <= Reported(fp, <<errors[k].field, errors[k].code>>)
                    /\ Len(errors) < MaxErrors /\ hostTrouble = 0 =>
                         \A p \in PairsOf(errors) \cup PairsReported : Claims(errors, p) = Reported(fp, p)
  BY Zenon DEF ErrorDetailHonest
<1>1. errors = DetailIn(cat.issues, fp)
  BY DEF DetailIn
<1>2. Tells(errors, SaidOf(fp), FALSE) /\ (hostTrouble = 0 => Tells(errors, SaidOf(fp), TRUE))
  BY <1>1 DEF DetailsRight
<1>3. \A p \in Nat \X Nat : SaidOf(fp)[p] = Reported(fp, p)
  BY SaidNat DEF MeshHostInv, MeshHostTypeOK
<1>4. errors \in Seq(ErrorCount) /\ Len(errors) <= MaxErrors /\ InOrderOfErrors(errors)
  BY <1>2 DEF Tells, Honest
<1>5. ASSUME NEW k \in DOMAIN errors PROVE errors[k].count <= Reported(fp, <<errors[k].field, errors[k].code>>)
  <2>1. errors[k] \in ErrorCount
    BY <1>4, ListReports DEF Listing
  <2>2. PairIn(errors[k]) \in Nat \X Nat
    BY <2>1 DEF ErrorCount, PairIn
  <2>3. errors[k].count <= SaidOf(fp)[PairIn(errors[k])]
    BY <1>2 DEF Tells, Honest
  <2> QED
    BY <1>3, <2>2, <2>3 DEF PairIn
<1>6. ASSUME Len(errors) < MaxErrors, hostTrouble = 0, NEW p \in PairsOf(errors) \cup PairsReported
      PROVE  Claims(errors, p) = Reported(fp, p)
  <2>1. p \in Nat \X Nat /\ p # <<0, 0>>
    <3>1. CASE p \in PairsOf(errors)
      BY <1>4, <3>1, ListReports, PairsAre
    <3>2. CASE p \in PairsReported
      <4>1. PICK issue \in Filed : p \in PairsOf(issue.errors)
        BY <3>2 DEF PairsReported
      <4>2. PairsOf(issue.errors) \subseteq (Nat \X Nat) \ {<<0, 0>>}
        BY FiledReports, PairsAre
      <4> QED
        BY <4>1, <4>2
    <3> QED
      BY <1>6, <3>1, <3>2
  <2> QED
    BY <1>2, <1>3, <1>6, <2>1 DEF Tells
<1> QED
  BY <1>4, <1>5, <1>6 DEF InOrderOfErrors

\* Whatever feeds the collector takes, in whatever order, again and again, and whatever
\* crash or failing save there is: the error detail of an issue is ordered, bounded and
\* claims no pair more often than it was reported, and each exactly as often while the
\* bound leaves room and nothing has failed; the documents for the mesh UI, each derived
\* on its own, agree with each other; and a flow has the status of the earliest of its
\* failing events, or of its earliest, and spans them all, in whatever order they came.
THEOREM CatalogTells == MeshHostSpec => []CatalogTellsTruly
<1>1. MeshHostInit => AllListed
  BY StartsEmpty, EmptyListed DEF AllListed, MeshHostInit, MeshHostStart
<1>2. MeshHostInv /\ AllListed /\ DetailsRight => CatalogTellsTruly
  BY DocumentsShown, FlowsShown, DetailsShown DEF CatalogTellsTruly
<1> QED
  BY CollectorStarts, CollectorHolds, ListedHolds, DetailsStart, DetailsHold, <1>1, <1>2, PTL DEF MeshHostSpec
=============================================================================
