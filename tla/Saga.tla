--------------------------------- MODULE Saga ---------------------------------
(***************************************************************************)
(* benzene-resilience: one execution of a saga (saga.py).  The steps run   *)
(* in order; the first that fails turns execute into _rollback, which goes *)
(* back over the completed steps.  Both may be cancelled at an await.      *)
(*                                                                         *)
(* "effects" is what the world has seen: the steps whose action took       *)
(* effect and was not undone.  An action that fails, and a compensation    *)
(* that raises, may have got there or not.                                 *)
(***************************************************************************)
EXTENDS Naturals, Sequences, SequencesExt, FiniteSets

CONSTANT SagaSteps      \* the number of steps
ASSUME SagaStepsAssumption == SagaSteps \in Nat

VARIABLES undoable,     \* the steps that have a compensation
          sagaPhase,    \* "ahead", "back", "reported" or "cancelled"
          completed,    \* the steps whose action succeeded, in run order
          toUndo,       \* the reversed completed steps _rollback still has to visit
          compensated, compensationFailures, failedStep,    \* of the SagaResult
          effects

sagaVars == <<undoable, sagaPhase, completed, toUndo, compensated, compensationFailures, failedStep, effects>>

SagaStart ==
    /\ sagaPhase = "ahead"
    /\ completed = <<>> /\ toUndo = <<>>
    /\ compensated = <<>> /\ compensationFailures = <<>> /\ failedStep = 0
    /\ effects = {}

SagaInit == undoable \in SUBSET (1..SagaSteps) /\ SagaStart

NextStep == Len(completed) + 1

\* The action returned None or a successful result.
StepSucceeds ==
    /\ sagaPhase = "ahead" /\ NextStep <= SagaSteps
    /\ completed' = Append(completed, NextStep)
    /\ effects' = effects \cup {NextStep}
    /\ UNCHANGED <<undoable, sagaPhase, toUndo, compensated, compensationFailures, failedStep>>

\* Fault: the failing step counts as completed.
StepFailsCompleted ==
    /\ sagaPhase = "ahead" /\ NextStep <= SagaSteps
    /\ sagaPhase' = "back"
    /\ failedStep' = NextStep
    /\ completed' = Append(completed, NextStep)
    /\ toUndo' = Reverse(completed')
    /\ effects' \in {effects, effects \cup {NextStep}}
    /\ UNCHANGED <<undoable, compensated, compensationFailures>>

\* The action returned a failure or raised: the rollback begins.
StepFails ==
    /\ sagaPhase = "ahead" /\ NextStep <= SagaSteps
    /\ sagaPhase' = "back"
    /\ failedStep' = NextStep
    /\ toUndo' = Reverse(completed)
    /\ effects' \in {effects, effects \cup {NextStep}}
    /\ UNCHANGED <<undoable, completed, compensated, compensationFailures>>

AllSucceeded ==
    /\ sagaPhase = "ahead" /\ NextStep > SagaSteps
    /\ sagaPhase' = "reported"
    /\ UNCHANGED <<undoable, completed, toUndo, compensated, compensationFailures, failedStep, effects>>

\* A completed step without a compensation is passed over.
PassOver ==
    /\ sagaPhase = "back" /\ toUndo # <<>> /\ Head(toUndo) \notin undoable
    /\ toUndo' = Tail(toUndo)
    /\ UNCHANGED <<undoable, sagaPhase, completed, compensated, compensationFailures, failedStep, effects>>

\* Fault: the oldest completed step is undone first.
CompensateOldest ==
    /\ sagaPhase = "back" /\ toUndo # <<>> /\ Last(toUndo) \in undoable
    /\ compensated' = Append(compensated, Last(toUndo))
    /\ effects' = effects \ {Last(toUndo)}
    /\ toUndo' = Front(toUndo)
    /\ UNCHANGED <<undoable, sagaPhase, completed, compensationFailures, failedStep>>

Compensate ==
    /\ sagaPhase = "back" /\ toUndo # <<>> /\ Head(toUndo) \in undoable
    /\ compensated' = Append(compensated, Head(toUndo))
    /\ effects' = effects \ {Head(toUndo)}
    /\ toUndo' = Tail(toUndo)
    /\ UNCHANGED <<undoable, sagaPhase, completed, compensationFailures, failedStep>>

\* Fault: the first compensation that raises ends the rollback.
CompensationRaisesEnds ==
    /\ sagaPhase = "back" /\ toUndo # <<>> /\ Head(toUndo) \in undoable
    /\ compensationFailures' = Append(compensationFailures, Head(toUndo))
    /\ effects' \in {effects, effects \ {Head(toUndo)}}
    /\ toUndo' = <<>>
    /\ UNCHANGED <<undoable, sagaPhase, completed, compensated, failedStep>>

\* A compensation that raises is recorded, and the others still run.
CompensationRaises ==
    /\ sagaPhase = "back" /\ toUndo # <<>> /\ Head(toUndo) \in undoable
    /\ compensationFailures' = Append(compensationFailures, Head(toUndo))
    /\ effects' \in {effects, effects \ {Head(toUndo)}}
    /\ toUndo' = Tail(toUndo)
    /\ UNCHANGED <<undoable, sagaPhase, completed, compensated, failedStep>>

RolledBack ==
    /\ sagaPhase = "back" /\ toUndo = <<>>
    /\ sagaPhase' = "reported"
    /\ UNCHANGED <<undoable, completed, toUndo, compensated, compensationFailures, failedStep, effects>>

\* CancelledError is no Exception: it leaves execute, or _rollback, at the await it is
\* in, with no report and nothing more undone.
CancelSaga ==
    /\ \/ sagaPhase = "ahead" /\ NextStep <= SagaSteps
          /\ effects' \in {effects, effects \cup {NextStep}}
       \/ sagaPhase = "back" /\ toUndo # <<>> /\ Head(toUndo) \in undoable
          /\ effects' \in {effects, effects \ {Head(toUndo)}}
    /\ sagaPhase' = "cancelled"
    /\ UNCHANGED <<undoable, completed, toUndo, compensated, compensationFailures, failedStep>>

SagaNext == \/ StepSucceeds \/ StepFails \/ AllSucceeded
            \/ PassOver \/ Compensate \/ CompensationRaises \/ RolledBack
            \/ CancelSaga

SagaSpec == SagaInit /\ [][SagaNext]_sagaVars

-----------------------------------------------------------------------------
\* What a reported saga leaves behind: all of its effects when it succeeded; otherwise
\* only the failing step's own, those of steps without a compensation, and those the
\* report names as compensation failures.  No such promise is kept when it is cancelled.
ReportAccountsForEffects ==
    sagaPhase = "reported" =>
        IF failedStep = 0 THEN effects = 1..SagaSteps
        ELSE effects \subseteq {failedStep} \cup (ToSet(completed) \ undoable) \cup ToSet(compensationFailures)

\* A step is undone only while everything that was built on it is gone already: its own
\* effect is lifted after those of all later steps that can be undone, unless their
\* compensation failed, whatever the point at which the saga is left.
UndoneNewestFirst ==
    \A s \in ToSet(compensated) \cup ToSet(compensationFailures) :
        /\ s \in ToSet(completed)
        /\ \A later \in ToSet(completed) \cap undoable :
               later > s => later \in ToSet(compensated) \cup ToSet(compensationFailures)

\* The report names every step before the failing one that has a compensation exactly
\* once, and never the failing step, which is not undone.
ReportNamesEachOnce ==
    sagaPhase = "reported" /\ failedStep # 0 =>
        LET named == compensated \o compensationFailures
        IN  ToSet(named) = (1..(failedStep - 1)) \cap undoable /\ Len(named) = Cardinality(ToSet(named))

\* Saga.execute's report and the world agree: what is left standing is what the report
\* owns up to, each step was undone once, and later ones first.
SagaAccountsForEffects == ReportAccountsForEffects /\ UndoneNewestFirst /\ ReportNamesEachOnce
=============================================================================
