------------------------ MODULE WorkflowEngineProofs ------------------------
(***************************************************************************)
(* The scheduler's safety invariants, for every acyclic or cyclic          *)
(* definition, every set of steps and every retry bound: types, and that   *)
(* a step is launched once.                                                *)
(***************************************************************************)
EXTENDS WorkflowEngine, FiniteSetTheorems, TLAPS

\* A leaf is first-order reasoning unless it names SMT, for arithmetic.
USE ZenonT(30)

(* A finite set has a natural cardinality, and so does each set of steps.  *)
LEMMA StepSets ==
    ASSUME NEW S \in SUBSET Steps
    PROVE  /\ IsFiniteSet(S) /\ Cardinality(S) \in Nat
           /\ Cardinality(S) = Cardinality(Steps) => S = Steps
<1>1. IsFiniteSet(Steps) BY EngineAssumption
<1>2. /\ IsFiniteSet(S) /\ Cardinality(S) <= Cardinality(Steps)
      /\ Cardinality(S) = Cardinality(Steps) => S = Steps
    BY <1>1, FS_Subset, FS_CardinalityType
<1>3. Cardinality(S) \in Nat BY <1>2, FS_CardinalityType
<1> QED BY <1>2, <1>3

Live == {"spawned", "attempt", "execute", "settle", "panicked"}

(* Where the tasks, the tracker and the scheduler's local values agree.    *)
Tracking ==
    /\ \A s \in Steps : task[s] \in Live <=> s \in running
    /\ due \subseteq waiting
    /\ ready.wait \subseteq (IF sched = "arrange" THEN waiting ELSE {})
    /\ sched \in {"arrange", "launch"} => ready.deps \cap waiting = {}

(* A task that is about to begin an attempt has one left.                  *)
AttemptsLeft ==
    \A s \in Steps :
        /\ task[s] \in {"spawned", "attempt"} =>
               attempt[s] < MaxAttempts[s] \/ OnFailure[s] = "retry_indefinitely"
        /\ task[s] = "none" => attempt[s] = 0

(* Together they are inductive, and imply that a step is launched once.    *)
IInv == TypeOK /\ AttemptsLeft /\ Tracking /\ LaunchedOnce

(* Every step keeps the types of the scheduler's, tasks' and store's state. *)
LEMMA TypeStep == TypeOK /\ AttemptsLeft /\ [Next]_vars => TypeOK'
<1> SUFFICES ASSUME TypeOK, AttemptsLeft, [Next]_vars PROVE TypeOK' OBVIOUS
<1> USE EngineAssumption
<1>1. CASE CheckCancelled
    BY <1>1 DEF TypeOK, CheckCancelled, SchedSteps, tracker, tasks, store
<1>2. CASE Drain
    BY SMTT(30), <1>2 DEF TypeOK, Drain, Released, Dependents, SchedSteps, tracker, tasks, store
<1>3. CASE Scan
    <2>1. Processed \in SUBSET Steps /\ running \in SUBSET Steps /\ waiting \in SUBSET Steps
        BY DEF TypeOK, Processed
    <2>2. snapshot' \in [processed : Nat, running : Nat, waiting : Nat]
        BY <1>3, <2>1, StepSets DEF Scan
    <2> QED BY <1>3, <2>2 DEF TypeOK, Scan, SchedSteps, tracker, tasks, store
<1>4. CASE Arrange
    BY <1>4 DEF TypeOK, Arrange, NoSnapshot, SchedSteps, tasks, store
<1>5. CASE Launch
    BY <1>5 DEF TypeOK, Launch, SchedSteps, TaskSteps, store
<1>6. CASE Await
    BY <1>6 DEF TypeOK, Await, SchedSteps, tracker, tasks, store
<1>7. CASE Receive
    BY SMTT(30), <1>7 DEF TypeOK, Receive, Released, Dependents, SchedSteps, tracker, tasks, store
<1>8. CASE Sleep
    BY <1>8 DEF TypeOK, Sleep, SchedSteps, tracker, tasks, store
<1>9. CASE FailBlocked
    BY <1>9 DEF TypeOK, FailBlocked, SetStatus, SchedSteps, Terminal, tracker, tasks
<1>10. CASE Finish
    BY <1>10 DEF TypeOK, Finish, SetStatus, SchedSteps, Terminal, tracker, tasks
<1>11. ASSUME NEW s \in Steps, EvaluateCondition(s) PROVE TypeOK'
    BY SMTT(30), <1>11 DEF TypeOK, EvaluateCondition, Goto, TaskSteps, tracker, loop, store
<1>12. ASSUME NEW s \in Steps, ReportCondition(s) PROVE TypeOK'
    BY SMTT(30), <1>12 DEF TypeOK, ReportCondition, Goto, SetStep, TaskSteps, Results, tracker, loop
<1>13. ASSUME NEW s \in Steps, BeginAttempt(s) PROVE TypeOK'
    <2>1. CASE status \in {"cancelled", "removed"}
        BY <1>13, <2>1 DEF TypeOK, BeginAttempt, Goto, TaskSteps, Results, tracker, loop
    <2>2. CASE status \notin {"cancelled", "removed"}
        <3>1. /\ task' = [task EXCEPT ![s] = "execute"] /\ result' = result
              /\ attempt' = [attempt EXCEPT ![s] = NextAttempt(s)]
              /\ local' = [local EXCEPT ![s] = context]
              /\ \/ stepStatus' = [stepStatus EXCEPT ![s] = "running"]
                 \/ stepStatus' = [stepStatus EXCEPT ![s] = "retrying"]
            BY <1>13, <2>2 DEF BeginAttempt, Goto, SetStep
        <3>2. NextAttempt(s) \in Nat /\ NextAttempt(s) <= MaxAttempts[s]
            BY SMTT(30), <1>13 DEF TypeOK, AttemptsLeft, BeginAttempt, NextAttempt
        <3>3. attempt' \in [Steps -> Nat] /\ \A t \in Steps : attempt'[t] <= MaxAttempts[t]
            BY <3>1, <3>2 DEF TypeOK
        <3>4. /\ task' \in [Steps -> TaskSteps] /\ local' \in [Steps -> SUBSET Steps]
              /\ stepStatus' \in [Steps -> {"pending", "running", "retrying",
                                            "succeeded", "failed", "skipped"}]
            BY <3>1 DEF TypeOK, TaskSteps
        <3> QED BY <1>13, <3>1, <3>3, <3>4 DEF TypeOK, BeginAttempt, tracker, loop
    <2> QED BY <2>1, <2>2
<1>14. ASSUME NEW s \in Steps, Execute(s) PROVE TypeOK'
    <2>1. PICK outcome \in Results \cup {"error"} :
            /\ task' \in {[task EXCEPT ![s] = "attempt"], [task EXCEPT ![s] = "settle"]}
            /\ result' \in {[result EXCEPT ![s] = "failure"], [result EXCEPT ![s] = outcome]}
            /\ outcome = "error" => result' = [result EXCEPT ![s] = "failure"]
            /\ context' \in {context, local[s] \cup {s}}
            /\ local' = [local EXCEPT ![s] = {}]
            /\ stepStatus' \in {stepStatus} \cup {[stepStatus EXCEPT ![s] = v] :
                    v \in {"succeeded", stepStatus[s], "retrying", "failed"}}
        BY <1>14 DEF Execute, Goto, SetStep
    <2>2. task' \in [Steps -> TaskSteps] BY <2>1 DEF TypeOK, TaskSteps
    <2>3. result' \in [Steps -> Results] BY <2>1 DEF TypeOK, Results
    <2>4. context' \subseteq Steps /\ local' \in [Steps -> SUBSET Steps]
        BY <2>1 DEF TypeOK
    <2>5. stepStatus' \in [Steps -> {"pending", "running", "retrying", "succeeded",
                                     "failed", "skipped"}]
        BY SMTT(30), <2>1 DEF TypeOK
    <2> QED BY <1>14, <2>2, <2>3, <2>4, <2>5 DEF TypeOK, Execute, tracker, loop
<1>15. ASSUME NEW s \in Steps, Settle(s) PROVE TypeOK'
    BY SMTT(30), <1>15 DEF TypeOK, Settle, Goto, TaskSteps, Results, loop, store
<1>16. ASSUME NEW s \in Steps, MarkSkipped(s) PROVE TypeOK'
    BY <1>16 DEF TypeOK, MarkSkipped, Goto, SetStep, TaskSteps, tracker, loop
<1>17. ASSUME NEW s \in Steps, Panic(s) PROVE TypeOK'
    BY <1>17 DEF TypeOK, Panic, Goto, TaskSteps, tracker, loop, store
<1>18. ASSUME NEW s \in Steps, TimerFires(s) PROVE TypeOK'
    BY <1>18 DEF TypeOK, TimerFires, tracker, loop, tasks, store
<1>19. CASE CancelWorkflow
    BY <1>19 DEF TypeOK, CancelWorkflow, Terminal, tracker, loop, tasks
<1>20. CASE Cleanup
    BY <1>20 DEF TypeOK, Cleanup, tracker, loop, tasks
<1>21. CASE UNCHANGED vars
    BY <1>21 DEF TypeOK, vars, tracker, loop, tasks, store
<1> HIDE EngineAssumption
<1> QED
    BY <1>1, <1>2, <1>3, <1>4, <1>5, <1>6, <1>7, <1>8, <1>9, <1>10, <1>11,
       <1>12, <1>13, <1>14, <1>15, <1>16, <1>17, <1>18, <1>19, <1>20, <1>21
    DEF Next, Schedule, RunTask

(* Only a step without a task is given one, so a fresh task has attempts. *)
LEMMA AttemptsStep == TypeOK /\ AttemptsLeft /\ Tracking /\ LaunchedOnce /\ [Next]_vars => AttemptsLeft'
<1> SUFFICES ASSUME TypeOK, AttemptsLeft, Tracking, LaunchedOnce, [Next]_vars PROVE AttemptsLeft' OBVIOUS
<1> USE EngineAssumption DEF TypeOK, AttemptsLeft
<1>1. CASE CheckCancelled \/ Drain \/ Await \/ Receive \/ Sleep \/ FailBlocked \/ Finish
    BY <1>1 DEF CheckCancelled, Drain, Await, Receive, Sleep, FailBlocked, Finish,
        tasks
<1>2. ASSUME NEW s \in Steps, ReportCondition(s) \/ BeginAttempt(s) PROVE AttemptsLeft'
    BY SMTT(30), <1>2 DEF ReportCondition, BeginAttempt, NextAttempt, Goto
<1>10. ASSUME NEW s \in Steps, Execute(s) PROVE AttemptsLeft'
    BY SMTT(30), <1>10 DEF Execute, WillRetry, Goto
<1>11. ASSUME NEW s \in Steps, MarkSkipped(s) \/ Panic(s) PROVE AttemptsLeft'
    BY SMTT(30), <1>11 DEF MarkSkipped, Panic, Goto
<1>3. CASE CancelWorkflow \/ Cleanup \/ UNCHANGED vars
    BY <1>3 DEF CancelWorkflow, Cleanup, vars, tracker, loop, store, tasks
<1>4. CASE Scan
    BY <1>4 DEF Scan, tracker, loop, store, tasks
<1>5. CASE Arrange
    BY <1>5 DEF Arrange, tracker, loop, store, tasks
<1>6. CASE Launch
    BY SMTT(30), <1>6 DEF Launch, LaunchedOnce, Launched, store
<1>7. ASSUME NEW s \in Steps, EvaluateCondition(s) PROVE AttemptsLeft'
    BY SMTT(30), <1>7 DEF EvaluateCondition, Goto, store, loop
<1>8. ASSUME NEW s \in Steps, Settle(s) PROVE AttemptsLeft'
    BY <1>8 DEF Settle, Goto
<1>9. ASSUME NEW s \in Steps, TimerFires(s) PROVE AttemptsLeft'
    BY <1>9 DEF TimerFires, tracker, loop, store, tasks
<1> HIDE EngineAssumption DEF TypeOK, AttemptsLeft
<1> QED BY <1>1, <1>2, <1>3, <1>4, <1>5, <1>6, <1>7, <1>8, <1>9, <1>10, <1>11
        DEF Next, Schedule, RunTask

(* The tracker follows the tasks through every step. *)
LEMMA TrackingStep == TypeOK /\ Tracking /\ LaunchedOnce /\ [Next]_vars => Tracking'
<1> SUFFICES ASSUME TypeOK, Tracking, LaunchedOnce, [Next]_vars PROVE Tracking' OBVIOUS
<1> USE DEF TypeOK, Tracking, Live
<1>1. CASE CheckCancelled \/ Drain \/ Await
    BY SMTT(30), <1>1 DEF CheckCancelled, Drain, Await, tracker, tasks
<1>10. CASE Receive \/ Sleep
    BY SMTT(30), <1>10 DEF Receive, Sleep, tracker, tasks
<1>11. CASE FailBlocked \/ Finish
    BY SMTT(30), <1>11 DEF FailBlocked, Finish, tracker, tasks
<1>2. ASSUME NEW s \in Steps, ReportCondition(s) \/ BeginAttempt(s) PROVE Tracking'
    BY SMTT(30), <1>2 DEF ReportCondition, BeginAttempt, Goto, tracker, loop
<1>12. ASSUME NEW s \in Steps, Execute(s) \/ MarkSkipped(s) PROVE Tracking'
    BY SMTT(30), <1>12 DEF Execute, MarkSkipped, Goto, tracker, loop
<1>13. ASSUME NEW s \in Steps, Panic(s) PROVE Tracking'
    BY SMTT(30), <1>13 DEF Panic, Goto, tracker, loop
<1>3. CASE CancelWorkflow \/ Cleanup \/ UNCHANGED vars
    BY <1>3 DEF CancelWorkflow, Cleanup, vars, tracker, loop, store, tasks
<1>4. CASE Scan
    BY <1>4 DEF Scan, IsProcessable, tracker, tasks
<1>5. CASE Arrange
    BY <1>5 DEF Arrange, tracker, loop, store, tasks
<1>6. CASE Launch
    BY <1>6 DEF Launch, LaunchedOnce, Launched, store
<1>7. ASSUME NEW s \in Steps, EvaluateCondition(s) PROVE Tracking'
    BY SMTT(30), <1>7 DEF EvaluateCondition, Goto, tracker, store, loop
<1>8. ASSUME NEW s \in Steps, Settle(s) PROVE Tracking'
    BY <1>8 DEF Settle, Goto, loop
<1>9. ASSUME NEW s \in Steps, TimerFires(s) PROVE Tracking'
    BY <1>9 DEF TimerFires, tracker, loop, store, tasks
<1> HIDE DEF TypeOK, Tracking, Live
<1> QED BY <1>1, <1>2, <1>3, <1>4, <1>5, <1>6, <1>7, <1>8, <1>9, <1>10, <1>11, <1>12, <1>13
        DEF Next, Schedule, RunTask

(* A scan offers only steps without a task. *)
LEMMA LaunchedOnceStep == TypeOK /\ Tracking /\ LaunchedOnce /\ [Next]_vars => LaunchedOnce'
<1> SUFFICES ASSUME TypeOK, Tracking, LaunchedOnce, [Next]_vars PROVE LaunchedOnce' OBVIOUS
<1> USE DEF TypeOK, Tracking, Live, LaunchedOnce, Launched, Processed, Satisfied
<1>1. CASE CheckCancelled \/ Drain \/ Await
    BY SMTT(30), <1>1 DEF CheckCancelled, Drain, Await, tracker, tasks
<1>10. CASE Receive \/ Sleep
    BY SMTT(30), <1>10 DEF Receive, Sleep, tracker, tasks
<1>11. CASE FailBlocked \/ Finish
    BY SMTT(30), <1>11 DEF FailBlocked, Finish, tracker, tasks
<1>2. ASSUME NEW s \in Steps, ReportCondition(s) \/ BeginAttempt(s) PROVE LaunchedOnce'
    BY SMTT(30), <1>2 DEF ReportCondition, BeginAttempt, Goto, tracker, loop
<1>12. ASSUME NEW s \in Steps, Execute(s) \/ MarkSkipped(s) PROVE LaunchedOnce'
    BY SMTT(30), <1>12 DEF Execute, MarkSkipped, Goto, tracker, loop
<1>13. ASSUME NEW s \in Steps, Panic(s) PROVE LaunchedOnce'
    BY SMTT(30), <1>13 DEF Panic, Goto, tracker, loop
<1>3. CASE CancelWorkflow \/ Cleanup \/ UNCHANGED vars
    BY <1>3 DEF CancelWorkflow, Cleanup, vars, tracker, loop, store, tasks
<1>4. CASE Scan
    BY <1>4 DEF Scan, IsProcessable, tracker, tasks
<1>5. CASE Arrange
    BY <1>5 DEF Arrange, tracker, loop, store, tasks
<1>6. CASE Launch
    BY <1>6 DEF Launch, tracker, loop, store, tasks
<1>7. ASSUME NEW s \in Steps, EvaluateCondition(s) PROVE LaunchedOnce'
    BY SMTT(30), <1>7 DEF EvaluateCondition, Goto, tracker, store, loop
<1>8. ASSUME NEW s \in Steps, Settle(s) PROVE LaunchedOnce'
    <2>1. s \in running /\ s \notin Processed BY <1>8 DEF Settle
    <2>2. Launched' = Launched BY <1>8 DEF Settle, Goto
    <2>3. (running \cup Processed)' = running \cup Processed
        <3>1. result[s] \in {"success", "failure", "skip"} BY DEF Results
        <3>2. Processed' = Processed \cup {s} BY <1>8, <3>1 DEF Settle
        <3> QED BY SMTT(30), <1>8, <2>1, <3>2 DEF Settle
    <2>4. (running \cap Processed)' = {} BY <1>8, <2>1 DEF Settle
    <2>5. (completed \cap skipped)' = {} /\ (failed \cap Satisfied)' = {}
        BY SMTT(30), <1>8, <2>1 DEF Settle
    <2> QED BY <1>8, <2>2, <2>3, <2>4, <2>5 DEF Settle, loop
<1>9. ASSUME NEW s \in Steps, TimerFires(s) PROVE LaunchedOnce'
    BY <1>9 DEF TimerFires, tracker, loop, store, tasks
<1> HIDE DEF TypeOK, Tracking, Live, LaunchedOnce, Launched, Processed, Satisfied
<1> QED BY <1>1, <1>2, <1>3, <1>4, <1>5, <1>6, <1>7, <1>8, <1>9, <1>10, <1>11, <1>12, <1>13
        DEF Next, Schedule, RunTask

(* The types of the scheduler's, the tasks' and the store's variables, and *)
(* that a step is launched once however many triggers name it, hold of     *)
(* execute_workflow for every definition.                                  *)
THEOREM Inductive == Spec => []IInv
<1>1. Init => IInv
    <2> SUFFICES ASSUME Init PROVE IInv OBVIOUS
    <2>1. TypeOK
        <3>1. /\ task \in [Steps -> TaskSteps] /\ result \in [Steps -> Results]
              /\ attempt \in [Steps -> Nat] /\ \A s \in Steps : attempt[s] <= MaxAttempts[s]
            BY SMTT(30), EngineAssumption DEF Init, TaskSteps, Results
        <3>2. /\ local \in [Steps -> SUBSET Steps]
              /\ stepStatus \in [Steps -> {"pending", "running", "retrying",
                                           "succeeded", "failed", "skipped"}]
            BY DEF Init
        <3> QED BY <3>1, <3>2 DEF Init, TypeOK, InitialSteps, NoSnapshot, SchedSteps, Terminal
    <2>2. AttemptsLeft BY EngineAssumption DEF Init, AttemptsLeft
    <2>3. Tracking BY DEF Init, Tracking, Live
    <2>4. LaunchedOnce BY DEF Init, LaunchedOnce, Launched, Processed, Satisfied
    <2> QED BY <2>1, <2>2, <2>3, <2>4 DEF IInv
<1>2. IInv /\ [Next]_vars => IInv'
    BY TypeStep, AttemptsStep, TrackingStep, LaunchedOnceStep DEF IInv
<1> QED BY <1>1, <1>2, PTL DEF Spec

(* Every variable of the engine keeps its type.                            *)
THEOREM Typing == Spec => []TypeOK
<1>1. IInv => TypeOK BY DEF IInv
<1> QED BY <1>1, Inductive, PTL

(* No step is launched twice, although pending_check may name it once per  *)
(* completed depends_on_any dependency, and the tracker's sets are disjoint. *)
THEOREM LaunchedOnceAlways == Spec => []LaunchedOnce
<1>1. IInv => LaunchedOnce BY DEF IInv
<1> QED BY <1>1, Inductive, PTL

=============================================================================
