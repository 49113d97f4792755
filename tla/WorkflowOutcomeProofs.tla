----------------------- MODULE WorkflowOutcomeProofs -----------------------
(***************************************************************************)
(* What the inductive invariant of WorkflowEngineProofs gives: steps start *)
(* after their dependencies, Completed means all done, and the completion  *)
(* channel never overflows.                                                *)
(***************************************************************************)
EXTENDS WorkflowEngineProofs

\* A leaf is first-order reasoning unless it names SMT, for arithmetic.
USE ZenonT(30)

-----------------------------------------------------------------------------
(* Every step the scheduler holds for launching has its dependencies.      *)
DepsInv ==
    /\ DependenciesRespected
    /\ \A s \in waiting : DependenciesMet(s)
    /\ sched \in {"arrange", "launch"} => \A s \in ready.deps : DependenciesMet(s)

(* completed and skipped only grow, so what was met stays met.             *)
LEMMA Monotone ==
    ASSUME NEW s, completed \subseteq completed', skipped \subseteq skipped',
           DependenciesMet(s)
    PROVE  DependenciesMet(s)'
BY DEF DependenciesMet, Satisfied

(* No step of the engine shrinks completed or skipped.                     *)
LEMMA Growth == [Next]_vars => completed \subseteq completed' /\ skipped \subseteq skipped'
<1> SUFFICES ASSUME [Next]_vars PROVE completed \subseteq completed' /\ skipped \subseteq skipped'
    OBVIOUS
<1>1. CASE Schedule \/ CancelWorkflow \/ Cleanup \/ UNCHANGED vars
    BY <1>1 DEF Schedule, CheckCancelled, Drain, Scan, Arrange, Launch, Await, Receive,
        Sleep, FailBlocked, Finish, CancelWorkflow, Cleanup, vars, tracker
<1>2. ASSUME NEW s \in Steps, RunTask(s) \/ Panic(s) \/ TimerFires(s)
      PROVE  completed \subseteq completed' /\ skipped \subseteq skipped'
    BY <1>2 DEF RunTask, EvaluateCondition, ReportCondition, BeginAttempt, Execute,
        Settle, MarkSkipped, Panic, TimerFires, tracker
<1> QED BY <1>1, <1>2 DEF Next

(* A scan offers only steps whose dependencies are done. *)
LEMMA DepsStep == IInv /\ DepsInv /\ [Next]_vars => DepsInv'
<1> SUFFICES ASSUME IInv, DepsInv, [Next]_vars PROVE DepsInv' OBVIOUS
<1>0. \A s : DependenciesMet(s) => DependenciesMet(s)'
    BY Growth, Monotone
<1>f. /\ task \in [Steps -> TaskSteps]
      /\ waiting \subseteq Steps /\ ready.deps \subseteq Steps
      /\ ready.wait \subseteq (IF sched = "arrange" THEN waiting ELSE {})
    BY DEF IInv, TypeOK, Tracking
<1> USE <1>0, <1>f DEF DepsInv, DependenciesRespected, Launched
<1>1. CASE CheckCancelled \/ Drain \/ Await \/ Receive \/ Sleep \/ FailBlocked \/ Finish
    <2>1. UNCHANGED <<task, waiting>> /\ sched' \notin {"arrange", "launch"}
        BY <1>1 DEF CheckCancelled, Drain, Await, Receive, Sleep, FailBlocked, Finish, tracker, tasks
    <2> QED BY <2>1
<1>2. ASSUME NEW s \in Steps,
             ReportCondition(s) \/ BeginAttempt(s) \/ Execute(s) \/ MarkSkipped(s) \/ Panic(s)
      PROVE  DepsInv'
    <2>1. /\ UNCHANGED <<waiting, ready, sched>>
          /\ task[s] # "none" /\ \E w : task' = [task EXCEPT ![s] = w]
        BY <1>2 DEF ReportCondition, BeginAttempt, Execute, MarkSkipped, Panic, Goto,
            tracker, loop
    <2> QED BY <2>1
<1>3. CASE CancelWorkflow \/ Cleanup \/ UNCHANGED vars
    <2>1. UNCHANGED <<task, waiting, ready, sched>>
        BY <1>3 DEF CancelWorkflow, Cleanup, vars, tracker, loop, tasks
    <2> QED BY <2>1
<1>4. CASE Scan
    BY <1>4 DEF Scan, DependenciesReady, DependenciesMet, tracker, loop, store, tasks
<1>5. CASE Arrange
    BY <1>5 DEF Arrange, tracker, loop, store, tasks
<1>6. CASE Launch
    BY <1>6 DEF Launch, tracker, loop, store, tasks
<1>7. ASSUME NEW s \in Steps, EvaluateCondition(s) PROVE DepsInv'
    BY <1>7 DEF EvaluateCondition, Goto, tracker, store, loop
<1>8. ASSUME NEW s \in Steps, Settle(s) PROVE DepsInv'
    BY <1>8 DEF Settle, Goto, loop
<1>9. ASSUME NEW s \in Steps, TimerFires(s) PROVE DepsInv'
    BY <1>9 DEF TimerFires, tracker, loop, store, tasks
<1> HIDE <1>0, <1>f DEF DepsInv, DependenciesRespected, Launched
<1> QED BY <1>1, <1>2, <1>3, <1>4, <1>5, <1>6, <1>7, <1>8, <1>9 DEF Next, Schedule, RunTask

(* No step starts before every depends_on dependency, and one of its       *)
(* depends_on_any dependencies, is completed or skipped, delayed steps and *)
(* steps that wait for several triggers included.                          *)
THEOREM DependenciesRespectedAlways == Spec => []DependenciesRespected
<1>1. Init => DepsInv
    BY DEF Init, DepsInv, DependenciesRespected, Launched
<1>2. IInv /\ IInv' /\ DepsInv /\ [Next]_vars => DepsInv' BY DepsStep
<1>3. DepsInv => DependenciesRespected BY DEF DepsInv
<1> QED BY <1>1, <1>2, <1>3, Inductive, PTL DEF Spec

-----------------------------------------------------------------------------
(* A scan that counted every step has seen every step processed.           *)
DoneInv ==
    /\ sched = "arrange" /\ snapshot.processed = Cardinality(Steps) => Processed = Steps
    /\ sched = "finish" => Processed = Steps
    /\ CompletedMeansAllDone

(* A settled step stays settled, and no task is left to fail. *)
LEMMA DoneStep == IInv /\ DoneInv /\ [Next]_vars => DoneInv'
<1> SUFFICES ASSUME IInv, DoneInv, [Next]_vars PROVE DoneInv' OBVIOUS
<1>f. /\ Processed \subseteq Steps
      /\ \A s \in Steps : task[s] \in {"spawned", "settle"} => s \notin Processed
    BY DEF IInv, TypeOK, Tracking, LaunchedOnce, Live, Processed
<1>s. ASSUME NEW s \in Steps, Settle(s) PROVE s \notin Processed
    BY <1>f, <1>s DEF Settle
<1>a. ASSUME Arrange
      PROVE  /\ sched' # "arrange" /\ UNCHANGED <<completed, failed, skipped, status>>
             /\ sched = "arrange"
             /\ sched' = "finish" => snapshot.processed = Cardinality(Steps)
    BY <1>a DEF Arrange, store
<1> USE <1>f DEF DoneInv, CompletedMeansAllDone, Processed, Satisfied
<1>1. CASE CheckCancelled \/ Drain \/ Await \/ Receive \/ Sleep \/ FailBlocked \/ Finish
    <2>1. /\ UNCHANGED <<completed, failed, skipped>>
          /\ sched' \notin {"arrange", "finish"}
          /\ status' # status => status' = "failed" \/ (Finish /\ failed = {})
        BY <1>1 DEF CheckCancelled, Drain, Await, Receive, Sleep, FailBlocked, Finish, SetStatus, tracker, store
    <2>2. Finish => sched = "finish" BY DEF Finish
    <2> QED BY <2>1, <2>2
<1>2. ASSUME NEW s \in Steps,
             ReportCondition(s) \/ BeginAttempt(s) \/ Execute(s) \/ MarkSkipped(s) \/ Panic(s)
      PROVE  DoneInv'
    <2>1. UNCHANGED <<completed, failed, skipped, sched, snapshot, status>>
        BY <1>2 DEF ReportCondition, BeginAttempt, Execute, MarkSkipped, Panic, tracker,
            loop, store
    <2> QED BY <2>1
<1>3. CASE CancelWorkflow \/ Cleanup \/ UNCHANGED vars
    BY <1>3 DEF CancelWorkflow, Cleanup, vars, tracker, loop, store, tasks
<1>4. CASE Scan
    <2>1. Processed \in SUBSET Steps OBVIOUS
    <2>2. Cardinality(Processed) = Cardinality(Steps) => Processed = Steps
        BY <2>1, StepSets
    <2> QED BY <1>4, <2>2 DEF Scan, tracker, loop, store, tasks
<1>5. CASE Arrange
    BY <1>5, <1>a
<1>6. CASE Launch
    BY <1>6 DEF Launch, tracker, loop, store, tasks
<1>7. ASSUME NEW s \in Steps, EvaluateCondition(s) PROVE DoneInv'
    BY <1>7 DEF EvaluateCondition, Goto, tracker, store, loop
<1>8. ASSUME NEW s \in Steps, Settle(s) PROVE DoneInv'
    <2>1. s \in Steps /\ s \notin Processed BY <1>8, <1>s
    <2>2. /\ ~ (sched = "arrange" /\ snapshot.processed = Cardinality(Steps))
          /\ sched # "finish" /\ status # "completed"
        BY <2>1
    <2> QED BY <1>8, <2>2 DEF Settle, loop, store
<1>9. ASSUME NEW s \in Steps, TimerFires(s) PROVE DoneInv'
    BY <1>9 DEF TimerFires, tracker, loop, store, tasks
<1> HIDE <1>f DEF DoneInv, CompletedMeansAllDone, Processed, Satisfied
<1> QED BY <1>1, <1>2, <1>3, <1>4, <1>5, <1>6, <1>7, <1>8, <1>9 DEF Next, Schedule, RunTask

(* A workflow reported Completed has every step completed or skipped and   *)
(* none failed, although the decision is taken on a count made earlier.    *)
THEOREM CompletedMeansAllDoneAlways == Spec => []CompletedMeansAllDone
<1>1. Init => DoneInv
    BY DEF Init, DoneInv, CompletedMeansAllDone
<1>2. IInv /\ IInv' /\ DoneInv /\ [Next]_vars => DoneInv' BY DoneStep
<1>3. DoneInv => CompletedMeansAllDone BY DEF DoneInv
<1> QED BY <1>1, <1>2, <1>3, Inductive, PTL DEF Spec

-----------------------------------------------------------------------------
(* A signal in the channel is the only one of a task that has sent it.     *)
ChannelInv ==
    /\ \A m \in signals : task[m.step] \in {"done", "mark_skipped"}
    /\ \A m, n \in signals : m.step = n.step => m = n

(* A task sends in its last step but one, and its step is never launched again. *)
LEMMA ChannelStep == IInv /\ ChannelInv /\ [Next]_vars => ChannelInv'
<1> SUFFICES ASSUME IInv, ChannelInv, [Next]_vars PROVE ChannelInv' OBVIOUS
<1>f. /\ task \in [Steps -> TaskSteps]
      /\ signals \subseteq [step : Steps, result : Results]
      /\ sched = "launch" => ready.deps \cap Launched = {}
    BY DEF IInv, TypeOK, LaunchedOnce
<1> USE <1>f DEF ChannelInv, Launched
<1>1. CASE CheckCancelled \/ Drain \/ Await \/ Receive \/ Sleep \/ FailBlocked \/ Finish
    <2>1. task' = task /\ signals' \subseteq signals
        BY <1>1 DEF CheckCancelled, Drain, Await, Receive, Sleep, FailBlocked, Finish, tasks
    <2> QED BY <2>1
<1>2. ASSUME NEW s \in Steps,
             ReportCondition(s) \/ BeginAttempt(s) \/ Execute(s) \/ MarkSkipped(s) \/ Panic(s)
      PROVE  ChannelInv'
    BY SMTT(30), <1>2 DEF ReportCondition, BeginAttempt, Execute, MarkSkipped, Panic,
        Goto
<1>3. CASE CancelWorkflow \/ Cleanup \/ UNCHANGED vars
    BY <1>3 DEF CancelWorkflow, Cleanup, vars, tracker, loop, store, tasks
<1>4. CASE Scan
    BY <1>4 DEF Scan, tracker, loop, store, tasks
<1>5. CASE Arrange
    BY <1>5 DEF Arrange, tracker, loop, store, tasks
<1>6. CASE Launch
    BY <1>6 DEF Launch, tracker, loop, store, tasks
<1>7. ASSUME NEW s \in Steps, EvaluateCondition(s) PROVE ChannelInv'
    BY <1>7 DEF EvaluateCondition, Goto, tracker, store, loop
<1>8. ASSUME NEW s \in Steps, Settle(s) PROVE ChannelInv'
    BY SMTT(30), <1>8 DEF Settle, Goto, loop
<1>9. ASSUME NEW s \in Steps, TimerFires(s) PROVE ChannelInv'
    BY <1>9 DEF TimerFires, tracker, loop, store, tasks
<1> HIDE <1>f DEF ChannelInv, Launched
<1> QED BY <1>1, <1>2, <1>3, <1>4, <1>5, <1>6, <1>7, <1>8, <1>9 DEF Next, Schedule, RunTask

(* The completion channel never holds two signals of one step, nor one of  *)
(* a step about to send, so its capacity, the number of steps, suffices.   *)
THEOREM ChannelNeverFullAlways == Spec => []ChannelNeverFull
<1>1. Init => ChannelInv
    BY DEF Init, ChannelInv
<1>2. IInv /\ IInv' /\ ChannelInv /\ [Next]_vars => ChannelInv' BY ChannelStep
<1>3. ChannelInv => ChannelNeverFull BY DEF ChannelInv, ChannelNeverFull
<1> QED BY <1>1, <1>2, <1>3, Inductive, PTL DEF Spec

=============================================================================
