--------------------------- MODULE WorkflowEngine ---------------------------
(***************************************************************************)
(* One workflow instance of the DAG workflow engine                        *)
(* (crates/workflow/src/engine.rs): the scheduler loop of execute_workflow,*)
(* the step tasks it spawns, the tracker and the completion channel they   *)
(* share, the instance's entry in the state store, and the clients that    *)
(* cancel the instance or clean its entry up.                              *)
(*                                                                         *)
(* A step is one lock section, channel operation or store access; accesses *)
(* of one task that no other task can tell apart are taken together.  The  *)
(* channel is a set, since the scheduler takes one signal and then drains  *)
(* the rest before it looks at any of them.  Delays are timers that may    *)
(* fire at any time.                                                       *)
(***************************************************************************)
EXTENDS Naturals, FiniteSets

CONSTANTS
    Steps,          \* definition.steps
    DependsOn,      \* DependsOn[s]: steps that must all be done
    DependsOnAny,   \* DependsOnAny[s]: steps of which one must be done
    Delayed,        \* steps with a delay or a future scheduled_at
    Conditional,    \* steps with a run_if condition
    OnFailure,      \* OnFailure[s]: the step's FailureAction
    MaxAttempts,    \* MaxAttempts[s]: the step's retry_policy.max_attempts
    MayPanic,       \* steps whose executor may panic
    MayCancel       \* whether a client calls cancel_workflow

FailureActions == {"fail_workflow", "continue_next_step", "retry_indefinitely"}

ASSUME EngineAssumption ==
    /\ IsFiniteSet(Steps)
    /\ DependsOn \in [Steps -> SUBSET Steps]
    /\ DependsOnAny \in [Steps -> SUBSET Steps]
    /\ Delayed \subseteq Steps
    /\ Conditional \subseteq Steps
    /\ OnFailure \in [Steps -> FailureActions]
    /\ MaxAttempts \in [Steps -> Nat \ {0}]
    /\ MayPanic \subseteq Steps
    /\ MayCancel \in BOOLEAN

VARIABLES
    completed, failed, skipped, running, waiting,   \* StepTracker
    due,            \* waiting steps whose ready_at has passed
    signals,        \* the mpsc channel of (step, result)
    pending,        \* pending_check
    sched,          \* where the scheduler loop is
    ready,          \* [wait, deps]: what Phase 1 found, then what to launch
    snapshot,       \* [processed, running, waiting] counted in Phase 1
    task,           \* where each step's task is
    result,         \* what the step's task will report
    attempt,        \* attempts a step has begun
    local,          \* the copy of the context a step works on
    status,         \* status of the stored instance, or "removed"
    stepStatus,     \* step_states[s].status
    context         \* the stored context: the steps whose writes it holds

tracker == <<completed, failed, skipped, running, waiting>>
store   == <<status, stepStatus, context>>
loop    == <<pending, sched, ready, snapshot>>
tasks   == <<task, result, attempt, local>>
vars    == <<tracker, due, signals, loop, tasks, store>>

Results == {"success", "failure", "skip"}

SchedSteps == {"check", "drain", "scan", "arrange", "launch", "await", "recv",
               "sleep", "blocked", "finish", "exit"}

TaskSteps == {"none", "spawned", "report_skip", "report_failure", "attempt",
              "execute", "settle", "mark_skipped", "done", "panicked"}

Terminal == {"completed", "failed", "cancelled"}

Dependents(s) == {d \in Steps : s \in DependsOn[d] \cup DependsOnAny[d]}

InitialSteps == {s \in Steps : DependsOn[s] = {} /\ DependsOnAny[s] = {}}

Processed == completed \cup failed \cup skipped
Satisfied == completed \cup skipped

\* Values nobody reads again are reset.
NoSnapshot == [processed |-> 0, running |-> 0, waiting |-> 0]

Init ==
    /\ completed = {} /\ failed = {} /\ skipped = {} /\ running = {}
    /\ waiting = {} /\ due = {} /\ signals = {}
    /\ pending = InitialSteps
    /\ sched = "check"
    /\ ready = [wait |-> {}, deps |-> {}]
    /\ snapshot = NoSnapshot
    /\ task = [s \in Steps |-> "none"]
    /\ result = [s \in Steps |-> "failure"]
    /\ attempt = [s \in Steps |-> 0]
    /\ local = [s \in Steps |-> {}]
    /\ status = "running"
    /\ stepStatus = [s \in Steps |-> "pending"]
    /\ context = {}

-----------------------------------------------------------------------------
(* The scheduler: execute_workflow.                                        *)

\* is_cancelled; an entry that is gone ends the loop with an error.
CheckCancelled ==
    /\ sched = "check"
    /\ sched' = IF status \in {"cancelled", "removed"} THEN "exit" ELSE "drain"
    /\ UNCHANGED <<tracker, due, signals, pending, ready, snapshot, tasks, store>>

Released(received) ==
    UNION {Dependents(m.step) : m \in {r \in received : r.result # "failure"}}

\* Phase 0.
Drain ==
    /\ sched = "drain"
    /\ pending' = pending \cup Released(signals)
    /\ signals' = {}
    /\ sched' = "scan"
    /\ UNCHANGED <<tracker, due, ready, snapshot, tasks, store>>

\* Mutant: forgets that the step may be running already.
IsProcessable_NotRunning(s) == s \notin Processed \cup waiting

IsProcessable(s) == s \notin Processed \cup running \cup waiting

\* Mutant: `any` where the code has `all`.
DependenciesReady_AnyOf(s) ==
    /\ DependsOn[s] = {} \/ DependsOn[s] \cap Satisfied # {}
    /\ DependsOnAny[s] = {} \/ DependsOnAny[s] \cap Satisfied # {}

DependenciesReady(s) ==
    /\ DependsOn[s] \subseteq Satisfied
    /\ DependsOnAny[s] = {} \/ DependsOnAny[s] \cap Satisfied # {}
    /\ DependsOn[s] \cap failed = {}
    /\ DependsOnAny[s] = {} \/ ~ (DependsOnAny[s] \subseteq failed)

\* Phase 1, under the tracker's read lock.
Scan ==
    /\ sched = "scan"
    /\ ready' = [wait |-> due,
                 deps |-> {s \in pending : IsProcessable(s) /\ DependenciesReady(s)}]
    /\ pending' = {}
    /\ snapshot' = [processed |-> Cardinality(Processed),
                    running |-> Cardinality(running),
                    waiting |-> Cardinality(waiting)]
    /\ sched' = "arrange"
    /\ UNCHANGED <<tracker, due, signals, tasks, store>>

\* Phase 2, under the write lock, and the two checks that follow it.
Arrange ==
    /\ sched = "arrange"
    /\ LET delayed == ready.deps \cap Delayed
           launch  == ready.wait \cup (ready.deps \ Delayed)
       IN  /\ waiting' = (waiting \ ready.wait) \cup delayed
           /\ due' = due \ ready.wait
           /\ ready' = [wait |-> {}, deps |-> launch]
           /\ snapshot' = NoSnapshot
           /\ sched' = IF snapshot.processed = Cardinality(Steps) THEN "finish"
                       ELSE IF /\ launch = {}
                               /\ snapshot.running = 0
                               /\ snapshot.waiting + Cardinality(delayed) = 0
                       THEN "blocked"
                       ELSE "launch"
    /\ UNCHANGED <<completed, failed, skipped, running, signals, pending,
                   tasks, store>>

Launch ==
    /\ sched = "launch"
    /\ running' = running \cup ready.deps
    /\ task' = [s \in Steps |-> IF s \in ready.deps THEN "spawned" ELSE task[s]]
    /\ sched' = "await"
    /\ UNCHANGED <<completed, failed, skipped, waiting, due, signals, pending,
                   ready, snapshot, result, attempt, local, store>>

\* `tasks_launched > 0 || !t.running.is_empty()`, then has_waiting.
Await ==
    /\ sched = "await"
    /\ sched' = IF ready.deps # {} \/ running # {} THEN "recv"
                ELSE IF waiting # {} THEN "sleep" ELSE "check"
    /\ ready' = [wait |-> {}, deps |-> {}]
    /\ UNCHANGED <<tracker, due, signals, pending, snapshot, tasks, store>>

Receive ==
    /\ sched = "recv"
    /\ \E m \in signals :
        /\ signals' = signals \ {m}
        /\ pending' = pending \cup Released({m})
    /\ sched' = "check"
    /\ UNCHANGED <<tracker, due, ready, snapshot, tasks, store>>

Sleep ==
    /\ sched = "sleep"
    /\ sched' = "check"
    /\ UNCHANGED <<tracker, due, signals, pending, ready, snapshot, tasks, store>>

TimerFires(s) ==
    /\ s \in waiting \ due
    /\ due' = due \cup {s}
    /\ UNCHANGED <<tracker, signals, loop, tasks, store>>

SetStatus(to) == status' = IF status = "removed" THEN status ELSE to

FailBlocked ==
    /\ sched = "blocked"
    /\ SetStatus("failed")
    /\ sched' = "exit"
    /\ UNCHANGED <<tracker, due, signals, pending, ready, snapshot, tasks,
                   stepStatus, context>>

\* Mutant: every finished workflow is reported as completed.
Finish_IgnoresFailed ==
    /\ sched = "finish"
    /\ SetStatus("completed")
    /\ sched' = "exit"
    /\ UNCHANGED <<tracker, due, signals, pending, ready, snapshot, tasks,
                   stepStatus, context>>

Finish ==
    /\ sched = "finish"
    /\ SetStatus(IF failed # {} THEN "failed" ELSE "completed")
    /\ sched' = "exit"
    /\ UNCHANGED <<tracker, due, signals, pending, ready, snapshot, tasks,
                   stepStatus, context>>

-----------------------------------------------------------------------------
(* The task of a step.                                                     *)

SetStep(s, to) ==
    stepStatus' = IF status = "removed" THEN stepStatus
                                        ELSE [stepStatus EXCEPT ![s] = to]

Goto(s, where) == task' = [task EXCEPT ![s] = where]

\* run_if: fail when the context is gone, skip when the condition is false.
\* The tracker is updated here; the signal is sent in a later step.
EvaluateCondition(s) ==
    /\ task[s] = "spawned"
    /\ \/ /\ s \in Conditional => status # "removed"
          /\ Goto(s, "attempt")
          /\ UNCHANGED tracker
       \/ /\ s \in Conditional /\ status # "removed"
          /\ running' = running \ {s}
          /\ skipped' = skipped \cup {s}
          /\ Goto(s, "report_skip")
          /\ UNCHANGED <<completed, failed, waiting>>
       \/ /\ s \in Conditional /\ status = "removed"
          /\ running' = running \ {s}
          /\ failed' = failed \cup {s}
          /\ Goto(s, "report_failure")
          /\ UNCHANGED <<completed, skipped, waiting>>
    /\ UNCHANGED <<due, signals, loop, result, attempt, local, store>>

ReportCondition(s) ==
    /\ task[s] \in {"report_skip", "report_failure"}
    /\ LET skips == task[s] = "report_skip"
       IN  /\ SetStep(s, IF skips THEN "skipped" ELSE "failed")
           /\ signals' = signals \cup
                {[step |-> s, result |-> IF skips THEN "skip" ELSE "failure"]}
    /\ Goto(s, "done")
    /\ UNCHANGED <<tracker, due, loop, result, attempt, local, status, context>>

\* The counter of a step that retries without limit stops at MaxAttempts[s].
NextAttempt(s) ==
    IF OnFailure[s] = "retry_indefinitely" /\ attempt[s] = MaxAttempts[s]
    THEN attempt[s] ELSE attempt[s] + 1

\* is_cancelled, the Running/Retrying update and get_context.
BeginAttempt(s) ==
    /\ task[s] = "attempt"
    /\ IF status \in {"cancelled", "removed"}
       THEN /\ result' = [result EXCEPT ![s] = "failure"]
            /\ Goto(s, "settle")
            /\ UNCHANGED <<attempt, local, stepStatus>>
       ELSE /\ attempt' = [attempt EXCEPT ![s] = NextAttempt(s)]
            /\ SetStep(s, IF attempt[s] = 0 THEN "running" ELSE "retrying")
            /\ local' = [local EXCEPT ![s] = context]
            /\ Goto(s, "execute")
            /\ result' = result
    /\ UNCHANGED <<tracker, due, signals, loop, status, context>>

\* Mutant: one attempt too many.
WillRetry_OffByOne(s, outcome) ==
    /\ outcome = "error"
    /\ attempt[s] <= MaxAttempts[s] \/ OnFailure[s] = "retry_indefinitely"

WillRetry(s, outcome) ==
    /\ outcome = "error"
    /\ attempt[s] < MaxAttempts[s] \/ OnFailure[s] = "retry_indefinitely"

\* The executor ran: write the whole context back, then record the outcome.
\* "error" stands for a retryable error or a timeout.
Execute(s) ==
    /\ task[s] = "execute"
    /\ \E outcome \in Results \cup {"error"} :
        LET retry == WillRetry(s, outcome)
            gone  == status = "removed"
        IN  /\ Goto(s, IF retry /\ ~gone THEN "attempt" ELSE "settle")
            /\ result' = [result EXCEPT ![s] =
                            IF gone \/ outcome = "error" THEN "failure" ELSE outcome]
            /\ context' = IF gone THEN context ELSE local[s] \cup {s}
            /\ local' = [local EXCEPT ![s] = {}]
            /\ SetStep(s, IF outcome = "success" THEN "succeeded"
                          ELSE IF outcome = "skip" THEN stepStatus[s]
                          ELSE IF retry THEN "retrying" ELSE "failed")
    /\ UNCHANGED <<tracker, due, signals, loop, attempt, status>>

\* Mutant: a failed step is settled but sends no signal.
Settle_SilentFailure(s) ==
    /\ task[s] = "settle"
    /\ running' = running \ {s}
    /\ completed' = completed \cup (IF result[s] = "success" THEN {s} ELSE {})
    /\ skipped' = skipped \cup (IF result[s] = "skip" THEN {s} ELSE {})
    /\ failed' = failed \cup (IF result[s] = "failure" THEN {s} ELSE {})
    /\ signals' = signals \cup (IF result[s] = "failure" THEN {}
                                 ELSE {[step |-> s, result |-> result[s]]})
    /\ Goto(s, "done")
    /\ UNCHANGED <<waiting, due, loop, result, attempt, local, store>>

\* Under the tracker's write lock: settle the step and send its signal.
Settle(s) ==
    /\ task[s] = "settle"
    /\ LET failure == result[s] = "failure"
           skips   == \/ result[s] = "skip"
                      \/ failure /\ OnFailure[s] = "continue_next_step"
       IN  /\ running' = running \ {s}
           /\ completed' = completed \cup (IF result[s] = "success" THEN {s} ELSE {})
           /\ skipped' = skipped \cup (IF skips THEN {s} ELSE {})
           /\ failed' = failed \cup (IF failure /\ ~skips THEN {s} ELSE {})
           /\ signals' = signals \cup
                {[step |-> s, result |-> IF skips THEN "skip" ELSE result[s]]}
           /\ Goto(s, IF failure /\ skips THEN "mark_skipped" ELSE "done")
           /\ result' = [result EXCEPT ![s] = "failure"]
           /\ attempt' = [attempt EXCEPT ![s] = 0]
    /\ UNCHANGED <<waiting, due, loop, local, store>>

MarkSkipped(s) ==
    /\ task[s] = "mark_skipped"
    /\ SetStep(s, "skipped")
    /\ Goto(s, "done")
    /\ UNCHANGED <<tracker, due, signals, loop, result, attempt, local, status,
                   context>>

\* A panic in the executor ends the task: nothing is settled or sent.
Panic(s) ==
    /\ task[s] = "execute" /\ s \in MayPanic
    /\ Goto(s, "panicked")
    /\ UNCHANGED <<tracker, due, signals, loop, result, attempt, local, store>>

-----------------------------------------------------------------------------
(* The clients.                                                            *)

\* cancel_workflow, also called by force_cancel_all.
CancelWorkflow ==
    /\ MayCancel
    /\ status # "removed"
    /\ status' = "cancelled"
    /\ UNCHANGED <<tracker, due, signals, loop, tasks, stepStatus, context>>

\* cleanup_if_terminal (from wait_for_completion) or cleanup_old_workflows.
Cleanup ==
    /\ status \in Terminal
    /\ status' = "removed"
    /\ UNCHANGED <<tracker, due, signals, loop, tasks, stepStatus, context>>

Schedule ==
    \/ CheckCancelled \/ Drain \/ Scan \/ Arrange \/ Launch \/ Await
    \/ Receive \/ Sleep \/ FailBlocked \/ Finish

RunTask(s) ==
    \/ EvaluateCondition(s) \/ ReportCondition(s) \/ BeginAttempt(s)
    \/ Execute(s) \/ Settle(s) \/ MarkSkipped(s)

Next ==
    \/ Schedule
    \/ \E s \in Steps : RunTask(s) \/ Panic(s) \/ TimerFires(s)
    \/ CancelWorkflow
    \/ Cleanup

Spec == Init /\ [][Next]_vars

\* The runtime polls every task, and every timer fires.
FairSpec ==
    /\ Spec
    /\ WF_vars(Schedule)
    /\ \A s \in Steps : WF_vars(RunTask(s)) /\ WF_vars(TimerFires(s))

-----------------------------------------------------------------------------
\* Type invariant.
TypeOK ==
    /\ completed \subseteq Steps /\ failed \subseteq Steps
    /\ skipped \subseteq Steps /\ running \subseteq Steps
    /\ waiting \subseteq Steps /\ due \subseteq Steps
    /\ pending \subseteq Steps
    /\ signals \subseteq [step : Steps, result : Results]
    /\ sched \in SchedSteps
    /\ ready \in [wait : SUBSET Steps, deps : SUBSET Steps]
    /\ snapshot \in [processed : Nat, running : Nat, waiting : Nat]
    /\ task \in [Steps -> TaskSteps]
    /\ result \in [Steps -> Results]
    /\ attempt \in [Steps -> Nat] /\ \A s \in Steps : attempt[s] <= MaxAttempts[s]
    /\ local \in [Steps -> SUBSET Steps]
    /\ status \in {"running", "removed"} \cup Terminal
    /\ stepStatus \in [Steps -> {"pending", "running", "retrying", "succeeded",
                                 "failed", "skipped"}]
    /\ context \subseteq Steps

Launched == {s \in Steps : task[s] # "none"}

(* A step is launched once, whatever depends_on_any triggers and delays do *)
(* to pending_check: a step that is about to be launched or waits for its  *)
(* delay has no task yet, and the step of a task is in exactly one of the  *)
(* tracker's sets.                                                         *)
LaunchedOnce ==
    /\ sched \in {"arrange", "launch"} => (ready.deps \cup ready.wait) \cap Launched = {}
    /\ waiting \cap Launched = {}
    /\ Launched = running \cup Processed
    /\ running \cap Processed = {}
    /\ completed \cap skipped = {} /\ failed \cap Satisfied = {}

DependenciesMet(s) ==
    /\ DependsOn[s] \subseteq Satisfied
    /\ DependsOnAny[s] # {} => DependsOnAny[s] \cap Satisfied # {}

(* No step starts before its dependencies: every launched step has all its *)
(* depends_on steps, and one of its depends_on_any steps if it has any,    *)
(* completed or skipped.                                                   *)
DependenciesRespected == \A s \in Launched : DependenciesMet(s)

(* The completion channel, sized to the number of steps, is never full     *)
(* when a task sends: it holds at most one signal of each step, and none   *)
(* of a step that is about to send.                                        *)
ChannelNeverFull ==
    /\ \A m, n \in signals : m.step = n.step => m = n
    /\ \A s \in Steps : task[s] \in {"settle", "report_skip", "report_failure"} =>
            \A m \in signals : m.step # s

(* A workflow is reported Completed only when every step completed or was  *)
(* skipped.                                                                *)
CompletedMeansAllDone ==
    status = "completed" => Satisfied = Steps /\ failed = {}

(* The scheduler loop always ends: unless an executor panics, it never     *)
(* waits for a signal that nobody will send, or for a timer of a step it   *)
(* has forgotten.                                                          *)
WorkflowEnds == <>(sched = "exit" \/ \E s \in Steps : task[s] = "panicked")

(* A workflow is declared blocked only when some step has failed: with an  *)
(* acyclic definition there is always a step to run otherwise.             *)
BlockedOnlyAfterFailure == sched = "blocked" => failed # {}

=============================================================================
