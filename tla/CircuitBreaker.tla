--------------------------- MODULE CircuitBreaker ---------------------------
(***************************************************************************)
(* The lock-free circuit breaker of one worker                             *)
(* (model_gateway/src/worker/circuit_breaker.rs).                          *)
(*                                                                         *)
(* Several request tasks call the breaker at once.  Every load, store,     *)
(* fetch_add, swap and compare_exchange on a shared atomic is one step;    *)
(* the steps of different callers interleave.  Atomics are sequentially    *)
(* consistent here.                                                        *)
(*                                                                         *)
(* Time is relative: `age` is the time since the stamp held in             *)
(* last_state_change_ms, and a caller that has read a stamp (or the clock) *)
(* carries its age in `localAge`.  Ages stop at Timeout and the two        *)
(* counters at their threshold, since the code only compares them with     *)
(* `>=`.                                                                   *)
(***************************************************************************)
EXTENDS Naturals

CONSTANTS
    Callers,            \* tasks that may be inside the breaker at once
    FailureThreshold,   \* config.failure_threshold
    SuccessThreshold,   \* config.success_threshold
    Timeout,            \* config.timeout_duration, in clock ticks
    Calls               \* the entry points the callers use

Closed   == "closed"
Open     == "open"
HalfOpen == "half_open"

CircuitState == {Closed, Open, HalfOpen}

\* The public operations; "check" stands for state(), can_execute(),
\* is_half_open() and stats(), which all run the same check.
Ops == {"check", "success", "failure", "test_success", "test_failure",
        "reset", "force_open"}

ASSUME BreakerAssumption ==
    /\ FailureThreshold \in Nat \ {0}
    /\ SuccessThreshold \in Nat \ {0}
    /\ Timeout \in Nat \ {0}
    /\ Calls \subseteq Ops

VARIABLES
    state,              \* AtomicU8 state
    failures,           \* AtomicU32 consecutive_failures
    successes,          \* AtomicU32 consecutive_successes
    age,                \* now_ms() - last_state_change_ms
    pc,                 \* next atomic step of each caller
    op,                 \* the operation each caller is running
    reached,            \* the counter value it got back met its threshold
    localAge,           \* age of the stamp or clock value the caller holds
    held                \* ghost: time since `state` last changed

vars == <<state, failures, successes, age, pc, op, reached, localAge, held>>

Steps == {"idle", "load_state", "load_change", "cas", "reread",
          "clear", "count", "decide", "swap",
          "stamp", "store", "zero_failures", "zero_successes",
          "reset_failures", "reset_successes"}

UpTo(x, bound) == IF x > bound THEN bound ELSE x

Init ==
    /\ state = Closed
    /\ failures = 0
    /\ successes = 0
    /\ age = 0
    /\ pc = [t \in Callers |-> "idle"]
    /\ op = [t \in Callers |-> "check"]
    /\ reached = [t \in Callers |-> FALSE]
    /\ localAge = [t \in Callers |-> 0]
    /\ held = 0

Goto(t, step) == pc' = [pc EXCEPT ![t] = step]

\* Go on to another step of the operation, or end it.  (A local value that is
\* not read again gets its initial value back, here and below.)
GoOnOrEnd(t, step) ==
    /\ Goto(t, step)
    /\ op' = IF step = "idle" THEN [op EXCEPT ![t] = "check"] ELSE op

Moved == held' = IF state' = state THEN held ELSE 0

\* What transition_to, or the compare_exchange of the check, moves to.
Target(o) == IF o \in {"success", "reset"} THEN Closed
             ELSE IF o \in {"failure", "force_open"} THEN Open
             ELSE HalfOpen

-----------------------------------------------------------------------------
(* Entry points.                                                           *)

FirstStep(o) == IF o \in {"success", "failure"} THEN "clear"
                ELSE IF o \in {"reset", "force_open"} THEN "swap"
                ELSE "load_state"

Call(t) ==
    /\ pc[t] = "idle"
    /\ \E o \in Calls :
        /\ op' = [op EXCEPT ![t] = o]
        /\ Goto(t, FirstStep(o))
    /\ UNCHANGED <<state, failures, successes, age, reached, localAge, held>>

(* check_and_update_state_returning.  A record_test_* call goes on to      *)
(* record its outcome when the check returned HalfOpen.                    *)

Outcome(o) == IF o = "test_success" THEN "success" ELSE "failure"

Returned(t, seen) ==
    LET records == seen = HalfOpen /\ op[t] \in {"test_success", "test_failure"}
    IN  /\ op' = [op EXCEPT ![t] = IF records THEN Outcome(op[t]) ELSE "check"]
        /\ Goto(t, IF records THEN "clear" ELSE "idle")

LoadState(t) ==
    /\ pc[t] = "load_state"
    /\ IF state = Open THEN Goto(t, "load_change") /\ op' = op
                       ELSE Returned(t, state)
    /\ UNCHANGED <<state, failures, successes, age, reached, localAge, held>>

LoadChange(t) ==
    /\ pc[t] = "load_change"
    /\ localAge' = [localAge EXCEPT ![t] = age]
    /\ Goto(t, "cas")
    /\ UNCHANGED <<state, failures, successes, age, op, reached, held>>

\* Mutant: half-opens without looking at the elapsed time.
CasHalfOpen_NoTimeout(t) ==
    /\ pc[t] = "cas"
    /\ op' = op
    /\ IF state = Open
       THEN state' = HalfOpen /\ Goto(t, "stamp")
       ELSE state' = state /\ Goto(t, "reread")
    /\ Moved
    /\ localAge' = [localAge EXCEPT ![t] = 0]
    /\ UNCHANGED <<failures, successes, age, reached>>

\* Mutant: compare_exchange with its two states swapped.
CasHalfOpen_Swapped(t) ==
    /\ pc[t] = "cas"
    /\ IF localAge[t] < Timeout
       THEN state' = state /\ Returned(t, Open)
       ELSE /\ op' = op
            /\ IF state = HalfOpen
               THEN state' = Open /\ Goto(t, "stamp")
               ELSE state' = state /\ Goto(t, "reread")
    /\ Moved
    /\ localAge' = [localAge EXCEPT ![t] = 0]
    /\ UNCHANGED <<failures, successes, age, reached>>

\* Read the clock, compare, and compare_exchange(OPEN, HALF_OPEN).
CasHalfOpen(t) ==
    /\ pc[t] = "cas"
    /\ IF localAge[t] < Timeout
       THEN state' = state /\ Returned(t, Open)
       ELSE /\ op' = op
            /\ IF state = Open
               THEN state' = HalfOpen /\ Goto(t, "stamp")
               ELSE state' = state /\ Goto(t, "reread")
    /\ Moved
    /\ localAge' = [localAge EXCEPT ![t] = 0]
    /\ UNCHANGED <<failures, successes, age, reached>>

Reread(t) ==
    /\ pc[t] = "reread"
    /\ Returned(t, state)
    /\ UNCHANGED <<state, failures, successes, age, reached, localAge, held>>

-----------------------------------------------------------------------------
(* record_success and record_failure: clear the opposite counter, bump the *)
(* own one, then load the state and decide.                                *)

ClearOther(t) ==
    /\ pc[t] = "clear"
    /\ IF op[t] = "success" THEN failures' = 0 /\ successes' = successes
                            ELSE successes' = 0 /\ failures' = failures
    /\ Goto(t, "count")
    /\ UNCHANGED <<state, age, op, reached, localAge, held>>

\* Mutant: compares the value fetch_add returned, without the + 1.
Count_OldValue(t) ==
    /\ pc[t] = "count"
    /\ IF op[t] = "success"
       THEN /\ successes' = UpTo(successes + 1, SuccessThreshold)
            /\ reached' = [reached EXCEPT ![t] = successes >= SuccessThreshold]
            /\ failures' = failures
       ELSE /\ failures' = UpTo(failures + 1, FailureThreshold)
            /\ reached' = [reached EXCEPT ![t] = failures >= FailureThreshold]
            /\ successes' = successes
    /\ Goto(t, "decide")
    /\ UNCHANGED <<state, age, op, localAge, held>>

Count(t) ==
    /\ pc[t] = "count"
    /\ IF op[t] = "success"
       THEN /\ successes' = UpTo(successes + 1, SuccessThreshold)
            /\ reached' = [reached EXCEPT ![t] = successes' >= SuccessThreshold]
            /\ failures' = failures
       ELSE /\ failures' = UpTo(failures + 1, FailureThreshold)
            /\ reached' = [reached EXCEPT ![t] = failures' >= FailureThreshold]
            /\ successes' = successes
    /\ Goto(t, "decide")
    /\ UNCHANGED <<state, age, op, localAge, held>>

Decide(t) ==
    /\ pc[t] = "decide"
    /\ GoOnOrEnd(t, IF \/ op[t] = "success" /\ state = HalfOpen /\ reached[t]
                       \/ op[t] = "failure" /\ state = Closed /\ reached[t]
                       \/ op[t] = "failure" /\ state = HalfOpen
                    THEN "swap" ELSE "idle")
    /\ reached' = [reached EXCEPT ![t] = FALSE]
    /\ UNCHANGED <<state, failures, successes, age, localAge, held>>

-----------------------------------------------------------------------------
(* transition_to: an unconditional swap, then the stamp and the counters.  *)

AfterTransition(t) == IF op[t] = "reset" THEN "reset_failures" ELSE "idle"

\* Mutant: transition_to returns early when another caller's swap won.
Swap_SkipsReset(t) ==
    /\ pc[t] = "swap"
    /\ state' = Target(op[t])
    /\ GoOnOrEnd(t, IF state = Closed THEN "stamp" ELSE AfterTransition(t))
    /\ Moved
    /\ UNCHANGED <<failures, successes, age, reached, localAge>>

Swap(t) ==
    /\ pc[t] = "swap"
    /\ state' = Target(op[t])
    /\ GoOnOrEnd(t, IF state # state' THEN "stamp" ELSE AfterTransition(t))
    /\ Moved
    /\ UNCHANGED <<failures, successes, age, reached, localAge>>

\* now_ms() is read before the store and may be stale when stored.
ReadClock(t) ==
    /\ pc[t] = "stamp"
    /\ localAge' = [localAge EXCEPT ![t] = 0]
    /\ Goto(t, "store")
    /\ UNCHANGED <<state, failures, successes, age, op, reached, held>>

StoreChange(t) ==
    /\ pc[t] = "store"
    /\ age' = localAge[t]
    /\ localAge' = [localAge EXCEPT ![t] = 0]
    /\ Goto(t, IF Target(op[t]) = Open THEN "zero_successes" ELSE "zero_failures")
    /\ UNCHANGED <<state, failures, successes, op, reached, held>>

ZeroFailures(t) ==
    /\ pc[t] = "zero_failures"
    /\ failures' = 0
    /\ Goto(t, "zero_successes")
    /\ UNCHANGED <<state, successes, age, op, reached, localAge, held>>

\* The last store of a transition; a successful check returns HalfOpen.
ZeroSuccesses(t) ==
    /\ pc[t] = "zero_successes"
    /\ successes' = 0
    /\ IF Target(op[t]) = HalfOpen
       THEN Returned(t, HalfOpen)
       ELSE GoOnOrEnd(t, AfterTransition(t))
    /\ UNCHANGED <<state, failures, age, reached, localAge, held>>

\* reset() clears both counters again, whether or not it changed the state.
ResetFailures(t) ==
    /\ pc[t] = "reset_failures"
    /\ failures' = 0
    /\ Goto(t, "reset_successes")
    /\ UNCHANGED <<state, successes, age, op, reached, localAge, held>>

ResetSuccesses(t) ==
    /\ pc[t] = "reset_successes"
    /\ successes' = 0
    /\ GoOnOrEnd(t, "idle")
    /\ UNCHANGED <<state, failures, age, reached, localAge, held>>

-----------------------------------------------------------------------------
Tick ==
    /\ age' = UpTo(age + 1, Timeout)
    /\ held' = UpTo(held + 1, Timeout)
    /\ localAge' = [t \in Callers |-> IF pc[t] \in {"cas", "store"}
                                      THEN UpTo(localAge[t] + 1, Timeout)
                                      ELSE localAge[t]]
    /\ UNCHANGED <<state, failures, successes, pc, op, reached>>

Run(t) ==
    \/ LoadState(t) \/ LoadChange(t) \/ CasHalfOpen(t) \/ Reread(t)
    \/ ClearOther(t) \/ Count(t) \/ Decide(t)
    \/ Swap(t) \/ ReadClock(t) \/ StoreChange(t)
    \/ ZeroFailures(t) \/ ZeroSuccesses(t)
    \/ ResetFailures(t) \/ ResetSuccesses(t)

Next == Tick \/ \E t \in Callers : Call(t) \/ Run(t)

Spec == Init /\ [][Next]_vars

Check(t) == Call(t) /\ op'[t] = "check"

\* Requests keep coming, so some caller checks the breaker again and again
\* (worker selection calls is_available for each request), and no task stops
\* half-way through an operation that never awaits.
Fairness ==
    /\ WF_vars(Tick)
    /\ \A t \in Callers : WF_vars(Run(t))
    /\ SF_vars(\E t \in Callers : Check(t))

-----------------------------------------------------------------------------
\* Type invariant.
TypeOK ==
    /\ state \in CircuitState
    /\ failures \in 0..FailureThreshold
    /\ successes \in 0..SuccessThreshold
    /\ age \in 0..Timeout
    /\ pc \in [Callers -> Steps]
    /\ op \in [Callers -> Ops]
    /\ reached \in [Callers -> BOOLEAN]
    /\ localAge \in [Callers -> 0..Timeout]
    /\ held \in 0..Timeout

Quiescent == \A t \in Callers : pc[t] = "idle"

(* Whatever the interleaving of concurrent outcomes, once no call is in    *)
(* progress a closed circuit holds fewer failures than the threshold that  *)
(* opens it and a half-open one fewer successes than the threshold that    *)
(* closes it: no trip and no recovery is lost between the fetch_add of a   *)
(* counter, the later load of the state, and the counter resets that       *)
(* follow another caller's swap.                                           *)
CountersMatchState ==
    Quiescent => /\ state = Closed   => failures < FailureThreshold
                 /\ state = HalfOpen => successes < SuccessThreshold

\* Caller t will still open the circuit or clear the failures.
FailuresSettle(t) ==
    \/ pc[t] = "decide" /\ op[t] = "failure" /\ reached[t]
    \/ pc[t] = "swap" /\ op[t] \in {"failure", "force_open"}
    \/ pc[t] \in {"stamp", "store"} /\ Target(op[t]) # Open
    \/ pc[t] \in {"zero_failures", "reset_failures"}

\* Caller t will still close the circuit or clear the successes.
SuccessesSettle(t) ==
    \/ pc[t] = "decide" /\ op[t] = "success" /\ reached[t]
    \/ pc[t] = "swap" /\ op[t] \in {"success", "reset"}
    \/ pc[t] \in {"stamp", "store", "zero_failures", "zero_successes",
                  "reset_failures", "reset_successes"}

(* The inductive form of CountersMatchState: a counter at its threshold    *)
(* always has a caller that is about to act on it.                         *)
ThresholdHasOwner ==
    /\ \A t \in Callers :
        /\ pc[t] \in {"clear", "count", "decide"} => op[t] \in {"success", "failure"}
        /\ pc[t] = "swap" => op[t] \in {"success", "failure", "reset", "force_open"}
    /\ state = Closed /\ failures >= FailureThreshold =>
        \E t \in Callers : FailuresSettle(t)
    /\ state = HalfOpen /\ successes >= SuccessThreshold =>
        \E t \in Callers : SuccessesSettle(t)

(* An open circuit does not stay open for ever: once the timeout has       *)
(* passed, a later check moves it on (or a reset closes it).               *)
OpenIsProbed == state = Open ~> state # Open

=============================================================================
