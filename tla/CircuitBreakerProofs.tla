------------------------ MODULE CircuitBreakerProofs ------------------------
(***************************************************************************)
(* CountersMatchState for any set of concurrent callers and any thresholds *)
(* and timeout.  The property is not inductive: between a fetch_add and    *)
(* the swap it leads to the counter is at its threshold in a closed        *)
(* circuit.  ThresholdHasOwner names the caller that still owes the step.  *)
(***************************************************************************)
EXTENDS CircuitBreaker, TLAPS

\* A leaf is first-order reasoning unless it names SMT, for arithmetic.
USE ZenonT(30)

LEMMA TargetRange == ASSUME NEW o PROVE Target(o) \in CircuitState
BY DEF Target, CircuitState

(* The breaker's fields and the callers' local values keep their types.    *)
THEOREM Typing == Spec => []TypeOK
<1>1. Init => TypeOK
  BY SMTT(30), BreakerAssumption DEF Init, TypeOK, Steps, Ops, CircuitState, Closed
<1>2. ASSUME TypeOK, [Next]_vars PROVE TypeOK'
  <2> USE <1>2, BreakerAssumption DEF TypeOK
  <2>1. ASSUME NEW t \in Callers, Call(t) PROVE TypeOK'
    BY <2>1 DEF Call, Goto, FirstStep, Steps
  <2>2. ASSUME NEW t \in Callers, LoadState(t) PROVE TypeOK'
    BY SMTT(30), <2>2 DEF LoadState, Returned, Outcome, Goto, Steps, Ops
  <2>3. ASSUME NEW t \in Callers, LoadChange(t) PROVE TypeOK'
    BY <2>3 DEF LoadChange, Goto, Steps
  <2>4. ASSUME NEW t \in Callers, CasHalfOpen(t) PROVE TypeOK'
    BY SMTT(30), <2>4 DEF CasHalfOpen, Returned, Outcome, Moved, Goto, Steps, Ops, CircuitState
  <2>5. ASSUME NEW t \in Callers, Reread(t) PROVE TypeOK'
    BY <2>5 DEF Reread, Returned, Outcome, Goto, Steps, Ops
  <2>6. ASSUME NEW t \in Callers, ClearOther(t) PROVE TypeOK'
    BY SMTT(30), <2>6 DEF ClearOther, Goto, Steps
  <2>7. ASSUME NEW t \in Callers, Count(t) PROVE TypeOK'
    <3>1. failures' \in 0..FailureThreshold /\ successes' \in 0..SuccessThreshold
      <4>1. /\ UpTo(failures + 1, FailureThreshold) \in 0..FailureThreshold
            /\ UpTo(successes + 1, SuccessThreshold) \in 0..SuccessThreshold
        BY SMTT(30) DEF UpTo
      <4> QED
        BY <2>7, <4>1 DEF Count
    <3>2. reached' \in [Callers -> BOOLEAN]
      <4>1. (successes' >= SuccessThreshold) \in BOOLEAN
        BY SMTT(30)
      <4>2. (failures' >= FailureThreshold) \in BOOLEAN
        BY SMTT(30)
      <4> QED
        BY <2>7, <4>1, <4>2 DEF Count
    <3> QED
      BY <2>7, <3>1, <3>2 DEF Count, Goto, Steps
  <2>8. ASSUME NEW t \in Callers, Decide(t) PROVE TypeOK'
    BY <2>8 DEF Decide, GoOnOrEnd, Goto, Steps, Ops
  <2>9. ASSUME NEW t \in Callers, Swap(t) PROVE TypeOK'
    BY SMTT(30), <2>9, TargetRange DEF Swap, AfterTransition, Moved, GoOnOrEnd, Goto, Steps, Ops
  <2>10. ASSUME NEW t \in Callers, ReadClock(t) PROVE TypeOK'
    BY SMTT(30), <2>10 DEF ReadClock, Goto, Steps
  <2>11. ASSUME NEW t \in Callers, StoreChange(t) PROVE TypeOK'
    BY SMTT(30), <2>11 DEF StoreChange, Goto, Steps
  <2>12. ASSUME NEW t \in Callers, ZeroFailures(t) PROVE TypeOK'
    BY SMTT(30), <2>12 DEF ZeroFailures, Goto, Steps
  <2>13. ASSUME NEW t \in Callers, ZeroSuccesses(t) PROVE TypeOK'
    BY SMTT(30), <2>13 DEF ZeroSuccesses, Returned, Outcome, AfterTransition, GoOnOrEnd, Goto, Steps, Ops
  <2>14. ASSUME NEW t \in Callers, ResetFailures(t) PROVE TypeOK'
    BY SMTT(30), <2>14 DEF ResetFailures, Goto, Steps
  <2>15. ASSUME NEW t \in Callers, ResetSuccesses(t) PROVE TypeOK'
    BY SMTT(30), <2>15 DEF ResetSuccesses, GoOnOrEnd, Goto, Steps, Ops
  <2>16. CASE Tick
    BY SMTT(30), <2>16 DEF Tick, UpTo
  <2>17. CASE UNCHANGED vars
    BY <2>17 DEF vars
  <2> QED
    BY <2>1, <2>2, <2>3, <2>4, <2>5, <2>6, <2>7, <2>8, <2>9, <2>10, <2>11,
       <2>12, <2>13, <2>14, <2>15, <2>16, <2>17 DEF Next, Run
<1> QED
  BY <1>1, <1>2, PTL DEF Spec

LEMMA OwnerInit == Init => ThresholdHasOwner
BY SMTT(30), BreakerAssumption DEF Init, ThresholdHasOwner, HalfOpen, Closed

LEMMA OwnerStep ==
    ASSUME TypeOK, ThresholdHasOwner, [Next]_vars
    PROVE  ThresholdHasOwner'
<1> USE BreakerAssumption DEF TypeOK, ThresholdHasOwner, FailuresSettle,
        SuccessesSettle, Closed, Open, HalfOpen, Target, Goto, GoOnOrEnd
<1>1. ASSUME NEW t \in Callers, Call(t) PROVE ThresholdHasOwner'
  BY SMTT(30), <1>1 DEF Call, FirstStep
<1>2. ASSUME NEW t \in Callers, LoadState(t) PROVE ThresholdHasOwner'
  BY SMTT(30), <1>2 DEF LoadState, Returned, Outcome
<1>3. ASSUME NEW t \in Callers, LoadChange(t) PROVE ThresholdHasOwner'
  BY <1>3 DEF LoadChange
<1>4. ASSUME NEW t \in Callers, CasHalfOpen(t) PROVE ThresholdHasOwner'
  BY SMTT(30), <1>4 DEF CasHalfOpen, Returned, Outcome
<1>5. ASSUME NEW t \in Callers, Reread(t) PROVE ThresholdHasOwner'
  BY <1>5 DEF Reread, Returned, Outcome
<1>6. ASSUME NEW t \in Callers, ClearOther(t) PROVE ThresholdHasOwner'
  BY SMTT(30), <1>6 DEF ClearOther
<1>7. ASSUME NEW t \in Callers, Count(t) PROVE ThresholdHasOwner'
  <2>1. pc' = [pc EXCEPT ![t] = "decide"] /\ UNCHANGED <<state, op>> BY <1>7 DEF Count
  <2>2. \A u \in Callers :
          /\ pc'[u] \in {"clear", "count", "decide"} => op'[u] \in {"success", "failure"}
          /\ pc'[u] = "swap" => op'[u] \in {"success", "failure", "reset", "force_open"}
    BY <1>7, <2>1 DEF Count
  <2>3. ASSUME state' = Closed, failures' >= FailureThreshold PROVE \E u \in Callers : FailuresSettle(u)'
    <3>1. CASE op[t] = "failure"
      <4>1. reached'[t] = TRUE /\ pc'[t] = "decide" /\ op'[t] = "failure"
        BY <1>7, <2>1, <2>3, <3>1 DEF Count
      <4> QED BY <4>1
    <3>2. CASE op[t] = "success"
      <4>1. failures' = failures /\ pc[t] = "count" /\ \A u \in Callers \ {t} : reached'[u] = reached[u]
        BY <1>7, <3>2 DEF Count
      <4>2. PICK u \in Callers : FailuresSettle(u) BY <2>1, <2>3, <4>1
      <4>3. u # t BY <3>2, <4>1, <4>2
      <4> QED BY <2>1, <4>1, <4>2, <4>3
    <3> QED BY <1>7, <3>1, <3>2 DEF Count
  <2>4. ASSUME state' = HalfOpen, successes' >= SuccessThreshold PROVE \E u \in Callers : SuccessesSettle(u)'
    <3>1. CASE op[t] = "success"
      <4>1. reached'[t] = TRUE /\ pc'[t] = "decide" /\ op'[t] = "success"
        BY <1>7, <2>1, <2>4, <3>1 DEF Count
      <4> QED BY <4>1
    <3>2. CASE op[t] = "failure"
      <4>1. successes' = successes /\ pc[t] = "count" /\ \A u \in Callers \ {t} : reached'[u] = reached[u]
        BY <1>7, <3>2 DEF Count
      <4>2. PICK u \in Callers : SuccessesSettle(u) BY <2>1, <2>4, <4>1
      <4>3. u # t BY <3>2, <4>1, <4>2
      <4> QED BY <2>1, <4>1, <4>2, <4>3
    <3> QED BY <1>7, <3>1, <3>2 DEF Count
  <2> QED BY <2>2, <2>3, <2>4
<1>8. ASSUME NEW t \in Callers, Decide(t) PROVE ThresholdHasOwner'
  BY SMTT(30), <1>8 DEF Decide
<1>9. ASSUME NEW t \in Callers, Swap(t) PROVE ThresholdHasOwner'
  BY SMTT(30), <1>9 DEF Swap, AfterTransition
<1>10. ASSUME NEW t \in Callers, ReadClock(t) PROVE ThresholdHasOwner'
  BY <1>10 DEF ReadClock
<1>11. ASSUME NEW t \in Callers, StoreChange(t) PROVE ThresholdHasOwner'
  BY <1>11 DEF StoreChange
<1>12. ASSUME NEW t \in Callers, ZeroFailures(t) PROVE ThresholdHasOwner'
  BY SMTT(30), <1>12 DEF ZeroFailures
<1>13. ASSUME NEW t \in Callers, ZeroSuccesses(t) PROVE ThresholdHasOwner'
  BY SMTT(30), <1>13 DEF ZeroSuccesses, Returned, Outcome, AfterTransition
<1>14. ASSUME NEW t \in Callers, ResetFailures(t) PROVE ThresholdHasOwner'
  BY SMTT(30), <1>14 DEF ResetFailures
<1>15. ASSUME NEW t \in Callers, ResetSuccesses(t) PROVE ThresholdHasOwner'
  BY SMTT(30), <1>15 DEF ResetSuccesses
<1>16. CASE Tick
  BY <1>16 DEF Tick
<1>17. CASE UNCHANGED vars
  BY <1>17 DEF vars
<1> QED
  BY <1>1, <1>2, <1>3, <1>4, <1>5, <1>6, <1>7, <1>8, <1>9, <1>10, <1>11,
     <1>12, <1>13, <1>14, <1>15, <1>16, <1>17 DEF Next, Run

LEMMA OwnerImpliesMatch == TypeOK /\ ThresholdHasOwner => CountersMatchState
BY SMTT(30), BreakerAssumption DEF TypeOK, ThresholdHasOwner, CountersMatchState,
   Quiescent, FailuresSettle, SuccessesSettle

(* Every counter at its threshold has a caller that will act on it.        *)
THEOREM OwnerInvariant == Spec => []ThresholdHasOwner
<1>1. TypeOK /\ ThresholdHasOwner /\ [Next]_vars => ThresholdHasOwner'
  BY OwnerStep
<1> QED
  BY OwnerInit, <1>1, Typing, PTL DEF Spec

(* No trip and no recovery is lost: when no call is in progress, a closed  *)
(* circuit is below its failure threshold and a half-open one below its    *)
(* success threshold, for any number of callers of record_outcome,         *)
(* can_execute, record_test_*, reset and force_open.                       *)
THEOREM CountersMatchStateAlways == Spec => []CountersMatchState
BY Typing, OwnerInvariant, OwnerImpliesMatch, PTL

=============================================================================
