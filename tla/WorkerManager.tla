--------------------------- MODULE WorkerManager ----------------------------
(***************************************************************************)
(* The worker manager: one task that keeps a schedule of workers to probe, *)
(* runs the probes concurrently, applies their outcomes to the worker's    *)
(* lifecycle status, and follows the registry through its events.  With it *)
(* the requests that are routed to Ready workers and hold a load guard.    *)
(*                                                                         *)
(* Deadlines are abstracted: a scheduled worker may come due at any time.  *)
(***************************************************************************)
EXTENDS WorkerJobs

CONSTANTS
  SuccessThreshold,   \* consecutive successes that make a worker Ready
  FailureThreshold,   \* consecutive failures that make it NotReady
  LivenessFactor,     \* FailureThreshold times this makes a NotReady worker Failed (3)
  PendingFactor,      \* probes of a Pending worker, in FailureThresholds, before it is Failed (10)
  RemoveUnhealthy,    \* whether Failed workers are removed
  Requests            \* bound: requests in flight at a time

ASSUME ThresholdAssumption ==
  /\ SuccessThreshold \in Nat \ {0}
  /\ FailureThreshold \in Nat \ {0}
  /\ LivenessFactor \in Nat \ {0}
  /\ PendingFactor \in Nat \ {0}
  /\ RemoveUnhealthy \in BOOLEAN

VARIABLES
  next_check,   \* the ids with a deadline
  probes,       \* id -> the probe in flight, or NoProbe
  guards        \* request -> the worker it runs on and the id it had, or NoGuard

managerVars == <<next_check, probes, guards>>
vars == <<registryVars, jobVars, managerVars>>

NoProbe == [revision |-> -1, launched |-> "Pending", of |-> None]
NoGuard == [worker |-> None, id |-> None]

ManagerTypeOK ==
  /\ next_check \subseteq Ids
  /\ probes \in [Ids -> [revision : -1 .. NumWorkers, launched : Statuses,
                       of : Workers \cup {None}]]
  /\ guards \in [Requests -> [worker : Workers \cup {None}, id : Ids \cup {None}]]

ManagerInit ==
  /\ next_check = {}
  /\ probes = [i \in Ids |-> NoProbe]
  /\ guards = [q \in Requests |-> NoGuard]

(***************************************************************************)
(* The id under which w is registered, None when it no longer is.          *)
(***************************************************************************)
IdOf(w) == IF \E i \in Ids : workers[i] = w THEN CHOOSE i \in Ids : workers[i] = w ELSE None

InFlight(i) == probes[i] # NoProbe

(***************************************************************************)
(* compute_next_status: the runtime after a probe outcome.  launched says  *)
(* whether the probe was started while the worker was Pending, which       *)
(* counts towards the cap on Pending probes.                               *)
(***************************************************************************)
LivenessThreshold == FailureThreshold * LivenessFactor
MaxPendingProbes  == FailureThreshold * PendingFactor

AfterSuccess(rt) ==
  LET up == [rt EXCEPT !.failures = 0, !.successes = @ + 1] IN
  CASE rt.status \in {"Pending", "NotReady"} /\ up.successes >= SuccessThreshold ->
         [up EXCEPT !.successes = 0, !.pending = 0, !.status = "Ready"]
    [] rt.status = "Pending" /\ up.successes < SuccessThreshold
                             /\ rt.pending >= MaxPendingProbes ->
         [up EXCEPT !.successes = 0, !.status = "Failed"]
    [] OTHER -> up

AfterFailure(rt) ==
  LET down == [rt EXCEPT !.successes = 0, !.failures = @ + 1] IN
  CASE rt.status = "Ready" /\ down.failures >= FailureThreshold ->
         [down EXCEPT !.failures = 0, !.status = "NotReady"]
    [] rt.status = "NotReady" /\ down.failures >= LivenessThreshold ->
         [down EXCEPT !.failures = 0, !.status = "Failed"]
    [] rt.status = "Pending" /\ rt.pending >= MaxPendingProbes ->
         [down EXCEPT !.failures = 0, !.status = "Failed"]
    [] OTHER -> down

(***************************************************************************)
(* Bound: counters stop where a larger value would make no difference to   *)
(* any later comparison with a threshold.                                  *)
(***************************************************************************)
Saturated(rt) ==
  LET Capped(n, cap) == IF n > cap THEN cap ELSE n
  IN [rt EXCEPT !.successes = Capped(@, SuccessThreshold - 1),
                !.failures = Capped(@, LivenessThreshold - 1),
                !.pending = Capped(@, MaxPendingProbes)]

AfterProbe(rt, launched, ok) ==
  LET counted == IF launched = "Pending" THEN [rt EXCEPT !.pending = @ + 1] ELSE rt
  IN Saturated(IF ok THEN AfterSuccess(counted) ELSE AfterFailure(counted))

(***************************************************************************)
(* queue_due_probes, for one id that is due and has no probe in flight.    *)
(***************************************************************************)
Unschedule(i) ==
  LET w == workers[i] IN
  /\ i \in next_check
  /\ ~InFlight(i)
  /\ w # None => ~built[w].checked
  /\ next_check' = next_check \ {i}
  /\ UNCHANGED <<registryVars, jobVars, probes, guards>>

GiveUpOnFailed(i) ==
  LET w == workers[i] IN
  /\ i \in next_check
  /\ ~InFlight(i)
  /\ w # None
  /\ built[w].checked
  /\ Status(w) = "Failed"
  /\ next_check' = next_check \ {i}
  /\ IF RemoveUnhealthy THEN SubmitRemoval(built[w].url, Revision(w))
                        ELSE UNCHANGED requested
  /\ UNCHANGED <<registryVars, jobs, removals, probes, guards>>

LaunchProbe(i) ==
  LET w == workers[i] IN
  /\ i \in next_check
  /\ ~InFlight(i)
  /\ w # None
  /\ built[w].checked
  /\ Status(w) # "Failed"
  /\ probes' = [probes EXCEPT ![i] = [revision |-> Revision(w), launched |-> Status(w),
                                      of |-> w]]
  /\ UNCHANGED <<registryVars, jobVars, next_check, guards>>

(***************************************************************************)
(* apply_probe_completion: under the lock of the worker, unless it is gone *)
(* or was replaced since the probe was launched.                           *)
(***************************************************************************)
CompleteProbe(i, ok) ==
  LET w   == workers[i]
      new == AfterProbe(Runtime(w), probes[i].launched, ok)
  IN /\ InFlight(i)
     /\ probes' = [probes EXCEPT ![i] = NoProbe]
     /\ IF w # None /\ Revision(w) = probes[i].revision
        THEN /\ runtime' = [runtime EXCEPT ![built[w].runtime] = new]
             /\ IF new.status # Status(w) THEN Publish("StatusChanged", None, None)
                                          ELSE UNCHANGED <<events, lagged>>
             /\ IF new.status = "Failed" /\ Status(w) # "Failed"
                THEN /\ everFailed' = everFailed \cup {built[w].runtime}
                     /\ next_check' = next_check \ {i}
                     /\ IF RemoveUnhealthy
                        THEN SubmitRemoval(built[w].url, probes[i].revision)
                        ELSE UNCHANGED requested
                ELSE UNCHANGED <<everFailed, next_check, requested>>
        ELSE UNCHANGED <<runtime, events, lagged, everFailed, next_check, requested>>
     /\ UNCHANGED <<url_to_id, workers, model_index, built, ids_used, raced, jobs, removals, guards>>

(***************************************************************************)
(* One event from the registry.  What Registered and Replaced schedule     *)
(* depends on the status the worker has by then.                           *)
(***************************************************************************)
Scheduled(i, w) ==
  IF built[w].checked /\ Status(w) # "Failed" THEN next_check \cup {i} ELSE next_check \ {i}

ReceiveEvent(e) ==
  /\ ~lagged
  /\ events # <<>>
  /\ e = Head(events)
  /\ events' = Tail(events)
  /\ next_check' = CASE e.kind \in {"Registered", "Replaced"} -> Scheduled(e.id, e.worker)
                     [] e.kind = "Removed"       -> next_check \ {e.id}
                     [] e.kind = "StatusChanged" -> next_check
  /\ UNCHANGED <<url_to_id, workers, model_index, built, runtime, ids_used, lagged, everFailed,
                 raced, jobVars, probes, guards>>

(***************************************************************************)
(* Events were dropped: rebuild the schedule from the registry.            *)
(***************************************************************************)
Reconcile_ClearsOnly ==
  /\ lagged
  /\ lagged' = FALSE
  /\ next_check' = {}
  /\ UNCHANGED <<url_to_id, workers, model_index, built, runtime, ids_used, events, everFailed,
                 raced, jobVars, probes, guards>>

Reconcile ==
  /\ lagged
  /\ lagged' = FALSE
  /\ next_check' = {i \in Registered : built[workers[i]].checked /\ Status(workers[i]) # "Failed"}
  /\ UNCHANGED <<url_to_id, workers, model_index, built, runtime, ids_used, events, everFailed,
                 raced, jobVars, probes, guards>>

(***************************************************************************)
(* A request is routed to a Ready worker of its model and holds a load     *)
(* guard on it until its response body is dropped.                         *)
(***************************************************************************)
Route(q, m) ==
  /\ guards[q] = NoGuard
  /\ \E w \in model_index[m] :
       /\ Status(w) = "Ready"
       /\ guards' = [guards EXCEPT ![q] = [worker |-> w, id |-> IdOf(w)]]
       /\ runtime' = [runtime EXCEPT ![built[w].runtime].load = @ + 1]
  /\ UNCHANGED <<url_to_id, workers, model_index, built, ids_used, events, lagged, everFailed,
                 raced, jobVars, next_check, probes>>

DropGuard(q) ==
  /\ guards[q] # NoGuard
  /\ guards' = [guards EXCEPT ![q] = NoGuard]
  /\ runtime' = [runtime EXCEPT ![built[guards[q].worker].runtime].load = @ - 1]
  /\ UNCHANGED <<url_to_id, workers, model_index, built, ids_used, events, lagged, everFailed,
                 raced, jobVars, next_check, probes>>
=============================================================================
