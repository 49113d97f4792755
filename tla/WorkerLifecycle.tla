-------------------------- MODULE WorkerLifecycle ---------------------------
(***************************************************************************)
(* The life of the gateway's workers: registry, jobs, worker manager and   *)
(* routed requests together.                                               *)
(***************************************************************************)
EXTENDS WorkerManager

Init ==
  /\ RegistryInit
  /\ JobsInit
  /\ ManagerInit

Job(w) ==
  /\ SubmitJob(w) \/ JobStep(w)
  /\ UNCHANGED managerVars

Removal(r) ==
  /\ (\E u \in Urls : DeleteWorker(r, u)) \/ RemovalStep(r)
  /\ UNCHANGED managerVars

Post(u) ==
  /\ Reserve(u)
  /\ UNCHANGED managerVars

HealthLoop ==
  \/ \E i \in Ids : Unschedule(i) \/ GiveUpOnFailed(i) \/ LaunchProbe(i)
  \/ \E i \in Ids, ok \in BOOLEAN : CompleteProbe(i, ok)
  \/ \E n \in 1 .. Len(events) : ReceiveEvent(events[n])
  \/ Reconcile

Request(q) == (\E m \in Models : Route(q, m)) \/ DropGuard(q)

Next ==
  \/ \E w \in Workers : Job(w)
  \/ \E r \in Removals : Removal(r)
  \/ \E u \in Urls : Post(u)
  \/ HealthLoop
  \/ \E q \in Requests : Request(q)

Spec == Init /\ [][Next]_vars

(***************************************************************************)
(* Type invariant of the registry, the jobs and the manager's schedule.    *)
(***************************************************************************)
TypeOK == RegistryTypeOK /\ JobsTypeOK /\ ManagerTypeOK

(***************************************************************************)
(* A registered worker that is health-checked and has never been Failed is *)
(* going to be probed: it has a deadline, or the event that will give it   *)
(* one is on its way, or the manager is about to rebuild its schedule.     *)
(* (run_health_loop, schedule_descriptor_at, reconcile_from_registry.)     *)
(***************************************************************************)
Probed(i) ==
  \/ i \in next_check
  \/ \E n \in 1 .. Len(events) :
       events[n].kind \in {"Registered", "Replaced"} /\ events[n].id = i
  \/ lagged

NeverFailedIsProbed ==
  \A i \in Registered :
    LET w == workers[i] IN
    built[w].checked /\ built[w].runtime \notin everFailed /\ built[w].url \notin raced => Probed(i)

(***************************************************************************)
(* Routing sees exactly the registered workers: the model index and the    *)
(* worker map agree whenever no removal of the url is half done.           *)
(* (register_inner, replace and remove maintain both.)  The state is well  *)
(* typed throughout, which bounds the event channel.                       *)
(***************************************************************************)
IndexAgrees ==
  /\ TypeOK
  /\ \A w \in Workers :
       built[w].url \notin raced /\ ~RemovalHalfDone(built[w].url) =>
         {m \in Models : w \in model_index[m]}
           = IF IdOf(w) # None THEN {built[w].model} ELSE {}

(***************************************************************************)
(* A worker's load counter is the number of requests running at its url    *)
(* since it was registered, also across replacements of the object, which  *)
(* share the WorkerRuntime.                                                *)
(***************************************************************************)
LoadSurvivesReplace ==
  \A i \in Registered :
    LET w == workers[i] IN
    built[w].url \notin raced =>
      Runtime(w).load = Cardinality({q \in Requests : guards[q].id = i})

(***************************************************************************)
(* At most one worker is registered per url, unless a registration has     *)
(* overlapped a removal of it: register_inner resolves the id before it    *)
(* has the lock, and would insert under an id that the url no longer has.  *)
(***************************************************************************)
OneWorkerPerUrl ==
  \A i, j \in Registered :
    LET u == built[workers[i]].url IN
    u \notin raced /\ built[workers[j]].url = u => i = j

(***************************************************************************)
(* A probe in flight counts for the worker it was launched for and for no  *)
(* other: apply_probe_completion goes by id and revision, and these two    *)
(* identify the object, also after replacements, removals and              *)
(* registrations of the same url that do not overlap.                      *)
(***************************************************************************)
ProbeHitsItsWorker ==
  \A i \in Registered :
    /\ InFlight(i)
    /\ Revision(workers[i]) = probes[i].revision
    /\ built[workers[i]].url \notin raced
    => probes[i].of = workers[i]
=============================================================================
