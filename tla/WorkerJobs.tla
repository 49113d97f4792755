----------------------------- MODULE WorkerJobs -----------------------------
(***************************************************************************)
(* The jobs that change the worker registry, each a workflow that the job  *)
(* queue runs as a task of its own: AddWorker, UpdateWorker and            *)
(* RemoveWorker, and the handler of worker states that arrive from the     *)
(* mesh.  Jobs for one URL are not serialised with each other.             *)
(*                                                                         *)
(* What precedes registration in the AddWorker workflow (connection        *)
(* detection, metadata discovery) has no effect on the registry; it may    *)
(* fail, which leaves the id that POST /workers reserved.                  *)
(***************************************************************************)
EXTENDS WorkerRegistry, Bags

CONSTANTS
  Removals,         \* bound: as many removal jobs run at a time
  JobKinds          \* which of "add", "update", "mesh" are submitted

VARIABLES
  jobs,       \* the job that built (or will build) each worker object
  removals,   \* the removal jobs that run
  requested   \* those of the worker manager that are in the queue

removalVars == <<removals, requested>>
jobVars == <<jobs, removalVars>>

NoJob == [kind |-> "free", pc |-> "free", url |-> None, id |-> None, found |-> None,
          retry |-> FALSE]

NoRemoval == [pc |-> "free", url |-> None, id |-> None, found |-> None]

JobsTypeOK ==
  /\ \A w \in Workers :
       /\ jobs[w].kind \in {"free", "add", "update", "mesh"}
       /\ jobs[w].pc \in {"free", "update", "register", "lookup", "replace", "clear", "again",
                          "activate", "enable", "done"}
       /\ jobs[w].url \in Urls \cup {None}
       /\ jobs[w].id \in Ids \cup {None}
       /\ jobs[w].found \in Workers \cup {None}
       /\ jobs[w].retry \in BOOLEAN
  /\ \A r \in Removals :
       /\ removals[r].pc \in {"free", "lookup", "remove", "teardown"}
       /\ removals[r].url \in Urls \cup {None}
       /\ removals[r].id \in Ids \cup {None}
       /\ removals[r].found \in Workers \cup {None}
  /\ IsABag(requested)
  /\ BagToSet(requested) \subseteq [url : Urls, revision : 0 .. NumWorkers]

JobsInit ==
  /\ jobs = [w \in Workers |-> NoJob]
  /\ removals = [r \in Removals |-> NoRemoval]
  /\ requested = EmptyBag

(***************************************************************************)
(* Job w is the next one to be submitted.  (Jobs are numbered in the order *)
(* of submission; the number has no other meaning.)                        *)
(***************************************************************************)
NextJob(w) ==
  /\ jobs[w].pc = "free"
  /\ \A v \in 1 .. (w - 1) : jobs[v].pc # "free"

Goto(w, pc) == jobs' = [jobs EXCEPT ![w].pc = pc]

End(w) == jobs' = [jobs EXCEPT ![w] = [NoJob EXCEPT !.pc = "done"]]

(***************************************************************************)
(* POST /workers reserves an id for the url before it submits its job, and *)
(* answers 409, submitting nothing, when a worker is registered under it.  *)
(* The id stays reserved when the job fails before it registers anything.  *)
(***************************************************************************)
Reserve(u) ==
  /\ url_to_id[u] = None
  /\ ResolveId(u)
  /\ UNCHANGED <<workers, model_index, built, runtime, events, lagged, everFailed, raced, jobVars>>

(***************************************************************************)
(* AddWorker, from POST, from PUT /workers/{id}, from service discovery or *)
(* at startup: build the worker and call register_or_replace.  That calls  *)
(* register, which first resolves the id ...                               *)
(***************************************************************************)
AddWorker(w, u, m, checked) ==
  /\ NextJob(w)
  /\ "add" \in JobKinds
  /\ Build(w, u, m, checked, IF checked THEN "Pending" ELSE "Ready")
  /\ ResolveId(u)
  /\ jobs' = [jobs EXCEPT ![w] = [NoJob EXCEPT !.kind = "add", !.pc = "register", !.url = u,
                                               !.id = ResolvedId(u)]]
  /\ UNCHANGED <<workers, model_index, events, lagged, everFailed, raced, removalVars>>

(***************************************************************************)
(* What the job does once its worker is in the registry: an AddWorker job  *)
(* activates it, an UpdateWorker job that switched health checks off makes *)
(* it Ready, an import from the mesh is finished.                          *)
(***************************************************************************)
AfterRegister(w, id) ==
  CASE jobs[w].kind = "add" -> Goto(w, "activate")
    [] jobs[w].kind = "update" /\ ~built[w].checked ->
         jobs' = [jobs EXCEPT ![w].pc = "enable", ![w].id = id]
    [] OTHER -> End(w)

(***************************************************************************)
(* ... and then inserts under the lock.  A registration that inserts under *)
(* an id the url no longer maps to, or while a removal of the url is half  *)
(* done, has raced it.                                                     *)
(***************************************************************************)
RemovalHalfDone(u) == \E r \in Removals : removals[r].pc = "teardown" /\ removals[r].url = u

Register(w) ==
  LET u == jobs[w].url IN
  /\ jobs[w].pc = "register"
  /\ InsertWorker(jobs[w].id, w)
  /\ raced' = IF url_to_id[u] # jobs[w].id \/ RemovalHalfDone(u) THEN raced \cup {u} ELSE raced
  /\ AfterRegister(w, jobs[w].id)
  /\ UNCHANGED <<url_to_id, built, runtime, ids_used, everFailed, removalVars>>

(***************************************************************************)
(* register returned None: the id has a worker.  An import from the mesh   *)
(* stops there; register_or_replace goes on to replace, except after it    *)
(* has retried once, when it makes up an id and reports success.           *)
(***************************************************************************)
RegisterRejected(w) ==
  /\ jobs[w].pc = "register"
  /\ workers[jobs[w].id] # None
  /\ IF jobs[w].kind = "mesh" \/ jobs[w].retry THEN AfterRegister(w, None) ELSE Goto(w, "lookup")
  /\ UNCHANGED <<registryVars, removalVars>>

(***************************************************************************)
(* Which id to replace, or, when a removal has just taken the mapping      *)
(* away, the branch that the code says is not reached.                     *)
(***************************************************************************)
Lookup(w) ==
  /\ jobs[w].pc = "lookup"
  /\ jobs' = [jobs EXCEPT ![w].pc = IF url_to_id[jobs[w].url] # None THEN "replace" ELSE "clear",
                          ![w].id = url_to_id[jobs[w].url]]
  /\ UNCHANGED <<registryVars, removalVars>>

Replace(w) ==
  /\ jobs[w].pc = "replace"
  /\ \/ ReplaceWorker(jobs[w].id, w)
     \/ /\ workers[jobs[w].id] = None
        /\ UNCHANGED <<workers, model_index, built, runtime, events, lagged>>
  /\ AfterRegister(w, jobs[w].id)
  /\ UNCHANGED <<url_to_id, ids_used, everFailed, raced, removalVars>>

ClearStale(w) ==
  LET u == jobs[w].url IN
  /\ jobs[w].pc = "clear"
  /\ url_to_id' = [url_to_id EXCEPT ![u] = None]
  /\ raced' = IF url_to_id[u] # None THEN raced \cup {u} ELSE raced
  /\ jobs' = [jobs EXCEPT ![w].pc = "again", ![w].retry = TRUE]
  /\ UNCHANGED <<workers, model_index, built, runtime, ids_used, events, lagged, everFailed,
                 removalVars>>

RegisterAgain(w) ==
  /\ jobs[w].pc = "again"
  /\ ResolveId(jobs[w].url)
  /\ jobs' = [jobs EXCEPT ![w].pc = "register", ![w].id = ResolvedId(jobs[w].url)]
  /\ UNCHANGED <<workers, model_index, built, runtime, events, lagged, everFailed, raced, removalVars>>

(***************************************************************************)
(* ActivateWorkersStep sets the status of the object it built, without     *)
(* lock, event, or a reset of the health counters.                         *)
(***************************************************************************)
Activate(w) ==
  /\ jobs[w].pc = "activate"
  /\ SetStatus(w, "Ready")
  /\ End(w)
  /\ UNCHANGED <<url_to_id, workers, model_index, built, ids_used, events, lagged, raced, removalVars>>

(***************************************************************************)
(* UpdateWorker: find the worker at the url (without one the job fails),   *)
(* and in the next workflow step build a copy that may switch health       *)
(* checks on or off and keeps model and status (Ready when health checks   *)
(* are off), and register_or_replace it.                                   *)
(***************************************************************************)
FindWorkerToUpdate(w, u) ==
  /\ NextJob(w)
  /\ "update" \in JobKinds
  /\ GetByUrl(u) # None
  /\ jobs' = [jobs EXCEPT ![w] = [NoJob EXCEPT !.kind = "update", !.pc = "update", !.url = u,
                                               !.found = GetByUrl(u)]]
  /\ UNCHANGED <<registryVars, removalVars>>

UpdateProperties(w, checked) ==
  LET found == jobs[w].found
      u     == jobs[w].url
  IN /\ jobs[w].pc = "update"
     /\ Build(w, u, built[found].model, checked, IF checked THEN Status(found) ELSE "Ready")
     /\ everFailed' = IF checked /\ Status(found) = "Failed" THEN everFailed \cup {w}
                                                             ELSE everFailed
     /\ ResolveId(u)
     /\ jobs' = [jobs EXCEPT ![w].pc = "register", ![w].id = ResolvedId(u), ![w].found = None]
     /\ UNCHANGED <<workers, model_index, events, lagged, raced, removalVars>>

EnableUnchecked(w) ==
  /\ jobs[w].pc = "enable"
  /\ IF jobs[w].id # None
     THEN TransitionStatus(jobs[w].id, "Ready")
     ELSE UNCHANGED <<runtime, everFailed, events, lagged>>
  /\ End(w)
  /\ UNCHANGED <<url_to_id, workers, model_index, built, ids_used, raced, removalVars>>

(***************************************************************************)
(* A worker state arrives from the mesh.  A worker already at the url only *)
(* has its status set, without lock or event; otherwise one is built and   *)
(* registered (never replaced).                                            *)
(***************************************************************************)
MeshHint(w, u, health) ==
  LET existing == GetByUrl(u) IN
  /\ NextJob(w)
  /\ "mesh" \in JobKinds
  /\ existing # None
  /\ IF health THEN SetStatus(existing, "Ready")
     ELSE IF Status(existing) = "Ready" THEN SetStatus(existing, "NotReady")
     ELSE UNCHANGED <<runtime, everFailed>>
  /\ End(w)
  /\ UNCHANGED <<url_to_id, workers, model_index, built, ids_used, events, lagged, raced, removalVars>>

MeshImport(w, u, m, health) ==
  /\ NextJob(w)
  /\ "mesh" \in JobKinds
  /\ GetByUrl(u) = None
  /\ Build(w, u, m, TRUE, IF health THEN "Ready" ELSE "Pending")
  /\ ResolveId(u)
  /\ jobs' = [jobs EXCEPT ![w] = [NoJob EXCEPT !.kind = "mesh", !.pc = "register", !.url = u,
                                               !.id = ResolvedId(u)]]
  /\ UNCHANGED <<workers, model_index, events, lagged, everFailed, raced, removalVars>>

(***************************************************************************)
(* RemoveWorker.  The worker manager submits it, from a task that it does  *)
(* not wait for, with the revision whose probe failed; the revision is     *)
(* compared when the job looks for the worker, while the removal, two      *)
(* workflow steps later, goes by url.                                      *)
(***************************************************************************)
SubmitRemoval(u, revision) ==
  requested' = requested (+) SetToBag({[url |-> u, revision |-> revision]})

StartRemoval(r, u) ==
  removals' = [removals EXCEPT ![r] = [NoRemoval EXCEPT !.pc = "lookup", !.url = u]]

FinishRemoval(r) == removals' = [removals EXCEPT ![r] = NoRemoval]

FindWorkersToRemove(r, q) ==
  LET found == GetByUrl(q.url) IN
  /\ removals[r].pc = "free"
  /\ requested' = requested (-) SetToBag({q})
  /\ IF found # None /\ q.revision = Revision(found) THEN StartRemoval(r, q.url)
                                                      ELSE UNCHANGED removals
  /\ UNCHANGED <<registryVars, jobs>>

(***************************************************************************)
(* DELETE /workers/{id} submits it with no revision.  (Without a worker at *)
(* the url the job fails.)                                                 *)
(***************************************************************************)
DeleteWorker(r, u) ==
  /\ removals[r].pc = "free"
  /\ GetByUrl(u) # None
  /\ StartRemoval(r, u)
  /\ UNCHANGED <<registryVars, jobs, requested>>

(***************************************************************************)
(* remove_by_url: the id at the url, then remove(id), which is two steps.  *)
(***************************************************************************)
LookupRemoval(r) ==
  LET id == url_to_id[removals[r].url] IN
  /\ removals[r].pc = "lookup"
  /\ IF id # None THEN removals' = [removals EXCEPT ![r].pc = "remove", ![r].id = id]
                  ELSE FinishRemoval(r)
  /\ UNCHANGED <<registryVars, jobs, requested>>

Remove(r) ==
  LET id == removals[r].id IN
  /\ removals[r].pc = "remove"
  /\ \/ /\ DetachWorker(id)
        /\ removals' = [removals EXCEPT ![r].pc = "teardown", ![r].found = workers[id]]
     \/ /\ workers[id] = None
        /\ FinishRemoval(r)
        /\ UNCHANGED <<workers, url_to_id>>
  /\ UNCHANGED <<model_index, built, runtime, ids_used, events, lagged, everFailed, raced, jobs, requested>>

RemoveTearDown(r) ==
  /\ removals[r].pc = "teardown"
  /\ TearDown(removals[r].id, removals[r].found)
  /\ FinishRemoval(r)
  /\ UNCHANGED <<url_to_id, workers, built, ids_used, everFailed, raced, jobs, requested>>

SubmitJob(w) ==
  \E u \in Urls :
    \/ \E m \in Models, checked \in BOOLEAN : AddWorker(w, u, m, checked)
    \/ FindWorkerToUpdate(w, u)
    \/ \E health \in BOOLEAN : MeshHint(w, u, health)
    \/ \E m \in Models, health \in BOOLEAN : MeshImport(w, u, m, health)

JobStep(w) ==
  \/ Register(w)
  \/ RegisterRejected(w)
  \/ Lookup(w)
  \/ Replace(w)
  \/ ClearStale(w)
  \/ RegisterAgain(w)
  \/ Activate(w)
  \/ \E checked \in BOOLEAN : UpdateProperties(w, checked)
  \/ EnableUnchecked(w)

RemovalStep(r) ==
  \/ \E q \in BagToSet(requested) : FindWorkersToRemove(r, q)
  \/ LookupRemoval(r)
  \/ Remove(r)
  \/ RemoveTearDown(r)
=============================================================================
