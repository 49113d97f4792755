--------------------------- MODULE WorkerRegistry ---------------------------
(***************************************************************************)
(* The worker registry: the maps that say which workers exist, under which *)
(* id and for which model, and the broadcast channel on which it announces *)
(* every change.  A worker is an object built by one registration; what    *)
(* must survive a same-URL replacement (status, health counters, load,     *)
(* revision) is in a runtime the objects share.                            *)
(*                                                                         *)
(* A section the code runs under the per-worker mutation lock is one step, *)
(* with two exceptions the code makes itself: register_inner resolves the  *)
(* id before it takes the lock, and remove() drops the lock from the lock  *)
(* map half-way, so that the second half of a removal runs unprotected     *)
(* against a registration that arrives after that.                         *)
(***************************************************************************)
EXTENDS Integers, Sequences, FiniteSets

CONSTANTS
  Urls,            \* worker URLs
  Models,          \* model ids
  NumWorkers,      \* bound: worker objects ever built
  MaxIds,          \* bound: WorkerIds ever generated
  EventCapacity    \* capacity of the event channel (64 in the code)

ASSUME RegistryAssumption ==
  /\ NumWorkers \in Nat \ {0}
  /\ MaxIds \in Nat
  /\ EventCapacity \in Nat \ {0}

None    == 0
Workers == 1 .. NumWorkers
Ids     == 1 .. MaxIds

Statuses == {"Pending", "Ready", "NotReady", "Failed"}

VARIABLES
  url_to_id,     \* url -> id or None; an id may be reserved before its worker exists
  workers,       \* id -> worker object or None
  model_index,   \* model -> set of worker objects
  built,         \* worker object -> its url, model, health-check switch and runtime
  runtime,       \* the WorkerRuntime first created with each worker object
  ids_used,      \* how many ids have been generated
  events,        \* what the worker manager has not yet received
  lagged,        \* whether the channel dropped an event it had not received
  everFailed,    \* history: runtimes that have been Failed
  raced          \* history: urls where a registration overlapped a removal

registryVars == <<url_to_id, workers, model_index, built, runtime, ids_used,
                  events, lagged, everFailed, raced>>

Runtimes ==
  [status : Statuses, failures : Nat, successes : Nat, pending : Nat,
   revision : Nat, load : Nat]

NewRuntime(status) ==
  [status |-> status, failures |-> 0, successes |-> 0, pending |-> 0,
   revision |-> 0, load |-> 0]

RegistryTypeOK ==
  /\ url_to_id \in [Urls -> Ids \cup {None}]
  /\ workers \in [Ids -> Workers \cup {None}]
  /\ model_index \in [Models -> SUBSET Workers]
  /\ built \in [Workers -> [url : Urls \cup {None}, model : Models \cup {None},
                            checked : BOOLEAN, runtime : Workers]]
  /\ runtime \in [Workers -> Runtimes]
  /\ ids_used \in 0 .. MaxIds
  /\ events \in Seq([kind : {"Registered", "Replaced", "Removed", "StatusChanged"},
                     id : Ids \cup {None}, worker : Workers \cup {None}])
  /\ Len(events) <= EventCapacity
  /\ lagged \in BOOLEAN
  /\ everFailed \subseteq Workers
  /\ raced \subseteq Urls

RegistryInit ==
  /\ url_to_id = [u \in Urls |-> None]
  /\ workers = [i \in Ids |-> None]
  /\ model_index = [m \in Models |-> {}]
  /\ built = [w \in Workers |-> [url |-> None, model |-> None, checked |-> TRUE, runtime |-> w]]
  /\ runtime = [w \in Workers |-> NewRuntime("Pending")]
  /\ ids_used = 0
  /\ events = <<>>
  /\ lagged = FALSE
  /\ everFailed = {}
  /\ raced = {}

(***************************************************************************)
(* Reading.                                                                *)
(***************************************************************************)
Runtime(w)  == runtime[built[w].runtime]
Status(w)   == Runtime(w).status
Revision(w) == Runtime(w).revision

GetByUrl(u) == IF url_to_id[u] = None THEN None ELSE workers[url_to_id[u]]

Registered == {i \in Ids : workers[i] # None}

(***************************************************************************)
(* A full broadcast channel overwrites its oldest event, and the receiver  *)
(* learns of it with its next recv().  The model leaves out of an event    *)
(* what the worker manager does not read: what a StatusChanged says, and   *)
(* the worker of a Removed.                                                *)
(***************************************************************************)
Publish(kind, id, w) ==
  LET e == [kind |-> kind, id |-> id, worker |-> w]
  IN IF Len(events) < EventCapacity
     THEN events' = Append(events, e) /\ UNCHANGED lagged
     ELSE events' = Append(Tail(events), e) /\ lagged' = TRUE

(***************************************************************************)
(* The model index keeps one entry per url and model.                      *)
(***************************************************************************)
RemoveFromIndex(index, m, u) ==
  [index EXCEPT ![m] = {w \in @ : built[w].url # u}]

AddToIndex(index, m, w) ==
  [index EXCEPT ![m] = {x \in @ : built[x].url # built[w].url} \cup {w}]

(***************************************************************************)
(* set_status: no lock, no event.                                          *)
(***************************************************************************)
SetStatus(w, status) ==
  /\ runtime' = [runtime EXCEPT ![built[w].runtime].status = status]
  /\ everFailed' = IF status = "Failed" THEN everFailed \cup {built[w].runtime}
                                        ELSE everFailed

(***************************************************************************)
(* A worker object is built with a runtime of its own.  (It is not yet in  *)
(* any map.)                                                               *)
(***************************************************************************)
Build(w, u, m, checked, status) ==
  /\ built' = [built EXCEPT ![w] = [url |-> u, model |-> m, checked |-> checked,
                                    runtime |-> w]]
  /\ runtime' = [runtime EXCEPT ![w] = NewRuntime(status)]

(* Variant: a url gets another id at each registration. *)
ResolvedId_AlwaysNew(u) == ids_used + 1

(***************************************************************************)
(* url_to_id.entry(url): the id there, or a new one put there.  Used by    *)
(* reserve_id_for_url and, before the lock is taken, by register_inner.    *)
(***************************************************************************)
ResolvedId(u) == IF url_to_id[u] # None THEN url_to_id[u] ELSE ids_used + 1

ResolveId(u) ==
  /\ ResolvedId(u) \in Ids
  /\ url_to_id' = [url_to_id EXCEPT ![u] = ResolvedId(u)]
  /\ ids_used' = IF url_to_id[u] # None THEN ids_used ELSE ids_used + 1

(***************************************************************************)
(* register_inner once it has the lock and found the id free.              *)
(***************************************************************************)
InsertWorker(id, w) ==
  /\ workers[id] = None
  /\ workers' = [workers EXCEPT ![id] = w]
  /\ model_index' = AddToIndex(model_index, built[w].model, w)
  /\ Publish("Registered", id, w)

(***************************************************************************)
(* replace: the new object takes over the runtime of the old one, whose    *)
(* revision goes up, so that what was decided about the old object can be  *)
(* recognised as stale.                                                    *)
(***************************************************************************)
ReplaceWorker_OwnRuntime(id, w) ==
  LET old == workers[id] IN
  /\ old # None
  /\ workers' = [workers EXCEPT ![id] = w]
  /\ model_index' = AddToIndex(RemoveFromIndex(model_index, built[old].model, built[old].url),
                               built[w].model, w)
  /\ Publish("Replaced", id, w)
  /\ UNCHANGED <<built, runtime>>

ReplaceWorker_IndexKept(id, w) ==
  LET old == workers[id] IN
  /\ old # None
  /\ built' = [built EXCEPT ![w].runtime = built[old].runtime]
  /\ runtime' = [runtime EXCEPT ![built[old].runtime].revision = @ + 1]
  /\ workers' = [workers EXCEPT ![id] = w]
  /\ model_index' = AddToIndex(model_index, built[w].model, w)
  /\ Publish("Replaced", id, w)

ReplaceWorker_KeepsRevision(id, w) ==
  LET old == workers[id] IN
  /\ old # None
  /\ built' = [built EXCEPT ![w].runtime = built[old].runtime]
  /\ workers' = [workers EXCEPT ![id] = w]
  /\ model_index' = AddToIndex(RemoveFromIndex(model_index, built[old].model, built[old].url),
                               built[w].model, w)
  /\ Publish("Replaced", id, w)
  /\ UNCHANGED runtime

ReplaceWorker(id, w) ==
  LET old == workers[id] IN
  /\ old # None
  /\ built' = [built EXCEPT ![w].runtime = built[old].runtime]
  /\ runtime' = [runtime EXCEPT ![built[old].runtime].revision = @ + 1]
  /\ workers' = [workers EXCEPT ![id] = w]
  /\ model_index' = AddToIndex(RemoveFromIndex(model_index, built[old].model, built[old].url),
                               built[w].model, w)
  /\ Publish("Replaced", id, w)

(***************************************************************************)
(* remove, up to the point where it drops its lock from the lock map ...   *)
(***************************************************************************)
DetachWorker(id) ==
  /\ workers[id] # None
  /\ workers' = [workers EXCEPT ![id] = None]
  /\ url_to_id' = [url_to_id EXCEPT ![built[workers[id]].url] = None]

(***************************************************************************)
(* ... and the rest: the index entry of the *url* goes, a Ready worker is  *)
(* demoted, the Removed event is sent.                                     *)
(***************************************************************************)
TearDown(id, w) ==
  /\ model_index' = RemoveFromIndex(model_index, built[w].model, built[w].url)
  /\ runtime' = IF Status(w) = "Ready"
                THEN [runtime EXCEPT ![built[w].runtime].status = "NotReady"]
                ELSE runtime
  /\ Publish("Removed", id, None)

(***************************************************************************)
(* transition_status: under the lock, a no-op when the worker is gone or   *)
(* has the status already.                                                 *)
(***************************************************************************)
TransitionStatus(id, status) ==
  IF workers[id] # None /\ Status(workers[id]) # status
  THEN /\ SetStatus(workers[id], status)
       /\ Publish("StatusChanged", None, None)
  ELSE UNCHANGED <<runtime, everFailed, events, lagged>>
=============================================================================
