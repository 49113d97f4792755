--------------------------- MODULE ServiceDiscovery ---------------------------
(***************************************************************************)
(* Kubernetes service discovery (service_discovery.rs): a watcher handles  *)
(* pod events one after the other, a reconciler compares the tracked pods  *)
(* with a full list now and then, and both submit AddWorker and            *)
(* RemoveWorker jobs.                                                      *)
(*                                                                         *)
(* Of the job queue this module uses what JobPool says: jobs are executed, *)
(* in any order.  The registry is reduced to the urls that have a worker   *)
(* (WorkerRegistry and WorkerJobs have the rest).  Pods, their phases and  *)
(* the watch are Kubernetes'.  submit fails only once the gateway is       *)
(* shutting down, which is left out.                                       *)
(***************************************************************************)
EXTENDS Naturals, Sequences, FiniteSets, Bags, SequencesExt

CONSTANTS
    Pods,            \* pod incarnations: (name, uid)
    Urls,
    Name, Url,       \* the name of a pod and the url at its address
    MaxBreaks,       \* bound on the errors of the watch
    MaxJobs          \* bound on the jobs outstanding at a time

ASSUME DiscoveryAssumption ==
    /\ Pods \subseteq Nat /\ Url \in [Pods -> Urls]
    /\ MaxBreaks \in Nat /\ MaxJobs \in Nat

VARIABLES
    phase,       \* of each pod: "absent", "starting", "ready", "terminating", "gone"
    watch,       \* events of the watch, not yet handled: <<pod, phase>>
    breaks,      \* errors of the watch so far
    tracked,     \* tracked_pods
    out,         \* what the watcher and the reconciler have yet to submit
    reconcile,   \* the reconciler: where it is and what it has listed
    jobs,        \* submitted jobs that have not ended: [kind, url, connected]
    registered,  \* urls that have a worker in the registry
    decided,     \* history: jobs that have not ended, in the order in which they
                 \* were decided on, with the lock of tracked_pods held
    overtaken,   \* history: urls of which an AddWorker job ended before a
                 \* RemoveWorker job that was decided on earlier
    failed       \* history: urls of which an AddWorker job failed; both since
                 \* the last decision to add a worker at the url

clusterVars == <<phase, watch, breaks>>
history == <<decided, overtaken, failed>>
vars == <<clusterVars, tracked, out, reconcile, jobs, registered, history>>

Tasks == {"watcher", "reconciler"}

Job(kind, url) == [kind |-> kind, url |-> url, connected |-> FALSE]

Resting == [at |-> "resting", live |-> {}, healthy |-> {}, todo |-> {}]

Init ==
    /\ phase = [p \in Pods |-> "absent"]
    /\ watch = <<>> /\ breaks = 0
    /\ tracked = {}
    /\ out = [t \in Tasks |-> <<>>]
    /\ reconcile = Resting
    /\ jobs = EmptyBag
    /\ registered = {}
    /\ decided = <<>> /\ overtaken = {} /\ failed = {}

-----------------------------------------------------------------------------
(* Kubernetes *)

Live(p) == phase[p] \in {"starting", "ready"}
Serving(p) == phase[p] \in {"ready", "terminating"}

Change(p, ph, events) ==
    /\ phase' = [phase EXCEPT ![p] = ph]
    /\ watch' = watch \o events
    /\ UNCHANGED <<breaks, tracked, out, reconcile, jobs, registered, history>>

\* A pod comes when its namesake is gone; namesakes are numbered in the order
\* in which they come.  Events of pods that are not ready are not handled in
\* any way, and left out.
Create(p) ==
    /\ phase[p] = "absent"
    /\ \A q \in Pods : Name[q] = Name[p] /\ q < p => phase[q] = "gone"
    /\ Change(p, "starting", <<>>)

BecomeReady(p) == phase[p] = "starting" /\ Change(p, "ready", <<<<p, "ready">>>>)

Terminate(p) == Live(p) /\ Change(p, "terminating", <<<<p, "terminating">>>>)

\* The last event of a pod is not among the applied objects.  A pod that is
\* deleted by force had no other.
Vanish(p) == phase[p] \in {"starting", "ready", "terminating"} /\ Change(p, "gone", <<>>)

\* The stream of the watch ends with an error; the next one begins with what
\* there is then.
BreakWatch ==
    /\ out["watcher"] = <<>>
    /\ breaks < MaxBreaks
    /\ breaks' = breaks + 1
    /\ watch' = SetToSeq({<<p, phase[p]>> : p \in {q \in Pods : Serving(q)}})
    /\ UNCHANGED <<phase, tracked, out, reconcile, jobs, registered, history>>

-----------------------------------------------------------------------------
(* Pod events *)

\* What is decided together, and then submitted.
Decide(list) ==
    LET added == {job.url : job \in {j \in ToSet(list) : j.kind = "add"}}
    IN  /\ decided' = decided \o list
        /\ overtaken' = overtaken \ added
        /\ failed' = failed \ added

Submits(t, list) == out' = [out EXCEPT ![t] = list] /\ Decide(list)

\* job_queue.submit
Submit(t) ==
    /\ out[t] # <<>> /\ BagCardinality(jobs) < MaxJobs
    /\ jobs' = jobs (+) SetToBag({Head(out[t])})
    /\ out' = [out EXCEPT ![t] = Tail(@)]
    /\ UNCHANGED <<clusterVars, tracked, reconcile, registered, history>>

\* Variant that does not look for the pod's predecessor.
HandlePodEvent_NoEviction(t, p) ==
    /\ tracked' = tracked \cup {p}
    /\ Submits(t, IF p \in tracked THEN <<>> ELSE <<Job("add", Url[p])>>)

\* Variant that submits the removal of the predecessor after the addition.
HandlePodEvent_RemovesLast(t, p) ==
    LET old == {q \in tracked : Name[q] = Name[p] /\ q # p}
    IN  \/ /\ p \in tracked
           /\ UNCHANGED <<tracked, out, history>>
        \/ /\ p \notin tracked /\ old = {}
           /\ tracked' = tracked \cup {p}
           /\ Submits(t, <<Job("add", Url[p])>>)
        \/ /\ p \notin tracked
           /\ \E q \in old :
                /\ tracked' = (tracked \ {q}) \cup {p}
                /\ Submits(t, <<Job("add", Url[p]), Job("remove", Url[q])>>)

\* handle_pod_event, for a healthy pod: under the lock, then the jobs.
HandlePodEvent(t, p) ==
    LET old == {q \in tracked : Name[q] = Name[p] /\ q # p}
    IN  \/ /\ p \in tracked
           /\ UNCHANGED <<tracked, out, history>>
        \/ /\ p \notin tracked /\ old = {}
           /\ tracked' = tracked \cup {p}
           /\ Submits(t, <<Job("add", Url[p])>>)
        \/ /\ p \notin tracked
           /\ \E q \in old :
                /\ tracked' = (tracked \ {q}) \cup {p}
                /\ Submits(t, <<Job("remove", Url[q]), Job("add", Url[p])>>)

HandlePodDeletion(t, p) ==
    /\ tracked' = tracked \ {p}
    /\ Submits(t, IF p \in tracked THEN <<Job("remove", Url[p])>> ELSE <<>>)

Watch ==
    /\ out["watcher"] = <<>> /\ watch # <<>>
    /\ LET p == Head(watch)[1]
       IN  IF Head(watch)[2] = "ready" THEN HandlePodEvent("watcher", p)
                                       ELSE HandlePodDeletion("watcher", p)
    /\ watch' = Tail(watch)
    /\ UNCHANGED <<phase, breaks, reconcile, jobs, registered>>

-----------------------------------------------------------------------------
(* reconcile_pods *)

\* build_live_pod_set
List ==
    /\ reconcile = Resting
    /\ reconcile' = [at |-> "listed", live |-> {p \in Pods : Live(p)},
                     healthy |-> {p \in Pods : phase[p] = "ready"}, todo |-> {}]
    /\ UNCHANGED <<clusterVars, tracked, out, jobs, registered, history>>

Removals(pods) == [n \in DOMAIN SetToSeq(pods) |-> Job("remove", Url[SetToSeq(pods)[n]])]

\* Variants that look at one half of the difference only.
Diff_OnlyMissing ==
    /\ reconcile.at = "listed"
    /\ reconcile' = [reconcile EXCEPT !.at = "removing", !.live = {},
                                      !.healthy = @ \ tracked]
    /\ UNCHANGED <<clusterVars, tracked, out, jobs, registered, history>>

Diff_OnlyStale ==
    /\ reconcile.at = "listed"
    /\ reconcile' = [reconcile EXCEPT !.at = "removing", !.live = {}, !.healthy = {},
                                      !.todo = tracked \ reconcile.live]
    /\ Decide(Removals(tracked \ reconcile.live))
    /\ UNCHANGED <<clusterVars, tracked, out, jobs, registered>>

\* compute_reconciliation_diff, by now against the tracked pods of now; both
\* halves are computed here, the missing pods are kept in "healthy".
Diff ==
    /\ reconcile.at = "listed"
    /\ reconcile' = [reconcile EXCEPT !.at = "removing", !.live = {},
                                      !.todo = tracked \ reconcile.live,
                                      !.healthy = @ \ tracked]
    /\ Decide(Removals(tracked \ reconcile.live))
    /\ UNCHANGED <<clusterVars, tracked, out, jobs, registered>>

Quiet == out["reconciler"] = <<>>

RemoveStale(p) ==
    /\ reconcile.at = "removing" /\ Quiet
    /\ p \in reconcile.todo
    /\ out' = [out EXCEPT !["reconciler"] = <<Job("remove", Url[p])>>]
    /\ reconcile' = [reconcile EXCEPT !.at = "untrack", !.live = {p}]
    /\ UNCHANGED <<clusterVars, tracked, jobs, registered, history>>

\* A pod is forgotten once its job is in the channel.
Untrack(p) ==
    /\ reconcile.at = "untrack" /\ Quiet
    /\ p \in reconcile.live
    /\ tracked' = tracked \ {p}
    /\ reconcile' = [reconcile EXCEPT !.at = "removing", !.live = {}, !.todo = @ \ {p}]
    /\ UNCHANGED <<clusterVars, out, jobs, registered, history>>

AddMissing(p) ==
    /\ reconcile.at = "removing" /\ reconcile.todo = {} /\ Quiet
    /\ p \in reconcile.healthy
    /\ HandlePodEvent("reconciler", p)
    /\ reconcile' = [reconcile EXCEPT !.healthy = @ \ {p}]
    /\ UNCHANGED <<clusterVars, jobs, registered>>

EndReconcile ==
    /\ reconcile.at = "removing" /\ Quiet
    /\ reconcile.todo = {} /\ reconcile.healthy = {}
    /\ reconcile' = Resting
    /\ UNCHANGED <<clusterVars, tracked, out, jobs, registered, history>>

Reconciler ==
    \/ List \/ Diff \/ EndReconcile
    \/ \E p \in Pods : RemoveStale(p) \/ Untrack(p) \/ AddMissing(p)

-----------------------------------------------------------------------------
(* execute_job *)

\* The job ends; jobs of one kind and url are alike.
End(job) ==
    LET Alike(d) == d.kind = job.kind /\ d.url = job.url
        n == SelectInSeq(decided, Alike)
    IN  /\ jobs' = jobs (-) SetToBag({job})
        /\ decided' = RemoveAt(decided, n)
        /\ overtaken' = IF job.kind = "add" /\ \E m \in 1 .. n : decided[m] = Job("remove", job.url)
                        THEN overtaken \cup {job.url} ELSE overtaken

Answers(u) == \E p \in Pods : Url[p] = u /\ Serving(p)

\* AddWorker: the workflow reaches a worker at the url, then registers it ...
Connect(job) ==
    /\ job.kind = "add" /\ ~job.connected
    /\ Answers(job.url)
    /\ jobs' = (jobs (-) SetToBag({job})) (+) SetToBag({[job EXCEPT !.connected = TRUE]})
    /\ UNCHANGED <<clusterVars, tracked, out, reconcile, registered, history>>

Register(job) ==
    /\ job.kind = "add" /\ job.connected
    /\ registered' = registered \cup {job.url}
    /\ End(job)
    /\ UNCHANGED <<clusterVars, tracked, out, reconcile, failed>>

\* ... or fails: its attempts or its time run out before it has reached the
\* worker, or a later step fails, whether or not a pod serves at the url.
GiveUp(job) ==
    /\ job.kind = "add"
    /\ End(job)
    /\ failed' = failed \cup {job.url}
    /\ UNCHANGED <<clusterVars, tracked, out, reconcile, registered>>

\* RemoveWorker goes by url, whatever worker is there by now.
RemoveWorker(job) ==
    /\ job.kind = "remove"
    /\ registered' = registered \ {job.url}
    /\ End(job)
    /\ UNCHANGED <<clusterVars, tracked, out, reconcile, failed>>

Execute(job) ==
    Connect(job) \/ Register(job) \/ GiveUp(job) \/ RemoveWorker(job)

-----------------------------------------------------------------------------
Kubernetes ==
    \/ \E p \in Pods : Create(p) \/ BecomeReady(p) \/ Terminate(p) \/ Vanish(p)
    \/ BreakWatch

Next ==
    \/ Kubernetes
    \/ Watch
    \/ Reconciler
    \/ \E t \in Tasks : Submit(t)
    \/ \E job \in BagToSet(jobs) : Execute(job)

Spec == Init /\ [][Next]_vars

AllJobs ==
    {Job("remove", u) : u \in Urls} \cup [kind : {"add"}, url : Urls, connected : BOOLEAN]

\* The watcher and the reconciler are polled, the interval between two lists
\* passes, and jobs are executed (JobPool).  Kubernetes owes nothing.
FairSpec ==
    /\ Spec
    /\ WF_vars(Watch) /\ WF_vars(Reconciler)
    /\ \A t \in Tasks : WF_vars(Submit(t))
    /\ \A job \in AllJobs : WF_vars(BagIn(job, jobs) /\ Execute(job))

-----------------------------------------------------------------------------
\* Type invariant.
TypeOK ==
    /\ BagToSet(jobs) \subseteq AllJobs
    /\ phase \in [Pods -> {"absent", "starting", "ready", "terminating", "gone"}]
    /\ tracked \subseteq Pods
    /\ reconcile.at \in {"resting", "listed", "removing", "untrack"}
    /\ reconcile.live \cup reconcile.healthy \cup reconcile.todo \subseteq Pods
    /\ registered \subseteq Urls

\* A restarted pod takes the place of its predecessor: whatever the watcher and
\* the reconciler, with its list of a moment ago, do to the set at the same
\* time, no name is tracked under two uids.  The state is well typed.
OnePodPerName ==
    /\ TypeOK
    /\ \A p, q \in tracked : Name[p] = Name[q] => p = q

\* A pod that is gone is forgotten, with or without an event of its deletion,
\* and also when a late event has brought it back among the tracked ones.
GoneIsForgotten == []<>(\A p \in tracked : phase[p] # "gone")

\* A pod that stays ready is tracked in the end, even if its event was lost or
\* a list made before it was ready has had it thrown out again.
ReadyIsTracked == []<>(\A p \in Pods : phase[p] = "ready" => p \in tracked)

\* A tracked pod that stays ready gets its worker, unless the job that was
\* submitted for it fails or ends before an earlier removal at the same url.
\* So the list of the reconciler may be old, and it and the watcher may decide
\* about the pod, its predecessor and each other's decisions in any order: as
\* long as jobs of a url end in the order of the decisions, the last one
\* is in favour of the pod.  Nobody looks at a tracked pod again.
ReadyIsServed ==
    []<>(\A p \in tracked :
            phase[p] = "ready" => Url[p] \in registered \cup failed \cup overtaken)

=============================================================================
