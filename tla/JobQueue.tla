------------------------------ MODULE JobQueue -------------------------------
(***************************************************************************)
(* The control plane's job queue (workflow/job_queue.rs): a bounded        *)
(* channel, one dispatcher that takes a permit for each job it spawns, and *)
(* a map of job statuses by url.  A job gives its permit back before it    *)
(* executes, so any number of jobs may be executing.                       *)
(*                                                                         *)
(* Jobs add or remove a worker, load the tokenizer of a worker that was    *)
(* added, or read the configured workers at startup; the other kinds       *)
(* (updates, MCP servers, WASM modules) pass through the queue in the same *)
(* way.  A job that adds a worker, and the one at startup, submit jobs to  *)
(* the queue that runs them.  A submitter that waits for room may be       *)
(* dropped: its client disconnects, or its step times out.                 *)
(***************************************************************************)
EXTENDS Naturals, Sequences, FiniteSets

CONSTANTS
    Urls,
    Configured,   \* the worker urls of the configuration, a sequence
    Tokenizers,   \* bound: ids of tokenizer jobs in use at a time
    Startup,      \* the key under which a startup job's status is kept
    Producers,    \* tasks outside the queue that submit jobs
    MaxJobs,      \* bound on the jobs that these submit
    JobIds,       \* bound: jobs alive at a time, beyond the channel
    Capacity,     \* queue_capacity
    Permits,      \* max_concurrent_jobs
    None

ASSUME QueueAssumption ==
    /\ Capacity \in Nat \ {0} /\ Permits \in Nat \ {0} /\ MaxJobs \in Nat
    /\ JobIds \subseteq Nat /\ IsFiniteSet(JobIds) /\ Producers \cap JobIds = {}
    /\ Configured \in Seq(Urls)

VARIABLES
    chan,         \* the channel
    slot,         \* the job for which the dispatcher awaits a permit, or None
    free,         \* permits of the semaphore
    running,      \* spawned jobs: [job, at, permit], or None
    status,       \* status_map
    out,          \* what each submitter has yet to submit
    pended,       \* submitters that await room in the channel
    produced,     \* jobs submitted from outside so far
    detached      \* history: urls whose status went its own way, see Abandon,
                  \* Complete and Expire, and was not written since

vars == <<chan, slot, free, running, status, out, pended, produced, detached>>

Keys == Urls \cup Tokenizers \cup {Startup}

\* A running job may submit jobs, too.
Submitters == Producers \cup JobIds

Job(kind, url) == [kind |-> kind, url |-> url]

WorkerJobs == [kind : {"add", "remove"}, url : Urls]

TokenizerJobs == [kind : {"tokenizer"}, url : Tokenizers]

Jobs == WorkerJobs \cup TokenizerJobs \cup {Job("startup", Startup)}

Spawned == [job : Jobs, at : {"spawned", "executing", "submitting"}, permit : BOOLEAN]

ASSUME NoneAssumption == None \notin Jobs \cup Spawned

\* The server submits the startup job before anything else.
Init ==
    /\ chan = <<Job("startup", Startup)>> /\ slot = None /\ free = Permits
    /\ running = [i \in JobIds |-> None]
    /\ status = [u \in Keys |-> IF u = Startup THEN "pending" ELSE "none"]
    /\ out = [s \in Submitters |-> <<>>]
    /\ pended = {} /\ produced = 0 /\ detached = {}

SetStatus(u, s) == status' = [status EXCEPT ![u] = s]

\* A job of this key waits for room, is in the channel, waits for a permit or
\* is running.
HasJob(u) ==
    \/ \E s \in pended : Head(out[s]).url = u
    \/ \E n \in DOMAIN chan : chan[n].url = u
    \/ slot # None /\ slot.url = u
    \/ \E i \in JobIds : running[i] # None /\ running[i].job.url = u

\* The status of a key is taken away while a job of that key is unfinished.
Detach(key) == detached' = (detached \ {key}) \cup {u \in {key} : HasJob(u)'}

Is(i, kind, at) ==
    running[i] # None /\ running[i].job.kind = kind /\ running[i].at = at

-----------------------------------------------------------------------------
(* submit: the status is recorded first, then the job is sent *)

\* The API, service discovery or the worker manager has a job.
Produce(s, job) ==
    /\ out[s] = <<>> /\ produced < MaxJobs
    /\ out' = [out EXCEPT ![s] = <<job>>]
    /\ produced' = produced + 1
    /\ UNCHANGED <<chan, slot, free, running, status, pended, detached>>

RecordPending(s) ==
    /\ out[s] # <<>> /\ s \notin pended
    /\ SetStatus(Head(out[s]).url, "pending")
    /\ pended' = pended \cup {s}
    /\ detached' = detached \ {Head(out[s]).url}
    /\ UNCHANGED <<chan, slot, free, running, out, produced>>

Send(s) ==
    /\ s \in pended
    /\ Len(chan) < Capacity
    /\ chan' = Append(chan, Head(out[s]))
    /\ out' = [out EXCEPT ![s] = Tail(@)]
    /\ pended' = pended \ {s}
    /\ UNCHANGED <<slot, free, running, status, produced, detached>>

\* The future of submit is dropped while it waits for room: the client of an
\* API call disconnects, or the step that submits a tokenizer job times out.
\* The startup job waits in a task of its own.
Abandon(s) ==
    /\ s \in pended
    /\ s \in JobIds => ~ Is(s, "startup", "submitting")
    /\ out' = [out EXCEPT ![s] = <<>>]
    /\ pended' = pended \ {s}
    /\ UNCHANGED <<chan, slot, free, running, status, produced>>
    /\ detached' = detached \cup {u \in {Head(out[s]).url} : ~ HasJob(u)'}

-----------------------------------------------------------------------------
(* The dispatcher *)

Receive ==
    /\ slot = None /\ chan # <<>>
    /\ slot' = Head(chan)
    /\ chan' = Tail(chan)
    /\ UNCHANGED <<free, running, status, out, pended, produced, detached>>

\* A step of a workflow may outlive the job that waited for the workflow.
Unused(i) == running[i] = None /\ out[i] = <<>>

FirstUnused(i) == Unused(i) /\ \A j \in JobIds : j < i => ~ Unused(j)

Spawn ==
    /\ slot # None /\ free > 0
    /\ \E i \in JobIds :
         /\ FirstUnused(i)
         /\ running' = [running EXCEPT ![i] = 
               [job |-> slot, at |-> "spawned", permit |-> TRUE]]
    /\ free' = free - 1
    /\ slot' = None
    /\ UNCHANGED <<chan, status, out, pended, produced, detached>>

-----------------------------------------------------------------------------
(* process_job *)

\* Variant that keeps the permit while the job executes.
Process_KeepsPermit(i) ==
    /\ running[i] # None /\ running[i].at = "spawned"
    /\ SetStatus(running[i].job.url, "processing")
    /\ running' = [running EXCEPT ![i].at = "executing"]
    /\ detached' = detached \ {running[i].job.url}
    /\ UNCHANGED <<chan, slot, free, out, pended, produced>>

Process(i) ==
    /\ running[i] # None /\ running[i].at = "spawned"
    /\ SetStatus(running[i].job.url, "processing")
    /\ free' = free + 1
    /\ running' = [running EXCEPT ![i].at = "executing", ![i].permit = FALSE]
    /\ detached' = detached \ {running[i].job.url}
    /\ UNCHANGED <<chan, slot, out, pended, produced>>

\* A permit that is still held goes back when the job ends.
EndJob(i) ==
    /\ running' = [running EXCEPT ![i] = None]
    /\ free' = IF running[i].permit THEN free + 1 ELSE free
    /\ UNCHANGED <<chan, slot, out, pended, produced>>
    /\ Detach(running[i].job.url)

\* Variant that leaves the status of a job that succeeded.
Complete_KeepsStatus(i, ok) ==
    /\ EndJob(i)
    /\ IF ok THEN UNCHANGED status ELSE SetStatus(running[i].job.url, "failed")

\* record_job_completion
Complete(i, ok) ==
    /\ EndJob(i)
    /\ SetStatus(running[i].job.url, IF ok THEN "none" ELSE "failed")

\* A step of the workflow that adds a worker submits a job for the worker's
\* tokenizer, under an id made up for it; it is skipped for HTTP workers.  Of an
\* id that left no trace nobody can tell that it was used before.
SubmitTokenizer(i, t) ==
    /\ Is(i, "add", "executing")
    /\ status[t] = "none" /\ ~ HasJob(t)
    /\ \A s \in Submitters : out[s] # <<>> => Head(out[s]).url # t
    /\ out' = [out EXCEPT ![i] = <<Job("tokenizer", t)>>]
    /\ running' = [running EXCEPT ![i].at = "submitting"]
    /\ UNCHANGED <<chan, slot, free, status, pended, produced, detached>>

\* The workflow of a job ends one way or the other, with all of its steps, or
\* the job waits no longer for it.  (A removal clears the status before its
\* outcome is recorded.)
Execute(i, ok) ==
    /\ \/ running[i] # None /\ running[i].job.kind # "startup" /\ running[i].at = "executing"
       \/ Is(i, "add", "submitting")
    /\ ok => out[i] = <<>>
    /\ Complete(i, ok)

\* InitializeWorkersFromConfig submits an AddWorker job per configured url ...
SubmitConfigured(i) ==
    /\ Is(i, "startup", "executing")
    /\ out' = [out EXCEPT ![i] = [n \in DOMAIN Configured |-> Job("add", Configured[n])]]
    /\ running' = [running EXCEPT ![i].at = "submitting"]
    /\ UNCHANGED <<chan, slot, free, status, pended, produced, detached>>

\* ... and ends when all of them are in the channel.
EndConfigured(i) ==
    /\ Is(i, "startup", "submitting") /\ out[i] = <<>>
    /\ Complete(i, TRUE)

\* Variant that sweeps the statuses of failed jobs only.
Expire_FailedOnly(u) ==
    /\ status[u] = "failed"
    /\ SetStatus(u, "none")
    /\ UNCHANGED <<chan, slot, free, running, out, pended, produced>>
    /\ Detach(u)

\* cleanup_old_statuses: whatever the job is doing, its status expires.
Expire(u) ==
    /\ status[u] # "none"
    /\ SetStatus(u, "none")
    /\ UNCHANGED <<chan, slot, free, running, out, pended, produced>>
    /\ Detach(u)

Submit(s) == RecordPending(s) \/ Send(s) \/ Abandon(s)

Dispatcher == Receive \/ Spawn

Run(i) ==
    \/ Process(i) \/ SubmitConfigured(i) \/ EndConfigured(i)
    \/ \E t \in Tokenizers : SubmitTokenizer(i, t)
    \/ \E ok \in BOOLEAN : Execute(i, ok)

Next ==
    \/ \E s \in Producers, job \in WorkerJobs : Produce(s, job)
    \/ \E s \in Submitters : Submit(s)
    \/ Dispatcher
    \/ \E i \in JobIds : Run(i)
    \/ \E u \in DOMAIN status : Expire(u)

Spec == Init /\ [][Next]_vars

\* The tasks are polled.  A sender waits its turn for room in the channel, and
\* a step does not wait for longer than its timeout.  The sweep is periodic.
Fairness ==
    /\ \A s \in Submitters : WF_vars(RecordPending(s)) /\ SF_vars(Send(s))
    /\ \A i \in JobIds : WF_vars(Abandon(i))
    /\ \A u \in Keys : WF_vars(Expire(u))
    /\ WF_vars(Dispatcher)
    /\ \A i \in JobIds : WF_vars(Run(i))

FairSpec == Spec /\ Fairness

-----------------------------------------------------------------------------
\* Type invariant.
TypeOK ==
    /\ Len(chan) <= Capacity /\ \A n \in DOMAIN chan : chan[n] \in Jobs
    /\ slot \in Jobs \cup {None}
    /\ free \in 0 .. Permits
    /\ running \in [JobIds -> Spawned \cup {None}]
    /\ status \in [Keys -> {"none", "pending", "processing", "failed"}]
    /\ pended \subseteq Submitters /\ produced \in 0 .. MaxJobs
    /\ detached \subseteq Keys

\* A key is reported as pending or processing exactly as long as a job of it is
\* unfinished.  The exceptions are the three ways in which submit,
\* record_job_completion and the sweep let a status go its own way, each of
\* which ends with the next write: a submitter was dropped, another job of the
\* key ended, the status expired.  The state is well typed: no permit is made.
StatusTellsJob ==
    /\ TypeOK
    /\ \A u \in Keys \ detached : status[u] \in {"pending", "processing"} <=> HasJob(u)

\* What a dropped submitter leaves behind does not stay: again and again no key
\* without a job is reported as pending or processing.
LeftoverIsSwept ==
    []<>(\A u \in Keys : status[u] \in {"pending", "processing"} => HasJob(u))

-----------------------------------------------------------------------------
(* What the queue promises *)

Count(job) ==
    Cardinality({n \in DOMAIN chan : chan[n] = job})
    + (IF slot = job THEN 1 ELSE 0)
    + Cardinality({i \in JobIds : running[i] # None /\ running[i].job = job})

Pool == INSTANCE JobPool WITH
    Initial  <- {Job("startup", Startup)},
    accepted <- [job \in Jobs |-> Count(job)]

\* The queue implements the pool: no job is lost between channel, dispatcher
\* and task, none runs twice, and each one is executed in the end, also when
\* a job that runs submits more jobs than the channel has room for.
ImplementsPool == Pool!FairSpec

=============================================================================
