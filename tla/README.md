# TLA+ models of the Shepherd Model Gateway

The gateway routes inference requests to workers. It admits a request (token bucket and
queue), chooses a registered, healthy worker whose circuit breaker lets it through, and
streams the answer back, with retries. Workers are found in Kubernetes or configured, and are
registered, updated and removed by jobs, which run as workflows; a manager probes their
health. Several gateways know of each other by gossip and replicate what they know of their
workers over a mesh, on top of a replicated map. Each of these parts is a set of tasks on one
runtime that share atomics, locks and channels. The models are about what those tasks can do
to each other.

Paths below are relative to `src/`; `mg/` stands for `model_gateway/src/` and `mesh/` for
`crates/mesh/src/`.

## Parts of the system

| Part | Code | Modules |
|---|---|---|
| Circuit breaker of a worker | `mg/worker/circuit_breaker.rs` | `CircuitBreaker`, `BreakerProtocol` |
| Requests: selection, attempts, retries, load guards | `mg/routers/http/router.rs`, `mg/routers/common/retry.rs` | `RequestPath` |
| Admission: bucket, queue, body guard | `mg/middleware/{token_bucket,concurrency}.rs` | `ConcurrencyLimiter`, `AdmissionProtocol` |
| Workflow engine, one instance | `crates/workflow/src` | `WorkflowEngine` |
| Job queue of the control plane | `mg/workflow/job_queue.rs` | `JobQueue`, `JobPool` |
| Service discovery in Kubernetes | `mg/service_discovery.rs` | `ServiceDiscovery` |
| Worker registry | `mg/worker/registry.rs` | `WorkerRegistry` |
| Worker jobs and their steps | `mg/worker/service.rs`, `mg/workflow/steps` | `WorkerJobs` |
| Worker manager and its probes | `mg/worker/manager.rs` | `WorkerManager` |
| The last three together | | `WorkerLifecycle` |
| Membership of the mesh | `mesh/{controller,ping_server,service}.rs` | `Membership` |
| Replicated map of the mesh stores | `mesh/crdt_kv`, `mesh/stores.rs` | `CrdtOrMap` |
| Replication of the worker store | `mesh/{collector,controller,ping_server,sync}.rs` | `MeshSync` |

`PROJECT.json` lists every other part with the reason it is left out. The larger ones are
under "Plan" and "Not modelled" below.

How the parts meet: a request passes `ConcurrencyLimiter`, and `RequestPath` takes it to a worker
and reports the outcome to that worker's `CircuitBreaker`, with operations that are atomic there.
`ServiceDiscovery` submits jobs to the `JobQueue`, of which it uses what `JobPool` promises.
`WorkerJobs` are the workflows that `WorkflowEngine` runs, reduced to the steps that touch the
registry. A local change of a worker is written to the mesh's worker store (`MeshSync`), which
is a `CrdtOrMap`; a remote one comes back as a mesh hint or import (`WorkerJobs`). `MeshSync`
streams run between nodes that `Membership` takes for alive.

## Modules, state and actions

**CircuitBreaker.** `state`, `failures`, `successes` and `age` are the four atomics (`age` is
the time since `last_state_change_ms`); `pc`, `op`, `reached` and `localAge` are the callers'
places and local values; `held`, the time since `state` changed, is history. Each load, store,
`fetch_add`, `swap` and `compare_exchange` is an action of a caller. Counters stop at their
threshold and ages at the timeout, since the code only compares them with `>=`; a local value that
is not read again is forgotten. The atomics are
taken to be sequentially consistent; the code uses acquire and release on them, so reorderings
between different atomics are not covered. `BreakerProtocol` is the documented three-state
protocol.

**RequestPath.** Per request its kind, attempt, worker, answer, and whether a body or a relay
task is left of it; per worker its registry status, how it answers, its breaker (with atomic
operations), its load counter. Actions are the selection of a worker, which asks every
candidate's breaker for its state; the answer to an attempt with the outcome it records; the
back-off; the end of the body and of the relay; the client that goes away. Typed requests are
retried; transcriptions are not. The module has load guards for every request, as under the
`cache_aware` and `manual` policies; other policies take none. Simple proxied requests are left
out.

**ConcurrencyLimiter.** One process per request (`pc`), the bucket (`tokens`, `elapsed`), the
bounded channel, the `oneshot` of each queued request (`permit`) and the task that waits for it
(`waiter`). `left` and `wait` are the two timeouts that nest in `acquire_timeout`. Clients may
disconnect anywhere. Configurations (no limiter, no queue, refill zero or not) are initial
states. `AdmissionProtocol` is a counting semaphore with waiting clients.

**WorkflowEngine.** The `StepTracker` sets, the completion channel (`signals`), the scheduler
loop (`sched`, `pending`, `ready`, `snapshot`), the step tasks (`task`, `attempt`, `result`,
`local`) and the stored instance (`status`, `stepStatus`, `context`). The scheduler's actions
are the phases of `execute_workflow` in order, split where it drops a lock; a step task's are
the condition, each attempt, the executor and the settlement. Clients cancel and clean up.

**JobQueue.** The bounded channel, the dispatcher with the job for which it awaits a permit
(`slot`), the semaphore, the spawned jobs, the status map, and what each submitter, a running
startup job among them, has yet to submit. A job that has added a worker submits one for its
tokenizer. Statuses are recorded before a job is sent; old ones, of failed and of unfinished jobs
alike, are swept. A submitter that waits for room may be dropped, by a client that leaves or the
timeout of its step (`Abandon`), which leaves the status behind. `detached`, the keys whose status
no longer tells of their jobs, is history. `JobPool` counts the accepted jobs: each one is finished
in the end, in any order. Shutdown is left out.

**ServiceDiscovery.** Kubernetes (external) changes pods and fills the watch, which may break and
then loses deletions; the watcher handles one event after the other; the reconciler lists,
compares and removes in separate steps; both submit jobs one at a time, which run concurrently in
any order and may fail at any step. `registered` is what jobs have made of the registry. `decided`,
the order in which jobs were decided on, `overtaken` and `failed` are history.

**WorkerRegistry, WorkerJobs, WorkerManager, WorkerLifecycle.** The registry's maps
(`url_to_id`, `workers`, `model_index`) and the shared runtime of a worker; the jobs that add,
update, import and remove workers, step by step; the health loop with its schedule
(`next_check`), probes and the bounded broadcast channel of events that may lag; requests that
hold load guards. The manager's removal jobs are submitted by tasks that nobody waits for and queue
up (`requested`). A section under a worker's mutation lock is one step, except that removal is
two, because it drops its lock from the lock map before it cleans the indexes. `raced` is
history: the urls of which a registration met a removal after resolving its id.

**Membership.** Per node its table of statuses and versions, its process, the round of its event
loop (choice of a peer, ping, fallback through helpers, escalation, broadcast), and the
broadcasts on their way. A ping is delivered and merged in one step and its answer applied later;
either half may be lost. Nodes crash, leave gracefully, come back, write metadata and hear of pods.
`budget` bounds what goes wrong, `evidence` is history.

**CrdtOrMap.** Per replica the Lamport clock, the metadata, the store, the operation log, and the
map of per-key locks with reference counts; tasks that insert, upsert, remove, decline or merge, and
the tombstone collector in its four steps. A local write records the metadata, stores the value and
appends to the log in separate steps under the lock of its key (a remove appends before it stores).
A value is identified with the operation that wrote it. `use` picks, in the initial state, how the
code uses a map: see `MCCrdtOrMap`. History: `strays` (tasks whose lock the collector dropped),
`shared` (keys with two tasks in their section) and `latest` (the newest version recorded).

**MeshSync.** Per node the worker store (a version per key), the local write between its two halves,
the collector (`generation`, `collected`, `batch`); per direction of a stream the sender's
watermark, the bounded channel, and a reply its handler has yet to queue. `offered`, `excused`,
`missed`, `refused` and `removed` are history. Rounds and senders run on timers of their own, so any
number of rounds may pass between two looks of a sender at the batch. Generations are counted
relative to the last scan. Remote updates are applied in one step and a snapshot is one chunk; a
closed stream's messages are dropped. A worker's key is an id that its node made up, so only that
node writes it.

## Runs

Two cores; every passing run takes about two and a half minutes or less.

| Run | Checks | Shows |
|---|---|---|
| `breaker_callers` | `ThresholdHasOwner`, `CountersMatchState`, `ImplementsProtocol`, `OpenIsProbed` | two callers, every entry point: no trip and no recovery is lost, an open circuit is probed, and the breaker implements `BreakerProtocol` as long as its operations do not overlap |
| `request_path` | `LoadMatchesGuards`, `OneOutcomeEach`, `RequestEnds`, `OpenIsGivenAChance` | two requests of four kinds over two workers, with retries, streams and clients that leave: guards and outcomes are counted once, requests end, and a circuit does not stay open as long as requests come |
| `limiter_admission` | `TokensConserved`, `OneAnswerEach`, `QueuedIsAnswered`, `ImplementsAdmission` | three requests and four configurations: no token is made or lost but by a disconnect, each queued request has one answer and gets it, and the whole implements `AdmissionProtocol` |
| `workflow_mixed` | `TypeOK`, `LaunchedOnce`, `ChannelNeverFull`, `DependenciesRespected`, `CompletedMeansAllDone`, `WorkflowEnds` | four steps with both kinds of dependency, a delay, a condition, retries, a panic, cancellation |
| `job_queue` | `StatusTellsJob`, `LeftoverIsSwept`, `ImplementsPool` | a startup job and jobs that add workers submit more jobs than the channel has room for, while another task submits and submitters are dropped: statuses tell which keys have a job, what a dropped submitter leaves is swept, and the queue implements `JobPool`, liveness included |
| `service_discovery` | `OnePodPerName`, `GoneIsForgotten`, `ReadyIsTracked`, `ReadyIsServed` | a pod is replaced by one of the same name and address, while the watch breaks, the reconciler works on an old list and jobs overtake each other |
| `worker_lifecycle` | `NeverFailedIsProbed`, `IndexAgrees`, `LoadSurvivesReplace`, `OneWorkerPerUrl`, `ProbeHitsItsWorker` | jobs, removals, probes, lagging events and a request on one url |
| `membership_gossip` | `DownNeedsTwoFailures`, `CrashIsNoticed`, `NewsSpreads` | three gateways join in a chain and meet lost pings, a crash or a departure with restart, a pod report or a metadata write |
| `crdt_replicas` | `StateDerivedFromLog`, `LocalWriteWins`, `KeyLockExclusive`, `NothingComesBack` | two replicas, concurrent tasks, merges, tombstone collection: the store is what the log says, local writes win, what was overwritten or removed does not come back, and only the collector can let two tasks into one section |
| `mesh_streams` | `WatermarkCovered`, `ScannedMeansOffered`, `UpdatesArrive` | two nodes, writes and a removal, snapshots, a broken stream: what a sender takes for sent its peer has or gets, what the collector takes for scanned was offered, and what the owner holds arrives, but for the named losses |

The type invariant `TypeOK` of a module is a conjunct of one of the invariants of its run; it is a
property of its own in `workflow_mixed`. That of the breaker is proved.

Three of these are refinements by `INSTANCE ... WITH`. The mapping of the breaker against
`BreakerProtocol` is in `MCCircuitBreaker`; the others are at the end of the module that is mapped:
the limiter against `AdmissionProtocol` (a
client is granted when its permit is sent, and the free slots are what the next access finds after
its refill), the job queue against `JobPool` (a job is counted in channel, dispatcher or task).
Where a module has both, `Spec` is the safety part, which the proofs are about, and `FairSpec` adds
the fairness, which the runs with liveness properties assume.

Two runs show where the code does not do what a comment or a log line says; `PROJECT.json` quotes
the lines.

| Run | Violates | What happens |
|---|---|---|
| `workflow_premature` | `BlockedOnlyAfterFailure` | a step that settles between the drain of the channel and the scan of the tracker makes the loop believe that nothing can run; the workflow is failed although no step failed |
| `mesh_retry` | `RefusedIsRetried` | a sender that finds its channel full skips the update and "will retry next interval"; by then a round has replaced the batch by an empty one, and the version is never sent, although the stream stays up |

Some properties hold only but for something the code is known to do. The exception is a history
variable (or `Lapsed`, a predicate), whose meaning is at its declaration: `overlapped` (breaker),
`lost` (limiter), `detached` (jobs), `raced` (workers), `overtaken` and `failed` (discovery),
`strays` and `shared` (CRDT), `excused`, `missed` and `Lapsed` (mesh). "Observations" says what
happens there.

## Bounds, and why they are enough

- Breaker: two callers reach every interleaving of two operations, which is what the counters
  and the swap can be confused by; thresholds 2 and 3 make a counter pass through a value below
  its threshold; a timeout of 2 ticks tells "not yet" from "elapsed". The invariants are also proved
  for any number of callers and any thresholds.
- Request path: one worker that may fail (`Flaky`) and one that takes no transcriptions
  (`DpAware`); two attempts, so that there is a first and a last; a failure threshold of 2, so that
  the second failure counts; at most `MaxTroubles` = 1 change of a worker in a behaviour. In some
  initial states no worker is registered.
- Limiter: one token and three requests, so that one holds the token, one waits in a task and one
  is in the channel. A token is one unit; the refill is one unit per tick.
- Workflow: four steps are the least with two roots, a join of each kind, a delay and a condition;
  the safety properties are also proved for every definition. No step of `workflow_mixed` retries
  indefinitely, since `WorkflowEnds` is false of a step that does.
- Job queue: a channel of one, one permit, two running jobs, two configured workers, one tokenizer id
  and one job from outside: the startup job has to wait for room that only the dispatcher can make,
  while the jobs it has submitted wait for the same room.
- Discovery: two incarnations of one pod, the least with a successor; both have the address, as
  with host networking or a reused IP. One break of the watch, two outstanding jobs.
- Workers: one url, two worker objects and two ids, an event channel of two that overflows, every
  threshold 1. `NumWorkers` and `MaxIds` bound how often jobs run; one removal job runs at a time, and
  any number wait. `UpToARace` cuts off what follows a race, of which nothing is claimed.
- Membership: three nodes, since a report needs a third party. `Budgets` gives each behaviour one
  kind of trouble (two losses, or one stop, pod report or write): all together are out of TLC's
  reach. One node runs one round, one stops, one writes, one watches pods. Versions end at 4, and
  the liveness properties say nothing of nodes that reached it (`AtBound`).
- CRDT: one key (keys share only the clock and the log), `MaxClock` 3 operations per replica, and a
  log threshold of 2, which compaction reaches; the threshold is never exceeded by the number of
  keys, as the source expects. The three uses in `MCCrdtOrMap` are the ways the gateway's stores
  call the map: one task with everything, concurrent merges without removes (rate-limit counters),
  concurrent writes and removes beside the collector without merges (state stores). With one key the
  log never has more keys than its threshold, so the cut to the newest operations (`Newest`) takes
  nothing away.
- Mesh: two nodes, one key owned by the client, a channel of two, `MaxVersion` 2, a
  removal of the first version (`MaxRemoved` 1) and one broken stream. `mesh_retry` needs neither a
  removal nor a break. `MaxEntries` 1 means
  that no message of one key is too large; that branch is in the model (`SkipSend`) and not
  reached with one key.

`CHECK_DEADLOCK FALSE` is set where a bounded instance may come to rest: a workflow that ended,
jobs, clocks or budgets used up.

## Fairness

- Breaker: time passes; an operation never awaits, so it is finished once begun; requests keep
  coming, and each asks for the state, so some caller checks again and again (strong fairness of
  the check: worker selection calls it for each request, between which other calls happen).
- Request path: time passes, and a request is carried on: a worker answers or the client's timeout
  does, the back-off ends, a body is read to its end or its timeout. Requests keep coming.
- Limiter: time passes, the processor and waiting tasks are polled, handlers end by the request
  timeout. Requests need not arrive and clients need not disconnect.
- Workflow: the runtime polls every spawned task that can move, and timers fire. Executors return
  (they have a timeout) or panic, which `WorkflowEnds` names.
- Job queue: the dispatcher and each job's task are polled, jobs end (their workflows have
  timeouts), and a submitter that waits for room gets it in its turn, unless it is dropped; the
  submission of a running job ends by its step's timeout at the latest. The sweep runs. Nobody outside
  needs to submit.
- Discovery: the watcher and the reconciler run, and jobs are executed, which `JobPool` promises.
  Pods need not do anything.
- Membership: event loops run round after round and each choose every peer again and again (the
  choice is random: strong fairness per peer); calls end by an answer or a timeout. Nothing is asked
  of the node that is followed for one round.
- Mesh: a write that has begun ends; the event loop, the senders and the handlers run as long as
  their stream; the event loop pings peers again and again and connects to those that answer.
  Rounds and senders are not synchronised. Streams need not break.

## What is proved

TLAPS checks these for every value of the constants that satisfies the named assumptions of the
module (`BreakerAssumption`, `EngineAssumption`, `LimiterAssumption`, `PathAssumption`,
`MembershipAssumption`, `QueueAssumption` and `NoneAssumption`, `MeshAssumption`). They say that
capacities, thresholds and bounds are numbers, positive where the code makes them so, and that the
sets which are counted are finite. The sets of requests, workers, nodes, keys and so on are
otherwise arbitrary. A bound such as `MaxVersion` or `MaxRetries` is any number.

- `CircuitBreakerProofs`: `Typing`, `OwnerInvariant`, `CountersMatchStateAlways`.
  `CountersMatchState` speaks of a breaker at rest and is not inductive: between a `fetch_add` and
  the swap it leads to, the counter of a closed circuit is at its threshold. `ThresholdHasOwner`
  names the caller that still owes the swap or the reset; it is inductive given the types.
- `RequestPathProofs`: `LoadMatchesGuardsAlways`, `OneOutcomeEachAlways`.
  The invariant says for each position of a request what it holds there (`Placed`: a body or relay
  task belongs to a worker, an attempt under way has neither yet) and that each counter is the
  number of requests that hold something of the worker (`Counted`). A step moves one request, so each
  set gains or loses at most that request.
- `ConcurrencyLimiterProofs`: `OneAnswerEachAlways`, `TokensConservedAlways`, `AdmissionRefined`.
  `Owed` says where the one answer of a queued request is (once in the channel, with a waiting task,
  or sent), `LostForGood` that a request whose token is lost will not be granted another one,
  `Computing` that a wait is computed only if the bucket refills, `Unlimited` that without a limiter
  nobody gets past the pass-through. The refinement adds what an access, a return and a tick do to
  the whole tokens in the bucket (`FreeAccess`, `FreeReturn`, `FreeTick`).
- `WorkflowEngineProofs`: `Inductive`, `Typing`, `LaunchedOnceAlways`. The invariant `IInv` adds to
  the types that a task about to begin an attempt has one left (`AttemptsLeft`) and that the
  tracker's `running` set is exactly the set of live tasks (`Tracking`), which is what keeps the
  scheduler from launching a step again.
- `WorkflowOutcomeProofs`: `DependenciesRespectedAlways`, from the fact that what the scheduler
  holds for launching had its dependencies when it was found and that `completed` and `skipped`
  only grow; `CompletedMeansAllDoneAlways`, from what the snapshot of the counts still says when
  the loop acts on it; `ChannelNeverFullAlways`, from each step having at most one signal.
- `JobQueueProofs`: `StatusTellsJobAlways` and `PoolFollowed`. Only a job that is submitting has
  jobs to submit (`Submitting`), and the free permits are what the holders leave (`Permitted`).
  `StatusTellsJob` itself (`Settled`) is kept by each step because a status is written before its
  job is sent and after it has ended, and every other change of either is in `detached` until the
  next write. `PoolFollowed` is the safety part of `ImplementsPool`, as a step simulation: each step
  adds one job, finishes one, or moves one between channel, dispatcher and task, where it is counted
  all the same. That every job is finished is the fairness part, and stays with the run.
- `MembershipProofs`: `DownNeedsTwoFailuresAlways` and the action property `NothingGetsOlder`.
  That Down rests on two failures is not inductive: the failed ping of a node that has not yet
  written it to its table counts as well. `Evidence` adds up what tables and messages say of a node
  and the failed pings still untold (`Accuses`): one of them together with a suspicion, or two of
  them, are already two failures.
- `MeshSyncProofs`: `WatermarkCoveredAlways`, `ScannedMeansOfferedAlways`. Both need `Underway`: a
  write that has begun is newer than what the store holds, since its key stays locked, and it has
  been counted since the last round or that round has missed it. `Covered` says of a channel that
  the watermark is in the peer's store or in some update on its way; the first message of a channel
  leaves it only into that store.

Only model-checked:

- the invariants of workers (`NeverFailedIsProbed`, `IndexAgrees`, `LoadSurvivesReplace`,
  `OneWorkerPerUrl`, `ProbeHitsItsWorker`), of `CrdtOrMap` and of discovery (`OnePodPerName`), for
  which no inductive invariant has been written yet;
- `ImplementsProtocol` of the breaker, which holds as long as operations do not overlap;
- all liveness, the fairness part of `ImplementsPool` included, which the prover does not handle;
- `ConfiguredRate` and the other definitions of the MC modules.

## Observations

Behaviours of the code that the models show, or that came up while reading it, and that no run
of its own is about.

- Breaker: `transition_to` swaps the state to Open (circuit_breaker.rs:268) before it stores the
  time (:272). A check in between reads the previous time and half-opens at once, although line 17
  says "Duration to wait before attempting half-open". A late swap can also close an open circuit
  without a half-open phase. Both need two operations that overlap (`overlapped`).
- Requests: a half-open circuit admits every request, where the documents speak of limited ones
  (circuit-breakers.md, retries.md). Selection asks each candidate for its state, so circuits whose
  timeout has passed become half-open without getting a request; answers to requests sent before
  the circuit opened count in the half-open phase. A typed stream records its outcome with the
  headers, so that a stream that breaks is never a failure, while a transcription's does count at
  its end. A request that cannot be prepared (400) is recorded as a success. A client that leaves
  during an attempt leaves no outcome. During the back-off the failed response, and with it the load
  guard, is kept.
- Limiter: `acquire()` bounds its wait by the missing tokens over the refill rate
  (token_bucket.rs:137), so another request that takes the token causes a 408 before the queue
  timeout, which rate-limiting.md:125 calls "Queue wait exceeded timeout". The processor spawns a
  task for every request it takes off the queue (concurrency.rs:152), so `queue_size` does not bound
  the requests that wait (rate-limiting.md:82). A configured refill of 0 becomes the capacity
  (app_context.rs:515). Waiters are not served in order. A token is lost when its client disconnects
  before the body guard exists (`lost`).
- Workflow: each attempt clones the stored context (engine.rs:951) and afterwards replaces it
  (:961), so parallel steps erase each other's writes, where types.rs:206 says "Shared context
  passed between workflow steps." A panic leaves the loop waiting for ever. After a step with
  `FailWorkflow` fails, other branches are still launched. A cancellation can be overwritten by
  the final status update. `RetryIndefinitely` gives up on `Failure` and non-retryable errors.
- Job queue: the permit is given back before the job executes, so permits do not bound the jobs
  that run, and a startup job that submits others cannot block them. Statuses are kept by url: the
  end of one job erases the status of another for the same url. A submitter that is dropped while it
  waits for room leaves a status Pending without a job, until the sweep or the next job of the key
  (`detached`).
- Discovery: jobs for one url are not ordered. The removal of a predecessor may be executed after
  the addition of its successor; the ready pod stays tracked and without a worker, and nothing looks
  at it again. A job that fails leaves its pod tracked and is not repeated (`overtaken`, `failed`).
  The reconciler's list may be older than the tracked set, so that a new pod is taken for stale,
  removed, and added again by a later list.
- Workers: a registration that resolved its id before a removal of the url inserts under an id the
  url no longer maps to (registry.rs:1001), and the next one makes a second worker (`raced`).
  The activation step makes a re-registered Failed worker Ready without an event (activate.rs:25),
  after the manager has unscheduled it, so it is not probed again; a mesh hint does the same. The
  expected revision of a removal is compared two steps before the removal. The policy registry
  counts registrations and updates up alike, and so never reaches zero.
- Membership: an indirect ping never succeeds: the helper receives it without a payload and refuses
  it (ping_server.rs:460), so "failed ping-req" in high-availability.md:229 adds nothing to the first
  failure. A suspicion is taken back only by a pod report. Two tables may differ in entries of
  equal version. A node that is Down is not pinged again, and one that restarts with version 1 stays
  Down for the others. The first peer is asked in the first round only. A node that is not Alive in
  its own table does not hear its own broadcasts.
- CRDT: the tombstone collector can drop a lock that a task has fetched and not yet taken
  (crdt.rs:386); the next task makes a new lock, and both are in the section of the key. Then a
  replica's store may differ from its log, a local write may lose against the other, and an older
  value may come back (`strays`, `shared`). Merges concurrent with removes could diverge; no caller
  combines them. With more keys than the threshold the log forgets operations.
- Mesh: a write counts the generation before it stores the value (kv_store.rs:40), so that a round
  in between takes it for scanned (`missed`). A removal is not sent (sync.rs:172), so a peer's next
  full batch brings a removed worker back to its owner. Only an empty server asks for a snapshot, so
  a client that joins late gets what was published before only when the store changes again. A
  sender whose interval comes after the next round finds that round's batch, empty if nothing has
  changed, and never sends what the one before offered (`Lapsed`); a full channel has the same
  effect. A snapshot overwrites newer versions (ping_server.rs:1339). Both handlers wait for room
  for their acknowledgements; the two waits could meet, though not in the instance checked. The
  owners of rate-limit shards are computed anew only when a node is built.

## Plan

1. Proofs: the invariants of `WorkerLifecycle`, `OnePodPerName` of discovery, and the lock exclusion
   of `CrdtOrMap` as long as the collector drops no lock.
2. `PolicyRegistry` composed with `WorkerLifecycle`; `RateLimitGossip`: shards, owners, window reset;
   chunk assembly; the composition of `WorkerLifecycle` with `MeshSync`, and of `MeshSync` with
   `Membership`; an abstract replication specification that `MeshSync` implements.

## Not modelled, and why

Request and response translation, tokenizers, parsers and multimodal input are sequential data
conversion, and most of the repository's lines. Storage, skills, authentication and WASM are access
to databases or foreign code. The gRPC and provider routers repeat the control of the HTTP router
around translations of their own. The load-balancing policies and the radix trees of the cache-aware
policy, and the replication of those trees, need data the models do not have. The mesh's node state
machine and partition detector have no caller in the gateway. Metrics, logging, events for display
and configuration parsing are left out everywhere.
