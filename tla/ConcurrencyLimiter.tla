------------------------ MODULE ConcurrencyLimiter ------------------------
(***************************************************************************)
(* Admission of requests by the gateway: the token bucket                  *)
(* (middleware/token_bucket.rs), the queue in front of it and the body     *)
(* guard that gives the token back (middleware/concurrency.rs).            *)
(*                                                                         *)
(* A token is Unit units, so that a refill may be a fraction of a token.   *)
(* Time is discrete; a timer may fire at any moment from its deadline on.  *)
(* The bucket's mutex makes each access to it one step.                    *)
(***************************************************************************)
EXTENDS Integers, Sequences, FiniteSets

CONSTANTS
    Requests,      \* the requests that may arrive
    Capacity,      \* max_concurrent_requests: tokens of a full bucket
    Unit,          \* units of one token
    QueueTimeout,  \* queue_timeout_secs, in ticks
    Configs,       \* [limited, rate, queue]: see Init
    MeshMayReject  \* the mesh is enabled and its global limit may be exceeded

ASSUME LimiterAssumption ==
    /\ IsFiniteSet(Requests)
    /\ Capacity \in Nat \ {0} /\ Unit \in Nat \ {0}
    /\ QueueTimeout \in Nat \ {0}
    /\ Configs \subseteq [limited : BOOLEAN, rate : Nat, queue : Nat]
    /\ MeshMayReject \in BOOLEAN

VARIABLES
    config,   \* limited: a bucket exists; rate: its refill, in units per tick;
              \* queue: queue_size
    tokens,   \* TokenBucketInner.tokens, in units
    elapsed,  \* ticks since last_refill, as far as they matter
    queue,    \* the bounded mpsc channel of QueuedRequests
    pc,       \* where the middleware is with each request
    permit,   \* the oneshot channel of a queued request
    waiter,   \* the task spawned to wait for a queued request's token
    left,     \* ticks to the queue timeout of a request
    wait,     \* ticks to the end of acquire()'s own wait_time
    lost      \* history: requests whose token nobody will return

vars == <<config, tokens, elapsed, queue, pc, permit, waiter, left, wait, lost>>

Full == Capacity * Unit

\* "running": inside next.run(); "streaming": the guarded body exists;
\* "gone": the client disconnected and the future or body was dropped.
PC     == {"new", "enqueue", "queued", "running", "streaming",
           "done", "429", "408", "gone"}
Waiter == {"none", "spawned", "park", "parked", "woken", "compute", "loop",
           "sleeping"}

\* Type invariant.
TypeOK ==
    /\ config \in Configs
    /\ tokens \in 0..Full
    /\ elapsed \in 0..Full
    /\ queue \in Seq(Requests) /\ Len(queue) <= config.queue
    /\ pc \in [Requests -> PC]
    /\ permit \in [Requests -> {"none", "ok", "timeout"}]
    /\ waiter \in [Requests -> Waiter]
    /\ left \in [Requests -> 0..QueueTimeout]
    /\ wait \in [Requests -> 0..Unit]
    /\ lost \subseteq Requests

Init ==
    /\ config \in Configs
    /\ tokens = Full
    /\ elapsed = 0
    /\ queue = << >>
    /\ pc = [r \in Requests |-> "new"]
    /\ permit = [r \in Requests |-> "none"]
    /\ waiter = [r \in Requests |-> "none"]
    /\ left = [r \in Requests |-> QueueTimeout]
    /\ wait = [r \in Requests |-> 0]
    /\ lost = {}

-----------------------------------------------------------------------------
(* The token bucket *)

Min2(a, b) == IF a < b THEN a ELSE b

\* What tokens would be after the refill that every access starts with.
Refilled == Min2(tokens + elapsed * config.rate, Full)

\* try_acquire: refill, then take one token if there is one.
TakeToken ==
    /\ Refilled >= Unit
    /\ tokens' = Refilled - Unit
    /\ elapsed' = 0

NoToken ==
    /\ Refilled < Unit
    /\ tokens' = Refilled
    /\ elapsed' = 0

\* return_tokens_sync: no refill; notify_waiters() wakes the tasks that are
\* parked now and stores nothing for a task that parks later.
ReturnToken ==
    /\ tokens' = Min2(tokens + Unit, Full)
    /\ waiter' = [r \in Requests |->
                    CASE waiter[r] = "parked"   -> "woken"
                      [] waiter[r] = "sleeping" -> "loop"
                      [] OTHER                  -> waiter[r]]

-----------------------------------------------------------------------------
(* concurrency_limit_middleware *)

Moves(r, from, to) ==
    /\ pc[r] = from
    /\ pc' = [pc EXCEPT ![r] = to]

MeshReject(r) ==
    /\ MeshMayReject
    /\ Moves(r, "new", "429")
    /\ UNCHANGED <<config, tokens, elapsed, queue, permit, waiter, left, wait, lost>>

\* Without a bucket the response carries no guard.
PassThrough(r) ==
    /\ ~config.limited
    /\ Moves(r, "new", "done")
    /\ UNCHANGED <<config, tokens, elapsed, queue, permit, waiter, left, wait, lost>>

AcquireAtOnce(r) ==
    /\ config.limited
    /\ TakeToken
    /\ Moves(r, "new", "running")
    /\ UNCHANGED <<config, queue, permit, waiter, left, wait, lost>>

FindNoToken(r) ==
    /\ config.limited
    /\ NoToken
    /\ Moves(r, "new", IF config.queue > 0 THEN "enqueue" ELSE "429")
    /\ UNCHANGED <<config, queue, permit, waiter, left, wait, lost>>

\* queue_tx.try_send
Enqueue(r) ==
    /\ IF Len(queue) < config.queue
       THEN Moves(r, "enqueue", "queued") /\ queue' = Append(queue, r)
       ELSE Moves(r, "enqueue", "429") /\ UNCHANGED queue
    /\ UNCHANGED <<config, tokens, elapsed, permit, waiter, left, wait, lost>>

ReceivePermit(r) ==
    /\ \/ permit[r] = "ok" /\ Moves(r, "queued", "running")
       \/ permit[r] = "timeout" /\ Moves(r, "queued", "408")
    /\ permit' = [permit EXCEPT ![r] = "none"]
    /\ UNCHANGED <<config, tokens, elapsed, queue, waiter, left, wait, lost>>

\* next.run() returns and the response body is wrapped in a TokenGuardBody.
Respond(r) ==
    /\ Moves(r, "running", "streaming")
    /\ UNCHANGED <<config, tokens, elapsed, queue, permit, waiter, left, wait, lost>>

DropBody_Unguarded(r) ==
    /\ Moves(r, "streaming", "done")
    /\ UNCHANGED <<config, tokens, waiter, elapsed, queue, permit, left, wait, lost>>

\* The guarded body is consumed to its end, or dropped with the connection.
DropBody(r) ==
    /\ Moves(r, "streaming", "done")
    /\ ReturnToken
    /\ UNCHANGED <<config, elapsed, queue, permit, left, wait, lost>>

\* The client disconnects while the middleware's future is suspended: the
\* future is dropped, with the permit that may be in its channel, and no
\* guard exists yet.
Disconnect(r) ==
    /\ pc[r] \in {"queued", "running"}
    /\ pc' = [pc EXCEPT ![r] = "gone"]
    /\ lost' = IF pc[r] = "running" \/ permit[r] = "ok" THEN lost \cup {r} ELSE lost
    /\ permit' = [permit EXCEPT ![r] = "none"]
    /\ UNCHANGED <<config, tokens, elapsed, queue, waiter, left, wait>>

-----------------------------------------------------------------------------
(* QueueProcessor::run and the waiting tasks it spawns *)

\* permit_tx.send; its result is ignored, so a token granted to a client
\* that has gone is lost.
Answer(r, result) ==
    IF pc[r] = "queued"
    THEN permit' = [permit EXCEPT ![r] = result] /\ UNCHANGED lost
    ELSE /\ UNCHANGED permit
         /\ lost' = IF result = "ok" THEN lost \cup {r} ELSE lost

TaskMoves(r, to) == waiter' = [waiter EXCEPT ![r] = to]

Process_Forgets ==
    /\ queue # << >>
    /\ queue' = Tail(queue)
    /\ LET r == Head(queue) IN
       \/ /\ left[r] = 0
          /\ UNCHANGED <<permit, lost, tokens, elapsed, waiter>>
       \/ /\ left[r] > 0
          /\ TakeToken
          /\ Answer(r, "ok")
          /\ UNCHANGED waiter
       \/ /\ left[r] > 0
          /\ NoToken
          /\ TaskMoves(r, "spawned")
          /\ UNCHANGED <<permit, lost>>
    /\ UNCHANGED <<config, pc, left, wait>>

Process ==
    /\ queue # << >>
    /\ queue' = Tail(queue)
    /\ LET r == Head(queue) IN
       \/ /\ left[r] = 0
          /\ Answer(r, "timeout")
          /\ UNCHANGED <<tokens, elapsed, waiter>>
       \/ /\ left[r] > 0
          /\ TakeToken
          /\ Answer(r, "ok")
          /\ UNCHANGED waiter
       \/ /\ left[r] > 0
          /\ NoToken
          /\ TaskMoves(r, "spawned")
          /\ UNCHANGED <<permit, lost>>
    /\ UNCHANGED <<config, pc, left, wait>>

\* The deadline of acquire_timeout, or the one inside acquire, has passed.
Expired(r) == left[r] = 0 \/ (config.rate > 0 /\ wait[r] = 0)

\* acquire(): a try, then either park until a token is returned (rate 0) or
\* poll for at most wait_time.  A poll that finds no token looks at the
\* deadline before it sleeps again.
TryAcquire(r) ==
    /\ waiter[r] \in {"spawned", "woken", "loop"}
    /\ \/ /\ TakeToken
          /\ Answer(r, "ok")
          /\ TaskMoves(r, "none")
       \/ /\ NoToken
          /\ waiter[r] = "loop" /\ Expired(r)
          /\ Answer(r, "timeout")
          /\ TaskMoves(r, "none")
       \/ /\ NoToken
          /\ ~(waiter[r] = "loop" /\ Expired(r))
          /\ TaskMoves(r, IF waiter[r] = "loop" THEN "sleeping"
                          ELSE IF config.rate = 0 THEN "park" ELSE "compute")
          /\ UNCHANGED <<permit, lost>>
    /\ UNCHANGED <<config, queue, pc, left, wait>>

\* notified() is created: from here on notify_waiters() reaches the task.
Park(r) ==
    /\ waiter[r] = "park"
    /\ TaskMoves(r, "parked")
    /\ UNCHANGED <<config, tokens, elapsed, queue, pc, permit, left, wait, lost>>

CeilDiv(a, b) == (a + b - 1) \div b

\* wait_time: how long the refill needs for what is missing, without a refill
\* first and as if nobody else took tokens.
ComputeWait(r) ==
    /\ waiter[r] = "compute"
    /\ wait' = [wait EXCEPT ![r] =
                  IF tokens >= Unit THEN 0 ELSE CeilDiv(Unit - tokens, config.rate)]
    /\ TaskMoves(r, "loop")
    /\ UNCHANGED <<config, tokens, elapsed, queue, pc, permit, left, lost>>

\* The 10 ms sleep of the polling loop.
WakeUp(r) ==
    /\ waiter[r] = "sleeping"
    /\ TaskMoves(r, "loop")
    /\ UNCHANGED <<config, tokens, elapsed, queue, pc, permit, left, wait, lost>>

TimeOut_PollersOnly(r) ==
    /\ waiter[r] = "sleeping"
    /\ Expired(r)
    /\ Answer(r, "timeout")
    /\ TaskMoves(r, "none")
    /\ UNCHANGED <<config, tokens, elapsed, queue, pc, left, wait>>

\* Variant: the answer is sent and acquire() goes on.
TimeOut_KeepsAcquiring(r) ==
    /\ waiter[r] \in {"parked", "sleeping"}
    /\ Expired(r)
    /\ Answer(r, "timeout")
    /\ TaskMoves(r, "loop")
    /\ UNCHANGED <<config, tokens, elapsed, queue, pc, left, wait>>

TimeOut(r) ==
    /\ waiter[r] \in {"parked", "sleeping"}
    /\ Expired(r)
    /\ Answer(r, "timeout")
    /\ TaskMoves(r, "none")
    /\ UNCHANGED <<config, tokens, elapsed, queue, pc, left, wait>>

\* Every deadline comes one tick closer: the queue timeout runs from the
\* enqueueing to Process and, for the rest of it, from the waiter's start.
Tick ==
    /\ elapsed' = IF config.rate = 0 THEN 0 ELSE Min2(elapsed + 1, Full)
    /\ left' = [r \in Requests |->
                  IF left[r] > 0 /\ ( \/ r \in {queue[i] : i \in DOMAIN queue}
                                      \/ waiter[r] \notin {"none", "spawned"} )
                  THEN left[r] - 1 ELSE left[r]]
    /\ wait' = [r \in Requests |->
                  IF wait[r] > 0 /\ waiter[r] \in {"loop", "sleeping"}
                  THEN wait[r] - 1 ELSE wait[r]]
    /\ UNCHANGED <<config, tokens, queue, pc, permit, waiter, lost>>

-----------------------------------------------------------------------------
Middleware(r) ==
    \/ MeshReject(r) \/ PassThrough(r) \/ AcquireAtOnce(r) \/ FindNoToken(r)
    \/ Enqueue(r) \/ ReceivePermit(r) \/ Respond(r) \/ DropBody(r)

WaitingTask(r) ==
    TryAcquire(r) \/ Park(r) \/ ComputeWait(r) \/ WakeUp(r) \/ TimeOut(r)

Next ==
    \/ \E r \in Requests : Middleware(r) \/ WaitingTask(r) \/ Disconnect(r)
    \/ Process
    \/ Tick

Spec == Init /\ [][Next]_vars

\* The runtime polls every task that can make progress, timers fire, and a
\* downstream handler ends (request_timeout_secs).
Fairness ==
    /\ WF_vars(Tick)
    /\ WF_vars(Process)
    /\ \A r \in Requests :
         /\ WF_vars(pc[r] # "new" /\ Middleware(r))
         /\ WF_vars(WaitingTask(r))

FairSpec == Spec /\ Fairness

-----------------------------------------------------------------------------
(* Properties *)

\* The requests that stand for a token taken from the bucket.
Holders == {r \in Requests : \/ pc[r] \in {"running", "streaming"}
                             \/ permit[r] = "ok"}

(* When tokens only come back from responses (refill rate 0), every token  *)
(* is in the bucket, held by an admitted request, or was lost with a       *)
(* client that disconnected between the grant and the guarded body: no     *)
(* other path of the queue, the waiters or the timeouts loses or makes a   *)
(* token, so at most Capacity requests run at once.  At any rate the       *)
(* bucket is never overfull (TypeOK).                                      *)
TokensConserved ==
    /\ TypeOK
    /\ config.limited /\ config.rate = 0 =>
        tokens + Unit * Cardinality(Holders \cup lost) = Full

(* A request that entered the queue is answered: granted, refused with     *)
(* 408, or abandoned by its client; it never waits for ever.               *)
QueuedIsAnswered ==
    \A r \in Requests : pc[r] = "queued" ~> pc[r] # "queued"

(* What a queued request is owed is always on its way: it is in the        *)
(* channel exactly once, or a waiting task owns it, or its permit is sent. *)
(* A second grant, or a grant after a refusal, would take a token twice.   *)
OneAnswerEach ==
    \A r \in Requests :
        LET places == Cardinality({i \in DOMAIN queue : queue[i] = r})
                      + (IF waiter[r] # "none" THEN 1 ELSE 0)
                      + (IF permit[r] # "none" THEN 1 ELSE 0)
        IN  IF pc[r] = "queued" THEN places = 1
            ELSE places <= (IF pc[r] = "gone" THEN 1 ELSE 0)

-----------------------------------------------------------------------------
(* Refinement *)

\* A queued client is granted or refused when its permit is sent, not when
\* its task picks the permit up.
ClientAt(where, sent) ==
    CASE sent = "ok"      -> "holding"
      [] sent = "timeout" -> "refused"
      [] sent = "none"    ->
           CASE where = "new"                      -> "new"
             [] where \in {"enqueue", "queued"}    -> "waiting"
             [] where \in {"running", "streaming"} -> "holding"
             [] where \in {"429", "408"}           -> "refused"
             [] where = "done"                     -> "served"
             [] where = "gone"                     -> "left"

\* The bucket offers what the next access would find after its refill.
Protocol == INSTANCE AdmissionProtocol WITH
    Clients <- Requests,
    Slots   <- Capacity,
    limited <- config.limited,
    refills <- config.rate > 0,
    free    <- Refilled \div Unit,
    client  <- [r \in Requests |-> ClientAt(pc[r], permit[r])]

(* The bucket, the queue, its processor, the waiting tasks and the body    *)
(* guard together are a semaphore: whatever their interleaving, a request  *)
(* is granted at most once and only against a free token, is never granted *)
(* after it was refused, and gives its token back once.                    *)
ImplementsAdmission == Protocol!Spec

=============================================================================
