----------------------------- MODULE RequestPath ------------------------------
(***************************************************************************)
(* Requests on their way through the HTTP router (routers/http/router.rs): *)
(* the choice of a worker, the attempt, the outcome told to the worker's   *)
(* circuit breaker, the retry loop (routers/common/retry.rs), the load     *)
(* guard and the body it is attached to.                                   *)
(*                                                                         *)
(* Typed requests ("plain", "stream") are retried; transcriptions          *)
(* ("upload", "upload_stream") are not, and a streamed one is settled by   *)
(* the task that relays its body.  The breaker's operations are atomic     *)
(* here, as CircuitBreaker shows for callers that do not overlap.  A       *)
(* policy chooses any of the workers it is offered.                        *)
(***************************************************************************)
EXTENDS Naturals, FiniteSets

CONSTANTS
    Workers, Requests,
    Kinds,            \* kinds of requests that arrive
    Flaky,            \* workers that may answer badly
    DpAware,          \* data-parallel workers, which take no transcriptions
    MaxRetries,       \* max_retries
    FailureThreshold, SuccessThreshold, Timeout,
    MaxTroubles,      \* bound on the changes of the workers
    None

ASSUME PathAssumption ==
    /\ IsFiniteSet(Requests)
    /\ MaxRetries \in Nat /\ MaxTroubles \in Nat /\ Timeout \in Nat
    /\ FailureThreshold \in Nat \ {0} /\ SuccessThreshold \in Nat \ {0}
    /\ Kinds \subseteq {"plain", "stream", "upload", "upload_stream"}
    /\ DpAware \cup Flaky \subseteq Workers

VARIABLES
    status,      \* of each worker: "ready", "not_ready", "removed" from the registry
    answers,     \* how each worker answers: "well" or "badly"
    troubles,    \* changes of these two so far
    breaker,     \* of each worker: [state, failures, successes, held]
    load,        \* load_counter of each worker
    request,     \* of each request: see Idle
    unsettled    \* history: attempts of each worker without an outcome so far

workerVars == <<status, answers, troubles>>
vars == <<workerVars, breaker, load, request, unsettled>>

\* "body" says that the response has a body that the guard is attached to,
\* "relay" that the relay task runs.
Idle == [at |-> "idle", kind |-> None, attempt |-> 0, worker |-> None,
         answer |-> None, body |-> FALSE, relay |-> FALSE]

Init ==
    /\ \E s \in {"ready", "removed"} : status = [w \in Workers |-> s]
    /\ \E bad \in SUBSET Flaky :
         answers = [w \in Workers |-> IF w \in bad THEN "badly" ELSE "well"]
    /\ troubles = 0
    /\ breaker = [w \in Workers |->
                    [state |-> "closed", failures |-> 0, successes |-> 0, held |-> 0]]
    /\ load = [w \in Workers |-> 0]
    /\ request = [r \in Requests |-> Idle]
    /\ unsettled = [w \in Workers |-> 0]

Typed(r) == request[r].kind \in {"plain", "stream"}

-----------------------------------------------------------------------------
(* The circuit breaker *)

Enter(b, s) ==
    [b EXCEPT !.state = s, !.held = 0, !.successes = 0,
              !.failures = IF s = "open" THEN @ ELSE 0]

\* state(): an open circuit that has waited long enough becomes half-open.
Checked(b) == IF b.state = "open" /\ b.held >= Timeout THEN Enter(b, "half_open") ELSE b

\* Only whether a counter has reached its threshold matters.
UpTo(n, m) == IF n < m THEN n + 1 ELSE m

AfterSuccess(b) ==
    LET c == [b EXCEPT !.failures = 0, !.successes = UpTo(@, SuccessThreshold)]
    IN  IF c.state = "half_open" /\ c.successes = SuccessThreshold
        THEN Enter(c, "closed") ELSE c

AfterFailure(b) ==
    LET c == [b EXCEPT !.successes = 0, !.failures = UpTo(@, FailureThreshold)]
    IN  IF \/ c.state = "half_open"
           \/ c.state = "closed" /\ c.failures = FailureThreshold
        THEN Enter(c, "open") ELSE c

\* is_retryable_status; the default of retryable_status_codes is the same set.
Retryable(answer) == answer \in {"error", "unavailable"}

\* Worker::record_outcome, of an attempt on w that got this answer
RecordOutcome(w, answer) ==
    /\ breaker' = [breaker EXCEPT ![w] =
                     IF Retryable(answer) THEN AfterFailure(@) ELSE AfterSuccess(@)]
    /\ unsettled' = [unsettled EXCEPT ![w] = @ - 1]

\* Only the time that a circuit has been open is looked at.
Tick ==
    /\ \E w \in Workers : breaker[w].state = "open" /\ breaker[w].held < Timeout
    /\ breaker' = [w \in Workers |->
         [breaker[w] EXCEPT !.held = IF breaker[w].state = "open" THEN UpTo(@, Timeout) ELSE @]]
    /\ UNCHANGED <<workerVars, load, request, unsettled>>

-----------------------------------------------------------------------------
(* The workers *)

Trouble ==
    /\ troubles < MaxTroubles
    /\ troubles' = troubles + 1
    /\ UNCHANGED <<breaker, load, request, unsettled>>

\* The health checker or a removal changes what the registry says of a worker.
ChangeStatus(w, s) ==
    /\ status[w] \notin {s, "removed"}
    /\ status' = [status EXCEPT ![w] = s]
    /\ UNCHANGED answers
    /\ Trouble

ChangeAnswers(w, a) ==
    /\ answers[w] # a /\ w \in Flaky
    /\ answers' = [answers EXCEPT ![w] = a]
    /\ UNCHANGED status
    /\ Trouble

-----------------------------------------------------------------------------
(* Routing *)

Arrive(r, kind) ==
    /\ request[r] = Idle
    /\ request' = [request EXCEPT ![r] = [Idle EXCEPT !.at = "select", !.kind = kind]]
    /\ UNCHANGED <<workerVars, breaker, load, unsettled>>

\* A request is over; its relay task may still run.
Over(q) ==
    IF q.relay THEN [q EXCEPT !.at = "idle", !.body = FALSE] ELSE Idle

\* The client has its answer; it may still have to read the body.  What is
\* not looked at again is forgotten: only the relay task needs the answer.
Answered(q, answer) ==
    IF q.body THEN [q EXCEPT !.at = "reading", !.attempt = 0,
                             !.answer = IF q.relay THEN answer ELSE None]
              ELSE Over(q)

\* execute_response_with_retry, after an attempt
AfterAttempt(q, answer) ==
    IF q.kind \in {"plain", "stream"} /\ Retryable(answer) /\ q.attempt + 1 < MaxRetries
    THEN [q EXCEPT !.at = "backoff"]
    ELSE Answered(q, answer)

Registered == {w \in Workers : status[w] # "removed"}

Candidates(r) == IF Typed(r) THEN Registered ELSE Registered \ DpAware

\* is_available() asks a breaker only if the worker is healthy.
Asked(r) == {w \in Candidates(r) : status[w] = "ready"}

\* Variant in which looking at a breaker does not change it.
Looked_Passive(r) == breaker

\* What is_available() makes of the breakers of all the workers it is asked of.
Looked(r) ==
    [w \in Workers |-> IF w \in Asked(r) THEN Checked(breaker[w]) ELSE breaker[w]]

Available(r) == {w \in Asked(r) : Looked(r)[w].state # "open"}

\* A worker is chosen and gets its load guard; the attempt begins.
Select(r, w) ==
    /\ request[r].at = "select"
    /\ w \in Available(r)
    /\ breaker' = Looked(r)
    /\ load' = [load EXCEPT ![w] = @ + 1]
    /\ unsettled' = [unsettled EXCEPT ![w] = @ + 1]
    /\ request' = [request EXCEPT ![r].at = "sent", ![r].worker = w]
    /\ UNCHANGED workerVars

\* There is none: 404, 400 (transcriptions only) or 503.
NoWorker(r) ==
    /\ request[r].at = "select"
    /\ Available(r) = {}
    /\ request' = [request EXCEPT ![r] =
         AfterAttempt(@, IF Registered = {} THEN "not_found"
                         ELSE IF Candidates(r) = {} THEN "rejected" ELSE "unavailable")]
    /\ UNCHANGED <<workerVars, breaker, load, unsettled>>

\* WorkerLoadGuard::drop (a saturating decrement)
DropGuard(w) == load' = [load EXCEPT ![w] = IF @ > 0 THEN @ - 1 ELSE 0]

\* What a worker, or the connection to it, makes of a request.
Outcomes(w) == IF answers[w] = "well" THEN {"ok", "rejected"} ELSE {"error"}

\* What send_typed_request returns: a request that cannot be prepared is
\* rejected without being sent.
Results(w, body) == Outcomes(w) \cup (IF body THEN {} ELSE {"rejected"})

\* route_typed_request_once: the guard goes with the body of a streamed response,
\* and is dropped if there is none.  The outcome is recorded when the headers
\* are there, then the loop decides.
Respond(r, answer, body) ==
    LET w == request[r].worker
    IN  /\ request[r].at = "sent" /\ Typed(r)
        /\ answer \in Results(w, body)
        /\ body => request[r].kind = "stream"
        /\ IF body THEN UNCHANGED load ELSE DropGuard(w)
        /\ RecordOutcome(w, answer)
        /\ request' = [request EXCEPT ![r] = AfterAttempt([@ EXCEPT !.body = body], answer)]
        /\ UNCHANGED workerVars

\* Variants: the body of the failed attempt is kept; the attempt is not counted.
Retry_KeepsBody(r) ==
    /\ request[r].at = "backoff"
    /\ request' = [request EXCEPT ![r] =
         [Idle EXCEPT !.at = "select", !.kind = request[r].kind,
                      !.attempt = request[r].attempt + 1]]
    /\ UNCHANGED <<workerVars, breaker, load, unsettled>>

Retry_NotCounted(r) ==
    /\ request[r].at = "backoff"
    /\ request' = [request EXCEPT ![r] =
         [Idle EXCEPT !.at = "select", !.kind = request[r].kind,
                      !.attempt = request[r].attempt]]
    /\ IF request[r].body THEN DropGuard(request[r].worker) ELSE UNCHANGED load
    /\ UNCHANGED <<workerVars, breaker, unsettled>>

\* The response that is not good enough lives until the sleep is over.
Retry(r) ==
    /\ request[r].at = "backoff"
    /\ request' = [request EXCEPT ![r] =
         [Idle EXCEPT !.at = "select", !.kind = request[r].kind,
                      !.attempt = request[r].attempt + 1]]
    /\ IF request[r].body THEN DropGuard(request[r].worker) ELSE UNCHANGED load
    /\ UNCHANGED <<workerVars, breaker, unsettled>>

\* A transcription is answered, and its outcome recorded, at the end ...
RespondUpload(r, answer) ==
    LET w == request[r].worker
    IN  /\ request[r].at = "sent" /\ ~Typed(r)
        /\ answer \in Outcomes(w)
        /\ request[r].kind = "upload_stream" => answer = "error"
        /\ RecordOutcome(w, answer)
        /\ DropGuard(w)
        /\ request' = [request EXCEPT ![r] = Answered(@, answer)]
        /\ UNCHANGED workerVars

\* Variant that records the headers, too.
Relay_RecordsHeaders(r, answer) ==
    /\ request[r].at = "sent" /\ request[r].kind = "upload_stream"
    /\ answer \in Outcomes(request[r].worker)
    /\ RecordOutcome(request[r].worker, answer)
    /\ request' = [request EXCEPT ![r] =
         Answered([@ EXCEPT !.body = TRUE, !.relay = TRUE], answer)]
    /\ UNCHANGED <<workerVars, load>>

\* ... unless it is streamed and there are headers: then the relay task has the outcome to record,
Relay(r, answer) ==
    /\ request[r].at = "sent" /\ request[r].kind = "upload_stream"
    /\ answer \in Outcomes(request[r].worker)
    /\ request' = [request EXCEPT ![r] =
         Answered([@ EXCEPT !.body = TRUE, !.relay = TRUE], answer)]
    /\ UNCHANGED <<workerVars, breaker, load, unsettled>>

\* that of the headers or, if the stream breaks, a failure.
EndRelay(r, broken) ==
    /\ request[r].relay
    /\ RecordOutcome(request[r].worker, IF broken THEN "error" ELSE request[r].answer)
    /\ request' = [request EXCEPT ![r] =
         IF @.at = "idle" THEN Idle ELSE [@ EXCEPT !.relay = FALSE, !.answer = None]]
    /\ UNCHANGED <<workerVars, load>>

\* The form of a transcription cannot be built: nobody hears of the attempt.
RejectForm(r) ==
    /\ request[r].at = "sent" /\ ~Typed(r)
    /\ DropGuard(request[r].worker)
    /\ unsettled' = [unsettled EXCEPT ![request[r].worker] = @ - 1]
    /\ request' = [request EXCEPT ![r] = Answered(@, "rejected")]
    /\ UNCHANGED <<workerVars, breaker>>

\* The client has read the body.
EndBody(r) ==
    /\ request[r].at = "reading" /\ ~request[r].relay
    /\ DropGuard(request[r].worker)
    /\ request' = [request EXCEPT ![r] = Over(@)]
    /\ UNCHANGED <<workerVars, breaker, unsettled>>

\* The client leaves: the handler's future is dropped where it waits, or the
\* body that it is being sent.
Disconnect(r) ==
    LET q == request[r]
    IN  /\ q.at \in {"sent", "backoff", "reading"}
        /\ request' = [request EXCEPT ![r] = Over(@)]
        /\ IF q.at = "sent" \/ q.body THEN DropGuard(q.worker) ELSE UNCHANGED load
        /\ unsettled' = IF q.at = "sent" THEN [unsettled EXCEPT ![q.worker] = @ - 1]
                                         ELSE unsettled
        /\ UNCHANGED <<workerVars, breaker>>

-----------------------------------------------------------------------------
AllAnswers == {"ok", "rejected", "error", "unavailable", "not_found"}

Step(r) ==
    \/ \E kind \in Kinds : Arrive(r, kind)
    \/ NoWorker(r) \/ Retry(r) \/ RejectForm(r) \/ EndBody(r)
    \/ \E w \in Workers : Select(r, w)
    \/ \E answer \in AllAnswers :
         RespondUpload(r, answer) \/ Relay(r, answer) \/ \E body \in BOOLEAN : Respond(r, answer, body)
    \/ \E broken \in BOOLEAN : EndRelay(r, broken)

Next ==
    \/ \E r \in Requests : Step(r) \/ Disconnect(r)
    \/ Tick
    \/ \E w \in Workers :
         \/ \E s \in {"ready", "not_ready", "removed"} : ChangeStatus(w, s)
         \/ \E a \in {"well", "badly"} : ChangeAnswers(w, a)

Spec == Init /\ [][Next]_vars

\* A request is carried on: a worker answers or the client's timeout does, the
\* back-off ends, a body is read.  Requests keep coming.
Fairness == WF_vars(Tick) /\ \A r \in Requests : WF_vars(Step(r))

FairSpec == Spec /\ Fairness

-----------------------------------------------------------------------------
\* Type invariant.
TypeOK ==
    /\ status \in [Workers -> {"ready", "not_ready", "removed"}]
    /\ answers \in [Workers -> {"well", "badly"}] /\ troubles \in 0 .. MaxTroubles
    /\ breaker \in [Workers -> [state : {"closed", "open", "half_open"}, held : 0 .. Timeout,
                                 failures : 0 .. FailureThreshold,
                                 successes : 0 .. SuccessThreshold]]
    /\ load \in [Workers -> 0 .. Cardinality(Requests)]
    /\ \A r \in Requests :
         /\ request[r].at \in {"idle", "select", "sent", "backoff", "reading"}
         /\ request[r].attempt = 0 \/ request[r].attempt < MaxRetries
         /\ request[r].answer \in AllAnswers \cup {None}

\* A worker's load counter is the number of its attempts that are under way and
\* of its bodies that a client has not finished with: whether a request ends
\* with an answer, a retry, a rejection or a client that leaves, its guard is
\* dropped once.  The state is well typed: no request has more attempts than
\* it may.
LoadMatchesGuards ==
    /\ TypeOK
    /\ \A w \in Workers :
          load[w] = Cardinality({r \in Requests :
              request[r].worker = w /\ (request[r].at = "sent" \/ request[r].body)})

\* Each attempt tells its worker's circuit breaker one outcome: none is told
\* twice, by the handler and the relay task, and none is forgotten but for a
\* client that leaves before the answer.
OneOutcomeEach ==
    \A w \in Workers :
        unsettled[w] = Cardinality({r \in Requests :
            request[r].worker = w /\ (request[r].at = "sent" \/ request[r].relay)})

\* A request that has come is answered: the attempts end, also if every worker
\* fails and if none is available.
RequestEnds ==
    \A r \in Requests : request[r].at = "select" ~> request[r].at \in {"reading", "idle"}

\* As long as requests come, the circuit of a worker in good health does not
\* stay open, even if the policy never chooses that worker.
OpenIsGivenAChance ==
    \A w \in Workers \ DpAware :
        breaker[w].state = "open" ~> breaker[w].state # "open" \/ status[w] # "ready"

=============================================================================
