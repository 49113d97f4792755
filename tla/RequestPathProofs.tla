-------------------------- MODULE RequestPathProofs ---------------------------
(***************************************************************************)
(* The router's request path for any workers, requests, retry bound and    *)
(* thresholds: each load guard is dropped once and each attempt is settled *)
(* once.                                                                   *)
(***************************************************************************)
EXTENDS RequestPath, FiniteSetTheorems, TLAPS

\* A leaf is first-order reasoning unless it names SMT, for arithmetic.
USE ZenonT(30)

Positions == {"idle", "select", "sent", "backoff", "reading"}

RequestType == [at : Positions, kind : Kinds \cup {None}, attempt : Nat,
                worker : Workers \cup {None}, answer : AllAnswers \cup {None},
                body : BOOLEAN, relay : BOOLEAN]

BreakerType == [state : {"closed", "open", "half_open"}, held : 0 .. Timeout,
                failures : 0 .. FailureThreshold, successes : 0 .. SuccessThreshold]

(* What each position of a request says of its worker, body and relay      *)
(* task: a body or a relay task belongs to a worker, an attempt under way  *)
(* has neither, and a request in back-off has an attempt left.             *)
WellPlaced(q) ==
    /\ q \in RequestType
    /\ q.attempt = 0 \/ q.attempt < MaxRetries
    /\ q.at = "sent" \/ q.body \/ q.relay => q.worker \in Workers
    /\ q.at \in {"select", "sent"} => ~q.body
    /\ q.at = "idle" => ~q.body
    /\ q.at = "reading" => q.body
    /\ q.relay => q.at \in {"idle", "reading"} /\ q.answer \in AllAnswers
    /\ q.at = "backoff" => q.attempt + 1 < MaxRetries

Placed ==
    /\ DOMAIN request = Requests /\ request \in [Requests -> RequestType]
    /\ \A r \in Requests : WellPlaced(request[r])

(* A request in position q keeps a load guard of w, or owes w's circuit    *)
(* breaker an outcome.                                                     *)
Guards(q, w) == q.worker = w /\ (q.at = "sent" \/ q.body)

Owes(q, w) == q.worker = w /\ (q.at = "sent" \/ q.relay)

Guarded(w) == {r \in Requests : Guards(request[r], w)}

Owing(w) == {r \in Requests : Owes(request[r], w)}

CountersType ==
    /\ load \in [Workers -> Nat] /\ unsettled \in [Workers -> Nat]
    /\ status \in [Workers -> {"ready", "not_ready", "removed"}]
    /\ answers \in [Workers -> {"well", "badly"}] /\ troubles \in 0 .. MaxTroubles

Counted ==
    \A w \in Workers : /\ load[w] = Cardinality(Guarded(w))
                       /\ unsettled[w] = Cardinality(Owing(w))

IInv == /\ Placed /\ CountersType /\ Counted
        /\ breaker \in [Workers -> BreakerType]

-----------------------------------------------------------------------------
(* Where a request goes *)

LEMMA IdlePlaced == WellPlaced(Idle)
BY PathAssumption DEF WellPlaced, Idle, RequestType, Positions, AllAnswers

LEMMA OverPlaced ==
    ASSUME NEW q, WellPlaced(q)
    PROVE  /\ WellPlaced(Over(q))
           /\ Over(q).at = "idle" /\ ~Over(q).body /\ (Over(q).relay <=> q.relay)
           /\ q.relay => Over(q).worker = q.worker
<1>1. CASE q.relay BY <1>1, PathAssumption DEF WellPlaced, Over, RequestType, Positions
<1>2. CASE ~q.relay BY <1>2, IdlePlaced DEF WellPlaced, Over, Idle, RequestType
<1> QED BY <1>1, <1>2

LEMMA AnsweredPlaced ==
    ASSUME NEW q \in RequestType, NEW answer \in AllAnswers,
           q.attempt = 0 \/ q.attempt < MaxRetries,
           q.body \/ q.relay => q.worker \in Workers,
           q.relay => q.body
    PROVE  LET a == Answered(q, answer)
           IN  /\ WellPlaced(a) /\ a.at # "sent"
               /\ (a.body <=> q.body) /\ (a.relay <=> q.relay)
               /\ q.body => a.worker = q.worker
<1>1. CASE q.body
    <2> DEFINE kept == IF q.relay THEN answer ELSE None
    <2>1. Answered(q, answer) = [q EXCEPT !.at = "reading", !.attempt = 0, !.answer = kept]
        BY <1>1 DEF Answered
    <2>2. kept \in AllAnswers \cup {None} /\ (q.relay => kept \in AllAnswers) OBVIOUS
    <2> HIDE DEF kept
    <2> DEFINE a == Answered(q, answer)
    <2>3. /\ a.at = "reading" /\ a.attempt = 0 /\ a.answer = kept /\ a.worker = q.worker
          /\ (a.body <=> q.body) /\ (a.relay <=> q.relay)
        BY <2>1 DEF RequestType
    <2>4. a \in RequestType
        <3>1. "reading" \in Positions BY DEF Positions
        <3>2. a = [at |-> "reading", kind |-> q.kind, attempt |-> 0, worker |-> q.worker,
                   answer |-> kept, body |-> q.body, relay |-> q.relay]
            BY <2>1 DEF RequestType
        <3> QED BY SMTT(30), <2>2, <3>1, <3>2 DEF RequestType
    <2> HIDE DEF a
    <2>5. WellPlaced(a) BY <1>1, <2>2, <2>3, <2>4, PathAssumption DEF WellPlaced
    <2> QED BY <2>3, <2>5 DEF a
<1>2. CASE ~q.body
    <2>1. Answered(q, answer) = Idle BY <1>2 DEF Answered, Over, RequestType
    <2> QED BY SMTT(30), <1>2, <2>1, IdlePlaced DEF Idle, RequestType
<1> QED BY <1>1, <1>2

LEMMA AttemptPlaced ==
    ASSUME NEW q \in RequestType, NEW answer \in AllAnswers,
           q.attempt = 0 \/ q.attempt < MaxRetries,
           q.body => q.worker \in Workers, ~q.relay
    PROVE  LET a == AfterAttempt(q, answer)
           IN  /\ WellPlaced(a) /\ a.at # "sent"
               /\ (a.body <=> q.body) /\ ~a.relay
               /\ q.body => a.worker = q.worker
<1>1. CASE AfterAttempt(q, answer) = Answered(q, answer)
    BY SMTT(30), <1>1, AnsweredPlaced
<1>2. CASE AfterAttempt(q, answer) # Answered(q, answer)
    <2>1. AfterAttempt(q, answer) = [q EXCEPT !.at = "backoff"] /\ q.attempt + 1 < MaxRetries
        BY <1>2 DEF AfterAttempt
    <2> QED BY <2>1, PathAssumption DEF WellPlaced, RequestType, Positions
<1> QED BY <1>1, <1>2

-----------------------------------------------------------------------------
(* Counting *)

One(b) == IF b THEN 1 ELSE 0

(* Moving one request changes the size of a set of requests by at most one. *)
LEMMA SizeOfMove ==
    ASSUME NEW S \in SUBSET Requests, NEW T \in SUBSET Requests, NEW r \in Requests,
           \A x \in Requests \ {r} : x \in S <=> x \in T
    PROVE  /\ Cardinality(S) \in Nat /\ Cardinality(T) \in Nat
           /\ Cardinality(T) = Cardinality(S) + One(r \in T) - One(r \in S)
           /\ Cardinality(S) >= One(r \in S)
<1>1. IsFiniteSet(S) /\ IsFiniteSet(T) BY PathAssumption, FS_Subset
<1>2. Cardinality(S) \in Nat /\ Cardinality(T) \in Nat BY <1>1, FS_CardinalityType
<1>3. r \in S => Cardinality(S) >= 1
    <2>1. r \in S => S # {} OBVIOUS
    <2> QED BY SMTT(30), <1>1, <1>2, <2>1, FS_EmptySet
<1>4. CASE (r \in S) <=> (r \in T)
    <2>1. S = T BY SMTT(30), <1>4
    <2> QED BY SMTT(30), <1>2, <1>3, <2>1 DEF One
<1>5. CASE r \in T /\ r \notin S
    <2>1. T = S \cup {r} BY <1>5
    <2> QED BY SMTT(30), <1>1, <1>2, <1>5, <2>1, FS_AddElement DEF One
<1>6. CASE r \in S /\ r \notin T
    <2>1. T = S \ {r} BY <1>6
    <2> QED BY SMTT(30), <1>1, <1>2, <1>3, <1>6, <2>1, FS_RemoveElement DEF One
<1> QED BY <1>4, <1>5, <1>6

(* A step that moves one request to q and changes both counters by what    *)
(* the request holds and owes before and after ...                         *)
Balanced(r, q) ==
    /\ WellPlaced(q) /\ request' = [request EXCEPT ![r] = q]
    /\ load' \in [Workers -> Int] /\ unsettled' \in [Workers -> Int]
    /\ \A w \in Workers :
         /\ load'[w] = load[w] + One(Guards(q, w)) - One(Guards(request[r], w))
         /\ unsettled'[w] = unsettled[w] + One(Owes(q, w)) - One(Owes(request[r], w))

Kept == /\ Placed' /\ Counted'
        /\ load' \in [Workers -> Nat] /\ unsettled' \in [Workers -> Nat]

(* ... keeps the invariant.                                                *)
LEMMA MoveCounted ==
    ASSUME IInv, NEW r \in Requests, NEW q, Balanced(r, q)
    PROVE  Kept
<1> USE DEF Balanced
<1>1. Placed'
    <2>1. q \in RequestType BY DEF WellPlaced
    <2> QED BY <2>1 DEF IInv, Placed
<1>2. request \in [Requests -> RequestType] BY DEF IInv, Placed
<1>3. \A x \in Requests : request'[x] = IF x = r THEN q ELSE request[x] BY <1>2
<1>4. ASSUME NEW w \in Workers
      PROVE  load'[w] = Cardinality(Guarded(w)') /\ load'[w] \in Nat
    <2> DEFINE S == Guarded(w)
               T == Guarded(w)'
    <2>1. /\ S \in SUBSET Requests /\ T \in SUBSET Requests
          /\ \A x \in Requests \ {r} : x \in S <=> x \in T
          /\ r \in S <=> Guards(request[r], w)
          /\ r \in T <=> Guards(q, w)
        BY <1>3 DEF Guarded
    <2> HIDE DEF S, T
    <2>2. /\ Cardinality(T) \in Nat
          /\ Cardinality(T) = Cardinality(S) + One(r \in T) - One(r \in S)
        BY SMTT(30), <2>1, SizeOfMove
    <2>3. load[w] = Cardinality(S) BY DEF IInv, Counted, S
    <2> QED BY <2>1, <2>2, <2>3 DEF T, One
<1>5. ASSUME NEW w \in Workers
      PROVE  unsettled'[w] = Cardinality(Owing(w)') /\ unsettled'[w] \in Nat
    <2> DEFINE S == Owing(w)
               T == Owing(w)'
    <2>1. /\ S \in SUBSET Requests /\ T \in SUBSET Requests
          /\ \A x \in Requests \ {r} : x \in S <=> x \in T
          /\ r \in S <=> Owes(request[r], w)
          /\ r \in T <=> Owes(q, w)
        BY <1>3 DEF Owing
    <2> HIDE DEF S, T
    <2>2. /\ Cardinality(T) \in Nat
          /\ Cardinality(T) = Cardinality(S) + One(r \in T) - One(r \in S)
        BY SMTT(30), <2>1, SizeOfMove
    <2>3. unsettled[w] = Cardinality(S) BY DEF IInv, Counted, S
    <2> QED BY <2>1, <2>2, <2>3 DEF T, One
<1>6. Counted' BY <1>4, <1>5 DEF Counted
<1> QED BY <1>1, <1>4, <1>5, <1>6 DEF Kept

(* Dropping the guard that a request keeps takes one off its worker's      *)
(* load: the decrement does not saturate.                                  *)
LEMMA DropsOne ==
    ASSUME IInv, NEW r \in Requests, NEW w \in Workers, Guards(request[r], w), DropGuard(w)
    PROVE  /\ load' \in [Workers -> Int]
           /\ \A v \in Workers : load'[v] = load[v] - One(v = w)
<1>1. load \in [Workers -> Nat] /\ load[w] = Cardinality(Guarded(w))
    BY DEF IInv, CountersType, Counted
<1>2. Guarded(w) \in SUBSET Requests /\ r \in Guarded(w) BY DEF Guarded
<1>3. load[w] >= 1
    <2> HIDE DEF Guarded
    <2> QED BY SMTT(30), <1>1, <1>2, SizeOfMove DEF One
<1> QED BY SMTT(30), <1>1, <1>3 DEF DropGuard, One

LEMMA SettlesOne ==
    ASSUME IInv, NEW w \in Workers, unsettled' = [unsettled EXCEPT ![w] = @ - 1]
    PROVE  /\ unsettled' \in [Workers -> Int]
           /\ \A v \in Workers : unsettled'[v] = unsettled[v] - One(v = w)
BY SMTT(30) DEF IInv, CountersType, One

-----------------------------------------------------------------------------
(* The circuit breakers *)

(* Looking at a breaker, and telling it an outcome, keep its counters      *)
(* within their bounds.                                                    *)
LEMMA BreakerMoves ==
    ASSUME NEW b \in BreakerType
    PROVE  /\ Checked(b) \in BreakerType
           /\ AfterSuccess(b) \in BreakerType
           /\ AfterFailure(b) \in BreakerType
<1> USE PathAssumption
<1>1. ASSUME NEW c \in BreakerType, NEW s \in {"closed", "open", "half_open"}
      PROVE  Enter(c, s) \in BreakerType /\ Enter(c, s).state = s /\ Enter(c, s).held = 0
    <2> DEFINE f == IF s = "open" THEN c.failures ELSE 0
    <2>1. Enter(c, s) = [c EXCEPT !.state = s, !.held = 0, !.successes = 0, !.failures = f]
        BY DEF Enter, BreakerType
    <2>2. f \in 0 .. FailureThreshold /\ 0 \in 0 .. Timeout /\ 0 \in 0 .. SuccessThreshold
        BY SMTT(30) DEF BreakerType
    <2> HIDE DEF f
    <2> QED BY <2>1, <2>2 DEF BreakerType
<1>2. Checked(b) \in BreakerType
    BY <1>1 DEF Checked
<1>3. AfterSuccess(b) \in BreakerType
    <2> DEFINE c == [b EXCEPT !.failures = 0, !.successes = UpTo(@, SuccessThreshold)]
    <2>1. c \in BreakerType /\ c.state = b.state /\ c.held = b.held
        <3> DEFINE n == UpTo(b.successes, SuccessThreshold)
        <3>1. c = [b EXCEPT !.failures = 0, !.successes = n] BY DEF BreakerType
        <3>2. n \in 0 .. SuccessThreshold /\ 0 \in 0 .. FailureThreshold BY SMTT(30) DEF BreakerType, UpTo
        <3> HIDE DEF n, c
        <3> QED BY <3>1, <3>2 DEF BreakerType
    <2>2. AfterSuccess(b) = IF c.state = "half_open" /\ c.successes = SuccessThreshold
                            THEN Enter(c, "closed") ELSE c
        BY DEF AfterSuccess
    <2> HIDE DEF c
    <2> QED BY SMTT(30), <1>1, <2>1, <2>2
<1>4. AfterFailure(b) \in BreakerType
    <2> DEFINE c == [b EXCEPT !.successes = 0, !.failures = UpTo(@, FailureThreshold)]
    <2>1. c \in BreakerType /\ c.state = b.state /\ c.held = b.held
        <3> DEFINE n == UpTo(b.failures, FailureThreshold)
        <3>1. c = [b EXCEPT !.successes = 0, !.failures = n] BY DEF BreakerType
        <3>2. n \in 0 .. FailureThreshold /\ 0 \in 0 .. SuccessThreshold BY SMTT(30) DEF BreakerType, UpTo
        <3> HIDE DEF n, c
        <3> QED BY <3>1, <3>2 DEF BreakerType
    <2>2. AfterFailure(b) = IF \/ c.state = "half_open"
                               \/ c.state = "closed" /\ c.failures = FailureThreshold
                            THEN Enter(c, "open") ELSE c
        BY DEF AfterFailure
    <2> HIDE DEF c
    <2> QED BY SMTT(30), <1>1, <2>1, <2>2
<1> QED BY <1>2, <1>3, <1>4

(* Every step of the router keeps the breakers' types.                     *)
Circuits == breaker' \in [Workers -> BreakerType]

LEMMA CircuitStep ==
    ASSUME breaker \in [Workers -> BreakerType], [Next]_vars
    PROVE  Circuits
<1>1. ASSUME UNCHANGED breaker PROVE Circuits BY <1>1 DEF Circuits
<1>2. ASSUME NEW w, NEW answer, RecordOutcome(w, answer) PROVE Circuits
    <2>1. \A v \in Workers : \/ breaker'[v] = breaker[v]
                             \/ breaker'[v] = AfterFailure(breaker[v])
                             \/ breaker'[v] = AfterSuccess(breaker[v])
        BY <1>2 DEF RecordOutcome
    <2>2. DOMAIN breaker' = Workers /\ breaker' = [v \in Workers |-> breaker'[v]]
        BY <1>2 DEF RecordOutcome
    <2>3. \A v \in Workers : breaker'[v] \in BreakerType
        BY SMTT(30), <2>1, BreakerMoves
    <2> QED BY <2>2, <2>3 DEF Circuits
<1>3. ASSUME NEW r, breaker' = Looked(r) PROVE Circuits
    BY SMTT(30), <1>3, BreakerMoves DEF Looked, Circuits
<1>4. CASE Tick
    <2>1. breaker' = [w \in Workers |->
            [breaker[w] EXCEPT !.held = IF breaker[w].state = "open" THEN UpTo(@, Timeout) ELSE @]]
        BY <1>4 DEF Tick
    <2>2. \A w \in Workers : breaker'[w] \in BreakerType
        <3> TAKE w \in Workers
        <3> DEFINE b == breaker[w]
                   h == IF b.state = "open" THEN UpTo(b.held, Timeout) ELSE b.held
        <3>1. b \in BreakerType OBVIOUS
        <3> HIDE DEF b
        <3>2. breaker'[w] = [b EXCEPT !.held = h] BY <2>1 DEF b
        <3>3. h \in 0 .. Timeout /\ h \in {b.held, IF b.held < Timeout THEN b.held + 1 ELSE b.held}
            BY SMTT(30), <3>1, PathAssumption DEF BreakerType, UpTo
        <3> HIDE DEF h
        <3>4. breaker'[w] \in BreakerType /\ breaker'[w].state = b.state /\ breaker'[w].held = h
            BY <3>1, <3>2, <3>3 DEF BreakerType
        <3> QED BY <3>3, <3>4 DEF b
    <2> QED BY <2>1, <2>2 DEF Circuits
<1>5. ASSUME NEW r \in Requests, Step(r) \/ Disconnect(r) PROVE Circuits
    <2>1. CASE \E kind \in Kinds : Arrive(r, kind) BY <1>1, <2>1 DEF Arrive
    <2>2. CASE NoWorker(r) \/ Retry(r) \/ RejectForm(r) \/ EndBody(r) \/ Disconnect(r)
        BY <1>1, <2>2 DEF NoWorker, Retry, RejectForm, EndBody, Disconnect
    <2>3. CASE \E w \in Workers : Select(r, w) BY <1>3, <2>3 DEF Select
    <2>4. ASSUME NEW answer \in AllAnswers,
                 \/ RespondUpload(r, answer) \/ Relay(r, answer)
                 \/ \E body \in BOOLEAN : Respond(r, answer, body)
          PROVE  Circuits
        BY <1>1, <1>2, <2>4 DEF RespondUpload, Relay, Respond
    <2>5. CASE \E broken \in BOOLEAN : EndRelay(r, broken) BY <1>2, <2>5 DEF EndRelay
    <2> QED BY <1>5, <2>1, <2>2, <2>3, <2>4, <2>5 DEF Step
<1>6. ASSUME NEW w \in Workers, \/ \E s : ChangeStatus(w, s)
                                \/ \E a : ChangeAnswers(w, a)
      PROVE  Circuits
    BY <1>1, <1>6 DEF ChangeStatus, ChangeAnswers, Trouble
<1>7. CASE UNCHANGED vars BY <1>1, <1>7 DEF vars
<1> QED BY <1>4, <1>5, <1>6, <1>7 DEF Next

-----------------------------------------------------------------------------
(* The invariant *)

(* Where a request starts, and where it goes when it is neither sent nor   *)
(* has anything: it holds no guard and owes no outcome.                    *)
LEMMA HoldsNothing ==
    ASSUME NEW q, q.at # "sent", ~q.body, ~q.relay
    PROVE  \A w : ~Guards(q, w) /\ ~Owes(q, w)
BY DEF Guards, Owes

(* However an attempt ends, the guard goes with the body or is dropped,    *)
(* and the outcome is recorded by the handler, by the relay task, or not   *)
(* at all when the client left or the request could not be built.          *)
LEMMA RequestStep ==
    ASSUME IInv, NEW r \in Requests, Step(r) \/ Disconnect(r)
    PROVE  Kept
<1> DEFINE q == request[r]
           w == q.worker
<1>1. WellPlaced(q) /\ q \in RequestType /\ request \in [Requests -> RequestType]
    BY DEF IInv, Placed
<1>2. load \in [Workers -> Nat] /\ unsettled \in [Workers -> Nat] BY DEF IInv, CountersType
<1>3. ASSUME NEW p, Balanced(r, p) PROVE Kept BY <1>3, MoveCounted
<1>4. UNCHANGED load => load' \in [Workers -> Int] /\ \A v \in Workers : load'[v] = load[v]
    BY SMTT(30), <1>2
<1>5. UNCHANGED unsettled =>
        unsettled' \in [Workers -> Int] /\ \A v \in Workers : unsettled'[v] = unsettled[v]
    BY SMTT(30), <1>2
<1>6. ASSUME NEW kind \in Kinds, Arrive(r, kind) PROVE Kept
    <2> DEFINE p == [Idle EXCEPT !.at = "select", !.kind = kind]
    <2>1. request' = [request EXCEPT ![r] = p] /\ q = Idle /\ UNCHANGED <<load, unsettled>>
        BY <1>6 DEF Arrive
    <2>2. WellPlaced(p) /\ p.at # "sent" /\ ~p.body /\ ~p.relay
        BY PathAssumption DEF Idle, WellPlaced, RequestType, Positions
    <2>3. q.at # "sent" /\ ~q.body /\ ~q.relay BY SMTT(30), <2>1 DEF Idle
    <2>4. Balanced(r, p)
        <3> HIDE DEF p
        <3> QED BY SMTT(30), <1>2, <1>4, <1>5, <2>1, <2>2, <2>3, HoldsNothing DEF Balanced, One
    <2> QED BY <1>3, <2>4
<1>7. CASE NoWorker(r)
    <2> DEFINE a == IF Registered = {} THEN "not_found"
                    ELSE IF Candidates(r) = {} THEN "rejected" ELSE "unavailable"
               p == AfterAttempt(q, a)
    <2>1. /\ request' = [request EXCEPT ![r] = p] /\ q.at = "select"
          /\ UNCHANGED <<load, unsettled>>
        BY <1>7 DEF NoWorker
    <2>2. a \in AllAnswers BY DEF AllAnswers
    <2>3. q.at # "sent" /\ ~q.body /\ ~q.relay BY <1>1, <2>1 DEF WellPlaced
    <2> HIDE DEF a
    <2>4. WellPlaced(p) /\ p.at # "sent" /\ ~p.body /\ ~p.relay
        BY <1>1, <2>2, <2>3, AttemptPlaced DEF WellPlaced
    <2>5. Balanced(r, p)
        <3> HIDE DEF p
        <3> QED BY SMTT(30), <1>2, <1>4, <1>5, <2>1, <2>3, <2>4, HoldsNothing DEF Balanced, One
    <2> QED BY <1>3, <2>5
<1>8. q.at = "sent" => w \in Workers /\ ~q.body /\ ~q.relay
    BY <1>1 DEF WellPlaced
<1>9. CASE Retry(r)
    <2> DEFINE p == [Idle EXCEPT !.at = "select", !.kind = q.kind, !.attempt = q.attempt + 1]
    <2>1. /\ request' = [request EXCEPT ![r] = p] /\ q.at = "backoff" /\ UNCHANGED unsettled
          /\ IF q.body THEN DropGuard(w) ELSE UNCHANGED load
        BY <1>9 DEF Retry
    <2>2. q.attempt + 1 < MaxRetries /\ q.attempt \in Nat /\ ~q.relay /\ (q.body => w \in Workers)
        BY <1>1, <2>1 DEF WellPlaced, RequestType
    <2>3. WellPlaced(p) /\ p.at # "sent" /\ ~p.body /\ ~p.relay
        <3>1. q.kind \in Kinds \cup {None} /\ q.attempt + 1 \in Nat
            BY SMTT(30), <1>1, <2>2 DEF RequestType
        <3> QED BY <2>2, <3>1, PathAssumption DEF Idle, WellPlaced, RequestType, Positions
    <2>4. \A v \in Workers : ~Owes(q, v) /\ (Guards(q, v) <=> q.body /\ v = w)
        BY <2>1, <2>2 DEF Owes, Guards
    <2>5. /\ load' \in [Workers -> Int]
          /\ \A v \in Workers : load'[v] = load[v] - One(Guards(q, v))
        BY SMTT(30), <1>2, <1>4, <2>1, <2>2, <2>4, DropsOne DEF One
    <2>6. Balanced(r, p)
        <3> HIDE DEF p
        <3> QED BY SMTT(30), <1>2, <1>5, <2>1, <2>3, <2>4, <2>5, HoldsNothing DEF Balanced, One
    <2> QED BY <1>3, <2>6
<1>10. ASSUME NEW p, WellPlaced(p), p.at # "sent", ~p.body, ~p.relay, q.at = "sent",
              DropGuard(w), unsettled' = [unsettled EXCEPT ![w] = @ - 1],
              request' = [request EXCEPT ![r] = p]
       PROVE  Kept
    <2>1. \A v \in Workers : (Owes(q, v) <=> v = w) /\ (Guards(q, v) <=> v = w)
        BY <1>8, <1>10 DEF Owes, Guards
    <2>2. w \in Workers /\ Guards(q, w) BY <1>8, <1>10, <2>1
    <2>3. /\ load' \in [Workers -> Int]
          /\ \A v \in Workers : load'[v] = load[v] - One(v = w)
        BY SMTT(30), <1>10, <2>2, DropsOne
    <2>4. /\ unsettled' \in [Workers -> Int]
          /\ \A v \in Workers : unsettled'[v] = unsettled[v] - One(v = w)
        BY <1>10, <2>2, SettlesOne
    <2>5. Balanced(r, p) BY SMTT(30), <1>2, <1>10, <2>1, <2>3, <2>4, HoldsNothing DEF Balanced, One
    <2> QED BY <1>3, <2>5
<1>11. ASSUME NEW answer \in AllAnswers, q.at = "sent"
       PROVE  LET p == Answered(q, answer)
              IN  WellPlaced(p) /\ p.at # "sent" /\ ~p.body /\ ~p.relay
    BY <1>1, <1>8, <1>11, AnsweredPlaced DEF WellPlaced
<1>12. CASE RejectForm(r)
    <2>1. /\ request' = [request EXCEPT ![r] = Answered(q, "rejected")] /\ q.at = "sent"
          /\ DropGuard(w) /\ unsettled' = [unsettled EXCEPT ![w] = @ - 1]
        BY <1>12 DEF RejectForm
    <2>2. "rejected" \in AllAnswers BY DEF AllAnswers
    <2> QED BY <1>10, <1>11, <2>1, <2>2
<1>13. ASSUME NEW answer \in AllAnswers, RespondUpload(r, answer) PROVE Kept
    <2>1. /\ request' = [request EXCEPT ![r] = Answered(q, answer)] /\ q.at = "sent"
          /\ DropGuard(w) /\ unsettled' = [unsettled EXCEPT ![w] = @ - 1]
        BY <1>13 DEF RespondUpload, RecordOutcome
    <2> QED BY <1>10, <1>11, <2>1
<1>14. CASE EndBody(r)
    <2> DEFINE p == Over(q)
    <2>1. /\ request' = [request EXCEPT ![r] = p] /\ q.at = "reading" /\ ~q.relay
          /\ DropGuard(w) /\ UNCHANGED unsettled
        BY <1>14 DEF EndBody
    <2>2. q.body /\ w \in Workers BY <1>1, <2>1 DEF WellPlaced
    <2>3. WellPlaced(p) /\ p.at # "sent" /\ ~p.body /\ ~p.relay BY <1>1, <2>1, OverPlaced
    <2>4. \A v \in Workers : ~Owes(q, v) /\ (Guards(q, v) <=> v = w)
        BY <2>1, <2>2 DEF Owes, Guards
    <2>5. /\ load' \in [Workers -> Int]
          /\ \A v \in Workers : load'[v] = load[v] - One(v = w)
        BY SMTT(30), <2>1, <2>2, <2>4, DropsOne
    <2>6. Balanced(r, p)
        <3> HIDE DEF p
        <3> QED BY SMTT(30), <1>2, <1>5, <2>1, <2>3, <2>4, <2>5, HoldsNothing DEF Balanced, One
    <2> QED BY <1>3, <2>6
<1>15. CASE Disconnect(r)
    <2> DEFINE p == Over(q)
    <2>1. /\ request' = [request EXCEPT ![r] = p] /\ q.at \in {"sent", "backoff", "reading"}
          /\ IF q.at = "sent" \/ q.body THEN DropGuard(w) ELSE UNCHANGED load
          /\ unsettled' = IF q.at = "sent" THEN [unsettled EXCEPT ![w] = @ - 1] ELSE unsettled
        BY <1>15 DEF Disconnect
    <2>2. /\ WellPlaced(p) /\ p.at = "idle" /\ ~p.body /\ (p.relay <=> q.relay)
          /\ q.relay => p.worker = w
        BY <1>1, OverPlaced
    <2>3. CASE q.at = "sent"
        BY <1>8, <1>10, <2>1, <2>2, <2>3
    <2>4. CASE q.at # "sent"
        <3>1. UNCHANGED unsettled /\ (q.body => w \in Workers)
            BY <1>1, <2>1, <2>4 DEF WellPlaced
        <3>2. \A v \in Workers : /\ (Owes(q, v) <=> Owes(p, v)) /\ ~Guards(p, v)
                                 /\ Guards(q, v) <=> q.body /\ v = w
            BY <2>2, <2>4 DEF Owes, Guards
        <3>3. /\ load' \in [Workers -> Int]
              /\ \A v \in Workers : load'[v] = load[v] - One(Guards(q, v))
            BY SMTT(30), <1>2, <1>4, <2>1, <2>4, <3>1, <3>2, DropsOne DEF One
        <3>4. Balanced(r, p)
            <4> HIDE DEF p
            <4>1. \A v \in Workers : load'[v] = load[v] + One(Guards(p, v)) - One(Guards(q, v))
                BY SMTT(30), <1>2, <3>2, <3>3 DEF One
            <4>2. \A v \in Workers :
                    unsettled'[v] = unsettled[v] + One(Owes(p, v)) - One(Owes(q, v))
                BY SMTT(30), <1>2, <3>1, <3>2 DEF One
            <4>3. unsettled' \in [Workers -> Int] BY SMTT(30), <1>2, <3>1
            <4> QED BY <2>1, <2>2, <3>3, <4>1, <4>2, <4>3 DEF Balanced
        <3> QED BY <1>3, <3>4
    <2> QED BY <2>3, <2>4
<1>16. ASSUME NEW v \in Workers, Select(r, v) PROVE Kept
    <2> DEFINE p == [q EXCEPT !.at = "sent", !.worker = v]
    <2>1. /\ request' = [request EXCEPT ![r] = p] /\ q.at = "select"
          /\ load' = [load EXCEPT ![v] = @ + 1]
          /\ unsettled' = [unsettled EXCEPT ![v] = @ + 1]
        BY <1>1, <1>16 DEF Select
    <2>2. ~q.body /\ ~q.relay BY <1>1, <2>1 DEF WellPlaced
    <2>3. p.at = "sent" /\ p.worker = v /\ ~p.body /\ ~p.relay
        BY <1>1, <2>2 DEF RequestType
    <2>4. WellPlaced(p)
        <3>1. p \in RequestType BY <1>1 DEF RequestType, Positions
        <3>2. p.attempt = q.attempt BY <1>1 DEF RequestType
        <3> QED BY <1>1, <2>3, <3>1, <3>2 DEF WellPlaced
    <2> HIDE DEF p
    <2>5. \A u \in Workers : /\ (Owes(p, u) <=> u = v) /\ (Guards(p, u) <=> u = v)
                             /\ ~Owes(q, u) /\ ~Guards(q, u)
        BY <2>1, <2>2, <2>3 DEF Owes, Guards
    <2>6. /\ load' \in [Workers -> Int] /\ unsettled' \in [Workers -> Int]
          /\ \A u \in Workers : load'[u] = load[u] + One(u = v)
          /\ \A u \in Workers : unsettled'[u] = unsettled[u] + One(u = v)
        BY SMTT(30), <1>2, <2>1 DEF One
    <2>7. Balanced(r, p) BY SMTT(30), <1>2, <2>1, <2>4, <2>5, <2>6 DEF Balanced, One
    <2> QED BY <1>3, <2>7
<1>17. ASSUME NEW answer \in AllAnswers, NEW body \in BOOLEAN, Respond(r, answer, body)
       PROVE  Kept
    <2> DEFINE b == [q EXCEPT !.body = body]
               p == AfterAttempt(b, answer)
    <2>1. /\ request' = [request EXCEPT ![r] = p] /\ q.at = "sent"
          /\ IF body THEN UNCHANGED load ELSE DropGuard(w)
          /\ unsettled' = [unsettled EXCEPT ![w] = @ - 1]
        BY <1>1, <1>17 DEF Respond, RecordOutcome
    <2>2. b \in RequestType /\ b.attempt = q.attempt /\ b.worker = w
          /\ (b.body <=> body) /\ (b.relay <=> q.relay)
        BY <1>1 DEF RequestType
    <2>3. /\ WellPlaced(p) /\ p.at # "sent" /\ (p.body <=> body) /\ ~p.relay
          /\ body => p.worker = w
        <3> HIDE DEF b
        <3>1. (q.attempt = 0 \/ q.attempt < MaxRetries) /\ w \in Workers /\ ~q.relay
            BY <1>1, <1>8, <2>1 DEF WellPlaced
        <3> QED BY <2>2, <3>1, AttemptPlaced
    <2> HIDE DEF p
    <2>4. CASE ~body BY <1>10, <2>1, <2>3, <2>4
    <2>5. CASE body
        <3>1. /\ unsettled' \in [Workers -> Int]
              /\ \A v \in Workers : unsettled'[v] = unsettled[v] - One(v = w)
            BY <1>8, <2>1, SettlesOne
        <3>2. \A v \in Workers : /\ (Owes(q, v) <=> v = w) /\ (Guards(q, v) <=> v = w)
                                 /\ ~Owes(p, v) /\ (Guards(p, v) <=> v = w)
            BY <2>1, <2>3, <2>5 DEF Owes, Guards
        <3>3. Balanced(r, p) BY SMTT(30), <1>2, <1>4, <2>1, <2>3, <2>5, <3>1, <3>2 DEF Balanced, One
        <3> QED BY <1>3, <3>3
    <2> QED BY <2>4, <2>5
<1>18. ASSUME NEW answer \in AllAnswers, Relay(r, answer) PROVE Kept
    <2> DEFINE b == [q EXCEPT !.body = TRUE, !.relay = TRUE]
               p == Answered(b, answer)
    <2>1. /\ request' = [request EXCEPT ![r] = p] /\ q.at = "sent"
          /\ UNCHANGED <<load, unsettled>>
        BY <1>1, <1>18 DEF Relay
    <2>2. b \in RequestType /\ b.attempt = q.attempt /\ b.worker = w /\ b.body /\ b.relay
        BY <1>1 DEF RequestType
    <2>3. WellPlaced(p) /\ p.at # "sent" /\ p.body /\ p.relay /\ p.worker = w
        <3> HIDE DEF b
        <3>1. (q.attempt = 0 \/ q.attempt < MaxRetries) /\ w \in Workers
            BY <1>1, <1>8, <2>1 DEF WellPlaced
        <3> QED BY <2>2, <3>1, AnsweredPlaced
    <2> HIDE DEF p
    <2>4. \A v \in Workers : /\ (Owes(q, v) <=> v = w) /\ (Guards(q, v) <=> v = w)
                             /\ (Owes(p, v) <=> v = w) /\ (Guards(p, v) <=> v = w)
        BY <2>1, <2>3 DEF Owes, Guards
    <2>5. Balanced(r, p) BY SMTT(30), <1>2, <1>4, <1>5, <2>1, <2>3, <2>4 DEF Balanced, One
    <2> QED BY <1>3, <2>5
<1>19. ASSUME NEW broken \in BOOLEAN, EndRelay(r, broken) PROVE Kept
    <2> DEFINE p == IF q.at = "idle" THEN Idle ELSE [q EXCEPT !.relay = FALSE, !.answer = None]
    <2>1. /\ request' = [request EXCEPT ![r] = p] /\ q.relay /\ UNCHANGED load
          /\ unsettled' = [unsettled EXCEPT ![w] = @ - 1]
        BY <1>1, <1>19 DEF EndRelay, RecordOutcome
    <2>2. w \in Workers /\ q.at \in {"idle", "reading"} /\ (q.body <=> q.at = "reading")
        BY <1>1, <2>1 DEF WellPlaced
    <2>3. /\ WellPlaced(p) /\ p.at # "sent" /\ ~p.relay /\ (p.body <=> q.body)
          /\ q.body => p.worker = w
        <3>1. CASE q.at = "idle" BY <2>2, <3>1, IdlePlaced DEF Idle
        <3>2. CASE q.at = "reading"
            <4>1. p = [q EXCEPT !.relay = FALSE, !.answer = None] BY <3>2
            <4> HIDE DEF p
            <4>2. /\ p \in RequestType /\ p.at = q.at /\ p.attempt = q.attempt /\ p.worker = w
                  /\ ~p.relay /\ (p.body <=> q.body)
                BY <1>1, <4>1 DEF RequestType
            <4> QED BY <1>1, <2>2, <3>2, <4>2 DEF WellPlaced
        <3> QED BY <2>2, <3>1, <3>2
    <2> HIDE DEF p
    <2>4. \A v \in Workers : /\ (Owes(q, v) <=> v = w) /\ (Guards(q, v) <=> Guards(p, v))
                             /\ ~Owes(p, v)
        BY <2>1, <2>2, <2>3 DEF Owes, Guards
    <2>5. /\ unsettled' \in [Workers -> Int]
          /\ \A v \in Workers : unsettled'[v] = unsettled[v] - One(v = w)
        BY <2>1, <2>2, SettlesOne
    <2>6. Balanced(r, p) BY SMTT(30), <1>2, <1>4, <2>1, <2>3, <2>4, <2>5 DEF Balanced, One
    <2> QED BY <1>3, <2>6
<1> QED
    BY <1>6, <1>7, <1>9, <1>12, <1>13, <1>14, <1>15, <1>16, <1>17, <1>18, <1>19 DEF Step

(* The step of a request leaves the workers alone.                         *)
LEMMA RequestsLeaveWorkers ==
    ASSUME NEW r \in Requests, Step(r) \/ Disconnect(r)
    PROVE  UNCHANGED workerVars
BY DEF Step, Arrive, NoWorker, Retry, RejectForm, EndBody, Select, RespondUpload, Relay,
       Respond, EndRelay, Disconnect, workerVars

(* For every set of requests and workers: each position of a request holds *)
(* what it says, and the counters count what the requests hold.            *)
THEOREM Inductive == Spec => []IInv
<1>1. Init => IInv
    <2> SUFFICES ASSUME Init PROVE IInv OBVIOUS
    <2> USE PathAssumption
    <2>1. Placed BY IdlePlaced DEF Init, Placed, WellPlaced
    <2>2. CountersType BY SMTT(30) DEF Init, CountersType
    <2>3. Counted
        <3>1. \A w \in Workers : Guarded(w) = {} /\ Owing(w) = {}
            BY DEF Init, Idle, Guarded, Owing, Guards, Owes
        <3> QED BY <3>1, FS_EmptySet DEF Init, Counted
    <2>4. breaker \in [Workers -> BreakerType] BY SMTT(30) DEF Init, BreakerType
    <2> QED BY <2>1, <2>2, <2>3, <2>4 DEF IInv
<1>2. IInv /\ [Next]_vars => IInv'
    <2> SUFFICES ASSUME IInv, [Next]_vars PROVE IInv' OBVIOUS
    <2>1. (breaker \in [Workers -> BreakerType])' BY CircuitStep DEF IInv, Circuits
    <2>2. ASSUME NEW r \in Requests, Step(r) \/ Disconnect(r) PROVE IInv'
        BY <2>1, <2>2, RequestStep, RequestsLeaveWorkers
           DEF IInv, Kept, CountersType, workerVars
    <2>3. ASSUME UNCHANGED <<load, request, unsettled>> PROVE (Placed /\ Counted)'
        BY <2>3 DEF IInv, Placed, Counted, Guarded, Owing
    <2>4. ASSUME NEW w \in Workers,
                 \/ \E s \in {"ready", "not_ready", "removed"} : ChangeStatus(w, s)
                 \/ \E a \in {"well", "badly"} : ChangeAnswers(w, a)
          PROVE  IInv'
        <3>1. UNCHANGED <<load, request, unsettled>>
            BY <2>4 DEF ChangeStatus, ChangeAnswers, Trouble
        <3>2. CountersType'
            BY SMTT(30), <2>4, PathAssumption DEF IInv, CountersType, ChangeStatus, ChangeAnswers, Trouble
        <3> QED BY <2>1, <2>3, <3>1, <3>2 DEF IInv
    <2>5. CASE Tick
        BY <2>1, <2>3, <2>5 DEF IInv, Tick, CountersType, workerVars
    <2>6. CASE UNCHANGED vars
        BY <2>1, <2>3, <2>6 DEF IInv, vars, CountersType, workerVars
    <2> QED BY <2>2, <2>4, <2>5, <2>6 DEF Next
<1> QED BY <1>1, <1>2, PTL DEF Spec

-----------------------------------------------------------------------------
(* The properties that the run checks *)

(* A worker's load counter is at all times the number of its attempts      *)
(* under way and bodies being read: whatever the order in which requests   *)
(* are answered, retried, rejected and abandoned, WorkerLoadGuard is       *)
(* dropped once for each, and no request exceeds its attempts.             *)
THEOREM LoadMatchesGuardsAlways == Spec => []LoadMatchesGuards
<1>1. IInv => LoadMatchesGuards
    <2> SUFFICES ASSUME IInv PROVE LoadMatchesGuards OBVIOUS
    <2>1. \A w \in Workers :
             load[w] = Cardinality({r \in Requests :
                 request[r].worker = w /\ (request[r].at = "sent" \/ request[r].body)})
        BY DEF IInv, Counted, Guarded, Guards
    <2>2. ASSUME NEW w \in Workers PROVE load[w] \in 0 .. Cardinality(Requests)
        <3>1. Guarded(w) \in SUBSET Requests BY DEF Guarded
        <3>2. /\ Cardinality(Guarded(w)) \in Nat /\ Cardinality(Requests) \in Nat
              /\ Cardinality(Guarded(w)) <= Cardinality(Requests)
            <4> HIDE DEF Guarded
            <4> QED BY <3>1, PathAssumption, FS_Subset, FS_CardinalityType
        <3> QED BY SMTT(30), <3>2 DEF IInv, Counted
    <2>3. load \in [Workers -> 0 .. Cardinality(Requests)]
        BY <2>2 DEF IInv, CountersType
    <2>4. \A r \in Requests :
             /\ request[r].at \in {"idle", "select", "sent", "backoff", "reading"}
             /\ request[r].attempt = 0 \/ request[r].attempt < MaxRetries
             /\ request[r].answer \in AllAnswers \cup {None}
        BY DEF IInv, Placed, WellPlaced, RequestType, Positions
    <2>5. TypeOK BY <2>3, <2>4 DEF IInv, CountersType, BreakerType, TypeOK
    <2> QED BY <2>1, <2>5 DEF LoadMatchesGuards
<1> QED BY <1>1, Inductive, PTL

(* Every attempt on a worker that has no outcome yet is one that is under  *)
(* way or whose relay task still runs: record_outcome is called once for   *)
(* each attempt, by the handler or by the task, never by both.             *)
THEOREM OneOutcomeEachAlways == Spec => []OneOutcomeEach
<1>1. IInv => OneOutcomeEach BY DEF IInv, Counted, Owing, Owes, OneOutcomeEach
<1> QED BY <1>1, Inductive, PTL

=============================================================================
