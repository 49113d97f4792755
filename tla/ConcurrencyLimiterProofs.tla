---------------------- MODULE ConcurrencyLimiterProofs ----------------------
(***************************************************************************)
(* Admission for every number of requests, every capacity, queue size,     *)
(* timeout and refill rate: types, one answer per queued request, the      *)
(* conservation of tokens, and the refinement of AdmissionProtocol.        *)
(***************************************************************************)
EXTENDS ConcurrencyLimiter, FiniteSetTheorems, TLAPS

\* A leaf is first-order reasoning unless it names SMT, for arithmetic.
USE ZenonT(30)

-----------------------------------------------------------------------------
(* Arithmetic of the bucket *)

(* Rounding up a division by a positive rate stays within 0..a. *)
LEMMA CeilDivBound ==
    ASSUME NEW a \in Nat, NEW b \in Nat, a > 0, b > 0
    PROVE  CeilDiv(a, b) \in 0..a
<1>1. a + b - 1 \in Nat /\ a + b - 1 <= a * b
    <2>1. a * b = (a - 1) * (b - 1) + a + b - 1 BY SMTT(30)
    <2>2. (a - 1) * (b - 1) >= 0 BY SMTT(30)
    <2> QED BY SMTT(30), <2>1, <2>2
<1> DEFINE n == a + b - 1
           q == n \div b
<1>2. q \in Nat /\ q * b <= n BY SMTT(30), <1>1
<1>3. q <= a
    <2>1. SUFFICES ASSUME q >= a + 1 PROVE FALSE BY SMTT(30), <1>2
    <2>2. q * b >= (a + 1) * b BY SMTT(30), <1>2, <2>1
    <2>3. (a + 1) * b = a * b + b BY SMTT(30)
    <2> QED BY SMTT(30), <1>1, <1>2, <2>2, <2>3
<1> QED BY SMTT(30), <1>2, <1>3 DEF CeilDiv

(* Whole tokens in a bucket: adding a token's worth of units adds one.     *)
LEMMA DivAddUnit ==
    ASSUME NEW x \in Nat, NEW u \in Nat \ {0}
    PROVE  (x + u) \div u = (x \div u) + 1
BY SMTT(30)

LEMMA DivMonotone ==
    ASSUME NEW x \in Nat, NEW y \in Nat, NEW u \in Nat \ {0}, x <= y
    PROVE  x \div u <= y \div u
BY SMTT(30)

LEMMA DivNat ==
    ASSUME NEW x \in Nat, NEW u \in Nat \ {0}
    PROVE  x \div u \in Nat
BY SMTT(30)

LEMMA DivFull == Full \in Nat /\ Full >= Unit /\ Full \div Unit = Capacity
BY SMTT(30), LimiterAssumption DEF Full

(* Every access starts from a refill that keeps the bucket in its bounds.  *)
LEMMA RefilledType == TypeOK => Refilled \in 0..Full /\ Refilled >= tokens
<1> SUFFICES ASSUME TypeOK PROVE Refilled \in 0..Full /\ Refilled >= tokens OBVIOUS
<1>1. config.rate \in Nat BY LimiterAssumption DEF TypeOK
<1>2. elapsed \in Nat /\ tokens \in Nat /\ tokens <= Full BY SMTT(30), DivFull DEF TypeOK
<1>3. elapsed * config.rate \in Nat BY SMTT(30), <1>1, <1>2
<1> HIDE DEF Full
<1> QED BY SMTT(30), <1>2, <1>3, DivFull DEF Refilled, Min2

-----------------------------------------------------------------------------
(* The inductive invariant *)

Occurs(q, r) == \E i \in 1..Len(q) : q[i] = r

Distinct(q) == \A i, j \in 1..Len(q) : q[i] = q[j] => i = j

InQueue(r) == Occurs(queue, r)

(* A waiting task computes a wait time only when the bucket refills.       *)
Computing ==
    \A r \in Requests : waiter[r] = "compute" => config.rate > 0

(* A request owed an answer is in one place only: the channel, a waiting   *)
(* task, or its oneshot channel; and only a request that entered the queue *)
(* is in any of them.                                                      *)
OwedOnce(r) ==
    /\ InQueue(r) => waiter[r] = "none" /\ permit[r] = "none"
    /\ waiter[r] # "none" => permit[r] = "none"
    /\ InQueue(r) \/ waiter[r] # "none" => pc[r] \in {"queued", "gone"}
    /\ permit[r] # "none" => pc[r] = "queued"
    /\ pc[r] = "queued" => InQueue(r) \/ waiter[r] # "none" \/ permit[r] # "none"

Owed == Distinct(queue) /\ \A r \in Requests : OwedOnce(r)

(* A request whose token is lost will not be granted another one.          *)
LostForGood ==
    \A r \in lost : pc[r] = "gone" /\ ~InQueue(r) /\ waiter[r] = "none"

(* Without a bucket no request gets further than the pass-through.         *)
Unlimited ==
    ~config.limited => \A r \in Requests : pc[r] \in {"new", "done", "429"}

IInv == TypeOK /\ Computing /\ Owed /\ LostForGood /\ Unlimited

-----------------------------------------------------------------------------
(* The bucket and the timers stay within their bounds in every step.       *)
LEMMA TypeStep == TypeOK /\ Computing /\ [Next]_vars => TypeOK'
<1> SUFFICES ASSUME TypeOK, Computing, [Next]_vars PROVE TypeOK' OBVIOUS
<1> USE LimiterAssumption
<1>1. TakeToken \/ NoToken => tokens' \in 0..Full /\ elapsed' \in 0..Full
    BY SMTT(30), RefilledType, DivFull DEF TakeToken, NoToken
<1>2. ReturnToken => tokens' \in 0..Full /\ waiter' \in [Requests -> Waiter]
    BY SMTT(30), DivFull DEF ReturnToken, Min2, TypeOK, Waiter
<1>3. ASSUME NEW r \in Requests, NEW result \in {"ok", "timeout"}, Answer(r, result)
      PROVE  permit' \in [Requests -> {"none", "ok", "timeout"}] /\ lost' \subseteq Requests
    BY <1>3 DEF Answer, TypeOK
<1>4. ASSUME NEW r \in Requests, NEW from \in PC, NEW to \in PC, Moves(r, from, to)
      PROVE  pc' \in [Requests -> PC]
    BY <1>4 DEF Moves, TypeOK
<1>5. ASSUME NEW r \in Requests, NEW to \in Waiter, TaskMoves(r, to)
      PROVE  waiter' \in [Requests -> Waiter]
    BY <1>5 DEF TaskMoves, TypeOK
<1>6. {"new", "enqueue", "queued", "running", "streaming", "done", "429", "408", "gone"} \subseteq PC
    BY DEF PC
<1>11. ASSUME NEW r \in Requests, MeshReject(r) \/ PassThrough(r) \/ Respond(r) PROVE TypeOK'
    BY <1>11, <1>4, <1>6 DEF MeshReject, PassThrough, Respond, TypeOK
<1>12. ASSUME NEW r \in Requests, AcquireAtOnce(r) \/ FindNoToken(r) PROVE TypeOK'
    BY <1>12, <1>1, <1>4, <1>6 DEF AcquireAtOnce, FindNoToken, TypeOK
<1>13. ASSUME NEW r \in Requests, Enqueue(r) PROVE TypeOK'
    <2>1. pc' \in [Requests -> PC] BY <1>13, <1>4, <1>6 DEF Enqueue
    <2>2. queue' \in Seq(Requests) /\ Len(queue') <= config.queue
        <3>1. queue \in Seq(Requests) /\ Len(queue) \in Nat /\ Len(queue) <= config.queue
            BY SMTT(30) DEF TypeOK
        <3>2. config.queue \in Nat BY DEF TypeOK
        <3>3. queue' = queue \/ (Len(queue) < config.queue /\ queue' = Append(queue, r))
            BY <1>13 DEF Enqueue
        <3> QED BY SMTT(30), <3>1, <3>2, <3>3
    <2> QED BY <1>13, <2>1, <2>2 DEF Enqueue, TypeOK
<1>14. ASSUME NEW r \in Requests, ReceivePermit(r) PROVE TypeOK'
    BY <1>14, <1>4, <1>6 DEF ReceivePermit, TypeOK
<1>15. ASSUME NEW r \in Requests, DropBody(r) PROVE TypeOK'
    BY <1>15, <1>2, <1>4, <1>6 DEF DropBody, TypeOK
<1>16. ASSUME NEW r \in Requests, Disconnect(r) PROVE TypeOK'
    BY <1>16, <1>6 DEF Disconnect, TypeOK
<1>17. CASE Process
    <2> DEFINE h == Head(queue)
    <2>1. h \in Requests /\ queue' \in Seq(Requests) /\ Len(queue') <= config.queue
        BY SMTT(30), <1>17 DEF Process, TypeOK
    <2>2. tokens' \in 0..Full /\ elapsed' \in 0..Full BY <1>17, <1>1 DEF Process, TypeOK
    <2>3. permit' \in [Requests -> {"none", "ok", "timeout"}] /\ lost' \subseteq Requests
        BY <1>17, <2>1, <1>3 DEF Process, TypeOK
    <2>4. waiter' \in [Requests -> Waiter]
        BY <1>17, <2>1, <1>5 DEF Process, TypeOK, Waiter
    <2> QED BY <1>17, <2>1, <2>2, <2>3, <2>4 DEF Process, TypeOK
<1>18. ASSUME NEW r \in Requests, TryAcquire(r) PROVE TypeOK'
    <2>1. tokens' \in 0..Full /\ elapsed' \in 0..Full BY <1>18, <1>1 DEF TryAcquire, TypeOK
    <2>2. permit' \in [Requests -> {"none", "ok", "timeout"}] /\ lost' \subseteq Requests
        BY <1>18, <1>3 DEF TryAcquire, TypeOK
    <2>3. waiter' \in [Requests -> Waiter]
        BY <1>18, <1>5 DEF TryAcquire, TypeOK, Waiter
    <2> QED BY <1>18, <2>1, <2>2, <2>3 DEF TryAcquire, TypeOK
<1>19. ASSUME NEW r \in Requests, Park(r) \/ WakeUp(r) PROVE TypeOK'
    BY <1>19, <1>5 DEF Park, WakeUp, TypeOK, Waiter
<1>20. ASSUME NEW r \in Requests, ComputeWait(r) PROVE TypeOK'
    <2>1. waiter' \in [Requests -> Waiter] BY <1>20, <1>5 DEF ComputeWait, Waiter
    <2>2. config.rate \in Nat /\ config.rate > 0
        BY <1>20 DEF Computing, ComputeWait, TypeOK
    <2>3. tokens < Unit => CeilDiv(Unit - tokens, config.rate) \in 0..Unit
        <3>1. SUFFICES ASSUME tokens < Unit PROVE CeilDiv(Unit - tokens, config.rate) \in 0..Unit
            OBVIOUS
        <3>2. Unit - tokens \in Nat /\ Unit - tokens > 0 /\ Unit - tokens <= Unit
            BY SMTT(30), <3>1 DEF TypeOK
        <3>3. CeilDiv(Unit - tokens, config.rate) \in 0..(Unit - tokens)
            BY <2>2, <3>2, CeilDivBound
        <3> QED BY SMTT(30), <3>2, <3>3
    <2>4. wait' \in [Requests -> 0..Unit]
        BY SMTT(30), <1>20, <2>3 DEF ComputeWait, TypeOK
    <2> QED BY <1>20, <2>1, <2>4 DEF ComputeWait, TypeOK
<1>21. ASSUME NEW r \in Requests, TimeOut(r) PROVE TypeOK'
    BY <1>21, <1>3, <1>5 DEF TimeOut, TypeOK, Waiter
<1>22. CASE Tick
    <2>1. elapsed' \in 0..Full BY SMTT(30), <1>22, DivFull DEF Tick, TypeOK, Min2
    <2>2. left' \in [Requests -> 0..QueueTimeout] BY SMTT(30), <1>22 DEF Tick, TypeOK
    <2>3. wait' \in [Requests -> 0..Unit] BY SMTT(30), <1>22 DEF Tick, TypeOK
    <2> QED BY <1>22, <2>1, <2>2, <2>3 DEF Tick, TypeOK
<1>23. CASE UNCHANGED vars BY <1>23 DEF vars, TypeOK
<1> HIDE LimiterAssumption
<1> QED
    BY <1>11, <1>12, <1>13, <1>14, <1>15, <1>16, <1>17, <1>18, <1>19, <1>20, <1>21,
       <1>22, <1>23
    DEF Next, Middleware, WaitingTask

-----------------------------------------------------------------------------
(* What entering and leaving the channel does to the requests in it.       *)
LEMMA AppendOccurs ==
    ASSUME NEW q \in Seq(Requests), NEW e \in Requests
    PROVE  /\ \A r : Occurs(Append(q, e), r) <=> Occurs(q, r) \/ r = e
           /\ Distinct(q) /\ ~Occurs(q, e) => Distinct(Append(q, e))
<1> DEFINE a == Append(q, e)
           n == Len(q)
<1>1. n \in Nat /\ Len(a) = n + 1 /\ a[n + 1] = e /\ \A i \in 1..n : a[i] = q[i]
    BY SMTT(30)
<1>2. 1..(n + 1) = (1..n) \cup {n + 1} BY SMTT(30), <1>1
<1>3. \A r : Occurs(a, r) <=> Occurs(q, r) \/ r = e
    BY <1>1, <1>2 DEF Occurs
<1>4. Distinct(q) /\ ~Occurs(q, e) => Distinct(a)
    BY SMTT(30), <1>1, <1>2 DEF Occurs, Distinct
<1> QED BY <1>3, <1>4

LEMMA TailOccurs ==
    ASSUME NEW q \in Seq(Requests), q # << >>, Distinct(q)
    PROVE  /\ Head(q) \in Requests /\ Occurs(q, Head(q))
           /\ \A r : Occurs(Tail(q), r) <=> Occurs(q, r) /\ r # Head(q)
           /\ Distinct(Tail(q))
<1> DEFINE t == Tail(q)
           n == Len(q)
<1>1. /\ n \in Nat /\ n > 0 /\ Len(t) = n - 1 /\ Head(q) = q[1] /\ q[1] \in Requests
      /\ \A i \in 1..(n - 1) : t[i] = q[i + 1]
    BY SMTT(30)
<1>2. \A i \in 1..n : i = 1 \/ (i - 1 \in 1..(n - 1) /\ q[i] = t[i - 1])
    BY SMTT(30), <1>1
<1>3. \A r : Occurs(t, r) <=> Occurs(q, r) /\ r # Head(q)
    <2> TAKE r
    <2>1. ASSUME Occurs(t, r) PROVE Occurs(q, r) /\ r # Head(q)
        <3>1. PICK i \in 1..(n - 1) : t[i] = r BY <1>1, <2>1 DEF Occurs
        <3>2. i + 1 \in 1..n /\ q[i + 1] = r /\ i + 1 # 1 BY SMTT(30), <1>1, <3>1
        <3> QED BY SMTT(30), <1>1, <3>2 DEF Occurs, Distinct
    <2>2. ASSUME Occurs(q, r), r # Head(q) PROVE Occurs(t, r)
        BY <1>1, <1>2, <2>2 DEF Occurs
    <2> QED BY <2>1, <2>2
<1>4. Distinct(t)
    <2> SUFFICES ASSUME NEW i \in 1..(n - 1), NEW j \in 1..(n - 1), t[i] = t[j]
                 PROVE  i = j
        BY <1>1 DEF Distinct
    <2>1. i + 1 \in 1..n /\ j + 1 \in 1..n /\ q[i + 1] = q[j + 1] BY SMTT(30), <1>1
    <2> QED BY SMTT(30), <2>1 DEF Distinct
<1> QED BY SMTT(30), <1>1, <1>3, <1>4 DEF Occurs

(* A returned token wakes tasks; it neither ends one nor starts one.       *)
LEMMA WakesOnly ==
    ASSUME TypeOK, ReturnToken, NEW r \in Requests
    PROVE  /\ waiter'[r] = "none" <=> waiter[r] = "none"
           /\ waiter'[r] = "compute" <=> waiter[r] = "compute"
<1>1. waiter'[r] = CASE waiter[r] = "parked"   -> "woken"
                     [] waiter[r] = "sleeping" -> "loop"
                     [] OTHER                  -> waiter[r]
    BY DEF ReturnToken
<1>2. CASE waiter[r] = "parked" BY <1>1, <1>2
<1>3. CASE waiter[r] = "sleeping" BY <1>1, <1>3
<1>4. CASE waiter[r] # "parked" /\ waiter[r] # "sleeping" BY <1>1, <1>4
<1> QED BY <1>2, <1>3, <1>4

(* A task that found no token moves on, and computes only with a refill.   *)
LEMMA TryMoves ==
    ASSUME TypeOK, NEW r \in Requests, TryAcquire(r)
    PROVE  /\ \A q \in Requests \ {r} : waiter'[q] = waiter[q]
           /\ waiter'[r] # "compute" \/ config.rate # 0
           /\ \/ waiter'[r] = "none" /\ TakeToken /\ Answer(r, "ok")
              \/ waiter'[r] = "none" /\ NoToken /\ Answer(r, "timeout")
              \/ waiter'[r] # "none" /\ NoToken /\ UNCHANGED <<permit, lost>>
<1> DEFINE next == IF waiter[r] = "loop" THEN "sleeping"
                   ELSE IF config.rate = 0 THEN "park" ELSE "compute"
<1>1. next # "none" /\ (next = "compute" => config.rate # 0) OBVIOUS
<1>2. \E to \in {"none", next} : waiter' = [waiter EXCEPT ![r] = to]
    BY DEF TryAcquire, TaskMoves
<1>3. waiter \in [Requests -> Waiter] BY DEF TypeOK
<1>4. \A q \in Requests \ {r} : waiter'[q] = waiter[q]
    <2> HIDE DEF next
    <2> QED BY <1>2, <1>3
<1>5. \/ TaskMoves(r, "none") /\ TakeToken /\ Answer(r, "ok")
      \/ TaskMoves(r, "none") /\ NoToken /\ Answer(r, "timeout")
      \/ TaskMoves(r, next) /\ NoToken /\ UNCHANGED <<permit, lost>>
    BY DEF TryAcquire
<1> HIDE DEF next
<1> QED BY SMTT(30), <1>1, <1>2, <1>3, <1>4, <1>5 DEF TaskMoves

(* Only a task that found no token in a bucket with a refill computes.     *)
LEMMA ComputingStep == TypeOK /\ Computing /\ [Next]_vars => Computing'
<1> SUFFICES ASSUME TypeOK, Computing, [Next]_vars PROVE Computing' OBVIOUS
<1> USE DEF Computing
<1>0. config.rate \in Nat BY LimiterAssumption DEF TypeOK
<1>1. ASSUME NEW r \in Requests, Middleware(r) \/ Disconnect(r), ~DropBody(r) PROVE Computing'
    BY <1>1 DEF Middleware, Disconnect, MeshReject, PassThrough, AcquireAtOnce, FindNoToken,
        Enqueue, ReceivePermit, Respond
<1>2. ASSUME NEW r \in Requests, DropBody(r) PROVE Computing'
    BY <1>2, WakesOnly DEF DropBody
<1>3. ASSUME NEW r \in Requests, Park(r) \/ ComputeWait(r) \/ WakeUp(r) \/ TimeOut(r)
      PROVE  Computing'
    BY <1>3 DEF Park, ComputeWait, WakeUp, TimeOut, TaskMoves, TypeOK
<1>4. ASSUME NEW r \in Requests, TryAcquire(r) PROVE Computing'
    <2>1. config' = config BY <1>4 DEF TryAcquire
    <2> QED BY SMTT(30), <1>0, <1>4, <2>1, TryMoves
<1>5. CASE Process
    <2>1. \/ waiter' = waiter
          \/ waiter' = [waiter EXCEPT ![Head(queue)] = "spawned"]
        BY <1>5 DEF Process, TaskMoves
    <2> QED BY <1>5, <2>1 DEF Process, TypeOK
<1>6. CASE Tick \/ UNCHANGED vars BY <1>6 DEF Tick, vars
<1> QED BY <1>1, <1>2, <1>3, <1>4, <1>5, <1>6 DEF Next, WaitingTask, Middleware

(* Every step that moves what a request is owed moves it to one place.     *)
LEMMA OwedStep == TypeOK /\ Owed /\ [Next]_vars => Owed'
<1> SUFFICES ASSUME TypeOK, Owed, [Next]_vars PROVE Owed' OBVIOUS
<1>1. /\ Distinct(queue) /\ \A r \in Requests : OwedOnce(r)
      /\ queue \in Seq(Requests)
      /\ pc \in [Requests -> PC] /\ waiter \in [Requests -> Waiter]
      /\ permit \in [Requests -> {"none", "ok", "timeout"}]
    BY DEF Owed, TypeOK
<1>2. ASSUME UNCHANGED queue PROVE /\ Distinct(queue') /\ \A r : InQueue(r)' <=> InQueue(r)
    BY <1>1, <1>2 DEF InQueue
<1>11. ASSUME NEW r \in Requests,
              \/ MeshReject(r) \/ PassThrough(r) \/ AcquireAtOnce(r) \/ FindNoToken(r)
              \/ Respond(r)
       PROVE  Owed'
    BY SMTT(30), <1>11, <1>1, <1>2 DEF MeshReject, PassThrough, AcquireAtOnce, FindNoToken, Respond,
        Moves, Owed, OwedOnce
<1>12. ASSUME NEW r \in Requests, Enqueue(r) PROVE Owed'
    <2>1. pc[r] = "enqueue" /\ ~InQueue(r) /\ waiter[r] = "none" /\ permit[r] = "none"
        BY <1>1, <1>12 DEF Enqueue, Moves, OwedOnce
    <2>2. CASE Len(queue) < config.queue
        <3>1. queue' = Append(queue, r) /\ pc' = [pc EXCEPT ![r] = "queued"]
              /\ UNCHANGED <<permit, waiter>>
            BY <1>12, <2>2 DEF Enqueue, Moves
        <3>2. Distinct(queue') /\ \A q : InQueue(q)' <=> InQueue(q) \/ q = r
            BY <1>1, <2>1, <3>1, AppendOccurs DEF InQueue
        <3> QED BY <1>1, <2>1, <3>1, <3>2 DEF Owed, OwedOnce
    <2>3. CASE ~(Len(queue) < config.queue)
        BY <1>12, <1>1, <1>2, <2>1, <2>3 DEF Enqueue, Moves, Owed, OwedOnce
    <2> QED BY <2>2, <2>3
<1>13. ASSUME NEW r \in Requests, ReceivePermit(r) PROVE Owed'
    BY SMTT(30), <1>13, <1>1, <1>2 DEF ReceivePermit, Moves, Owed, OwedOnce
<1>14. ASSUME NEW r \in Requests, DropBody(r) PROVE Owed'
    <2>1. \A q \in Requests : waiter'[q] = "none" <=> waiter[q] = "none"
        BY <1>14, WakesOnly DEF DropBody
    <2> QED BY <1>14, <1>1, <1>2, <2>1 DEF DropBody, Moves, Owed, OwedOnce
<1>15. ASSUME NEW r \in Requests, Disconnect(r) PROVE Owed'
    BY <1>15, <1>1, <1>2 DEF Disconnect, Owed, OwedOnce
<1>16. CASE Process
    <2> DEFINE h == Head(queue)
    <2>1. queue # << >> /\ queue' = Tail(queue) /\ pc' = pc BY <1>16 DEF Process
    <2>2. /\ h \in Requests /\ InQueue(h) /\ Distinct(queue')
          /\ \A q : InQueue(q)' <=> InQueue(q) /\ q # h
        BY <1>1, <2>1, TailOccurs DEF InQueue
    <2>3. pc[h] \in {"queued", "gone"} /\ waiter[h] = "none" /\ permit[h] = "none"
        BY <1>1, <2>2 DEF OwedOnce
    <2>4. \/ waiter' = waiter /\ \E result \in {"ok", "timeout"} : Answer(h, result)
          \/ waiter' = [waiter EXCEPT ![h] = "spawned"] /\ permit' = permit
        BY <1>16 DEF Process, TaskMoves
    <2> QED BY SMTT(30), <1>1, <2>1, <2>2, <2>3, <2>4 DEF Answer, Owed, OwedOnce
<1>17. ASSUME NEW r \in Requests, TryAcquire(r) PROVE Owed'
    <2>1. UNCHANGED <<queue, pc>> /\ waiter[r] # "none" BY <1>17 DEF TryAcquire
    <2>2. pc[r] \in {"queued", "gone"} /\ ~InQueue(r) /\ permit[r] = "none"
        BY <1>1, <2>1 DEF OwedOnce
    <2>3. /\ \A q \in Requests \ {r} : waiter'[q] = waiter[q]
          /\ \/ waiter'[r] = "none" /\ \E result \in {"ok", "timeout"} : Answer(r, result)
             \/ waiter'[r] # "none" /\ permit' = permit
        BY <1>17, TryMoves
    <2> QED BY SMTT(30), <1>1, <1>2, <2>1, <2>2, <2>3 DEF Answer, Owed, OwedOnce
<1>18. ASSUME NEW r \in Requests, Park(r) \/ ComputeWait(r) \/ WakeUp(r) PROVE Owed'
    BY <1>18, <1>1, <1>2 DEF Park, ComputeWait, WakeUp, TaskMoves, Owed, OwedOnce
<1>19. ASSUME NEW r \in Requests, TimeOut(r) PROVE Owed'
    BY <1>19, <1>1, <1>2 DEF TimeOut, TaskMoves, Answer, Owed, OwedOnce
<1>20. CASE Tick \/ UNCHANGED vars
    BY <1>20, <1>1, <1>2 DEF Tick, vars, Owed, OwedOnce
<1> QED
    BY <1>11, <1>12, <1>13, <1>14, <1>15, <1>16, <1>17, <1>18, <1>19, <1>20
    DEF Next, Middleware, WaitingTask

(* A token is lost only for a request that is in no place any more, and    *)
(* nothing puts such a request back into one.                              *)
LEMMA LostStep == TypeOK /\ Owed /\ LostForGood /\ [Next]_vars => LostForGood'
<1> SUFFICES ASSUME TypeOK, Owed, LostForGood, [Next]_vars PROVE LostForGood' OBVIOUS
<1>1. /\ Distinct(queue) /\ \A r \in Requests : OwedOnce(r)
      /\ queue \in Seq(Requests) /\ lost \subseteq Requests
      /\ pc \in [Requests -> PC] /\ waiter \in [Requests -> Waiter]
    BY DEF Owed, TypeOK
<1>2. ASSUME UNCHANGED queue PROVE \A r : InQueue(r)' <=> InQueue(r)
    BY <1>2 DEF InQueue
<1>11. ASSUME NEW r \in Requests,
              \/ MeshReject(r) \/ PassThrough(r) \/ AcquireAtOnce(r) \/ FindNoToken(r)
              \/ ReceivePermit(r) \/ Respond(r)
       PROVE  LostForGood'
    BY <1>11, <1>1, <1>2 DEF MeshReject, PassThrough, AcquireAtOnce, FindNoToken,
        ReceivePermit, Respond, Moves, LostForGood
<1>12. ASSUME NEW r \in Requests, Enqueue(r) PROVE LostForGood'
    <2>1. /\ pc[r] = "enqueue" /\ UNCHANGED <<lost, waiter>>
          /\ \A q \in Requests \ {r} : pc'[q] = pc[q]
          /\ queue' = queue \/ queue' = Append(queue, r)
        BY <1>12, <1>1 DEF Enqueue, Moves
    <2>2. \A q : InQueue(q)' => InQueue(q) \/ q = r
        BY <1>1, <2>1, AppendOccurs DEF InQueue
    <2> QED BY <1>1, <2>1, <2>2 DEF LostForGood
<1>13. ASSUME NEW r \in Requests, DropBody(r) PROVE LostForGood'
    <2>1. \A q \in Requests : waiter'[q] = "none" <=> waiter[q] = "none"
        BY <1>13, WakesOnly DEF DropBody
    <2> QED BY <1>13, <1>1, <1>2, <2>1 DEF DropBody, Moves, LostForGood
<1>14. ASSUME NEW r \in Requests, Disconnect(r) PROVE LostForGood'
    BY <1>14, <1>1, <1>2 DEF Disconnect, OwedOnce, LostForGood
<1>15. CASE Process
    <2> DEFINE h == Head(queue)
    <2>1. queue # << >> /\ queue' = Tail(queue) /\ pc' = pc BY <1>15 DEF Process
    <2>2. h \in Requests /\ InQueue(h) /\ \A q : InQueue(q)' <=> InQueue(q) /\ q # h
        BY <1>1, <2>1, TailOccurs DEF InQueue
    <2>3. pc[h] \in {"queued", "gone"} /\ waiter[h] = "none" /\ h \notin lost
        BY <1>1, <2>2 DEF OwedOnce, LostForGood
    <2>4. \/ waiter' = waiter /\ \E result \in {"ok", "timeout"} : Answer(h, result)
          \/ waiter' = [waiter EXCEPT ![h] = "spawned"] /\ lost' = lost
        BY <1>15 DEF Process, TaskMoves
    <2> QED BY <1>1, <2>1, <2>2, <2>3, <2>4 DEF Answer, LostForGood
<1>16. ASSUME NEW r \in Requests, TryAcquire(r) PROVE LostForGood'
    <2>1. UNCHANGED <<queue, pc>> /\ waiter[r] # "none" BY <1>16 DEF TryAcquire
    <2>2. pc[r] \in {"queued", "gone"} /\ ~InQueue(r) /\ r \notin lost
        BY <1>1, <2>1 DEF OwedOnce, LostForGood
    <2>3. /\ \A q \in Requests \ {r} : waiter'[q] = waiter[q]
          /\ \/ waiter'[r] = "none" /\ \E result \in {"ok", "timeout"} : Answer(r, result)
             \/ lost' = lost
        BY <1>16, TryMoves
    <2> QED BY <1>1, <1>2, <2>1, <2>2, <2>3 DEF Answer, LostForGood
<1>17. ASSUME NEW r \in Requests, Park(r) \/ ComputeWait(r) \/ WakeUp(r) PROVE LostForGood'
    BY <1>17, <1>1, <1>2 DEF Park, ComputeWait, WakeUp, TaskMoves, LostForGood
<1>18. ASSUME NEW r \in Requests, TimeOut(r) PROVE LostForGood'
    BY <1>18, <1>1, <1>2 DEF TimeOut, TaskMoves, Answer, LostForGood
<1>19. CASE Tick \/ UNCHANGED vars
    BY <1>19, <1>2 DEF Tick, vars, LostForGood
<1> QED
    BY <1>11, <1>12, <1>13, <1>14, <1>15, <1>16, <1>17, <1>18, <1>19
    DEF Next, Middleware, WaitingTask

(* Without a bucket no step but the refusal by the mesh and the            *)
(* pass-through finds a request to move.                                   *)
LEMMA UnlimitedStep == TypeOK /\ Unlimited /\ [Next]_vars => Unlimited'
<1> SUFFICES ASSUME TypeOK, Unlimited, [Next]_vars, ~config.limited PROVE Unlimited'
    BY DEF Next, Middleware, WaitingTask, Disconnect, MeshReject, PassThrough, AcquireAtOnce,
        FindNoToken, Enqueue, ReceivePermit, Respond, DropBody, Process, TryAcquire, Park,
        ComputeWait, WakeUp, TimeOut, Tick, vars, Unlimited
<1> USE DEF Unlimited, TypeOK
<1>1. ASSUME NEW r \in Requests, Middleware(r) \/ Disconnect(r) PROVE Unlimited'
    BY <1>1 DEF Middleware, Disconnect, MeshReject, PassThrough, AcquireAtOnce, FindNoToken,
        Enqueue, ReceivePermit, Respond, DropBody, Moves
<1>2. ASSUME NEW r \in Requests, WaitingTask(r) PROVE Unlimited'
    BY <1>2 DEF WaitingTask, TryAcquire, Park, ComputeWait, WakeUp, TimeOut
<1>3. CASE Process \/ Tick \/ UNCHANGED vars BY <1>3 DEF Process, Tick, vars
<1> QED BY <1>1, <1>2, <1>3 DEF Next

(* Types, the single place of each answer and the finality of a lost token *)
(* hold together in every behaviour of the limiter.                        *)
THEOREM Inductive == Spec => []IInv
<1>1. Init => IInv
    <2> SUFFICES ASSUME Init PROVE IInv OBVIOUS
    <2>1. TypeOK
        BY SMTT(30), LimiterAssumption, DivFull DEF Init, TypeOK, PC, Waiter
    <2>2. Len(queue) = 0 BY DEF Init
    <2>3. Computing /\ Owed /\ LostForGood /\ Unlimited
        BY SMTT(30), <2>2 DEF Init, Computing, Owed, OwedOnce, InQueue, Occurs, Distinct, LostForGood,
            Unlimited
    <2> QED BY <2>1, <2>3 DEF IInv
<1>2. IInv /\ [Next]_vars => IInv'
    BY TypeStep, ComputingStep, OwedStep, LostStep, UnlimitedStep DEF IInv
<1> QED BY <1>1, <1>2, PTL DEF Spec

(* A queued request is owed exactly one answer: it is once in the channel, *)
(* or a waiting task owns it, or its permit is sent; so no interleaving of *)
(* the processor, the tasks and the timeouts grants it twice or forgets it. *)
THEOREM OneAnswerEachAlways == Spec => []OneAnswerEach
<1>1. IInv => OneAnswerEach
    <2> SUFFICES ASSUME IInv, NEW r \in Requests
                 PROVE  LET places == Cardinality({i \in DOMAIN queue : queue[i] = r})
                                      + (IF waiter[r] # "none" THEN 1 ELSE 0)
                                      + (IF permit[r] # "none" THEN 1 ELSE 0)
                        IN  IF pc[r] = "queued" THEN places = 1
                            ELSE places <= (IF pc[r] = "gone" THEN 1 ELSE 0)
        BY DEF OneAnswerEach
    <2> DEFINE at == {i \in DOMAIN queue : queue[i] = r}
    <2>1. DOMAIN queue = 1..Len(queue) /\ Distinct(queue) /\ OwedOnce(r)
        BY SMTT(30) DEF IInv, Owed, TypeOK
    <2>2. Cardinality(at) = IF InQueue(r) THEN 1 ELSE 0
        <3>1. CASE InQueue(r)
            <4>1. PICK i \in 1..Len(queue) : queue[i] = r BY <3>1 DEF InQueue, Occurs
            <4>2. at = {i} BY <2>1, <4>1 DEF Distinct
            <4> QED BY <3>1, <4>2, FS_Singleton
        <3>2. CASE ~InQueue(r)
            <4>1. at = {} BY <2>1, <3>2 DEF InQueue, Occurs
            <4> QED BY <3>2, <4>1, FS_EmptySet
        <3> QED BY <3>1, <3>2
    <2> QED BY SMTT(30), <2>1, <2>2 DEF OwedOnce
<1> QED BY <1>1, Inductive, PTL

-----------------------------------------------------------------------------
(* Conservation of tokens *)

Held == Holders \cup lost

Conserved ==
    config.limited /\ config.rate = 0 => tokens + Unit * Cardinality(Held) = Full

(* Taking a token for one more holder, and returning that of a holder,     *)
(* keep the sum of the units in the bucket and the units held.             *)
LEMMA HeldCount ==
    ASSUME NEW S \in SUBSET Requests, NEW r \in Requests
    PROVE  /\ IsFiniteSet(S) /\ Cardinality(S) \in Nat
           /\ r \notin S => Unit * Cardinality(S \cup {r}) = Unit * Cardinality(S) + Unit
           /\ r \in S => /\ Unit * Cardinality(S \ {r}) = Unit * Cardinality(S) - Unit
                         /\ Unit * Cardinality(S) >= Unit
<1> USE LimiterAssumption
<1>1. IsFiniteSet(S) /\ Cardinality(S) \in Nat BY FS_Subset, FS_CardinalityType
<1>2. r \notin S => Cardinality(S \cup {r}) = Cardinality(S) + 1 BY <1>1, FS_AddElement
<1>3. r \in S => /\ Cardinality(S \ {r}) = Cardinality(S) - 1
                 /\ Cardinality(S \ {r}) \in Nat
    BY <1>1, FS_RemoveElement, FS_CardinalityType
<1>4. \A c \in Nat : Unit * (c + 1) = Unit * c + Unit BY SMTT(30)
<1>5. \A c \in Nat : Unit * c >= 0 BY SMTT(30)
<1>6. r \in S => /\ Unit * Cardinality(S) = Unit * Cardinality(S \ {r}) + Unit
                 /\ Unit * Cardinality(S \ {r}) >= 0
                 /\ Unit * Cardinality(S \ {r}) \in Int
    BY SMTT(30), <1>1, <1>3, <1>4, <1>5
<1> QED BY SMTT(30), <1>1, <1>2, <1>4, <1>6

(* No path of the middleware, the processor, the waiting tasks, the        *)
(* timeouts or a disconnecting client makes or loses a token unnoticed.    *)
LEMMA ConservedStep == IInv /\ Conserved /\ [Next]_vars => Conserved'
<1> SUFFICES ASSUME IInv, Conserved, [Next]_vars,
                    config'.limited, config'.rate = 0
             PROVE  (tokens + Unit * Cardinality(Held) = Full)'
    BY DEF Conserved
<1>1. config' = config
    BY DEF Next, Middleware, WaitingTask, Disconnect, MeshReject, PassThrough, AcquireAtOnce,
        FindNoToken, Enqueue, ReceivePermit, Respond, DropBody, Process, TryAcquire, Park,
        ComputeWait, WakeUp, TimeOut, Tick, vars
<1>2. /\ config.limited /\ config.rate = 0
      /\ tokens + Unit * Cardinality(Held) = Full
    BY <1>1 DEF Conserved
<1>3. /\ pc \in [Requests -> PC] /\ waiter \in [Requests -> Waiter]
      /\ permit \in [Requests -> {"none", "ok", "timeout"}]
      /\ lost \subseteq Requests /\ Held \subseteq Requests
      /\ tokens \in Nat /\ tokens <= Full /\ elapsed \in Nat /\ Unit \in Nat /\ Full \in Nat
    BY SMTT(30), LimiterAssumption, DivFull DEF IInv, TypeOK, Held, Holders
<1>4. Cardinality(Held) \in Nat /\ Unit * Cardinality(Held) \in Nat
    BY SMTT(30), <1>3, LimiterAssumption, FS_Subset, FS_CardinalityType
<1>5. Refilled = tokens
    <2>1. elapsed * config.rate = 0 BY SMTT(30), <1>2, <1>3
    <2> QED BY SMTT(30), <1>3, <2>1 DEF Refilled, Min2
<1>6. ASSUME UNCHANGED tokens \/ NoToken, Held' = Held
      PROVE  (tokens + Unit * Cardinality(Held) = Full)'
    BY <1>2, <1>5, <1>6 DEF NoToken, Full
<1>7. ASSUME TakeToken, NEW r \in Requests, r \notin Held, Held' = Held \cup {r}
      PROVE  (tokens + Unit * Cardinality(Held) = Full)'
    <2>1. tokens' = tokens - Unit BY <1>5, <1>7 DEF TakeToken
    <2>2. Unit * Cardinality(Held') = Unit * Cardinality(Held) + Unit
        BY <1>3, <1>7, HeldCount
    <2> QED BY SMTT(30), <1>2, <1>3, <1>4, <2>1, <2>2 DEF Full
<1>8. ASSUME ReturnToken, NEW r \in Requests, r \in Held, Held' = Held \ {r}
      PROVE  (tokens + Unit * Cardinality(Held) = Full)'
    <2>1. /\ Unit * Cardinality(Held') = Unit * Cardinality(Held) - Unit
          /\ Unit * Cardinality(Held) >= Unit
        BY <1>3, <1>8, HeldCount
    <2>2. tokens' = tokens + Unit
        BY SMTT(30), <1>2, <1>3, <1>4, <1>8, <2>1 DEF ReturnToken, Min2
    <2> QED BY SMTT(30), <1>2, <1>3, <1>4, <2>1, <2>2 DEF Full
<1>9. ASSUME NEW r \in Requests, pc[r] \in {"queued", "gone"}, pc' = pc, permit[r] = "none",
             r \notin lost, Answer(r, "ok")
      PROVE  r \notin Held /\ Held' = Held \cup {r}
    BY <1>3, <1>9 DEF Held, Holders, Answer
<1>10. ASSUME NEW r \in Requests, pc[r] \in {"queued", "gone"}, pc' = pc, permit[r] = "none",
              Answer(r, "timeout")
       PROVE  Held' = Held
    BY <1>3, <1>10 DEF Held, Holders, Answer
<1>11. \A r \in Requests : OwedOnce(r) BY DEF IInv, Owed
<1>21. ASSUME NEW r \in Requests, \/ MeshReject(r) \/ PassThrough(r) \/ FindNoToken(r)
                                  \/ Enqueue(r) \/ Respond(r)
       PROVE  (tokens + Unit * Cardinality(Held) = Full)'
    <2>1. Held' = Held
        BY <1>3, <1>21 DEF MeshReject, PassThrough, FindNoToken, Enqueue, Respond, Moves,
            Held, Holders
    <2> QED BY <1>6, <1>21, <2>1 DEF MeshReject, PassThrough, FindNoToken, Enqueue, Respond
<1>22. ASSUME NEW r \in Requests, AcquireAtOnce(r)
       PROVE  (tokens + Unit * Cardinality(Held) = Full)'
    <2>1. r \notin Held
        BY <1>11, <1>22 DEF AcquireAtOnce, Moves, Held, Holders, OwedOnce, IInv, LostForGood
    <2>2. Held' = Held \cup {r} BY <1>3, <1>22 DEF AcquireAtOnce, Moves, Held, Holders
    <2> QED BY <1>7, <1>22, <2>1, <2>2 DEF AcquireAtOnce
<1>23. ASSUME NEW r \in Requests, ReceivePermit(r)
       PROVE  (tokens + Unit * Cardinality(Held) = Full)'
    <2>1. Held' = Held BY <1>3, <1>23 DEF ReceivePermit, Moves, Held, Holders
    <2> QED BY <1>6, <1>23, <2>1 DEF ReceivePermit
<1>24. ASSUME NEW r \in Requests, DropBody(r)
       PROVE  (tokens + Unit * Cardinality(Held) = Full)'
    <2>1. r \in Held /\ r \notin lost /\ permit[r] = "none"
        BY <1>11, <1>24 DEF DropBody, Moves, Held, Holders, OwedOnce, IInv, LostForGood
    <2>2. Held' = Held \ {r} BY <1>3, <1>24, <2>1 DEF DropBody, Moves, Held, Holders
    <2> QED BY <1>8, <1>24, <2>1, <2>2 DEF DropBody
<1>25. ASSUME NEW r \in Requests, Disconnect(r)
       PROVE  (tokens + Unit * Cardinality(Held) = Full)'
    <2>1. Held' = Held
        BY <1>3, <1>11, <1>25 DEF Disconnect, Held, Holders, OwedOnce
    <2> QED BY <1>6, <1>25, <2>1 DEF Disconnect
<1>26. CASE Process
    <2> DEFINE h == Head(queue)
    <2>1. queue # << >> /\ queue' = Tail(queue) /\ pc' = pc BY <1>26 DEF Process
    <2>2. h \in Requests /\ InQueue(h)
        BY <2>1, TailOccurs DEF InQueue, IInv, Owed, TypeOK
    <2>3. pc[h] \in {"queued", "gone"} /\ permit[h] = "none" /\ h \notin lost
        BY <1>11, <2>2 DEF OwedOnce, LostForGood, IInv
    <2>4. \/ UNCHANGED tokens /\ Answer(h, "timeout")
          \/ TakeToken /\ Answer(h, "ok")
          \/ NoToken /\ UNCHANGED <<permit, lost>>
        BY <1>26 DEF Process
    <2>5. UNCHANGED <<permit, lost>> => Held' = Held BY <2>1 DEF Held, Holders
    <2> QED BY <1>6, <1>7, <1>9, <1>10, <2>1, <2>2, <2>3, <2>4, <2>5
<1>27. ASSUME NEW r \in Requests, TryAcquire(r)
       PROVE  (tokens + Unit * Cardinality(Held) = Full)'
    <2>1. UNCHANGED <<queue, pc>> /\ waiter[r] # "none" BY <1>27 DEF TryAcquire
    <2>2. pc[r] \in {"queued", "gone"} /\ permit[r] = "none" /\ r \notin lost
        BY <1>11, <2>1 DEF OwedOnce, LostForGood, IInv
    <2>3. \/ TakeToken /\ Answer(r, "ok")
          \/ NoToken /\ Answer(r, "timeout")
          \/ NoToken /\ UNCHANGED <<permit, lost>>
        BY <1>27, TryMoves DEF IInv
    <2>4. UNCHANGED <<permit, lost>> => Held' = Held BY <2>1 DEF Held, Holders
    <2> QED BY <1>6, <1>7, <1>9, <1>10, <2>1, <2>2, <2>3, <2>4
<1>28. ASSUME NEW r \in Requests, Park(r) \/ ComputeWait(r) \/ WakeUp(r)
       PROVE  (tokens + Unit * Cardinality(Held) = Full)'
    BY <1>6, <1>28 DEF Park, ComputeWait, WakeUp, Held, Holders
<1>29. ASSUME NEW r \in Requests, TimeOut(r)
       PROVE  (tokens + Unit * Cardinality(Held) = Full)'
    <2>1. UNCHANGED <<queue, pc, tokens>> /\ waiter[r] # "none" /\ Answer(r, "timeout")
        BY <1>29 DEF TimeOut
    <2>2. pc[r] \in {"queued", "gone"} /\ permit[r] = "none" BY <1>11, <2>1 DEF OwedOnce
    <2> QED BY <1>6, <1>10, <2>1, <2>2
<1>30. CASE Tick \/ UNCHANGED vars
    BY <1>6, <1>30 DEF Tick, vars, Held, Holders
<1> QED
    BY <1>21, <1>22, <1>23, <1>24, <1>25, <1>26, <1>27, <1>28, <1>29, <1>30
    DEF Next, Middleware, WaitingTask

(* At refill rate 0 every token is in the bucket, held by one admitted     *)
(* request, or lost with a client that left before its guarded body        *)
(* existed, whatever the interleaving of the middleware, the queue         *)
(* processor and the waiting tasks; at any rate the bucket stays within    *)
(* its capacity.                                                           *)
THEOREM TokensConservedAlways == Spec => []TokensConserved
<1>1. Init => Conserved
    <2> SUFFICES ASSUME Init PROVE tokens + Unit * Cardinality(Held) = Full
        BY DEF Conserved
    <2>1. Held = {} BY DEF Init, Held, Holders
    <2>2. tokens = Full BY DEF Init
    <2> QED BY SMTT(30), <2>1, <2>2, FS_EmptySet, DivFull, LimiterAssumption
<1>2. IInv /\ Conserved => TokensConserved BY DEF IInv, Conserved, TokensConserved, Held
<1>3. IInv /\ IInv' /\ Conserved /\ [Next]_vars => Conserved' BY ConservedStep
<1> QED BY <1>1, <1>2, <1>3, Inductive, PTL DEF Spec

-----------------------------------------------------------------------------
(* Refinement: the slots of AdmissionProtocol *)

Free == Refilled \div Unit

(* What the bucket's state is worth to the next access, after each kind    *)
(* of access to it and after a tick.                                       *)
LEMMA FreeType == TypeOK => Free \in 0..Capacity
<1> SUFFICES ASSUME TypeOK PROVE Free \in 0..Capacity OBVIOUS
<1> USE LimiterAssumption
<1>1. Refilled \in Nat /\ Refilled <= Full BY SMTT(30), RefilledType, DivFull
<1>2. Refilled \div Unit <= Full \div Unit BY <1>1, DivFull, DivMonotone
<1>3. Refilled \div Unit \in Nat BY SMTT(30), <1>1
<1> QED BY SMTT(30), <1>2, <1>3, DivFull DEF Free

LEMMA FreeAccess ==
    ASSUME TypeOK, UNCHANGED config
    PROVE  /\ NoToken => Free' = Free
           /\ TakeToken => Free > 0 /\ Free' = Free - 1
<1> USE LimiterAssumption
<1>1. Refilled \in Nat /\ Refilled <= Full /\ config.rate \in Nat
    BY SMTT(30), RefilledType, DivFull DEF TypeOK
<1>2. ASSUME NEW x \in Nat, x <= Full, tokens' = x, elapsed' = 0 PROVE Refilled' = x
    <2>1. elapsed' * config'.rate = 0 BY SMTT(30), <1>1, <1>2
    <2> QED BY SMTT(30), <1>2, <2>1, DivFull DEF Refilled, Min2, Full
<1>3. NoToken => Refilled' = Refilled BY <1>1, <1>2 DEF NoToken
<1>4. ASSUME TakeToken PROVE Free > 0 /\ Free' = Free - 1
    <2> DEFINE x == Refilled - Unit
    <2>0. x \in Nat /\ x <= Full /\ tokens' = x /\ elapsed' = 0
        BY SMTT(30), <1>1, <1>4, DivFull DEF TakeToken
    <2>1. x \in Nat /\ Refilled' = x
        <3> HIDE DEF x
        <3> QED BY <1>2, <2>0
    <2>2. (x + Unit) \div Unit = (x \div Unit) + 1 BY <2>1, DivAddUnit
    <2>3. x + Unit = Refilled /\ x \div Unit \in Nat BY SMTT(30), <1>1, <2>1
    <2> QED BY SMTT(30), <2>1, <2>2, <2>3 DEF Free
<1> QED BY <1>3, <1>4 DEF Free

LEMMA FreeReturn ==
    ASSUME TypeOK, UNCHANGED <<config, elapsed>>, ReturnToken
    PROVE  Free' = IF Free < Capacity THEN Free + 1 ELSE Capacity
<1> USE LimiterAssumption
<1> DEFINE e == elapsed * config.rate
           x == Refilled
<1>1. /\ e \in Nat /\ tokens \in Nat /\ tokens <= Full /\ Full \in Nat /\ Unit \in Nat
      /\ x \in Nat /\ x <= Full
    BY SMTT(30), RefilledType, DivFull DEF TypeOK
<1>2. x = Min2(tokens + e, Full) /\ x' = Min2(tokens' + e, Full) BY DEF Refilled, Full
<1>3. tokens' = Min2(tokens + Unit, Full) BY DEF ReturnToken
<1>4. x' = Min2(x + Unit, Full)
    <2> HIDE DEF e, x
    <2> QED BY SMTT(30), <1>1, <1>2, <1>3 DEF Min2
<1>5. (x + Unit) \div Unit = (x \div Unit) + 1 BY <1>1, DivAddUnit
<1>6. CASE x + Unit <= Full
    <2>1. x' = x + Unit BY SMTT(30), <1>1, <1>4, <1>6 DEF Min2
    <2>2. (x + Unit) \div Unit <= Full \div Unit BY SMTT(30), <1>1, <1>6, DivMonotone
    <2>3. Free' = Free + 1 /\ Free + 1 <= Capacity /\ Free \in Nat
        BY SMTT(30), <2>1, <2>2, <1>1, <1>5, DivFull DEF Free
    <2> QED BY SMTT(30), <2>3
<1>7. CASE x + Unit > Full
    <2>1. x' = Full BY SMTT(30), <1>1, <1>4, <1>7 DEF Min2
    <2>2. Full \div Unit <= (x + Unit) \div Unit BY SMTT(30), <1>1, <1>7, DivMonotone
    <2>3. Free' = Capacity /\ Capacity <= Free + 1 /\ Free \in 0..Capacity
        BY <2>1, <2>2, <1>1, <1>5, DivFull, FreeType DEF Free
    <2> QED BY SMTT(30), <2>3
<1> QED BY SMTT(30), <1>1, <1>6, <1>7

LEMMA FreeTick ==
    ASSUME TypeOK, TypeOK', Tick
    PROVE  /\ config.rate = 0 => Free' = Free
           /\ Free' \in Free..Capacity
<1> USE LimiterAssumption
<1> DEFINE r == config.rate
<1>1. /\ r \in Nat /\ elapsed \in Nat /\ elapsed' \in Nat /\ elapsed <= Full
      /\ tokens \in Nat /\ Full \in Nat /\ tokens' = tokens /\ config' = config
    BY SMTT(30), DivFull DEF TypeOK, Tick
<1>2. r # 0 => elapsed <= elapsed' BY SMTT(30), <1>1 DEF Tick, Min2
<1>3. elapsed * r <= elapsed' * r /\ (r = 0 => elapsed * r = 0 /\ elapsed' * r = 0)
    BY SMTT(30), <1>1, <1>2
<1>4. elapsed * r \in Nat /\ elapsed' * r \in Nat BY SMTT(30), <1>1
<1>5. Refilled = Min2(tokens + elapsed * r, Full) /\ Refilled' = Min2(tokens + elapsed' * r, Full)
    BY <1>1 DEF Refilled, Full
<1>6. Refilled <= Refilled' /\ (r = 0 => Refilled' = Refilled)
    BY SMTT(30), <1>1, <1>3, <1>4, <1>5 DEF Min2
<1>7. Refilled \in Nat /\ Refilled' \in Nat /\ Refilled' <= Full
    BY SMTT(30), <1>1, <1>4, <1>5 DEF Min2
<1>8. Free \in Nat /\ Free' \in Nat BY <1>7, DivNat DEF Free
<1>9. Free <= Free'
    <2>1. Refilled \div Unit <= Refilled' \div Unit BY <1>6, <1>7, DivMonotone
    <2> QED BY <2>1 DEF Free
<1>10. Free' <= Capacity
    <2>1. Refilled' \div Unit <= Full \div Unit BY <1>1, <1>7, DivMonotone
    <2> QED BY <2>1, DivFull DEF Free
<1> QED BY SMTT(30), <1>6, <1>8, <1>9, <1>10, LimiterAssumption DEF Free

-----------------------------------------------------------------------------
(* Refinement: the clients of AdmissionProtocol *)

(* How AdmissionProtocol sees a client, by where its request is.           *)
LEMMA ClientView ==
    ASSUME NEW where \in PC, NEW sent \in {"none", "ok", "timeout"},
           sent # "none" => where = "queued"
    PROVE  /\ where = "new" => ClientAt(where, sent) = "new"
           /\ sent = "ok" => ClientAt(where, sent) = "holding"
           /\ sent = "timeout" => ClientAt(where, sent) = "refused"
           /\ sent = "none" /\ where \in {"enqueue", "queued"} =>
                  ClientAt(where, sent) = "waiting"
           /\ where \in {"running", "streaming"} => ClientAt(where, sent) = "holding"
           /\ where \in {"429", "408"} => ClientAt(where, sent) = "refused"
           /\ where = "done" => ClientAt(where, sent) = "served"
           /\ where = "gone" => ClientAt(where, sent) = "left"
<1>1. CASE sent = "ok" BY <1>1 DEF ClientAt
<1>2. CASE sent = "timeout" BY <1>2 DEF ClientAt
<1>3. CASE sent = "none"
    <2>1. CASE where = "new" BY <1>3, <2>1 DEF ClientAt
    <2>2. CASE where \in {"enqueue", "queued"} BY <1>3, <2>2 DEF ClientAt
    <2>3. CASE where \in {"running", "streaming"} BY <1>3, <2>3 DEF ClientAt
    <2>4. CASE where \in {"429", "408"} BY <1>3, <2>4 DEF ClientAt
    <2>5. CASE where = "done" BY <1>3, <2>5 DEF ClientAt
    <2>6. CASE where = "gone" BY <1>3, <2>6 DEF ClientAt
    <2> QED BY <2>1, <2>2, <2>3, <2>4, <2>5, <2>6 DEF PC
<1> QED BY <1>1, <1>2, <1>3

Client == [r \in Requests |-> ClientAt(pc[r], permit[r])]

(* A step that touches one request turns one client.                       *)
LEMMA OneClientTurns ==
    ASSUME NEW r \in Requests,
           \A q \in Requests \ {r} : pc'[q] = pc[q] /\ permit'[q] = permit[q]
    PROVE  Client' = [Client EXCEPT ![r] = ClientAt(pc'[r], permit'[r])]
BY DEF Client

(* Each step of the limiter is a step of the semaphore or changes nothing  *)
(* that its clients see.                                                   *)
LEMMA Simulation == IInv /\ IInv' /\ [Next]_vars => [Protocol!Next]_(Protocol!vars)
<1> SUFFICES ASSUME IInv, IInv', [Next]_vars PROVE Protocol!Next \/ UNCHANGED Protocol!vars
    OBVIOUS
<1>1. config' = config
    BY DEF Next, Middleware, WaitingTask, Disconnect, MeshReject, PassThrough, AcquireAtOnce,
        FindNoToken, Enqueue, ReceivePermit, Respond, DropBody, Process, TryAcquire, Park,
        ComputeWait, WakeUp, TimeOut, Tick, vars
<1>2. /\ TypeOK /\ TypeOK' /\ \A r \in Requests : OwedOnce(r) /\ OwedOnce(r)'
      /\ pc \in [Requests -> PC] /\ pc' \in [Requests -> PC]
      /\ permit \in [Requests -> {"none", "ok", "timeout"}]
      /\ permit' \in [Requests -> {"none", "ok", "timeout"}]
      /\ waiter \in [Requests -> Waiter]
    BY DEF IInv, Owed, TypeOK
<1>3. \A r \in Requests : /\ permit[r] # "none" => pc[r] = "queued"
                          /\ permit'[r] # "none" => pc'[r] = "queued"
    BY <1>2 DEF OwedOnce
<1> DEFINE View(r) == ClientAt(pc[r], permit[r])
<1>4. \A r \in Requests : Client[r] = View(r) BY DEF Client
<1>5. UNCHANGED <<config, tokens, elapsed>> => Free' = Free BY DEF Free, Refilled, Full
<1>6. UNCHANGED <<pc, permit>> => Client' = Client BY DEF Client
<1>7. Free' = Free /\ Client' = Client => UNCHANGED Protocol!vars
    BY <1>1 DEF Protocol!vars, Free, Client
<1>8. ASSUME NEW r \in Requests, Client[r] \in {"new", "waiting"}, Free' = Free,
             Client' = [Client EXCEPT ![r] = "refused"]
      PROVE  Protocol!Next
    <2>1. Protocol!Refuse(r) BY <1>8 DEF Protocol!Refuse, Protocol!Turns, Free, Client
    <2> QED BY <1>1, <2>1 DEF Protocol!Next
<1>9. ASSUME NEW r \in Requests, Client[r] \in {"new", "waiting"}, config.limited, TakeToken,
             Client' = [Client EXCEPT ![r] = "holding"]
      PROVE  Protocol!Next
    <2>1. Free > 0 /\ Free' = Free - 1 BY <1>1, <1>2, <1>9, FreeAccess
    <2>2. Protocol!Grant(r) BY <1>9, <2>1 DEF Protocol!Grant, Protocol!Turns, Free, Client
    <2> QED BY <1>1, <2>2 DEF Protocol!Next
<1>10. ASSUME NEW r \in Requests, Client[r] = "left", TakeToken, Client' = Client
       PROVE  Protocol!Next
    <2>1. Free > 0 /\ Free' = Free - 1 BY <1>1, <1>2, <1>10, FreeAccess
    <2>2. Protocol!Waste(r) BY <1>10, <2>1 DEF Protocol!Waste, Free, Client
    <2> QED BY <1>1, <2>2 DEF Protocol!Next
<1>11. ASSUME NEW r \in Requests, pc[r] \in {"queued", "gone"}, UNCHANGED pc,
              permit[r] = "none", config.limited, NEW result \in {"ok", "timeout"},
              Answer(r, result),
              result = "ok" => TakeToken, result = "timeout" => Free' = Free
       PROVE  Protocol!Next \/ UNCHANGED Protocol!vars
    <2>1. CASE pc[r] = "queued"
        <3>1. permit' = [permit EXCEPT ![r] = result] BY <1>11, <2>1 DEF Answer
        <3>2. View(r) = "waiting" /\ result = "ok" => ClientAt(pc'[r], permit'[r]) = "holding"
            BY SMTT(30), <1>2, <1>3, <1>11, <2>1, <3>1, ClientView
        <3>3. View(r) = "waiting" /\ result = "timeout" => ClientAt(pc'[r], permit'[r]) = "refused"
            BY SMTT(30), <1>2, <1>3, <1>11, <2>1, <3>1, ClientView
        <3>4. View(r) = "waiting" BY SMTT(30), <1>2, <1>3, <1>11, <2>1, ClientView
        <3>5. Client' = [Client EXCEPT ![r] = ClientAt(pc'[r], permit'[r])]
            BY <1>2, <1>11, <3>1, OneClientTurns
        <3> QED BY <1>4, <1>8, <1>9, <1>11, <3>2, <3>3, <3>4, <3>5
    <2>2. CASE pc[r] = "gone"
        <3>1. Client' = Client BY <1>6, <1>11, <2>2 DEF Answer
        <3>2. View(r) = "left" BY SMTT(30), <1>2, <1>3, <2>2, ClientView
        <3> QED BY <1>4, <1>7, <1>10, <1>11, <3>1, <3>2
    <2> QED BY <1>11, <2>1, <2>2
<1>12. \A r \in Requests : pc[r] \in {"queued", "gone"} => config.limited
    BY DEF IInv, Unlimited
<1>21. ASSUME NEW r \in Requests, MeshReject(r) PROVE Protocol!Next
    <2>1. View(r) = "new" /\ ClientAt(pc'[r], permit'[r]) = "refused"
        BY SMTT(30), <1>2, <1>3, <1>21, ClientView DEF MeshReject, Moves
    <2>2. Client' = [Client EXCEPT ![r] = "refused"]
        BY <1>2, <1>21, <2>1, OneClientTurns DEF MeshReject, Moves
    <2> QED BY <1>4, <1>5, <1>8, <1>21, <2>1, <2>2 DEF MeshReject
<1>22. ASSUME NEW r \in Requests, PassThrough(r) PROVE Protocol!Next
    <2>1. View(r) = "new" /\ ClientAt(pc'[r], permit'[r]) = "served"
        BY SMTT(30), <1>2, <1>3, <1>22, ClientView DEF PassThrough, Moves
    <2>2. Client' = [Client EXCEPT ![r] = "served"]
        BY <1>2, <1>22, <2>1, OneClientTurns DEF PassThrough, Moves
    <2>3. Protocol!Unguarded(r)
        BY <1>4, <1>5, <1>22, <2>1, <2>2
        DEF PassThrough, Protocol!Unguarded, Protocol!Turns, Free, Client
    <2> QED BY <1>1, <2>3 DEF Protocol!Next
<1>23. ASSUME NEW r \in Requests, AcquireAtOnce(r) PROVE Protocol!Next
    <2>1. View(r) = "new" /\ ClientAt(pc'[r], permit'[r]) = "holding"
        BY SMTT(30), <1>2, <1>3, <1>23, ClientView DEF AcquireAtOnce, Moves
    <2>2. Client' = [Client EXCEPT ![r] = "holding"]
        BY <1>2, <1>23, <2>1, OneClientTurns DEF AcquireAtOnce, Moves
    <2> QED BY <1>4, <1>9, <1>23, <2>1, <2>2 DEF AcquireAtOnce
<1>24. ASSUME NEW r \in Requests, FindNoToken(r) PROVE Protocol!Next
    <2>1. Free' = Free BY <1>1, <1>2, <1>24, FreeAccess DEF FindNoToken
    <2>2. View(r) = "new" BY SMTT(30), <1>2, <1>3, <1>24, ClientView DEF FindNoToken, Moves
    <2>3. Client' = [Client EXCEPT ![r] = ClientAt(pc'[r], permit'[r])]
        BY <1>2, <1>24, OneClientTurns DEF FindNoToken, Moves
    <2>4. CASE config.queue > 0
        <3>1. ClientAt(pc'[r], permit'[r]) = "waiting"
            <4>1. pc'[r] = "enqueue" /\ permit'[r] = "none"
                BY <1>2, <1>3, <1>24, <2>4 DEF FindNoToken, Moves
            <4> QED BY <1>2, <4>1, ClientView
        <3>2. Protocol!Wait(r)
            BY <1>4, <1>24, <2>1, <2>2, <2>3, <3>1
            DEF FindNoToken, Protocol!Wait, Protocol!Turns, Free, Client
        <3> QED BY <1>1, <3>2 DEF Protocol!Next
    <2>5. CASE ~(config.queue > 0)
        <3>1. ClientAt(pc'[r], permit'[r]) = "refused"
            BY SMTT(30), <1>2, <1>3, <1>24, <2>5, ClientView DEF FindNoToken, Moves
        <3> QED BY <1>4, <1>8, <2>1, <2>2, <2>3, <3>1
    <2> QED BY <2>4, <2>5
<1>25. ASSUME NEW r \in Requests, Enqueue(r) PROVE Protocol!Next \/ UNCHANGED Protocol!vars
    <2>1. /\ pc[r] = "enqueue" /\ permit[r] = "none" /\ permit' = permit /\ Free' = Free
          /\ \E to \in {"queued", "429"} : pc' = [pc EXCEPT ![r] = to]
        BY <1>3, <1>5, <1>25 DEF Enqueue, Moves
    <2>2. View(r) = "waiting" BY SMTT(30), <1>2, <1>3, <2>1, ClientView
    <2>3. Client' = [Client EXCEPT ![r] = ClientAt(pc'[r], permit'[r])]
        BY <1>2, <2>1, OneClientTurns
    <2>4. CASE pc'[r] = "queued"
        <3>1. ClientAt(pc'[r], permit'[r]) = "waiting" BY SMTT(30), <1>2, <1>3, <2>1, <2>4, ClientView
        <3>2. Client' = Client BY <1>4, <2>2, <2>3, <3>1 DEF Client
        <3> QED BY <1>7, <2>1, <3>2
    <2>5. CASE pc'[r] = "429"
        <3>1. ClientAt(pc'[r], permit'[r]) = "refused" BY SMTT(30), <1>2, <1>3, <2>1, <2>5, ClientView
        <3> QED BY <1>4, <1>8, <2>1, <2>2, <2>3, <3>1
    <2> QED BY <1>2, <2>1, <2>4, <2>5
<1>26. ASSUME NEW r \in Requests, ReceivePermit(r) PROVE UNCHANGED Protocol!vars
    <2>1. /\ permit' = [permit EXCEPT ![r] = "none"] /\ Free' = Free
          /\ \/ permit[r] = "ok" /\ pc' = [pc EXCEPT ![r] = "running"]
             \/ permit[r] = "timeout" /\ pc' = [pc EXCEPT ![r] = "408"]
        BY <1>5, <1>26 DEF ReceivePermit, Moves
    <2>2. ClientAt(pc'[r], permit'[r]) = View(r) BY SMTT(30), <1>2, <1>3, <2>1, ClientView
    <2>3. Client' = [Client EXCEPT ![r] = View(r)] BY <1>2, <2>1, <2>2, OneClientTurns
    <2>4. Client' = Client BY <1>4, <2>3 DEF Client
    <2> QED BY <1>7, <2>1, <2>4
<1>27. ASSUME NEW r \in Requests, Respond(r) PROVE UNCHANGED Protocol!vars
    <2>1. /\ pc[r] = "running" /\ pc' = [pc EXCEPT ![r] = "streaming"] /\ permit' = permit
          /\ Free' = Free
        BY <1>5, <1>27 DEF Respond, Moves
    <2>2. ClientAt(pc'[r], permit'[r]) = View(r) BY SMTT(30), <1>2, <1>3, <2>1, ClientView
    <2>3. Client' = [Client EXCEPT ![r] = View(r)] BY <1>2, <2>1, <2>2, OneClientTurns
    <2>4. Client' = Client BY <1>4, <2>3 DEF Client
    <2> QED BY <1>7, <2>1, <2>4
<1>28. ASSUME NEW r \in Requests, DropBody(r) PROVE Protocol!Next
    <2>1. View(r) = "holding" /\ ClientAt(pc'[r], permit'[r]) = "served"
        BY SMTT(30), <1>2, <1>3, <1>28, ClientView DEF DropBody, Moves
    <2>2. Client' = [Client EXCEPT ![r] = "served"]
        BY <1>2, <1>28, <2>1, OneClientTurns DEF DropBody, Moves
    <2>3. Free' = IF Free < Capacity THEN Free + 1 ELSE Capacity
        BY <1>1, <1>2, <1>28, FreeReturn DEF DropBody
    <2>4. Protocol!Finish(r)
        BY <1>4, <2>1, <2>2, <2>3 DEF Protocol!Finish, Protocol!Turns, Free, Client
    <2> QED BY <1>1, <2>4 DEF Protocol!Next
<1>29. ASSUME NEW r \in Requests, Disconnect(r) PROVE Protocol!Next
    <2>1. View(r) \in {"waiting", "holding", "refused"} /\ ClientAt(pc'[r], permit'[r]) = "left"
        BY SMTT(30), <1>2, <1>3, <1>29, ClientView DEF Disconnect
    <2>2. Client' = [Client EXCEPT ![r] = "left"]
        BY <1>2, <1>29, <2>1, OneClientTurns DEF Disconnect
    <2>3. Protocol!Leave(r)
        BY <1>4, <1>5, <1>29, <2>1, <2>2
        DEF Disconnect, Protocol!Leave, Protocol!Turns, Free, Client
    <2> QED BY <1>1, <2>3 DEF Protocol!Next
<1>30. ASSUME Process PROVE Protocol!Next \/ UNCHANGED Protocol!vars
    <2> DEFINE h == Head(queue)
    <2>1. queue # << >> /\ pc' = pc BY <1>30 DEF Process
    <2>2. h \in Requests /\ InQueue(h)
        BY <2>1, TailOccurs DEF InQueue, IInv, Owed, TypeOK
    <2>3. pc[h] \in {"queued", "gone"} /\ permit[h] = "none" BY <1>2, <2>2 DEF OwedOnce
    <2>4. \/ UNCHANGED <<tokens, elapsed>> /\ Answer(h, "timeout")
          \/ TakeToken /\ Answer(h, "ok")
          \/ NoToken /\ UNCHANGED permit
        BY <1>30 DEF Process
    <2>5. NoToken \/ UNCHANGED <<tokens, elapsed>> => Free' = Free
        BY <1>1, <1>2, <1>5, FreeAccess
    <2>6. config.limited BY <1>12, <2>2, <2>3
    <2>7. CASE UNCHANGED <<tokens, elapsed>> /\ Answer(h, "timeout")
        BY <1>11, <2>1, <2>2, <2>3, <2>5, <2>6, <2>7
    <2>8. CASE TakeToken /\ Answer(h, "ok") BY <1>11, <2>1, <2>2, <2>3, <2>6, <2>8
    <2>9. CASE NoToken /\ UNCHANGED permit BY <1>6, <1>7, <2>1, <2>5, <2>9
    <2> QED BY <2>4, <2>7, <2>8, <2>9
<1>31. ASSUME NEW r \in Requests, TryAcquire(r) PROVE Protocol!Next \/ UNCHANGED Protocol!vars
    <2>1. UNCHANGED pc /\ waiter[r] # "none" BY <1>31 DEF TryAcquire
    <2>2. pc[r] \in {"queued", "gone"} /\ permit[r] = "none" BY <1>2, <2>1 DEF OwedOnce
    <2>3. \/ TakeToken /\ Answer(r, "ok")
          \/ NoToken /\ Answer(r, "timeout")
          \/ NoToken /\ UNCHANGED permit
        BY <1>2, <1>31, TryMoves
    <2>4. NoToken => Free' = Free BY <1>1, <1>2, FreeAccess
    <2>5. config.limited BY <1>12, <2>2
    <2>6. CASE TakeToken /\ Answer(r, "ok") BY <1>11, <2>1, <2>2, <2>5, <2>6
    <2>7. CASE NoToken /\ Answer(r, "timeout") BY <1>11, <2>1, <2>2, <2>4, <2>5, <2>7
    <2>8. CASE NoToken /\ UNCHANGED permit BY <1>6, <1>7, <2>1, <2>4, <2>8
    <2> QED BY <2>3, <2>6, <2>7, <2>8
<1>32. ASSUME NEW r \in Requests, Park(r) \/ ComputeWait(r) \/ WakeUp(r)
       PROVE  UNCHANGED Protocol!vars
    BY <1>5, <1>6, <1>7, <1>32 DEF Park, ComputeWait, WakeUp
<1>33. ASSUME NEW r \in Requests, TimeOut(r) PROVE Protocol!Next \/ UNCHANGED Protocol!vars
    <2>1. UNCHANGED pc /\ waiter[r] # "none" /\ Answer(r, "timeout") /\ Free' = Free
        BY <1>5, <1>33 DEF TimeOut
    <2>2. pc[r] \in {"queued", "gone"} /\ permit[r] = "none" BY <1>2, <2>1 DEF OwedOnce
    <2> QED BY <1>11, <1>12, <2>1, <2>2
<1>34. ASSUME Tick PROVE Protocol!Next \/ UNCHANGED Protocol!vars
    <2>1. Client' = Client BY <1>6, <1>34 DEF Tick
    <2>2. CASE config.rate > 0
        <3>1. Free' \in Free..Capacity BY <1>2, <1>34, FreeTick
        <3>2. Protocol!Refill BY <2>1, <2>2, <3>1 DEF Protocol!Refill, Free, Client
        <3> QED BY <1>1, <3>2 DEF Protocol!Next
    <2>3. CASE config.rate = 0 BY <1>2, <1>7, <1>34, <2>1, <2>3, FreeTick
    <2>4. config.rate \in Nat BY <1>2, LimiterAssumption DEF TypeOK
    <2> QED BY SMTT(30), <2>2, <2>3, <2>4
<1>35. ASSUME UNCHANGED vars PROVE UNCHANGED Protocol!vars
    BY <1>5, <1>6, <1>7, <1>35 DEF vars
<1> QED
    BY SMTT(30), <1>21, <1>22, <1>23, <1>24, <1>25, <1>26, <1>27, <1>28, <1>29, <1>30, <1>31, <1>32,
       <1>33, <1>34, <1>35
    DEF Next, Middleware, WaitingTask

(* For every number of requests, capacity, queue size, timeout and rate,   *)
(* the bucket with its queue, processor, waiting tasks and body guard is   *)
(* the counting semaphore of AdmissionProtocol: a request is granted at    *)
(* most once, only against a free token, never after a refusal, and its    *)
(* token comes back once.                                                  *)
THEOREM AdmissionRefined == Spec => ImplementsAdmission
<1>1. Init => Protocol!Init
    <2> SUFFICES ASSUME Init PROVE Protocol!Init OBVIOUS
    <2>1. Refilled = Full
        BY SMTT(30), LimiterAssumption, DivFull DEF Init, Refilled, Min2
    <2>2. Free = Capacity BY <2>1, DivFull DEF Free
    <2>3. ClientAt("new", "none") = "new" BY ClientView DEF PC
    <2>4. Client = [r \in Requests |-> "new"] BY <2>3 DEF Init, Client
    <2>5. config.limited \in BOOLEAN /\ (config.rate > 0) \in BOOLEAN
        BY SMTT(30), LimiterAssumption DEF Init
    <2> QED BY <2>2, <2>4, <2>5 DEF Protocol!Init, Free, Client
<1> QED BY <1>1, Simulation, Inductive, PTL DEF Spec, ImplementsAdmission, Protocol!Spec

=============================================================================
