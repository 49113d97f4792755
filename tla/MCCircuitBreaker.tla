-------------------------- MODULE MCCircuitBreaker --------------------------
(* The instance of CircuitBreaker for TLC, with a history of overlaps.      *)
EXTENDS CircuitBreaker

CONSTANTS c1, c2

TwoCallers == {c1, c2}

AllCalls == Ops

VARIABLE overlapped   \* history: two operations were under way at a time, or
                      \* reset was called, which the protocol does not have

Overlap ==
    \/ \E s, t \in Callers : s # t /\ pc'[s] # "idle" /\ pc'[t] # "idle"
    \/ \E t \in Callers : op'[t] = "reset"

MCInit == Init /\ overlapped = FALSE

MCNext == Next /\ overlapped' = (overlapped \/ Overlap)

MCSpec == MCInit /\ [][MCNext]_<<vars, overlapped>> /\ Fairness

Protocol == INSTANCE BreakerProtocol

(* As long as no two of its operations overlap, the breaker implements the *)
(* three-state protocol: it opens only from Closed or HalfOpen, waits the  *)
(* whole timeout before probing, and closes only from HalfOpen.            *)
ImplementsProtocol ==
    Protocol!Init /\ [][overlapped' \/ Protocol!Next]_<<state, held>>

=============================================================================
