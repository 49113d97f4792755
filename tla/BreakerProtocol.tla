-------------------------- MODULE BreakerProtocol ---------------------------
(***************************************************************************)
(* What the circuit breaker promises to the rest of the gateway: the       *)
(* three-state protocol of docs/concepts/reliability/circuit-breakers.md,  *)
(* with the time the circuit has been in its state.                        *)
(***************************************************************************)
EXTENDS Naturals

CONSTANT Timeout

VARIABLES state, held

Init == state = "closed" /\ held = 0

Enter(s) == state' = s /\ held' = 0

\* Closed -> Open on the failure threshold, HalfOpen -> Open on any failure.
Trip == state \in {"closed", "half_open"} /\ Enter("open")

\* An open circuit is given a chance only after the whole timeout.
Probe == state = "open" /\ held >= Timeout /\ Enter("half_open")

Recover == state = "half_open" /\ Enter("closed")

Tick == held' = (IF held < Timeout THEN held + 1 ELSE held) /\ state' = state

Next == Trip \/ Probe \/ Recover \/ Tick

Spec == Init /\ [][Next]_<<state, held>>

=============================================================================
