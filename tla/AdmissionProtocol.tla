------------------------- MODULE AdmissionProtocol -------------------------
(***************************************************************************)
(* What admission promises to a client, without queue, tasks or timers:    *)
(* a counting semaphore that a clock may refill.  A client is granted at   *)
(* most one slot, only while one is free; it is either granted or refused, *)
(* never both; a slot comes back once, when the response body ends; a slot *)
(* whose client left before its body existed does not come back.           *)
(***************************************************************************)
EXTENDS Naturals

CONSTANTS Clients, Slots

VARIABLES
    limited, \* a limit is configured: fixed at the start
    refills, \* the clock gives slots back: fixed at the start
    free,    \* slots that can be granted now
    client   \* "new", "waiting", "holding", "served", "refused", "left"

vars == <<limited, refills, free, client>>

Init ==
    /\ limited \in BOOLEAN /\ refills \in BOOLEAN
    /\ free = Slots
    /\ client = [c \in Clients |-> "new"]

Turns(c, from, to) ==
    /\ client[c] \in from
    /\ client' = [client EXCEPT ![c] = to]

Wait(c) == limited /\ Turns(c, {"new"}, "waiting") /\ UNCHANGED free

Grant(c) ==
    /\ limited
    /\ free > 0
    /\ free' = free - 1
    /\ Turns(c, {"new", "waiting"}, "holding")

Refuse(c) == Turns(c, {"new", "waiting"}, "refused") /\ UNCHANGED free

Unguarded(c) == ~limited /\ Turns(c, {"new"}, "served") /\ UNCHANGED free

Finish(c) ==
    /\ Turns(c, {"holding"}, "served")
    /\ free' = IF free < Slots THEN free + 1 ELSE Slots

\* The client disconnects; the slot it may hold is gone with it.
Leave(c) == Turns(c, {"waiting", "holding", "refused"}, "left") /\ UNCHANGED free

\* A slot is granted to a client that has already left.
Waste(c) ==
    /\ client[c] = "left"
    /\ free > 0
    /\ free' = free - 1
    /\ UNCHANGED client

Refill ==
    /\ refills
    /\ free' \in free..Slots
    /\ UNCHANGED client

Next ==
    /\ UNCHANGED <<limited, refills>>
    /\ \/ \E c \in Clients :
            \/ Wait(c) \/ Grant(c) \/ Refuse(c) \/ Unguarded(c)
            \/ Finish(c) \/ Leave(c) \/ Waste(c)
       \/ Refill

Spec == Init /\ [][Next]_vars

=============================================================================
