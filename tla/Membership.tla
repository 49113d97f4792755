----------------------------- MODULE Membership -----------------------------
(***************************************************************************)
(* Cluster membership of the mesh: every gateway keeps a table of nodes    *)
(* with a status and a version, pings a random peer per round with its     *)
(* whole table (crates/mesh/src/controller.rs), merges the tables it       *)
(* receives (ping_server.rs), broadcasts suspicions and departures         *)
(* (service.rs) and may be told of pods by Kubernetes                      *)
(* (model_gateway/src/service_discovery.rs).                               *)
(*                                                                         *)
(* A ping is a remote call: the request may be lost before the peer saw    *)
(* it, or the answer after.  The request and its handling are one step;    *)
(* the answer may be applied any time later.  Addresses, metadata and mTLS *)
(* are left out.                                                           *)
(***************************************************************************)
EXTENDS Naturals, FiniteSets

CONSTANTS
    Nodes,
    InitPeer,       \* InitPeer[n]: the configured first peer, or n itself for none
    OneRound,       \* nodes whose event loop is followed for its first round only
    Stoppers,       \* nodes that may crash, leave and come back
    Writers,        \* nodes that write metadata
    Watchers,       \* nodes that watch the pods
    MaxVersion,     \* bound on the version of an entry
    Budgets         \* bounds on what may happen: metadata writes, messages lost or
                    \* late between running nodes, crashes and shutdowns, pod reports

ASSUME MembershipAssumption ==
    /\ IsFiniteSet(Nodes)
    /\ OneRound \cup Stoppers \cup Writers \cup Watchers \subseteq Nodes
    /\ InitPeer \in [Nodes -> Nodes]
    /\ MaxVersion \in Nat \ {0}
    /\ Budgets \subseteq [{"writes", "losses", "stops", "pods"} -> Nat]

Alive == "alive"
Suspected == "suspected"
Down == "down"
Leaving == "leaving"
Statuses == {Alive, Suspected, Down, Leaving}

Unknown == [status |-> "unknown", version |-> 0]

Entries == {Unknown} \cup [status : Statuses, version : 1..MaxVersion]

VARIABLES
    state,     \* ClusterState: state[n][m] is what n knows of m
    process,   \* "off", "up", "leaving" (announced, still running), "dead"
    first,     \* the event loop is in its first round (cnt = 0)
    task,      \* where the round of each event loop is
    net,       \* broadcast pings that their tasks have yet to deliver
    budget,    \* what is left of the bounds of this behaviour
    evidence   \* history: failed probes and bad reports of each node, up to 2

vars == <<state, process, first, task, net, budget, evidence>>

Idle == [at |-> "idle"]

Running(n) == process[n] \in {"up", "leaving"}

Known(n, m) == state[n][m] # Unknown

Status(n, m) == state[n][m].status

OwnTable(n) == [m \in Nodes |->
    IF m = n THEN [status |-> Alive, version |-> 1] ELSE Unknown]

\* MeshServerBuilder::new
Init ==
    /\ state = [n \in Nodes |-> OwnTable(n)]
    /\ process = [n \in Nodes |-> "off"]
    /\ first = [n \in Nodes |-> TRUE]
    /\ task = [n \in Nodes |-> Idle]
    /\ net = {}
    /\ budget \in Budgets
    /\ evidence = [n \in Nodes |-> 0]

Spend(what) ==
    /\ budget[what] > 0
    /\ budget' = [budget EXCEPT ![what] = @ - 1]

-----------------------------------------------------------------------------
(* GossipService *)

Newer_OnlyUnknown(mine, theirs) == mine.version = 0 /\ theirs.version > 0

\* merge_state: an entry is replaced by one with a higher version.
Newer(mine, theirs) == theirs.version > mine.version

MergeState(mine, theirs) ==
    [m \in Nodes |-> IF Newer(mine[m], theirs[m]) THEN theirs[m] ELSE mine[m]]

\* A table that holds one entry: what a broadcast carries.
Only(m, entry) == [x \in Nodes |-> IF x = m THEN entry ELSE Unknown]

\* ping_server answers a Ping, forwards a PingReq, and rejects the rest.
PingServerAccepts(payload) == payload \in {"ping", "ping_req"}

\* The helper pings the target with no payload.
PingReq(helper, target) ==
    Running(helper) /\ Running(target) /\ PingServerAccepts("none")

-----------------------------------------------------------------------------
(* MeshController::event_loop *)

Start(n) ==
    /\ process[n] = "off"
    /\ process' = [process EXCEPT ![n] = "up"]
    /\ UNCHANGED <<state, first, task, net, budget, evidence>>

Peers(n) == {m \in Nodes \ {n} : Known(n, m) /\ Status(n, m) \notin {Down, Leaving}}

\* The peer of the round; the loop then sleeps for a second.  The configured
\* peer goes by the name "init_peer", which no entry of the table has.  A round
\* that the back-off of the peer's RetryManager skips changes nothing and is
\* not a step.
ChoosePeer(n) ==
    /\ Running(n)
    /\ task[n] = Idle
    /\ first[n] \/ n \notin OneRound
    /\ LET named == ~first[n] \/ Peers(n) # {}
       IN  \E p \in IF named THEN Peers(n) ELSE {InitPeer[n]} \ {n} :
             task' = [task EXCEPT ![n] = [at |-> "chosen", peer |-> p, named |-> named]]
    /\ first' = [first EXCEPT ![n] = FALSE]
    /\ UNCHANGED <<state, process, net, budget, evidence>>

\* A first round without anyone to ping: the configured peer is not used again.
NoPeer(n) ==
    /\ Running(n)
    /\ task[n] = Idle
    /\ first[n] /\ Peers(n) = {} /\ InitPeer[n] = n
    /\ first' = [first EXCEPT ![n] = FALSE]
    /\ UNCHANGED <<state, process, task, net, budget, evidence>>

(* connect_to_peer *)

Against(p, weight) ==
    evidence' = [evidence EXCEPT ![p] = IF @ + weight > 2 THEN 2 ELSE @ + weight]

Failure(n) ==
    /\ task' = [task EXCEPT ![n].at = "failed"]
    /\ Against(task[n].peer, 1)

\* The peer merges the caller's table, then answers with its own status.
Ping(n) ==
    /\ Running(n)
    /\ task[n].at = "chosen"
    /\ LET p      == task[n].peer
           merged == MergeState(state[p], state[n])
       IN  /\ Running(p)
           /\ state' = [state EXCEPT ![p] = merged]
           /\ \/ /\ task' = [task EXCEPT ![n] =
                              [at |-> "answered", peer |-> p, status |-> merged[p].status]]
                 /\ UNCHANGED <<budget, evidence>>
              \/ Spend("losses") /\ Failure(n)
    /\ UNCHANGED <<process, first, net>>

LosePing(n) ==
    /\ Running(n)
    /\ task[n].at = "chosen"
    /\ IF Running(task[n].peer) THEN Spend("losses") ELSE UNCHANGED budget
    /\ Failure(n)
    /\ UNCHANGED <<state, process, first, net>>

\* Only Alive and Leaving are taken over, and without a new version.
ApplyAnswer(n) ==
    /\ Running(n)
    /\ task[n].at = "answered"
    /\ LET p == task[n].peer
           s == task[n].status
       IN  state' = IF s \notin {Alive, Leaving} THEN state
                    ELSE [state EXCEPT ![n][p] =
                            [status |-> s, version |-> IF Known(n, p) THEN @.version ELSE 1]]
    /\ task' = [task EXCEPT ![n] = Idle]
    /\ UNCHANGED <<process, first, net, budget, evidence>>

AliveIn(n) == {m \in Nodes : Status(n, m) = Alive}

Broadcast(n, targets, m, entry) ==
    net' = net \cup {[from |-> n, to |-> t, about |-> m, entry |-> entry] : t \in targets}

Escalate_DownAtOnce(status) == Down

Escalate(status) == IF status = Suspected THEN Down ELSE Suspected

Listeners_SkipsSelf(n, p) == AliveIn(n) \ {n, p}

\* Whom a suspicion of p is told: the sender hears of it like anyone else.
Listeners(n, p) == AliveIn(n) \ {p}

\* After the ping-reqs.  The table is not written: the sender's own broadcast
\* is what changes it.
Suspect(n) ==
    /\ Running(n)
    /\ task[n].at = "failed"
    /\ LET p == task[n].peer
           reachable == \E h \in AliveIn(n) \ {n, p} : PingReq(h, p)
       IN  IF reachable \/ ~task[n].named \/ ~Known(n, p)
           THEN UNCHANGED net
           ELSE /\ state[n][p].version < MaxVersion
                /\ Broadcast(n, Listeners(n, p), p,
                             [status  |-> Escalate(Status(n, p)),
                              version |-> state[n][p].version + 1])
    /\ task' = [task EXCEPT ![n] = [at |-> "broadcast"]]
    /\ UNCHANGED <<state, process, first, budget, evidence>>

-----------------------------------------------------------------------------
(* broadcast_node_states: one task per target *)

Receive(msg) ==
    /\ Running(msg.to)
    /\ net' = net \ {msg}
    /\ state' = [state EXCEPT ![msg.to] = MergeState(@, Only(msg.about, msg.entry))]
    /\ UNCHANGED <<process, first, task, budget, evidence>>

Drop(msg) ==
    /\ net' = net \ {msg}
    /\ IF Running(msg.to) THEN Spend("losses") ELSE UNCHANGED budget
    /\ UNCHANGED <<state, process, first, task, evidence>>

\* The broadcaster waits for its tasks, but no longer than three seconds.
Waited(n) ==
    IF \E msg \in net : msg.from = n THEN Spend("losses") ELSE UNCHANGED budget

\* The tasks that are late go on.
EndBroadcast(n) ==
    /\ Running(n)
    /\ task[n].at = "broadcast"
    /\ Waited(n)
    /\ task' = [task EXCEPT ![n] = Idle]
    /\ UNCHANGED <<state, process, first, net, evidence>>

-----------------------------------------------------------------------------
(* MeshServerHandler *)

\* graceful_shutdown: the departure is broadcast, not written to the table.
Announce(n) ==
    /\ n \in Stoppers /\ process[n] = "up"
    /\ Spend("stops")
    /\ process' = [process EXCEPT ![n] = "leaving"]
    /\ IF Status(n, n) = Leaving THEN UNCHANGED net
       ELSE /\ state[n][n].version < MaxVersion
            /\ Broadcast(n, AliveIn(n) \ {n}, n,
                         [status |-> Leaving, version |-> state[n][n].version + 1])
    /\ UNCHANGED <<state, first, task, evidence>>

Stop(n) ==
    /\ process[n] = "leaving"
    /\ Waited(n)
    /\ process' = [process EXCEPT ![n] = "dead"]
    /\ task' = [task EXCEPT ![n] = Idle]
    /\ net' = {msg \in net : msg.from # n}
    /\ UNCHANGED <<state, first, evidence>>

Crash(n) ==
    /\ n \in Stoppers /\ process[n] = "up"
    /\ Spend("stops")
    /\ process' = [process EXCEPT ![n] = "dead"]
    /\ task' = [task EXCEPT ![n] = Idle]
    /\ net' = {msg \in net : msg.from # n}
    /\ UNCHANGED <<state, first, evidence>>

\* A new process of the same name: nothing of the table is kept.
Restart(n) ==
    /\ process[n] = "dead"
    /\ process' = [process EXCEPT ![n] = "up"]
    /\ state' = [state EXCEPT ![n] = OwnTable(n)]
    /\ first' = [first EXCEPT ![n] = TRUE]
    /\ UNCHANGED <<task, net, budget, evidence>>

\* write_data puts metadata into the node's own entry.
WriteData(n) ==
    /\ n \in Writers /\ Running(n)
    /\ state[n][n].version < MaxVersion
    /\ Spend("writes")
    /\ state' = [state EXCEPT ![n][n].version = @ + 1]
    /\ UNCHANGED <<process, first, task, net, evidence>>

-----------------------------------------------------------------------------
(* start_router_discovery: what the watch of the pods reports of pod m *)

PodEvent(n, m, status) ==
    /\ n \in Watchers /\ Running(n)
    /\ state[n][m].version < MaxVersion
    /\ Spend("pods")
    /\ state' = [state EXCEPT ![n][m] = [status |-> status, version |-> @.version + 1]]
    /\ UNCHANGED <<process, first, task, net>>

PodHealthy(n, m) == PodEvent(n, m, Alive) /\ UNCHANGED evidence

PodUnhealthy(n, m) ==
    /\ Known(n, m) /\ Status(n, m) # Down
    /\ PodEvent(n, m, Suspected)
    /\ Against(m, 1)

PodDeleted(n, m) ==
    /\ Known(n, m)
    /\ PodEvent(n, m, Down)
    /\ Against(m, 2)

-----------------------------------------------------------------------------
Round(n) ==
    \/ ChoosePeer(n) \/ NoPeer(n) \/ Ping(n) \/ LosePing(n)
    \/ ApplyAnswer(n) \/ Suspect(n) \/ EndBroadcast(n)

Discovery(n) ==
    \E m \in Nodes : PodHealthy(n, m) \/ PodUnhealthy(n, m) \/ PodDeleted(n, m)

Next ==
    \/ \E n \in Nodes :
         \/ Start(n) \/ Round(n) \/ Announce(n) \/ Stop(n) \/ Crash(n)
         \/ Restart(n) \/ WriteData(n) \/ Discovery(n)
    \/ \E msg \in net : Receive(msg) \/ Drop(msg)

Spec == Init /\ [][Next]_vars

\* The event loop runs round after round, its choice is random and the back-off
\* of a peer is at most a minute; calls end by an answer or a timeout, and
\* broadcast tasks are polled.  Nothing is asked of the nodes that are followed
\* for one round only.
Fairness ==
    /\ \A n \in Nodes \ OneRound :
         /\ WF_vars(Round(n))
         /\ \A p \in Nodes \ {n} : SF_vars(ChoosePeer(n) /\ task'[n].peer = p)
    /\ WF_vars(\E msg \in net : Receive(msg) \/ Drop(msg))

FairSpec == Spec /\ Fairness

-----------------------------------------------------------------------------
\* Type invariant.
TypeOK ==
    /\ state \in [Nodes -> [Nodes -> Entries]]
    /\ process \in [Nodes -> {"off", "up", "leaving", "dead"}]
    /\ first \in [Nodes -> BOOLEAN]
    /\ \A n \in Nodes :
         \/ task[n].at \in {"idle", "broadcast"}
         \/ task[n].at \in {"chosen", "answered", "failed"} /\ task[n].peer \in Nodes
    /\ net \subseteq [from : Nodes, to : Nodes, about : Nodes, entry : Entries]
    /\ evidence \in [Nodes -> 0..2]

\* A single failed ping or bad report never takes a node out of the mesh: an
\* entry that says Down, wherever the tables have carried it, rests on two of
\* them (the escalation of connect_to_peer) or on a deleted pod.  The tables
\* are well typed: a node that a table knows has a status and a version.
DownNeedsTwoFailures ==
    /\ TypeOK
    /\ \A n, m \in Nodes : Status(n, m) = Down => evidence[m] = 2

\* The model follows no version past its bound.
AtBound(n) == \E m \in Nodes : state[n][m].version = MaxVersion

\* Node n takes m for Alive though its process is dead.  A node that is not
\* Alive in its own table is not among its own listeners.
Deceived(n, m) ==
    /\ Running(n) /\ process[m] = "dead"
    /\ Status(n, m) = Alive /\ Status(n, n) = Alive
    /\ ~AtBound(n)

\* A crash is noticed by everybody: the nodes that keep running their event
\* loops come to a point where none of them takes the dead node for Alive, even
\* though each learns of its own suspicion only from the broadcast it sends to
\* itself.
CrashIsNoticed ==
    \A m \in Stoppers :
        (\E n \in Nodes \ OneRound : Deceived(n, m))
        ~> ~ \E n \in Nodes \ OneRound : Deceived(n, m)

\* Node p has not heard what n, which has it for a peer, knows.
Behind(p, n) ==
    /\ Running(n) /\ Running(p) /\ p \in Peers(n)
    /\ \E m \in Nodes : state[p][m].version < state[n][m].version
    /\ ~AtBound(n)

\* News spreads: the running nodes come to a point where each one has caught
\* up with all the nodes that have it for a peer, by their pings or otherwise.
SomeoneBehind == \E n \in Nodes \ OneRound, p \in Nodes : Behind(p, n)

NewsSpreads == SomeoneBehind ~> ~SomeoneBehind

=============================================================================
