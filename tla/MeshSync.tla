------------------------------- MODULE MeshSync -------------------------------
(***************************************************************************)
(* Replication of the worker store between mesh nodes (collector.rs,       *)
(* controller.rs, ping_server.rs, sync.rs): once per gossip round a node   *)
(* collects its store into a batch if the store has changed; for every     *)
(* sync stream a sender task looks at the batch once a second, on a timer  *)
(* of its own, and filters it by what it has sent before; the handler at   *)
(* the other end applies what is newer than its own.                       *)
(*                                                                         *)
(* A worker's key is an id that its node made up, so only that node (its   *)
(* owner) writes the key, and the version stands for the content.  Version *)
(* 0 means that the key is absent.  A channel is one direction of a        *)
(* stream: the bounded queue of the sending side and what is on the wire.  *)
(* Of the heartbeats nothing is modelled: one bounces between the two ends *)
(* as long as the stream lives and takes a slot of the queue.              *)
(***************************************************************************)
EXTENDS Integers, Sequences, FiniteSets, Functions

CONSTANTS Nodes,       \* node names; numbers, for names are ordered
          Keys,
          Owner,       \* the node that made up a key
          Capacity,    \* of a stream's channel
          MaxEntries,  \* entries that fit in one message
          MaxVersion,  \* bound: a key is not written beyond this version
          MaxRemoved,  \* bound: a key is not removed at a version beyond this
          MaxBreaks,   \* bound on broken connections
          None

VARIABLES workers,      \* the worker store: the version held of each key
          pending,      \* a local write between its two halves, or None
          generation,   \* KvStore::generation, less last_scanned: see Bumped
          collected,    \* collected_generations, less last_scanned
          collecting,   \* the collector is between snapshot and publication
          batch,        \* current_batch
          connected,    \* sync streams, as pairs <<client, server>>
          greeting,     \* streams whose server has not looked at its store
          watermark,    \* PeerWatermark of each channel's sender
          channel,      \* messages in order
          owed,         \* the reply a handler has yet to queue, or None
          breaks,       \* connections broken so far
          removed,      \* history: keys the owner has removed
          offered,      \* history: the last version published of each key
          excused,      \* history: versions a node gave up, see Excuse
          missed,       \* history: writes whose halves a round came between
          refused       \* history: what a sender found no room for

link_vars == <<connected, greeting, watermark, channel, owed, breaks, refused>>
round_vars == <<collected, collecting, batch, offered>>
vars == <<workers, pending, generation, removed, excused, missed, link_vars, round_vars>>

\* should_initiate_connection: the lower name is the client.
Pairs == {p \in Nodes \X Nodes : p[1] < p[2]}

Channels == {c \in Nodes \X Nodes : c[1] # c[2]}

Back(c) == <<c[2], c[1]>>
PairOf(c) == IF c \in Pairs THEN c ELSE Back(c)
Open(c) == PairOf(c) \in connected

Nothing == [k \in Keys |-> 0]
Present(entries) == {k \in Keys : entries[k] > 0}

ASSUME MeshAssumption ==
    /\ Nodes \subseteq Nat /\ IsFiniteSet(Keys)
    /\ Owner \in [Keys -> Nodes]
    /\ Capacity \in Nat \ {0} /\ MaxEntries \in Nat
    /\ MaxVersion \in Nat /\ MaxRemoved \in Nat /\ MaxBreaks \in Nat

\* A node can be left without a version that its peer believes it has: the node
\* removed the key itself, or overwrote it from a snapshot, or the message was
\* too large to send.  A key is missed if a round did not offer a write of it.
Excuse == [node: Nodes, key: Keys]

------------------------------------------------------------------------------
(* Local writes.  KvStore counts the generation up first and writes second. *)

\* A change of the KvStore.  Generations are only compared with the one of
\* the last published batch and the one that the collector has noted: they are
\* counted from the former, and as far as they go beyond the latter.
Bumped(n) == [generation EXCEPT ![n] = collected[n] + 1]

\* sync_worker_state: the owner writes the next version ...
BeginWrite(n, k) ==
    /\ pending[n] = None
    /\ Owner[k] = n /\ k \notin removed
    /\ workers[n][k] < MaxVersion
    /\ generation' = Bumped(n)
    /\ pending' = [pending EXCEPT ![n] = [key |-> k, version |-> workers[n][k] + 1]]
    /\ UNCHANGED <<workers, removed, excused, missed, link_vars, round_vars>>

\* remove_worker_state: ... or removes the key, which nobody is told of.  The
\* id is not used again.
BeginRemove(n, k) ==
    /\ pending[n] = None
    /\ Owner[k] = n /\ k \notin removed
    /\ workers[n][k] \in 1 .. MaxRemoved
    /\ generation' = Bumped(n)
    /\ pending' = [pending EXCEPT ![n] = [key |-> k, version |-> 0]]
    /\ UNCHANGED <<workers, removed, excused, missed, link_vars, round_vars>>

EndWrite(n) ==
    /\ pending[n] # None
    /\ workers' = [workers EXCEPT ![n][pending[n].key] = pending[n].version]
    /\ removed' = IF pending[n].version = 0 THEN removed \union {pending[n].key} ELSE removed
    /\ excused' = IF pending[n].version = 0
                  THEN excused \union {[node |-> n, key |-> pending[n].key]}
                  ELSE excused
    /\ pending' = [pending EXCEPT ![n] = None]
    /\ UNCHANGED <<generation, missed, link_vars, round_vars>>

------------------------------------------------------------------------------
(* Gossip rounds *)

\* collect() first notes the generation.  Rounds do not wait for senders.
BeginCollect(n) ==
    /\ ~collecting[n]
    /\ collecting' = [collecting EXCEPT ![n] = TRUE]
    /\ collected' = [collected EXCEPT ![n] = generation[n]]
    /\ UNCHANGED <<workers, pending, generation, removed, excused, missed, link_vars,
                   batch, offered>>

\* Variant that advances to the generation at the time of publication.
EndCollect_RereadsGeneration(n) ==
    LET published == IF collected[n] = 0 THEN Nothing ELSE workers[n] IN
    /\ collecting[n]
    /\ batch' = [batch EXCEPT ![n] = published]
    /\ generation' = [generation EXCEPT ![n] = 0]
    /\ collected' = [collected EXCEPT ![n] = 0]
    /\ offered' = [offered EXCEPT ![n] =
                     [k \in Keys |-> IF published[k] > 0 THEN published[k] ELSE @[k]]]
    /\ missed' = IF pending[n] # None
                 THEN missed \union {[node |-> n, key |-> pending[n].key]}
                 ELSE missed
    /\ collecting' = [collecting EXCEPT ![n] = FALSE]
    /\ UNCHANGED <<workers, pending, removed, excused, link_vars>>

\* Then it reads the store, unless nothing has changed since the last round;
\* the batch is published and advance_generations records what was noted.  A
\* write that has been counted and is not in the store yet has missed both
\* this round and, if nothing else changes, the next ones.  The old batch is
\* gone, also for a sender that has not come to it.
EndCollect(n) ==
    LET published == IF collected[n] = 0 THEN Nothing ELSE workers[n] IN
    /\ collecting[n]
    /\ batch' = [batch EXCEPT ![n] = published]
    /\ generation' = [generation EXCEPT ![n] = @ - collected[n]]
    /\ collected' = [collected EXCEPT ![n] = 0]
    /\ offered' = [offered EXCEPT ![n] =
                     [k \in Keys |-> IF published[k] > 0 THEN published[k] ELSE @[k]]]
    /\ missed' = IF pending[n] # None
                 THEN missed \union {[node |-> n, key |-> pending[n].key]}
                 ELSE missed
    /\ collecting' = [collecting EXCEPT ![n] = FALSE]
    /\ UNCHANGED <<workers, pending, removed, excused, link_vars>>

------------------------------------------------------------------------------
(* The sender task of channel c, once per second.  A turn at which it finds *)
(* nothing to send changes nothing.                                         *)

\* PeerWatermark::filter: what the batch has beyond the watermark.
Filtered(c) ==
    [k \in Keys |-> IF batch[c[1]][k] > watermark[c][k] THEN batch[c[1]][k] ELSE 0]

\* mark_sent
Marked(c) ==
    [k \in Keys |-> IF Filtered(c)[k] > 0 THEN Filtered(c)[k] ELSE watermark[c][k]]

Full(c) == Len(channel[c]) >= Capacity

TooLarge(c) == Cardinality(Present(Filtered(c))) > MaxEntries

\* What a full channel keeps from being sent, until it is sent.
Refusing(c) ==
    {[channel |-> c, key |-> k, version |-> Filtered(c)[k]] : k \in Present(Filtered(c))}

\* A turn with something to send.
Turn(c) ==
    /\ Open(c) /\ Filtered(c) # Nothing
    /\ UNCHANGED <<workers, pending, generation, removed, missed, round_vars,
                   connected, greeting, owed, breaks>>

\* try_send succeeds, and the watermark advances.
Send(c) ==
    /\ ~TooLarge(c) /\ ~Full(c)
    /\ channel' = [channel EXCEPT ![c] = Append(@, [kind |-> "update", entries |-> Filtered(c)])]
    /\ watermark' = [watermark EXCEPT ![c] = Marked(c)]
    /\ refused' = {u \in refused : u.channel = c => u.version > Filtered(c)[u.key]}
    /\ Turn(c)
    /\ UNCHANGED excused

\* The message is too large, and counts as sent; or the channel is full, and
\* the sender leaves it for its next turn, at which the next batch may have
\* taken the place of this one.
SkipSend(c) ==
    /\ TooLarge(c) \/ Full(c)
    /\ watermark' = IF TooLarge(c) THEN [watermark EXCEPT ![c] = Marked(c)] ELSE watermark
    /\ excused' = IF TooLarge(c) THEN excused \union [node: {c[2]}, key: Present(Filtered(c))]
                                 ELSE excused
    /\ refused' = IF TooLarge(c) THEN refused ELSE refused \union Refusing(c)
    /\ Turn(c)
    /\ UNCHANGED channel

------------------------------------------------------------------------------
(* The handler at the receiving end of channel c.  It reads on when its     *)
(* reply is queued.                                                         *)

Ready(c) ==
    /\ Open(c) /\ channel[c] # <<>>
    /\ owed[Back(c)] = None
    /\ c \in Pairs => c \notin greeting

\* An acknowledgement is queued in the same step if there is room for it; a
\* snapshot is made in one step and queued in another.
Handle(c, reply) ==
    LET now == reply # None /\ reply.kind = "ack" /\ ~Full(Back(c)) IN
    /\ channel' = [channel EXCEPT ![c] = Tail(@),
                                  ![Back(c)] = IF now THEN Append(@, reply) ELSE @]
    /\ owed' = [owed EXCEPT ![Back(c)] = IF now THEN None ELSE reply]
    /\ UNCHANGED <<pending, removed, missed, round_vars,
                   connected, greeting, watermark, breaks, refused>>

Ack == [kind |-> "ack"]

\* The key's lock is free: no local write of it is under way.
Unlocked(n, keys) == pending[n] # None => pending[n].key \notin keys

\* apply_remote_worker_state: the keys whose version is newer than the own one.
Apply(n, entries) == {k \in Present(entries) : entries[k] > workers[n][k]}

Stored(n, keys, entries) ==
    /\ Unlocked(n, Present(entries))
    /\ workers' = [workers EXCEPT ![n] = [k \in Keys |-> IF k \in keys THEN entries[k] ELSE @[k]]]
    /\ generation' = IF keys = {} THEN generation ELSE Bumped(n)

\* IncrementalUpdate.
ReceiveUpdate(c) ==
    /\ Ready(c) /\ Head(channel[c]).kind = "update"
    /\ Stored(c[2], Apply(c[2], Head(channel[c]).entries), Head(channel[c]).entries)
    /\ Handle(c, Ack)
    /\ UNCHANGED excused

\* SnapshotChunk: the server takes every entry, newer or not.
ReceiveSnapshot(c) ==
    LET entries == Head(channel[c]).entries IN
    /\ Ready(c) /\ Head(channel[c]).kind = "snapshot"
    /\ Stored(c[2], Present(entries), entries)
    /\ excused' = excused \union [node: {c[2]}, key: Present(entries)]
    /\ Handle(c, Ack)

\* create_snapshot_chunks: the store as it is, or no chunk if it is empty.
Snapshot(n) ==
    IF workers[n] = Nothing THEN None
    ELSE [kind |-> "snapshot", entries |-> workers[n]]

\* SnapshotRequest
ReceiveRequest(c) ==
    /\ Ready(c) /\ Head(channel[c]).kind = "request"
    /\ Handle(c, Snapshot(c[2]))
    /\ UNCHANGED <<workers, generation, excused>>

ReceiveAck(c) ==
    /\ Ready(c) /\ Head(channel[c]).kind = "ack"
    /\ Handle(c, None)
    /\ UNCHANGED <<workers, generation, excused>>

\* tx.send(reply).await
Reply(c) ==
    /\ Open(c) /\ owed[c] # None /\ ~Full(c)
    /\ channel' = [channel EXCEPT ![c] = Append(@, owed[c])]
    /\ owed' = [owed EXCEPT ![c] = None]
    /\ UNCHANGED <<workers, pending, generation, removed, excused, missed, round_vars,
                   connected, greeting, watermark, breaks, refused>>

------------------------------------------------------------------------------
(* Streams *)

\* Variant that keeps a peer's watermark for the next stream.
Fresh_KeepsWatermark(p) ==
    /\ watermark' = watermark
    /\ channel' = [c \in Channels |-> IF PairOf(c) = p THEN <<>> ELSE channel[c]]
    /\ owed' = [c \in Channels |-> IF PairOf(c) = p THEN None ELSE owed[c]]
    /\ refused' = {u \in refused : PairOf(u.channel) # p}
    /\ UNCHANGED <<workers, pending, generation, removed, excused, missed, round_vars>>

\* Everything that belongs to the two channels of a stream starts afresh.
Fresh(p) ==
    /\ watermark' = [c \in Channels |-> IF PairOf(c) = p THEN Nothing ELSE watermark[c]]
    /\ channel' = [c \in Channels |-> IF PairOf(c) = p THEN <<>> ELSE channel[c]]
    /\ owed' = [c \in Channels |-> IF PairOf(c) = p THEN None ELSE owed[c]]
    /\ refused' = {u \in refused : PairOf(u.channel) # p}
    /\ UNCHANGED <<workers, pending, generation, removed, excused, missed, round_vars>>

\* start_sync_stream_connection, after a successful ping.
Connect(p) ==
    /\ p \notin connected
    /\ connected' = connected \union {p}
    /\ greeting' = greeting \union {p}
    /\ Fresh(p)
    /\ UNCHANGED breaks

\* Variant of a server that reads only what it has asked for.
Greet_OnlyEmpty(p) ==
    LET c == Back(p) IN
    /\ p \in connected /\ p \in greeting
    /\ workers[p[2]] = Nothing /\ ~Full(c)
    /\ channel' = [channel EXCEPT ![c] = Append(@, [kind |-> "request"])]
    /\ greeting' = greeting \ {p}
    /\ UNCHANGED <<workers, pending, generation, removed, excused, missed, round_vars,
                   connected, watermark, owed, breaks, refused>>

\* Before it reads anything, the server asks for a snapshot if its store is
\* empty.  The client never asks.
Greet(p) ==
    LET c == Back(p) IN
    /\ p \in connected /\ p \in greeting
    /\ workers[p[2]] = Nothing => ~Full(c)
    /\ channel' = IF workers[p[2]] = Nothing
                  THEN [channel EXCEPT ![c] = Append(@, [kind |-> "request"])]
                  ELSE channel
    /\ greeting' = greeting \ {p}
    /\ UNCHANGED <<workers, pending, generation, removed, excused, missed, round_vars,
                   connected, watermark, owed, breaks, refused>>

\* The transport fails, and what is on the wire is lost.
Disconnect(p) ==
    /\ p \in connected /\ breaks < MaxBreaks
    /\ connected' = connected \ {p}
    /\ greeting' = greeting \ {p}
    /\ breaks' = breaks + 1
    /\ Fresh(p)

------------------------------------------------------------------------------
Init ==
    /\ workers = [n \in Nodes |-> Nothing]
    /\ pending = [n \in Nodes |-> None]
    /\ generation = [n \in Nodes |-> 0]
    /\ collected = [n \in Nodes |-> 0]
    /\ collecting = [n \in Nodes |-> FALSE]
    /\ batch = [n \in Nodes |-> Nothing]
    /\ connected = {} /\ greeting = {} /\ breaks = 0
    /\ watermark = [c \in Channels |-> Nothing]
    /\ channel = [c \in Channels |-> <<>>]
    /\ owed = [c \in Channels |-> None]
    /\ removed = {} /\ excused = {} /\ missed = {} /\ refused = {}
    /\ offered = [n \in Nodes |-> Nothing]

Round(n) == BeginCollect(n) \/ EndCollect(n)
Sender(c) == Send(c) \/ SkipSend(c)
Handler(c) ==
    \/ ReceiveUpdate(c) \/ ReceiveSnapshot(c) \/ ReceiveRequest(c) \/ ReceiveAck(c)
    \/ Reply(Back(c))

Next ==
    \/ \E n \in Nodes, k \in Keys : BeginWrite(n, k) \/ BeginRemove(n, k)
    \/ \E n \in Nodes : EndWrite(n) \/ Round(n)
    \/ \E c \in Channels : Sender(c) \/ Handler(c)
    \/ \E p \in Pairs : Connect(p) \/ Greet(p) \/ Disconnect(p)

Spec == Init /\ [][Next]_vars

\* The event loop, the sender tasks and the stream handlers are tasks that
\* run as long as their stream; a write that has begun ends; the event loop
\* pings peers again and again, and connects to those that answer.
Fairness ==
    /\ \A n \in Nodes : WF_vars(EndWrite(n)) /\ WF_vars(Round(n))
    /\ \A c \in Channels : WF_vars(Sender(c)) /\ WF_vars(Handler(c))
    /\ \A p \in Pairs : WF_vars(Connect(p)) /\ WF_vars(Greet(p))

FairSpec == Spec /\ Fairness

------------------------------------------------------------------------------
(* Properties *)

Version == 0 .. MaxVersion

Entries == [Keys -> Version]

Message == [kind: {"update", "snapshot"}, entries: Entries] \union [kind: {"request", "ack"}]

Refusal == [channel: Channels, key: Keys, version: Version]

\* Type invariant.
TypeOK ==
    /\ workers \in [Nodes -> Entries] /\ offered \in [Nodes -> Entries]
    /\ batch \in [Nodes -> Entries]
    /\ \A n \in Nodes : pending[n] \in [key: Keys, version: Version] \union {None}
    /\ \A n \in Nodes : 0 <= collected[n] /\ collected[n] <= generation[n]
    /\ connected \subseteq Pairs /\ greeting \subseteq connected
    /\ watermark \in [Channels -> Entries]
    /\ \A c \in Channels :
          /\ Len(channel[c]) <= Capacity
          /\ \A i \in DOMAIN channel[c] : channel[c][i] \in Message
          /\ owed[c] \in Message \union {None}
    /\ removed \subseteq Keys /\ excused \subseteq Excuse /\ missed \subseteq Excuse
    /\ refused \subseteq Refusal

InFlight(c, k) ==
    {channel[c][i].entries[k] : i \in {j \in DOMAIN channel[c] : channel[c][j].kind = "update"}}

\* What a sender believes its peer has been sent, the peer holds or is about
\* to receive: no version is filtered out that the peer could miss, but for
\* the listed excuses.  The state is well typed, so no channel is overfull.
WatermarkCovered ==
    /\ TypeOK
    /\ \A c \in Channels, k \in Keys :
          [node |-> c[2], key |-> k] \notin excused
             => \E v \in InFlight(c, k) \union {workers[c[2]][k]} : watermark[c][k] <= v

\* A store whose generation the collector takes for scanned has nothing that
\* was not published, but for a write counted before the scan and stored
\* after it.
ScannedMeansOffered ==
    \A n \in Nodes, k \in Keys :
       (/\ generation[n] = 0
        /\ [node |-> n, key |-> k] \notin missed)
          => (workers[n][k] > 0 => offered[n][k] = workers[n][k])

\* The last round of a node that offered the version it holds of a key is
\* over, the batch has given way to an empty one, and the sender of channel c
\* has not sent the version: it came too late, or found no room.
Lapsed(c, k) ==
    LET o == c[1] IN
    /\ offered[o][k] = workers[o][k] /\ batch[o][k] = 0
    /\ watermark[c][k] < workers[o][k]

\* Again and again each open stream has brought its peer the version that the
\* owner of a key holds, or a newer one.  Left out are versions that have
\* lapsed, writes a round came between, and keys the peer gave up itself.
UpdatesArrive ==
    []<>(\A c \in Channels, k \in Keys :
            (/\ Open(c) /\ Owner[k] = c[1]
             /\ ~Lapsed(c, k)
             /\ [node |-> c[1], key |-> k] \notin missed
             /\ [node |-> c[2], key |-> k] \notin excused)
               => workers[c[2]][k] >= workers[c[1]][k])

\* A sender that finds its channel full skips the update and "will retry next
\* interval": the update is sent later, or the peer has it otherwise, or the
\* stream ends.
RefusedIsRetried ==
    \A c \in Channels, k \in Keys, v \in 1 .. MaxVersion :
       [channel |-> c, key |-> k, version |-> v] \in refused
          ~> \/ [channel |-> c, key |-> k, version |-> v] \notin refused
             \/ workers[c[2]][k] >= v
=============================================================================
