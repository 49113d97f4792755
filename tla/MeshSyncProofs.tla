---------------------------- MODULE MeshSyncProofs ----------------------------
(***************************************************************************)
(* Replication between mesh nodes, for any nodes, keys, channel capacity,  *)
(* message size and number of broken streams: what a sender's watermark    *)
(* filters out its peer has or gets, and what the collector takes for      *)
(* scanned was published.                                                  *)
(***************************************************************************)
EXTENDS MeshSync, TLAPS

\* A leaf is first-order reasoning unless it names SMT, for arithmetic.
USE ZenonT(30)

Writes == [key: Keys, version: Version]

Types ==
    /\ workers \in [Nodes -> Entries] /\ offered \in [Nodes -> Entries]
    /\ batch \in [Nodes -> Entries]
    /\ pending \in [Nodes -> Writes \union {None}]
    /\ generation \in [Nodes -> Nat] /\ collected \in [Nodes -> Nat]
    /\ \A n \in Nodes : collected[n] <= generation[n]
    /\ connected \subseteq Pairs /\ greeting \subseteq connected
    /\ watermark \in [Channels -> Entries]
    /\ channel \in [Channels -> Seq(Message)]
    /\ \A c \in Channels : Len(channel[c]) <= Capacity
    /\ owed \in [Channels -> Message \union {None}]
    /\ removed \subseteq Keys /\ excused \subseteq Excuse /\ missed \subseteq Excuse
    /\ refused \subseteq Refusal

\* A write under way is a removal or newer than what the store holds, for its
\* key is locked; and it has been counted since the last round, or that round
\* has missed it.
Underway ==
    \A n \in Nodes :
       pending[n] # None =>
          /\ pending[n].version = 0 \/ pending[n].version > workers[n][pending[n].key]
          /\ generation[n] > 0 \/ [node |-> n, key |-> pending[n].key] \in missed

\* Some update among the messages q has version v of key k, or a later one.
Carries(q, k, v) == \E i \in DOMAIN q : q[i].kind = "update" /\ v <= q[i].entries[k]

Covered ==
    \A c \in Channels, k \in Keys :
       \/ [node |-> c[2], key |-> k] \in excused
       \/ watermark[c][k] <= workers[c[2]][k]
       \/ Carries(channel[c], k, watermark[c][k])

\* The inductive invariant.
IInv == Types /\ Underway /\ ScannedMeansOffered /\ Covered

-----------------------------------------------------------------------------
(* Channels *)

LEMMA ChannelFacts ==
    ASSUME NEW c \in Channels
    PROVE  /\ c[1] \in Nodes /\ c[2] \in Nodes
           /\ Back(c) \in Channels /\ Back(c) # c
           /\ Back(c)[1] = c[2] /\ Back(c)[2] = c[1]
           /\ PairOf(c) \in Pairs /\ PairOf(Back(c)) = PairOf(c)
<1>1. PICK a, b \in Nodes : c = <<a, b>> /\ a # b BY SMTT(30) DEF Channels
<1>2. a \in Nat /\ b \in Nat BY MeshAssumption
<1>3. Back(c) = <<b, a>> /\ Back(Back(c)) = c BY <1>1 DEF Back
<1>4. Back(c) \in Channels /\ Back(c) # c BY SMTT(30), <1>1, <1>3 DEF Channels
<1>5. (c \in Pairs <=> a < b) /\ (Back(c) \in Pairs <=> b < a) BY SMTT(30), <1>1, <1>3 DEF Pairs
<1>6. a < b \/ b < a BY SMTT(30), <1>1, <1>2
<1>7. ~(a < b /\ b < a) BY SMTT(30), <1>2
<1> QED BY SMTT(30), <1>1, <1>3, <1>4, <1>5, <1>6, <1>7 DEF PairOf

LEMMA PairFacts ==
    ASSUME NEW p \in Pairs
    PROVE  /\ p \in Channels /\ PairOf(p) = p /\ p[1] \in Nodes /\ p[2] \in Nodes
           /\ Back(p) \in Channels /\ PairOf(Back(p)) = p
<1>1. p \in Channels
    <2>1. PICK a, b \in Nodes : p = <<a, b>> /\ a < b BY SMTT(30) DEF Pairs
    <2>2. a \in Nat /\ b \in Nat BY MeshAssumption
    <2> QED BY SMTT(30), <2>1, <2>2 DEF Channels
<1>2. PairOf(p) = p BY DEF PairOf
<1> QED BY <1>1, <1>2, ChannelFacts

LEMMA MessageFacts ==
    ASSUME NEW msg \in Message
    PROVE  /\ msg.kind \in {"update", "snapshot", "request", "ack"}
           /\ msg.kind \in {"update", "snapshot"} => msg.entries \in Entries
BY DEF Message

LEMMA NothingEntries == Nothing \in Entries
BY SMTT(30), MeshAssumption DEF Nothing, Entries, Version

(* The tail of a channel and its extension, with their types.              *)
LEMMA QueueOps ==
    ASSUME NEW q \in Seq(Message), NEW msg \in Message
    PROVE  /\ Append(q, msg) \in Seq(Message) /\ Len(Append(q, msg)) = Len(q) + 1
           /\ Len(q) \in Nat
           /\ q # <<>> => /\ Head(q) \in Message /\ Tail(q) \in Seq(Message)
                          /\ Len(Tail(q)) = Len(q) - 1
BY SMTT(30)

-----------------------------------------------------------------------------
(* Types *)

(* What a step does to a sender's part of the state.                       *)
LEMMA FilteredType ==
    ASSUME Types, NEW c \in Channels
    PROVE  /\ Filtered(c) \in Entries /\ Marked(c) \in Entries
           /\ \A k \in Keys : Marked(c)[k] = IF k \in Present(Filtered(c))
                                             THEN Filtered(c)[k] ELSE watermark[c][k]
<1>1. batch[c[1]] \in Entries /\ watermark[c] \in Entries BY ChannelFacts DEF Types
<1>2. 0 \in Version BY SMTT(30), MeshAssumption DEF Version
<1>3. Filtered(c) \in Entries BY <1>1, <1>2 DEF Filtered, Entries
<1>4. Marked(c) \in Entries
    <2> HIDE DEF Filtered
    <2> QED BY <1>1, <1>3 DEF Marked, Entries
<1> QED BY <1>3, <1>4 DEF Marked, Present

LEMMA ApplyFacts ==
    ASSUME Types, NEW n \in Nodes, NEW entries \in Entries, NEW keys \in SUBSET Keys,
           Stored(n, keys, entries)
    PROVE  /\ workers' \in [Nodes -> Entries]
           /\ \A x \in Nodes : x # n => workers'[x] = workers[x]
           /\ \A k \in Keys : workers'[n][k] = IF k \in keys THEN entries[k] ELSE workers[n][k]
           /\ generation' \in [Nodes -> Nat]
           /\ \A x \in Nodes : collected[x] <= generation'[x]
           /\ \A x \in Nodes : x # n => generation'[x] = generation[x]
           /\ IF keys = {} THEN UNCHANGED <<workers, generation>> ELSE generation'[n] > 0
<1>1. workers[n] \in Entries BY DEF Types
<1> DEFINE row == [k \in Keys |-> IF k \in keys THEN entries[k] ELSE workers[n][k]]
<1>2. row \in Entries BY <1>1 DEF Entries
<1>3. workers' = [workers EXCEPT ![n] = row] BY DEF Stored
<1>4. keys = {} => row = workers[n] BY <1>1 DEF Entries
<1>5. \A k \in Keys : row[k] = IF k \in keys THEN entries[k] ELSE workers[n][k] OBVIOUS
<1> HIDE DEF row
<1>6. /\ workers' \in [Nodes -> Entries] /\ workers'[n] = row
      /\ \A x \in Nodes : x # n => workers'[x] = workers[x]
      /\ keys = {} => UNCHANGED workers
    BY <1>2, <1>3, <1>4 DEF Types
<1>7. CASE keys = {}
    <2>1. UNCHANGED generation BY <1>7 DEF Stored
    <2> QED BY <1>5, <1>6, <1>7, <2>1 DEF Types
<1>8. CASE keys # {}
    <2>1. generation' = [generation EXCEPT ![n] = collected[n] + 1] BY <1>8 DEF Stored, Bumped
    <2>2. /\ generation' \in [Nodes -> Nat] /\ generation'[n] > 0
          /\ \A x \in Nodes : x # n => generation'[x] = generation[x]
          /\ \A x \in Nodes : collected[x] <= generation'[x]
        BY SMTT(30), <2>1 DEF Types
    <2> QED BY <1>5, <1>6, <1>8, <2>2
<1> QED BY <1>7, <1>8

(* Handling a message: the channel it came from loses its head, the other  *)
(* direction gets the reply if there is room.                              *)
LEMMA HandleFacts ==
    ASSUME Types, NEW c \in Channels, Ready(c), NEW reply \in Message \union {None},
           Handle(c, reply)
    PROVE  /\ channel' \in [Channels -> Seq(Message)]
           /\ \A d \in Channels : Len(channel'[d]) <= Capacity
           /\ owed' \in [Channels -> Message \union {None}]
           /\ channel[c] \in Seq(Message) /\ channel[c] # <<>> /\ channel'[c] = Tail(channel[c])
           /\ \A d \in Channels : d # c =>
                \/ channel'[d] = channel[d]
                \/ /\ channel'[d] = Append(channel[d], reply) /\ reply \in Message
                   /\ channel[d] \in Seq(Message)
<1> DEFINE b == Back(c)
           now == reply # None /\ reply.kind = "ack" /\ ~Full(b)
           q == IF now THEN Append(channel[b], reply) ELSE channel[b]
<1>1. b \in Channels /\ b # c BY ChannelFacts
<1>2. channel[c] \in Seq(Message) /\ channel[c] # <<>> /\ channel[b] \in Seq(Message)
    BY <1>1 DEF Types, Ready
<1>3. channel' = [channel EXCEPT ![c] = Tail(@), ![b] = IF now THEN Append(@, reply) ELSE @]
    BY DEF Handle
<1>4. \A d \in Channels : channel'[d] = IF d = b THEN q ELSE IF d = c THEN Tail(channel[c])
                                                      ELSE channel[d]
    <2> HIDE DEF b, now
    <2> QED BY <1>1, <1>3 DEF Types
<1>5. DOMAIN channel' = Channels /\ channel' = [d \in Channels |-> channel'[d]]
    <2> HIDE DEF b, now
    <2> QED BY <1>3 DEF Types
<1>6. now => reply \in Message /\ Len(channel[b]) < Capacity
    BY SMTT(30), <1>2, MeshAssumption DEF Full
<1>7. q \in Seq(Message) /\ Len(q) <= Capacity
    <2>1. CASE now
        <3>1. Append(channel[b], reply) \in Seq(Message)
              /\ Len(Append(channel[b], reply)) = Len(channel[b]) + 1 /\ Len(channel[b]) \in Nat
            BY <1>2, <1>6, <2>1, QueueOps
        <3> QED BY SMTT(30), <1>6, <2>1, <3>1, MeshAssumption
    <2>2. CASE ~now BY <1>1, <1>2, <2>2 DEF Types
    <2> QED BY <2>1, <2>2
<1>8. Tail(channel[c]) \in Seq(Message) /\ Len(Tail(channel[c])) <= Capacity
    <2>1. Len(channel[c]) \in Nat /\ Len(channel[c]) <= Capacity BY SMTT(30), <1>2 DEF Types
    <2> QED BY SMTT(30), <1>2, <2>1, MeshAssumption
<1>9. owed' = [owed EXCEPT ![b] = IF now THEN None ELSE reply] BY DEF Handle
<1>10. owed' \in [Channels -> Message \union {None}]
    <2> HIDE DEF now, b
    <2> QED BY <1>1, <1>9 DEF Types
<1>11. now \/ ~now OBVIOUS
<1>12. q = channel[b] \/ (q = Append(channel[b], reply) /\ reply \in Message) BY <1>6, <1>11
<1> HIDE DEF q, now, b
<1>13. \A d \in Channels : channel'[d] \in Seq(Message) /\ Len(channel'[d]) <= Capacity
    BY <1>4, <1>7, <1>8 DEF Types
<1>14. channel' \in [Channels -> Seq(Message)] BY <1>5, <1>13
<1> QED BY <1>1, <1>2, <1>4, <1>10, <1>12, <1>13, <1>14 DEF Types

LEMMA FreshFacts ==
    ASSUME Types, NEW p \in Pairs, Fresh(p)
    PROVE  /\ watermark' \in [Channels -> Entries]
           /\ channel' \in [Channels -> Seq(Message)]
           /\ \A c \in Channels : Len(channel'[c]) <= Capacity
           /\ owed' \in [Channels -> Message \union {None}]
           /\ refused' \subseteq Refusal
           /\ \A c \in Channels :
                IF PairOf(c) = p
                THEN watermark'[c] = Nothing /\ channel'[c] = <<>>
                ELSE watermark'[c] = watermark[c] /\ channel'[c] = channel[c]
<1>1. watermark' \in [Channels -> Entries] BY NothingEntries DEF Types, Fresh
<1>2. <<>> \in Seq(Message) /\ Len(<<>>) = 0 BY SMTT(30)
<1>3. channel' \in [Channels -> Seq(Message)] BY <1>2 DEF Types, Fresh
<1>4. \A c \in Channels : Len(channel'[c]) <= Capacity
    BY SMTT(30), <1>2, MeshAssumption DEF Types, Fresh
<1>5. owed' \in [Channels -> Message \union {None}] BY DEF Types, Fresh
<1> QED BY <1>1, <1>3, <1>4, <1>5 DEF Types, Fresh

LEMMA TypeStep ==
    ASSUME Types, [Next]_vars
    PROVE  Types'
<1> USE DEF link_vars, round_vars
<1>2. ASSUME NEW n \in Nodes, NEW k \in Keys, BeginWrite(n, k) \/ BeginRemove(n, k) PROVE Types'
    <2>1. /\ generation' = [generation EXCEPT ![n] = collected[n] + 1]
          /\ UNCHANGED <<workers, removed, excused, missed, link_vars, round_vars>>
        BY <1>2 DEF BeginWrite, BeginRemove, Bumped
    <2>2. /\ generation' \in [Nodes -> Nat] /\ \A x \in Nodes : collected'[x] <= generation'[x]
        BY SMTT(30), <2>1 DEF Types
    <2>3. workers[n][k] \in 0 .. MaxVersion BY SMTT(30) DEF Types, Entries, Version
    <2>4. PICK v \in Version : pending' = [pending EXCEPT ![n] = [key |-> k, version |-> v]]
        <3>1. CASE BeginWrite(n, k)
            <4>1. workers[n][k] + 1 \in Version BY SMTT(30), <2>3, <3>1, MeshAssumption DEF BeginWrite, Version
            <4> QED BY <3>1, <4>1 DEF BeginWrite
        <3>2. CASE BeginRemove(n, k)
            <4>1. 0 \in Version BY SMTT(30), MeshAssumption DEF Version
            <4> QED BY <3>2, <4>1 DEF BeginRemove
        <3> QED BY <1>2, <3>1, <3>2
    <2>5. pending' \in [Nodes -> Writes \union {None}] BY <2>4 DEF Types, Writes
    <2> QED BY <2>1, <2>2, <2>5 DEF Types
<1>3. ASSUME NEW n \in Nodes, EndWrite(n) PROVE Types'
    <2>1. pending[n] \in Writes BY <1>3 DEF Types, EndWrite
    <2>2. PICK k \in Keys, v \in Version : pending[n].key = k /\ pending[n].version = v
        BY <2>1 DEF Writes
    <2>3. workers' = [workers EXCEPT ![n] = [workers[n] EXCEPT ![k] = v]]
        BY <1>3, <2>2 DEF EndWrite, Types
    <2>4. workers' \in [Nodes -> Entries] BY <2>3 DEF Types, Entries
    <2>5. pending' \in [Nodes -> Writes \union {None}] BY <1>3 DEF EndWrite, Types
    <2>6. removed' \subseteq Keys /\ excused' \subseteq Excuse
        BY SMTT(30), <1>3, <2>2 DEF EndWrite, Types, Excuse
    <2> QED BY <1>3, <2>4, <2>5, <2>6 DEF EndWrite, Types
<1>4. ASSUME NEW n \in Nodes, BeginCollect(n) PROVE Types'
    <2>1. collected' = [collected EXCEPT ![n] = generation[n]]
          /\ UNCHANGED <<workers, pending, generation, removed, excused, missed, link_vars, batch, offered>>
        BY <1>4 DEF BeginCollect
    <2>2. collected' \in [Nodes -> Nat] /\ \A x \in Nodes : collected'[x] <= generation'[x]
        BY SMTT(30), <2>1 DEF Types
    <2> QED BY <2>1, <2>2 DEF Types
<1>5. ASSUME NEW n \in Nodes, EndCollect(n) PROVE Types'
    <2> DEFINE published == IF collected[n] = 0 THEN Nothing ELSE workers[n]
               row == [k \in Keys |-> IF published[k] > 0 THEN published[k] ELSE offered[n][k]]
    <2>1. published \in Entries BY NothingEntries DEF Types
    <2>2. row \in Entries
        <3> HIDE DEF published
        <3> QED BY SMTT(30), <2>1 DEF Types, Entries
    <2>3. /\ batch' = [batch EXCEPT ![n] = published]
          /\ offered' = [offered EXCEPT ![n] = row]
          /\ generation' = [generation EXCEPT ![n] = generation[n] - collected[n]]
          /\ collected' = [collected EXCEPT ![n] = 0]
          /\ missed' = IF pending[n] # None
                       THEN missed \union {[node |-> n, key |-> pending[n].key]} ELSE missed
          /\ UNCHANGED <<workers, pending, removed, excused, link_vars>>
        BY <1>5 DEF EndCollect, Types
    <2> HIDE DEF published, row
    <2>4. batch' \in [Nodes -> Entries] /\ offered' \in [Nodes -> Entries]
        BY <2>1, <2>2, <2>3 DEF Types
    <2>5. /\ generation' \in [Nodes -> Nat] /\ collected' \in [Nodes -> Nat]
          /\ \A x \in Nodes : collected'[x] <= generation'[x]
        BY SMTT(30), <2>3 DEF Types
    <2>6. missed' \subseteq Excuse BY SMTT(30), <2>3 DEF Types, Excuse, Writes
    <2> QED BY <2>3, <2>4, <2>5, <2>6 DEF Types
<1>6. ASSUME NEW c \in Channels, Turn(c)
      PROVE  UNCHANGED <<workers, pending, generation, removed, missed, round_vars,
                         connected, greeting, owed, breaks>>
    BY <1>6 DEF Turn
<1>7. ASSUME NEW c \in Channels, Send(c) PROVE Types'
    <2> DEFINE msg == [kind |-> "update", entries |-> Filtered(c)]
    <2>1. Turn(c) /\ channel' = [channel EXCEPT ![c] = Append(@, msg)]
          /\ watermark' = [watermark EXCEPT ![c] = Marked(c)] /\ UNCHANGED excused
          /\ refused' \subseteq refused
        BY <1>7 DEF Send
    <2>2. msg \in Message BY FilteredType DEF Message
    <2> HIDE DEF msg
    <2>3. channel[c] \in Seq(Message) /\ Len(channel[c]) < Capacity
        BY SMTT(30), <1>7, MeshAssumption DEF Send, Full, Types
    <2>4. Append(channel[c], msg) \in Seq(Message) /\ Len(Append(channel[c], msg)) <= Capacity
        BY SMTT(30), <2>2, <2>3, QueueOps, MeshAssumption
    <2>5. /\ channel' \in [Channels -> Seq(Message)]
          /\ \A d \in Channels : Len(channel'[d]) <= Capacity
        BY <2>1, <2>4 DEF Types
    <2>6. watermark' \in [Channels -> Entries] BY <2>1, FilteredType DEF Types
    <2> QED BY <1>6, <2>1, <2>5, <2>6 DEF Types
<1>8. ASSUME NEW c \in Channels, SkipSend(c) PROVE Types'
    <2> DEFINE new == [node : {c[2]}, key : Present(Filtered(c))]
    <2>1. /\ Turn(c) /\ UNCHANGED channel
          /\ watermark' \in {watermark, [watermark EXCEPT ![c] = Marked(c)]}
          /\ excused' \in {excused, excused \union new}
          /\ refused' \in {refused, refused \union Refusing(c)}
        BY <1>8 DEF SkipSend
    <2>2. new \subseteq Excuse BY ChannelFacts DEF Excuse, Present
    <2> HIDE DEF new
    <2>3. watermark' \in [Channels -> Entries] BY <2>1, FilteredType DEF Types
    <2>4. Refusing(c) \subseteq Refusal
        <3>1. Filtered(c) \in [Keys -> Version] BY FilteredType DEF Entries
        <3> HIDE DEF Filtered
        <3> QED BY SMTT(30), <3>1 DEF Refusing, Refusal, Present
    <2> HIDE DEF Refusing
    <2>5. excused' \subseteq Excuse /\ refused' \subseteq Refusal BY <2>1, <2>2, <2>4 DEF Types
    <2> QED BY <1>6, <2>1, <2>3, <2>5 DEF Types
<1>9. ASSUME NEW c \in Channels, Ready(c), NEW reply \in Message \union {None}, Handle(c, reply),
             workers' \in [Nodes -> Entries], generation' \in [Nodes -> Nat],
             \A x \in Nodes : collected[x] <= generation'[x], excused' \subseteq Excuse
      PROVE  Types'
    <2>1. /\ channel' \in [Channels -> Seq(Message)]
          /\ \A d \in Channels : Len(channel'[d]) <= Capacity
          /\ owed' \in [Channels -> Message \union {None}]
        BY <1>9, HandleFacts
    <2>2. UNCHANGED <<pending, removed, missed, round_vars, connected, greeting,
                      watermark, breaks, refused>>
        BY <1>9 DEF Handle
    <2> QED BY <1>9, <2>1, <2>2 DEF Types
<1>10. ASSUME NEW c \in Channels, Ready(c)
       PROVE  /\ Head(channel[c]) \in Message
              /\ Head(channel[c]).kind \in {"update", "snapshot"} =>
                   Head(channel[c]).entries \in Entries
    <2>1. channel[c] \in Seq(Message) /\ channel[c] # <<>> BY <1>10 DEF Types, Ready
    <2> QED BY SMTT(30), <2>1, QueueOps, MessageFacts
<1>11. Ack \in Message BY DEF Ack, Message
<1>12. ASSUME NEW c \in Channels, ReceiveUpdate(c) PROVE Types'
    <2> DEFINE entries == Head(channel[c]).entries
    <2>1. /\ Ready(c) /\ Stored(c[2], Apply(c[2], entries), entries) /\ Handle(c, Ack)
          /\ UNCHANGED excused /\ entries \in Entries
        BY <1>10, <1>12 DEF ReceiveUpdate
    <2>2. c[2] \in Nodes /\ Apply(c[2], entries) \in SUBSET Keys
        BY ChannelFacts DEF Apply, Present
    <2> HIDE DEF entries
    <2>3. /\ workers' \in [Nodes -> Entries] /\ generation' \in [Nodes -> Nat]
          /\ \A x \in Nodes : collected[x] <= generation'[x]
        BY <2>1, <2>2, ApplyFacts
    <2> QED BY <1>9, <1>11, <2>1, <2>3 DEF Types
<1>13. ASSUME NEW c \in Channels, ReceiveSnapshot(c) PROVE Types'
    <2> DEFINE entries == Head(channel[c]).entries
    <2>1. /\ Ready(c) /\ Stored(c[2], Present(entries), entries) /\ Handle(c, Ack)
          /\ entries \in Entries
          /\ excused' = excused \union [node : {c[2]}, key : Present(entries)]
        BY <1>10, <1>13 DEF ReceiveSnapshot
    <2>2. c[2] \in Nodes /\ Present(entries) \in SUBSET Keys BY ChannelFacts DEF Present
    <2> HIDE DEF entries
    <2>3. /\ workers' \in [Nodes -> Entries] /\ generation' \in [Nodes -> Nat]
          /\ \A x \in Nodes : collected[x] <= generation'[x]
        BY <2>1, <2>2, ApplyFacts
    <2>4. excused' \subseteq Excuse BY <2>1, <2>2 DEF Excuse, Types
    <2> QED BY <1>9, <1>11, <2>1, <2>3, <2>4
<1>14. ASSUME NEW c \in Channels, ReceiveRequest(c) PROVE Types'
    <2>1. c[2] \in Nodes BY ChannelFacts
    <2>2. Snapshot(c[2]) \in Message \union {None} BY <2>1 DEF Snapshot, Message, Types
    <2>3. /\ Ready(c) /\ Handle(c, Snapshot(c[2])) /\ UNCHANGED <<workers, generation, excused>>
        BY <1>14 DEF ReceiveRequest
    <2> HIDE DEF Snapshot
    <2> QED BY <1>9, <2>2, <2>3 DEF Types
<1>15. ASSUME NEW c \in Channels, ReceiveAck(c) PROVE Types'
    <2>1. /\ Ready(c) /\ Handle(c, None) /\ UNCHANGED <<workers, generation, excused>>
        BY <1>15 DEF ReceiveAck
    <2> QED BY <1>9, <2>1 DEF Types
<1>16. ASSUME NEW c \in Channels, NEW msg \in Message, ~Full(c),
              channel' = [channel EXCEPT ![c] = Append(@, msg)]
       PROVE  /\ channel' \in [Channels -> Seq(Message)]
              /\ \A d \in Channels : Len(channel'[d]) <= Capacity
    <2>1. channel[c] \in Seq(Message) /\ Len(channel[c]) < Capacity
        BY SMTT(30), <1>16, MeshAssumption DEF Full, Types
    <2>2. Append(channel[c], msg) \in Seq(Message) /\ Len(Append(channel[c], msg)) <= Capacity
        BY SMTT(30), <2>1, QueueOps, MeshAssumption
    <2> QED BY <1>16, <2>2 DEF Types
<1>17. ASSUME NEW c \in Channels, Reply(c) PROVE Types'
    <2>1. owed[c] \in Message BY <1>17 DEF Reply, Types
    <2>2. /\ channel' \in [Channels -> Seq(Message)]
          /\ \A d \in Channels : Len(channel'[d]) <= Capacity
        BY <1>16, <1>17, <2>1 DEF Reply
    <2>3. owed' \in [Channels -> Message \union {None}] BY <1>17 DEF Reply, Types
    <2> QED BY <1>17, <2>2, <2>3 DEF Reply, Types
<1>18. ASSUME NEW p \in Pairs, Connect(p) PROVE Types'
    <2>1. connected' = connected \union {p} /\ greeting' = greeting \union {p} /\ Fresh(p)
        BY <1>18 DEF Connect
    <2> QED BY <2>1, FreshFacts DEF Fresh, Types
<1>19. ASSUME NEW p \in Pairs, Disconnect(p) PROVE Types'
    <2>1. connected' = connected \ {p} /\ greeting' = greeting \ {p} /\ Fresh(p)
        BY <1>19 DEF Disconnect
    <2> QED BY <2>1, FreshFacts DEF Fresh, Types
<1>20. ASSUME NEW p \in Pairs, Greet(p) PROVE Types'
    <2> DEFINE c == Back(p)
               msg == [kind |-> "request"]
    <2>1. c \in Channels /\ msg \in Message BY PairFacts DEF Message
    <2>2. /\ greeting' = greeting \ {p}
          /\ UNCHANGED <<workers, pending, generation, removed, excused, missed, round_vars,
                         connected, watermark, owed, breaks, refused>>
          /\ \/ UNCHANGED channel
             \/ ~Full(c) /\ channel' = [channel EXCEPT ![c] = Append(@, msg)]
        BY <1>20 DEF Greet
    <2> HIDE DEF c, msg
    <2>3. /\ channel' \in [Channels -> Seq(Message)]
          /\ \A d \in Channels : Len(channel'[d]) <= Capacity
        <3>1. CASE UNCHANGED channel BY <3>1 DEF Types
        <3>2. CASE ~Full(c) /\ channel' = [channel EXCEPT ![c] = Append(@, msg)]
            BY <1>16, <2>1, <3>2
        <3> QED BY <2>2, <3>1, <3>2
    <2> QED BY <2>2, <2>3 DEF Types
<1>21. CASE UNCHANGED vars BY <1>21 DEF vars, Types
<1>22. ASSUME NEW c \in Channels, Sender(c) \/ Handler(c) PROVE Types'
    <2>1. Back(c) \in Channels BY ChannelFacts
    <2> QED BY <1>7, <1>8, <1>12, <1>13, <1>14, <1>15, <1>17, <1>22, <2>1 DEF Sender, Handler
<1> QED BY <1>2, <1>3, <1>4, <1>5, <1>18, <1>19, <1>20, <1>21, <1>22 DEF Next, Round

-----------------------------------------------------------------------------
(* The store and its collector *)

\* A step stores a message's entries, in keys that are not locked.
Stores(n, keys, entries) ==
    /\ entries \in Entries /\ keys \subseteq Present(entries)
    /\ Stored(n, keys, entries)
    /\ UNCHANGED <<pending, collected, offered, missed>>

\* A step that has nothing to do with local writes.
Elsewhere ==
    /\ UNCHANGED <<workers, pending, generation, offered>>
    /\ missed \subseteq missed'

(* Every step is a half of a write, the end of a round, the storing of a    *)
(* message, or none of the store's business.                                *)
LEMMA StoreSteps ==
    ASSUME Types, [Next]_vars
    PROVE  \/ \E n \in Nodes, k \in Keys : BeginWrite(n, k) \/ BeginRemove(n, k)
           \/ \E n \in Nodes : EndWrite(n) \/ EndCollect(n)
           \/ \E n \in Nodes, entries \in Entries, keys \in SUBSET Keys : Stores(n, keys, entries)
           \/ Elsewhere
<1> USE DEF link_vars, round_vars
<1>1. ASSUME NEW c \in Channels, Ready(c)
      PROVE  /\ c[2] \in Nodes
             /\ Head(channel[c]).kind \in {"update", "snapshot"} =>
                  Head(channel[c]).entries \in Entries
    <2>1. channel[c] \in Seq(Message) /\ channel[c] # <<>> BY <1>1 DEF Types, Ready
    <2> QED BY SMTT(30), <2>1, ChannelFacts, QueueOps, MessageFacts
<1>2. ASSUME NEW c \in Channels, ReceiveUpdate(c) \/ ReceiveSnapshot(c)
      PROVE  \E n \in Nodes, entries \in Entries, keys \in SUBSET Keys : Stores(n, keys, entries)
    <2> DEFINE e == Head(channel[c]).entries
    <2>1. Ready(c) /\ c[2] \in Nodes /\ e \in Entries
        BY <1>1, <1>2 DEF ReceiveUpdate, ReceiveSnapshot
    <2>2. PICK keys \in SUBSET Keys : keys \subseteq Present(e) /\ Stored(c[2], keys, e)
        <3>1. CASE ReceiveUpdate(c)
            <4>1. Apply(c[2], e) \subseteq Present(e) /\ Apply(c[2], e) \in SUBSET Keys
                BY DEF Apply, Present
            <4> QED BY <3>1, <4>1 DEF ReceiveUpdate
        <3>2. CASE ReceiveSnapshot(c)
            <4>1. Present(e) \in SUBSET Keys BY DEF Present
            <4> QED BY <3>2, <4>1 DEF ReceiveSnapshot
        <3> QED BY <1>2, <3>1, <3>2
    <2>3. UNCHANGED <<pending, collected, offered, missed>>
        BY <1>2 DEF ReceiveUpdate, ReceiveSnapshot, Handle
    <2> HIDE DEF e
    <2>4. Stores(c[2], keys, e) BY <2>1, <2>2, <2>3 DEF Stores
    <2> QED BY <2>1, <2>4
<1>3. ASSUME NEW c \in Channels, Send(c) \/ SkipSend(c) PROVE Elsewhere
    BY <1>3 DEF Send, SkipSend, Turn, Elsewhere
<1>4. ASSUME NEW c \in Channels, ReceiveRequest(c) \/ ReceiveAck(c) PROVE Elsewhere
    BY <1>4 DEF ReceiveRequest, ReceiveAck, Handle, Elsewhere
<1>5. ASSUME NEW c \in Channels, Reply(Back(c)) PROVE Elsewhere
    BY <1>5 DEF Reply, Elsewhere
<1>6. ASSUME NEW p \in Pairs, Connect(p) \/ Greet(p) \/ Disconnect(p) PROVE Elsewhere
    BY <1>6 DEF Connect, Greet, Disconnect, Fresh, Elsewhere
<1>7. ASSUME NEW n \in Nodes, BeginCollect(n) PROVE Elsewhere
    BY <1>7 DEF BeginCollect, Elsewhere
<1>8. CASE UNCHANGED vars BY <1>8 DEF vars, Elsewhere
<1> QED BY <1>2, <1>3, <1>4, <1>5, <1>6, <1>7, <1>8 DEF Next, Round, Sender, Handler

LEMMA UnderwayStep ==
    ASSUME Types, Underway, [Next]_vars
    PROVE  Underway'
<1> USE DEF link_vars, round_vars
<1> SUFFICES ASSUME NEW m \in Nodes, pending'[m] # None
             PROVE  /\ \/ pending'[m].version = 0
                       \/ pending'[m].version > workers'[m][pending'[m].key]
                    /\ \/ generation'[m] > 0
                       \/ [node |-> m, key |-> pending'[m].key] \in missed'
    BY DEF Underway
<1>1. ASSUME pending'[m] = pending[m], generation'[m] = generation[m],
             workers'[m] = workers[m], missed \subseteq missed'
      PROVE  /\ \/ pending'[m].version = 0
                \/ pending'[m].version > workers'[m][pending'[m].key]
             /\ \/ generation'[m] > 0
                \/ [node |-> m, key |-> pending'[m].key] \in missed'
    BY <1>1 DEF Underway
<1>2. ASSUME NEW n \in Nodes, NEW k \in Keys, BeginWrite(n, k) \/ BeginRemove(n, k)
      PROVE  /\ \/ pending'[m].version = 0
                \/ pending'[m].version > workers'[m][pending'[m].key]
             /\ \/ generation'[m] > 0
                \/ [node |-> m, key |-> pending'[m].key] \in missed'
    <2>1. /\ generation' = [generation EXCEPT ![n] = collected[n] + 1]
          /\ UNCHANGED <<workers, missed>>
        BY <1>2 DEF BeginWrite, BeginRemove, Bumped
    <2>2. PICK v : /\ pending' = [pending EXCEPT ![n] = [key |-> k, version |-> v]]
                   /\ v = 0 \/ v = workers[n][k] + 1
        BY <1>2 DEF BeginWrite, BeginRemove
    <2>3. CASE m = n
        <3>1. collected[n] \in Nat /\ workers[n][k] \in Int BY SMTT(30) DEF Types, Entries, Version
        <3>2. generation'[n] = collected[n] + 1 BY <2>1 DEF Types
        <3>3. pending'[n] = [key |-> k, version |-> v] BY <2>2 DEF Types
        <3> QED BY SMTT(30), <2>1, <2>2, <2>3, <3>1, <3>2, <3>3
    <2>4. CASE m # n
        <3>1. pending'[m] = pending[m] /\ generation'[m] = generation[m]
            BY <2>1, <2>2, <2>4 DEF Types
        <3> QED BY <1>1, <2>1, <3>1
    <2> QED BY <2>3, <2>4
<1>3. ASSUME NEW n \in Nodes, EndWrite(n)
      PROVE  /\ \/ pending'[m].version = 0
                \/ pending'[m].version > workers'[m][pending'[m].key]
             /\ \/ generation'[m] > 0
                \/ [node |-> m, key |-> pending'[m].key] \in missed'
    <2>1. m # n BY <1>3 DEF EndWrite, Types
    <2>2. /\ pending'[m] = pending[m] /\ workers'[m] = workers[m]
          /\ UNCHANGED <<generation, missed>>
        BY <1>3, <2>1 DEF EndWrite, Types
    <2> QED BY <1>1, <2>2
<1>4. ASSUME NEW n \in Nodes, EndCollect(n)
      PROVE  /\ \/ pending'[m].version = 0
                \/ pending'[m].version > workers'[m][pending'[m].key]
             /\ \/ generation'[m] > 0
                \/ [node |-> m, key |-> pending'[m].key] \in missed'
    <2>1. /\ UNCHANGED <<workers, pending>>
          /\ missed' = IF pending[n] # None
                       THEN missed \union {[node |-> n, key |-> pending[n].key]} ELSE missed
          /\ m # n => generation'[m] = generation[m]
        BY <1>4 DEF EndCollect, Types
    <2>2. CASE m = n BY <2>1, <2>2 DEF Underway
    <2>3. CASE m # n BY <1>1, <2>1, <2>3
    <2> QED BY <2>2, <2>3
<1>5. ASSUME NEW n \in Nodes, NEW entries \in Entries, NEW keys \in SUBSET Keys,
             Stores(n, keys, entries)
      PROVE  /\ \/ pending'[m].version = 0
                \/ pending'[m].version > workers'[m][pending'[m].key]
             /\ \/ generation'[m] > 0
                \/ [node |-> m, key |-> pending'[m].key] \in missed'
    <2>1. /\ Stored(n, keys, entries) /\ keys \subseteq Present(entries)
          /\ UNCHANGED <<pending, missed>>
        BY <1>5 DEF Stores
    <2>2. CASE m = n
        <3>1. pending[n].key \notin keys /\ pending[n].key \in Keys
            BY <2>1, <2>2 DEF Stored, Unlocked, Types, Writes
        <3>2. workers'[n][pending[n].key] = workers[n][pending[n].key]
            BY SMTT(30), <2>1, <3>1, ApplyFacts
        <3>3. generation'[n] = generation[n] \/ generation'[n] > 0
            BY <2>1, ApplyFacts
        <3> QED BY <2>1, <2>2, <3>2, <3>3 DEF Underway
    <2>3. CASE m # n
        <3>1. generation'[m] = generation[m] /\ workers'[m] = workers[m]
            BY SMTT(30), <2>1, <2>3, ApplyFacts
        <3> QED BY <1>1, <2>1, <3>1
    <2> QED BY <2>2, <2>3
<1>6. CASE Elsewhere BY <1>1, <1>6 DEF Elsewhere
<1> QED BY StoreSteps, <1>2, <1>3, <1>4, <1>5, <1>6

LEMMA ScannedStep ==
    ASSUME Types, Underway, ScannedMeansOffered, [Next]_vars
    PROVE  ScannedMeansOffered'
<1> USE DEF link_vars, round_vars
<1> SUFFICES ASSUME NEW m \in Nodes, NEW k \in Keys, generation'[m] = 0,
                    [node |-> m, key |-> k] \notin missed', workers'[m][k] > 0
             PROVE  offered'[m][k] = workers'[m][k]
    BY DEF ScannedMeansOffered
<1>1. ASSUME generation[m] = 0, missed \subseteq missed',
             offered'[m][k] = offered[m][k], workers'[m][k] = workers[m][k]
      PROVE  offered'[m][k] = workers'[m][k]
    BY <1>1 DEF ScannedMeansOffered
<1>2. ASSUME NEW n \in Nodes, NEW x \in Keys, BeginWrite(n, x) \/ BeginRemove(n, x)
      PROVE  offered'[m][k] = workers'[m][k]
    <2>1. /\ generation' = [generation EXCEPT ![n] = collected[n] + 1]
          /\ UNCHANGED <<workers, missed, offered>>
        BY <1>2 DEF BeginWrite, BeginRemove, Bumped
    <2>2. collected[n] \in Nat /\ generation'[n] = collected[n] + 1 BY <2>1 DEF Types
    <2>3. m # n BY SMTT(30), <2>2
    <2>4. generation'[m] = generation[m] BY <2>1, <2>3 DEF Types
    <2> QED BY <1>1, <2>1, <2>4
<1>3. ASSUME NEW n \in Nodes, EndWrite(n) PROVE offered'[m][k] = workers'[m][k]
    <2>1. /\ UNCHANGED <<generation, missed, offered>> /\ pending[n] # None
          /\ workers' = [workers EXCEPT ![n][pending[n].key] = pending[n].version]
        BY <1>3 DEF EndWrite
    <2>2. ~(m = n /\ k = pending[n].key) BY SMTT(30), <2>1 DEF Underway
    <2>3. workers[n] \in Entries /\ workers \in [Nodes -> Entries] BY DEF Types
    <2>4. workers'[m][k] = workers[m][k] BY <2>1, <2>2, <2>3 DEF Entries
    <2> QED BY <1>1, <2>1, <2>4
<1>4. ASSUME NEW n \in Nodes, EndCollect(n) PROVE offered'[m][k] = workers'[m][k]
    <2>1. /\ UNCHANGED workers /\ missed \subseteq missed'
          /\ generation' = [generation EXCEPT ![n] = generation[n] - collected[n]]
        BY <1>4 DEF EndCollect
    <2>2. CASE m # n
        <3>1. generation'[m] = generation[m] BY <2>1, <2>2 DEF Types
        <3>2. offered'[m] = offered[m] BY <1>4, <2>2 DEF EndCollect, Types
        <3> QED BY <1>1, <2>1, <3>1, <3>2
    <2>3. CASE m = n
        <3>1. generation[n] \in Nat /\ collected[n] \in Nat
              /\ generation'[n] = generation[n] - collected[n]
            BY <2>1 DEF Types
        <3>2. generation[n] = collected[n] BY SMTT(30), <2>3, <3>1
        <3> DEFINE published == IF collected[n] = 0 THEN Nothing ELSE workers[n]
        <3>3. offered' = [offered EXCEPT ![n] =
                            [x \in Keys |-> IF published[x] > 0 THEN published[x] ELSE offered[n][x]]]
            BY <1>4 DEF EndCollect, Types
        <3>4. offered'[n][k] = IF published[k] > 0 THEN published[k] ELSE offered[n][k]
            <4> HIDE DEF published
            <4> QED BY <3>3 DEF Types
        <3>5. CASE collected[n] = 0
            <4>1. published[k] = 0 BY <3>5 DEF Nothing
            <4> HIDE DEF published
            <4> QED BY SMTT(30), <1>1, <2>1, <2>3, <3>2, <3>4, <3>5, <4>1
        <3>6. CASE collected[n] # 0
            <4>1. published[k] = workers[n][k] BY <3>6
            <4> HIDE DEF published
            <4> QED BY <2>1, <2>3, <3>4, <4>1
        <3> QED BY <3>5, <3>6
    <2> QED BY <2>2, <2>3
<1>5. ASSUME NEW n \in Nodes, NEW entries \in Entries, NEW keys \in SUBSET Keys,
             Stores(n, keys, entries)
      PROVE  offered'[m][k] = workers'[m][k]
    <2>1. Stored(n, keys, entries) /\ UNCHANGED <<offered, missed>> BY <1>5 DEF Stores
    <2>2. generation'[m] = generation[m] /\ workers'[m] = workers[m]
        BY SMTT(30), <2>1, ApplyFacts
    <2> QED BY <1>1, <2>1, <2>2
<1>6. CASE Elsewhere BY <1>1, <1>6 DEF Elsewhere
<1> QED BY StoreSteps, <1>2, <1>3, <1>4, <1>5, <1>6

-----------------------------------------------------------------------------
(* Watermarks *)

(* A message behind the others hides none of them, and taking the first one *)
(* away loses no other.                                                     *)
LEMMA CarriesOps ==
    ASSUME NEW q \in Seq(Message), NEW k \in Keys, NEW v \in Version, Carries(q, k, v)
    PROVE  /\ \A msg \in Message : Carries(Append(q, msg), k, v)
           /\ \/ Carries(Tail(q), k, v)
              \/ q # <<>> /\ Head(q).kind = "update" /\ v <= Head(q).entries[k]
<1>1. PICK i \in DOMAIN q : q[i].kind = "update" /\ v <= q[i].entries[k] BY DEF Carries
<1>2. i \in 1 .. Len(q) /\ Len(q) \in Nat BY SMTT(30), <1>1
<1>3. ASSUME NEW msg \in Message PROVE Carries(Append(q, msg), k, v)
    <2>1. i \in DOMAIN Append(q, msg) /\ Append(q, msg)[i] = q[i] BY SMTT(30), <1>2
    <2> QED BY <1>1, <2>1 DEF Carries
<1>4. CASE i = 1
    <2>1. q # <<>> /\ Head(q) = q[1] BY SMTT(30), <1>2, <1>4
    <2> QED BY <1>1, <1>3, <1>4, <2>1
<1>5. CASE i # 1
    <2>1. i - 1 \in DOMAIN Tail(q) /\ Tail(q)[i - 1] = q[i] BY SMTT(30), <1>2, <1>5
    <2> QED BY <1>1, <1>3, <2>1 DEF Carries
<1> QED BY <1>4, <1>5

LEMMA CarriesLast ==
    ASSUME NEW q \in Seq(Message), NEW msg \in Message, NEW k \in Keys, NEW v \in Version,
           msg.kind = "update", v <= msg.entries[k]
    PROVE  Carries(Append(q, msg), k, v)
<1>1. Len(q) + 1 \in DOMAIN Append(q, msg) /\ Append(q, msg)[Len(q) + 1] = msg BY SMTT(30)
<1> QED BY <1>1 DEF Carries

LEMMA CoveredStep ==
    ASSUME Types, Underway, Covered, [Next]_vars
    PROVE  Covered'
<1> USE DEF link_vars, round_vars
<1> DEFINE Good(d, k) == \/ [node |-> d[2], key |-> k] \in excused'
                         \/ watermark'[d][k] <= workers'[d[2]][k]
                         \/ Carries(channel'[d], k, watermark'[d][k])
<1> SUFFICES ASSUME NEW d \in Channels, NEW k \in Keys PROVE Good(d, k)
    BY DEF Covered, Carries
<1>1. /\ d[1] \in Nodes /\ d[2] \in Nodes /\ channel[d] \in Seq(Message)
      /\ watermark[d][k] \in Version /\ watermark[d][k] \in Int
      /\ \A n \in Nodes : workers[n][k] \in Int
    BY SMTT(30), ChannelFacts DEF Types, Entries, Version
<1>2. \/ [node |-> d[2], key |-> k] \in excused
      \/ watermark[d][k] <= workers[d[2]][k]
      \/ Carries(channel[d], k, watermark[d][k])
    BY DEF Covered
\* Nothing happens to this channel, and the peer's store is no older.
<1>3. ASSUME watermark'[d] = watermark[d], channel'[d] = channel[d], excused \subseteq excused',
             \/ [node |-> d[2], key |-> k] \in excused'
             \/ workers'[d[2]][k] = workers[d[2]][k]
             \/ workers'[d[2]][k] \in Int /\ workers'[d[2]][k] >= workers[d[2]][k]
      PROVE  Good(d, k)
    BY SMTT(30), <1>1, <1>2, <1>3
\* A message is appended.
<1>4. ASSUME NEW msg \in Message, channel'[d] = Append(channel[d], msg),
             watermark'[d] = watermark[d], excused \subseteq excused', UNCHANGED workers
      PROVE  Good(d, k)
    <2>1. Carries(channel[d], k, watermark[d][k]) => Carries(channel'[d], k, watermark'[d][k])
        BY <1>1, <1>4, CarriesOps
    <2> QED BY <1>2, <1>4, <2>1
<1> HIDE DEF Good
<1>5. ASSUME NEW n \in Nodes, NEW x \in Keys, BeginWrite(n, x) \/ BeginRemove(n, x)
      PROVE  Good(d, k)
    BY <1>3, <1>5 DEF BeginWrite, BeginRemove
<1>6. ASSUME NEW n \in Nodes, EndWrite(n) PROVE Good(d, k)
    <2>1. /\ pending[n] \in Writes /\ UNCHANGED <<watermark, channel>>
          /\ workers' = [workers EXCEPT ![n][pending[n].key] = pending[n].version]
          /\ excused' = IF pending[n].version = 0
                        THEN excused \union {[node |-> n, key |-> pending[n].key]} ELSE excused
          /\ pending[n].version = 0 \/ pending[n].version > workers[n][pending[n].key]
        BY <1>6 DEF EndWrite, Types, Underway
    <2>2. workers \in [Nodes -> Entries] /\ workers[n] \in Entries BY DEF Types
    <2>3. CASE d[2] = n /\ pending[n].key = k
        <3>1. workers'[d[2]][k] = pending[n].version BY <2>1, <2>2, <2>3 DEF Entries
        <3>2. pending[n].version \in Int BY SMTT(30), <2>1 DEF Writes, Version
        <3>3. CASE pending[n].version = 0 BY <1>3, <2>1, <2>3, <3>3
        <3>4. CASE pending[n].version > workers[n][k]
            <4>1. workers'[d[2]][k] \in Int /\ workers'[d[2]][k] >= workers[d[2]][k]
                BY SMTT(30), <1>1, <2>3, <3>1, <3>2, <3>4
            <4> QED BY <1>3, <2>1, <4>1
        <3> QED BY <2>1, <2>3, <3>3, <3>4
    <2>4. CASE ~(d[2] = n /\ pending[n].key = k)
        <3>1. workers'[d[2]][k] = workers[d[2]][k] BY <1>1, <2>1, <2>2, <2>4 DEF Entries
        <3> QED BY <1>3, <2>1, <3>1
    <2> QED BY <2>3, <2>4
<1>7. ASSUME NEW n \in Nodes, Round(n) PROVE Good(d, k)
    BY <1>3, <1>7 DEF Round, BeginCollect, EndCollect
<1>8. ASSUME NEW c \in Channels, Send(c) PROVE Good(d, k)
    <2> DEFINE msg == [kind |-> "update", entries |-> Filtered(c)]
    <2>1. /\ channel' = [channel EXCEPT ![c] = Append(@, msg)]
          /\ watermark' = [watermark EXCEPT ![c] = Marked(c)]
          /\ UNCHANGED <<workers, excused>>
        BY <1>8 DEF Send, Turn
    <2>2. Filtered(c) \in Entries /\ Marked(c) \in Entries BY FilteredType
    <2>3. msg \in Message /\ msg.kind = "update" /\ msg.entries = Filtered(c)
        BY <2>2 DEF Message
    <2> HIDE DEF msg
    <2>4. CASE d # c BY <1>3, <2>1, <2>4 DEF Types
    <2>5. CASE d = c
        <3>1. channel'[d] = Append(channel[d], msg) /\ watermark'[d] = Marked(c)
            BY <2>1, <2>5 DEF Types
        <3>2. CASE k \in Present(Filtered(c))
            <4>1. Marked(c)[k] = Filtered(c)[k] BY <3>2, FilteredType
            <4>2. Marked(c)[k] \in Version /\ Marked(c)[k] <= msg.entries[k]
                BY SMTT(30), <2>2, <2>3, <4>1 DEF Entries, Version
            <4> QED BY <1>1, <2>3, <3>1, <4>2, CarriesLast DEF Good
        <3>3. CASE k \notin Present(Filtered(c))
            <4>1. watermark'[d][k] = watermark[d][k] BY <2>5, <3>1, <3>3, FilteredType
            <4>2. Carries(channel[d], k, watermark[d][k]) => Carries(channel'[d], k, watermark'[d][k])
                BY <1>1, <2>3, <3>1, <4>1, CarriesOps
            <4> QED BY <1>2, <2>1, <4>1, <4>2 DEF Good
        <3> QED BY <3>2, <3>3
    <2> QED BY <2>4, <2>5
<1>9. ASSUME NEW c \in Channels, SkipSend(c) PROVE Good(d, k)
    <2>1. UNCHANGED <<workers, channel>> BY <1>9 DEF SkipSend, Turn
    <2>2. CASE ~TooLarge(c) BY <1>3, <1>9, <2>1, <2>2 DEF SkipSend
    <2>3. CASE TooLarge(c)
        <3>1. /\ watermark' = [watermark EXCEPT ![c] = Marked(c)]
              /\ excused' = excused \union [node : {c[2]}, key : Present(Filtered(c))]
            BY <1>9, <2>3 DEF SkipSend
        <3>2. CASE d # c BY <1>3, <2>1, <3>1, <3>2 DEF Types
        <3>3. CASE d = c /\ k \in Present(Filtered(c))
            <4>1. [node |-> d[2], key |-> k] \in excused' BY <3>1, <3>3
            <4> QED BY <4>1 DEF Good
        <3>4. CASE d = c /\ k \notin Present(Filtered(c))
            <4>1. watermark'[d] = Marked(c) BY <3>1, <3>4 DEF Types
            <4>2. watermark'[d][k] = watermark[d][k] BY <3>4, <4>1, FilteredType
            <4> QED BY <1>2, <2>1, <3>1, <4>2 DEF Good
        <3> QED BY <3>2, <3>3, <3>4
    <2> QED BY <2>2, <2>3
\* A message is handled: it is not an update, or this store has taken it.
<1>10. ASSUME NEW c \in Channels, Ready(c), NEW reply \in Message \union {None}, Handle(c, reply),
              excused \subseteq excused',
              \/ [node |-> d[2], key |-> k] \in excused'
              \/ workers'[d[2]][k] \in Int /\ workers'[d[2]][k] >= workers[d[2]][k],
              d = c /\ Head(channel[c]).kind = "update" =>
                workers'[d[2]][k] >= Head(channel[c]).entries[k]
       PROVE  Good(d, k)
    <2>1. CASE [node |-> d[2], key |-> k] \in excused' BY <2>1 DEF Good
    <2>2. CASE workers'[d[2]][k] \in Int /\ workers'[d[2]][k] >= workers[d[2]][k]
        <3>1. watermark'[d] = watermark[d] BY <1>10 DEF Handle
        <3>2. CASE [node |-> d[2], key |-> k] \in excused BY <1>10, <3>2 DEF Good
        <3>3. CASE watermark[d][k] <= workers[d[2]][k]
            <4>1. watermark'[d][k] <= workers'[d[2]][k] BY SMTT(30), <1>1, <2>2, <3>1, <3>3
            <4> QED BY <4>1 DEF Good
        <3>4. CASE Carries(channel[d], k, watermark[d][k])
            <4>1. CASE d = c
                <5>1. channel'[d] = Tail(channel[d]) BY <1>10, <4>1, HandleFacts
                <5>2. CASE Carries(Tail(channel[d]), k, watermark[d][k])
                    BY <3>1, <5>1, <5>2 DEF Good
                <5>3. CASE /\ channel[d] # <<>> /\ Head(channel[d]).kind = "update"
                           /\ watermark[d][k] <= Head(channel[d]).entries[k]
                    <6>1. Head(channel[d]) \in Message BY SMTT(30), <1>1, <5>3, QueueOps
                    <6>2. Head(channel[d]).entries \in Entries BY <5>3, <6>1, MessageFacts
                    <6>3. Head(channel[d]).entries[k] \in Int BY SMTT(30), <6>2 DEF Entries, Version
                    <6>4. workers'[d[2]][k] >= Head(channel[d]).entries[k]
                        BY <1>10, <4>1, <5>3
                    <6>5. watermark[d][k] <= workers'[d[2]][k]
                        BY SMTT(30), <1>1, <2>2, <5>3, <6>3, <6>4
                    <6> QED BY <3>1, <6>5 DEF Good
                <5> QED BY <1>1, <3>4, <5>2, <5>3, CarriesOps
            <4>2. CASE d # c
                <5>1. \/ channel'[d] = channel[d]
                      \/ channel'[d] = Append(channel[d], reply) /\ reply \in Message
                    BY <1>10, <4>2, HandleFacts
                <5>2. Carries(channel'[d], k, watermark[d][k])
                    BY <1>1, <3>4, <5>1, CarriesOps
                <5> QED BY <3>1, <5>2 DEF Good
            <4> QED BY <4>1, <4>2
        <3> QED BY <1>2, <3>2, <3>3, <3>4
    <2> QED BY <1>10, <2>1, <2>2
<1>11. Ack \in Message BY DEF Ack, Message
<1>12. ASSUME NEW c \in Channels, Ready(c), Head(channel[c]).kind \in {"update", "snapshot"}
       PROVE  Head(channel[c]).entries \in Entries /\ c[2] \in Nodes
    <2>1. channel[c] \in Seq(Message) /\ channel[c] # <<>> BY <1>12 DEF Types, Ready
    <2> QED BY SMTT(30), <1>12, <2>1, ChannelFacts, QueueOps, MessageFacts
<1>13. ASSUME NEW c \in Channels, ReceiveUpdate(c) PROVE Good(d, k)
    <2> DEFINE e == Head(channel[c]).entries
               keys == Apply(c[2], e)
    <2>1. /\ Ready(c) /\ Stored(c[2], keys, e) /\ Handle(c, Ack) /\ UNCHANGED excused
          /\ e \in Entries /\ c[2] \in Nodes
        BY <1>12, <1>13 DEF ReceiveUpdate
    <2>2. keys \in SUBSET Keys BY DEF Apply, Present
    <2>3. e[k] \in Version /\ e[k] \in Int /\ e[k] >= 0 BY SMTT(30), <2>1 DEF Entries, Version
    <2>4. workers[c[2]][k] \in Int /\ workers[c[2]][k] >= 0
        <3>1. workers[c[2]] \in Entries BY <2>1 DEF Types
        <3>2. workers[c[2]][k] \in Version BY <3>1 DEF Entries
        <3> QED BY SMTT(30), <3>2 DEF Version
    <2>a. k \in keys <=> e[k] > 0 /\ e[k] > workers[c[2]][k] BY DEF Apply, Present
    <2> HIDE DEF keys, e
    <2>5. /\ k \in keys => e[k] > workers[c[2]][k]
          /\ k \notin keys => e[k] = 0 \/ e[k] <= workers[c[2]][k]
        BY SMTT(30), <2>3, <2>4, <2>a
    <2>6. /\ workers'[c[2]][k] = IF k \in keys THEN e[k] ELSE workers[c[2]][k]
          /\ d[2] # c[2] => workers'[d[2]] = workers[d[2]]
        BY SMTT(30), <1>1, <2>1, <2>2, ApplyFacts
    <2>7. workers'[c[2]][k] \in Int /\ workers'[c[2]][k] >= workers[c[2]][k]
          /\ workers'[c[2]][k] >= e[k]
        BY SMTT(30), <2>3, <2>4, <2>5, <2>6
    <2>8. workers'[d[2]][k] \in Int /\ workers'[d[2]][k] >= workers[d[2]][k]
        BY SMTT(30), <1>1, <2>6, <2>7
    <2>9. d = c => workers'[d[2]][k] >= Head(channel[c]).entries[k] BY <2>7 DEF e
    <2> QED BY <1>10, <1>11, <2>1, <2>8, <2>9
<1>14. ASSUME NEW c \in Channels, ReceiveSnapshot(c) PROVE Good(d, k)
    <2> DEFINE e == Head(channel[c]).entries
               keys == Present(e)
    <2>1. /\ Ready(c) /\ Stored(c[2], keys, e) /\ Handle(c, Ack)
          /\ excused' = excused \union [node : {c[2]}, key : keys]
          /\ e \in Entries /\ c[2] \in Nodes /\ Head(channel[c]).kind = "snapshot"
        BY <1>12, <1>14 DEF ReceiveSnapshot
    <2>2. keys \in SUBSET Keys BY DEF Present
    <2> HIDE DEF keys, e
    <2>3. /\ workers'[c[2]][k] = IF k \in keys THEN e[k] ELSE workers[c[2]][k]
          /\ d[2] # c[2] => workers'[d[2]] = workers[d[2]]
        BY SMTT(30), <1>1, <2>1, <2>2, ApplyFacts
    <2>4. \/ [node |-> d[2], key |-> k] \in excused'
          \/ workers'[d[2]][k] = workers[d[2]][k]
        <3>1. CASE d[2] = c[2] /\ k \in keys BY <2>1, <3>1
        <3>2. CASE ~(d[2] = c[2] /\ k \in keys) BY SMTT(30), <2>3, <3>2
        <3> QED BY <3>1, <3>2
    <2>5. \/ [node |-> d[2], key |-> k] \in excused'
          \/ workers'[d[2]][k] \in Int /\ workers'[d[2]][k] >= workers[d[2]][k]
        BY SMTT(30), <1>1, <2>4
    <2> QED BY <1>10, <1>11, <2>1, <2>5
<1>15. ASSUME NEW c \in Channels, ReceiveRequest(c) \/ ReceiveAck(c) PROVE Good(d, k)
    <2>1. Snapshot(c[2]) \in Message \union {None}
        BY ChannelFacts DEF Snapshot, Message, Types
    <2>2. PICK reply \in Message \union {None} : Handle(c, reply)
        BY <1>15, <2>1 DEF ReceiveRequest, ReceiveAck
    <2>3. /\ Ready(c) /\ UNCHANGED <<workers, excused>> /\ Head(channel[c]).kind # "update"
        BY <1>15 DEF ReceiveRequest, ReceiveAck
    <2>4. workers'[d[2]][k] \in Int /\ workers'[d[2]][k] >= workers[d[2]][k] BY SMTT(30), <1>1, <2>3
    <2> QED BY <1>10, <2>2, <2>3, <2>4
<1>16. ASSUME NEW c \in Channels, Reply(c) PROVE Good(d, k)
    <2>1. /\ channel' = [channel EXCEPT ![c] = Append(@, owed[c])] /\ owed[c] \in Message
          /\ UNCHANGED <<workers, excused, watermark>>
        BY <1>16 DEF Reply, Types
    <2>2. CASE d = c
        <3>1. channel'[d] = Append(channel[d], owed[c]) BY <2>1, <2>2 DEF Types
        <3> QED BY <1>4, <2>1, <3>1
    <2>3. CASE d # c BY <1>3, <2>1, <2>3 DEF Types
    <2> QED BY <2>2, <2>3
<1>17. ASSUME NEW p \in Pairs, Fresh(p) PROVE Good(d, k)
    <2>1. UNCHANGED <<workers, excused>> BY <1>17 DEF Fresh
    <2>2. CASE PairOf(d) = p
        <3>1. watermark'[d][k] = 0 BY SMTT(30), <1>17, <2>2, FreshFacts DEF Nothing
        <3>2. 0 <= workers[d[2]][k] BY SMTT(30), <1>1 DEF Types, Entries, Version
        <3> QED BY <2>1, <3>1, <3>2 DEF Good
    <2>3. CASE PairOf(d) # p BY <1>3, <1>17, <2>1, <2>3, FreshFacts
    <2> QED BY <2>2, <2>3
<1>18. ASSUME NEW p \in Pairs, Greet(p) PROVE Good(d, k)
    <2> DEFINE c == Back(p)
               msg == [kind |-> "request"]
    <2>1. c \in Channels /\ msg \in Message BY PairFacts DEF Message
    <2>2. /\ UNCHANGED <<workers, excused, watermark>>
          /\ channel' = channel \/ channel' = [channel EXCEPT ![c] = Append(@, msg)]
        BY <1>18 DEF Greet
    <2> HIDE DEF c, msg
    <2>3. CASE channel'[d] = channel[d] BY <1>3, <2>2, <2>3
    <2>4. CASE channel'[d] = Append(channel[d], msg) BY <1>4, <2>1, <2>2, <2>4
    <2> QED BY <2>2, <2>3, <2>4 DEF Types
<1>19. CASE UNCHANGED vars BY <1>3, <1>19 DEF vars
<1>20. ASSUME NEW c \in Channels, Sender(c) \/ Handler(c) PROVE Good(d, k)
    <2>1. Back(c) \in Channels BY ChannelFacts
    <2> QED BY <1>8, <1>9, <1>13, <1>14, <1>15, <1>16, <1>20, <2>1 DEF Sender, Handler
<1>21. ASSUME NEW p \in Pairs, Connect(p) \/ Greet(p) \/ Disconnect(p) PROVE Good(d, k)
    BY <1>17, <1>18, <1>21 DEF Connect, Disconnect
<1> QED BY <1>5, <1>6, <1>7, <1>19, <1>20, <1>21 DEF Next

-----------------------------------------------------------------------------
(* Theorems *)

LEMMA InitIInv == Init => IInv
<1> SUFFICES ASSUME Init PROVE IInv OBVIOUS
<1>1. Nothing \in Entries BY NothingEntries
<1>2. \A k \in Keys : Nothing[k] = 0 BY DEF Nothing
<1>3. <<>> \in Seq(Message) /\ Len(<<>>) = 0 BY SMTT(30)
<1>4. \A n \in Nodes : workers[n] = Nothing BY DEF Init
<1> HIDE DEF Nothing
<1>5. Types BY SMTT(30), <1>1, <1>3, MeshAssumption DEF Init, Types
<1>6. Underway BY DEF Init, Underway
<1>7. ScannedMeansOffered BY SMTT(30), <1>2, <1>4 DEF ScannedMeansOffered
<1>8. Covered BY SMTT(30), <1>2, <1>4, ChannelFacts DEF Init, Covered
<1> QED BY <1>5, <1>6, <1>7, <1>8 DEF IInv

(* The types, the state of a write under way, and the two facts below hold  *)
(* of whatever the stores, collectors, senders and handlers do.             *)
THEOREM Inductive == Spec => []IInv
<1>1. IInv /\ [Next]_vars => IInv'
    BY TypeStep, UnderwayStep, ScannedStep, CoveredStep DEF IInv
<1> QED BY InitIInv, <1>1, PTL DEF Spec

(* What a sender's watermark says its peer was sent (PeerWatermark::filter  *)
(* will never send it again), the peer holds, or an update in the channel   *)
(* brings it, but for the listed excuses; for any number of nodes and keys, *)
(* streams that break and messages that do not fit.                         *)
THEOREM WatermarkCoveredAlways == Spec => []WatermarkCovered
<1>1. ASSUME IInv PROVE WatermarkCovered
    <2>1. Types /\ Covered BY <1>1 DEF IInv
    <2>2. TypeOK
        <3>1. \A c \in Channels : \A i \in DOMAIN channel[c] : channel[c][i] \in Message
            <4> TAKE c \in Channels
            <4> TAKE i \in DOMAIN channel[c]
            <4>1. channel[c] \in Seq(Message) BY <2>1 DEF Types
            <4> QED BY SMTT(30), <4>1
        <3>2. \A n \in Nodes : 0 <= collected[n] BY SMTT(30), <2>1 DEF Types
        <3> QED BY <2>1, <3>1, <3>2 DEF Types, TypeOK, Writes
    <2>3. ASSUME NEW c \in Channels, NEW k \in Keys, [node |-> c[2], key |-> k] \notin excused
          PROVE  \E v \in InFlight(c, k) \union {workers[c[2]][k]} : watermark[c][k] <= v
        <3>1. CASE watermark[c][k] <= workers[c[2]][k] BY <3>1
        <3>2. CASE Carries(channel[c], k, watermark[c][k]) BY <3>2 DEF Carries, InFlight
        <3> QED BY <2>1, <2>3, <3>1, <3>2 DEF Covered
    <2> QED BY <2>2, <2>3 DEF WatermarkCovered
<1> QED BY Inductive, <1>1, PTL

(* A store whose generation the collector has advanced past                 *)
(* (advance_generations) holds nothing that was not published, but for a    *)
(* write that was counted before the scan and stored after it.              *)
THEOREM ScannedMeansOfferedAlways == Spec => []ScannedMeansOffered
<1>1. IInv => ScannedMeansOffered BY DEF IInv
<1> QED BY Inductive, <1>1, PTL

=============================================================================
