--------------------------- MODULE MembershipProofs ---------------------------
(***************************************************************************)
(* For any cluster, any number of lost messages, crashes and pod reports:  *)
(* no table says of a node that it is Down before there were two failures  *)
(* of that node to tell of.                                                *)
(***************************************************************************)
EXTENDS Membership, TLAPS

\* A leaf is first-order reasoning unless it names SMT, for arithmetic.
USE ZenonT(30)

Tasks ==
    [at : {"idle", "broadcast"}]
    \cup [at : {"chosen", "failed"}, peer : Nodes, named : BOOLEAN]
    \cup [at : {"answered"}, peer : Nodes, status : Statuses \cup {"unknown"}]

Messages == [from : Nodes, to : Nodes, about : Nodes, entry : Entries]

Types ==
    /\ state \in [Nodes -> [Nodes -> Entries]]
    /\ process \in [Nodes -> {"off", "up", "leaving", "dead"}]
    /\ first \in [Nodes -> BOOLEAN]
    /\ task \in [Nodes -> Tasks]
    /\ net \in SUBSET Messages
    /\ evidence \in [Nodes -> 0 .. 2]
    /\ \A n \in Nodes : state[n][n] # Unknown

(* A failed ping of m that n has not told anyone of.                       *)
Accuses(n, m) == task[n].at = "failed" /\ task[n].peer = m

(* The evidence behind an entry about m with status s.  A failed ping may  *)
(* turn Suspected into Down, so one that is still to be told counts on its *)
(* own.                                                                    *)
Backed(m, s) ==
    /\ s = Down => evidence[m] = 2
    /\ s = Suspected => /\ evidence[m] >= 1
                        /\ (\E n \in Nodes : Accuses(n, m)) => evidence[m] = 2

Counted ==
    \A m \in Nodes :
        /\ \A n \in Nodes : Accuses(n, m) => evidence[m] >= 1
        /\ \A n, x \in Nodes : n # x /\ Accuses(n, m) /\ Accuses(x, m) => evidence[m] = 2

Evidence ==
    /\ \A n, m \in Nodes : Backed(m, state[n][m].status)
    /\ \A msg \in net : Backed(msg.about, msg.entry.status)
    /\ Counted

IInv == Types /\ Evidence

-----------------------------------------------------------------------------
(* Types *)

LEMMA EntryFacts ==
    ASSUME NEW e \in Entries
    PROVE  /\ e.version \in 0 .. MaxVersion /\ e.status \in Statuses \cup {"unknown"}
           /\ e # Unknown <=> e.version > 0
BY SMTT(30), MembershipAssumption DEF Entries, Unknown

(* A merged table has no entry that neither of the tables had, and forgets *)
(* no node.                                                                *)
LEMMA Merge ==
    ASSUME NEW a \in [Nodes -> Entries], NEW b \in [Nodes -> Entries]
    PROVE  /\ MergeState(a, b) \in [Nodes -> Entries]
           /\ \A m \in Nodes : MergeState(a, b)[m] \in {a[m], b[m]}
           /\ \A m \in Nodes : a[m] # Unknown => MergeState(a, b)[m] # Unknown
<1>1. \A m \in Nodes : MergeState(a, b)[m] \in {a[m], b[m]} BY DEF MergeState
<1>2. MergeState(a, b) \in [Nodes -> Entries] BY DEF MergeState
<1>3. ASSUME NEW m \in Nodes, a[m] # Unknown PROVE MergeState(a, b)[m] # Unknown
    <2>1. a[m].version \in Nat /\ a[m].version > 0 /\ b[m].version \in Nat
        BY SMTT(30), <1>3, EntryFacts
    <2>2. b[m].version > a[m].version => b[m] # Unknown BY SMTT(30), <2>1, EntryFacts
    <2> QED BY <1>3, <2>2 DEF MergeState, Newer
<1> QED BY <1>1, <1>2, <1>3

LEMMA OnlyEntry ==
    ASSUME NEW m \in Nodes, NEW e \in Entries
    PROVE  /\ Only(m, e) \in [Nodes -> Entries]
           /\ \A x \in Nodes : Only(m, e)[x] = Unknown \/ (x = m /\ Only(m, e)[x] = e)
BY DEF Only, Entries

(* A table that a step changes in one row.                                 *)
LEMMA RowChanged ==
    ASSUME Types, NEW n \in Nodes, NEW row \in [Nodes -> Entries], row[n] # Unknown,
           state' = [state EXCEPT ![n] = row]
    PROVE  /\ state' \in [Nodes -> [Nodes -> Entries]]
           /\ \A x \in Nodes : state'[x][x] # Unknown
BY DEF Types

LEMMA TypeStep ==
    ASSUME Types, [Next]_vars
    PROVE  Types'
<1> USE DEF Types
<1>1. ASSUME UNCHANGED state
      PROVE  /\ state' \in [Nodes -> [Nodes -> Entries]]
             /\ \A x \in Nodes : state'[x][x] # Unknown
    BY <1>1
<1>2. ASSUME NEW n \in Nodes, Start(n) PROVE Types' BY <1>1, <1>2 DEF Start
<1>3. ASSUME NEW n \in Nodes, ChoosePeer(n) PROVE Types'
    <2>1. UNCHANGED <<state, process, net, evidence>> /\ first' = [first EXCEPT ![n] = FALSE]
        BY <1>3 DEF ChoosePeer
    <2>2. PICK p \in Nodes, named \in BOOLEAN :
              task' = [task EXCEPT ![n] = [at |-> "chosen", peer |-> p, named |-> named]]
        BY <1>3, MembershipAssumption DEF ChoosePeer, Peers
    <2>3. [at |-> "chosen", peer |-> p, named |-> named] \in Tasks BY DEF Tasks
    <2> QED BY <1>1, <2>1, <2>2, <2>3
<1>4. ASSUME NEW n \in Nodes, NoPeer(n) PROVE Types' BY <1>1, <1>4 DEF NoPeer
<1>5. ASSUME NEW n \in Nodes, task[n].at = "chosen"
      PROVE  /\ task[n].peer \in Nodes
             /\ [task[n] EXCEPT !.at = "failed"] \in Tasks
    BY <1>5 DEF Tasks
<1>6. ASSUME NEW n \in Nodes, task[n].at = "chosen", Failure(n)
      PROVE  task' \in [Nodes -> Tasks] /\ evidence' \in [Nodes -> 0 .. 2]
    <2>1. task' \in [Nodes -> Tasks] BY <1>5, <1>6 DEF Failure
    <2>2. evidence' \in [Nodes -> 0 .. 2] BY SMTT(30), <1>5, <1>6 DEF Failure, Against
    <2> QED BY <2>1, <2>2
<1>7. ASSUME NEW n \in Nodes, Ping(n) PROVE Types'
    <2> DEFINE p == task[n].peer
               merged == MergeState(state[p], state[n])
    <2>1. /\ task[n].at = "chosen" /\ state' = [state EXCEPT ![p] = merged]
          /\ UNCHANGED <<process, first, net>>
          /\ \/ /\ task' = [task EXCEPT ![n] =
                             [at |-> "answered", peer |-> p, status |-> merged[p].status]]
                /\ UNCHANGED evidence
             \/ Failure(n)
        BY <1>7 DEF Ping
    <2>2. p \in Nodes BY <1>5, <2>1
    <2>3. merged \in [Nodes -> Entries] /\ merged[p] # Unknown
        <3>1. /\ state[p] \in [Nodes -> Entries] /\ state[n] \in [Nodes -> Entries]
              /\ state[p][p] # Unknown
            BY <2>2
        <3> QED BY SMTT(30), <2>2, <3>1, Merge
    <2> HIDE DEF merged
    <2>4. /\ state' \in [Nodes -> [Nodes -> Entries]]
          /\ \A x \in Nodes : state'[x][x] # Unknown
        BY <2>1, <2>2, <2>3, RowChanged
    <2>5. [at |-> "answered", peer |-> p, status |-> merged[p].status] \in Tasks
        BY <2>2, <2>3, EntryFacts DEF Tasks
    <2>6. task' \in [Nodes -> Tasks] /\ evidence' \in [Nodes -> 0 .. 2]
        BY <1>6, <2>1, <2>5
    <2> QED BY <2>1, <2>4, <2>6
<1>8. ASSUME NEW n \in Nodes, LosePing(n) PROVE Types' BY <1>1, <1>6, <1>8 DEF LosePing
<1>9. [at |-> "idle"] \in Tasks /\ [at |-> "broadcast"] \in Tasks BY DEF Tasks
<1>10. ASSUME NEW n \in Nodes, ApplyAnswer(n) PROVE Types'
    <2> DEFINE p == task[n].peer
               s == task[n].status
               e == [status |-> s, version |-> IF Known(n, p) THEN state[n][p].version ELSE 1]
    <2>1. /\ task[n].at = "answered" /\ task' = [task EXCEPT ![n] = Idle]
          /\ state' = IF s \notin {Alive, Leaving} THEN state ELSE [state EXCEPT ![n][p] = e]
          /\ UNCHANGED <<process, first, net, evidence>>
        BY <1>10 DEF ApplyAnswer
    <2>2. p \in Nodes BY <2>1 DEF Tasks
    <2>3. CASE s \notin {Alive, Leaving} BY <1>1, <1>9, <2>1, <2>3 DEF Idle
    <2>4. CASE s \in {Alive, Leaving}
        <3> DEFINE v == IF Known(n, p) THEN state[n][p].version ELSE 1
                   row == [state[n] EXCEPT ![p] = e]
        <3>1. v \in 1 .. MaxVersion
            <4>1. state[n][p] \in Entries BY <2>2
            <4> QED BY SMTT(30), <4>1, EntryFacts, MembershipAssumption DEF Known
        <3>2. e \in Entries /\ e # Unknown
            <4> HIDE DEF v
            <4>1. v # 0 BY SMTT(30), <3>1, MembershipAssumption
            <4>2. s \in Statuses BY <2>4 DEF Statuses, Alive, Leaving
            <4>3. e = [status |-> s, version |-> v] BY DEF v
            <4>4. e \in Entries BY <3>1, <4>2, <4>3 DEF Entries
            <4>5. e # Unknown BY SMTT(30), <4>1, <4>3 DEF Unknown
            <4> QED BY <4>4, <4>5
        <3> HIDE DEF e, v
        <3>3. row \in [Nodes -> Entries] /\ row[n] # Unknown BY <2>2, <3>2
        <3>4. state' = [state EXCEPT ![n] = row] BY <2>1, <2>4
        <3> HIDE DEF row
        <3>5. /\ state' \in [Nodes -> [Nodes -> Entries]]
              /\ \A x \in Nodes : state'[x][x] # Unknown
            BY <3>3, <3>4, RowChanged
        <3> QED BY <1>9, <2>1, <3>5 DEF Idle
    <2> QED BY <2>3, <2>4
<1>11. ASSUME NEW n \in Nodes, NEW targets \in SUBSET Nodes, NEW m \in Nodes,
              NEW e \in Entries, Broadcast(n, targets, m, e)
       PROVE  net' \in SUBSET Messages
    BY SMTT(30), <1>11 DEF Broadcast, Messages
<1>12. ASSUME NEW n \in Nodes, NEW m \in Nodes, NEW s \in Statuses,
              state[n][m].version < MaxVersion
       PROVE  /\ [status |-> s, version |-> state[n][m].version + 1] \in Entries
              /\ [status |-> s, version |-> state[n][m].version + 1] # Unknown
    <2>1. state[n][m].version \in Nat BY SMTT(30), EntryFacts
    <2> QED BY SMTT(30), <1>12, <2>1, MembershipAssumption DEF Entries, Unknown
<1>13. ASSUME NEW n \in Nodes, Suspect(n) PROVE Types'
    <2> DEFINE p == task[n].peer
               e == [status |-> Escalate(Status(n, p)), version |-> state[n][p].version + 1]
    <2>1. /\ task[n].at = "failed" /\ task' = [task EXCEPT ![n] = [at |-> "broadcast"]]
          /\ UNCHANGED <<state, process, first, evidence>>
          /\ \/ UNCHANGED net
             \/ state[n][p].version < MaxVersion /\ Broadcast(n, Listeners(n, p), p, e)
        BY <1>13 DEF Suspect
    <2>2. p \in Nodes BY <2>1 DEF Tasks
    <2>3. Escalate(Status(n, p)) \in Statuses BY DEF Escalate, Statuses
    <2>4. Listeners(n, p) \in SUBSET Nodes BY DEF Listeners, AliveIn
    <2>5. net' \in SUBSET Messages BY <1>11, <1>12, <2>1, <2>2, <2>3, <2>4
    <2> QED BY <1>1, <1>9, <2>1, <2>5
<1>14. ASSUME NEW n \in Nodes, EndBroadcast(n) PROVE Types'
    BY <1>1, <1>9, <1>14 DEF EndBroadcast, Idle
<1>15. ASSUME NEW n \in Nodes, Announce(n) PROVE Types'
    <2> DEFINE e == [status |-> Leaving, version |-> state[n][n].version + 1]
    <2>1. /\ UNCHANGED <<state, first, task, evidence>>
          /\ process' = [process EXCEPT ![n] = "leaving"]
          /\ \/ UNCHANGED net
             \/ state[n][n].version < MaxVersion /\ Broadcast(n, AliveIn(n) \ {n}, n, e)
        BY <1>15 DEF Announce
    <2>2. Leaving \in Statuses /\ AliveIn(n) \ {n} \in SUBSET Nodes BY DEF Statuses, AliveIn
    <2>3. net' \in SUBSET Messages BY <1>11, <1>12, <2>1, <2>2
    <2> QED BY <1>1, <2>1, <2>3
<1>16. ASSUME NEW n \in Nodes, Stop(n) \/ Crash(n) PROVE Types'
    BY <1>1, <1>9, <1>16 DEF Stop, Crash, Idle
<1>17. ASSUME NEW n \in Nodes, Restart(n) PROVE Types'
    <2>1. OwnTable(n) \in [Nodes -> Entries] /\ OwnTable(n)[n] # Unknown
        BY SMTT(30), MembershipAssumption DEF OwnTable, Entries, Unknown, Statuses
    <2> QED BY <1>17, <2>1, RowChanged DEF Restart
<1>18. ASSUME NEW n \in Nodes, WriteData(n) PROVE Types'
    <2> DEFINE e == [state[n][n] EXCEPT !.version = @ + 1]
    <2>1. e \in Entries /\ e # Unknown
        <3>1. state[n][n] \in [status : Statuses, version : 1 .. MaxVersion] BY DEF Entries
        <3>2. state[n][n].version < MaxVersion BY <1>18 DEF WriteData
        <3> QED BY SMTT(30), <3>1, <3>2, MembershipAssumption DEF Entries, Unknown
    <2>2. state' = [state EXCEPT ![n] = [state[n] EXCEPT ![n] = e]] BY <1>18 DEF WriteData
    <2> HIDE DEF e
    <2>3. [state[n] EXCEPT ![n] = e] \in [Nodes -> Entries] BY <2>1
    <2>4. [state[n] EXCEPT ![n] = e][n] # Unknown BY <2>1
    <2> QED BY <1>18, <2>2, <2>3, <2>4, RowChanged DEF WriteData
<1>19. ASSUME NEW n \in Nodes, NEW m \in Nodes, NEW s \in Statuses, PodEvent(n, m, s),
              evidence' \in [Nodes -> 0 .. 2]
       PROVE  Types'
    <2> DEFINE e == [status |-> s, version |-> state[n][m].version + 1]
    <2>1. e \in Entries /\ e # Unknown BY <1>12, <1>19 DEF PodEvent
    <2>2. state' = [state EXCEPT ![n] = [state[n] EXCEPT ![m] = e]] BY <1>19 DEF PodEvent
    <2> HIDE DEF e
    <2>3. [state[n] EXCEPT ![m] = e] \in [Nodes -> Entries] BY <2>1
    <2>4. [state[n] EXCEPT ![m] = e][n] # Unknown BY <2>1
    <2> QED BY <1>19, <2>2, <2>3, <2>4, RowChanged DEF PodEvent
<1>20. ASSUME NEW n \in Nodes, Discovery(n) PROVE Types'
    <2>1. PICK m \in Nodes : PodHealthy(n, m) \/ PodUnhealthy(n, m) \/ PodDeleted(n, m)
        BY <1>20 DEF Discovery
    <2>2. evidence' \in [Nodes -> 0 .. 2]
        BY SMTT(30), <2>1 DEF PodHealthy, PodUnhealthy, PodDeleted, Against
    <2>3. \E s \in Statuses : PodEvent(n, m, s)
        BY <2>1 DEF PodHealthy, PodUnhealthy, PodDeleted, Statuses
    <2> QED BY <1>19, <2>2, <2>3
<1>21. ASSUME NEW msg \in net, Receive(msg) PROVE Types'
    <2> DEFINE row == MergeState(state[msg.to], Only(msg.about, msg.entry))
    <2>1. msg.to \in Nodes /\ msg.about \in Nodes /\ msg.entry \in Entries BY DEF Messages
    <2>2. row \in [Nodes -> Entries] /\ row[msg.to] # Unknown
        <3>1. state[msg.to] \in [Nodes -> Entries] /\ state[msg.to][msg.to] # Unknown BY <2>1
        <3>2. Only(msg.about, msg.entry) \in [Nodes -> Entries] BY <2>1, OnlyEntry
        <3> QED BY <2>1, <3>1, <3>2, Merge
    <2>3. state' = [state EXCEPT ![msg.to] = row] BY <1>21 DEF Receive
    <2> HIDE DEF row
    <2> QED BY <1>21, <2>1, <2>2, <2>3, RowChanged DEF Receive
<1>22. ASSUME NEW msg \in net, Drop(msg) PROVE Types' BY <1>1, <1>22 DEF Drop
<1>23. CASE UNCHANGED vars BY <1>1, <1>23 DEF vars
<1> QED
    <2> HIDE DEF Types
    <2> QED BY <1>2, <1>3, <1>4, <1>7, <1>8, <1>10, <1>13, <1>14, <1>15, <1>16, <1>17, <1>18,
               <1>20, <1>21, <1>22, <1>23 DEF Next, Round

-----------------------------------------------------------------------------
(* Evidence *)

(* A step fails a ping, which counts one against the peer, or adds no      *)
(* accusation; no evidence is taken back.                                  *)
Raised(n) == task[n].at = "chosen" /\ Failure(n)

Quiet ==
    /\ \A m \in Nodes : evidence'[m] >= evidence[m]
    /\ \A n \in Nodes : task'[n].at = "failed" => task'[n] = task[n]

LEMMA RaisedOrQuiet ==
    ASSUME Types, [Next]_vars
    PROVE  Quiet \/ \E n \in Nodes : Raised(n)
<1> USE DEF Types
<1>1. ASSUME UNCHANGED <<task, evidence>> PROVE Quiet BY SMTT(30), <1>1 DEF Quiet
<1>2. ASSUME NEW n \in Nodes, NEW t, t.at # "failed", task' = [task EXCEPT ![n] = t],
             UNCHANGED evidence
      PROVE  Quiet
    BY SMTT(30), <1>2 DEF Quiet
<1>3. ASSUME NEW n \in Nodes, ChoosePeer(n) PROVE Quiet
    <2>1. PICK t : t.at = "chosen" /\ task' = [task EXCEPT ![n] = t]
        BY <1>3 DEF ChoosePeer
    <2> QED BY <1>2, <1>3, <2>1 DEF ChoosePeer
<1>4. ASSUME NEW n \in Nodes, Ping(n) PROVE Quiet \/ Raised(n)
    <2>1. CASE Failure(n) BY <1>4, <2>1 DEF Ping, Raised
    <2>2. CASE ~Failure(n)
        <3>1. PICK t : t.at = "answered" /\ task' = [task EXCEPT ![n] = t]
            BY <1>4, <2>2 DEF Ping
        <3> QED BY <1>2, <1>4, <2>2, <3>1 DEF Ping
    <2> QED BY <2>1, <2>2
<1>5. ASSUME NEW n \in Nodes, LosePing(n) PROVE Raised(n) BY <1>5 DEF LosePing, Raised
<1>6. ASSUME NEW n \in Nodes, ApplyAnswer(n) \/ EndBroadcast(n) \/ Stop(n) \/ Crash(n)
      PROVE  Quiet
    BY <1>2, <1>6 DEF ApplyAnswer, EndBroadcast, Stop, Crash, Idle
<1>7. ASSUME NEW n \in Nodes, Suspect(n) PROVE Quiet BY <1>2, <1>7 DEF Suspect
<1>8. ASSUME NEW n \in Nodes, Start(n) \/ NoPeer(n) \/ Announce(n) \/ Restart(n) \/ WriteData(n)
      PROVE  Quiet
    BY <1>1, <1>8 DEF Start, NoPeer, Announce, Restart, WriteData
<1>9. ASSUME NEW n \in Nodes, Discovery(n) PROVE Quiet
    <2>1. UNCHANGED task
        BY <1>9 DEF Discovery, PodHealthy, PodUnhealthy, PodDeleted, PodEvent
    <2>2. PICK m \in Nodes : UNCHANGED evidence \/ Against(m, 1) \/ Against(m, 2)
        BY <1>9 DEF Discovery, PodHealthy, PodUnhealthy, PodDeleted
    <2>3. \A x \in Nodes : evidence'[x] >= evidence[x] BY SMTT(30), <2>2 DEF Against
    <2> QED BY <2>1, <2>3 DEF Quiet
<1>10. ASSUME NEW msg \in net, Receive(msg) \/ Drop(msg) PROVE Quiet
    BY <1>1, <1>10 DEF Receive, Drop
<1>11. CASE UNCHANGED vars BY <1>1, <1>11 DEF vars
<1> HIDE DEF Types
<1> QED BY <1>3, <1>4, <1>5, <1>6, <1>7, <1>8, <1>9, <1>10, <1>11 DEF Next, Round

(* An accusation that is new comes with evidence of its own.               *)
LEMMA AccusersStep ==
    ASSUME Types, Types', Counted, [Next]_vars
    PROVE  /\ Counted'
           /\ \A m \in Nodes : \A s : Backed(m, s) => Backed(m, s)'
<1>1. CASE Quiet
    <2>1. \A n, m \in Nodes : Accuses(n, m)' => Accuses(n, m) BY <1>1 DEF Quiet, Accuses
    <2>2. \A m \in Nodes : evidence[m] \in 0 .. 2 /\ evidence'[m] \in 0 .. 2
                           /\ evidence'[m] >= evidence[m]
        BY <1>1 DEF Quiet, Types
    <2>3. Counted'
        <3>1. ASSUME NEW m \in Nodes, NEW n \in Nodes, Accuses(n, m)' PROVE evidence'[m] >= 1
            BY SMTT(30), <2>1, <2>2, <3>1 DEF Counted
        <3>2. ASSUME NEW m \in Nodes, NEW n \in Nodes, NEW x \in Nodes, n # x,
                     Accuses(n, m)', Accuses(x, m)'
              PROVE  evidence'[m] = 2
            BY SMTT(30), <2>1, <2>2, <3>2 DEF Counted
        <3> QED BY <3>1, <3>2 DEF Counted
    <2>4. \A m \in Nodes : \A s : Backed(m, s) => Backed(m, s)' BY SMTT(30), <2>1, <2>2 DEF Backed
    <2> QED BY <2>3, <2>4
<1>2. ASSUME NEW n \in Nodes, Raised(n)
      PROVE  Counted' /\ \A m \in Nodes : \A s : Backed(m, s) => Backed(m, s)'
    <2> DEFINE p == task[n].peer
    <2>1. p \in Nodes /\ ~ \E m : Accuses(n, m) BY <1>2 DEF Raised, Types, Tasks, Accuses
    <2>2. \A x, m \in Nodes : Accuses(x, m)' <=> Accuses(x, m) \/ (x = n /\ m = p)
        <3>1. task' = [task EXCEPT ![n].at = "failed"] BY <1>2 DEF Raised, Failure
        <3>2. task'[n].at = "failed" /\ task'[n].peer = p
            BY SMTT(30), <1>2, <3>1 DEF Types, Raised, Tasks
        <3>3. \A x \in Nodes : x # n => task'[x] = task[x] BY <3>1 DEF Types
        <3> QED BY <2>1, <3>2, <3>3 DEF Accuses
    <2>3. \A m \in Nodes :
             /\ evidence[m] \in 0 .. 2 /\ evidence'[m] \in 0 .. 2
             /\ evidence'[m] >= evidence[m]
             /\ m = p => evidence'[m] >= 1 /\ (evidence[m] >= 1 => evidence'[m] = 2)
        BY SMTT(30), <1>2, <2>1 DEF Types, Raised, Failure, Against
    <2>4. Counted'
        <3>1. ASSUME NEW m \in Nodes, NEW x \in Nodes, Accuses(x, m)' PROVE evidence'[m] >= 1
            BY SMTT(30), <2>2, <2>3, <3>1 DEF Counted
        <3>2. ASSUME NEW m \in Nodes, NEW y \in Nodes, NEW x \in Nodes, y # x,
                     Accuses(y, m)', Accuses(x, m)'
              PROVE  evidence'[m] = 2
            BY SMTT(30), <2>1, <2>2, <2>3, <3>2 DEF Counted
        <3> QED BY <3>1, <3>2 DEF Counted
    <2>5. \A m \in Nodes : \A s : Backed(m, s) => Backed(m, s)' BY SMTT(30), <2>2, <2>3 DEF Backed
    <2> QED BY <2>4, <2>5
<1> QED BY <1>1, <1>2, RaisedOrQuiet

(* Tables are only merged, and what is told anew rests on the failure that *)
(* it tells of: the escalation to Down takes a suspicion and a failure     *)
(* that has not been told yet.                                             *)
LEMMA EvidenceStep ==
    ASSUME IInv, [Next]_vars
    PROVE  Evidence'
<1>1. Types /\ Types' /\ Counted BY TypeStep DEF IInv, Evidence
<1>2. Counted' /\ \A m \in Nodes : \A s : Backed(m, s) => Backed(m, s)' BY <1>1, AccusersStep
<1> DEFINE Ok(m)  == {s \in Statuses \cup {"unknown"} : Backed(m, s)'}
           Tables == \A n, m \in Nodes : state'[n][m].status \in Ok(m)
           Mail   == \A msg \in net' : msg.entry.status \in Ok(msg.about)
<1>3. ASSUME Tables, Mail PROVE Evidence'
    BY <1>2, <1>3 DEF Evidence
<1>4. \A m \in Nodes : {Alive, Leaving, "unknown"} \subseteq Ok(m)
    BY DEF Backed, Statuses, Alive, Leaving, Down, Suspected
<1>5. /\ \A n, m \in Nodes : state[n][m].status \in Ok(m)
      /\ \A msg \in net : msg.entry.status \in Ok(msg.about)
    <2>1. \A n, m \in Nodes : state[n][m] \in Entries BY <1>1 DEF Types
    <2>2. \A msg \in net : msg.about \in Nodes /\ msg.entry \in Entries
        BY <1>1 DEF Types, Messages
    <2> QED BY <1>2, <2>1, <2>2, EntryFacts DEF IInv, Evidence
<1>6. ASSUME NEW m \in Nodes
      PROVE  /\ evidence'[m] = 2 => Down \in Ok(m)
             /\ evidence'[m] = 2 => Suspected \in Ok(m)
             /\ evidence'[m] >= 1 /\ (\A n \in Nodes : ~Accuses(n, m)') => Suspected \in Ok(m)
    BY SMTT(30), <1>6 DEF Backed, Statuses, Down, Suspected
<1> HIDE DEF Ok
<1>7. UNCHANGED state => Tables BY <1>5
<1>8. net' \in SUBSET net => Mail BY <1>5
<1>9. ASSUME NEW n \in Nodes, NEW row, \A m \in Nodes : row[m].status \in Ok(m),
             state' = [state EXCEPT ![n] = row]
      PROVE  Tables
    BY <1>1, <1>5, <1>9 DEF Types
<1>10. ASSUME NEW n \in Nodes, NEW p \in Nodes, NEW e, e.status \in Ok(p),
              state' = [state EXCEPT ![n][p] = e]
       PROVE  Tables
    BY <1>1, <1>5, <1>10 DEF Types
<1>11. ASSUME NEW n, NEW targets, NEW m, NEW e, e.status \in Ok(m),
              Broadcast(n, targets, m, e)
       PROVE  Mail
    BY SMTT(30), <1>5, <1>11 DEF Broadcast
<1>12. ASSUME NEW n \in Nodes, Ping(n) PROVE Evidence'
    <2> DEFINE p == task[n].peer
               row == MergeState(state[p], state[n])
    <2>1. p \in Nodes BY <1>1, <1>12 DEF Ping, Types, Tasks
    <2>2. \A m \in Nodes : row[m].status \in Ok(m)
        <3>1. state[p] \in [Nodes -> Entries] /\ state[n] \in [Nodes -> Entries]
            BY <1>1, <2>1 DEF Types
        <3>2. \A m \in Nodes : row[m] \in {state[p][m], state[n][m]} BY <3>1, Merge
        <3> QED BY <1>5, <2>1, <3>2
    <2>3. state' = [state EXCEPT ![p] = row] /\ net' = net BY <1>12 DEF Ping
    <2> HIDE DEF row
    <2> QED BY <1>3, <1>8, <1>9, <2>1, <2>2, <2>3
<1>13. ASSUME NEW n \in Nodes, ApplyAnswer(n) PROVE Evidence'
    <2> DEFINE p == task[n].peer
               s == task[n].status
               e == [status |-> s, version |-> IF Known(n, p) THEN state[n][p].version ELSE 1]
    <2>1. p \in Nodes BY SMTT(30), <1>1, <1>13 DEF ApplyAnswer, Types, Tasks
    <2>2. /\ state' = IF s \notin {Alive, Leaving} THEN state ELSE [state EXCEPT ![n][p] = e]
          /\ net' = net
        BY <1>13 DEF ApplyAnswer
    <2>3. s \in {Alive, Leaving} => e.status \in Ok(p) BY <1>4, <2>1
    <2> HIDE DEF e, s
    <2> QED BY <1>3, <1>7, <1>8, <1>10, <2>1, <2>2, <2>3
<1>14. ASSUME NEW n \in Nodes, Suspect(n) PROVE Evidence'
    <2>1. PICK p \in Nodes : p = task[n].peer BY SMTT(30), <1>1, <1>14 DEF Suspect, Types, Tasks
    <2> DEFINE e == [status |-> Escalate(Status(n, p)), version |-> state[n][p].version + 1]
    <2>2. /\ task[n].at = "failed" /\ task' = [task EXCEPT ![n] = [at |-> "broadcast"]]
          /\ UNCHANGED <<state, evidence>>
          /\ UNCHANGED net \/ Broadcast(n, Listeners(n, p), p, e)
        BY <1>14, <2>1 DEF Suspect
    <2>3. p \in Nodes /\ Accuses(n, p) BY <2>1, <2>2 DEF Accuses
    <2>4. e.status \in Ok(p)
        <3>1. CASE Status(n, p) = Suspected
            <4>1. Backed(p, Suspected) BY <2>3, <3>1 DEF IInv, Evidence, Status
            <4>2. evidence[p] = 2 BY <2>3, <4>1 DEF Backed, Down, Suspected
            <4> QED BY <1>6, <2>2, <2>3, <3>1, <4>2 DEF Escalate
        <3>2. CASE Status(n, p) # Suspected
            <4>1. evidence[p] >= 1 BY <1>1, <2>3 DEF Counted
            <4>2. \A x \in Nodes : Accuses(x, p)' => x # n /\ Accuses(x, p)
                BY <1>1, <2>2 DEF Types, Accuses
            <4>3. (\E x \in Nodes : Accuses(x, p)') => evidence[p] = 2
                BY <1>1, <2>3, <4>2 DEF Counted
            <4> QED BY <1>6, <2>2, <2>3, <3>2, <4>1, <4>3 DEF Escalate
        <3> QED BY <3>1, <3>2
    <2> HIDE DEF e
    <2> QED BY <1>3, <1>7, <1>8, <1>11, <2>2, <2>4
<1>15. ASSUME NEW n \in Nodes, Announce(n) PROVE Evidence'
    <2> DEFINE e == [status |-> Leaving, version |-> state[n][n].version + 1]
    <2>1. UNCHANGED state /\ (UNCHANGED net \/ Broadcast(n, AliveIn(n) \ {n}, n, e))
        BY <1>15 DEF Announce
    <2>2. e.status \in Ok(n) BY <1>4
    <2> HIDE DEF e
    <2> QED BY <1>3, <1>7, <1>8, <1>11, <2>1, <2>2
<1>16. ASSUME NEW n \in Nodes, Restart(n) PROVE Evidence'
    <2>1. \A m \in Nodes : OwnTable(n)[m].status \in Ok(m) BY <1>4 DEF OwnTable, Unknown
    <2> QED BY <1>3, <1>8, <1>9, <1>16, <2>1 DEF Restart
<1>17. ASSUME NEW n \in Nodes, WriteData(n) PROVE Evidence'
    <2> DEFINE e == [state[n][n] EXCEPT !.version = @ + 1]
    <2>1. e.status = state[n][n].status BY SMTT(30), <1>1 DEF Types, Entries, Unknown
    <2>2. state' = [state EXCEPT ![n][n] = e] /\ net' = net BY <1>17 DEF WriteData
    <2> HIDE DEF e
    <2> QED BY <1>3, <1>5, <1>8, <1>10, <2>1, <2>2
<1>18. ASSUME NEW n \in Nodes, Discovery(n) PROVE Evidence'
    <2>1. PICK m \in Nodes : PodHealthy(n, m) \/ PodUnhealthy(n, m) \/ PodDeleted(n, m)
        BY <1>18 DEF Discovery
    <2>2. ASSUME NEW s \in Ok(m), PodEvent(n, m, s) PROVE Evidence'
        <3> DEFINE e == [status |-> s, version |-> state[n][m].version + 1]
        <3>1. state' = [state EXCEPT ![n][m] = e] /\ net' = net BY <2>2 DEF PodEvent
        <3>2. e.status \in Ok(m) BY <2>2
        <3> HIDE DEF e
        <3> QED BY <1>3, <1>8, <1>10, <3>1, <3>2
    <2>3. CASE PodHealthy(n, m) BY <1>4, <2>2, <2>3 DEF PodHealthy
    <2>4. CASE PodUnhealthy(n, m)
        <3>1. /\ evidence'[m] >= 1 /\ (evidence[m] >= 1 => evidence'[m] = 2)
              /\ UNCHANGED task
            BY SMTT(30), <1>1, <2>4 DEF Types, PodUnhealthy, Against, PodEvent
        <3>2. (\E x \in Nodes : Accuses(x, m)') => evidence[m] >= 1
            BY <1>1, <3>1 DEF Counted, Accuses
        <3>3. Suspected \in Ok(m) BY <1>6, <3>1, <3>2
        <3> QED BY <2>2, <2>4, <3>3 DEF PodUnhealthy
    <2>5. CASE PodDeleted(n, m)
        <3>1. evidence'[m] = 2 BY SMTT(30), <1>1, <2>5 DEF Types, PodDeleted, Against
        <3> QED BY <1>6, <2>2, <2>5, <3>1 DEF PodDeleted
    <2> QED BY <2>1, <2>3, <2>4, <2>5
<1>19. ASSUME NEW msg \in net, Receive(msg) PROVE Evidence'
    <2> DEFINE told == Only(msg.about, msg.entry)
               row  == MergeState(state[msg.to], told)
    <2>1. msg.to \in Nodes /\ msg.about \in Nodes /\ msg.entry \in Entries
        BY <1>1 DEF Types, Messages
    <2>2. state[msg.to] \in [Nodes -> Entries] /\ told \in [Nodes -> Entries]
        BY <1>1, <2>1, OnlyEntry DEF Types
    <2>3. \A m \in Nodes : told[m].status \in Ok(m)
        BY <1>4, <1>5, <2>1 DEF Only, Unknown
    <2> HIDE DEF told
    <2>4. \A m \in Nodes : row[m] \in {state[msg.to][m], told[m]} BY <2>2, Merge
    <2>5. \A m \in Nodes : row[m].status \in Ok(m) BY <1>5, <2>1, <2>3, <2>4
    <2>6. state' = [state EXCEPT ![msg.to] = row] /\ net' \in SUBSET net
        BY <1>19 DEF Receive, told
    <2> HIDE DEF row
    <2> QED BY <1>3, <1>8, <1>9, <2>1, <2>5, <2>6
<1>20. ASSUME NEW n \in Nodes,
              \/ Start(n) \/ ChoosePeer(n) \/ NoPeer(n) \/ LosePing(n) \/ EndBroadcast(n)
              \/ Stop(n) \/ Crash(n)
       PROVE  Evidence'
    <2>1. UNCHANGED state /\ net' \in SUBSET net
        BY <1>20 DEF Start, ChoosePeer, NoPeer, LosePing, EndBroadcast, Stop, Crash
    <2> QED BY <1>3, <1>7, <1>8, <2>1
<1>21. ASSUME NEW msg \in net, Drop(msg) PROVE Evidence'
    BY <1>3, <1>7, <1>8, <1>21 DEF Drop
<1>22. CASE UNCHANGED vars BY <1>3, <1>7, <1>8, <1>22 DEF vars
<1> QED BY <1>12, <1>13, <1>14, <1>15, <1>16, <1>17, <1>18, <1>19, <1>20, <1>21, <1>22
           DEF Next, Round

-----------------------------------------------------------------------------
(* For every cluster: what tables, broadcasts and unfinished rounds say of *)
(* a node never exceeds the failures of it that were seen.                 *)
THEOREM Inductive == Spec => []IInv
<1>1. Init => IInv
    <2> SUFFICES ASSUME Init PROVE IInv OBVIOUS
    <2>1. Types
        BY SMTT(30), MembershipAssumption DEF Init, Types, OwnTable, Entries, Unknown, Statuses, Tasks, Idle
    <2>2. Evidence
        <3>1. \A n, m \in Nodes : state[n][m].status \in {Alive, "unknown"} /\ ~Accuses(n, m)
            BY DEF Init, OwnTable, Unknown, Accuses, Idle
        <3> QED BY <3>1 DEF Init, Evidence, Counted, Backed, Alive, Down, Suspected
    <2> QED BY <2>1, <2>2 DEF IInv
<1>2. IInv /\ [Next]_vars => IInv' BY TypeStep, EvidenceStep DEF IInv
<1> QED BY <1>1, <1>2, PTL DEF Spec

(* No single failed ping, lost answer or bad pod report takes a node out   *)
(* of the mesh, however tables and broadcasts cross: connect_to_peer       *)
(* escalates to Down only on a second failure, or a pod was deleted.       *)
THEOREM DownNeedsTwoFailuresAlways == Spec => []DownNeedsTwoFailures
<1>1. IInv => DownNeedsTwoFailures
    <2> SUFFICES ASSUME IInv PROVE DownNeedsTwoFailures OBVIOUS
    <2>1. \A n \in Nodes :
             \/ task[n].at \in {"idle", "broadcast"}
             \/ task[n].at \in {"chosen", "answered", "failed"} /\ task[n].peer \in Nodes
        BY DEF IInv, Types, Tasks
    <2>2. TypeOK BY <2>1 DEF IInv, Types, Messages, TypeOK
    <2>3. \A n, m \in Nodes : Status(n, m) = Down => evidence[m] = 2
        BY DEF IInv, Evidence, Backed, Status
    <2> QED BY <2>2, <2>3 DEF DownNeedsTwoFailures
<1> QED BY <1>1, Inductive, PTL

(* What a running node knows of another is never replaced by an older      *)
(* version, whichever of pings, answers, late broadcasts and pod reports   *)
(* comes first: only a restart forgets.                                    *)
NeverOlder ==
    \A n, m \in Nodes : process[n] # "dead" => state'[n][m].version >= state[n][m].version

(* MergeState compares versions, and no other path to a table lowers one:  *)
(* NeverOlder holds of every step, in any cluster.                         *)
THEOREM NothingGetsOlder == Spec => [][NeverOlder]_vars
<1>1. ASSUME IInv, [Next]_vars PROVE NeverOlder
    <2>1. Types BY <1>1 DEF IInv
    <2>2. \A n, m \in Nodes : state[n][m].version \in Nat
        BY SMTT(30), <2>1, EntryFacts DEF Types
    <2>3. ASSUME UNCHANGED state PROVE NeverOlder BY SMTT(30), <2>2, <2>3 DEF NeverOlder
    <2>4. ASSUME NEW n \in Nodes, NEW theirs \in [Nodes -> Entries],
                 state' = [state EXCEPT ![n] = MergeState(state[n], theirs)]
          PROVE  NeverOlder
        <3>1. \A m \in Nodes : theirs[m].version \in Nat BY SMTT(30), EntryFacts
        <3>2. \A m \in Nodes : MergeState(state[n], theirs)[m].version >= state[n][m].version
            BY SMTT(30), <2>2, <3>1 DEF MergeState, Newer
        <3> HIDE DEF MergeState
        <3> QED BY SMTT(30), <2>1, <2>2, <2>4, <3>2 DEF NeverOlder, Types
    <2>5. ASSUME NEW n \in Nodes, NEW p \in Nodes, NEW e, e.version >= state[n][p].version,
                 state' = [state EXCEPT ![n][p] = e]
          PROVE  NeverOlder
        BY SMTT(30), <2>1, <2>2, <2>5 DEF NeverOlder, Types
    <2>6. ASSUME NEW n \in Nodes, Ping(n) PROVE NeverOlder
        <3>1. task[n].peer \in Nodes /\ state[n] \in [Nodes -> Entries]
            BY <2>1, <2>6 DEF Ping, Types, Tasks
        <3>2. state' = [state EXCEPT ![task[n].peer] = MergeState(state[task[n].peer], state[n])]
            BY <2>6 DEF Ping
        <3> QED BY <2>4, <3>1, <3>2
    <2>7. ASSUME NEW n \in Nodes, ApplyAnswer(n) PROVE NeverOlder
        <3> DEFINE p == task[n].peer
                   v == IF Known(n, p) THEN state[n][p].version ELSE 1
                   e == [status |-> task[n].status, version |-> v]
        <3>1. p \in Nodes BY <2>1, <2>7 DEF ApplyAnswer, Types, Tasks
        <3>2. UNCHANGED state \/ state' = [state EXCEPT ![n][p] = e]
            BY <2>7 DEF ApplyAnswer
        <3>3. e.version >= state[n][p].version BY SMTT(30), <2>2, <3>1 DEF Known, Unknown
        <3> HIDE DEF e
        <3> QED BY <2>3, <2>5, <3>1, <3>2, <3>3
    <2>8. ASSUME NEW n \in Nodes, Restart(n) PROVE NeverOlder
        BY SMTT(30), <2>1, <2>2, <2>8 DEF Restart, NeverOlder, Types
    <2>9. ASSUME NEW n \in Nodes, WriteData(n) PROVE NeverOlder
        <3> DEFINE e == [state[n][n] EXCEPT !.version = @ + 1]
        <3>1. e.version = state[n][n].version + 1 BY SMTT(30), <2>1 DEF Types, Entries, Unknown
        <3>2. state' = [state EXCEPT ![n][n] = e] BY <2>9 DEF WriteData
        <3> HIDE DEF e
        <3>3. e.version >= state[n][n].version BY SMTT(30), <2>2, <3>1
        <3> QED BY <2>5, <3>2, <3>3
    <2>10. ASSUME NEW n \in Nodes, NEW m \in Nodes, NEW s, PodEvent(n, m, s) PROVE NeverOlder
        <3> DEFINE e == [status |-> s, version |-> state[n][m].version + 1]
        <3>1. state' = [state EXCEPT ![n][m] = e] BY <2>10 DEF PodEvent
        <3>2. e.version >= state[n][m].version BY SMTT(30), <2>2
        <3> HIDE DEF e
        <3> QED BY <2>5, <3>1, <3>2
    <2>11. ASSUME NEW n \in Nodes, Discovery(n) PROVE NeverOlder
        BY <2>10, <2>11 DEF Discovery, PodHealthy, PodUnhealthy, PodDeleted
    <2>12. ASSUME NEW msg \in net, Receive(msg) PROVE NeverOlder
        <3>1. /\ msg.to \in Nodes /\ msg.about \in Nodes /\ msg.entry \in Entries
              /\ state' = [state EXCEPT ![msg.to] =
                             MergeState(state[msg.to], Only(msg.about, msg.entry))]
            BY <2>1, <2>12 DEF Types, Messages, Receive
        <3>2. Only(msg.about, msg.entry) \in [Nodes -> Entries] BY <3>1, OnlyEntry
        <3> QED BY <2>4, <3>1, <3>2
    <2>13. ASSUME NEW n \in Nodes,
                  \/ Start(n) \/ ChoosePeer(n) \/ NoPeer(n) \/ LosePing(n) \/ Suspect(n)
                  \/ EndBroadcast(n) \/ Announce(n) \/ Stop(n) \/ Crash(n)
           PROVE  NeverOlder
        BY <2>3, <2>13 DEF Start, ChoosePeer, NoPeer, LosePing, Suspect, EndBroadcast,
                           Announce, Stop, Crash
    <2>14. ASSUME NEW msg \in net, Drop(msg) PROVE NeverOlder BY <2>3, <2>14 DEF Drop
    <2>15. CASE UNCHANGED vars BY <2>3, <2>15 DEF vars
    <2> QED BY <1>1, <2>6, <2>7, <2>8, <2>9, <2>11, <2>12, <2>13, <2>14, <2>15 DEF Next, Round
<1> QED BY <1>1, Inductive, PTL DEF Spec

=============================================================================
