------------------------------ MODULE CrdtOrMap ------------------------------
(***************************************************************************)
(* The replicated map under the mesh stores (crdt_kv/{crdt,operation,      *)
(* replica,kv_store}.rs): a last-writer-wins map with tombstones, a        *)
(* Lamport clock and an operation log that replicas exchange.              *)
(*                                                                         *)
(* Several tasks work on one replica.  They are ordered per key by a lock  *)
(* that lives in the map key_locks and is dropped from it again, both by   *)
(* the task that used it and by the tombstone collector; the clock, the    *)
(* metadata, the store and the log are each a shared object of their own.  *)
(*                                                                         *)
(* A value is identified by the operation that wrote it, so the store maps *)
(* a key to the version <<timestamp, replica>> of its insert.              *)
(***************************************************************************)
EXTENDS Integers, FiniteSets, FiniteSetsExt

CONSTANTS Replicas,   \* replica ids; a set of numbers, for UUIDs are ordered
          Keys,
          Tasks,      \* tasks that may call into one replica at a time
          Uses,       \* the ways stores use the map, see UseType
          MaxClock,   \* bound: no local operation once the clock is here
          Threshold,  \* AUTO_COMPACT_THRESHOLD
          None

VARIABLES use,        \* the way the map is used in this behaviour
          clock,      \* LamportClock::counter
          metadata,   \* per key: the winning version, or None
          store,      \* per key: the version whose value is held, or None
          log,        \* OperationLog: a set, for operation ids are unique
          key_locks,  \* per key: the lock in the map, or None
          task,       \* what each task is doing
          gc,         \* the key the tombstone collector is at, or None
          strays,     \* history: tasks whose lock the collector dropped, see GcLock
          shared,     \* history: keys whose critical section two tasks were in
          latest      \* history: the newest version ever recorded of each key

history == <<strays, shared, latest>>
vars == <<use, clock, metadata, store, log, key_locks, task, gc, history>>

\* A store may be used by several tasks, remove keys, merge logs of peers,
\* and be visited by the tombstone collector.
UseType == [tasks: [Replicas -> SUBSET Tasks], removes: BOOLEAN, merges: BOOLEAN, collected: BOOLEAN]

Operation == [key: Keys, ts: Nat, rid: Replicas, remove: BOOLEAN]

Locks == 1 .. Cardinality(Tasks) + 1

Idle == [phase |-> "idle"]

ASSUME CrdtAssumption ==
    /\ Replicas \subseteq Nat /\ IsFiniteSet(Tasks)
    /\ Uses \subseteq UseType
    /\ Threshold \in Nat \ {0} /\ MaxClock \in Nat

------------------------------------------------------------------------------
(* Versions and logs *)

Version(op) == <<op.ts, op.rid>>

\* The order of version_key(): the timestamp, then the replica.
Newer(v, w) == v[1] > w[1] \/ (v[1] = w[1] /\ v[2] > w[2])

\* Variant that keeps the oldest operation on each key.
Compact_KeepsOldest(ops) ==
    {op \in ops : \A other \in ops : other.key = op.key => ~Newer(Version(op), Version(other))}

\* compact: keep the latest operation on each key.
Compact(ops) ==
    {op \in ops : \A other \in ops : other.key = op.key => ~Newer(Version(other), Version(op))}

\* The n newest operations of a log.
Newest(ops, n) ==
    {op \in ops : Cardinality({other \in ops : Newer(Version(other), Version(op))}) < n}

\* append: push, compact once over the threshold, and cut the oldest
\* quarter when there are too many keys for that to help.
Append(ops, op) ==
    LET pushed == ops \union {op}
        short == Compact(pushed)
    IN  IF Cardinality(pushed) <= Threshold THEN pushed
        ELSE IF Cardinality(short) <= Threshold THEN short
        ELSE Newest(short, (Threshold * 3) \div 4)

\* merge of two logs: operations are told apart by replica and timestamp.
MergeLogs(ops, other) ==
    ops \union {op \in other : \A mine \in ops : Version(mine) # Version(op)}

------------------------------------------------------------------------------
(* Metadata: whether a version wins, and what it leaves behind.  The list   *)
(* of versions is compacted to its winner by every call, so it is one       *)
(* version at most.                                                         *)

\* record_insert_metadata, record_remove_metadata: a version wins over older
\* ones; a tombstone is not recorded for a key that nothing is known of.
\* Operation ids are unique, so an equal version is the operation itself.
Wins(r, op) ==
    LET winner == metadata[r][op.key]
    IN  IF winner = None
        THEN op.remove => store[r][op.key] # None
        ELSE Newer(Version(op), winner.version)

\* key_is_tombstoned_or_unknown
TombstonedOrUnknown(r, k) == metadata[r][k] # None => metadata[r][k].tombstone

------------------------------------------------------------------------------
(* Key locks *)

\* The phases of the critical section of a key.
Inside == {"record", "store", "append"}

\* Tasks of r that hold a reference to lock l of key k.
Referrers(r, k, l) ==
    {t \in Tasks : /\ task[r][t].phase \in {"lock", "release"} \union Inside
                   /\ task[r][t].op.key = k /\ task[r][t].lock = l}

\* Tasks of r that hold its mutex.
Holders(r, k, l) == {t \in Referrers(r, k, l) : task[r][t].phase \in Inside}

\* Tasks of r in the critical section of k, whatever lock they hold.
InSection(r, k) == {t \in Tasks : task[r][t].phase \in Inside /\ task[r][t].op.key = k}

\* Arc::strong_count of the lock in the map: the map and the referrers.
StrongCount(r, k) == 1 + Cardinality(Referrers(r, k, key_locks[r][k]))

\* A lock that nobody refers to stands for a newly allocated one.
NewLock(r, k) == CHOOSE l \in Locks : Referrers(r, k, l) = {}

------------------------------------------------------------------------------
(* Steps of a task on replica r *)

\* key_lock_for: take the key's lock from the map, or put one there.
KeyLockFor(r, t, op, todo) ==
    LET l == IF key_locks[r][op.key] # None THEN key_locks[r][op.key] ELSE NewLock(r, op.key)
    IN  /\ key_locks' = [key_locks EXCEPT ![r][op.key] = l]
        /\ task' = [task EXCEPT ![r][t] = [phase |-> "lock", lock |-> l, op |-> op, todo |-> todo]]

\* insert, upsert, try_upsert, try_upsert_if and remove begin by fetching
\* the key's lock; the operation has no timestamp yet.
BeginLocal(r, t, k, remove) ==
    /\ task[r][t] = Idle
    /\ clock[r] < MaxClock
    /\ remove => use.removes
    /\ KeyLockFor(r, t, [key |-> k, ts |-> 0, rid |-> r, remove |-> remove], None)
    /\ UNCHANGED <<use, clock, metadata, store, log, gc, history>>

\* The running operation is the caller's own, not one of a merge.
Local(r, t) == task[r][t].todo = None

\* Lock the key.  A local operation then ticks the clock; the clock has
\* already been moved past the timestamp of a remote one.
Lock(r, t) ==
    LET T == task[r][t] IN
    /\ T.phase = "lock"
    /\ Holders(r, T.op.key, T.lock) = {}
    /\ clock' = [clock EXCEPT ![r] = IF Local(r, t) THEN @ + 1 ELSE @]
    /\ task' = [task EXCEPT ![r][t].phase = "record",
                            ![r][t].op.ts = IF Local(r, t) THEN clock[r] + 1 ELSE @]
    /\ shared' = IF InSection(r, T.op.key) = {} THEN shared
                 ELSE [shared EXCEPT ![r] = @ \union {T.op.key}]
    /\ UNCHANGED <<use, metadata, store, log, key_locks, gc, strays, latest>>

\* try_upsert and try_upsert_if: the updater looks at the value and fails, or
\* wants no change; the lock is given back at once.
Decline(r, t) ==
    LET T == task[r][t] IN
    /\ T.phase = "lock" /\ Local(r, t) /\ ~T.op.remove
    /\ Holders(r, T.op.key, T.lock) = {}
    /\ task' = [task EXCEPT ![r][t].phase = "release"]
    /\ UNCHANGED <<use, clock, metadata, store, log, key_locks, gc, history>>

\* record_insert_metadata or record_remove_metadata.  An operation that does
\* not win changes nothing else.  A local remove writes the log before the
\* store, a local insert after it; a remote operation is in the log already.
Record(r, t) ==
    LET op == task[r][t].op
        wins == Wins(r, op)
    IN
    /\ task[r][t].phase = "record"
    /\ metadata' = IF wins
                   THEN [metadata EXCEPT ![r][op.key] =
                           [version |-> Version(op), tombstone |-> op.remove]]
                   ELSE metadata
    /\ latest' = IF wins /\ Newer(Version(op), latest[r][op.key])
                 THEN [latest EXCEPT ![r][op.key] = Version(op)]
                 ELSE latest
    /\ task' = [task EXCEPT ![r][t].phase = CASE ~wins -> "release"
                                             [] op.remove /\ Local(r, t) -> "append"
                                             [] OTHER -> "store"]
    /\ UNCHANGED <<use, clock, store, log, key_locks, gc, strays, shared>>

\* The value enters the store, or leaves it.
Store(r, t) ==
    LET op == task[r][t].op IN
    /\ task[r][t].phase = "store"
    /\ store' = [store EXCEPT ![r][op.key] = IF op.remove THEN None ELSE Version(op)]
    /\ task' = [task EXCEPT ![r][t].phase =
                  IF Local(r, t) /\ ~op.remove THEN "append" ELSE "release"]
    /\ UNCHANGED <<use, clock, metadata, log, key_locks, gc, history>>

\* A local operation that won enters the log.
AppendLog(r, t) ==
    LET op == task[r][t].op IN
    /\ task[r][t].phase = "append"
    /\ log' = [log EXCEPT ![r] = Append(@, op)]
    /\ task' = [task EXCEPT ![r][t].phase = IF op.remove THEN "store" ELSE "release"]
    /\ UNCHANGED <<use, clock, metadata, store, key_locks, gc, history>>

\* Variant that tolerates one more reference.
Release_CountsOneMore(r, t) ==
    LET T == task[r][t]
        k == T.op.key
    IN
    /\ T.phase = "release"
    /\ key_locks' = IF /\ store[r][k] = None /\ TombstonedOrUnknown(r, k)
                       /\ key_locks[r][k] = T.lock
                       /\ StrongCount(r, k) <= 3 /\ Holders(r, k, T.lock) = {}
                    THEN [key_locks EXCEPT ![r][k] = None]
                    ELSE key_locks
    /\ task' = [task EXCEPT ![r][t] =
                  IF T.todo = None THEN Idle ELSE [phase |-> "apply", todo |-> T.todo]]
    /\ strays' = [strays EXCEPT ![r] = @ \ {t}]
    /\ UNCHANGED <<use, clock, metadata, store, log, gc, shared, latest>>

\* try_cleanup_key_lock, and drop the reference: the lock leaves the map if the
\* key is dead and no other task refers to the lock.
Release(r, t) ==
    LET T == task[r][t]
        k == T.op.key
    IN
    /\ T.phase = "release"
    /\ key_locks' = IF /\ store[r][k] = None /\ TombstonedOrUnknown(r, k)
                       /\ key_locks[r][k] = T.lock
                       /\ StrongCount(r, k) <= 2 /\ Holders(r, k, T.lock) = {}
                    THEN [key_locks EXCEPT ![r][k] = None]
                    ELSE key_locks
    /\ task' = [task EXCEPT ![r][t] =
                  IF T.todo = None THEN Idle ELSE [phase |-> "apply", todo |-> T.todo]]
    /\ strays' = [strays EXCEPT ![r] = @ \ {t}]
    /\ UNCHANGED <<use, clock, metadata, store, log, gc, shared, latest>>

\* merge(log of peer s): note which operations the own log holds.
BeginMerge(r, t, s) ==
    /\ use.merges
    /\ s # r /\ log[s] # {}
    /\ task[r][t] = Idle
    /\ task' = [task EXCEPT ![r][t] = [phase |-> "merge", seen |-> log[r], incoming |-> log[s]]]
    /\ UNCHANGED <<use, clock, metadata, store, log, key_locks, gc, history>>

\* Variant that applies everything the peer has logged and this log did not
\* have, also what newer operations of the key have superseded.
MergeLog_AppliesAll(r, t) ==
    LET T == task[r][t]
        merged == MergeLogs(log[r], T.incoming)
        seen == {Version(op) : op \in T.seen}
    IN
    /\ T.phase = "merge"
    /\ log' = [log EXCEPT ![r] = Compact(merged)]
    /\ task' = [task EXCEPT ![r][t] =
                  [phase |-> "apply", todo |-> {op \in merged : Version(op) \notin seen}]]
    /\ UNCHANGED <<use, clock, metadata, store, key_locks, gc, history>>

\* Under the write lock: merge the logs, compact, and list what is new.
MergeLog(r, t) ==
    LET T == task[r][t]
        merged == Compact(MergeLogs(log[r], T.incoming))
        seen == {Version(op) : op \in T.seen}
    IN
    /\ T.phase = "merge"
    /\ log' = [log EXCEPT ![r] = merged]
    /\ task' = [task EXCEPT ![r][t] =
                  [phase |-> "apply", todo |-> {op \in merged : Version(op) \notin seen}]]
    /\ UNCHANGED <<use, clock, metadata, store, key_locks, gc, history>>

\* Variant that ignores the timestamp it has seen.
ApplyNext_KeepsClock(r, t) ==
    LET todo == task[r][t].todo IN
    /\ task[r][t].phase = "apply"
    /\ \E op \in todo :
          /\ \A other \in todo : ~Newer(Version(op), Version(other))
          /\ clock' = [clock EXCEPT ![r] = @ + 1]
          /\ KeyLockFor(r, t, op, todo \ {op})
    /\ UNCHANGED <<use, metadata, store, log, gc, history>>

\* apply_operation on the oldest new operation: move the clock past it and
\* fetch the key's lock.
ApplyNext(r, t) ==
    LET todo == task[r][t].todo IN
    /\ task[r][t].phase = "apply"
    /\ \E op \in todo :
          /\ \A other \in todo : ~Newer(Version(op), Version(other))
          /\ clock' = [clock EXCEPT ![r] = Max({@, op.ts}) + 1]
          /\ KeyLockFor(r, t, op, todo \ {op})
    /\ UNCHANGED <<use, metadata, store, log, gc, history>>

\* All new operations are applied.
EndMerge(r, t) ==
    /\ task[r][t].phase = "apply" /\ task[r][t].todo = {}
    /\ task' = [task EXCEPT ![r][t] = Idle]
    /\ UNCHANGED <<use, clock, metadata, store, log, key_locks, gc, history>>

(* gc_tombstones, one dead key at a time *)

\* The collector lists the keys that have metadata and no value.
GcList(r, k) ==
    /\ use.collected
    /\ gc[r] = None
    /\ store[r][k] = None /\ metadata[r][k] # None
    /\ gc' = [gc EXCEPT ![r] = [key |-> k, step |-> "check"]]
    /\ UNCHANGED <<use, clock, metadata, store, log, key_locks, task, history>>

\* It skips a key that was written meanwhile.
GcCheck(r) ==
    /\ gc[r] # None /\ gc[r].step = "check"
    /\ gc' = [gc EXCEPT ![r] =
                IF TombstonedOrUnknown(r, @.key) THEN [@ EXCEPT !.step = "lock"] ELSE None]
    /\ UNCHANGED <<use, clock, metadata, store, log, key_locks, task, history>>

\* It drops the key's lock from the map unless a task has it locked or two
\* tasks refer to it.  One task may: the reference that try_cleanup_key_lock
\* allows for is its caller's, and the collector has none.
GcLock(r) ==
    LET k == gc[r].key
        drops == /\ key_locks[r][k] # None
                 /\ StrongCount(r, k) <= 2 /\ Holders(r, k, key_locks[r][k]) = {}
    IN
    /\ gc[r] # None /\ gc[r].step = "lock"
    /\ key_locks' = IF drops THEN [key_locks EXCEPT ![r][k] = None] ELSE key_locks
    /\ strays' = IF drops THEN [strays EXCEPT ![r] = @ \union Referrers(r, k, key_locks[r][k])]
                 ELSE strays
    /\ gc' = [gc EXCEPT ![r].step = "forget"]
    /\ UNCHANGED <<use, clock, metadata, store, log, task, shared, latest>>

\* It forgets a tombstone that is older than the grace period (old).
GcForget(r, old) ==
    LET k == gc[r].key IN
    /\ gc[r] # None /\ gc[r].step = "forget"
    /\ metadata' = IF old /\ store[r][k] = None /\ TombstonedOrUnknown(r, k)
                   THEN [metadata EXCEPT ![r][k] = None]
                   ELSE metadata
    /\ gc' = [gc EXCEPT ![r] = None]
    /\ UNCHANGED <<use, clock, store, log, key_locks, task, history>>

------------------------------------------------------------------------------
Init ==
    /\ use \in Uses
    /\ clock = [r \in Replicas |-> 0]
    /\ metadata = [r \in Replicas |-> [k \in Keys |-> None]]
    /\ store = [r \in Replicas |-> [k \in Keys |-> None]]
    /\ log = [r \in Replicas |-> {}]
    /\ key_locks = [r \in Replicas |-> [k \in Keys |-> None]]
    /\ task = [r \in Replicas |-> [t \in Tasks |-> Idle]]
    /\ gc = [r \in Replicas |-> None]
    /\ strays = [r \in Replicas |-> {}]
    /\ shared = [r \in Replicas |-> {}]
    /\ latest = [r \in Replicas |-> [k \in Keys |-> <<0, r>>]]

Next ==
    \E r \in Replicas :
       \/ \E t \in use.tasks[r] :
             \/ \E k \in Keys, remove \in BOOLEAN : BeginLocal(r, t, k, remove)
             \/ Lock(r, t)
             \/ Decline(r, t)
             \/ Record(r, t)
             \/ Store(r, t)
             \/ AppendLog(r, t)
             \/ Release(r, t)
             \/ \E s \in Replicas : BeginMerge(r, t, s)
             \/ MergeLog(r, t)
             \/ ApplyNext(r, t)
             \/ EndMerge(r, t)
       \/ \E k \in Keys : GcList(r, k)
       \/ GcCheck(r)
       \/ GcLock(r)
       \/ \E old \in BOOLEAN : GcForget(r, old)

Spec == Init /\ [][Next]_vars

------------------------------------------------------------------------------
(* Properties *)

\* Type invariant.
TypeOK ==
    /\ use \in Uses
    /\ clock \in [Replicas -> Nat]
    /\ \A r \in Replicas, k \in Keys :
          /\ metadata[r][k] # None => metadata[r][k].version \in Nat \X Replicas
          /\ store[r][k] # None => store[r][k] \in Nat \X Replicas
          /\ key_locks[r][k] \in Locks \union {None}
    /\ \A r \in Replicas : gc[r] # None => gc[r] \in [key: Keys, step: {"check", "lock", "forget"}]
    /\ \A r \in Replicas : log[r] \subseteq Operation /\ Cardinality(log[r]) <= Threshold

AtRest(r) == \A t \in Tasks : task[r][t] = Idle

\* What the log of r says the value of key k is.
LatestInLog(r, k) ==
    LET ops == {op \in log[r] : op.key = k}
        last == {op \in ops : \A other \in ops : ~Newer(Version(other), Version(op))}
    IN  IF \E op \in last : ~op.remove THEN Version(CHOOSE op \in last : TRUE) ELSE None

\* A replica at rest holds for every key exactly what its operation log says:
\* the value of the key's latest insert, and nothing if that operation is a
\* remove.  Two replicas with the same latest operations therefore hold the
\* same map, whatever order the logs arrived in, and whichever tombstones
\* were collected meanwhile.  This is up to keys whose critical section was
\* shared.  The state is well typed: the log never outgrows its threshold.
StateDerivedFromLog ==
    /\ TypeOK
    /\ \A r \in Replicas : AtRest(r) =>
          \A k \in Keys \ shared[r] : store[r][k] = LatestInLog(r, k)

\* A local write is never refused: the clock is past every version the key
\* has seen, so insert and upsert return the value that was passed in, up to
\* keys whose critical section was shared.
LocalWriteWins ==
    \A r \in Replicas, t \in Tasks :
       (/\ task[r][t].phase = "record" /\ Local(r, t) /\ ~task[r][t].op.remove
        /\ task[r][t].op.key \notin shared[r])
          => Wins(r, task[r][t].op)

\* At most one task is inside the critical section of a key, unless the
\* collector has dropped the lock of one of them, which it does to a task that
\* has fetched the lock and not yet taken it (gc_tombstones_with_grace).
KeyLockExclusive ==
    \A r \in Replicas, k \in Keys :
       \A t, u \in InSection(r, k) : t = u \/ {t, u} \cap strays[r] # {}

\* What a replica has overwritten or removed does not come back: a value that
\* enters the store is the newest that was ever recorded of its key, although
\* the collector has forgotten tombstones and peers still send the operations
\* these had suppressed; up to keys whose critical section was shared.
NothingComesBack ==
    [][\A r \in Replicas : \A k \in Keys \ shared[r] :
          store'[r][k] # store[r][k] /\ store'[r][k] # None
             => store'[r][k] = latest[r][k]]_vars
=============================================================================
