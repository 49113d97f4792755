---------------------------- MODULE MCCrdtOrMap ----------------------------
(* Instances of CrdtOrMap for TLC. *)
EXTENDS CrdtOrMap

CONSTANTS t1, t2

OneTask == [r \in Replicas |-> {t1}]

\* One task per replica and all operations; the rate-limit counters, which
\* several streams merge into and which are neither removed nor collected (the
\* second replica is a peer with one task); and a state store, which several
\* tasks write while the collector visits it, and which is not merged, so that
\* one replica is enough.
GatewayUses ==
    { [tasks |-> OneTask, removes |-> TRUE, merges |-> TRUE, collected |-> TRUE],
      [tasks |-> [OneTask EXCEPT ![1] = {t1, t2}],
       removes |-> FALSE, merges |-> TRUE, collected |-> FALSE],
      [tasks |-> [r \in Replicas |-> IF r = 1 THEN {t1, t2} ELSE {}],
       removes |-> TRUE, merges |-> FALSE, collected |-> TRUE] }
=============================================================================
