----------------------------- MODULE MCMeshSync -----------------------------
(* Instances of MeshSync for TLC. *)
EXTENDS MeshSync

\* Every worker is the client's: its server is the one that asks for snapshots.
OfClient == [k \in Keys |-> 1]
=============================================================================
