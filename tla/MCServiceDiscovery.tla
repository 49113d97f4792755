-------------------------- MODULE MCServiceDiscovery --------------------------
(* Instances of ServiceDiscovery for TLC. *)
EXTENDS ServiceDiscovery

\* A pod of a StatefulSet and its successor: the same name, another uid, and
\* the same address.
OneName == [p \in Pods |-> "pod"]
OneUrl == [p \in Pods |-> "url"]

=============================================================================
