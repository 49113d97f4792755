------------------------- MODULE MCWorkerLifecycle --------------------------
(***************************************************************************)
(* Instances of WorkerLifecycle for TLC.                                   *)
(***************************************************************************)
EXTENDS WorkerLifecycle, TLC

(***************************************************************************)
(* Models are only compared for equality.                                  *)
(***************************************************************************)
ModelSymmetry == Permutations(Models)

(***************************************************************************)
(* Bound: nothing is claimed of a url whose registration has raced its     *)
(* removal, so what follows a race is cut off, but for what leads the      *)
(* health loop to find a worker Failed in its schedule.                    *)
(***************************************************************************)
UpToARace ==
  \/ raced = {}
  \/ \E i \in next_check : workers[i] # None /\ Status(workers[i]) = "Failed"
=============================================================================
