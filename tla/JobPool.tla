------------------------------- MODULE JobPool --------------------------------
(***************************************************************************)
(* What the job queue promises to those who submit jobs: a job that is     *)
(* accepted is executed, once; nothing is said of the order, and a job     *)
(* that runs may submit further ones.                                      *)
(***************************************************************************)
EXTENDS Naturals

CONSTANTS
    Jobs,
    Initial     \* the jobs there are from the beginning

VARIABLE accepted   \* how many of each job have been accepted and not ended

Init == accepted = [j \in Jobs |-> IF j \in Initial THEN 1 ELSE 0]

Accept(j) == accepted' = [accepted EXCEPT ![j] = @ + 1]

Finish(j) == accepted[j] > 0 /\ accepted' = [accepted EXCEPT ![j] = @ - 1]

Next == \E j \in Jobs : Accept(j) \/ Finish(j)

Spec == Init /\ [][Next]_accepted

FairSpec == Spec /\ \A j \in Jobs : WF_accepted(Finish(j))

=============================================================================
