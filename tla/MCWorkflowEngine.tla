-------------------------- MODULE MCWorkflowEngine --------------------------
(* Workflow definitions for TLC.                                            *)
EXTENDS WorkflowEngine

FourSteps == {"a", "b", "c", "d"}

\* Two roots; b, if its condition holds, after both; d, delayed, after one.
MixedDependsOn    == [s \in FourSteps |-> IF s = "b" THEN {"a", "c"} ELSE {}]
MixedDependsOnAny == [s \in FourSteps |-> IF s = "d" THEN {"a", "c"} ELSE {}]
MixedOnFailure    == [s \in FourSteps |->
                        IF s = "c" THEN "continue_next_step" ELSE "fail_workflow"]

MixedMaxAttempts  == [s \in FourSteps |-> IF s = "c" THEN 2 ELSE 1]

\* The shape of the worker registration workflow: two branches of different
\* length that join (a then b, c alone, then d).
JoinDependsOn == [s \in FourSteps |-> CASE s = "b" -> {"a"}
                                        [] s = "d" -> {"b", "c"}
                                        [] OTHER -> {}]
JoinMaxAttempts == [s \in FourSteps |-> 1]
NoDependsOnAny == [s \in FourSteps |-> {}]
JoinOnFailure == [s \in FourSteps |-> IF s = "c" THEN "continue_next_step"
                                      ELSE "fail_workflow"]

=============================================================================
