----------------------------- MODULE MCJobQueue ------------------------------
(* An instance of JobQueue for TLC. *)
EXTENDS JobQueue

TwoUrls == <<"u1", "u2">>

=============================================================================
