---------------------------- MODULE MCMembership ----------------------------
(***************************************************************************)
(* Three gateways, each started with its predecessor as init_peer.  A      *)
(* behaviour has one kind of trouble; all of them together are out of      *)
(* TLC's reach.                                                            *)
(***************************************************************************)
EXTENDS Membership

Chain == [n \in Nodes |-> IF n = 1 THEN 1 ELSE n - 1]

None == [writes |-> 0, losses |-> 0, stops |-> 0, pods |-> 0]

OneTrouble ==
    {[None EXCEPT !.stops = 1], [None EXCEPT !.losses = 2], [None EXCEPT !.pods = 1],
     [None EXCEPT !.writes = 1]}

=============================================================================
