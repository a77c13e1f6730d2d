---------------------------- MODULE MCRealtime ----------------------------
(* Two events for the in-app channel of one user, one after the other, and *)
(* two sockets of that user.                                               *)
EXTENDS Realtime, TLC

CONSTANTS c1, c2

MCCalls == {c1, c2}

Base == [tenant |-> "t1", event |-> "e1", type |-> "ty", recipient |-> "u1",
         channel |-> "in_app", rule |-> "r1", direct |-> FALSE,
         attachments |-> FALSE, lane |-> "p0", delivery |-> 0, turn |-> 0]

MCRequest ==
    c1 :> Base
    @@ c2 :> [Base EXCEPT !.event = "e2", !.delivery = 1, !.turn = 1]

MCOwnerOf == [s \in Sockets |-> <<"t1", "u1">>]
=============================================================================
