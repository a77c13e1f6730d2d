----------------------------- MODULE MCRelease -----------------------------
(* Two tenants, a user each, an email each: c1 of the sandboxed tenant t1, *)
(* c2 of t2.  Quiet for one minute of three.                               *)
EXTENDS QuietHoursRelease, TLC

CONSTANTS c1, c2

MCCalls == {c1, c2}

Base == [tenant |-> "t1", event |-> "e1", type |-> "ty", recipient |-> "u1",
         channel |-> "email", rule |-> "r1", direct |-> FALSE,
         attachments |-> FALSE, lane |-> "p0", delivery |-> 0, turn |-> 0]

MCRequest ==
    c1 :> Base
    @@ c2 :> [Base EXCEPT !.tenant = "t2", !.rule = "r2", !.delivery = 1,
                     !.turn = 1]

Plain == [optOut |-> {}, quiet |-> NoQuiet, digest |-> FALSE,
          address |-> [ch \in Channels |-> "a1"]]

Night == [start |-> Day - 1, end |-> 0, zone |-> 0]

MCPrefChoices == { Plain, [Plain EXCEPT !.quiet = Night] }

NoLimitChoices == {}

MCLimitChoices == { [limit |-> "forever", left |-> 0] }
=============================================================================
