---------------------------- MODULE MCWebhooks ----------------------------
(* Two events of a rule with a static recipient, one after the other.      *)
(* Resend reports on the mail of the first: it was opened twice, it        *)
(* bounced soft and hard; the hard bounce does not name the address.       *)
EXTENDS DeliveryCallback, TLC

CONSTANTS c1, c2

MCReports ==
    { <<c1, "delivered", 1>>, <<c1, "opened", 1>>, <<c1, "opened", 2>>, <<c1, "hard", 1>>,
      <<c1, "soft", 1>> }

MCCalls == {c1, c2}

Base == [tenant |-> "t1", event |-> "e1", type |-> "ty", recipient |-> "a1",
         channel |-> "email", rule |-> "r1", direct |-> TRUE,
         attachments |-> FALSE, lane |-> "p0", delivery |-> 0, turn |-> 0]

MCRequest ==
    c1 :> Base
    @@ c2 :> [Base EXCEPT !.event = "e2", !.delivery = 1, !.turn = 1]

MCTimedChoices == { [limit |-> "timed", left |-> 1] }
=============================================================================
