----------------------------- MODULE MCPipeline -----------------------------
(* One partition: the email rule and the in-app rule of an event (c1, c2), *)
(* and the email rule again when the message is delivered again (c3).      *)
EXTENDS PipelineGates, TLC

CONSTANTS c1, c2, c3

MCCalls == {c1, c2, c3}

Base == [tenant |-> "t1", event |-> "e1", type |-> "ty", recipient |-> "u1",
         channel |-> "email", rule |-> "r1", direct |-> FALSE,
         attachments |-> TRUE, lane |-> "p0", delivery |-> 0, turn |-> 0]

MCRequest ==
    c1 :> Base
    @@ c2 :> [Base EXCEPT !.channel = "in_app", !.turn = 1]
    @@ c3 :> [Base EXCEPT !.delivery = 1, !.turn = 2]

(* Without Kafka: the same event posted twice, each POST a lane of its own. *)
DirectCalls == {c1, c3}

DirectRequest == c1 :> Base @@ c3 :> [Base EXCEPT !.lane = "p1"]

Plain == [optOut |-> {}, quiet |-> NoQuiet, digest |-> FALSE,
          address |-> [ch \in Channels |-> "a1"]]

(* Quiet in the second of the two minutes of the day, over midnight.       *)
Night == [start |-> 1, end |-> 0, zone |-> 0]

MCPrefChoices ==
    { [Plain EXCEPT !.quiet = Night],
      [Plain EXCEPT !.optOut = {<<"all", "ty">>}],
      [Plain EXCEPT !.digest = TRUE] }

MCLimitChoices == { [limit |-> "timed", left |-> 1] }
=============================================================================
